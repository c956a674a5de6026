------------------------------ MODULE BrokersProofs ------------------------------
(***************************************************************************)
(* Proofs about the Kafka laboratory - what was delivered is kept by every *)
(* in-sync replica, and volumes belong to the pinned topology - about the  *)
(* single-flight cache fill and the sandbox of the Redis laboratory, and   *)
(* about its experiments: honest reports, and recovery records that come   *)
(* before the change and go after it; for every number of messages,        *)
(* commands, failures, clients, processes and scenarios of the suite.      *)
(***************************************************************************)
EXTENDS MCBrokers, TLAPS, FiniteSetTheorems

Messages == 1..MaxMsgs
Parts == [exists : BOOLEAN, log : [Brokers -> SUBSET Messages], isr : SUBSET Brokers, leader : Brokers \cup {None}]
Sites == [env : Topologies, pin : Topologies \cup {None}, volumes : SUBSET Topologies, kraft : BOOLEAN]
KafkaOps == {None, "up", "down", "reset", "recover"}
KafkaSteps == {None, "pin", "env", "zk", "brokers", "topics", "resume", "remove", "unpin", "first", "second"}
Orders == [op : KafkaOps, at : KafkaSteps, mode : Topologies \cup {None}]

(* The leader is in sync, and a topic that does not exist has delivered nothing. *)
LeaderInSync == part.exists /\ part.leader # None => part.leader \in part.isr
NothingWithoutTopic == ~ part.exists => acked = {}

(* What the partition and its clients know. *)
PartInv ==
    /\ part \in Parts /\ acked \in SUBSET Messages
    /\ DeliveredIsKept
    /\ LeaderInSync
    /\ NothingWithoutTopic

(* What a command of lab.sh knows of the pin, the id and the volumes at each of its steps. *)
CommandKnows ==
    /\ cmd.op = "up" /\ cmd.mode = "kraft" => site.kraft
    /\ cmd.op = "up" /\ cmd.at \in {"env", "zk", "brokers"} => site.pin = cmd.mode
    /\ cmd.op = "up" => cmd.mode \in Topologies
    /\ cmd.at = "unpin" => site.volumes = {}

SiteInv ==
    /\ site \in Sites /\ cmd \in Orders
    /\ VolumesArePinned
    /\ CommandKnows

KafkaInv == PartInv /\ SiteInv

-----------------------------------------------------------------------------
(* The partition. *)

LEMMA PartAlone ==
    ASSUME PartInv, UNCHANGED <<part, acked>>
    PROVE  PartInv'
  BY DEF PartInv, DeliveredIsKept, LeaderInSync, NothingWithoutTopic

(* A new message has a number of its own within the bound. *)
LEMMA NewIdIsMessage ==
    ASSUME PartInv, NewId <= MaxMsgs
    PROVE  NewId \in Messages
  <1>1. acked \subseteq Messages /\ \A b \in Brokers : part.log[b] \subseteq Messages
    BY DEF PartInv, Parts
  <1>2. Ids \subseteq Messages
    BY <1>1 DEF Ids
  <1>3. IsFiniteSet(Messages)
    BY FS_Interval, KafkaAssumption DEF Messages
  <1>4. Cardinality(Ids) \in Nat
    BY <1>2, <1>3, FS_Subset, FS_CardinalityType
  <1> QED BY <1>4, KafkaAssumption DEF NewId, Messages

LEMMA ElectKeeps ==
    ASSUME PartInv, NEW b \in Brokers, Elect(b)
    PROVE  PartInv'
  <1> DEFINE live == (part.isr \cap Live(Brokers)) \cup {b}
  <1>1. UNCHANGED acked /\ part' = [part EXCEPT !.leader = b, !.isr = live] /\ b \in part.isr /\ part \in Parts
    BY DEF Elect, MayLead, PartInv
  <1>2. live \in SUBSET Brokers /\ live \subseteq part.isr /\ b \in live
    BY <1>1 DEF Parts
  <1> HIDE DEF live
  <1>3. part' \in Parts /\ part'.leader = b /\ part'.isr = live /\ part'.log = part.log /\ part'.exists = part.exists
    BY <1>1, <1>2 DEF Parts
  <1> QED BY <1>1, <1>2, <1>3 DEF PartInv, DeliveredIsKept, LeaderInSync, NothingWithoutTopic

LEMMA ShrinkKeeps ==
    ASSUME PartInv, NEW b \in Brokers, Shrink(b)
    PROVE  PartInv'
  <1> DEFINE fewer == part.isr \ {b}
  <1>1. UNCHANGED acked /\ part' = [part EXCEPT !.isr = fewer] /\ b # part.leader /\ part \in Parts
    BY DEF Shrink, PartInv
  <1>2. fewer \in SUBSET Brokers /\ fewer \subseteq part.isr /\ (part.leader \in part.isr => part.leader \in fewer)
    BY <1>1 DEF Parts
  <1> HIDE DEF fewer
  <1>3. part' \in Parts /\ part'.leader = part.leader /\ part'.isr = fewer /\ part'.log = part.log /\ part'.exists = part.exists
    BY <1>1, <1>2 DEF Parts
  <1> QED BY <1>1, <1>2, <1>3 DEF PartInv, DeliveredIsKept, LeaderInSync, NothingWithoutTopic

(* A follower becomes in sync with the leader's log, which holds everything delivered. *)
LEMMA CatchUpKeeps ==
    ASSUME PartInv, NEW b \in Brokers, CatchUp(b)
    PROVE  PartInv'
  <1> DEFINE more == part.isr \cup {b}
             logs == [part.log EXCEPT ![b] = part.log[part.leader]]
  <1>1. /\ UNCHANGED acked /\ part' = [part EXCEPT !.log = logs, !.isr = more] /\ part \in Parts
        /\ part.exists /\ part.leader # None
    BY DEF CatchUp, Led, PartInv
  <1>2. part.leader \in part.isr /\ part.leader \in Brokers
    BY <1>1 DEF PartInv, LeaderInSync, Parts
  <1>3. acked \subseteq part.log[part.leader] /\ \A c \in part.isr : acked \subseteq part.log[c]
    BY <1>1, <1>2 DEF PartInv, DeliveredIsKept
  <1>4. /\ logs \in [Brokers -> SUBSET Messages] /\ logs[b] = part.log[part.leader]
        /\ \A c \in Brokers : c # b => logs[c] = part.log[c]
    BY <1>1, <1>2 DEF Parts
  <1>5. more \in SUBSET Brokers /\ \A c \in more : acked \subseteq logs[c]
    BY <1>1, <1>3, <1>4 DEF Parts
  <1>6. part.leader \in more
    BY <1>2
  <1> HIDE DEF more, logs
  <1>7. part' \in Parts /\ part'.leader = part.leader /\ part'.isr = more /\ part'.log = logs /\ part'.exists = part.exists
    BY <1>1, <1>4, <1>5 DEF Parts
  <1> QED BY <1>1, <1>5, <1>6, <1>7 DEF PartInv, DeliveredIsKept, LeaderInSync, NothingWithoutTopic

(* What a message that some brokers stored does to the logs. *)
LEMMA PublishedEffect ==
    ASSUME PartInv, NEW S, Published(S)
    PROVE  /\ part' \in Parts /\ part'.leader = part.leader /\ part'.isr = part.isr /\ part'.exists = part.exists
           /\ \A b \in Brokers : part.log[b] \subseteq part'.log[b]
           /\ \A b \in Brokers : b \in S => NewId \in part'.log[b]
           /\ part.exists /\ NewId \in Messages
  <1> DEFINE id == NewId
             logs == [b \in Brokers |-> IF b \in S THEN part.log[b] \cup {id} ELSE part.log[b]]
  <1>1. part' = [part EXCEPT !.log = logs] /\ part \in Parts /\ part.exists /\ id \in Messages
    BY NewIdIsMessage DEF Published, Led, PartInv
  <1> HIDE DEF id
  <1>2. /\ logs \in [Brokers -> SUBSET Messages] /\ \A b \in Brokers : part.log[b] \subseteq logs[b]
        /\ \A b \in Brokers : b \in S => id \in logs[b]
    BY <1>1 DEF Parts
  <1> HIDE DEF logs
  <1>3. part' \in Parts /\ part'.leader = part.leader /\ part'.isr = part.isr /\ part'.log = logs /\ part'.exists = part.exists
    BY <1>1, <1>2 DEF Parts
  <1> QED BY <1>1, <1>2, <1>3 DEF id

LEMMA DeliveredKeeps ==
    ASSUME PartInv, Delivered
    PROVE  PartInv'
  <1> DEFINE id == NewId
  <1>1. acked' = acked \cup {id} /\ Published(part.isr)
    BY DEF Delivered
  <1>2. /\ part' \in Parts /\ part'.leader = part.leader /\ part'.isr = part.isr /\ part'.exists = part.exists
        /\ \A b \in Brokers : part.log[b] \subseteq part'.log[b]
        /\ \A b \in Brokers : b \in part.isr => id \in part'.log[b]
        /\ part.exists /\ id \in Messages
    BY <1>1, PublishedEffect
  <1> HIDE DEF id
  <1>3. part.isr \subseteq Brokers
    BY DEF PartInv, Parts
  <1>4. \A b \in part.isr : acked \subseteq part.log[b]
    BY <1>2 DEF PartInv, DeliveredIsKept
  <1>5. DeliveredIsKept'
    BY <1>1, <1>2, <1>3, <1>4 DEF DeliveredIsKept
  <1>6. acked' \in SUBSET Messages
    BY <1>1, <1>2 DEF PartInv
  <1> QED BY <1>2, <1>5, <1>6 DEF PartInv, LeaderInSync, NothingWithoutTopic

LEMMA UndeliveredKeeps ==
    ASSUME PartInv, Undelivered
    PROVE  PartInv'
  <1>1. UNCHANGED acked
    BY DEF Undelivered
  <1>2. CASE UNCHANGED part
    BY <1>1, <1>2, PartAlone
  <1>3. ASSUME NEW S \in SUBSET Brokers, Published(S) PROVE PartInv'
    <2>1. /\ part' \in Parts /\ part'.leader = part.leader /\ part'.isr = part.isr /\ part'.exists = part.exists
          /\ \A b \in Brokers : part.log[b] \subseteq part'.log[b]
      BY <1>3, PublishedEffect
    <2>2. part.isr \subseteq Brokers
      BY DEF PartInv, Parts
    <2> QED BY <1>1, <2>1, <2>2 DEF PartInv, DeliveredIsKept, LeaderInSync, NothingWithoutTopic
  <1> QED BY <1>2, <1>3 DEF Undelivered

(* A topic that is created holds nothing, and nothing was delivered to it. *)
LEMMA NewPartKeeps ==
    ASSUME PartInv, part' = NewPart, acked' = {}
    PROVE  PartInv'
  <1>1. \E b \in Brokers : TRUE
    <2>1. Brokers # {}
      BY KafkaAssumption, FS_EmptySet
    <2> QED BY <2>1
  <1>2. PICK b \in Brokers : b = CHOOSE c \in Brokers : TRUE
    BY <1>1
  <1>3. NewPart = [exists |-> TRUE, log |-> [c \in Brokers |-> {}], isr |-> Brokers, leader |-> b]
    BY <1>2 DEF NewPart
  <1>4. NewPart \in Parts /\ NewPart.isr = Brokers /\ NewPart.leader \in Brokers /\ NewPart.exists
    BY <1>3 DEF Parts
  <1> QED BY <1>4 DEF PartInv, DeliveredIsKept, LeaderInSync, NothingWithoutTopic

LEMMA NoPartKeeps ==
    ASSUME PartInv, part' = NoPart, acked' = {}
    PROVE  PartInv'
  <1>1. NoPart \in Parts /\ ~ NoPart.exists
    BY DEF NoPart, Parts
  <1> QED BY <1>1 DEF PartInv, DeliveredIsKept, LeaderInSync, NothingWithoutTopic

(* Retention: what is dropped is no longer promised. *)
LEMMA ExpireKeeps ==
    ASSUME PartInv, DemoExpire
    PROVE  PartInv'
  <1> DEFINE logs == [b \in Brokers |-> {}]
  <1>1. acked' = {} /\ part' = [part EXCEPT !.log = logs] /\ part \in Parts
    BY DEF DemoExpire, PartInv
  <1>2. logs \in [Brokers -> SUBSET Messages]
    OBVIOUS
  <1> HIDE DEF logs
  <1>3. part' \in Parts /\ part'.leader = part.leader /\ part'.isr = part.isr /\ part'.exists = part.exists
    BY <1>1, <1>2 DEF Parts
  <1> QED BY <1>1, <1>3 DEF PartInv, DeliveredIsKept, LeaderInSync, NothingWithoutTopic

LEMMA PartKeptByKafka ==
    ASSUME PartInv, KafkaStep \/ ClientStep
    PROVE  PartInv'
  <1>1. ASSUME NEW b \in Brokers, Elect(b) \/ Shrink(b) \/ CatchUp(b) PROVE PartInv'
    BY <1>1, ElectKeeps, ShrinkKeeps, CatchUpKeeps
  <1>2. CASE Seed
    BY <1>2, DeliveredKeeps, UndeliveredKeeps DEF Seed
  <1>3. CASE \E m \in 1..MaxMsgs : Consume(m)
    BY <1>3, PartAlone DEF Consume
  <1>4. CASE Commit
    BY <1>4, PartAlone DEF Commit
  <1> QED BY <1>1, <1>2, <1>3, <1>4 DEF KafkaStep, ClientStep

LEMMA PartKeptByOperator ==
    ASSUME PartInv, Operator
    PROVE  PartInv'
  <1>1. CASE UNCHANGED kafka
    BY <1>1, PartAlone DEF kafka
  <1>2. CASE \E t \in Topologies : BeginUp(t) \/ BeginRecover(t) \/ \E op \in {"down", "reset"} : BeginDown(op, t)
    BY <1>1, <1>2 DEF BeginUp, BeginRecover, BeginDown, Begin
  <1>3. CASE PinStep \/ EnvStep \/ UpZk \/ UpBrokers \/ DownResume \/ Unpin
    BY <1>1, <1>3 DEF PinStep, EnvStep, UpZk, UpBrokers, DownResume, Unpin
  <1>4. CASE UpTopics
    <2>1. CASE part.exists
      BY <1>1, <1>4, <2>1 DEF UpTopics
    <2>2. CASE ~ part.exists
      <3>1. part' = NewPart /\ acked' = acked
        BY <1>4, <2>2 DEF UpTopics
      <3>2. acked' = {}
        BY <2>2, <3>1 DEF PartInv, NothingWithoutTopic
      <3> QED BY <3>1, <3>2, NewPartKeeps
    <2> QED BY <2>1, <2>2
  <1>5. CASE DownRemove
    <2>1. CASE cmd.op = "reset"
      BY <1>5, <2>1, NoPartKeeps DEF DownRemove
    <2>2. CASE cmd.op # "reset"
      BY <1>1, <1>5, <2>2 DEF DownRemove
    <2> QED BY <2>1, <2>2
  <1>6. CASE \E s \in Brokers \cup Zks, kind \in {"stop", "pause-broker", "isolate-broker"} : Fault(s, kind)
    BY <1>1, <1>6 DEF Fault
  <1>7. CASE RecoverFirst \/ RecoverSecond \/ Interrupt \/ Unlock
    BY <1>1, <1>7 DEF RecoverFirst, RecoverSecond, Interrupt, Unlock
  <1> QED BY <1>2, <1>3, <1>4, <1>5, <1>6, <1>7 DEF Operator

LEMMA PartKeptByDemonstration ==
    ASSUME PartInv, Demonstration
    PROVE  PartInv'
  <1>1. CASE UNCHANGED kafka
    BY <1>1, PartAlone DEF kafka
  <1>2. CASE \E t \in Topologies : \E name \in Names(t) : BeginDemo(name)
    BY <1>1, <1>2 DEF BeginDemo
  <1>3. CASE DemoPid \/ DemoWait \/ DemoFails \/ DemoKilled
    BY <1>1, <1>3 DEF DemoPid, DemoWait, DemoFails, DemoKilled
  <1>4. CASE DemoCreate
    BY <1>4, NewPartKeeps DEF DemoCreate
  <1>5. CASE DemoSeed \/ DemoAttempt
    BY <1>5, DeliveredKeeps, UndeliveredKeeps DEF DemoSeed, DemoAttempt
  <1>6. CASE DemoConsume
    BY <1>6, PartAlone DEF DemoConsume
  <1>7. CASE DemoExpire
    BY <1>7, ExpireKeeps
  <1>8. CASE \E s \in Brokers \cup Zks : DemoFault(s)
    BY <1>1, <1>8 DEF DemoFault
  <1>9. CASE DemoExit
    BY <1>1, <1>9 DEF DemoExit, Leave
  <1> QED BY <1>2, <1>3, <1>4, <1>5, <1>6, <1>7, <1>8, <1>9 DEF Demonstration
LEMMA PartKept ==
    ASSUME PartInv, [Next]_vars
    PROVE  PartInv'
  <1>1. CASE UNCHANGED vars
    BY <1>1, PartAlone DEF vars
  <1>2. CASE Next
    BY <1>2, PartKeptByKafka, PartKeptByOperator, PartKeptByDemonstration DEF Next
  <1> QED BY <1>1, <1>2

-----------------------------------------------------------------------------
(* The pin, the saved id and the volumes. *)

LEMMA SiteAlone ==
    ASSUME SiteInv, UNCHANGED <<site, cmd>>
    PROVE  SiteInv'
  BY DEF SiteInv, VolumesArePinned, CommandKnows

(* A command that ends, or goes to a step that presumes nothing. *)
LEMMA EndKeeps ==
    ASSUME SiteInv, UNCHANGED site, End
    PROVE  SiteInv'
  <1>1. cmd' = NoCommand
    BY DEF End
  <1>2. cmd' \in Orders /\ cmd'.op = None /\ cmd'.at = None
    BY <1>1 DEF NoCommand, Orders, KafkaOps, KafkaSteps, None
  <1> QED BY <1>2 DEF SiteInv, VolumesArePinned, CommandKnows, None

LEMMA GotoEffect ==
    ASSUME SiteInv, NEW at \in KafkaSteps, Goto(at)
    PROVE  cmd' \in Orders /\ cmd'.op = cmd.op /\ cmd'.at = at /\ cmd'.mode = cmd.mode
  BY DEF SiteInv, Goto, Orders

LEMMA OnwardKeeps ==
    ASSUME SiteInv, UNCHANGED site, cmd.op # "up", NEW at \in {"remove", "second"}, Goto(at)
    PROVE  SiteInv'
  <1>1. cmd' \in Orders /\ cmd'.op = cmd.op /\ cmd'.at = at
    BY GotoEffect DEF KafkaSteps
  <1> QED BY <1>1 DEF SiteInv, VolumesArePinned, CommandKnows

(* Beginning a command saves a KRaft id unless KRaft volumes would lose theirs. *)
LEMMA BeginKeeps ==
    ASSUME SiteInv, NEW op \in {"up", "down", "reset", "recover"}, NEW at \in {"pin", "resume", "first"},
           NEW t \in Topologies, Begin(op, at, t)
    PROVE  SiteInv'
  <1> DEFINE saved == site.kraft \/ t = "kraft"
  <1>1. site' = [site EXCEPT !.kraft = saved] /\ cmd' = [op |-> op, at |-> at, mode |-> t] /\ site \in Sites
    BY DEF Begin, WithId, SiteInv
  <1>2. saved \in BOOLEAN /\ (site.kraft => saved) /\ (t = "kraft" => saved)
    OBVIOUS
  <1> HIDE DEF saved
  <1>3. /\ site' \in Sites /\ site'.kraft = saved
        /\ site'.pin = site.pin /\ site'.volumes = site.volumes
    BY <1>1, <1>2 DEF Sites
  <1>4. cmd' \in Orders /\ cmd'.op = op /\ cmd'.at = at /\ cmd'.mode = t
    BY <1>1 DEF Orders, KafkaOps, KafkaSteps
  <1>5. VolumesArePinned'
    BY <1>2, <1>3 DEF SiteInv, VolumesArePinned
  <1>6. CommandKnows'
    BY <1>2, <1>3, <1>4 DEF CommandKnows
  <1> QED BY <1>3, <1>4, <1>5, <1>6 DEF SiteInv

(* The pin is saved while it is free or its own: no volume of the other topology exists. *)
LEMMA PinKeeps ==
    ASSUME SiteInv, PinStep
    PROVE  SiteInv'
  <1> DEFINE t == cmd.mode
  <1>1. /\ cmd.op = "up" /\ site.pin \in {None, t} /\ site' = [site EXCEPT !.pin = t] /\ site \in Sites
        /\ t \in Topologies /\ Goto("env")
    BY DEF PinStep, PinAllows, SiteInv, CommandKnows
  <1>2. cmd' \in Orders /\ cmd'.op = "up" /\ cmd'.at = "env" /\ cmd'.mode = t
    BY <1>1, GotoEffect DEF KafkaSteps
  <1> HIDE DEF t
  <1>3. site' \in Sites /\ site'.pin = t /\ site'.volumes = site.volumes /\ site'.kraft = site.kraft
    BY <1>1 DEF Sites
  <1>4. site.volumes \subseteq {t}
    BY <1>1 DEF SiteInv, VolumesArePinned, Sites, Topologies, None
  <1>5. VolumesArePinned'
    BY <1>3, <1>4 DEF SiteInv, VolumesArePinned
  <1>6. t = "kraft" => site.kraft
    BY <1>1 DEF SiteInv, CommandKnows, t
  <1>7. CommandKnows'
    BY <1>1, <1>2, <1>3, <1>6 DEF CommandKnows
  <1> QED BY <1>2, <1>3, <1>5, <1>7 DEF SiteInv

LEMMA EnvKeeps ==
    ASSUME SiteInv, EnvStep
    PROVE  SiteInv'
  <1> DEFINE next == IF cmd.mode = "zk" THEN "zk" ELSE "brokers"
  <1>1. cmd.op = "up" /\ cmd.at = "env" /\ site' = [site EXCEPT !.env = cmd.mode] /\ Goto(next)
    BY DEF EnvStep
  <1>2. next \in {"zk", "brokers"}
    OBVIOUS
  <1> HIDE DEF next
  <1>3. cmd.mode \in Topologies /\ site.pin = cmd.mode /\ site \in Sites
    BY <1>1 DEF SiteInv, CommandKnows
  <1>4. site' \in Sites /\ site'.pin = site.pin /\ site'.volumes = site.volumes /\ site'.kraft = site.kraft
    BY <1>1, <1>3 DEF Sites
  <1>5. cmd' \in Orders /\ cmd'.op = "up" /\ cmd'.at = next /\ cmd'.mode = cmd.mode
    BY <1>1, <1>2, GotoEffect DEF KafkaSteps
  <1> QED BY <1>1, <1>2, <1>3, <1>4, <1>5 DEF SiteInv, VolumesArePinned, CommandKnows

(* Volumes appear only after the pin was saved, and a KRaft volume only with an id. *)
LEMMA VolumesKeep ==
    ASSUME SiteInv, cmd.op = "up", cmd.at \in {"zk", "brokers"}, NEW at \in {"brokers", "topics"}, Goto(at),
           site' = [site EXCEPT !.volumes = @ \cup {cmd.mode}]
    PROVE  SiteInv'
  <1> DEFINE t == cmd.mode
             more == site.volumes \cup {t}
  <1>1. site.pin = t /\ t \in Topologies /\ (t = "kraft" => site.kraft) /\ site \in Sites
    BY DEF SiteInv, CommandKnows
  <1>2. cmd' \in Orders /\ cmd'.op = "up" /\ cmd'.at = at /\ cmd'.mode = t
    BY GotoEffect DEF KafkaSteps
  <1>3. site' = [site EXCEPT !.volumes = more]
    OBVIOUS
  <1>4. /\ more \in SUBSET Topologies /\ more \subseteq {t}
        /\ ("kraft" \in more => site.kraft)
    BY <1>1 DEF SiteInv, VolumesArePinned, Sites
  <1> HIDE DEF t, more
  <1>5. site' \in Sites /\ site'.pin = site.pin /\ site'.volumes = more /\ site'.kraft = site.kraft
    BY <1>1, <1>3, <1>4 DEF Sites
  <1>6. VolumesArePinned'
    BY <1>1, <1>4, <1>5 DEF VolumesArePinned
  <1>7. CommandKnows'
    BY <1>1, <1>2, <1>5 DEF CommandKnows
  <1> QED BY <1>2, <1>5, <1>6, <1>7 DEF SiteInv

(* A reset deletes the volumes before it releases the pin. *)
LEMMA RemoveKeeps ==
    ASSUME SiteInv, DownRemove
    PROVE  SiteInv'
  <1>1. CASE cmd.op # "reset"
    BY <1>1, EndKeeps DEF DownRemove
  <1>2. CASE cmd.op = "reset"
    <2>1. Goto("unpin") /\ site' = [site EXCEPT !.volumes = {}] /\ site \in Sites
      BY <1>2 DEF DownRemove, SiteInv
    <2>2. cmd' \in Orders /\ cmd'.op = "reset" /\ cmd'.at = "unpin"
      BY <1>2, <2>1, GotoEffect DEF KafkaSteps
    <2>3. site' \in Sites /\ site'.volumes = {}
      BY <2>1 DEF Sites
    <2> QED BY <2>2, <2>3 DEF SiteInv, VolumesArePinned, CommandKnows
  <1> QED BY <1>1, <1>2

LEMMA UnpinKeeps ==
    ASSUME SiteInv, Unpin
    PROVE  SiteInv'
  <1>1. site' = [site EXCEPT !.pin = None] /\ site \in Sites /\ site.volumes = {} /\ cmd' = NoCommand
    BY DEF Unpin, End, SiteInv, CommandKnows
  <1>2. site' \in Sites /\ site'.volumes = {}
    BY <1>1 DEF Sites
  <1>3. cmd' \in Orders /\ cmd'.op = None /\ cmd'.at = None
    BY <1>1 DEF NoCommand, Orders, KafkaOps, KafkaSteps, None
  <1> QED BY <1>2, <1>3 DEF SiteInv, VolumesArePinned, CommandKnows, None

LEMMA SiteKeptByOperator ==
    ASSUME SiteInv, Operator
    PROVE  SiteInv'
  <1>1. CASE \E t \in Topologies : BeginUp(t) \/ BeginRecover(t) \/ \E op \in {"down", "reset"} : BeginDown(op, t)
    BY <1>1, BeginKeeps DEF BeginUp, BeginRecover, BeginDown
  <1>2. CASE PinStep \/ EnvStep \/ DownRemove \/ Unpin
    BY <1>2, PinKeeps, EnvKeeps, RemoveKeeps, UnpinKeeps
  <1>3. CASE UpZk \/ UpBrokers
    BY <1>3, VolumesKeep DEF UpZk, UpBrokers
  <1>4. CASE UpTopics \/ RecoverSecond \/ Interrupt
    BY <1>4, EndKeeps DEF UpTopics, RecoverSecond, Interrupt
  <1>5. CASE DownResume \/ RecoverFirst
    BY <1>5, OnwardKeeps DEF DownResume, RecoverFirst
  <1>6. CASE \E s \in Brokers \cup Zks, kind \in {"stop", "pause-broker", "isolate-broker"} : Fault(s, kind)
    BY <1>6, SiteAlone DEF Fault
  <1>7. CASE Unlock
    BY <1>7, SiteAlone DEF Unlock
  <1> QED BY <1>1, <1>2, <1>3, <1>4, <1>5, <1>6, <1>7 DEF Operator

LEMMA SiteKept ==
    ASSUME SiteInv, [Next]_vars
    PROVE  SiteInv'
  <1>1. CASE UNCHANGED vars
    BY <1>1, SiteAlone DEF vars
  <1>2. CASE Operator
    BY <1>2, SiteKeptByOperator
  <1>3. CASE KafkaStep
    BY <1>3, SiteAlone DEF KafkaStep, Elect, Shrink, CatchUp
  <1>4. CASE ClientStep
    BY <1>4, SiteAlone DEF ClientStep, Seed, Consume, Commit
  <1>5. CASE Demonstration
    <2>1. CASE UNCHANGED <<site, cmd>>
      BY <2>1, SiteAlone
    <2>2. CASE \E t \in Topologies : \E name \in Names(t) : BeginDemo(name)
      BY <2>1, <2>2 DEF BeginDemo
    <2>3. CASE DemoPid \/ DemoFails \/ DemoKilled
      BY <2>1, <2>3 DEF DemoPid, DemoFails, DemoKilled
    <2>4. CASE DemoCreate \/ DemoSeed \/ DemoAttempt \/ DemoWait \/ DemoConsume \/ DemoExpire
      BY <2>1, <2>4 DEF DemoCreate, DemoSeed, DemoAttempt, DemoWait, DemoConsume, DemoExpire, DemoRest
    <2>5. CASE \E s \in Brokers \cup Zks : DemoFault(s)
      BY <2>1, <2>5 DEF DemoFault, DemoRest
    <2>6. CASE DemoExit
      BY <2>1, <2>6 DEF DemoExit, Leave
    <2> QED BY <1>5, <2>2, <2>3, <2>4, <2>5, <2>6 DEF Demonstration
  <1> QED BY <1>1, <1>2, <1>3, <1>4, <1>5 DEF Next

LEMMA KafkaInitially ==
    ASSUME Init
    PROVE  KafkaInv
  <1>1. part = NoPart /\ acked = {} /\ cmd = NoCommand /\ site \in [env : Topologies, pin : {None}, volumes : {{}}, kraft : {FALSE}]
    BY DEF Init
  <1>2. NoPart \in Parts /\ ~ NoPart.exists
    BY DEF NoPart, Parts
  <1>3. PartInv
    BY <1>1, <1>2 DEF PartInv, DeliveredIsKept, LeaderInSync, NothingWithoutTopic
  <1>4. site \in Sites /\ site.volumes = {}
    BY <1>1 DEF Sites
  <1>5. cmd \in Orders /\ cmd.op = None /\ cmd.at = None
    BY <1>1 DEF NoCommand, Orders, KafkaOps, KafkaSteps, None
  <1>6. SiteInv
    BY <1>4, <1>5 DEF SiteInv, VolumesArePinned, CommandKnows, None
  <1> QED BY <1>3, <1>6 DEF KafkaInv

(* The inductive invariant of the Kafka laboratory: the partition never loses what was delivered *)
(* from a replica that may lead, and every command of lab.sh knows its pin.                      *)
THEOREM KafkaInvariant == Spec => []KafkaInv
  <1>1. Init => KafkaInv
    BY KafkaInitially
  <1>2. KafkaInv /\ [Next]_vars => KafkaInv'
    BY PartKept, SiteKept DEF KafkaInv
  <1> QED BY <1>1, <1>2, PTL DEF Spec

(* Whatever faults, recoveries and demonstrations went before, every in-sync replica holds every *)
(* message whose delivery callback reported success.                                              *)
THEOREM DeliveredStaysKept == Spec => []DeliveredIsKept
  <1>1. KafkaInv => DeliveredIsKept
    BY DEF KafkaInv, PartInv
  <1> QED BY <1>1, KafkaInvariant, PTL

(* Wherever "up" or "reset" stopped, volumes belong to the pinned topology and KRaft volumes to  *)
(* a saved cluster id.                                                                            *)
THEOREM VolumesStayPinned == Spec => []VolumesArePinned
  <1>1. KafkaInv => VolumesArePinned
    BY DEF KafkaInv, SiteInv
  <1> QED BY <1>1, KafkaInvariant, PTL
-----------------------------------------------------------------------------
(* The single-flight cache fill: the lock has one owner, who asks the origin only after a second *)
(* look found no value.                                                                           *)

FlightPlaces == {"get", "lock", "again", "origin", "put", "release", "done"}
Flights == [value : BOOLEAN, lock : Clients \cup {Unset}, calls : {0, 1}, at : [Clients -> FlightPlaces]]

(* One client at most is past the lock. *)
LockIsHeld == \A c \in Clients : flight.at[c] \in {"again", "origin", "put", "release"} => flight.lock = c

(* A client that leaves knows the value; one that asks the origin knows there is none. *)
PlaceKnows ==
    \A c \in Clients : /\ flight.at[c] \in {"release", "done"} => flight.value
                       /\ flight.at[c] \in {"origin", "put"} => ~ flight.value

(* The origin was asked when there is a value or a client about to store it, and not before. *)
CallsAreCounted ==
    /\ flight.value => flight.calls = 1
    /\ \A c \in Clients : flight.at[c] = "put" => flight.calls = 1
    /\ ~ flight.value /\ (\A c \in Clients : flight.at[c] # "put") => flight.calls = 0

FlightInv == flight \in Flights /\ LockIsHeld /\ PlaceKnows /\ CallsAreCounted

(* What a step of one client does to the places. *)
LEMMA FliesEffect ==
    ASSUME FlightInv, NEW c \in Clients, NEW at, NEW next \in FlightPlaces, NEW new \in Flights, new.at = flight.at,
           Flies(c, at, next, new)
    PROVE  /\ flight' \in Flights /\ flight'.value = new.value /\ flight'.lock = new.lock /\ flight'.calls = new.calls
           /\ flight'.at[c] = next /\ (\A d \in Clients : d # c => flight'.at[d] = flight.at[d])
           /\ flight.at[c] = at
  <1> DEFINE places == [flight.at EXCEPT ![c] = next]
  <1>1. flight' = [new EXCEPT !.at = places] /\ flight.at[c] = at
    BY DEF Flies, Flights
  <1>2. places \in [Clients -> FlightPlaces] /\ places[c] = next /\ \A d \in Clients : d # c => places[d] = flight.at[d]
    BY DEF FlightInv, Flights
  <1> HIDE DEF places
  <1>3. /\ flight' \in Flights /\ flight'.value = new.value /\ flight'.lock = new.lock /\ flight'.calls = new.calls
        /\ flight'.at = places
    BY <1>1, <1>2 DEF Flights
  <1> QED BY <1>1, <1>2, <1>3

LEMMA FlightGetKeeps ==
    ASSUME FlightInv, NEW c \in Clients, FlightGet(c)
    PROVE  FlightInv'
  <1> DEFINE next == IF flight.value THEN "done" ELSE "lock"
  <1>1. Flies(c, "get", next, flight) /\ flight \in Flights
    BY DEF FlightGet, FlightInv
  <1>2. next \in {"done", "lock"} /\ next \in FlightPlaces /\ (next = "done" => flight.value)
    BY DEF FlightPlaces
  <1> HIDE DEF next
  <1>3. /\ flight' \in Flights /\ flight'.value = flight.value /\ flight'.lock = flight.lock /\ flight'.calls = flight.calls
        /\ flight'.at[c] = next /\ (\A d \in Clients : d # c => flight'.at[d] = flight.at[d]) /\ flight.at[c] = "get"
    BY <1>1, <1>2, FliesEffect
  <1> QED BY <1>2, <1>3 DEF FlightInv, LockIsHeld, PlaceKnows, CallsAreCounted

LEMMA FlightLockKeeps ==
    ASSUME FlightInv, NEW c \in Clients, FlightLock(c)
    PROVE  FlightInv'
  <1>1. CASE flight.lock = Unset
    <2> DEFINE new == [flight EXCEPT !.lock = c]
    <2>1. Flies(c, "lock", "again", new)
      BY <1>1 DEF FlightLock
    <2>2. new \in Flights /\ new.at = flight.at /\ new.value = flight.value /\ new.calls = flight.calls /\ new.lock = c
      BY DEF FlightInv, Flights
    <2> HIDE DEF new
    <2>3. /\ flight' \in Flights /\ flight'.value = flight.value /\ flight'.lock = c /\ flight'.calls = flight.calls
          /\ flight'.at[c] = "again" /\ (\A d \in Clients : d # c => flight'.at[d] = flight.at[d]) /\ flight.at[c] = "lock"
      <3>1. "again" \in FlightPlaces
        BY DEF FlightPlaces
      <3>2. /\ flight' \in Flights /\ flight'.value = new.value /\ flight'.lock = new.lock /\ flight'.calls = new.calls
            /\ flight'.at[c] = "again" /\ (\A d \in Clients : d # c => flight'.at[d] = flight.at[d]) /\ flight.at[c] = "lock"
        BY <2>1, <2>2, <3>1, FliesEffect
      <3> QED BY <2>2, <3>2
    <2>4. \A d \in Clients : flight.at[d] \notin {"again", "origin", "put", "release"}
      BY <1>1, SandboxAssumption DEF FlightInv, LockIsHeld
    <2> QED BY <2>3, <2>4 DEF FlightInv, LockIsHeld, PlaceKnows, CallsAreCounted
  <1>2. CASE flight.lock # Unset
    <2>1. Flies(c, "lock", "get", flight) /\ flight \in Flights
      BY <1>2 DEF FlightLock, FlightInv
    <2>2. /\ flight' \in Flights /\ flight'.value = flight.value /\ flight'.lock = flight.lock /\ flight'.calls = flight.calls
          /\ flight'.at[c] = "get" /\ (\A d \in Clients : d # c => flight'.at[d] = flight.at[d]) /\ flight.at[c] = "lock"
      BY <2>1, FliesEffect DEF FlightPlaces
    <2> QED BY <2>2 DEF FlightInv, LockIsHeld, PlaceKnows, CallsAreCounted
  <1> QED BY <1>1, <1>2

(* The second look: without it a client would ask the origin for a value that is there. *)
LEMMA FlightAgainKeeps ==
    ASSUME FlightInv, NEW c \in Clients, FlightAgain(c)
    PROVE  FlightInv'
  <1> DEFINE next == IF flight.value THEN "release" ELSE "origin"
  <1>1. Flies(c, "again", next, flight) /\ flight \in Flights
    BY DEF FlightAgain, FlightInv
  <1>2. /\ next \in {"release", "origin"} /\ next \in FlightPlaces
        /\ (next = "release" => flight.value) /\ (next = "origin" => ~ flight.value)
    BY DEF FlightPlaces
  <1> HIDE DEF next
  <1>3. /\ flight' \in Flights /\ flight'.value = flight.value /\ flight'.lock = flight.lock /\ flight'.calls = flight.calls
        /\ flight'.at[c] = next /\ (\A d \in Clients : d # c => flight'.at[d] = flight.at[d]) /\ flight.at[c] = "again"
    BY <1>1, <1>2, FliesEffect
  <1> QED BY <1>2, <1>3 DEF FlightInv, LockIsHeld, PlaceKnows, CallsAreCounted

(* No other client is past the lock. *)
LEMMA OthersWait ==
    ASSUME FlightInv, NEW c \in Clients, flight.at[c] \in {"again", "origin", "put", "release"}
    PROVE  flight.lock = c /\ \A d \in Clients : d # c => flight.at[d] \notin {"again", "origin", "put", "release"}
  BY DEF FlightInv, LockIsHeld

LEMMA FlightOriginKeeps ==
    ASSUME FlightInv, NEW c \in Clients, FlightOrigin(c)
    PROVE  FlightInv'
  <1>1. flight.at[c] = "origin" /\ Flies(c, "origin", "put", [flight EXCEPT !.calls = @ + 1])
    BY DEF FlightOrigin, Flies
  <1>2. flight.lock = c /\ \A d \in Clients : d # c => flight.at[d] \notin {"again", "origin", "put", "release"}
    BY <1>1, OthersWait
  <1>3. flight.calls = 0 /\ ~ flight.value
    BY <1>1, <1>2 DEF FlightInv, PlaceKnows, CallsAreCounted
  <1> DEFINE new == [flight EXCEPT !.calls = 1]
  <1>4. Flies(c, "origin", "put", new)
    BY <1>1, <1>3
  <1>5. new \in Flights /\ new.at = flight.at /\ new.value = flight.value /\ new.calls = 1 /\ new.lock = flight.lock
    BY DEF FlightInv, Flights
  <1> HIDE DEF new
  <1>6. /\ flight' \in Flights /\ flight'.value = flight.value /\ flight'.lock = flight.lock /\ flight'.calls = 1
        /\ flight'.at[c] = "put" /\ \A d \in Clients : d # c => flight'.at[d] = flight.at[d]
    BY <1>4, <1>5, FliesEffect DEF FlightPlaces
  <1> QED BY <1>2, <1>3, <1>6 DEF FlightInv, LockIsHeld, PlaceKnows, CallsAreCounted

LEMMA FlightPutKeeps ==
    ASSUME FlightInv, NEW c \in Clients, FlightPut(c)
    PROVE  FlightInv'
  <1> DEFINE new == [flight EXCEPT !.value = TRUE]
  <1>1. flight.at[c] = "put" /\ Flies(c, "put", "release", new)
    BY DEF FlightPut, Flies
  <1>2. flight.lock = c /\ \A d \in Clients : d # c => flight.at[d] \notin {"again", "origin", "put", "release"}
    BY <1>1, OthersWait
  <1>3. flight.calls = 1
    BY <1>1 DEF FlightInv, CallsAreCounted
  <1>4. new \in Flights /\ new.at = flight.at /\ new.value /\ new.calls = flight.calls /\ new.lock = flight.lock
    BY DEF FlightInv, Flights
  <1> HIDE DEF new
  <1>5. /\ flight' \in Flights /\ flight'.value /\ flight'.lock = flight.lock /\ flight'.calls = 1
        /\ flight'.at[c] = "release" /\ \A d \in Clients : d # c => flight'.at[d] = flight.at[d]
    BY <1>1, <1>3, <1>4, FliesEffect DEF FlightPlaces
  <1> QED BY <1>2, <1>5 DEF FlightInv, LockIsHeld, PlaceKnows, CallsAreCounted

LEMMA FlightReleaseKeeps ==
    ASSUME FlightInv, NEW c \in Clients, FlightRelease(c)
    PROVE  FlightInv'
  <1>1. flight.at[c] = "release"
    BY DEF FlightRelease, Flies
  <1>2. flight.lock = c /\ \A d \in Clients : d # c => flight.at[d] \notin {"again", "origin", "put", "release"}
    BY <1>1, OthersWait
  <1> DEFINE new == [flight EXCEPT !.lock = Unset]
  <1>3. Flies(c, "release", "done", new)
    BY <1>2 DEF FlightRelease
  <1>4. flight.value
    BY <1>1 DEF FlightInv, PlaceKnows
  <1>5. new \in Flights /\ new.at = flight.at /\ new.value = flight.value /\ new.calls = flight.calls
    BY DEF FlightInv, Flights
  <1> HIDE DEF new
  <1>6. /\ flight' \in Flights /\ flight'.value = flight.value /\ flight'.calls = flight.calls
        /\ flight'.at[c] = "done" /\ \A d \in Clients : d # c => flight'.at[d] = flight.at[d]
    BY <1>3, <1>5, FliesEffect DEF FlightPlaces
  <1> QED BY <1>2, <1>4, <1>6 DEF FlightInv, LockIsHeld, PlaceKnows, CallsAreCounted

(* The commands of the sandbox leave the cache alone. *)
LEMMA SandLeavesFlight ==
    ASSUME SandStep
    PROVE  UNCHANGED flight
  <1>1. CASE ServerStops \/ ScheduledSave \/ Interrupted
    BY <1>1 DEF ServerStops, ScheduledSave, Interrupted, Quiet
  <1>2. CASE Faulty
    BY <1>2 DEF Faulty, BeginOom, OomRecord, OomLimit, OomFill, BeginRdb, RdbMark, RdbMove, RdbBlock, RdbSave, Act, From, Quiet
  <1>3. CASE SandRecovers
    BY <1>3 DEF SandRecovers, BeginSandRecover, RecUnblock, RecBack, RecSave, RecAwait, RecFill, RecForget, RecLimit,
                RecUnmark, Act, From, Quiet
  <1>4. CASE Restores
    BY <1>4 DEF Restores, BeginRestore1, RestoreStop, RestoreEmpty, RestoreCopy, RestoreConf, RestoreClear, RestoreStart,
                RestoreCheck, RestoreLog, RewriteEnds, RestoreAwait, RestorePersist, From, Quiet
  <1> QED BY <1>1, <1>2, <1>3, <1>4 DEF SandStep

LEMMA FlightKept ==
    ASSUME FlightInv, [SandNext]_sandVars
    PROVE  FlightInv'
  <1>1. CASE UNCHANGED flight
    BY <1>1 DEF FlightInv, LockIsHeld, PlaceKnows, CallsAreCounted
  <1>2. CASE SandStep
    BY <1>1, <1>2, SandLeavesFlight
  <1>3. CASE Flight
    BY <1>3, FlightGetKeeps, FlightLockKeeps, FlightAgainKeeps, FlightOriginKeeps, FlightPutKeeps, FlightReleaseKeeps
       DEF Flight
  <1> QED BY <1>1, <1>2, <1>3 DEF SandNext, sandVars

(* However many clients miss the cache together, and in whichever order they run, the origin is *)
(* asked once, and once when all are done.                                                        *)
THEOREM FlightStaysSingle == SandSpec => []SingleFlight
  <1>1. SandInit => FlightInv
    <2> SUFFICES ASSUME SandInit PROVE FlightInv
      OBVIOUS
    <2>1. flight = NoFlight
      BY DEF SandInit
    <2>2. flight \in Flights /\ ~ flight.value /\ flight.calls = 0 /\ \A c \in Clients : flight.at[c] = "get"
      BY <2>1 DEF NoFlight, Flights, FlightPlaces
    <2> QED BY <2>2 DEF FlightInv, LockIsHeld, PlaceKnows, CallsAreCounted
  <1>2. FlightInv /\ [SandNext]_sandVars => FlightInv'
    BY FlightKept
  <1>3. FlightInv => SingleFlight
    BY SandboxAssumption DEF FlightInv, Flights, PlaceKnows, CallsAreCounted, SingleFlight
  <1> QED BY <1>1, <1>2, <1>3, PTL DEF SandSpec
-----------------------------------------------------------------------------
(* A demonstration and its verdict. *)

DemoNames == {"broker-failover", "controller-failover", "min-isr", "lag", "hot-key", "oversize", "retention", "zk-one", "zk-quorum"}
Demos == [name : DemoNames \cup {None}, at : Nat, mode : Topologies \cup {None}, state : {None, "running", "ok", "bad"}]
Boxes == [Brokers \cup Zks -> [run : {"absent", "stopped", "running", "paused"}, net : BOOLEAN]]

(* While a demonstration runs it holds the lock and has written no verdict. *)
LockedWhileRunning == demo # NoDemo => lock # None /\ report = None

(* Once its exit has waited for the ensemble, ZooKeeper stays up - or a "down" that began before *)
(* the demonstration has removed every container, and no "up" is under way to create them anew. *)
ZksServe == (\A z \in Zks : Alive(z)) \/ (cmd.op # "up" /\ \A b \in Brokers : box[b].run = "absent")
AtExit == demo.state \in {"ok", "bad"} /\ demo.at = 3 /\ demo.mode = "zk"

DemoInv ==
    /\ demo \in Demos /\ box \in Boxes /\ lock \in {None, "bare", "held"} /\ report \in {None, "pass", "fail"}
    /\ LockedWhileRunning
    /\ AtExit => ZksServe
(* What a step of an operator, or of Kafka, may do to the containers while the lock is taken. *)
BoxKept == box' \in Boxes /\ (lock # None /\ ZksServe => ZksServe')

LEMMA DemoAlone ==
    ASSUME DemoInv, UNCHANGED <<demo, lock, report>>, BoxKept
    PROVE  DemoInv'
  <1>1. demo.state \in {"ok", "bad"} => lock # None
    BY DEF DemoInv, LockedWhileRunning, NoDemo, None
  <1>2. AtExit' => ZksServe'
    BY <1>1 DEF DemoInv, BoxKept, AtExit
  <1>3. LockedWhileRunning'
    BY DEF DemoInv, LockedWhileRunning
  <1> QED BY <1>2, <1>3 DEF DemoInv, BoxKept

LEMMA SameBox ==
    ASSUME DemoInv, UNCHANGED box, lock = None \/ cmd'.op = cmd.op \/ cmd'.op # "up"
    PROVE  BoxKept
  BY DEF DemoInv, BoxKept, ZksServe, Alive

(* Containers that only come up. *)
LEMMA BoxesRise ==
    ASSUME DemoInv, box' \in Boxes, \A s \in Brokers \cup Zks : Alive(s) => Alive(s)',
           cmd.op = "up" \/ (cmd'.op # "up" /\ \A b \in Brokers : box[b].run = "absent" => box'[b].run = "absent")
    PROVE  BoxKept
  BY DEF BoxKept, ZksServe

LEMMA CreatedRise ==
    ASSUME DemoInv, NEW S, cmd.op = "up", box' = Created(S)
    PROVE  BoxKept
  <1>1. Fresh \in [run : {"absent", "stopped", "running", "paused"}, net : BOOLEAN] /\ Fresh.run = "running" /\ Fresh.net
    BY DEF Fresh
  <1> DEFINE fresh == Fresh
  <1>2. \A s \in Brokers \cup Zks : box'[s] = box[s] \/ box'[s] = fresh
    BY DEF Created
  <1>3. box' = [s \in Brokers \cup Zks |-> IF s \in S /\ box[s].run \in {"absent", "stopped"} THEN fresh ELSE box[s]]
    BY DEF Created
  <1> HIDE DEF fresh
  <1>4. box' \in Boxes
    BY <1>1, <1>3 DEF Boxes, DemoInv, fresh
  <1>5. \A s \in Brokers \cup Zks : Alive(s) => Alive(s)'
    BY <1>1, <1>2 DEF Alive, fresh
  <1> QED BY <1>4, <1>5, BoxesRise

LEMMA RestoredEffect ==
    ASSUME DemoInv, NEW S, box' = Restored(S)
    PROVE  /\ box' \in Boxes /\ \A s \in Brokers \cup Zks : Alive(s) => Alive(s)'
           /\ \A s \in Brokers \cup Zks : box[s].run = "absent" => box'[s].run = "absent"
           /\ \A s \in Brokers \cup Zks : s \notin S => box'[s] = box[s]
  <1>1. Fresh \in [run : {"absent", "stopped", "running", "paused"}, net : BOOLEAN] /\ Fresh.run = "running" /\ Fresh.net
    BY DEF Fresh
  <1> DEFINE fresh == Fresh
  <1>2. DOMAIN box = Brokers \cup Zks
    BY DEF DemoInv, Boxes
  <1>3. box' = [s \in Brokers \cup Zks |-> IF s \in S /\ box[s].run # "absent" THEN fresh ELSE box[s]]
    BY <1>2 DEF Restored
  <1> HIDE DEF fresh
  <1>4. box' \in Boxes
    BY <1>1, <1>3 DEF Boxes, DemoInv, fresh
  <1>5. \A s \in Brokers \cup Zks : Alive(s) => Alive(s)'
    BY <1>1, <1>3 DEF Alive, fresh
  <1> QED BY <1>3, <1>4, <1>5

LEMMA ResumeRise ==
    ASSUME DemoInv, SiteInv, DownResume
    PROVE  BoxKept
  <1> DEFINE up(s) == [box[s] EXCEPT !.run = "running"]
  <1>1. DOMAIN box = Brokers \cup Zks /\ Goto("remove") /\ cmd.op # "up"
    BY DEF DemoInv, Boxes, DownResume
  <1>2. box' = [s \in Brokers \cup Zks |-> IF box[s].run = "paused" THEN up(s) ELSE box[s]]
    BY <1>1 DEF DownResume
  <1>3. ASSUME NEW s \in Brokers \cup Zks
        PROVE  up(s) \in [run : {"absent", "stopped", "running", "paused"}, net : BOOLEAN]
    BY DEF DemoInv, Boxes
  <1> HIDE DEF up
  <1>4. box' \in Boxes
    BY <1>2, <1>3 DEF DemoInv, Boxes
  <1>5. \A s \in Brokers \cup Zks : Alive(s) => Alive(s)'
    BY <1>2 DEF Alive
  <1>6. \A b \in Brokers : box[b].run = "absent" => box'[b].run = "absent"
    BY <1>2
  <1>7. cmd'.op # "up"
    BY <1>1, GotoEffect DEF KafkaSteps
  <1> QED BY <1>4, <1>5, <1>6, <1>7, BoxesRise

LEMMA RemoveEmpties ==
    ASSUME DemoInv, SiteInv, DownRemove
    PROVE  BoxKept
  <1>1. DOMAIN box = Brokers \cup Zks /\ box' = [s \in DOMAIN box |-> Absent] /\ cmd.op # "up"
    BY DEF DemoInv, Boxes, DownRemove
  <1>2. box' \in Boxes /\ \A b \in Brokers : box'[b].run = "absent"
    BY <1>1 DEF Boxes, Absent
  <1>3. cmd'.op # "up"
    <2>1. CASE cmd.op = "reset"
      BY <1>1, <2>1, GotoEffect DEF DownRemove, KafkaSteps
    <2>2. CASE cmd.op # "reset"
      BY <2>2 DEF DownRemove, End, NoCommand, None
    <2> QED BY <2>1, <2>2
  <1> QED BY <1>2, <1>3 DEF BoxKept, ZksServe

LEMMA FaultedIsBox ==
    ASSUME DemoInv, NEW s \in Brokers \cup Zks, NEW kind, box' = Faulted(s, kind)
    PROVE  box' \in Boxes
  <1> DEFINE paused == [box[s] EXCEPT !.run = "paused"]
             apart == [box[s] EXCEPT !.net = FALSE]
             stopped == [box[s] EXCEPT !.run = "stopped"]
             new == CASE kind = "pause-broker" -> paused [] kind = "isolate-broker" -> apart [] OTHER -> stopped
  <1>1. box' = [box EXCEPT ![s] = new] /\ box \in Boxes
    BY DEF Faulted, DemoInv, Boxes
  <1> DEFINE States == [run : {"absent", "stopped", "running", "paused"}, net : BOOLEAN]
  <1>2. paused \in States /\ apart \in States /\ stopped \in States
    BY <1>1 DEF Boxes
  <1>3. new \in {paused, apart, stopped}
    <2> HIDE DEF paused, apart, stopped
    <2> QED OBVIOUS
  <1>4. new \in States
    BY <1>2, <1>3
  <1> HIDE DEF new
  <1> QED BY <1>1, <1>4 DEF Boxes

LEMMA EndIsNotUp ==
    ASSUME End
    PROVE  cmd'.op # "up"
  BY DEF End, NoCommand, None

LEMMA BoxKeptByOperator ==
    ASSUME DemoInv, SiteInv, Operator
    PROVE  BoxKept
  <1>1. CASE \E t \in Topologies : BeginUp(t) \/ \E op \in {"down", "reset"} : BeginDown(op, t)
    BY <1>1, SameBox DEF BeginUp, BeginDown, Begin
  <1>2. CASE \E t \in Topologies : BeginRecover(t)
    <2>1. cmd'.op # "up" /\ UNCHANGED box
      BY <1>2 DEF BeginRecover, Begin
    <2> QED BY <2>1, SameBox
  <1>3. CASE PinStep \/ EnvStep
    <2>1. UNCHANGED box
      BY <1>3 DEF PinStep, EnvStep
    <2>2. \E at \in KafkaSteps : Goto(at)
      <3>1. CASE PinStep
        BY <3>1 DEF PinStep, KafkaSteps
      <3>2. CASE EnvStep
        BY <3>2 DEF EnvStep, KafkaSteps
      <3> QED BY <1>3, <3>1, <3>2
    <2>3. cmd'.op = cmd.op
      BY <2>2, GotoEffect
    <2> QED BY <2>1, <2>3, SameBox
  <1>4. CASE UpZk \/ UpBrokers
    BY <1>4, CreatedRise DEF UpZk, UpBrokers
  <1>5. CASE UpTopics \/ Unpin \/ Interrupt
    BY <1>5, SameBox, EndIsNotUp DEF UpTopics, Unpin, Interrupt
  <1>6. CASE DownResume \/ DownRemove
    BY <1>6, ResumeRise, RemoveEmpties
  <1>7. CASE \E s \in Brokers \cup Zks, kind \in {"stop", "pause-broker", "isolate-broker"} : Fault(s, kind)
    <2>1. lock = None
      BY <1>7 DEF Fault
    <2>2. box' \in Boxes
      BY <1>7, FaultedIsBox DEF Fault
    <2> QED BY <2>1, <2>2 DEF BoxKept
  <1>8. CASE RecoverFirst
    <2>1. cmd.op = "recover" /\ cmd'.op = "recover"
      BY <1>8, GotoEffect DEF RecoverFirst, KafkaSteps
    <2>2. CASE UNCHANGED box
      BY <2>1, <2>2, SameBox
    <2>3. CASE box' = Restored(Zks)
      BY <2>1, <2>3, RestoredEffect, BoxesRise
    <2> QED BY <1>8, <2>2, <2>3 DEF RecoverFirst
  <1>9. CASE RecoverSecond
    BY <1>9, RestoredEffect, BoxesRise, EndIsNotUp DEF RecoverSecond
  <1>10. CASE Unlock
    BY <1>10, SameBox DEF Unlock
  <1> QED BY <1>1, <1>2, <1>3, <1>4, <1>5, <1>6, <1>7, <1>8, <1>9, <1>10 DEF Operator

LEMMA DemoKeptByOperator ==
    ASSUME DemoInv, SiteInv, Operator
    PROVE  DemoInv'
  <1>1. BoxKept
    BY BoxKeptByOperator
  <1>2. CASE UNCHANGED <<demo, lock, report>>
    BY <1>1, <1>2, DemoAlone
  <1>3. CASE Unlock
    <2>1. demo = NoDemo /\ demo' = NoDemo /\ lock' = None /\ report' = report
      BY <1>3 DEF Unlock
    <2>2. ~ AtExit' /\ LockedWhileRunning'
      BY <2>1 DEF AtExit, LockedWhileRunning, NoDemo, None
    <2> QED BY <1>1, <2>1, <2>2 DEF DemoInv, BoxKept
  <1>4. ASSUME ~ Unlock PROVE UNCHANGED <<demo, lock, report>>
    <2>1. CASE \E t \in Topologies : BeginUp(t) \/ BeginRecover(t) \/ \E op \in {"down", "reset"} : BeginDown(op, t)
      BY <2>1 DEF BeginUp, BeginDown, BeginRecover, Begin
    <2>2. CASE PinStep \/ EnvStep \/ UpZk \/ UpBrokers \/ UpTopics \/ Unpin
      BY <2>2 DEF PinStep, EnvStep, UpZk, UpBrokers, UpTopics, Unpin, Rest
    <2>3. CASE DownResume \/ DownRemove \/ RecoverFirst \/ RecoverSecond \/ Interrupt
      BY <2>3 DEF DownResume, DownRemove, RecoverFirst, RecoverSecond, Interrupt, Rest
    <2>4. CASE \E s \in Brokers \cup Zks, kind \in {"stop", "pause-broker", "isolate-broker"} : Fault(s, kind)
      BY <2>4 DEF Fault
    <2> QED BY <1>4, <2>1, <2>2, <2>3, <2>4 DEF Operator
  <1> QED BY <1>2, <1>3, <1>4
(* A step of the script: the demonstration runs on, or turns to its exit. *)
LEMMA OnwardEffect ==
    ASSUME DemoInv, demo.state = "running", demo.at > 0, Onward
    PROVE  demo' \in Demos /\ ~ AtExit'
  <1> DEFINE later == [demo EXCEPT !.at = @ + 1]
             over == [demo EXCEPT !.at = 1, !.state = "ok"]
  <1>1. demo' = over \/ demo' = later
    <2> HIDE DEF later, over
    <2> QED BY DEF Onward, later, over
  <1>2. CASE demo' = over
    <2>1. demo' \in Demos /\ demo'.at = 1
      BY <1>2 DEF DemoInv, Demos
    <2> QED BY <2>1 DEF AtExit
  <1>3. CASE demo' = later
    <2> DEFINE n == demo.at + 1
    <2>1. demo' = [demo EXCEPT !.at = n] /\ n \in Nat
      BY <1>3 DEF DemoInv, Demos
    <2> HIDE DEF n
    <2>2. demo' \in Demos /\ demo'.state = "running"
      BY <2>1 DEF DemoInv, Demos
    <2> QED BY <2>2 DEF AtExit
  <1> QED BY <1>1, <1>2, <1>3

LEMMA ScriptKeeps ==
    ASSUME DemoInv, demo.state = "running", demo' \in Demos, ~ AtExit', box' \in Boxes, lock' \in {lock, "held"}, UNCHANGED report
    PROVE  DemoInv'
  <1>1. demo # NoDemo
    BY DEF NoDemo, None
  <1>2. lock # None /\ report = None
    BY <1>1 DEF DemoInv, LockedWhileRunning
  <1>3. lock' # None /\ lock' \in {None, "bare", "held"} /\ report' = None
    BY <1>2 DEF DemoInv, None
  <1> QED BY <1>3 DEF DemoInv, LockedWhileRunning

LEMMA ExitKeeps ==
    ASSUME DemoInv, DemoExit
    PROVE  DemoInv'
  <1>1. demo.state \in {"ok", "bad"} /\ demo # NoDemo /\ lock # None /\ report = None /\ demo \in Demos /\ box \in Boxes
    BY DEF DemoExit, DemoInv, LockedWhileRunning, NoDemo, None
  <1>2. CASE /\ demo.at = 1 /\ Present(Services(demo.mode))
             /\ box' = IF demo.mode = "zk" THEN Restored(Zks) ELSE box
             /\ demo' = [demo EXCEPT !.at = 2] /\ UNCHANGED <<kafka, site, cmd, lock, report, used, spent>>
    <2>1. demo' \in Demos /\ demo'.at = 2 /\ UNCHANGED <<lock, report>>
      BY <1>1, <1>2 DEF Demos
    <2>2. box' \in Boxes
      <3>1. CASE demo.mode = "zk"
        BY <1>2, <3>1, RestoredEffect
      <3>2. CASE demo.mode # "zk"
        BY <1>1, <1>2, <3>2
      <3> QED BY <3>1, <3>2
    <2> QED BY <1>1, <2>1, <2>2 DEF DemoInv, LockedWhileRunning, AtExit
  <1>3. CASE /\ demo.at = 2 /\ (demo.mode = "zk" => ZkServing(Cardinality(Zks)))
             /\ box' = Restored(Brokers)
             /\ demo' = [demo EXCEPT !.at = 3] /\ UNCHANGED <<kafka, site, cmd, lock, report, used, spent>>
    <2>1. demo' \in Demos /\ demo'.at = 3 /\ demo'.mode = demo.mode /\ UNCHANGED <<lock, report>>
      BY <1>1, <1>3 DEF Demos
    <2>2. box' \in Boxes /\ \A z \in Zks : Alive(z) => Alive(z)'
      BY <1>3, RestoredEffect
    <2>3. demo.mode = "zk" => \A z \in Zks : Alive(z)
      <3> SUFFICES ASSUME demo.mode = "zk" PROVE \A z \in Zks : Alive(z)
        OBVIOUS
      <3>1. Cardinality(Zks) # 0
        BY KafkaAssumption, FS_CardinalityType
      <3>2. Cardinality(Live(Zks)) = Cardinality(Zks) /\ Live(Zks) \in SUBSET Zks
        BY <1>3, <3>1 DEF ZkServing, Live
      <3>3. Live(Zks) = Zks
        BY <3>2, KafkaAssumption, FS_Subset
      <3> QED BY <3>3 DEF Live
    <2>4. AtExit' => ZksServe'
      BY <2>1, <2>2, <2>3 DEF AtExit, ZksServe
    <2> QED BY <1>1, <2>1, <2>2, <2>4 DEF DemoInv, LockedWhileRunning
  <1>4. ASSUME NEW r \in BOOLEAN, Leave(r), UNCHANGED box PROVE DemoInv'
    <2>1. demo' = NoDemo /\ lock' = None /\ report' \in {"pass", "fail"}
      BY <1>4 DEF Leave, ExitCode
    <2>2. demo' \in Demos /\ ~ AtExit' /\ LockedWhileRunning'
      BY <2>1 DEF NoDemo, Demos, AtExit, LockedWhileRunning, None
    <2> QED BY <1>1, <1>4, <2>1, <2>2 DEF DemoInv
  <1> QED BY <1>2, <1>3, <1>4 DEF DemoExit

LEMMA BeginDemoKeeps ==
    ASSUME DemoInv, SiteInv, NEW t \in Topologies, NEW name \in Names(t), BeginDemo(name)
    PROVE  DemoInv'
  <1>1. name \in DemoNames
    BY DEF Names, DemoNames
  <1>2. site.env \in Topologies
    BY DEF SiteInv, Sites
  <1>3. /\ demo' = [name |-> name, at |-> 0, mode |-> site.env, state |-> "running"] /\ lock' = "bare" /\ report' = None
        /\ UNCHANGED box
    BY DEF BeginDemo
  <1>4. demo' \in Demos /\ demo'.state = "running"
    BY <1>1, <1>2, <1>3 DEF Demos
  <1> QED BY <1>3, <1>4 DEF DemoInv, AtExit, LockedWhileRunning, None

LEMMA DemoKeptByDemonstration ==
    ASSUME DemoInv, SiteInv, Demonstration
    PROVE  DemoInv'
  <1>1. box \in Boxes
    BY DEF DemoInv
  <1>2. CASE \E t \in Topologies : \E name \in Names(t) : BeginDemo(name)
    BY <1>2, BeginDemoKeeps
  <1>3. CASE DemoPid
    <2>1. demo.state = "running" /\ lock' = "held" /\ demo' = [demo EXCEPT !.at = 1] /\ UNCHANGED <<box, report>> /\ demo \in Demos
      BY <1>3 DEF DemoPid, DemoInv
    <2>2. demo' \in Demos /\ demo'.at = 1
      BY <2>1 DEF Demos
    <2>3. ~ AtExit'
      BY <2>2 DEF AtExit
    <2> QED BY <1>1, <2>1, <2>2, <2>3, ScriptKeeps
  <1>4. CASE DemoCreate \/ DemoSeed \/ DemoAttempt \/ DemoWait \/ DemoConsume \/ DemoExpire
    <2>1. demo.state = "running" /\ demo.at > 0 /\ Onward /\ UNCHANGED <<box, lock, report>>
      BY <1>4 DEF DemoCreate, DemoSeed, DemoAttempt, DemoWait, DemoConsume, DemoExpire, Steps, DemoRest
    <2> QED BY <1>1, <2>1, OnwardEffect, ScriptKeeps
  <1>5. CASE \E s \in Brokers \cup Zks : DemoFault(s)
    <2>1. PICK s \in Brokers \cup Zks : DemoFault(s)
      BY <1>5
    <2>2. demo.state = "running" /\ demo.at > 0 /\ Onward /\ UNCHANGED <<lock, report>> /\ box' = Faulted(s, "stop")
      BY <2>1 DEF DemoFault, Steps, DemoRest
    <2>3. box' \in Boxes
      BY <2>2, FaultedIsBox
    <2> QED BY <2>2, <2>3, OnwardEffect, ScriptKeeps
  <1>6. CASE DemoFails
    <2>1. demo.state = "running" /\ demo' = [demo EXCEPT !.at = 1, !.state = "bad"] /\ UNCHANGED <<box, lock, report>> /\ demo \in Demos
      BY <1>6 DEF DemoFails, DemoInv
    <2>2. demo' \in Demos /\ demo'.at = 1
      BY <2>1 DEF Demos
    <2>3. ~ AtExit'
      BY <2>2 DEF AtExit
    <2> QED BY <1>1, <2>1, <2>2, <2>3, ScriptKeeps
  <1>7. CASE DemoKilled
    <2>1. demo' = NoDemo /\ UNCHANGED <<box, lock, report>>
      BY <1>7 DEF DemoKilled
    <2>2. demo' \in Demos /\ ~ AtExit' /\ LockedWhileRunning'
      BY <2>1 DEF NoDemo, Demos, AtExit, LockedWhileRunning, None
    <2> QED BY <2>1, <2>2 DEF DemoInv
  <1>8. CASE DemoExit
    BY <1>8, ExitKeeps
  <1> QED BY <1>2, <1>3, <1>4, <1>5, <1>6, <1>7, <1>8 DEF Demonstration

LEMMA DemoKept ==
    ASSUME DemoInv, SiteInv, [Next]_vars
    PROVE  DemoInv'
  <1>1. CASE UNCHANGED <<box, cmd, demo, lock, report>>
    BY <1>1, SameBox, DemoAlone
  <1>2. CASE KafkaStep
    BY <1>1, <1>2 DEF KafkaStep, Elect, Shrink, CatchUp
  <1>3. CASE ClientStep
    BY <1>1, <1>3 DEF ClientStep, Seed, Consume, Commit
  <1>4. CASE UNCHANGED vars
    BY <1>1, <1>4 DEF vars
  <1> QED BY <1>2, <1>3, <1>4, DemoKeptByOperator, DemoKeptByDemonstration DEF Next

(* The invariant of the demonstrations, with the one of the partition and the pin. *)
THEOREM DemonstrationInvariant == Spec => [](KafkaInv /\ DemoInv)
  <1>1. Init => DemoInv
    <2> SUFFICES ASSUME Init PROVE DemoInv
      OBVIOUS
    <2>1. box = [s \in Brokers \cup Zks |-> Absent] /\ demo = NoDemo /\ lock = None /\ report = None
      BY DEF Init
    <2>2. box \in Boxes
      BY <2>1 DEF Boxes, Absent
    <2>3. demo \in Demos /\ ~ AtExit
      BY <2>1 DEF Demos, NoDemo, AtExit, None
    <2> QED BY <2>1, <2>2, <2>3 DEF DemoInv, LockedWhileRunning
  <1>2. KafkaInv /\ DemoInv /\ [Next]_vars => DemoInv'
    BY DemoKept DEF KafkaInv
  <1> QED BY <1>1, <1>2, KafkaInvariant, PTL DEF Spec

(* Type correctness of the Kafka laboratory. *)
THEOREM KafkaTypes == Spec => []TypeOK
  <1>1. KafkaInv /\ DemoInv => TypeOK
    BY DEF KafkaInv, DemoInv, PartInv, SiteInv, Parts, Sites, Boxes, Messages, TypeOK
  <1> QED BY <1>1, DemonstrationInvariant, PTL

(* Only the exit of a demonstration writes "pass", and only over a full ISR. *)
LEMMA PassNeedsExit ==
    ASSUME KafkaInv, DemoInv, Next, demo # NoDemo, demo' = NoDemo, report' = "pass"
    PROVE  demo.at = 3 /\ demo.state \in {"ok", "bad"} /\ CheckState(3, 3) /\ lock' = None /\ UNCHANGED box
  <1>1. report = None
    BY DEF DemoInv, LockedWhileRunning
  <1>2. report' # report
    BY <1>1 DEF None
  <1>3. ~ KafkaStep /\ ~ ClientStep
    <2>1. ~ KafkaStep
      BY <1>2 DEF KafkaStep, Elect, Shrink, CatchUp
    <2>2. ~ ClientStep
      BY <1>2 DEF ClientStep, Seed, Consume, Commit
    <2> QED BY <2>1, <2>2
  <1>4. ~ Operator
    <2>1. ~ \E t \in Topologies : BeginUp(t) \/ BeginRecover(t) \/ \E op \in {"down", "reset"} : BeginDown(op, t)
      BY <1>2 DEF BeginUp, BeginDown, BeginRecover, Begin
    <2>2. ~ (PinStep \/ EnvStep \/ UpZk \/ UpBrokers \/ UpTopics \/ Unpin)
      BY <1>2 DEF PinStep, EnvStep, UpZk, UpBrokers, UpTopics, Unpin, Rest
    <2>3. ~ (DownResume \/ DownRemove \/ RecoverFirst \/ RecoverSecond \/ Interrupt \/ Unlock)
      BY <1>2 DEF DownResume, DownRemove, RecoverFirst, RecoverSecond, Interrupt, Rest, Unlock
    <2>4. ~ \E s \in Brokers \cup Zks, kind \in {"stop", "pause-broker", "isolate-broker"} : Fault(s, kind)
      BY <1>2 DEF Fault
    <2> QED BY <2>1, <2>2, <2>3, <2>4 DEF Operator
  <1>5. DemoExit
    <2>1. ~ \E t \in Topologies : \E name \in Names(t) : BeginDemo(name)
      BY DEF BeginDemo, None
    <2>2. ~ (DemoPid \/ DemoFails \/ DemoKilled)
      BY <1>2 DEF DemoPid, DemoFails, DemoKilled
    <2>3. ~ (DemoCreate \/ DemoSeed \/ DemoAttempt \/ DemoWait \/ DemoConsume \/ DemoExpire)
      BY <1>2 DEF DemoCreate, DemoSeed, DemoAttempt, DemoWait, DemoConsume, DemoExpire, DemoRest
    <2>4. ~ \E s \in Brokers \cup Zks : DemoFault(s)
      BY <1>2 DEF DemoFault, DemoRest
    <2> QED BY <1>3, <1>4, <2>1, <2>2, <2>3, <2>4 DEF Next, Demonstration
  <1>6. ~ Leave(FALSE)
    BY DEF Leave, ExitCode
  <1> QED BY <1>2, <1>5, <1>6 DEF DemoExit, Leave

(* A demonstration that exits with 0 leaves every container of its topology running and          *)
(* connected, no lock, and a full ISR that holds everything delivered - an operator's "down",    *)
(* "up" or "recover" that was under way beside it included.                                       *)
THEOREM PassStaysRestored == Spec => PassIsRestored
  <1> DEFINE Restores1 == demo # NoDemo /\ demo' = NoDemo /\ report' = "pass" =>
          lock' = None /\ (\A s \in Services(demo.mode) : Alive(s)')
          /\ part.isr = Brokers /\ \A b \in Brokers : acked \subseteq part.log[b]
  <1>1. KafkaInv /\ DemoInv /\ [Next]_vars => [Restores1]_vars
    <2> SUFFICES ASSUME KafkaInv, DemoInv, Next, demo # NoDemo, demo' = NoDemo, report' = "pass"
                 PROVE  /\ lock' = None /\ (\A s \in Services(demo.mode) : Alive(s)')
                        /\ part.isr = Brokers /\ \A b \in Brokers : acked \subseteq part.log[b]
      OBVIOUS
    <2>1. demo.at = 3 /\ demo.state \in {"ok", "bad"} /\ CheckState(3, 3) /\ lock' = None /\ UNCHANGED box
      BY PassNeedsExit
    <2>2. part.exists /\ Cardinality(part.isr) = 3 /\ Cardinality(Live(Brokers)) = 3
      BY <2>1 DEF CheckState, Led
    <2>3. part.isr \in SUBSET Brokers /\ Live(Brokers) \in SUBSET Brokers
      BY DEF KafkaInv, PartInv, Parts, Live
    <2>4. part.isr = Brokers /\ Live(Brokers) = Brokers
      BY <2>2, <2>3, KafkaAssumption, FS_Subset
    <2>5. \A b \in Brokers : Alive(b)
      BY <2>4 DEF Live
    <2>6. \A b \in Brokers : acked \subseteq part.log[b]
      BY <2>2, <2>4 DEF KafkaInv, PartInv, DeliveredIsKept
    <2>7. demo.mode = "zk" => \A z \in Zks : Alive(z)
      <3>1. \E b \in Brokers : box[b].run # "absent"
        <4>1. Brokers # {}
          BY KafkaAssumption, FS_EmptySet
        <4> QED BY <2>5, <4>1 DEF Alive
      <3> QED BY <2>1, <3>1 DEF DemoInv, AtExit, ZksServe
    <2>8. \A s \in Services(demo.mode) : Alive(s)
      BY <2>5, <2>7 DEF Services
    <2>9. \A s \in Services(demo.mode) : Alive(s)'
      BY <2>1, <2>8 DEF Alive
    <2> QED BY <2>1, <2>4, <2>6, <2>9
  <1> QED BY <1>1, DemonstrationInvariant, PTL DEF Spec, PassIsRestored
-----------------------------------------------------------------------------
(* The sandbox server of the Redis laboratory. *)

(* What a running server may hold: a filler never without the record of the limit it was made for. *)
Limits == {"own", "low"}
Contents == [of : {"sandbox", "backup", "nobody"}, saved : Limits \cup {Unset}, fill : BOOLEAN]
Alike == {d \in Contents : d.saved = Unset => ~ d.fill}

Sands == [up : BOOLEAN, data : Alike, limit : Limits, aof : BOOLEAN, anew : BOOLEAN, failed : BOOLEAN]
Disks == [aof : BOOLEAN, log : Alike \cup {NoFile}, dump : Alike \cup {NoFile, Directory}, pre : Alike \cup {NoFile}, mark : BOOLEAN]
ActOps == {Unset, "oom", "rdb", "recover", "restore"}
ActSteps == {Unset, "record", "limit", "fill", "mark", "move", "block", "save", "unblock", "back", "await", "forget", "unmark",
             "stop", "wipe", "copy", "conf", "clear", "start", "check", "log", "persist"}
Acts == [op : ActOps, at : ActSteps, keep : Limits \cup {Unset}]

(* Nothing of the RDB fault is left on a server or a disk without its mark. *)
UnmarkedIsClean == ~ disk.mark => disk.dump # Directory /\ disk.pre = NoFile /\ ~ (sand.failed /\ sand.up)

(* What the steps of a command know. *)
FaultKnows ==
    /\ act.op = "oom" /\ act.at \in {"limit", "fill"} => sand.data.saved # Unset
    /\ act.op = "rdb" /\ act.at \in {"move", "block", "save"} => disk.mark
    /\ act.op = "rdb" /\ act.at \in {"mark", "move"} => disk.dump # Directory
RecoverKnows ==
    /\ act.op = "recover" /\ act.at \in {"back", "save", "await", "fill", "forget", "limit", "unmark"} => disk.dump # Directory
    /\ act.op = "recover" /\ act.at \in {"save", "await", "fill", "forget", "limit", "unmark"} => disk.pre = NoFile
    /\ act.op = "recover" /\ act.at \in {"fill", "forget", "limit"} => act.keep # Unset
    /\ act.op = "recover" /\ act.at = "forget" => ~ sand.data.fill
RestoreKnows ==
    /\ act.op = "restore" => ~ restored
    /\ act.op = "restore" /\ act.at \in {"wipe", "copy", "conf", "clear", "start"} => ~ sand.up
    /\ act.op = "restore" /\ act.at \in {"conf", "clear", "start", "check", "log", "await", "persist"} =>
          disk.dump \notin {NoFile, Directory}
    /\ act.op = "restore" /\ act.at \in {"clear", "start", "check", "log", "await", "persist"} => ~ disk.aof
    /\ act.op = "restore" /\ act.at \in {"start", "check", "log", "await", "persist"} => ~ disk.mark
    /\ act.op = "restore" /\ act.at \in {"check", "log"} => ~ sand.aof
    /\ act.op = "restore" /\ act.at \in {"await", "persist"} => sand.aof
    /\ act.op = "restore" /\ act.at \in {"log", "await", "persist"} => sand.data.of = "backup" /\ disk.dump.of = "backup"
    /\ act.op = "restore" /\ act.at = "await" /\ ~ sand.anew => disk.log.of = "backup"
    /\ act.op = "restore" /\ act.at = "persist" => disk.log.of = "backup"
    /\ act.op = "restore" /\ act.at = "check" => sand.data.of = disk.dump.of

(* A sandbox that was restored holds the backup and reads it from the append-only file. *)
RestoredKnows == restored => sand.data.of = "backup" /\ disk.aof /\ disk.log.of = "backup"

SandInv ==
    /\ sand \in Sands /\ disk \in Disks /\ act \in Acts /\ restored \in BOOLEAN
    /\ UnmarkedIsClean
    /\ FaultKnows /\ RecoverKnows /\ RestoreKnows /\ RestoredKnows
LEMMA FilesDiffer == NoFile \notin Alike /\ Directory \notin Alike /\ NoFile # Directory
  BY DEF NoFile, Directory, Data, Alike, Contents

LEMMA DataIsAlike ==
    ASSUME NEW of \in {"sandbox", "backup", "nobody"}
    PROVE  Data(of) \in Alike /\ Data(of).of = of
  <1> DEFINE d == [of |-> of, saved |-> Unset, fill |-> FALSE]
  <1>1. d \in Contents /\ d.fill = FALSE /\ d.of = of
    BY DEF Contents, Limits, Unset
  <1>2. Data(of) = d
    BY DEF Data
  <1> HIDE DEF d
  <1> QED BY <1>1, <1>2 DEF Alike

(* A write: in memory, and in the append-only file when there is one. *)
LEMMA HoldsEffect ==
    ASSUME SandInv, NEW d \in Alike, Holds(d)
    PROVE  /\ sand' \in Sands /\ sand'.data = d
           /\ sand'.up = sand.up /\ sand'.limit = sand.limit /\ sand'.aof = sand.aof
           /\ sand'.anew = sand.anew /\ sand'.failed = sand.failed
           /\ disk' \in Disks /\ disk'.aof = disk.aof /\ disk'.dump = disk.dump /\ disk'.pre = disk.pre /\ disk'.mark = disk.mark
           /\ disk'.log \in {disk.log, d}
  <1>1. sand \in Sands /\ disk \in Disks
    BY DEF SandInv
  <1>2. sand' = [sand EXCEPT !.data = d] /\ (disk' = disk \/ disk' = [disk EXCEPT !.log = d])
    BY DEF Holds
  <1>3. /\ sand' \in Sands /\ sand'.data = d
        /\ sand'.up = sand.up /\ sand'.limit = sand.limit /\ sand'.aof = sand.aof
        /\ sand'.anew = sand.anew /\ sand'.failed = sand.failed
    BY <1>1, <1>2 DEF Sands
  <1>4. /\ disk' \in Disks /\ disk'.aof = disk.aof /\ disk'.dump = disk.dump /\ disk'.pre = disk.pre /\ disk'.mark = disk.mark
        /\ disk'.log \in {disk.log, d}
    <2>1. CASE disk' = disk
      BY <1>1, <2>1
    <2>2. CASE disk' = [disk EXCEPT !.log = d]
      BY <1>1, <2>2 DEF Disks
    <2> QED BY <1>2, <2>1, <2>2
  <1> QED BY <1>3, <1>4

(* BGSAVE. *)
LEMMA SavedEffect ==
    ASSUME SandInv, Saved
    PROVE  /\ sand' \in Sands /\ sand'.data = sand.data /\ sand'.up = sand.up /\ sand'.limit = sand.limit
           /\ sand'.aof = sand.aof /\ sand'.anew = sand.anew
           /\ disk' \in Disks /\ disk'.aof = disk.aof /\ disk'.log = disk.log /\ disk'.pre = disk.pre /\ disk'.mark = disk.mark
           /\ disk.dump = Directory => disk'.dump = Directory
           /\ disk.dump # Directory => disk'.dump = sand.data /\ ~ sand'.failed
  <1>1. sand \in Sands /\ disk \in Disks
    BY DEF SandInv
  <1>2. CASE disk.dump = Directory
    <2>1. sand' = [sand EXCEPT !.failed = TRUE] /\ disk' = disk
      BY <1>2 DEF Saved
    <2> QED BY <1>1, <1>2, <2>1 DEF Sands
  <1>3. CASE disk.dump # Directory
    <2>1. sand' = [sand EXCEPT !.failed = FALSE] /\ disk' = [disk EXCEPT !.dump = sand.data]
      BY <1>3 DEF Saved
    <2>2. /\ sand' \in Sands /\ sand'.data = sand.data /\ sand'.up = sand.up /\ sand'.limit = sand.limit
          /\ sand'.aof = sand.aof /\ sand'.anew = sand.anew /\ ~ sand'.failed
      BY <1>1, <2>1 DEF Sands
    <2>3. sand.data \in Alike
      BY <1>1 DEF Sands
    <2>4. /\ disk' \in Disks /\ disk'.aof = disk.aof /\ disk'.log = disk.log /\ disk'.pre = disk.pre /\ disk'.mark = disk.mark
          /\ disk'.dump = sand.data
      BY <1>1, <2>1, <2>3 DEF Disks
    <2> QED BY <1>3, <2>2, <2>4
  <1> QED BY <1>2, <1>3

(* What a server would load is something a server may hold. *)
LEMMA LoadsEffect ==
    ASSUME SandInv
    PROVE  /\ Loads \in Alike
           /\ disk.aof /\ disk.log # NoFile => Loads = disk.log
           /\ ~ disk.aof /\ disk.dump \notin {NoFile, Directory} => Loads = disk.dump
  <1> DEFINE nobody == Data("nobody")
  <1>1. nobody \in Alike
    BY DataIsAlike
  <1>2. disk.log \in Alike \cup {NoFile} /\ disk.dump \in Alike \cup {NoFile, Directory} /\ disk.aof \in BOOLEAN
    BY DEF SandInv, Disks
  <1>3. Loads = CASE disk.aof -> IF disk.log = NoFile THEN nobody ELSE disk.log
                  [] OTHER -> IF disk.dump \in {NoFile, Directory} THEN nobody ELSE disk.dump
    BY DEF Loads
  <1> HIDE DEF nobody
  <1> QED BY <1>1, <1>2, <1>3

LEMMA StartsEffect ==
    ASSUME SandInv, Starts
    PROVE  /\ sand' \in Sands /\ sand'.data = Loads /\ sand'.up /\ ~ sand'.failed /\ sand'.aof = disk.aof
           /\ disk' \in Disks /\ disk'.aof = disk.aof /\ disk'.dump = disk.dump /\ disk'.pre = disk.pre /\ disk'.mark = disk.mark
           /\ disk'.log = disk.log \/ (disk.aof /\ disk'.log = Loads)
  <1> DEFINE d == Loads
  <1>1. d \in Alike /\ disk \in Disks
    BY LoadsEffect DEF SandInv
  <1>2. /\ sand' = [up |-> TRUE, data |-> d, limit |-> "own", aof |-> disk.aof, anew |-> FALSE, failed |-> FALSE]
        /\ disk' = disk \/ (disk.aof /\ disk' = [disk EXCEPT !.log = d])
    BY DEF Starts
  <1> HIDE DEF d
  <1>3. sand' \in Sands /\ sand'.data = d /\ sand'.up /\ ~ sand'.failed /\ sand'.aof = disk.aof
    BY <1>1, <1>2 DEF Sands, Disks, Limits
  <1>4. /\ disk' \in Disks /\ disk'.aof = disk.aof /\ disk'.dump = disk.dump /\ disk'.pre = disk.pre /\ disk'.mark = disk.mark
        /\ disk'.log = disk.log \/ (disk.aof /\ disk'.log = d)
    <2>1. CASE disk' = disk
      BY <1>1, <2>1
    <2>2. CASE disk.aof /\ disk' = [disk EXCEPT !.log = d]
      BY <1>1, <2>2 DEF Disks
    <2> QED BY <1>2, <2>1, <2>2
  <1> QED BY <1>3, <1>4 DEF d

LEMMA FromEffect ==
    ASSUME SandInv, NEW op, NEW at, NEW next \in ActSteps, next # Unset, From(op, at, next)
    PROVE  /\ act.op = op /\ act.at = at /\ act' \in Acts /\ act'.op = op /\ act'.at = next /\ act'.keep = act.keep
           /\ UNCHANGED restored
  <1>1. act' = [act EXCEPT !.at = next] /\ act.op = op /\ act.at = at /\ act \in Acts /\ UNCHANGED restored
    BY DEF From, Quiet, SandInv
  <1> QED BY <1>1 DEF Acts

(* A command that ends: what it knew is of no use any more. *)
LEMMA IdleKeeps ==
    ASSUME act' = NoAct, sand' \in Sands, disk' \in Disks, restored' \in BOOLEAN, UnmarkedIsClean', RestoredKnows'
    PROVE  SandInv'
  <1>1. act' \in Acts /\ act'.op = Unset
    BY DEF NoAct, Acts, ActOps, ActSteps
  <1> QED BY <1>1 DEF SandInv, FaultKnows, RecoverKnows, RestoreKnows, Unset

LEMMA SandAlone ==
    ASSUME SandInv, UNCHANGED <<sand, disk, act, restored>>
    PROVE  SandInv'
  BY DEF SandInv, UnmarkedIsClean, FaultKnows, RecoverKnows, RestoreKnows, RestoredKnows, Loads

-----------------------------------------------------------------------------
(* The server by itself. *)

LEMMA ServerStopsKeeps ==
    ASSUME SandInv, ServerStops
    PROVE  SandInv'
  <1>1. sand' = [sand EXCEPT !.up = FALSE] /\ UNCHANGED <<disk, restored>> /\ act' = NoAct /\ sand \in Sands
    BY DEF ServerStops, SandInv
  <1>2. sand' \in Sands /\ ~ sand'.up /\ sand'.data = sand.data
    BY <1>1 DEF Sands
  <1>3. UnmarkedIsClean' /\ RestoredKnows'
    BY <1>1, <1>2 DEF SandInv, UnmarkedIsClean, RestoredKnows
  <1> QED BY <1>1, <1>2, <1>3, IdleKeeps DEF SandInv

LEMMA InterruptedKeeps ==
    ASSUME SandInv, Interrupted
    PROVE  SandInv'
  <1>1. UNCHANGED <<sand, disk, restored>> /\ act' = NoAct
    BY DEF Interrupted
  <1>2. UnmarkedIsClean' /\ RestoredKnows'
    BY <1>1 DEF SandInv, UnmarkedIsClean, RestoredKnows
  <1> QED BY <1>1, <1>2, IdleKeeps DEF SandInv

(* A save writes what the server holds, or fails on the directory of a fault that is marked. *)
LEMMA SavedIsClean ==
    ASSUME SandInv, Saved, UNCHANGED restored
    PROVE  UnmarkedIsClean' /\ RestoredKnows'
  <1>1. sand.data \in Alike /\ sand.data # Directory
    BY FilesDiffer DEF SandInv, Sands
  <1> QED BY <1>1, SavedEffect DEF SandInv, UnmarkedIsClean, RestoredKnows

LEMMA ScheduledSaveKeeps ==
    ASSUME SandInv, ScheduledSave
    PROVE  SandInv'
  <1>1. UNCHANGED <<act, restored>> /\ sand.up /\ Saved
    BY DEF ScheduledSave, Quiet
  <1>2. UnmarkedIsClean' /\ RestoredKnows'
    BY <1>1, SavedIsClean
  <1>3. sand.data # Directory /\ sand.data # NoFile
    BY FilesDiffer DEF SandInv, Sands
  <1>4. FaultKnows' /\ RecoverKnows'
    BY <1>1, <1>3, SavedEffect DEF SandInv, FaultKnows, RecoverKnows
  <1>5. RestoreKnows'
    BY <1>1, <1>3, SavedEffect DEF SandInv, RestoreKnows
  <1> QED BY <1>1, <1>2, <1>4, <1>5, SavedEffect DEF SandInv

LEMMA RewriteEndsKeeps ==
    ASSUME SandInv, RewriteEnds
    PROVE  SandInv'
  <1>1. /\ sand' = [sand EXCEPT !.anew = FALSE] /\ disk' = [disk EXCEPT !.log = sand.data] /\ UNCHANGED <<act, restored>>
        /\ sand \in Sands /\ disk \in Disks
    BY DEF RewriteEnds, Quiet, SandInv
  <1>2. /\ sand' \in Sands /\ sand'.data = sand.data /\ sand'.up = sand.up /\ sand'.aof = sand.aof /\ sand'.failed = sand.failed
    BY <1>1 DEF Sands
  <1>3. sand.data \in Alike
    BY <1>1 DEF Sands
  <1>4. /\ disk' \in Disks /\ disk'.log = sand.data /\ disk'.aof = disk.aof /\ disk'.dump = disk.dump /\ disk'.pre = disk.pre
        /\ disk'.mark = disk.mark
    BY <1>1, <1>3 DEF Disks
  <1>5. UnmarkedIsClean' /\ RestoredKnows'
    BY <1>1, <1>2, <1>4 DEF SandInv, UnmarkedIsClean, RestoredKnows
  <1>6. FaultKnows' /\ RecoverKnows'
    BY <1>1, <1>2, <1>4 DEF SandInv, FaultKnows, RecoverKnows
  <1>7. RestoreKnows'
    BY <1>1, <1>2, <1>4 DEF SandInv, RestoreKnows
  <1> QED BY <1>1, <1>2, <1>4, <1>5, <1>6, <1>7 DEF SandInv
-----------------------------------------------------------------------------
(* Commands. *)

(* A server that is started for a command has nothing of an unmarked fault. *)
LEMMA AwakeKeeps ==
    ASSUME SandInv, IF sand.up THEN UNCHANGED <<sand, disk>> ELSE Starts, restored' = restored \/ restored' = FALSE
    PROVE  /\ sand' \in Sands /\ disk' \in Disks /\ restored' \in BOOLEAN
           /\ disk'.dump = disk.dump /\ disk'.pre = disk.pre /\ disk'.mark = disk.mark
           /\ UnmarkedIsClean' /\ RestoredKnows'
  <1>1. CASE sand.up
    <2>1. sand' = sand /\ disk' = disk
      BY <1>1
    <2>2. restored' \in BOOLEAN
      BY DEF SandInv
    <2>3. sand' \in Sands /\ disk' \in Disks /\ UnmarkedIsClean'
      BY <2>1 DEF SandInv, UnmarkedIsClean
    <2>4. RestoredKnows'
      BY <2>1 DEF SandInv, RestoredKnows
    <2> QED BY <2>1, <2>2, <2>3, <2>4
  <1>2. CASE ~ sand.up
    <2>1. /\ sand' \in Sands /\ sand'.data = Loads /\ sand'.up /\ ~ sand'.failed
          /\ disk' \in Disks /\ disk'.aof = disk.aof /\ disk'.dump = disk.dump /\ disk'.pre = disk.pre /\ disk'.mark = disk.mark
          /\ disk'.log = disk.log \/ (disk.aof /\ disk'.log = Loads)
      BY <1>2, StartsEffect
    <2>2. restored' \in BOOLEAN
      BY DEF SandInv
    <2>3. UnmarkedIsClean'
      BY <2>1 DEF SandInv, UnmarkedIsClean
    <2>4. restored => Loads = disk.log
      <3>1. NoFile.of = "none"
        BY DEF NoFile, Data
      <3> QED BY <3>1, LoadsEffect DEF SandInv, RestoredKnows
    <2>5. RestoredKnows'
      <3> SUFFICES ASSUME restored' PROVE sand'.data.of = "backup" /\ disk'.aof /\ disk'.log.of = "backup"
        BY DEF RestoredKnows
      <3>1. restored
        OBVIOUS
      <3>2. disk.aof /\ disk.log.of = "backup"
        BY <3>1 DEF SandInv, RestoredKnows
      <3> QED BY <2>1, <2>4, <3>1, <3>2
    <2> QED BY <2>1, <2>2, <2>3, <2>5
  <1> QED BY <1>1, <1>2

LEMMA ActEffect ==
    ASSUME NEW op \in ActOps, NEW at \in ActSteps, act' = [NoAct EXCEPT !.op = op, !.at = at]
    PROVE  act' \in Acts /\ act'.op = op /\ act'.at = at
  BY DEF NoAct, Acts

LEMMA BeginFaultKeeps ==
    ASSUME SandInv, BeginOom \/ BeginRdb
    PROVE  SandInv'
  <1>1. /\ IF sand.up THEN UNCHANGED <<sand, disk>> ELSE Starts
        /\ UNCHANGED restored
    BY DEF BeginOom, BeginRdb, Act
  <1>2. /\ sand' \in Sands /\ disk' \in Disks /\ restored' \in BOOLEAN
        /\ disk'.dump = disk.dump /\ disk'.pre = disk.pre /\ disk'.mark = disk.mark
        /\ UnmarkedIsClean' /\ RestoredKnows'
    BY <1>1, AwakeKeeps
  <1>3. CASE BeginOom
    <2>1. act' = [NoAct EXCEPT !.op = "oom", !.at = "record"]
      BY <1>3 DEF BeginOom, Act
    <2>2. act' \in Acts /\ act'.op = "oom" /\ act'.at = "record"
      BY <2>1, ActEffect DEF ActOps, ActSteps
    <2> QED BY <1>2, <2>2 DEF SandInv, FaultKnows, RecoverKnows, RestoreKnows
  <1>4. CASE BeginRdb
    <2>1. act' = [NoAct EXCEPT !.op = "rdb", !.at = "mark"] /\ ~ disk.mark
      BY <1>4 DEF BeginRdb, Act
    <2>2. act' \in Acts /\ act'.op = "rdb" /\ act'.at = "mark"
      BY <2>1, ActEffect DEF ActOps, ActSteps
    <2>3. disk.dump # Directory
      BY <2>1 DEF SandInv, UnmarkedIsClean
    <2> QED BY <1>2, <2>2, <2>3 DEF SandInv, FaultKnows, RecoverKnows, RestoreKnows
  <1> QED BY <1>3, <1>4

LEMMA OomKeeps ==
    ASSUME SandInv, OomRecord \/ OomLimit \/ OomFill
    PROVE  SandInv'
  <1>1. sand \in Sands /\ disk \in Disks /\ sand.data \in Contents /\ sand.limit \in Limits
    BY DEF SandInv, Sands, Alike
  <1>2. Unset \notin Limits
    BY DEF Unset, Limits
  <1>3. CASE OomRecord
    <2> DEFINE d == [sand.data EXCEPT !.saved = sand.limit]
    <2>1. From("oom", "record", "limit") /\ Holds(d)
      BY <1>3 DEF OomRecord
    <2>2. d \in Alike /\ d.of = sand.data.of /\ d.saved # Unset
      BY <1>1, <1>2 DEF Contents, Alike
    <2> HIDE DEF d
    <2>3. act' \in Acts /\ act'.op = "oom" /\ act'.at = "limit" /\ UNCHANGED restored
      BY <2>1, FromEffect DEF ActSteps, Unset
    <2>4. UnmarkedIsClean' /\ RestoredKnows'
      BY <2>1, <2>2, <2>3, HoldsEffect DEF SandInv, UnmarkedIsClean, RestoredKnows
    <2> QED BY <2>1, <2>2, <2>3, <2>4, HoldsEffect DEF SandInv, FaultKnows, RecoverKnows, RestoreKnows
  <1>4. CASE OomLimit
    <2>1. From("oom", "limit", "fill") /\ sand' = [sand EXCEPT !.limit = "low"] /\ UNCHANGED disk
      BY <1>4 DEF OomLimit, SandOnly
    <2>2. sand' \in Sands /\ sand'.data = sand.data /\ sand'.up = sand.up /\ sand'.failed = sand.failed
      BY <1>1, <2>1 DEF Sands, Limits
    <2>3. act.op = "oom" /\ act.at = "limit" /\ act' \in Acts /\ act'.op = "oom" /\ act'.at = "fill" /\ UNCHANGED restored
      BY <2>1, FromEffect DEF ActSteps, Unset
    <2>4. UnmarkedIsClean' /\ RestoredKnows'
      BY <2>1, <2>2, <2>3 DEF SandInv, UnmarkedIsClean, RestoredKnows
    <2> QED BY <2>1, <2>2, <2>3, <2>4 DEF SandInv, FaultKnows, RecoverKnows, RestoreKnows
  <1>5. CASE OomFill
    <2> DEFINE d == [sand.data EXCEPT !.fill = TRUE]
    <2>1. act.op = "oom" /\ act.at = "fill" /\ act' = NoAct /\ UNCHANGED restored /\ Holds(d)
      BY <1>5 DEF OomFill, From, Quiet
    <2>2. sand.data.saved # Unset
      BY <2>1 DEF SandInv, FaultKnows
    <2>3. d \in Alike /\ d.of = sand.data.of
      BY <1>1, <2>2 DEF Contents, Alike
    <2> HIDE DEF d
    <2>4. UnmarkedIsClean' /\ RestoredKnows'
      BY <2>1, <2>3, HoldsEffect DEF SandInv, UnmarkedIsClean, RestoredKnows
    <2>5. sand' \in Sands /\ disk' \in Disks /\ restored' \in BOOLEAN
      BY <2>1, <2>3, HoldsEffect DEF SandInv
    <2> QED BY <2>1, <2>4, <2>5, IdleKeeps
  <1> QED BY <1>3, <1>4, <1>5

LEMMA RdbKeeps ==
    ASSUME SandInv, RdbMark \/ RdbMove \/ RdbBlock \/ RdbSave
    PROVE  SandInv'
  <1>1. sand \in Sands /\ disk \in Disks
    BY DEF SandInv
  <1>2. CASE RdbMark
    <2>1. From("rdb", "mark", "move") /\ disk' = [disk EXCEPT !.mark = TRUE] /\ UNCHANGED sand
      BY <1>2 DEF RdbMark, DiskOnly
    <2>2. /\ disk' \in Disks /\ disk'.mark /\ disk'.dump = disk.dump /\ disk'.pre = disk.pre /\ disk'.log = disk.log
          /\ disk'.aof = disk.aof
      BY <1>1, <2>1 DEF Disks
    <2>3. act.op = "rdb" /\ act.at = "mark" /\ act' \in Acts /\ act'.op = "rdb" /\ act'.at = "move" /\ UNCHANGED restored
      BY <2>1, FromEffect DEF ActSteps, Unset
    <2> QED BY <2>1, <2>2, <2>3 DEF SandInv, UnmarkedIsClean, FaultKnows, RecoverKnows, RestoreKnows, RestoredKnows
  <1>3. CASE RdbMove
    <2> DEFINE moved == [disk EXCEPT !.pre = disk.dump, !.dump = NoFile]
    <2>1. From("rdb", "move", "block") /\ UNCHANGED sand /\ (disk' = disk \/ (disk' = moved /\ disk.dump # NoFile))
      BY <1>3 DEF RdbMove, DiskOnly
    <2>2. act.op = "rdb" /\ act.at = "move" /\ act' \in Acts /\ act'.op = "rdb" /\ act'.at = "block" /\ UNCHANGED restored
      BY <2>1, FromEffect DEF ActSteps, Unset
    <2>3. disk.mark /\ disk.dump # Directory
      BY <2>2 DEF SandInv, FaultKnows
    <2>4. disk' \in Disks /\ disk'.mark = disk.mark /\ disk'.log = disk.log /\ disk'.aof = disk.aof
      <3>1. CASE disk' = disk
        BY <1>1, <3>1
      <3>2. CASE disk' = moved /\ disk.dump # NoFile
        <4>1. disk.dump \in Alike
          BY <1>1, <2>3, <3>2 DEF Disks
        <4> QED BY <1>1, <3>2, <4>1 DEF Disks
      <3> QED BY <2>1, <3>1, <3>2
    <2> HIDE DEF moved
    <2> QED BY <2>1, <2>2, <2>3, <2>4 DEF SandInv, UnmarkedIsClean, FaultKnows, RecoverKnows, RestoreKnows, RestoredKnows
  <1>4. CASE RdbBlock
    <2>1. From("rdb", "block", "save") /\ disk' = [disk EXCEPT !.dump = Directory] /\ UNCHANGED sand
      BY <1>4 DEF RdbBlock, DiskOnly
    <2>2. disk' \in Disks /\ disk'.mark = disk.mark /\ disk'.log = disk.log /\ disk'.aof = disk.aof
      BY <1>1, <2>1 DEF Disks
    <2>3. act.op = "rdb" /\ act.at = "block" /\ act' \in Acts /\ act'.op = "rdb" /\ act'.at = "save" /\ UNCHANGED restored
      BY <2>1, FromEffect DEF ActSteps, Unset
    <2>4. disk.mark
      BY <2>3 DEF SandInv, FaultKnows
    <2> QED BY <2>1, <2>2, <2>3, <2>4 DEF SandInv, UnmarkedIsClean, FaultKnows, RecoverKnows, RestoreKnows, RestoredKnows
  <1>5. CASE RdbSave
    <2>1. Saved /\ act' = NoAct /\ UNCHANGED restored
      BY <1>5 DEF RdbSave, From, Quiet
    <2>2. sand' \in Sands /\ disk' \in Disks /\ restored' \in BOOLEAN
      BY <2>1, SavedEffect DEF SandInv
    <2> QED BY <2>1, <2>2, SavedIsClean, IdleKeeps
  <1> QED BY <1>2, <1>3, <1>4, <1>5
LEMMA BeginRecoverKeeps ==
    ASSUME SandInv, BeginSandRecover
    PROVE  SandInv'
  <1> DEFINE at == IF disk.mark THEN "unblock" ELSE "await"
  <1>1. /\ IF sand.up THEN UNCHANGED <<sand, disk>> ELSE Starts
        /\ UNCHANGED restored /\ act' = [NoAct EXCEPT !.op = "recover", !.at = at]
    BY DEF BeginSandRecover, Act
  <1>2. at \in {"unblock", "await"} /\ (at = "await" => ~ disk.mark)
    OBVIOUS
  <1> HIDE DEF at
  <1>3. act' \in Acts /\ act'.op = "recover" /\ act'.at = at
    BY <1>1, <1>2, ActEffect DEF ActOps, ActSteps
  <1>4. /\ sand' \in Sands /\ disk' \in Disks /\ restored' \in BOOLEAN
        /\ disk'.dump = disk.dump /\ disk'.pre = disk.pre /\ disk'.mark = disk.mark
        /\ UnmarkedIsClean' /\ RestoredKnows'
    BY <1>1, AwakeKeeps
  <1>5. at = "await" => disk.dump # Directory /\ disk.pre = NoFile
    BY <1>2 DEF SandInv, UnmarkedIsClean
  <1> QED BY <1>2, <1>3, <1>4, <1>5 DEF SandInv, FaultKnows, RecoverKnows, RestoreKnows

(* The disk first: the directory goes, the moved file comes back, and a save succeeds. *)
LEMMA RecoverDiskKeeps ==
    ASSUME SandInv, RecUnblock \/ RecBack \/ RecSave
    PROVE  SandInv'
  <1>1. sand \in Sands /\ disk \in Disks
    BY DEF SandInv
  <1>2. CASE RecUnblock
    <2>1. From("recover", "unblock", "back") /\ UNCHANGED sand
      BY <1>2 DEF RecUnblock, DiskOnly
    <2>2. /\ disk' \in Disks /\ disk'.mark = disk.mark /\ disk'.log = disk.log /\ disk'.aof = disk.aof /\ disk'.pre = disk.pre
          /\ disk'.dump # Directory
      <3>1. CASE disk.dump = Directory
        <4>1. disk' = [disk EXCEPT !.dump = NoFile]
          BY <1>2, <3>1 DEF RecUnblock, DiskOnly
        <4> QED BY <1>1, <4>1, FilesDiffer DEF Disks
      <3>2. CASE disk.dump # Directory
        BY <1>1, <1>2, <3>2 DEF RecUnblock, DiskOnly
      <3> QED BY <3>1, <3>2
    <2>3. act' \in Acts /\ act'.op = "recover" /\ act'.at = "back" /\ UNCHANGED restored
      BY <2>1, FromEffect DEF ActSteps, Unset
    <2> QED BY <2>1, <2>2, <2>3 DEF SandInv, UnmarkedIsClean, FaultKnows, RecoverKnows, RestoreKnows, RestoredKnows
  <1>3. CASE RecBack
    <2>1. From("recover", "back", "save") /\ UNCHANGED sand
      BY <1>3 DEF RecBack, DiskOnly
    <2>2. act.op = "recover" /\ act.at = "back" /\ act' \in Acts /\ act'.op = "recover" /\ act'.at = "save" /\ UNCHANGED restored
      BY <2>1, FromEffect DEF ActSteps, Unset
    <2>3. disk.dump # Directory
      BY <2>2 DEF SandInv, RecoverKnows
    <2>4. /\ disk' \in Disks /\ disk'.mark = disk.mark /\ disk'.log = disk.log /\ disk'.aof = disk.aof /\ disk'.pre = NoFile
          /\ disk'.dump # Directory
      <3>1. CASE disk.pre # NoFile
        <4>1. disk' = [disk EXCEPT !.dump = disk.pre, !.pre = NoFile]
          BY <1>3, <3>1 DEF RecBack, DiskOnly
        <4>2. disk.pre \in Alike /\ disk.pre # Directory
          BY <1>1, <3>1, FilesDiffer DEF Disks
        <4> QED BY <1>1, <4>1, <4>2 DEF Disks
      <3>2. CASE disk.pre = NoFile
        BY <1>1, <1>3, <2>3, <3>2 DEF RecBack, DiskOnly
      <3> QED BY <3>1, <3>2
    <2> QED BY <2>1, <2>2, <2>4 DEF SandInv, UnmarkedIsClean, FaultKnows, RecoverKnows, RestoreKnows, RestoredKnows
  <1>4. CASE RecSave
    <2>1. From("recover", "save", "await") /\ Saved
      BY <1>4 DEF RecSave
    <2>2. act.op = "recover" /\ act.at = "save" /\ act' \in Acts /\ act'.op = "recover" /\ act'.at = "await" /\ UNCHANGED restored
      BY <2>1, FromEffect DEF ActSteps, Unset
    <2>3. disk.dump # Directory /\ disk.pre = NoFile
      BY <2>2 DEF SandInv, RecoverKnows
    <2>4. sand.data # Directory
      BY <1>1, FilesDiffer DEF Sands
    <2>5. UnmarkedIsClean' /\ RestoredKnows'
      BY <2>1, <2>2, SavedIsClean
    <2>6. sand' \in Sands /\ disk' \in Disks /\ disk'.dump # Directory /\ disk'.pre = NoFile /\ restored' \in BOOLEAN
      BY <2>1, <2>2, <2>3, <2>4, SavedEffect DEF SandInv
    <2> QED BY <2>2, <2>5, <2>6 DEF SandInv, FaultKnows, RecoverKnows, RestoreKnows
  <1> QED BY <1>2, <1>3, <1>4

(* Then memory: the filler before the record, the record before the limit. *)
LEMMA RecoverMemoryKeeps ==
    ASSUME SandInv, RecAwait \/ RecFill \/ RecForget \/ RecLimit
    PROVE  SandInv'
  <1>1. sand \in Sands /\ disk \in Disks /\ act \in Acts /\ sand.data \in Contents /\ sand.data \in Alike
    BY DEF SandInv, Sands, Alike
  <1>2. CASE RecAwait
    <2> DEFINE next == IF sand.data.saved = Unset THEN "unmark" ELSE "fill"
               keep == sand.data.saved
    <2>1. /\ act.op = "recover" /\ act.at = "await" /\ UNCHANGED <<sand, disk, restored>>
          /\ act' = [act EXCEPT !.at = next, !.keep = keep]
      BY <1>2 DEF RecAwait, Quiet
    <2>2. next \in {"unmark", "fill"} /\ (next = "fill" => keep # Unset) /\ keep \in Limits \cup {Unset}
      BY <1>1 DEF Contents
    <2> HIDE DEF next, keep
    <2>3. act' \in Acts /\ act'.op = "recover" /\ act'.at = next /\ act'.keep = keep
      BY <1>1, <2>1, <2>2 DEF Acts, ActSteps
    <2> QED BY <2>1, <2>2, <2>3 DEF SandInv, UnmarkedIsClean, FaultKnows, RecoverKnows, RestoreKnows, RestoredKnows
  <1>3. CASE RecFill
    <2> DEFINE d == [sand.data EXCEPT !.fill = FALSE]
    <2>1. From("recover", "fill", "forget") /\ Holds(d)
      BY <1>3 DEF RecFill
    <2>2. d \in Alike /\ d.of = sand.data.of /\ ~ d.fill
      BY <1>1 DEF Contents, Alike
    <2> HIDE DEF d
    <2>3. /\ act.op = "recover" /\ act.at = "fill" /\ act' \in Acts /\ act'.op = "recover" /\ act'.at = "forget"
          /\ act'.keep = act.keep /\ UNCHANGED restored
      BY <2>1, FromEffect DEF ActSteps, Unset
    <2>4. UnmarkedIsClean' /\ RestoredKnows'
      BY <2>1, <2>2, <2>3, HoldsEffect DEF SandInv, UnmarkedIsClean, RestoredKnows
    <2>5. RecoverKnows'
      BY <2>1, <2>2, <2>3, HoldsEffect DEF SandInv, RecoverKnows
    <2> QED BY <2>1, <2>2, <2>3, <2>4, <2>5, HoldsEffect DEF SandInv, FaultKnows, RestoreKnows
  <1>4. CASE RecForget
    <2> DEFINE d == [sand.data EXCEPT !.saved = Unset]
    <2>1. From("recover", "forget", "limit") /\ Holds(d)
      BY <1>4 DEF RecForget
    <2>2. /\ act.op = "recover" /\ act.at = "forget" /\ act' \in Acts /\ act'.op = "recover" /\ act'.at = "limit"
          /\ act'.keep = act.keep /\ UNCHANGED restored
      BY <2>1, FromEffect DEF ActSteps, Unset
    <2>3. ~ sand.data.fill
      BY <2>2 DEF SandInv, RecoverKnows
    <2>4. d \in Alike /\ d.of = sand.data.of
      BY <1>1, <2>3 DEF Contents, Alike
    <2> HIDE DEF d
    <2>5. UnmarkedIsClean' /\ RestoredKnows'
      BY <2>1, <2>2, <2>4, HoldsEffect DEF SandInv, UnmarkedIsClean, RestoredKnows
    <2>6. RecoverKnows'
      BY <2>1, <2>2, <2>4, HoldsEffect DEF SandInv, RecoverKnows
    <2> QED BY <2>1, <2>2, <2>4, <2>5, <2>6, HoldsEffect DEF SandInv, FaultKnows, RestoreKnows
  <1>5. CASE RecLimit
    <2> DEFINE limit == act.keep
    <2>1. From("recover", "limit", "unmark") /\ sand' = [sand EXCEPT !.limit = limit] /\ UNCHANGED disk
      BY <1>5 DEF RecLimit, SandOnly
    <2>2. act.op = "recover" /\ act.at = "limit" /\ act' \in Acts /\ act'.op = "recover" /\ act'.at = "unmark" /\ UNCHANGED restored
      BY <2>1, FromEffect DEF ActSteps, Unset
    <2>3. limit \in Limits
      BY <1>1, <2>2 DEF SandInv, RecoverKnows, Acts
    <2> HIDE DEF limit
    <2>4. sand' \in Sands /\ sand'.data = sand.data /\ sand'.up = sand.up /\ sand'.failed = sand.failed
      BY <1>1, <2>1, <2>3 DEF Sands
    <2>5. UnmarkedIsClean' /\ RestoredKnows'
      BY <2>1, <2>2, <2>4 DEF SandInv, UnmarkedIsClean, RestoredKnows
    <2> QED BY <2>1, <2>2, <2>4, <2>5 DEF SandInv, FaultKnows, RecoverKnows, RestoreKnows
  <1> QED BY <1>2, <1>3, <1>4, <1>5

(* The mark last, when saves succeed again. *)
LEMMA UnmarkKeeps ==
    ASSUME SandInv, RecUnmark
    PROVE  SandInv'
  <1>1. /\ act.op = "recover" /\ act.at = "unmark" /\ act' = NoAct /\ UNCHANGED <<sand, restored>> /\ ~ sand.failed
        /\ disk' = [disk EXCEPT !.mark = FALSE] /\ sand \in Sands /\ disk \in Disks
    BY DEF RecUnmark, From, Quiet, DiskOnly, SandInv
  <1>2. disk' \in Disks /\ disk'.dump = disk.dump /\ disk'.pre = disk.pre /\ disk'.log = disk.log /\ disk'.aof = disk.aof
    BY <1>1 DEF Disks
  <1>3. disk.dump # Directory /\ disk.pre = NoFile
    BY <1>1 DEF SandInv, RecoverKnows
  <1>4. UnmarkedIsClean' /\ RestoredKnows'
    BY <1>1, <1>2, <1>3 DEF SandInv, UnmarkedIsClean, RestoredKnows
  <1> QED BY <1>1, <1>2, <1>4, IdleKeeps DEF SandInv
LEMMA BeginRestoreKeeps ==
    ASSUME SandInv, BeginRestore1
    PROVE  SandInv'
  <1>1. /\ IF sand.up THEN UNCHANGED <<sand, disk>> ELSE Starts
        /\ restored' = FALSE /\ act' = [NoAct EXCEPT !.op = "restore", !.at = "stop"]
    BY DEF BeginRestore1
  <1>2. act' \in Acts /\ act'.op = "restore" /\ act'.at = "stop"
    BY <1>1, ActEffect DEF ActOps, ActSteps
  <1>3. sand' \in Sands /\ disk' \in Disks /\ UnmarkedIsClean' /\ RestoredKnows'
    BY <1>1, AwakeKeeps
  <1> QED BY <1>1, <1>2, <1>3 DEF SandInv, FaultKnows, RecoverKnows, RestoreKnows

(* The sandbox is stopped before its files are replaced: nothing writes them meanwhile. *)
LEMMA RestoreFilesKeep ==
    ASSUME SandInv, RestoreStop \/ RestoreEmpty \/ RestoreCopy \/ RestoreConf \/ RestoreClear
    PROVE  SandInv'
  <1>1. sand \in Sands /\ disk \in Disks /\ act \in Acts /\ restored \in BOOLEAN
    BY DEF SandInv
  <1>2. CASE RestoreStop
    <2>1. From("restore", "stop", "wipe") /\ sand' = [sand EXCEPT !.up = FALSE] /\ UNCHANGED disk
      BY <1>2 DEF RestoreStop, SandOnly
    <2>2. sand' \in Sands /\ ~ sand'.up
      BY <1>1, <2>1 DEF Sands
    <2>3. act.op = "restore" /\ act' \in Acts /\ act'.op = "restore" /\ act'.at = "wipe" /\ UNCHANGED restored
      BY <2>1, FromEffect DEF ActSteps, Unset
    <2>4. ~ restored
      BY <2>3 DEF SandInv, RestoreKnows
    <2> QED BY <2>1, <2>2, <2>3, <2>4 DEF SandInv, UnmarkedIsClean, FaultKnows, RecoverKnows, RestoreKnows, RestoredKnows
  <1>3. CASE RestoreEmpty
    <2>1. From("restore", "wipe", "copy") /\ disk' = [disk EXCEPT !.log = NoFile, !.dump = NoFile] /\ UNCHANGED sand
      BY <1>3 DEF RestoreEmpty, DiskOnly
    <2>2. disk' \in Disks /\ disk'.pre = disk.pre /\ disk'.mark = disk.mark /\ disk'.dump # Directory
      BY <1>1, <2>1, FilesDiffer DEF Disks
    <2>3. act.op = "restore" /\ act.at = "wipe" /\ act' \in Acts /\ act'.op = "restore" /\ act'.at = "copy" /\ UNCHANGED restored
      BY <2>1, FromEffect DEF ActSteps, Unset
    <2>4. ~ restored /\ ~ sand.up
      BY <2>3 DEF SandInv, RestoreKnows
    <2> QED BY <2>1, <2>2, <2>3, <2>4 DEF SandInv, UnmarkedIsClean, FaultKnows, RecoverKnows, RestoreKnows, RestoredKnows
  <1>4. CASE RestoreCopy
    <2> DEFINE backup == Data("backup")
    <2>1. From("restore", "copy", "conf") /\ disk' = [disk EXCEPT !.dump = backup] /\ UNCHANGED sand
      BY <1>4 DEF RestoreCopy, DiskOnly
    <2>2. backup \in Alike /\ backup \notin {NoFile, Directory}
      BY DataIsAlike, FilesDiffer
    <2> HIDE DEF backup
    <2>3. disk' \in Disks /\ disk'.pre = disk.pre /\ disk'.mark = disk.mark /\ disk'.dump \notin {NoFile, Directory}
      BY <1>1, <2>1, <2>2 DEF Disks
    <2>4. act.op = "restore" /\ act.at = "copy" /\ act' \in Acts /\ act'.op = "restore" /\ act'.at = "conf" /\ UNCHANGED restored
      BY <2>1, FromEffect DEF ActSteps, Unset
    <2>5. ~ restored /\ ~ sand.up
      BY <2>4 DEF SandInv, RestoreKnows
    <2> QED BY <2>1, <2>3, <2>4, <2>5 DEF SandInv, UnmarkedIsClean, FaultKnows, RecoverKnows, RestoreKnows, RestoredKnows
  <1>5. CASE RestoreConf
    <2>1. From("restore", "conf", "clear") /\ disk' = [disk EXCEPT !.aof = FALSE] /\ UNCHANGED sand
      BY <1>5 DEF RestoreConf, DiskOnly
    <2>2. disk' \in Disks /\ disk'.pre = disk.pre /\ disk'.mark = disk.mark /\ disk'.dump = disk.dump /\ ~ disk'.aof
      BY <1>1, <2>1 DEF Disks
    <2>3. act.op = "restore" /\ act.at = "conf" /\ act' \in Acts /\ act'.op = "restore" /\ act'.at = "clear" /\ UNCHANGED restored
      BY <2>1, FromEffect DEF ActSteps, Unset
    <2>4. ~ restored /\ ~ sand.up /\ disk.dump \notin {NoFile, Directory}
      BY <2>3 DEF SandInv, RestoreKnows
    <2> QED BY <2>1, <2>2, <2>3, <2>4 DEF SandInv, UnmarkedIsClean, FaultKnows, RecoverKnows, RestoreKnows, RestoredKnows
  <1>6. CASE RestoreClear
    <2>1. From("restore", "clear", "start") /\ disk' = [disk EXCEPT !.mark = FALSE, !.pre = NoFile] /\ UNCHANGED sand
      BY <1>6 DEF RestoreClear, DiskOnly
    <2>2. disk' \in Disks /\ disk'.pre = NoFile /\ ~ disk'.mark /\ disk'.dump = disk.dump /\ disk'.aof = disk.aof
      BY <1>1, <2>1 DEF Disks
    <2>3. act.op = "restore" /\ act.at = "clear" /\ act' \in Acts /\ act'.op = "restore" /\ act'.at = "start" /\ UNCHANGED restored
      BY <2>1, FromEffect DEF ActSteps, Unset
    <2>4. ~ restored /\ ~ sand.up /\ disk.dump \notin {NoFile, Directory} /\ ~ disk.aof
      BY <2>3 DEF SandInv, RestoreKnows
    <2> QED BY <2>1, <2>2, <2>3, <2>4 DEF SandInv, UnmarkedIsClean, FaultKnows, RecoverKnows, RestoreKnows, RestoredKnows
  <1> QED BY <1>2, <1>3, <1>4, <1>5, <1>6

LEMMA RestoreStartKeeps ==
    ASSUME SandInv, RestoreStart
    PROVE  SandInv'
  <1>1. From("restore", "start", "check") /\ Starts
    BY DEF RestoreStart
  <1>2. act.op = "restore" /\ act.at = "start" /\ act' \in Acts /\ act'.op = "restore" /\ act'.at = "check" /\ UNCHANGED restored
    BY <1>1, FromEffect DEF ActSteps, Unset
  <1>3. ~ restored /\ disk.dump \notin {NoFile, Directory} /\ ~ disk.aof /\ ~ disk.mark
    BY <1>2 DEF SandInv, RestoreKnows
  <1>4. disk.pre = NoFile
    BY <1>3 DEF SandInv, UnmarkedIsClean
  <1>5. Loads = disk.dump
    BY <1>3, LoadsEffect
  <1>6. /\ sand' \in Sands /\ sand'.data = disk.dump /\ ~ sand'.failed /\ ~ sand'.aof
        /\ disk' \in Disks /\ ~ disk'.aof /\ disk'.dump = disk.dump /\ disk'.pre = disk.pre /\ disk'.mark = disk.mark
    BY <1>1, <1>3, <1>5, StartsEffect
  <1> QED BY <1>2, <1>3, <1>4, <1>6 DEF SandInv, UnmarkedIsClean, FaultKnows, RecoverKnows, RestoreKnows, RestoredKnows

(* The append-only file is written anew from the backup before the configuration names it again. *)
LEMMA RestoreLogKeeps ==
    ASSUME SandInv, RestoreCheck \/ RestoreLog \/ RestoreAwait \/ RestorePersist
    PROVE  SandInv'
  <1>1. sand \in Sands /\ disk \in Disks /\ act \in Acts /\ restored \in BOOLEAN
    BY DEF SandInv
  <1>2. CASE RestoreCheck
    <2>1. act.op = "restore" /\ act.at = "check" /\ UNCHANGED <<sand, disk, restored>>
      BY <1>2 DEF RestoreCheck, Quiet
    <2>2. CASE sand.data.of # "backup"
      <3>1. act' = NoAct
        BY <1>2, <2>2 DEF RestoreCheck
      <3>2. UnmarkedIsClean' /\ RestoredKnows'
        BY <2>1 DEF SandInv, UnmarkedIsClean, RestoredKnows
      <3> QED BY <1>1, <2>1, <3>1, <3>2, IdleKeeps
    <2>3. CASE sand.data.of = "backup"
      <3>1. act' = [act EXCEPT !.at = "log"]
        BY <1>2, <2>3 DEF RestoreCheck
      <3>2. act' \in Acts /\ act'.op = "restore" /\ act'.at = "log"
        BY <1>1, <2>1, <3>1 DEF Acts, ActSteps
      <3>3. UnmarkedIsClean' /\ RestoredKnows'
        BY <2>1 DEF SandInv, UnmarkedIsClean, RestoredKnows
      <3>4. RestoreKnows'
        BY <2>1, <2>3, <3>2 DEF SandInv, RestoreKnows
      <3> QED BY <1>1, <2>1, <3>2, <3>3, <3>4 DEF SandInv, FaultKnows, RecoverKnows
    <2> QED BY <2>2, <2>3
  <1>3. CASE RestoreLog
    <2>1. From("restore", "log", "await") /\ SandOnly(IF sand.aof THEN sand ELSE [sand EXCEPT !.aof = TRUE, !.anew = TRUE])
      BY <1>3 DEF RestoreLog
    <2>2. act.op = "restore" /\ act.at = "log" /\ act' \in Acts /\ act'.op = "restore" /\ act'.at = "await" /\ UNCHANGED restored
      BY <2>1, FromEffect DEF ActSteps, Unset
    <2>3. ~ sand.aof
      BY <2>2 DEF SandInv, RestoreKnows
    <2>4. sand' = [sand EXCEPT !.aof = TRUE, !.anew = TRUE] /\ UNCHANGED disk
      BY <2>1, <2>3 DEF SandOnly
    <2>5. /\ sand' \in Sands /\ sand'.aof /\ sand'.anew /\ sand'.data = sand.data /\ sand'.up = sand.up
          /\ sand'.failed = sand.failed
      BY <1>1, <2>4 DEF Sands
    <2>6. UnmarkedIsClean' /\ RestoredKnows'
      BY <2>2, <2>4, <2>5 DEF SandInv, UnmarkedIsClean, RestoredKnows
    <2>7. RestoreKnows'
      BY <2>2, <2>4, <2>5 DEF SandInv, RestoreKnows
    <2> QED BY <1>1, <2>2, <2>4, <2>5, <2>6, <2>7 DEF SandInv, FaultKnows, RecoverKnows
  <1>4. CASE RestoreAwait
    <2>1. From("restore", "await", "persist") /\ ~ sand.anew /\ UNCHANGED <<sand, disk>>
      BY <1>4 DEF RestoreAwait
    <2>2. act.op = "restore" /\ act.at = "await" /\ act' \in Acts /\ act'.op = "restore" /\ act'.at = "persist" /\ UNCHANGED restored
      BY <2>1, FromEffect DEF ActSteps, Unset
    <2>3. UnmarkedIsClean' /\ RestoredKnows'
      BY <2>1, <2>2 DEF SandInv, UnmarkedIsClean, RestoredKnows
    <2>4. RestoreKnows'
      BY <2>1, <2>2 DEF SandInv, RestoreKnows
    <2> QED BY <1>1, <2>1, <2>2, <2>3, <2>4 DEF SandInv, FaultKnows, RecoverKnows
  <1>5. CASE RestorePersist
    <2> DEFINE log == sand.aof
    <2>1. /\ act.op = "restore" /\ act.at = "persist" /\ act' = NoAct /\ UNCHANGED sand /\ restored' = TRUE
          /\ disk' = [disk EXCEPT !.aof = log]
      BY <1>5 DEF RestorePersist
    <2>2. log /\ sand.data.of = "backup" /\ disk.log.of = "backup" /\ log \in BOOLEAN
      BY <1>1, <2>1 DEF SandInv, RestoreKnows, Sands
    <2> HIDE DEF log
    <2>3. /\ disk' \in Disks /\ disk'.aof = log /\ disk'.log = disk.log /\ disk'.dump = disk.dump /\ disk'.pre = disk.pre
          /\ disk'.mark = disk.mark
      BY <1>1, <2>1, <2>2 DEF Disks
    <2>4. UnmarkedIsClean' /\ RestoredKnows'
      BY <2>1, <2>2, <2>3 DEF SandInv, UnmarkedIsClean, RestoredKnows
    <2> QED BY <1>1, <2>1, <2>3, <2>4, IdleKeeps
  <1> QED BY <1>2, <1>3, <1>4, <1>5

LEMMA SandKept ==
    ASSUME SandInv, [SandNext]_sandVars
    PROVE  SandInv'
  <1>1. CASE UNCHANGED sandVars
    BY <1>1, SandAlone DEF sandVars
  <1>2. CASE Flight
    BY <1>2, SandAlone DEF Flight, FlightGet, FlightLock, FlightAgain, FlightOrigin, FlightPut, FlightRelease, Flies
  <1>3. CASE ServerStops \/ ScheduledSave \/ Interrupted
    BY <1>3, ServerStopsKeeps, ScheduledSaveKeeps, InterruptedKeeps
  <1>4. CASE Faulty
    BY <1>4, BeginFaultKeeps, OomKeeps, RdbKeeps DEF Faulty
  <1>5. CASE SandRecovers
    BY <1>5, BeginRecoverKeeps, RecoverDiskKeeps, RecoverMemoryKeeps, UnmarkKeeps DEF SandRecovers
  <1>6. CASE Restores
    BY <1>6, BeginRestoreKeeps, RestoreFilesKeep, RestoreStartKeeps, RestoreLogKeeps, RewriteEndsKeeps DEF Restores
  <1> QED BY <1>1, <1>2, <1>3, <1>4, <1>5, <1>6 DEF SandNext, SandStep

LEMMA SandInitially ==
    ASSUME SandInit
    PROVE  SandInv
  <1> DEFINE own == Data("sandbox")
  <1>1. /\ sand = [up |-> TRUE, data |-> own, limit |-> "own", aof |-> TRUE, anew |-> FALSE, failed |-> FALSE]
        /\ disk = [aof |-> TRUE, log |-> own, dump |-> NoFile, pre |-> NoFile, mark |-> FALSE]
        /\ act = NoAct /\ restored = FALSE
    BY DEF SandInit
  <1>2. own \in Alike
    BY DataIsAlike
  <1> HIDE DEF own
  <1>3. sand \in Sands /\ ~ sand.failed
    BY <1>1, <1>2 DEF Sands, Limits
  <1>4. disk \in Disks /\ disk.dump # Directory /\ disk.pre = NoFile
    BY <1>1, <1>2, FilesDiffer DEF Disks
  <1>5. act \in Acts /\ act.op = Unset
    BY <1>1 DEF NoAct, Acts, ActOps, ActSteps
  <1> QED BY <1>1, <1>3, <1>4, <1>5
       DEF SandInv, UnmarkedIsClean, FaultKnows, RecoverKnows, RestoreKnows, RestoredKnows, Unset

(* The inductive invariant of the sandbox server, wherever a command or the server stops. *)
THEOREM SandboxInvariant == SandSpec => []SandInv
  <1>1. SandInv /\ [SandNext]_sandVars => SandInv'
    BY SandKept
  <1> QED BY <1>1, SandInitially, PTL DEF SandSpec

(* Nothing of a sandbox fault is left without its mark or its record, and from the moment a      *)
(* restore has checked its marker the sandbox comes back with the backup, whatever stops it.     *)
THEOREM SandboxStaysSound == SandSpec => []SandboxIsSound
  <1>1. ASSUME SandInv PROVE SandboxIsSound
    <2>1. Rdb!NothingUnrecorded
      BY <1>1 DEF SandInv, UnmarkedIsClean, Rdb!NothingUnrecorded, RdbFault
    <2>2. Oom!NothingUnrecorded
      <3>1. sand.data \in Alike
        BY <1>1 DEF SandInv, Sands
      <3>2. sand.data.saved = Unset => ~ sand.data.fill
        BY <3>1 DEF Alike
      <3> QED BY <3>2 DEF Oom!NothingUnrecorded, OomFault
    <2>3. ASSUME restored PROVE Loads.of = "backup"
      <3>1. disk.aof /\ disk.log.of = "backup"
        BY <1>1, <2>3 DEF SandInv, RestoredKnows
      <3>2. disk.log # NoFile
        BY <3>1 DEF NoFile, Data
      <3> QED BY <1>1, <3>1, <3>2, LoadsEffect
    <2>4. ASSUME act.op = "restore", act.at \in {"log", "await", "persist"} PROVE Loads.of = "backup"
      <3>1. ~ disk.aof /\ disk.dump \notin {NoFile, Directory} /\ disk.dump.of = "backup"
        BY <1>1, <2>4 DEF SandInv, RestoreKnows
      <3> QED BY <1>1, <3>1, LoadsEffect
    <2> QED BY <2>1, <2>2, <2>3, <2>4 DEF SandboxIsSound
  <1> QED BY <1>1, SandboxInvariant, PTL

Values == {"default", "lab", "operator"}
Outcomes == Statuses \cup {"RUNNING", Nowhere}
RunNames == Named \cup {"recover", Nowhere}
ScriptSteps ==
    [do : {"set", "write", "save", "proxy"}, of : SUBSET (Settings \cup {"none", "slow"})] \cup [do : {"verdict"}, of : SUBSET Statuses]
Perfs == [id : Nat, cfg : [Settings -> Values], own : [Settings -> Values], keys : SUBSET Runs, dump : SUBSET Runs]
Journals == [server : Nat, run : 0..MaxRuns, config : [Settings -> Values \cup {Unsaved}]]
RunSteps == {Nowhere, "enter", "body", "set", "config", "cleanup", "unlink", "finish", "done", "dead"}
Processes ==
    [at : RunSteps, name : RunNames, left : Seq(ScriptSteps), conn : Nat, status : Statuses, report : Outcomes]
Cages == [id : Nat \ {0}, cpu : {"own", "limited"}, kept : Nat]
Links == [backlog : {"own", "small"}, kept : BOOLEAN]
Rows == [run : Runs, by : Runs, status : Outcomes]
HostOps == {Nowhere, "run", "recover", "cpu", "replication", "down", "reset", "validate"}
HostSteps ==
    {Nowhere, "wait", "told", "cpu", "link", "runner", "compose", "forget", "refused", "record", "limit", "shrink", "restore", "next", "export"}
Hosts ==
    [op : HostOps, at : HostSteps, run : 0..MaxRuns, prev : 0..MaxRuns, rows : Seq(Rows), failed : BOOLEAN, verdict : Outcomes]

PerfTypes == perf \in Perfs /\ kept \in Journals /\ runs \in [Runs -> Processes] /\ latest \in 0..MaxRuns
LabTypes == cage \in Cages /\ link \in Links /\ host \in Hosts

(* scenario.lock has one holder, and a journal is there for as long as it is held. *)
LockHeldOnce == \A r, q \in Locked : r = q
HolderHasRecord ==
    /\ kept.run = 0 => kept = NoJournal
    /\ \A r \in Locked : kept.run # 0 /\ (runs[r].name # "recover" => kept.run = r)

(* The journal is of a scenario that began, and that has not passed if it has ended. *)
RecordKnows ==
    \A r \in Runs : kept.run = r =>
        runs[r].at \notin {Nowhere, "enter"} /\ runs[r].name # "recover" /\ (runs[r].at = "finish" => runs[r].status # "PASS")

(* A scenario under way has a verdict to reach; a process holds no journal of a server to come. *)
ScriptGoesOn ==
    \A r \in Runs :
        /\ runs[r].at \in {"body", "set"} => runs[r].name # "recover"
        /\ runs[r].at \in {"enter", "body", "set"} /\ runs[r].name # "recover" =>
              runs[r].left # <<>> /\ runs[r].left[Len(runs[r].left)].do = "verdict"
        /\ runs[r].at = "set" => Head(runs[r].left).do = "set"
ServersKnown ==
    /\ kept.server <= perf.id
    /\ \A r \in Runs :
          /\ runs[r].conn <= perf.id
          /\ runs[r].at \in {"body", "set"} => runs[r].conn <= kept.server

(* What is saved is what the server has without experiments, and what is not saved is unchanged. *)
SettingsKnown ==
    /\ kept.run = 0 \/ kept.server # perf.id => perf.cfg = perf.own
    /\ kept.run # 0 /\ kept.server = perf.id =>
          \A s \in Settings : perf.own[s] = IF kept.config[s] = Unsaved THEN perf.cfg[s] ELSE kept.config[s]
    /\ \A r \in Runs :
          /\ runs[r].at \in {"cleanup", "unlink"} => perf.cfg = perf.own
          /\ runs[r].at = "set" => \A s \in Settings \cap Head(runs[r].left).of : kept.config[s] # Unsaved

KeysKnown ==
    /\ perf.keys \subseteq perf.dump \cup {kept.run}
    /\ \A r \in Runs : runs[r].at = "unlink" => perf.keys \subseteq perf.dump

LatestKnown == latest # 0 => runs[latest].at # Nowhere

PerfInv ==
    /\ PerfTypes /\ LatestKnown
    /\ LockHeldOnce /\ HolderHasRecord /\ RecordKnows
    /\ ScriptGoesOn /\ ServersKnown /\ SettingsKnown /\ KeysKnown

(* The quota and the backlog have their own records; a container is limited only while it is recorded. *)
CageKnown ==
    /\ cage.cpu = "limited" => cage.kept = cage.id
    /\ HostAt("cpu", "limit") => cage.kept = cage.id
    /\ HostAt("reset", "forget") => cage.cpu = "own"
LinkKnown ==
    /\ link.backlog = "small" => link.kept
    /\ HostAt("replication", "shrink") => link.kept
VerdictKnown ==
    /\ host.verdict # Nowhere => host.at = "told"
    /\ host.op = "cpu" /\ host.verdict = "PASS" => cage.kept = 0
    /\ host.op = "replication" /\ host.verdict = "PASS" => ~ link.kept

(* The rows of validate, and the run it waits for. *)
RowTrue(i) ==
    LET row == host.rows[i]
    IN  /\ i <= Len(Suite)
        /\ Ended(row.by) /\ runs[row.by].name = Suite[i] /\ runs[row.by].report = row.status
        /\ runs[row.run].at # Nowhere /\ runs[row.run].name = Suite[i]
ValidateKnows ==
    /\ \A i \in DOMAIN host.rows : RowTrue(i)
    /\ HostAt("validate", "next") \/ HostAt("validate", "wait") => Len(host.rows) < Len(Suite)
    /\ HostAt("validate", "wait") =>
          /\ latest # 0 /\ host.run # 0
          /\ runs[host.run].at # Nowhere /\ runs[host.run].name = Suite[Len(host.rows) + 1]

LabInv == LabTypes /\ CageKnown /\ LinkKnown /\ VerdictKnown /\ ValidateKnows
OpsInv == PerfInv /\ LabInv

-----------------------------------------------------------------------------
(* A process of the runner moves; the others do not. *)
Moved(r) ==
    /\ runs' \in [Runs -> Processes] /\ runs'[r].name = runs[r].name
    /\ runs[r].at \notin {Nowhere, "done", "dead"} /\ runs'[r].at \notin {Nowhere, "enter"}
    /\ \A q \in Runs \ {r} : runs'[q] = runs[q]

Holding == {"body", "set", "config", "cleanup", "unlink"}
UnderWay(p) == p.left # <<>> /\ p.left[Len(p.left)].do = "verdict" /\ (p.at = "set" => Head(p.left).do = "set")

LEMMA NoJournalIsJournal == NoJournal \in Journals /\ NoJournal.run = 0 /\ NoJournal.server = 0
  <1>1. NoJournal = [server |-> 0, run |-> 0, config |-> Nothing] /\ 0 \in 0..MaxRuns
    BY OpsAssumption DEF NoJournal
  <1>2. Nothing \in [Settings -> Values \cup {Unsaved}]
    BY DEF Nothing
  <1> HIDE DEF Nothing
  <1> QED BY <1>1, <1>2 DEF Journals

LEMMA HolderIsAlone ==
    ASSUME PerfInv, NEW r \in Runs, runs[r].at \in Holding
    PROVE  /\ Locked = {r} /\ \A q \in Runs \ {r} : runs[q].at \notin Holding
           /\ kept.run # 0 /\ (runs[r].name # "recover" => kept.run = r)
  BY DEF PerfInv, LockHeldOnce, HolderHasRecord, Locked, Holding

(* The holder of the lock goes on, or ends without a pass. *)
LEMMA HolderKeeps ==
    ASSUME PerfInv, NEW r \in Runs, runs[r].at \in Holding, Moved(r),
           runs'[r].at \in {"body", "set"} =>
               runs[r].at \in {"body", "set"} /\ runs'[r].conn = runs[r].conn /\ UnderWay(runs'[r]),
           runs'[r].at = "finish" => runs'[r].status # "PASS",
           runs'[r].conn <= perf.id,
           perf' \in Perfs, kept' \in Journals, UNCHANGED latest,
           perf'.id = perf.id, kept'.run = kept.run, kept'.server = kept.server
    PROVE  /\ PerfTypes' /\ LatestKnown' /\ LockHeldOnce' /\ HolderHasRecord' /\ RecordKnows' /\ ScriptGoesOn' /\ ServersKnown'
  <1>1. /\ \A q \in Runs \ {r} : runs[q].at \notin Holding
        /\ kept.run # 0 /\ (runs[r].name # "recover" => kept.run = r)
    BY HolderIsAlone
  <1>2. \A q \in Runs : q # r => runs'[q] = runs[q]
    BY DEF Moved
  <1>3. PerfTypes'
    BY DEF PerfInv, PerfTypes, Moved
  <1>4. LatestKnown'
    BY DEF PerfInv, LatestKnown, Moved, PerfTypes, Runs
  <1>5. LockHeldOnce' /\ HolderHasRecord'
    BY <1>1, <1>2 DEF LockHeldOnce, HolderHasRecord, Locked, Holding, Moved
  <1>6. RecordKnows'
    BY <1>1, <1>2 DEF PerfInv, RecordKnows, Moved
  <1>7. ScriptGoesOn'
    BY <1>1, <1>2 DEF PerfInv, ScriptGoesOn, Moved, UnderWay
  <1>8. ServersKnown'
    BY <1>1, <1>2 DEF PerfInv, ServersKnown, Moved
  <1> QED BY <1>3, <1>4, <1>5, <1>6, <1>7, <1>8
(* A process that leaves the server and the journal alone. *)
LEMMA LeaverKeeps ==
    ASSUME PerfInv, NEW r \in Runs, Moved(r),
           runs'[r].at \in {"config", "finish", "done", "dead"},
           runs'[r].at = "config" =>
               runs[r].at \in Holding \/ (Locked = {} /\ kept.run # 0 /\ runs[r].name = "recover"),
           runs'[r].at = "finish" => runs'[r].status # "PASS" \/ kept.run # r,
           runs'[r].conn <= perf.id,
           UNCHANGED <<perf, kept>>, latest' \in {latest, r}
    PROVE  PerfInv'
  <1>1. \A q \in Runs : q # r => runs'[q] = runs[q]
    BY DEF Moved
  <1>2. PerfTypes'
    BY DEF PerfInv, PerfTypes, Moved, Runs
  <1>3. LatestKnown'
    BY DEF PerfInv, LatestKnown, Moved, PerfTypes, Runs
  <1>4. LockHeldOnce'
    BY <1>1 DEF PerfInv, LockHeldOnce, Locked, Holding, Moved
  <1>5. HolderHasRecord'
    BY <1>1 DEF PerfInv, HolderHasRecord, Locked, Holding, Moved
  <1>6. RecordKnows'
    BY <1>1 DEF PerfInv, RecordKnows, Moved
  <1>7. ScriptGoesOn'
    BY <1>1 DEF PerfInv, ScriptGoesOn
  <1>8. ServersKnown'
    BY <1>1 DEF PerfInv, ServersKnown
  <1>9. SettingsKnown'
    BY <1>1 DEF PerfInv, SettingsKnown
  <1>10. KeysKnown'
    BY <1>1 DEF PerfInv, KeysKnown
  <1> QED BY <1>2, <1>3, <1>4, <1>5, <1>6, <1>7, <1>8, <1>9, <1>10 DEF PerfInv

(* What a step of the runner does to the processes. *)
LEMMA GoesEffect ==
    ASSUME PerfTypes, NEW r \in Runs, NEW at \in RunSteps \ {Nowhere, "enter"}, Goes(r, at), Active(r)
    PROVE  /\ Moved(r) /\ runs'[r].at = at /\ runs'[r].left = runs[r].left /\ runs'[r].conn = runs[r].conn
           /\ runs'[r].status = runs[r].status
  BY DEF PerfTypes, Goes, Moved, Processes, Active

LEMMA NoRunIsProcess == NoRun \in Processes /\ NoRun.conn = 0
  <1>1. Nowhere \in RunSteps /\ Nowhere \in Outcomes /\ "FAIL" \in Statuses
    BY DEF RunSteps, Statuses, Outcomes
  <1>2. NoRun = [at |-> Nowhere, name |-> Nowhere, left |-> <<>>, conn |-> 0, status |-> "FAIL", report |-> Nowhere]
    BY DEF NoRun
  <1>3. Nowhere \in RunNames
    BY DEF RunNames
  <1>4. <<>> \in Seq(ScriptSteps)
    OBVIOUS
  <1> QED BY <1>1, <1>2, <1>3, <1>4 DEF Processes

LEMMA LeftFields ==
    ASSUME PerfTypes, NEW r \in Runs, NEW at \in {"done", "dead"}, NEW given \in Outcomes
    PROVE  /\ Left(r, at, given) \in Processes /\ Left(r, at, given).at = at
           /\ Left(r, at, given).name = runs[r].name /\ Left(r, at, given).conn = 0
  <1>2. runs[r].name \in RunNames /\ at \in RunSteps
    BY DEF PerfTypes, Processes, RunSteps
  <1> QED BY <1>2, NoRunIsProcess DEF Left, Processes

LEMMA LeftEffect ==
    ASSUME PerfTypes, NEW r \in Runs, NEW at \in {"done", "dead"}, NEW given \in Outcomes, Active(r),
           runs' = [runs EXCEPT ![r] = Left(r, at, given)]
    PROVE  Moved(r) /\ runs'[r].at = at /\ runs'[r].conn = 0
  BY LeftFields DEF PerfTypes, Moved, Active, Nowhere

(* A process that stops using the server: it has failed, ended or been killed. *)
LEMMA LeaveKeeps ==
    ASSUME PerfInv, NEW r \in Runs, Raises(r) \/ RecoveryFails(r) \/ Finishes(r) \/ Killed(r)
    PROVE  PerfInv' /\ Moved(r) /\ latest' \in {latest, r} /\ UNCHANGED <<perf, kept>>
  <1>1. runs[r] \in Processes /\ perf.id \in Nat /\ runs[r].conn <= perf.id
    BY DEF PerfInv, PerfTypes, Perfs, ServersKnown
  <1>2. CASE Raises(r)
    <2>1. /\ Moved(r) /\ runs'[r].at = (IF runs[r].at = "enter" THEN "finish" ELSE "config") /\ runs'[r].status = "FAIL"
          /\ runs'[r].conn = perf.id /\ runs[r].at \in {"enter", "body", "set"}
          /\ UNCHANGED <<perf, kept, latest>>
      BY <1>1, <1>2 DEF Raises, PerfInv, PerfTypes, Moved, Processes, RunSteps, Statuses, Nowhere
    <2> QED BY <1>1, <2>1, LeaverKeeps DEF Holding
  <1>3. CASE RecoveryFails(r)
    <2>1. /\ Moved(r) /\ runs'[r].at = "finish" /\ runs'[r].status = "FAIL"
          /\ runs'[r].conn = perf.id /\ UNCHANGED <<perf, kept, latest>>
      BY <1>1, <1>3 DEF RecoveryFails, PerfInv, PerfTypes, Moved, Processes, RunSteps, Statuses, Nowhere
    <2> QED BY <1>1, <2>1, LeaverKeeps
  <1>4. CASE Finishes(r)
    <2>1. /\ Moved(r) /\ runs'[r].at = "done" /\ runs'[r].conn = 0
          /\ UNCHANGED <<perf, kept>> /\ latest' \in {latest, r}
      <3>1. runs[r].status \in Outcomes /\ Active(r)
        BY <1>1, <1>4 DEF Finishes, Processes, Outcomes, Active, Nowhere
      <3> QED BY <1>4, <3>1, LeftEffect DEF Finishes, PerfInv
    <2> QED BY <1>1, <2>1, LeaverKeeps
  <1>5. CASE Killed(r)
    <2>1. /\ Moved(r) /\ runs'[r].at = "dead" /\ runs'[r].conn = 0 /\ UNCHANGED <<perf, kept, latest>>
      <3>1. runs' = [runs EXCEPT ![r] = Left(r, "dead", @.report)] /\ Active(r) /\ UNCHANGED <<perf, kept, latest>>
        BY <1>5 DEF Killed
      <3>2. runs' = [runs EXCEPT ![r] = Left(r, "dead", runs[r].report)] /\ runs[r].report \in Outcomes
        BY <1>1, <3>1 DEF Processes
      <3> QED BY <3>1, <3>2, LeftEffect DEF PerfInv
    <2> QED BY <1>1, <2>1, LeaverKeeps
  <1> QED BY <1>2, <1>3, <1>4, <1>5

(* The lock is taken with a record of the server, before anything is done to it. *)
LEMMA GuardsKeeps ==
    ASSUME PerfInv, NEW r \in Runs, Guards(r)
    PROVE  PerfInv' /\ Moved(r) /\ UNCHANGED <<perf, latest>>
  <1>1. /\ runs[r] \in Processes /\ perf \in Perfs /\ perf.id \in Nat /\ runs[r].conn <= perf.id /\ runs[r].at = "enter"
        /\ kept.run # r /\ UNCHANGED <<perf, latest>> /\ r \in 1..MaxRuns /\ r # 0
    BY DEF PerfInv, PerfTypes, Perfs, ServersKnown, RecordKnows, Guards, Runs
  <1>2. kept.run = 0 <=> kept = NoJournal
    BY DEF PerfInv, HolderHasRecord, NoJournal
  <1>3. CASE Locked # {} \/ (runs[r].name # "recover" /\ kept # NoJournal)
    <2>1. /\ Moved(r) /\ runs'[r].at = "finish" /\ runs'[r].status = "BLOCKED" /\ runs'[r].conn = runs[r].conn
          /\ UNCHANGED kept
      <3>1. runs' = [runs EXCEPT ![r].at = "finish", ![r].status = "BLOCKED"] /\ UNCHANGED kept
        BY <1>3, Zenon DEF Guards
      <3> QED BY <1>1, <3>1 DEF PerfInv, PerfTypes, Moved, Processes, RunSteps, Statuses, Nowhere
    <2> QED BY <1>1, <2>1, LeaverKeeps
  <1>4. CASE Locked = {} /\ runs[r].name = "recover"
    <2>1. /\ Moved(r) /\ runs'[r].at = (IF kept = NoJournal THEN "finish" ELSE "config")
          /\ runs'[r].conn = runs[r].conn /\ UNCHANGED kept
      <3>1. /\ runs' = [runs EXCEPT ![r].at = IF kept = NoJournal THEN "finish" ELSE "config", ![r].status = "PASS"]
            /\ UNCHANGED kept
        BY <1>4, Zenon DEF Guards
      <3> QED BY <1>1, <3>1 DEF PerfInv, PerfTypes, Moved, Processes, RunSteps, Statuses, Nowhere
    <2> QED BY <1>1, <1>2, <1>4, <2>1, LeaverKeeps
  <1>5. CASE Locked = {} /\ runs[r].name # "recover" /\ kept = NoJournal
    <2>1. /\ Goes(r, "body") /\ kept' = [NoJournal EXCEPT !.server = perf.id, !.run = r]
      BY <1>1, <1>5 DEF Guards
    <2>2. /\ Moved(r) /\ runs'[r].at = "body" /\ runs'[r].left = runs[r].left /\ runs'[r].conn = runs[r].conn
      BY <1>1, <2>1, GoesEffect DEF RunSteps, PerfInv, Active, Nowhere
    <2>3. kept' \in Journals /\ kept'.run = r /\ kept'.server = perf.id /\ kept'.config = Nothing
      <3>1. kept' = [server |-> perf.id, run |-> r, config |-> Nothing]
        BY <2>1 DEF NoJournal
      <3>2. Nothing \in [Settings -> Values \cup {Unsaved}]
        BY DEF Nothing
      <3> HIDE DEF Nothing
      <3> QED BY <1>1, <3>1, <3>2 DEF Journals
    <2>4. \A q \in Runs : q # r => runs'[q] = runs[q]
      BY <2>2 DEF Moved
    <2>5. PerfTypes' /\ LatestKnown'
      BY <1>1, <2>2, <2>3 DEF PerfInv, PerfTypes, LatestKnown, Moved, Runs
    <2>6. LockHeldOnce' /\ HolderHasRecord'
      BY <1>1, <1>5, <2>2, <2>3, <2>4 DEF LockHeldOnce, HolderHasRecord, Locked
    <2>7. RecordKnows'
      BY <1>1, <1>5, <2>2, <2>3, <2>4 DEF RecordKnows, Nowhere, Moved
    <2>8. ScriptGoesOn'
      BY <1>1, <1>5, <2>2, <2>4 DEF PerfInv, ScriptGoesOn, Moved
    <2>9. ServersKnown'
      BY <1>1, <1>5, <2>2, <2>3, <2>4 DEF PerfInv, PerfTypes, ServersKnown, Moved, Processes, Locked
    <2>10. SettingsKnown'
      BY <1>1, <1>2, <1>5, <2>2, <2>3, <2>4 DEF PerfInv, SettingsKnown, Nothing, Locked
    <2>11. KeysKnown'
      BY <1>1, <1>2, <1>5, <2>2, <2>3, <2>4 DEF PerfInv, PerfTypes, Perfs, KeysKnown, Locked, Runs
    <2> QED BY <1>1, <2>2, <2>5, <2>6, <2>7, <2>8, <2>9, <2>10, <2>11 DEF PerfInv
  <1> QED BY <1>3, <1>4, <1>5
-----------------------------------------------------------------------------
(* What a scenario does to the server. *)

(* Settings: saved before they are set. *)
LEMMA SaveOriginalsKeeps ==
    ASSUME PerfInv, NEW r \in Runs, SaveOriginals(r)
    PROVE  PerfInv' /\ Moved(r) /\ UNCHANGED <<perf, latest>> /\ kept.run # 0
  <1> DEFINE of == Head(runs[r].left).of
             config == Originals(kept.config, of)
  <1>1. /\ runs[r].at = "body" /\ runs[r].conn = perf.id /\ Head(runs[r].left).do = "set"
        /\ Goes(r, "set") /\ kept' = [kept EXCEPT !.config = Originals(@, of)]
        /\ UNCHANGED <<perf, latest>>
    BY DEF SaveOriginals, Does, Connected
  <1>2. /\ Moved(r) /\ runs'[r].at = "set" /\ runs'[r].left = runs[r].left /\ runs'[r].conn = runs[r].conn
    BY <1>1, GoesEffect DEF RunSteps, PerfInv, Active, Nowhere
  <1>3. /\ kept \in Journals /\ perf \in Perfs /\ perf.id \in Nat /\ kept.server \in Nat /\ runs[r] \in Processes
    BY DEF PerfInv, PerfTypes, Journals, Perfs
  <1>4. kept.server = perf.id /\ runs[r].conn \in Nat
    BY <1>1, <1>3 DEF PerfInv, ServersKnown, Processes
  <1>5. /\ \A q \in Runs \ {r} : runs[q].at \notin Holding /\ runs'[q] = runs[q]
        /\ kept.run = r /\ kept.run # 0 /\ runs[r].name # "recover"
    BY <1>1, <1>2, HolderIsAlone DEF PerfInv, ScriptGoesOn, Holding, Moved
  <1>6. config \in [Settings -> Values \cup {Unsaved}]
    BY <1>3 DEF Originals, Journals, Perfs
  <1>7. \A s \in Settings : config[s] = IF s \in of /\ kept.config[s] = Unsaved THEN perf.cfg[s] ELSE kept.config[s]
    BY DEF Originals
  <1> HIDE DEF config
  <1>8. kept' \in Journals /\ kept'.run = kept.run /\ kept'.server = kept.server /\ kept'.config = config
    BY <1>1, <1>3, <1>6 DEF Journals, config
  <1>9. UnderWay(runs'[r])
    BY <1>1, <1>2, <1>5 DEF UnderWay, PerfInv, ScriptGoesOn
  <1>10. /\ PerfTypes' /\ LatestKnown' /\ LockHeldOnce' /\ HolderHasRecord' /\ RecordKnows' /\ ScriptGoesOn' /\ ServersKnown'
    BY <1>1, <1>2, <1>3, <1>4, <1>8, <1>9, HolderKeeps DEF Holding
  <1>11. Unsaved \notin Values
    BY DEF Unsaved, Values
  <1>12. \A s \in Settings : perf.cfg[s] \in Values
    BY <1>3 DEF Perfs
  <1>13. SettingsKnown'
    <2>1. \A s \in Settings : perf.own[s] = IF kept.config[s] = Unsaved THEN perf.cfg[s] ELSE kept.config[s]
      BY <1>4, <1>5 DEF PerfInv, SettingsKnown
    <2>2. \A s \in Settings : perf.own[s] = IF config[s] = Unsaved THEN perf.cfg[s] ELSE config[s]
      BY <2>1, <1>7
    <2>3. \A s \in Settings \cap of : config[s] # Unsaved
      BY <1>7, <1>11, <1>12
    <2>4. Head(runs'[r].left).of = of
      BY <1>2
    <2>5. \A q \in Runs \ {r} : runs'[q].at \notin {"set", "cleanup", "unlink"}
      BY <1>5 DEF Holding
    <2> HIDE DEF of
    <2> QED BY <1>1, <1>2, <1>4, <1>5, <1>8, <2>2, <2>3, <2>4, <2>5 DEF SettingsKnown
  <1>14. KeysKnown'
    BY <1>1, <1>2, <1>5, <1>8 DEF PerfInv, KeysKnown, Holding
  <1> QED BY <1>1, <1>2, <1>5, <1>10, <1>13, <1>14 DEF PerfInv
(* What stays true of the holder's server when its settings are those it had at the record. *)
LEMMA OnlyHolder ==
    ASSUME PerfInv, NEW r \in Runs, runs[r].at \in Holding, Moved(r)
    PROVE  \A q \in Runs \ {r} : runs'[q] = runs[q] /\ runs'[q].at \notin Holding
  BY HolderIsAlone DEF Moved

(* The rest of a script that is under way. *)
LEMMA TailGoesOn ==
    ASSUME NEW p \in Processes, p.left # <<>>, p.left[Len(p.left)].do = "verdict", Head(p.left).do # "verdict"
    PROVE  Tail(p.left) \in Seq(ScriptSteps) /\ Tail(p.left) # <<>> /\ Tail(p.left)[Len(Tail(p.left))].do = "verdict"
  <1>1. p.left \in Seq(ScriptSteps) /\ Len(p.left) \in Nat /\ Len(p.left) > 0
    BY DEF Processes
  <1>2. Head(p.left) = p.left[1]
    BY <1>1
  <1>3. Len(p.left) # 1
    BY <1>2
  <1>4. Len(p.left) > 1
    BY <1>1, <1>3
  <1> DEFINE t == Tail(p.left)
  <1>5. t \in Seq(ScriptSteps) /\ Len(t) = Len(p.left) - 1 /\ \A i \in 1..Len(t) : t[i] = p.left[i + 1]
    BY <1>1
  <1> HIDE DEF t
  <1>6. t # <<>> /\ t[Len(t)] = p.left[Len(p.left)]
    BY <1>1, <1>4, <1>5
  <1> QED BY <1>5, <1>6 DEF t

(* A scenario whose next call has been made. *)
LEMMA NextCall ==
    ASSUME PerfInv, NEW r \in Runs, runs[r].at \in {"body", "set"}, Head(runs[r].left).do # "verdict",
           runs' = [runs EXCEPT ![r].at = "body", ![r].left = Tail(@)] \/ (runs[r].at = "body" /\ runs' = [runs EXCEPT ![r].left = Tail(@)])
    PROVE  Moved(r) /\ runs'[r].at = "body" /\ runs'[r].conn = runs[r].conn /\ UnderWay(runs'[r]) /\ kept.run = r
  <1>1. runs[r] \in Processes /\ runs[r].name # "recover" /\ runs[r].left # <<>> /\ runs[r].left[Len(runs[r].left)].do = "verdict"
    BY DEF PerfInv, PerfTypes, ScriptGoesOn
  <1>2. kept.run = r
    BY <1>1, HolderIsAlone DEF Holding
  <1> DEFINE t == Tail(runs[r].left)
  <1>3. t \in Seq(ScriptSteps) /\ t # <<>> /\ t[Len(t)].do = "verdict"
    BY <1>1, TailGoesOn
  <1>4. runs' = [runs EXCEPT ![r] = [runs[r] EXCEPT !.at = "body", !.left = t]]
    BY <1>1 DEF PerfInv, PerfTypes, Processes
  <1> HIDE DEF t
  <1>5. /\ [runs[r] EXCEPT !.at = "body", !.left = t] \in Processes
        /\ [runs[r] EXCEPT !.at = "body", !.left = t].at = "body"
        /\ [runs[r] EXCEPT !.at = "body", !.left = t].left = t
        /\ [runs[r] EXCEPT !.at = "body", !.left = t].name = runs[r].name
        /\ [runs[r] EXCEPT !.at = "body", !.left = t].conn = runs[r].conn
    BY <1>1, <1>3 DEF Processes, RunSteps
  <1>6. /\ runs' \in [Runs -> Processes] /\ runs'[r].at = "body" /\ runs'[r].left = t /\ runs'[r].name = runs[r].name
        /\ runs'[r].conn = runs[r].conn
        /\ \A q \in Runs \ {r} : runs'[q] = runs[q]
    BY <1>4, <1>5 DEF PerfInv, PerfTypes
  <1> QED BY <1>2, <1>3, <1>6 DEF Moved, UnderWay, Nowhere

(* A call that leaves the settings of the server and the journal alone. *)
LEMMA CallKeeps ==
    ASSUME PerfInv, NEW r \in Runs, Does(r, "write") \/ Does(r, "save") \/ Does(r, "proxy"),
           runs' = [runs EXCEPT ![r].left = Tail(@)], UNCHANGED <<kept, latest>>,
           perf' \in Perfs, perf'.id = perf.id, perf'.cfg = perf.cfg, perf'.own = perf.own,
           perf'.keys \subseteq perf'.dump \cup {kept.run}
    PROVE  PerfInv' /\ Moved(r)
  <1>1. runs[r].at = "body" /\ Head(runs[r].left).do # "verdict" /\ runs[r].conn = perf.id
    BY DEF Does, Connected
  <1>2. Moved(r) /\ runs'[r].at = "body" /\ runs'[r].conn = runs[r].conn /\ UnderWay(runs'[r]) /\ kept.run = r
    BY <1>1, NextCall
  <1>3. \A q \in Runs \ {r} : runs'[q] = runs[q] /\ runs'[q].at \notin Holding
    BY <1>1, <1>2, OnlyHolder DEF Holding
  <1>4. kept \in Journals /\ perf.id \in Nat
    BY DEF PerfInv, PerfTypes, Perfs
  <1>5. /\ PerfTypes' /\ LatestKnown' /\ LockHeldOnce' /\ HolderHasRecord' /\ RecordKnows' /\ ScriptGoesOn' /\ ServersKnown'
    <2>1. runs'[r].conn <= perf.id /\ kept' = kept /\ latest' = latest
      BY <1>1, <1>2, <1>4
    <2> QED BY <1>1, <1>2, <1>4, <2>1, HolderKeeps DEF Holding
  <1>6. SettingsKnown'
    BY <1>2, <1>3 DEF PerfInv, SettingsKnown, Holding
  <1>7. KeysKnown'
    BY <1>2, <1>3 DEF KeysKnown, Holding
  <1> QED BY <1>2, <1>5, <1>6, <1>7 DEF PerfInv

LEMMA CallsKeep ==
    ASSUME PerfInv, NEW r \in Runs, Populates(r) \/ Saves(r) \/ ProxyRule(r)
    PROVE  PerfInv' /\ Moved(r) /\ UNCHANGED latest /\ kept' = kept
  <1>1. perf \in Perfs /\ perf.keys \subseteq perf.dump \cup {kept.run}
    BY DEF PerfInv, PerfTypes, KeysKnown
  <1>2. CASE Populates(r)
    <2>1. Does(r, "write") /\ perf' = [perf EXCEPT !.keys = @ \cup {r}] /\ runs' = [runs EXCEPT ![r].left = Tail(@)] /\ UNCHANGED <<kept, latest>>
      BY <1>2 DEF Populates
    <2>2. kept.run = r
      <3>1. runs[r].at = "body" /\ runs[r].name # "recover"
        BY <2>1 DEF Does, PerfInv, ScriptGoesOn
      <3> QED BY <3>1, HolderIsAlone DEF Holding
    <2>3. perf' \in Perfs /\ perf'.id = perf.id /\ perf'.cfg = perf.cfg /\ perf'.own = perf.own /\ perf'.dump = perf.dump /\ perf'.keys = perf.keys \cup {r}
      BY <1>1, <2>1 DEF Perfs
    <2> QED BY <1>1, <2>1, <2>2, <2>3, CallKeeps
  <1>3. CASE Saves(r)
    <2>1. Does(r, "save") /\ perf' = [perf EXCEPT !.dump = perf.keys] /\ runs' = [runs EXCEPT ![r].left = Tail(@)] /\ UNCHANGED <<kept, latest>>
      BY <1>3 DEF Saves
    <2>2. perf' \in Perfs /\ perf'.id = perf.id /\ perf'.cfg = perf.cfg /\ perf'.own = perf.own /\ perf'.dump = perf.keys /\ perf'.keys = perf.keys
      BY <1>1, <2>1 DEF Perfs
    <2> QED BY <2>1, <2>2, CallKeeps
  <1>4. CASE ProxyRule(r)
    <2>1. Does(r, "proxy") /\ runs' = [runs EXCEPT ![r].left = Tail(@)] /\ UNCHANGED <<kept, latest, perf>>
      BY <1>4 DEF ProxyRule
    <2> QED BY <1>1, <2>1, CallKeeps
  <1> QED BY <1>2, <1>3, <1>4
(* CONFIG SET: only a holder whose journal is of this very server gets through. *)
LEMMA ConfigSetKeeps ==
    ASSUME PerfInv, NEW r \in Runs, ConfigSet(r)
    PROVE  PerfInv' /\ Moved(r) /\ UNCHANGED <<kept, latest>>
  <1> DEFINE of == Head(runs[r].left).of
  <1>1. /\ runs[r].at = "set" /\ runs[r].conn = perf.id /\ UNCHANGED <<kept, latest>>
        /\ \/ /\ perf' = [perf EXCEPT !.cfg = [s \in Settings |-> IF s \in of THEN "lab" ELSE @[s]]]
              /\ \/ runs' = [runs EXCEPT ![r].at = "body", ![r].left = Tail(@)]
                 \/ runs' = [runs EXCEPT ![r].at = "config", ![r].status = "FAIL"]
           \/ runs' = [runs EXCEPT ![r].at = "body", ![r].left = Tail(@)] /\ UNCHANGED perf
    BY DEF ConfigSet, Connected
  <1>2. /\ kept \in Journals /\ perf \in Perfs /\ perf.id \in Nat /\ kept.server \in Nat /\ runs[r] \in Processes
        /\ runs[r].conn \in Nat
    BY DEF PerfInv, PerfTypes, Journals, Perfs, Processes
  <1>3. kept.server = perf.id
    BY <1>1, <1>2 DEF PerfInv, ServersKnown
  <1>4. runs[r].name # "recover" /\ kept.run = r /\ kept.run # 0 /\ Head(runs[r].left).do # "verdict"
    BY <1>1, HolderIsAlone DEF PerfInv, ScriptGoesOn, Holding
  <1>5. /\ \A s \in Settings : perf.own[s] = IF kept.config[s] = Unsaved THEN perf.cfg[s] ELSE kept.config[s]
        /\ \A s \in Settings \cap of : kept.config[s] # Unsaved
    BY <1>1, <1>3, <1>4 DEF PerfInv, SettingsKnown
  <1>6. Moved(r) /\ runs'[r].at \in {"body", "config"} /\ runs'[r].conn = runs[r].conn /\ (runs'[r].at = "body" => UnderWay(runs'[r]))
    <2>1. CASE runs' = [runs EXCEPT ![r].at = "body", ![r].left = Tail(@)]
      BY <1>1, <1>4, <2>1, NextCall
    <2>2. CASE runs' = [runs EXCEPT ![r].at = "config", ![r].status = "FAIL"]
      BY <1>1, <1>2, <2>2 DEF PerfInv, PerfTypes, Moved, Processes, RunSteps, Statuses, Nowhere
    <2> QED BY <1>1, <2>1, <2>2
  <1>7. /\ perf' \in Perfs /\ perf'.id = perf.id /\ perf'.own = perf.own /\ perf'.keys = perf.keys /\ perf'.dump = perf.dump
        /\ \A s \in Settings : s \notin of => perf'.cfg[s] = perf.cfg[s]
    <2>1. CASE UNCHANGED perf
      BY <1>2, <2>1
    <2>2. CASE perf' = [perf EXCEPT !.cfg = [s \in Settings |-> IF s \in of THEN "lab" ELSE @[s]]]
      <3> DEFINE cfg == [s \in Settings |-> IF s \in of THEN "lab" ELSE perf.cfg[s]]
      <3>1. cfg \in [Settings -> Values] /\ \A s \in Settings : s \notin of => cfg[s] = perf.cfg[s]
        BY <1>2 DEF Perfs, Values
      <3>2. perf' = [perf EXCEPT !.cfg = cfg]
        BY <2>2
      <3> HIDE DEF cfg
      <3> QED BY <1>2, <3>1, <3>2 DEF Perfs
    <2> QED BY <1>1, <2>1, <2>2
  <1>8. \A q \in Runs \ {r} : runs'[q] = runs[q] /\ runs'[q].at \notin Holding
    BY <1>1, <1>6, OnlyHolder DEF Holding
  <1>9. /\ PerfTypes' /\ LatestKnown' /\ LockHeldOnce' /\ HolderHasRecord' /\ RecordKnows' /\ ScriptGoesOn' /\ ServersKnown'
    <2>1. runs'[r].conn <= perf.id /\ kept' = kept /\ latest' = latest
      BY <1>1, <1>2, <1>6
    <2> QED BY <1>1, <1>2, <1>6, <1>7, <2>1, HolderKeeps DEF Holding
  <1>10. \A s \in Settings : perf'.own[s] = IF kept.config[s] = Unsaved THEN perf'.cfg[s] ELSE kept.config[s]
    BY <1>5, <1>7
  <1> HIDE DEF of
  <1>11. SettingsKnown'
    BY <1>1, <1>3, <1>4, <1>6, <1>7, <1>8, <1>10 DEF SettingsKnown, Holding
  <1>12. KeysKnown'
    BY <1>1, <1>6, <1>7, <1>8 DEF PerfInv, KeysKnown, Holding
  <1> QED BY <1>1, <1>6, <1>9, <1>11, <1>12 DEF PerfInv

LEMMA JudgesKeeps ==
    ASSUME PerfInv, NEW r \in Runs, Judges(r)
    PROVE  PerfInv' /\ Moved(r) /\ UNCHANGED <<perf, kept, latest>>
  <1>1. PICK v \in Head(runs[r].left).of : runs' = [runs EXCEPT ![r].status = v, ![r].at = "config"]
    BY DEF Judges
  <1>2. runs[r].at = "body" /\ Head(runs[r].left).do = "verdict" /\ UNCHANGED <<perf, kept, latest>>
    BY DEF Judges, Does
  <1>3. runs[r] \in Processes /\ runs[r].left # <<>> /\ runs[r].conn <= perf.id
    BY <1>2 DEF PerfInv, PerfTypes, ScriptGoesOn, ServersKnown
  <1>4. Head(runs[r].left) \in ScriptSteps
    BY <1>3 DEF Processes
  <1>5. v \in Statuses
    BY <1>2, <1>4 DEF ScriptSteps
  <1>6. Moved(r) /\ runs'[r].at = "config" /\ runs'[r].conn = runs[r].conn
    BY <1>1, <1>2, <1>3, <1>5 DEF PerfInv, PerfTypes, Moved, Processes, RunSteps, Nowhere
  <1>7. runs'[r].conn <= perf.id
    BY <1>3, <1>6
  <1> QED BY <1>2, <1>6, <1>7, LeaverKeeps DEF Holding

(* Restoration gives the settings back, to the server they were read from. *)
LEMMA RestoreConfigKeeps ==
    ASSUME PerfInv, NEW r \in Runs, RestoreConfig(r)
    PROVE  PerfInv' /\ Moved(r) /\ UNCHANGED <<kept, latest>>
  <1>1. /\ runs[r].at = "config" /\ runs[r].conn = perf.id /\ Goes(r, "cleanup") /\ UNCHANGED <<kept, latest>>
        /\ perf' = IF kept.server # perf.id THEN perf
                   ELSE [perf EXCEPT !.cfg = [s \in Settings |-> IF kept.config[s] = Unsaved THEN @[s] ELSE kept.config[s]]]
    BY DEF RestoreConfig, Connected
  <1>2. /\ kept \in Journals /\ perf \in Perfs /\ perf.id \in Nat /\ kept.server \in Nat /\ runs[r] \in Processes
        /\ perf.own \in [Settings -> Values] /\ perf.cfg \in [Settings -> Values]
    BY DEF PerfInv, PerfTypes, Journals, Perfs, Processes
  <1>3. Moved(r) /\ runs'[r].at = "cleanup" /\ runs'[r].conn = runs[r].conn
    BY <1>1, GoesEffect DEF RunSteps, PerfInv, Active, Nowhere
  <1>4. kept.run # 0 /\ \A q \in Runs \ {r} : runs'[q] = runs[q] /\ runs'[q].at \notin Holding
    BY <1>1, <1>3, HolderIsAlone, OnlyHolder DEF Holding
  <1>5. /\ perf' \in Perfs /\ perf'.id = perf.id /\ perf'.own = perf.own /\ perf'.keys = perf.keys /\ perf'.dump = perf.dump
        /\ perf'.cfg = perf.own
    <2>1. CASE kept.server # perf.id
      BY <1>1, <1>2, <2>1 DEF PerfInv, SettingsKnown
    <2>2. CASE kept.server = perf.id
      <3> DEFINE cfg == [s \in Settings |-> IF kept.config[s] = Unsaved THEN perf.cfg[s] ELSE kept.config[s]]
      <3>1. \A s \in Settings : perf.own[s] = IF kept.config[s] = Unsaved THEN perf.cfg[s] ELSE kept.config[s]
        BY <1>4, <2>2 DEF PerfInv, SettingsKnown
      <3>2. cfg = perf.own
        BY <1>2, <3>1
      <3>3. perf' = [perf EXCEPT !.cfg = cfg]
        BY <1>1, <2>2
      <3> HIDE DEF cfg
      <3> QED BY <1>2, <3>2, <3>3 DEF Perfs
    <2> QED BY <2>1, <2>2
  <1>6. /\ PerfTypes' /\ LatestKnown' /\ LockHeldOnce' /\ HolderHasRecord' /\ RecordKnows' /\ ScriptGoesOn' /\ ServersKnown'
    <2>1. runs'[r].conn <= perf.id /\ kept' = kept /\ latest' = latest
      BY <1>1, <1>2, <1>3
    <2> QED BY <1>1, <1>2, <1>3, <1>5, <2>1, HolderKeeps DEF Holding
  <1>7. \A s \in Settings : kept.server = perf.id => perf'.own[s] = IF kept.config[s] = Unsaved THEN perf'.cfg[s] ELSE kept.config[s]
    BY <1>2, <1>4, <1>5 DEF PerfInv, SettingsKnown
  <1>8. SettingsKnown'
    BY <1>1, <1>3, <1>4, <1>5, <1>7 DEF SettingsKnown, Holding
  <1>9. KeysKnown'
    BY <1>1, <1>3, <1>4, <1>5 DEF PerfInv, KeysKnown, Holding
  <1> QED BY <1>1, <1>3, <1>6, <1>8, <1>9 DEF PerfInv

LEMMA CleanupKeysKeeps ==
    ASSUME PerfInv, NEW r \in Runs, CleanupKeys(r)
    PROVE  PerfInv' /\ Moved(r) /\ UNCHANGED <<kept, latest>>
  <1>1. /\ runs[r].at = "cleanup" /\ runs[r].conn = perf.id /\ Goes(r, "unlink") /\ UNCHANGED <<kept, latest>>
        /\ perf' = [perf EXCEPT !.keys = @ \ {kept.run}]
    BY DEF CleanupKeys, Connected
  <1>2. /\ kept \in Journals /\ perf \in Perfs /\ perf.id \in Nat /\ perf.cfg = perf.own
        /\ perf.keys \subseteq perf.dump \cup {kept.run}
    BY <1>1 DEF PerfInv, PerfTypes, Perfs, SettingsKnown, KeysKnown
  <1>3. Moved(r) /\ runs'[r].at = "unlink" /\ runs'[r].conn = runs[r].conn
    BY <1>1, GoesEffect DEF RunSteps, PerfInv, Active, Nowhere
  <1>4. \A q \in Runs \ {r} : runs'[q] = runs[q] /\ runs'[q].at \notin Holding
    BY <1>1, <1>3, OnlyHolder DEF Holding
  <1>5. /\ perf' \in Perfs /\ perf'.id = perf.id /\ perf'.own = perf.own /\ perf'.cfg = perf.cfg /\ perf'.dump = perf.dump
        /\ perf'.keys = perf.keys \ {kept.run}
    BY <1>1, <1>2 DEF Perfs
  <1>6. /\ PerfTypes' /\ LatestKnown' /\ LockHeldOnce' /\ HolderHasRecord' /\ RecordKnows' /\ ScriptGoesOn' /\ ServersKnown'
    <2>1. runs'[r].conn <= perf.id /\ kept' = kept /\ latest' = latest
      BY <1>1, <1>2, <1>3
    <2> QED BY <1>1, <1>2, <1>3, <1>5, <2>1, HolderKeeps DEF Holding
  <1>7. SettingsKnown'
    BY <1>1, <1>2, <1>3, <1>4, <1>5 DEF PerfInv, SettingsKnown, Holding
  <1>8. KeysKnown'
    BY <1>1, <1>2, <1>3, <1>4, <1>5 DEF KeysKnown
  <1> QED BY <1>1, <1>3, <1>6, <1>7, <1>8 DEF PerfInv

(* The journal goes when its settings and keys are gone. *)
LEMMA UnlinkJournalKeeps ==
    ASSUME PerfInv, NEW r \in Runs, UnlinkJournal(r)
    PROVE  PerfInv' /\ Moved(r) /\ UNCHANGED <<perf, latest>>
  <1>1. runs[r].at = "unlink" /\ kept' = NoJournal /\ Goes(r, "finish") /\ UNCHANGED <<perf, latest>>
    BY DEF UnlinkJournal
  <1>2. Moved(r) /\ runs'[r].at = "finish" /\ runs'[r].conn = runs[r].conn
    BY <1>1, GoesEffect DEF RunSteps, PerfInv, Active, Nowhere
  <1>3. \A q \in Runs \ {r} : runs'[q] = runs[q] /\ runs'[q].at \notin Holding
    BY <1>1, <1>2, OnlyHolder DEF Holding
  <1>4. kept' \in Journals /\ kept'.run = 0 /\ kept'.server = 0
    BY <1>1, NoJournalIsJournal
  <1>5. perf.cfg = perf.own /\ perf.keys \subseteq perf.dump /\ perf.id \in Nat /\ 0 \notin Runs
    BY <1>1 DEF PerfInv, PerfTypes, Perfs, SettingsKnown, KeysKnown, Runs
  <1>6. PerfTypes' /\ LatestKnown'
    BY <1>1, <1>2, <1>4 DEF PerfInv, PerfTypes, LatestKnown, Moved, Runs
  <1>7. LockHeldOnce' /\ HolderHasRecord'
    BY <1>1, <1>2, <1>3, <1>4 DEF LockHeldOnce, HolderHasRecord, Locked, Holding
  <1>8. RecordKnows' /\ SettingsKnown' /\ KeysKnown'
    BY <1>1, <1>2, <1>3, <1>4, <1>5 DEF RecordKnows, SettingsKnown, KeysKnown, Holding
  <1>9. ScriptGoesOn'
    BY <1>1, <1>2, <1>3 DEF PerfInv, ScriptGoesOn, Moved
  <1>10. ServersKnown'
    BY <1>1, <1>2, <1>3, <1>4, <1>5 DEF PerfInv, ServersKnown, Holding
  <1> QED BY <1>1, <1>2, <1>6, <1>7, <1>8, <1>9, <1>10 DEF PerfInv

(* Every step of the runner. *)
LEMMA RunnerKeeps ==
    ASSUME PerfInv, NEW r \in Runs,
           \/ Guards(r) \/ SaveOriginals(r) \/ ConfigSet(r) \/ Populates(r) \/ Saves(r) \/ ProxyRule(r) \/ Judges(r) \/ Raises(r)
           \/ RestoreConfig(r) \/ CleanupKeys(r) \/ UnlinkJournal(r) \/ RecoveryFails(r) \/ Finishes(r) \/ Killed(r)
    PROVE  /\ PerfInv' /\ Moved(r) /\ latest' \in {latest, r} /\ UNCHANGED Lab
           /\ kept = NoJournal /\ kept' # NoJournal => UNCHANGED perf
  <1>1. UNCHANGED Lab
    BY DEF Lab, Guards, SaveOriginals, ConfigSet, Populates, Saves, ProxyRule, Judges, Raises, RestoreConfig, CleanupKeys,
           UnlinkJournal, RecoveryFails, Finishes, Killed
  <1>2. CASE Guards(r)
    BY <1>1, <1>2, GuardsKeeps
  <1>3. CASE SaveOriginals(r)
    BY <1>1, <1>3, SaveOriginalsKeeps
  <1>4. CASE ConfigSet(r)
    BY <1>1, <1>4, ConfigSetKeeps
  <1>5. CASE Populates(r) \/ Saves(r) \/ ProxyRule(r)
    BY <1>1, <1>5, CallsKeep
  <1>6. CASE Judges(r)
    BY <1>1, <1>6, JudgesKeeps
  <1>7. CASE Raises(r) \/ RecoveryFails(r) \/ Finishes(r) \/ Killed(r)
    BY <1>1, <1>7, LeaveKeeps
  <1>8. CASE RestoreConfig(r)
    BY <1>1, <1>8, RestoreConfigKeeps
  <1>9. CASE CleanupKeys(r)
    BY <1>1, <1>9, CleanupKeysKeeps
  <1>10. CASE UnlinkJournal(r)
    BY <1>1, <1>10, UnlinkJournalKeeps
  <1> QED BY <1>2, <1>3, <1>4, <1>5, <1>6, <1>7, <1>8, <1>9, <1>10
-----------------------------------------------------------------------------
(* ScriptSteps outside the runner, for the server and the processes. *)

LEMMA PerfAlone ==
    ASSUME PerfInv, UNCHANGED <<perf, kept, runs, latest>>
    PROVE  PerfInv'
  BY DEF PerfInv, PerfTypes, LatestKnown, LockHeldOnce, HolderHasRecord, RecordKnows, ScriptGoesOn, ServersKnown, SettingsKnown,
         KeysKnown, Locked

LEMMA Fresh1Effect ==
    ASSUME PerfTypes, NEW dump \in SUBSET Runs
    PROVE  /\ Fresh1(dump) \in Perfs /\ Fresh1(dump).id = perf.id + 1 /\ Fresh1(dump).cfg = Fresh1(dump).own
           /\ Fresh1(dump).keys = dump /\ Fresh1(dump).dump = dump
  <1>1. Defaults \in [Settings -> Values]
    BY DEF Defaults, Values
  <1>2. perf.id + 1 \in Nat
    BY DEF PerfTypes, Perfs
  <1>3. Fresh1(dump) = [id |-> perf.id + 1, cfg |-> Defaults, own |-> Defaults, keys |-> dump, dump |-> dump]
    BY DEF Fresh1
  <1> QED BY <1>1, <1>2, <1>3 DEF Perfs

(* A restarted server is not the one of any journal, nor of any connection. *)
LEMMA RestartsKeeps ==
    ASSUME PerfInv, Restarts
    PROVE  PerfInv' /\ UNCHANGED <<kept, runs, latest>>
  <1>1. perf' = Fresh1(perf.dump) /\ UNCHANGED <<kept, runs, latest>>
    BY DEF Restarts
  <1>2. perf \in Perfs /\ perf.id \in Nat /\ perf.dump \in SUBSET Runs /\ kept.server \in Nat /\ kept.server <= perf.id
    BY DEF PerfInv, PerfTypes, Perfs, Journals, ServersKnown
  <1>3. perf' \in Perfs /\ perf'.id = perf.id + 1 /\ perf'.cfg = perf'.own /\ perf'.keys = perf.dump /\ perf'.dump = perf.dump
    BY <1>1, <1>2, Fresh1Effect DEF PerfInv
  <1>4. PerfTypes' /\ LatestKnown'
    BY <1>1, <1>3 DEF PerfInv, PerfTypes, LatestKnown
  <1>5. LockHeldOnce' /\ HolderHasRecord' /\ RecordKnows' /\ ScriptGoesOn'
    BY <1>1 DEF PerfInv, LockHeldOnce, HolderHasRecord, RecordKnows, ScriptGoesOn, Locked
  <1>6. ServersKnown'
    <2>1. \A r \in Runs : runs[r].conn \in Nat
      BY DEF PerfInv, PerfTypes, Processes
    <2> QED BY <1>1, <1>2, <1>3, <2>1 DEF PerfInv, ServersKnown
  <1>7. SettingsKnown'
    BY <1>1, <1>2, <1>3 DEF PerfInv, SettingsKnown
  <1>8. KeysKnown'
    BY <1>1, <1>3 DEF KeysKnown
  <1> QED BY <1>1, <1>4, <1>5, <1>6, <1>7, <1>8 DEF PerfInv

LEMMA OperatorKeeps ==
    ASSUME PerfInv, NEW s \in Settings, OperatorSets(s)
    PROVE  PerfInv' /\ UNCHANGED <<kept, runs, latest>> /\ kept = NoJournal
  <1>1. kept = NoJournal /\ perf' = [perf EXCEPT !.cfg[s] = "operator", !.own[s] = "operator"] /\ UNCHANGED <<kept, runs, latest>>
    BY DEF OperatorSets
  <1>2. perf \in Perfs /\ perf.id \in Nat /\ kept.run = 0 /\ perf.cfg = perf.own
    BY <1>1 DEF PerfInv, PerfTypes, Perfs, NoJournal, SettingsKnown
  <1>3. perf' \in Perfs /\ perf'.id = perf.id /\ perf'.cfg = perf'.own /\ perf'.keys = perf.keys /\ perf'.dump = perf.dump
    <2> DEFINE cfg == [perf.cfg EXCEPT ![s] = "operator"]
    <2>1. cfg \in [Settings -> Values]
      BY <1>2 DEF Perfs, Values
    <2>2. perf' = [perf EXCEPT !.cfg = cfg, !.own = cfg]
      BY <1>1, <1>2
    <2> HIDE DEF cfg
    <2> QED BY <1>2, <2>1, <2>2 DEF Perfs
  <1>4. PerfTypes' /\ LatestKnown'
    BY <1>1, <1>3 DEF PerfInv, PerfTypes, LatestKnown
  <1>5. LockHeldOnce' /\ HolderHasRecord' /\ RecordKnows' /\ ScriptGoesOn'
    BY <1>1 DEF PerfInv, LockHeldOnce, HolderHasRecord, RecordKnows, ScriptGoesOn, Locked
  <1>6. ServersKnown'
    BY <1>1, <1>3 DEF PerfInv, ServersKnown
  <1>7. SettingsKnown'
    <2>1. Locked = {}
      BY <1>2 DEF PerfInv, HolderHasRecord
    <2> QED BY <1>1, <1>2, <1>3, <2>1 DEF SettingsKnown, Locked
  <1>8. KeysKnown'
    BY <1>1, <1>3 DEF PerfInv, KeysKnown
  <1> QED BY <1>1, <1>4, <1>5, <1>6, <1>7, <1>8 DEF PerfInv

(* Every scenario of the operator and of the suite reaches a verdict. *)
LEMMA ScriptsEnd ==
    ASSUME NEW name \in Named
    PROVE  ScriptOf(name) \in Seq(ScriptSteps) /\ ScriptOf(name) # <<>> /\ ScriptOf(name)[Len(ScriptOf(name))].do = "verdict"
  <1> USE DEF ScriptSteps, Settings, Statuses, Set, Populate, Bgsave, Delay, Verdicts, Observed
  <1>1. CASE name = "bigkey"
    BY <1>1 DEF ScriptOf, Bigkey
  <1>2. CASE name = "fragmentation"
    BY <1>2 DEF ScriptOf, Fragmentation
  <1>3. CASE name = "eviction"
    BY <1>3 DEF ScriptOf, Eviction
  <1>4. CASE name = "connections"
    BY <1>4 DEF ScriptOf, Connections
  <1>5. CASE name = "slow-consumer"
    BY <1>5 DEF ScriptOf, SlowConsumer
  <1>6. CASE name = "persistence"
    BY <1>6 DEF ScriptOf, Persistence
  <1>7. CASE name = "latency"
    BY <1>7 DEF ScriptOf, Latency
  <1>8. CASE name = "cache-stampede"
    BY <1>8 DEF ScriptOf, Stampede
  <1>9. CASE name = "stream-pending"
    BY <1>9 DEF ScriptOf, StreamPending
  <1> QED BY <1>1, <1>2, <1>3, <1>4, <1>5, <1>6, <1>7, <1>8, <1>9 DEF Named
(* Processes once started keep their name, and an ended one stays as it is. *)
RunsGoOn ==
    \A q \in Runs :
        /\ runs[q].at # Nowhere => runs'[q].at # Nowhere /\ runs'[q].name = runs[q].name
        /\ Ended(q) => runs'[q] = runs[q]

LEMMA MovedGoesOn ==
    ASSUME NEW r \in Runs, Moved(r)
    PROVE  RunsGoOn
  BY DEF Moved, RunsGoOn, Ended

(* A new process enters behind all that have begun. *)
LEMMA LaunchKeeps ==
    ASSUME PerfInv, NEW r \in Runs, NEW name \in Named \cup {"recover"}, Launch(r, name), UNCHANGED <<perf, kept>>
    PROVE  /\ PerfInv' /\ RunsGoOn /\ runs'[r].at = "enter" /\ runs'[r].name = name
           /\ latest' = IF name = "recover" THEN latest ELSE r
  <1> DEFINE script == ScriptOf(name)
             given == IF name = "recover" THEN Nowhere ELSE "RUNNING"
             p == [NoRun EXCEPT !.at = "enter", !.name = name, !.left = script, !.conn = perf.id, !.report = given]
  <1>1. /\ runs[r].at = Nowhere /\ latest' = (IF name = "recover" THEN latest ELSE r)
        /\ runs' = [runs EXCEPT ![r] = p]
    BY DEF Launch
  <1>2. perf.id \in Nat /\ runs \in [Runs -> Processes] /\ latest \in 0..MaxRuns /\ r # 0
    BY DEF PerfInv, PerfTypes, Perfs, Runs
  <1>3. script \in Seq(ScriptSteps)
    <2>1. CASE name \in Named
      BY <2>1, ScriptsEnd
    <2>2. CASE name = "recover"
      BY <2>2 DEF ScriptOf
    <2> QED BY <2>1, <2>2
  <1>4. name # "recover" => script # <<>> /\ script[Len(script)].do = "verdict"
    BY ScriptsEnd
  <1>5. given \in Outcomes
    BY DEF Outcomes
  <1> HIDE DEF script, given
  <1>6. name \in RunNames /\ "enter" \in RunSteps
    BY DEF RunNames, RunSteps
  <1>7. p \in Processes /\ p.at = "enter" /\ p.name = name /\ p.left = script /\ p.conn = perf.id
    BY <1>2, <1>3, <1>5, <1>6, NoRunIsProcess DEF Processes
  <1> HIDE DEF p
  <1>8. /\ runs' \in [Runs -> Processes] /\ runs'[r].at = "enter" /\ runs'[r].name = name /\ runs'[r].left = script
        /\ runs'[r].conn = perf.id /\ \A q \in Runs \ {r} : runs'[q] = runs[q]
    BY <1>1, <1>2, <1>7
  <1>9. kept.run # r
    BY <1>1 DEF PerfInv, RecordKnows
  <1>10. PerfTypes'
    BY <1>1, <1>2, <1>8 DEF PerfInv, PerfTypes, Runs
  <1>11. LatestKnown' /\ RunsGoOn
    BY <1>1, <1>2, <1>8 DEF PerfInv, LatestKnown, RunsGoOn, Ended, Nowhere, Runs
  <1>12. LockHeldOnce' /\ HolderHasRecord'
    BY <1>8 DEF PerfInv, LockHeldOnce, HolderHasRecord, Locked
  <1>13. RecordKnows'
    BY <1>8, <1>9 DEF PerfInv, RecordKnows
  <1>14. ScriptGoesOn'
    BY <1>4, <1>8 DEF PerfInv, ScriptGoesOn
  <1>15. ServersKnown'
    BY <1>2, <1>8 DEF PerfInv, ServersKnown
  <1>16. SettingsKnown' /\ KeysKnown'
    BY <1>8 DEF PerfInv, SettingsKnown, KeysKnown
  <1> QED BY <1>1, <1>8, <1>10, <1>11, <1>12, <1>13, <1>14, <1>15, <1>16 DEF PerfInv

(* compose down: every process is gone, and the next server is new. *)
LEMMA ComposeDownKeeps ==
    ASSUME PerfInv, runs' = Stopped, NEW dump \in {perf.dump, {}}, perf' = Fresh1(dump),
           kept' = kept \/ kept' = NoJournal, latest' \in {latest, 0}
    PROVE  PerfInv' /\ RunsGoOn
  <1>1. perf \in Perfs /\ perf.id \in Nat /\ dump \in SUBSET Runs /\ kept.server \in Nat /\ kept.server <= perf.id /\ kept \in Journals
        /\ runs \in [Runs -> Processes] /\ latest \in 0..MaxRuns
    BY DEF PerfInv, PerfTypes, Perfs, Journals, ServersKnown
  <1>2. perf' \in Perfs /\ perf'.id = perf.id + 1 /\ perf'.cfg = perf'.own /\ perf'.keys = dump /\ perf'.dump = dump
    BY <1>1, Fresh1Effect DEF PerfInv
  <1>3. \A q \in Runs : Active(q) => /\ Left(q, "dead", runs[q].report) \in Processes
                                    /\ Left(q, "dead", runs[q].report).at = "dead"
                                    /\ Left(q, "dead", runs[q].report).name = runs[q].name
                                    /\ Left(q, "dead", runs[q].report).conn = 0
    BY <1>1, LeftFields DEF PerfInv, Processes
  <1>4. \A q \in Runs : runs'[q] = IF Active(q) THEN Left(q, "dead", runs[q].report) ELSE runs[q]
    BY DEF Stopped
  <1>5. runs' \in [Runs -> Processes]
    BY <1>1, <1>3 DEF Stopped
  <1>6. \A q \in Runs : /\ runs'[q].at \in {Nowhere, "done", "dead"} /\ runs'[q].name = runs[q].name
                        /\ runs'[q].at = Nowhere <=> runs[q].at = Nowhere
                        /\ Ended(q) => runs'[q] = runs[q]
                        /\ runs'[q].conn <= perf.id
    <2> SUFFICES ASSUME NEW q \in Runs
                 PROVE  /\ runs'[q].at \in {Nowhere, "done", "dead"} /\ runs'[q].name = runs[q].name
                        /\ runs'[q].at = Nowhere <=> runs[q].at = Nowhere
                        /\ Ended(q) => runs'[q] = runs[q]
                        /\ runs'[q].conn <= perf.id
      OBVIOUS
    <2>1. CASE Active(q)
      BY <1>1, <1>3, <1>4, <2>1 DEF Active, Ended, Nowhere
    <2>2. CASE ~ Active(q)
      BY <1>4, <2>2 DEF Active, PerfInv, ServersKnown
    <2> QED BY <2>1, <2>2
  <1>7. kept' \in Journals /\ kept'.run \in {kept.run, 0} /\ (kept'.run = 0 => kept' = NoJournal) /\ kept'.server <= perf.id
        /\ (kept'.run = kept.run => kept' = kept \/ kept'.run = 0)
    <2>1. NoJournal.run = 0 /\ NoJournal.server = 0 /\ NoJournal \in Journals
      BY NoJournalIsJournal
    <2> QED BY <1>1, <2>1 DEF PerfInv, HolderHasRecord
  <1>8. PerfTypes' /\ LatestKnown' /\ RunsGoOn
    <2>1. latest' \in 0..MaxRuns
      BY <1>1, OpsAssumption
    <2>2. PerfTypes' /\ RunsGoOn
      BY <1>2, <1>5, <1>6, <1>7, <2>1 DEF PerfTypes, RunsGoOn
    <2>3. latest' # 0 => latest' = latest /\ latest \in Runs
      BY <1>1 DEF Runs
    <2> QED BY <1>6, <2>2, <2>3 DEF PerfInv, LatestKnown
  <1>9. LockHeldOnce' /\ HolderHasRecord' /\ ScriptGoesOn'
    BY <1>6, <1>7 DEF LockHeldOnce, HolderHasRecord, Locked, ScriptGoesOn, Nowhere
  <1>10. RecordKnows'
    BY <1>6, <1>7 DEF PerfInv, RecordKnows, Nowhere, Runs
  <1>11. ServersKnown' /\ SettingsKnown' /\ KeysKnown'
    <2>1. kept'.server \in Nat /\ kept'.server < perf'.id
      BY <1>1, <1>2, <1>7 DEF Journals
    <2>2. \A q \in Runs : runs'[q].conn \in Nat /\ runs'[q].conn <= perf'.id
      BY <1>1, <1>2, <1>5, <1>6 DEF Processes
    <2>3. \A q \in Runs : runs'[q].at \notin {"body", "set", "cleanup", "unlink"}
      BY <1>6 DEF Nowhere
    <2>4. ServersKnown'
      BY <1>1, <1>2, <2>1, <2>2, <2>3 DEF ServersKnown
    <2>5. SettingsKnown' /\ KeysKnown'
      BY <2>1, <2>3, <1>2 DEF SettingsKnown, KeysKnown
    <2> QED BY <2>4, <2>5
  <1> QED BY <1>8, <1>9, <1>10, <1>11 DEF PerfInv
-----------------------------------------------------------------------------
(* Host commands. *)

(* Rows stay true: what they speak of has ended. *)
LEMMA RowsStay ==
    ASSUME LabInv, RunsGoOn, NEW i \in DOMAIN host.rows, host'.rows = host.rows
    PROVE  RowTrue(i)'
  <1>1. host.rows[i].by \in Runs /\ host.rows[i].run \in Runs /\ RowTrue(i)
    <2>1. host.rows \in Seq(Rows) /\ RowTrue(i)
      BY DEF LabInv, LabTypes, Hosts, ValidateKnows
    <2>2. host.rows[i] \in Rows
      BY <2>1
    <2> QED BY <2>1, <2>2 DEF Rows
  <1>2. Ended(host.rows[i].by) /\ runs[host.rows[i].run].at # Nowhere
    BY <1>1 DEF RowTrue
  <1>3. runs'[host.rows[i].by] = runs[host.rows[i].by]
    BY <1>1, <1>2 DEF RunsGoOn
  <1>4. runs'[host.rows[i].run].at # Nowhere /\ runs'[host.rows[i].run].name = runs[host.rows[i].run].name
    BY <1>1, <1>2 DEF RunsGoOn
  <1> QED BY <1>1, <1>3, <1>4 DEF RowTrue, Ended

(* Nothing of the laboratory changes when only the runner or the server moves. *)
LEMMA LabAlone ==
    ASSUME PerfInv, LabInv, RunsGoOn, UNCHANGED Lab, latest # 0 => latest' # 0
    PROVE  LabInv'
  <1>1. cage' = cage /\ link' = link /\ host' = host
    BY DEF Lab
  <1>2. LabTypes' /\ CageKnown' /\ LinkKnown' /\ VerdictKnown'
    BY <1>1 DEF LabInv, LabTypes, CageKnown, LinkKnown, VerdictKnown, HostAt
  <1>3. \A i \in DOMAIN host.rows : RowTrue(i)'
    BY <1>1, RowsStay
  <1>4. HostAt("validate", "wait") => host.run \in Runs
    BY DEF LabInv, LabTypes, Hosts, Runs, ValidateKnows
  <1>5. ValidateKnows'
    BY <1>1, <1>3, <1>4 DEF LabInv, ValidateKnows, HostAt, RunsGoOn
  <1> QED BY <1>2, <1>5 DEF LabInv

(* A command other than validate in its loop. *)
LEMMA CommandKeeps ==
    ASSUME LabInv, RunsGoOn, LabTypes', CageKnown', LinkKnown', VerdictKnown', host'.rows \in {host.rows, <<>>},
           host'.op # "validate" \/ host'.at \notin {"next", "wait"}
    PROVE  LabInv'
  <1>1. \A i \in DOMAIN host'.rows : RowTrue(i)'
    <2>1. CASE host'.rows = host.rows
      BY <2>1, RowsStay
    <2>2. CASE host'.rows = <<>>
      BY <2>2
    <2> QED BY <2>1, <2>2
  <1>2. ValidateKnows'
    BY <1>1 DEF ValidateKnows, HostAt
  <1> QED BY <1>2 DEF LabInv

LEMMA NoHostIsHost ==
    /\ NoHost \in Hosts /\ NoHost.op = Nowhere /\ NoHost.at = Nowhere /\ NoHost.rows = <<>> /\ NoHost.verdict = Nowhere
    /\ NoHost.run = 0 /\ NoHost.failed = FALSE /\ NoHost.prev = 0
  <1>1. Nowhere \in HostOps /\ Nowhere \in HostSteps /\ Nowhere \in Outcomes
    BY DEF HostOps, HostSteps, Outcomes
  <1>2. <<>> \in Seq(Rows)
    OBVIOUS
  <1>3. 0 \in 0..MaxRuns
    BY OpsAssumption
  <1>4. NoHost = [op |-> Nowhere, at |-> Nowhere, run |-> 0, prev |-> 0, rows |-> <<>>, failed |-> FALSE, verdict |-> Nowhere]
    BY DEF NoHost
  <1> QED BY <1>1, <1>2, <1>3, <1>4 DEF Hosts

(* The command in progress, as its steps change it. *)
LEMMA TakesEffect ==
    ASSUME NEW op \in HostOps, NEW at \in HostSteps, Takes(op, at)
    PROVE  host = NoHost /\ host' \in Hosts /\ host'.op = op /\ host'.at = at /\ host'.rows = <<>> /\ host'.verdict = Nowhere
  BY NoHostIsHost DEF Takes, Hosts

LEMMA MovesEffect ==
    ASSUME LabTypes, NEW at \in HostSteps, Moves(at)
    PROVE  /\ host' \in Hosts /\ host'.op = host.op /\ host'.at = at /\ host'.rows = host.rows /\ host'.verdict = host.verdict
           /\ host'.failed = host.failed
  BY DEF LabTypes, Moves, Hosts

LEMMA ReportsEffect ==
    ASSUME LabTypes, NEW v \in Outcomes, Reports(v)
    PROVE  host' \in Hosts /\ host'.op = host.op /\ host'.at = "told" /\ host'.rows = host.rows /\ host'.verdict = v
  BY DEF LabTypes, Reports, Hosts, HostSteps

(* A command that has written no verdict claims nothing. *)
LEMMA VerdictUnset ==
    ASSUME host'.verdict = Nowhere
    PROVE  VerdictKnown'
  BY DEF VerdictKnown, Nowhere

LEMMA RestoreCpuEffect ==
    ASSUME LabTypes, CageKnown, RestoreCpu
    PROVE  cage' \in Cages /\ cage'.id = cage.id /\ cage'.cpu = "own" /\ cage'.kept = 0
  BY DEF LabTypes, CageKnown, RestoreCpu, Cages

LEMMA RestoreReplicationEffect ==
    ASSUME LabTypes, LinkKnown, RestoreReplication
    PROVE  link' \in Links /\ link'.backlog = "own" /\ link'.kept = FALSE
  BY DEF LabTypes, LinkKnown, RestoreReplication, Links
LEMMA KilledOrDoneKeeps ==
    ASSUME PerfInv, LabInv, HostKilled \/ HostDone \/ OpsRecovers \/ BeginCpu \/ BeginReplication \/ BeginValidate \/ (\E op \in {"down", "reset"} : OpsDown(op))
    PROVE  OpsInv' /\ UNCHANGED <<perf, kept, runs, latest>>
  <1>1. UNCHANGED <<perf, kept, runs, latest, cage, link>>
    BY DEF HostKilled, HostDone, OpsRecovers, BeginCpu, BeginReplication, BeginValidate, OpsDown, Proc
  <1>2. PerfInv' /\ RunsGoOn
    BY <1>1, PerfAlone DEF RunsGoOn
  <1>3. cage' \in Cages /\ link' \in Links /\ (cage'.cpu = "limited" => cage'.kept = cage'.id) /\ (link'.backlog = "small" => link'.kept)
    BY <1>1 DEF LabInv, LabTypes, CageKnown, LinkKnown
  <1>4. CASE HostKilled \/ HostDone
    <2>1. host' = NoHost
      BY <1>4 DEF HostKilled, HostDone
    <2>2. LabTypes' /\ VerdictKnown'
      BY <1>3, <2>1, NoHostIsHost, VerdictUnset DEF LabTypes
    <2>3. CageKnown' /\ LinkKnown'
      BY <1>3, <2>1, NoHostIsHost DEF CageKnown, LinkKnown, HostAt, Nowhere
    <2>4. host'.rows = <<>> /\ host'.op # "validate"
      BY <2>1, NoHostIsHost DEF Nowhere
    <2> QED BY <1>1, <1>2, <2>2, <2>3, <2>4, CommandKeeps DEF OpsInv
  <1>5. CASE BeginValidate
    <2>1. host' \in Hosts /\ host'.op = "validate" /\ host'.at = "next" /\ host'.rows = <<>> /\ host'.verdict = Nowhere
      BY <1>5, TakesEffect DEF BeginValidate, HostOps, HostSteps
    <2>2. LabTypes' /\ VerdictKnown' /\ CageKnown' /\ LinkKnown'
      BY <1>3, <2>1, VerdictUnset DEF LabTypes, CageKnown, LinkKnown, HostAt
    <2>3. Len(host'.rows) = 0 /\ Len(Suite) > 0 /\ DOMAIN host'.rows = {}
      BY <2>1, OpsAssumption
    <2>4. ValidateKnows'
      BY <2>1, <2>3 DEF ValidateKnows, HostAt
    <2> QED BY <1>1, <1>2, <2>2, <2>4 DEF OpsInv, LabInv
  <1>6. CASE OpsRecovers \/ BeginCpu \/ (\E op \in {"down", "reset"} : OpsDown(op))
    <2>1. /\ host' \in Hosts /\ host'.rows = <<>> /\ host'.verdict = Nowhere
          /\ host'.op # "validate" /\ ~ HostAt("cpu", "limit")' /\ ~ HostAt("reset", "forget")' /\ ~ HostAt("replication", "shrink")'
      <3>1. CASE OpsRecovers
        BY <3>1, TakesEffect DEF OpsRecovers, HostOps, HostSteps, HostAt
      <3>2. CASE BeginCpu
        <4>1. PICK at \in {"refused", "record"} : Takes("cpu", at)
          BY <3>2 DEF BeginCpu
        <4> QED BY <4>1, TakesEffect DEF HostOps, HostSteps, HostAt
      <3>3. CASE \E op \in {"down", "reset"} : OpsDown(op)
        <4>1. PICK op \in {"down", "reset"} : Takes(op, "link")
          BY <3>3 DEF OpsDown
        <4> QED BY <4>1, TakesEffect DEF HostOps, HostSteps, HostAt
      <3> QED BY <1>6, <3>1, <3>2, <3>3
    <2>2. LabTypes' /\ VerdictKnown' /\ CageKnown' /\ LinkKnown'
      BY <1>3, <2>1, VerdictUnset DEF LabTypes, CageKnown, LinkKnown
    <2> QED BY <1>1, <1>2, <2>1, <2>2, CommandKeeps DEF OpsInv
  <1>7. CASE BeginReplication
    <2>1. host' = [NoHost EXCEPT !.op = "replication", !.at = IF link.kept THEN "restore" ELSE "record", !.failed = link.kept]
      BY <1>7 DEF BeginReplication
    <2>2. link.kept \in BOOLEAN
      BY DEF LabInv, LabTypes, Links
    <2>3. /\ host' \in Hosts /\ host'.op = "replication" /\ host'.at \in {"restore", "record"} /\ host'.rows = <<>>
          /\ host'.verdict = Nowhere
      BY <2>1, <2>2, NoHostIsHost DEF Hosts, HostOps, HostSteps
    <2>4. LabTypes' /\ VerdictKnown' /\ CageKnown' /\ LinkKnown'
      BY <1>3, <2>3, VerdictUnset DEF LabTypes, CageKnown, LinkKnown, HostAt
    <2> QED BY <1>1, <1>2, <2>3, <2>4, CommandKeeps DEF OpsInv
  <1> QED BY <1>4, <1>5, <1>6, <1>7

LEMMA HostRunsKeeps ==
    ASSUME PerfInv, LabInv, NEW r \in Runs, NEW name \in Scenarios, HostRuns(r, name)
    PROVE  OpsInv' /\ UNCHANGED <<perf, kept>>
  <1>1. /\ Launch(r, name) /\ host' = [NoHost EXCEPT !.op = "run", !.at = "wait", !.run = r] /\ UNCHANGED <<perf, kept, cage, link>>
        /\ name \in Named
    BY OpsAssumption DEF HostRuns
  <1>2. PerfInv' /\ RunsGoOn
    BY <1>1, LaunchKeeps
  <1>3. host' \in Hosts /\ host'.op = "run" /\ host'.at = "wait" /\ host'.rows = <<>> /\ host'.verdict = Nowhere
    <2>1. r \in 0..MaxRuns /\ "run" \in HostOps /\ "wait" \in HostSteps
      BY DEF Runs, HostOps, HostSteps
    <2> QED BY <1>1, <2>1, NoHostIsHost DEF Hosts
  <1>4. LabTypes' /\ VerdictKnown' /\ CageKnown' /\ LinkKnown'
    BY <1>1, <1>3, VerdictUnset DEF LabInv, LabTypes, CageKnown, LinkKnown, HostAt
  <1> QED BY <1>1, <1>2, <1>3, <1>4, CommandKeeps DEF OpsInv

(* recover: quota, backlog, then the runner. *)
LEMMA HostRecoversKeeps ==
    ASSUME PerfInv, LabInv, HostRecovers
    PROVE  OpsInv' /\ UNCHANGED <<perf, kept>>
  <1>1. host.op = "recover" /\ UNCHANGED <<perf, kept>> /\ LabTypes /\ CageKnown /\ LinkKnown
    BY DEF HostRecovers, LabInv
  <1>2. CASE host.at = "cpu" /\ RestoreCpu /\ Moves("link") /\ UNCHANGED <<runs, latest, link>>
    <2>1. PerfInv' /\ RunsGoOn
      BY <1>1, <1>2, PerfAlone DEF RunsGoOn
    <2>2. host' \in Hosts /\ host'.op = "recover" /\ host'.at = "link" /\ host'.rows = host.rows /\ host'.verdict = Nowhere
      BY <1>1, <1>2, MovesEffect DEF LabInv, VerdictKnown, HostSteps
    <2>3. LabTypes' /\ CageKnown' /\ LinkKnown' /\ VerdictKnown'
      BY <1>1, <1>2, <2>2, RestoreCpuEffect, VerdictUnset DEF LabTypes, CageKnown, LinkKnown, HostAt
    <2> QED BY <1>1, <2>1, <2>2, <2>3, CommandKeeps DEF OpsInv
  <1>3. CASE host.at = "link" /\ RestoreReplication /\ Moves("runner") /\ UNCHANGED <<runs, latest, cage>>
    <2>1. PerfInv' /\ RunsGoOn
      BY <1>1, <1>3, PerfAlone DEF RunsGoOn
    <2>2. host' \in Hosts /\ host'.op = "recover" /\ host'.at = "runner" /\ host'.rows = host.rows /\ host'.verdict = Nowhere
      BY <1>1, <1>3, MovesEffect DEF LabInv, VerdictKnown, HostSteps
    <2>3. LabTypes' /\ CageKnown' /\ LinkKnown' /\ VerdictKnown'
      BY <1>1, <1>3, <2>2, RestoreReplicationEffect, VerdictUnset DEF LabTypes, CageKnown, LinkKnown, HostAt
    <2> QED BY <1>1, <2>1, <2>2, <2>3, CommandKeeps DEF OpsInv
  <1>4. CASE /\ host.at = "runner" /\ \E r \in Runs : Launch(r, "recover") /\ host' = [host EXCEPT !.at = "wait", !.run = r]
             /\ UNCHANGED <<cage, link>>
    <2>1. PICK r \in Runs : Launch(r, "recover") /\ host' = [host EXCEPT !.at = "wait", !.run = r]
      BY <1>4
    <2>2. PerfInv' /\ RunsGoOn
      BY <1>1, <2>1, LaunchKeeps
    <2>3. host' \in Hosts /\ host'.op = "recover" /\ host'.at = "wait" /\ host'.rows = host.rows /\ host'.verdict = Nowhere
      <3>1. r \in 0..MaxRuns /\ "wait" \in HostSteps
        BY DEF Runs, HostSteps
      <3>2. host \in Hosts /\ host.verdict = Nowhere
        BY <1>4 DEF LabInv, LabTypes, VerdictKnown
      <3> QED BY <1>1, <2>1, <3>1, <3>2 DEF Hosts
    <2>4. LabTypes' /\ CageKnown' /\ LinkKnown' /\ VerdictKnown'
      BY <1>1, <1>4, <2>3, VerdictUnset DEF LabTypes, CageKnown, LinkKnown, HostAt
    <2> QED BY <1>1, <2>2, <2>3, <2>4, CommandKeeps DEF OpsInv
  <1> QED BY <1>2, <1>3, <1>4 DEF HostRecovers
(* The quota: recorded, set, given back. *)
LEMMA CpuStepsKeeps ==
    ASSUME PerfInv, LabInv, CpuSteps
    PROVE  OpsInv' /\ UNCHANGED <<perf, kept>>
  <1>1. /\ host.op = "cpu" /\ UNCHANGED <<perf, kept, runs, latest, link>> /\ LabTypes /\ CageKnown /\ LinkKnown
        /\ (host.at # "told" => host.verdict = Nowhere)
    BY DEF CpuSteps, LabInv, VerdictKnown, Proc
  <1>2. PerfInv' /\ RunsGoOn
    BY <1>1, PerfAlone DEF RunsGoOn
  <1>3. cage \in Cages /\ cage.id # 0 /\ cage.id \in Nat
    BY <1>1 DEF LabTypes, Cages
  <1>4. CASE host.at = "refused" /\ Reports("FAIL") /\ UNCHANGED cage
    <2>1. host' \in Hosts /\ host'.op = "cpu" /\ host'.at = "told" /\ host'.rows = host.rows /\ host'.verdict = "FAIL"
      BY <1>1, <1>4, ReportsEffect DEF Outcomes, Statuses
    <2>2. LabTypes' /\ CageKnown' /\ LinkKnown' /\ VerdictKnown'
      BY <1>1, <1>4, <2>1 DEF LabTypes, CageKnown, LinkKnown, VerdictKnown, HostAt
    <2> QED BY <1>1, <1>2, <2>1, <2>2, CommandKeeps DEF OpsInv
  <1>5. CASE host.at = "record" /\ cage' = [cage EXCEPT !.kept = cage.id] /\ Moves("limit")
    <2>1. host' \in Hosts /\ host'.op = "cpu" /\ host'.at = "limit" /\ host'.rows = host.rows /\ host'.verdict = Nowhere
      BY <1>1, <1>5, MovesEffect DEF HostSteps
    <2>2. cage' \in Cages /\ cage'.id = cage.id /\ cage'.kept = cage.id
      BY <1>3, <1>5 DEF Cages
    <2>3. LabTypes' /\ CageKnown' /\ LinkKnown' /\ VerdictKnown'
      BY <1>1, <2>1, <2>2, VerdictUnset DEF LabTypes, CageKnown, LinkKnown, HostAt
    <2> QED BY <1>1, <1>2, <2>1, <2>3, CommandKeeps DEF OpsInv
  <1>6. CASE /\ host.at = "limit"
             /\ \/ cage' = [cage EXCEPT !.cpu = "limited"] /\ Moves("restore")
                \/ cage' \in {cage, [cage EXCEPT !.cpu = "limited"]} /\ host' = [host EXCEPT !.at = "restore", !.failed = TRUE]
    <2>1. host' \in Hosts /\ host'.op = "cpu" /\ host'.at = "restore" /\ host'.rows = host.rows /\ host'.verdict = Nowhere
      <3>1. CASE Moves("restore")
        BY <1>1, <1>6, <3>1, MovesEffect DEF HostSteps
      <3>2. CASE host' = [host EXCEPT !.at = "restore", !.failed = TRUE]
        <4>1. "restore" \in HostSteps
          BY DEF HostSteps
        <4> QED BY <1>1, <1>6, <3>2, <4>1 DEF LabTypes, Hosts
      <3> QED BY <1>6, <3>1, <3>2
    <2>2. cage' \in Cages /\ cage'.id = cage.id /\ cage'.kept = cage.kept /\ cage.kept = cage.id
      BY <1>1, <1>3, <1>6 DEF Cages, CageKnown, HostAt
    <2>3. LabTypes' /\ CageKnown' /\ LinkKnown' /\ VerdictKnown'
      BY <1>1, <2>1, <2>2, VerdictUnset DEF LabTypes, CageKnown, LinkKnown, HostAt
    <2> QED BY <1>1, <1>2, <2>1, <2>3, CommandKeeps DEF OpsInv
  <1>7. CASE host.at = "restore" /\ RestoreCpu /\ \E v \in {"BLOCKED", "FAIL", "PASS", "NOT_REPRODUCED"} : Reports(v)
    <2>1. PICK v \in {"BLOCKED", "FAIL", "PASS", "NOT_REPRODUCED"} : Reports(v)
      BY <1>7
    <2>2. host' \in Hosts /\ host'.op = "cpu" /\ host'.at = "told" /\ host'.rows = host.rows
      BY <1>1, <2>1, ReportsEffect DEF Outcomes, Statuses
    <2>3. LabTypes' /\ CageKnown' /\ LinkKnown' /\ VerdictKnown'
      BY <1>1, <1>7, <2>2, RestoreCpuEffect DEF LabTypes, CageKnown, LinkKnown, VerdictKnown, HostAt
    <2> QED BY <1>1, <1>2, <2>2, <2>3, CommandKeeps DEF OpsInv
  <1>8. CASE UNCHANGED cage /\ Reports("FAIL")
    <2>1. host' \in Hosts /\ host'.op = "cpu" /\ host'.at = "told" /\ host'.rows = host.rows /\ host'.verdict = "FAIL"
      BY <1>1, <1>8, ReportsEffect DEF Outcomes, Statuses
    <2>2. LabTypes' /\ CageKnown' /\ LinkKnown' /\ VerdictKnown'
      BY <1>1, <1>8, <2>1 DEF LabTypes, CageKnown, LinkKnown, VerdictKnown, HostAt
    <2> QED BY <1>1, <1>2, <2>1, <2>2, CommandKeeps DEF OpsInv
  <1> QED BY <1>4, <1>5, <1>6, <1>7, <1>8 DEF CpuSteps

(* The backlog: recorded, made smaller, given back. *)
LEMMA ReplicationStepsKeeps ==
    ASSUME PerfInv, LabInv, ReplicationSteps
    PROVE  OpsInv' /\ UNCHANGED <<perf, kept>>
  <1>1. /\ host.op = "replication" /\ UNCHANGED <<perf, kept, runs, latest, cage>> /\ LabTypes /\ CageKnown /\ LinkKnown
        /\ (host.at # "told" => host.verdict = Nowhere)
    BY DEF ReplicationSteps, LabInv, VerdictKnown, Proc
  <1>2. PerfInv' /\ RunsGoOn
    BY <1>1, PerfAlone DEF RunsGoOn
  <1>3. CASE host.at = "record" /\ link' = [link EXCEPT !.kept = TRUE] /\ Moves("shrink")
    <2>1. host' \in Hosts /\ host'.op = "replication" /\ host'.at = "shrink" /\ host'.rows = host.rows /\ host'.verdict = Nowhere
      BY <1>1, <1>3, MovesEffect DEF HostSteps
    <2>2. link' \in Links /\ link'.kept
      BY <1>1, <1>3 DEF LabTypes, Links
    <2>3. LabTypes' /\ CageKnown' /\ LinkKnown' /\ VerdictKnown'
      BY <1>1, <2>1, <2>2, VerdictUnset DEF LabTypes, CageKnown, LinkKnown, HostAt
    <2> QED BY <1>1, <1>2, <2>1, <2>3, CommandKeeps DEF OpsInv
  <1>4. CASE /\ host.at = "shrink" /\ link' = [link EXCEPT !.backlog = "small"]
             /\ \/ Moves("restore")
                \/ host' = [host EXCEPT !.at = "restore", !.failed = TRUE]
    <2>1. host' \in Hosts /\ host'.op = "replication" /\ host'.at = "restore" /\ host'.rows = host.rows /\ host'.verdict = Nowhere
      <3>1. CASE Moves("restore")
        BY <1>1, <1>4, <3>1, MovesEffect DEF HostSteps
      <3>2. CASE host' = [host EXCEPT !.at = "restore", !.failed = TRUE]
        <4>1. "restore" \in HostSteps
          BY DEF HostSteps
        <4> QED BY <1>1, <1>4, <3>2, <4>1 DEF LabTypes, Hosts
      <3> QED BY <1>4, <3>1, <3>2
    <2>2. link' \in Links /\ link'.kept
      BY <1>1, <1>4 DEF LabTypes, Links, LinkKnown, HostAt
    <2>3. LabTypes' /\ CageKnown' /\ LinkKnown' /\ VerdictKnown'
      BY <1>1, <2>1, <2>2, VerdictUnset DEF LabTypes, CageKnown, LinkKnown, HostAt
    <2> QED BY <1>1, <1>2, <2>1, <2>3, CommandKeeps DEF OpsInv
  <1>5. CASE RestoreReplication /\ \E v \in {"FAIL", "PASS", "NOT_REPRODUCED"} : Reports(v)
    <2>1. PICK v \in {"FAIL", "PASS", "NOT_REPRODUCED"} : Reports(v)
      BY <1>5
    <2>2. host' \in Hosts /\ host'.op = "replication" /\ host'.at = "told" /\ host'.rows = host.rows
      BY <1>1, <2>1, ReportsEffect DEF Outcomes, Statuses
    <2>3. LabTypes' /\ CageKnown' /\ LinkKnown' /\ VerdictKnown'
      BY <1>1, <1>5, <2>2, RestoreReplicationEffect DEF LabTypes, CageKnown, LinkKnown, VerdictKnown, HostAt
    <2> QED BY <1>1, <1>2, <2>2, <2>3, CommandKeeps DEF OpsInv
  <1>6. CASE UNCHANGED link /\ Reports("FAIL")
    <2>1. host' \in Hosts /\ host'.op = "replication" /\ host'.at = "told" /\ host'.rows = host.rows /\ host'.verdict = "FAIL"
      BY <1>1, <1>6, ReportsEffect DEF Outcomes, Statuses
    <2>2. LabTypes' /\ CageKnown' /\ LinkKnown' /\ VerdictKnown'
      BY <1>1, <1>6, <2>1 DEF LabTypes, CageKnown, LinkKnown, VerdictKnown, HostAt
    <2> QED BY <1>1, <1>2, <2>1, <2>2, CommandKeeps DEF OpsInv
  <1> QED BY <1>3, <1>4, <1>5, <1>6 DEF ReplicationSteps
(* down and reset: the records first, then the containers. *)
LEMMA DownStepsKeeps ==
    ASSUME PerfInv, LabInv, DownSteps
    PROVE  OpsInv' /\ kept' \in {kept, NoJournal}
  <1>1. /\ host.op \in {"down", "reset"} /\ LabTypes /\ CageKnown /\ LinkKnown
        /\ (host.at # "told" => host.verdict = Nowhere)
    BY DEF DownSteps, LabInv, VerdictKnown
  <1>2. CASE /\ host.at = "link" /\ RestoreReplication /\ Moves(IF host.op = "down" THEN "cpu" ELSE "compose")
             /\ UNCHANGED <<Proc, runs, cage>>
    <2>1. PerfInv' /\ RunsGoOn /\ UNCHANGED <<perf, kept, runs, latest, cage>>
      BY <1>2, PerfAlone DEF RunsGoOn, Proc
    <2>2. /\ host' \in Hosts /\ host'.op = host.op /\ host'.at \in {"cpu", "compose"} /\ host'.rows = host.rows
          /\ host'.verdict = Nowhere
      BY <1>1, <1>2, MovesEffect DEF HostSteps
    <2>3. LabTypes' /\ CageKnown' /\ LinkKnown' /\ VerdictKnown'
      BY <1>1, <1>2, <2>1, <2>2, RestoreReplicationEffect, VerdictUnset DEF LabTypes, CageKnown, LinkKnown, HostAt
    <2> QED BY <1>1, <2>1, <2>2, <2>3, CommandKeeps DEF OpsInv
  <1>3. CASE HostAt("down", "cpu") /\ RestoreCpu /\ Moves("runner") /\ UNCHANGED <<Proc, runs, link>>
    <2>1. PerfInv' /\ RunsGoOn /\ UNCHANGED <<perf, kept, runs, latest, link>>
      BY <1>3, PerfAlone DEF RunsGoOn, Proc
    <2>2. host' \in Hosts /\ host'.op = "down" /\ host'.at = "runner" /\ host'.rows = host.rows /\ host'.verdict = Nowhere
      BY <1>1, <1>3, MovesEffect DEF HostSteps, HostAt
    <2>3. LabTypes' /\ CageKnown' /\ LinkKnown' /\ VerdictKnown'
      BY <1>1, <1>3, <2>1, <2>2, RestoreCpuEffect, VerdictUnset DEF LabTypes, CageKnown, LinkKnown, HostAt
    <2> QED BY <1>1, <2>1, <2>2, <2>3, CommandKeeps DEF OpsInv
  <1>4. CASE /\ HostAt("down", "runner") /\ \E r \in Runs : Launch(r, "recover") /\ host' = [host EXCEPT !.at = "wait", !.run = r]
             /\ UNCHANGED <<perf, kept, proxy, cage, link>>
    <2>1. PICK r \in Runs : Launch(r, "recover") /\ host' = [host EXCEPT !.at = "wait", !.run = r]
      BY <1>4
    <2>2. PerfInv' /\ RunsGoOn /\ UNCHANGED <<kept, cage, link>>
      BY <1>4, <2>1, LaunchKeeps
    <2>3. host' \in Hosts /\ host'.op = "down" /\ host'.at = "wait" /\ host'.rows = host.rows /\ host'.verdict = Nowhere
      <3>1. r \in 0..MaxRuns /\ "wait" \in HostSteps
        BY DEF Runs, HostSteps
      <3>2. host \in Hosts /\ host.verdict = Nowhere /\ host.op = "down"
        BY <1>1, <1>4 DEF LabTypes, HostAt
      <3> QED BY <2>1, <3>1, <3>2 DEF Hosts
    <2>4. LabTypes' /\ CageKnown' /\ LinkKnown' /\ VerdictKnown'
      BY <1>1, <2>2, <2>3, VerdictUnset DEF LabTypes, CageKnown, LinkKnown, HostAt
    <2> QED BY <2>2, <2>3, <2>4, CommandKeeps DEF OpsInv
  <1>5. CASE /\ HostAt("down", "wait") /\ UNCHANGED <<Proc, runs, cage, link>>
             /\ Moves("compose") \/ host' = NoHost
    <2>1. PerfInv' /\ RunsGoOn /\ UNCHANGED <<perf, kept, runs, latest, cage, link>>
      BY <1>5, PerfAlone DEF RunsGoOn, Proc
    <2>2. /\ host' \in Hosts /\ host'.op \in {"down", Nowhere} /\ host'.at \in {"compose", Nowhere}
          /\ host'.rows \in {host.rows, <<>>} /\ host'.verdict = Nowhere
      <3>1. CASE Moves("compose")
        BY <1>1, <1>5, <3>1, MovesEffect DEF HostSteps, HostAt
      <3>2. CASE host' = NoHost
        BY <3>2, NoHostIsHost
      <3> QED BY <1>5, <3>1, <3>2
    <2>3. LabTypes' /\ CageKnown' /\ LinkKnown' /\ VerdictKnown'
      BY <1>1, <2>1, <2>2, VerdictUnset DEF LabTypes, CageKnown, LinkKnown, HostAt, Nowhere
    <2>4. host'.op # "validate"
      BY <2>2 DEF Nowhere
    <2> QED BY <2>1, <2>2, <2>3, <2>4, CommandKeeps DEF OpsInv
  <1>6. CASE /\ host.at = "compose" /\ runs' = Stopped /\ UNCHANGED link
             /\ latest' = (IF host.op = "down" THEN latest ELSE 0)
             /\ cage' = [cage EXCEPT !.id = @ + 1, !.cpu = "own"]
             /\ IF host.op = "down" THEN host' = NoHost /\ perf' = Fresh1(perf.dump) /\ UNCHANGED kept
                ELSE Moves("forget") /\ perf' = Fresh1({}) /\ kept' = NoJournal
    <2>1. PerfInv' /\ RunsGoOn /\ kept' \in {kept, NoJournal}
      <3>1. CASE host.op = "down"
        <4>1. perf' = Fresh1(perf.dump) /\ kept' = kept /\ latest' \in {latest, 0} /\ runs' = Stopped
          BY <1>6, <3>1
        <4> QED BY <4>1, ComposeDownKeeps
      <3>2. CASE host.op # "down"
        <4>1. perf' = Fresh1({}) /\ kept' = NoJournal /\ latest' \in {latest, 0} /\ runs' = Stopped
          BY <1>6, <3>2
        <4> QED BY <4>1, ComposeDownKeeps
      <3> QED BY <3>1, <3>2
    <2>2. /\ host' \in Hosts /\ host'.op # "validate" /\ host'.op # "cpu" /\ host'.op # "replication"
          /\ host'.rows \in {host.rows, <<>>} /\ host'.verdict = Nowhere
      <3>1. CASE host.op = "down"
        BY <1>6, <3>1, NoHostIsHost DEF Nowhere
      <3>2. CASE host.op = "reset"
        BY <1>1, <1>6, <3>2, MovesEffect DEF HostSteps
      <3> QED BY <1>1, <3>1, <3>2
    <2>3. cage' \in Cages /\ cage'.cpu = "own"
      <3>1. cage \in Cages /\ cage.id + 1 \in Nat \ {0}
        BY <1>1 DEF LabTypes, Cages
      <3> QED BY <1>6, <3>1 DEF Cages
    <2>4. LabTypes' /\ CageKnown' /\ LinkKnown' /\ VerdictKnown'
      BY <1>1, <1>6, <2>2, <2>3, VerdictUnset DEF LabTypes, CageKnown, LinkKnown, HostAt
    <2> QED BY <2>1, <2>2, <2>4, CommandKeeps DEF OpsInv
  <1>7. CASE HostAt("reset", "forget") /\ cage' = [cage EXCEPT !.kept = 0] /\ host' = NoHost /\ UNCHANGED <<Proc, runs, link>>
    <2>1. PerfInv' /\ RunsGoOn /\ UNCHANGED <<perf, kept, runs, latest, link>>
      BY <1>7, PerfAlone DEF RunsGoOn, Proc
    <2>2. cage' \in Cages /\ cage'.cpu = "own"
      BY <1>1, <1>7 DEF LabTypes, Cages, CageKnown
    <2>3. LabTypes' /\ CageKnown' /\ LinkKnown' /\ VerdictKnown'
      BY <1>1, <1>7, <2>1, <2>2, NoHostIsHost, VerdictUnset DEF LabTypes, CageKnown, LinkKnown, HostAt, Nowhere
    <2>4. host'.rows = <<>> /\ host'.op # "validate"
      BY <1>7, NoHostIsHost DEF Nowhere
    <2> QED BY <2>1, <2>3, <2>4, CommandKeeps DEF OpsInv
  <1> QED BY <1>1, <1>2, <1>3, <1>4, <1>5, <1>6, <1>7 DEF DownSteps

(* validate starts the next scenario of the suite. *)
LEMMA ValidateRunsKeeps ==
    ASSUME PerfInv, LabInv, NEW r \in Runs, ValidateRuns(r)
    PROVE  OpsInv' /\ UNCHANGED <<perf, kept>>
  <1> DEFINE next == Len(host.rows) + 1
  <1>1. /\ HostAt("validate", "next") /\ Launch(r, Suite[next])
        /\ host' = [host EXCEPT !.at = "wait", !.run = r, !.prev = latest]
        /\ UNCHANGED <<perf, kept, cage, link>>
    BY DEF ValidateRuns
  <1>2. host \in Hosts /\ host.rows \in Seq(Rows) /\ Len(host.rows) < Len(Suite) /\ latest \in 0..MaxRuns /\ Len(host.rows) \in Nat
    BY <1>1 DEF LabInv, LabTypes, Hosts, ValidateKnows, PerfInv, PerfTypes
  <1>3. Suite[next] \in Named /\ Suite[next] # "recover" /\ r # 0 /\ r \in 0..MaxRuns
    BY <1>2, OpsAssumption DEF Named, Runs
  <1>4. PerfInv' /\ RunsGoOn /\ runs'[r].at = "enter" /\ runs'[r].name = Suite[next] /\ latest' = r
    BY <1>1, <1>3, LaunchKeeps
  <1>5. /\ host' \in Hosts /\ host'.op = "validate" /\ host'.at = "wait" /\ host'.run = r /\ host'.rows = host.rows
        /\ host'.verdict = Nowhere
    <2>1. host.verdict = Nowhere /\ "wait" \in HostSteps /\ host.op = "validate"
      BY <1>1 DEF LabInv, VerdictKnown, HostAt, HostSteps
    <2> QED BY <1>1, <1>2, <1>3, <2>1 DEF Hosts
  <1>6. LabTypes' /\ CageKnown' /\ LinkKnown' /\ VerdictKnown'
    BY <1>1, <1>5, VerdictUnset DEF LabInv, LabTypes, CageKnown, LinkKnown, HostAt
  <1>7. \A i \in DOMAIN host'.rows : RowTrue(i)'
    BY <1>4, <1>5, RowsStay
  <1>8. ValidateKnows'
    BY <1>2, <1>3, <1>4, <1>5, <1>7 DEF ValidateKnows, HostAt, Nowhere
  <1> QED BY <1>1, <1>4, <1>6, <1>8 DEF OpsInv, LabInv

(* The row agrees with the process that validate started, whoever wrote the latest report. *)
LEMMA ValidateReadsKeeps ==
    ASSUME PerfInv, LabInv, ValidateReads
    PROVE  OpsInv' /\ UNCHANGED <<perf, kept>>
  <1> DEFINE row == [run |-> latest, by |-> host.run, status |-> runs[latest].report]
             rows == Append(host.rows, row)
  <1>1. /\ HostAt("validate", "wait") /\ Ended(host.run) /\ UNCHANGED <<perf, kept, runs, latest, cage, link>>
        /\ \/ Reports("FAIL")
           \/ OwnReport /\ host' = [host EXCEPT !.at = IF Len(rows) < Len(Suite) THEN "next" ELSE "export", !.rows = rows]
    BY DEF ValidateReads, Proc
  <1>2. PerfInv' /\ RunsGoOn
    BY <1>1, PerfAlone DEF RunsGoOn
  <1>3. /\ host \in Hosts /\ host.rows \in Seq(Rows) /\ Len(host.rows) < Len(Suite) /\ latest \in Runs /\ host.run \in Runs
        /\ runs[host.run].at # Nowhere /\ runs[host.run].name = Suite[Len(host.rows) + 1] /\ host.verdict = Nowhere
        /\ Len(host.rows) \in Nat /\ host.op = "validate"
    BY <1>1 DEF LabInv, LabTypes, Hosts, ValidateKnows, VerdictKnown, PerfInv, PerfTypes, HostAt, Runs
  <1>4. CASE Reports("FAIL")
    <2>1. host' \in Hosts /\ host'.op = "validate" /\ host'.at = "told" /\ host'.rows = host.rows /\ host'.verdict = "FAIL"
      BY <1>3, <1>4, ReportsEffect DEF Outcomes, Statuses, LabInv
    <2>2. LabTypes' /\ CageKnown' /\ LinkKnown' /\ VerdictKnown'
      BY <1>1, <2>1 DEF LabInv, LabTypes, CageKnown, LinkKnown, VerdictKnown, HostAt
    <2> QED BY <1>1, <1>2, <2>1, <2>2, CommandKeeps DEF OpsInv
  <1>5. CASE OwnReport /\ host' = [host EXCEPT !.at = IF Len(rows) < Len(Suite) THEN "next" ELSE "export", !.rows = rows]
    <2>1. runs[latest] \in Processes /\ runs[latest].at # Nowhere
      BY <1>3 DEF PerfInv, PerfTypes, LatestKnown, Runs
    <2>2. row \in Rows
      BY <1>3, <2>1 DEF Rows, Processes
    <2>3. rows \in Seq(Rows) /\ Len(rows) = Len(host.rows) + 1 /\ rows[Len(rows)] = row /\ DOMAIN rows = 1..Len(rows)
          /\ \A i \in 1..Len(host.rows) : rows[i] = host.rows[i]
      BY <1>3, <2>2
    <2>4. row.run = latest /\ row.by = host.run /\ row.status = runs[latest].report
      OBVIOUS
    <2>5. runs[latest].name = runs[host.run].name /\ runs[latest].report = runs[host.run].report
      BY <1>5 DEF OwnReport
    <2> HIDE DEF rows, row
    <2>6. /\ host' \in Hosts /\ host'.op = "validate" /\ host'.at \in {"next", "export"} /\ host'.rows = rows
          /\ host'.verdict = Nowhere /\ (host'.at = "next" => Len(rows) < Len(Suite))
      <3>1. "next" \in HostSteps /\ "export" \in HostSteps
        BY DEF HostSteps
      <3> QED BY <1>3, <1>5, <2>3, <3>1 DEF Hosts
    <2>7. LabTypes' /\ CageKnown' /\ LinkKnown' /\ VerdictKnown'
      BY <1>1, <2>6, VerdictUnset DEF LabInv, LabTypes, CageKnown, LinkKnown, HostAt
    <2>8. \A i \in 1..Len(rows) : RowTrue(i)'
      <3> SUFFICES ASSUME NEW i \in 1..Len(rows) PROVE RowTrue(i)'
        OBVIOUS
      <3>1. CASE i \in 1..Len(host.rows)
        <4>1. RowTrue(i) /\ i \in DOMAIN host.rows
          BY <1>3, <3>1 DEF LabInv, ValidateKnows
        <4> QED BY <1>1, <2>3, <2>6, <3>1, <4>1 DEF RowTrue, Ended
      <3>2. CASE i = Len(host.rows) + 1
        BY <1>1, <1>3, <2>1, <2>3, <2>4, <2>5, <2>6, <3>2 DEF RowTrue, Ended
      <3> QED BY <1>3, <2>3, <3>1, <3>2
    <2>9. ValidateKnows'
      BY <2>3, <2>6, <2>8 DEF ValidateKnows, HostAt
    <2> QED BY <1>1, <1>2, <2>7, <2>9 DEF OpsInv, LabInv
  <1> QED BY <1>1, <1>4, <1>5

LEMMA ValidateEndsKeeps ==
    ASSUME PerfInv, LabInv, ValidateEnds
    PROVE  OpsInv' /\ UNCHANGED <<perf, kept>>
  <1>1. HostAt("validate", "export") /\ Reports(Overall(host.rows)) /\ UNCHANGED <<perf, kept, runs, latest, cage, link>>
    BY DEF ValidateEnds, Proc
  <1>2. Overall(host.rows) \in Outcomes
    BY DEF Overall, Outcomes, Statuses
  <1>3. host' \in Hosts /\ host'.op = "validate" /\ host'.at = "told" /\ host'.rows = host.rows
    BY <1>1, <1>2, ReportsEffect DEF LabInv, HostAt
  <1>4. LabTypes' /\ CageKnown' /\ LinkKnown' /\ VerdictKnown'
    BY <1>1, <1>3 DEF LabInv, LabTypes, CageKnown, LinkKnown, VerdictKnown, HostAt
  <1>5. PerfInv' /\ RunsGoOn
    BY <1>1, PerfAlone DEF RunsGoOn
  <1> QED BY <1>1, <1>3, <1>4, <1>5, CommandKeeps DEF OpsInv
-----------------------------------------------------------------------------
LEMMA OpsInitHolds ==
    ASSUME OpsInit
    PROVE  OpsInv
  <1>1. Defaults \in [Settings -> Values]
    BY DEF Defaults, Values
  <1>2. perf = [id |-> 1, cfg |-> Defaults, own |-> Defaults, keys |-> {}, dump |-> {}]
    BY DEF OpsInit
  <1>3. perf \in Perfs /\ perf.cfg = perf.own /\ perf.keys = {} /\ perf.id = 1
    BY <1>1, <1>2 DEF Perfs
  <1>4. kept \in Journals /\ kept.run = 0 /\ kept.server = 0 /\ kept = NoJournal
    BY NoJournalIsJournal DEF OpsInit
  <1>5. runs \in [Runs -> Processes] /\ \A r \in Runs : runs[r].at = Nowhere /\ runs[r].conn = 0
    <2>1. NoRun.at = Nowhere
      BY DEF NoRun
    <2> QED BY <2>1, NoRunIsProcess DEF OpsInit
  <1>6. latest = 0 /\ latest \in 0..MaxRuns
    BY OpsAssumption DEF OpsInit
  <1>7. cage = [id |-> 1, cpu |-> "own", kept |-> 0] /\ link = [backlog |-> "own", kept |-> FALSE] /\ host = NoHost
    BY DEF OpsInit
  <1>8. LabTypes /\ CageKnown /\ LinkKnown
    BY <1>7, NoHostIsHost DEF LabTypes, Cages, Links, CageKnown, LinkKnown, HostAt, Nowhere
  <1>9. VerdictKnown
    BY <1>7, NoHostIsHost DEF VerdictKnown, Nowhere
  <1>10. ValidateKnows
    BY <1>7, NoHostIsHost DEF ValidateKnows, HostAt, Nowhere
  <1>11. PerfTypes /\ LatestKnown
    BY <1>3, <1>4, <1>5, <1>6 DEF PerfTypes, LatestKnown
  <1>12. LockHeldOnce /\ HolderHasRecord /\ RecordKnows /\ ScriptGoesOn
    BY <1>4, <1>5 DEF LockHeldOnce, HolderHasRecord, RecordKnows, ScriptGoesOn, Locked, Nowhere, Runs
  <1>13. ServersKnown /\ SettingsKnown /\ KeysKnown
    BY <1>3, <1>4, <1>5 DEF ServersKnown, SettingsKnown, KeysKnown, Nowhere
  <1> QED BY <1>8, <1>9, <1>10, <1>11, <1>12, <1>13 DEF OpsInv, PerfInv, LabInv

(* A record is written before anything it speaks of is changed. *)
RecordsComeFirst ==
    /\ kept = NoJournal /\ kept' # NoJournal => UNCHANGED perf
    /\ cage.kept = 0 /\ cage'.kept # 0 => cage'.cpu = cage.cpu
    /\ ~ link.kept /\ link'.kept => link'.backlog = link.backlog

LEMMA HostRecordsFirst ==
    ASSUME LabTypes, HostStep
    PROVE  /\ cage.kept = 0 /\ cage'.kept # 0 => cage'.cpu = cage.cpu
           /\ ~ link.kept /\ link'.kept => link'.backlog = link.backlog
  <1>1. cage \in Cages /\ link \in Links
    BY DEF LabTypes
  <1>2. CASE UNCHANGED <<cage, link>>
    BY <1>2
  <1>3. CASE HostRecovers
    BY <1>1, <1>3 DEF HostRecovers, RestoreCpu, RestoreReplication, Cages, Links
  <1>4. CASE CpuSteps
    BY <1>1, <1>4 DEF CpuSteps, RestoreCpu, Cages, Links
  <1>5. CASE ReplicationSteps
    BY <1>1, <1>5 DEF ReplicationSteps, RestoreReplication, Cages, Links
  <1>6. CASE DownSteps
    BY <1>1, <1>6 DEF DownSteps, RestoreCpu, RestoreReplication, Cages, Links
  <1> QED BY <1>2, <1>3, <1>4, <1>5, <1>6
          DEF HostStep, HostKilled, HostDone, OpsRecovers, BeginCpu, BeginReplication, OpsDown, BeginValidate, ValidateReads,
              ValidateEnds, ValidateRuns, HostRuns

LEMMA OpsInvStep ==
    ASSUME OpsInv, [OpsNext]_opsVars
    PROVE  OpsInv' /\ RecordsComeFirst
  <1>1. PerfInv /\ LabInv /\ LabTypes
    BY DEF OpsInv, LabInv
  <1>2. CASE RunnerStep
    <2>1. PICK r \in Runs :
             \/ Guards(r) \/ SaveOriginals(r) \/ ConfigSet(r) \/ Populates(r) \/ Saves(r) \/ ProxyRule(r) \/ Judges(r) \/ Raises(r)
             \/ RestoreConfig(r) \/ CleanupKeys(r) \/ UnlinkJournal(r) \/ RecoveryFails(r) \/ Finishes(r) \/ Killed(r)
      BY <1>2 DEF RunnerStep
    <2>2. /\ PerfInv' /\ Moved(r) /\ latest' \in {latest, r} /\ UNCHANGED Lab
          /\ kept = NoJournal /\ kept' # NoJournal => UNCHANGED perf
      BY <1>1, <2>1, RunnerKeeps
    <2>3. RunsGoOn
      BY <2>2, MovedGoesOn
    <2>4. r # 0
      BY DEF Runs
    <2>5. LabInv'
      BY <1>1, <2>2, <2>3, <2>4, LabAlone
    <2> QED BY <2>2, <2>5 DEF OpsInv, RecordsComeFirst, Lab
  <1>3. CASE PerfStep
    <2>1. PerfInv' /\ UNCHANGED <<kept, runs, latest>> /\ UNCHANGED Lab
      <3>1. CASE ProxyExpires
        BY <1>1, <3>1, PerfAlone DEF ProxyExpires
      <3>2. CASE Restarts
        BY <1>1, <3>2, RestartsKeeps DEF Restarts
      <3>3. CASE \E s \in Settings : OperatorSets(s)
        <4>1. PICK s \in Settings : OperatorSets(s)
          BY <3>3
        <4> QED BY <1>1, <4>1, OperatorKeeps DEF OperatorSets
      <3> QED BY <1>3, <3>1, <3>2, <3>3 DEF PerfStep
    <2>2. RunsGoOn
      BY <2>1 DEF RunsGoOn
    <2>3. LabInv'
      BY <1>1, <2>1, <2>2, LabAlone
    <2> QED BY <2>1, <2>3 DEF OpsInv, RecordsComeFirst, Lab
  <1>4. CASE HostStep
    <2>1. OpsInv' /\ (kept = NoJournal /\ kept' # NoJournal => UNCHANGED perf)
      <3>1. CASE \/ HostKilled \/ HostDone \/ OpsRecovers \/ BeginCpu \/ BeginReplication \/ BeginValidate
                 \/ (\E op \in {"down", "reset"} : OpsDown(op))
        BY <1>1, <3>1, KilledOrDoneKeeps
      <3>2. CASE HostRecovers
        BY <1>1, <3>2, HostRecoversKeeps
      <3>3. CASE CpuSteps
        BY <1>1, <3>3, CpuStepsKeeps
      <3>4. CASE ReplicationSteps
        BY <1>1, <3>4, ReplicationStepsKeeps
      <3>5. CASE DownSteps
        BY <1>1, <3>5, DownStepsKeeps
      <3>6. CASE ValidateReads
        BY <1>1, <3>6, ValidateReadsKeeps
      <3>7. CASE ValidateEnds
        BY <1>1, <3>7, ValidateEndsKeeps
      <3>8. CASE \E r \in Runs : ValidateRuns(r) \/ \E name \in Scenarios : HostRuns(r, name)
        <4>1. PICK r \in Runs : ValidateRuns(r) \/ \E name \in Scenarios : HostRuns(r, name)
          BY <3>8
        <4> QED BY <1>1, <4>1, ValidateRunsKeeps, HostRunsKeeps
      <3> QED BY <1>4, <3>1, <3>2, <3>3, <3>4, <3>5, <3>6, <3>7, <3>8 DEF HostStep
    <2> QED BY <1>1, <1>4, <2>1, HostRecordsFirst DEF RecordsComeFirst
  <1>5. CASE UNCHANGED opsVars
    <2>1. UNCHANGED <<perf, kept, runs, latest>> /\ UNCHANGED Lab
      BY <1>5 DEF opsVars, Lab
    <2>2. PerfInv' /\ RunsGoOn
      BY <1>1, <2>1, PerfAlone DEF RunsGoOn
    <2> QED BY <1>1, <2>1, <2>2, LabAlone DEF OpsInv, RecordsComeFirst, Lab
  <1> QED BY <1>2, <1>3, <1>4, <1>5 DEF OpsNext

LEMMA OpsInvariant == OpsSpec => []OpsInv
  BY OpsInitHolds, OpsInvStep, PTL DEF OpsSpec

(* What OpsInv says of reports. *)
LEMMA ReportsOfInv ==
    ASSUME OpsInv
    PROVE  OpsReportsAreHonest
  <1>1. PerfInv /\ LabInv
    BY DEF OpsInv
  <1>2. \A i \in DOMAIN host.rows :
          LET row == host.rows[i]
          IN  /\ runs[row.by].name = Suite[i] /\ runs[row.by].report = row.status
              /\ runs[row.run].name = Suite[i]
    BY <1>1 DEF LabInv, ValidateKnows, RowTrue
  <1>3. \A r \in Runs : runs[r].at = "finish" /\ runs[r].status = "PASS" => kept.run # r /\ (r \in perf.keys => r \in perf.dump)
    BY <1>1 DEF PerfInv, RecordKnows, KeysKnown
  <1>4. cage \in Cages /\ link \in Links
    BY <1>1 DEF LabInv, LabTypes
  <1>5. host.op = "cpu" /\ host.verdict = "PASS" => cage.kept = 0 /\ cage.cpu = "own"
    BY <1>1, <1>4 DEF LabInv, VerdictKnown, CageKnown, Cages
  <1>6. host.op = "replication" /\ host.verdict = "PASS" => ~ link.kept /\ link.backlog = "own"
    BY <1>1, <1>4 DEF LabInv, VerdictKnown, LinkKnown, Links
  <1> QED BY <1>2, <1>3, <1>5, <1>6 DEF OpsReportsAreHonest

(* Reports of the experiments on the perf server are true of the scenarios that were run and of  *)
(* what is left on the server: ops_manage.py and ops/common.py, for any number of processes.     *)
THEOREM OpsReportsStayHonest == OpsSpec => []OpsReportsAreHonest
  BY OpsInvariant, ReportsOfInv, PTL

(* Nothing of an experiment is there without its record. *)
NothingUnrecorded ==
    /\ kept = NoJournal => Altered = {}
    /\ Altered \subseteq Settings \cup {"keys"}
    /\ cage.kept = 0 => cage.cpu # "limited"
    /\ ~ link.kept => link.backlog # "small"

LEMMA NothingUnrecordedOfInv == OpsInv => NothingUnrecorded
  <1> SUFFICES ASSUME OpsInv PROVE NothingUnrecorded
    OBVIOUS
  <1>1. PerfInv /\ CageKnown /\ LinkKnown /\ cage \in Cages
    BY DEF OpsInv, LabInv, LabTypes
  <1>2. kept = NoJournal => perf.cfg = perf.own /\ perf.keys \subseteq perf.dump
    BY <1>1, NoJournalIsJournal DEF PerfInv, PerfTypes, Perfs, SettingsKnown, KeysKnown, Runs
  <1>3. kept = NoJournal => Altered = {}
    BY <1>2 DEF Altered
  <1>4. Altered \subseteq Settings \cup {"keys"}
    BY DEF Altered
  <1> QED BY <1>1, <1>3, <1>4 DEF CageKnown, LinkKnown, Cages, NothingUnrecorded

LEMMA JournalsStep ==
    ASSUME OpsInv, OpsInv', NothingUnrecorded, NothingUnrecorded', RecordsComeFirst
    PROVE  /\ PerfJournal!Next \/ UNCHANGED <<kept # NoJournal, Altered>>
           /\ CpuJournal!Next \/ UNCHANGED <<cage.kept # 0, cage.cpu>>
           /\ LinkJournal!Next \/ UNCHANGED <<link.kept, link.backlog>>
  <1>1. /\ kept = NoJournal => Altered = {}
        /\ cage.kept = 0 => cage.cpu # "limited"
        /\ ~ link.kept => link.backlog # "small"
    BY DEF NothingUnrecorded
  <1>2. /\ kept' = NoJournal => Altered' = {}
        /\ Altered' \subseteq Settings \cup {"keys"}
        /\ cage'.kept = 0 => cage'.cpu # "limited"
        /\ ~ link'.kept => link'.backlog # "small"
    BY DEF NothingUnrecorded
  <1>3. kept = NoJournal /\ kept' # NoJournal => Altered' = Altered
    BY DEF RecordsComeFirst, Altered
  <1>4. PerfJournal!Next
    BY <1>1, <1>2, <1>3 DEF PerfJournal!Next, PerfJournal!Open, PerfJournal!Change, PerfJournal!Settle, PerfJournal!Close
  <1>5. CpuJournal!Next
    BY <1>1, <1>2 DEF RecordsComeFirst, CpuJournal!Next, CpuJournal!Open, CpuJournal!Change, CpuJournal!Settle, CpuJournal!Close
  <1>6. LinkJournal!Next
    <2>1. link.kept \in BOOLEAN /\ link'.kept \in BOOLEAN
      BY DEF OpsInv, LabInv, LabTypes, Links
    <2> QED BY <1>1, <1>2, <2>1 DEF RecordsComeFirst, LinkJournal!Next, LinkJournal!Open, LinkJournal!Change, LinkJournal!Settle, LinkJournal!Close
  <1> QED BY <1>4, <1>5, <1>6

(* The three recovery records of the experiments implement FaultJournal. *)
THEOREM OpsKeepsItsJournals == OpsSpec => OpsJournalSpec
  BY OpsInvariant, OpsInvStep, NothingUnrecordedOfInv, JournalsStep, PTL DEF OpsSpec, OpsJournalSpec
(* A behaviour of the run is one of the experiments and one of the sandbox. *)
LEMMA ToolsStep ==
    ASSUME [MCNext]_<<vars, opsVars, sandVars, played>>
    PROVE  [OpsNext]_opsVars /\ [SandNext]_sandVars
  BY DEF MCNext

(* Reports, the single-flight cache fill and the sandbox of the Redis laboratory are sound in    *)
(* every behaviour that plays one of them: ops_manage.py, ops/common.py, sandbox.py, client.py.  *)
THEOREM RedisToolsStaySound == MCSpec => []RedisToolsAreSound
  <1>1. MCInit => OpsInit /\ SandInit
    BY DEF MCInit
  <1>2. MCSpec => OpsSpec /\ SandSpec
    BY <1>1, ToolsStep, PTL DEF MCSpec, OpsSpec, SandSpec
  <1>3. OpsReportsAreHonest /\ SingleFlight /\ SandboxIsSound => RedisToolsAreSound
    BY DEF RedisToolsAreSound
  <1> QED BY <1>2, <1>3, OpsReportsStayHonest, FlightStaysSingle, SandboxStaysSound, PTL
=============================================================================
