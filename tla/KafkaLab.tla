------------------------------- MODULE KafkaLab -------------------------------
(***************************************************************************)
(* The Kafka laboratory (src/kafka-lab): life cycle, faults, recovery and   *)
(* demonstrations of lab.sh, the topology pin of scripts/topology-state.py  *)
(* and kraft-id.py, and the producer, consumer and checks of                *)
(* client/client.py.  A demonstration holds .state/demo.lock; an operator   *)
(* may run one other command beside it.  Either may stop between two calls. *)
(*                                                                         *)
(* box      container and network of every broker and ZooKeeper server      *)
(* part     the partition written to: each replica's log, ISR, leader       *)
(* acked    messages whose delivery callback reported success               *)
(* group    messages the consumer processed, and committed                  *)
(* site     .env and the pin, the volumes that exist, the saved KRaft id    *)
(* cmd      the operator's command;  demo: the demonstration                *)
(* lock     demo.lock;  report: exit-code.txt of the last demonstration     *)
(***************************************************************************)
EXTENDS Integers, FiniteSets, Sequences

CONSTANTS Brokers, Zks,
          MaxMsgs,       \* bound: messages
          MaxCommands,   \* bound: commands
          MaxFailures    \* bound: failed calls and interrupted commands

VARIABLES box, part, acked, group, site, cmd, demo, lock, report, used, spent

vars == <<box, part, acked, group, site, cmd, demo, lock, report, used, spent>>
kafka == <<part, acked, group>>

ASSUME KafkaAssumption ==
    /\ IsFiniteSet(Brokers) /\ Cardinality(Brokers) = 3 /\ IsFiniteSet(Zks) /\ Cardinality(Zks) % 2 = 1
    /\ Brokers \cap Zks = {} /\ MaxMsgs \in Nat

None == "none"
Topologies == {"zk", "kraft"}
Services(t) == Brokers \cup (IF t = "zk" THEN Zks ELSE {})
MinIsr == 2

Absent == [run |-> "absent", net |-> FALSE]
Fresh == [run |-> "running", net |-> TRUE]
NoCommand == [op |-> None, at |-> None, mode |-> None]
NoDemo == [name |-> None, at |-> 0, mode |-> None, state |-> None]
NoPart == [exists |-> FALSE, log |-> [b \in Brokers |-> {}], isr |-> {}, leader |-> None]
NoGroup == [processed |-> {}, committed |-> {}]

Init ==
    /\ box = [s \in Brokers \cup Zks |-> Absent]
    /\ part = NoPart /\ acked = {} /\ group = NoGroup
    /\ site \in [env : Topologies, pin : {None}, volumes : {{}}, kraft : {FALSE}]
    /\ cmd = NoCommand /\ demo = NoDemo /\ lock = None /\ report = None
    /\ used = 0 /\ spent = 0

-----------------------------------------------------------------------------
(* Kafka and ZooKeeper, as the laboratory relies on them. *)

Alive(s) == box[s].run = "running" /\ box[s].net
Live(S) == {s \in S : Alive(s)}
Most(S) == 2 * Cardinality(Live(S)) > Cardinality(S)

(* ZooKeeper's quorum, or the controllers': without it the metadata does not change. *)
Quorum == IF site.pin = "zk" THEN Most(Zks) ELSE Most(Brokers)

(* Altered: the topic is created with unclean leader election. *)
MayLeadUnclean(b) == Alive(b)

(* create_topic: unclean.leader.election.enable=false. *)
MayLead(b) == Alive(b) /\ b \in part.isr

Led == part.exists /\ part.leader # None /\ Alive(part.leader)

Elect(b) ==
    /\ part.exists /\ Quorum /\ ~ Led /\ MayLead(b)
    /\ part' = [part EXCEPT !.leader = b, !.isr = (@ \cap Live(Brokers)) \cup {b}]
    /\ UNCHANGED <<box, acked, group, site, cmd, demo, lock, report, used, spent>>

Shrink(b) ==
    /\ Led /\ Quorum /\ b \in part.isr \ {part.leader} /\ ~ Alive(b)
    /\ part' = [part EXCEPT !.isr = @ \ {b}]
    /\ UNCHANGED <<box, acked, group, site, cmd, demo, lock, report, used, spent>>

(* A follower drops what its leader does not have, fetches the rest and enters the ISR. *)
CatchUp(b) ==
    /\ Led /\ Quorum /\ Alive(b) /\ (b \notin part.isr \/ part.log[b] # part.log[part.leader])
    /\ part' = [part EXCEPT !.log[b] = part.log[part.leader], !.isr = @ \cup {b}]
    /\ UNCHANGED <<box, acked, group, site, cmd, demo, lock, report, used, spent>>

-----------------------------------------------------------------------------
(* client.py *)

Ids == acked \cup UNION {part.log[b] : b \in Brokers}
NewId == Cardinality(Ids) + 1

(* publish, one message with acks=all: S is what has stored it when the callback comes. *)
Published(S) ==
    /\ Led /\ Cardinality(part.isr) >= MinIsr /\ NewId <= MaxMsgs
    /\ part.leader \in S /\ S \subseteq Live(Brokers)
    /\ part' = [part EXCEPT !.log = [b \in Brokers |-> IF b \in S THEN @[b] \cup {NewId} ELSE @[b]]]

Delivered == Published(part.isr) /\ acked' = acked \cup {NewId}
Undelivered ==
    /\ UNCHANGED acked
    /\ UNCHANGED part \/ \E S \in SUBSET Brokers : Published(S)

(* probe_failure: the broker itself must have refused. *)
Refused == Led /\ Cardinality(part.isr) < MinIsr

Seed ==
    /\ demo.state # "running" /\ (Delivered \/ Undelivered)
    /\ UNCHANGED <<box, group, site, cmd, demo, lock, report, used, spent>>

(* consume: offsets of processed messages are stored; they are committed later, or never. *)
Readable == IF Led THEN acked \cap part.log[part.leader] ELSE {}
Consume(m) ==
    /\ m \in Readable \ group.committed
    /\ group' = [group EXCEPT !.processed = @ \cup {m}]
    /\ UNCHANGED <<box, part, acked, site, cmd, demo, lock, report, used, spent>>

Commit ==
    /\ Led /\ group.processed # group.committed /\ group' = [group EXCEPT !.committed = group.processed]
    /\ UNCHANGED <<box, part, acked, site, cmd, demo, lock, report, used, spent>>

(* check_state: as many brokers, a valid leader, as many in-sync replicas. *)
CheckState(brokers, isr) ==
    Cardinality(Live(Brokers)) = brokers /\ Led /\ Cardinality(part.isr) = isr /\ part.isr \subseteq Live(Brokers)

(* zk_status --serving *)
ZkServing(n) == IF n = 0 THEN ~ Most(Zks) ELSE Cardinality(Live(Zks)) = n /\ Most(Zks)

(* health: every ZooKeeper server serves, every broker is there, every ISR is full. *)
Healthy(t) == (t = "zk" => ZkServing(Cardinality(Zks))) /\ CheckState(Cardinality(Brokers), Cardinality(Brokers))

-----------------------------------------------------------------------------
(* Commands: every call of lab.sh first checks the pin and settles the KRaft id. *)

(* topology-state.py check *)
PinAllows(t) == site.pin \in {None, t}

(* Volumes of a KRaft cluster without its saved id are never formatted again. *)
IdAllows(t) == t = "kraft" => site.kraft \/ "kraft" \notin site.volumes
WithId(t) == [site EXCEPT !.kraft = @ \/ t = "kraft"]

Begin(op, at, t) ==
    /\ cmd = NoCommand /\ used < MaxCommands /\ used' = used + 1
    /\ PinAllows(t) /\ IdAllows(t)
    /\ cmd' = [op |-> op, at |-> at, mode |-> t]
    /\ site' = WithId(t) /\ UNCHANGED <<box, kafka, demo, lock, report, spent>>

Goto(at) == cmd' = [cmd EXCEPT !.at = at]
End == cmd' = NoCommand
Rest == UNCHANGED <<demo, lock, report, used, spent>>

Created(S) == [s \in Brokers \cup Zks |-> IF s \in S /\ box[s].run \in {"absent", "stopped"} THEN Fresh ELSE box[s]]

BeginUp(t) == lock = None /\ Begin("up", "pin", t)

(* Altered: the pin is checked and not yet saved. *)
PinCheckedOnly ==
    /\ cmd.op = "up" /\ cmd.at = "pin" /\ PinAllows(cmd.mode)
    /\ Goto("env") /\ UNCHANGED <<box, kafka, site>> /\ Rest

(* topology-state.py save: the pin, then .env, both before the first container. *)
PinStep ==
    /\ cmd.op = "up" /\ cmd.at = "pin" /\ PinAllows(cmd.mode)
    /\ site' = [site EXCEPT !.pin = cmd.mode] /\ Goto("env") /\ UNCHANGED <<box, kafka>> /\ Rest

EnvStep ==
    /\ cmd.op = "up" /\ cmd.at = "env" /\ site' = [site EXCEPT !.env = cmd.mode]
    /\ Goto(IF cmd.mode = "zk" THEN "zk" ELSE "brokers") /\ UNCHANGED <<box, kafka>> /\ Rest

(* start_lab: ZooKeeper and its quorum before the brokers; then topics, then health. *)
UpZk ==
    /\ cmd.op = "up" /\ cmd.at = "zk" /\ box' = Created(Zks)
    /\ site' = [site EXCEPT !.volumes = @ \cup {cmd.mode}] /\ Goto("brokers") /\ UNCHANGED kafka /\ Rest

UpBrokers ==
    /\ cmd.op = "up" /\ cmd.at = "brokers" /\ (cmd.mode = "zk" => ZkServing(Cardinality(Zks)))
    /\ box' = Created(Brokers) /\ site' = [site EXCEPT !.volumes = @ \cup {cmd.mode}]
    /\ Goto("topics") /\ UNCHANGED kafka /\ Rest

NewPart == [exists |-> TRUE, log |-> [b \in Brokers |-> {}], isr |-> Brokers, leader |-> CHOOSE b \in Brokers : TRUE]

(* client init: topics that exist are kept. *)
UpTopics ==
    /\ cmd.op = "up" /\ cmd.at = "topics" /\ Cardinality(Live(Brokers)) = Cardinality(Brokers) /\ Quorum
    /\ IF part.exists THEN UNCHANGED kafka ELSE part' = NewPart /\ UNCHANGED <<acked, group>>
    /\ End /\ UNCHANGED <<box, site>> /\ Rest

(* down and reset: paused containers are resumed, then all are removed; reset deletes the *)
(* volumes and only then releases the pin.                                                 *)
BeginDown(op, t) == lock = None /\ Begin(op, "resume", t)

DownResume ==
    /\ cmd.op \in {"down", "reset"} /\ cmd.at = "resume"
    /\ box' = [s \in DOMAIN box |-> IF box[s].run = "paused" THEN [box[s] EXCEPT !.run = "running"] ELSE box[s]]
    /\ Goto("remove") /\ UNCHANGED <<kafka, site>> /\ Rest

DownRemove ==
    /\ cmd.op \in {"down", "reset"} /\ cmd.at = "remove" /\ box' = [s \in DOMAIN box |-> Absent]
    /\ IF cmd.op = "reset"
          THEN /\ Goto("unpin") /\ site' = [site EXCEPT !.volumes = {}]
               /\ part' = NoPart /\ acked' = {} /\ group' = NoGroup
          ELSE End /\ UNCHANGED <<site, kafka>>
    /\ Rest

Unpin ==
    /\ cmd.at = "unpin" /\ site' = [site EXCEPT !.pin = None] /\ End
    /\ UNCHANGED <<box, kafka>> /\ Rest

-----------------------------------------------------------------------------
(* Faults and recovery. *)

Faulted(s, kind) ==
    [box EXCEPT ![s] = CASE kind = "pause-broker" -> [@ EXCEPT !.run = "paused"]
                         [] kind = "isolate-broker" -> [@ EXCEPT !.net = FALSE]
                         [] OTHER -> [@ EXCEPT !.run = "stopped"]]

Fault(s, kind) ==
    /\ cmd = NoCommand /\ used < MaxCommands /\ used' = used + 1 /\ lock = None
    /\ PinAllows(site.env) /\ s \in Services(site.env) /\ box[s].run = "running"
    /\ (s \in Zks => kind = "stop") /\ (kind = "isolate-broker" => box[s].net)
    /\ box' = Faulted(s, kind)
    /\ UNCHANGED <<kafka, site, cmd, demo, lock, report, spent>>

(* restore_one: resume, reconnect, start. *)
Restored(S) == [s \in DOMAIN box |-> IF s \in S /\ box[s].run # "absent" THEN Fresh ELSE box[s]]
Present(S) == \A s \in S : box[s].run # "absent"

BeginRecover(t) == Begin("recover", "first", t)

(* recover: ZooKeeper first and its quorum, then the brokers, then full ISR. *)
RecoverFirst ==
    /\ cmd.op = "recover" /\ cmd.at = "first" /\ Present(Services(cmd.mode))
    /\ box' = IF cmd.mode = "zk" THEN Restored(Zks) ELSE box
    /\ Goto("second") /\ UNCHANGED <<kafka, site>> /\ Rest

RecoverSecond ==
    /\ cmd.op = "recover" /\ cmd.at = "second" /\ (cmd.mode = "zk" => ZkServing(Cardinality(Zks)))
    /\ box' = Restored(Brokers) /\ End /\ UNCHANGED <<kafka, site>> /\ Rest

(* A wait that runs out, a call that fails, a killed command. *)
Interrupt ==
    /\ cmd # NoCommand /\ End /\ UNCHANGED <<box, kafka, site, demo, lock, report, used>>
    /\ \/ spent < MaxFailures /\ spent' = spent + 1
       \/ /\ \/ cmd.op = "recover" /\ ~ Present(Services(cmd.mode))
             \/ cmd.at \in {"brokers", "second"} /\ cmd.mode = "zk" /\ ~ ZkServing(Cardinality(Zks))
             \/ cmd.op = "up" /\ cmd.at = "topics" /\ ~ (Cardinality(Live(Brokers)) = Cardinality(Brokers) /\ Quorum)
             \/ cmd.op = "up" /\ cmd.at = "pin" /\ ~ PinAllows(cmd.mode)
          /\ UNCHANGED spent

-----------------------------------------------------------------------------
(* Demonstrations. *)

Script(name) ==
    CASE name = "broker-failover" -> <<"create", "full", "seed", "kill-leader", "two", "seed">>
      [] name = "controller-failover" -> <<"create", "full", "kill-broker", "two", "seed">>
      [] name = "min-isr" -> <<"create", "full", "seed", "stop", "two", "seed", "stop", "one", "refused">>
      [] name = "zk-one" -> <<"zk-stop", "zk-less", "create", "seed">>
      [] name = "zk-quorum" -> <<"create", "seed", "zk-stop", "zk-stop", "zk-none", "attempt", "no-quorum">>
      [] name = "lag" -> <<"create", "seed", "seed", "consume", "consume", "no-lag">>
      [] name = "hot-key" -> <<"create", "seed", "seed">>
      [] name = "oversize" -> <<"create", "full", "seed">>
      [] name = "retention" -> <<"create", "seed", "expire">>

Names(t) == {"broker-failover", "controller-failover", "min-isr", "lag", "hot-key", "oversize", "retention"}
            \cup IF t = "zk" THEN {"zk-one", "zk-quorum"} ELSE {}

(* demo: no lock, a healthy cluster, then mkdir of the lock; the pid follows. *)
BeginDemo(name) ==
    /\ used < MaxCommands /\ used' = used + 1 /\ demo = NoDemo /\ lock = None
    /\ PinAllows(site.env) /\ name \in Names(site.env) /\ Healthy(site.env)
    /\ lock' = "bare" /\ demo' = [name |-> name, at |-> 0, mode |-> site.env, state |-> "running"]
    /\ report' = None /\ UNCHANGED <<box, kafka, site, cmd, spent>>

DemoPid ==
    /\ demo.state = "running" /\ demo.at = 0 /\ lock' = "held" /\ demo' = [demo EXCEPT !.at = 1]
    /\ UNCHANGED <<box, kafka, site, cmd, report, used, spent>>

Step == Script(demo.name)[demo.at]
Steps(s) == demo.state = "running" /\ demo.at > 0 /\ Step = s
Onward == demo' = IF demo.at = Len(Script(demo.name)) THEN [demo EXCEPT !.at = 1, !.state = "ok"] ELSE [demo EXCEPT !.at = @ + 1]
DemoRest == UNCHANGED <<site, cmd, lock, report, used, spent>>

DemoCreate == Steps("create") /\ Quorum /\ part' = NewPart /\ acked' = {} /\ group' = NoGroup /\ Onward /\ UNCHANGED box /\ DemoRest
DemoSeed == Steps("seed") /\ Delivered /\ Onward /\ UNCHANGED <<box, group>> /\ DemoRest
DemoAttempt == Steps("attempt") /\ (Delivered \/ Undelivered) /\ Onward /\ UNCHANGED <<box, group>> /\ DemoRest

DemoWait ==
    /\ \/ Steps("full") /\ CheckState(3, 3)
       \/ Steps("two") /\ CheckState(2, 2)
       \/ Steps("one") /\ CheckState(1, 1)
       \/ Steps("refused") /\ Refused
       \/ Steps("zk-less") /\ ZkServing(Cardinality(Zks) - 1)
       \/ Steps("zk-none") /\ ZkServing(0)
       \/ Steps("no-quorum") /\ ~ Quorum
       \/ Steps("no-lag") /\ acked \subseteq group.committed
    /\ Onward /\ UNCHANGED <<box, kafka>> /\ DemoRest

DemoFault(s) ==
    /\ Alive(s)
    /\ \/ Steps("kill-leader") /\ s = part.leader
       \/ Steps("kill-broker") /\ s \in Brokers
       \/ Steps("stop") /\ s \in Brokers \ {part.leader}
       \/ Steps("zk-stop") /\ s \in Zks
    /\ box' = Faulted(s, "stop") /\ Onward /\ UNCHANGED kafka /\ DemoRest

DemoConsume ==
    /\ Steps("consume") /\ Led /\ \E S \in SUBSET (Readable \ group.committed) :
          group' = [processed |-> group.processed \cup S, committed |-> group.processed \cup S]
    /\ Onward /\ UNCHANGED <<box, part, acked>> /\ DemoRest

(* Retention drops closed segments on every replica; what it drops is no longer promised. *)
DemoExpire ==
    /\ Steps("expire") /\ Led /\ acked' = {} /\ group' = NoGroup
    /\ part' = [part EXCEPT !.log = [b \in Brokers |-> {}]] /\ Onward /\ UNCHANGED box /\ DemoRest

(* A step that does not come true in time, fails, or Ctrl-C: the EXIT trap with rc # 0. *)
DemoFails ==
    /\ demo.state = "running" /\ demo.at > 0 /\ spent < MaxFailures /\ spent' = spent + 1
    /\ demo' = [demo EXCEPT !.at = 1, !.state = "bad"]
    /\ UNCHANGED <<box, kafka, site, cmd, lock, report, used>>

(* SIGKILL, or the end of the shell before the trap is set or inside it: the lock and the *)
(* fault stay.                                                                              *)
DemoKilled ==
    /\ demo # NoDemo /\ demo' = NoDemo /\ spent < MaxFailures /\ spent' = spent + 1
    /\ UNCHANGED <<box, kafka, site, cmd, lock, report, used>>

(* Altered: what became of the recovery does not change the exit code. *)
ExitCodeAnyway(state, recovered) == IF state = "ok" THEN "pass" ELSE "fail"

ExitCode(state, recovered) == IF state = "ok" /\ recovered THEN "pass" ELSE "fail"

Leave(recovered) ==
    /\ demo' = NoDemo /\ lock' = None /\ report' = ExitCode(demo.state, recovered)
    /\ UNCHANGED <<kafka, site, cmd, used>>

(* demo_exit: recover, and only then the lock goes and the verdict is written. *)
DemoExit ==
    /\ demo.state \in {"ok", "bad"}
    /\ \/ /\ demo.at = 1 /\ Present(Services(demo.mode))
          /\ box' = IF demo.mode = "zk" THEN Restored(Zks) ELSE box
          /\ demo' = [demo EXCEPT !.at = 2] /\ UNCHANGED <<kafka, site, cmd, lock, report, used, spent>>
       \/ /\ demo.at = 2 /\ (demo.mode = "zk" => ZkServing(Cardinality(Zks)))
          /\ box' = Restored(Brokers)
          /\ demo' = [demo EXCEPT !.at = 3] /\ UNCHANGED <<kafka, site, cmd, lock, report, used, spent>>
       \/ demo.at = 3 /\ CheckState(3, 3) /\ Leave(TRUE) /\ UNCHANGED <<box, spent>>
       \/ spent < MaxFailures /\ spent' = spent + 1 /\ Leave(FALSE) /\ UNCHANGED box

(* unlock: only with the pid of a process that is gone. *)
Unlock ==
    /\ lock = "held" /\ demo = NoDemo /\ lock' = None
    /\ UNCHANGED <<box, kafka, site, cmd, demo, report, used, spent>>

-----------------------------------------------------------------------------
KafkaStep == \E b \in Brokers : Elect(b) \/ Shrink(b) \/ CatchUp(b)
ClientStep == Seed \/ (\E m \in 1..MaxMsgs : Consume(m)) \/ Commit
Operator ==
    \/ \E t \in Topologies : BeginUp(t) \/ BeginRecover(t) \/ \E op \in {"down", "reset"} : BeginDown(op, t)
    \/ PinStep \/ EnvStep \/ UpZk \/ UpBrokers \/ UpTopics \/ DownResume \/ DownRemove \/ Unpin
    \/ \E s \in Brokers \cup Zks, kind \in {"stop", "pause-broker", "isolate-broker"} : Fault(s, kind)
    \/ RecoverFirst \/ RecoverSecond \/ Interrupt \/ Unlock
Demonstration ==
    \/ \E t \in Topologies : \E name \in Names(t) : BeginDemo(name)
    \/ DemoPid \/ DemoCreate \/ DemoSeed \/ DemoAttempt \/ DemoWait \/ DemoConsume \/ DemoExpire
    \/ (\E s \in Brokers \cup Zks : DemoFault(s)) \/ DemoFails \/ DemoKilled \/ DemoExit

Next == KafkaStep \/ ClientStep \/ Operator \/ Demonstration

Spec == Init /\ [][Next]_vars

-----------------------------------------------------------------------------
(* Type invariant. *)
TypeOK ==
    /\ box \in [Brokers \cup Zks -> [run : {"absent", "stopped", "running", "paused"}, net : BOOLEAN]]
    /\ part.isr \subseteq Brokers /\ part.leader \in Brokers \cup {None} /\ acked \subseteq 1..MaxMsgs
    /\ site \in [env : Topologies, pin : Topologies \cup {None}, volumes : SUBSET Topologies, kraft : BOOLEAN]
    /\ lock \in {None, "bare", "held"} /\ report \in {None, "pass", "fail"}

(* With acks=all, min.insync.replicas=2 and clean elections, as create_topic and              *)
(* make_producer set them, every in-sync replica - so every leader - holds every message       *)
(* whose callback reported delivery, whatever faults and recoveries went before.               *)
DeliveredIsKept == part.exists => \A b \in part.isr : acked \subseteq part.log[b]

(* Volumes always belong to the pinned topology, and a KRaft volume to a saved cluster id,      *)
(* wherever "up" or "reset" stopped: no command can start another topology over them.          *)
VolumesArePinned == site.volumes \subseteq {site.pin} /\ ("kraft" \in site.volumes => site.kraft)

(* A demonstration that exits with 0 leaves no lock, every container running and connected,    *)
(* and a full ISR that holds everything delivered.                                              *)
PassIsRestored ==
    [][ demo # NoDemo /\ demo' = NoDemo /\ report' = "pass" =>
          lock' = None /\ (\A s \in Services(demo.mode) : Alive(s)')
          /\ part.isr = Brokers /\ \A b \in Brokers : acked \subseteq part.log[b] ]_vars
=============================================================================
