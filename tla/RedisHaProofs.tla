--------------------------- MODULE RedisHaProofs ---------------------------
(***************************************************************************)
(* Proofs about the replicated Redis lab (RedisHa): the client's outcomes, *)
(* the failover test and faults.json tell the truth for every number of    *)
(* nodes, keys, faults and failures; and about the root controller above   *)
(* all labs (LabControl).                                                  *)
(***************************************************************************)
EXTENDS MCRedisHa, TLAPS

CmdSteps ==
    {None, "first", "confirm", "poll", "check", "ready", "compose", "clear", "unpause", "connect", "start", "auth", "forget"} \cup Actions
HostCommands ==
    [op : {None, "fault", "recover", "down", "reset", "test"}, at : CmdSteps, node : Nodes \cup {None}, rest : SUBSET Nodes,
     before : Redis \cup {None}, after : Redis \cup {None}, failed : BOOLEAN]
Requests == [key : Keys \cup {None}, stage : {None, "write"}, on : Redis \cup {None}]
States == [run : {"running", "paused", "stopped", "absent"}, net : BOOLEAN, auth : BOOLEAN]
Mending == {"unpause", "connect", "start", "auth", "forget"}

HaTypes == TypeOK /\ cmd \in HostCommands /\ req \in Requests

Nowhere(k) == \A n \in Redis : k \notin data[n] /\ k \notin inbox[n]

(* A request is executed at most once: while it is under way its key is on no node. *)
ClientKnows ==
    /\ req # NoRequest => req.stage = "write" /\ req.key \in Keys /\ req.on \in Redis /\ row[req.key] = "uncertain" /\ Nowhere(req.key)
    /\ \A k \in Keys : row[k] \in {None, "rejected", "not-sent"} => Nowhere(k)

(* What is wrong with a node is what its record says. *)
DamageIsRecorded ==
    \A n \in Nodes :
        /\ node[n].run = "paused" => faults[n] = "pause"
        /\ node[n].run = "stopped" => faults[n] \in {"kill", "stop"}
        /\ ~ node[n].net => faults[n] = "isolate"
        /\ ~ node[n].auth => faults[n] = "auth-replica"

Whole(n) == node[n].run = "running" /\ node[n].net /\ node[n].auth

(* Between the record and the fault the node is whole; the records are cleared when no node is there. *)
StrikeKnows ==
    /\ cmd.at \in Actions => cmd.node \in Nodes /\ faults[cmd.node] = cmd.at /\ Whole(cmd.node)
    /\ cmd.at = "clear" => \A n \in Nodes : ~ Damaged(n)

(* What a recovery has mended so far. *)
MendKnows ==
    /\ cmd.at \in Mending => cmd.node \in Nodes
    /\ cmd.at \in {"connect", "start", "auth", "forget"} => node[cmd.node].run # "paused"
    /\ cmd.at \in {"start", "auth", "forget"} => node[cmd.node].net
    /\ cmd.at \in {"auth", "forget"} => node[cmd.node].run # "stopped"
    /\ cmd.at = "forget" => node[cmd.node].auth

(* The node that took over serves, and has the key of the test. *)
AfterServes ==
    /\ cmd.after \in Redis /\ cmd.after # cmd.before
    /\ Reachable(cmd.after) /\ master = cmd.after /\ of[master] = master /\ TestKey \in data[master]

TestKnows ==
    /\ cmd.at \in {"first", "confirm", "poll", "check"} => cmd.op = "test"
    /\ cmd.op = "test" =>
          /\ cmd.at \in {"first", "confirm", "kill", "poll", "ready", "check"} \cup Mending
          /\ cmd.rest = {} /\ (cmd.at # "first" => cmd.before \in Redis)
          /\ cmd.at \in {"first", "confirm", "ready", "check"} => Recorded = {}
          /\ cmd.at \in {"kill", "poll"} \cup Mending => Recorded = {cmd.before} /\ cmd.node = cmd.before
          /\ cmd.at \in Mending \cup {"ready", "check"} /\ ~ cmd.failed => AfterServes
          /\ cmd.at = "check" /\ ~ cmd.failed => TopologyOk /\ \A n \in Redis : TestKey \in data[n]

HaInv == HaTypes /\ ClientKnows /\ DamageIsRecorded /\ StrikeKnows /\ MendKnows /\ TestKnows

-----------------------------------------------------------------------------
(* Records. *)

(* What an assignment to parts of the command leaves. *)
LEMMA CmdGoes ==
    ASSUME NEW c \in HostCommands, NEW at \in CmdSteps
    PROVE  LET d == [c EXCEPT !.at = at]
           IN  /\ d \in HostCommands /\ d.op = c.op /\ d.at = at /\ d.node = c.node /\ d.rest = c.rest
               /\ d.before = c.before /\ d.after = c.after /\ d.failed = c.failed
  BY DEF HostCommands

LEMMA CmdFails ==
    ASSUME NEW c \in HostCommands, NEW at \in CmdSteps
    PROVE  LET d == [c EXCEPT !.at = at, !.failed = TRUE]
           IN  /\ d \in HostCommands /\ d.op = c.op /\ d.at = at /\ d.node = c.node /\ d.rest = c.rest
               /\ d.before = c.before /\ d.after = c.after /\ d.failed = TRUE
  BY DEF HostCommands

LEMMA CmdFailsAt ==
    ASSUME NEW c \in HostCommands, NEW at \in CmdSteps
    PROVE  LET d == [c EXCEPT !.failed = TRUE, !.at = at]
           IN  /\ d \in HostCommands /\ d.op = c.op /\ d.at = at /\ d.node = c.node /\ d.rest = c.rest
               /\ d.before = c.before /\ d.after = c.after /\ d.failed = TRUE
  BY DEF HostCommands

LEMMA CmdConfirms ==
    ASSUME NEW c \in HostCommands, NEW at \in CmdSteps, NEW m \in Redis
    PROVE  LET d == [c EXCEPT !.at = at, !.before = m]
           IN  /\ d \in HostCommands /\ d.op = c.op /\ d.at = at /\ d.node = c.node /\ d.rest = c.rest
               /\ d.before = m /\ d.after = c.after /\ d.failed = c.failed
  BY DEF HostCommands

LEMMA CmdSettles ==
    ASSUME NEW c \in HostCommands, NEW at \in CmdSteps, NEW m \in Redis
    PROVE  LET d == [c EXCEPT !.after = m, !.at = at]
           IN  /\ d \in HostCommands /\ d.op = c.op /\ d.at = at /\ d.node = c.node /\ d.rest = c.rest
               /\ d.before = c.before /\ d.after = m /\ d.failed = c.failed
  BY DEF HostCommands

LEMMA CmdStrikes ==
    ASSUME NEW c \in HostCommands, NEW at \in CmdSteps, NEW n \in Nodes
    PROVE  LET d == [c EXCEPT !.node = n, !.at = at]
           IN  /\ d \in HostCommands /\ d.op = c.op /\ d.at = at /\ d.node = n /\ d.rest = c.rest
               /\ d.before = c.before /\ d.after = c.after /\ d.failed = c.failed
  BY DEF HostCommands

LEMMA CmdTurns ==
    ASSUME NEW c \in HostCommands, NEW at \in CmdSteps, NEW n \in Nodes, NEW rest \in SUBSET Nodes
    PROVE  LET d == [c EXCEPT !.node = n, !.rest = rest, !.at = at]
           IN  /\ d \in HostCommands /\ d.op = c.op /\ d.at = at /\ d.node = n /\ d.rest = rest
               /\ d.before = c.before /\ d.after = c.after /\ d.failed = c.failed
  BY DEF HostCommands

LEMMA CmdRests ==
    ASSUME NEW c \in HostCommands, NEW rest \in SUBSET Nodes
    PROVE  LET d == [c EXCEPT !.rest = rest]
           IN  /\ d \in HostCommands /\ d.op = c.op /\ d.at = c.at /\ d.node = c.node /\ d.rest = rest
               /\ d.before = c.before /\ d.after = c.after /\ d.failed = c.failed
  BY DEF HostCommands

LEMMA IdleIs ==
    ASSUME TRUE
    PROVE  LET d == Idle
           IN  /\ d \in HostCommands /\ d.op = None /\ d.at = None /\ d.node = None /\ d.rest = {}
               /\ d.before = None /\ d.after = None /\ d.failed = FALSE
  BY DEF Idle, HostCommands, CmdSteps

LEMMA CommandIs ==
    ASSUME NEW op \in {"fault", "recover", "down", "reset", "test"}, NEW at \in CmdSteps, NEW n \in Nodes \cup {None}
    PROVE  LET d == Command(op, n, at)
           IN  /\ d \in HostCommands /\ d.op = op /\ d.at = at /\ d.node = n /\ d.rest = {}
               /\ d.before = None /\ d.after = None /\ d.failed = FALSE
  BY DEF Command, Idle, HostCommands

LEMMA CmdParts ==
    ASSUME cmd \in HostCommands
    PROVE  /\ cmd.op \in {None, "fault", "recover", "down", "reset", "test"} /\ cmd.at \in CmdSteps /\ cmd.node \in Nodes \cup {None}
           /\ cmd.rest \in SUBSET Nodes /\ cmd.before \in Redis \cup {None} /\ cmd.after \in Redis \cup {None}
           /\ cmd.failed \in BOOLEAN
  BY DEF HostCommands

LEMMA FreshIs ==
    /\ Fresh \in States /\ Fresh.run = "running" /\ Fresh.net /\ Fresh.auth
    /\ [Fresh EXCEPT !.run = "absent"] \in States /\ [Fresh EXCEPT !.run = "absent"].run = "absent"
    /\ [Fresh EXCEPT !.run = "absent"].net /\ [Fresh EXCEPT !.run = "absent"].auth
  BY DEF Fresh, States

LEMMA Unpaused ==
    ASSUME NEW s \in States
    PROVE  LET t == [s EXCEPT !.run = IF @ = "paused" THEN "running" ELSE @]
           IN t \in States /\ t.run = (IF s.run = "paused" THEN "running" ELSE s.run) /\ t.net = s.net /\ t.auth = s.auth
  BY DEF States

LEMMA NetChanges ==
    ASSUME NEW s \in States, NEW b \in BOOLEAN
    PROVE  LET t == [s EXCEPT !.net = b] IN t \in States /\ t.run = s.run /\ t.net = b /\ t.auth = s.auth
  BY DEF States

LEMMA AuthChanges ==
    ASSUME NEW s \in States, NEW b \in BOOLEAN
    PROVE  LET t == [s EXCEPT !.auth = b] IN t \in States /\ t.run = s.run /\ t.net = s.net /\ t.auth = b
  BY DEF States

LEMMA StartChanges ==
    ASSUME NEW s \in States
    PROVE  Started(s) \in States /\ Started(s).run = "running" /\ Started(s).net = s.net /\ Started(s).auth
  BY DEF States, Started

LEMMA BrokenIs ==
    ASSUME NEW a \in Actions, NEW s \in States, s.run = "running", s.net, s.auth
    PROVE  /\ Broken(a, s) \in States
           /\ Broken(a, s).run = "paused" => a = "pause"
           /\ Broken(a, s).run = "stopped" => a \in {"kill", "stop"}
           /\ ~ Broken(a, s).net => a = "isolate"
           /\ ~ Broken(a, s).auth => a = "auth-replica"
  <1>2. CASE a \in {"kill", "stop"}
    <2>1. Broken(a, s) = [s EXCEPT !.run = "stopped"]
      BY <1>2 DEF Broken
    <2>2. Broken(a, s) \in States /\ Broken(a, s).run = "stopped" /\ Broken(a, s).net = s.net /\ Broken(a, s).auth = s.auth
      BY <2>1 DEF States
    <2> QED BY <1>2, <2>2
  <1>3. CASE a = "pause"
    <2>1. Broken(a, s) = [s EXCEPT !.run = "paused"]
      BY <1>3 DEF Broken
    <2>2. Broken(a, s) \in States /\ Broken(a, s).run = "paused" /\ Broken(a, s).net = s.net /\ Broken(a, s).auth = s.auth
      BY <2>1 DEF States
    <2> QED BY <1>3, <2>2
  <1>4. CASE a = "isolate"
    <2> DEFINE off == [s EXCEPT !.run = "stopped"]
               asleep == [s EXCEPT !.run = "paused"]
               alone == [s EXCEPT !.net = FALSE]
               locked == [s EXCEPT !.auth = FALSE]
    <2>2. Broken(a, s) = CASE a \in {"kill", "stop"} -> off [] a = "pause" -> asleep
                           [] a = "isolate" -> alone [] a = "auth-replica" -> locked
      BY DEF Broken
    <2> HIDE DEF off, asleep, alone, locked
    <2>3. Broken(a, s) = alone
      BY <2>2, <1>4
    <2>1. Broken(a, s) = [s EXCEPT !.net = FALSE]
      BY <2>3 DEF alone
    <2> QED BY <1>4, <2>1, NetChanges
  <1>5. CASE a = "auth-replica"
    <2> DEFINE off == [s EXCEPT !.run = "stopped"]
               asleep == [s EXCEPT !.run = "paused"]
               alone == [s EXCEPT !.net = FALSE]
               locked == [s EXCEPT !.auth = FALSE]
    <2>2. Broken(a, s) = CASE a \in {"kill", "stop"} -> off [] a = "pause" -> asleep
                           [] a = "isolate" -> alone [] a = "auth-replica" -> locked
      BY DEF Broken
    <2> HIDE DEF off, asleep, alone, locked
    <2>3. Broken(a, s) = locked
      BY <2>2, <1>5
    <2>1. Broken(a, s) = [s EXCEPT !.auth = FALSE]
      BY <2>3 DEF locked
    <2> QED BY <1>5, <2>1, AuthChanges
  <1> QED BY <1>2, <1>3, <1>4, <1>5 DEF Actions

LEMMA HaTyped ==
    ASSUME HaTypes
    PROVE  /\ node \in [Nodes -> States] /\ of \in [Redis -> Redis] /\ master \in Redis
           /\ data \in [Redis -> SUBSET Written] /\ inbox \in [Redis -> SUBSET Keys]
           /\ faults \in [Nodes -> Actions \cup {None}] /\ report \in {None, "RUNNING", "PASS", "FAIL"}
           /\ row \in [Keys -> Outcomes \cup {None}] /\ cmd \in HostCommands /\ req \in Requests /\ Redis \subseteq Nodes
  BY DEF HaTypes, TypeOK, States, Nodes

LEMMA HaTypedAgain ==
    ASSUME node' \in [Nodes -> States], of' \in [Redis -> Redis], master' \in Redis,
           data' \in [Redis -> SUBSET Written], inbox' \in [Redis -> SUBSET Keys],
           faults' \in [Nodes -> Actions \cup {None}], report' \in {None, "RUNNING", "PASS", "FAIL"},
           row' \in [Keys -> Outcomes \cup {None}], cmd' \in HostCommands, req' \in Requests
    PROVE  HaTypes'
  BY DEF HaTypes, TypeOK, States

-----------------------------------------------------------------------------
(* What a step leaves alone. *)

LEMMA CommandAlone ==
    ASSUME HaInv, UNCHANGED <<node, faults, cmd>>
    PROVE  DamageIsRecorded' /\ StrikeKnows' /\ MendKnows'
  BY DEF HaInv, DamageIsRecorded, StrikeKnows, MendKnows, Damaged, Whole

LEMMA ClientAlone ==
    ASSUME ClientKnows, UNCHANGED <<data, req, row>>, \A n \in Redis : inbox'[n] \subseteq inbox[n]
    PROVE  ClientKnows'
  BY DEF ClientKnows, Nowhere

LEMMA TestAlone ==
    ASSUME TestKnows, UNCHANGED <<cmd, faults, node, master, of>>, \A n \in Redis : TestKey \in data[n] => TestKey \in data'[n],
           master \in Redis
    PROVE  TestKnows'
  BY DEF TestKnows, AfterServes, Recorded, Reachable, TopologyOk

LEMMA IdleKnows ==
    ASSUME cmd' = Idle
    PROVE  cmd' \in HostCommands /\ StrikeKnows' /\ MendKnows' /\ TestKnows'
  <1>1. cmd' \in HostCommands /\ cmd'.op = None /\ cmd'.at = None
    BY IdleIs
  <1> QED BY <1>1 DEF StrikeKnows, MendKnows, TestKnows, Mending, Actions, None
-----------------------------------------------------------------------------
(* Redis, Sentinel and the client. *)

LEMMA ReplicateKeeps ==
    ASSUME HaInv, NEW n \in Redis, Replicate(n)
    PROVE  HaInv'
  <1>1. HaTypes /\ ClientKnows /\ TestKnows
    BY DEF HaInv
  <1>2. /\ Linked(n) /\ data' = [data EXCEPT ![n] = data[of[n]]]
        /\ UNCHANGED <<node, of, inbox, master, faults, cmd, report, req, row>>
    BY DEF Replicate, client
  <1>3. of[n] \in Redis /\ of[n] # n
    BY <1>1, <1>2, HaTyped DEF Linked
  <1>4. data' \in [Redis -> SUBSET Written] /\ data'[n] = data[of[n]] /\ \A m \in Redis \ {n} : data'[m] = data[m]
    BY <1>1, <1>2, <1>3, HaTyped
  <1>5. HaTypes'
    BY <1>1, <1>2, <1>4, HaTyped, HaTypedAgain
  <1>6. ClientKnows'
    <2>1. \A k \in Keys : Nowhere(k) => Nowhere(k)'
      BY <1>2, <1>3, <1>4 DEF Nowhere
    <2> QED BY <1>1, <1>2, <2>1 DEF ClientKnows
  <1>7. TestKnows'
    <2>1. AfterServes => AfterServes'
      BY <1>1, <1>2, <1>3, <1>4 DEF AfterServes, Reachable
    <2>2. TopologyOk /\ (\A m \in Redis : TestKey \in data[m]) => TopologyOk' /\ \A m \in Redis : TestKey \in data'[m]
      BY <1>2, <1>3, <1>4 DEF TopologyOk, Reachable
    <2>3. Recorded' = Recorded
      BY <1>2 DEF Recorded
    <2> QED BY <1>1, <1>2, <2>1, <2>2, <2>3 DEF TestKnows
  <1> QED BY <1>2, <1>5, <1>6, <1>7, CommandAlone DEF HaInv

LEMMA DrainKeeps ==
    ASSUME HaInv, NEW n \in Redis, Drain(n)
    PROVE  HaInv'
  <1>1. HaTypes /\ ClientKnows /\ TestKnows
    BY DEF HaInv
  <1>2. UNCHANGED <<node, of, master, faults, cmd, report, req, row>>
    BY DEF Drain, client
  <1>3. /\ data' \in [Redis -> SUBSET Written] /\ data'[n] \subseteq data[n] \cup inbox[n] /\ data[n] \subseteq data'[n]
        /\ \A m \in Redis \ {n} : data'[m] = data[m]
    BY <1>1, HaTyped DEF Drain, Written
  <1>4. inbox' \in [Redis -> SUBSET Keys] /\ inbox'[n] = {} /\ \A m \in Redis \ {n} : inbox'[m] = inbox[m]
    BY <1>1, HaTyped DEF Drain
  <1>5. HaTypes'
    BY <1>1, <1>2, <1>3, <1>4, HaTyped, HaTypedAgain
  <1>6. ClientKnows'
    <2>1. \A k \in Keys : Nowhere(k) => Nowhere(k)'
      BY <1>3, <1>4 DEF Nowhere
    <2> QED BY <1>1, <1>2, <2>1 DEF ClientKnows
  <1>7. TestKnows'
    BY <1>1, <1>2, <1>3, TestAlone, HaTyped
  <1> QED BY <1>2, <1>5, <1>6, <1>7, CommandAlone DEF HaInv

(* Who follows whom changes only while the master does not answer, or for a node that does not follow it. *)
LEMMA ElectKeeps ==
    ASSUME HaInv, NEW n \in Redis, Promote(n) \/ Reconfigure(n)
    PROVE  HaInv'
  <1>1. HaTypes /\ ClientKnows /\ TestKnows
    BY DEF HaInv
  <1>2. UNCHANGED <<node, data, inbox, faults, cmd, report, req, row>>
    BY DEF Promote, Reconfigure, client
  <1>3. /\ n # master /\ of' \in [Redis -> Redis] /\ master' \in Redis /\ \A m \in Redis \ {n} : of'[m] = of[m]
        /\ (~ Reachable(master) \/ (master' = master /\ of[n] # master))
    BY <1>1, HaTyped DEF Promote, Reconfigure
  <1>4. HaTypes'
    BY <1>1, <1>2, <1>3, HaTyped, HaTypedAgain
  <1>5. ClientKnows'
    BY <1>1, <1>2, ClientAlone
  <1>6. AfterServes => AfterServes'
    BY <1>1, <1>2, <1>3, HaTyped DEF AfterServes, Reachable
  <1>7. ~ TopologyOk
    BY <1>1, <1>3, HaTyped DEF TopologyOk
  <1>8. Recorded' = Recorded
    BY <1>2 DEF Recorded
  <1>9. TestKnows'
    BY <1>1, <1>2, <1>6, <1>7, <1>8 DEF TestKnows
  <1> QED BY <1>2, <1>4, <1>5, <1>9, CommandAlone DEF HaInv

LEMMA ConnectKeeps ==
    ASSUME HaInv, NEW k \in Keys, NEW n \in Redis, Connect(k, n)
    PROVE  HaInv'
  <1>1. HaTypes /\ ClientKnows /\ TestKnows
    BY DEF HaInv
  <1>2. UNCHANGED <<node, of, data, inbox, master, faults, cmd, report>> /\ req = NoRequest /\ row[k] = None
    BY DEF Connect, servers
  <1>3. Classify("connect", FALSE) = "not-sent"
    BY DEF Classify
  <1>4. \/ req' = [key |-> k, stage |-> "write", on |-> n] /\ row' = [row EXCEPT ![k] = "uncertain"]
        \/ req' = req /\ row' = [row EXCEPT ![k] = "not-sent"]
    BY <1>3 DEF Connect
  <1>5. req' \in Requests /\ row' \in [Keys -> Outcomes \cup {None}]
    BY <1>1, <1>4, HaTyped DEF Requests, Outcomes
  <1>6. HaTypes'
    BY <1>1, <1>2, <1>5, HaTyped, HaTypedAgain
  <1>7. Nowhere(k) /\ \A j \in Keys : Nowhere(j)' <=> Nowhere(j)
    BY <1>1, <1>2 DEF ClientKnows, Nowhere
  <1>8. \A j \in Keys \ {k} : row'[j] = row[j]
    BY <1>1, <1>4, HaTyped
  <1>9. ClientKnows'
    BY <1>1, <1>2, <1>4, <1>7, <1>8, HaTyped DEF ClientKnows, NoRequest
  <1>10. TestKnows'
    BY <1>1, <1>2, TestAlone, HaTyped
  <1> QED BY <1>2, <1>6, <1>9, <1>10, CommandAlone DEF HaInv

LEMMA WriteKeeps ==
    ASSUME HaInv, Write
    PROVE  HaInv'
  <1>1. HaTypes /\ ClientKnows /\ TestKnows
    BY DEF HaInv
  <1>2. UNCHANGED <<node, of, master, faults, cmd, report>> /\ req' = NoRequest
    BY DEF Write, Answer
  <1>3. PICK k \in Keys, n \in Redis : k = req.key /\ n = req.on /\ row[k] = "uncertain" /\ Nowhere(k)
    BY <1>1 DEF Write, ClientKnows, NoRequest, None
  <1>4. Classify("write", FALSE) = "uncertain" /\ Classify("write", TRUE) = "rejected"
    BY DEF Classify
  <1>5. /\ row' \in {[row EXCEPT ![k] = "acknowledged"], [row EXCEPT ![k] = "uncertain"], [row EXCEPT ![k] = "rejected"]}
        /\ data' \in {data, [data EXCEPT ![n] = @ \cup {k}]} /\ inbox' \in {inbox, [inbox EXCEPT ![n] = @ \cup {k}]}
        /\ row' = [row EXCEPT ![k] = "rejected"] => UNCHANGED <<data, inbox>>
    <2>1. /\ row' \in {[row EXCEPT ![k] = "acknowledged"], [row EXCEPT ![k] = "uncertain"], [row EXCEPT ![k] = "rejected"]}
          /\ data' \in {data, [data EXCEPT ![n] = @ \cup {k}]} /\ inbox' \in {inbox, [inbox EXCEPT ![n] = @ \cup {k}]}
          /\ \/ row' = [row EXCEPT ![k] = "acknowledged"] \/ row' = [row EXCEPT ![k] = "uncertain"]
             \/ row' = [row EXCEPT ![k] = "rejected"] /\ UNCHANGED <<data, inbox>>
      BY <1>3, <1>4 DEF Write, Answer
    <2>2. [row EXCEPT ![k] = "rejected"] # [row EXCEPT ![k] = "acknowledged"]
          /\ [row EXCEPT ![k] = "rejected"] # [row EXCEPT ![k] = "uncertain"]
      BY <1>1, <1>3, HaTyped
    <2> QED BY <2>1, <2>2
  <1>6. /\ data' \in [Redis -> SUBSET Written] /\ inbox' \in [Redis -> SUBSET Keys]
        /\ \A m \in Redis : /\ data[m] \subseteq data'[m] /\ data'[m] \subseteq data[m] \cup {k}
                            /\ inbox'[m] \subseteq inbox[m] \cup {k}
    BY <1>1, <1>3, <1>5, HaTyped DEF Written
  <1>7. /\ row' \in [Keys -> Outcomes \cup {None}] /\ row'[k] \in {"acknowledged", "uncertain", "rejected"}
        /\ \A j \in Keys \ {k} : row'[j] = row[j]
        /\ row'[k] = "rejected" => row' = [row EXCEPT ![k] = "rejected"]
    BY <1>1, <1>3, <1>5, HaTyped DEF Outcomes
  <1>8. NoRequest \in Requests
    BY DEF NoRequest, Requests
  <1>9. HaTypes'
    BY <1>1, <1>2, <1>6, <1>7, <1>8, HaTyped, HaTypedAgain
  <1>10. \A j \in Keys \ {k} : Nowhere(j) => Nowhere(j)'
    BY <1>6 DEF Nowhere
  <1>11. row'[k] = "rejected" => Nowhere(k)'
    BY <1>3, <1>5, <1>7 DEF Nowhere
  <1>12. row'[k] # None /\ row'[k] # "not-sent"
    BY <1>7 DEF None
  <1>13. ClientKnows'
    BY <1>1, <1>2, <1>7, <1>10, <1>11, <1>12 DEF ClientKnows
  <1>14. TestKnows'
    BY <1>1, <1>2, <1>6, TestAlone, HaTyped
  <1> QED BY <1>2, <1>9, <1>13, <1>14, CommandAlone DEF HaInv
-----------------------------------------------------------------------------
(* Faults. *)

(* A node without a record that runs is whole. *)
LEMMA UnrecordedIsWhole ==
    ASSUME HaInv, NEW n \in Nodes, faults[n] = None
    PROVE  node[n].run # "paused" /\ node[n].run # "stopped" /\ node[n].net /\ node[n].auth
  BY DEF HaInv, DamageIsRecorded, None

LEMMA RecordKeeps ==
    ASSUME HaInv, NEW a \in Actions, NEW n \in Nodes, faults[n] = None, node[n].run = "running",
           faults' = [faults EXCEPT ![n] = a], UNCHANGED node,
           cmd'.at = a, cmd'.node = n
    PROVE  faults' \in [Nodes -> Actions \cup {None}] /\ DamageIsRecorded' /\ StrikeKnows' /\ MendKnows'
  <1>1. faults \in [Nodes -> Actions \cup {None}]
    BY HaTyped DEF HaInv
  <1>2. Whole(n)
    BY UnrecordedIsWhole DEF Whole
  <1>3. faults' \in [Nodes -> Actions \cup {None}] /\ faults'[n] = a /\ \A m \in Nodes \ {n} : faults'[m] = faults[m]
    BY <1>1
  <1>4. DamageIsRecorded'
    BY <1>2, <1>3 DEF HaInv, DamageIsRecorded, Whole
  <1>5. StrikeKnows'
    BY <1>2, <1>3 DEF StrikeKnows, Whole, Actions
  <1>6. MendKnows'
    BY DEF MendKnows, Mending, Actions
  <1> QED BY <1>3, <1>4, <1>5, <1>6

LEMMA FaultKeeps ==
    ASSUME HaInv, NEW a \in Actions, NEW n \in Nodes, Fault(a, n)
    PROVE  HaInv'
  <1>1. HaTypes /\ ClientKnows
    BY DEF HaInv
  <1>2. /\ UNCHANGED <<node, of, data, inbox, master, report, req, row>> /\ faults[n] = None /\ node[n].run = "running"
        /\ faults' = [faults EXCEPT ![n] = a]
    BY DEF Fault, RecordFault, MayFault, servers, client
  <1>3. cmd' \in HostCommands /\ cmd'.op = "fault" /\ cmd'.at = a /\ cmd'.node = n
    BY DEF Fault, RecordFault, Command, Idle, HostCommands, CmdSteps
  <1>4. faults' \in [Nodes -> Actions \cup {None}] /\ DamageIsRecorded' /\ StrikeKnows' /\ MendKnows'
    BY <1>2, <1>3, RecordKeeps
  <1>5. HaTypes'
    BY <1>1, <1>2, <1>3, <1>4, HaTyped, HaTypedAgain
  <1>6. ClientKnows'
    BY <1>1, <1>2, ClientAlone
  <1>7. TestKnows'
    BY <1>3 DEF TestKnows, Actions
  <1> QED BY <1>4, <1>5, <1>6, <1>7 DEF HaInv

LEMMA InjectKeeps ==
    ASSUME HaInv, InjectFault
    PROVE  HaInv'
  <1>1. HaTypes /\ ClientKnows /\ DamageIsRecorded /\ StrikeKnows /\ TestKnows
    BY DEF HaInv
  <1>2. PICK n \in Nodes, a \in Actions : cmd.node = n /\ cmd.at = a /\ faults[n] = a /\ Whole(n) /\ a \in CmdSteps
    BY <1>1 DEF InjectFault, StrikeKnows, CmdSteps
  <1>3. UNCHANGED <<of, data, master, faults, report, req, row>>
    BY DEF InjectFault, client
  <1>4. /\ node' \in [Nodes -> States] /\ \A m \in Nodes \ {n} : node'[m] = node[m]
        /\ node'[n].run = "paused" => a = "pause"
        /\ node'[n].run = "stopped" => a \in {"kill", "stop"}
        /\ ~ node'[n].net => a = "isolate"
        /\ ~ node'[n].auth => a = "auth-replica"
    <2>1. node \in [Nodes -> States] /\ node[n] \in States
      BY <1>1, HaTyped
    <2>2. CASE UNCHANGED node
      BY <1>2, <2>1, <2>2 DEF Whole
    <2>3. CASE node' = [node EXCEPT ![cmd.node] = Broken(cmd.at, @)]
      <3>1. node' = [node EXCEPT ![n] = Broken(a, node[n])]
        BY <1>2, <2>3
      <3>2. /\ Broken(a, node[n]) \in States
            /\ Broken(a, node[n]).run = "paused" => a = "pause"
            /\ Broken(a, node[n]).run = "stopped" => a \in {"kill", "stop"}
            /\ ~ Broken(a, node[n]).net => a = "isolate"
            /\ ~ Broken(a, node[n]).auth => a = "auth-replica"
        BY <1>2, <2>1, BrokenIs DEF Whole
      <3> HIDE DEF Broken
      <3>3. node' \in [Nodes -> States] /\ node'[n] = Broken(a, node[n]) /\ \A m \in Nodes \ {n} : node'[m] = node[m]
        BY <2>1, <3>1, <3>2
      <3> QED BY <3>2, <3>3
    <2> QED BY <2>2, <2>3 DEF InjectFault
  <1>5. inbox' \in [Redis -> SUBSET Keys] /\ \A m \in Redis : inbox'[m] \subseteq inbox[m]
    <2>1. CASE UNCHANGED inbox
      BY <1>1, <2>1, HaTyped
    <2>2. CASE Dropped(cmd.node)
      BY <1>1, <2>2, HaTyped DEF Dropped
    <2> QED BY <2>1, <2>2 DEF InjectFault
  <1>6. /\ cmd' \in HostCommands
        /\ \/ cmd' = Idle
           \/ /\ cmd.op = "test" /\ cmd'.op = "test" /\ cmd'.at \in {"poll", "unpause"} /\ cmd'.node = n
              /\ cmd'.rest = cmd.rest /\ cmd'.before = cmd.before /\ cmd'.failed \in BOOLEAN
              /\ cmd'.at = "unpause" => cmd'.failed
    <2>1. CASE cmd' = Idle
      BY <2>1, IdleKnows
    <2>2. CASE cmd.op = "test" /\ cmd' = [cmd EXCEPT !.at = "poll"]
      BY <1>1, <1>2, <2>2, HaTyped DEF HostCommands, CmdSteps
    <2>3. CASE cmd.op = "test" /\ cmd' = [cmd EXCEPT !.at = "unpause", !.failed = TRUE]
      BY <1>1, <1>2, <2>3, HaTyped DEF HostCommands, CmdSteps
    <2> QED BY <2>1, <2>2, <2>3 DEF InjectFault, Next1, Ends
  <1>7. HaTypes'
    BY <1>1, <1>3, <1>4, <1>5, <1>6, HaTyped, HaTypedAgain
  <1>8. ClientKnows'
    BY <1>1, <1>3, <1>5, ClientAlone
  <1>9. DamageIsRecorded'
    BY <1>1, <1>2, <1>3, <1>4 DEF DamageIsRecorded
  <1>10. StrikeKnows' /\ MendKnows' /\ TestKnows'
    <2>1. CASE cmd' = Idle
      BY <2>1, IdleKnows
    <2>2. CASE cmd' # Idle
      <3>1. StrikeKnows' /\ MendKnows'
        BY <1>2, <1>6, <2>2 DEF StrikeKnows, MendKnows, Actions, Mending
      <3>2. Recorded' = Recorded
        BY <1>3 DEF Recorded
      <3>3. cmd.at = "kill" /\ cmd.before \in Redis /\ Recorded = {cmd.before} /\ cmd.node = cmd.before /\ cmd.rest = {}
        BY <1>1, <1>2, <1>6, <2>2 DEF TestKnows, Actions, Mending
      <3>4. TestKnows'
        BY <1>2, <1>6, <2>2, <3>2, <3>3 DEF TestKnows, Mending
      <3> QED BY <3>1, <3>4
    <2> QED BY <2>1, <2>2
  <1> QED BY <1>7, <1>8, <1>9, <1>10 DEF HaInv

-----------------------------------------------------------------------------
(* Recovery. *)

LEMMA RecoverKeeps ==
    ASSUME HaInv, NEW selected \in SUBSET Nodes, Recover(selected)
    PROVE  HaInv'
  <1>1. HaTypes /\ ClientKnows /\ DamageIsRecorded
    BY DEF HaInv
  <1>2. UNCHANGED <<node, of, data, inbox, master, faults, report, req, row>>
    BY DEF Recover, servers, client
  <1>3. PICK n \in Recorded \cap selected : cmd' = [Command("recover", n, "unpause") EXCEPT !.rest = (Recorded \cap selected) \ {n}]
    BY DEF Recover
  <1> DEFINE rest == (Recorded \cap selected) \ {n}
  <1>4. rest \in SUBSET Nodes /\ n \in Nodes
    OBVIOUS
  <1> HIDE DEF rest
  <1>5. cmd' = [Command("recover", n, "unpause") EXCEPT !.rest = rest]
    BY <1>3 DEF rest
  <1>6. cmd' \in HostCommands /\ cmd'.op = "recover" /\ cmd'.at = "unpause" /\ cmd'.node = n
    BY <1>4, <1>5 DEF Command, Idle, HostCommands, CmdSteps
  <1>7. HaTypes'
    BY <1>1, <1>2, <1>6, HaTyped, HaTypedAgain
  <1>8. StrikeKnows' /\ MendKnows' /\ TestKnows'
    BY <1>4, <1>6 DEF StrikeKnows, MendKnows, TestKnows, Actions, Mending
  <1>9. DamageIsRecorded'
    BY <1>1, <1>2 DEF DamageIsRecorded
  <1> QED BY <1>1, <1>2, <1>7, <1>8, <1>9, ClientAlone DEF HaInv

LEMMA NodeGoneKeeps ==
    ASSUME HaInv, NodeGone
    PROVE  HaInv'
  <1>1. HaTypes /\ ClientKnows /\ DamageIsRecorded
    BY DEF HaInv
  <1>2. cmd' = Idle /\ UNCHANGED <<node, of, data, inbox, master, faults, report, req, row>>
    BY DEF NodeGone, Ends, Unchanged, client
  <1>3. cmd' \in HostCommands /\ StrikeKnows' /\ MendKnows' /\ TestKnows'
    BY <1>2, IdleKnows
  <1>4. HaTypes' /\ DamageIsRecorded'
    BY <1>1, <1>2, <1>3, HaTyped, HaTypedAgain DEF DamageIsRecorded
  <1> QED BY <1>1, <1>2, <1>3, <1>4, ClientAlone DEF HaInv

(* The recovery goes on with the same node. *)
LEMMA MendGoes ==
    ASSUME HaInv, NEW n \in Nodes, cmd.node = n, cmd.at \in Mending, UNCHANGED <<of, data, inbox, master, faults, report, req, row>>,
           node' \in [Nodes -> States], \A m \in Nodes \ {n} : node'[m] = node[m],
           cmd' \in HostCommands, cmd'.at \in Mending, cmd'.op = cmd.op, cmd'.node = n, cmd'.rest = cmd.rest,
           cmd'.before = cmd.before, cmd'.after = cmd.after, cmd'.failed = cmd.failed
    PROVE  HaTypes' /\ ClientKnows' /\ StrikeKnows' /\ TestKnows'
  <1>1. HaTypes /\ ClientKnows /\ TestKnows
    BY DEF HaInv
  <1>2. HaTypes'
    BY <1>1, HaTyped, HaTypedAgain
  <1>3. ClientKnows'
    BY <1>1, ClientAlone
  <1>4. StrikeKnows'
    BY DEF StrikeKnows, Mending, Actions
  <1>5. Recorded' = Recorded
    BY DEF Recorded
  <1>6. AfterServes /\ cmd.node = cmd.before => AfterServes'
    BY <1>1, HaTyped DEF AfterServes, Reachable
  <1>7. TestKnows'
    BY <1>1, <1>5, <1>6 DEF TestKnows, Mending
  <1> QED BY <1>2, <1>3, <1>4, <1>7
LEMMA UnpauseKeeps ==
    ASSUME HaInv, Unpause
    PROVE  HaInv'
  <1>1. HaTypes /\ DamageIsRecorded /\ MendKnows /\ node \in [Nodes -> States] /\ cmd \in HostCommands
    BY HaTyped DEF HaInv
  <1>2. PICK n \in Nodes : cmd.node = n
    BY <1>1 DEF Unpause, Step, MendKnows, Mending
  <1>3. cmd.at = "unpause" /\ UNCHANGED <<of, data, inbox, master, faults, report, req, row>>
    BY DEF Unpause, Step, Unchanged, client
  <1>4. cmd' \in HostCommands /\ cmd'.at = "connect" /\ cmd'.op = cmd.op /\ cmd'.node = cmd.node /\ cmd'.rest = cmd.rest
        /\ cmd'.before = cmd.before /\ cmd'.after = cmd.after /\ cmd'.failed = cmd.failed
    BY <1>1 DEF Unpause, Step, HostCommands, CmdSteps
  <1>5. /\ node' \in [Nodes -> States] /\ \A m \in Nodes \ {n} : node'[m] = node[m]
        /\ node'[n].run = (IF node[n].run = "paused" THEN "running" ELSE node[n].run)
        /\ node'[n].net = node[n].net /\ node'[n].auth = node[n].auth
    BY <1>1, <1>2 DEF Unpause, States
  <1>6. DamageIsRecorded'
    BY <1>1, <1>3, <1>5 DEF DamageIsRecorded
  <1>7. MendKnows'
    BY <1>2, <1>4, <1>5 DEF MendKnows, Mending
  <1> QED BY <1>2, <1>3, <1>4, <1>5, <1>6, <1>7, MendGoes DEF HaInv, Mending

LEMMA ConnectNetworkKeeps ==
    ASSUME HaInv, ConnectNetwork
    PROVE  HaInv'
  <1>1. HaTypes /\ DamageIsRecorded /\ MendKnows /\ node \in [Nodes -> States] /\ cmd \in HostCommands
    BY HaTyped DEF HaInv
  <1>2. PICK n \in Nodes : cmd.node = n
    BY <1>1 DEF ConnectNetwork, Step, MendKnows, Mending
  <1>3. cmd.at = "connect" /\ UNCHANGED <<of, data, inbox, master, faults, report, req, row>>
    BY DEF ConnectNetwork, Step, Unchanged, client
  <1>4. cmd' \in HostCommands /\ cmd'.at = "start" /\ cmd'.op = cmd.op /\ cmd'.node = cmd.node /\ cmd'.rest = cmd.rest
        /\ cmd'.before = cmd.before /\ cmd'.after = cmd.after /\ cmd'.failed = cmd.failed
    BY <1>1 DEF ConnectNetwork, Step, HostCommands, CmdSteps
  <1>5. /\ node' \in [Nodes -> States] /\ \A m \in Nodes \ {n} : node'[m] = node[m]
        /\ node'[n].net = (IF faults[n] = "isolate" THEN TRUE ELSE node[n].net)
        /\ node'[n].run = node[n].run /\ node'[n].auth = node[n].auth
    BY <1>1, <1>2 DEF ConnectNetwork, States
  <1>6. DamageIsRecorded'
    BY <1>1, <1>3, <1>5 DEF DamageIsRecorded
  <1>7. MendKnows'
    BY <1>1, <1>2, <1>3, <1>4, <1>5 DEF MendKnows, Mending, DamageIsRecorded
  <1> QED BY <1>2, <1>3, <1>4, <1>5, <1>6, <1>7, MendGoes DEF HaInv, Mending

LEMMA StartNodeKeeps ==
    ASSUME HaInv, StartNode
    PROVE  HaInv'
  <1>1. HaTypes /\ DamageIsRecorded /\ MendKnows /\ node \in [Nodes -> States] /\ cmd \in HostCommands
    BY HaTyped DEF HaInv
  <1>2. PICK n \in Nodes : cmd.node = n
    BY <1>1 DEF StartNode, Step, MendKnows, Mending
  <1>3. cmd.at = "start" /\ UNCHANGED <<of, data, inbox, master, faults, report, req, row>>
    BY DEF StartNode, Step, Unchanged, client
  <1>4. cmd' \in HostCommands /\ cmd'.at = "auth" /\ cmd'.op = cmd.op /\ cmd'.node = cmd.node /\ cmd'.rest = cmd.rest
        /\ cmd'.before = cmd.before /\ cmd'.after = cmd.after /\ cmd'.failed = cmd.failed
    BY <1>1 DEF StartNode, Step, HostCommands, CmdSteps
  <1>5. /\ node' \in [Nodes -> States] /\ \A m \in Nodes \ {n} : node'[m] = node[m]
        /\ node'[n].run = (IF node[n].run = "stopped" THEN "running" ELSE node[n].run)
        /\ node'[n].net = node[n].net /\ (node'[n].auth = node[n].auth \/ node'[n].auth)
    <2>1. node[n] \in States /\ Started(node[n]) \in States /\ Started(node[n]).run = "running"
          /\ Started(node[n]).net = node[n].net /\ Started(node[n]).auth
      BY <1>1, StartChanges
    <2>2. node' = [node EXCEPT ![n] = IF node[n].run = "stopped" THEN Started(node[n]) ELSE node[n]]
      BY <1>2 DEF StartNode
    <2> QED BY <1>1, <2>1, <2>2
  <1>6. DamageIsRecorded'
    BY <1>1, <1>3, <1>5 DEF DamageIsRecorded
  <1>7. MendKnows'
    BY <1>1, <1>2, <1>3, <1>4, <1>5 DEF MendKnows, Mending
  <1> QED BY <1>2, <1>3, <1>4, <1>5, <1>6, <1>7, MendGoes DEF HaInv, Mending

LEMMA ResetAuthKeeps ==
    ASSUME HaInv, ResetAuth
    PROVE  HaInv'
  <1>1. HaTypes /\ DamageIsRecorded /\ MendKnows /\ node \in [Nodes -> States] /\ cmd \in HostCommands
    BY HaTyped DEF HaInv
  <1>2. PICK n \in Nodes : cmd.node = n
    BY <1>1 DEF ResetAuth, Step, MendKnows, Mending
  <1>3. cmd.at = "auth" /\ UNCHANGED <<of, data, inbox, master, faults, report, req, row>>
    BY DEF ResetAuth, Step, Unchanged, client
  <1>4. cmd' \in HostCommands /\ cmd'.at = "forget" /\ cmd'.op = cmd.op /\ cmd'.node = cmd.node /\ cmd'.rest = cmd.rest
        /\ cmd'.before = cmd.before /\ cmd'.after = cmd.after /\ cmd'.failed = cmd.failed
    BY <1>1 DEF ResetAuth, Step, HostCommands, CmdSteps
  <1>5. /\ node' \in [Nodes -> States] /\ \A m \in Nodes \ {n} : node'[m] = node[m]
        /\ node'[n].auth = (IF faults[n] = "auth-replica" THEN TRUE ELSE node[n].auth)
        /\ node'[n].net = node[n].net /\ node'[n].run = node[n].run
    BY <1>1, <1>2 DEF ResetAuth, States
  <1>6. DamageIsRecorded'
    BY <1>1, <1>3, <1>5 DEF DamageIsRecorded
  <1>7. MendKnows'
    BY <1>1, <1>2, <1>3, <1>4, <1>5 DEF MendKnows, Mending, DamageIsRecorded
  <1> QED BY <1>2, <1>3, <1>4, <1>5, <1>6, <1>7, MendGoes DEF HaInv, Mending

(* The record goes when its node is whole or gone. *)
LEMMA ForgetKeeps ==
    ASSUME HaInv, Forget
    PROVE  HaInv'
  <1>1. HaTypes /\ ClientKnows /\ DamageIsRecorded /\ MendKnows /\ TestKnows /\ cmd \in HostCommands
        /\ faults \in [Nodes -> Actions \cup {None}]
    BY HaTyped DEF HaInv
  <1>2. PICK n \in Nodes : cmd.node = n
    BY <1>1 DEF Forget, MendKnows, Mending
  <1>3. cmd.at = "forget" /\ UNCHANGED <<node, of, data, inbox, master, report, req, row>> /\ faults' = [faults EXCEPT ![n] = None]
    BY <1>2 DEF Forget, Unchanged, client
  <1>4. faults' \in [Nodes -> Actions \cup {None}] /\ faults'[n] = None /\ \A m \in Nodes \ {n} : faults'[m] = faults[m]
    BY <1>1, <1>3
  <1>5. node[n].run # "paused" /\ node[n].run # "stopped" /\ node[n].net /\ node[n].auth
    BY <1>1, <1>2, <1>3 DEF MendKnows
  <1>6. DamageIsRecorded' /\ ~ node'[n].run \in {"paused", "stopped"}
    BY <1>1, <1>3, <1>4, <1>5 DEF DamageIsRecorded
  <1> DEFINE turned == CHOOSE m \in cmd.rest : TRUE
             left == cmd.rest \ {turned}
             turn == [cmd EXCEPT !.node = turned, !.rest = left, !.at = "unpause"]
             compose == [cmd EXCEPT !.at = "compose"]
             wait == [cmd EXCEPT !.at = "ready"]
             check == [cmd EXCEPT !.at = "check"]
  <1>7. cmd.rest # {} => turned \in Nodes
    BY <1>1 DEF HostCommands
  <1>8. left \in SUBSET Nodes
    BY <1>1 DEF HostCommands
  <1>9. cmd' = CASE cmd.rest # {} -> turn
                 [] cmd.rest = {} /\ cmd.op = "down" -> compose
                 [] cmd.rest = {} /\ cmd.op # "down" /\ Recorded = {cmd.node} -> wait
                 [] OTHER -> IF cmd.op = "test" THEN check ELSE Idle
    BY DEF Forget
  <1> HIDE DEF turned, left
  <1>10. cmd.rest # {} => turn \in HostCommands /\ turn.at = "unpause" /\ turn.node \in Nodes /\ turn.op = cmd.op
    BY <1>1, <1>7, <1>8 DEF HostCommands, CmdSteps
  <1>11. compose \in HostCommands /\ compose.at = "compose" /\ compose.op = cmd.op
    BY <1>1 DEF HostCommands, CmdSteps
  <1>12. /\ wait \in HostCommands /\ wait.at = "ready" /\ wait.op = cmd.op /\ wait.before = cmd.before /\ wait.after = cmd.after
         /\ wait.rest = cmd.rest /\ wait.failed = cmd.failed
    BY <1>1 DEF HostCommands, CmdSteps
  <1>13. cmd.op = "test" => Recorded = {n} /\ cmd.before = n /\ cmd.rest = {} /\ (~ cmd.failed => AfterServes)
    BY <1>1, <1>2, <1>3 DEF TestKnows, Mending
  <1> HIDE DEF turn, compose, wait, check
  <1>14. \/ cmd.rest # {} /\ cmd' = turn
         \/ cmd.op = "down" /\ cmd' = compose
         \/ Recorded = {n} /\ cmd' = wait
         \/ cmd' = Idle
    BY <1>2, <1>9, <1>13, Zenon
  <1>15. Recorded = {n} => Recorded' = {}
    BY <1>4 DEF Recorded
  <1>16. cmd' \in HostCommands /\ StrikeKnows' /\ MendKnows' /\ TestKnows'
    <2>1. CASE cmd' = Idle
      BY <2>1, IdleKnows
    <2>2. CASE cmd.rest # {} /\ cmd' = turn
      BY <1>10, <1>13, <2>2 DEF StrikeKnows, MendKnows, TestKnows, Actions, Mending
    <2>3. CASE cmd.op = "down" /\ cmd' = compose
      BY <1>11, <2>3 DEF StrikeKnows, MendKnows, TestKnows, Actions, Mending
    <2>4. CASE Recorded = {n} /\ cmd' = wait
      <3>1. cmd' \in HostCommands /\ StrikeKnows' /\ MendKnows'
        BY <1>12, <2>4 DEF StrikeKnows, MendKnows, Actions, Mending
      <3>2. cmd.op = "test" /\ ~ cmd.failed => AfterServes'
        BY <1>3, <1>12, <1>13, <2>4 DEF AfterServes, Reachable
      <3>3. cmd.op = "test" => Recorded' = {} /\ cmd'.before \in Redis /\ cmd'.rest = {}
        BY <1>1, <1>3, <1>12, <1>13, <1>15, <2>4 DEF TestKnows
      <3>4. TestKnows'
        BY <1>12, <2>4, <3>2, <3>3 DEF TestKnows, Mending
      <3> QED BY <3>1, <3>4
    <2> QED BY <1>14, <2>1, <2>2, <2>3, <2>4
  <1>17. HaTypes'
    BY <1>1, <1>3, <1>4, <1>16, HaTyped, HaTypedAgain
  <1> QED BY <1>1, <1>2, <1>3, <1>6, <1>16, <1>17, ClientAlone DEF HaInv
-----------------------------------------------------------------------------
(* Life cycle. *)

LEMMA DownKeeps ==
    ASSUME HaInv, Down
    PROVE  HaInv'
  <1>1. HaTypes /\ ClientKnows /\ DamageIsRecorded
    BY DEF HaInv
  <1>2. UNCHANGED <<node, of, data, inbox, master, faults, report, req, row>>
    BY DEF Down, servers, client
  <1>3. cmd' \in HostCommands /\ cmd'.op = "down" /\ (cmd'.at = "compose" \/ (cmd'.at = "unpause" /\ cmd'.node \in Nodes))
    <2>1. CASE Recorded = {}
      BY <2>1 DEF Down, Command, Idle, HostCommands, CmdSteps
    <2>2. CASE Recorded # {}
      <3> DEFINE n == CHOOSE m \in Recorded : TRUE
                 rest == Recorded \ {n}
      <3>1. n \in Nodes /\ rest \in SUBSET Nodes
        BY <2>2 DEF Recorded
      <3>2. cmd' = [Command("down", n, "unpause") EXCEPT !.rest = rest]
        BY <2>2 DEF Down
      <3> HIDE DEF n, rest
      <3> QED BY <3>1, <3>2 DEF Command, Idle, HostCommands, CmdSteps
    <2> QED BY <2>1, <2>2
  <1>4. HaTypes'
    BY <1>1, <1>2, <1>3, HaTyped, HaTypedAgain
  <1>5. StrikeKnows' /\ MendKnows' /\ TestKnows'
    BY <1>3 DEF StrikeKnows, MendKnows, TestKnows, Actions, Mending
  <1> QED BY <1>1, <1>2, <1>4, <1>5, ClientAlone DEF HaInv, DamageIsRecorded

(* Without its containers the laboratory is whole. *)
LEMMA RemovedIsWhole ==
    ASSUME Removed
    PROVE  /\ node' \in [Nodes -> States] /\ \A n \in Nodes : node'[n].run = "absent" /\ node'[n].net /\ node'[n].auth
           /\ DamageIsRecorded' /\ \A n \in Nodes : ~ Damaged(n)'
  <1>1. node' \in [Nodes -> States] /\ \A n \in Nodes : node'[n].run = "absent" /\ node'[n].net /\ node'[n].auth
    BY FreshIs DEF Removed
  <1> QED BY <1>1 DEF DamageIsRecorded, Damaged

LEMMA ComposeDownKeeps ==
    ASSUME HaInv, ComposeDown
    PROVE  HaInv'
  <1>1. HaTypes /\ ClientKnows /\ cmd \in HostCommands
    BY HaTyped DEF HaInv
  <1>2. UNCHANGED <<of, data, master, faults, report, req, row>> /\ inbox' = [n \in Redis |-> {}] /\ Removed
    BY DEF ComposeDown, Unchanged, client
  <1>3. cmd' \in HostCommands /\ cmd'.op = "down" /\ cmd'.at = "clear"
    BY <1>1 DEF ComposeDown, Step, HostCommands, CmdSteps
  <1>4. inbox' \in [Redis -> SUBSET Keys] /\ \A n \in Redis : inbox'[n] \subseteq inbox[n]
    BY <1>2
  <1>5. HaTypes'
    BY <1>1, <1>2, <1>3, <1>4, HaTyped, HaTypedAgain, RemovedIsWhole
  <1>6. StrikeKnows' /\ MendKnows' /\ TestKnows'
    <2>1. \A n \in Nodes : ~ Damaged(n)'
      BY <1>2, RemovedIsWhole
    <2> QED BY <1>3, <2>1 DEF StrikeKnows, MendKnows, TestKnows, Actions, Mending
  <1> QED BY <1>1, <1>2, <1>4, <1>5, <1>6, ClientAlone, RemovedIsWhole DEF HaInv

LEMMA ComposeResetKeeps ==
    ASSUME HaInv, ComposeReset
    PROVE  HaInv'
  <1>1. HaTypes
    BY DEF HaInv
  <1>2. /\ UNCHANGED <<faults, report>> /\ Removed /\ req' = NoRequest /\ row' = [k \in Keys |-> None]
        /\ data' = [n \in Redis |-> {}] /\ inbox' = [n \in Redis |-> {}]
    BY DEF ComposeReset
  <1>3. master' \in Redis /\ of' \in [Redis -> Redis]
    BY DEF ComposeReset
  <1>4. cmd' \in HostCommands /\ cmd'.op = "reset" /\ cmd'.at = "clear"
    BY DEF ComposeReset, Command, Idle, HostCommands, CmdSteps
  <1>5. /\ data' \in [Redis -> SUBSET Written] /\ inbox' \in [Redis -> SUBSET Keys] /\ row' \in [Keys -> Outcomes \cup {None}]
        /\ NoRequest \in Requests
    BY <1>2 DEF NoRequest, Requests
  <1>6. HaTypes'
    BY <1>1, <1>2, <1>3, <1>4, <1>5, HaTyped, HaTypedAgain, RemovedIsWhole
  <1>7. ClientKnows'
    BY <1>2 DEF ClientKnows, Nowhere
  <1>8. StrikeKnows' /\ MendKnows' /\ TestKnows'
    <2>1. \A n \in Nodes : ~ Damaged(n)'
      BY <1>2, RemovedIsWhole
    <2> QED BY <1>4, <2>1 DEF StrikeKnows, MendKnows, TestKnows, Actions, Mending
  <1> QED BY <1>2, <1>6, <1>7, <1>8, RemovedIsWhole DEF HaInv

LEMMA ClearRecordsKeeps ==
    ASSUME HaInv, ClearRecords
    PROVE  HaInv'
  <1>1. HaTypes /\ ClientKnows /\ \A n \in Nodes : ~ Damaged(n)
    BY DEF HaInv, ClearRecords, StrikeKnows
  <1>2. UNCHANGED <<node, of, data, inbox, master, report, req, row>> /\ faults' = [n \in Nodes |-> None] /\ cmd' = Idle
    BY DEF ClearRecords, Unchanged, client, Ends
  <1>3. cmd' \in HostCommands /\ StrikeKnows' /\ MendKnows' /\ TestKnows'
    BY <1>2, IdleKnows
  <1>4. faults' \in [Nodes -> Actions \cup {None}]
    BY <1>2
  <1>5. HaTypes'
    BY <1>1, <1>2, <1>3, <1>4, HaTyped, HaTypedAgain
  <1>6. DamageIsRecorded'
    BY <1>1, <1>2 DEF DamageIsRecorded, Damaged
  <1> QED BY <1>1, <1>2, <1>3, <1>5, <1>6, ClientAlone DEF HaInv

LEMMA UpKeeps ==
    ASSUME HaInv, Up
    PROVE  HaInv'
  <1>1. HaTypes /\ ClientKnows
    BY DEF HaInv
  <1>2. UNCHANGED <<of, data, inbox, master, faults, report, req, row, cmd>> /\ node' = [n \in Nodes |-> Fresh] /\ cmd' = Idle
    BY DEF Up, servers, client
  <1>3. cmd' \in HostCommands /\ StrikeKnows' /\ MendKnows' /\ TestKnows'
    BY <1>2, IdleKnows
  <1>4. node' \in [Nodes -> States] /\ \A n \in Nodes : node'[n].run = "running" /\ node'[n].net /\ node'[n].auth
    BY <1>2, FreshIs
  <1>5. HaTypes'
    BY <1>1, <1>2, <1>3, <1>4, HaTyped, HaTypedAgain
  <1>6. DamageIsRecorded'
    BY <1>4 DEF DamageIsRecorded
  <1> QED BY <1>1, <1>2, <1>3, <1>5, <1>6, ClientAlone DEF HaInv

(* A command that is interrupted leaves everything where it is. *)
LEMMA StopsKeeps ==
    ASSUME HaInv, cmd' = Idle, UNCHANGED <<node, of, data, inbox, master, faults, req, row>>,
           report' \in {None, "RUNNING", "PASS", "FAIL"}
    PROVE  HaInv'
  <1>1. HaTypes /\ ClientKnows
    BY DEF HaInv
  <1>2. cmd' \in HostCommands /\ StrikeKnows' /\ MendKnows' /\ TestKnows'
    BY IdleKnows
  <1>3. HaTypes'
    BY <1>1, <1>2, HaTyped, HaTypedAgain
  <1>4. DamageIsRecorded'
    BY DEF HaInv, DamageIsRecorded
  <1> QED BY <1>1, <1>2, <1>3, <1>4, ClientAlone DEF HaInv

LEMMA InterruptKeeps ==
    ASSUME HaInv, Interrupt
    PROVE  HaInv'
  <1>1. report \in {None, "RUNNING", "PASS", "FAIL"}
    BY HaTyped DEF HaInv
  <1> QED BY <1>1, StopsKeeps DEF Interrupt, Ends, servers, client

-----------------------------------------------------------------------------
(* The failover test. *)

(* The command goes on and everything else stays. *)
LEMMA OnlyCommand ==
    ASSUME HaInv, UNCHANGED <<node, of, data, inbox, master, faults, req, row>>, report' \in {None, "RUNNING", "PASS", "FAIL"},
           cmd' \in HostCommands, cmd'.at \notin Actions \cup {"clear", "connect", "start", "auth", "forget"},
           cmd'.at = "unpause" => cmd'.node \in Nodes, TestKnows'
    PROVE  HaInv'
  <1>1. HaTypes /\ ClientKnows
    BY DEF HaInv
  <1>2. HaTypes'
    BY <1>1, HaTyped, HaTypedAgain
  <1>3. DamageIsRecorded'
    BY DEF HaInv, DamageIsRecorded
  <1>4. StrikeKnows' /\ MendKnows'
    BY DEF StrikeKnows, MendKnows, Mending
  <1> QED BY <1>1, <1>2, <1>3, <1>4, ClientAlone DEF HaInv

LEMMA AwaitReadyKeeps ==
    ASSUME HaInv, AwaitReady
    PROVE  HaInv'
  <1>1. HaTypes /\ TestKnows /\ cmd \in HostCommands /\ report \in {None, "RUNNING", "PASS", "FAIL"} /\ master \in Redis
    BY HaTyped DEF HaInv
  <1>2. UNCHANGED <<node, of, data, inbox, master, faults, report, req, row>> /\ cmd.at = "ready"
    BY DEF AwaitReady, servers, client
  <1>3. CASE cmd' = Idle
    BY <1>1, <1>2, <1>3, StopsKeeps
  <1>4. CASE cmd' # Idle
    <2>1. /\ cmd.op = "test"
          /\ \/ Ready /\ cmd' = [cmd EXCEPT !.at = "check"]
             \/ cmd' = [cmd EXCEPT !.at = "check", !.failed = TRUE]
      BY <1>4 DEF AwaitReady, Next1, Ends
    <2>2. /\ cmd' \in HostCommands /\ cmd'.at = "check" /\ cmd'.op = "test" /\ cmd'.before = cmd.before /\ cmd'.after = cmd.after
          /\ cmd'.rest = cmd.rest
          /\ ~ cmd'.failed => Ready /\ ~ cmd.failed
      BY <1>1, <2>1 DEF HostCommands, CmdSteps
    <2>3. Recorded' = {} /\ cmd'.before \in Redis /\ cmd'.rest = {}
      BY <1>1, <1>2, <2>1, <2>2 DEF TestKnows, Recorded
    <2>4. ~ cmd'.failed => AfterServes /\ AfterServes'
      BY <1>1, <1>2, <2>1, <2>2 DEF TestKnows, AfterServes, Reachable
    <2>5. ~ cmd'.failed => TopologyOk' /\ \A n \in Redis : TestKey \in data'[n]
      BY <1>1, <1>2, <2>2, <2>4 DEF Ready, TopologyOk, Reachable, AfterServes
    <2>6. TestKnows'
      BY <2>2, <2>3, <2>4, <2>5 DEF TestKnows, Mending
    <2> QED BY <1>1, <1>2, <2>2, <2>6, OnlyCommand DEF Actions
  <1> QED BY <1>3, <1>4

LEMMA TestStartKeeps ==
    ASSUME HaInv, TestStart
    PROVE  HaInv'
  <1>1. HaTypes /\ ClientKnows /\ TestKnows
    BY DEF HaInv
  <1>2. UNCHANGED <<node, of, data, inbox, master, faults, req, row>> /\ report' \in {None, "RUNNING", "PASS", "FAIL"}
    BY DEF TestStart, servers, client
  <1>3. CASE cmd' = Idle
    BY <1>2, <1>3, StopsKeeps
  <1>4. CASE cmd' # Idle
    <2>1. Recorded = {} /\ cmd' = Command("test", None, "first")
      BY <1>4 DEF TestStart, TestRefuses
    <2>2. cmd' \in HostCommands /\ cmd'.op = "test" /\ cmd'.at = "first" /\ cmd'.rest = {}
      BY <2>1 DEF Command, Idle, HostCommands, CmdSteps
    <2>3. Recorded' = {}
      BY <1>2, <2>1 DEF Recorded
    <2>4. TestKnows'
      BY <2>2, <2>3 DEF TestKnows, Mending
    <2> QED BY <1>2, <2>2, <2>4, OnlyCommand DEF Actions
  <1> QED BY <1>3, <1>4

LEMMA TestBaselineKeeps ==
    ASSUME HaInv, TestBaseline
    PROVE  HaInv'
  <1>1. HaTypes /\ ClientKnows /\ TestKnows /\ cmd \in HostCommands /\ master \in Redis /\ data \in [Redis -> SUBSET Written]
    BY HaTyped DEF HaInv
  <1>2. UNCHANGED <<node, of, inbox, master, faults, report, req, row>> /\ data' = [data EXCEPT ![master] = @ \cup {TestKey}]
    BY DEF TestBaseline, client
  <1>3. /\ cmd' \in HostCommands /\ cmd'.op = cmd.op /\ cmd'.at = "confirm" /\ cmd'.before \in Redis /\ cmd.at = "first"
        /\ cmd'.rest = cmd.rest
    BY <1>1 DEF TestBaseline, HostCommands, CmdSteps
  <1>4. data' \in [Redis -> SUBSET Written] /\ \A n \in Redis : data'[n] \subseteq data[n] \cup {TestKey}
    BY <1>1, <1>2 DEF Written
  <1>5. HaTypes'
    BY <1>1, <1>2, <1>3, <1>4, HaTyped, HaTypedAgain
  <1>6. \A k \in Keys : Nowhere(k) => Nowhere(k)'
    BY <1>2, <1>4, HaAssumption DEF Nowhere, TestKey
  <1>7. ClientKnows'
    BY <1>1, <1>2, <1>6 DEF ClientKnows
  <1>8. Recorded' = {} /\ cmd.op = "test" /\ cmd.rest = {}
    BY <1>1, <1>2, <1>3 DEF TestKnows, Recorded
  <1>9. TestKnows'
    BY <1>3, <1>8 DEF TestKnows, Mending
  <1>10. DamageIsRecorded' /\ StrikeKnows' /\ MendKnows'
    BY <1>2, <1>3 DEF HaInv, DamageIsRecorded, StrikeKnows, MendKnows, Mending, Actions
  <1> QED BY <1>5, <1>7, <1>9, <1>10 DEF HaInv

LEMMA TestKillKeeps ==
    ASSUME HaInv, TestKill
    PROVE  HaInv'
  <1>1. HaTypes /\ ClientKnows /\ TestKnows /\ cmd \in HostCommands
    BY HaTyped DEF HaInv
  <1>2. cmd.at = "confirm" /\ UNCHANGED <<node, of, data, inbox, master, report, req, row>>
    BY DEF TestKill, servers, client
  <1>3. PICK n \in Redis : cmd.before = n
    BY <1>1, <1>2 DEF TestKnows
  <1>4. n \in Nodes /\ faults[n] = None /\ node[n].run = "running" /\ faults' = [faults EXCEPT ![n] = "kill"]
    BY <1>3 DEF TestKill, MayFault, RecordFault, Nodes
  <1>5. cmd' \in HostCommands /\ cmd'.op = cmd.op /\ cmd'.at = "kill" /\ cmd'.node = n /\ cmd'.before = n /\ cmd'.rest = cmd.rest
    BY <1>1, <1>3, <1>4 DEF TestKill, RecordFault, HostCommands, CmdSteps, Actions
  <1>6. "kill" \in Actions
    BY DEF Actions
  <1>7. faults' \in [Nodes -> Actions \cup {None}] /\ DamageIsRecorded' /\ StrikeKnows' /\ MendKnows'
    BY <1>2, <1>4, <1>5, <1>6, RecordKeeps
  <1>8. HaTypes'
    BY <1>1, <1>2, <1>5, <1>7, HaTyped, HaTypedAgain
  <1>9. ClientKnows'
    BY <1>1, <1>2, ClientAlone
  <1>10. cmd.op = "test" /\ Recorded = {} /\ faults \in [Nodes -> Actions \cup {None}]
    BY <1>1, <1>2, HaTyped DEF TestKnows
  <1>11. Recorded' = {n}
    BY <1>4, <1>6, <1>10, HaAssumption DEF Recorded, Actions, None
  <1>12. cmd.rest = {}
    BY <1>1, <1>10 DEF TestKnows
  <1>13. TestKnows'
    BY <1>5, <1>10, <1>11, <1>12 DEF TestKnows, Mending
  <1> QED BY <1>7, <1>8, <1>9, <1>13 DEF HaInv
LEMMA TestPollKeeps ==
    ASSUME HaInv, TestPoll
    PROVE  HaInv'
  <1>1. TestKnows /\ cmd \in HostCommands /\ master \in Redis /\ report \in {None, "RUNNING", "PASS", "FAIL"}
    BY HaTyped DEF HaInv
  <1>2. /\ cmd.at = "poll" /\ UNCHANGED <<node, of, data, inbox, master, faults, report, req, row>>
        /\ MasterKnown /\ master # cmd.before /\ TestKey \in data[master]
    BY DEF TestPoll, servers, client
  <1>3. /\ cmd' \in HostCommands /\ cmd'.op = cmd.op /\ cmd'.at = "unpause" /\ cmd'.node = cmd.node /\ cmd'.rest = cmd.rest
        /\ cmd'.before = cmd.before /\ cmd'.after = master
    BY <1>1 DEF TestPoll, HostCommands, CmdSteps
  <1>4. cmd.op = "test" /\ Recorded' = Recorded
    BY <1>1, <1>2 DEF TestKnows, Recorded
  <1>5. cmd'.node \in Nodes
    BY <1>1, <1>2, <1>3, <1>4 DEF TestKnows, Nodes
  <1>6. AfterServes'
    BY <1>1, <1>2, <1>3 DEF AfterServes, MasterKnown, Reachable
  <1>7. TestKnows'
    BY <1>1, <1>2, <1>3, <1>4, <1>6 DEF TestKnows, Mending
  <1> QED BY <1>1, <1>2, <1>3, <1>5, <1>7, OnlyCommand DEF Actions

LEMMA TestPollTimeoutKeeps ==
    ASSUME HaInv, TestPollTimeout
    PROVE  HaInv'
  <1>1. TestKnows /\ cmd \in HostCommands /\ report \in {None, "RUNNING", "PASS", "FAIL"}
    BY HaTyped DEF HaInv
  <1>2. cmd.at = "poll" /\ UNCHANGED <<node, of, data, inbox, master, faults, report, req, row>>
    BY DEF TestPollTimeout, servers, client
  <1>3. /\ cmd' \in HostCommands /\ cmd'.op = cmd.op /\ cmd'.at = "unpause" /\ cmd'.node = cmd.node /\ cmd'.rest = cmd.rest
        /\ cmd'.before = cmd.before /\ cmd'.failed
    BY <1>1 DEF TestPollTimeout, HostCommands, CmdSteps
  <1>4. cmd.op = "test" /\ Recorded' = Recorded
    BY <1>1, <1>2 DEF TestKnows, Recorded
  <1>5. cmd'.node \in Nodes
    BY <1>1, <1>2, <1>3, <1>4 DEF TestKnows, Nodes
  <1>6. TestKnows'
    BY <1>1, <1>2, <1>3, <1>4 DEF TestKnows, Mending
  <1> QED BY <1>1, <1>2, <1>3, <1>5, <1>6, OnlyCommand DEF Actions

LEMMA TestFinishKeeps ==
    ASSUME HaInv, TestFinish
    PROVE  HaInv'
  BY StopsKeeps DEF TestFinish, Ends, servers, client

-----------------------------------------------------------------------------
LEMMA HaInitHolds ==
    ASSUME Init
    PROVE  HaInv
  <1>1. /\ node = [n \in Nodes |-> Fresh] /\ master \in Redis /\ of = [n \in Redis |-> master]
        /\ data = [n \in Redis |-> {}] /\ inbox = [n \in Redis |-> {}] /\ faults = [n \in Nodes |-> None]
        /\ cmd = Idle /\ report = None /\ req = NoRequest /\ row = [k \in Keys |-> None]
    BY DEF Init
  <1>2. cmd \in HostCommands /\ cmd.op = None /\ cmd.at = None
    BY <1>1, IdleIs
  <1>3. node \in [Nodes -> States] /\ \A n \in Nodes : node[n].run = "running" /\ node[n].net /\ node[n].auth
    BY <1>1, FreshIs
  <1>4. req \in Requests
    BY <1>1 DEF NoRequest, Requests
  <1>5. HaTypes
    BY <1>1, <1>2, <1>3, <1>4 DEF HaTypes, TypeOK, States
  <1>6. ClientKnows
    BY <1>1 DEF ClientKnows, Nowhere
  <1>7. DamageIsRecorded
    BY <1>3 DEF DamageIsRecorded
  <1>8. StrikeKnows /\ MendKnows /\ TestKnows
    BY <1>2 DEF StrikeKnows, MendKnows, TestKnows, Actions, Mending, None
  <1> QED BY <1>5, <1>6, <1>7, <1>8 DEF HaInv

LEMMA HaStep ==
    ASSUME HaInv, [Next]_vars
    PROVE  HaInv'
  <1>1. CASE Servers \/ Client
    BY <1>1, ReplicateKeeps, DrainKeeps, ElectKeeps, ConnectKeeps, WriteKeeps DEF Servers, Client
  <1>2. CASE Faulting
    BY <1>2, FaultKeeps, InjectKeeps DEF Faulting
  <1>3. CASE Recovering
    <2>1. CASE \E selected \in {Nodes} \cup {{n} : n \in Nodes} : Recover(selected)
      <3>1. PICK selected \in {Nodes} \cup {{n} : n \in Nodes} : Recover(selected)
        BY <2>1
      <3>2. selected \in SUBSET Nodes
        OBVIOUS
      <3> QED BY <3>1, <3>2, RecoverKeeps
    <2> QED BY <1>3, <2>1, NodeGoneKeeps, UnpauseKeeps, ConnectNetworkKeeps, StartNodeKeeps, ResetAuthKeeps, ForgetKeeps,
               AwaitReadyKeeps DEF Recovering
  <1>4. CASE Lifecycle \/ Interrupt
    BY <1>4, DownKeeps, ComposeDownKeeps, ComposeResetKeeps, ClearRecordsKeeps, UpKeeps, InterruptKeeps DEF Lifecycle
  <1>5. CASE Testing
    BY <1>5, TestStartKeeps, TestBaselineKeeps, TestKillKeeps, TestPollKeeps, TestPollTimeoutKeeps, TestFinishKeeps DEF Testing
  <1>6. CASE UNCHANGED vars
    <2>1. HaTypes /\ ClientKnows /\ TestKnows
      BY DEF HaInv
    <2>2. HaTypes' /\ ClientKnows' /\ TestKnows'
      BY <1>6, <2>1, ClientAlone, TestAlone, HaTyped, HaTypedAgain DEF vars
    <2> QED BY <1>6, <2>2, CommandAlone DEF vars, HaInv
  <1> QED BY <1>1, <1>2, <1>3, <1>4, <1>5, <1>6 DEF Next

THEOREM HaInvariant == Spec => []HaInv
  BY HaInitHolds, HaStep, PTL DEF Spec

(* A bucket follows from the outcome, for a key that is not where it cannot be. *)
LEMMA OutcomesOfInv ==
    ASSUME HaInv
    PROVE  OutcomesAreTruthful
  <1>1. HaTypes /\ ClientKnows /\ row \in [Keys -> Outcomes \cup {None}]
    BY HaTyped DEF HaInv
  <1>2. SUFFICES ASSUME NEW n \in Redis
                 PROVE  /\ \A k \in Keys : row[k] \in {"rejected", "not-sent"} => k \notin data[n] \cup inbox[n]
                        /\ Passed(n) <=> LET acknowledged == {k \in Keys : row[k] = "acknowledged"}
                                         IN  acknowledged # {} /\ acknowledged \subseteq data[n]
    BY DEF OutcomesAreTruthful
  <1>3. \A k \in Keys : row[k] \in {"rejected", "not-sent"} => k \notin data[n] \cup inbox[n]
    BY <1>1 DEF ClientKnows, Nowhere
  <1> DEFINE bucket(k) == Bucket(k, k \in data[n])
  <1>4. \A k \in Keys :
           /\ row[k] = "acknowledged" => bucket(k) = IF k \in data[n] THEN "acknowledged_present" ELSE "acknowledged_missing"
           /\ row[k] = "not-sent" => bucket(k) = "not_sent_absent"
           /\ row[k] = "rejected" => bucket(k) = "rejected_absent"
           /\ row[k] = "uncertain" => bucket(k) = "uncertain"
    BY <1>3 DEF Bucket
  <1>5. \A k \in Keys : row[k] \in {"acknowledged", "not-sent", "rejected", "uncertain", None}
    BY <1>1 DEF Outcomes
  <1>6. Counted({"acknowledged_present", "acknowledged_missing"}, n) = {k \in Keys : row[k] = "acknowledged"}
    BY <1>4, <1>5 DEF Counted, None
  <1>7. Counted({"acknowledged_missing", "rejected_but_present", "not_sent_but_present"}, n)
           = {k \in Keys : row[k] = "acknowledged" /\ k \notin data[n]}
    BY <1>4, <1>5 DEF Counted, None
  <1> QED BY <1>3, <1>6, <1>7 DEF Passed

(* The journal of the client tells the truth about every request: client.py and core.py, however *)
(* nodes pause, stop, fail over and come back.                                                   *)
THEOREM OutcomesStayTruthful == Spec => []OutcomesAreTruthful
  BY HaInvariant, OutcomesOfInv, PTL

LEMMA TestStepIsHonest ==
    ASSUME HaInv, [Next]_vars
    PROVE  report # "PASS" /\ report' = "PASS" =>
             /\ master = cmd.after /\ cmd.after # cmd.before /\ of[cmd.before] = master
             /\ \A n \in Redis : TestKey \in data[n]
             /\ Recorded = {} /\ TopologyOk
  <1> SUFFICES ASSUME report # "PASS", report' = "PASS"
               PROVE  /\ master = cmd.after /\ cmd.after # cmd.before /\ of[cmd.before] = master
                      /\ \A n \in Redis : TestKey \in data[n]
                      /\ Recorded = {} /\ TopologyOk
    OBVIOUS
  <1>1. TestFinish
    BY DEF Next, vars, Servers, Client, Faulting, Recovering, Lifecycle, Testing, Replicate, Drain, Promote, Reconfigure, Connect,
           Write, Fault, InjectFault, Recover, NodeGone, Unpause, ConnectNetwork, StartNode, ResetAuth, Forget, AwaitReady,
           Down, ComposeDown, ComposeReset, ClearRecords, Up, TestStart, TestBaseline, TestKill, TestPoll, TestPollTimeout,
           Interrupt, Unchanged
  <1>2. cmd.at = "check" /\ ~ cmd.failed /\ master = cmd.after
    BY <1>1 DEF TestFinish, TestPasses
  <1>3. TestKnows
    BY DEF HaInv
  <1>4. AfterServes /\ cmd.before \in Redis /\ Recorded = {} /\ TopologyOk /\ \A n \in Redis : TestKey \in data[n]
    BY <1>2, <1>3 DEF TestKnows
  <1> QED BY <1>2, <1>4 DEF AfterServes, TopologyOk

(* A failover test that reports PASS has seen the failover and its end: test_failover. *)
THEOREM FailoverTestStaysHonest == Spec => TestIsHonest
  BY HaInvariant, TestStepIsHonest, PTL DEF Spec, TestIsHonest
(* A record comes while its node is whole. *)
LEMMA RecordsComeFirst ==
    ASSUME HaInv, [Next]_vars, NEW n \in Nodes, faults[n] = None, faults'[n] # None
    PROVE  ~ Damaged(n)'
  <1>1. faults \in [Nodes -> Actions \cup {None}]
    BY HaTyped DEF HaInv
  <1>2. HaInv'
    BY HaStep
  <1>3. \/ \E a \in Actions, m \in Nodes : Fault(a, m)
        \/ TestKill
    BY <1>1 DEF Next, vars, Servers, Client, Faulting, Recovering, Lifecycle, Testing, Replicate, Drain, Promote, Reconfigure, Connect,
           Write, InjectFault, Recover, NodeGone, Unpause, ConnectNetwork, StartNode, ResetAuth, Forget, AwaitReady,
           Down, ComposeDown, ComposeReset, ClearRecords, Up, TestStart, TestBaseline, TestPoll, TestPollTimeout, TestFinish,
           Interrupt, Unchanged
  <1>4. UNCHANGED node
    BY <1>3 DEF Fault, TestKill
  <1> QED BY <1>4, UnrecordedIsWhole DEF Damaged

LEMMA JournalsStep ==
    ASSUME HaInv, HaInv', [Next]_vars, NEW n \in Nodes
    PROVE  Journal(n)!Next \/ UNCHANGED <<faults[n] # None, Damaged(n)>>
  <1>1. faults[n] = None => ~ Damaged(n)
    BY DEF HaInv, DamageIsRecorded, Damaged, None
  <1>2. faults'[n] = None => ~ Damaged(n)'
    BY DEF HaInv, DamageIsRecorded, Damaged, None
  <1>3. faults[n] = None /\ faults'[n] # None => ~ Damaged(n)'
    BY RecordsComeFirst
  <1> QED BY <1>1, <1>2, <1>3 DEF Journal!Next, Journal!Open, Journal!Change, Journal!Settle, Journal!Close

LEMMA AllJournalsStep ==
    ASSUME HaInv, HaInv', [Next]_vars
    PROVE  \A n \in Nodes : Journal(n)!Next \/ UNCHANGED <<faults[n] # None, Damaged(n)>>
  BY JournalsStep

(* faults.json implements FaultJournal for every node: manage.py fault, recover, down, reset.    *)
THEOREM FaultsKeepTheirJournals == Spec => JournalSpec
  <1>1. HaInv /\ HaInv' /\ [Next]_vars
          => \A n \in Nodes : Journal(n)!Next \/ UNCHANGED <<faults[n] # None, Damaged(n)>>
    BY AllJournalsStep
  <1> QED BY <1>1, HaInvariant, PTL DEF Spec, JournalSpec

-----------------------------------------------------------------------------
(* The root controller: all.sh, its lock and its receipt, and the Ansible adapter. *)

RootActions == {"up", "restart", "down"}
Prepared == {"initialize", "doctor"}
Performing == {"perform", "start", "health"}
RootStates == Working \cup {"none", "exit", "finish", "over", "killed"}
Results == Labs \X (Prepared \cup {"start", "health", "command"}) \X {-1, 0, 1, 130}
RootProcesses ==
    [at : RootStates, action : RootActions \cup {"none"}, sel : Seq(Labs), left : Seq(Labs), fast : BOOLEAN,
     failed : {0, 1}, stopped : BOOLEAN, term : BOOLEAN, code : Int]
Slips == [status : {"none", "running", "completed", "failed"}, results : SUBSET Results, verified : BOOLEAN]
Plans ==
    [at : {"idle", "run", "next", "done"}, i : Nat, timed : BOOLEAN, rc : Int, changed : BOOLEAN, codes : Seq(Int \X BOOLEAN)]

CtlTypes ==
    /\ lab \in [Labs -> {"down", "up", "sick"}]
    /\ byOp \in [Labs -> Roots \cup {"none"}]
    /\ root \in [Roots -> RootProcesses]
    /\ holder \in Roots \cup {"none"}
    /\ slip \in [Roots -> Slips]
    /\ ctl \in Plans

(* A process that works, and that nobody timed out, holds the lock. *)
WorkersHoldTheLock == \A o \in Roots : root[o].at \in Working /\ ~ root[o].term => holder = o

(* Where a process is in its batch. *)
InBatch(o) ==
    /\ root[o].at \in Prepared =>
          root[o].left # <<>> /\ root[o].sel # <<>> /\ root[o].failed = 0 /\ ~ root[o].stopped /\ root[o].action # "down"
    /\ root[o].at \in {"start", "health"} => root[o].left # <<>> /\ root[o].action # "down"
    /\ root[o].stopped => root[o].failed = 1

(* A batch that failed to initialize or diagnose has done nothing else; a shutdown records only commands. *)
Orderly(o) ==
    /\ root[o].action = "down" => \A x \in slip[o].results : x[2] = "command"
    /\ (\E x \in slip[o].results : x[2] \in Prepared /\ x[3] # 0) => \A x \in slip[o].results : x[2] \in Prepared

(* What the receipt says when the process is there. *)
Noted(o) ==
    /\ root[o].at = "none" => slip[o] = NoSlip
    /\ slip[o].verified => root[o].at = "over"
    /\ root[o].at \in Prepared => \A x \in slip[o].results : x[2] \in Prepared /\ x[3] = 0
    /\ root[o].at \in Performing => \A x \in slip[o].results : x[2] \in Prepared => x[3] = 0
    /\ root[o].at = "health" => <<Head(root[o].left), "start", 0>> \in slip[o].results

(* The batch has not failed so far, or has ended without a failure. *)
Unfailed(o) ==
    \/ root[o].at \in Performing /\ root[o].failed = 0
    \/ root[o].at \in {"exit", "finish"} /\ root[o].code = 0
    \/ root[o].at = "over" /\ slip[o].verified

(* The lab was started and found healthy, and is still up unless another operation touched it. *)
Proven(o, p) ==
    /\ {<<p, "start", 0>>, <<p, "health", 0>>} \subseteq slip[o].results
    /\ byOp[p] = o => lab[p] = "up"

(* Such a batch has proved every lab it is through with. *)
Through(o) == Unfailed(o) =>
    /\ root[o].at \notin Performing => root[o].left = <<>>
    /\ slip[o].verified => root[o].action # "down"
    /\ root[o].action # "down" => \A p \in ToSet(root[o].sel) \ ToSet(root[o].left) : Proven(o, p)

Honest(o) == InBatch(o) /\ Orderly(o) /\ Noted(o) /\ Through(o)

(* The adapter goes on only while every command so far succeeded in time. *)
PlanKnows ==
    /\ ctl.at \in {"run", "next"} => ctl.i \in 1..Len(Plan)
    /\ ctl.at = "idle" => ctl.i = 1
    /\ ctl.at # "done" => ctl.codes = [i \in 1..(ctl.i - 1) |-> <<0, FALSE>>]
    /\ ResultIsHonest

CtlInv == CtlTypes /\ WorkersHoldTheLock /\ (\A o \in Roots : Honest(o)) /\ PlanKnows

(* What is left of a batch after its first lab. *)
LEMMA FirstAndRest ==
    ASSUME NEW S, NEW s \in Seq(S), s # <<>>
    PROVE  /\ Head(s) \in S /\ Tail(s) \in Seq(S) /\ Head(s) \in ToSet(s)
           /\ Len(s) > 1 => Tail(s) # <<>>
           /\ \A p : p \notin ToSet(Tail(s)) /\ p # Head(s) => p \notin ToSet(s)
  <1>1. Head(s) \in S /\ Tail(s) \in Seq(S)
    OBVIOUS
  <1>3. Len(Tail(s)) = Len(s) - 1 /\ DOMAIN Tail(s) = 1..Len(Tail(s))
    OBVIOUS
  <1>2. ASSUME NEW p, p \in ToSet(s), p # Head(s) PROVE p \in ToSet(Tail(s))
    <2>1. PICK i \in 1..Len(s) : s[i] = p
      BY <1>2 DEF ToSet
    <2>2. i - 1 \in 1..Len(Tail(s)) /\ Tail(s)[i - 1] = p
      BY <1>2, <2>1
    <2> QED BY <2>2, <1>3 DEF ToSet
  <1>4. Len(s) > 1 => Tail(s) # <<>>
    <2> SUFFICES ASSUME Len(s) > 1, Tail(s) = <<>> PROVE FALSE
      OBVIOUS
    <2>1. Len(Tail(s)) = 0 /\ Len(s) \in Nat
      OBVIOUS
    <2> QED BY <2>1, <1>3
  <1>5. Head(s) \in ToSet(s)
    <2>1. 1 \in DOMAIN s /\ s[1] = Head(s)
      OBVIOUS
    <2> QED BY <2>1 DEF ToSet
  <1> QED BY <1>1, <1>2, <1>4, <1>5

(* What is in a selection is a lab; a reversed selection is one. *)
LEMMA SelectionsAreOfLabs ==
    ASSUME NEW s \in Seq(Labs)
    PROVE  ToSet(s) \subseteq Labs /\ Reverse(s) \in Seq(Labs)
  <1>1. \A i \in 1..Len(s) : s[(Len(s) - i) + 1] \in Labs
    OBVIOUS
  <1> QED BY <1>1 DEF ToSet, Reverse

(* The controller starts with its invariant. *)
LEMMA CtlInitHolds == CtlInit => CtlInv
  <1> SUFFICES ASSUME CtlInit PROVE CtlInv
    OBVIOUS
  <1> USE DEF CtlInit, NoRoot, NoSlip, NoPlan, Working
  <1>1. CtlTypes
    BY DEF CtlTypes, RootProcesses, RootStates, Slips, Plans, RootActions, Results
  <1>2. WorkersHoldTheLock
    BY DEF WorkersHoldTheLock
  <1>3. \A o \in Roots : Honest(o)
    BY DEF Honest, InBatch, Orderly, Noted, Through, Unfailed, Prepared, Performing
  <1>4. PlanKnows
    BY DEF PlanKnows, ResultIsHonest
  <1> QED BY <1>1, <1>2, <1>3, <1>4 DEF CtlInv

(* An operation that does nothing keeps its word while the others touch other labs or mark those they touch. *)
LEMMA OthersKeepTheirWord ==
    ASSUME CtlInv, NEW q \in Roots, root'[q] = root[q], slip'[q] = slip[q],
           \A p \in Labs : byOp'[p] = q => byOp[p] = q /\ lab'[p] = lab[p]
    PROVE  Honest(q)'
  <1>1. Honest(q) /\ ToSet(root[q].sel) \subseteq Labs
    BY SelectionsAreOfLabs DEF CtlInv, CtlTypes, RootProcesses
  <1>2. InBatch(q)' /\ Orderly(q)' /\ Noted(q)'
    BY <1>1 DEF Honest, InBatch, Orderly, Noted
  <1>3. Through(q)'
    BY <1>1 DEF Honest, Through, Unfailed, Proven
  <1> QED BY <1>2, <1>3 DEF Honest

(* A process that ends with a failure, or is killed, owes nothing more than an orderly receipt. *)
LEMMA FailuresAreHonest ==
    ASSUME CtlInv, NEW o \in Roots, root'[o].at \in {"exit", "killed"}, root'[o].code # 0,
           root'[o].failed = root[o].failed, root'[o].stopped = root[o].stopped, Orderly(o)', ~ slip'[o].verified
    PROVE  Honest(o)'
  <1>1. Honest(o)
    BY DEF CtlInv
  <1>2. InBatch(o)'
    BY <1>1 DEF Honest, InBatch, Prepared
  <1>3. Noted(o)'
    BY DEF Noted, Prepared, Performing
  <1>4. Through(o)'
    BY DEF Through, Unfailed, Performing
  <1> QED BY <1>2, <1>3, <1>4 DEF Honest

(* A process goes to another state with an exit code. *)
LEMMA EndsAreTyped ==
    ASSUME NEW r \in RootProcesses, NEW at \in RootStates, NEW code \in Int
    PROVE  [r EXCEPT !.at = at, !.code = code] \in RootProcesses
  BY DEF RootProcesses

(* What RootGoes leaves of the processes: all.sh's TERM trap. *)
LEMMA RootGoesOn ==
    ASSUME CtlInv, NEW o \in Roots, root[o].at \in Working, NEW r \in RootProcesses, r.term = root[o].term,
           RootGoes(o, r), holder' = holder
    PROVE  /\ root' \in [Roots -> RootProcesses] /\ WorkersHoldTheLock'
           /\ \A q \in Roots \ {o} : root'[q] = root[q]
           /\ ~ root[o].term => root'[o] = r
           /\ root[o].term => /\ root'[o].at = "exit" /\ root'[o].code = 143 /\ root'[o].failed = root[o].failed
                              /\ root'[o].stopped = root[o].stopped /\ root'[o].action = root[o].action
  <1>1. root \in [Roots -> RootProcesses] /\ WorkersHoldTheLock
    BY DEF CtlInv, CtlTypes
  <1>2. [root[o] EXCEPT !.at = "exit", !.code = 143] \in RootProcesses
    <2>1. root[o] \in RootProcesses /\ 143 \in Int /\ "exit" \in RootStates
      BY <1>1 DEF RootStates
    <2> QED BY <2>1, EndsAreTyped, Zenon
  <1>3. root' \in [Roots -> RootProcesses] /\ \A q \in Roots \ {o} : root'[q] = root[q]
    BY <1>1, <1>2 DEF RootGoes
  <1>4. ~ root[o].term => root'[o] = r
    BY <1>1 DEF RootGoes
  <1>5. root[o].term => /\ root'[o].at = "exit" /\ root'[o].code = 143 /\ root'[o].failed = root[o].failed
                        /\ root'[o].stopped = root[o].stopped /\ root'[o].action = root[o].action
    BY <1>1 DEF RootGoes, RootProcesses
  <1>6. WorkersHoldTheLock'
    BY <1>1, <1>3, <1>4, <1>5 DEF WorkersHoldTheLock, Working
  <1> QED BY <1>3, <1>4, <1>5, <1>6

(* What is recorded: append_result. *)
LEMMA NotedIsRecorded ==
    ASSUME CtlInv, NEW o \in Roots, NEW p \in Labs, NEW phase \in Prepared \cup {"start", "health", "command"},
           NEW code \in {-1, 0, 1, 130}, Noting(o, p, phase, code)
    PROVE  /\ slip' \in [Roots -> Slips]
           /\ \A q \in Roots \ {o} : slip'[q] = slip[q]
           /\ slip'[o].results = slip[o].results \cup {<<p, phase, code>>}
           /\ slip'[o].verified = slip[o].verified
  <1>1. slip \in [Roots -> Slips]
    BY DEF CtlInv, CtlTypes
  <1>2. <<p, phase, code>> \in Results
    BY DEF Results
  <1>3. [slip[o] EXCEPT !.results = @ \cup {<<p, phase, code>>}] \in Slips
    BY <1>1, <1>2 DEF Slips
  <1>4. slip'[o] = [slip[o] EXCEPT !.results = @ \cup {<<p, phase, code>>}]
    BY <1>1 DEF Noting
  <1> QED BY <1>1, <1>3, <1>4 DEF Noting, Slips

(* init and doctor of one lab: run_batch. *)
LEMMA PrepareIsHonest ==
    ASSUME CtlInv, NEW o \in Roots, NEW code \in Codes, Prepare(o, code)
    PROVE  CtlInv'
  <1>1. /\ root \in [Roots -> RootProcesses] /\ root[o] \in RootProcesses /\ Honest(o) /\ root[o].at \in Prepared
        /\ InBatch(o) /\ Orderly(o) /\ Noted(o)
    BY DEF Prepare, CtlInv, CtlTypes, Honest, Prepared
  <1>2. /\ root[o].left \in Seq(Labs) /\ root[o].sel \in Seq(Labs) /\ root[o].left # <<>> /\ root[o].sel # <<>>
        /\ root[o].failed = 0 /\ ~ root[o].stopped /\ root[o].action # "down" /\ ~ slip[o].verified
        /\ root[o].at \in Working /\ root[o].term \in BOOLEAN
    BY <1>1 DEF InBatch, Noted, Prepared, RootProcesses, Working
  <1>3. Head(root[o].left) \in Labs /\ Tail(root[o].left) \in Seq(Labs) /\ (Len(root[o].left) > 1 => Tail(root[o].left) # <<>>)
    BY <1>2, FirstAndRest
  <1>4. Noting(o, Head(root[o].left), root[o].at, code) /\ UNCHANGED <<lab, byOp, holder, ctl>>
    BY DEF Prepare
  <1>5. /\ slip' \in [Roots -> Slips] /\ \A q \in Roots \ {o} : slip'[q] = slip[q]
        /\ slip'[o].results = slip[o].results \cup {<<Head(root[o].left), root[o].at, code>>}
        /\ ~ slip'[o].verified
    BY <1>1, <1>2, <1>3, <1>4, NotedIsRecorded DEF Codes
  <1>6. \A x \in slip[o].results : x[2] \in Prepared /\ x[3] = 0
    BY <1>1 DEF Noted
  <1>7. PICK r \in RootProcesses :
          /\ RootGoes(o, r) /\ r.term = root[o].term /\ r.action = root[o].action /\ r.failed = root[o].failed
          /\ r.stopped = root[o].stopped
          /\ \/ code = 0 /\ r.at \in Prepared \cup {"perform"} /\ r.left # <<>> /\ r.sel # <<>>
                /\ (r.at = "perform" => r.left = r.sel)
             \/ code # 0 /\ r.at = "exit" /\ r.code = code
    <2>1. CASE code # 0
      <3>1. code \in Int /\ "exit" \in RootStates
        BY DEF Codes, RootStates
      <3>2. [root[o] EXCEPT !.at = "exit", !.code = code] \in RootProcesses
        BY <1>1, <3>1, EndsAreTyped
      <3>3. RootGoes(o, [root[o] EXCEPT !.at = "exit", !.code = code])
        BY <2>1 DEF Prepare
      <3> QED BY <2>1, <3>2, <3>3, <1>1, <1>2 DEF RootProcesses
    <2>2. CASE code = 0 /\ Len(root[o].left) > 1
      <3>1. [root[o] EXCEPT !.left = Tail(@)] \in RootProcesses
        BY <1>1, <1>3 DEF RootProcesses
      <3>2. RootGoes(o, [root[o] EXCEPT !.left = Tail(@)])
        BY <2>2 DEF Prepare, PhaseAfter
      <3> QED BY <2>2, <3>1, <3>2, <1>1, <1>2, <1>3 DEF RootProcesses, Prepared
    <2>3. CASE code = 0 /\ ~ Len(root[o].left) > 1
      <3> DEFINE next == IF root[o].at = "initialize" THEN "doctor" ELSE "perform"
      <3>1. next \in RootStates /\ next \in Prepared \cup {"perform"}
        BY DEF RootStates, Working, Prepared
      <3>2. RootGoes(o, [root[o] EXCEPT !.left = root[o].sel, !.at = next])
        BY <2>3 DEF Prepare, PhaseAfter
      <3> HIDE DEF next
      <3>3. [root[o] EXCEPT !.left = root[o].sel, !.at = next] \in RootProcesses
        BY <1>1, <1>2, <3>1 DEF RootProcesses
      <3> QED BY <2>3, <3>1, <3>2, <3>3, <1>1, <1>2 DEF RootProcesses
    <2> QED BY <2>1, <2>2, <2>3
  <1>8. /\ root' \in [Roots -> RootProcesses] /\ WorkersHoldTheLock' /\ \A q \in Roots \ {o} : root'[q] = root[q]
        /\ (~ root[o].term => root'[o] = r)
        /\ (root[o].term => /\ root'[o].at = "exit" /\ root'[o].code = 143 /\ root'[o].failed = root[o].failed
                            /\ root'[o].stopped = root[o].stopped /\ root'[o].action = root[o].action)
    BY <1>2, <1>4, <1>7, RootGoesOn
  <1>9. Orderly(o)'
    <2>1. root'[o].action = root[o].action
      BY <1>2, <1>7, <1>8
    <2>2. <<Head(root[o].left), root[o].at, code>>[2] \in Prepared
      BY <1>1
    <2> QED BY <2>1, <2>2, <1>1, <1>2, <1>5, <1>6 DEF Orderly
  <1>10. Honest(o)'
    <2>1. CASE root[o].term
      BY <2>1, <1>5, <1>8, <1>9, FailuresAreHonest
    <2>2. CASE ~ root[o].term /\ code # 0
      <3>1. root'[o].at = "exit" /\ root'[o].code = code /\ root'[o].failed = root[o].failed /\ root'[o].stopped = root[o].stopped
        BY <2>2, <1>2, <1>7, <1>8 DEF RootProcesses
      <3> QED BY <2>2, <3>1, <1>5, <1>9, FailuresAreHonest
    <2>3. CASE ~ root[o].term /\ code = 0
      <3>1. /\ root'[o].at \in Prepared \cup {"perform"} /\ root'[o].left # <<>> /\ root'[o].sel # <<>> /\ root'[o].failed = 0
            /\ ~ root'[o].stopped /\ root'[o].action # "down" /\ (root'[o].at = "perform" => root'[o].left = root'[o].sel)
        BY <2>3, <1>2, <1>7, <1>8
      <3>2. InBatch(o)'
        BY <3>1 DEF InBatch, Prepared
      <3>3. Noted(o)'
        BY <2>3, <3>1, <1>1, <1>5, <1>6 DEF Noted, Prepared
      <3>4. Through(o)'
        BY <3>1, <1>5 DEF Through, Unfailed, Prepared, Performing
      <3> QED BY <3>2, <3>3, <3>4, <1>9 DEF Honest
    <2> QED BY <2>1, <2>2, <2>3, <1>2
  <1>11. \A q \in Roots \ {o} : Honest(q)'
    BY <1>4, <1>5, <1>8, OthersKeepTheirWord
  <1>12. CtlTypes' /\ PlanKnows'
    BY <1>4, <1>5, <1>8 DEF CtlInv, CtlTypes, PlanKnows, ResultIsHonest
  <1> QED BY <1>8, <1>10, <1>11, <1>12 DEF CtlInv

(* A step that RootGoes ends keeps the invariant when it leaves this process honest. *)
LEMMA RootStepIsHonest ==
    ASSUME CtlInv, NEW o \in Roots, root[o].at \in Working, NEW r \in RootProcesses, r.term = root[o].term, r.action = root[o].action,
           RootGoes(o, r), UNCHANGED <<holder, ctl>>,
           lab' \in [Labs -> {"down", "up", "sick"}], byOp' \in [Labs -> Roots \cup {"none"}], slip' \in [Roots -> Slips],
           \A q \in Roots \ {o} : slip'[q] = slip[q] /\ \A p \in Labs : byOp'[p] = q => byOp[p] = q /\ lab'[p] = lab[p],
           ~ slip'[o].verified,
           root'[o].action = root[o].action => Orderly(o)',
           root'[o] = r /\ Orderly(o)' => InBatch(o)' /\ Noted(o)' /\ Through(o)'
    PROVE  CtlInv'
  <1>1. /\ root' \in [Roots -> RootProcesses] /\ WorkersHoldTheLock' /\ \A q \in Roots \ {o} : root'[q] = root[q]
        /\ (~ root[o].term => root'[o] = r)
        /\ (root[o].term => /\ root'[o].at = "exit" /\ root'[o].code = 143 /\ root'[o].failed = root[o].failed
                            /\ root'[o].stopped = root[o].stopped /\ root'[o].action = root[o].action)
    BY RootGoesOn
  <1>2. Orderly(o)'
    BY <1>1
  <1>3. Honest(o)'
    <2>1. CASE root[o].term
      BY <2>1, <1>1, <1>2, FailuresAreHonest
    <2>2. CASE ~ root[o].term
      BY <2>2, <1>1, <1>2 DEF Honest
    <2> QED BY <2>1, <2>2
  <1>4. \A q \in Roots \ {o} : Honest(q)'
    BY <1>1, OthersKeepTheirWord
  <1>5. CtlTypes' /\ PlanKnows'
    BY <1>1 DEF CtlInv, CtlTypes, PlanKnows, ResultIsHonest
  <1> QED BY <1>1, <1>3, <1>4, <1>5 DEF CtlInv

(* Where perform_project stands. *)
LEMMA Performs ==
    ASSUME CtlInv, NEW o \in Roots, root[o].at \in Performing
    PROVE  /\ root[o].at \in Working /\ root[o] \in RootProcesses /\ root[o].left \in Seq(Labs) /\ root[o].sel \in Seq(Labs)
           /\ ~ slip[o].verified /\ InBatch(o) /\ Orderly(o) /\ Noted(o) /\ Through(o)
           /\ \A x \in slip[o].results : x[2] \in Prepared => x[3] = 0
  BY DEF CtlInv, CtlTypes, Honest, Noted, Performing, Working, RootProcesses

(* A command that is recorded while the batch performs keeps the receipt in order. *)
LEMMA RecordedInOrder ==
    ASSUME CtlInv, NEW o \in Roots, root[o].at \in Performing, root[o].left # <<>>,
           NEW phase \in {"start", "health", "command"}, NEW code \in {-1, 0, 1, 130}, root[o].action = "down" => phase = "command",
           Noting(o, Head(root[o].left), phase, code)
    PROVE  /\ slip' \in [Roots -> Slips] /\ \A q \in Roots \ {o} : slip'[q] = slip[q]
           /\ slip'[o].results = slip[o].results \cup {<<Head(root[o].left), phase, code>>}
           /\ ~ slip'[o].verified
           /\ \A x \in slip'[o].results : x[2] \in Prepared => x[3] = 0
           /\ root'[o].action = root[o].action => Orderly(o)'
  <1>1. Head(root[o].left) \in Labs /\ phase \in Prepared \cup {"start", "health", "command"}
    BY Performs, FirstAndRest
  <1>2. /\ slip' \in [Roots -> Slips] /\ \A q \in Roots \ {o} : slip'[q] = slip[q]
        /\ slip'[o].results = slip[o].results \cup {<<Head(root[o].left), phase, code>>} /\ slip'[o].verified = slip[o].verified
    BY <1>1, NotedIsRecorded
  <1>3. \A x \in slip'[o].results : x[2] \in Prepared => x[3] = 0
    BY <1>2, Performs DEF Prepared
  <1>4. root'[o].action = root[o].action => Orderly(o)'
    BY <1>2, <1>3, Performs DEF Orderly
  <1> QED BY <1>2, <1>3, <1>4, Performs

(* The states a lab is touched into. *)
LEMMA TouchedByOne ==
    ASSUME CtlInv, NEW o \in Roots, NEW p \in Labs, NEW states, states \subseteq {"down", "up", "sick"}, Touch(o, p, states)
    PROVE  /\ lab' \in [Labs -> {"down", "up", "sick"}] /\ byOp' \in [Labs -> Roots \cup {"none"}]
           /\ \A q \in Roots \ {o}, x \in Labs : byOp'[x] = q => byOp[x] = q /\ lab'[x] = lab[x]
           /\ \A x \in Labs \ {p} : byOp'[x] = byOp[x] /\ lab'[x] = lab[x]
  <1>1. lab \in [Labs -> {"down", "up", "sick"}] /\ byOp \in [Labs -> Roots \cup {"none"}]
    BY DEF CtlInv, CtlTypes
  <1>2. PICK s \in states : lab' = [lab EXCEPT ![p] = s] /\ byOp' = [byOp EXCEPT ![p] = o]
    BY DEF Touch
  <1> QED BY <1>1, <1>2

(* A command that failed: perform_project, run_batch. *)
LEMMA FailureIsHonest ==
    ASSUME CtlInv, NEW o \in Roots, root[o].at \in Performing, root[o].left # <<>>,
           NEW phase \in {"start", "health", "command"}, NEW code \in Codes, code # 0, root[o].action = "down" => phase = "command",
           Noting(o, Head(root[o].left), phase, code), RootGoes(o, Failed(root[o], code)), UNCHANGED <<holder, ctl>>,
           lab' \in [Labs -> {"down", "up", "sick"}], byOp' \in [Labs -> Roots \cup {"none"}],
           \A q \in Roots \ {o}, p \in Labs : byOp'[p] = q => byOp[p] = q /\ lab'[p] = lab[p]
    PROVE  CtlInv'
  <1>1. /\ slip' \in [Roots -> Slips] /\ \A q \in Roots \ {o} : slip'[q] = slip[q]
        /\ ~ slip'[o].verified
        /\ \A x \in slip'[o].results : x[2] \in Prepared => x[3] = 0
        /\ root'[o].action = root[o].action => Orderly(o)'
    BY RecordedInOrder DEF Codes
  <1>2. PICK r \in RootProcesses :
          /\ RootGoes(o, r) /\ r.term = root[o].term /\ r.action = root[o].action
          /\ \/ r.at = "exit" /\ r.code = 130 /\ r.failed = root[o].failed /\ r.stopped = root[o].stopped
             \/ r.at = "perform" /\ r.failed = 1
    <2>1. CASE code = 130
      <3>1. code \in Int /\ "exit" \in RootStates
        BY <2>1 DEF RootStates
      <3>2. [root[o] EXCEPT !.at = "exit", !.code = code] \in RootProcesses
        BY <3>1, Performs, EndsAreTyped
      <3>3. RootGoes(o, [root[o] EXCEPT !.at = "exit", !.code = code])
        BY <2>1 DEF Failed
      <3> QED BY <2>1, <3>2, <3>3, Performs DEF RootProcesses
    <2>2. CASE code # 130
      <3>1. "perform" \in RootStates /\ root[o].fast \in BOOLEAN
        BY Performs DEF RootStates, Working, RootProcesses
      <3>2. Tail(root[o].left) \in Seq(Labs) /\ root[o] \in RootProcesses
        BY Performs, FirstAndRest
      <3>3. [root[o] EXCEPT !.at = "perform", !.left = Tail(@), !.failed = 1, !.stopped = root[o].fast] \in RootProcesses
        BY <3>1, <3>2 DEF RootProcesses
      <3>4. RootGoes(o, [root[o] EXCEPT !.at = "perform", !.left = Tail(@), !.failed = 1, !.stopped = root[o].fast])
        BY <2>2 DEF Failed
      <3> QED BY <3>2, <3>3, <3>4 DEF RootProcesses
    <2> QED BY <2>1, <2>2
  <1>3. ASSUME root'[o] = r, Orderly(o)' PROVE InBatch(o)' /\ Noted(o)' /\ Through(o)'
    <2>1. InBatch(o)
      BY Performs
    <2>2. InBatch(o)'
      BY <1>2, <1>3, <2>1 DEF InBatch, Prepared
    <2>3. Noted(o)' /\ Through(o)'
      BY <1>1, <1>2, <1>3 DEF Noted, Through, Unfailed, Prepared, Performing
    <2> QED BY <2>2, <2>3
  <1> QED BY <1>1, <1>2, <1>3, Performs, RootStepIsHonest

(* lab.sh down, of down and of restart: perform_project. *)
LEMMA StopLabIsHonest ==
    ASSUME CtlInv, NEW o \in Roots, NEW code \in Codes, StopLab(o, code)
    PROVE  CtlInv'
  <1> DEFINE p == Head(root[o].left)
  <1>1. root[o].at = "perform" /\ root[o].left # <<>> /\ ~ root[o].stopped /\ root[o].action \in {"down", "restart"} /\ UNCHANGED <<holder, ctl>>
    BY DEF StopLab
  <1>2. root[o].at \in Performing /\ root[o].at \in Working
    BY <1>1 DEF Performing, Working
  <1>3. /\ root[o] \in RootProcesses /\ root[o].left \in Seq(Labs) /\ root[o].sel \in Seq(Labs)
        /\ ~ slip[o].verified /\ InBatch(o) /\ Orderly(o) /\ Noted(o) /\ Through(o)
    BY <1>2, Performs
  <1>4. p \in Labs /\ p \in ToSet(root[o].left) /\ Tail(root[o].left) \in Seq(Labs)
    BY <1>1, <1>3, FirstAndRest
  <1>5. PICK states \in SUBSET {"down", "up", "sick"} : Touch(o, p, states)
    <2>1. lab[p] \in {"down", "up", "sick"}
      BY <1>4 DEF CtlInv, CtlTypes
    <2>2. CASE code = 0
      BY <2>2 DEF StopLab
    <2>3. CASE code # 0
      BY <2>1, <2>3 DEF StopLab
    <2> QED BY <2>2, <2>3
  <1>6. /\ lab' \in [Labs -> {"down", "up", "sick"}] /\ byOp' \in [Labs -> Roots \cup {"none"}]
        /\ \A q \in Roots \ {o}, x \in Labs : byOp'[x] = q => byOp[x] = q /\ lab'[x] = lab[x]
        /\ \A x \in Labs \ {p} : byOp'[x] = byOp[x] /\ lab'[x] = lab[x]
    BY <1>4, <1>5, TouchedByOne
  <1>7. CASE code = 0 /\ root[o].action = "restart"
    <2>1. RootGoes(o, [root[o] EXCEPT !.at = "start"]) /\ UNCHANGED slip
      BY <1>7 DEF StopLab
    <2>2. PICK r \in RootProcesses : /\ RootGoes(o, r) /\ r.term = root[o].term /\ r.action = root[o].action /\ r.at = "start"
                                     /\ r.left = root[o].left /\ r.sel = root[o].sel /\ r.failed = root[o].failed
                                     /\ r.stopped = root[o].stopped
      <3>1. "start" \in RootStates
        BY DEF RootStates, Working
      <3>2. [root[o] EXCEPT !.at = "start"] \in RootProcesses
        BY <1>3, <3>1 DEF RootProcesses
      <3> QED BY <1>3, <2>1, <3>2 DEF RootProcesses
    <2>3. root'[o].action = root[o].action => Orderly(o)'
      BY <1>3, <2>1 DEF Orderly
    <2>4. ASSUME root'[o] = r PROVE InBatch(o)' /\ Noted(o)' /\ Through(o)'
      <3>1. InBatch(o)'
        BY <1>1, <1>3, <1>7, <2>2, <2>4 DEF InBatch, Prepared
      <3>2. Noted(o)'
        BY <1>1, <1>3, <2>1, <2>2, <2>4 DEF Noted, Prepared, Performing
      <3>3. Through(o)'
        <4>1. Unfailed(o)' => Unfailed(o)
          BY <1>1, <2>2, <2>4 DEF Unfailed, Performing
        <4>2. ToSet(root[o].sel) \subseteq Labs
          BY <1>3, SelectionsAreOfLabs
        <4>3. \A x \in ToSet(root[o].sel) \ ToSet(root[o].left) : Proven(o, x) => Proven(o, x)'
          BY <1>4, <1>6, <2>1, <4>2 DEF Proven
        <4> QED BY <1>2, <1>3, <2>1, <2>2, <2>4, <4>1, <4>3 DEF Through, Performing
      <3> QED BY <3>1, <3>2, <3>3
    <2>5. slip' \in [Roots -> Slips] /\ \A q \in Roots \ {o} : slip'[q] = slip[q]
      BY <2>1 DEF CtlInv, CtlTypes
    <2>6. ~ slip'[o].verified
      BY <1>3, <2>1
    <2> QED BY <1>1, <1>2, <1>6, <2>2, <2>3, <2>4, <2>5, <2>6, RootStepIsHonest
  <1>8. CASE code = 0 /\ root[o].action = "down"
    <2>1. RootGoes(o, [root[o] EXCEPT !.left = Tail(@)]) /\ Noting(o, p, "command", 0)
      BY <1>8 DEF StopLab
    <2>2. /\ slip' \in [Roots -> Slips] /\ \A q \in Roots \ {o} : slip'[q] = slip[q]
          /\ ~ slip'[o].verified
          /\ \A x \in slip'[o].results : x[2] \in Prepared => x[3] = 0
          /\ root'[o].action = root[o].action => Orderly(o)'
      BY <1>1, <1>2, <2>1, RecordedInOrder
    <2>3. PICK r \in RootProcesses : RootGoes(o, r) /\ r.term = root[o].term /\ r.action = root[o].action /\ r.at = "perform" /\ ~ r.stopped
      <3>1. [root[o] EXCEPT !.left = Tail(@)] \in RootProcesses
        BY <1>3, <1>4 DEF RootProcesses
      <3> QED BY <1>1, <1>3, <2>1, <3>1 DEF RootProcesses
    <2>4. ASSUME root'[o] = r PROVE InBatch(o)' /\ Noted(o)' /\ Through(o)'
      <3>1. InBatch(o)' /\ Noted(o)'
        BY <2>2, <2>3, <2>4 DEF InBatch, Noted, Prepared
      <3>2. Through(o)'
        BY <1>8, <2>2, <2>3, <2>4 DEF Through, Performing
      <3> QED BY <3>1, <3>2
    <2> QED BY <1>1, <1>2, <1>6, <2>2, <2>3, <2>4, RootStepIsHonest
  <1>9. CASE code # 0
    <2> DEFINE phase == Phase(root[o])
    <2>1. Noting(o, p, phase, code) /\ RootGoes(o, Failed(root[o], code))
      BY <1>9 DEF StopLab
    <2>2. phase \in {"start", "health", "command"} /\ (root[o].action = "down" => phase = "command")
      BY DEF Phase
    <2> HIDE DEF phase
    <2> QED BY <1>1, <1>2, <1>6, <1>9, <2>1, <2>2, FailureIsHonest
  <1> QED BY <1>1, <1>7, <1>8, <1>9

(* lab.sh up, of up and of restart: perform_project. *)
LEMMA StartLabIsHonest ==
    ASSUME CtlInv, NEW o \in Roots, NEW code \in Codes, StartLab(o, code)
    PROVE  CtlInv'
  <1> DEFINE p == Head(root[o].left)
  <1>1. /\ \/ root[o].at = "start"
           \/ root[o].at = "perform" /\ root[o].left # <<>> /\ ~ root[o].stopped /\ root[o].action = "up"
        /\ UNCHANGED <<holder, ctl>> /\ Noting(o, p, "start", code)
    BY DEF StartLab
  <1>2. root[o].at \in Performing /\ root[o].at \in Working
    BY <1>1 DEF Performing, Working
  <1>3. /\ root[o] \in RootProcesses /\ root[o].left \in Seq(Labs) /\ root[o].sel \in Seq(Labs)
        /\ ~ slip[o].verified /\ InBatch(o) /\ Orderly(o) /\ Noted(o) /\ Through(o)
    BY <1>2, Performs
  <1>4. root[o].left # <<>> /\ root[o].action # "down"
    BY <1>1, <1>3 DEF InBatch
  <1>5. p \in Labs /\ p \in ToSet(root[o].left)
    BY <1>3, <1>4, FirstAndRest
  <1>6. PICK states \in SUBSET {"down", "up", "sick"} : Touch(o, p, states)
    <2>1. lab[p] \in {"down", "up", "sick"}
      BY <1>5 DEF CtlInv, CtlTypes
    <2>2. CASE code = 0
      BY <2>2 DEF StartLab
    <2>3. CASE code # 0
      BY <2>1, <2>3 DEF StartLab
    <2> QED BY <2>2, <2>3
  <1>7. /\ lab' \in [Labs -> {"down", "up", "sick"}] /\ byOp' \in [Labs -> Roots \cup {"none"}]
        /\ \A q \in Roots \ {o}, x \in Labs : byOp'[x] = q => byOp[x] = q /\ lab'[x] = lab[x]
        /\ \A x \in Labs \ {p} : byOp'[x] = byOp[x] /\ lab'[x] = lab[x]
    BY <1>5, <1>6, TouchedByOne
  <1>8. /\ slip' \in [Roots -> Slips] /\ \A q \in Roots \ {o} : slip'[q] = slip[q]
        /\ slip'[o].results = slip[o].results \cup {<<p, "start", code>>}
        /\ ~ slip'[o].verified
        /\ \A x \in slip'[o].results : x[2] \in Prepared => x[3] = 0
        /\ root'[o].action = root[o].action => Orderly(o)'
    BY <1>1, <1>2, <1>4, RecordedInOrder DEF Codes
  <1>9. CASE code = 0
    <2>1. RootGoes(o, [root[o] EXCEPT !.at = "health"])
      BY <1>9 DEF StartLab
    <2>2. PICK r \in RootProcesses : /\ RootGoes(o, r) /\ r.term = root[o].term /\ r.action = root[o].action /\ r.at = "health"
                                     /\ r.left = root[o].left /\ r.sel = root[o].sel /\ r.failed = root[o].failed
                                     /\ r.stopped = root[o].stopped
      <3>1. "health" \in RootStates
        BY DEF RootStates, Working
      <3>2. [root[o] EXCEPT !.at = "health"] \in RootProcesses
        BY <1>3, <3>1 DEF RootProcesses
      <3> QED BY <1>3, <2>1, <3>2 DEF RootProcesses
    <2>3. ASSUME root'[o] = r PROVE InBatch(o)' /\ Noted(o)' /\ Through(o)'
      <3>1. InBatch(o)'
        BY <1>3, <1>4, <2>2, <2>3 DEF InBatch, Prepared
      <3>2. Noted(o)'
        BY <1>8, <1>9, <2>2, <2>3 DEF Noted, Prepared
      <3>3. Through(o)'
        <4>1. Unfailed(o)' => Unfailed(o)
          BY <1>2, <1>8, <2>2, <2>3 DEF Unfailed, Performing
        <4>2. ToSet(root[o].sel) \subseteq Labs
          BY <1>3, SelectionsAreOfLabs
        <4>3. \A x \in ToSet(root[o].sel) \ ToSet(root[o].left) : Proven(o, x) => Proven(o, x)'
          BY <1>5, <1>7, <1>8, <4>2 DEF Proven
        <4> QED BY <1>2, <1>3, <1>8, <2>2, <2>3, <4>1, <4>3 DEF Through, Performing
      <3> QED BY <3>1, <3>2, <3>3
    <2> QED BY <1>1, <1>2, <1>7, <1>8, <2>2, <2>3, RootStepIsHonest
  <1>10. CASE code # 0
    <2>1. RootGoes(o, Failed(root[o], code))
      BY <1>10 DEF StartLab
    <2> QED BY <1>1, <1>2, <1>4, <1>7, <1>10, <2>1, FailureIsHonest
  <1> QED BY <1>9, <1>10

(* control.py health: perform_project. *)
LEMMA HealthIsHonest ==
    ASSUME CtlInv, NEW o \in Roots, NEW code \in Codes, Health(o, code)
    PROVE  CtlInv'
  <1> DEFINE p == Head(root[o].left)
  <1>1. root[o].at = "health" /\ UNCHANGED <<lab, byOp, holder, ctl>> /\ Noting(o, p, "health", code) /\ (code = 0 => lab[p] = "up")
    BY DEF Health
  <1>2. root[o].at \in Performing /\ root[o].at \in Working
    BY <1>1 DEF Performing, Working
  <1>3. /\ root[o] \in RootProcesses /\ root[o].left \in Seq(Labs) /\ root[o].sel \in Seq(Labs)
        /\ ~ slip[o].verified /\ InBatch(o) /\ Orderly(o) /\ Noted(o) /\ Through(o)
    BY <1>2, Performs
  <1>4. root[o].left # <<>> /\ root[o].action # "down"
    BY <1>1, <1>3 DEF InBatch
  <1>5. /\ Tail(root[o].left) \in Seq(Labs)
        /\ \A x : x \notin ToSet(Tail(root[o].left)) /\ x # p => x \notin ToSet(root[o].left)
    BY <1>3, <1>4, FirstAndRest
  <1>6. lab \in [Labs -> {"down", "up", "sick"}] /\ byOp \in [Labs -> Roots \cup {"none"}]
    BY DEF CtlInv, CtlTypes
  <1>7. /\ slip' \in [Roots -> Slips] /\ \A q \in Roots \ {o} : slip'[q] = slip[q]
        /\ slip'[o].results = slip[o].results \cup {<<p, "health", code>>}
        /\ ~ slip'[o].verified
        /\ \A x \in slip'[o].results : x[2] \in Prepared => x[3] = 0
        /\ root'[o].action = root[o].action => Orderly(o)'
    BY <1>1, <1>2, <1>4, RecordedInOrder DEF Codes
  <1>8. CASE code = 0
    <2>1. RootGoes(o, [root[o] EXCEPT !.at = "perform", !.left = Tail(@)])
      BY <1>8 DEF Health
    <2>2. PICK r \in RootProcesses : /\ RootGoes(o, r) /\ r.term = root[o].term /\ r.action = root[o].action /\ r.at = "perform"
                                     /\ r.left = Tail(root[o].left) /\ r.sel = root[o].sel /\ r.failed = root[o].failed
                                     /\ r.stopped = root[o].stopped
      <3>1. "perform" \in RootStates
        BY DEF RootStates, Working
      <3>2. [root[o] EXCEPT !.at = "perform", !.left = Tail(@)] \in RootProcesses
        BY <1>3, <1>5, <3>1 DEF RootProcesses
      <3> QED BY <1>3, <2>1, <3>2 DEF RootProcesses
    <2>3. ASSUME root'[o] = r PROVE InBatch(o)' /\ Noted(o)' /\ Through(o)'
      <3>1. InBatch(o)'
        BY <1>3, <2>2, <2>3 DEF InBatch, Prepared
      <3>2. Noted(o)'
        BY <1>7, <2>2, <2>3 DEF Noted, Prepared
      <3>3. Through(o)'
        <4>1. Unfailed(o)' => Unfailed(o)
          BY <1>2, <1>7, <2>2, <2>3 DEF Unfailed, Performing
        <4>2. \A x \in ToSet(root[o].sel) : Proven(o, x) => Proven(o, x)'
          BY <1>1, <1>7 DEF Proven
        <4>3. ASSUME NEW x, x = p PROVE Proven(o, x)'
          BY <1>1, <1>3, <1>7, <1>8, <4>3 DEF Proven, Noted
        <4>4. \A x \in ToSet(root[o].sel) \ ToSet(Tail(root[o].left)) : x = p \/ x \in ToSet(root[o].sel) \ ToSet(root[o].left)
          BY <1>5
        <4> HIDE DEF p
        <4> QED BY <1>2, <1>3, <1>4, <1>5, <1>7, <2>2, <2>3, <4>1, <4>2, <4>3, <4>4 DEF Through, Performing
      <3> QED BY <3>1, <3>2, <3>3
    <2> QED BY <1>1, <1>2, <1>6, <1>7, <2>2, <2>3, RootStepIsHonest
  <1>9. CASE code # 0
    <2>1. RootGoes(o, Failed(root[o], code))
      BY <1>9 DEF Health
    <2> QED BY <1>1, <1>2, <1>4, <1>6, <1>9, <2>1, FailureIsHonest
  <1> QED BY <1>8, <1>9

(* A lab that --fail-fast skips: run_batch. *)
LEMMA SkipIsHonest ==
    ASSUME CtlInv, NEW o \in Roots, Skip(o)
    PROVE  CtlInv'
  <1>1. /\ root[o].at = "perform" /\ root[o].left # <<>> /\ root[o].stopped /\ UNCHANGED <<lab, byOp, holder, ctl>>
        /\ Noting(o, Head(root[o].left), "command", -1) /\ RootGoes(o, [root[o] EXCEPT !.left = Tail(@)])
    BY DEF Skip
  <1>2. root[o].at \in Performing /\ root[o].at \in Working
    BY <1>1 DEF Performing, Working
  <1>3. root[o] \in RootProcesses /\ root[o].left \in Seq(Labs) /\ InBatch(o)
    BY <1>2, Performs
  <1>4. lab \in [Labs -> {"down", "up", "sick"}] /\ byOp \in [Labs -> Roots \cup {"none"}]
    BY DEF CtlInv, CtlTypes
  <1>5. Tail(root[o].left) \in Seq(Labs)
    BY <1>1, <1>3, FirstAndRest
  <1>6. /\ slip' \in [Roots -> Slips] /\ \A q \in Roots \ {o} : slip'[q] = slip[q]
        /\ ~ slip'[o].verified
        /\ \A x \in slip'[o].results : x[2] \in Prepared => x[3] = 0
        /\ root'[o].action = root[o].action => Orderly(o)'
    BY <1>1, <1>2, RecordedInOrder
  <1>7. PICK r \in RootProcesses : RootGoes(o, r) /\ r.term = root[o].term /\ r.action = root[o].action /\ r.at = "perform" /\ r.failed = 1
    <2>1. [root[o] EXCEPT !.left = Tail(@)] \in RootProcesses
      BY <1>3, <1>5 DEF RootProcesses
    <2> QED BY <1>1, <1>3, <2>1 DEF RootProcesses, InBatch
  <1>8. ASSUME root'[o] = r PROVE InBatch(o)' /\ Noted(o)' /\ Through(o)'
    <2>1. InBatch(o)'
      BY <1>7, <1>8 DEF InBatch, Prepared
    <2>2. Noted(o)'
      BY <1>6, <1>7, <1>8 DEF Noted, Prepared
    <2>3. Through(o)'
      BY <1>6, <1>7, <1>8 DEF Through, Unfailed
    <2> QED BY <2>1, <2>2, <2>3
  <1> QED BY <1>1, <1>2, <1>4, <1>6, <1>7, <1>8, RootStepIsHonest

(* The batch is over: run_batch. *)
LEMMA BatchEndsHonestly ==
    ASSUME CtlInv, NEW o \in Roots, BatchEnds(o)
    PROVE  CtlInv'
  <1>1. /\ root[o].at = "perform" /\ root[o].left = <<>> /\ UNCHANGED <<lab, byOp, holder, slip, ctl>>
        /\ RootGoes(o, [root[o] EXCEPT !.at = "exit", !.code = root[o].failed])
    BY DEF BatchEnds
  <1>2. root[o].at \in Performing /\ root[o].at \in Working
    BY <1>1 DEF Performing, Working
  <1>3. /\ root[o] \in RootProcesses /\ ~ slip[o].verified /\ InBatch(o) /\ Orderly(o) /\ Through(o)
    BY <1>2, Performs
  <1>4. lab \in [Labs -> {"down", "up", "sick"}] /\ byOp \in [Labs -> Roots \cup {"none"}] /\ slip \in [Roots -> Slips]
    BY DEF CtlInv, CtlTypes
  <1>5. PICK r \in RootProcesses : /\ RootGoes(o, r) /\ r.term = root[o].term /\ r.action = root[o].action /\ r.at = "exit"
                                   /\ r.code = root[o].failed /\ r.sel = root[o].sel /\ r.left = root[o].left
                                   /\ r.stopped = root[o].stopped /\ r.failed = root[o].failed
    <2>1. "exit" \in RootStates /\ root[o].failed \in Int
      BY <1>3 DEF RootStates, RootProcesses
    <2>2. [root[o] EXCEPT !.at = "exit", !.code = root[o].failed] \in RootProcesses
      BY <1>3, <2>1, EndsAreTyped
    <2> QED BY <1>1, <1>3, <2>2 DEF RootProcesses
  <1>6. root'[o].action = root[o].action => Orderly(o)'
    BY <1>1, <1>3 DEF Orderly
  <1>7. ASSUME root'[o] = r PROVE InBatch(o)' /\ Noted(o)' /\ Through(o)'
    <2>1. InBatch(o)'
      BY <1>3, <1>5, <1>7 DEF InBatch, Prepared
    <2>2. Noted(o)'
      BY <1>1, <1>3, <1>5, <1>7 DEF Noted, Prepared, Performing
    <2>3. Unfailed(o)' => Unfailed(o)
      BY <1>1, <1>2, <1>3, <1>5, <1>7 DEF Unfailed, Performing
    <2>4. \A p : Proven(o, p) => Proven(o, p)'
      BY <1>1 DEF Proven
    <2>5. Through(o)'
      BY <1>1, <1>2, <1>3, <1>5, <1>7, <2>3, <2>4 DEF Through
    <2> QED BY <2>1, <2>2, <2>5
  <1>8. \A q \in Roots \ {o} : slip'[q] = slip[q] /\ \A p \in Labs : byOp'[p] = q => byOp[p] = q /\ lab'[p] = lab[p]
    BY <1>1
  <1> QED BY <1>1, <1>2, <1>3, <1>4, <1>5, <1>6, <1>7, <1>8, RootStepIsHonest

(* A step that only moves one process, or its receipt, and leaves the labs alone. *)
LEMMA OneProcessMoves ==
    ASSUME CtlInv, NEW o \in Roots, NEW r \in RootProcesses, root' = [root EXCEPT ![o] = r], UNCHANGED <<lab, byOp>>,
           slip' \in [Roots -> Slips], \A q \in Roots \ {o} : slip'[q] = slip[q],
           holder' \in Roots \cup {"none"}, \A q \in Roots \ {o} : holder = q => holder' = q,
           r.at \in Working /\ ~ r.term => holder' = o,
           root'[o] = r => Honest(o)',
           ctl' \in Plans, PlanKnows'
    PROVE  CtlInv'
  <1>1. root \in [Roots -> RootProcesses] /\ WorkersHoldTheLock
    BY DEF CtlInv, CtlTypes
  <1>2. root' \in [Roots -> RootProcesses] /\ root'[o] = r /\ \A q \in Roots \ {o} : root'[q] = root[q]
    BY <1>1
  <1>3. WorkersHoldTheLock'
    BY <1>1, <1>2 DEF WorkersHoldTheLock
  <1>4. \A q \in Roots \ {o} : Honest(q)'
    BY <1>2, OthersKeepTheirWord
  <1>5. CtlTypes'
    BY <1>2 DEF CtlInv, CtlTypes
  <1> QED BY <1>2, <1>3, <1>4, <1>5 DEF CtlInv

(* The plan of the adapter is not touched. *)
LEMMA PlanStays == ASSUME CtlInv, UNCHANGED ctl PROVE ctl' \in Plans /\ PlanKnows'
  BY DEF CtlInv, CtlTypes, PlanKnows, ResultIsHonest

(* A step into a state from which nothing is claimed: exit with a failure, killed. *)
LEMMA FailingMoves ==
    ASSUME CtlInv, NEW o \in Roots, root[o].at \in Working \cup {"exit", "finish"},
           NEW at \in {"exit", "killed"}, NEW code \in Int, code # 0,
           root' = [root EXCEPT ![o].at = at, ![o].code = code], UNCHANGED <<lab, byOp, holder, slip, ctl>>
    PROVE  CtlInv'
  <1>1. root \in [Roots -> RootProcesses] /\ root[o] \in RootProcesses /\ at \in RootStates /\ Honest(o) /\ slip \in [Roots -> Slips]
        /\ holder \in Roots \cup {"none"}
    BY DEF CtlInv, CtlTypes, RootStates
  <1>2. PICK r \in RootProcesses : /\ root' = [root EXCEPT ![o] = r] /\ r.at = at /\ r.code = code /\ r.failed = root[o].failed
                                   /\ r.stopped = root[o].stopped /\ r.action = root[o].action
    <2>1. [root[o] EXCEPT !.at = at, !.code = code] \in RootProcesses
      BY <1>1, EndsAreTyped
    <2> QED BY <1>1, <2>1 DEF RootProcesses
  <1>3. ASSUME root'[o] = r PROVE Honest(o)'
    <2>1. Orderly(o)' /\ ~ slip'[o].verified
      BY <1>1, <1>2, <1>3 DEF Honest, Orderly, Noted, Working
    <2> QED BY <1>2, <1>3, <2>1, FailuresAreHonest
  <1>4. r.at \notin Working
    BY <1>2 DEF Working
  <1> QED BY <1>1, <1>2, <1>3, <1>4, PlanStays, OneProcessMoves

LEMMA InterruptIsHonest ==
    ASSUME CtlInv, NEW o \in Roots, RootInterrupted(o)
    PROVE  CtlInv'
  <1>1. 130 \in Int /\ "exit" \in {"exit", "killed"} /\ 130 # 0
    OBVIOUS
  <1> QED BY <1>1, FailingMoves, Zenon DEF RootInterrupted

LEMMA KillIsHonest ==
    ASSUME CtlInv, NEW o \in Roots, RootKilled(o)
    PROVE  CtlInv'
  <1>1. 137 \in Int /\ "killed" \in {"exit", "killed"} /\ 137 # 0
    OBVIOUS
  <1>2. UNCHANGED <<lab, byOp, holder, slip, ctl>> /\ root' = [root EXCEPT ![o].at = "killed", ![o].code = 137]
    BY DEF RootKilled
  <1>3. root[o].at \in Working \cup {"exit", "finish"}
    BY DEF RootKilled
  <1> QED BY <1>1, <1>2, <1>3, FailingMoves, Zenon

LEMMA GraceEndsHonestly ==
    ASSUME CtlInv, GraceEnds
    PROVE  CtlInv'
  <1>1. 137 \in Int /\ "killed" \in {"exit", "killed"} /\ 137 # 0 /\ Driven \in Roots
    BY ControlAssumption
  <1>2. UNCHANGED <<lab, byOp, holder, slip, ctl>> /\ root' = [root EXCEPT ![Driven].at = "killed", ![Driven].code = 137]
    BY DEF GraceEnds
  <1>3. root[Driven].at \in Working \cup {"exit", "finish"}
    BY DEF GraceEnds
  <1> QED BY <1>1, <1>2, <1>3, FailingMoves, Zenon

(* finish_run frees the lock first. *)
LEMMA FreeLockIsHonest ==
    ASSUME CtlInv, NEW o \in Roots, FreeLock(o)
    PROVE  CtlInv'
  <1>1. root[o].at = "exit" /\ root' = [root EXCEPT ![o].at = "finish"] /\ UNCHANGED <<lab, byOp, slip, ctl>>
    BY DEF FreeLock
  <1>2. /\ root \in [Roots -> RootProcesses] /\ root[o] \in RootProcesses /\ "finish" \in RootStates /\ Honest(o)
        /\ slip \in [Roots -> Slips] /\ holder \in Roots \cup {"none"}
    BY DEF CtlInv, CtlTypes, RootStates
  <1>3. PICK r \in RootProcesses : /\ root' = [root EXCEPT ![o] = r] /\ r.at = "finish" /\ r.code = root[o].code
                                   /\ r.failed = root[o].failed /\ r.stopped = root[o].stopped /\ r.action = root[o].action
                                   /\ r.sel = root[o].sel /\ r.left = root[o].left
    <2>1. [root[o] EXCEPT !.at = "finish"] \in RootProcesses
      BY <1>2 DEF RootProcesses
    <2> QED BY <1>1, <1>2, <2>1 DEF RootProcesses
  <1>4. ASSUME root'[o] = r PROVE Honest(o)'
    <2>1. InBatch(o)' /\ Orderly(o)' /\ Noted(o)'
      BY <1>1, <1>2, <1>3, <1>4 DEF Honest, InBatch, Orderly, Noted, Prepared, Performing
    <2>2. Unfailed(o)' => Unfailed(o)
      BY <1>1, <1>2, <1>3, <1>4 DEF Unfailed, Performing
    <2>3. \A p : Proven(o, p) => Proven(o, p)'
      BY <1>1 DEF Proven
    <2>4. Through(o)'
      BY <1>1, <1>2, <1>3, <1>4, <2>2, <2>3 DEF Honest, Through, Performing
    <2> QED BY <2>1, <2>4 DEF Honest
  <1>5. holder' \in Roots \cup {"none"} /\ \A q \in Roots \ {o} : holder = q => holder' = q
    BY <1>2 DEF FreeLock
  <1>6. r.at \notin Working
    BY <1>3 DEF Working
  <1> QED BY <1>1, <1>2, <1>3, <1>4, <1>5, <1>6, PlanStays, OneProcessMoves

(* record __finish__ completes the receipt. *)
LEMMA FinishIsHonest ==
    ASSUME CtlInv, NEW o \in Roots, FinishRun(o)
    PROVE  CtlInv'
  <1>1. root[o].at = "finish" /\ root' = [root EXCEPT ![o].at = "over"] /\ UNCHANGED <<lab, byOp, holder, ctl>>
    BY DEF FinishRun
  <1>2. /\ root \in [Roots -> RootProcesses] /\ root[o] \in RootProcesses /\ "over" \in RootStates /\ Honest(o)
        /\ slip \in [Roots -> Slips] /\ holder \in Roots \cup {"none"}
    BY DEF CtlInv, CtlTypes, RootStates
  <1>3. PICK r \in RootProcesses : /\ root' = [root EXCEPT ![o] = r] /\ r.at = "over" /\ r.code = root[o].code
                                   /\ r.failed = root[o].failed /\ r.stopped = root[o].stopped /\ r.action = root[o].action
                                   /\ r.sel = root[o].sel /\ r.left = root[o].left
    <2>1. [root[o] EXCEPT !.at = "over"] \in RootProcesses
      BY <1>2 DEF RootProcesses
    <2> QED BY <1>1, <1>2, <2>1 DEF RootProcesses
  <1>4. /\ slip' \in [Roots -> Slips] /\ \A q \in Roots \ {o} : slip'[q] = slip[q]
        /\ slip'[o].results = slip[o].results
        /\ slip'[o].verified => root[o].code = 0 /\ \E x \in slip[o].results : x[2] = "start"
    <2> DEFINE s == IF root[o].code = 0 THEN "completed" ELSE "failed"
               v == Verified(slip[o].results, root[o].code)
    <2>1. s \in {"none", "running", "completed", "failed"}
      OBVIOUS
    <2>2. v \in BOOLEAN /\ (v => root[o].code = 0 /\ \E x \in slip[o].results : x[2] = "start")
      BY DEF Verified
    <2>3. slip' = [slip EXCEPT ![o].status = s, ![o].verified = v]
      BY DEF FinishRun
    <2> HIDE DEF s, v
    <2> QED BY <1>2, <2>1, <2>2, <2>3 DEF Slips
  <1>5. ASSUME root'[o] = r PROVE Honest(o)'
    <2>1. InBatch(o)' /\ Orderly(o)' /\ Noted(o)'
      BY <1>2, <1>3, <1>4, <1>5 DEF Honest, InBatch, Orderly, Noted, Prepared, Performing
    <2>2. Unfailed(o)' => Unfailed(o) /\ root[o].action # "down"
      <3>1. Unfailed(o)' => slip'[o].verified
        BY <1>3, <1>5 DEF Unfailed, Performing
      <3> QED BY <1>1, <1>2, <1>4, <3>1 DEF Unfailed, Honest, Orderly
    <2>3. \A p : Proven(o, p) => Proven(o, p)'
      BY <1>1, <1>4 DEF Proven
    <2>4. Through(o)'
      BY <1>1, <1>2, <1>3, <1>5, <2>2, <2>3 DEF Honest, Through, Performing
    <2> QED BY <2>1, <2>4 DEF Honest
  <1>6. r.at \notin Working
    BY <1>3 DEF Working
  <1> QED BY <1>1, <1>2, <1>3, <1>4, <1>5, <1>6, PlanStays, OneProcessMoves

(* A process that has not started. *)
LEMMA NoRootIsTyped == NoRoot \in RootProcesses /\ NoRoot.failed = 0 /\ ~ NoRoot.stopped
  <1>1. "none" \in RootStates /\ <<>> \in Seq(Labs)
    BY DEF RootStates
  <1> QED BY <1>1 DEF NoRoot, RootProcesses

(* begin_operation: a process starts with an empty receipt. *)
LEMMA BeginIsHonest ==
    ASSUME CtlInv, NEW o \in Roots, root[o].at = "none", NEW action \in RootActions, NEW fast \in BOOLEAN,
           holder = "none", holder' = o, root' = [root EXCEPT ![o] = Begun(action, Selected[o], fast)],
           slip' = [slip EXCEPT ![o].status = "running"], UNCHANGED <<lab, byOp>>, ctl' \in Plans, PlanKnows'
    PROVE  CtlInv'
  <1>1. /\ root[o] \in RootProcesses /\ slip \in [Roots -> Slips] /\ holder \in Roots \cup {"none"}
        /\ Selected[o] \in Seq(Labs) /\ Selected[o] # <<>> /\ slip[o] = NoSlip
    BY ControlAssumption DEF CtlInv, CtlTypes, Honest, Noted
  <1>2. PICK r \in RootProcesses : /\ root' = [root EXCEPT ![o] = r] /\ r.at = (IF action = "down" THEN "perform" ELSE "initialize")
                                   /\ r.action = action /\ r.sel = Selected[o]
                                   /\ (action # "down" => r.left = Selected[o])
                                   /\ r.failed = 0 /\ ~ r.stopped
    <2>1. PICK at \in RootStates : at = (IF action = "down" THEN "perform" ELSE "initialize")
      BY DEF RootStates, Working
    <2>2. PICK left \in Seq(Labs) : left = (IF action = "down" THEN Reverse(Selected[o]) ELSE Selected[o])
      BY <1>1, SelectionsAreOfLabs
    <2>3. Begun(action, Selected[o], fast) =
            [NoRoot EXCEPT !.at = at, !.action = action, !.sel = Selected[o], !.left = left, !.fast = fast]
      BY <2>1, <2>2 DEF Begun
    <2>4. [NoRoot EXCEPT !.at = at, !.action = action, !.sel = Selected[o], !.left = left, !.fast = fast] \in RootProcesses
      BY <1>1, NoRootIsTyped DEF RootProcesses
    <2> QED BY <2>1, <2>2, <2>3, <2>4, NoRootIsTyped DEF RootProcesses
  <1>3. slip' \in [Roots -> Slips] /\ (\A q \in Roots \ {o} : slip'[q] = slip[q]) /\ slip'[o].results = {} /\ ~ slip'[o].verified
    <2>1. NoSlip.results = {} /\ ~ NoSlip.verified
      BY DEF NoSlip
    <2>2. slip[o] \in Slips
      BY <1>1
    <2>3. [slip[o] EXCEPT !.status = "running"] \in Slips
      BY <2>2 DEF Slips
    <2>4. slip' \in [Roots -> Slips] /\ \A q \in Roots \ {o} : slip'[q] = slip[q]
      BY <1>1, <2>3
    <2>5. slip'[o].results = slip[o].results /\ slip'[o].verified = slip[o].verified
      BY <1>1, <2>2 DEF Slips
    <2> QED BY <1>1, <2>1, <2>4, <2>5
  <1>4. ASSUME root'[o] = r PROVE Honest(o)'
    <2>1. InBatch(o)'
      BY <1>1, <1>2, <1>4 DEF InBatch, Prepared
    <2>2. Orderly(o)' /\ Noted(o)'
      BY <1>2, <1>3, <1>4 DEF Orderly, Noted, Prepared
    <2>3. Through(o)'
      BY <1>2, <1>3, <1>4 DEF Through, Unfailed, Performing
    <2> QED BY <2>1, <2>2, <2>3 DEF Honest
  <1>5. \A q \in Roots \ {o} : holder = q => holder' = q
    BY ControlAssumption
  <1>6. holder' \in Roots \cup {"none"} /\ (r.at \in Working /\ ~ r.term => holder' = o)
    OBVIOUS
  <1>7. root' = [root EXCEPT ![o] = r]
    BY <1>2
  <1> QED BY <1>3, <1>4, <1>5, <1>6, <1>7, OneProcessMoves

(* An operation that is refused has no receipt. *)
LEMMA RefusalIsHonest ==
    ASSUME CtlInv, NEW o \in Roots, root[o].at = "none", NEW action \in RootActions,
           root' = [root EXCEPT ![o] = [NoRoot EXCEPT !.at = "over", !.action = action, !.code = 1]],
           UNCHANGED <<lab, byOp, holder, slip>>, ctl' \in Plans, PlanKnows'
    PROVE  CtlInv'
  <1>1. slip \in [Roots -> Slips] /\ holder \in Roots \cup {"none"} /\ slip[o] = NoSlip
    BY DEF CtlInv, CtlTypes, Honest, Noted
  <1>2. PICK r \in RootProcesses : root' = [root EXCEPT ![o] = r] /\ r.at = "over" /\ ~ r.stopped
    <2>1. "over" \in RootStates /\ 1 \in Int
      BY DEF RootStates
    <2>2. [NoRoot EXCEPT !.at = "over", !.action = action] \in RootProcesses
      BY <2>1, NoRootIsTyped DEF RootProcesses
    <2>3. ASSUME NEW c \in Int PROVE [NoRoot EXCEPT !.at = "over", !.action = action, !.code = c] \in RootProcesses
      BY <2>1, NoRootIsTyped DEF RootProcesses
    <2>4. [NoRoot EXCEPT !.at = "over", !.action = action, !.code = 1] \in RootProcesses
      BY <2>1, <2>3, Zenon
    <2>5. [NoRoot EXCEPT !.at = "over", !.action = action, !.code = 1].at = "over"
      BY NoRootIsTyped DEF RootProcesses
    <2>6. ~ [NoRoot EXCEPT !.at = "over", !.action = action, !.code = 1].stopped
      BY NoRootIsTyped DEF RootProcesses
    <2> QED BY <2>4, <2>5, <2>6
  <1>3. ASSUME root'[o] = r PROVE Honest(o)'
    <2>1. slip'[o].results = {} /\ ~ slip'[o].verified
      BY <1>1 DEF NoSlip
    <2>2. InBatch(o)' /\ Noted(o)' /\ Through(o)'
      BY <2>1, <1>2, <1>3 DEF InBatch, Noted, Through, Unfailed, Prepared, Performing
    <2>3. Orderly(o)'
      BY <2>1 DEF Orderly
    <2> QED BY <2>2, <2>3 DEF Honest
  <1>4. r.at \notin Working
    BY <1>2 DEF Working
  <1> QED BY <1>1, <1>2, <1>3, <1>4, OneProcessMoves

LEMMA OperationBeginsHonestly ==
    ASSUME CtlInv, NEW o \in Roots \ {Driven}, NEW action \in RootActions, NEW fast \in BOOLEAN,
           BeginOperation(o, action, fast) \/ BeginRefused(o, action)
    PROVE  CtlInv'
  <1>1. CASE BeginOperation(o, action, fast)
    <2>1. /\ root[o].at = "none" /\ holder = "none" /\ holder' = o /\ root' = [root EXCEPT ![o] = Begun(action, Selected[o], fast)]
          /\ slip' = [slip EXCEPT ![o].status = "running"] /\ UNCHANGED <<lab, byOp, ctl>>
      BY <1>1 DEF BeginOperation
    <2> QED BY <2>1, PlanStays, BeginIsHonest
  <1>2. CASE BeginRefused(o, action)
    <2>1. /\ root[o].at = "none" /\ root' = [root EXCEPT ![o] = [NoRoot EXCEPT !.at = "over", !.action = action, !.code = 1]]
          /\ UNCHANGED <<lab, byOp, holder, slip, ctl>>
      BY <1>2 DEF BeginRefused
    <2> QED BY <2>1, PlanStays, RefusalIsHonest
  <1> QED BY <1>1, <1>2

(* execute_plan launches a command. *)
LEMMA LaunchIsHonest ==
    ASSUME CtlInv, LaunchCommand
    PROVE  CtlInv'
  <1>1. /\ ctl.at \in {"idle", "next"} /\ ctl.i <= Len(Plan) /\ root[Driven].at = "none" /\ Driven \in Roots
        /\ ctl' = [ctl EXCEPT !.at = "run", !.changed = TRUE] /\ UNCHANGED <<lab, byOp>> /\ ctl \in Plans /\ PlanKnows
    BY ControlAssumption DEF LaunchCommand, CtlInv, CtlTypes
  <1>2. ctl' \in Plans
    <2>1. "run" \in {"idle", "run", "next", "done"}
      OBVIOUS
    <2> QED BY <1>1, <2>1 DEF Plans
  <1>3. ctl.i \in 1..Len(Plan)
    BY <1>1 DEF PlanKnows
  <1>4. PlanKnows'
    BY <1>1, <1>3 DEF PlanKnows, ResultIsHonest, Plans
  <1>5. Plan[ctl.i] \in RootActions
    BY <1>3, ControlAssumption DEF RootActions
  <1>6. \/ /\ holder = "none" /\ holder' = Driven
           /\ root' = [root EXCEPT ![Driven] = Begun(Plan[ctl.i], Selected[Driven], TRUE)]
           /\ slip' = [slip EXCEPT ![Driven].status = "running"]
        \/ /\ root' = [root EXCEPT ![Driven] = [NoRoot EXCEPT !.at = "over", !.action = Plan[ctl.i], !.code = 1]]
           /\ UNCHANGED <<holder, slip>>
    BY DEF LaunchCommand
  <1>7. PICK action \in RootActions : action = Plan[ctl.i]
    BY <1>5
  <1> QED BY <1>1, <1>2, <1>4, <1>6, <1>7, BeginIsHonest, RefusalIsHonest

(* execute: the timeout. *)
LEMMA TimeoutIsHonest ==
    ASSUME CtlInv, TimesOut
    PROVE  CtlInv'
  <1>1. /\ ctl.at = "run" /\ Driven \in Roots /\ ctl' = [ctl EXCEPT !.timed = TRUE] /\ root' = [root EXCEPT ![Driven].term = TRUE]
        /\ holder' = (IF holder = Driven THEN "none" ELSE holder) /\ UNCHANGED <<lab, byOp, slip>>
    BY ControlAssumption DEF TimesOut
  <1>2. /\ root \in [Roots -> RootProcesses] /\ root[Driven] \in RootProcesses /\ Honest(Driven) /\ slip \in [Roots -> Slips]
        /\ holder \in Roots \cup {"none"} /\ ctl \in Plans /\ PlanKnows
    BY <1>1 DEF CtlInv, CtlTypes
  <1>3. ctl' \in Plans
    BY <1>1, <1>2 DEF Plans
  <1>4. PlanKnows'
    BY <1>1, <1>2 DEF PlanKnows, ResultIsHonest, Plans
  <1>5. PICK r \in RootProcesses : /\ root' = [root EXCEPT ![Driven] = r] /\ r.term /\ r.at = root[Driven].at /\ r.code = root[Driven].code
                                   /\ r.failed = root[Driven].failed /\ r.stopped = root[Driven].stopped /\ r.action = root[Driven].action
                                   /\ r.sel = root[Driven].sel /\ r.left = root[Driven].left
    <2>1. [root[Driven] EXCEPT !.term = TRUE] \in RootProcesses
      BY <1>2 DEF RootProcesses
    <2> QED BY <1>1, <1>2, <2>1 DEF RootProcesses
  <1>6. ASSUME root'[Driven] = r PROVE Honest(Driven)'
    <2>1. InBatch(Driven)' /\ Orderly(Driven)' /\ Noted(Driven)'
      BY <1>1, <1>2, <1>5, <1>6 DEF Honest, InBatch, Orderly, Noted
    <2>2. Unfailed(Driven)' => Unfailed(Driven)
      BY <1>1, <1>5, <1>6 DEF Unfailed
    <2>3. \A p : Proven(Driven, p) => Proven(Driven, p)'
      BY <1>1 DEF Proven
    <2>4. Through(Driven)'
      BY <1>1, <1>2, <1>5, <1>6, <2>2, <2>3 DEF Honest, Through
    <2> QED BY <2>1, <2>4 DEF Honest
  <1>7. holder' \in Roots \cup {"none"} /\ \A q \in Roots \ {Driven} : holder = q => holder' = q
    BY <1>1, <1>2
  <1> QED BY <1>1, <1>2, <1>3, <1>4, <1>5, <1>6, <1>7, OneProcessMoves

(* One more success. *)
LEMMA OneMoreSuccess ==
    ASSUME NEW n \in Nat, NEW c
    PROVE  Append([i \in 1..n |-> c], c) = [i \in 1..(n + 1) |-> c]
  OBVIOUS

(* execute_plan reads the result of a command and goes on, or is done. *)
LEMMA ReapIsHonest ==
    ASSUME CtlInv, Reap
    PROVE  CtlInv'
  <1>1. /\ Driven \in Roots /\ root \in [Roots -> RootProcesses] /\ root[Driven] \in RootProcesses /\ ctl \in Plans /\ PlanKnows
        /\ slip \in [Roots -> Slips] /\ holder \in Roots \cup {"none"}
    BY ControlAssumption DEF CtlInv, CtlTypes
  <1>0. root[Driven].code \in Int /\ ctl.timed \in BOOLEAN /\ ctl.codes \in Seq(Int \X BOOLEAN)
    BY <1>1 DEF RootProcesses, Plans
  <1>2. PICK rc \in Int : rc = ReturnCode(ctl.timed, root[Driven].code)
    BY <1>0 DEF ReturnCode
  <1>3. PICK last \in BOOLEAN : last = (rc # 0 \/ ctl.i = Len(Plan))
    OBVIOUS
  <1>4. PICK at \in {"next", "done"} : at = (IF last THEN "done" ELSE "next")
    OBVIOUS
  <1>5. ctl.at = "run" /\ ctl' = [ctl EXCEPT !.at = at, !.i = @ + 1, !.rc = rc, !.codes = Append(@, <<root[Driven].code, ctl.timed>>)]
    BY <1>2, <1>3, <1>4 DEF Reap
  <1>6. /\ root' = (IF last THEN root ELSE [root EXCEPT ![Driven] = NoRoot])
        /\ slip' = (IF last THEN slip ELSE [slip EXCEPT ![Driven] = NoSlip]) /\ UNCHANGED <<lab, byOp, holder>>
    BY <1>2, <1>3 DEF Reap
  <1>7. ctl.i \in 1..Len(Plan) /\ Len(Plan) \in Nat /\ ctl.codes = [i \in 1..(ctl.i - 1) |-> <<0, FALSE>>]
    BY <1>1, <1>5, ControlAssumption DEF PlanKnows
  <1>8. PICK codes \in Seq(Int \X BOOLEAN) : codes = Append(ctl.codes, <<root[Driven].code, ctl.timed>>)
    <2>1. <<root[Driven].code, ctl.timed>> \in Int \X BOOLEAN
      BY <1>0
    <2>2. ASSUME NEW s \in Seq(Int \X BOOLEAN), NEW x \in Int \X BOOLEAN PROVE Append(s, x) \in Seq(Int \X BOOLEAN)
      OBVIOUS
    <2>3. Append(ctl.codes, <<root[Driven].code, ctl.timed>>) \in Seq(Int \X BOOLEAN)
      BY <1>0, <2>1, <2>2, Zenon
    <2> QED BY <2>3, Zenon
  <1>9. /\ ctl' \in Plans /\ ctl'.at = at /\ ctl'.i = ctl.i + 1 /\ ctl'.rc = rc /\ ctl'.codes = codes
    <2>1. at \in {"idle", "run", "next", "done"} /\ ctl.i + 1 \in Nat
      BY <1>7
    <2>2. ctl' = [ctl EXCEPT !.at = at, !.i = ctl.i + 1, !.rc = rc, !.codes = codes]
      BY <1>5, <1>8
    <2>3. [ctl EXCEPT !.at = at, !.i = ctl.i + 1, !.rc = rc, !.codes = codes] \in Plans
      BY <1>1, <2>1 DEF Plans
    <2> QED BY <1>1, <2>2, <2>3 DEF Plans
  <1>10. rc = 0 => codes = [i \in 1..ctl.i |-> <<0, FALSE>>]
    <2> SUFFICES ASSUME rc = 0 PROVE codes = [i \in 1..ctl.i |-> <<0, FALSE>>]
      OBVIOUS
    <2>1. root[Driven].code = 0 /\ ctl.timed = FALSE
      BY <1>1, <1>2 DEF ReturnCode, Plans
    <2>2. ctl.i - 1 \in Nat /\ (ctl.i - 1) + 1 = ctl.i
      BY <1>7
    <2>3. Append([i \in 1..(ctl.i - 1) |-> <<0, FALSE>>], <<0, FALSE>>) = [i \in 1..((ctl.i - 1) + 1) |-> <<0, FALSE>>]
      BY <2>2, OneMoreSuccess, Zenon
    <2> QED BY <1>7, <1>8, <2>1, <2>2, <2>3
  <1>11. PlanKnows'
    <2>1. at = "done" => rc # 0 \/ ctl.i = Len(Plan)
      BY <1>3, <1>4
    <2>2. at = "next" => rc = 0 /\ ctl.i # Len(Plan)
      BY <1>3, <1>4
    <2>3. (ctl.i + 1) - 1 = ctl.i /\ (ctl.i # Len(Plan) => ctl.i + 1 \in 1..Len(Plan))
      BY <1>7
    <2>4. ResultIsHonest'
      BY <1>9, <1>10, <2>1 DEF ResultIsHonest
    <2> QED BY <1>9, <1>10, <2>2, <2>3, <2>4 DEF PlanKnows
  <1>12. CASE last
    <2>1. UNCHANGED <<root, slip, lab, byOp, holder>>
      BY <1>6, <1>12
    <2>2. \A q \in Roots : Honest(q)'
      BY <2>1, OthersKeepTheirWord
    <2>3. CtlTypes' /\ WorkersHoldTheLock'
      BY <1>9, <2>1 DEF CtlInv, CtlTypes, WorkersHoldTheLock
    <2> QED BY <1>11, <2>2, <2>3 DEF CtlInv
  <1>13. CASE ~ last
    <2>1. root' = [root EXCEPT ![Driven] = NoRoot] /\ slip' = [slip EXCEPT ![Driven] = NoSlip]
      BY <1>6, <1>13
    <2>2. NoSlip \in Slips /\ ~ NoSlip.verified
      BY DEF NoSlip, Slips
    <2>3. slip' \in [Roots -> Slips] /\ slip'[Driven] = NoSlip /\ \A q \in Roots \ {Driven} : slip'[q] = slip[q]
      BY <1>1, <2>1, <2>2
    <2>4. NoRoot \in RootProcesses /\ NoRoot.at = "none" /\ ~ NoRoot.stopped
      BY NoRootIsTyped DEF NoRoot
    <2>5. ASSUME root'[Driven] = NoRoot PROVE Honest(Driven)'
      <3>1. InBatch(Driven)' /\ Noted(Driven)' /\ Through(Driven)'
        BY <2>2, <2>3, <2>4, <2>5 DEF InBatch, Noted, Through, Unfailed, Prepared, Performing
      <3>2. Orderly(Driven)'
        BY <2>3 DEF Orderly, NoSlip
      <3> QED BY <3>1, <3>2 DEF Honest
    <2>6. holder' \in Roots \cup {"none"} /\ (\A q \in Roots \ {Driven} : holder = q => holder' = q) /\ NoRoot.at \notin Working
      BY <1>1, <1>6, <2>4 DEF Working
    <2>7. PICK r \in RootProcesses : r = NoRoot
      BY <2>4
    <2> QED BY <1>1, <1>6, <1>9, <1>11, <2>1, <2>3, <2>5, <2>6, <2>7, OneProcessMoves
  <1> QED BY <1>12, <1>13

(* Every step of the controller keeps its invariant. *)
LEMMA CtlStep ==
    ASSUME CtlInv, [CtlNext]_ctlVars
    PROVE  CtlInv'
  <1>1. ASSUME NEW o \in Roots \ {Driven}, NEW action \in {"up", "restart", "down"},
               (\E fast \in BOOLEAN : BeginOperation(o, action, fast)) \/ BeginRefused(o, action)
        PROVE  CtlInv'
    BY <1>1, OperationBeginsHonestly DEF RootActions
  <1>2. ASSUME NEW o \in Roots, RootStep(o) \/ RootInterrupted(o) \/ RootKilled(o)
        PROVE  CtlInv'
    BY <1>2, PrepareIsHonest, StopLabIsHonest, StartLabIsHonest, HealthIsHonest, SkipIsHonest, BatchEndsHonestly,
       FreeLockIsHonest, FinishIsHonest, InterruptIsHonest, KillIsHonest DEF RootStep
  <1>3. ASSUME LaunchCommand \/ TimesOut \/ GraceEnds \/ Reap
        PROVE  CtlInv'
    BY <1>3, LaunchIsHonest, TimeoutIsHonest, GraceEndsHonestly, ReapIsHonest
  <1>4. ASSUME UNCHANGED ctlVars
        PROVE  CtlInv'
    <2>1. UNCHANGED <<lab, byOp, root, holder, slip, ctl>>
      BY <1>4 DEF ctlVars
    <2>2. \A q \in Roots : Honest(q)'
      BY <2>1, OthersKeepTheirWord
    <2>3. CtlTypes' /\ WorkersHoldTheLock' /\ PlanKnows'
      BY <2>1 DEF CtlInv, CtlTypes, WorkersHoldTheLock, PlanKnows, ResultIsHonest
    <2> QED BY <2>2, <2>3 DEF CtlInv
  <1> QED BY <1>1, <1>2, <1>3, <1>4 DEF CtlNext

(***************************************************************************)
(* The root controller keeps its lock, its receipts and its plan: all.sh,  *)
(* control.py record, db_lab_execution.py execute_plan.                    *)
(***************************************************************************)
THEOREM CtlInvariant == CtlSpec => []CtlInv
  BY CtlInitHolds, CtlStep, PTL DEF CtlSpec

(* What the receipts and the adapter say follows from the invariant. *)
LEMMA HonestyOfInv ==
    ASSUME CtlInv
    PROVE  ControlIsHonest
  <1>1. OneAtATime
    BY DEF CtlInv, WorkersHoldTheLock, OneAtATime
  <1>2. ReceiptIsHonest
    <2> SUFFICES ASSUME NEW o \in Roots
                 PROVE  /\ slip[o].verified => \A p \in ToSet(root[o].sel) : byOp[p] = o => lab[p] = "up"
                        /\ slip[o].verified =>
                              \A p \in ToSet(root[o].sel) : {<<p, "start", 0>>, <<p, "health", 0>>} \subseteq slip[o].results
                        /\ (\E x \in slip[o].results : x[2] \in {"initialize", "doctor"} /\ x[3] # 0) =>
                              \A x \in slip[o].results : x[2] \in {"initialize", "doctor"}
      BY DEF ReceiptIsHonest
    <2>1. Honest(o)
      BY DEF CtlInv
    <2>2. ASSUME slip[o].verified PROVE \A p \in ToSet(root[o].sel) : Proven(o, p)
      <3>1. root[o].at = "over" /\ Unfailed(o)
        BY <2>1, <2>2 DEF Honest, Noted, Unfailed
      <3>2. root[o].left = <<>> /\ root[o].action # "down"
        BY <2>1, <2>2, <3>1 DEF Honest, Through, Performing
      <3>3. ToSet(root[o].left) = {}
        BY <3>2 DEF ToSet
      <3> QED BY <2>1, <3>1, <3>2, <3>3 DEF Honest, Through
    <2> QED BY <2>1, <2>2 DEF Honest, Orderly, Proven, Prepared
  <1>3. ResultIsHonest
    BY DEF CtlInv, PlanKnows
  <1> QED BY <1>1, <1>2, <1>3 DEF ControlIsHonest

(***************************************************************************)
(* The lock, the receipts and the adapter's result are honest for every    *)
(* set of operations, every selection, every plan and any number of        *)
(* interrupts, timeouts and kills: all.sh, control.py,                     *)
(* db_lab_execution.py.                                                    *)
(***************************************************************************)
THEOREM ControlStaysHonest == CtlSpec => []ControlIsHonest
  BY CtlInvariant, HonestyOfInv, PTL
=============================================================================
