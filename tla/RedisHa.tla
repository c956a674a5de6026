------------------------------- MODULE RedisHa -------------------------------
(***************************************************************************)
(* The Redis high-availability laboratory (src/redis-lab): three Redis     *)
(* nodes under three Sentinels, the fault and recovery commands of         *)
(* scripts/manage.py, the failover test, and the workload and verification *)
(* of client/client.py.  One command runs at a time (README-HA.md asks for *)
(* it); it may stop between any two calls.  The client runs beside it.     *)
(*                                                                         *)
(* node     container state, network and masterauth of every node          *)
(* of       whom a Redis node replicates from; itself when it is a master  *)
(* data     keys a Redis node holds;  inbox: requests a paused node has    *)
(*          received and not yet executed                                  *)
(* master   the master the Sentinels agree on;  votes: reconfigurations    *)
(* faults   .lab/faults.json                                               *)
(* cmd      the host command running;  report: output/failover-test.json   *)
(* req      the client's request in progress;  row: its run journal        *)
(***************************************************************************)
EXTENDS Integers, FiniteSets

CONSTANTS Redis, Sentinels,   \* the nodes
          Keys,               \* keys the workload writes, each once
          MaxFaults,          \* bound: fault commands
          MaxFailures         \* bound: failed calls and interrupted commands

(* The key of the failover test is not one of the workload's, and no node or key is "none". *)
ASSUME HaAssumption == "none" \notin Redis \cup Sentinels \cup Keys /\ "baseline" \notin Keys

VARIABLES node, of, data, inbox, master, faults, cmd, report, req, row, used, spent

vars == <<node, of, data, inbox, master, faults, cmd, report, req, row, used, spent>>
servers == <<of, data, inbox, master>>
client == <<req, row>>

Nodes == Redis \cup Sentinels
TestKey == "baseline"
Written == Keys \cup {TestKey}
None == "none"
Actions == {"kill", "stop", "pause", "isolate", "auth-replica"}
Outcomes == {"uncertain", "acknowledged", "rejected", "not-sent"}

Fresh == [run |-> "running", net |-> TRUE, auth |-> TRUE]
Idle == [op |-> None, at |-> None, node |-> None, rest |-> {}, before |-> None, after |-> None, failed |-> FALSE]
NoRequest == [key |-> None, stage |-> None, on |-> None]

Init ==
    /\ node = [n \in Nodes |-> Fresh]
    /\ master \in Redis /\ of = [n \in Redis |-> master]
    /\ data = [n \in Redis |-> {}] /\ inbox = [n \in Redis |-> {}]
    /\ faults = [n \in Nodes |-> None]
    /\ cmd = Idle /\ report = None
    /\ req = NoRequest /\ row = [k \in Keys |-> None]
    /\ used = 0 /\ spent = 0

Recorded == {n \in Nodes : faults[n] # None}
Reachable(n) == node[n].run = "running" /\ node[n].net
Linked(n) == Reachable(n) /\ of[n] # n /\ Reachable(of[n]) /\ node[n].auth

-----------------------------------------------------------------------------
(* Redis and Sentinel, as the laboratory relies on them. *)

(* A replica catches up, or is resynchronised: it ends with its master's keys. *)
Replicate(n) ==
    /\ Linked(n) /\ data[n] # data[of[n]]
    /\ data' = [data EXCEPT ![n] = data[of[n]]]
    /\ UNCHANGED <<node, of, inbox, master, faults, cmd, report, client, used, spent>>

(* Requests that waited in the socket of a paused node. *)
Drain(n) ==
    /\ Reachable(n) /\ inbox[n] # {}
    /\ data' = [data EXCEPT ![n] = IF of[n] = n THEN @ \cup inbox[n] ELSE @]
    /\ inbox' = [inbox EXCEPT ![n] = {}]
    /\ UNCHANGED <<node, of, master, faults, cmd, report, client, used, spent>>

Majority == 2 * Cardinality({s \in Sentinels : Reachable(s)}) > Cardinality(Sentinels)

(* Of the replicas that answer, one that is furthest ahead is promoted. *)
Promote(n) ==
    /\ Majority /\ ~ Reachable(master)
    /\ n # master /\ Reachable(n)
    /\ \A m \in Redis \ {master} : Reachable(m) => Cardinality(data[m]) <= Cardinality(data[n])
    /\ master' = n /\ of' = [of EXCEPT ![n] = n]
    /\ UNCHANGED <<node, data, inbox, faults, cmd, report, client, used, spent>>

(* A node that follows another master, or an old master that came back. *)
Reconfigure(n) ==
    /\ Majority /\ n # master /\ Reachable(n) /\ of[n] # master
    /\ of' = [of EXCEPT ![n] = master]
    /\ UNCHANGED <<node, data, inbox, master, faults, cmd, report, client, used, spent>>

-----------------------------------------------------------------------------
(* The client. *)

(* client.snapshot, topology_errors: one master, two linked replicas, every Sentinel agrees. *)
TopologyOk ==
    /\ \A n \in Nodes : Reachable(n)
    /\ \A n \in Redis : of[n] = master /\ (n # master => node[n].auth)

(* client.wait_ready: the topology, then SET, WAIT 2 and GET on one connection. *)
Ready == TopologyOk /\ \A n \in Redis : data[n] = data[master]

(* current_master: what a Sentinel says, confirmed by ROLE on the node itself. *)
MasterKnown == (\E s \in Sentinels : Reachable(s)) /\ Reachable(master) /\ of[master] = master

(* Altered: a SET without an answer counts as not sent. *)
ClassifyTimeout(stage, refused) == IF refused THEN "rejected" ELSE "not-sent"

(* What a failed SET proves: only the server's own refusal proves that nothing was written. *)
Classify(stage, refused) ==
    CASE stage = "write" /\ refused -> "rejected"
      [] stage = "connect" -> "not-sent"
      [] OTHER -> "uncertain"

(* The workload's requests go to Sentinel's master, or to one node with --mode fixed. *)
Connect(k, n) ==
    /\ req = NoRequest /\ row[k] = None
    /\ IF Reachable(n)
          THEN req' = [key |-> k, stage |-> "write", on |-> n] /\ row' = [row EXCEPT ![k] = "uncertain"]
          ELSE row' = [row EXCEPT ![k] = Classify("connect", FALSE)] /\ UNCHANGED req
    /\ UNCHANGED <<node, servers, faults, cmd, report, used, spent>>

Answer(k, outcome) == req' = NoRequest /\ row' = [row EXCEPT ![k] = outcome]

(* SET on the connection opened before: executed and answered, executed with the answer  *)
(* lost, refused by a replica, left in the socket of a paused node, or never received.   *)
Write ==
    /\ req.stage = "write"
    /\ LET k == req.key n == req.on
       IN  \/ /\ Reachable(n) /\ of[n] = n
              /\ data' = [data EXCEPT ![n] = @ \cup {k}] /\ UNCHANGED inbox
              /\ \/ Answer(k, "acknowledged")
                 \/ Answer(k, Classify("write", FALSE))
           \/ /\ Reachable(n) /\ of[n] # n
              /\ Answer(k, Classify("write", TRUE)) /\ UNCHANGED <<data, inbox>>
           \/ /\ node[n].run = "paused" /\ node[n].net
              /\ inbox' = [inbox EXCEPT ![n] = @ \cup {k}]
              /\ Answer(k, Classify("write", FALSE)) /\ UNCHANGED data
           \/ /\ ~ Reachable(n)
              /\ Answer(k, Classify("write", FALSE)) /\ UNCHANGED <<data, inbox>>
    /\ UNCHANGED <<node, of, master, faults, cmd, report, used, spent>>

(* core.verification_bucket on what a GET returned. *)
Bucket(k, present) ==
    CASE row[k] = "acknowledged" /\ present -> "acknowledged_present"
      [] row[k] = "acknowledged" /\ ~ present -> "acknowledged_missing"
      [] row[k] = "not-sent" -> IF present THEN "not_sent_but_present" ELSE "not_sent_absent"
      [] row[k] = "rejected" -> IF present THEN "rejected_but_present" ELSE "rejected_absent"
      [] OTHER -> "uncertain"

(* verify: what the run's requests look like on the node that answers. *)
Counted(buckets, n) == {k \in Keys : row[k] # None /\ Bucket(k, k \in data[n]) \in buckets}

Passed(n) ==
    /\ Counted({"acknowledged_present", "acknowledged_missing"}, n) # {}
    /\ Counted({"acknowledged_missing", "rejected_but_present", "not_sent_but_present"}, n) = {}

-----------------------------------------------------------------------------
(* Host commands of scripts/manage.py. *)

Command(op, n, at) == [Idle EXCEPT !.op = op, !.node = n, !.at = at]
Ends == cmd' = Idle

(* Any call of a command may fail, and the process may be killed between two calls. *)
Fails == spent < MaxFailures /\ spent' = spent + 1

Interrupt ==
    /\ cmd # Idle /\ Fails /\ Ends
    /\ \/ UNCHANGED report
       \/ cmd.op = "test" /\ report' = "FAIL"
    /\ UNCHANGED <<node, servers, faults, client, used>>

(* The record is written before the change. *)
RecordFault(c, a, n) == faults' = [faults EXCEPT ![n] = a] /\ cmd' = [c EXCEPT !.node = n, !.at = a]

(* Altered: a second fault on a node replaces the record of the first. *)
MayFaultAgain(a, n) ==
    /\ node[n].run # "stopped"
    /\ a = "auth-replica" => n \in Redis /\ of[n] # n
    /\ a = "isolate" => node[n].net

MayFault(a, n) ==
    /\ faults[n] = None /\ node[n].run = "running"
    /\ a = "auth-replica" => n \in Redis /\ of[n] # n
    /\ a = "isolate" => node[n].net

Fault(a, n) ==
    /\ cmd = Idle /\ used < MaxFaults /\ used' = used + 1
    /\ MayFault(a, n)
    /\ RecordFault(Command("fault", n, a), a, n)
    /\ UNCHANGED <<node, servers, report, client, spent>>

(* What the engine does to the container. *)
Broken(a, state) ==
    CASE a \in {"kill", "stop"} -> [state EXCEPT !.run = "stopped"]
      [] a = "pause" -> [state EXCEPT !.run = "paused"]
      [] a = "isolate" -> [state EXCEPT !.net = FALSE]
      [] a = "auth-replica" -> [state EXCEPT !.auth = FALSE]

(* A process that ends loses the requests in its sockets, never its append-only file. *)
Dropped(n) == inbox' = IF n \in Redis THEN [inbox EXCEPT ![n] = {}] ELSE inbox

Next1(at) == IF cmd.op = "test" THEN cmd' = [cmd EXCEPT !.at = at] ELSE Ends

InjectFault ==
    /\ cmd.op \in {"fault", "test"} /\ cmd.at \in Actions
    /\ \/ /\ node' = [node EXCEPT ![cmd.node] = Broken(cmd.at, @)]
          /\ Dropped(cmd.node) /\ Next1("poll") /\ UNCHANGED spent
       \/ /\ Fails /\ UNCHANGED <<node, inbox>>
          /\ IF cmd.op = "test" THEN cmd' = [cmd EXCEPT !.at = "unpause", !.failed = TRUE] ELSE Ends
    /\ UNCHANGED <<of, data, master, faults, report, client, used>>

(* recover: node by node, unpause, reconnect, start, reset the password, forget. *)
Recover(selected) ==
    /\ cmd = Idle /\ Recorded \cap selected # {}
    /\ \E n \in Recorded \cap selected :
         cmd' = [Command("recover", n, "unpause") EXCEPT !.rest = (Recorded \cap selected) \ {n}]
    /\ UNCHANGED <<node, servers, faults, report, client, used, spent>>

Step(at, next) == cmd.at = at /\ cmd' = [cmd EXCEPT !.at = next]
Unchanged == UNCHANGED <<of, data, master, report, client, used, spent>>

(* inspect: a container that no longer exists ends the command, its record stays. *)
NodeGone ==
    /\ cmd.at = "unpause" /\ node[cmd.node].run = "absent" /\ Ends
    /\ Unchanged /\ UNCHANGED <<node, faults, inbox>>

Unpause ==
    /\ Step("unpause", "connect") /\ node[cmd.node].run # "absent"
    /\ node' = [node EXCEPT ![cmd.node].run = IF @ = "paused" THEN "running" ELSE @]
    /\ Unchanged /\ UNCHANGED <<faults, inbox>>

(* connect_network: nothing to do when the node is on the network. *)
ConnectNetwork ==
    /\ Step("connect", "start")
    /\ node' = [node EXCEPT ![cmd.node].net = IF faults[cmd.node] = "isolate" THEN TRUE ELSE @]
    /\ Unchanged /\ UNCHANGED <<faults, inbox>>

(* container/entrypoint.sh: a restart keeps roles and data, and reads its own configuration. *)
Started(state) == [state EXCEPT !.run = "running", !.auth = TRUE]

StartNode ==
    /\ Step("start", "auth")
    /\ node' = [node EXCEPT ![cmd.node] = IF @.run = "stopped" THEN Started(@) ELSE @]
    /\ Unchanged /\ UNCHANGED <<faults, inbox>>

ResetAuth ==
    /\ Step("auth", "forget")
    /\ node' = [node EXCEPT ![cmd.node].auth = IF faults[cmd.node] = "auth-replica" THEN TRUE ELSE @]
    /\ Unchanged /\ UNCHANGED <<faults, inbox>>

(* Only now the record goes; the last one makes recover wait for the whole topology. *)
Forget ==
    /\ cmd.at = "forget"
    /\ faults' = [faults EXCEPT ![cmd.node] = None]
    /\ cmd' = CASE cmd.rest # {} -> [cmd EXCEPT !.node = CHOOSE n \in cmd.rest : TRUE,
                                                !.rest = cmd.rest \ {CHOOSE n \in cmd.rest : TRUE},
                                                !.at = "unpause"]
                [] cmd.rest = {} /\ cmd.op = "down" -> [cmd EXCEPT !.at = "compose"]
                [] cmd.rest = {} /\ cmd.op # "down" /\ Recorded = {cmd.node} -> [cmd EXCEPT !.at = "ready"]
                [] OTHER -> IF cmd.op = "test" THEN [cmd EXCEPT !.at = "check"] ELSE Idle
    /\ Unchanged /\ UNCHANGED <<node, inbox>>

(* client wait: until the topology is complete, or the budget is spent. *)
AwaitReady ==
    /\ cmd.at = "ready"
    /\ \/ Ready /\ Next1("check") /\ UNCHANGED spent
       \/ Fails /\ IF cmd.op = "test" THEN cmd' = [cmd EXCEPT !.at = "check", !.failed = TRUE] ELSE Ends
    /\ UNCHANGED <<node, servers, faults, report, client, used>>

(* down: recovers first without waiting, then compose removes the containers. *)
Down ==
    /\ cmd = Idle /\ used < MaxFaults /\ used' = used + 1
    /\ cmd' = IF Recorded = {} THEN Command("down", None, "compose")
              ELSE LET n == CHOOSE m \in Recorded : TRUE
                   IN  [Command("down", n, "unpause") EXCEPT !.rest = Recorded \ {n}]
    /\ UNCHANGED <<node, servers, faults, report, client, spent>>

Removed == node' = [n \in Nodes |-> [Fresh EXCEPT !.run = "absent"]]

ComposeDown ==
    /\ cmd.op = "down" /\ Step("compose", "clear")
    /\ Removed /\ inbox' = [n \in Redis |-> {}]
    /\ Unchanged /\ UNCHANGED faults

(* reset: no recovery, and the volumes go too. *)
ComposeReset ==
    /\ cmd = Idle /\ used < MaxFaults /\ used' = used + 1
    /\ cmd' = Command("reset", None, "clear")
    /\ Removed
    /\ \E m \in Redis : master' = m /\ of' = [n \in Redis |-> m]
    /\ data' = [n \in Redis |-> {}] /\ inbox' = [n \in Redis |-> {}]
    /\ req' = NoRequest /\ row' = [k \in Keys |-> None]
    /\ UNCHANGED <<faults, report, spent>>

ClearRecords ==
    /\ cmd.at = "clear" /\ Ends
    /\ faults' = [n \in Nodes |-> None]
    /\ Unchanged /\ UNCHANGED <<node, inbox>>

(* up: refused while a fault is recorded; containers are recreated on their volumes. *)
Up ==
    /\ cmd = Idle /\ Recorded = {} /\ \E n \in Nodes : node[n].run = "absent"
    /\ node' = [n \in Nodes |-> Fresh]
    /\ UNCHANGED <<servers, faults, cmd, report, client, used, spent>>

-----------------------------------------------------------------------------
(* test_failover *)

(* Altered: the test starts on top of recorded faults. *)
TestStartsAnyway == FALSE

TestRefuses == Recorded # {}

(* A new report replaces the last one before anything is tried. *)
TestStart ==
    /\ cmd = Idle /\ used < MaxFaults /\ used' = used + 1
    /\ \A n \in Redis : TestKey \notin data[n]
    /\ IF TestRefuses THEN report' = "FAIL" /\ UNCHANGED cmd
                      ELSE report' = "RUNNING" /\ cmd' = Command("test", None, "first")
    /\ UNCHANGED <<node, servers, faults, client, spent>>

(* client wait, then the master and SET of a new key on it. *)
TestBaseline ==
    /\ cmd.at = "first" /\ TopologyOk /\ MasterKnown
    /\ data' = [data EXCEPT ![master] = @ \cup {TestKey}]
    /\ cmd' = [cmd EXCEPT !.at = "confirm", !.before = master]
    /\ UNCHANGED <<node, of, inbox, master, faults, report, client, used, spent>>

(* WAIT 2: without both replicas no failure is injected. *)
TestKill ==
    /\ cmd.at = "confirm"
    /\ \A n \in Redis : TestKey \in data[n]
    /\ MayFault("kill", cmd.before) /\ RecordFault(cmd, "kill", cmd.before)
    /\ UNCHANGED <<node, servers, report, client, used, spent>>

(* A new master that has the key ends the poll. *)
TestPoll ==
    /\ cmd.at = "poll"
    /\ MasterKnown /\ master # cmd.before /\ TestKey \in data[master]
    /\ cmd' = [cmd EXCEPT !.after = master, !.at = "unpause"]
    /\ UNCHANGED <<node, servers, faults, report, client, used, spent>>

(* The poll's budget is spent: the test has failed, and still recovers. *)
TestPollTimeout ==
    /\ cmd.at = "poll" /\ Fails
    /\ cmd' = [cmd EXCEPT !.failed = TRUE, !.at = "unpause"]
    /\ UNCHANGED <<node, servers, faults, report, client, used>>

(* The finally block: PASS only without an error of the test or of the recovery. *)
TestPasses == ~ cmd.failed /\ MasterKnown /\ master = cmd.after

TestFinish ==
    /\ cmd.at = "check" /\ Ends
    /\ report' = IF TestPasses THEN "PASS" ELSE "FAIL"
    /\ UNCHANGED <<node, servers, faults, client, used, spent>>

-----------------------------------------------------------------------------
Servers == \E n \in Redis : Replicate(n) \/ Drain(n) \/ Promote(n) \/ Reconfigure(n)
Client == (\E k \in Keys, n \in Redis : Connect(k, n)) \/ Write
Faulting == (\E a \in Actions, n \in Nodes : Fault(a, n)) \/ InjectFault
Recovering ==
    \/ \E selected \in {Nodes} \cup {{n} : n \in Nodes} : Recover(selected)
    \/ NodeGone \/ Unpause \/ ConnectNetwork \/ StartNode \/ ResetAuth \/ Forget \/ AwaitReady
Lifecycle == Down \/ ComposeDown \/ ComposeReset \/ ClearRecords \/ Up
Testing == TestStart \/ TestBaseline \/ TestKill \/ TestPoll \/ TestPollTimeout \/ TestFinish

Next == Servers \/ Client \/ Faulting \/ Recovering \/ Lifecycle \/ Testing \/ Interrupt

Spec == Init /\ [][Next]_vars

-----------------------------------------------------------------------------
TypeOK ==
    /\ node \in [Nodes -> [run : {"running", "paused", "stopped", "absent"}, net : BOOLEAN, auth : BOOLEAN]]
    /\ of \in [Redis -> Redis] /\ master \in Redis
    /\ data \in [Redis -> SUBSET Written] /\ inbox \in [Redis -> SUBSET Keys]
    /\ faults \in [Nodes -> Actions \cup {None}]
    /\ report \in {None, "RUNNING", "PASS", "FAIL"}
    /\ row \in [Keys -> Outcomes \cup {None}]

(* No request that the client journals as rejected or not sent ever turns up on a node, though *)
(* a paused master may have kept it in its socket or a demoted one executed it late; so,       *)
(* whichever node answers, verify passes a run exactly when something was acknowledged and all *)
(* of it is there.                                                                             *)
OutcomesAreTruthful ==
    \A n \in Redis :
        /\ \A k \in Keys : row[k] \in {"rejected", "not-sent"} => k \notin data[n] \cup inbox[n]
        /\ Passed(n) <=> LET acknowledged == {k \in Keys : row[k] = "acknowledged"}
                         IN  acknowledged # {} /\ acknowledged \subseteq data[n]

(* A failover test reports PASS only when the Sentinels agree on another master than the one *)
(* it killed, its key is on every node, the old master follows, and no fault is recorded.    *)
TestIsHonest ==
    [][report # "PASS" /\ report' = "PASS" =>
         /\ master = cmd.after /\ cmd.after # cmd.before /\ of[cmd.before] = master
         /\ \A n \in Redis : TestKey \in data[n]
         /\ Recorded = {} /\ TopologyOk]_vars

Damaged(n) == node[n].run \in {"paused", "stopped"} \/ ~ node[n].net \/ ~ node[n].auth

Journal(n) ==
    INSTANCE FaultJournal WITH
        open <- faults[n] # None,
        effects <- IF Damaged(n) THEN {"fault"} ELSE {},
        Effects <- {"fault"}, Residual <- {}

(* faults.json keeps the promise of FaultJournal for every node: a fault is recorded before  *)
(* the engine is asked, and the record goes only when the node is whole again, across failed *)
(* calls, interrupted commands, down and reset.                                              *)
JournalSpec ==
    [][\A n \in Nodes : Journal(n)!Next \/ UNCHANGED <<faults[n] # None, Damaged(n)>>]_vars
=============================================================================
