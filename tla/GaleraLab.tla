------------------------------ MODULE GaleraLab ------------------------------
(***************************************************************************)
(* The MariaDB Galera laboratory (src/mariadb-ha-lab): the life cycle of    *)
(* the cluster (scripts/lab.py, scripts/state.py, images/node/entrypoint.sh)*)
(* and the incident scenarios (scripts/scenarios.py, scenario_worker.py).   *)
(* .state/operation.lock admits one host command at a time; a command may   *)
(* stop between any two calls, a node may crash, clients write meanwhile.   *)
(*                                                                         *)
(* disk     what a node's volumes hold: initialisation, grastate.dat (uuid, *)
(*          seqno, safe), the bootstrap token, the committed transactions   *)
(* proc     a node's container, whether mariadbd was told to bootstrap, the *)
(*          primary view it last installed, whether a scenario hurt it      *)
(* count    NODE_COUNT in .env;  acked: transactions answered to a client   *)
(* cmd      the host command;  journal: .state/scenario-pending.json        *)
(* worker   the scenario worker in the first node;  logging: that node's    *)
(*          global slow-log settings are changed;  report: summary.json     *)
(***************************************************************************)
EXTENDS Integers, FiniteSets, Sequences

CONSTANTS Order,         \* every node, galera1 first
          MinNodes,      \* fewest nodes "scale" accepts
          MaxTxns,       \* bound: transactions
          MaxWrites,     \* bound: an application writes while there are fewer transactions
          MaxCommands,   \* bound: host commands
          MaxFailures,   \* bound: crashes, failed calls, interrupted commands
          Window         \* TRUE: a command may stop between authorising a bootstrap and starting it

VARIABLES disk, proc, count, acked, cmd, journal, worker, logging, report, used, spent

vars == <<disk, proc, count, acked, cmd, journal, worker, logging, report, used, spent>>
incident == <<journal, worker, logging, report>>

ASSUME GaleraAssumption ==
    /\ Order \in Seq({Order[i] : i \in 1..Len(Order)}) /\ Len(Order) \in Nat \ {0}
    /\ \A i, j \in 1..Len(Order) : Order[i] = Order[j] => i = j
    /\ MinNodes \in 1..Len(Order) /\ MaxTxns \in Nat /\ Window \in BOOLEAN

None == "none"
Nodes == {Order[i] : i \in 1..Len(Order)}
NODES == {Order[i] : i \in 1..count}
Leader == Order[1]
Index(n) == CHOOSE i \in 1..Len(Order) : Order[i] = n
First(S) == CHOOSE n \in S : \A m \in S : Index(n) <= Index(m)
Last(S) == CHOOSE n \in S : \A m \in S : Index(n) >= Index(m)

Empty == [init |-> None, uuid |-> 0, seqno |-> -1, safe |-> FALSE, token |-> FALSE, data |-> {}]
Off == [run |-> "stopped", boot |-> FALSE, view |-> {}, hurt |-> FALSE]
Idle == [op |-> None, at |-> None, node |-> None, todo |-> {}, ids |-> {}, seen |-> {}, status |-> None, err |-> FALSE]
NoJournal == [open |-> FALSE, nodes |-> {}, logging |-> FALSE, worker |-> FALSE]
NewJournal == [NoJournal EXCEPT !.open = TRUE]
Faults == {"node-failure", "node-hang", "quorum"}

(* A new laboratory, or one whose first "up" has finished. *)
Init ==
    /\ count \in MinNodes..Len(Order) /\ acked = {}
    /\ \/ disk = [n \in Nodes |-> Empty] /\ proc = [n \in Nodes |-> Off]
       \/ /\ disk = [n \in Nodes |-> IF n \in NODES THEN [Empty EXCEPT !.init = "complete", !.uuid = 1] ELSE Empty]
          /\ proc = [n \in Nodes |-> IF n \in NODES THEN [Off EXCEPT !.run = "running", !.view = NODES] ELSE Off]
    /\ cmd = Idle /\ journal = NoJournal /\ worker = None /\ logging = FALSE /\ report = None
    /\ used = 0 /\ spent = 0

-----------------------------------------------------------------------------
(* Galera, as the laboratory relies on it. *)

Running(n) == proc[n].run = "running"
Stopped(n) == proc[n].run = "stopped"
Reached(V) == {m \in V : Running(m) /\ proc[m].view = V}
Primary(V) == 2 * Cardinality(Reached(V)) > Cardinality(V)

(* health.is_ready: SQL answers, Primary and Synced. *)
Ready(n) == Running(n) /\ Primary(proc[n].view)
HealthyNode == \E n \in NODES : Ready(n)
ReadySize(n, size) == Ready(n) /\ Cardinality(proc[n].view) = size

(* health_all, verify, check_health: every node of .env, one size, one history. *)
AllReady ==
    /\ \A n \in NODES : ReadySize(n, count)
    /\ \A m, n \in NODES : disk[m].uuid = disk[n].uuid

Install(S, V) == [m \in Nodes |-> IF m \in S THEN [proc[m] EXCEPT !.view = V] ELSE proc[m]]

(* The members that still answer go on without the others if they are a majority. *)
Evict(n) ==
    LET V == proc[n].view R == Reached(V)
    IN  /\ Ready(n) /\ R # V
        /\ proc' = Install(R, R)
        /\ UNCHANGED <<disk, count, acked, cmd, incident, used, spent>>

(* entrypoint.sh: system tables are created with wsrep off, then the marker is written. *)
InitDone(n) ==
    /\ Running(n) /\ disk[n].init = "partial"
    /\ disk' = [disk EXCEPT ![n].init = "complete"]
    /\ UNCHANGED <<proc, count, acked, cmd, incident, used, spent>>

InUse(d) == [d EXCEPT !.seqno = -1, !.safe = FALSE]

(* mariadbd --wsrep-new-cluster: refused by Galera when grastate says it is not safe. *)
Bootstrap(n) ==
    /\ Running(n) /\ disk[n].init = "complete" /\ proc[n].boot
    /\ IF disk[n].uuid = 0 \/ disk[n].safe
          THEN /\ proc' = [proc EXCEPT ![n].boot = FALSE, ![n].view = {n}]
               /\ disk' = [disk EXCEPT ![n] = InUse([@ EXCEPT !.uuid = IF disk[n].uuid = 0 THEN 1 ELSE disk[n].uuid])]
          ELSE proc' = [proc EXCEPT ![n] = Off] /\ UNCHANGED disk
    /\ UNCHANGED <<count, acked, cmd, incident, used, spent>>

(* A node enters a primary view by state transfer, or finds the rest of the view it was in. *)
Join(n, m) ==
    LET W == proc[m].view
        R == Reached(W) \cup {n}
    IN  /\ Running(n) /\ disk[n].init = "complete" /\ ~ proc[n].boot /\ ~ Primary(proc[n].view)
        /\ Running(m) /\ W # {}
        /\ \/ n \notin W /\ Primary(W) /\ proc' = Install(R, W \cup {n})
           \/ n \in W /\ W \subseteq proc[n].view /\ W # proc[n].view /\ proc' = Install({n}, W)
        /\ disk' = [disk EXCEPT ![n] = InUse([@ EXCEPT !.uuid = disk[m].uuid, !.data = disk[m].data])]
        /\ UNCHANGED <<count, acked, cmd, incident, used, spent>>

Txns == acked \cup UNION {disk[n].data : n \in Nodes}
NewTxn == Cardinality(Txns) + 1

(* A commit reaches the whole view; it waits while a member does not answer. *)
Committed(n) ==
    /\ Ready(n) /\ Reached(proc[n].view) = proc[n].view /\ NewTxn <= MaxTxns
    /\ disk' = [m \in Nodes |-> IF m \in proc[n].view THEN [disk[m] EXCEPT !.data = @ \cup {NewTxn}] ELSE disk[m]]

Client(n) ==
    /\ Cardinality(Txns) < MaxWrites /\ Committed(n) /\ acked' \in {acked, acked \cup {NewTxn}}
    /\ UNCHANGED <<proc, count, cmd, incident, used, spent>>

-----------------------------------------------------------------------------
(* What the container engine does to one node. *)

(* A stopped server takes its settings and the worker in its container with it. *)
ServerGone(n) ==
    /\ worker' = IF n = Leader THEN None ELSE worker
    /\ logging' = (logging /\ n # Leader)

(* engine stop: a member leaves its view; the last one of a primary view is safe. *)
Leave(n) ==
    LET V == proc[n].view
    IN  /\ disk' = IF V = {} THEN disk
                   ELSE [disk EXCEPT ![n].seqno = Cardinality(disk[n].data), ![n].safe = (V = {n})]
        /\ proc' = [Install(IF Primary(V) THEN Reached(V) \ {n} ELSE {}, V \ {n}) EXCEPT ![n] = [Off EXCEPT !.hurt = proc[n].hurt]]
        /\ ServerGone(n)

KillNode(n, hurt) == proc' = [proc EXCEPT ![n] = [Off EXCEPT !.hurt = hurt]] /\ ServerGone(n) /\ UNCHANGED disk
PauseNode(n, hurt) == proc' = [proc EXCEPT ![n].run = "paused", ![n].hurt = hurt] /\ UNCHANGED <<disk, worker, logging>>
Unpause(n) == proc' = [proc EXCEPT ![n].run = "running", ![n].hurt = FALSE] /\ UNCHANGED <<disk, worker, logging>>

(* compose up: the entry point consumes the token first and refuses a partial initialisation. *)
StartNode(n) ==
    /\ Stopped(n)
    /\ disk' = [disk EXCEPT ![n].token = FALSE, ![n].init = IF @ = None THEN "partial" ELSE @]
    /\ proc' = [proc EXCEPT ![n] = IF disk[n].init = "partial" THEN [Off EXCEPT !.hurt = proc[n].hurt]
                                   ELSE [Off EXCEPT !.run = "running", !.boot = disk[n].token]]
    /\ UNCHANGED <<worker, logging>>

Crash(n) ==
    /\ ~ Stopped(n) /\ spent < MaxFailures /\ spent' = spent + 1
    /\ KillNode(n, proc[n].hurt)
    /\ UNCHANGED <<count, acked, cmd, journal, report, used>>

-----------------------------------------------------------------------------
(* Bootstrap decisions. *)

Initialised == {n \in NODES : disk[n].init # None}

(* lab.select_safe_node *)
SelectSafe(n) ==
    IF Initialised = {} THEN n = Leader
    ELSE /\ \A m \in Initialised : disk[m].init = "complete" /\ disk[m].seqno >= 0
         /\ {m \in Initialised : disk[m].safe} = {n}
         /\ \A m \in Initialised : disk[m].uuid = disk[n].uuid /\ disk[m].seqno <= disk[n].seqno
         /\ disk[n].uuid # 0

(* state.recovered_position: what InnoDB really holds, whatever grastate says. *)
Position(n) == Cardinality(disk[n].data)

(* Altered: the first node is taken to be the most advanced. *)
SelectFirst(n) == NODES = Initialised /\ n = Leader /\ \A m \in NODES : disk[m].uuid # 0

(* lab.select_recovered_node: every node has a position in one history; the furthest, first in order. *)
SelectRecovered(n) ==
    /\ \A m \in NODES : disk[m].init = "complete" /\ disk[m].uuid # 0 /\ disk[m].uuid = disk[n].uuid
    /\ n = First({m \in NODES : \A k \in NODES : Position(k) <= Position(m)})

(* state.py authorize-new, -safe, -recovered. *)
Authorized(n, op) ==
    [disk EXCEPT ![n] = IF op = "recover" THEN [@ EXCEPT !.token = TRUE, !.safe = TRUE, !.seqno = Position(n)]
                        ELSE [@ EXCEPT !.token = TRUE]]

-----------------------------------------------------------------------------
(* Host commands. *)

Command(op, at) == [Idle EXCEPT !.op = op, !.at = at]
Goto(at) == cmd' = [cmd EXCEPT !.at = at]
End == cmd' = Idle
Free == cmd = Idle /\ used < MaxCommands /\ used' = used + 1
Begin(c) == Free /\ cmd' = c /\ UNCHANGED <<disk, proc, count, acked, incident, spent>>
Quiet == UNCHANGED <<count, acked, journal, report, used, spent>>
NoEffect == UNCHANGED <<disk, proc, count, acked, incident, used, spent>>

(* One node after the other: resumed if it is paused, then stopped. *)
StopNext(n) == IF Running(n) THEN Leave(n) ELSE Unpause(n)
Up == {n \in NODES : ~ Stopped(n)}

BeginUp == Begin(Command("up", "up"))

(* Lab.up: nodes that run decide for themselves; only an entirely stopped cluster is bootstrapped. *)
UpDecide ==
    /\ cmd.at = "up" /\ NoEffect
    /\ \/ Up = {} /\ \E n \in NODES : SelectSafe(n) /\ cmd' = [cmd EXCEPT !.at = "authorize", !.node = n]
       \/ Up = {} /\ (\A n \in NODES : ~ SelectSafe(n)) /\ End
       \/ Up # {} /\ HealthyNode /\ Goto("others")
       \/ Up # {} /\ ~ HealthyNode /\ End

(* Lab.recover --execute: positions, candidate, and the same again before authorising. *)
BeginRecover(n) ==
    /\ Up = {} /\ SelectRecovered(n)
    /\ Begin([Command("recover", "authorize") EXCEPT !.node = n])

Authorize ==
    /\ cmd.at = "authorize" /\ disk' = Authorized(cmd.node, cmd.op)
    /\ Goto("launch") /\ UNCHANGED <<proc, worker, logging>> /\ Quiet

Launch == cmd.at = "launch" /\ StartNode(cmd.node) /\ Goto("alone") /\ Quiet

(* Lab.wait: until the deadline, or the container stops. *)
WaitAlone ==
    /\ cmd.at = "alone" /\ NoEffect
    /\ \/ ReadySize(cmd.node, 1) /\ cmd' = Command("up", IF cmd.op = "recover" THEN "up" ELSE "others")
       \/ ~ ReadySize(cmd.node, 1) /\ End

(* The rest of up: every other node joins in order, then all must agree on the size. *)
UpOthers ==
    /\ cmd.at = "others"
    /\ LET idle == {n \in NODES : ~ Running(n)}
       IN  \/ idle = {} /\ End /\ NoEffect
           \/ idle # {} /\ ~ Stopped(First(idle)) /\ End /\ NoEffect
           \/ idle # {} /\ StartNode(First(idle)) /\ cmd' = [cmd EXCEPT !.at = "joined", !.node = First(idle)] /\ Quiet

WaitJoined ==
    /\ cmd.at = "joined" /\ NoEffect
    /\ \/ Ready(cmd.node) /\ Goto("others")
       \/ ~ Ready(cmd.node) /\ End

(* down and reset: the last node first; reset then deletes every volume of the project. *)
BeginDown(op) == Begin(Command(op, "down"))

Down ==
    /\ cmd.at = "down"
    /\ \/ /\ Up # {} /\ StopNext(Last(Up)) /\ UNCHANGED cmd /\ Quiet
       \/ Up = {} /\ cmd.op = "down" /\ End /\ NoEffect
       \/ /\ Up = {} /\ cmd.op = "reset" /\ End
          /\ disk' = [n \in Nodes |-> Empty] /\ proc' = [n \in Nodes |-> Off] /\ acked' = {}
          /\ worker' = None /\ logging' = FALSE /\ UNCHANGED <<count, journal, report, used, spent>>

(* scale: removed nodes stop from the last one on, then NODE_COUNT is written. *)
BeginScale(k) ==
    /\ k \in MinNodes..(count - 1) /\ Up = NODES
    /\ Begin([Command("scale", "scale") EXCEPT !.todo = {Order[i] : i \in (k + 1)..count}])

ScaleUp(k) == Free /\ k \in (count + 1)..Len(Order) /\ count' = k /\ UNCHANGED <<disk, proc, acked, cmd, incident, spent>>

Scale ==
    /\ cmd.at = "scale"
    /\ LET on == {n \in cmd.todo : ~ Stopped(n)}
       IN  IF on # {} THEN StopNext(Last(on)) /\ UNCHANGED cmd /\ Quiet
           ELSE count' = count - Cardinality(cmd.todo) /\ End /\ UNCHANGED <<disk, proc, acked, incident, used, spent>>

(* rebuild: the others are ready before the node stops and again before its volumes are wiped. *)
OthersReady(n) == \A m \in NODES \ {n} : Ready(m)
BeginRebuild(n) == OthersReady(n) /\ Begin([Command("rebuild", "rebuild") EXCEPT !.node = n])

Rebuild ==
    /\ cmd.at = "rebuild"
    /\ \/ ~ Stopped(cmd.node) /\ StopNext(cmd.node) /\ UNCHANGED cmd /\ Quiet
       \/ Stopped(cmd.node) /\ ~ OthersReady(cmd.node) /\ End /\ NoEffect
       \/ /\ Stopped(cmd.node) /\ OthersReady(cmd.node)
          /\ disk' = [disk EXCEPT ![cmd.node] = Empty] /\ Goto("restart")
          /\ UNCHANGED <<proc, worker, logging>> /\ Quiet

Restart == cmd.at = "restart" /\ StartNode(cmd.node) /\ End /\ Quiet

(* stop, kill, pause, resume and start of one node; start needs a primary component. *)
Verb(n) ==
    /\ Free /\ UNCHANGED <<count, acked, cmd, journal, report, spent>>
    /\ \/ Running(n) /\ Leave(n)
       \/ Running(n) /\ KillNode(n, FALSE)
       \/ Running(n) /\ PauseNode(n, FALSE)
       \/ proc[n].run = "paused" /\ Unpause(n)
       \/ HealthyNode /\ StartNode(n)

(* A command that is killed, or whose call fails, leaves everything where it is. *)
Interrupt ==
    /\ cmd.op \in {"up", "recover", "down", "reset", "scale", "rebuild"}
    /\ Window \/ cmd.at # "launch"
    /\ spent < MaxFailures /\ spent' = spent + 1 /\ End
    /\ UNCHANGED <<disk, proc, count, acked, incident, used>>

-----------------------------------------------------------------------------
(* Incident scenarios: Runner.execute and what it calls. *)

Affected(op, n) == IF op = "quorum" THEN {Order[2], Order[3]} ELSE {n}
Observer == First(NODES \ cmd.todo)

(* preflight, then begin: the recovery record and a report that says "running". *)
BeginScenario(op, n) ==
    /\ Free /\ AllReady /\ ~ journal.open
    /\ op = "quorum" => {Order[2], Order[3]} \subseteq NODES
    /\ journal' = NewJournal /\ report' = "running"
    /\ cmd' = [Command(op, IF op = "slow" THEN "remember" ELSE "before") EXCEPT !.todo = Affected(op, n)]
    /\ UNCHANGED <<disk, proc, count, acked, worker, logging, spent>>

(* Every exit of the try block, Ctrl-C and SIGTERM included, goes through recover_pending. *)
Settle(status) == [cmd EXCEPT !.at = "resume", !.status = status, !.err = FALSE]
StillRuns == UNCHANGED <<disk, proc, count, acked, worker, logging, used>>

(* remember_logging: the original settings are on disk before a worker changes them. *)
Remember ==
    /\ cmd.at = "remember" /\ StillRuns /\ UNCHANGED <<report, spent>>
    /\ \/ Running(Leader) /\ journal' = [journal EXCEPT !.logging = TRUE] /\ Goto("spawn")
       \/ ~ Running(Leader) /\ cmd' = Settle("failed") /\ UNCHANGED journal

(* Runner.worker: the record names the worker before engine exec starts it. *)
Spawn ==
    /\ cmd.at = "spawn" /\ journal' = [journal EXCEPT !.worker = TRUE]
    /\ IF Running(Leader) THEN worker' = "begun" /\ Goto("work") ELSE UNCHANGED worker /\ cmd' = Settle("failed")
    /\ UNCHANGED <<disk, proc, count, acked, logging, report, used, spent>>

(* slow_work in the container: changes the global settings and restores them in its finally. *)
WorkerChanges ==
    /\ worker = "begun" /\ Running(Leader) /\ worker' = "logging" /\ logging' = TRUE
    /\ UNCHANGED <<disk, proc, count, acked, cmd, journal, report, used, spent>>

WorkerEnds ==
    /\ worker = "logging" /\ Running(Leader) /\ logging' = FALSE
    /\ worker' = IF cmd.at = "work" THEN "done" ELSE None
    /\ UNCHANGED <<disk, proc, count, acked, cmd, journal, report, used, spent>>

(* The worker is killed: nothing restores the settings. *)
WorkerDies ==
    /\ worker \in {"begun", "logging"} /\ worker' = None
    /\ spent < MaxFailures /\ spent' = spent + 1
    /\ UNCHANGED <<disk, proc, count, acked, cmd, journal, logging, report, used>>

(* The host reads the worker's answer; no JSON is a failure and the record keeps the worker. *)
Work ==
    /\ cmd.at = "work" /\ worker \in {"done", None} /\ worker' = None
    /\ IF worker = "done" THEN journal' = [journal EXCEPT !.worker = FALSE] /\ cmd' = Settle("passed")
       ELSE UNCHANGED journal /\ cmd' = Settle("failed")
    /\ UNCHANGED <<disk, proc, count, acked, logging, report, used, spent>>

(* fault_probe: a write through the proxy; without an answer its fate is unknown. *)
Acknowledged(n) == Committed(n) /\ acked' = acked \cup {NewTxn}
Unanswered == UNCHANGED <<disk, acked>> \/ \E n \in NODES : Committed(n) /\ UNCHANGED acked
ProbeRest == UNCHANGED <<proc, count, worker, logging, used, spent>>

ProbeBefore ==
    /\ cmd.at = "before" /\ ProbeRest /\ UNCHANGED <<journal, report>>
    /\ \/ \E n \in NODES : Acknowledged(n) /\ cmd' = [cmd EXCEPT !.at = "note", !.ids = {NewTxn}]
       \/ Unanswered /\ cmd' = Settle("failed")

(* The affected nodes are recorded before the first of them is touched. *)
Note ==
    /\ cmd.at = "note" /\ Goto("disrupt") /\ journal' = [journal EXCEPT !.nodes = cmd.todo]
    /\ StillRuns /\ UNCHANGED <<report, spent>>

Harmed == {n \in journal.nodes : proc[n].hurt}

Disrupt(n) ==
    /\ cmd.at = "disrupt" /\ n \in cmd.todo \ Harmed /\ n = First(cmd.todo \ Harmed) /\ Running(n)
    /\ IF cmd.op = "node-failure" THEN KillNode(n, TRUE) ELSE PauseNode(n, TRUE)
    /\ IF Harmed \cup {n} = cmd.todo THEN Goto("during") ELSE UNCHANGED cmd
    /\ Quiet

(* While the fault lasts: a probe, then a look at every node. *)
ProbeDuring ==
    /\ cmd.at = "during" /\ ProbeRest /\ UNCHANGED <<journal, report>>
    /\ \/ \E n \in NODES : Acknowledged(n) /\ cmd' = [cmd EXCEPT !.ids = @ \cup {NewTxn}, !.seen = @ \cup {"survivor"}]
       \/ /\ Unanswered
          /\ cmd' = IF Running(Observer) /\ ~ Ready(Observer) THEN [cmd EXCEPT !.seen = @ \cup {"rejected"}] ELSE cmd

HoldEnds == cmd.at = "during" /\ cmd' = Settle("held") /\ NoEffect

(* After the recovery: a probe, the stored request ids of every node, the verdict. *)
Observed(op, seen) == IF op = "quorum" THEN "rejected" \in seen ELSE "survivor" \in seen

Reconcile ==
    /\ cmd.at = "after" /\ journal' = NewJournal /\ ProbeRest /\ UNCHANGED report
    /\ \/ /\ Unanswered /\ cmd' = Settle("failed")
       \/ /\ UNCHANGED <<disk, acked>> /\ ~ AllReady /\ cmd' = Settle("failed")
       \/ \E n \in NODES :
             /\ AllReady /\ Acknowledged(n)
             /\ LET ids == cmd.ids \cup {NewTxn}
                    good == Observed(cmd.op, cmd.seen) /\ \A m \in NODES : ids \subseteq disk'[m].data
                IN  cmd' = [Settle(IF good THEN "passed" ELSE "failed") EXCEPT !.ids = ids]

(* A failed call or Ctrl-C ends in recovery; SIGKILL ends the command at once. *)
ScenarioStops ==
    /\ cmd.op \in Faults \cup {"slow", "repair"} /\ spent < MaxFailures /\ spent' = spent + 1
    /\ \/ cmd.op # "repair" /\ cmd.status = None /\ cmd' = Settle("interrupted")
       \/ End
    /\ StillRuns /\ UNCHANGED <<journal, report>>

-----------------------------------------------------------------------------
(* recover_pending: errors are collected and keep the record. *)

BeginRepair ==
    /\ journal.open /\ journal.nodes \subseteq NODES
    /\ Begin([Command("repair", "resume") EXCEPT !.status = "repair"])

Paused == {n \in journal.nodes : proc[n].run = "paused"}
Halted == {n \in journal.nodes : Stopped(n)}

RepairResume ==
    /\ cmd.at = "resume"
    /\ \/ \E n \in Paused : Unpause(n) /\ UNCHANGED cmd /\ Quiet
       \/ Paused = {} /\ Goto("revive") /\ NoEffect

(* Never a bootstrap: a stopped node is started only beside a primary component. *)
RepairStart ==
    /\ cmd.at = "revive"
    /\ \/ HealthyNode /\ (\E n \in Halted : StartNode(n)) /\ UNCHANGED cmd /\ Quiet
       \/ (Halted = {} \/ ~ HealthyNode) /\ cmd' = [cmd EXCEPT !.at = "cancel", !.err = @ \/ Halted # {}] /\ NoEffect

(* cancel_worker: SIGTERM to the leased process, which restores the settings on its way out. *)
RepairCancel ==
    /\ cmd.at = "cancel" /\ UNCHANGED <<disk, proc, count, acked, report, used, spent>>
    /\ IF journal.worker
          THEN IF Running(Leader)
                  THEN /\ worker' = None /\ logging' = (logging /\ worker # "logging")
                       /\ journal' = [journal EXCEPT !.worker = FALSE] /\ Goto("logging")
                  ELSE cmd' = [cmd EXCEPT !.at = "wait", !.err = TRUE] /\ UNCHANGED <<journal, worker, logging>>
          ELSE Goto("logging") /\ UNCHANGED <<journal, worker, logging>>

RepairLogging ==
    /\ cmd.at = "logging" /\ UNCHANGED <<disk, proc, count, acked, worker, report, used, spent>>
    /\ IF journal.logging /\ Running(Leader)
          THEN journal' = [journal EXCEPT !.logging = FALSE] /\ logging' = FALSE /\ Goto("wait")
          ELSE cmd' = [cmd EXCEPT !.at = "wait", !.err = @ \/ journal.logging] /\ UNCHANGED <<journal, logging>>

RepairWait ==
    /\ cmd.at = "wait" /\ StillRuns /\ UNCHANGED <<report, spent>>
    /\ IF journal.nodes = {} \/ (AllReady /\ count = 3)
          THEN journal' = [journal EXCEPT !.nodes = {}] /\ Goto("unlink")
          ELSE cmd' = [cmd EXCEPT !.at = "unlink", !.err = TRUE] /\ UNCHANGED journal

(* Altered: errors are reported and the record goes all the same. *)
MayUnlinkAnyway(err) == TRUE

MayUnlink(err) == ~ err

(* Altered: an unfinished recovery does not change the verdict. *)
VerdictAnyway(status, err) == status

Verdict(status, err) == IF err THEN "recovery-needed" ELSE status

(* The record goes last; a fault's own recovery that failed is tried once more. *)
RepairEnds ==
    /\ cmd.at = "unlink"
    /\ journal' = IF MayUnlink(cmd.err) THEN NoJournal ELSE journal
    /\ IF cmd.status = "held" THEN cmd' = IF cmd.err THEN Settle("failed") ELSE [cmd EXCEPT !.at = "after"]
       ELSE End
    /\ report' = IF cmd.status \in {"held", "repair"} THEN report ELSE Verdict(cmd.status, cmd.err)
    /\ UNCHANGED <<disk, proc, count, acked, worker, logging, used, spent>>

-----------------------------------------------------------------------------
GaleraStep == \E n \in Nodes : Evict(n) \/ InitDone(n) \/ Bootstrap(n) \/ Client(n) \/ Crash(n) \/ \E m \in Nodes : Join(n, m)

LifeCycle ==
    \/ BeginUp \/ UpDecide \/ Authorize \/ Launch \/ WaitAlone \/ UpOthers \/ WaitJoined
    \/ (\E op \in {"down", "reset"} : BeginDown(op)) \/ Down
    \/ (\E k \in 1..Len(Order) : BeginScale(k) \/ ScaleUp(k)) \/ Scale
    \/ (\E n \in NODES : BeginRecover(n) \/ BeginRebuild(n) \/ Verb(n)) \/ Rebuild \/ Restart \/ Interrupt

Scenario ==
    \/ \E op \in Faults \cup {"slow"}, n \in NODES : BeginScenario(op, n)
    \/ Remember \/ Spawn \/ WorkerChanges \/ WorkerEnds \/ WorkerDies \/ Work
    \/ ProbeBefore \/ Note \/ (\E n \in NODES : Disrupt(n)) \/ ProbeDuring \/ HoldEnds \/ Reconcile \/ ScenarioStops

Repair == BeginRepair \/ RepairResume \/ RepairStart \/ RepairCancel \/ RepairLogging \/ RepairWait \/ RepairEnds

Next == GaleraStep \/ LifeCycle \/ Scenario \/ Repair

Spec == Init /\ [][Next]_vars

-----------------------------------------------------------------------------
(* Type invariant. *)
TypeOK ==
    /\ disk \in [Nodes -> [init : {None, "partial", "complete"}, uuid : {0, 1}, seqno : -1..MaxTxns,
                           safe : BOOLEAN, token : BOOLEAN, data : SUBSET (1..MaxTxns)]]
    /\ proc \in [Nodes -> [run : {"running", "paused", "stopped"}, boot : BOOLEAN, view : SUBSET Nodes, hurt : BOOLEAN]]
    /\ count \in 1..Len(Order) /\ acked \subseteq 1..MaxTxns
    /\ journal \in [open : BOOLEAN, nodes : SUBSET Nodes, logging : BOOLEAN, worker : BOOLEAN]
    /\ worker \in {None, "begun", "logging", "done"} /\ logging \in BOOLEAN
    /\ report \in {None, "running", "passed", "failed", "interrupted", "recovery-needed"}

(* Whatever up, recover, rebuild, scale and the scenarios do to the nodes, and wherever they  *)
(* stop, a node that serves as Primary and Synced holds every transaction that was answered:  *)
(* no bootstrap chooses a node that is behind.                                                 *)
PrimaryHoldsEveryAnswer == \A n \in Nodes : Ready(n) => acked \subseteq disk[n].data

(* "existing Primary component required, never bootstrap one random node": the nodes that     *)
(* serve are members of one primary component.                                                *)
OnePrimary == \A m, n \in Nodes : Ready(m) /\ Ready(n) => proc[m].view = proc[n].view

(* What a scenario has changed and nothing has put back yet. *)
Changed ==
    {n \in Nodes : proc[n].hurt} \cup (IF logging THEN {"logging"} ELSE {})
    \cup (IF worker \in {"begun", "logging"} THEN {"worker"} ELSE {})

J == INSTANCE FaultJournal WITH Effects <- Nodes \cup {"logging", "worker"}, Residual <- {},
                                open <- journal.open, effects <- Changed

(* The scenario's record implements the journal every fault tool promises: it is there before *)
(* a node is paused or killed or a setting changed, and goes only when everything is back.    *)
JournalSpec == [][J!Next \/ UNCHANGED <<journal.open, Changed>>]_vars

(* A scenario that is reported as passed has seen the effect of its fault, finds every write  *)
(* it was promised on every node, and leaves neither a hurt node nor a record behind.         *)
PassedIsTrue ==
    [][ report' = "passed" /\ report # "passed" =>
          /\ ~ journal'.open /\ Changed' = {}
          /\ cmd.op \in Faults => Observed(cmd.op, cmd.seen) /\ \A n \in NODES : cmd.ids \subseteq disk[n].data ]_vars
=============================================================================
