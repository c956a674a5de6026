------------------------------ MODULE SearchLab ------------------------------
(***************************************************************************)
(* The Elasticsearch laboratories: the journalled fault drills of the 7.17 *)
(* lab (src/elasticsearch/scripts/fault_lab.py) and of the 9 lab           *)
(* (src/elasticsearch-9/scripts/drills.py), with the seed loader, purge,   *)
(* reset and lifecycle commands that run beside them.  One drill command   *)
(* runs at a time (flock on the report directory); the other commands take *)
(* no lock.  Every call may fail with or without its effect, and a command *)
(* may be killed between two calls.                                        *)
(*                                                                         *)
(* lab      "es7" or "es9"                                                 *)
(* world    the cluster: stopped nodes, master, changed cluster settings,  *)
(*          the canary index, container generation and cluster UUID        *)
(* index    the seed indices;  manifest: reports/seed-manifest.json        *)
(* active   active.json;  drill: the drill command;  report: last result   *)
(* load     the loader or a maintenance command and how far it is          *)
(***************************************************************************)
EXTENDS Integers, FiniteSets, Sequences

CONSTANTS Labs,          \* laboratories to run, a subset of {"es7", "es9"}
          Nodes,         \* nodes a drill may stop
          Indices,       \* seed indices
          Scenarios,     \* drills to run, a subset of Scenarios7 \cup Scenarios9
          MaxDrills,     \* bound: drills
          MaxLoads,      \* bound: seed, purge, reset, live-load and lifecycle commands
          MaxFailures    \* bound: failed calls, kills and spontaneous elections

ASSUME SearchAssumption == Labs \subseteq {"es7", "es9"} /\ Nodes # {} /\ MaxDrills \in Nat /\ MaxFailures \in Nat

VARIABLES lab, world, index, manifest, active, drill, report, load, used, spent

searchVars == <<lab, world, index, manifest, active, drill, report, load, used, spent>>
loading == <<manifest, load>>

None == "none"
Scenarios9 == {"node-outage", "quorum-loss"}
NodeScenarios == {"node-stop", "node-crash", "master-failover"}
Scenarios7 ==
    NodeScenarios \cup {"too-many-replicas", "allocation-disabled", "allocation-filter", "write-block",
                        "drain-node", "disk-watermark", "zone-awareness", "rebalance-disabled"}
Docs == {"a", "b"}
NoCanary == [of |-> 0, doc |-> FALSE, filter |-> FALSE, block |-> FALSE, copies |-> 0]
NewIndex(config, id) == [config |-> config, id |-> id, docs |-> {}, replicas |-> "layout", refresh |-> "1s"]
Idle == [at |-> None, rest |-> <<>>, todo |-> {}, failed |-> FALSE, errors |-> FALSE, leave |-> FALSE]
NoLoad == [at |-> None, config |-> None, recreate |-> FALSE, todo |-> {}, index |-> None, pending |-> {}, refresh |-> None]

SearchInit ==
    /\ lab \in Labs
    /\ world = [up |-> TRUE, down |-> {}, master |-> CHOOSE n \in Nodes : TRUE, keys |-> {}, canary |-> NoCanary, uuid |-> 0, gen |-> 0]
    /\ index = [i \in Indices |-> [NewIndex("c1", 0) EXCEPT !.docs = Docs]]
    /\ manifest = [status |-> "loaded", config |-> "c1", uuid |-> 0]
    /\ active = [id |-> 0] /\ drill = Idle /\ report = None /\ load = NoLoad
    /\ used = [drills |-> 0, loads |-> 0] /\ spent = 0

Active == active.id # 0
SearchFails == spent < MaxFailures /\ spent' = spent + 1
Present == {i \in Indices : index[i].config # None}

-----------------------------------------------------------------------------
(* The cluster, as the drills observe it. *)

(* A new master when the old one is gone, or at any time. *)
Elect(n) ==
    /\ world.up /\ n \notin world.down /\ n # world.master
    /\ IF world.master \in world.down THEN UNCHANGED spent ELSE SearchFails
    /\ world' = [world EXCEPT !.master = n]
    /\ UNCHANGED <<lab, index, manifest, active, drill, report, load, used>>

(* stable, wait_stable: green, nothing unassigned, the original members. *)
Stable ==
    /\ world.up /\ world.down = {}
    /\ \A i \in Present : index[i].replicas # "many"
    /\ ~ world.canary.filter
    /\ world.canary.copies < 2 \/ world.keys \cap {"enable", "disk"} = {}

(* read_seeds: count, UUID and a sample of every seed index. *)
ReadSeeds == [i \in Indices |-> [id |-> index[i].id, docs |-> index[i].docs]]
SeedsReadable == \A i \in Indices : index[i].docs # {}
SeedsUnchanged == SeedsReadable /\ ReadSeeds = active.baseline

(* guard, identity: another cluster under the same name is refused. *)
SameCluster == world.up /\ world.uuid = active.uuid

-----------------------------------------------------------------------------
(* A call of a drill command: done, or failed with or without its effect. *)

(* run: the problem is journalled, and the finally block recovers. *)
Problem ==
    /\ active' = [active EXCEPT !.error = TRUE]
    /\ drill' = [Idle EXCEPT !.at = "recover", !.failed = TRUE]

(* Mutating requests are never replayed: a lost answer is a failure. *)
Call(after, next) ==
    \/ world.up /\ world' = after /\ drill' = next /\ UNCHANGED <<active, spent>>
    \/ world.up /\ SearchFails /\ world' \in {after, world} /\ Problem
    \/ ~ world.up /\ Problem /\ UNCHANGED <<world, spent>>

Kept == UNCHANGED <<lab, index, report, loading, used>>
DrillTo(step) == [drill EXCEPT !.at = step]

(* SIGKILL; the journal stays as it is. *)
Kill ==
    /\ drill # Idle /\ SearchFails /\ drill' = Idle
    /\ UNCHANGED <<lab, world, index, manifest, active, report, load, used>>

(* The cluster settings a drill changes, journalled with both scopes. *)
Keys(s) ==
    CASE s = "allocation-disabled" -> {"enable"}
      [] s = "drain-node" -> {"exclude"}
      [] s = "zone-awareness" -> {"awareness"}
      [] s = "rebalance-disabled" -> {"rebalance"}
      [] s = "disk-watermark" -> {"disk"}
      [] OTHER -> {}

(* What follows the canary, call by call. *)
Script(s) ==
    CASE s \in NodeScenarios \cup Scenarios9 -> <<"mark", "stop">>
      [] s = "too-many-replicas" -> <<"replicas">>
      [] s \in {"allocation-disabled", "disk-watermark"} -> <<"patch", "grow">>
      [] s = "write-block" -> <<"block">>
      [] s \in {"drain-node", "zone-awareness", "rebalance-disabled"} -> <<"patch">>
      [] s = "allocation-filter" -> <<>>

Journal(s, targets, i) ==
    [id |-> used.drills + 1, scenario |-> s, targets |-> targets, index |-> i, keys |-> Keys(s), gen |-> world.gen,
     uuid |-> world.uuid, baseline |-> ReadSeeds, before |-> world.master,
     restart |-> {}, observed |-> FALSE, error |-> FALSE]

(* Drill.begin up to the saved journal: refused unless everything is stable. *)
Begin7(s, n, i, leave) ==
    /\ s \in Scenarios7 /\ SeedsReadable
    /\ active' = Journal(s, IF s \in NodeScenarios THEN {n} ELSE {}, IF s = "too-many-replicas" THEN i ELSE None)
    /\ drill' = [Idle EXCEPT !.at = "create", !.rest = Script(s), !.leave = leave]

(* node-outage takes one node, quorum-loss a majority of the masters. *)
Begin9(s, n) ==
    /\ s \in Scenarios9
    /\ active' = Journal(s, IF s = "quorum-loss" THEN Nodes ELSE {n}, None)
    /\ drill' = [Idle EXCEPT !.at = "create", !.rest = Script(s)]

Begin(s, n, i, leave) ==
    /\ drill = Idle /\ ~ Active /\ used.drills < MaxDrills /\ Stable
    /\ IF lab = "es7" THEN Begin7(s, n, i, leave) ELSE ~ leave /\ Begin9(s, n)
    /\ used' = [used EXCEPT !.drills = @ + 1]
    /\ UNCHANGED <<lab, world, index, manifest, report, load, spent>>

(* The journal exists before the canary: a lost answer can be recovered. *)
CreateCanary ==
    /\ drill.at = "create"
    /\ LET filter == active.scenario = "allocation-filter"
       IN  Call([world EXCEPT !.canary = [NoCanary EXCEPT !.of = active.id, !.filter = filter, !.copies = 1]],
                DrillTo(IF filter THEN "inject" ELSE "probe"))
    /\ Kept

(* The probe document; not before the cluster is stable again. *)
WriteProbe ==
    /\ drill.at = "probe"
    /\ IF Stable THEN Call([world EXCEPT !.canary.doc = TRUE], DrillTo("inject"))
       ELSE Problem /\ UNCHANGED <<world, spent>>
    /\ Kept

Following == IF Len(drill.rest) > 1 THEN [drill EXCEPT !.rest = Tail(@)] ELSE [drill EXCEPT !.rest = <<>>, !.at = "observe"]
Injecting(step) == drill.at = "inject" /\ drill.rest # <<>> /\ Head(drill.rest) = step

(* Altered: the journal does not say which nodes to start again. *)
MarkNothing == active' = active

(* All targets are marked before the first one is stopped. *)
MarkTargets == active' = [active EXCEPT !.restart = active.targets, !.gen = world.gen]

(* master-failover: the target must still be the master. *)
MarkRestart ==
    /\ Injecting("mark")
    /\ \/ /\ active.scenario = "master-failover" => world.master \in active.targets
          /\ MarkTargets /\ drill' = [Following EXCEPT !.todo = active.targets] /\ UNCHANGED spent
       \/ active.scenario = "master-failover" /\ world.master \notin active.targets /\ Problem /\ UNCHANGED spent
       \/ SearchFails /\ Problem
    /\ UNCHANGED world /\ Kept

StopNode ==
    /\ Injecting("stop")
    /\ \E n \in drill.todo :
         Call([world EXCEPT !.down = @ \cup {n}],
              IF drill.todo = {n} THEN [Following EXCEPT !.todo = {}] ELSE [drill EXCEPT !.todo = @ \ {n}])
    /\ Kept

(* cluster_patch: only the journalled keys, after another look at the UUID. *)
ClusterPatch ==
    /\ Injecting("patch")
    /\ IF SameCluster THEN Call([world EXCEPT !.keys = @ \cup active.keys], Following)
       ELSE Problem /\ UNCHANGED <<world, spent>>
    /\ Kept

CanarySetting ==
    /\ \/ Injecting("grow") /\ Call([world EXCEPT !.canary.copies = 2], Following)
       \/ Injecting("block") /\ Call([world EXCEPT !.canary.block = TRUE], Following)
    /\ Kept

(* The one change of a seed index. *)
TooManyReplicas ==
    /\ Injecting("replicas")
    /\ \/ index' = [index EXCEPT ![active.index].replicas = "many"] /\ drill' = Following /\ UNCHANGED <<active, spent>>
       \/ SearchFails /\ index' \in {index, [index EXCEPT ![active.index].replicas = "many"]} /\ Problem
       \/ active.index \notin Present /\ Problem /\ UNCHANGED <<index, spent>>
    /\ active.index \notin Present => index' = index
    /\ UNCHANGED <<lab, world, report, loading, used>>

(* allocation-filter: the canary was created with the fault. *)
NothingToInject ==
    /\ drill.at = "inject" /\ drill.rest = <<>>
    /\ drill' = DrillTo("observe")
    /\ UNCHANGED <<world, active, spent>> /\ Kept

-----------------------------------------------------------------------------
(* check: the intended fault, and nothing else, is what the cluster shows. *)

ObservedNode ==
    /\ world.down = active.targets
    /\ active.scenario = "master-failover" => world.master # active.before /\ world.master \notin world.down

(* The health colour and the decider that explains it. *)
ObservedAllocation ==
    CASE active.scenario = "too-many-replicas" -> index[active.index].replicas = "many"
      [] active.scenario = "allocation-filter" -> world.canary.filter
      [] OTHER -> active.keys \subseteq world.keys /\ world.canary.copies = 2

ObservedBlock == Stable /\ world.canary.block
ObservedSetting == Stable /\ active.keys \subseteq world.keys

(* The seeds are as before, the canary answers as the fault says it must. *)
Observed7 ==
    /\ SameCluster /\ SeedsUnchanged
    /\ CASE active.scenario \in NodeScenarios -> ObservedNode
         [] active.scenario = "write-block" -> ObservedBlock
         [] active.scenario \in {"drain-node", "zone-awareness", "rebalance-disabled"} -> ObservedSetting
         [] OTHER -> ObservedAllocation
    /\ world.canary.doc \/ active.scenario = "allocation-filter"

ObservedOutage == world.down = active.targets /\ world.canary.doc
ObservedQuorumLoss == active.targets \subseteq world.down
Observed9 == IF active.scenario = "node-outage" THEN ObservedOutage ELSE ObservedQuorumLoss
Observed == IF lab = "es7" THEN Observed7 ELSE Observed9

(* Polls until the observation or the time budget; a failed probe write may still write. *)
Check ==
    /\ drill.at = "observe"
    /\ \/ /\ Observed /\ active' = [active EXCEPT !.observed = TRUE]
          /\ drill' = IF drill.leave THEN Idle ELSE DrillTo("recover")
          /\ UNCHANGED spent
       \/ ~ Observed /\ Problem /\ UNCHANGED spent
       \/ SearchFails /\ Problem
    /\ UNCHANGED world /\ Kept

(* check as a command of its own: a failure is kept for the final result. *)
ManualCheck ==
    /\ drill = Idle /\ Active /\ lab = "es7"
    /\ active' = [active EXCEPT !.observed = Observed, !.error = @ \/ ~ Observed]
    /\ UNCHANGED <<world, drill, spent>> /\ Kept

-----------------------------------------------------------------------------
(* recover *)

(* recover as a command: the 9 lab reports FAIL for what it has to repair later. *)
Recover ==
    /\ drill = Idle /\ Active
    /\ drill' = [Idle EXCEPT !.at = "recover", !.failed = lab = "es9"]
    /\ UNCHANGED <<world, active, spent>> /\ Kept

(* Another cluster ends recovery before it touches anything. *)
Identify ==
    /\ drill.at = "recover"
    /\ \/ SameCluster /\ drill' = [DrillTo("start") EXCEPT !.todo = active.restart] /\ UNCHANGED spent
       \/ ~ SameCluster /\ drill' = Idle /\ UNCHANGED spent
       \/ SearchFails /\ drill' = Idle
    /\ UNCHANGED <<world, active>> /\ Kept

(* The 7 lab collects errors and goes on, the 9 lab stops at the first. *)
Repair(after, next) ==
    LET refused == IF lab = "es7" THEN [next EXCEPT !.errors = TRUE] ELSE Idle
    IN  \/ world.up /\ world' = after /\ drill' = next /\ UNCHANGED spent
        \/ world.up /\ SearchFails /\ world' \in {after, world} /\ drill' = refused
        \/ ~ world.up /\ drill' = refused /\ UNCHANGED <<world, spent>>

(* The container the journal names, not another under its name. *)
SameContainer == world.gen = active.gen

(* restore_containers: only the container that was stopped is started. *)
StartNode ==
    /\ drill.at = "start"
    /\ \/ /\ drill.todo = {} /\ drill' = DrillTo(IF lab = "es7" THEN "settings" ELSE "verify") /\ UNCHANGED <<world, spent>>
       \/ \E n \in drill.todo :
            IF lab = "es9" /\ ~ SameContainer THEN drill' = Idle /\ UNCHANGED <<world, spent>>
            ELSE Repair([world EXCEPT !.down = @ \ {n}], [drill EXCEPT !.todo = @ \ {n}])
    /\ UNCHANGED active /\ Kept

(* The journalled values of both scopes, absent ones as null. *)
RestoreSettings ==
    /\ drill.at = "settings"
    /\ Repair([world EXCEPT !.keys = @ \ active.keys], DrillTo("index"))
    /\ UNCHANGED active /\ Kept

RestoreIndex ==
    /\ drill.at = "index"
    /\ LET mine == active.scenario = "too-many-replicas"
           restored == IF mine /\ active.index \in Present THEN [index EXCEPT ![active.index].replicas = "layout"] ELSE index
       IN  \/ /\ drill' = [DrillTo("canary") EXCEPT !.errors = @ \/ (mine /\ active.index \notin Present)]
              /\ index' = restored /\ UNCHANGED spent
           \/ mine /\ SearchFails /\ index' \in {index, restored} /\ drill' = [DrillTo("canary") EXCEPT !.errors = TRUE]
    /\ UNCHANGED <<lab, world, active, report, loading, used>>

(* owned_canary, then the filter, the block and the copies are reset. *)
ResetCanary ==
    /\ drill.at = "canary"
    /\ IF world.canary.of = active.id
       THEN Repair([world EXCEPT !.canary = [@ EXCEPT !.filter = FALSE, !.block = FALSE, !.copies = 1]], DrillTo("verify"))
       ELSE drill' = DrillTo("verify") /\ UNCHANGED <<world, spent>>
    /\ UNCHANGED active /\ Kept

(* Everything back as journalled, and the probe written once more. *)
Verify7 ==
    IF Stable /\ SeedsUnchanged /\ world.keys \cap active.keys = {}
       THEN /\ world' = IF world.canary.of = active.id THEN [world EXCEPT !.canary.doc = TRUE] ELSE world
            /\ drill' = DrillTo("delete")
       ELSE drill' = [DrillTo("finish") EXCEPT !.errors = TRUE] /\ UNCHANGED world

(* The canary that is there must hold its document. *)
Verify9 ==
    /\ drill' = IF Stable /\ (world.canary.of = active.id => world.canary.doc) THEN DrillTo("delete") ELSE Idle
    /\ UNCHANGED world

VerifyRecovery ==
    /\ drill.at = "verify"
    /\ \/ UNCHANGED spent /\ IF lab = "es7" THEN Verify7 ELSE Verify9
       \/ /\ SearchFails /\ UNCHANGED world
          /\ drill' = IF lab = "es7" THEN [DrillTo("finish") EXCEPT !.errors = TRUE] ELSE Idle
    /\ UNCHANGED active /\ Kept

(* The 7 lab looks once more whether everything is stable. *)
Finish == [DrillTo("finish") EXCEPT !.errors = @ \/ (lab = "es7" /\ ~ Stable)]

(* Only the index with this drill's mark is deleted. *)
DeleteCanary ==
    /\ drill.at = "delete"
    /\ IF world.canary.of = active.id
       THEN Repair([world EXCEPT !.canary = NoCanary], Finish)
       ELSE drill' = Finish /\ UNCHANGED <<world, spent>>
    /\ UNCHANGED active /\ Kept

(* Altered: a later failure does not take an observed PASS back. *)
Result7Observed == IF active.observed THEN "PASS" ELSE "FAIL"

Result7 == IF active.observed /\ ~ active.error THEN "PASS" ELSE "FAIL"
Result9 == IF drill.failed THEN "FAIL" ELSE "PASS"

(* Altered: the journal goes although something could not be restored. *)
ArchiveAnyway == TRUE

MayArchive == ~ drill.errors

(* The report is written before the journal goes. *)
Archive ==
    /\ drill.at = "finish"
    /\ IF MayArchive
       THEN drill' = DrillTo("unlink") /\ report' = (IF lab = "es7" THEN Result7 ELSE Result9)
       ELSE drill' = Idle /\ UNCHANGED report
    /\ UNCHANGED <<lab, world, index, active, loading, used, spent>>

Unlink ==
    /\ drill.at = "unlink" /\ drill' = Idle /\ active' = [id |-> 0]
    /\ UNCHANGED <<world, spent>> /\ Kept
-----------------------------------------------------------------------------
(* The seed loader, one data command at a time; live-load writes beside it. *)

DataCommand == load = NoLoad /\ used.loads < MaxLoads /\ used' = [used EXCEPT !.loads = @ + 1]
Untouched == UNCHANGED <<lab, world, active, drill, report>>
Absent == [NewIndex(None, 0) EXCEPT !.replicas = None]

(* ESClient.wait: enough nodes, and no primary missing. *)
NodesReady == world.up /\ world.down = {}

(* Altered: an index of another dataset is loaded into. *)
CompatibleAnyway(config) == TRUE

(* prepare_indices looks at every index before it changes one. *)
Compatible(config) == \A i \in Present : index[i].config = config

SeedStart(config, recreate) ==
    /\ DataCommand /\ NodesReady
    /\ recreate \/ Compatible(config)
    /\ load' = [NoLoad EXCEPT !.at = "prepare", !.config = config, !.recreate = recreate,
                              !.todo = IF recreate THEN Indices ELSE Indices \ Present]
    /\ Untouched /\ UNCHANGED <<index, manifest, spent>>

(* DELETE and PUT of one index. *)
PrepareIndex(i) ==
    /\ load.at = "prepare" /\ i \in load.todo
    /\ IF i \in Present
       THEN index' = [index EXCEPT ![i] = Absent] /\ UNCHANGED load
       ELSE /\ index' = [index EXCEPT ![i] = NewIndex(load.config, used.loads)]
            /\ load' = [load EXCEPT !.todo = @ \ {i}]
    /\ Untouched /\ UNCHANGED <<manifest, used, spent>>

Manifest(status) == manifest' = [status |-> status, config |-> load.config, uuid |-> world.uuid]

LoadBegins ==
    /\ load.at = "prepare" /\ load.todo = {}
    /\ Manifest("loading") /\ load' = [load EXCEPT !.at = "next", !.todo = Indices]
    /\ Untouched /\ UNCHANGED <<index, used, spent>>

(* seed_index: refresh is switched off for the load, after its value was read. *)
SeedIndex(i) ==
    /\ load.at = "next" /\ i \in load.todo
    /\ index' = [index EXCEPT ![i].refresh = "-1"]
    /\ load' = [load EXCEPT !.at = "bulk", !.index = i, !.pending = Docs, !.refresh = index[i].refresh]
    /\ Untouched /\ UNCHANGED <<manifest, used, spent>>

(* bulk_send: what was refused is sent again; an unanswered request as a whole. *)
Retry(written) == load.pending \ written

BulkSend ==
    /\ load.at = "bulk"
    /\ \E written \in SUBSET load.pending :
         /\ index' = [index EXCEPT ![load.index].docs = @ \cup written]
         /\ \/ /\ written = load.pending /\ UNCHANGED spent
               /\ load' = [load EXCEPT !.at = "restore", !.pending = {}]
            \/ /\ SearchFails
               /\ \/ load' = [load EXCEPT !.pending = Retry(written), !.at = IF Retry(written) = {} THEN "restore" ELSE @]
                  \/ UNCHANGED load
                  \/ load' = [load EXCEPT !.at = "restore"]
    /\ Untouched /\ UNCHANGED <<manifest, used>>

(* The finally block, then the count of what is there; an error ends the load. *)
RestoreRefresh ==
    /\ load.at = "restore"
    /\ index' = [index EXCEPT ![load.index].refresh = load.refresh]
    /\ load' = [load EXCEPT !.at = "count"]
    /\ Untouched /\ UNCHANGED <<manifest, used, spent>>

Counted == load.pending = {} /\ Cardinality(index[load.index].docs) = Cardinality(Docs)

CountIndex ==
    /\ load.at = "count"
    /\ IF Counted
       THEN load' = [load EXCEPT !.at = "next", !.todo = @ \ {load.index}] /\ UNCHANGED manifest
       ELSE load' = NoLoad /\ manifest' = [manifest EXCEPT !.status = "failed"]
    /\ Untouched /\ UNCHANGED <<index, used, spent>>

SeedLoadEnds ==
    /\ load.at = "next" /\ load.todo = {}
    /\ Manifest("loaded") /\ load' = NoLoad
    /\ Untouched /\ UNCHANGED <<index, used, spent>>

(* Killed, or ended by a failed call: once loading has begun, the manifest says so. *)
LoadFails ==
    /\ load # NoLoad /\ SearchFails /\ load' = NoLoad
    /\ \/ UNCHANGED manifest
       \/ load.at \in {"next", "bulk", "restore", "count"} /\ manifest' = [manifest EXCEPT !.status = "failed"]
    /\ Untouched /\ UNCHANGED <<index, used>>

(* live_load.py writes new documents to a seed index. *)
LiveLoad(i) ==
    /\ used.loads < MaxLoads /\ used' = [used EXCEPT !.loads = @ + 1]
    /\ i \in Present /\ index' = [index EXCEPT ![i].docs = @ \cup {"live"}]
    /\ Untouched /\ UNCHANGED <<loading, spent>>

(* purge and reset look for a drill's journal first, and only then. *)
MaintenanceStart(op) ==
    /\ DataCommand /\ ~ Active /\ (op = "reset" => lab = "es7")
    /\ load' = [NoLoad EXCEPT !.at = op, !.todo = Present]
    /\ Untouched /\ UNCHANGED <<index, manifest, spent>>

Purge ==
    /\ load.at = "purge"
    /\ index' = [i \in Indices |-> IF i \in load.todo THEN Absent ELSE index[i]]
    /\ load' = NoLoad
    /\ Untouched /\ UNCHANGED <<manifest, used, spent>>

(* The lab's own baseline for settings, replicas and refresh. *)
Reset ==
    /\ load.at = "reset"
    /\ world' = [world EXCEPT !.keys = {}]
    /\ index' = [i \in Indices |-> IF i \in load.todo THEN [index[i] EXCEPT !.replicas = "layout", !.refresh = "1s"] ELSE index[i]]
    /\ load' = NoLoad
    /\ UNCHANGED <<lab, manifest, active, drill, report, used, spent>>

(* down removes the containers, with --purge the volumes too. *)
Down(purge) ==
    /\ DataCommand /\ world.up
    /\ world' = IF purge THEN [up |-> FALSE, down |-> {}, master |-> world.master, keys |-> {}, canary |-> NoCanary,
                               uuid |-> world.uuid + 1, gen |-> world.gen + 1]
                ELSE [world EXCEPT !.up = FALSE, !.down = {}, !.gen = @ + 1]
    /\ index' = IF purge THEN [i \in Indices |-> Absent] ELSE index
    /\ UNCHANGED <<lab, manifest, active, drill, report, load, spent>>

(* up starts every node that is not running, drill or not. *)
Up ==
    /\ load = NoLoad /\ ~ world.up
    /\ world' = [world EXCEPT !.up = TRUE]
    /\ UNCHANGED <<lab, index, manifest, active, drill, report, load, used, spent>>

-----------------------------------------------------------------------------
Drilling ==
    \/ \E s \in Scenarios, n \in Nodes, i \in Indices, leave \in BOOLEAN : Begin(s, n, i, leave)
    \/ CreateCanary \/ WriteProbe \/ MarkRestart \/ StopNode \/ ClusterPatch \/ CanarySetting
    \/ TooManyReplicas \/ NothingToInject \/ Check
Recovering ==
    \/ Identify \/ StartNode \/ RestoreSettings \/ RestoreIndex \/ ResetCanary \/ VerifyRecovery
    \/ DeleteCanary \/ Archive \/ Unlink
Loading ==
    \/ \E config \in {"c1", "c2"}, recreate \in BOOLEAN : SeedStart(config, recreate)
    \/ \E i \in Indices : PrepareIndex(i) \/ SeedIndex(i) \/ LiveLoad(i)
    \/ LoadBegins \/ BulkSend \/ RestoreRefresh \/ CountIndex \/ SeedLoadEnds \/ LoadFails
Maintaining ==
    \/ \E op \in {"purge", "reset"} : MaintenanceStart(op)
    \/ Purge \/ Reset \/ (\E purge \in BOOLEAN : Down(purge)) \/ Up

SearchNext ==
    Drilling \/ ManualCheck \/ Recover \/ Recovering \/ Kill \/ Loading \/ Maintaining \/ \E n \in Nodes : Elect(n)

SearchSpec == SearchInit /\ [][SearchNext]_searchVars

(* A command that runs goes on, an operator repeats recover and starts what is down. *)
SearchFairSpec ==
    /\ SearchSpec
    /\ WF_searchVars(Drilling) /\ WF_searchVars(Recovering) /\ WF_searchVars(Recover) /\ WF_searchVars(Up)

-----------------------------------------------------------------------------
SearchTypeOK ==
    /\ world.down \subseteq Nodes /\ world.master \in Nodes /\ world.canary.of \in 0..MaxDrills
    /\ report \in {None, "PASS", "FAIL"} /\ manifest.status \in {"loading", "loaded", "failed"}
    /\ \A i \in Indices : index[i].docs \subseteq Docs \cup {"live"} /\ index[i].refresh \in {"1s", "-1"}

(* What is left of a drill in the cluster. *)
Effects ==
    {e \in {"node", "settings", "replicas", "canary"} :
        CASE e = "node" -> world.down # {}
          [] e = "settings" -> world.keys # {}
          [] e = "replicas" -> \E i \in Present : index[i].replicas = "many"
          [] e = "canary" -> world.canary # NoCanary}

Drills ==
    INSTANCE FaultJournal WITH
        open <- Active, effects <- Effects,
        Effects <- {"node", "settings", "replicas", "canary"}, Residual <- {}

(* active.json keeps the promise of FaultJournal in both laboratories: it is there before   *)
(* the canary, a stopped node or a changed setting, and goes only when none of them is left, *)
(* whatever failed or was killed on the way, and with the data commands running beside it.  *)
JournalSpec == [][Drills!Next \/ UNCHANGED <<Active, Effects>>]_searchVars

(* A drill is reported as PASS only when its fault was observed, no step of it failed and    *)
(* everything it changed is restored, whatever its recovery had to go through.               *)
ReportIsHonest ==
    [][drill.at = "finish" /\ drill'.at = "unlink" /\ report' = "PASS" =>
         /\ active.observed /\ ~ active.error
         /\ Effects = {}]_searchVars

(* The loader writes "loaded" only over indices of that configuration with all of its        *)
(* documents, however often a bulk request was refused, lost or repeated, and whatever a     *)
(* live writer added meanwhile.                                                              *)
LoadedIsComplete ==
    [][manifest.status # "loaded" /\ manifest'.status = "loaded" =>
         \A i \in Indices : index[i].config = manifest'.config /\ Docs \subseteq index[i].docs]_searchVars

(* Repeated recovery ends every drill of the 7 lab, unless the cluster or the seed data were *)
(* replaced or written to meanwhile, which recovery must refuse to call restored.            *)
RecoveryEnds ==
    lab = "es7" /\ Active ~> ~ Active \/ ~ SameCluster \/ ~ SeedsUnchanged

(* The README of the 9 lab: after a kill, run recover.  It should end the drill as long as   *)
(* cluster and containers are the same.                                                      *)
RecoveryEnds9 ==
    lab = "es9" /\ Active ~> ~ Active \/ ~ SameCluster \/ ~ SameContainer
=============================================================================
