------------------------------ MODULE MvpControl ------------------------------
(***************************************************************************)
(* The tools that break and restore the MVP stack (src/mvp-lab/tools):     *)
(* simulate (sim_engine.py, simulation.py, netem.py), drills (advanced.py), *)
(* messages (messages.py) and the lifecycle commands (manage.py).  Every    *)
(* one holds manage.lock, so one command runs at a time; it may be killed   *)
(* between any two calls, and every call to Docker, Kafka or Elasticsearch *)
(* may fail with or without its effect.                                    *)
(*                                                                         *)
(* world     the parts a tool can change, as they are                      *)
(* baseline  the same as the tool found them, or the operator set them     *)
(* marker    the files .state/*-active.json, one per kind of tool          *)
(* job       the command holding manage.lock and how far it is             *)
(* runner    simulation.Runner: main thread, cancellation, flags, verdict  *)
(* kept      topics and index of a message run kept with --keep            *)
(* spent     failures, crashes and foreign changes so far                  *)
(***************************************************************************)
EXTENDS Integers, Sequences, FiniteSets

CONSTANTS Actions,       \* faults that may be injected, members of DOMAIN Script
          MaxRuns,       \* bound: simulate, drills and messages runs
          MaxFailures    \* bound: failed calls, crashes and foreign changes

ASSUME BoundsAssumption == MaxRuns \in Nat /\ MaxFailures \in Nat

VARIABLES world, baseline, marker, job, runner, kept, runs, spent

vars == <<world, baseline, marker, job, runner, kept, runs, spent>>

Kinds == {"simulation", "drill", "message"}
Containers == {"helper", "database", "client"}
Resources == {"topic", "dlq", "index"}
Parts == {"target", "spare", "mode", "apps", "qdisc", "rowlock", "env"} \cup Containers \cup Resources

Values ==
    [p \in Parts |->
        CASE p = "target" -> {"up", "stopped", "paused", "absent"}
          [] p \in {"mode", "apps"} -> {"normal", "redis-spare"}
          [] p \in Containers \cup Resources -> {"off", "on", "foreign"}
          [] OTHER -> {"off", "on"}]

Healthy ==
    [p \in Parts |-> CASE p = "target" -> "up" [] p \in {"mode", "apps"} -> "normal" [] OTHER -> "off"]

(***************************************************************************)
(* What a run does, call by call: <<part, value>> is a call that changes   *)
(* the part, <<"note", x>> rewrites the marker with x recorded.            *)
(***************************************************************************)
Stop == << <<"target", "stopped">> >>
Pause == << <<"target", "paused">> >>
Recreate == << <<"target", "absent">>, <<"target", "up">>, <<"note", "replacement">> >>
Switch == << <<"spare", "on">>, <<"note", "spare">>, <<"mode", "redis-spare">>, <<"apps", "redis-spare">> >>
RowLock == << <<"rowlock", "on">> >>

(* Altered: the helper is created before its name is in the marker. *)
NetemUnnamed == << <<"helper", "on">>, <<"note", "name">>, <<"note", "id">>, <<"qdisc", "on">> >>

Netem == << <<"note", "name">>, <<"helper", "on">>, <<"note", "id">>, <<"qdisc", "on">> >>

(* Disposable.create: the environment file lives only during the call. *)
Create(role) == << <<"note", role>>, <<"env", "on">>, <<role, "on">>, <<"env", "off">> >>

(* snapshot, transaction_trial and pressure: a database, then one client inside its network. *)
Drill == Create("database") \o Create("client")

(* The deadlock drill works on two orders of the running stack and creates nothing. *)
Deadlock == << >>

Messages ==
    << <<"topic", "on">>, <<"note", "topic">>, <<"dlq", "on">>, <<"note", "dlq">>,
       <<"index", "on">>, <<"note", "index">> >>

Script ==
    [stop |-> Stop, pause |-> Pause, recreate |-> Recreate, switch |-> Switch, netem |-> Netem,
     rowlock |-> RowLock, drill |-> Drill, deadlock |-> Deadlock, message |-> Messages]

ASSUME ActionsAssumption == Actions \subseteq DOMAIN Script

(* What restore() and the two cleanup() put back, in this order. *)
Undo ==
    [stop |-> <<"target">>, pause |-> <<"target">>, recreate |-> <<"target">>,
     switch |-> <<"mode", "apps", "spare">>, netem |-> <<"qdisc", "helper">>, rowlock |-> <<"rowlock">>,
     drill |-> <<"client", "database", "env">>, deadlock |-> <<"client", "database", "env">>,
     message |-> <<"index", "topic", "dlq">>]

KindOf(a) ==
    CASE a = "message" -> "message" [] a \in {"drill", "deadlock"} -> "drill" [] OTHER -> "simulation"

NoRecord == [action |-> "none", notes |-> {}]
Idle == [cmd |-> "none", action |-> "none", at |-> "idle", i |-> 0]
NotRunning == [main |-> "idle", cancel |-> FALSE, applied |-> FALSE, error |-> FALSE,
               restored |-> FALSE, verdict |-> "none"]

Init ==
    /\ world = Healthy /\ baseline = Healthy
    /\ marker = [k \in Kinds |-> NoRecord]
    /\ job = Idle /\ runner = NotRunning
    /\ kept = "none" /\ runs = 0 /\ spent = 0

Active(k) == marker[k] # NoRecord
NoActiveFault == \A k \in Kinds : ~ Active(k)

(* A part is damaged when it is neither as found nor normal, and nobody else replaced it. *)
Damaged == {p \in Parts : world[p] \notin {baseline[p], Healthy[p], "foreign"}}

-----------------------------------------------------------------------------
(* Lifecycle commands of manage.main: refused while a marker exists.  The operator's *)
(* choice becomes the baseline; a command may stop after any of its calls.           *)

Chosen(w) == world' = w /\ baseline' = w
Lifecycle == job = Idle /\ NoActiveFault
Strand == kept' = IF kept = "kept" THEN "stranded" ELSE kept

StopOrResume(state) ==
    /\ Lifecycle
    /\ Chosen([world EXCEPT !.target = state])
    /\ UNCHANGED <<marker, job, runner, kept, runs, spent>>

Experiment(m) ==
    /\ Lifecycle
    /\ LET spare == IF m = "redis-spare" THEN "on" ELSE world.spare
       IN  \/ Chosen([world EXCEPT !.spare = spare]) /\ UNCHANGED kept
           \/ Chosen([world EXCEPT !.spare = spare, !.mode = m]) /\ UNCHANGED kept
           \/ Chosen([world EXCEPT !.spare = spare, !.mode = m, !.apps = m]) /\ Strand
    /\ UNCHANGED <<marker, job, runner, runs, spent>>

(* up stops after the databases when they are not ready in time ... *)
UpDatabases == [world EXCEPT !.target = "up", !.spare = IF world.mode = "redis-spare" THEN "on" ELSE @]

(* ... and otherwise starts API and worker with the settings of the mode. *)
UpAll == [UpDatabases EXCEPT !.apps = world.mode]

Up ==
    /\ Lifecycle
    /\ \E w \in {UpDatabases, UpAll} : Chosen(w)
    /\ UNCHANGED <<marker, job, runner, kept, runs, spent>>

Down ==
    /\ Lifecycle
    /\ Chosen([world EXCEPT !.target = "absent", !.spare = "off"])
    /\ Strand
    /\ UNCHANGED <<marker, job, runner, runs, spent>>

-----------------------------------------------------------------------------
(* DockerLab.preflight and the checks before it. *)
Preflight ==
    /\ NoActiveFault
    /\ world.mode = "normal"
    /\ world.target = "up"

(* Names carry the run's random id; the model follows the names of one run at a time. *)
StartRun(a) ==
    /\ job = Idle /\ Preflight /\ runs < MaxRuns
    /\ \A p \in Containers \cup Resources : world[p] # "foreign"
    /\ a = "message" => \A p \in Resources : world[p] = "off"
    /\ job' = [cmd |-> "run", action |-> a, at |-> "begin", i |-> 1]
    /\ runner' = [NotRunning EXCEPT !.main = "load"]
    /\ runs' = runs + 1
    /\ UNCHANGED <<world, baseline, marker, kept, spent>>

MyKind == KindOf(job.action)

(* Runner.fault, Disposable.begin, Session.create: the record is saved before anything else; *)
(* apply() refuses a target that is not running, and a cancelled run never gets here.        *)
SaveIntent ==
    /\ job.at = "begin" /\ ~ runner.cancel
    /\ IF MyKind = "simulation" /\ world.target # "up"
       THEN /\ job' = [job EXCEPT !.at = "verify"]
            /\ runner' = [runner EXCEPT !.error = TRUE]
            /\ UNCHANGED <<marker, baseline>>
       ELSE /\ marker' = [marker EXCEPT ![MyKind] =
                            [action |-> job.action,
                             notes |-> IF world.spare = "on" THEN {"spare_before"} ELSE {}]]
            /\ job' = [job EXCEPT !.at = "apply"]
            /\ baseline' = world
            /\ UNCHANGED runner
    /\ UNCHANGED <<world, kept, runs, spent>>

Cancelled ==
    /\ job.at = "begin" /\ runner.cancel
    /\ job' = [job EXCEPT !.at = "end"]
    /\ UNCHANGED <<world, baseline, marker, runner, kept, runs, spent>>

Steps == Script[job.action]

(* One call of apply(), netem.start, Disposable.create or Session.create. *)
ApplyCall ==
    /\ job.at = "apply" /\ job.i <= Len(Steps)
    /\ LET step == Steps[job.i]
       IN  IF step[1] = "note"
           THEN /\ marker' = [marker EXCEPT ![MyKind].notes = @ \cup {step[2]}]
                /\ UNCHANGED world
           ELSE /\ world' = [world EXCEPT ![step[1]] = step[2]]
                /\ UNCHANGED marker
    /\ IF Steps[job.i][1] = "apps" THEN Strand ELSE UNCHANGED kept
    /\ job' = [job EXCEPT !.i = @ + 1]
    /\ UNCHANGED <<baseline, runner, runs, spent>>

Applied ==
    /\ job.at = "apply" /\ job.i > Len(Steps)
    /\ job' = [job EXCEPT !.at = IF MyKind = "message" THEN "decide" ELSE "hold"]
    /\ runner' = [runner EXCEPT !.applied = TRUE]
    /\ UNCHANGED <<world, baseline, marker, kept, runs, spent>>

(* A call fails, with its effect or without: simulate and drills go on to restore, *)
(* a message run keeps its record for "recover".                                  *)
ApplyFails ==
    /\ job.at = "apply" /\ job.i <= Len(Steps) /\ spent < MaxFailures
    /\ LET step == Steps[job.i]
           done == [world EXCEPT ![step[1]] = step[2]]
       IN  /\ step[1] # "note"
           /\ world' \in {[w EXCEPT !.env = "off"] : w \in {world, done}}
           /\ IF step[1] = "apps" THEN Strand ELSE UNCHANGED kept
    /\ job' = [job EXCEPT !.at = IF MyKind = "message" THEN "end" ELSE "verify", !.i = 1]
    /\ runner' = [runner EXCEPT !.error = TRUE]
    /\ spent' = spent + 1
    /\ UNCHANGED <<baseline, marker, runs>>

(* The fault lasts until its time is over or the run is cancelled. *)
HoldEnds ==
    /\ job.at = "hold"
    /\ job' = [job EXCEPT !.at = "verify", !.i = 1]
    /\ UNCHANGED <<world, baseline, marker, runner, kept, runs, spent>>

(* messages run: keep the resources (the ledger stays in the report) or clean up. *)
Keep ==
    /\ job.at = "decide"
    /\ marker' = [marker EXCEPT !["message"] = NoRecord]
    /\ kept' = "kept" /\ baseline' = [p \in Parts |-> IF p \in Resources THEN world[p] ELSE baseline[p]]
    /\ job' = [job EXCEPT !.at = "end"]
    /\ UNCHANGED <<world, runner, runs, spent>>

CleanUp ==
    /\ job.at = "decide"
    /\ job' = [job EXCEPT !.at = "verify", !.i = 1]
    /\ UNCHANGED <<world, baseline, marker, runner, kept, runs, spent>>

(* messages run: the scenario itself failed; the record stays for "recover". *)
ScenarioFails ==
    /\ job.at = "decide"
    /\ job' = [job EXCEPT !.at = "end"]
    /\ UNCHANGED <<world, baseline, marker, runner, kept, runs, spent>>

-----------------------------------------------------------------------------
(* "recover" of each tool, and "messages cleanup" of a kept run, which first saves its record again. *)
StartRecover(k) ==
    /\ job = Idle /\ Active(k)
    /\ k = "message" => ~ Active("simulation") /\ ~ Active("drill")
    /\ job' = [cmd |-> "recover", action |-> marker[k].action, at |-> "verify", i |-> 1]
    /\ UNCHANGED <<world, baseline, marker, runner, kept, runs, spent>>

StartCleanup ==
    /\ job = Idle /\ NoActiveFault /\ kept = "kept"
    /\ marker' = [marker EXCEPT !["message"] = [action |-> "message", notes |-> Resources]]
    /\ job' = [cmd |-> "recover", action |-> "message", at |-> "verify", i |-> 1]
    /\ UNCHANGED <<world, baseline, runner, kept, runs, spent>>

Notes == marker[MyKind].notes

(* netem.helper, Disposable.inspect_owned, MessageRuntime.verify_resources: *all* identities first. *)
OwnedHelper == "name" \in Notes => world.helper # "foreign"
OwnedContainers == \A p \in {"database", "client"} \cap Notes : world[p] # "foreign"
OwnedResources == \A p \in Resources : world[p] # "off" => world[p] = "on" /\ p \in Notes

Owned ==
    CASE MyKind = "drill" -> OwnedContainers [] MyKind = "message" -> OwnedResources [] OTHER -> OwnedHelper

Verified ==
    /\ job.at = "verify" /\ Active(MyKind) /\ Owned
    /\ job' = [job EXCEPT !.at = "restore"]
    /\ UNCHANGED <<world, baseline, marker, runner, kept, runs, spent>>

(* A target that cannot be restored is never guessed: a container that is gone, a paused one that *)
(* was stopped, a resource that is someone else's, a row still locked.                            *)
RefusesTarget == world.target = "absent" \/ (job.action = "pause" /\ world.target = "stopped")
RefusesRow == world.rowlock = "on"

(* The cleaning helper joins the network of the target, which must run. *)
RefusesNetem(p) == "name" \in Notes /\ (world.target \in {"absent", "stopped"} \/ world[p] = "foreign")

(* Altered: a resource is not identified again right before it is removed. *)
RefusesByName(p) ==
    CASE p = "target" -> RefusesTarget [] p = "rowlock" -> RefusesRow [] p = "qdisc" -> RefusesNetem(p) [] OTHER -> FALSE

Refuses(p) ==
    CASE p = "target" -> RefusesTarget
      [] p = "rowlock" -> RefusesRow
      [] p \in {"qdisc", "helper"} -> RefusesNetem(p)
      [] p \in Containers \cup Resources -> world[p] = "foreign"
      [] OTHER -> FALSE

(* Altered: recovery insists on finding the fault it is to undo. *)
RestorableOnce(p) == ~ Refuses(p) /\ (p = "target" => world.target # "up")

Restorable(p) == ~ Refuses(p)

(* The value restore() leaves; only what the record names is removed. *)
StopSpare == IF "spare" \in Notes /\ "spare_before" \notin Notes THEN "off" ELSE world.spare
ClearNetem(p) == IF "name" \in Notes /\ world[p] = "on" THEN "off" ELSE world[p]
RemoveContainer(p) == IF p \in Notes /\ world[p] = "on" THEN "off" ELSE world[p]
DeleteResource(p) == "off"

PutBack(p) ==
    CASE p = "spare" -> StopSpare
      [] p \in {"qdisc", "helper"} -> ClearNetem(p)
      [] p \in {"database", "client"} -> RemoveContainer(p)
      [] p \in Resources -> DeleteResource(p)
      [] OTHER -> Healthy[p]

UndoCall ==
    /\ job.at = "restore" /\ job.i <= Len(Undo[job.action])
    /\ LET p == Undo[job.action][job.i]
       IN  /\ Restorable(p)
           /\ world' = [world EXCEPT ![p] = PutBack(p)]
           /\ IF p = "apps" THEN Strand ELSE UNCHANGED kept
    /\ job' = [job EXCEPT !.i = @ + 1]
    /\ UNCHANGED <<baseline, marker, runner, runs, spent>>

(* active_path.unlink(), only after every call succeeded. *)
Unlink ==
    /\ job.at = "restore" /\ job.i > Len(Undo[job.action])
    /\ marker' = [marker EXCEPT ![MyKind] = NoRecord]
    /\ runner' = [runner EXCEPT !.restored = TRUE]
    /\ kept' = IF MyKind = "message" THEN "none" ELSE kept
    /\ job' = [job EXCEPT !.at = "end"]
    /\ UNCHANGED <<world, baseline, runs, spent>>

(* restore() without a marker has nothing to do. *)
NothingToRestore ==
    /\ job.at = "verify" /\ ~ Active(MyKind)
    /\ runner' = [runner EXCEPT !.restored = TRUE]
    /\ job' = [job EXCEPT !.at = "end"]
    /\ UNCHANGED <<world, baseline, marker, kept, runs, spent>>

RestoreStops ==
    /\ runner' = [runner EXCEPT !.error = TRUE]
    /\ job' = [job EXCEPT !.at = "end"]
    /\ UNCHANGED <<baseline, marker, kept, runs>>

RestoreRefused ==
    /\ \/ job.at = "verify" /\ Active(MyKind) /\ ~ Owned
       \/ /\ job.at = "restore" /\ job.i <= Len(Undo[job.action])
          /\ ~ Restorable(Undo[job.action][job.i])
    /\ RestoreStops
    /\ UNCHANGED <<world, spent>>

RestoreFails ==
    /\ job.at = "restore" /\ job.i <= Len(Undo[job.action]) /\ spent < MaxFailures
    /\ LET p == Undo[job.action][job.i]
       IN  world' \in {world} \cup {[world EXCEPT ![p] = PutBack(p)] : x \in {y \in {p} : Restorable(y)}}
    /\ RestoreStops
    /\ spent' = spent + 1

-----------------------------------------------------------------------------
(* simulation.Runner.run: the main thread schedules load while the fault thread works. *)
Simulating == job.cmd = "run" /\ MyKind = "simulation"

LoadEnds ==
    /\ Simulating /\ runner.main = "load"
    /\ runner' = [runner EXCEPT !.main = "join"]
    /\ UNCHANGED <<world, baseline, marker, job, kept, runs, spent>>

(* SIGTERM or Ctrl-C in the main thread. *)
Interrupt ==
    /\ Simulating /\ runner.main = "load"
    /\ runner' = [runner EXCEPT !.main = "join", !.cancel = TRUE, !.verdict = "aborted"]
    /\ UNCHANGED <<world, baseline, marker, job, kept, runs, spent>>

(* Altered: the verdict looks at the application of the fault only. *)
MayPassUnrestored == runner.applied

MayPass == ~ runner.error /\ runner.applied /\ runner.restored /\ Preflight

(* Without convergence, dependencies and contracts nothing passes; without effect it is inconclusive. *)
EffectObserved == {"passed", "inconclusive"}

(* The verdict, after both threads ended: convergence and effect are what the audit observed. *)
Judge ==
    /\ Simulating /\ runner.main = "join" /\ job.at = "end"
    /\ \E observed \in EffectObserved \cup {"failed"} :
          runner' = [runner EXCEPT !.main = "done",
                       !.verdict = IF @ = "aborted" THEN @ ELSE IF MayPass THEN observed ELSE "failed"]
    /\ UNCHANGED <<world, baseline, marker, job, kept, runs, spent>>

Finish ==
    /\ job.at = "end" /\ (Simulating => runner.main = "done")
    /\ job' = Idle /\ runner' = NotRunning
    /\ UNCHANGED <<world, baseline, marker, kept, runs, spent>>

-----------------------------------------------------------------------------
(* The command is killed; manage.lock is released, the files stay. *)
Crash ==
    /\ job # Idle /\ spent < MaxFailures
    /\ job' = Idle /\ runner' = NotRunning
    /\ spent' = spent + 1
    /\ UNCHANGED <<world, baseline, marker, kept, runs>>

(* netem_agent.run and lock_drill.hold end by themselves. *)
LeaseEnds ==
    /\ \E p \in {"qdisc", "rowlock"} : world[p] = "on" /\ world' = [world EXCEPT ![p] = "off"]
    /\ UNCHANGED <<baseline, marker, job, runner, kept, runs, spent>>

(* Someone outside replaces a container, topic or index, or stops the target. *)
Outsider ==
    /\ spent < MaxFailures
    /\ \/ \E p \in Containers \cup Resources :
             world[p] = "on" /\ world' = [world EXCEPT ![p] = "foreign"] /\ UNCHANGED baseline
       \/ /\ world.target \in {"up", "paused"}
          /\ world' = [world EXCEPT !.target = "stopped"] /\ baseline' = [baseline EXCEPT !.target = "stopped"]
    /\ spent' = spent + 1
    /\ UNCHANGED <<marker, job, runner, kept, runs>>

(* What the guides ask the operator to do by hand when recovery refuses. *)
OperatorRepairs ==
    /\ job = Idle
    /\ \/ ~ NoActiveFault /\ world.target # "up" /\ world' = [world EXCEPT !.target = "up"]
       \/ \E p \in Containers \cup Resources :
             /\ \/ world[p] = "foreign"
                \/ Active("message") /\ world[p] = "on" /\ p \in Resources \ marker["message"].notes
             /\ world' = [world EXCEPT ![p] = "off"]
    /\ UNCHANGED <<baseline, marker, job, runner, kept, runs, spent>>

JobStep ==
    \/ SaveIntent \/ Cancelled \/ ApplyCall \/ Applied \/ HoldEnds \/ Keep \/ CleanUp \/ ScenarioFails
    \/ Verified \/ UndoCall \/ Unlink \/ NothingToRestore \/ RestoreRefused
    \/ LoadEnds \/ Judge \/ Finish

Recover == \E k \in Kinds : StartRecover(k)

Next ==
    \/ \E state \in {"up", "stopped"} : StopOrResume(state)
    \/ \E m \in {"normal", "redis-spare"} : Experiment(m)
    \/ Up \/ Down
    \/ \E a \in Actions : StartRun(a)
    \/ Recover \/ StartCleanup
    \/ JobStep \/ ApplyFails \/ RestoreFails \/ Interrupt \/ Crash
    \/ LeaseEnds \/ Outsider \/ OperatorRepairs

Spec == Init /\ [][Next]_vars

(* A running command goes on, leases end, and the operator repairs and recovers as the guides say. *)
FairSpec ==
    Spec /\ WF_vars(JobStep) /\ WF_vars(LeaseEnds) /\ SF_vars(OperatorRepairs) /\ WF_vars(Recover)

-----------------------------------------------------------------------------
(* Every variable has its type. *)
TypeOK ==
    /\ \A p \in Parts : world[p] \in Values[p] /\ baseline[p] \in Values[p]
    /\ \A k \in Kinds : marker[k].action \in {"none"} \cup Actions
    /\ job.at \in {"idle", "begin", "apply", "hold", "decide", "verify", "restore", "end"}
    /\ runs \in 0..MaxRuns /\ spent \in 0..MaxFailures

(***************************************************************************)
(* The three tools together implement the fault journal: no crash, failed  *)
(* call or interrupt leaves a change behind that no marker records, and a  *)
(* marker goes only when its changes are undone.  The spare Redis is the    *)
(* one exception: killed between its start and the note of it, switch        *)
(* leaves it running (nobody uses it).                                      *)
(***************************************************************************)
Journal == INSTANCE FaultJournal WITH
    Effects <- Parts, Residual <- {"spare"}, open <- ~ NoActiveFault, effects <- Damaged

JournalSpec == Journal!Spec

(***************************************************************************)
(* Cleanup is by identity, not by name: whatever replaced a container,     *)
(* topic or index under the same name is changed by nobody but its owner.  *)
(***************************************************************************)
ForeignUntouched ==
    [][\A p \in Containers \cup Resources :
          world[p] = "foreign" => world'[p] = "foreign" \/ OperatorRepairs]_vars

(***************************************************************************)
(* A simulation that is reported as passed did inject its fault, and the   *)
(* stack is restored and free of markers when it says so.                  *)
(***************************************************************************)
VerdictIsHonest ==
    runner.verdict = "passed" /\ runner.main = "done" => runner.applied /\ NoActiveFault /\ Damaged \subseteq {"spare"}

(***************************************************************************)
(* From every crash point the recover command ends: an unfinished run does *)
(* not lock the laboratory for ever.                                       *)
(***************************************************************************)
RecoveryEnds == \A k \in Kinds : Active(k) ~> ~ Active(k)
=============================================================================
