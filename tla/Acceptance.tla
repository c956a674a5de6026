------------------------------ MODULE Acceptance ------------------------------
(***************************************************************************)
(* "verify run" of src/mvp-lab/tools/acceptance.py: read-only probes of the *)
(* running images, then one simulate, drills or messages command per row,  *)
(* each a child process that takes manage.lock itself, and the projection  *)
(* of the result that evidence_export.py shares.  Between two commands     *)
(* anybody else may use the laboratory.                                    *)
(*                                                                         *)
(* gate    Gate.run: where it is, the row, its verdict, the source it tests *)
(*         and the images it found                                         *)
(* row     status of each row, in memory                                   *)
(* told    summary.json: verdict and rows as persisted                     *)
(* stack   host source, the source the running images were built from, and *)
(*         whether a recovery marker exists                                *)
(* mlock   who holds manage.lock                                           *)
(* child   the command of the current row                                  *)
(* proof   the child whose evidence each row was given                     *)
(* shared  verdict of the exported projection                              *)
(* others  commands and edits of other people so far                       *)
(***************************************************************************)
EXTENDS Integers

CONSTANTS Scenarios,   \* number of rows that run a command
          MaxOthers    \* bound: commands and edits of other people

ASSUME AcceptanceAssumption == Scenarios \in Nat \ {0} /\ MaxOthers \in Nat

VARIABLES gate, row, told, stack, mlock, child, proof, shared, others

accVars == <<gate, row, told, stack, mlock, child, proof, shared, others>>

(* container-targets and the two runtime contracts come before the scenarios. *)
Rows == 1..Scenarios + 3
ScenarioRows == 4..Scenarios + 3
Sources == {"one", "other"}

NoChild == [at |-> "none", row |-> 0, timed |-> FALSE, interrupted |-> FALSE, rc |-> 0,
            fresh |-> FALSE, status |-> "none", restored |-> FALSE]
NoProof == [i \in Rows |-> NoChild]

AccInit ==
    /\ gate = [at |-> "new", i |-> 1, verdict |-> "none", expected |-> "none", initial |-> "none"]
    /\ row = [i \in Rows |-> "not_run"]
    /\ told = [verdict |-> "none", row |-> row]
    /\ stack = [source |-> "one", image |-> "one", marker |-> FALSE]
    /\ mlock = "free" /\ child = NoChild /\ proof = NoProof
    /\ shared = "none" /\ others = 0

(* The row now has this status, and summary.json says so. *)
Persisted(rows) == row' = rows /\ told' = [told EXCEPT !.row = rows]

At(label, index) == gate' = [gate EXCEPT !.at = label, !.i = index]

(* The except branches: the row and the suite get the status, nothing after it is run. *)
FailRow(status) ==
    /\ row' = [row EXCEPT ![gate.i] = status]
    /\ gate' = [gate EXCEPT !.at = "final", !.verdict = status]
    /\ UNCHANGED <<told, proof>>

(* A RuntimeError, a busy lock among them, or a file that is missing. *)
Refused == \E status \in (IF gate.i <= 3 THEN {"blocked"} ELSE {"failed", "blocked"}) : FailRow(status)

(* Gate.__init__ takes the source manifest and persists a summary that says "blocked". *)
NewGate ==
    /\ gate.at = "new"
    /\ gate' = [gate EXCEPT !.at = "enter", !.verdict = "blocked", !.expected = stack.source]
    /\ told' = [told EXCEPT !.verdict = "blocked"]
    /\ UNCHANGED <<row, stack, mlock, child, proof, shared, others>>

(* suite_lock: another suite is active, or the first row begins. *)
EnterSuite ==
    /\ gate.at = "enter"
    /\ \/ /\ Persisted([row EXCEPT ![1] = "running"])
          /\ At("preflight", 1)
          /\ UNCHANGED proof
       \/ Refused
    /\ UNCHANGED <<stack, mlock, child, shared, others>>

(* preflight keeps manage.lock for the probes; containers may not be ready at all. *)
GatePreflight ==
    /\ gate.at = "preflight"
    /\ \/ /\ mlock = "free" /\ ~ stack.marker
          /\ mlock' = "gate"
          /\ Persisted([row EXCEPT ![1] = "passed", ![2] = "running"])
          /\ gate' = [gate EXCEPT !.at = "probe", !.i = 2, !.initial = stack.image]
          /\ UNCHANGED proof
       \/ Refused /\ UNCHANGED mlock
    /\ UNCHANGED <<stack, child, shared, others>>

(* check_source: the image holds the source of this suite. *)
CheckSource == stack.image = gate.expected

(* run_probe: the other checks only read and may pass or fail. *)
RunProbe(status) == status = "passed" => CheckSource

(* native: one probe per container, both under the lock of preflight. *)
Probe ==
    /\ gate.at = "probe"
    /\ \/ /\ RunProbe("passed")
          /\ Persisted([row EXCEPT ![gate.i] = "passed", ![gate.i + 1] = "running"])
          /\ At(IF gate.i = 3 THEN "check" ELSE "probe", gate.i + 1)
          /\ mlock' = IF gate.i = 3 THEN "free" ELSE "gate"
          /\ UNCHANGED proof
       \/ FailRow("failed") /\ mlock' = "free"
       \/ FailRow("blocked") /\ mlock' = "free"
    /\ UNCHANGED <<stack, child, shared, others>>

(* check_unchanged, under manage.lock: no marker, the source and images of the start. *)
Unchanged ==
    /\ mlock = "free" /\ ~ stack.marker
    /\ stack.source = gate.expected
    /\ stack.image = gate.initial

CheckBefore ==
    /\ gate.at = "check"
    /\ \/ /\ Unchanged
          /\ At("execute", gate.i)
          /\ child' = [NoChild EXCEPT !.at = "started", !.row = gate.i]
          /\ UNCHANGED <<row, told, proof>>
       \/ Refused /\ UNCHANGED child
    /\ UNCHANGED <<stack, mlock, shared, others>>

-----------------------------------------------------------------------------
(* The child: manage.py of this checkout, believed in nothing it says. *)

(* A fault scenario saves its marker; the command is refused while another one runs. *)
ChildRuns ==
    /\ child.at = "started"
    /\ \/ /\ mlock = "free" /\ ~ stack.marker
          /\ mlock' = "child"
          /\ \E fault \in BOOLEAN : stack' = [stack EXCEPT !.marker = fault]
          /\ child' = [child EXCEPT !.at = "running"]
       \/ /\ child' = [child EXCEPT !.at = "exited", !.rc = 1]
          /\ UNCHANGED <<stack, mlock>>
    /\ UNCHANGED <<gate, row, told, proof, shared, others>>

ChildExits ==
    /\ child.at = "running"
    /\ \E code \in 0..2, fresh \in BOOLEAN, status \in {"passed", "failed", "inconclusive"}, restored \in BOOLEAN :
          /\ child' = [child EXCEPT !.at = "exited", !.rc = code, !.fresh = fresh, !.status = status,
                                    !.restored = restored]
          /\ stack' = [stack EXCEPT !.marker = @ /\ ~ restored]
    /\ mlock' = "free"
    /\ UNCHANGED <<gate, row, told, proof, shared, others>>

(* The time of the row is over, or somebody interrupts: TERM, 25 s to clean up ... *)
Terminate ==
    /\ gate.at = "execute" /\ child.at \in {"started", "running"} /\ ~ child.timed /\ ~ child.interrupted
    /\ child' \in {[child EXCEPT !.timed = TRUE], [child EXCEPT !.interrupted = TRUE]}
    /\ UNCHANGED <<gate, row, told, stack, mlock, proof, shared, others>>

(* ... then KILL, which also frees the lock. *)
KillChild ==
    /\ gate.at = "execute" /\ child.at \in {"started", "running"} /\ (child.timed \/ child.interrupted)
    /\ child' = [child EXCEPT !.at = "exited", !.rc = 137]
    /\ mlock' = IF mlock = "child" THEN "free" ELSE mlock
    /\ UNCHANGED <<gate, row, told, stack, proof, shared, others>>

-----------------------------------------------------------------------------
(* Altered: a child that ends within its grace has completed. *)
CompletedInGrace == child.rc = 0 /\ ~ child.interrupted

(* record_result: a child that exceeded its time failed even if it exits with 0. *)
Completed == child.rc = 0 /\ ~ child.timed /\ ~ child.interrupted

Verdicts ==
    CASE child.interrupted -> "aborted"
      [] ~ child.interrupted /\ ~ child.timed /\ child.rc = 2 /\ child.status = "inconclusive" -> "inconclusive"
      [] OTHER -> "failed"

(* validate_child: a report of this execution that says passed and restored. *)
Valid == child.fresh /\ child.status = "passed" /\ child.restored

RecordResult ==
    /\ gate.at = "execute" /\ child.at = "exited"
    /\ \/ /\ Completed /\ Valid
          /\ proof' = [proof EXCEPT ![gate.i] = child]
          /\ At("recheck", gate.i)
          /\ UNCHANGED <<row, told>>
       \/ Completed /\ ~ Valid /\ FailRow("failed")
       \/ ~ Completed /\ FailRow(Verdicts)
    /\ UNCHANGED <<stack, mlock, child, shared, others>>

CheckAfter ==
    /\ gate.at = "recheck"
    /\ \/ /\ Unchanged
          /\ IF gate.i = Scenarios + 3
             THEN /\ Persisted([row EXCEPT ![gate.i] = "passed"])
                  /\ gate' = [gate EXCEPT !.at = "final", !.verdict = "passed"]
             ELSE /\ Persisted([row EXCEPT ![gate.i] = "passed", ![gate.i + 1] = "running"])
                  /\ At("check", gate.i + 1)
          /\ UNCHANGED proof
       \/ Refused
    /\ UNCHANGED <<stack, mlock, child, shared, others>>

(* KeyboardInterrupt, or SIGTERM turned into one, elsewhere in the try block: a second one *)
(* during the grace leaves the child behind.                                              *)
InterruptGate ==
    /\ \/ gate.at \in {"enter", "preflight", "probe", "check", "recheck"}
       \/ gate.at = "execute" /\ (child.at = "exited" \/ child.timed \/ child.interrupted)
    /\ FailRow("aborted")
    /\ mlock' = IF mlock = "gate" THEN "free" ELSE mlock
    /\ UNCHANGED <<stack, child, shared, others>>

(* The finally block: a marker left by anybody turns a pass into a failure. *)
FinishGate ==
    /\ gate.at = "final"
    /\ LET spoilt == stack.marker /\ gate.verdict = "passed"
       IN /\ row' = IF spoilt THEN [row EXCEPT ![Scenarios + 3] = "failed"] ELSE row
          /\ told' = [verdict |-> IF spoilt THEN "failed" ELSE gate.verdict, row |-> row']
    /\ At("over", gate.i)
    /\ UNCHANGED <<stack, mlock, child, proof, shared, others>>

(* SIGKILL, or SIGTERM once the handler is gone: summary.json stays; the child goes on alone. *)
GateDies ==
    /\ gate.at \notin {"new", "over", "dead"}
    /\ At("dead", gate.i)
    /\ mlock' = IF mlock = "gate" THEN "free" ELSE mlock
    /\ UNCHANGED <<row, told, stack, child, proof, shared, others>>

(* project_acceptance: a pass is projected only when every row passed. *)
Projection ==
    IF told.verdict = "passed" /\ \E i \in Rows : told.row[i] # "passed" THEN "failed" ELSE told.verdict

(* export: a bundle is never overwritten. *)
Export ==
    /\ shared = "none" /\ told.verdict # "none"
    /\ shared' = Projection
    /\ UNCHANGED <<gate, row, told, stack, mlock, child, proof, others>>

-----------------------------------------------------------------------------
(* Other people: a manage command under the lock, and edits that need no lock. *)
Meddle == others < MaxOthers /\ others' = others + 1

OtherBegins ==
    /\ Meddle
    /\ mlock = "free" /\ mlock' = "other"
    /\ UNCHANGED <<gate, row, told, stack, child, proof, shared>>

(* It ends, with a marker if it failed half-way, perhaps with images built anew. *)
OtherEnds ==
    /\ mlock = "other" /\ mlock' = "free"
    /\ \E marker \in BOOLEAN, image \in {stack.image, stack.source} :
          stack' = [stack EXCEPT !.marker = marker, !.image = image]
    /\ UNCHANGED <<gate, row, told, child, proof, shared, others>>

EditSource ==
    /\ Meddle
    /\ \E s \in Sources \ {stack.source} : stack' = [stack EXCEPT !.source = s]
    /\ UNCHANGED <<gate, row, told, mlock, child, proof, shared>>

AccNext ==
    \/ NewGate \/ EnterSuite \/ GatePreflight \/ Probe \/ CheckBefore
    \/ ChildRuns \/ ChildExits \/ Terminate \/ KillChild
    \/ RecordResult \/ CheckAfter \/ InterruptGate \/ FinishGate \/ GateDies
    \/ Export
    \/ OtherBegins \/ OtherEnds \/ EditSource

AccSpec == AccInit /\ [][AccNext]_accVars

-----------------------------------------------------------------------------
(* Every variable has its type. *)
Child == [at : {"none", "started", "running", "exited"}, row : 0..Scenarios + 3, timed : BOOLEAN,
          interrupted : BOOLEAN, rc : {0, 1, 2, 137}, fresh : BOOLEAN,
          status : {"none", "passed", "failed", "inconclusive"}, restored : BOOLEAN]
RowStatus == {"not_run", "running", "passed", "failed", "inconclusive", "blocked", "aborted"}

AccTypeOK ==
    /\ gate \in [at : {"new", "enter", "preflight", "probe", "check", "execute", "recheck", "final", "over", "dead"},
                 i : Rows, verdict : RowStatus \cup {"none"}, expected : Sources \cup {"none"},
                 initial : Sources \cup {"none"}]
    /\ row \in [Rows -> RowStatus]
    /\ told \in [verdict : RowStatus \cup {"none"}, row : [Rows -> RowStatus]]
    /\ stack \in [source : Sources, image : Sources, marker : BOOLEAN]
    /\ mlock \in {"free", "gate", "child", "other"}
    /\ child \in Child /\ proof \in [Rows -> Child]
    /\ shared \in RowStatus \cup {"none"}
    /\ others \in 0..MaxOthers

(***************************************************************************)
(* "Fail-closed": a suite that summary.json or the shared projection calls *)
(* passed ran a command of its own for every row, which ended in time with *)
(* 0 and a new report whose fault was restored, on images built from the   *)
(* source that was tested; crashes, interrupts and other people's commands *)
(* can take a pass away but never make one.                                *)
(***************************************************************************)
PassIsEarned ==
    told.verdict = "passed" \/ shared = "passed" =>
        /\ \A i \in Rows : told.row[i] = "passed"
        /\ gate.initial = gate.expected
        /\ \A i \in ScenarioRows :
              /\ proof[i].row = i /\ proof[i].rc = 0
              /\ ~ proof[i].timed /\ ~ proof[i].interrupted
              /\ proof[i].fresh /\ proof[i].status = "passed" /\ proof[i].restored

(***************************************************************************)
(* "no later scenario was executed": a row begins only when every row      *)
(* before it has passed, in memory and in what is persisted.               *)
(***************************************************************************)
NothingAfterAFailure ==
    \A i, j \in Rows : i < j =>
        /\ row[j] # "not_run" => row[i] = "passed"
        /\ told.row[j] # "not_run" => told.row[i] = "passed"

AcceptanceIsHonest == PassIsEarned /\ NothingAfterAFailure
=============================================================================
