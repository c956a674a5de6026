------------------------------ MODULE LabControl ------------------------------
(***************************************************************************)
(* The root controller (src/all.sh with the receipts of src/scripts/control.py) *)
(* and the Ansible adapter above it (src/ansible/module_utils/db_lab_execution.py): *)
(* batches of up, restart and down over several labs, one at a time under a *)
(* lock, interrupted, timed out or killed anywhere.                        *)
(*                                                                         *)
(* lab      what each lab is: down, up (its health command succeeds), sick *)
(* byOp     the operation that last started or stopped a lab               *)
(* root     the all.sh processes                                           *)
(* holder   whose background sleep holds .state/all.lock                   *)
(* slip     reports/all-*.json of each operation                           *)
(* ctl      execute_plan of the Ansible adapter, which runs operation Driven *)
(* mishaps  interrupts, timeouts and kills so far                          *)
(***************************************************************************)
EXTENDS Integers, Sequences, SequencesExt

CONSTANTS Roots,        \* root operations
          Driven,       \* the one the Ansible adapter runs
          Selected,     \* the labs each operation selects, in order
          Plan,         \* the commands of the Ansible plan: a sequence of actions
          MaxMishaps    \* bound: interrupts, timeouts and kills

VARIABLES lab, byOp, root, holder, slip, ctl, mishaps

ctlVars == <<lab, byOp, root, holder, slip, ctl, mishaps>>

Labs == UNION {ToSet(Selected[o]) : o \in Roots}
NoRoot == [at |-> "none", action |-> "none", sel |-> <<>>, left |-> <<>>, fast |-> FALSE,
           failed |-> 0, stopped |-> FALSE, term |-> FALSE, code |-> 0]
NoSlip == [status |-> "none", results |-> {}, verified |-> FALSE]
NoPlan == [at |-> "idle", i |-> 1, timed |-> FALSE, rc |-> 0, changed |-> FALSE, codes |-> <<>>]
Codes == {0, 1, 130}

(* select_projects never selects nothing, and the adapter runs one of the operations. *)
ASSUME ControlAssumption ==
    /\ Driven \in Roots /\ "none" \notin Roots
    /\ \A o \in Roots : Selected[o] \in Seq(Labs) /\ Selected[o] # <<>>
    /\ Plan \in Seq({"up", "restart", "down"})

Working == {"initialize", "doctor", "perform", "start", "health"}

CtlInit ==
    /\ lab = [p \in Labs |-> "down"] /\ byOp = [p \in Labs |-> "none"]
    /\ root = [o \in Roots |-> NoRoot] /\ holder = "none"
    /\ slip = [o \in Roots |-> NoSlip]
    /\ ctl = NoPlan /\ mishaps = 0

(* The process goes on as r says, unless its TERM trap was waiting for the child to end. *)
RootGoes(o, r) ==
    root' = [root EXCEPT ![o] = IF root[o].term THEN [root[o] EXCEPT !.at = "exit", !.code = 143] ELSE r]

Noting(o, p, phase, code) == slip' = [slip EXCEPT ![o].results = @ \cup {<<p, phase, code>>}]

-----------------------------------------------------------------------------
(* run_batch: preflight, then begin_operation: the lock, and the receipt. *)
Begun(action, sel, fast) ==
    [NoRoot EXCEPT !.at = IF action = "down" THEN "perform" ELSE "initialize", !.action = action,
                   !.sel = sel, !.left = IF action = "down" THEN Reverse(sel) ELSE sel, !.fast = fast]

BeginOperation(o, action, fast) ==
    /\ root[o].at = "none"
    /\ holder = "none"
    /\ holder' = o
    /\ root' = [root EXCEPT ![o] = Begun(action, Selected[o], fast)]
    /\ slip' = [slip EXCEPT ![o].status = "running"]
    /\ UNCHANGED <<lab, byOp, ctl, mishaps>>

(* A preflight that fails, or a lock that is taken: no receipt. *)
BeginRefused(o, action) ==
    /\ root[o].at = "none"
    /\ root' = [root EXCEPT ![o] = [NoRoot EXCEPT !.at = "over", !.action = action, !.code = 1]]
    /\ UNCHANGED <<lab, byOp, holder, slip, ctl, mishaps>>

(* Initialize all, then doctor all, before any lab is started or stopped. *)
PhaseAfter(r) ==
    IF Len(r.left) > 1 THEN [r EXCEPT !.left = Tail(@)]
    ELSE [r EXCEPT !.left = r.sel, !.at = IF r.at = "initialize" THEN "doctor" ELSE "perform"]

Prepare(o, code) ==
    LET r == root[o] IN
    /\ r.at \in {"initialize", "doctor"}
    /\ Noting(o, Head(r.left), r.at, code)
    /\ RootGoes(o, IF code = 0 THEN PhaseAfter(r) ELSE [r EXCEPT !.at = "exit", !.code = code])
    /\ UNCHANGED <<lab, byOp, holder, ctl, mishaps>>

(* A lab command failed: an interrupted one ends the batch, another may stop it. *)
Failed(r, code) ==
    IF code = 130 THEN [r EXCEPT !.at = "exit", !.code = 130]
    ELSE [r EXCEPT !.at = "perform", !.left = Tail(@), !.failed = 1, !.stopped = r.fast]

Phase(r) == IF r.action = "down" THEN "command" ELSE "start"

(* perform_project, first command: lab.sh down for down and restart, lab.sh up for up. *)
Touch(o, p, states) == \E s \in states : lab' = [lab EXCEPT ![p] = s] /\ byOp' = [byOp EXCEPT ![p] = o]

StopLab(o, code) ==
    LET r == root[o]
        p == Head(r.left)
    IN /\ r.at = "perform" /\ r.left # <<>> /\ ~ r.stopped /\ r.action \in {"down", "restart"}
       /\ Touch(o, p, IF code = 0 THEN {"down"} ELSE {lab[p], "sick"})
       /\ \/ /\ code = 0 /\ r.action = "restart"
             /\ RootGoes(o, [r EXCEPT !.at = "start"])
             /\ UNCHANGED slip
          \/ /\ code = 0 /\ r.action = "down"
             /\ Noting(o, p, "command", 0)
             /\ RootGoes(o, [r EXCEPT !.left = Tail(@)])
          \/ /\ code # 0
             /\ Noting(o, p, Phase(r), code)
             /\ RootGoes(o, Failed(r, code))
       /\ UNCHANGED <<holder, ctl, mishaps>>

StartLab(o, code) ==
    LET r == root[o]
        p == Head(r.left)
    IN /\ \/ r.at = "start"
          \/ r.at = "perform" /\ r.left # <<>> /\ ~ r.stopped /\ r.action = "up"
       /\ Touch(o, p, IF code = 0 THEN {"up", "sick"} ELSE {lab[p], "sick"})
       /\ Noting(o, p, "start", code)
       /\ RootGoes(o, IF code = 0 THEN [r EXCEPT !.at = "health"] ELSE Failed(r, code))
       /\ UNCHANGED <<holder, ctl, mishaps>>

(* control.py health --wait-seconds 60: a healthy lab may be slow to answer, a sick one never is. *)
Health(o, code) ==
    LET r == root[o]
        p == Head(r.left)
    IN /\ r.at = "health"
       /\ code = 0 => lab[p] = "up"
       /\ Noting(o, p, "health", code)
       /\ RootGoes(o, IF code = 0 THEN [r EXCEPT !.at = "perform", !.left = Tail(@)] ELSE Failed(r, code))
       /\ UNCHANGED <<lab, byOp, holder, ctl, mishaps>>

(* After a failure under --fail-fast the rest is recorded as skipped. *)
Skip(o) ==
    LET r == root[o] IN
    /\ r.at = "perform" /\ r.left # <<>> /\ r.stopped
    /\ Noting(o, Head(r.left), "command", -1)
    /\ RootGoes(o, [r EXCEPT !.left = Tail(@)])
    /\ UNCHANGED <<lab, byOp, holder, ctl, mishaps>>

BatchEnds(o) ==
    /\ root[o].at = "perform" /\ root[o].left = <<>>
    /\ RootGoes(o, [root[o] EXCEPT !.at = "exit", !.code = root[o].failed])
    /\ UNCHANGED <<lab, byOp, holder, slip, ctl, mishaps>>

(* finish_run: the lock goes first, the receipt is completed after it. *)
FreeLock(o) ==
    /\ root[o].at = "exit"
    /\ holder' = IF holder = o THEN "none" ELSE holder
    /\ root' = [root EXCEPT ![o].at = "finish"]
    /\ UNCHANGED <<lab, byOp, slip, ctl, mishaps>>

(* Altered: the exit code of the batch does not count. *)
VerifiedPartly(results, code) ==
    LET Passed(phase) == {x[1] : x \in {y \in results : y[2] = phase /\ y[3] = 0}} IN
    Passed("start") # {} /\ Passed("start") = Passed("health")

(* record __finish__: health_verified. *)
Verified(results, code) ==
    LET Passed(phase) == {x[1] : x \in {y \in results : y[2] = phase /\ y[3] = 0}} IN
    code = 0 /\ Passed("start") # {} /\ Passed("start") = Passed("health")

FinishRun(o) ==
    /\ root[o].at = "finish"
    /\ slip' = [slip EXCEPT ![o].status = IF root[o].code = 0 THEN "completed" ELSE "failed",
                                  ![o].verified = Verified(slip[o].results, root[o].code)]
    /\ root' = [root EXCEPT ![o].at = "over"]
    /\ UNCHANGED <<lab, byOp, holder, ctl, mishaps>>

-----------------------------------------------------------------------------
(* Interrupts and kills. *)

Mishap == mishaps < MaxMishaps /\ mishaps' = mishaps + 1

(* INT or TERM reaches all.sh between two commands: its trap exits, and EXIT runs finish_run. *)
RootInterrupted(o) ==
    /\ root[o].at \in Working /\ Mishap
    /\ root' = [root EXCEPT ![o].at = "exit", ![o].code = 130]
    /\ UNCHANGED <<lab, byOp, holder, slip, ctl>>

(* SIGKILL of all.sh alone: no trap runs, and the background sleep keeps the lock. *)
RootKilled(o) ==
    /\ root[o].at \in Working \cup {"exit", "finish"} /\ Mishap
    /\ root' = [root EXCEPT ![o].at = "killed", ![o].code = 137]
    /\ UNCHANGED <<lab, byOp, holder, slip, ctl>>

-----------------------------------------------------------------------------
(* execute_plan: one native command after another, each with a timeout, none repeated. *)

LaunchCommand ==
    /\ ctl.at \in {"idle", "next"} /\ ctl.i <= Len(Plan)
    /\ root[Driven].at = "none"
    /\ ctl' = [ctl EXCEPT !.at = "run", !.changed = TRUE]
    /\ \/ /\ holder = "none" /\ holder' = Driven
          /\ root' = [root EXCEPT ![Driven] = Begun(Plan[ctl.i], Selected[Driven], TRUE)]
          /\ slip' = [slip EXCEPT ![Driven].status = "running"]
       \/ /\ root' = [root EXCEPT ![Driven] = [NoRoot EXCEPT !.at = "over", !.action = Plan[ctl.i], !.code = 1]]
          /\ UNCHANGED <<holder, slip>>
    /\ UNCHANGED <<lab, byOp, mishaps>>

(* A timeout, or a signal to the adapter, TERMs the whole group: the sleep that holds the lock dies at once, all.sh *)
(* only when the command it waits for has ended.                                         *)
TimesOut ==
    /\ ctl.at = "run" /\ ~ ctl.timed /\ root[Driven].at \in Working \cup {"exit", "finish"} /\ Mishap
    /\ ctl' = [ctl EXCEPT !.timed = TRUE]
    /\ root' = [root EXCEPT ![Driven].term = TRUE]
    /\ holder' = IF holder = Driven THEN "none" ELSE holder
    /\ UNCHANGED <<lab, byOp, slip>>

(* The grace period is over: KILL. *)
GraceEnds ==
    /\ ctl.at = "run" /\ ctl.timed /\ root[Driven].at \in Working \cup {"exit", "finish"}
    /\ root' = [root EXCEPT ![Driven].at = "killed", ![Driven].code = 137]
    /\ UNCHANGED <<lab, byOp, holder, slip, ctl, mishaps>>

(* execute: a timeout is never success, even if the cleanup exits zero. *)
ReturnCode(timed, native) == IF timed THEN 124 ELSE native

Reap ==
    LET rc == ReturnCode(ctl.timed, root[Driven].code)
        last == rc # 0 \/ ctl.i = Len(Plan)
    IN /\ ctl.at = "run" /\ root[Driven].at \in {"over", "killed"}
       /\ ctl' = [ctl EXCEPT !.at = IF last THEN "done" ELSE "next", !.i = @ + 1, !.rc = rc,
                             !.codes = Append(@, <<root[Driven].code, ctl.timed>>)]
       /\ root' = IF last THEN root ELSE [root EXCEPT ![Driven] = NoRoot]
       /\ slip' = IF last THEN slip ELSE [slip EXCEPT ![Driven] = NoSlip]
       /\ UNCHANGED <<lab, byOp, holder, mishaps>>

-----------------------------------------------------------------------------
RootStep(o) ==
    \/ \E code \in Codes : Prepare(o, code) \/ StopLab(o, code) \/ StartLab(o, code) \/ Health(o, code)
    \/ Skip(o) \/ BatchEnds(o) \/ FreeLock(o) \/ FinishRun(o)

CtlNext ==
    \/ \E o \in Roots \ {Driven}, action \in {"up", "restart", "down"} :
          \/ \E fast \in BOOLEAN : BeginOperation(o, action, fast)
          \/ BeginRefused(o, action)
    \/ \E o \in Roots : RootStep(o) \/ RootInterrupted(o) \/ RootKilled(o)
    \/ LaunchCommand \/ TimesOut \/ GraceEnds \/ Reap

CtlSpec == CtlInit /\ [][CtlNext]_ctlVars

-----------------------------------------------------------------------------
(***************************************************************************)
(* The lock: two root operations work at the same time only while one that *)
(* was timed out is still waiting for its last command.                    *)
(***************************************************************************)
OneAtATime ==
    \A o, q \in Roots : (o # q /\ root[o].at \in Working /\ root[q].at \in Working)
                           => root[o].term \/ root[q].term

(***************************************************************************)
(* The receipt: health_verified means that every selected lab was started  *)
(* by this operation and is up, unless another one touched it since; and a *)
(* batch that failed to initialize or diagnose started and stopped nothing. *)
(***************************************************************************)
ReceiptIsHonest ==
    \A o \in Roots :
        /\ slip[o].verified =>
              \A p \in ToSet(root[o].sel) : byOp[p] = o => lab[p] = "up"
        /\ slip[o].verified =>
              \A p \in ToSet(root[o].sel) : {<<p, "start", 0>>, <<p, "health", 0>>} \subseteq slip[o].results
        /\ (\E x \in slip[o].results : x[2] \in {"initialize", "doctor"} /\ x[3] # 0) =>
              \A x \in slip[o].results : x[2] \in {"initialize", "doctor"}

(* The adapter: success means that every command of the plan ran once, in time, and succeeded. *)
ResultIsHonest ==
    ctl.at = "done" /\ ctl.rc = 0 => ctl.codes = [i \in 1..Len(Plan) |-> <<0, FALSE>>]

ControlIsHonest == OneAtATime /\ ReceiptIsHonest /\ ResultIsHonest
=============================================================================
