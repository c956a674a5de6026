------------------------------ MODULE GaleraData ------------------------------
(***************************************************************************)
(* Data commands of the MariaDB laboratory on a healthy cluster             *)
(* (src/mariadb-ha-lab): seed, verify, backup, restore and load of          *)
(* scripts/lab.py, the transfers of scripts/workload.py and the pacing of   *)
(* scripts/simulator.py.  .state/operation.lock admits one command; it may  *)
(* be killed between two calls, and a call may fail.                        *)
(*                                                                         *)
(* store    lab_ops.account (a version of its contents), the dataset        *)
(*          manifest and the rows of commerce_lab that are loaded           *)
(* bench    the tables of one load run: what the accounts were copied from, *)
(*          receipts (primary key request_id), times a request was applied  *)
(* callers  the workers of the load run;  late: commits a server is still   *)
(*          working on though the client has lost the connection            *)
(* files    the backups, oldest first;  twin: the isolated restore node     *)
(* task     the command;  verdict: what commands reported                   *)
(* pace     the simulator: clock, slot, next start, last start              *)
(***************************************************************************)
EXTENDS Integers, Sequences, FiniteSets, FiniteSetsExt

CONSTANTS Requests,      \* transfers of a load run, one per worker
          Sizes,         \* row counts of the synthetic datasets
          Attempts,      \* attempts per transfer
          Interval,      \* clock ticks between two simulator slots
          Slots,         \* seconds * rate
          Effort         \* bound: commands, and failures among them

ASSUME DataAssumption == Sizes \subseteq Nat /\ Attempts \in Nat /\ Interval \in Nat \ {0} /\ Slots \in Nat

VARIABLES store, bench, callers, late, files, twin, task, verdict, pace, effort

dataVars == <<store, bench, callers, late, files, twin, task, verdict, pace, effort>>

Nil == "nil"
NoTask == [op |-> Nil, at |-> Nil, size |-> 0, seen |-> 0, copied |-> 0, rc |-> 0, good |-> FALSE, same |-> FALSE]
NoBench == [accounts |-> FALSE, transfers |-> FALSE, receipts |-> {}, applied |-> [r \in Requests |-> 0]]
NoDataset == [size |-> 0, state |-> Nil]
NoPace == [on |-> FALSE, now |-> 0, slot |-> 0, tick |-> 0, last |-> -1, busy |-> FALSE]
Quit == [r \in Requests |-> [try |-> 0, at |-> Nil]]

DataInit ==
    /\ store = [account |-> 0, manifest |-> NoDataset, rows |-> 0]
    /\ bench = NoBench /\ callers = Quit /\ late = {} /\ files = <<>> /\ twin = <<>>
    /\ task = NoTask /\ verdict = [load |-> Nil, seed |-> Nil, restore |-> Nil] /\ pace = NoPace
    /\ effort = [commands |-> 0, failures |-> 0]

-----------------------------------------------------------------------------
(* One command at a time. *)

Enter(op, at, size) ==
    /\ task = NoTask /\ effort.commands < Effort.commands
    /\ effort' = [effort EXCEPT !.commands = @ + 1]
    /\ task' = [NoTask EXCEPT !.op = op, !.at = at, !.size = size]

To(at) == task' = [task EXCEPT !.at = at]
At(at) == task.at = at
Leaves == task' = NoTask
Fails == effort.failures < Effort.failures /\ effort' = [effort EXCEPT !.failures = @ + 1]
Calm == UNCHANGED effort

(* The command is killed, or a call fails where nothing handles it. *)
Abandon ==
    /\ task # NoTask /\ task.op # "load" /\ Fails /\ Leaves /\ pace' = NoPace
    /\ UNCHANGED <<store, bench, callers, late, files, twin, verdict>>

(* lab_ops.account and commerce_lab are open to "sql", which takes no lock. *)
Outsider ==
    /\ store.account = 0 /\ Fails /\ store' = [store EXCEPT !.account = 1]
    /\ UNCHANGED <<bench, callers, late, files, twin, task, verdict, pace>>

-----------------------------------------------------------------------------
(* seed and verify. *)

(* A dataset that calls itself complete is complete. *)
Honest(s) == s.manifest.state = "complete" => s.rows = s.manifest.size

BeginSeed(size, replace) ==
    /\ store.rows = 0 \/ replace
    /\ Enter("seed", "mark", size)
    /\ UNCHANGED <<store, bench, callers, late, files, twin, verdict, pace>>

(* Altered: the manifest is written with the first rows. *)
SeedMarkLate ==
    /\ task.op = "seed" /\ At("mark") /\ To("schema") /\ Calm
    /\ UNCHANGED <<store, bench, callers, late, files, twin, verdict, pace>>

(* The manifest says "loading" before anything is dropped. *)
SeedMark ==
    /\ task.op = "seed" /\ At("mark") /\ To("schema") /\ Calm
    /\ store' = [store EXCEPT !.manifest = [size |-> task.size, state |-> "loading"]]
    /\ UNCHANGED <<bench, callers, late, files, twin, verdict, pace>>

SeedSchema ==
    /\ task.op = "seed" /\ At("schema") /\ To("rows") /\ Calm /\ store' = [store EXCEPT !.rows = 0]
    /\ UNCHANGED <<bench, callers, late, files, twin, verdict, pace>>

(* seed.generate: autocommitted batches, in order. *)
SeedRows ==
    /\ task.op = "seed" /\ At("rows") /\ Calm
    /\ IF store.rows < task.size THEN store' = [store EXCEPT !.rows = @ + 1] /\ UNCHANGED task
       ELSE To("complete") /\ UNCHANGED store
    /\ UNCHANGED <<bench, callers, late, files, twin, verdict, pace>>

SeedComplete ==
    /\ task.op = "seed" /\ At("complete") /\ To("verify") /\ Calm
    /\ store' = [store EXCEPT !.manifest = [size |-> task.size, state |-> "complete"]]
    /\ UNCHANGED <<bench, callers, late, files, twin, verdict, pace>>

(* verify: the manifest, at least the expected rows, the sum of the accounts. *)
Verified(s) ==
    /\ s.manifest.state # Nil => s.manifest.state = "complete" /\ s.rows >= s.manifest.size
    /\ s.account = 0

SeedVerify ==
    /\ task.op = "seed" /\ At("verify") /\ Leaves /\ Calm
    /\ verdict' = [verdict EXCEPT !.seed = IF Verified(store) THEN "PASS" ELSE "FAIL"]
    /\ UNCHANGED <<store, bench, callers, late, files, twin, pace>>

-----------------------------------------------------------------------------
(* backup and restore. *)

BeginBackup == Enter("backup", "dump", 0) /\ UNCHANGED <<store, bench, callers, late, files, twin, verdict, pace>>

(* The dump is one snapshot; until it has ended the file is cut short. *)
BackupDump ==
    /\ At("dump") /\ To("meta") /\ Calm
    /\ files' = Append(files, [content |-> store, whole |-> FALSE, meta |-> FALSE])
    /\ UNCHANGED <<store, bench, callers, late, twin, verdict, pace>>

(* mariadb-dump fails: the file is removed. *)
BackupFails ==
    /\ At("meta") /\ Fails /\ Leaves /\ files' = SubSeq(files, 1, Len(files) - 1)
    /\ UNCHANGED <<store, bench, callers, late, twin, verdict, pace>>

(* The checksum is written beside a whole file only. *)
BackupMeta ==
    /\ At("meta") /\ Leaves /\ Calm
    /\ files' = [files EXCEPT ![Len(files)].whole = TRUE, ![Len(files)].meta = TRUE]
    /\ UNCHANGED <<store, bench, callers, late, twin, verdict, pace>>

(* restore: the newest file, or one the operator names, with its metadata and checksum. *)
BeginRestore(i) ==
    /\ i \in 1..Len(files) /\ files[i].meta /\ files[i].whole
    /\ Enter("restore", "wipe", i) /\ verdict' = [verdict EXCEPT !.restore = Nil]
    /\ UNCHANGED <<store, bench, callers, late, files, twin, pace>>

RestoreWipe ==
    /\ At("wipe") /\ To("feed") /\ Calm /\ twin' = <<>>
    /\ UNCHANGED <<store, bench, callers, late, files, verdict, pace>>

RestoreFeed ==
    /\ At("feed") /\ To("inspect") /\ Calm /\ twin' = <<files[task.size].content>>
    /\ UNCHANGED <<store, bench, callers, late, files, verdict, pace>>

(* Sum and number of accounts, a complete manifest, exactly the expected rows. *)
Restored(s) == s.account = 0 /\ (s.manifest.state # Nil => s.manifest.state = "complete" /\ s.rows = s.manifest.size)

RestoreInspect ==
    /\ At("inspect") /\ Leaves /\ Calm
    /\ verdict' = [verdict EXCEPT !.restore = IF Restored(twin[1]) THEN "PASS" ELSE "FAIL"]
    /\ UNCHANGED <<store, bench, callers, late, files, twin, pace>>

-----------------------------------------------------------------------------
(* load: a copy of the accounts, the workload, the checks, the clean-up, the report. *)

BeginLoad ==
    /\ Enter("load", "accounts", 0) /\ verdict' = [verdict EXCEPT !.load = Nil]
    /\ bench' = NoBench /\ callers' = Quit /\ late' = {}
    /\ UNCHANGED <<store, files, twin, pace>>

LoadRest == UNCHANGED <<store, late, files, twin, verdict, pace>>
Loads(at) == task.op = "load" /\ At(at)

(* create_benchmark_dataset *)
LoadAccounts ==
    /\ Loads("accounts") /\ bench' = [bench EXCEPT !.accounts = TRUE]
    /\ task' = [task EXCEPT !.at = "transfers", !.seen = store.account, !.copied = 0]
    /\ UNCHANGED callers /\ LoadRest /\ Calm

LoadTransfers ==
    /\ Loads("transfers") /\ bench' = [bench EXCEPT !.transfers = TRUE]
    /\ task' = [task EXCEPT !.at = "compare", !.copied = store.account]
    /\ UNCHANGED callers /\ LoadRest /\ Calm

LoadCompare ==
    /\ Loads("compare") /\ Calm /\ LoadRest /\ UNCHANGED bench
    /\ IF task.copied = task.seen
          THEN To("run") /\ callers' = [r \in Requests |-> [try |-> 1, at |-> "check"]]
          ELSE task' = [task EXCEPT !.at = "drop-transfers", !.rc = 1] /\ UNCHANGED callers

(* Altered: every attempt gets an identifier of its own. *)
FreshId(r) == <<r, callers[r].try>>

(* load.worker: the identifier is chosen before the first attempt. *)
RequestId(r) == <<r, 0>>

Resolve(r, at) == callers' = [callers EXCEPT ![r].at = at]

(* A retryable error: the same request again, until the attempts are used up. *)
Again(r) ==
    callers' = [callers EXCEPT ![r] = IF @.try < Attempts THEN [try |-> @.try + 1, at |-> "check"] ELSE [@ EXCEPT !.at = "unresolved"]]

CallRest == UNCHANGED <<store, files, twin, task, verdict, pace>>

(* transfer: a receipt answers the call; a transfer without the money writes nothing. *)
TransferCheck(r) ==
    /\ Loads("run") /\ callers[r].at = "check" /\ CallRest /\ UNCHANGED <<bench, late>>
    /\ \/ RequestId(r) \in bench.receipts /\ Resolve(r, "committed") /\ Calm
       \/ RequestId(r) \notin bench.receipts /\ Resolve(r, "commit") /\ Calm
       \/ RequestId(r) \notin bench.receipts /\ Resolve(r, "insufficient") /\ Calm
       \/ Fails /\ Again(r)

ApplyTransfer(r, id) == bench' = [bench EXCEPT !.receipts = @ \cup {id}, !.applied[r] = @ + 1]

(* Receipt and both balances commit together; the answer may be lost before or after. *)
TransferCommit(r) ==
    /\ Loads("run") /\ callers[r].at = "commit" /\ CallRest
    /\ \/ RequestId(r) \in bench.receipts /\ Again(r) /\ UNCHANGED <<bench, late>> /\ Calm
       \/ RequestId(r) \notin bench.receipts /\ ApplyTransfer(r, RequestId(r)) /\ Resolve(r, "committed") /\ UNCHANGED late /\ Calm
       \/ RequestId(r) \notin bench.receipts /\ ApplyTransfer(r, RequestId(r)) /\ Again(r) /\ UNCHANGED late /\ Fails
       \/ RequestId(r) \notin bench.receipts /\ late' = late \cup {RequestId(r)} /\ Again(r) /\ UNCHANGED bench /\ Fails

(* A commit its client has given up lands, or does not. *)
LateCommit(id) ==
    /\ id \in late /\ late' = late \ {id} /\ Calm /\ UNCHANGED callers /\ CallRest
    /\ IF bench.transfers /\ id \notin bench.receipts THEN ApplyTransfer(id[1], id) \/ UNCHANGED bench ELSE UNCHANGED bench

StillCalling == \E r \in Requests : callers[r].at \in {"check", "commit"}

(* The exit code of the workload; the tools container may also fail. *)
LoadEnds ==
    /\ Loads("run") /\ LoadRest /\ UNCHANGED bench
    /\ \/ /\ ~ StillCalling /\ Calm /\ UNCHANGED callers
          /\ task' = [task EXCEPT !.at = "after", !.rc = IF \E r \in Requests : callers[r].at = "unresolved" THEN 2 ELSE 0]
       \/ Fails /\ callers' = Quit /\ task' = [task EXCEPT !.at = "after", !.rc = 1]

LoadAfter ==
    /\ Loads("after") /\ LoadRest /\ UNCHANGED <<bench, callers>> /\ Calm
    /\ task' = [task EXCEPT !.at = "drop-transfers", !.good = (task.rc = 0), !.same = (store.account = task.seen)]

(* cleanup_benchmark_dataset: each DROP may fail; both are tried, then what is left is counted. *)
LoadDrop ==
    /\ UNCHANGED callers /\ LoadRest
    /\ \/ Loads("drop-transfers") /\ To("drop-accounts") /\ ((bench' = [bench EXCEPT !.transfers = FALSE] /\ Calm) \/ (UNCHANGED bench /\ Fails))
       \/ Loads("drop-accounts") /\ To("report") /\ ((bench' = [bench EXCEPT !.accounts = FALSE] /\ Calm) \/ (UNCHANGED bench /\ Fails))

Removed == ~ bench.transfers /\ ~ bench.accounts

LoadReport ==
    /\ Loads("report") /\ Leaves /\ Calm /\ UNCHANGED <<store, bench, callers, late, files, twin, pace>>
    /\ verdict' = [verdict EXCEPT !.load = IF task.rc = 0 /\ task.good /\ task.same /\ Removed THEN "PASS" ELSE "FAIL"]

(* SIGKILL of the host command: nothing is cleaned up and nothing is reported. *)
LoadKilled ==
    /\ task.op = "load" /\ Fails /\ Leaves /\ callers' = Quit
    /\ UNCHANGED <<store, bench, late, files, twin, verdict, pace>>

-----------------------------------------------------------------------------
(* simulate: slots that were missed are skipped. *)

BeginSimulate ==
    /\ Enter("simulate", "pace", 0) /\ pace' = [NoPace EXCEPT !.on = TRUE]
    /\ UNCHANGED <<store, bench, callers, late, files, twin, verdict>>

PaceRest == UNCHANGED <<store, bench, callers, late, files, twin, verdict, effort>>

(* Time passes while it sleeps - longer than asked for, at times - and while SQL runs. *)
Deadline == Slots * Interval
Clock ==
    /\ pace.on /\ pace.now < Deadline + Interval /\ pace' = [pace EXCEPT !.now = @ + 1]
    /\ UNCHANGED task /\ PaceRest

SimulatorStarts ==
    /\ pace.on /\ ~ pace.busy /\ pace.now >= pace.tick /\ pace.now < Deadline /\ pace.slot < Slots
    /\ pace' = [pace EXCEPT !.busy = TRUE, !.last = pace.now] /\ UNCHANGED task /\ PaceRest

NextTick(slot, start) == Max({slot * Interval, start + Interval})

SimulatorNext ==
    /\ pace.busy
    /\ LET slot == Max({pace.slot + 1, (pace.now + Interval - 1) \div Interval})
       IN  pace' = [pace EXCEPT !.busy = FALSE, !.slot = slot, !.tick = NextTick(slot, pace.last)]
    /\ UNCHANGED task /\ PaceRest

SimulatorEnds ==
    /\ pace.on /\ ~ pace.busy /\ (pace.now >= Deadline \/ pace.slot >= Slots)
    /\ pace' = NoPace /\ Leaves /\ PaceRest

-----------------------------------------------------------------------------
DatasetStep ==
    \/ (\E size \in Sizes, replace \in BOOLEAN : BeginSeed(size, replace))
    \/ SeedMark \/ SeedSchema \/ SeedRows \/ SeedComplete \/ SeedVerify
    \/ BeginBackup \/ BackupDump \/ BackupFails \/ BackupMeta
    \/ (\E i \in 1..Len(files) : BeginRestore(i)) \/ RestoreWipe \/ RestoreFeed \/ RestoreInspect
LoadStep ==
    \/ BeginLoad \/ LoadAccounts \/ LoadTransfers \/ LoadCompare \/ LoadEnds \/ LoadAfter \/ LoadDrop \/ LoadReport \/ LoadKilled
    \/ (\E r \in Requests : TransferCheck(r) \/ TransferCommit(r)) \/ (\E id \in late : LateCommit(id))
SimulatorStep == BeginSimulate \/ Clock \/ SimulatorStarts \/ SimulatorNext \/ SimulatorEnds

DataNext == DatasetStep \/ LoadStep \/ SimulatorStep \/ Abandon \/ Outsider

DataSpec == DataInit /\ [][DataNext]_dataVars

-----------------------------------------------------------------------------
(* Whatever answers were lost and whatever was tried again, no transfer of a load run is       *)
(* applied twice, and one that is counted as committed is applied.                              *)
TransfersOnce ==
    \A r \in Requests : bench.applied[r] <= 1 /\ (callers[r].at = "committed" => bench.applied[r] = 1)

(* A dataset that calls itself complete has its rows - in the cluster wherever a seed stopped, *)
(* in every backup, and on the restore node, which is reported as PASS only with such a copy.   *)
DatasetIsHonest ==
    /\ Honest(store) /\ (\A i \in 1..Len(files) : Honest(files[i].content)) /\ (\A i \in 1..Len(twin) : Honest(twin[i]))
    /\ verdict.restore = "PASS" => twin # <<>> /\ twin[1].manifest.state # "loading"

(* A load reported as PASS resolved every request, left no table behind and found the source   *)
(* accounts as they were; the simulator never starts two operations closer than its interval.  *)
MeasurementsAreHonest ==
    [][ /\ (verdict.load # "PASS" /\ verdict'.load = "PASS") =>
              ~ bench.transfers /\ ~ bench.accounts /\ task.same /\ \A r \in Requests : callers[r].at \in {"committed", "insufficient"}
        /\ (pace'.busy /\ ~ pace.busy /\ pace.last >= 0) => pace.now >= pace.last + Interval ]_dataVars
=============================================================================
