----------------------------- MODULE GaleraProofs -----------------------------
(***************************************************************************)
(* Proofs about the MariaDB Galera laboratory.                             *)
(* GaleraData: transfers are applied once, datasets and their copies are   *)
(* what they say, and a load is reported as PASS only when it was one, for *)
(* every number of workers, attempts, dataset sizes, commands and failures.*)
(* GaleraLab: the incident scenarios keep their journal and report as      *)
(* passed only what passed, for every set of nodes and every number of     *)
(* commands, failures and transactions.                                    *)
(***************************************************************************)
EXTENDS MCGalera, TLAPS, SequenceTheorems, FiniteSetTheorems, WellFoundedInduction

-----------------------------------------------------------------------------
(* The data commands of the MariaDB Galera laboratory. *)

Calling == {Nil, "check", "commit", "committed", "insufficient", "unresolved"}
Settled == {"committed", "insufficient"}
Words == {Nil, "PASS", "FAIL"}
Ops == {Nil, "seed", "backup", "restore", "load", "simulate"}
Labels == {Nil, "mark", "schema", "rows", "complete", "verify", "dump", "meta", "wipe", "feed", "inspect", "accounts",
           "transfers", "compare", "run", "after", "drop-transfers", "drop-accounts", "report", "pace"}
Ids == {<<r, 0>> : r \in Requests}

Contents == [account : {0, 1}, manifest : [size : Nat, state : {Nil, "loading", "complete"}], rows : Nat]
Verdicts == [load : Words, seed : Words, restore : Words]
Backup == [content : Contents, whole : BOOLEAN, meta : BOOLEAN]
Tables == [accounts : BOOLEAN, transfers : BOOLEAN, receipts : SUBSET Ids, applied : [Requests -> Nat]]
Workers == [Requests -> [try : Nat, at : Calling]]
Tasks == [op : Ops, at : Labels, size : Nat, seen : {0, 1}, copied : {0, 1}, rc : Nat, good : BOOLEAN, same : BOOLEAN]
Pace == [on : BOOLEAN, now : Int, slot : Int, tick : Int, last : Int, busy : BOOLEAN]

DataTypeOK ==
    /\ store \in Contents
    /\ bench \in Tables
    /\ callers \in Workers
    /\ late \subseteq Ids
    /\ files \in Seq(Backup)
    /\ twin \in Seq(Contents)
    /\ task \in Tasks
    /\ verdict \in Verdicts
    /\ pace \in Pace

(* A receipt and its transfer come together, and who was told "committed" has a receipt. *)
ReceiptsAreTransfers ==
    \A r \in Requests :
        /\ bench.applied[r] = IF RequestId(r) \in bench.receipts THEN 1 ELSE 0
        /\ callers[r].at = "committed" => RequestId(r) \in bench.receipts

(* Between the mark and the completion of a seed the manifest says "loading", and at its end all rows are there. *)
SeedKnows ==
    /\ task.at \in {"schema", "rows", "complete"} => store.manifest = [size |-> task.size, state |-> "loading"]
    /\ task.at = "rows" => store.rows <= task.size
    /\ task.at = "complete" => store.rows = task.size

(* A restore works on a backup that exists, and has withdrawn the earlier verdict. *)
RestoreKnows ==
    /\ task.at = "meta" => Len(files) > 0
    /\ task.at \in {"wipe", "feed"} => task.size \in 1..Len(files)
    /\ task.at \in {"wipe", "feed", "inspect"} => verdict.restore # "PASS"
    /\ task.at = "inspect" => Len(twin) > 0

(* A workload that ended with exit code 0 has settled every request. *)
LoadKnows ==
    /\ task.at = "run" => \A r \in Requests : callers[r].at # Nil
    /\ task.at \in {"after", "drop-transfers", "drop-accounts", "report"} /\ task.rc = 0 =>
          \A r \in Requests : callers[r].at \in Settled

(* The next start is at least one interval after the last. *)
PaceKnows == ~ pace.busy /\ pace.last >= 0 => pace.tick >= pace.last + Interval

DataInv ==
    /\ DataTypeOK
    /\ ReceiptsAreTransfers
    /\ DatasetIsHonest
    /\ SeedKnows
    /\ RestoreKnows
    /\ LoadKnows
    /\ PaceKnows

-----------------------------------------------------------------------------
(* Commands that begin and end. *)

LEMMA NoTaskIsTask == NoTask \in Tasks
  <1>1. Nil \in Ops /\ Nil \in Labels
    BY DEF Ops, Labels
  <1> QED BY <1>1 DEF NoTask, Tasks

(* Where no step of a command is at hand, nothing is owed. *)
LEMMA NoTaskOwesNothing ==
    ASSUME task' = NoTask
    PROVE  SeedKnows' /\ RestoreKnows' /\ LoadKnows' /\ NoTask \in Tasks
  <1>1. task'.at = "nil"
    BY DEF NoTask, Nil
  <1> QED BY <1>1, NoTaskIsTask DEF SeedKnows, RestoreKnows, LoadKnows

(* What Enter makes of the task. *)
LEMMA EnterEffect ==
    ASSUME NEW op \in Ops, NEW at \in Labels, NEW size \in Nat, Enter(op, at, size)
    PROVE  /\ task' \in Tasks /\ task'.op = op /\ task'.at = at /\ task'.size = size /\ task'.rc = 0
           /\ task.at = "nil"
  BY DEF Enter, NoTask, Tasks, Nil

(* What To makes of it. *)
LEMMA ToEffect ==
    ASSUME task \in Tasks, NEW at \in Labels, To(at)
    PROVE  /\ task' \in Tasks /\ task'.at = at /\ task'.op = task.op /\ task'.size = task.size
           /\ task'.rc = task.rc
  BY DEF To, Tasks

(* The parts that concern only the load and the simulator are kept by every other command. *)
LEMMA OtherPartsAlone ==
    ASSUME DataInv, UNCHANGED <<bench, callers, pace>>
    PROVE  ReceiptsAreTransfers' /\ PaceKnows'
  BY DEF DataInv, ReceiptsAreTransfers, PaceKnows, RequestId

(* The parts that concern the datasets are kept by every step that leaves them alone. *)
LEMMA DatasetAlone ==
    ASSUME DataInv, UNCHANGED <<store, files, twin>>, verdict'.restore = verdict.restore \/ verdict'.restore # "PASS"
    PROVE  DatasetIsHonest'
  BY DEF DataInv, DatasetIsHonest, Honest
(* A command on the datasets owes only its own parts. *)
LEMMA DatasetCommand ==
    ASSUME DataInv, UNCHANGED <<bench, callers, late, pace>>, store' \in Contents, files' \in Seq(Backup),
           twin' \in Seq(Contents), task' \in Tasks, verdict' \in Verdicts, DatasetIsHonest', SeedKnows', RestoreKnows',
           task'.at \in {Nil, "mark", "schema", "rows", "complete", "verify", "dump", "meta", "wipe", "feed", "inspect"}
    PROVE  DataInv'
  <1>1. ReceiptsAreTransfers' /\ PaceKnows'
    BY OtherPartsAlone
  <1>2. LoadKnows'
    BY DEF LoadKnows, Nil
  <1>3. DataTypeOK'
    BY DEF DataInv, DataTypeOK
  <1> QED BY <1>1, <1>2, <1>3 DEF DataInv

(* The newest file is removed, the others stay. *)
LEMMA ShorterSequence ==
    ASSUME NEW S, NEW s \in Seq(S), Len(s) > 0
    PROVE  LET t == SubSeq(s, 1, Len(s) - 1)
           IN  /\ t \in Seq(S) /\ Len(t) = Len(s) - 1
               /\ \A i \in 1..Len(t) : i \in 1..Len(s) /\ t[i] = s[i]
  <1> DEFINE n == Len(s) - 1
             t == SubSeq(s, 1, n)
  <1>1. n \in Nat /\ 1 \in Int /\ n \in Int /\ \A i \in 1..n : i \in 1..Len(s) /\ s[i] \in S
    OBVIOUS
  <1>2. t \in Seq(S) /\ Len(t) = n /\ \A i \in 1..n : t[i] = s[i]
    <2> HIDE DEF n
    <2>1. \A i \in 1..n : s[i] \in S
      BY <1>1
    <2>2. /\ t \in Seq(S) /\ Len(t) = IF 1 <= n THEN n - 1 + 1 ELSE 0
          /\ \A i \in 1..(n - 1 + 1) : t[i] = s[1 + i - 1]
      BY <1>1, <2>1, SubSeqProperties
    <2> HIDE DEF t
    <2> QED BY <1>1, <2>2
  <1> QED BY <1>1, <1>2

(* What the commands on the datasets know of their state. *)
LEMMA DatasetFacts ==
    ASSUME DataInv
    PROVE  /\ store \in Contents /\ files \in Seq(Backup) /\ twin \in Seq(Contents) /\ task \in Tasks
           /\ verdict \in Verdicts /\ DatasetIsHonest /\ SeedKnows /\ RestoreKnows
           /\ store.rows \in Nat /\ task.size \in Nat /\ Len(files) \in Nat /\ Len(twin) \in Nat
  BY DEF DataInv, DataTypeOK, Contents, Tasks

-----------------------------------------------------------------------------
(* seed *)

LEMMA BeginSeedKeeps ==
    ASSUME DataInv, NEW size \in Sizes, NEW replace \in BOOLEAN, BeginSeed(size, replace)
    PROVE  DataInv'
  <1>1. /\ UNCHANGED <<store, bench, callers, late, files, twin, verdict, pace>> /\ Enter("seed", "mark", size)
        /\ size \in Nat /\ "seed" \in Ops /\ "mark" \in Labels
    BY DataAssumption DEF BeginSeed, Ops, Labels
  <1>2. task' \in Tasks /\ task'.at = "mark"
    BY <1>1, EnterEffect
  <1>3. SeedKnows' /\ RestoreKnows'
    BY <1>2 DEF SeedKnows, RestoreKnows
  <1>4. DatasetIsHonest'
    BY <1>1, DatasetAlone
  <1> QED BY <1>1, <1>2, <1>3, <1>4, DatasetFacts, DatasetCommand

LEMMA SeedMarkKeeps ==
    ASSUME DataInv, SeedMark
    PROVE  DataInv'
  <1>1. /\ UNCHANGED <<bench, callers, late, files, twin, verdict, pace>> /\ To("schema") /\ "schema" \in Labels
        /\ store' = [store EXCEPT !.manifest = [size |-> task.size, state |-> "loading"]]
    BY DEF SeedMark, Labels
  <1>2. task' \in Tasks /\ task'.at = "schema" /\ task'.size = task.size
    BY <1>1, ToEffect, DatasetFacts
  <1>3. store' \in Contents /\ store'.manifest = [size |-> task.size, state |-> "loading"]
    BY <1>1, DatasetFacts DEF Contents
  <1>4. SeedKnows' /\ RestoreKnows'
    BY <1>2, <1>3 DEF SeedKnows, RestoreKnows
  <1>5. DatasetIsHonest'
    BY <1>1, <1>3, DatasetFacts DEF DatasetIsHonest, Honest
  <1> QED BY <1>1, <1>2, <1>3, <1>4, <1>5, DatasetFacts, DatasetCommand

LEMMA SeedSchemaKeeps ==
    ASSUME DataInv, SeedSchema
    PROVE  DataInv'
  <1>1. /\ UNCHANGED <<bench, callers, late, files, twin, verdict, pace>> /\ To("rows") /\ "rows" \in Labels
        /\ store' = [store EXCEPT !.rows = 0] /\ task.at = "schema"
    BY DEF SeedSchema, Labels, At
  <1>2. task' \in Tasks /\ task'.at = "rows" /\ task'.size = task.size
    BY <1>1, ToEffect, DatasetFacts
  <1>3. store' \in Contents /\ store'.manifest = store.manifest /\ store'.rows = 0
    BY <1>1, DatasetFacts DEF Contents
  <1>4. store.manifest = [size |-> task.size, state |-> "loading"]
    BY <1>1, DatasetFacts DEF SeedKnows
  <1>5. SeedKnows' /\ RestoreKnows'
    BY <1>2, <1>3, <1>4, DatasetFacts DEF SeedKnows, RestoreKnows
  <1>6. DatasetIsHonest'
    BY <1>1, <1>3, <1>4, DatasetFacts DEF DatasetIsHonest, Honest
  <1> QED BY <1>1, <1>2, <1>3, <1>5, <1>6, DatasetFacts, DatasetCommand

LEMMA SeedRowsKeeps ==
    ASSUME DataInv, SeedRows
    PROVE  DataInv'
  <1>1. UNCHANGED <<bench, callers, late, files, twin, verdict, pace>> /\ task.at = "rows" /\ "complete" \in Labels
    BY DEF SeedRows, At, Labels
  <1>2. store.manifest = [size |-> task.size, state |-> "loading"] /\ store.rows <= task.size
    BY <1>1, DatasetFacts DEF SeedKnows
  <1>3. CASE store.rows < task.size /\ store' = [store EXCEPT !.rows = @ + 1] /\ UNCHANGED task
    <2>1. store' \in Contents /\ store'.manifest = store.manifest /\ store'.rows = store.rows + 1
      <3>1. PICK n \in Nat : n = store.rows + 1
        BY DatasetFacts
      <3>2. store' = [store EXCEPT !.rows = n]
        BY <1>3, <3>1
      <3> QED BY <3>1, <3>2, DatasetFacts DEF Contents
    <2>2. SeedKnows' /\ RestoreKnows'
      BY <1>1, <1>2, <1>3, <2>1, DatasetFacts DEF SeedKnows, RestoreKnows
    <2>3. DatasetIsHonest'
      BY <1>1, <1>2, <2>1, DatasetFacts DEF DatasetIsHonest, Honest
    <2> QED BY <1>1, <1>3, <2>1, <2>2, <2>3, DatasetFacts, DatasetCommand
  <1>4. CASE ~ (store.rows < task.size) /\ To("complete") /\ UNCHANGED store
    <2>1. task' \in Tasks /\ task'.at = "complete" /\ task'.size = task.size
      BY <1>1, <1>4, ToEffect, DatasetFacts
    <2>2. store.rows = task.size
      BY <1>2, <1>4, DatasetFacts
    <2>3. SeedKnows' /\ RestoreKnows'
      BY <1>2, <1>4, <2>1, <2>2 DEF SeedKnows, RestoreKnows
    <2>4. DatasetIsHonest'
      BY <1>1, <1>4, DatasetAlone
    <2> QED BY <1>1, <1>4, <2>1, <2>3, <2>4, DatasetFacts, DatasetCommand
  <1> QED BY <1>3, <1>4 DEF SeedRows

LEMMA SeedCompleteKeeps ==
    ASSUME DataInv, SeedComplete
    PROVE  DataInv'
  <1>1. /\ UNCHANGED <<bench, callers, late, files, twin, verdict, pace>> /\ To("verify") /\ "verify" \in Labels
        /\ store' = [store EXCEPT !.manifest = [size |-> task.size, state |-> "complete"]] /\ task.at = "complete"
    BY DEF SeedComplete, Labels, At
  <1>2. task' \in Tasks /\ task'.at = "verify"
    BY <1>1, ToEffect, DatasetFacts
  <1>3. /\ store' \in Contents /\ store'.manifest = [size |-> task.size, state |-> "complete"]
        /\ store'.rows = task.size
    BY <1>1, DatasetFacts DEF Contents, SeedKnows
  <1>4. SeedKnows' /\ RestoreKnows'
    BY <1>2 DEF SeedKnows, RestoreKnows
  <1>5. DatasetIsHonest'
    BY <1>1, <1>3, DatasetFacts DEF DatasetIsHonest, Honest
  <1> QED BY <1>1, <1>2, <1>3, <1>4, <1>5, DatasetFacts, DatasetCommand

LEMMA SeedVerifyKeeps ==
    ASSUME DataInv, SeedVerify
    PROVE  DataInv'
  <1>1. /\ UNCHANGED <<store, bench, callers, late, files, twin, pace>> /\ task' = NoTask
        /\ \E w \in Words : verdict' = [verdict EXCEPT !.seed = w]
    BY DEF SeedVerify, Leaves, Words
  <1>2. verdict' \in Verdicts /\ verdict'.restore = verdict.restore
    BY <1>1, DatasetFacts DEF Verdicts
  <1>3. DatasetIsHonest'
    BY <1>1, <1>2, DatasetAlone
  <1>4. SeedKnows' /\ RestoreKnows' /\ task' \in Tasks /\ task'.at = Nil
    BY <1>1, NoTaskOwesNothing DEF NoTask
  <1> QED BY <1>1, <1>2, <1>3, <1>4, DatasetFacts, DatasetCommand

-----------------------------------------------------------------------------
(* backup and restore *)

LEMMA BeginBackupKeeps ==
    ASSUME DataInv, BeginBackup
    PROVE  DataInv'
  <1>1. /\ UNCHANGED <<store, bench, callers, late, files, twin, verdict, pace>> /\ Enter("backup", "dump", 0)
        /\ "backup" \in Ops /\ "dump" \in Labels
    BY DEF BeginBackup, Ops, Labels
  <1>2. task' \in Tasks /\ task'.at = "dump"
    BY <1>1, EnterEffect
  <1>3. SeedKnows' /\ RestoreKnows'
    BY <1>2 DEF SeedKnows, RestoreKnows
  <1>4. DatasetIsHonest'
    BY <1>1, DatasetAlone
  <1> QED BY <1>1, <1>2, <1>3, <1>4, DatasetFacts, DatasetCommand

LEMMA BackupDumpKeeps ==
    ASSUME DataInv, BackupDump
    PROVE  DataInv'
  <1> DEFINE new == [content |-> store, whole |-> FALSE, meta |-> FALSE]
  <1>1. /\ UNCHANGED <<store, bench, callers, late, twin, verdict, pace>> /\ To("meta") /\ "meta" \in Labels
        /\ files' = Append(files, new)
    BY DEF BackupDump, Labels
  <1>2. task' \in Tasks /\ task'.at = "meta"
    BY <1>1, ToEffect, DatasetFacts
  <1>3. new \in Backup /\ new.content = store
    BY DatasetFacts DEF Backup
  <1> HIDE DEF new
  <1>4. /\ files' \in Seq(Backup) /\ Len(files') = Len(files) + 1
        /\ \A i \in 1..Len(files') : (i \in 1..Len(files) /\ files'[i] = files[i]) \/ files'[i] = new
    BY <1>1, <1>3, DatasetFacts
  <1>5. SeedKnows' /\ RestoreKnows'
    BY <1>2, <1>4, DatasetFacts DEF SeedKnows, RestoreKnows
  <1>6. DatasetIsHonest'
    <2>1. \A i \in 1..Len(files') : Honest(files'[i].content)
      BY <1>3, <1>4, DatasetFacts DEF DatasetIsHonest
    <2> QED BY <1>1, <2>1, DatasetFacts DEF DatasetIsHonest, Honest
  <1> QED BY <1>1, <1>2, <1>4, <1>5, <1>6, DatasetFacts, DatasetCommand

LEMMA BackupFailsKeeps ==
    ASSUME DataInv, BackupFails
    PROVE  DataInv'
  <1>1. /\ UNCHANGED <<store, bench, callers, late, twin, verdict, pace>> /\ task' = NoTask
        /\ files' = SubSeq(files, 1, Len(files) - 1) /\ task.at = "meta"
    BY DEF BackupFails, Leaves, At
  <1>2. Len(files) > 0
    BY <1>1, DatasetFacts DEF RestoreKnows
  <1>3. /\ files' \in Seq(Backup) /\ Len(files') = Len(files) - 1
        /\ \A i \in 1..Len(files') : i \in 1..Len(files) /\ files'[i] = files[i]
    BY <1>1, <1>2, DatasetFacts, ShorterSequence
  <1>4. SeedKnows' /\ RestoreKnows' /\ task' \in Tasks /\ task'.at = Nil
    BY <1>1, NoTaskOwesNothing DEF NoTask
  <1>5. DatasetIsHonest'
    BY <1>1, <1>3, DatasetFacts DEF DatasetIsHonest, Honest
  <1> QED BY <1>1, <1>3, <1>4, <1>5, DatasetFacts, DatasetCommand

LEMMA BackupMetaKeeps ==
    ASSUME DataInv, BackupMeta
    PROVE  DataInv'
  <1>1. /\ UNCHANGED <<store, bench, callers, late, twin, verdict, pace>> /\ task' = NoTask
        /\ files' = [files EXCEPT ![Len(files)].whole = TRUE, ![Len(files)].meta = TRUE] /\ task.at = "meta"
    BY DEF BackupMeta, Leaves, At
  <1>2. Len(files) \in 1..Len(files)
    BY <1>1, DatasetFacts DEF RestoreKnows
  <1> DEFINE last == files[Len(files)]
  <1>3. last \in Backup
    BY <1>2, DatasetFacts
  <1>4. PICK new : new = [last EXCEPT !.whole = TRUE, !.meta = TRUE]
    OBVIOUS
  <1>5. new \in Backup /\ new.content = last.content
    BY <1>3, <1>4 DEF Backup
  <1>6. files' = [files EXCEPT ![Len(files)] = new]
    BY <1>1, <1>2, <1>4, DatasetFacts, Zenon
  <1>7. /\ files' \in Seq(Backup) /\ Len(files') = Len(files)
        /\ \A i \in 1..Len(files') : files'[i].content = files[i].content
    BY <1>2, <1>5, <1>6, DatasetFacts
  <1>8. SeedKnows' /\ RestoreKnows' /\ task' \in Tasks /\ task'.at = Nil
    BY <1>1, NoTaskOwesNothing DEF NoTask
  <1>9. DatasetIsHonest'
    BY <1>1, <1>7, DatasetFacts DEF DatasetIsHonest, Honest
  <1> QED BY <1>1, <1>7, <1>8, <1>9, DatasetFacts, DatasetCommand

LEMMA BeginRestoreKeeps ==
    ASSUME DataInv, NEW i \in 1..Len(files), BeginRestore(i)
    PROVE  DataInv'
  <1>1. /\ UNCHANGED <<store, bench, callers, late, files, twin, pace>> /\ Enter("restore", "wipe", i)
        /\ verdict' = [verdict EXCEPT !.restore = Nil] /\ i \in Nat /\ "restore" \in Ops /\ "wipe" \in Labels
    BY DatasetFacts DEF BeginRestore, Ops, Labels
  <1>2. task' \in Tasks /\ task'.at = "wipe" /\ task'.size = i
    BY <1>1, EnterEffect
  <1>3. verdict' \in Verdicts /\ verdict'.restore # "PASS"
    BY <1>1, DatasetFacts DEF Verdicts, Words, Nil
  <1>4. SeedKnows' /\ RestoreKnows'
    BY <1>1, <1>2, <1>3 DEF SeedKnows, RestoreKnows
  <1>5. DatasetIsHonest'
    BY <1>1, <1>3, DatasetAlone
  <1> QED BY <1>1, <1>2, <1>3, <1>4, <1>5, DatasetFacts, DatasetCommand

LEMMA RestoreWipeKeeps ==
    ASSUME DataInv, RestoreWipe
    PROVE  DataInv'
  <1>1. /\ UNCHANGED <<store, bench, callers, late, files, verdict, pace>> /\ To("feed") /\ "feed" \in Labels
        /\ twin' = <<>> /\ task.at = "wipe"
    BY DEF RestoreWipe, Labels, At
  <1>2. task' \in Tasks /\ task'.at = "feed" /\ task'.size = task.size
    BY <1>1, ToEffect, DatasetFacts
  <1>3. SeedKnows' /\ RestoreKnows' /\ verdict'.restore # "PASS"
    BY <1>1, <1>2, DatasetFacts DEF SeedKnows, RestoreKnows
  <1>4. twin' \in Seq(Contents) /\ Len(twin') = 0
    BY <1>1
  <1>5. DatasetIsHonest'
    BY <1>1, <1>3, <1>4, DatasetFacts DEF DatasetIsHonest, Honest
  <1> QED BY <1>1, <1>2, <1>3, <1>4, <1>5, DatasetFacts, DatasetCommand

LEMMA RestoreFeedKeeps ==
    ASSUME DataInv, RestoreFeed
    PROVE  DataInv'
  <1> DEFINE copy == files[task.size].content
  <1>1. /\ UNCHANGED <<store, bench, callers, late, files, verdict, pace>> /\ To("inspect") /\ "inspect" \in Labels
        /\ twin' = <<copy>> /\ task.at = "feed"
    BY DEF RestoreFeed, Labels, At
  <1>2. task' \in Tasks /\ task'.at = "inspect"
    BY <1>1, ToEffect, DatasetFacts
  <1>3. copy \in Contents /\ Honest(copy) /\ verdict.restore # "PASS"
    <2>1. task.size \in 1..Len(files) /\ verdict.restore # "PASS"
      BY <1>1, DatasetFacts DEF RestoreKnows
    <2>2. files[task.size] \in Backup
      BY <2>1, DatasetFacts
    <2> QED BY <2>1, <2>2, DatasetFacts DEF Backup, DatasetIsHonest
  <1> HIDE DEF copy
  <1>4. twin' \in Seq(Contents) /\ Len(twin') = 1 /\ twin'[1] = copy
    BY <1>1, <1>3
  <1>5. SeedKnows' /\ RestoreKnows'
    BY <1>1, <1>2, <1>3, <1>4 DEF SeedKnows, RestoreKnows
  <1>6. DatasetIsHonest'
    <2>1. \A i \in 1..Len(twin') : Honest(twin'[i])
      BY <1>3, <1>4
    <2> QED BY <1>1, <1>3, <2>1, DatasetFacts DEF DatasetIsHonest, Honest
  <1> QED BY <1>1, <1>2, <1>4, <1>5, <1>6, DatasetFacts, DatasetCommand

LEMMA RestoreInspectKeeps ==
    ASSUME DataInv, RestoreInspect
    PROVE  DataInv'
  <1>1. /\ UNCHANGED <<store, bench, callers, late, files, twin, pace>> /\ task' = NoTask /\ task.at = "inspect"
        /\ verdict' = [verdict EXCEPT !.restore = IF Restored(twin[1]) THEN "PASS" ELSE "FAIL"]
    BY DEF RestoreInspect, Leaves, At
  <1>2. PICK w \in Words : verdict' = [verdict EXCEPT !.restore = w] /\ (w = "PASS" => Restored(twin[1]))
    BY <1>1 DEF Words
  <1>3. verdict' \in Verdicts /\ verdict'.restore = w
    BY <1>2, DatasetFacts DEF Verdicts
  <1>4. SeedKnows' /\ RestoreKnows' /\ task' \in Tasks /\ task'.at = Nil
    BY <1>1, NoTaskOwesNothing DEF NoTask
  <1>5. Len(twin) > 0
    BY <1>1, DatasetFacts DEF RestoreKnows
  <1>6. w = "PASS" => twin # <<>> /\ twin[1].manifest.state # "loading"
    <2>1. twin # <<>>
      BY <1>5, DatasetFacts
    <2>2. Restored(twin[1]) => twin[1].manifest.state # "loading"
      BY DEF Restored, Nil
    <2> QED BY <1>2, <2>1, <2>2
  <1>7. DatasetIsHonest'
    BY <1>1, <1>3, <1>6, DatasetFacts DEF DatasetIsHonest, Honest
  <1> QED BY <1>1, <1>3, <1>4, <1>7, DatasetFacts, DatasetCommand
-----------------------------------------------------------------------------
(* load *)

LoadLabels == {Nil, "accounts", "transfers", "compare", "run", "after", "drop-transfers", "drop-accounts", "report"}

(* A step of the load owes the parts about transfers and about its own end. *)
LEMMA LoadCommand ==
    ASSUME DataInv, UNCHANGED <<store, files, twin, pace>>, bench' \in Tables, callers' \in Workers, late' \subseteq Ids,
           task' \in Tasks, task' = task \/ task'.at \in LoadLabels,
           verdict' \in Verdicts, verdict'.restore = verdict.restore, ReceiptsAreTransfers', LoadKnows'
    PROVE  DataInv'
  <1>1. DatasetIsHonest' /\ DataTypeOK'
    BY DatasetAlone DEF DataInv, DataTypeOK
  <1>2. SeedKnows' /\ RestoreKnows'
    BY DEF DataInv, SeedKnows, RestoreKnows, LoadLabels, Nil
  <1>3. PaceKnows'
    BY DEF DataInv, PaceKnows
  <1> QED BY <1>1, <1>2, <1>3 DEF DataInv

LEMMA LoadFacts ==
    ASSUME DataInv
    PROVE  /\ bench \in Tables /\ callers \in Workers /\ late \subseteq Ids /\ task \in Tasks /\ verdict \in Verdicts
           /\ ReceiptsAreTransfers /\ LoadKnows /\ store.account \in {0, 1}
  BY DEF DataInv, DataTypeOK, Contents

(* The receipts say what was applied; they are told apart by their request. *)
LEMMA RequestIds ==
    /\ \A r \in Requests : RequestId(r) \in Ids
    /\ \A r, q \in Requests : RequestId(r) = RequestId(q) => r = q
    /\ \A id \in Ids : id[1] \in Requests /\ id = RequestId(id[1])
  <1>1. \A r \in Requests : RequestId(r) \in Ids
    BY DEF RequestId, Ids
  <1>2. ASSUME NEW r \in Requests, NEW q \in Requests, RequestId(r) = RequestId(q) PROVE r = q
    <2>1. RequestId(r)[1] = r /\ RequestId(q)[1] = q
      BY DEF RequestId
    <2> QED BY <1>2, <2>1
  <1>3. ASSUME NEW id \in Ids PROVE id[1] \in Requests /\ id = RequestId(id[1])
    <2>1. PICK r \in Requests : id = <<r, 0>>
      BY DEF Ids
    <2> QED BY <2>1 DEF RequestId
  <1> QED BY <1>1, <1>2, <1>3

(* Steps that leave the tables' receipts and the workers alone. *)
LEMMA ReceiptsAlone ==
    ASSUME DataInv, UNCHANGED callers, bench'.receipts = bench.receipts, bench'.applied = bench.applied
    PROVE  ReceiptsAreTransfers'
  <1> SUFFICES ASSUME NEW r \in Requests
               PROVE  /\ bench'.applied[r] = IF RequestId(r) \in bench'.receipts THEN 1 ELSE 0
                      /\ callers'[r].at = "committed" => RequestId(r) \in bench'.receipts
    BY DEF ReceiptsAreTransfers, RequestId
  <1>1. /\ bench.applied[r] = IF RequestId(r) \in bench.receipts THEN 1 ELSE 0
        /\ callers[r].at = "committed" => RequestId(r) \in bench.receipts
    BY DEF DataInv, ReceiptsAreTransfers
  <1> QED BY <1>1

(* No worker is at work. *)
LEMMA QuitFacts ==
    /\ Quit \in Workers
    /\ \A r \in Requests : Quit[r].at = "nil"
  BY DEF Quit, Workers, Calling, Nil

LEMMA BeginLoadKeeps ==
    ASSUME DataInv, BeginLoad
    PROVE  DataInv'
  <1>1. /\ UNCHANGED <<store, files, twin, pace>> /\ Enter("load", "accounts", 0)
        /\ verdict' = [verdict EXCEPT !.load = Nil] /\ "load" \in Ops /\ "accounts" \in Labels
        /\ bench' = NoBench /\ callers' = Quit /\ late' = {}
    BY DEF BeginLoad, Ops, Labels
  <1>2. task' \in Tasks /\ task'.at = "accounts"
    BY <1>1, EnterEffect
  <1>3. verdict' \in Verdicts /\ verdict'.restore = verdict.restore
    BY <1>1, LoadFacts DEF Verdicts, Words
  <1>4. /\ NoBench \in Tables /\ NoBench.receipts = {} /\ \A r \in Requests : NoBench.applied[r] = 0
    BY DEF NoBench, Tables
  <1>5. ReceiptsAreTransfers'
    <2> SUFFICES ASSUME NEW r \in Requests
                 PROVE  /\ bench'.applied[r] = IF RequestId(r)' \in bench'.receipts THEN 1 ELSE 0
                        /\ callers'[r].at # "committed"
      BY DEF ReceiptsAreTransfers
    <2> QED BY <1>1, <1>4, QuitFacts
  <1>6. LoadKnows'
    BY <1>2 DEF LoadKnows
  <1> QED BY <1>1, <1>2, <1>3, <1>4, <1>5, <1>6, QuitFacts, LoadCommand DEF LoadLabels

LEMMA LoadAccountsKeeps ==
    ASSUME DataInv, LoadAccounts
    PROVE  DataInv'
  <1>1. /\ UNCHANGED <<store, files, twin, pace, callers, late, verdict>>
        /\ bench' = [bench EXCEPT !.accounts = TRUE]
        /\ task' = [task EXCEPT !.at = "transfers", !.seen = store.account, !.copied = 0]
    BY DEF LoadAccounts, LoadRest
  <1>2. task' \in Tasks /\ task'.at = "transfers"
    BY <1>1, LoadFacts DEF Tasks, Labels
  <1>3. bench' \in Tables /\ bench'.receipts = bench.receipts /\ bench'.applied = bench.applied
    BY <1>1, LoadFacts DEF Tables
  <1>4. ReceiptsAreTransfers'
    BY <1>1, <1>3, ReceiptsAlone
  <1>5. LoadKnows'
    BY <1>2 DEF LoadKnows
  <1> QED BY <1>1, <1>2, <1>3, <1>4, <1>5, LoadFacts, LoadCommand DEF LoadLabels

LEMMA LoadTransfersKeeps ==
    ASSUME DataInv, LoadTransfers
    PROVE  DataInv'
  <1>1. /\ UNCHANGED <<store, files, twin, pace, callers, late, verdict>>
        /\ bench' = [bench EXCEPT !.transfers = TRUE]
        /\ task' = [task EXCEPT !.at = "compare", !.copied = store.account]
    BY DEF LoadTransfers, LoadRest
  <1>2. task' \in Tasks /\ task'.at = "compare"
    BY <1>1, LoadFacts DEF Tasks, Labels
  <1>3. bench' \in Tables /\ bench'.receipts = bench.receipts /\ bench'.applied = bench.applied
    BY <1>1, LoadFacts DEF Tables
  <1>4. ReceiptsAreTransfers'
    BY <1>1, <1>3, ReceiptsAlone
  <1>5. LoadKnows'
    BY <1>2 DEF LoadKnows
  <1> QED BY <1>1, <1>2, <1>3, <1>4, <1>5, LoadFacts, LoadCommand DEF LoadLabels

LEMMA LoadCompareKeeps ==
    ASSUME DataInv, LoadCompare
    PROVE  DataInv'
  <1>1. UNCHANGED <<store, files, twin, pace, late, verdict, bench>>
    BY DEF LoadCompare, LoadRest
  <1>2. CASE To("run") /\ callers' = [r \in Requests |-> [try |-> 1, at |-> "check"]]
    <2>1. task' \in Tasks /\ task'.at = "run"
      BY <1>2, ToEffect, LoadFacts DEF Labels
    <2>2. callers' \in Workers /\ \A r \in Requests : callers'[r].at = "check"
      BY <1>2 DEF Workers, Calling
    <2>3. ReceiptsAreTransfers'
      BY <1>1, <2>2, LoadFacts DEF ReceiptsAreTransfers, RequestId
    <2>4. LoadKnows'
      BY <2>1, <2>2 DEF LoadKnows, Nil
    <2> QED BY <1>1, <2>1, <2>2, <2>3, <2>4, LoadFacts, LoadCommand DEF LoadLabels
  <1>3. CASE task' = [task EXCEPT !.at = "drop-transfers", !.rc = 1] /\ UNCHANGED callers
    <2>1. task' \in Tasks /\ task'.at = "drop-transfers" /\ task'.rc = 1
      BY <1>3, LoadFacts DEF Tasks, Labels
    <2>2. ReceiptsAreTransfers'
      BY <1>1, <1>3, ReceiptsAlone
    <2>3. LoadKnows'
      BY <2>1 DEF LoadKnows
    <2> QED BY <1>1, <1>3, <2>1, <2>2, <2>3, LoadFacts, LoadCommand DEF LoadLabels
  <1> QED BY <1>2, <1>3 DEF LoadCompare

(* One worker goes on: to an answer, to its commit, or to the next attempt. *)
Moves(r, where) ==
    /\ callers' \in Workers /\ callers'[r].at \in where
    /\ \A q \in Requests : q # r => callers'[q] = callers[q]

LEMMA ResolveMoves ==
    ASSUME callers \in Workers, NEW r \in Requests, NEW at \in Calling, Resolve(r, at)
    PROVE  Moves(r, {at})
  BY DEF Resolve, Moves, Workers

LEMMA AgainMoves ==
    ASSUME callers \in Workers, NEW r \in Requests, Again(r)
    PROVE  Moves(r, {"check", "unresolved"})
  <1>1. callers[r] \in [try : Nat, at : Calling]
    BY DEF Workers
  <1>2. PICK new : /\ new = IF callers[r].try < Attempts THEN [try |-> callers[r].try + 1, at |-> "check"]
                            ELSE [callers[r] EXCEPT !.at = "unresolved"]
                   /\ callers' = [callers EXCEPT ![r] = new]
    BY DEF Again
  <1>3. new \in [try : Nat, at : Calling] /\ new.at \in {"check", "unresolved"}
    <2>1. CASE callers[r].try < Attempts
      BY <1>1, <1>2, <2>1 DEF Calling
    <2>2. CASE ~ (callers[r].try < Attempts)
      <3>1. new = [callers[r] EXCEPT !.at = "unresolved"]
        BY <1>2, <2>2
      <3> QED BY <1>1, <3>1 DEF Calling
    <2> QED BY <2>1, <2>2
  <1> QED BY <1>2, <1>3 DEF Moves, Workers

(* What a commit does to the tables. *)
LEMMA AppliedOnce ==
    ASSUME bench \in Tables, NEW r \in Requests, NEW id \in Ids, ApplyTransfer(r, id)
    PROVE  /\ bench' \in Tables /\ bench'.receipts = bench.receipts \cup {id}
           /\ bench'.applied[r] = bench.applied[r] + 1
           /\ \A q \in Requests : q # r => bench'.applied[q] = bench.applied[q]
  <1> DEFINE more == [bench.applied EXCEPT ![r] = @ + 1]
  <1>1. bench' = [bench EXCEPT !.receipts = @ \cup {id}, !.applied = more]
    BY Zenon DEF ApplyTransfer
  <1>2. bench.applied \in [Requests -> Nat] /\ bench.receipts \in SUBSET Ids
    BY DEF Tables
  <1>3. /\ more \in [Requests -> Nat] /\ more[r] = bench.applied[r] + 1
        /\ \A q \in Requests : q # r => more[q] = bench.applied[q]
    BY <1>2
  <1> HIDE DEF more
  <1>4. PICK all : all = bench.receipts \cup {id}
    OBVIOUS
  <1>5. all \in SUBSET Ids
    BY <1>2, <1>4
  <1>6. bench' = [bench EXCEPT !.receipts = all, !.applied = more]
    BY <1>1, <1>4
  <1>7. bench' \in Tables /\ bench'.receipts = all /\ bench'.applied = more
    BY <1>3, <1>5, <1>6 DEF Tables
  <1> QED BY <1>3, <1>4, <1>7

(* A worker that moves is still at work, and is told "committed" only with a receipt. *)
LEMMA MoveKeeps ==
    ASSUME DataInv, NEW r \in Requests, task.at = "run",
           UNCHANGED <<store, files, twin, task, verdict, pace>>, late' \subseteq Ids,
           Moves(r, {"check", "commit", "committed", "insufficient", "unresolved"}),
           \/ bench' = bench /\ (callers'[r].at = "committed" => RequestId(r) \in bench.receipts)
           \/ RequestId(r) \notin bench.receipts /\ ApplyTransfer(r, RequestId(r))
    PROVE  DataInv'
  <1>1. /\ callers' \in Workers /\ callers'[r].at # Nil
        /\ \A q \in Requests : q # r => callers'[q] = callers[q]
    BY DEF Moves, Nil
  <1>2. LoadKnows'
    BY <1>1, LoadFacts DEF LoadKnows
  <1>3. CASE bench' = bench /\ (callers'[r].at = "committed" => RequestId(r) \in bench.receipts)
    <2>1. ReceiptsAreTransfers'
      BY <1>1, <1>3, LoadFacts DEF ReceiptsAreTransfers, RequestId
    <2> QED BY <1>1, <1>2, <1>3, <2>1, LoadFacts, LoadCommand
  <1>4. CASE RequestId(r) \notin bench.receipts /\ ApplyTransfer(r, RequestId(r))
    <2>1. /\ bench' \in Tables /\ bench'.receipts = bench.receipts \cup {RequestId(r)}
          /\ bench'.applied[r] = bench.applied[r] + 1
          /\ \A q \in Requests : q # r => bench'.applied[q] = bench.applied[q]
      BY <1>4, RequestIds, LoadFacts, AppliedOnce
    <2>2. ReceiptsAreTransfers'
      <3> SUFFICES ASSUME NEW q \in Requests
                   PROVE  /\ bench'.applied[q] = IF RequestId(q) \in bench'.receipts THEN 1 ELSE 0
                          /\ callers'[q].at = "committed" => RequestId(q) \in bench'.receipts
        BY DEF ReceiptsAreTransfers, RequestId
      <3>1. CASE q = r
        BY <1>4, <2>1, <3>1, LoadFacts DEF ReceiptsAreTransfers
      <3>2. CASE q # r
        BY <1>1, <2>1, <3>2, RequestIds, LoadFacts DEF ReceiptsAreTransfers
      <3> QED BY <3>1, <3>2
    <2> QED BY <1>1, <1>2, <2>1, <2>2, LoadFacts, LoadCommand
  <1> QED BY <1>3, <1>4
LEMMA TransferCheckKeeps ==
    ASSUME DataInv, NEW r \in Requests, TransferCheck(r)
    PROVE  DataInv'
  <1>1. /\ UNCHANGED <<store, files, twin, task, verdict, pace, bench, late>> /\ task.at = "run"
        /\ late' \subseteq Ids /\ callers \in Workers
    BY LoadFacts DEF TransferCheck, CallRest, Loads, At
  <1>2. CASE RequestId(r) \in bench.receipts /\ Resolve(r, "committed")
    <2>1. Moves(r, {"committed"})
      BY <1>1, <1>2, ResolveMoves DEF Calling
    <2>2. Moves(r, {"check", "commit", "committed", "insufficient", "unresolved"})
      BY <2>1 DEF Moves
    <2> QED BY <1>1, <1>2, <2>2, MoveKeeps
  <1>3. CASE Resolve(r, "commit")
    <2>1. Moves(r, {"commit"})
      BY <1>1, <1>3, ResolveMoves DEF Calling
    <2>2. /\ Moves(r, {"check", "commit", "committed", "insufficient", "unresolved"})
          /\ callers'[r].at # "committed"
      BY <2>1 DEF Moves
    <2> QED BY <1>1, <2>2, MoveKeeps
  <1>4. CASE Resolve(r, "insufficient")
    <2>1. Moves(r, {"insufficient"})
      BY <1>1, <1>4, ResolveMoves DEF Calling
    <2>2. /\ Moves(r, {"check", "commit", "committed", "insufficient", "unresolved"})
          /\ callers'[r].at # "committed"
      BY <2>1 DEF Moves
    <2> QED BY <1>1, <2>2, MoveKeeps
  <1>5. CASE Again(r)
    <2>1. Moves(r, {"check", "unresolved"})
      BY <1>1, <1>5, AgainMoves
    <2>2. /\ Moves(r, {"check", "commit", "committed", "insufficient", "unresolved"})
          /\ callers'[r].at # "committed"
      BY <2>1 DEF Moves
    <2> QED BY <1>1, <2>2, MoveKeeps
  <1> QED BY <1>2, <1>3, <1>4, <1>5 DEF TransferCheck

(* The commit, its answer, and the answers that do not come. *)
LEMMA TransferCommitKeeps ==
    ASSUME DataInv, NEW r \in Requests, TransferCommit(r)
    PROVE  DataInv'
  <1>1. /\ UNCHANGED <<store, files, twin, task, verdict, pace>> /\ task.at = "run"
        /\ callers \in Workers /\ late \subseteq Ids /\ RequestId(r) \in Ids
    BY LoadFacts, RequestIds DEF TransferCommit, CallRest, Loads, At
  <1>2. ASSUME Again(r)
        PROVE  /\ Moves(r, {"check", "commit", "committed", "insufficient", "unresolved"})
               /\ callers'[r].at # "committed"
    <2>1. Moves(r, {"check", "unresolved"})
      BY <1>1, <1>2, AgainMoves
    <2> QED BY <2>1 DEF Moves
  <1>3. CASE Again(r) /\ UNCHANGED <<bench, late>>
    BY <1>1, <1>2, <1>3, MoveKeeps
  <1>4. CASE /\ RequestId(r) \notin bench.receipts /\ ApplyTransfer(r, RequestId(r)) /\ Resolve(r, "committed")
             /\ UNCHANGED late
    <2>1. Moves(r, {"committed"})
      BY <1>1, <1>4, ResolveMoves DEF Calling
    <2>2. Moves(r, {"check", "commit", "committed", "insufficient", "unresolved"})
      BY <2>1 DEF Moves
    <2> QED BY <1>1, <1>4, <2>2, MoveKeeps
  <1>5. CASE RequestId(r) \notin bench.receipts /\ ApplyTransfer(r, RequestId(r)) /\ Again(r) /\ UNCHANGED late
    BY <1>1, <1>2, <1>5, MoveKeeps
  <1>6. CASE late' = late \cup {RequestId(r)} /\ Again(r) /\ UNCHANGED bench
    <2>1. late' \subseteq Ids
      BY <1>1, <1>6
    <2> QED BY <1>1, <1>2, <1>6, <2>1, MoveKeeps
  <1> QED BY <1>3, <1>4, <1>5, <1>6 DEF TransferCommit

LEMMA LateCommitKeeps ==
    ASSUME DataInv, NEW id \in late, LateCommit(id)
    PROVE  DataInv'
  <1>1. /\ UNCHANGED <<store, files, twin, task, verdict, pace, callers>> /\ late' = late \ {id}
        /\ id \in Ids /\ late' \subseteq Ids
        /\ UNCHANGED bench \/ (id \notin bench.receipts /\ ApplyTransfer(id[1], id))
    BY LoadFacts DEF LateCommit, CallRest
  <1>2. LoadKnows'
    BY <1>1, LoadFacts DEF LoadKnows
  <1>3. CASE UNCHANGED bench
    <2>1. ReceiptsAreTransfers'
      BY <1>1, <1>3, ReceiptsAlone
    <2> QED BY <1>1, <1>2, <1>3, <2>1, LoadFacts, LoadCommand
  <1>4. CASE id \notin bench.receipts /\ ApplyTransfer(id[1], id)
    <2> PICK r \in Requests : r = id[1] /\ id = RequestId(r)
      BY <1>1, RequestIds
    <2>1. /\ bench' \in Tables /\ bench'.receipts = bench.receipts \cup {id}
          /\ bench'.applied[r] = bench.applied[r] + 1
          /\ \A q \in Requests : q # r => bench'.applied[q] = bench.applied[q]
      BY <1>1, <1>4, LoadFacts, AppliedOnce
    <2>2. ReceiptsAreTransfers'
      <3> SUFFICES ASSUME NEW q \in Requests
                   PROVE  /\ bench'.applied[q] = IF RequestId(q) \in bench'.receipts THEN 1 ELSE 0
                          /\ callers'[q].at = "committed" => RequestId(q) \in bench'.receipts
        BY DEF ReceiptsAreTransfers, RequestId
      <3>1. /\ bench.applied[q] = IF RequestId(q) \in bench.receipts THEN 1 ELSE 0
            /\ callers'[q].at = "committed" => RequestId(q) \in bench.receipts
        BY <1>1, LoadFacts DEF ReceiptsAreTransfers
      <3>2. CASE q = r
        <4>1. RequestId(q) = id /\ id \notin bench.receipts /\ id \in bench'.receipts
          BY <1>4, <2>1, <3>2
        <4>2. bench.applied[q] = 0
          BY <3>1, <4>1
        <4>3. bench'.applied[q] = bench.applied[q] + 1
          BY <2>1, <3>2
        <4>4. bench'.applied[q] = 1
          BY <4>2, <4>3
        <4> QED BY <4>1, <4>4
      <3>3. CASE q # r
        BY <2>1, <3>1, <3>3, RequestIds
      <3> QED BY <3>2, <3>3
    <2> QED BY <1>1, <1>2, <2>1, <2>2, LoadFacts, LoadCommand
  <1> QED BY <1>1, <1>3, <1>4

(* The exit code of the workload is 0 only when every request is settled. *)
LEMMA LoadEndsKeeps ==
    ASSUME DataInv, LoadEnds
    PROVE  DataInv'
  <1>1. UNCHANGED <<store, late, files, twin, verdict, pace, bench>> /\ task.at = "run"
    BY DEF LoadEnds, LoadRest, Loads, At
  <1>2. CASE /\ ~ StillCalling /\ UNCHANGED callers
             /\ task' = [task EXCEPT !.at = "after",
                                     !.rc = IF \E r \in Requests : callers[r].at = "unresolved" THEN 2 ELSE 0]
    <2> DEFINE code == IF \E r \in Requests : callers[r].at = "unresolved" THEN 2 ELSE 0
    <2>1. task' = [task EXCEPT !.at = "after", !.rc = code]
      BY <1>2
    <2>a. code \in Nat /\ (code = 0 => \A r \in Requests : callers[r].at # "unresolved")
      OBVIOUS
    <2> HIDE DEF code
    <2>2. task' \in Tasks /\ task'.at = "after" /\ task'.rc = code
      BY <2>1, <2>a, LoadFacts DEF Tasks, Labels
    <2>3. code = 0 => \A r \in Requests : callers[r].at \in Settled
      <3>1. \A r \in Requests : callers[r].at \in Calling /\ callers[r].at # Nil
        BY <1>1, LoadFacts DEF LoadKnows, Workers
      <3> QED BY <1>2, <2>a, <3>1 DEF StillCalling, Calling, Settled
    <2>4. LoadKnows'
      BY <1>2, <2>2, <2>3 DEF LoadKnows
    <2>5. ReceiptsAreTransfers'
      BY <1>1, <1>2, ReceiptsAlone
    <2> QED BY <1>1, <1>2, <2>2, <2>4, <2>5, LoadFacts, LoadCommand DEF LoadLabels
  <1>3. CASE callers' = Quit /\ task' = [task EXCEPT !.at = "after", !.rc = 1]
    <2>1. task' \in Tasks /\ task'.at = "after" /\ task'.rc = 1
      BY <1>3, LoadFacts DEF Tasks, Labels
    <2>2. LoadKnows'
      BY <2>1 DEF LoadKnows
    <2>3. ReceiptsAreTransfers'
      BY <1>1, <1>3, LoadFacts, QuitFacts DEF ReceiptsAreTransfers, RequestId
    <2> QED BY <1>1, <1>3, <2>1, <2>2, <2>3, LoadFacts, QuitFacts, LoadCommand DEF LoadLabels
  <1> QED BY <1>2, <1>3 DEF LoadEnds

LEMMA LoadAfterKeeps ==
    ASSUME DataInv, LoadAfter
    PROVE  DataInv'
  <1>1. UNCHANGED <<store, late, files, twin, verdict, pace, bench, callers>> /\ task.at = "after"
    BY DEF LoadAfter, LoadRest, Loads, At
  <1> DEFINE good == (task.rc = 0)
             same == (store.account = task.seen)
  <1>2. task' = [task EXCEPT !.at = "drop-transfers", !.good = good, !.same = same]
    BY Zenon DEF LoadAfter
  <1>a. good \in BOOLEAN /\ same \in BOOLEAN
    BY Zenon
  <1> HIDE DEF good, same
  <1>3. task' \in Tasks /\ task'.at = "drop-transfers" /\ task'.rc = task.rc
    BY <1>2, <1>a, LoadFacts DEF Tasks, Labels
  <1>4. LoadKnows'
    BY <1>1, <1>3, LoadFacts DEF LoadKnows
  <1>5. ReceiptsAreTransfers'
    BY <1>1, ReceiptsAlone
  <1> QED BY <1>1, <1>3, <1>4, <1>5, LoadFacts, LoadCommand DEF LoadLabels

LEMMA LoadDropKeeps ==
    ASSUME DataInv, LoadDrop
    PROVE  DataInv'
  <1>1. UNCHANGED <<store, late, files, twin, verdict, pace, callers>>
    BY DEF LoadDrop, LoadRest
  <1>2. /\ task.at \in {"drop-transfers", "drop-accounts"}
        /\ To("drop-accounts") \/ To("report")
        /\ \/ bench' = [bench EXCEPT !.transfers = FALSE]
           \/ bench' = [bench EXCEPT !.accounts = FALSE]
           \/ bench' = bench
    BY DEF LoadDrop, Loads, At
  <1>3. task' \in Tasks /\ task'.at \in {"drop-accounts", "report"} /\ task'.rc = task.rc
    <2>1. CASE To("drop-accounts")
      BY <2>1, ToEffect, LoadFacts DEF Labels
    <2>2. CASE To("report")
      BY <2>2, ToEffect, LoadFacts DEF Labels
    <2> QED BY <1>2, <2>1, <2>2
  <1>4. bench' \in Tables /\ bench'.receipts = bench.receipts /\ bench'.applied = bench.applied
    <2>1. CASE bench' = [bench EXCEPT !.transfers = FALSE]
      BY <2>1, LoadFacts DEF Tables
    <2>2. CASE bench' = [bench EXCEPT !.accounts = FALSE]
      BY <2>2, LoadFacts DEF Tables
    <2> QED BY <1>2, <2>1, <2>2, LoadFacts
  <1>5. LoadKnows'
    BY <1>1, <1>2, <1>3, LoadFacts DEF LoadKnows
  <1>6. ReceiptsAreTransfers'
    BY <1>1, <1>4, ReceiptsAlone
  <1> QED BY <1>1, <1>3, <1>4, <1>5, <1>6, LoadFacts, LoadCommand DEF LoadLabels

LEMMA LoadReportKeeps ==
    ASSUME DataInv, LoadReport
    PROVE  DataInv'
  <1>1. /\ UNCHANGED <<store, bench, callers, late, files, twin, pace>> /\ task' = NoTask
        /\ \E w \in Words : verdict' = [verdict EXCEPT !.load = w]
    BY DEF LoadReport, Leaves, Words
  <1>2. verdict' \in Verdicts /\ verdict'.restore = verdict.restore
    BY <1>1, LoadFacts DEF Verdicts
  <1>3. LoadKnows' /\ task' \in Tasks /\ task'.at = Nil
    BY <1>1, NoTaskOwesNothing DEF NoTask
  <1>4. ReceiptsAreTransfers'
    BY <1>1, ReceiptsAlone
  <1> QED BY <1>1, <1>2, <1>3, <1>4, LoadFacts, LoadCommand DEF LoadLabels

LEMMA LoadKilledKeeps ==
    ASSUME DataInv, LoadKilled
    PROVE  DataInv'
  <1>1. UNCHANGED <<store, bench, late, files, twin, verdict, pace>> /\ task' = NoTask /\ callers' = Quit
    BY DEF LoadKilled, Leaves
  <1>2. LoadKnows' /\ task' \in Tasks /\ task'.at = Nil
    BY <1>1, NoTaskOwesNothing DEF NoTask
  <1>3. ReceiptsAreTransfers'
    BY <1>1, LoadFacts, QuitFacts DEF ReceiptsAreTransfers, RequestId
  <1> QED BY <1>1, <1>2, <1>3, LoadFacts, QuitFacts, LoadCommand DEF LoadLabels
-----------------------------------------------------------------------------
(* simulate, and what comes from outside *)

(* A step of the simulator owes the part about its pace. *)
LEMMA PaceCommand ==
    ASSUME DataInv, UNCHANGED <<store, bench, callers, late, files, twin, verdict>>, pace' \in Pace, PaceKnows',
           task' \in Tasks, task' = task \/ task'.at \in {Nil, "pace"}
    PROVE  DataInv'
  <1>1. DatasetIsHonest' /\ DataTypeOK' /\ ReceiptsAreTransfers'
    BY DatasetAlone, ReceiptsAlone DEF DataInv, DataTypeOK
  <1>2. SeedKnows' /\ RestoreKnows' /\ LoadKnows'
    BY DEF DataInv, SeedKnows, RestoreKnows, LoadKnows, Nil
  <1> QED BY <1>1, <1>2 DEF DataInv

LEMMA NoPaceFacts ==
    NoPace \in Pace /\ NoPace.last < 0
  BY DEF NoPace, Pace

LEMMA BeginSimulateKeeps ==
    ASSUME DataInv, BeginSimulate
    PROVE  DataInv'
  <1>1. /\ UNCHANGED <<store, bench, callers, late, files, twin, verdict>> /\ Enter("simulate", "pace", 0)
        /\ pace' = [NoPace EXCEPT !.on = TRUE] /\ "simulate" \in Ops /\ "pace" \in Labels
    BY DEF BeginSimulate, Ops, Labels
  <1>2. task' \in Tasks /\ task'.at = "pace"
    BY <1>1, EnterEffect
  <1>3. pace' \in Pace /\ pace'.last < 0
    BY <1>1, NoPaceFacts DEF Pace
  <1>4. PaceKnows'
    BY <1>3 DEF PaceKnows, Pace
  <1> QED BY <1>1, <1>2, <1>3, <1>4, PaceCommand

LEMMA ClockKeeps ==
    ASSUME DataInv, Clock
    PROVE  DataInv'
  <1>1. /\ UNCHANGED <<store, bench, callers, late, files, twin, verdict, task>>
        /\ pace' = [pace EXCEPT !.now = @ + 1] /\ pace \in Pace /\ task \in Tasks
    BY DEF Clock, PaceRest, DataInv, DataTypeOK
  <1>2. PICK n \in Int : pace' = [pace EXCEPT !.now = n]
    BY <1>1 DEF Pace
  <1>3. /\ pace' \in Pace /\ pace'.busy = pace.busy /\ pace'.last = pace.last /\ pace'.tick = pace.tick
    BY <1>1, <1>2 DEF Pace
  <1>4. PaceKnows'
    BY <1>3 DEF DataInv, PaceKnows
  <1> QED BY <1>1, <1>3, <1>4, PaceCommand

LEMMA SimulatorStartsKeeps ==
    ASSUME DataInv, SimulatorStarts
    PROVE  DataInv'
  <1>1. /\ UNCHANGED <<store, bench, callers, late, files, twin, verdict, task>>
        /\ pace' = [pace EXCEPT !.busy = TRUE, !.last = pace.now] /\ pace \in Pace /\ task \in Tasks
    BY DEF SimulatorStarts, PaceRest, DataInv, DataTypeOK
  <1>2. pace' \in Pace /\ pace'.busy
    BY <1>1 DEF Pace
  <1>3. PaceKnows'
    BY <1>2 DEF PaceKnows
  <1> QED BY <1>1, <1>2, <1>3, PaceCommand

(* The larger of two numbers. *)
LEMMA LargerOfTwo ==
    ASSUME NEW a \in Int, NEW b \in Int
    PROVE  Max({a, b}) \in Int /\ Max({a, b}) >= a /\ Max({a, b}) >= b
  <1>1. \E x \in {a, b} : \A y \in {a, b} : x >= y
    <2>1. CASE a >= b
      BY <2>1
    <2>2. CASE b >= a
      BY <2>2
    <2> QED BY <2>1, <2>2
  <1>2. Max({a, b}) \in {a, b} /\ \A y \in {a, b} : Max({a, b}) >= y
    BY <1>1 DEF Max
  <1> QED BY <1>2

LEMMA SimulatorNextKeeps ==
    ASSUME DataInv, SimulatorNext
    PROVE  DataInv'
  <1> DEFINE due == (pace.now + Interval - 1) \div Interval
             slot == Max({pace.slot + 1, due})
             tick == NextTick(slot, pace.last)
  <1>1. /\ UNCHANGED <<store, bench, callers, late, files, twin, verdict, task>>
        /\ pace' = [pace EXCEPT !.busy = FALSE, !.slot = slot, !.tick = tick] /\ pace \in Pace /\ task \in Tasks
    BY DEF SimulatorNext, PaceRest, DataInv, DataTypeOK
  <1>2. /\ pace.now \in Int /\ pace.slot \in Int /\ pace.last \in Int /\ Interval \in Int /\ Interval > 0
        /\ pace.now + Interval - 1 \in Int /\ pace.slot + 1 \in Int
    BY <1>1, DataAssumption DEF Pace
  <1>3. due \in Int
    BY <1>2
  <1> HIDE DEF due
  <1>4. slot \in Int
    BY <1>2, <1>3, LargerOfTwo
  <1> HIDE DEF slot
  <1>5. slot * Interval \in Int /\ pace.last + Interval \in Int
    BY <1>2, <1>4
  <1>6. tick \in Int /\ tick >= pace.last + Interval
    BY <1>5, LargerOfTwo DEF NextTick
  <1> HIDE DEF tick
  <1>7. pace' \in Pace /\ pace'.last = pace.last /\ pace'.tick = tick
    BY <1>1, <1>4, <1>6 DEF Pace
  <1>8. PaceKnows'
    BY <1>6, <1>7 DEF PaceKnows
  <1> QED BY <1>1, <1>7, <1>8, PaceCommand

LEMMA SimulatorEndsKeeps ==
    ASSUME DataInv, SimulatorEnds
    PROVE  DataInv'
  <1>1. /\ UNCHANGED <<store, bench, callers, late, files, twin, verdict>> /\ task' = NoTask /\ pace' = NoPace
    BY DEF SimulatorEnds, PaceRest, Leaves
  <1>2. task' \in Tasks /\ task'.at = Nil
    BY <1>1, NoTaskOwesNothing DEF NoTask
  <1>3. pace' \in Pace /\ PaceKnows'
    BY <1>1, NoPaceFacts DEF PaceKnows, Pace
  <1> QED BY <1>1, <1>2, <1>3, PaceCommand

LEMMA AbandonKeeps ==
    ASSUME DataInv, Abandon
    PROVE  DataInv'
  <1>1. /\ UNCHANGED <<store, bench, callers, late, files, twin, verdict>> /\ task' = NoTask /\ pace' = NoPace
    BY DEF Abandon, Leaves
  <1>2. task' \in Tasks /\ task'.at = Nil
    BY <1>1, NoTaskOwesNothing DEF NoTask
  <1>3. pace' \in Pace /\ PaceKnows'
    BY <1>1, NoPaceFacts DEF PaceKnows, Pace
  <1> QED BY <1>1, <1>2, <1>3, PaceCommand

(* Somebody else changes an account through "sql": the dataset is not touched. *)
LEMMA OutsiderKeeps ==
    ASSUME DataInv, Outsider
    PROVE  DataInv'
  <1>1. /\ UNCHANGED <<bench, callers, late, files, twin, task, verdict, pace>>
        /\ store' = [store EXCEPT !.account = 1]
    BY DEF Outsider
  <1>2. store' \in Contents /\ store'.manifest = store.manifest /\ store'.rows = store.rows
    BY <1>1, DatasetFacts DEF Contents
  <1>3. DataTypeOK'
    BY <1>1, <1>2 DEF DataInv, DataTypeOK
  <1>4. DatasetIsHonest'
    BY <1>1, <1>2, DatasetFacts DEF DatasetIsHonest, Honest
  <1>5. SeedKnows' /\ RestoreKnows' /\ LoadKnows'
    BY <1>1, <1>2 DEF DataInv, SeedKnows, RestoreKnows, LoadKnows
  <1>6. ReceiptsAreTransfers' /\ PaceKnows'
    BY <1>1, OtherPartsAlone
  <1> QED BY <1>3, <1>4, <1>5, <1>6 DEF DataInv

-----------------------------------------------------------------------------
(* The theorems. *)

LEMMA DataInitial ==
    ASSUME DataInit
    PROVE  DataInv
  <1>1. /\ store = [account |-> 0, manifest |-> NoDataset, rows |-> 0]
        /\ bench = NoBench /\ callers = Quit /\ late = {} /\ files = <<>> /\ twin = <<>> /\ task = NoTask
        /\ verdict = [load |-> Nil, seed |-> Nil, restore |-> Nil] /\ pace = NoPace
    BY DEF DataInit
  <1>2. store \in Contents /\ store.manifest.state = "nil"
    BY <1>1 DEF Contents, NoDataset, Nil
  <1>3. verdict \in Verdicts /\ verdict.restore = "nil"
    BY <1>1 DEF Verdicts, Words, Nil
  <1>4. bench \in Tables /\ bench.receipts = {} /\ \A r \in Requests : bench.applied[r] = 0
    BY <1>1 DEF NoBench, Tables
  <1>5. task \in Tasks /\ task.at = "nil"
    BY <1>1, NoTaskIsTask DEF NoTask, Nil
  <1>6. files \in Seq(Backup) /\ twin \in Seq(Contents) /\ Len(files) = 0 /\ Len(twin) = 0
    BY <1>1
  <1>7. DataTypeOK
    BY <1>1, <1>2, <1>3, <1>4, <1>5, <1>6, QuitFacts, NoPaceFacts DEF DataTypeOK
  <1>8. ReceiptsAreTransfers
    <2> SUFFICES ASSUME NEW r \in Requests
                 PROVE  /\ bench.applied[r] = IF RequestId(r) \in bench.receipts THEN 1 ELSE 0
                        /\ callers[r].at # "committed"
      BY DEF ReceiptsAreTransfers
    <2> QED BY <1>1, <1>4, QuitFacts
  <1>9. DatasetIsHonest
    BY <1>2, <1>3, <1>6 DEF DatasetIsHonest, Honest
  <1>10. SeedKnows /\ RestoreKnows /\ LoadKnows
    BY <1>5 DEF SeedKnows, RestoreKnows, LoadKnows
  <1>11. PaceKnows
    BY <1>1, NoPaceFacts DEF PaceKnows, Pace
  <1> QED BY <1>7, <1>8, <1>9, <1>10, <1>11 DEF DataInv

LEMMA DataStutter ==
    ASSUME DataInv, UNCHANGED dataVars
    PROVE  DataInv'
  <1>1. UNCHANGED <<store, bench, callers, late, files, twin, task, verdict, pace>>
    BY DEF dataVars
  <1>2. pace' \in Pace /\ PaceKnows' /\ task' \in Tasks
    BY <1>1 DEF DataInv, DataTypeOK, PaceKnows
  <1> QED BY <1>1, <1>2, PaceCommand

LEMMA DatasetStepKeeps ==
    ASSUME DataInv, DatasetStep
    PROVE  DataInv'
  <1>1. ASSUME NEW size \in Sizes, NEW replace \in BOOLEAN, BeginSeed(size, replace) PROVE DataInv'
    BY <1>1, BeginSeedKeeps
  <1>2. CASE SeedMark \/ SeedSchema \/ SeedRows \/ SeedComplete \/ SeedVerify
    BY <1>2, SeedMarkKeeps, SeedSchemaKeeps, SeedRowsKeeps, SeedCompleteKeeps, SeedVerifyKeeps
  <1>3. CASE BeginBackup \/ BackupDump \/ BackupFails \/ BackupMeta
    BY <1>3, BeginBackupKeeps, BackupDumpKeeps, BackupFailsKeeps, BackupMetaKeeps
  <1>4. ASSUME NEW i \in 1..Len(files), BeginRestore(i) PROVE DataInv'
    BY <1>4, BeginRestoreKeeps
  <1>5. CASE RestoreWipe \/ RestoreFeed \/ RestoreInspect
    BY <1>5, RestoreWipeKeeps, RestoreFeedKeeps, RestoreInspectKeeps
  <1> QED BY <1>1, <1>2, <1>3, <1>4, <1>5 DEF DatasetStep

LEMMA LoadStepKeeps ==
    ASSUME DataInv, LoadStep
    PROVE  DataInv'
  <1>1. CASE BeginLoad \/ LoadAccounts \/ LoadTransfers \/ LoadCompare
    BY <1>1, BeginLoadKeeps, LoadAccountsKeeps, LoadTransfersKeeps, LoadCompareKeeps
  <1>2. CASE LoadEnds \/ LoadAfter \/ LoadDrop \/ LoadReport \/ LoadKilled
    BY <1>2, LoadEndsKeeps, LoadAfterKeeps, LoadDropKeeps, LoadReportKeeps, LoadKilledKeeps
  <1>3. ASSUME NEW r \in Requests, TransferCheck(r) \/ TransferCommit(r) PROVE DataInv'
    BY <1>3, TransferCheckKeeps, TransferCommitKeeps
  <1>4. ASSUME NEW id \in late, LateCommit(id) PROVE DataInv'
    BY <1>4, LateCommitKeeps
  <1> QED BY <1>1, <1>2, <1>3, <1>4 DEF LoadStep

LEMMA DataInductive ==
    ASSUME DataInv, [DataNext]_dataVars
    PROVE  DataInv'
  <1>1. CASE SimulatorStep
    BY <1>1, BeginSimulateKeeps, ClockKeeps, SimulatorStartsKeeps, SimulatorNextKeeps, SimulatorEndsKeeps DEF SimulatorStep
  <1> QED BY <1>1, DatasetStepKeeps, LoadStepKeeps, AbandonKeeps, OutsiderKeeps, DataStutter DEF DataNext

(***************************************************************************)
(* The inductive invariant of the data commands of lab.py, workload.py and *)
(* simulator.py, through every kill, failed call and lost commit answer.   *)
(***************************************************************************)
THEOREM DataInvariant == DataSpec => []DataInv
  <1> QED BY DataInitial, DataInductive, PTL DEF DataSpec

(* The identifier chosen before the first attempt makes a transfer at most one, and "committed" is never said of none. *)
THEOREM TransfersHappenOnce == DataSpec => []TransfersOnce
  <1>1. DataInv => TransfersOnce
    <2> SUFFICES ASSUME DataInv, NEW r \in Requests
                 PROVE  bench.applied[r] <= 1 /\ (callers[r].at = "committed" => bench.applied[r] = 1)
      BY DEF TransfersOnce
    <2>1. /\ bench.applied[r] = IF RequestId(r) \in bench.receipts THEN 1 ELSE 0
          /\ callers[r].at = "committed" => RequestId(r) \in bench.receipts
      BY DEF DataInv, ReceiptsAreTransfers
    <2>2. bench.applied[r] \in {0, 1} /\ (RequestId(r) \in bench.receipts => bench.applied[r] = 1)
      BY <2>1
    <2> QED BY <2>1, <2>2
  <1> QED BY <1>1, DataInvariant, PTL

(* A dataset that says "complete" is complete, wherever seed stopped, in every backup and on the restore node. *)
THEOREM DatasetStaysHonest == DataSpec => []DatasetIsHonest
  <1>1. DataInv => DatasetIsHonest
    BY DEF DataInv
  <1> QED BY <1>1, DataInvariant, PTL
-----------------------------------------------------------------------------
(* What is measured and reported. *)

PassIsEarned ==
    verdict.load # "PASS" /\ verdict'.load = "PASS" =>
        ~ bench.transfers /\ ~ bench.accounts /\ task.same /\ \A r \in Requests : callers[r].at \in Settled
StartIsPaced == pace'.busy /\ ~ pace.busy /\ pace.last >= 0 => pace.now >= pace.last + Interval

(* Only the report of a load makes a PASS of it. *)
LEMMA PassStep ==
    ASSUME DataInv, DataNext
    PROVE  PassIsEarned
  <1>1. verdict \in Verdicts
    BY LoadFacts
  <1>2. CASE UNCHANGED verdict
    BY <1>2 DEF PassIsEarned
  <1>3. ASSUME NEW w \in Words, verdict' = [verdict EXCEPT !.seed = w] \/ verdict' = [verdict EXCEPT !.restore = w]
        PROVE  PassIsEarned
    <2>1. verdict'.load = verdict.load
      BY <1>1, <1>3 DEF Verdicts
    <2> QED BY <2>1 DEF PassIsEarned
  <1>4. CASE SeedVerify
    <2>1. \E w \in Words : verdict' = [verdict EXCEPT !.seed = w]
      BY <1>4 DEF SeedVerify, Words
    <2> QED BY <1>3, <2>1
  <1>5. CASE RestoreInspect
    <2>1. \E w \in Words : verdict' = [verdict EXCEPT !.restore = w]
      BY <1>5 DEF RestoreInspect, Words
    <2> QED BY <1>3, <2>1
  <1>6. ASSUME NEW i \in 1..Len(files), BeginRestore(i) PROVE PassIsEarned
    <2>1. \E w \in Words : verdict' = [verdict EXCEPT !.restore = w]
      BY <1>6 DEF BeginRestore, Words
    <2> QED BY <1>3, <2>1
  <1>7. CASE BeginLoad
    <2>1. verdict'.load = "nil"
      BY <1>1, <1>7 DEF BeginLoad, Verdicts, Nil
    <2> QED BY <2>1 DEF PassIsEarned
  <1>8. CASE LoadReport
    <2>1. /\ task.at = "report"
          /\ verdict' = [verdict EXCEPT !.load = IF task.rc = 0 /\ task.good /\ task.same /\ Removed THEN "PASS" ELSE "FAIL"]
      BY <1>8 DEF LoadReport, Loads, At
    <2>2. CASE task.rc = 0 /\ task.good /\ task.same /\ Removed
      <3>1. \A r \in Requests : callers[r].at \in Settled
        BY <2>1, <2>2, LoadFacts DEF LoadKnows
      <3> QED BY <2>2, <3>1 DEF PassIsEarned, Removed
    <2>3. CASE ~ (task.rc = 0 /\ task.good /\ task.same /\ Removed)
      <3>1. verdict' = [verdict EXCEPT !.load = "FAIL"]
        BY <2>1, <2>3
      <3>2. verdict'.load = "FAIL"
        BY <1>1, <3>1 DEF Verdicts
      <3> QED BY <3>2 DEF PassIsEarned
    <2> QED BY <2>2, <2>3
  <1>9. CASE DatasetStep
    <2>1. CASE \E size \in Sizes, replace \in BOOLEAN : BeginSeed(size, replace)
      BY <1>2, <2>1 DEF BeginSeed
    <2>2. CASE SeedMark \/ SeedSchema \/ SeedRows \/ SeedComplete
      BY <1>2, <2>2 DEF SeedMark, SeedSchema, SeedRows, SeedComplete
    <2>3. CASE BeginBackup \/ BackupDump \/ BackupFails \/ BackupMeta
      BY <1>2, <2>3 DEF BeginBackup, BackupDump, BackupFails, BackupMeta
    <2>4. CASE RestoreWipe \/ RestoreFeed
      BY <1>2, <2>4 DEF RestoreWipe, RestoreFeed
    <2> QED BY <1>4, <1>5, <1>6, <1>9, <2>1, <2>2, <2>3, <2>4 DEF DatasetStep
  <1>10. CASE LoadStep
    <2>1. CASE LoadAccounts \/ LoadTransfers \/ LoadCompare \/ LoadEnds \/ LoadAfter \/ LoadDrop \/ LoadKilled
      BY <1>2, <2>1 DEF LoadAccounts, LoadTransfers, LoadCompare, LoadEnds, LoadAfter, LoadDrop, LoadKilled, LoadRest
    <2>2. CASE \E r \in Requests : TransferCheck(r) \/ TransferCommit(r)
      BY <1>2, <2>2 DEF TransferCheck, TransferCommit, CallRest
    <2>3. CASE \E id \in late : LateCommit(id)
      BY <1>2, <2>3 DEF LateCommit, CallRest
    <2> QED BY <1>7, <1>8, <1>10, <2>1, <2>2, <2>3 DEF LoadStep
  <1>11. CASE SimulatorStep
    BY <1>2, <1>11 DEF SimulatorStep, BeginSimulate, Clock, SimulatorStarts, SimulatorNext, SimulatorEnds, PaceRest
  <1>12. CASE Abandon \/ Outsider
    BY <1>2, <1>12 DEF Abandon, Outsider
  <1> QED BY <1>9, <1>10, <1>11, <1>12 DEF DataNext

(* Only the simulator starts an operation, at its tick or later. *)
LEMMA PaceStep ==
    ASSUME DataInv, DataNext
    PROVE  StartIsPaced
  <1>1. pace \in Pace /\ PaceKnows /\ Interval \in Int
    BY DataAssumption DEF DataInv, DataTypeOK
  <1>2. CASE UNCHANGED pace
    BY <1>2 DEF StartIsPaced
  <1>3. CASE pace' = NoPace
    BY <1>3 DEF StartIsPaced, NoPace
  <1>4. CASE BeginSimulate
    <2>1. pace' = [NoPace EXCEPT !.on = TRUE]
      BY <1>4 DEF BeginSimulate
    <2>2. ~ pace'.busy
      BY <2>1 DEF NoPace
    <2> QED BY <2>2 DEF StartIsPaced
  <1>5. CASE Clock
    <2>1. pace' = [pace EXCEPT !.now = @ + 1]
      BY <1>5 DEF Clock
    <2>2. pace'.busy = pace.busy
      BY <1>1, <2>1 DEF Pace
    <2> QED BY <2>2 DEF StartIsPaced
  <1>6. CASE SimulatorStarts
    <2> SUFFICES ASSUME pace.last >= 0 PROVE pace.now >= pace.last + Interval
      BY DEF StartIsPaced
    <2>1. ~ pace.busy /\ pace.now >= pace.tick
      BY <1>6 DEF SimulatorStarts
    <2>2. pace.tick >= pace.last + Interval
      BY <1>1, <2>1 DEF PaceKnows
    <2>3. pace.now \in Int /\ pace.tick \in Int /\ pace.last \in Int
      BY <1>1 DEF Pace
    <2> QED BY <1>1, <2>1, <2>2, <2>3
  <1>7. CASE SimulatorNext
    <2>1. pace.busy
      BY <1>7 DEF SimulatorNext
    <2> QED BY <2>1 DEF StartIsPaced
  <1>8. CASE DatasetStep
    <2>1. UNCHANGED pace
      <3>1. CASE \E size \in Sizes, replace \in BOOLEAN : BeginSeed(size, replace)
        BY <3>1 DEF BeginSeed
      <3>2. CASE \E i \in 1..Len(files) : BeginRestore(i)
        BY <3>2 DEF BeginRestore
      <3>3. CASE SeedMark \/ SeedSchema \/ SeedRows \/ SeedComplete \/ SeedVerify
        BY <3>3 DEF SeedMark, SeedSchema, SeedRows, SeedComplete, SeedVerify
      <3>4. CASE BeginBackup \/ BackupDump \/ BackupFails \/ BackupMeta
        BY <3>4 DEF BeginBackup, BackupDump, BackupFails, BackupMeta
      <3>5. CASE RestoreWipe \/ RestoreFeed \/ RestoreInspect
        BY <3>5 DEF RestoreWipe, RestoreFeed, RestoreInspect
      <3> QED BY <1>8, <3>1, <3>2, <3>3, <3>4, <3>5 DEF DatasetStep
    <2> QED BY <1>2, <2>1
  <1>9. CASE LoadStep
    <2>1. UNCHANGED pace
      <3>1. CASE \E r \in Requests : TransferCheck(r) \/ TransferCommit(r)
        BY <3>1 DEF TransferCheck, TransferCommit, CallRest
      <3>2. CASE \E id \in late : LateCommit(id)
        BY <3>2 DEF LateCommit, CallRest
      <3>3. CASE BeginLoad \/ LoadReport \/ LoadKilled
        BY <3>3 DEF BeginLoad, LoadReport, LoadKilled
      <3>4. CASE LoadAccounts \/ LoadTransfers \/ LoadCompare \/ LoadEnds \/ LoadAfter \/ LoadDrop
        BY <3>4 DEF LoadAccounts, LoadTransfers, LoadCompare, LoadEnds, LoadAfter, LoadDrop, LoadRest
      <3> QED BY <1>9, <3>1, <3>2, <3>3, <3>4 DEF LoadStep
    <2> QED BY <1>2, <2>1
  <1>10. CASE Abandon \/ SimulatorEnds
    BY <1>3, <1>10 DEF Abandon, SimulatorEnds
  <1>11. CASE Outsider
    BY <1>2, <1>11 DEF Outsider
  <1> QED BY <1>4, <1>5, <1>6, <1>7, <1>8, <1>9, <1>10, <1>11 DEF DataNext, SimulatorStep

(***************************************************************************)
(* A load becomes PASS only when its tables are gone, the source accounts  *)
(* are unchanged and every request is settled; the simulator never starts  *)
(* two operations closer than its interval, however late it wakes up.      *)
(***************************************************************************)
THEOREM MeasurementsStayHonest == DataSpec => MeasurementsAreHonest
  <1>1. DataInv /\ [DataNext]_dataVars => [PassIsEarned /\ StartIsPaced]_dataVars
    BY PassStep, PaceStep
  <1>2. [PassIsEarned /\ StartIsPaced]_dataVars
        => [ /\ (verdict.load # "PASS" /\ verdict'.load = "PASS") =>
                   ~ bench.transfers /\ ~ bench.accounts /\ task.same /\ \A r \in Requests : callers[r].at \in {"committed", "insufficient"}
             /\ (pace'.busy /\ ~ pace.busy /\ pace.last >= 0) => pace.now >= pace.last + Interval ]_dataVars
    BY DEF PassIsEarned, StartIsPaced, Settled
  <1> QED BY <1>1, <1>2, DataInvariant, PTL DEF DataSpec, MeasurementsAreHonest

-----------------------------------------------------------------------------
(***************************************************************************)
(* The life cycle of the Galera laboratory.  Everything a scenario hurts   *)
(* is in its record: at every step of every command, the record names what *)
(* has been changed and is not back yet.                                   *)
(***************************************************************************)
Disks == [init : {None, "partial", "complete"}, uuid : {0, 1}, seqno : -1..MaxTxns,
          safe : BOOLEAN, token : BOOLEAN, data : SUBSET (1..MaxTxns)]
Procs == [run : {"running", "paused", "stopped"}, boot : BOOLEAN, view : SUBSET Nodes, hurt : BOOLEAN]

LifeOps == {"up", "recover", "down", "reset", "scale", "rebuild"}
LifeAts == {"up", "authorize", "launch", "alone", "others", "joined", "down", "scale", "rebuild", "restart"}
NodeAts == {"authorize", "launch", "alone", "joined", "rebuild", "restart"}
SlowAts == {"remember", "spawn", "work"}
ScenarioAts == SlowAts \cup {"before", "note", "disrupt", "during"}
RepairAts == {"resume", "revive", "cancel", "logging", "wait", "unlink"}
Incidents == Faults \cup {"slow"}

(* A command of the life cycle, a scenario before its recovery, a recovery. *)
LivesAt == cmd.op \in LifeOps /\ cmd.at \in LifeAts /\ cmd.status = None
PlaysAt == cmd.op \in Incidents /\ cmd.at \in ScenarioAts /\ cmd.status = None
EndsAt == cmd.op \in Incidents /\ cmd.at \in RepairAts /\ cmd.status \in {"held", "passed", "failed", "interrupted"}
ReconcilesAt == cmd.op \in Incidents /\ cmd.at = "after" /\ cmd.status = "held"
RepairsAt == cmd.op = "repair" /\ cmd.at \in RepairAts /\ cmd.status = "repair"

CommandFits ==
    /\ cmd = [op |-> cmd.op, at |-> cmd.at, node |-> cmd.node, todo |-> cmd.todo, ids |-> cmd.ids,
              seen |-> cmd.seen, status |-> cmd.status, err |-> cmd.err]
    /\ cmd.err \in BOOLEAN
    /\ cmd = Idle \/ LivesAt \/ PlaysAt \/ EndsAt \/ ReconcilesAt \/ RepairsAt
    /\ cmd.at \in NodeAts => cmd.node \in NODES
    /\ cmd.at \in SlowAts => cmd.op = "slow"
    /\ cmd.at = "scale" => \E k \in 1..count : cmd.todo = {Order[i] : i \in (k + 1)..count}

(* What the record says at each step of a scenario and of a recovery. *)
StepFits ==
    /\ cmd.at \in ScenarioAts => journal.open /\ cmd.todo \subseteq NODES
    /\ cmd.at \in SlowAts \cup {"before", "note"} => journal.nodes = {}
    /\ cmd.at = "spawn" => journal.logging
    /\ cmd.at \in {"disrupt", "during"} => journal.nodes = cmd.todo
    /\ cmd.at \in RepairAts => journal.nodes \subseteq NODES
    /\ cmd.at = "logging" => ~ journal.worker
    /\ cmd.at \in {"wait", "unlink"} /\ ~ cmd.err => ~ journal.worker /\ ~ journal.logging
    /\ cmd.at = "unlink" /\ ~ cmd.err => journal.nodes = {}
    /\ cmd.at = "after" => ~ journal.open

(* A verdict stays true while the recovery that precedes its report goes on. *)
PassFits ==
    cmd.status = "passed" /\ cmd.op \in Faults =>
        Observed(cmd.op, cmd.seen) /\ \A n \in NODES : cmd.ids \subseteq disk[n].data

(* Nodes beyond NODE_COUNT are stopped. *)
Outside == \A n \in Nodes \ NODES : Stopped(n)

RecordFits ==
    /\ journal.nodes # {} \/ journal.logging \/ journal.worker => journal.open
    /\ \A n \in Nodes : proc[n].hurt => n \in journal.nodes /\ ~ Running(n)
    /\ worker \in {"begun", "logging"} => journal.worker /\ journal.logging
    /\ logging => journal.logging

ClusterInv == TypeOK /\ Outside /\ RecordFits
CommandInv == CommandFits /\ StepFits /\ PassFits
GaleraInv == ClusterInv /\ CommandInv

-----------------------------------------------------------------------------
(* Positions and the nodes of the laboratory. *)

LEMMA NodeFacts ==
    ASSUME TypeOK
    PROVE  /\ NODES \subseteq Nodes /\ Leader \in NODES /\ Leader \in Nodes
           /\ Len(Order) \in Nat \ {0} /\ MaxTxns \in Nat /\ count \in 1..Len(Order)
  BY GaleraAssumption DEF TypeOK, NODES, Nodes, Leader

LEMMA TypesAre ==
    TypeOK <=> /\ disk \in [Nodes -> Disks] /\ proc \in [Nodes -> Procs]
               /\ count \in 1..Len(Order) /\ acked \subseteq 1..MaxTxns
               /\ journal \in [open : BOOLEAN, nodes : SUBSET Nodes, logging : BOOLEAN, worker : BOOLEAN]
               /\ worker \in {None, "begun", "logging", "done"} /\ logging \in BOOLEAN
               /\ report \in {None, "running", "passed", "failed", "interrupted", "recovery-needed"}
  BY DEF TypeOK, Disks, Procs

LEMMA NodeTypes ==
    ASSUME TypeOK, NEW n \in Nodes
    PROVE  /\ disk[n] \in Disks /\ proc[n] \in Procs
           /\ disk[n].init \in {None, "partial", "complete"} /\ disk[n].uuid \in {0, 1}
           /\ disk[n].seqno \in -1..MaxTxns /\ disk[n].safe \in BOOLEAN /\ disk[n].token \in BOOLEAN
           /\ disk[n].data \subseteq 1..MaxTxns
           /\ proc[n].run \in {"running", "paused", "stopped"} /\ proc[n].boot \in BOOLEAN
           /\ proc[n].view \subseteq Nodes /\ proc[n].hurt \in BOOLEAN
<1>1. disk[n] \in Disks /\ proc[n] \in Procs
  BY TypesAre
<1> QED BY <1>1 DEF Disks, Procs

LEMMA IndexIs ==
    ASSUME NEW i \in 1..Len(Order)
    PROVE  Index(Order[i]) = i
  BY GaleraAssumption DEF Index

(* A set of nodes that is not empty has a first and a last one. *)
LEMMA FirstIn ==
    ASSUME NEW S, S \subseteq Nodes, S # {}
    PROVE  First(S) \in S
<1> DEFINE I == {Index(n) : n \in S}
<1>1. \A n \in S : Index(n) \in 1..Len(Order) /\ Order[Index(n)] = n
  BY IndexIs DEF Nodes
<1>2. I \subseteq Nat /\ I # {}
  BY <1>1, GaleraAssumption
<1>3. \E i \in I : \A j \in I : i <= j
  <2>1. IsWellFoundedOn(OpToRel(<, Nat), Nat)
    BY NatLessThanWellFounded, Zenon
  <2>2. PICK i \in I : \A j \in I : ~ (<<j, i>> \in OpToRel(<, Nat))
    BY <1>2, <2>1, WFMin, Zenon
  <2>3. \A j \in I : ~ (j < i)
    BY <1>2, <2>2 DEF OpToRel
  <2> QED BY <1>2, <2>3
<1>4. \E n \in S : \A m \in S : Index(n) <= Index(m)
  BY <1>3
<1> QED BY <1>4 DEF First

LEMMA LastIn ==
    ASSUME NEW S, S \subseteq Nodes, S # {}
    PROVE  Last(S) \in S
<1> DEFINE I == {Len(Order) - Index(n) : n \in S}
<1>1. \A n \in S : Index(n) \in 1..Len(Order) /\ Order[Index(n)] = n
  BY IndexIs DEF Nodes
<1>2. I \subseteq Nat /\ I # {}
  BY <1>1, GaleraAssumption
<1>3. \E i \in I : \A j \in I : i <= j
  <2>1. IsWellFoundedOn(OpToRel(<, Nat), Nat)
    BY NatLessThanWellFounded, Zenon
  <2>2. PICK i \in I : \A j \in I : ~ (<<j, i>> \in OpToRel(<, Nat))
    BY <1>2, <2>1, WFMin, Zenon
  <2>3. \A j \in I : ~ (j < i)
    BY <1>2, <2>2 DEF OpToRel
  <2> QED BY <1>2, <2>3
<1>4. \E n \in S : \A m \in S : Index(n) >= Index(m)
  <2>1. PICK n \in S : \A j \in I : Len(Order) - Index(n) <= j
    BY <1>3
  <2>2. ASSUME NEW m \in S
        PROVE  Index(n) >= Index(m)
    <3>1. Len(Order) - Index(n) <= Len(Order) - Index(m)
      BY <2>1
    <3>2. Index(n) \in Nat /\ Index(m) \in Nat /\ Len(Order) \in Nat
      BY <1>1, GaleraAssumption
    <3> QED BY <3>1, <3>2
  <2> QED BY <2>2
<1> QED BY <1>4 DEF Last

(* The nodes a scale command removes are as many as the numbers it leaves out. *)
LEMMA RestSize ==
    ASSUME NEW k \in Nat, NEW c \in 1..Len(Order), 1 <= k, k <= c
    PROVE  Cardinality({Order[i] : i \in (k + 1)..c}) = c - k
<1> DEFINE S == (k + 1)..c
           T == {Order[i] : i \in S}
           f == [i \in S |-> Order[i]]
<1>1. c \in Int /\ c \in 1..Len(Order) /\ Len(Order) \in Nat
  BY GaleraAssumption
<1>2. f \in Bijection(S, T)
  <2>1. f \in [S -> T]
    OBVIOUS
  <2>2. \A i, j \in S : f[i] = f[j] => i = j
    BY <1>1, GaleraAssumption
  <2>3. \A t \in T : \E i \in S : f[i] = t
    OBVIOUS
  <2> QED BY <2>1, <2>2, <2>3 DEF Bijection, Injection, Surjection, IsInjective
<1>3. IsFiniteSet(S) /\ Cardinality(S) = IF k + 1 > c THEN 0 ELSE c - (k + 1) + 1
  <2>1. k + 1 \in Int /\ c \in Int
    BY <1>1
  <2> QED BY <2>1, FS_Interval
<1>4. ExistsBijection(S, T)
  BY <1>2 DEF ExistsBijection
<1>5. Cardinality(T) = Cardinality(S)
  BY <1>3, <1>4, FS_Bijection
<1>6. Cardinality(T) = IF k + 1 > c THEN 0 ELSE c - (k + 1) + 1
  BY <1>3, <1>5
<1> HIDE DEF T
<1> QED BY <1>1, <1>6 DEF T

-----------------------------------------------------------------------------
(* What may happen to the nodes without a scenario's doing: nothing is hurt, nothing outside   *)
(* NODE_COUNT starts, no setting is changed, and no transaction is lost by the nodes together. *)

Gentle ==
    /\ disk' \in [Nodes -> Disks] /\ proc' \in [Nodes -> Procs]
    /\ \A n \in Nodes : proc'[n].hurt => proc[n].hurt /\ proc'[n].run # "running"
    /\ \A n \in Nodes \ NODES : proc'[n].run = "stopped"
    /\ worker' \in {worker, None} /\ logging' \in {logging, FALSE}

Keeps == \A n \in NODES : \E m \in NODES : disk[m].data \subseteq disk'[n].data

(* One node gets disk d and container p. *)
Put(n, d, p) == disk' = [disk EXCEPT ![n] = d] /\ proc' = [proc EXCEPT ![n] = p]

LEMMA PutEffect ==
    ASSUME TypeOK, NEW n \in Nodes, NEW d, NEW p, Put(n, d, p)
    PROVE  /\ disk'[n] = d /\ proc'[n] = p
           /\ \A m \in Nodes : m # n => disk'[m] = disk[m] /\ proc'[m] = proc[m]
           /\ d \in Disks /\ p \in Procs => disk' \in [Nodes -> Disks] /\ proc' \in [Nodes -> Procs]
<1>1. disk \in [Nodes -> Disks] /\ proc \in [Nodes -> Procs]
  BY TypesAre
<1> QED BY <1>1 DEF Put

LEMMA RunningInside ==
    ASSUME ClusterInv, NEW n \in Nodes, ~ Stopped(n)
    PROVE  n \in NODES
  BY DEF ClusterInv, Outside

LEMMA PutGently ==
    ASSUME ClusterInv, NEW n \in Nodes, NEW d \in Disks, NEW p \in Procs, Put(n, d, p),
           n \in NODES \/ p.run = "stopped",
           p.hurt => proc[n].hurt /\ p.run # "running",
           worker' \in {worker, None}, logging' \in {logging, FALSE}
    PROVE  Gentle /\ (disk[n].data \subseteq d.data => Keeps)
<1>1. TypeOK /\ Outside /\ \A m \in Nodes : proc[m].hurt => ~ Running(m)
  BY DEF ClusterInv, RecordFits
<1>2. /\ disk'[n] = d /\ proc'[n] = p
      /\ \A m \in Nodes : m # n => disk'[m] = disk[m] /\ proc'[m] = proc[m]
      /\ disk' \in [Nodes -> Disks] /\ proc' \in [Nodes -> Procs]
  BY <1>1, PutEffect
<1>3. \A m \in Nodes : proc'[m].hurt => proc[m].hurt /\ proc'[m].run # "running"
  BY <1>1, <1>2 DEF Running
<1>4. \A m \in Nodes \ NODES : proc'[m].run = "stopped"
  BY <1>1, <1>2 DEF Outside, Stopped
<1>5. ASSUME disk[n].data \subseteq d.data
      PROVE  Keeps
  <2>1. NODES \subseteq Nodes
    BY <1>1, NodeFacts
  <2>2. \A m \in NODES : disk[m].data \subseteq disk'[m].data
    BY <1>2, <1>5, <2>1
  <2> QED BY <2>2 DEF Keeps
<1> QED BY <1>2, <1>3, <1>4, <1>5 DEF Gentle

LEMMA OffIs ==
    ASSUME NEW h \in BOOLEAN
    PROVE  /\ [Off EXCEPT !.hurt = h] \in Procs
           /\ [Off EXCEPT !.hurt = h].run = "stopped" /\ [Off EXCEPT !.hurt = h].hurt = h
           /\ Off \in Procs /\ Off.run = "stopped" /\ ~ Off.hurt
  BY DEF Off, Procs

LEMMA Gone ==
    ASSUME NEW n, ServerGone(n), TypeOK
    PROVE  worker' \in {worker, None} /\ logging' \in {logging, FALSE}
  BY DEF ServerGone, TypeOK

(* A node is killed, paused, resumed or started. *)
LEMMA KillGentle ==
    ASSUME ClusterInv, NEW n \in Nodes, NEW h \in BOOLEAN, h => proc[n].hurt, KillNode(n, h)
    PROVE  Gentle /\ Keeps
<1> DEFINE e == [Off EXCEPT !.hurt = h]
<1>1. TypeOK
  BY DEF ClusterInv
<1>2. e \in Procs /\ e.run = "stopped" /\ e.hurt = h
  BY OffIs
<1>3. disk[n] \in Disks /\ worker' \in {worker, None} /\ logging' \in {logging, FALSE}
  BY <1>1, NodeTypes, Gone DEF KillNode
<1>4. Put(n, disk[n], e)
  <2>1. disk = [disk EXCEPT ![n] = disk[n]]
    BY <1>1, TypesAre
  <2> QED BY <2>1 DEF Put, KillNode
<1> HIDE DEF e
<1> QED BY <1>2, <1>3, <1>4, PutGently

LEMMA PauseGentle ==
    ASSUME ClusterInv, NEW n \in Nodes, Running(n), PauseNode(n, FALSE)
    PROVE  Gentle /\ Keeps
<1> DEFINE e == [proc[n] EXCEPT !.run = "paused", !.hurt = FALSE]
<1>1. TypeOK /\ n \in NODES
  BY RunningInside DEF ClusterInv, Running, Stopped
<1>2. e \in Procs /\ ~ e.hurt
  BY <1>1, NodeTypes DEF Procs
<1>3. disk[n] \in Disks /\ worker' \in {worker, None} /\ logging' \in {logging, FALSE}
  BY <1>1, NodeTypes DEF PauseNode
<1>4. Put(n, disk[n], e)
  <2>1. disk = [disk EXCEPT ![n] = disk[n]]
    BY <1>1, TypesAre
  <2> QED BY <2>1 DEF Put, PauseNode
<1> HIDE DEF e
<1> QED BY <1>1, <1>2, <1>3, <1>4, PutGently

LEMMA UnpauseGentle ==
    ASSUME ClusterInv, NEW n \in Nodes, ~ Stopped(n), Unpause(n)
    PROVE  Gentle /\ Keeps
<1> DEFINE e == [proc[n] EXCEPT !.run = "running", !.hurt = FALSE]
<1>1. TypeOK /\ n \in NODES
  BY RunningInside DEF ClusterInv
<1>2. e \in Procs /\ ~ e.hurt
  BY <1>1, NodeTypes DEF Procs
<1>3. disk[n] \in Disks /\ worker' \in {worker, None} /\ logging' \in {logging, FALSE}
  BY <1>1, NodeTypes DEF Unpause
<1>4. Put(n, disk[n], e)
  <2>1. disk = [disk EXCEPT ![n] = disk[n]]
    BY <1>1, TypesAre
  <2> QED BY <2>1 DEF Put, Unpause
<1> HIDE DEF e
<1> QED BY <1>1, <1>2, <1>3, <1>4, PutGently

LEMMA StartGentle ==
    ASSUME ClusterInv, NEW n \in NODES, StartNode(n)
    PROVE  Gentle /\ Keeps
<1> DEFINE d == [disk[n] EXCEPT !.token = FALSE, !.init = IF @ = None THEN "partial" ELSE @]
           e == IF disk[n].init = "partial" THEN [Off EXCEPT !.hurt = proc[n].hurt]
                ELSE [Off EXCEPT !.run = "running", !.boot = disk[n].token]
<1>1. TypeOK /\ n \in Nodes
  BY NodeFacts DEF ClusterInv
<1>2. /\ disk[n] \in Disks /\ disk[n].init \in {None, "partial", "complete"} /\ disk[n].token \in BOOLEAN
      /\ proc[n].hurt \in BOOLEAN
  BY <1>1, NodeTypes
<1>3. d \in Disks /\ d.data = disk[n].data
  BY <1>2 DEF Disks
<1>4. e \in Procs /\ (e.hurt => proc[n].hurt /\ e.run # "running")
  BY <1>2, OffIs DEF Off, Procs
<1>5. Put(n, d, e) /\ worker' = worker /\ logging' = logging
  BY DEF Put, StartNode
<1> HIDE DEF d, e
<1> QED BY <1>1, <1>3, <1>4, <1>5, PutGently

(* Views change without anything else. *)
LEMMA InstallIs ==
    ASSUME TypeOK, NEW S, NEW V, V \subseteq Nodes
    PROVE  /\ Install(S, V) \in [Nodes -> Procs]
           /\ \A m \in Nodes : Install(S, V)[m].run = proc[m].run /\ Install(S, V)[m].hurt = proc[m].hurt
<1>1. \A m \in Nodes : [proc[m] EXCEPT !.view = V] \in Procs /\ proc[m] \in Procs
  BY NodeTypes DEF Procs
<1>2. \A m \in Nodes : [proc[m] EXCEPT !.view = V].run = proc[m].run /\ [proc[m] EXCEPT !.view = V].hurt = proc[m].hurt
  BY NodeTypes DEF Procs
<1> QED BY <1>1, <1>2 DEF Install

(* The nodes go on as they run; their disks keep what they have, or take what another node has. *)
LEMMA SameRun ==
    ASSUME ClusterInv, proc' \in [Nodes -> Procs], disk' \in [Nodes -> Disks], Keeps,
           \A m \in Nodes : proc'[m].run = proc[m].run /\ proc'[m].hurt = proc[m].hurt,
           worker' \in {worker, None}, logging' \in {logging, FALSE}
    PROVE  Gentle
  BY DEF Gentle, ClusterInv, RecordFits, Outside, Running, Stopped

LEMMA SameData ==
    ASSUME \A n \in NODES : disk'[n].data = disk[n].data
    PROVE  Keeps
  BY DEF Keeps

LEMMA TxnCount ==
    ASSUME NEW S, S \subseteq 1..MaxTxns
    PROVE  IsFiniteSet(S) /\ Cardinality(S) \in 0..MaxTxns
<1>1. MaxTxns \in Nat
  BY GaleraAssumption
<1>2. IsFiniteSet(1..MaxTxns) /\ Cardinality(1..MaxTxns) = IF 1 > MaxTxns THEN 0 ELSE MaxTxns
  <2>1. 1 \in Int /\ MaxTxns \in Int
    BY <1>1
  <2>2. IsFiniteSet(1..MaxTxns) /\ Cardinality(1..MaxTxns) = IF 1 > MaxTxns THEN 0 ELSE MaxTxns - 1 + 1
    BY <2>1, FS_Interval
  <2> QED BY <1>1, <2>2
<1>3. IsFiniteSet(S) /\ Cardinality(S) <= Cardinality(1..MaxTxns)
  BY <1>2, FS_Subset
<1>4. Cardinality(S) \in Nat
  BY <1>3, FS_CardinalityType
<1>5. Cardinality(1..MaxTxns) = MaxTxns
  BY <1>1, <1>2
<1> QED BY <1>1, <1>3, <1>4, <1>5

LEMMA NewTxnIs ==
    ASSUME TypeOK
    PROVE  NewTxn \in Nat \ {0}
<1>1. \A n \in Nodes : disk[n].data \subseteq 1..MaxTxns
  BY NodeTypes
<1>2. Txns \subseteq 1..MaxTxns
  BY <1>1, TypesAre DEF Txns
<1>3. Cardinality(Txns) \in 0..MaxTxns
  BY <1>2, TxnCount
<1> QED BY <1>3, GaleraAssumption DEF NewTxn

(* A transaction that is committed is added to the nodes of one view. *)
LEMMA CommitAdds ==
    ASSUME TypeOK, NEW n, Committed(n)
    PROVE  /\ NewTxn \in 1..MaxTxns /\ disk' \in [Nodes -> Disks]
           /\ \A m \in Nodes : disk[m].data \subseteq disk'[m].data
<1>1. NewTxn \in 1..MaxTxns
  BY NewTxnIs, GaleraAssumption DEF Committed
<1> DEFINE e(m) == [disk[m] EXCEPT !.data = @ \cup {NewTxn}]
<1>2. ASSUME NEW m \in Nodes
      PROVE  e(m) \in Disks /\ disk[m].data \subseteq e(m).data /\ disk[m] \in Disks
  <2>1. disk[m] \in Disks /\ disk[m].data \cup {NewTxn} \subseteq 1..MaxTxns
    BY <1>1, NodeTypes
  <2>2. PICK t : t = NewTxn
    OBVIOUS
  <2>3. [disk[m] EXCEPT !.data = @ \cup {t}] \in Disks
    BY <2>1, <2>2 DEF Disks
  <2>4. [disk[m] EXCEPT !.data = @ \cup {t}].data = disk[m].data \cup {t}
    BY <2>1 DEF Disks
  <2> QED BY <2>1, <2>2, <2>3, <2>4
<1>3. disk' = [m \in Nodes |-> IF m \in proc[n].view THEN e(m) ELSE disk[m]]
  BY DEF Committed
<1> HIDE DEF e
<1> QED BY <1>1, <1>2, <1>3

LEMMA CommitGentle ==
    ASSUME ClusterInv, NEW n, Committed(n), UNCHANGED <<proc, worker, logging>>
    PROVE  Gentle /\ Keeps
<1>1. TypeOK /\ NODES \subseteq Nodes
  BY NodeFacts DEF ClusterInv
<1>2. disk' \in [Nodes -> Disks] /\ \A m \in Nodes : disk[m].data \subseteq disk'[m].data
  BY <1>1, CommitAdds
<1>3. Keeps
  BY <1>1, <1>2 DEF Keeps
<1>4. proc' \in [Nodes -> Procs] /\ proc' = proc /\ worker' = worker /\ logging' = logging
  BY <1>1, TypesAre
<1> QED BY <1>2, <1>3, <1>4, SameRun

LEMMA ReachedIn ==
    ASSUME NEW V, V \subseteq Nodes
    PROVE  Reached(V) \subseteq Nodes
  BY DEF Reached

LEMMA EvictGentle ==
    ASSUME ClusterInv, NEW n \in Nodes, Evict(n)
    PROVE  Gentle /\ Keeps
<1>1. TypeOK
  BY DEF ClusterInv
<1>2. PICK R : R = Reached(proc[n].view)
  OBVIOUS
<1>3. R \subseteq Nodes /\ proc' = Install(R, R) /\ UNCHANGED <<disk, worker, logging>>
  BY <1>1, <1>2, NodeTypes, ReachedIn DEF Evict, incident
<1>4. Keeps
  BY <1>3, SameData
<1>5. disk' \in [Nodes -> Disks]
  BY <1>1, <1>3, TypesAre
<1> QED BY <1>1, <1>3, <1>4, <1>5, InstallIs, SameRun

LEMMA InitDoneGentle ==
    ASSUME ClusterInv, NEW n \in Nodes, InitDone(n)
    PROVE  Gentle /\ Keeps
<1> DEFINE d == [disk[n] EXCEPT !.init = "complete"]
<1>1. TypeOK /\ n \in NODES /\ ~ proc[n].hurt
  BY RunningInside DEF ClusterInv, RecordFits, InitDone, Running, Stopped
<1>2. d \in Disks /\ d.data = disk[n].data /\ proc[n] \in Procs
  BY <1>1, NodeTypes DEF Disks
<1>3. Put(n, d, proc[n]) /\ worker' = worker /\ logging' = logging
  <2>1. proc = [proc EXCEPT ![n] = proc[n]]
    BY <1>1, TypesAre
  <2> QED BY <2>1 DEF Put, InitDone, incident
<1> HIDE DEF d
<1> QED BY <1>1, <1>2, <1>3, PutGently

LEMMA InUseIs ==
    ASSUME NEW d \in Disks
    PROVE  InUse(d) \in Disks /\ InUse(d).data = d.data
<1>1. -1 \in -1..MaxTxns
  BY GaleraAssumption
<1> QED BY <1>1 DEF InUse, Disks

LEMMA BootstrapGentle ==
    ASSUME ClusterInv, NEW n \in Nodes, Bootstrap(n)
    PROVE  Gentle /\ Keeps
<1> DEFINE c == [disk[n] EXCEPT !.uuid = IF @ = 0 THEN 1 ELSE @]
           e == [proc[n] EXCEPT !.boot = FALSE, !.view = {n}]
<1>1. TypeOK /\ n \in NODES /\ ~ proc[n].hurt
  BY RunningInside DEF ClusterInv, RecordFits, Bootstrap, Running, Stopped
<1>2. c \in Disks /\ c.data = disk[n].data /\ disk[n] \in Disks
  BY <1>1, NodeTypes DEF Disks
<1>3. e \in Procs /\ ~ e.hurt /\ Off \in Procs /\ ~ Off.hurt
  BY <1>1, NodeTypes DEF Procs, Off
<1>4. worker' = worker /\ logging' = logging
  BY DEF Bootstrap, incident
<1>5. InUse(c) \in Disks /\ InUse(c).data = disk[n].data
  BY <1>2, InUseIs
<1>6. Put(n, InUse(c), e) \/ Put(n, disk[n], Off)
  <2>1. disk = [disk EXCEPT ![n] = disk[n]]
    BY <1>1, TypesAre
  <2>2. ASSUME disk[n].uuid = 0 \/ disk[n].safe
        PROVE  proc' = [proc EXCEPT ![n].boot = FALSE, ![n].view = {n}] /\ disk' = [disk EXCEPT ![n] = InUse(c)]
    <3>1. proc' = [proc EXCEPT ![n].boot = FALSE, ![n].view = {n}]
      BY <2>2 DEF Bootstrap
    <3>2. disk' = [disk EXCEPT ![n] = InUse(c)]
      BY <2>2 DEF Bootstrap
    <3> QED BY <3>1, <3>2
  <2>3. [proc EXCEPT ![n].boot = FALSE, ![n].view = {n}] = [proc EXCEPT ![n] = e]
    <3>1. PICK v : v = {n}
      OBVIOUS
    <3>2. proc \in [Nodes -> Procs]
      BY <1>1, TypesAre
    <3>3. [proc EXCEPT ![n].boot = FALSE, ![n].view = v] = [proc EXCEPT ![n] = [proc[n] EXCEPT !.boot = FALSE, !.view = v]]
      BY <3>2
    <3> QED BY <3>1, <3>3
  <2>4. ~ (disk[n].uuid = 0 \/ disk[n].safe) => proc' = [proc EXCEPT ![n] = Off] /\ disk' = disk
    BY DEF Bootstrap
  <2> QED BY <2>1, <2>2, <2>3, <2>4 DEF Put
<1> HIDE DEF c, e
<1> QED BY <1>1, <1>2, <1>3, <1>4, <1>5, <1>6, PutGently

LEMMA JoinGentle ==
    ASSUME ClusterInv, NEW n \in Nodes, NEW m \in Nodes, Join(n, m)
    PROVE  Gentle /\ Keeps
<1>1. TypeOK /\ n \in NODES /\ m \in NODES /\ NODES \subseteq Nodes
  BY RunningInside, NodeFacts DEF ClusterInv, Join, Running, Stopped
<1> DEFINE c == [disk[n] EXCEPT !.uuid = disk[m].uuid, !.data = disk[m].data]
<1>2. c \in Disks /\ c.data = disk[m].data
  <2>1. disk[n] \in Disks /\ disk[m].uuid \in {0, 1} /\ disk[m].data \subseteq 1..MaxTxns
    BY <1>1, NodeTypes
  <2> QED BY <2>1 DEF Disks
<1>3. InUse(c) \in Disks /\ InUse(c).data = disk[m].data
  BY <1>2, InUseIs
<1>4. disk' = [disk EXCEPT ![n] = InUse(c)] /\ UNCHANGED <<worker, logging>>
  BY DEF Join, incident
<1> HIDE DEF c
<1>5. disk' \in [Nodes -> Disks] /\ disk'[n].data = disk[m].data /\ \A k \in Nodes : k # n => disk'[k] = disk[k]
  BY <1>1, <1>3, <1>4, TypesAre
<1>6. Keeps
  BY <1>1, <1>5 DEF Keeps
<1>7. PICK W, R : W = proc[m].view /\ R = Reached(W) \cup {n}
  OBVIOUS
<1>8. W \subseteq Nodes /\ W \cup {n} \subseteq Nodes
  BY <1>1, <1>7, NodeTypes
<1>9. proc' = Install(R, W \cup {n}) \/ proc' = Install({n}, W)
  BY <1>7 DEF Join
<1>10. proc' \in [Nodes -> Procs] /\ \A k \in Nodes : proc'[k].run = proc[k].run /\ proc'[k].hurt = proc[k].hurt
  BY <1>1, <1>8, <1>9, InstallIs
<1> QED BY <1>4, <1>5, <1>6, <1>10, SameRun

(* A node that is stopped takes its leave from its view. *)
LEMMA LeaveGentle ==
    ASSUME ClusterInv, NEW n \in Nodes, Running(n), Leave(n)
    PROVE  Gentle /\ Keeps
<1>1. TypeOK /\ n \in NODES /\ ~ proc[n].hurt /\ NODES \subseteq Nodes
  BY RunningInside, NodeFacts DEF ClusterInv, RecordFits, Running, Stopped
<1>2. PICK V, S : V = proc[n].view /\ S = (IF Primary(V) THEN Reached(V) \ {n} ELSE {})
  OBVIOUS
<1>3. V \subseteq Nodes /\ V \ {n} \subseteq Nodes
  BY <1>1, <1>2, NodeTypes
<1>4. PICK f, e : f = Install(S, V \ {n}) /\ e = [Off EXCEPT !.hurt = proc[n].hurt]
  OBVIOUS
<1>5. f \in [Nodes -> Procs] /\ \A m \in Nodes : f[m].run = proc[m].run /\ f[m].hurt = proc[m].hurt
  BY <1>1, <1>3, <1>4, InstallIs
<1>6. e \in Procs /\ e.run = "stopped" /\ ~ e.hurt
  BY <1>1, <1>4, NodeTypes, OffIs
<1>7. proc' = [f EXCEPT ![n] = e]
  BY <1>2, <1>4 DEF Leave
<1>8. /\ proc' \in [Nodes -> Procs] /\ proc'[n] = e
      /\ \A m \in Nodes : m # n => proc'[m].run = proc[m].run /\ proc'[m].hurt = proc[m].hurt
  BY <1>5, <1>6, <1>7
<1>9. PICK q, b : q = Cardinality(disk[n].data) /\ b = (V = {n})
  OBVIOUS
<1>10. q \in -1..MaxTxns /\ b \in BOOLEAN
  <2>1. q \in 0..MaxTxns
    BY <1>1, <1>9, NodeTypes, TxnCount
  <2> QED BY <1>9, <2>1, GaleraAssumption
<1>11. disk' \in [Nodes -> Disks] /\ \A m \in Nodes : disk'[m].data = disk[m].data
  <2>1. disk' = disk \/ disk' = [disk EXCEPT ![n].seqno = q, ![n].safe = b]
    BY <1>2, <1>9 DEF Leave
  <2>2. disk \in [Nodes -> Disks]
    BY <1>1, TypesAre
  <2>3. ASSUME disk' = [disk EXCEPT ![n].seqno = q, ![n].safe = b]
        PROVE  disk' \in [Nodes -> Disks] /\ \A m \in Nodes : disk'[m].data = disk[m].data
    <3>1. PICK d : d = [disk[n] EXCEPT !.seqno = q, !.safe = b]
      OBVIOUS
    <3>2. d \in Disks /\ d.data = disk[n].data
      BY <1>10, <2>2, <3>1 DEF Disks
    <3>3. disk' = [disk EXCEPT ![n] = d]
      BY <2>3, <3>1
    <3> QED BY <2>2, <3>2, <3>3
  <2> QED BY <2>1, <2>2, <2>3
<1>12. Keeps
  BY <1>1, <1>11, SameData
<1>13. worker' \in {worker, None} /\ logging' \in {logging, FALSE}
  BY <1>1, Gone DEF Leave
<1>14. \A m \in Nodes : proc'[m].hurt => proc[m].hurt /\ proc'[m].run # "running"
  BY <1>6, <1>8 DEF ClusterInv, RecordFits, Running
<1>15. \A m \in Nodes \ NODES : proc'[m].run = "stopped"
  BY <1>1, <1>8 DEF ClusterInv, Outside, Stopped
<1> QED BY <1>8, <1>11, <1>12, <1>13, <1>14, <1>15 DEF Gentle

LEMMA StopNextGentle ==
    ASSUME ClusterInv, NEW n \in Nodes, ~ Stopped(n), StopNext(n)
    PROVE  Gentle /\ Keeps
  BY LeaveGentle, UnpauseGentle DEF StopNext

(* A step of the cluster leaves the record as good as it was. *)
LEMMA GentleCluster ==
    ASSUME ClusterInv, Gentle, UNCHANGED <<journal, report>>,
           count' = count, acked' \subseteq 1..MaxTxns
    PROVE  ClusterInv'
<1>1. TypeOK
  BY DEF ClusterInv
<1>2. TypeOK'
  <2>1. /\ disk' \in [Nodes -> Disks] /\ proc' \in [Nodes -> Procs]
        /\ worker' \in {None, "begun", "logging", "done"} /\ logging' \in BOOLEAN
    BY <1>1, TypesAre DEF Gentle
  <2> QED BY <1>1, <2>1 DEF TypeOK, Disks, Procs
<1>3. NODES' = NODES
  BY DEF NODES
<1>4. Outside'
  BY <1>3 DEF Gentle, Outside, Stopped
<1>5. RecordFits'
  <2>1. \A n \in Nodes : proc'[n].hurt => n \in journal'.nodes /\ proc'[n].run # "running"
    BY DEF ClusterInv, RecordFits, Gentle
  <2>2. worker' \in {"begun", "logging"} => journal'.worker /\ journal'.logging
    BY DEF ClusterInv, RecordFits, Gentle, None
  <2>3. logging' => journal'.logging
    BY DEF ClusterInv, RecordFits, Gentle
  <2>4. journal'.nodes # {} \/ journal'.logging \/ journal'.worker => journal'.open
    BY DEF ClusterInv, RecordFits
  <2> QED BY <2>1, <2>2, <2>3, <2>4 DEF RecordFits, Running
<1> QED BY <1>2, <1>4, <1>5 DEF ClusterInv

LEMMA StillGentle ==
    ASSUME ClusterInv, UNCHANGED <<disk, proc, worker, logging>>
    PROVE  Gentle /\ Keeps
<1>1. TypeOK
  BY DEF ClusterInv
<1>2. Keeps
  BY SameData
<1>3. proc' \in [Nodes -> Procs] /\ disk' \in [Nodes -> Disks]
  BY <1>1, TypesAre
<1> QED BY <1>2, <1>3, SameRun

-----------------------------------------------------------------------------
(* Where a command is says which kind of command it is. *)

LEMMA AtLife ==
    ASSUME CommandFits, cmd.at \in LifeAts
    PROVE  LivesAt
  BY DEF CommandFits, LivesAt, PlaysAt, EndsAt, ReconcilesAt, RepairsAt, LifeAts, ScenarioAts, SlowAts, RepairAts, Idle, None

LEMMA AtPlay ==
    ASSUME CommandFits, cmd.at \in ScenarioAts
    PROVE  PlaysAt
  BY DEF CommandFits, LivesAt, PlaysAt, EndsAt, ReconcilesAt, RepairsAt, LifeAts, ScenarioAts, SlowAts, RepairAts, Idle, None

LEMMA AtRepair ==
    ASSUME CommandFits, cmd.at \in RepairAts
    PROVE  EndsAt \/ RepairsAt
  BY DEF CommandFits, LivesAt, PlaysAt, EndsAt, ReconcilesAt, RepairsAt, LifeAts, ScenarioAts, SlowAts, RepairAts, Idle, None

LEMMA AtAfter ==
    ASSUME CommandFits, cmd.at = "after"
    PROVE  ReconcilesAt
  BY DEF CommandFits, LivesAt, PlaysAt, EndsAt, ReconcilesAt, RepairsAt, LifeAts, ScenarioAts, SlowAts, RepairAts, Idle, None

LEMMA SameNodes == ASSUME count' = count PROVE NODES' = NODES
  BY DEF NODES

(* A command that waits while the cluster goes on. *)
LEMMA WaitingCommand ==
    ASSUME CommandInv, Keeps, UNCHANGED <<cmd, count, journal>>
    PROVE  CommandInv'
<1>1. NODES' = NODES
  BY SameNodes
<1>2. CommandFits' /\ StepFits'
  BY <1>1 DEF CommandInv, CommandFits, StepFits, LivesAt, PlaysAt, EndsAt, ReconcilesAt, RepairsAt
<1>3. PassFits'
  BY <1>1 DEF CommandInv, PassFits, Keeps
<1> QED BY <1>2, <1>3 DEF CommandInv

LEMMA IdleFits == ASSUME cmd' = Idle PROVE CommandInv'
<1>1. cmd'.at = None /\ cmd'.status = None /\ cmd'.err = FALSE /\ cmd'.op = None
  BY DEF Idle
<1>2. CommandFits'
  BY <1>1 DEF CommandFits, Idle, NodeAts, SlowAts, None
<1>3. StepFits' /\ PassFits'
  BY <1>1 DEF StepFits, PassFits, ScenarioAts, SlowAts, RepairAts, None
<1> QED BY <1>2, <1>3 DEF CommandInv

(* A command of the life cycle at step a, with node n and nodes t to remove. *)
LEMMA LifeFits ==
    ASSUME NEW op \in LifeOps, NEW a \in LifeAts, NEW n, NEW t, NEW i, NEW s, NEW e \in BOOLEAN,
           cmd' = [op |-> op, at |-> a, node |-> n, todo |-> t, ids |-> i, seen |-> s, status |-> None, err |-> e],
           a \in NodeAts => n \in NODES',
           a = "scale" => \E k \in 1..count' : t = {Order[j] : j \in (k + 1)..count'}
    PROVE  CommandInv'
<1>1. cmd'.op = op /\ cmd'.at = a /\ cmd'.node = n /\ cmd'.todo = t /\ cmd'.ids = i /\ cmd'.seen = s
      /\ cmd'.status = None /\ cmd'.err = e
  OBVIOUS
<1>2. a \notin ScenarioAts \cup RepairAts \cup SlowAts \cup {"after"}
  BY DEF LifeAts, ScenarioAts, SlowAts, RepairAts
<1>3. LivesAt'
  BY <1>1 DEF LivesAt
<1>4. CommandFits'
  BY <1>1, <1>2, <1>3 DEF CommandFits
<1>5. StepFits' /\ PassFits'
  BY <1>1, <1>2 DEF StepFits, PassFits, None, ScenarioAts, RepairAts, SlowAts
<1> QED BY <1>4, <1>5 DEF CommandInv

(* A command of the life cycle begins. *)
LEMMA NewLife ==
    ASSUME NEW op \in LifeOps, NEW a \in LifeAts \ {"scale"}, NEW n,
           cmd' = [Command(op, a) EXCEPT !.node = n] \/ (cmd' = Command(op, a) /\ n = None),
           a \in NodeAts => n \in NODES'
    PROVE  CommandInv'
<1>1. cmd' = [op |-> op, at |-> a, node |-> n, todo |-> {}, ids |-> {}, seen |-> {}, status |-> None, err |-> FALSE]
  BY DEF Command, Idle
<1> QED BY <1>1, LifeFits

(* It goes on to another step. *)
LEMMA NextLife ==
    ASSUME CommandFits, cmd.at \in LifeAts, NEW a \in LifeAts \ {"scale"}, NEW n,
           cmd' = [cmd EXCEPT !.at = a, !.node = n] \/ (Goto(a) /\ n = cmd.node),
           a \in NodeAts => n \in NODES'
    PROVE  CommandInv'
<1>1. LivesAt
  BY AtLife
<1>2. PICK op, i, s, t, e : op = cmd.op /\ i = cmd.ids /\ s = cmd.seen /\ t = cmd.todo /\ e = cmd.err
  OBVIOUS
<1>3. cmd' = [op |-> op, at |-> a, node |-> n, todo |-> t, ids |-> i, seen |-> s, status |-> None, err |-> e]
  BY <1>1, <1>2 DEF CommandFits, LivesAt, Goto
<1>4. op \in LifeOps /\ e \in BOOLEAN
  BY <1>1, <1>2 DEF CommandFits, LivesAt
<1> QED BY <1>3, <1>4, LifeFits

-----------------------------------------------------------------------------
(* The cluster, and the commands of the life cycle. *)

LEMMA GentleStep ==
    ASSUME GaleraInv, Gentle, UNCHANGED <<journal, report, count>>, acked' \subseteq 1..MaxTxns,
           CommandInv' \/ (cmd' = cmd /\ Keeps) \/ cmd' = Idle
    PROVE  GaleraInv'
<1>1. ClusterInv'
  BY GentleCluster DEF GaleraInv
<1>2. CommandInv'
  BY WaitingCommand, IdleFits DEF GaleraInv
<1> QED BY <1>1, <1>2 DEF GaleraInv

LEMMA AckedIn ==
    ASSUME GaleraInv, acked' = acked
    PROVE  acked' \subseteq 1..MaxTxns
  BY DEF GaleraInv, ClusterInv, TypeOK

LEMMA StillStep ==
    ASSUME GaleraInv, UNCHANGED <<disk, proc, worker, logging, journal, report, count, acked>>,
           CommandInv' \/ cmd' = cmd \/ cmd' = Idle
    PROVE  GaleraInv'
<1>1. Gentle /\ Keeps
  BY StillGentle DEF GaleraInv
<1> QED BY <1>1, AckedIn, GentleStep

LEMMA GaleraStepKeeps == GaleraInv /\ GaleraStep => GaleraInv'
<1> SUFFICES ASSUME GaleraInv, GaleraStep
             PROVE  GaleraInv'
  OBVIOUS
<1>1. ClusterInv /\ TypeOK
  BY DEF GaleraInv, ClusterInv
<1>2. PICK n \in Nodes : Evict(n) \/ InitDone(n) \/ Bootstrap(n) \/ Client(n) \/ Crash(n) \/ \E m \in Nodes : Join(n, m)
  BY DEF GaleraStep
<1>3. cmd' = cmd /\ journal' = journal /\ report' = report /\ count' = count
  BY <1>2 DEF Evict, InitDone, Bootstrap, Client, Crash, Join, incident
<1>4. Gentle /\ Keeps
  <2>1. CASE Client(n)
    BY <1>1, <2>1, CommitGentle DEF Client, incident
  <2>2. CASE Crash(n)
    BY <1>1, <2>2, KillGentle, NodeTypes DEF Crash
  <2> QED BY <1>1, <1>2, <2>1, <2>2, EvictGentle, InitDoneGentle, BootstrapGentle, JoinGentle
<1>5. acked' \subseteq 1..MaxTxns
  <2>1. CASE Client(n)
    <3>1. NewTxn \in 1..MaxTxns /\ acked \subseteq 1..MaxTxns
      BY <1>1, <2>1, CommitAdds, TypesAre DEF Client
    <3> QED BY <2>1, <3>1 DEF Client
  <2>2. CASE ~ Client(n)
    BY <1>2, <2>2, AckedIn DEF Evict, InitDone, Bootstrap, Crash, Join
  <2> QED BY <2>1, <2>2
<1> QED BY <1>3, <1>4, <1>5, GentleStep

LEMMA InvFacts ==
    ASSUME GaleraInv
    PROVE  /\ ClusterInv /\ TypeOK /\ CommandInv /\ CommandFits /\ StepFits /\ PassFits /\ Outside /\ RecordFits
           /\ NODES \subseteq Nodes /\ Leader \in NODES
  BY NodeFacts DEF GaleraInv, ClusterInv, CommandInv

LEMMA FirstInside ==
    ASSUME TypeOK, NEW S, S \subseteq NODES, S # {}
    PROVE  First(S) \in S /\ Last(S) \in S /\ S \subseteq Nodes
<1>1. S \subseteq Nodes
  BY NodeFacts
<1> QED BY <1>1, FirstIn, LastIn

(* up goes on to the nodes that do not run yet. *)
LEMMA ToOthers ==
    ASSUME CommandFits, cmd.at \in LifeAts, Goto("others")
    PROVE  CommandInv'
<1>1. "others" \in LifeAts \ {"scale"} /\ "others" \notin NodeAts
  BY DEF LifeAts, NodeAts
<1> QED BY <1>1, NextLife

LEMMA UpSteps ==
    ASSUME GaleraInv, BeginUp \/ UpDecide \/ WaitAlone \/ WaitJoined
    PROVE  GaleraInv'
<1>1. UNCHANGED <<disk, proc, worker, logging, journal, report, count, acked>> /\ NODES' = NODES
  BY DEF BeginUp, Begin, UpDecide, WaitAlone, WaitJoined, NoEffect, incident, NODES
<1>2. CommandFits
  BY InvFacts
<1>3. CASE BeginUp
  <2>1. cmd' = Command("up", "up")
    BY <1>3 DEF BeginUp, Begin
  <2>2. CommandInv'
    BY <2>1, NewLife DEF LifeOps, LifeAts, NodeAts
  <2> QED BY <1>1, <2>2, StillStep
<1>4. CASE UpDecide
  <2>1. cmd.at \in LifeAts
    BY <1>4 DEF UpDecide, LifeAts
  <2>2. CASE \E n \in NODES : cmd' = [cmd EXCEPT !.at = "authorize", !.node = n]
    <3>1. PICK n \in NODES : cmd' = [cmd EXCEPT !.at = "authorize", !.node = n]
      BY <2>2
    <3>2. CommandInv'
      BY <1>1, <1>2, <2>1, <3>1, NextLife DEF LifeAts
    <3> QED BY <1>1, <3>2, StillStep
  <2>3. CASE cmd' = Idle
    BY <1>1, <2>3, StillStep
  <2>4. CASE Goto("others")
    <3>1. CommandInv'
      BY <1>2, <2>1, <2>4, ToOthers
    <3> QED BY <1>1, <3>1, StillStep
  <2> QED BY <1>4, <2>2, <2>3, <2>4 DEF UpDecide, End
<1>5. CASE WaitAlone
  <2>1. CASE cmd' = Idle
    BY <1>1, <2>1, StillStep
  <2>2. CASE cmd' = Command("up", "up") \/ cmd' = Command("up", "others")
    <3>1. CommandInv'
      BY <2>2, NewLife DEF LifeOps, LifeAts, NodeAts
    <3> QED BY <1>1, <3>1, StillStep
  <2> QED BY <1>5, <2>1, <2>2 DEF WaitAlone, End
<1>6. CASE WaitJoined
  <2>1. cmd.at \in LifeAts
    BY <1>6 DEF WaitJoined, LifeAts
  <2>2. CASE Goto("others")
    <3>1. CommandInv'
      BY <1>2, <2>1, <2>2, ToOthers
    <3> QED BY <1>1, <3>1, StillStep
  <2> QED BY <1>1, <1>6, <2>2, StillStep DEF WaitJoined, End
<1> QED BY <1>3, <1>4, <1>5, <1>6

LEMMA RecoverKeeps ==
    ASSUME GaleraInv, NEW n \in NODES, BeginRecover(n)
    PROVE  GaleraInv'
<1>1. UNCHANGED <<disk, proc, worker, logging, journal, report, count, acked>> /\ NODES' = NODES
  BY DEF BeginRecover, Begin, incident, NODES
<1>2. cmd' = [Command("recover", "authorize") EXCEPT !.node = n]
  BY DEF BeginRecover, Begin
<1>3. CommandInv'
  BY <1>1, <1>2, NewLife DEF LifeOps, LifeAts
<1> QED BY <1>1, <1>3, StillStep

LEMMA AuthorizeKeeps ==
    ASSUME GaleraInv, Authorize
    PROVE  GaleraInv'
<1>1. ClusterInv /\ TypeOK /\ CommandFits /\ NODES \subseteq Nodes
  BY InvFacts
<1>2. cmd.at = "authorize" /\ Goto("launch") /\ disk' = Authorized(cmd.node, cmd.op)
      /\ UNCHANGED <<proc, worker, logging, count, acked, journal, report>>
  BY DEF Authorize, Quiet
<1>3. cmd.node \in NODES /\ cmd.node \in Nodes
  BY <1>1, <1>2 DEF CommandFits, NodeAts
<1>4. PICK n, q, d : n = cmd.node /\ q = Position(n)
                     /\ d = IF cmd.op = "recover" THEN [disk[n] EXCEPT !.token = TRUE, !.safe = TRUE, !.seqno = q]
                             ELSE [disk[n] EXCEPT !.token = TRUE]
  OBVIOUS
<1>5. q \in -1..MaxTxns
  <2>1. q \in 0..MaxTxns
    BY <1>1, <1>3, <1>4, NodeTypes, TxnCount DEF Position
  <2> QED BY <2>1, GaleraAssumption
<1>6. d \in Disks /\ d.data = disk[n].data /\ proc[n] \in Procs
  BY <1>1, <1>3, <1>4, <1>5, NodeTypes DEF Disks
<1>7. Put(n, d, proc[n])
  <2>1. proc = [proc EXCEPT ![n] = proc[n]]
    BY <1>1, TypesAre
  <2>2. disk' = [disk EXCEPT ![n] = d]
    BY <1>2, <1>4 DEF Authorized
  <2> QED BY <1>2, <2>1, <2>2 DEF Put
<1>8. proc[n].hurt => proc[n].run # "running"
  BY <1>1, <1>3, <1>4 DEF ClusterInv, RecordFits, Running
<1>9. Gentle
  BY <1>1, <1>2, <1>3, <1>4, <1>6, <1>7, <1>8, PutGently
<1>10. CommandInv'
  <2>1. NODES' = NODES
    BY <1>2, SameNodes
  <2>2. cmd.at \in LifeAts /\ "launch" \in LifeAts \ {"scale"}
    BY <1>2 DEF LifeAts
  <2> QED BY <1>1, <1>2, <1>3, <2>1, <2>2, NextLife
<1> QED BY <1>2, <1>9, <1>10, AckedIn, GentleStep

LEMMA LaunchSteps ==
    ASSUME GaleraInv, Launch \/ Restart
    PROVE  GaleraInv'
<1>1. ClusterInv /\ TypeOK /\ CommandFits
  BY InvFacts
<1>2. /\ cmd.at \in {"launch", "restart"} /\ StartNode(cmd.node) /\ (Goto("alone") \/ cmd' = Idle)
      /\ UNCHANGED <<count, acked, journal, report>>
  BY DEF Launch, Restart, Quiet, End
<1>3. cmd.node \in NODES /\ NODES' = NODES
  BY <1>1, <1>2, SameNodes DEF CommandFits, NodeAts
<1>4. Gentle
  BY <1>1, <1>2, <1>3, StartGentle
<1>5. CommandInv'
  <2>1. cmd.at \in LifeAts /\ "alone" \in LifeAts \ {"scale"}
    BY <1>2 DEF LifeAts
  <2> QED BY <1>1, <1>2, <1>3, <2>1, NextLife, IdleFits
<1> QED BY <1>2, <1>4, <1>5, AckedIn, GentleStep

LEMMA UpOthersKeeps ==
    ASSUME GaleraInv, UpOthers
    PROVE  GaleraInv'
<1>1. ClusterInv /\ TypeOK /\ CommandFits
  BY InvFacts
<1>2. PICK idle, n : idle = {m \in NODES : ~ Running(m)} /\ n = First(idle)
  OBVIOUS
<1>3. cmd.at = "others"
      /\ \/ cmd' = Idle /\ NoEffect
         \/ idle # {} /\ StartNode(n) /\ cmd' = [cmd EXCEPT !.at = "joined", !.node = n] /\ Quiet
  BY <1>2 DEF UpOthers, End
<1>4. CASE cmd' = Idle /\ NoEffect
  BY <1>4, StillStep DEF NoEffect, incident
<1>5. CASE idle # {} /\ StartNode(n) /\ cmd' = [cmd EXCEPT !.at = "joined", !.node = n] /\ Quiet
  <2>1. n \in NODES
    <3>1. idle \subseteq NODES
      BY <1>2
    <3> QED BY <1>1, <1>2, <1>5, <3>1, FirstInside
  <2>2. UNCHANGED <<count, acked, journal, report>> /\ NODES' = NODES
    BY <1>5, SameNodes DEF Quiet
  <2>3. Gentle
    BY <1>1, <1>5, <2>1, StartGentle
  <2>4. cmd.at \in LifeAts /\ "joined" \in LifeAts \ {"scale"}
    BY <1>3 DEF LifeAts
  <2>5. CommandInv'
    BY <1>1, <1>5, <2>1, <2>2, <2>4, NextLife
  <2> QED BY <2>2, <2>3, <2>5, AckedIn, GentleStep
<1> QED BY <1>3, <1>4, <1>5

(* down, reset, scale and rebuild. *)
LEMMA BeginsKeep ==
    ASSUME GaleraInv,
           \/ \E op \in {"down", "reset"} : BeginDown(op)
           \/ \E k \in 1..Len(Order) : BeginScale(k)
           \/ \E n \in NODES : BeginRebuild(n)
    PROVE  GaleraInv'
<1>1. UNCHANGED <<disk, proc, worker, logging, journal, report, count, acked>> /\ NODES' = NODES
  BY DEF BeginDown, BeginScale, BeginRebuild, Begin, incident, NODES
<1>2. CASE \E op \in {"down", "reset"} : BeginDown(op)
  <2>1. PICK op \in {"down", "reset"} : cmd' = Command(op, "down")
    BY <1>2 DEF BeginDown, Begin
  <2>2. CommandInv'
    <3>1. op \in LifeOps /\ "down" \in LifeAts \ {"scale"} /\ "down" \notin NodeAts
      BY DEF LifeOps, LifeAts, NodeAts
    <3> QED BY <2>1, <3>1, NewLife
  <2> QED BY <1>1, <2>2, StillStep
<1>3. CASE \E n \in NODES : BeginRebuild(n)
  <2>1. PICK n \in NODES : cmd' = [Command("rebuild", "rebuild") EXCEPT !.node = n]
    BY <1>3 DEF BeginRebuild, Begin
  <2>2. CommandInv'
    <3>1. "rebuild" \in LifeOps /\ "rebuild" \in LifeAts \ {"scale"}
      BY DEF LifeOps, LifeAts
    <3> QED BY <1>1, <2>1, <3>1, NewLife
  <2> QED BY <1>1, <2>2, StillStep
<1>4. CASE \E k \in 1..Len(Order) : BeginScale(k)
  <2>1. PICK k \in 1..Len(Order) : BeginScale(k)
    BY <1>4
  <2>2. PICK t : t = {Order[i] : i \in (k + 1)..count}
    OBVIOUS
  <2>3. cmd' = [op |-> "scale", at |-> "scale", node |-> None, todo |-> t, ids |-> {}, seen |-> {}, status |-> None, err |-> FALSE]
    BY <2>1, <2>2 DEF BeginScale, Begin, Command, Idle
  <2>4. k \in 1..count
    <3>1. MinNodes \in Nat \ {0} /\ count \in Nat
      BY GaleraAssumption, InvFacts, TypesAre
    <3> QED BY <2>1, <3>1 DEF BeginScale
  <2>5. "scale" \in LifeOps /\ "scale" \in LifeAts /\ "scale" \notin NodeAts
    BY DEF LifeOps, LifeAts, NodeAts
  <2>6. \E j \in 1..count' : t = {Order[i] : i \in (j + 1)..count'}
    BY <1>1, <2>2, <2>4
  <2>7. CommandInv'
    BY <2>3, <2>5, <2>6, LifeFits
  <2> QED BY <1>1, <2>7, StillStep
<1> QED BY <1>2, <1>3, <1>4

LEMMA StopStep ==
    ASSUME GaleraInv, NEW n \in Nodes, ~ Stopped(n), StopNext(n), UNCHANGED cmd, Quiet
    PROVE  GaleraInv'
<1>1. Gentle /\ Keeps
  BY InvFacts, StopNextGentle
<1>2. UNCHANGED <<journal, report, count, acked>>
  BY DEF Quiet
<1> QED BY <1>1, <1>2, AckedIn, GentleStep

LEMMA DownKeeps ==
    ASSUME GaleraInv, Down
    PROVE  GaleraInv'
<1>1. ClusterInv /\ TypeOK
  BY InvFacts
<1>2. CASE Up # {} /\ StopNext(Last(Up)) /\ UNCHANGED cmd /\ Quiet
  <2>1. Last(Up) \in Up /\ Up \subseteq Nodes
    <3>1. Up \subseteq NODES
      BY DEF Up
    <3> QED BY <1>1, <1>2, <3>1, FirstInside
  <2>2. Last(Up) \in Nodes /\ ~ Stopped(Last(Up))
    BY <2>1 DEF Up
  <2> QED BY <1>2, <2>2, StopStep
<1>3. CASE End /\ NoEffect
  BY <1>3, StillStep DEF NoEffect, End, incident
<1>4. CASE /\ End /\ disk' = [n \in Nodes |-> Empty] /\ proc' = [n \in Nodes |-> Off] /\ acked' = {}
           /\ worker' = None /\ logging' = FALSE /\ UNCHANGED <<count, journal, report, used, spent>>
  <2>1. Empty \in Disks /\ Off \in Procs /\ Off.run = "stopped" /\ ~ Off.hurt
    <3>1. -1 \in -1..MaxTxns
      BY GaleraAssumption
    <3> QED BY <3>1 DEF Empty, Disks, Off, Procs
  <2>2. Gentle
    BY <1>4, <2>1 DEF Gentle
  <2> QED BY <1>4, <2>2, GentleStep DEF End
<1> QED BY <1>2, <1>3, <1>4 DEF Down

LEMMA ScaleUpKeeps ==
    ASSUME GaleraInv, NEW k \in 1..Len(Order), ScaleUp(k)
    PROVE  GaleraInv'
<1>1. k \in (count + 1)..Len(Order) /\ count' = k /\ cmd' = Idle
      /\ UNCHANGED <<disk, proc, acked, journal, worker, logging, report>>
  BY DEF ScaleUp, Free, incident
<1>2. TypeOK /\ Outside /\ RecordFits
  BY InvFacts
<1>3. TypeOK' /\ RecordFits'
  BY <1>1, <1>2 DEF TypeOK, RecordFits, Running
<1>4. Outside'
  <2>1. count \in Nat /\ k \in Nat /\ count < k
    BY <1>1, <1>2, TypesAre
  <2>2. NODES \subseteq NODES'
    BY <1>1, <2>1 DEF NODES
  <2> QED BY <1>1, <1>2, <2>2 DEF Outside, Stopped
<1> QED BY <1>1, <1>3, <1>4, IdleFits DEF GaleraInv, ClusterInv

LEMMA ScaleKeeps ==
    ASSUME GaleraInv, Scale
    PROVE  GaleraInv'
<1>1. TypeOK /\ Outside /\ RecordFits /\ CommandFits /\ NODES \subseteq Nodes /\ count \in 1..Len(Order) /\ Len(Order) \in Nat
  BY InvFacts, NodeFacts
<1>2. cmd.at = "scale"
  BY DEF Scale
<1>3. PICK k \in 1..count : cmd.todo = {Order[i] : i \in (k + 1)..count}
  BY <1>1, <1>2 DEF CommandFits
<1>4. PICK on : on = {n \in cmd.todo : ~ Stopped(n)}
  OBVIOUS
<1>5. CASE on # {}
  <2>1. StopNext(Last(on)) /\ UNCHANGED cmd /\ Quiet
    BY <1>4, <1>5 DEF Scale
  <2>2. on \subseteq NODES
    BY <1>1, <1>3, <1>4 DEF NODES
  <2>3. Last(on) \in on /\ on \subseteq Nodes
    BY <1>1, <1>5, <2>2, FirstInside
  <2> QED BY <1>4, <2>1, <2>3, StopStep
<1>6. CASE on = {}
  <2>1. /\ count' = count - Cardinality(cmd.todo) /\ cmd' = Idle
        /\ UNCHANGED <<disk, proc, acked, journal, worker, logging, report>>
    BY <1>4, <1>6 DEF Scale, End, incident
  <2>2. count' = k
    <3>1. Cardinality(cmd.todo) = count - k
      BY <1>1, <1>3, RestSize
    <3> QED BY <1>1, <2>1, <3>1
  <2>3. TypeOK' /\ RecordFits'
    BY <1>1, <2>1, <2>2 DEF TypeOK, RecordFits, Running
  <2>4. Outside'
    <3>1. ASSUME NEW n \in Nodes, n \notin NODES', n \in NODES
          PROVE  n \in cmd.todo
      BY <1>1, <1>3, <2>2, <3>1 DEF NODES
    <3>2. \A n \in cmd.todo : Stopped(n)
      BY <1>4, <1>6
    <3> QED BY <1>1, <2>1, <3>1, <3>2 DEF Outside, Stopped
  <2> QED BY <2>1, <2>3, <2>4, IdleFits DEF GaleraInv, ClusterInv
<1> QED BY <1>5, <1>6

LEMMA RebuildKeeps ==
    ASSUME GaleraInv, Rebuild
    PROVE  GaleraInv'
<1>1. ClusterInv /\ TypeOK /\ CommandFits /\ NODES \subseteq Nodes
  BY InvFacts
<1>2. cmd.at = "rebuild" /\ cmd.node \in NODES /\ cmd.node \in Nodes
  BY <1>1 DEF Rebuild, CommandFits, NodeAts
<1>3. CASE ~ Stopped(cmd.node) /\ StopNext(cmd.node) /\ UNCHANGED cmd /\ Quiet
  BY <1>2, <1>3, StopStep
<1>4. CASE End /\ NoEffect
  BY <1>4, StillStep DEF NoEffect, End, incident
<1>5. CASE /\ Stopped(cmd.node) /\ disk' = [disk EXCEPT ![cmd.node] = Empty] /\ Goto("restart")
           /\ UNCHANGED <<proc, worker, logging>> /\ Quiet
  <2>1. Empty \in Disks
    <3>1. -1 \in -1..MaxTxns
      BY GaleraAssumption
    <3> QED BY <3>1 DEF Empty, Disks
  <2>2. PICK n : n = cmd.node
    OBVIOUS
  <2>3. Put(n, Empty, proc[n]) /\ proc[n] \in Procs /\ ~ (proc[n].hurt /\ proc[n].run = "running")
    <3>1. proc = [proc EXCEPT ![n] = proc[n]] /\ proc[n] \in Procs
      BY <1>1, <1>2, <2>2, TypesAre
    <3> QED BY <1>1, <1>2, <1>5, <2>2, <3>1 DEF Put, ClusterInv, RecordFits, Running
  <2>4. Gentle
    BY <1>1, <1>2, <1>5, <2>1, <2>2, <2>3, PutGently
  <2>5. UNCHANGED <<journal, report, count, acked>> /\ NODES' = NODES
    BY <1>5, SameNodes DEF Quiet
  <2>6. cmd.at \in LifeAts /\ "restart" \in LifeAts \ {"scale"}
    BY <1>2 DEF LifeAts
  <2>7. CommandInv'
    BY <1>1, <1>2, <1>5, <2>5, <2>6, NextLife
  <2> QED BY <2>4, <2>5, <2>7, AckedIn, GentleStep
<1> QED BY <1>3, <1>4, <1>5 DEF Rebuild

(* stop, kill, pause, resume and start of one node; a command that ends where it is. *)
LEMMA VerbKeeps ==
    ASSUME GaleraInv, NEW n \in NODES, Verb(n)
    PROVE  GaleraInv'
<1>1. ClusterInv /\ TypeOK /\ n \in Nodes
  BY InvFacts
<1>2. UNCHANGED <<count, acked, cmd, journal, report>>
  BY DEF Verb
<1>3. Gentle /\ Keeps
  <2>1. CASE proc[n].run = "paused" /\ Unpause(n)
    BY <1>1, <2>1, UnpauseGentle DEF Stopped
  <2>2. CASE Running(n) /\ KillNode(n, FALSE)
    BY <1>1, <2>2, KillGentle
  <2> QED BY <1>1, <2>1, <2>2, LeaveGentle, PauseGentle, StartGentle DEF Verb
<1> QED BY <1>2, <1>3, AckedIn, GentleStep

LEMMA InterruptKeeps ==
    ASSUME GaleraInv, Interrupt
    PROVE  GaleraInv'
  BY StillStep DEF Interrupt, End, incident

LEMMA LifeCycleKeeps == GaleraInv /\ LifeCycle => GaleraInv'
  BY UpSteps, AuthorizeKeeps, LaunchSteps, UpOthersKeeps, BeginsKeep, DownKeeps, ScaleUpKeeps, ScaleKeeps,
     RecoverKeeps, VerbKeeps, RebuildKeeps, InterruptKeeps DEF LifeCycle

-----------------------------------------------------------------------------
(* A scenario and its recovery. *)

Becomes(a, i, s, st, e) ==
    cmd' = [op |-> cmd.op, at |-> a, node |-> cmd.node, todo |-> cmd.todo, ids |-> i, seen |-> s, status |-> st, err |-> e]

LEMMA MovesOn ==
    ASSUME CommandFits
    PROVE  /\ \A a : Goto(a) => Becomes(a, cmd.ids, cmd.seen, cmd.status, cmd.err)
           /\ \A st : cmd' = Settle(st) => Becomes("resume", cmd.ids, cmd.seen, st, FALSE)
           /\ \A st, i : cmd' = [Settle(st) EXCEPT !.ids = i] => Becomes("resume", i, cmd.seen, st, FALSE)
           /\ \A a, e : cmd' = [cmd EXCEPT !.at = a, !.err = e] => Becomes(a, cmd.ids, cmd.seen, cmd.status, e)
           /\ \A a, i : cmd' = [cmd EXCEPT !.at = a, !.ids = i] => Becomes(a, i, cmd.seen, cmd.status, cmd.err)
           /\ \A i, s : cmd' = [cmd EXCEPT !.ids = i, !.seen = s] => Becomes(cmd.at, i, s, cmd.status, cmd.err)
           /\ \A s : cmd' = [cmd EXCEPT !.seen = s] => Becomes(cmd.at, cmd.ids, s, cmd.status, cmd.err)
<1>1. PICK op, at, n, t, i0, s0, st0, e0 :
         /\ op = cmd.op /\ at = cmd.at /\ n = cmd.node /\ t = cmd.todo /\ i0 = cmd.ids /\ s0 = cmd.seen
         /\ st0 = cmd.status /\ e0 = cmd.err
  OBVIOUS
<1>2. cmd = [op |-> op, at |-> at, node |-> n, todo |-> t, ids |-> i0, seen |-> s0, status |-> st0, err |-> e0]
  BY <1>1 DEF CommandFits
<1> QED BY <1>1, <1>2 DEF Goto, Settle, Becomes

Ended == {"held", "passed", "failed", "interrupted"}

LEMMA BecomesFits ==
    ASSUME NEW a, NEW i, NEW s, NEW st, NEW e \in BOOLEAN, Becomes(a, i, s, st, e),
           \/ cmd.op \in Incidents /\ a \in ScenarioAts /\ st = None /\ (a \in SlowAts => cmd.op = "slow")
           \/ cmd.op \in Incidents /\ a \in RepairAts /\ st \in Ended
           \/ cmd.op \in Incidents /\ a = "after" /\ st = "held"
           \/ cmd.op = "repair" /\ a \in RepairAts /\ st = "repair"
    PROVE  /\ CommandFits'
           /\ cmd'.op = cmd.op /\ cmd'.at = a /\ cmd'.todo = cmd.todo /\ cmd'.ids = i /\ cmd'.seen = s
           /\ cmd'.status = st /\ cmd'.err = e
<1>1. /\ cmd'.op = cmd.op /\ cmd'.at = a /\ cmd'.todo = cmd.todo /\ cmd'.ids = i /\ cmd'.seen = s
      /\ cmd'.status = st /\ cmd'.err = e /\ cmd'.node = cmd.node
  BY DEF Becomes
<1>2. a \notin NodeAts /\ a # "scale" /\ (a \in SlowAts => a \in ScenarioAts /\ a \notin RepairAts /\ a # "after")
  BY DEF ScenarioAts, SlowAts, RepairAts, NodeAts
<1>3. PlaysAt' \/ EndsAt' \/ ReconcilesAt' \/ RepairsAt'
  BY <1>1 DEF PlaysAt, EndsAt, ReconcilesAt, RepairsAt, Ended
<1>4. cmd' = [op |-> cmd'.op, at |-> cmd'.at, node |-> cmd'.node, todo |-> cmd'.todo, ids |-> cmd'.ids,
              seen |-> cmd'.seen, status |-> cmd'.status, err |-> cmd'.err]
  BY <1>1 DEF Becomes
<1>5. cmd'.at \in SlowAts => cmd'.op = "slow"
  BY <1>1, <1>2
<1> QED BY <1>1, <1>2, <1>3, <1>4, <1>5 DEF CommandFits

(* The recovery begins with the verdict st. *)
LEMMA SettleFits ==
    ASSUME CommandFits, cmd.op \in Incidents, NEW st \in Ended, NEW i, NEW s, Becomes("resume", i, s, st, FALSE),
           journal'.nodes \subseteq NODES',
           st = "passed" /\ cmd.op \in Faults => Observed(cmd.op, s) /\ \A n \in NODES' : i \subseteq disk'[n].data
    PROVE  CommandInv'
<1>1. "resume" \in RepairAts /\ "resume" \notin ScenarioAts \cup SlowAts
  BY DEF RepairAts, ScenarioAts, SlowAts
<1>2. /\ CommandFits' /\ cmd'.op = cmd.op /\ cmd'.at = "resume" /\ cmd'.ids = i /\ cmd'.seen = s
      /\ cmd'.status = st /\ cmd'.err = FALSE
  BY <1>1, BecomesFits
<1>3. StepFits'
  BY <1>1, <1>2 DEF StepFits
<1>4. PassFits'
  BY <1>2 DEF PassFits
<1> QED BY <1>2, <1>3, <1>4 DEF CommandInv

(* A scenario goes on at step a. *)
LEMMA PlayFits ==
    ASSUME cmd.op \in Incidents, NEW a \in ScenarioAts, a \in SlowAts => cmd.op = "slow",
           NEW i, NEW s, NEW e \in BOOLEAN, Becomes(a, i, s, None, e),
           journal'.open /\ cmd.todo \subseteq NODES',
           a \in SlowAts \cup {"before", "note"} => journal'.nodes = {},
           a = "spawn" => journal'.logging,
           a \in {"disrupt", "during"} => journal'.nodes = cmd.todo
    PROVE  CommandInv'
<1>1. a \notin RepairAts \cup {"after", "logging", "wait", "unlink"}
  BY DEF RepairAts, ScenarioAts, SlowAts
<1>2. /\ CommandFits' /\ cmd'.at = a /\ cmd'.todo = cmd.todo /\ cmd'.status = None
  BY BecomesFits
<1>3. StepFits'
  BY <1>1, <1>2 DEF StepFits
<1>4. PassFits'
  BY <1>2 DEF PassFits, None
<1> QED BY <1>2, <1>3, <1>4 DEF CommandInv

(* A recovery goes on at step a. *)
LEMMA RepairFits ==
    ASSUME CommandInv, cmd.at \in RepairAts, NEW a \in RepairAts, NEW e \in BOOLEAN,
           Becomes(a, cmd.ids, cmd.seen, cmd.status, e), Keeps, count' = count,
           journal'.nodes \subseteq NODES,
           a = "logging" => ~ journal'.worker,
           a \in {"wait", "unlink"} /\ ~ e => ~ journal'.worker /\ ~ journal'.logging,
           a = "unlink" /\ ~ e => journal'.nodes = {}
    PROVE  CommandInv'
<1>1. a \notin ScenarioAts \cup SlowAts \cup {"after", "before", "note", "spawn", "disrupt", "during"}
  BY DEF RepairAts, ScenarioAts, SlowAts
<1>2. EndsAt \/ RepairsAt
  BY AtRepair DEF CommandInv
<1>3. /\ CommandFits' /\ cmd'.op = cmd.op /\ cmd'.at = a /\ cmd'.ids = cmd.ids /\ cmd'.seen = cmd.seen
      /\ cmd'.status = cmd.status /\ cmd'.err = e
  BY <1>2, BecomesFits DEF EndsAt, RepairsAt, Ended
<1>4. NODES' = NODES
  BY SameNodes
<1>5. StepFits'
  BY <1>1, <1>3, <1>4 DEF StepFits
<1>6. PassFits'
  BY <1>3, <1>4 DEF CommandInv, PassFits, Keeps
<1> QED BY <1>3, <1>5, <1>6 DEF CommandInv

(* The nodes do what they please while the record changes. *)
LEMMA NewRecord ==
    ASSUME ClusterInv, Gentle, count' = count, acked' \subseteq 1..MaxTxns, RecordFits',
           journal' \in [open : BOOLEAN, nodes : SUBSET Nodes, logging : BOOLEAN, worker : BOOLEAN],
           report' \in {None, "running", "passed", "failed", "interrupted", "recovery-needed"},
           worker' \in {None, "begun", "logging", "done"}, logging' \in BOOLEAN
    PROVE  ClusterInv'
<1>1. TypeOK /\ NODES' = NODES
  BY SameNodes DEF ClusterInv
<1>2. TypeOK'
  <2>1. disk' \in [Nodes -> Disks] /\ proc' \in [Nodes -> Procs] /\ count' \in 1..Len(Order)
    BY <1>1, TypesAre DEF Gentle
  <2> QED BY <2>1 DEF TypeOK, Disks, Procs
<1>3. Outside'
  BY <1>1 DEF Gentle, Outside, Stopped
<1> QED BY <1>2, <1>3 DEF ClusterInv

LEMMA RecordStep ==
    ASSUME ClusterInv, UNCHANGED <<disk, proc, count, acked>>, RecordFits',
           journal' \in [open : BOOLEAN, nodes : SUBSET Nodes, logging : BOOLEAN, worker : BOOLEAN],
           report' \in {None, "running", "passed", "failed", "interrupted", "recovery-needed"},
           worker' \in {None, "begun", "logging", "done"}, logging' \in BOOLEAN
    PROVE  ClusterInv'
  BY DEF ClusterInv, TypeOK, Outside, NODES, Stopped

LEMMA RecordTypes ==
    ASSUME TypeOK
    PROVE  /\ journal \in [open : BOOLEAN, nodes : SUBSET Nodes, logging : BOOLEAN, worker : BOOLEAN]
           /\ report \in {None, "running", "passed", "failed", "interrupted", "recovery-needed"}
           /\ worker \in {None, "begun", "logging", "done"} /\ logging \in BOOLEAN
           /\ journal.nodes \subseteq Nodes /\ journal.open \in BOOLEAN
           /\ journal.logging \in BOOLEAN /\ journal.worker \in BOOLEAN
  BY DEF TypeOK

LEMMA FreshRecord ==
    /\ NewJournal \in [open : BOOLEAN, nodes : SUBSET Nodes, logging : BOOLEAN, worker : BOOLEAN]
    /\ NewJournal.open /\ NewJournal.nodes = {} /\ ~ NewJournal.logging /\ ~ NewJournal.worker
    /\ NoJournal \in [open : BOOLEAN, nodes : SUBSET Nodes, logging : BOOLEAN, worker : BOOLEAN]
    /\ ~ NoJournal.open /\ NoJournal.nodes = {} /\ ~ NoJournal.logging /\ ~ NoJournal.worker
  BY DEF NewJournal, NoJournal

(* Without a record, or with an empty one, nothing is changed. *)
LEMMA NothingChanged ==
    ASSUME RecordFits, ~ journal.open \/ (journal.nodes = {} /\ ~ journal.logging /\ ~ journal.worker)
    PROVE  (\A n \in Nodes : ~ proc[n].hurt) /\ worker \notin {"begun", "logging"} /\ ~ logging
  BY DEF RecordFits

LEMMA BeginScenarioKeeps ==
    ASSUME GaleraInv, NEW op \in Incidents, NEW n \in NODES, BeginScenario(op, n)
    PROVE  GaleraInv'
<1>1. ClusterInv /\ TypeOK /\ RecordFits /\ NODES' = NODES
  BY InvFacts, SameNodes DEF BeginScenario
<1>2. ~ journal.open /\ journal' = NewJournal /\ report' = "running"
      /\ UNCHANGED <<disk, proc, count, acked, worker, logging>>
  BY DEF BeginScenario
<1>3. RecordFits'
  BY <1>1, <1>2, NothingChanged, FreshRecord DEF RecordFits
<1>4. ClusterInv'
  BY <1>1, <1>2, <1>3, FreshRecord, RecordTypes, RecordStep
<1>5. PICK a, t : a = (IF op = "slow" THEN "remember" ELSE "before") /\ t = Affected(op, n)
  OBVIOUS
<1>6. cmd' = [op |-> op, at |-> a, node |-> None, todo |-> t, ids |-> {}, seen |-> {}, status |-> None, err |-> FALSE]
  BY <1>5 DEF BeginScenario, Command, Idle
<1>7. t \subseteq NODES
  BY <1>5 DEF Affected, BeginScenario
<1>8. /\ a \in ScenarioAts /\ a \notin RepairAts \cup NodeAts \cup {"scale", "after", "spawn", "disrupt", "during", "logging", "wait", "unlink"}
      /\ (a \in SlowAts => op = "slow")
  BY <1>5 DEF ScenarioAts, SlowAts, RepairAts, NodeAts
<1>9. cmd'.op = op /\ cmd'.at = a /\ cmd'.todo = t /\ cmd'.status = None /\ cmd'.err = FALSE /\ PlaysAt'
  BY <1>6, <1>8 DEF PlaysAt
<1>10. CommandFits'
  BY <1>6, <1>8, <1>9 DEF CommandFits
<1>11. StepFits' /\ PassFits'
  BY <1>1, <1>2, <1>7, <1>8, <1>9, FreshRecord DEF StepFits, PassFits, None
<1> QED BY <1>4, <1>10, <1>11 DEF GaleraInv, CommandInv

LEMMA PlayFacts ==
    ASSUME GaleraInv, cmd.at \in ScenarioAts
    PROVE  /\ cmd.op \in Incidents /\ cmd.status = None /\ cmd.err \in BOOLEAN
           /\ journal.open /\ cmd.todo \subseteq NODES /\ journal.nodes \subseteq NODES
<1>1. CommandFits /\ StepFits
  BY InvFacts
<1>2. PlaysAt
  BY <1>1, AtPlay
<1> QED BY <1>1, <1>2 DEF PlaysAt, StepFits, CommandFits, ScenarioAts

LEMMA RememberKeeps ==
    ASSUME GaleraInv, Remember
    PROVE  GaleraInv'
<1>1. ClusterInv /\ TypeOK /\ RecordFits /\ CommandFits /\ StepFits /\ NODES' = NODES
  BY InvFacts, SameNodes DEF Remember, StillRuns
<1>2. cmd.at = "remember" /\ UNCHANGED <<disk, proc, count, acked, worker, logging, report>>
  BY DEF Remember, StillRuns
<1>3. "remember" \in ScenarioAts /\ "remember" \in SlowAts /\ "spawn" \in ScenarioAts
  BY DEF ScenarioAts, SlowAts
<1>4. /\ cmd.op \in Incidents /\ cmd.status = None /\ cmd.err \in BOOLEAN
      /\ journal.open /\ cmd.todo \subseteq NODES /\ journal.nodes \subseteq NODES
  BY <1>2, <1>3, PlayFacts
<1>5. cmd.op = "slow" /\ journal.nodes = {}
  BY <1>1, <1>2, <1>3 DEF CommandFits, StepFits
<1>6. CASE journal' = [journal EXCEPT !.logging = TRUE] /\ Goto("spawn")
  <2>1. /\ journal' \in [open : BOOLEAN, nodes : SUBSET Nodes, logging : BOOLEAN, worker : BOOLEAN]
        /\ journal'.open /\ journal'.nodes = journal.nodes /\ journal'.logging /\ journal'.worker = journal.worker
    BY <1>1, <1>4, <1>6, RecordTypes
  <2>2. RecordFits'
    BY <1>1, <1>2, <2>1 DEF RecordFits, Running
  <2>3. ClusterInv'
    BY <1>1, <1>2, <2>1, <2>2, RecordTypes, RecordStep
  <2>4. Becomes("spawn", cmd.ids, cmd.seen, None, cmd.err)
    BY <1>1, <1>4, <1>6, MovesOn
  <2>5. CommandInv'
    BY <1>1, <1>3, <1>4, <1>5, <2>1, <2>4, PlayFits
  <2> QED BY <2>3, <2>5 DEF GaleraInv
<1>7. CASE cmd' = Settle("failed") /\ UNCHANGED journal
  <2>1. Becomes("resume", cmd.ids, cmd.seen, "failed", FALSE)
    BY <1>1, <1>7, MovesOn
  <2>2. CommandInv'
    BY <1>1, <1>4, <1>7, <2>1, SettleFits DEF Ended
  <2> QED BY <1>2, <1>7, <2>2, StillStep
<1> QED BY <1>6, <1>7 DEF Remember

LEMMA SpawnKeeps ==
    ASSUME GaleraInv, Spawn
    PROVE  GaleraInv'
<1>1. ClusterInv /\ TypeOK /\ RecordFits /\ CommandFits /\ StepFits /\ NODES' = NODES
  BY InvFacts, SameNodes DEF Spawn
<1>2. /\ cmd.at = "spawn" /\ UNCHANGED <<disk, proc, count, acked, logging, report>>
      /\ journal' = [journal EXCEPT !.worker = TRUE]
      /\ \/ worker' = "begun" /\ Goto("work")
         \/ worker' = worker /\ cmd' = Settle("failed")
  BY DEF Spawn
<1>3. "spawn" \in ScenarioAts /\ "spawn" \in SlowAts /\ "work" \in ScenarioAts /\ "work" \notin {"spawn", "disrupt", "during"}
  BY DEF ScenarioAts, SlowAts
<1>4. /\ cmd.op \in Incidents /\ cmd.status = None /\ cmd.err \in BOOLEAN
      /\ journal.open /\ cmd.todo \subseteq NODES /\ journal.nodes \subseteq NODES
  BY <1>2, <1>3, PlayFacts
<1>5. cmd.op = "slow" /\ journal.nodes = {} /\ journal.logging
  BY <1>1, <1>2, <1>3 DEF CommandFits, StepFits
<1>6. /\ journal' \in [open : BOOLEAN, nodes : SUBSET Nodes, logging : BOOLEAN, worker : BOOLEAN]
      /\ journal'.open /\ journal'.nodes = journal.nodes /\ journal'.logging /\ journal'.worker
  BY <1>1, <1>2, <1>4, <1>5, RecordTypes
<1>7. RecordFits'
  BY <1>1, <1>2, <1>6 DEF RecordFits, Running
<1>8. ClusterInv'
  BY <1>1, <1>2, <1>6, <1>7, RecordTypes, RecordStep
<1>9. CASE Goto("work")
  <2>1. Becomes("work", cmd.ids, cmd.seen, None, cmd.err)
    BY <1>1, <1>4, <1>9, MovesOn
  <2>2. CommandInv'
    BY <1>1, <1>3, <1>4, <1>5, <1>6, <2>1, PlayFits
  <2> QED BY <1>8, <2>2 DEF GaleraInv
<1>10. CASE cmd' = Settle("failed")
  <2>1. Becomes("resume", cmd.ids, cmd.seen, "failed", FALSE)
    BY <1>1, <1>10, MovesOn
  <2>2. CommandInv'
    BY <1>1, <1>4, <1>6, <2>1, SettleFits DEF Ended
  <2> QED BY <1>8, <2>2 DEF GaleraInv
<1> QED BY <1>2, <1>9, <1>10

LEMMA WorkerStepsKeep ==
    ASSUME GaleraInv, WorkerChanges \/ WorkerEnds \/ WorkerDies
    PROVE  GaleraInv'
<1>1. ClusterInv /\ TypeOK /\ RecordFits /\ CommandInv
  BY InvFacts
<1>2. UNCHANGED <<disk, proc, count, acked, cmd, journal, report>>
  BY DEF WorkerChanges, WorkerEnds, WorkerDies
<1>3. worker' \in {None, "begun", "logging", "done"} /\ logging' \in BOOLEAN
  BY <1>1, RecordTypes DEF WorkerChanges, WorkerEnds, WorkerDies
<1>4. RecordFits'
  <2>1. worker' \in {"begun", "logging"} => worker \in {"begun", "logging"}
    BY DEF WorkerChanges, WorkerEnds, WorkerDies, None
  <2>2. logging' => logging \/ worker \in {"begun", "logging"}
    BY DEF WorkerChanges, WorkerEnds, WorkerDies
  <2>3. RecordFits /\ journal' = journal /\ proc' = proc
    BY <1>1, <1>2
  <2>4. \A n \in Nodes : proc'[n].hurt => n \in journal'.nodes /\ proc'[n].run # "running"
    BY <2>3 DEF RecordFits, Running
  <2>5. worker' \in {"begun", "logging"} => journal'.worker /\ journal'.logging
    BY <2>1, <2>3 DEF RecordFits
  <2>6. logging' => journal'.logging
    BY <2>2, <2>3 DEF RecordFits
  <2>7. journal'.nodes # {} \/ journal'.logging \/ journal'.worker => journal'.open
    BY <2>3 DEF RecordFits
  <2> QED BY <2>4, <2>5, <2>6, <2>7 DEF RecordFits, Running
<1>5. ClusterInv'
  BY <1>1, <1>2, <1>3, <1>4, RecordTypes, RecordStep
<1>6. Keeps
  BY <1>2, SameData
<1> QED BY <1>1, <1>2, <1>5, <1>6, WaitingCommand DEF GaleraInv

LEMMA WorkKeeps ==
    ASSUME GaleraInv, Work
    PROVE  GaleraInv'
<1>1. ClusterInv /\ TypeOK /\ RecordFits /\ CommandFits /\ StepFits /\ NODES' = NODES
  BY InvFacts, SameNodes DEF Work
<1>2. /\ cmd.at = "work" /\ UNCHANGED <<disk, proc, count, acked, logging, report>>
      /\ worker \in {"done", None} /\ worker' = None
      /\ \/ journal' = [journal EXCEPT !.worker = FALSE] /\ cmd' = Settle("passed")
         \/ journal' = journal /\ cmd' = Settle("failed")
  BY DEF Work
<1>3. "work" \in ScenarioAts /\ "work" \in SlowAts
  BY DEF ScenarioAts, SlowAts
<1>4. /\ cmd.op \in Incidents /\ cmd.status = None /\ cmd.err \in BOOLEAN
      /\ journal.open /\ cmd.todo \subseteq NODES /\ journal.nodes \subseteq NODES
  BY <1>2, <1>3, PlayFacts
<1>5. cmd.op = "slow" /\ cmd.op \notin Faults
  BY <1>1, <1>2, <1>3 DEF CommandFits, Faults
<1>6. /\ journal' \in [open : BOOLEAN, nodes : SUBSET Nodes, logging : BOOLEAN, worker : BOOLEAN]
      /\ journal'.open = journal.open /\ journal'.nodes = journal.nodes /\ journal'.logging = journal.logging
  BY <1>1, <1>2, RecordTypes
<1>7. RecordFits'
  BY <1>1, <1>2, <1>4, <1>6 DEF RecordFits, Running, None
<1>8. ClusterInv'
  BY <1>1, <1>2, <1>6, <1>7, RecordTypes, RecordStep
<1>9. \E st \in {"passed", "failed"} : cmd' = Settle(st)
  BY <1>2
<1>10. PICK st \in {"passed", "failed"} : Becomes("resume", cmd.ids, cmd.seen, st, FALSE)
  BY <1>1, <1>9, MovesOn
<1>11. CommandInv'
  BY <1>1, <1>4, <1>5, <1>6, <1>10, SettleFits DEF Ended
<1> QED BY <1>8, <1>11 DEF GaleraInv

(* A probe may commit a transaction that it never hears of. *)
LEMMA ProbeGentle ==
    ASSUME GaleraInv, UNCHANGED <<proc, worker, logging>>,
           (UNCHANGED <<disk, acked>>) \/ \E n \in NODES : Committed(n) /\ acked' \in {acked, acked \cup {NewTxn}}
    PROVE  Gentle /\ Keeps /\ acked' \subseteq 1..MaxTxns
<1>1. ClusterInv /\ TypeOK /\ acked \subseteq 1..MaxTxns
  BY InvFacts, TypesAre
<1>2. CASE UNCHANGED <<disk, acked>>
  BY <1>1, <1>2, StillGentle
<1>3. ASSUME NEW n \in NODES, Committed(n), acked' \in {acked, acked \cup {NewTxn}}
      PROVE  Gentle /\ Keeps /\ acked' \subseteq 1..MaxTxns
  <2>1. NewTxn \in 1..MaxTxns
    BY <1>1, <1>3, CommitAdds
  <2> QED BY <1>1, <1>3, <2>1, CommitGentle
<1> QED BY <1>2, <1>3

LEMMA ProbeBeforeKeeps ==
    ASSUME GaleraInv, ProbeBefore
    PROVE  GaleraInv'
<1>1. ClusterInv /\ TypeOK /\ CommandFits /\ StepFits /\ NODES' = NODES
  BY InvFacts, SameNodes DEF ProbeBefore, ProbeRest
<1>2. /\ cmd.at = "before" /\ UNCHANGED <<proc, count, worker, logging, journal, report>>
      /\ \/ \E n \in NODES : Acknowledged(n) /\ cmd' = [cmd EXCEPT !.at = "note", !.ids = {NewTxn}]
         \/ Unanswered /\ cmd' = Settle("failed")
  BY DEF ProbeBefore, ProbeRest
<1>3. Gentle /\ acked' \subseteq 1..MaxTxns
  BY <1>2, ProbeGentle DEF Acknowledged, Unanswered
<1>4. "before" \in ScenarioAts /\ "note" \in ScenarioAts /\ "note" \notin SlowAts /\ "note" \notin {"spawn", "disrupt", "during"}
  BY DEF ScenarioAts, SlowAts
<1>5. /\ cmd.op \in Incidents /\ cmd.status = None /\ cmd.err \in BOOLEAN
      /\ journal.open /\ cmd.todo \subseteq NODES /\ journal.nodes \subseteq NODES
  BY <1>2, <1>4, PlayFacts
<1>6. journal.nodes = {}
  BY <1>1, <1>2 DEF StepFits
<1>7. CASE \E i : cmd' = [cmd EXCEPT !.at = "note", !.ids = i]
  <2>1. PICK i : Becomes("note", i, cmd.seen, None, cmd.err)
    BY <1>1, <1>5, <1>7, MovesOn
  <2>2. CommandInv'
    BY <1>1, <1>2, <1>4, <1>5, <1>6, <2>1, PlayFits
  <2> QED BY <1>2, <1>3, <2>2, GentleStep
<1>8. CASE cmd' = Settle("failed")
  <2>1. Becomes("resume", cmd.ids, cmd.seen, "failed", FALSE)
    BY <1>1, <1>8, MovesOn
  <2>2. CommandInv'
    BY <1>1, <1>2, <1>5, <2>1, SettleFits DEF Ended
  <2> QED BY <1>2, <1>3, <2>2, GentleStep
<1> QED BY <1>2, <1>7, <1>8

LEMMA NoteKeeps ==
    ASSUME GaleraInv, Note
    PROVE  GaleraInv'
<1>1. ClusterInv /\ TypeOK /\ RecordFits /\ CommandFits /\ StepFits /\ NODES' = NODES /\ NODES \subseteq Nodes
  BY InvFacts, SameNodes DEF Note, StillRuns
<1>2. /\ cmd.at = "note" /\ Goto("disrupt") /\ journal' = [journal EXCEPT !.nodes = cmd.todo]
      /\ UNCHANGED <<disk, proc, count, acked, worker, logging, report>>
  BY DEF Note, StillRuns
<1>3. "note" \in ScenarioAts /\ "disrupt" \in ScenarioAts /\ "disrupt" \notin SlowAts
  BY DEF ScenarioAts, SlowAts
<1>4. /\ cmd.op \in Incidents /\ cmd.status = None /\ cmd.err \in BOOLEAN
      /\ journal.open /\ cmd.todo \subseteq NODES /\ journal.nodes \subseteq NODES
  BY <1>2, <1>3, PlayFacts
<1>5. journal.nodes = {}
  BY <1>1, <1>2 DEF StepFits
<1>6. PICK t : t = cmd.todo
  OBVIOUS
<1>7. /\ journal' \in [open : BOOLEAN, nodes : SUBSET Nodes, logging : BOOLEAN, worker : BOOLEAN]
      /\ journal'.open /\ journal'.nodes = t /\ journal'.logging = journal.logging /\ journal'.worker = journal.worker
  <2>1. journal' = [journal EXCEPT !.nodes = t] /\ t \subseteq Nodes
    BY <1>1, <1>2, <1>4, <1>6
  <2> QED BY <1>1, <1>4, <2>1, RecordTypes
<1>8. RecordFits'
  BY <1>1, <1>2, <1>5, <1>7 DEF RecordFits, Running
<1>9. ClusterInv'
  BY <1>1, <1>2, <1>7, <1>8, RecordTypes, RecordStep
<1>10. Becomes("disrupt", cmd.ids, cmd.seen, None, cmd.err)
  BY <1>1, <1>2, <1>4, MovesOn
<1>11. CommandInv'
  BY <1>1, <1>3, <1>4, <1>6, <1>7, <1>10, PlayFits
<1> QED BY <1>9, <1>11 DEF GaleraInv

LEMMA DisruptKeeps ==
    ASSUME GaleraInv, NEW n \in NODES, Disrupt(n)
    PROVE  GaleraInv'
<1>1. ClusterInv /\ TypeOK /\ Outside /\ RecordFits /\ CommandFits /\ StepFits /\ NODES \subseteq Nodes
  BY InvFacts
<1>2. /\ cmd.at = "disrupt" /\ n \in cmd.todo /\ (KillNode(n, TRUE) \/ PauseNode(n, TRUE))
      /\ Goto("during") \/ cmd' = cmd
      /\ UNCHANGED <<count, acked, journal, report>>
  BY DEF Disrupt, Quiet
<1>3. NODES' = NODES /\ n \in Nodes
  BY <1>1, <1>2, SameNodes
<1>4. "disrupt" \in ScenarioAts /\ "during" \in ScenarioAts /\ "during" \notin SlowAts /\ "disrupt" \notin SlowAts
  BY DEF ScenarioAts, SlowAts
<1>5. /\ cmd.op \in Incidents /\ cmd.status = None /\ cmd.err \in BOOLEAN
      /\ journal.open /\ cmd.todo \subseteq NODES /\ journal.nodes \subseteq NODES
  BY <1>2, <1>4, PlayFacts
<1>6. journal.nodes = cmd.todo
  BY <1>1, <1>2 DEF StepFits
<1>7. \E p \in Procs : p.run # "running" /\ proc' = [proc EXCEPT ![n] = p] /\ disk' = disk
  <2>1. CASE KillNode(n, TRUE)
    BY <2>1, OffIs DEF KillNode
  <2>2. CASE PauseNode(n, TRUE)
    <3>1. PICK p : p = [proc[n] EXCEPT !.run = "paused", !.hurt = TRUE]
      OBVIOUS
    <3>2. p \in Procs /\ p.run = "paused"
      <4>1. PICK c : c = proc[n]
        OBVIOUS
      <4>2. c \in Procs
        BY <1>1, <1>3, <4>1, NodeTypes
      <4>3. p = [c EXCEPT !.run = "paused", !.hurt = TRUE]
        BY <3>1, <4>1
      <4> QED BY <4>2, <4>3 DEF Procs
    <3>3. [proc EXCEPT ![n].run = "paused", ![n].hurt = TRUE] = [proc EXCEPT ![n] = p]
      <4>1. proc \in [Nodes -> Procs]
        BY <1>1, TypesAre
      <4> QED BY <1>3, <3>1, <4>1
    <3> QED BY <2>2, <3>2, <3>3 DEF PauseNode
  <2> QED BY <1>2, <2>1, <2>2
<1>8. PICK p \in Procs : p.run # "running" /\ proc' = [proc EXCEPT ![n] = p] /\ disk' = disk
  BY <1>7
<1>9. /\ proc' \in [Nodes -> Procs] /\ proc'[n] = p
      /\ \A m \in Nodes : m # n => proc'[m] = proc[m]
  BY <1>1, <1>3, <1>8, TypesAre
<1>10. worker' \in {worker, None} /\ logging' \in {logging, FALSE}
  BY <1>1, <1>2, Gone DEF KillNode, PauseNode
<1>11. TypeOK'
  <2>1. /\ disk' \in [Nodes -> Disks] /\ worker' \in {None, "begun", "logging", "done"} /\ logging' \in BOOLEAN
        /\ count' \in 1..Len(Order) /\ acked' \subseteq 1..MaxTxns
    BY <1>1, <1>2, <1>8, <1>10, TypesAre
  <2>2. journal' = journal /\ report' = report
    BY <1>2
  <2> QED BY <1>1, <1>9, <2>1, <2>2 DEF TypeOK, Disks, Procs
<1>12. Outside'
  BY <1>1, <1>3, <1>9 DEF Outside, Stopped
<1>13. RecordFits'
  <2>1. \A m \in Nodes : proc'[m].hurt => m \in journal'.nodes /\ proc'[m].run # "running"
    BY <1>1, <1>2, <1>6, <1>8, <1>9 DEF RecordFits, Running
  <2>2. worker' \in {"begun", "logging"} => journal'.worker /\ journal'.logging
    BY <1>1, <1>2, <1>10 DEF RecordFits, None
  <2>3. logging' => journal'.logging
    BY <1>1, <1>2, <1>10 DEF RecordFits
  <2>4. journal'.nodes # {} \/ journal'.logging \/ journal'.worker => journal'.open
    BY <1>2, <1>5
  <2> QED BY <2>1, <2>2, <2>3, <2>4 DEF RecordFits, Running
<1>14. CommandInv'
  <2>1. CASE cmd' = cmd
    <3>1. Keeps
      BY <1>8, SameData
    <3> QED BY <1>2, <2>1, <3>1, InvFacts, WaitingCommand
  <2>2. CASE Goto("during")
    <3>1. Becomes("during", cmd.ids, cmd.seen, None, cmd.err)
      BY <1>1, <1>5, <2>2, MovesOn
    <3> QED BY <1>2, <1>3, <1>4, <1>5, <1>6, <3>1, PlayFits
  <2> QED BY <1>2, <2>1, <2>2
<1> QED BY <1>11, <1>12, <1>13, <1>14 DEF GaleraInv, ClusterInv

LEMMA ProbeDuringKeeps ==
    ASSUME GaleraInv, ProbeDuring
    PROVE  GaleraInv'
<1>1. ClusterInv /\ TypeOK /\ CommandFits /\ StepFits /\ NODES' = NODES
  BY InvFacts, SameNodes DEF ProbeDuring, ProbeRest
<1>2. cmd.at = "during" /\ UNCHANGED <<proc, count, worker, logging, journal, report>>
  BY DEF ProbeDuring, ProbeRest
<1>3. Gentle /\ Keeps /\ acked' \subseteq 1..MaxTxns
  BY <1>2, ProbeGentle DEF ProbeDuring, Acknowledged, Unanswered
<1>4. "during" \in ScenarioAts /\ "during" \notin SlowAts
  BY DEF ScenarioAts, SlowAts
<1>5. /\ cmd.op \in Incidents /\ cmd.status = None /\ cmd.err \in BOOLEAN
      /\ journal.open /\ cmd.todo \subseteq NODES /\ journal.nodes \subseteq NODES
  BY <1>2, <1>4, PlayFacts
<1>6. journal.nodes = cmd.todo
  BY <1>1, <1>2 DEF StepFits
<1>7. cmd' = cmd \/ (\E i, s : cmd' = [cmd EXCEPT !.ids = i, !.seen = s]) \/ (\E s : cmd' = [cmd EXCEPT !.seen = s])
  <2>1. CASE \E n \in NODES : Acknowledged(n) /\ cmd' = [cmd EXCEPT !.ids = @ \cup {NewTxn}, !.seen = @ \cup {"survivor"}]
    <3>1. PICK i, s : i = cmd.ids \cup {NewTxn} /\ s = cmd.seen \cup {"survivor"}
      OBVIOUS
    <3>2. PICK op, at, nd, t, i0, s0, st0, e0 :
             /\ op = cmd.op /\ at = cmd.at /\ nd = cmd.node /\ t = cmd.todo /\ i0 = cmd.ids /\ s0 = cmd.seen
             /\ st0 = cmd.status /\ e0 = cmd.err
      OBVIOUS
    <3>3. cmd = [op |-> op, at |-> at, node |-> nd, todo |-> t, ids |-> i0, seen |-> s0, status |-> st0, err |-> e0]
      BY <1>1, <3>2 DEF CommandFits
    <3>4. cmd' = [cmd EXCEPT !.ids = i, !.seen = s]
      BY <2>1, <3>1, <3>2, <3>3
    <3> QED BY <3>4
  <2>2. CASE cmd' = IF Running(Observer) /\ ~ Ready(Observer) THEN [cmd EXCEPT !.seen = @ \cup {"rejected"}] ELSE cmd
    BY <2>2
  <2> QED BY <2>1, <2>2 DEF ProbeDuring
<1>8. CASE cmd' = cmd
  BY <1>2, <1>3, <1>8, GentleStep
<1>9. CASE cmd' # cmd
  <2>1. PICK i, s : Becomes("during", i, s, None, cmd.err)
    <3>1. CASE \E i, s : cmd' = [cmd EXCEPT !.ids = i, !.seen = s]
      <4>1. PICK i, s : cmd' = [cmd EXCEPT !.ids = i, !.seen = s]
        BY <3>1
      <4>2. Becomes(cmd.at, i, s, cmd.status, cmd.err)
        BY <1>1, <4>1, MovesOn
      <4> QED BY <1>2, <1>5, <4>2
    <3>2. CASE \E s : cmd' = [cmd EXCEPT !.seen = s]
      <4>1. PICK s : cmd' = [cmd EXCEPT !.seen = s]
        BY <3>2
      <4>2. Becomes(cmd.at, cmd.ids, s, cmd.status, cmd.err)
        BY <1>1, <4>1, MovesOn
      <4> QED BY <1>2, <1>5, <4>2
    <3> QED BY <1>7, <1>9, <3>1, <3>2
  <2>2. CommandInv'
    BY <1>1, <1>2, <1>4, <1>5, <1>6, <2>1, PlayFits
  <2> QED BY <1>2, <1>3, <2>2, GentleStep
<1> QED BY <1>8, <1>9

LEMMA HoldEndsKeeps ==
    ASSUME GaleraInv, HoldEnds
    PROVE  GaleraInv'
<1>1. cmd.at = "during" /\ cmd' = Settle("held") /\ UNCHANGED <<disk, proc, count, acked, journal, worker, logging, report>>
  BY DEF HoldEnds, NoEffect, incident
<1>2. CommandFits /\ NODES' = NODES /\ "during" \in ScenarioAts
  BY <1>1, InvFacts, SameNodes DEF ScenarioAts
<1>3. cmd.op \in Incidents /\ journal.nodes \subseteq NODES
  BY <1>1, <1>2, PlayFacts
<1>4. Becomes("resume", cmd.ids, cmd.seen, "held", FALSE)
  BY <1>1, <1>2, MovesOn
<1>5. CommandInv'
  BY <1>1, <1>2, <1>3, <1>4, SettleFits DEF Ended
<1> QED BY <1>1, <1>5, StillStep

LEMMA ReconcileKeeps ==
    ASSUME GaleraInv, Reconcile
    PROVE  GaleraInv'
<1>1. ClusterInv /\ TypeOK /\ RecordFits /\ CommandFits /\ StepFits /\ NODES' = NODES
  BY InvFacts, SameNodes DEF Reconcile, ProbeRest
<1>2. cmd.at = "after" /\ journal' = NewJournal /\ UNCHANGED <<proc, count, worker, logging, report>>
  BY DEF Reconcile, ProbeRest
<1>3. Gentle /\ Keeps /\ acked' \subseteq 1..MaxTxns
  BY <1>2, ProbeGentle DEF Reconcile, Acknowledged, Unanswered
<1>4. ~ journal.open /\ cmd.op \in Incidents
  BY <1>1, <1>2, AtAfter DEF StepFits, ReconcilesAt
<1>5. RecordFits'
  BY <1>1, <1>2, <1>4, NothingChanged, FreshRecord DEF RecordFits
<1>6. ClusterInv'
  BY <1>1, <1>2, <1>3, <1>5, FreshRecord, RecordTypes, NewRecord
<1>7. \/ cmd' = Settle("failed")
      \/ \E ids, st : /\ cmd' = [Settle(st) EXCEPT !.ids = ids] /\ st \in {"passed", "failed"}
                      /\ st = "passed" => Observed(cmd.op, cmd.seen)
                      /\ st = "passed" => \A m \in NODES : ids \subseteq disk'[m].data
  <2>1. ASSUME NEW n \in NODES, NEW ids, NEW good, good \in BOOLEAN,
               good = (Observed(cmd.op, cmd.seen) /\ \A m \in NODES : ids \subseteq disk'[m].data),
               cmd' = [Settle(IF good THEN "passed" ELSE "failed") EXCEPT !.ids = ids]
        PROVE  \E i, st : /\ cmd' = [Settle(st) EXCEPT !.ids = i] /\ st \in {"passed", "failed"}
                          /\ st = "passed" => Observed(cmd.op, cmd.seen)
                          /\ st = "passed" => \A m \in NODES : i \subseteq disk'[m].data
    <3>1. CASE good
      BY <2>1, <3>1
    <3>2. CASE ~ good
      <4>1. cmd' = [Settle("failed") EXCEPT !.ids = ids]
        BY <2>1, <3>2
      <4>2. "failed" \in {"passed", "failed"} /\ "failed" # "passed"
        OBVIOUS
      <4> QED BY <4>1, <4>2
    <3> QED BY <2>1, <3>1, <3>2
  <2> QED BY <2>1, Zenon DEF Reconcile
<1>8. journal'.nodes \subseteq NODES'
  BY <1>2, FreshRecord
<1>9. CASE cmd' = Settle("failed")
  <2>1. Becomes("resume", cmd.ids, cmd.seen, "failed", FALSE)
    BY <1>1, <1>9, MovesOn
  <2>2. CommandInv'
    BY <1>1, <1>4, <1>8, <2>1, SettleFits DEF Ended
  <2> QED BY <1>6, <2>2 DEF GaleraInv
<1>10. ASSUME NEW ids, NEW st, cmd' = [Settle(st) EXCEPT !.ids = ids], st \in {"passed", "failed"},
              st = "passed" => Observed(cmd.op, cmd.seen),
              st = "passed" => \A m \in NODES : ids \subseteq disk'[m].data
       PROVE  GaleraInv'
  <2>3. st \in Ended
    BY <1>10 DEF Ended
  <2>4. Becomes("resume", ids, cmd.seen, st, FALSE)
    BY <1>1, <1>10, MovesOn
  <2>5. CommandInv'
    BY <1>1, <1>4, <1>8, <1>10, <2>3, <2>4, SettleFits
  <2> QED BY <1>6, <2>5 DEF GaleraInv
<1> QED BY <1>7, <1>9, <1>10

LEMMA ScenarioStopsKeeps ==
    ASSUME GaleraInv, ScenarioStops
    PROVE  GaleraInv'
<1>1. UNCHANGED <<disk, proc, count, acked, worker, logging, journal, report>> /\ NODES' = NODES
  BY SameNodes DEF ScenarioStops, StillRuns
<1>2. CASE cmd' = Idle
  BY <1>1, <1>2, StillStep
<1>3. CASE cmd.op \in Incidents /\ cmd.status = None /\ cmd' = Settle("interrupted")
  <2>1. CommandFits
    BY InvFacts
  <2>2. cmd.at \in ScenarioAts
    BY <1>3, <2>1 DEF CommandFits, LivesAt, PlaysAt, EndsAt, ReconcilesAt, RepairsAt, Incidents, Faults, LifeOps, Idle, None
  <2>3. journal.nodes \subseteq NODES
    BY <2>2, PlayFacts
  <2>4. Becomes("resume", cmd.ids, cmd.seen, "interrupted", FALSE)
    BY <1>3, <2>1, MovesOn
  <2>5. CommandInv'
    BY <1>1, <1>3, <2>1, <2>3, <2>4, SettleFits DEF Ended
  <2> QED BY <1>1, <2>5, StillStep
<1> QED BY <1>2, <1>3 DEF ScenarioStops, End, Incidents

LEMMA ScenarioKeeps == GaleraInv /\ Scenario => GaleraInv'
<1> SUFFICES ASSUME GaleraInv, Scenario
             PROVE  GaleraInv'
  OBVIOUS
<1>1. CASE \E op \in Faults \cup {"slow"}, n \in NODES : BeginScenario(op, n)
  BY <1>1, BeginScenarioKeeps DEF Incidents
<1> QED BY <1>1, RememberKeeps, SpawnKeeps, WorkerStepsKeep, WorkKeeps, ProbeBeforeKeeps, NoteKeeps, DisruptKeeps,
           ProbeDuringKeeps, HoldEndsKeeps, ReconcileKeeps, ScenarioStopsKeeps DEF Scenario

-----------------------------------------------------------------------------
(* recover_pending. *)

LEMMA BeginRepairKeeps ==
    ASSUME GaleraInv, BeginRepair
    PROVE  GaleraInv'
<1>1. /\ journal.open /\ journal.nodes \subseteq NODES /\ NODES' = NODES
      /\ cmd' = [Command("repair", "resume") EXCEPT !.status = "repair"]
      /\ UNCHANGED <<disk, proc, count, acked, worker, logging, journal, report>>
  BY DEF BeginRepair, Begin, incident, NODES
<1>2. cmd' = [op |-> "repair", at |-> "resume", node |-> None, todo |-> {}, ids |-> {}, seen |-> {}, status |-> "repair", err |-> FALSE]
  BY <1>1 DEF Command, Idle
<1>3. /\ cmd'.op = "repair" /\ cmd'.at = "resume" /\ cmd'.status = "repair" /\ cmd'.err = FALSE
      /\ "resume" \in RepairAts /\ "resume" \notin ScenarioAts \cup SlowAts \cup NodeAts
  BY <1>2 DEF RepairAts, ScenarioAts, SlowAts, NodeAts
<1>4. CommandFits'
  BY <1>2, <1>3 DEF CommandFits, RepairsAt
<1>5. StepFits' /\ PassFits'
  BY <1>1, <1>3 DEF StepFits, PassFits
<1> QED BY <1>1, <1>4, <1>5, StillStep DEF CommandInv

LEMMA RepairFacts ==
    ASSUME GaleraInv, cmd.at \in RepairAts
    PROVE  cmd.err \in BOOLEAN /\ journal.nodes \subseteq NODES
  BY InvFacts DEF CommandFits, StepFits

LEMMA RepairNodesKeep ==
    ASSUME GaleraInv, RepairResume \/ RepairStart
    PROVE  GaleraInv'
<1>1. ClusterInv /\ TypeOK /\ CommandInv /\ CommandFits /\ StepFits /\ NODES \subseteq Nodes
  BY InvFacts
<1>2. cmd.at \in {"resume", "revive"} /\ cmd.at \in RepairAts /\ {"revive", "cancel"} \subseteq RepairAts
  BY DEF RepairResume, RepairStart, RepairAts
<1>3. cmd.err \in BOOLEAN /\ journal.nodes \subseteq NODES /\ journal.nodes \subseteq Nodes
  BY <1>1, <1>2, RepairFacts
<1>4. CASE Gentle /\ Keeps /\ UNCHANGED cmd /\ Quiet
  BY <1>4, AckedIn, GentleStep DEF Quiet
<1>5. CASE \E n \in Paused : Unpause(n) /\ UNCHANGED cmd /\ Quiet
  <2>1. PICK n \in Paused : Unpause(n) /\ UNCHANGED cmd /\ Quiet
    BY <1>5
  <2>2. n \in Nodes /\ ~ Stopped(n)
    BY <1>3, <2>1 DEF Paused, Stopped
  <2>3. Gentle /\ Keeps
    BY <1>1, <2>1, <2>2, UnpauseGentle
  <2> QED BY <1>4, <2>1, <2>3
<1>6. CASE (\E n \in Halted : StartNode(n)) /\ UNCHANGED cmd /\ Quiet
  <2>1. PICK n \in Halted : StartNode(n)
    BY <1>6
  <2>2. n \in NODES
    BY <1>3, <2>1 DEF Halted
  <2>3. Gentle /\ Keeps
    BY <1>1, <2>1, <2>2, StartGentle
  <2> QED BY <1>4, <1>6, <2>3
<1>7. CASE NoEffect /\ \E a \in {"revive", "cancel"}, e \in BOOLEAN : cmd' = [cmd EXCEPT !.at = a, !.err = e]
  <2>1. PICK a \in {"revive", "cancel"}, e \in BOOLEAN : cmd' = [cmd EXCEPT !.at = a, !.err = e]
    BY <1>7
  <2>2. Becomes(a, cmd.ids, cmd.seen, cmd.status, e)
    BY <1>1, <2>1, MovesOn
  <2>3. UNCHANGED <<disk, proc, count, acked, worker, logging, journal, report>>
    BY <1>7 DEF NoEffect, incident
  <2>4. Keeps
    BY <2>3, SameData
  <2>5. CommandInv'
    BY <1>1, <1>2, <1>3, <2>1, <2>2, <2>3, <2>4, RepairFits
  <2> QED BY <2>3, <2>5, StillStep
<1>8. CASE NoEffect /\ Goto("revive")
  <2>1. Becomes("revive", cmd.ids, cmd.seen, cmd.status, cmd.err)
    BY <1>1, <1>8, MovesOn
  <2>2. UNCHANGED <<disk, proc, count, acked, worker, logging, journal, report>>
    BY <1>8 DEF NoEffect, incident
  <2>3. Keeps
    BY <2>2, SameData
  <2>4. CommandInv'
    BY <1>1, <1>2, <1>3, <2>1, <2>2, <2>3, RepairFits
  <2> QED BY <2>2, <2>4, StillStep
<1>9. CASE RepairResume
  BY <1>5, <1>8, <1>9 DEF RepairResume
<1>10. CASE RepairStart
  <2>1. (cmd.err \/ Halted # {}) \in BOOLEAN
    BY <1>3
  <2>2. ASSUME NoEffect, cmd' = [cmd EXCEPT !.at = "cancel", !.err = @ \/ Halted # {}]
        PROVE  GaleraInv'
    <3>1. PICK e \in BOOLEAN : e = (cmd.err \/ Halted # {})
      BY <2>1
    <3>2. cmd' = [cmd EXCEPT !.at = "cancel", !.err = e]
      BY <2>2, <3>1
    <3> QED BY <1>7, <2>2, <3>2
  <2> QED BY <1>6, <1>10, <2>2 DEF RepairStart
<1> QED BY <1>9, <1>10

LEMMA RepairCancelKeeps ==
    ASSUME GaleraInv, RepairCancel
    PROVE  GaleraInv'
<1>1. ClusterInv /\ TypeOK /\ RecordFits /\ CommandInv /\ CommandFits
  BY InvFacts
<1>2. cmd.at = "cancel" /\ UNCHANGED <<disk, proc, count, acked, report>>
  BY DEF RepairCancel
<1>3. cmd.at \in RepairAts /\ "logging" \in RepairAts /\ "wait" \in RepairAts
  BY <1>2 DEF RepairAts
<1>4. cmd.err \in BOOLEAN /\ journal.nodes \subseteq NODES /\ Keeps
  BY <1>2, <1>3, RepairFacts, SameData
<1>5. /\ worker' \in {worker, None} /\ logging' \in {logging, FALSE}
      /\ \/ journal' = [journal EXCEPT !.worker = FALSE] /\ worker' = None
         \/ journal' = journal
  BY <1>1, RecordTypes DEF RepairCancel
<1>6. /\ journal' \in [open : BOOLEAN, nodes : SUBSET Nodes, logging : BOOLEAN, worker : BOOLEAN]
      /\ journal'.open = journal.open /\ journal'.nodes = journal.nodes /\ journal'.logging = journal.logging
      /\ journal'.worker => journal.worker
      /\ journal' # journal => worker' = None
  BY <1>1, <1>5, RecordTypes
<1>7. RecordFits'
  <2>1. \A n \in Nodes : proc'[n].hurt => n \in journal'.nodes /\ proc'[n].run # "running"
    BY <1>1, <1>2, <1>6 DEF RecordFits, Running
  <2>2. worker' \in {"begun", "logging"} => journal'.worker /\ journal'.logging
    BY <1>1, <1>5, <1>6 DEF RecordFits, None
  <2>3. logging' => journal'.logging
    BY <1>1, <1>5, <1>6 DEF RecordFits
  <2>4. journal'.nodes # {} \/ journal'.logging \/ journal'.worker => journal'.open
    BY <1>1, <1>6 DEF RecordFits
  <2> QED BY <2>1, <2>2, <2>3, <2>4 DEF RecordFits, Running
<1>8. ClusterInv'
  <2>1. worker' \in {None, "begun", "logging", "done"} /\ logging' \in BOOLEAN
    BY <1>1, <1>5, RecordTypes
  <2> QED BY <1>1, <1>2, <1>6, <1>7, <2>1, RecordTypes, RecordStep
<1>9. CASE Goto("logging") /\ ~ journal'.worker
  <2>1. Becomes("logging", cmd.ids, cmd.seen, cmd.status, cmd.err)
    BY <1>1, <1>9, MovesOn
  <2>2. CommandInv'
    BY <1>1, <1>2, <1>3, <1>4, <1>6, <1>9, <2>1, RepairFits
  <2> QED BY <1>8, <2>2 DEF GaleraInv
<1>10. CASE cmd' = [cmd EXCEPT !.at = "wait", !.err = TRUE]
  <2>1. Becomes("wait", cmd.ids, cmd.seen, cmd.status, TRUE)
    BY <1>1, <1>10, MovesOn
  <2>2. CommandInv'
    BY <1>1, <1>2, <1>3, <1>4, <1>6, <2>1, RepairFits
  <2> QED BY <1>8, <2>2 DEF GaleraInv
<1>11. \/ Goto("logging") /\ ~ journal'.worker
       \/ cmd' = [cmd EXCEPT !.at = "wait", !.err = TRUE]
  <2>1. ~ [journal EXCEPT !.worker = FALSE].worker
    BY <1>1, RecordTypes
  <2> QED BY <2>1 DEF RepairCancel
<1> QED BY <1>9, <1>10, <1>11

LEMMA RepairLoggingKeeps ==
    ASSUME GaleraInv, RepairLogging
    PROVE  GaleraInv'
<1>1. ClusterInv /\ TypeOK /\ RecordFits /\ CommandInv /\ CommandFits /\ StepFits
  BY InvFacts
<1>2. cmd.at = "logging" /\ UNCHANGED <<disk, proc, count, acked, worker, report>>
  BY DEF RepairLogging
<1>3. cmd.at \in RepairAts /\ "wait" \in RepairAts
  BY <1>2 DEF RepairAts
<1>4. cmd.err \in BOOLEAN /\ journal.nodes \subseteq NODES /\ Keeps /\ ~ journal.worker
  BY <1>1, <1>2, <1>3, RepairFacts, SameData DEF StepFits
<1>5. CASE journal' = [journal EXCEPT !.logging = FALSE] /\ logging' = FALSE /\ Goto("wait")
  <2>1. /\ journal' \in [open : BOOLEAN, nodes : SUBSET Nodes, logging : BOOLEAN, worker : BOOLEAN]
        /\ journal'.open = journal.open /\ journal'.nodes = journal.nodes /\ ~ journal'.logging
        /\ ~ journal'.worker
    BY <1>1, <1>4, <1>5, RecordTypes
  <2>2. RecordFits'
    BY <1>1, <1>2, <1>4, <1>5, <2>1 DEF RecordFits, Running
  <2>3. ClusterInv'
    BY <1>1, <1>2, <1>5, <2>1, <2>2, RecordTypes, RecordStep
  <2>4. Becomes("wait", cmd.ids, cmd.seen, cmd.status, cmd.err)
    BY <1>1, <1>5, MovesOn
  <2>5. CommandInv'
    BY <1>1, <1>2, <1>3, <1>4, <2>1, <2>4, RepairFits
  <2> QED BY <2>3, <2>5 DEF GaleraInv
<1>6. CASE cmd' = [cmd EXCEPT !.at = "wait", !.err = @ \/ journal.logging] /\ UNCHANGED <<journal, logging>>
  <2>1. PICK e \in BOOLEAN : e = (cmd.err \/ journal.logging)
    BY <1>4
  <2>2. cmd' = [cmd EXCEPT !.at = "wait", !.err = e]
    BY <1>6, <2>1
  <2>3. Becomes("wait", cmd.ids, cmd.seen, cmd.status, e)
    BY <1>1, <2>2, MovesOn
  <2>4. ~ e => ~ journal'.worker /\ ~ journal'.logging
    BY <1>4, <1>6, <2>1
  <2>5. CommandInv'
    BY <1>1, <1>2, <1>3, <1>4, <1>6, <2>3, <2>4, RepairFits
  <2> QED BY <1>2, <1>6, <2>5, StillStep
<1> QED BY <1>5, <1>6 DEF RepairLogging

LEMMA RepairWaitKeeps ==
    ASSUME GaleraInv, RepairWait
    PROVE  GaleraInv'
<1>1. ClusterInv /\ TypeOK /\ RecordFits /\ CommandInv /\ CommandFits /\ StepFits
  BY InvFacts
<1>2. cmd.at = "wait" /\ UNCHANGED <<disk, proc, count, acked, worker, logging, report>>
  BY DEF RepairWait, StillRuns
<1>3. cmd.at \in RepairAts /\ "unlink" \in RepairAts
  BY <1>2 DEF RepairAts
<1>4. cmd.err \in BOOLEAN /\ journal.nodes \subseteq NODES /\ Keeps
  BY <1>1, <1>2, <1>3, RepairFacts, SameData
<1>5. ~ cmd.err => ~ journal.worker /\ ~ journal.logging
  BY <1>1, <1>2 DEF StepFits
<1>6. CASE /\ journal.nodes = {} \/ (AllReady /\ count = 3)
           /\ journal' = [journal EXCEPT !.nodes = {}] /\ Goto("unlink")
  <2>1. \A n \in Nodes : ~ proc[n].hurt
    BY <1>1, <1>4, <1>6 DEF RecordFits, AllReady, ReadySize, Ready
  <2>2. /\ journal' \in [open : BOOLEAN, nodes : SUBSET Nodes, logging : BOOLEAN, worker : BOOLEAN]
        /\ journal'.open = journal.open /\ journal'.nodes = {} /\ journal'.logging = journal.logging
        /\ journal'.worker = journal.worker
    BY <1>1, <1>6, RecordTypes
  <2>3. RecordFits'
    BY <1>1, <1>2, <2>1, <2>2 DEF RecordFits, Running
  <2>4. ClusterInv'
    BY <1>1, <1>2, <2>2, <2>3, RecordTypes, RecordStep
  <2>5. Becomes("unlink", cmd.ids, cmd.seen, cmd.status, cmd.err)
    BY <1>1, <1>6, MovesOn
  <2>6. CommandInv'
    BY <1>1, <1>2, <1>3, <1>4, <1>5, <2>2, <2>5, RepairFits
  <2> QED BY <2>4, <2>6 DEF GaleraInv
<1>7. CASE cmd' = [cmd EXCEPT !.at = "unlink", !.err = TRUE] /\ UNCHANGED journal
  <2>1. Becomes("unlink", cmd.ids, cmd.seen, cmd.status, TRUE)
    BY <1>1, <1>7, MovesOn
  <2>2. CommandInv'
    BY <1>1, <1>2, <1>3, <1>4, <1>7, <2>1, RepairFits
  <2> QED BY <1>2, <1>7, <2>2, StillStep
<1> QED BY <1>6, <1>7 DEF RepairWait

(* The record goes when nothing of the scenario is left. *)
LEMMA CleanRecord ==
    ASSUME GaleraInv, cmd.at = "unlink", ~ cmd.err
    PROVE  journal.nodes = {} /\ ~ journal.worker /\ ~ journal.logging
  BY InvFacts DEF StepFits

LEMMA RepairEndsKeeps ==
    ASSUME GaleraInv, RepairEnds
    PROVE  GaleraInv'
<1>1. ClusterInv /\ TypeOK /\ RecordFits /\ CommandInv /\ CommandFits /\ StepFits
  BY InvFacts
<1>2. /\ cmd.at = "unlink" /\ UNCHANGED <<disk, proc, count, acked, worker, logging>>
      /\ journal' = IF cmd.err THEN journal ELSE NoJournal
  BY DEF RepairEnds, MayUnlink
<1>3. cmd.at \in RepairAts
  BY <1>2 DEF RepairAts
<1>4. cmd.err \in BOOLEAN /\ journal.nodes \subseteq NODES /\ (EndsAt \/ RepairsAt) /\ NODES' = NODES
  BY <1>1, <1>2, <1>3, RepairFacts, AtRepair, SameNodes
<1>5. RecordFits'
  <2>1. CASE cmd.err
    BY <1>1, <1>2, <2>1 DEF RecordFits, Running
  <2>2. CASE ~ cmd.err
    BY <1>1, <1>2, <2>2, CleanRecord, NothingChanged, FreshRecord DEF RecordFits
  <2> QED BY <2>1, <2>2
<1>6. report' \in {None, "running", "passed", "failed", "interrupted", "recovery-needed"}
  BY <1>1, <1>4, RecordTypes DEF RepairEnds, Verdict, EndsAt, RepairsAt
<1>7. journal' \in [open : BOOLEAN, nodes : SUBSET Nodes, logging : BOOLEAN, worker : BOOLEAN]
      /\ journal'.nodes \subseteq NODES
  BY <1>1, <1>2, <1>4, RecordTypes, FreshRecord
<1>8. ClusterInv'
  BY <1>1, <1>2, <1>5, <1>6, <1>7, RecordTypes, RecordStep
<1>9. CASE cmd' = Idle
  BY <1>8, <1>9, IdleFits DEF GaleraInv
<1>10. CASE cmd.status = "held" /\ cmd' = Settle("failed")
  <2>1. cmd.op \in Incidents
    BY <1>4, <1>10 DEF EndsAt, RepairsAt
  <2>2. Becomes("resume", cmd.ids, cmd.seen, "failed", FALSE)
    BY <1>1, <1>10, MovesOn
  <2>3. CommandInv'
    BY <1>1, <1>4, <1>7, <2>1, <2>2, SettleFits DEF Ended
  <2> QED BY <1>8, <2>3 DEF GaleraInv
<1>11. CASE cmd.status = "held" /\ ~ cmd.err /\ cmd' = [cmd EXCEPT !.at = "after"]
  <2>1. cmd.op \in Incidents
    BY <1>4, <1>11 DEF EndsAt, RepairsAt
  <2>2. Becomes("after", cmd.ids, cmd.seen, "held", cmd.err)
    BY <1>1, <1>11, MovesOn DEF Goto
  <2>3. CommandFits' /\ cmd'.at = "after" /\ cmd'.status = "held"
    BY <1>4, <2>1, <2>2, BecomesFits
  <2>4. ~ journal'.open
    BY <1>2, <1>11, FreshRecord
  <2>5. StepFits' /\ PassFits'
    BY <2>3, <2>4 DEF StepFits, PassFits, ScenarioAts, SlowAts, RepairAts
  <2> QED BY <1>8, <2>3, <2>5 DEF GaleraInv, CommandInv
<1> QED BY <1>9, <1>10, <1>11 DEF RepairEnds, End

-----------------------------------------------------------------------------
LEMMA GaleraInitial == Init => GaleraInv
<1> SUFFICES ASSUME Init
             PROVE  GaleraInv
  OBVIOUS
<1>1. /\ count \in MinNodes..Len(Order) /\ acked = {} /\ cmd = Idle /\ journal = NoJournal /\ worker = None
      /\ logging = FALSE /\ report = None
  BY DEF Init
<1>2. count \in 1..Len(Order) /\ MaxTxns \in Nat /\ -1 \in -1..MaxTxns
  BY <1>1, GaleraAssumption
<1>3. PICK q, s : /\ q = [Empty EXCEPT !.init = "complete", !.uuid = 1]
                  /\ s = [Off EXCEPT !.run = "running", !.view = NODES]
  OBVIOUS
<1>4. NODES \subseteq Nodes
  BY <1>2, GaleraAssumption DEF NODES, Nodes
<1>5. /\ Empty \in Disks /\ q \in Disks /\ Off \in Procs /\ s \in Procs
      /\ Off.run = "stopped" /\ ~ Off.hurt /\ ~ s.hurt
  BY <1>2, <1>3, <1>4 DEF Empty, Disks, Off, Procs
<1>6. /\ disk \in [Nodes -> Disks] /\ proc \in [Nodes -> Procs]
      /\ \A n \in Nodes : ~ proc[n].hurt
      /\ \A n \in Nodes \ NODES : proc[n].run = "stopped"
  <2>1. CASE disk = [n \in Nodes |-> Empty] /\ proc = [n \in Nodes |-> Off]
    BY <1>5, <2>1
  <2>2. CASE /\ disk = [n \in Nodes |-> IF n \in NODES THEN q ELSE Empty]
             /\ proc = [n \in Nodes |-> IF n \in NODES THEN s ELSE Off]
    BY <1>5, <2>2
  <2> QED BY <1>3, <2>1, <2>2 DEF Init
<1>7. TypeOK
  BY <1>1, <1>2, <1>6, TypesAre, FreshRecord
<1>8. Outside /\ RecordFits
  BY <1>1, <1>6, FreshRecord DEF Outside, Stopped, RecordFits, None
<1>9. CommandInv
  <2>1. cmd.at = None /\ cmd.status = None /\ cmd.err = FALSE /\ cmd.op = None
    BY <1>1 DEF Idle
  <2>2. CommandFits
    BY <1>1, <2>1 DEF CommandFits, Idle, NodeAts, SlowAts, None
  <2>3. StepFits /\ PassFits
    BY <2>1 DEF StepFits, PassFits, ScenarioAts, SlowAts, RepairAts, None
  <2> QED BY <2>2, <2>3 DEF CommandInv
<1> QED BY <1>7, <1>8, <1>9 DEF GaleraInv, ClusterInv

LEMMA GaleraInductive == GaleraInv /\ [Next]_vars => GaleraInv'
<1> SUFFICES ASSUME GaleraInv, [Next]_vars
             PROVE  GaleraInv'
  OBVIOUS
<1>1. CASE UNCHANGED vars
  BY <1>1, StillStep DEF vars
<1>2. CASE Repair
  BY <1>2, BeginRepairKeeps, RepairNodesKeep, RepairCancelKeeps, RepairLoggingKeeps, RepairWaitKeeps, RepairEndsKeeps DEF Repair
<1> QED BY <1>1, <1>2, GaleraStepKeeps, LifeCycleKeeps, ScenarioKeeps DEF Next

(***************************************************************************)
(* The inductive invariant of the cluster's commands and scenarios, for    *)
(* every set of nodes and every number of crashes, failed calls and        *)
(* interrupted commands: scenario-pending.json names every node a scenario *)
(* hurt, the worker it started and the settings that worker changed.       *)
(***************************************************************************)
THEOREM GaleraInvariant == Spec => []GaleraInv
  BY GaleraInitial, GaleraInductive, PTL DEF Spec

-----------------------------------------------------------------------------
(* Only a scenario and a recovery touch the record and the report. *)
LEMMA ServersKeepRecord ==
    ASSUME GaleraStep
    PROVE  journal' = journal /\ report' = report
  BY DEF GaleraStep, Evict, InitDone, Bootstrap, Client, Crash, Join, incident

LEMMA CommandsKeepRecord ==
    ASSUME LifeCycle
    PROVE  journal' = journal /\ report' = report
<1>1. CASE BeginUp \/ UpDecide \/ Authorize \/ Launch \/ WaitAlone
  BY <1>1 DEF BeginUp, UpDecide, Authorize, Launch, WaitAlone, Begin, NoEffect, Quiet, incident
<1>2. CASE UpOthers \/ WaitJoined \/ Rebuild \/ Restart \/ Interrupt
  BY <1>2 DEF UpOthers, WaitJoined, Rebuild, Restart, Interrupt, NoEffect, Quiet, incident
<1>3. CASE (\E op \in {"down", "reset"} : BeginDown(op)) \/ Down \/ Scale
  BY <1>3 DEF BeginDown, Down, Scale, Begin, NoEffect, Quiet, incident
<1>4. CASE \E k \in 1..Len(Order) : BeginScale(k) \/ ScaleUp(k)
  BY <1>4 DEF BeginScale, ScaleUp, Begin, incident
<1>5. CASE \E n \in NODES : BeginRecover(n) \/ BeginRebuild(n) \/ Verb(n)
  BY <1>5 DEF BeginRecover, BeginRebuild, Verb, Begin, incident
<1> QED BY <1>1, <1>2, <1>3, <1>4, <1>5 DEF LifeCycle

(* The only step that creates a record creates an empty one. *)
LEMMA RecordOpensEmpty ==
    ASSUME GaleraInv, [Next]_vars, ~ journal.open, journal'.open
    PROVE  journal' = NewJournal
<1>1. TypeOK /\ StepFits /\ journal' # journal /\ Next
  BY InvFacts DEF vars
<1>2. ~ (GaleraStep \/ LifeCycle)
  BY <1>1, ServersKeepRecord, CommandsKeepRecord
<1>3. cmd.at \notin ScenarioAts
  BY <1>1 DEF StepFits
<1>4. CASE Scenario
  <2>1. ~ (Remember \/ Spawn \/ Note)
    BY <1>3 DEF Remember, Spawn, Note, ScenarioAts, SlowAts
  <2>2. ~ Work
    BY <1>3 DEF Work, ScenarioAts, SlowAts
  <2>3. ~ (WorkerChanges \/ WorkerEnds \/ WorkerDies \/ ProbeBefore \/ HoldEnds \/ ScenarioStops)
    BY <1>1 DEF WorkerChanges, WorkerEnds, WorkerDies, ProbeBefore, HoldEnds, ScenarioStops, NoEffect, incident
  <2>4. ~ ProbeDuring /\ \A n \in NODES : ~ Disrupt(n)
    BY <1>1 DEF ProbeDuring, Disrupt, Quiet
  <2> QED BY <1>4, <2>1, <2>2, <2>3, <2>4 DEF Scenario, BeginScenario, Reconcile
<1>5. CASE Repair
  <2>1. \A r : /\ [journal EXCEPT !.worker = r].open = journal.open
                /\ [journal EXCEPT !.logging = r].open = journal.open
                /\ [journal EXCEPT !.nodes = r].open = journal.open
    BY <1>1, RecordTypes
  <2>2. ~ (BeginRepair \/ RepairResume \/ RepairStart)
    BY <1>1 DEF BeginRepair, RepairResume, RepairStart, Begin, Quiet, NoEffect, incident
  <2>3. ~ (RepairCancel \/ RepairLogging \/ RepairWait)
    BY <1>1, <2>1 DEF RepairCancel, RepairLogging, RepairWait
  <2>4. ~ RepairEnds
    BY <1>1, FreshRecord DEF RepairEnds
  <2> QED BY <1>5, <2>2, <2>3, <2>4 DEF Repair
<1> QED BY <1>1, <1>2, <1>4, <1>5 DEF Next

LEMMA CleanNodes ==
    ASSUME GaleraInv, ~ journal.open \/ (journal.nodes = {} /\ ~ journal.logging /\ ~ journal.worker)
    PROVE  Changed = {}
<1>1. (\A n \in Nodes : ~ proc[n].hurt) /\ worker \notin {"begun", "logging"} /\ ~ logging
  BY InvFacts, NothingChanged
<1> QED BY <1>1 DEF Changed

LEMMA CleanAfter ==
    ASSUME GaleraInv', ~ journal'.open \/ (journal'.nodes = {} /\ ~ journal'.logging /\ ~ journal'.worker)
    PROVE  Changed' = {}
<1>1. RecordFits'
  BY DEF GaleraInv, ClusterInv
<1>2. (\A n \in Nodes : ~ proc'[n].hurt) /\ worker' \notin {"begun", "logging"} /\ ~ logging'
  BY <1>1 DEF RecordFits
<1> QED BY <1>2 DEF Changed

LEMMA IncidentStep ==
    ASSUME GaleraInv, GaleraInv', [Next]_vars
    PROVE  J!Next
<1>1. ~ journal.open => Changed = {}
  BY CleanNodes
<1>2. ~ journal'.open => Changed' = {}
  BY CleanAfter
<1>3. Changed' \subseteq Nodes \cup {"logging", "worker"}
  BY DEF Changed
<1>4. journal.open \in BOOLEAN /\ journal'.open \in BOOLEAN
  BY DEF GaleraInv, ClusterInv, TypeOK
<1>5. CASE journal.open /\ journal'.open
  BY <1>3, <1>4, <1>5 DEF J!Next, J!Change
<1>6. CASE journal.open /\ ~ journal'.open
  BY <1>2, <1>4, <1>6 DEF J!Next, J!Close
<1>7. CASE ~ journal.open /\ journal'.open
  <2>1. journal' = NewJournal
    BY <1>7, RecordOpensEmpty
  <2>2. Changed' = {}
    BY <2>1, FreshRecord, CleanAfter
  <2> QED BY <1>4, <1>7, <2>2 DEF J!Next, J!Open
<1>8. CASE ~ journal.open /\ ~ journal'.open
  BY <1>2, <1>4, <1>8 DEF J!Next, J!Settle
<1> QED BY <1>5, <1>6, <1>7, <1>8

-----------------------------------------------------------------------------
(* What PassedIsTrue asks of a step. *)
PassHolds ==
    report' = "passed" /\ report # "passed" =>
        /\ ~ journal'.open /\ Changed' = {}
        /\ cmd.op \in Faults => Observed(cmd.op, cmd.seen) /\ \A n \in NODES : cmd.ids \subseteq disk[n].data

LEMMA PassIsTrueStep ==
    ASSUME GaleraInv, GaleraInv', [Next]_vars
    PROVE  PassHolds
<1> SUFFICES ASSUME report' = "passed", report # "passed"
             PROVE  /\ ~ journal'.open /\ Changed' = {}
                    /\ cmd.op \in Faults => Observed(cmd.op, cmd.seen) /\ \A n \in NODES : cmd.ids \subseteq disk[n].data
  BY DEF PassHolds
<1>1. report' # report /\ Next
  BY DEF vars
<1>2. ~ (GaleraStep \/ LifeCycle)
  BY <1>1, ServersKeepRecord, CommandsKeepRecord
<1>3. ~ Scenario
  <2>1. ~ (Remember \/ Spawn \/ WorkerChanges \/ WorkerEnds \/ WorkerDies \/ Work)
    BY <1>1 DEF Remember, Spawn, WorkerChanges, WorkerEnds, WorkerDies, Work
  <2>2. ~ (ProbeBefore \/ Note \/ ProbeDuring \/ HoldEnds \/ Reconcile \/ ScenarioStops)
    BY <1>1 DEF ProbeBefore, Note, ProbeDuring, HoldEnds, Reconcile, ScenarioStops, NoEffect, incident
  <2>3. \A n \in NODES : ~ Disrupt(n)
    BY <1>1 DEF Disrupt, Quiet
  <2>4. \A op, n : ~ BeginScenario(op, n)
    BY DEF BeginScenario
  <2> QED BY <2>1, <2>2, <2>3, <2>4 DEF Scenario
<1>4. RepairEnds
  <2>1. ~ (BeginRepair \/ RepairResume \/ RepairStart)
    BY <1>1 DEF BeginRepair, RepairResume, RepairStart, Begin, Quiet, NoEffect, incident
  <2>2. ~ (RepairCancel \/ RepairLogging \/ RepairWait)
    BY <1>1 DEF RepairCancel, RepairLogging, RepairWait
  <2> QED BY <1>1, <1>2, <1>3, <2>1, <2>2 DEF Next, Repair
<1>5. report' = Verdict(cmd.status, cmd.err)
  BY <1>1, <1>4 DEF RepairEnds
<1>6. cmd.status = "passed" /\ ~ cmd.err
  BY <1>5 DEF Verdict
<1>7. ~ journal'.open
  BY <1>4, <1>6, FreshRecord DEF RepairEnds, MayUnlink
<1>8. Changed' = {}
  BY <1>7, CleanAfter
<1>9. cmd.op \in Faults => Observed(cmd.op, cmd.seen) /\ \A n \in NODES : cmd.ids \subseteq disk[n].data
  BY <1>6, InvFacts DEF CommandInv, PassFits
<1> QED BY <1>7, <1>8, <1>9

-----------------------------------------------------------------------------
(* The run's specification is a behaviour of the cluster and one of the data commands. *)
LEMMA RunIsLab == MCSpec => Spec
<1>1. MCInit => Init
  BY DEF MCInit
<1>2. [MCNext]_<<vars, dataVars>> => [Next]_vars
  BY DEF MCNext
<1> QED BY <1>1, <1>2, PTL DEF MCSpec, Spec

LEMMA RunIsData == MCSpec => DataSpec
<1>1. MCInit => DataInit
  BY DEF MCInit
<1>2. [MCNext]_<<vars, dataVars>> => [DataNext]_dataVars
  BY DEF MCNext
<1> QED BY <1>1, <1>2, PTL DEF MCSpec, DataSpec

(* The nodes, settings and commands of the laboratory keep their types. *)
THEOREM GaleraTypes == Spec => []TypeOK
<1>1. GaleraInv => TypeOK
  BY DEF GaleraInv, ClusterInv
<1> QED BY <1>1, GaleraInvariant, PTL

(***************************************************************************)
(* Runner.execute and recover_pending keep the fault journal: the record   *)
(* is on disk before a node is killed or paused or a setting changed, and  *)
(* is removed only when nothing of it is left, wherever a command stopped. *)
(***************************************************************************)
THEOREM IncidentsKeepTheirJournal == Spec => JournalSpec
<1>1. GaleraInv /\ GaleraInv' /\ [Next]_vars => [J!Next \/ UNCHANGED <<journal.open, Changed>>]_vars
  BY IncidentStep
<1> QED BY <1>1, GaleraInvariant, PTL DEF Spec, JournalSpec

(***************************************************************************)
(* A scenario that summary.json reports as passed has seen the effect of   *)
(* its fault and found every promised write on every node, and it left no  *)
(* hurt node, no changed setting and no record behind.                     *)
(***************************************************************************)
THEOREM PassesAreTrue == Spec => PassedIsTrue
<1>1. GaleraInv /\ GaleraInv' /\ [Next]_vars => [PassHolds]_vars
  BY PassIsTrueStep
<1>2. [PassHolds]_vars
      => [ report' = "passed" /\ report # "passed" =>
             /\ ~ journal'.open /\ Changed' = {}
             /\ cmd.op \in Faults => Observed(cmd.op, cmd.seen) /\ \A n \in NODES : cmd.ids \subseteq disk[n].data ]_vars
  BY DEF PassHolds
<1> QED BY <1>1, <1>2, GaleraInvariant, PTL DEF Spec, PassedIsTrue

(***************************************************************************)
(* What the run checks of its composition follows for every value of the   *)
(* constants: the scenarios keep their journal, and what they report as    *)
(* passed, and the load as measured, was so.                               *)
(***************************************************************************)
THEOREM RunKeepsJournal == MCSpec => JournalSpec
  BY RunIsLab, IncidentsKeepTheirJournal, PTL

(* A "passed" of a scenario and a PASS of a load are true, whichever of the two a behaviour exercises. *)
THEOREM ReportsStayTrue == MCSpec => ReportsAreTrue
<1>1. MCSpec => PassedIsTrue
  BY RunIsLab, PassesAreTrue, PTL
<1>2. MCSpec => MeasurementsAreHonest
  BY RunIsData, MeasurementsStayHonest, PTL
<1> QED BY <1>1, <1>2, PTL DEF ReportsAreTrue
=============================================================================
