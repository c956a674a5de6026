------------------------------- MODULE MvpProofs -------------------------------
(***************************************************************************)
(* Proofs about the storefront and its tools: the cached copy of an order  *)
(* and its inspection (OrderCache), the acceptance suite (Acceptance), the *)
(* connections and the health receipt (MvpService), the message recovery   *)
(* lab (MessageLab), and the tools that break and restore the storefront   *)
(* (MvpControl).                                                           *)
(***************************************************************************)
EXTENDS MessageLab, OrderCache, Acceptance, MvpService, MvpControl, TLAPS, FiniteSetTheorems, SequenceTheorems

-----------------------------------------------------------------------------
(* The cached copy of an order. *)

(* A version that has not been superseded has been superseded for no time. *)
CurrentIsFresh == \A v \in Versions : v >= db => since[v] = 0

(* What a reader holds between its SQL read and its SET was current when it read it. *)
HeldIsRecent ==
    \A r \in Readers : step[r] = "fill" =>
        /\ held[r] \in 1..db
        /\ held[r] < db => since[held[r]] <= age[r]

(* The inspection: a first row that is still current makes equal what a second read would say. *)
LookIsFenced ==
    /\ look.at # "idle" => look.first \in 1..db
    /\ look.at # "done" => look.verdict = "none"
    /\ look.at = "last" /\ look.first = db => (look.equal <=> look.seen = db)

CacheInv ==
    /\ CacheTypeOK
    /\ CurrentIsFresh
    /\ HeldIsRecent
    /\ entry <= db
    /\ StalenessIsBounded
    /\ LookIsFenced
    /\ InspectionIsSound

(* The inductive invariant of the cache holds at the start. *)
LEMMA CacheInitially == CacheInit => CacheInv
  <1> USE CacheAssumption DEF CacheInit, Versions, Horizon, NotLooking
  <1> SUFFICES ASSUME CacheInit PROVE CacheInv
    OBVIOUS
  <1>1. CacheTypeOK
    BY DEF CacheTypeOK
  <1>2. CurrentIsFresh /\ HeldIsRecent /\ entry <= db /\ StalenessIsBounded
    BY DEF CurrentIsFresh, HeldIsRecent, StalenessIsBounded
  <1>3. LookIsFenced /\ InspectionIsSound
    BY DEF LookIsFenced, InspectionIsSound
  <1> QED BY <1>1, <1>2, <1>3 DEF CacheInv

(* The readers: a hit, a miss, the SQL read, and the fill that may fail. *)
LEMMA ReaderKeepsCacheInv ==
    ASSUME CacheInv, NEW r \in Readers, CacheHit(r) \/ CacheMiss(r) \/ ReaderStep(r)
    PROVE  CacheInv'
  <1> USE CacheAssumption DEF Versions, Horizon, CacheInv
  <1>1. CASE CacheHit(r)
    BY <1>1 DEF CacheHit, cacheVars, reader, CacheTypeOK, CurrentIsFresh, HeldIsRecent, StalenessIsBounded,
                LookIsFenced, InspectionIsSound
  <1>2. CASE CacheMiss(r)
    <2> USE <1>2 DEF CacheMiss
    <2>1. CacheTypeOK'
      BY DEF CacheTypeOK
    <2>2. HeldIsRecent'
      BY DEF CacheTypeOK, HeldIsRecent
    <2>3. CurrentIsFresh' /\ (entry <= db)' /\ StalenessIsBounded' /\ LookIsFenced' /\ InspectionIsSound'
      BY DEF CurrentIsFresh, StalenessIsBounded, LookIsFenced, InspectionIsSound
    <2> QED BY <2>1, <2>2, <2>3
  <1>3. CASE ReadSql(r)
    <2> USE <1>3 DEF ReadSql
    <2>1. CacheTypeOK'
      <3>1. db \in 0..LastVersion /\ 0 \in 0..FillTime
        BY DEF CacheTypeOK
      <3>2. held' \in [Readers -> 0..LastVersion] /\ age' \in [Readers -> 0..FillTime]
        BY <3>1 DEF CacheTypeOK
      <3>3. step' \in [Readers -> {"idle", "sql", "fill"}]
        BY DEF CacheTypeOK
      <3> QED BY <3>2, <3>3 DEF CacheTypeOK
    <2>2. HeldIsRecent'
      BY DEF CacheTypeOK, HeldIsRecent
    <2>3. CurrentIsFresh' /\ (entry <= db)' /\ StalenessIsBounded' /\ LookIsFenced' /\ InspectionIsSound'
      BY DEF CurrentIsFresh, StalenessIsBounded, LookIsFenced, InspectionIsSound
    <2> QED BY <2>1, <2>2, <2>3
  <1>4. CASE Fill(r)
    <2> USE <1>4 DEF Fill, Answered
    <2>1. held[r] \in 1..db /\ (held[r] < db => since[held[r]] <= age[r]) /\ age[r] \in 0..FillTime /\ db \in Versions
      BY DEF HeldIsRecent, CacheTypeOK
    <2>2. CacheTypeOK'
      <3>1. 0 \in 0..LastVersion /\ 0 \in 0..FillTime
        OBVIOUS
      <3>2. held' \in [Readers -> 0..LastVersion] /\ age' \in [Readers -> 0..FillTime]
        BY <3>1 DEF CacheTypeOK
      <3>3. step' \in [Readers -> {"idle", "sql", "fill"}]
        BY DEF CacheTypeOK
      <3>4. entry' \in 1..LastVersion /\ ttl' \in 1..Ttl
        BY <2>1
      <3>5. /\ entry' \in 0..LastVersion /\ ttl' \in 0..Ttl
            /\ entry' # 0 /\ ttl' # 0
        BY <3>4
      <3> HIDE <1>4 DEF Fill
      <3>6. UNCHANGED <<db, since, owed, events, look>>
        BY <1>4 DEF Fill
      <3> QED BY <3>2, <3>3, <3>5, <3>6 DEF CacheTypeOK
    <2>3. HeldIsRecent'
      BY DEF CacheTypeOK, HeldIsRecent
    <2>4. (entry <= db)' /\ StalenessIsBounded'
      BY <2>1 DEF StalenessIsBounded, CacheTypeOK
    <2>5. CurrentIsFresh' /\ LookIsFenced' /\ InspectionIsSound'
      BY DEF CurrentIsFresh, LookIsFenced, InspectionIsSound
    <2> QED BY <2>2, <2>3, <2>4, <2>5
  <1>5. CASE FillFails(r)
    <2> USE <1>5 DEF FillFails, Answered
    <2>1. CacheTypeOK'
      BY DEF CacheTypeOK
    <2>2. HeldIsRecent'
      BY DEF CacheTypeOK, HeldIsRecent
    <2>3. CurrentIsFresh' /\ (entry <= db)' /\ StalenessIsBounded' /\ LookIsFenced' /\ InspectionIsSound'
      BY DEF CurrentIsFresh, StalenessIsBounded, LookIsFenced, InspectionIsSound
    <2> QED BY <2>1, <2>2, <2>3
  <1> QED BY <1>1, <1>2, <1>3, <1>4, <1>5 DEF ReaderStep

(* The writers: the commit supersedes a version that was current until now; a deletion forgets. *)
LEMMA WriterKeepsCacheInv ==
    ASSUME CacheInv, CommitUpdate \/ \E v \in Versions : Invalidate(v) \/ ProjectorDelete(v)
    PROVE  CacheInv'
  <1> USE CacheAssumption DEF Versions, Horizon, CacheInv
  <1>1. CASE CommitUpdate
    <2> USE <1>1 DEF CommitUpdate, reader
    <2>1. CacheTypeOK'
      BY DEF CacheTypeOK
    <2>2. CurrentIsFresh' /\ (entry <= db)'
      BY DEF CacheTypeOK, CurrentIsFresh
    <2>3. HeldIsRecent'
      BY DEF CacheTypeOK, HeldIsRecent, CurrentIsFresh
    <2>4. StalenessIsBounded'
      BY DEF CacheTypeOK, StalenessIsBounded, CurrentIsFresh
    <2>5. LookIsFenced' /\ InspectionIsSound'
      BY DEF CacheTypeOK, LookIsFenced, InspectionIsSound
    <2> QED BY <2>1, <2>2, <2>3, <2>4, <2>5
  <1>2. ASSUME NEW v \in Versions, Invalidate(v) \/ ProjectorDelete(v)
        PROVE  CacheInv'
    <2>1. /\ UNCHANGED <<db, since, reader, look>>
          /\ Delete \/ UNCHANGED <<entry, ttl>>
          /\ owed' \subseteq owed /\ events' \subseteq events
      BY <1>2 DEF Invalidate, ProjectorDelete
    <2>2. CacheTypeOK'
      <3>1. entry' \in 0..LastVersion /\ ttl' \in 0..Ttl /\ ((entry' = 0) <=> (ttl' = 0))
        <4>1. CASE Delete
          BY <4>1 DEF Delete
        <4>2. CASE UNCHANGED <<entry, ttl>>
          BY <4>2 DEF CacheTypeOK
        <4> QED BY <2>1, <4>1, <4>2
      <3> QED BY <2>1, <3>1 DEF CacheTypeOK, reader
    <2>3. CurrentIsFresh' /\ HeldIsRecent' /\ LookIsFenced' /\ InspectionIsSound'
      BY <2>1 DEF CurrentIsFresh, HeldIsRecent, LookIsFenced, InspectionIsSound, reader
    <2>4. (entry <= db)' /\ StalenessIsBounded'
      <3>1. CASE Delete
        BY <2>1, <3>1 DEF CacheTypeOK, StalenessIsBounded, Delete
      <3>2. CASE UNCHANGED <<entry, ttl>>
        BY <2>1, <3>2 DEF StalenessIsBounded
      <3> QED BY <2>1, <3>1, <3>2
    <2> QED BY <2>2, <2>3, <2>4
  <1> QED BY <1>1, <1>2

(* The inspection reads and changes nothing but its own notes. *)
LEMMA InspectionKeepsCacheInv ==
    ASSUME CacheInv, InspectFirst \/ InspectCache \/ InspectLast \/ InspectDone
    PROVE  CacheInv'
  <1> USE CacheAssumption DEF Versions, Horizon, CacheInv
  <1>1. UNCHANGED <<db, entry, ttl, since, step, held, age, owed, events>>
    BY DEF InspectFirst, InspectCache, InspectLast, InspectDone, reader
  <1>2. CurrentIsFresh' /\ HeldIsRecent' /\ (entry <= db)' /\ StalenessIsBounded'
    BY <1>1 DEF CurrentIsFresh, HeldIsRecent, StalenessIsBounded
  <1>3. CASE InspectFirst
    <2>1. look' = [at |-> "cache", first |-> db, seen |-> 0, equal |-> FALSE, verdict |-> "none"]
      BY <1>3 DEF InspectFirst, NotLooking
    <2>2. CacheTypeOK'
      BY <1>1, <2>1 DEF CacheTypeOK
    <2>3. LookIsFenced' /\ InspectionIsSound'
      BY <1>1, <2>1 DEF CacheTypeOK, LookIsFenced, InspectionIsSound
    <2> QED BY <1>2, <2>2, <2>3
  <1>4. CASE InspectCache
    <2> DEFINE equal == entry = db
    <2>1. look.at = "cache" /\ look' = [look EXCEPT !.at = "last", !.seen = entry, !.equal = equal]
      BY <1>4 DEF InspectCache
    <2>2. equal \in BOOLEAN
      OBVIOUS
    <2>3. look' \in [at : {"idle", "cache", "last", "done"}, first : 0..LastVersion, seen : 0..LastVersion,
                    equal : BOOLEAN, verdict : {"none", "unknown", "missing", "match", "mismatch"}]
      <3> HIDE DEF equal
      <3> QED BY <2>1, <2>2 DEF CacheTypeOK
    <2>4. CacheTypeOK'
      BY <1>1, <2>3 DEF CacheTypeOK
    <2>5. look'.at = "last" /\ look'.first = look.first /\ look'.seen = entry /\ look'.equal = equal
          /\ look'.verdict = look.verdict
      <3> HIDE DEF equal
      <3> QED BY <2>1 DEF CacheTypeOK
    <2>6. LookIsFenced' /\ InspectionIsSound'
      BY <1>1, <2>1, <2>5 DEF CacheTypeOK, LookIsFenced, InspectionIsSound
    <2> QED BY <1>2, <2>4, <2>6
  <1>5. CASE InspectLast
    <2> PICK verdict \in {Verdict(look.first, look.seen, db), "unknown"} :
            look' = [look EXCEPT !.at = "done", !.verdict = verdict]
      BY <1>5 DEF InspectLast
    <2>1. look.at = "last"
      BY <1>5 DEF InspectLast
    <2>2. verdict \in {"unknown", "missing", "match", "mismatch"}
      BY DEF Verdict
    <2>3. CacheTypeOK'
      BY <1>1, <2>2 DEF CacheTypeOK
    <2>4. /\ verdict = "match" => look.first = db /\ look.seen = db
          /\ verdict = "mismatch" => look.first = db /\ look.seen # db
      BY DEF Verdict
    <2>5. InspectionIsSound'
      BY <2>1, <2>4 DEF CacheTypeOK, LookIsFenced, InspectionIsSound
    <2>6. LookIsFenced'
      BY <1>1, <2>1 DEF CacheTypeOK, LookIsFenced
    <2> QED BY <1>2, <2>3, <2>5, <2>6
  <1>6. CASE InspectDone
    <2>1. look' = [at |-> "idle", first |-> 0, seen |-> 0, equal |-> FALSE, verdict |-> "none"]
      BY <1>6 DEF InspectDone, NotLooking
    <2>2. CacheTypeOK'
      BY <1>1, <2>1 DEF CacheTypeOK
    <2>3. LookIsFenced' /\ InspectionIsSound'
      BY <2>1 DEF LookIsFenced, InspectionIsSound
    <2> QED BY <1>2, <2>2, <2>3
  <1> QED BY <1>3, <1>4, <1>5, <1>6

(* A tick ages what is superseded, what is held and what is cached alike. *)
LEMMA TickKeepsCacheInv ==
    ASSUME CacheInv, Tick
    PROVE  CacheInv'
  <1> USE CacheAssumption DEF Versions, Horizon, CacheInv, Tick
  <1>1. \A v \in Versions : /\ since'[v] \in since[v]..since[v] + 1
                            /\ v >= db => since'[v] = since[v]
    BY DEF CacheTypeOK
  <1>2. CacheTypeOK'
    <2>1. since' \in [Versions -> 0..Horizon]
      BY DEF CacheTypeOK
    <2>2. age' \in [Readers -> 0..FillTime]
      BY DEF CacheTypeOK
    <2>3. entry' \in 0..LastVersion /\ ttl' \in 0..Ttl /\ ((entry' = 0) <=> (ttl' = 0))
      BY DEF CacheTypeOK
    <2> QED BY <2>1, <2>2, <2>3 DEF CacheTypeOK
  <1>3. CurrentIsFresh'
    BY <1>1 DEF CacheTypeOK, CurrentIsFresh
  <1>4. HeldIsRecent'
    <2> SUFFICES ASSUME NEW r \in Readers, step[r] = "fill"
                 PROVE  held[r] \in 1..db /\ (held[r] < db => since'[held[r]] <= age'[r])
      BY DEF HeldIsRecent
    <2>1. /\ held[r] \in 1..db /\ (held[r] < db => since[held[r]] <= age[r])
          /\ age'[r] = age[r] + 1 /\ age[r] \in Int /\ db \in Versions
      BY DEF HeldIsRecent, CacheTypeOK
    <2>2. since[held[r]] \in Int /\ since'[held[r]] \in since[held[r]]..since[held[r]] + 1
      <3>1. held[r] \in Versions
        BY <2>1
      <3>2. since[held[r]] \in 0..Horizon
        BY <3>1 DEF CacheTypeOK
      <3> QED BY <1>1, <3>1, <3>2
    <2> QED BY <2>1, <2>2
  <1>5. (entry <= db)' /\ StalenessIsBounded'
    BY <1>1 DEF CacheTypeOK, StalenessIsBounded
  <1>6. LookIsFenced' /\ InspectionIsSound'
    BY DEF LookIsFenced, InspectionIsSound
  <1> QED BY <1>2, <1>3, <1>4, <1>5, <1>6

(* The cache invariant holds in every reachable state, whatever the readers, versions and times. *)
THEOREM CacheInvariant == CacheSpec => []CacheInv
  <1>1. CacheInv /\ [CacheNext]_cacheVars => CacheInv'
    <2> SUFFICES ASSUME CacheInv, [CacheNext]_cacheVars PROVE CacheInv'
      OBVIOUS
    <2>1. CASE UNCHANGED cacheVars
      BY <2>1 DEF cacheVars, reader, CacheInv, CacheTypeOK, CurrentIsFresh, HeldIsRecent, StalenessIsBounded,
                  LookIsFenced, InspectionIsSound
    <2>2. CASE CacheNext
      BY <2>2, ReaderKeepsCacheInv, WriterKeepsCacheInv, InspectionKeepsCacheInv, TickKeepsCacheInv DEF CacheNext
    <2> QED BY <2>1, <2>2
  <1> QED BY <1>1, CacheInitially, PTL DEF CacheSpec

(***************************************************************************)
(* Whatever interleaving of slow fills, lost invalidations and writes, the *)
(* version Redis serves was current within FillTime plus the entry's age.  *)
(***************************************************************************)
THEOREM CacheStalenessIsBounded == CacheSpec => []StalenessIsBounded
  <1>1. CacheInv => StalenessIsBounded
    BY DEF CacheInv
  <1> QED BY <1>1, CacheInvariant, PTL

(* The inspection's match and mismatch are true of the moment it read Redis, however SQL moves around it. *)
THEOREM CacheInspectionIsSound == CacheSpec => []InspectionIsSound
  <1>1. CacheInv => InspectionIsSound
    BY DEF CacheInv
  <1> QED BY <1>1, CacheInvariant, PTL

-----------------------------------------------------------------------------
(* The acceptance suite. *)

(* Which row each phase of Gate.run is about. *)
PhasesKnowTheirRow ==
    /\ gate.at \in {"new", "enter", "preflight"} => gate.i = 1
    /\ gate.at = "probe" => gate.i \in {2, 3}
    /\ gate.at \in {"check", "execute", "recheck"} => gate.i \in ScenarioRows
    /\ gate.at = "execute" => child.row = gate.i
    /\ gate.at \in {"new", "enter", "preflight", "probe"} => child.at = "none"

(* The rows before the current one have passed, the ones after it have not begun. *)
RowsInOrder ==
    \A j \in Rows :
        /\ j < gate.i => row[j] = "passed" /\ told.row[j] = "passed"
        /\ j > gate.i => row[j] = "not_run" /\ told.row[j] = "not_run"

(* The lock of preflight keeps the images still until the probes have compared them. *)
ImagesAreTested ==
    /\ gate.at = "probe" => mlock = "gate" /\ gate.initial = stack.image
    /\ gate.at \in {"check", "execute", "recheck"} \/ gate.verdict = "passed" => gate.initial = gate.expected

(* The evidence of row j is of a command of its own that ended well. *)
Earned(j) ==
    /\ proof[j].row = j /\ proof[j].rc = 0
    /\ ~ proof[j].timed /\ ~ proof[j].interrupted
    /\ proof[j].fresh /\ proof[j].status = "passed" /\ proof[j].restored

ProofIsEarned ==
    \A j \in ScenarioRows : row[j] = "passed" \/ (gate.at = "recheck" /\ j = gate.i) => Earned(j)

(* What the verdict in memory, in summary.json and in the bundle say of one another. *)
VerdictsFollow ==
    /\ gate.verdict = "passed" => gate.at \in {"final", "over", "dead"} /\ gate.i = Scenarios + 3
    /\ gate.verdict = "passed" /\ gate.at = "final" => row[gate.i] = "passed"
    /\ told.verdict = "passed" => /\ gate.at = "over" /\ gate.verdict = "passed"
                                  /\ told.row = row /\ \A j \in Rows : row[j] = "passed"
    /\ shared = "passed" => told.verdict = "passed"

AccInv ==
    /\ AccTypeOK
    /\ PhasesKnowTheirRow
    /\ RowsInOrder
    /\ ImagesAreTested
    /\ ProofIsEarned
    /\ VerdictsFollow

(* The inductive invariant of the suite holds at the start. *)
LEMMA AcceptanceInitially == AccInit => AccInv
  <1> USE AcceptanceAssumption DEF AccInit, Rows, ScenarioRows, Sources, RowStatus, Child, NoChild, NoProof
  <1> SUFFICES ASSUME AccInit PROVE AccInv
    OBVIOUS
  <1>1. AccTypeOK
    BY DEF AccTypeOK
  <1>2. PhasesKnowTheirRow /\ RowsInOrder /\ ImagesAreTested
    BY DEF PhasesKnowTheirRow, RowsInOrder, ImagesAreTested
  <1>3. ProofIsEarned /\ VerdictsFollow
    BY DEF ProofIsEarned, VerdictsFollow
  <1> QED BY <1>1, <1>2, <1>3 DEF AccInv

(* A row that fails, is blocked or aborted ends the suite and loses nothing that was earned. *)
LEMMA FailRowKeepsAccInv ==
    ASSUME AccInv, NEW status \in RowStatus \ {"passed"}, FailRow(status),
           gate.at \notin {"new", "final", "over", "dead"},
           UNCHANGED <<stack, child, shared, others>>, mlock' \in {"free", "gate", "child", "other"}
    PROVE  AccInv'
  <1> USE AcceptanceAssumption DEF AccInv, FailRow
  <1>1. /\ gate.i \in Rows
        /\ gate'.at = "final" /\ gate'.verdict = status /\ gate'.i = gate.i
        /\ gate'.expected = gate.expected /\ gate'.initial = gate.initial
    BY DEF AccTypeOK
  <1>2. /\ row'[gate.i] = status
        /\ \A j \in Rows : j # gate.i => row'[j] = row[j]
    BY <1>1 DEF AccTypeOK
  <1>3. AccTypeOK'
    BY DEF AccTypeOK
  <1>4. PhasesKnowTheirRow'
    BY <1>1 DEF PhasesKnowTheirRow
  <1>5. RowsInOrder'
    BY <1>1, <1>2 DEF RowsInOrder, Rows
  <1>6. ImagesAreTested'
    BY <1>1 DEF ImagesAreTested
  <1>7. ProofIsEarned'
    BY <1>1, <1>2 DEF ProofIsEarned, Earned, Rows, ScenarioRows
  <1>8. VerdictsFollow'
    BY <1>1 DEF VerdictsFollow
  <1> QED BY <1>3, <1>4, <1>5, <1>6, <1>7, <1>8

(* The same for a command or a check that is refused. *)
LEMMA RefusedKeepsAccInv ==
    ASSUME AccInv, Refused,
           gate.at \notin {"new", "final", "over", "dead"},
           UNCHANGED <<stack, child, shared, others>>, mlock' \in {"free", "gate", "child", "other"}
    PROVE  AccInv'
  <1> PICK status \in {"blocked", "failed"} : FailRow(status)
    BY DEF Refused
  <1>1. status \in RowStatus \ {"passed"}
    BY DEF RowStatus
  <1> QED BY <1>1, FailRowKeepsAccInv

(***************************************************************************)
(* A row that passes hands over to the next one: the step of preflight, of *)
(* the probes and of CheckAfter, told apart by where they go.              *)
(***************************************************************************)
LEMMA PassedRowKeepsAccInv ==
    ASSUME AccInv, NEW label \in {"probe", "check"},
           gate.at \in {"preflight", "probe", "recheck"}, gate.i + 1 \in Rows,
           gate'.at = label, gate'.i = gate.i + 1, gate'.verdict = gate.verdict,
           gate'.expected = gate.expected, gate'.initial \in Sources,
           gate' \in [at : {"probe", "check"}, i : Rows, verdict : RowStatus \cup {"none"},
                      expected : Sources \cup {"none"}, initial : Sources \cup {"none"}],
           Persisted([row EXCEPT ![gate.i] = "passed", ![gate.i + 1] = "running"]),
           UNCHANGED <<stack, child, proof, shared, others>>,
           mlock' \in {"free", "gate", "child", "other"},
           label = "probe" => gate.i \in {1, 2} /\ mlock' = "gate" /\ gate'.initial = stack.image /\ gate.at # "recheck",
           label = "check" => gate.i >= 3 /\ gate'.initial = gate.expected
    PROVE  AccInv'
  <1> USE AcceptanceAssumption DEF AccInv, Persisted
  <1>1. gate.i \in Rows /\ gate.i \in Int /\ gate.at \notin {"final", "over", "dead"}
    BY DEF AccTypeOK, Rows
  <1>2. /\ row'[gate.i] = "passed" /\ row'[gate.i + 1] = "running"
        /\ \A j \in Rows : j # gate.i /\ j # gate.i + 1 => row'[j] = row[j]
        /\ row' \in [Rows -> RowStatus]
    BY <1>1 DEF AccTypeOK, RowStatus
  <1>3. told'.row = row' /\ told'.verdict = told.verdict
        /\ told' \in [verdict : RowStatus \cup {"none"}, row : [Rows -> RowStatus]]
    BY <1>2 DEF AccTypeOK
  <1>4. AccTypeOK'
    BY <1>2, <1>3 DEF AccTypeOK
  <1>5. PhasesKnowTheirRow'
    BY <1>1 DEF PhasesKnowTheirRow, ScenarioRows, Rows
  <1>6. RowsInOrder'
    BY <1>1, <1>2, <1>3 DEF RowsInOrder, Rows
  <1>7. gate.verdict # "passed"
    BY <1>1 DEF VerdictsFollow
  <1>8. ImagesAreTested'
    BY <1>7 DEF ImagesAreTested
  <1>9. ProofIsEarned'
    <2> SUFFICES ASSUME NEW j \in ScenarioRows, row'[j] = "passed" PROVE Earned(j)
      BY DEF ProofIsEarned, Earned
    <2>1. CASE j = gate.i
      BY <2>1 DEF ProofIsEarned, PhasesKnowTheirRow, ScenarioRows
    <2>2. CASE j # gate.i
      BY <2>2, <1>2 DEF ProofIsEarned, ScenarioRows, Rows
    <2> QED BY <2>1, <2>2
  <1>10. VerdictsFollow'
    BY <1>1, <1>3, <1>7 DEF VerdictsFollow
  <1> QED BY <1>4, <1>5, <1>6, <1>8, <1>9, <1>10

(* The probes: manifest, suite lock, preflight and the comparison of the images. *)
LEMMA ProbesKeepAccInv ==
    ASSUME AccInv, NewGate \/ EnterSuite \/ GatePreflight \/ Probe
    PROVE  AccInv'
  <1> USE AcceptanceAssumption
  <1>0. mlock \in {"free", "gate", "child", "other"} /\ AccTypeOK
    BY DEF AccInv, AccTypeOK
  <1>1. CASE NewGate
    <2> USE <1>1 DEF NewGate, AccInv
    <2>1. /\ gate.at = "new" /\ gate'.at = "enter" /\ gate'.i = gate.i /\ gate'.verdict = "blocked"
          /\ told'.row = told.row /\ told'.verdict = "blocked"
      BY DEF AccTypeOK
    <2>2. AccTypeOK'
      BY DEF AccTypeOK, RowStatus
    <2>3. PhasesKnowTheirRow' /\ RowsInOrder' /\ ImagesAreTested'
      BY <2>1 DEF PhasesKnowTheirRow, RowsInOrder, ImagesAreTested
    <2>4. ProofIsEarned'
      BY <2>1 DEF ProofIsEarned, Earned
    <2>5. VerdictsFollow'
      BY <2>1 DEF VerdictsFollow
    <2> QED BY <2>2, <2>3, <2>4, <2>5
  <1>2. CASE EnterSuite
    <2>1. CASE Refused
      BY <1>0, <1>2, <2>1, RefusedKeepsAccInv DEF EnterSuite
    <2>2. CASE /\ Persisted([row EXCEPT ![1] = "running"])
               /\ At("preflight", 1) /\ UNCHANGED proof
      <3> USE <1>2, <2>2 DEF EnterSuite, AccInv, Persisted, At
      <3>1. /\ gate.at = "enter" /\ gate.i = 1 /\ gate'.at = "preflight" /\ gate'.i = 1
            /\ gate'.verdict = gate.verdict /\ 1 \in Rows
        BY DEF AccTypeOK, PhasesKnowTheirRow, Rows
      <3>2. /\ row'[1] = "running" /\ \A j \in Rows : j # 1 => row'[j] = row[j]
            /\ row' \in [Rows -> RowStatus]
            /\ told'.row = row' /\ told'.verdict = told.verdict
            /\ told' \in [verdict : RowStatus \cup {"none"}, row : [Rows -> RowStatus]]
        BY <3>1 DEF AccTypeOK, RowStatus
      <3>3. AccTypeOK'
        BY <3>1, <3>2 DEF AccTypeOK
      <3>4. PhasesKnowTheirRow' /\ ImagesAreTested'
        BY <3>1 DEF PhasesKnowTheirRow, ImagesAreTested, VerdictsFollow
      <3>5. RowsInOrder'
        BY <3>1, <3>2 DEF RowsInOrder, Rows
      <3>6. ProofIsEarned'
        BY <3>1, <3>2 DEF ProofIsEarned, Earned, ScenarioRows, Rows
      <3>7. VerdictsFollow'
        BY <3>1, <3>2 DEF VerdictsFollow
      <3> QED BY <3>3, <3>4, <3>5, <3>6, <3>7
    <2> QED BY <1>2, <2>1, <2>2 DEF EnterSuite
  <1>3. CASE GatePreflight
    <2>1. CASE Refused /\ UNCHANGED mlock
      BY <1>0, <1>3, <2>1, RefusedKeepsAccInv DEF GatePreflight
    <2>2. CASE /\ mlock = "free" /\ ~ stack.marker /\ mlock' = "gate"
               /\ Persisted([row EXCEPT ![1] = "passed", ![2] = "running"])
               /\ gate' = [gate EXCEPT !.at = "probe", !.i = 2, !.initial = stack.image]
               /\ UNCHANGED proof
      <3>1. /\ gate.at = "preflight" /\ gate.i = 1 /\ 2 \in Rows /\ stack.image \in Sources
        BY <1>3 DEF GatePreflight, AccInv, AccTypeOK, PhasesKnowTheirRow, Rows
      <3>2. /\ gate'.at = "probe" /\ gate'.i = gate.i + 1 /\ gate'.verdict = gate.verdict
            /\ gate'.expected = gate.expected /\ gate'.initial = stack.image
            /\ gate' \in [at : {"probe", "check"}, i : Rows, verdict : RowStatus \cup {"none"},
                          expected : Sources \cup {"none"}, initial : Sources \cup {"none"}]
        <4> DEFINE image == stack.image
        <4>1. image \in Sources /\ gate' = [gate EXCEPT !.at = "probe", !.i = 2, !.initial = image]
          BY <2>2, <3>1
        <4> HIDE DEF image
        <4>2. /\ gate'.at = "probe" /\ gate'.i = 2 /\ gate'.verdict = gate.verdict
              /\ gate'.expected = gate.expected /\ gate'.initial = image
          BY <4>1, <1>0 DEF AccTypeOK
        <4>3. gate' \in [at : {"probe", "check"}, i : Rows, verdict : RowStatus \cup {"none"},
                         expected : Sources \cup {"none"}, initial : Sources \cup {"none"}]
          BY <4>1, <3>1, <1>0 DEF AccTypeOK
        <4> QED BY <4>2, <4>3, <3>1 DEF image
      <3>3. Persisted([row EXCEPT ![gate.i] = "passed", ![gate.i + 1] = "running"]) /\ gate.i + 1 \in Rows
        BY <2>2, <3>1
      <3>4. UNCHANGED <<stack, child, proof, shared, others>>
        BY <1>3, <2>2 DEF GatePreflight
      <3> QED BY <2>2, <3>1, <3>2, <3>3, <3>4, PassedRowKeepsAccInv
    <2> QED BY <1>3, <2>1, <2>2 DEF GatePreflight
  <1>4. CASE Probe
    <2>1. ASSUME NEW status \in {"failed", "blocked"}, FailRow(status), mlock' = "free"
          PROVE  AccInv'
      <3>1. status \in RowStatus \ {"passed"}
        BY <2>1 DEF RowStatus
      <3> QED BY <1>4, <2>1, <3>1, FailRowKeepsAccInv DEF Probe
    <2>2. CASE /\ RunProbe("passed")
               /\ Persisted([row EXCEPT ![gate.i] = "passed", ![gate.i + 1] = "running"])
               /\ At(IF gate.i = 3 THEN "check" ELSE "probe", gate.i + 1)
               /\ mlock' = (IF gate.i = 3 THEN "free" ELSE "gate")
               /\ UNCHANGED proof
      <3> DEFINE label == IF gate.i = 3 THEN "check" ELSE "probe"
      <3>1. /\ gate.at = "probe" /\ gate.i \in {2, 3} /\ gate.i + 1 \in Rows
            /\ mlock = "gate" /\ gate.initial = stack.image /\ stack.image \in Sources
        BY <1>4 DEF Probe, AccInv, AccTypeOK, PhasesKnowTheirRow, ImagesAreTested, Rows
      <3>2. gate.initial = gate.expected
        BY <2>2, <3>1 DEF RunProbe, CheckSource
      <3>3. /\ gate'.at = label /\ gate'.i = gate.i + 1 /\ gate'.verdict = gate.verdict
            /\ gate'.expected = gate.expected /\ gate'.initial = gate.initial
            /\ gate' \in [at : {"probe", "check"}, i : Rows, verdict : RowStatus \cup {"none"},
                          expected : Sources \cup {"none"}, initial : Sources \cup {"none"}]
        BY <2>2, <3>1, <1>0 DEF AccTypeOK, At
      <3>4. UNCHANGED <<stack, child, proof, shared, others>>
        BY <1>4, <2>2 DEF Probe
      <3>5. label \in {"probe", "check"}
        OBVIOUS
      <3> QED BY <2>2, <3>1, <3>2, <3>3, <3>4, <3>5, PassedRowKeepsAccInv
    <2> QED BY <1>4, <2>1, <2>2 DEF Probe
  <1> QED BY <1>1, <1>2, <1>3, <1>4

(* The child, the lock and other people: none of them writes the suite's own state. *)
LEMMA OthersKeepAccInv ==
    ASSUME AccInv, ChildRuns \/ ChildExits \/ Terminate \/ KillChild \/ OtherBegins \/ OtherEnds \/ EditSource
    PROVE  AccInv'
  <1> USE AcceptanceAssumption DEF AccInv
  <1>1. UNCHANGED <<gate, row, told, proof, shared>>
    BY Zenon DEF ChildRuns, ChildExits, Terminate, KillChild, OtherBegins, OtherEnds, EditSource
  <1>2. AccTypeOK'
    <2>1. CASE ChildRuns
      <3>1. child' \in Child
        <4>1. CASE child' = [child EXCEPT !.at = "running"]
          BY <4>1, ZenonT(40) DEF AccTypeOK, Child
        <4>2. CASE child' = [child EXCEPT !.at = "exited", !.rc = 1]
          BY <4>2, ZenonT(40) DEF AccTypeOK, Child
        <4> QED BY <2>1, <4>1, <4>2 DEF ChildRuns
      <3>2. mlock' \in {"free", "gate", "child", "other"}
        BY <2>1 DEF ChildRuns, AccTypeOK
      <3>3. stack' \in [source : Sources, image : Sources, marker : BOOLEAN]
        BY <2>1 DEF ChildRuns, AccTypeOK
      <3> QED BY <1>1, <2>1, <3>1, <3>2, <3>3 DEF ChildRuns, AccTypeOK
    <2>2. CASE ChildExits
      <3>0. PICK code \in 0..2, fresh \in BOOLEAN, status \in {"passed", "failed", "inconclusive"}, restored \in BOOLEAN :
              /\ child' = [child EXCEPT !.at = "exited", !.rc = code, !.fresh = fresh, !.status = status,
                                        !.restored = restored]
              /\ stack' = [stack EXCEPT !.marker = @ /\ ~ restored]
        BY <2>2 DEF ChildExits
      <3>1. child' \in Child
        <4>1. code \in {0, 1, 2, 137}
          OBVIOUS
        <4>2. child \in Child
          BY DEF AccTypeOK
        <4> DEFINE ended == [child EXCEPT !.at = "exited", !.rc = code]
                   reported == [ended EXCEPT !.fresh = fresh, !.status = status, !.restored = restored]
        <4>3. child' = reported
          BY <3>0
        <4>4. ended \in Child
          BY <4>1, <4>2, ZenonT(40) DEF Child
        <4> HIDE DEF ended
        <4>5. reported \in Child
          BY <4>4, ZenonT(40) DEF Child
        <4> QED BY <4>3, <4>5
      <3>2. stack' \in [source : Sources, image : Sources, marker : BOOLEAN]
        <4> DEFINE flag == stack.marker /\ ~ restored
        <4>1. stack' = [stack EXCEPT !.marker = flag] /\ flag \in BOOLEAN
          BY <3>0
        <4> HIDE DEF flag
        <4> QED BY <4>1 DEF AccTypeOK
      <3> QED BY <1>1, <2>2, <3>1, <3>2 DEF ChildExits, AccTypeOK
    <2>3. CASE Terminate
      <3>1. child' = [child EXCEPT !.timed = TRUE] \/ child' = [child EXCEPT !.interrupted = TRUE]
        BY <2>3 DEF Terminate
      <3>2. child \in Child
        BY DEF AccTypeOK
      <3>3. CASE child' = [child EXCEPT !.timed = TRUE]
        <4>1. child' \in Child
          BY <3>2, <3>3 DEF Child
        <4> QED BY <1>1, <2>3, <4>1 DEF Terminate, AccTypeOK
      <3>4. CASE child' = [child EXCEPT !.interrupted = TRUE]
        <4>1. child' \in Child
          BY <3>2, <3>4 DEF Child
        <4> QED BY <1>1, <2>3, <4>1 DEF Terminate, AccTypeOK
      <3> QED BY <3>1, <3>3, <3>4
    <2>4. CASE KillChild
      BY <2>4, ZenonT(40) DEF KillChild, AccTypeOK, Child
    <2>5. CASE OtherBegins
      BY <2>5 DEF OtherBegins, Meddle, AccTypeOK
    <2>6. CASE OtherEnds
      BY <2>6, ZenonT(40) DEF OtherEnds, AccTypeOK
    <2>7. CASE EditSource
      BY <2>7 DEF EditSource, Meddle, AccTypeOK, Sources
    <2> QED BY <2>1, <2>2, <2>3, <2>4, <2>5, <2>6, <2>7
  <1>3. child'.row = child.row /\ (child.at = "none" => child'.at = "none")
    <2>1. CASE ChildRuns
      <3>1. child.at = "started" /\ child \in Child
        BY <2>1 DEF ChildRuns, AccTypeOK
      <3>2. CASE child' = [child EXCEPT !.at = "running"]
        BY <3>1, <3>2 DEF Child
      <3>3. CASE child' = [child EXCEPT !.at = "exited", !.rc = 1]
        BY <3>1, <3>3 DEF Child
      <3> QED BY <2>1, <3>2, <3>3 DEF ChildRuns
    <2>2. CASE ChildExits
      BY <2>2, ZenonT(40) DEF ChildExits, AccTypeOK, Child
    <2>3. CASE Terminate
      <3>1. child' = [child EXCEPT !.timed = TRUE] \/ child' = [child EXCEPT !.interrupted = TRUE]
        BY <2>3 DEF Terminate
      <3>2. child \in Child
        BY DEF AccTypeOK
      <3> QED BY <3>1, <3>2 DEF Child
    <2>4. CASE OtherBegins \/ OtherEnds \/ EditSource
      BY <2>4, Zenon DEF OtherBegins, OtherEnds, EditSource
    <2>5. CASE KillChild
      BY <2>5 DEF KillChild, AccTypeOK, Child
    <2> QED BY <2>1, <2>2, <2>3, <2>4, <2>5
  <1>4. PhasesKnowTheirRow'
    BY <1>1, <1>3 DEF PhasesKnowTheirRow
  <1>5. gate.at = "probe" => mlock' = "gate" /\ stack'.image = stack.image
    BY DEF ChildRuns, ChildExits, Terminate, KillChild, OtherBegins, OtherEnds, EditSource, AccTypeOK,
           PhasesKnowTheirRow, ImagesAreTested
  <1>6. ImagesAreTested'
    BY <1>1, <1>5 DEF ImagesAreTested
  <1>7. RowsInOrder' /\ ProofIsEarned' /\ VerdictsFollow'
    BY <1>1 DEF RowsInOrder, ProofIsEarned, Earned, VerdictsFollow
  <1> QED BY <1>2, <1>4, <1>6, <1>7

(* The record of a command that CheckBefore starts. *)
LEMMA StartedChild ==
    ASSUME NEW i \in Rows
    PROVE  /\ [NoChild EXCEPT !.at = "started", !.row = i] \in Child
           /\ [NoChild EXCEPT !.at = "started", !.row = i].row = i
  <1>1. i \in 0..Scenarios + 3
    BY AcceptanceAssumption DEF Rows
  <1>2. NoChild \in Child
    BY AcceptanceAssumption DEF NoChild, Child
  <1> QED BY <1>1, <1>2 DEF Child

(* The commands: the check before, the evidence, the check after. *)
LEMMA CommandsKeepAccInv ==
    ASSUME AccInv, CheckBefore \/ RecordResult \/ CheckAfter
    PROVE  AccInv'
  <1> USE AcceptanceAssumption
  <1>0. mlock \in {"free", "gate", "child", "other"} /\ AccTypeOK /\ gate.i \in Rows
    BY DEF AccInv, AccTypeOK
  <1>1. CASE CheckBefore
    <2>1. CASE Refused /\ UNCHANGED child
      BY <1>0, <1>1, <2>1, RefusedKeepsAccInv DEF CheckBefore
    <2>2. CASE /\ At("execute", gate.i)
               /\ child' = [NoChild EXCEPT !.at = "started", !.row = gate.i]
               /\ UNCHANGED <<row, told, proof>>
      <3> USE <1>1, <2>2 DEF CheckBefore, AccInv, At
      <3>1. /\ gate.at = "check" /\ gate'.at = "execute" /\ gate'.i = gate.i /\ gate'.verdict = gate.verdict
            /\ gate'.expected = gate.expected /\ gate'.initial = gate.initial
        BY DEF AccTypeOK
      <3>2. child' \in Child /\ child'.row = gate.i
        BY <1>0, StartedChild
      <3>3. AccTypeOK'
        BY <3>1, <3>2 DEF AccTypeOK
      <3>4. PhasesKnowTheirRow' /\ ImagesAreTested'
        BY <3>1, <3>2 DEF PhasesKnowTheirRow, ImagesAreTested
      <3>5. RowsInOrder' /\ VerdictsFollow'
        BY <3>1 DEF RowsInOrder, VerdictsFollow
      <3>6. ProofIsEarned'
        BY <3>1 DEF ProofIsEarned, Earned
      <3> QED BY <3>3, <3>4, <3>5, <3>6
    <2> QED BY <1>1, <2>1, <2>2 DEF CheckBefore
  <1>2. CASE RecordResult
    <2>1. ASSUME NEW status \in {"failed", "inconclusive", "aborted"}, FailRow(status)
          PROVE  AccInv'
      <3>1. status \in RowStatus \ {"passed"}
        BY <2>1 DEF RowStatus
      <3> QED BY <1>0, <1>2, <2>1, <3>1, FailRowKeepsAccInv DEF RecordResult
    <2>2. Verdicts \in {"failed", "inconclusive", "aborted"}
      BY DEF Verdicts
    <2>3. CASE /\ Completed /\ Valid
               /\ proof' = [proof EXCEPT ![gate.i] = child]
               /\ At("recheck", gate.i)
               /\ UNCHANGED <<row, told>>
      <3> USE <1>2, <2>3 DEF RecordResult, AccInv, At
      <3>1. /\ gate.at = "execute" /\ gate'.at = "recheck" /\ gate'.i = gate.i /\ gate'.verdict = gate.verdict
            /\ gate'.expected = gate.expected /\ gate'.initial = gate.initial
        BY DEF AccTypeOK
      <3>2. AccTypeOK'
        BY <3>1 DEF AccTypeOK
      <3>3. PhasesKnowTheirRow' /\ ImagesAreTested'
        BY <3>1 DEF PhasesKnowTheirRow, ImagesAreTested
      <3>4. RowsInOrder' /\ VerdictsFollow'
        BY <3>1 DEF RowsInOrder, VerdictsFollow
      <3>5. /\ child.row = gate.i /\ child.rc = 0 /\ ~ child.timed /\ ~ child.interrupted
            /\ child.fresh /\ child.status = "passed" /\ child.restored
        BY <3>1 DEF PhasesKnowTheirRow, Completed, Valid
      <3>6. proof'[gate.i] = child /\ \A j \in Rows : j # gate.i => proof'[j] = proof[j]
        BY <1>0 DEF AccTypeOK
      <3>7. ProofIsEarned'
        <4> SUFFICES ASSUME NEW j \in ScenarioRows, row[j] = "passed" \/ j = gate.i
                     PROVE  Earned(j)'
          BY <3>1 DEF ProofIsEarned
        <4>1. CASE j = gate.i
          BY <4>1, <3>5, <3>6 DEF Earned
        <4>2. CASE j # gate.i
          BY <4>2, <3>6 DEF Earned, ProofIsEarned, ScenarioRows, Rows
        <4> QED BY <4>1, <4>2
      <3> QED BY <3>2, <3>3, <3>4, <3>7
    <2> QED BY <1>2, <2>1, <2>2, <2>3 DEF RecordResult
  <1>3. CASE CheckAfter
    <2>1. CASE Refused
      BY <1>0, <1>3, <2>1, RefusedKeepsAccInv DEF CheckAfter
    <2>2. CASE /\ Unchanged /\ gate.i # Scenarios + 3 /\ UNCHANGED proof
               /\ Persisted([row EXCEPT ![gate.i] = "passed", ![gate.i + 1] = "running"])
               /\ At("check", gate.i + 1)
      <3>1. /\ gate.at = "recheck" /\ gate.i \in ScenarioRows /\ gate.i + 1 \in Rows
            /\ gate.initial = gate.expected /\ gate.i >= 3
        BY <1>0, <1>3, <2>2 DEF CheckAfter, AccInv, PhasesKnowTheirRow, ImagesAreTested, Rows, ScenarioRows
      <3>2. gate.initial \in Sources
        BY <1>0, <2>2 DEF AccTypeOK, Unchanged
      <3>3. /\ gate'.at = "check" /\ gate'.i = gate.i + 1 /\ gate'.verdict = gate.verdict
            /\ gate'.expected = gate.expected /\ gate'.initial = gate.initial
            /\ gate' \in [at : {"probe", "check"}, i : Rows, verdict : RowStatus \cup {"none"},
                          expected : Sources \cup {"none"}, initial : Sources \cup {"none"}]
        BY <2>2, <3>1, <1>0 DEF AccTypeOK, At
      <3>4. UNCHANGED <<stack, mlock, child, proof, shared, others>>
        BY <1>3, <2>2 DEF CheckAfter
      <3> QED BY <1>0, <2>2, <3>1, <3>2, <3>3, <3>4, PassedRowKeepsAccInv
    <2>3. CASE /\ gate.i = Scenarios + 3 /\ UNCHANGED proof
               /\ Persisted([row EXCEPT ![gate.i] = "passed"])
               /\ gate' = [gate EXCEPT !.at = "final", !.verdict = "passed"]
      <3> USE <1>3, <2>3 DEF CheckAfter, AccInv, Persisted
      <3>1. /\ gate.at = "recheck" /\ gate'.at = "final" /\ gate'.i = gate.i /\ gate'.verdict = "passed"
            /\ gate'.expected = gate.expected /\ gate'.initial = gate.initial
        BY DEF AccTypeOK
      <3>2. /\ row'[gate.i] = "passed" /\ \A j \in Rows : j # gate.i => row'[j] = row[j]
            /\ row' \in [Rows -> RowStatus]
            /\ told'.row = row' /\ told'.verdict = told.verdict
            /\ told' \in [verdict : RowStatus \cup {"none"}, row : [Rows -> RowStatus]]
        BY <1>0 DEF AccTypeOK, RowStatus
      <3>3. AccTypeOK'
        BY <3>1, <3>2 DEF AccTypeOK, RowStatus
      <3>4. PhasesKnowTheirRow' /\ ImagesAreTested'
        BY <3>1 DEF PhasesKnowTheirRow, ImagesAreTested
      <3>5. RowsInOrder'
        BY <1>0, <3>1, <3>2 DEF RowsInOrder, Rows
      <3>6. ProofIsEarned'
        BY <3>1, <3>2 DEF ProofIsEarned, Earned, ScenarioRows, Rows
      <3>7. VerdictsFollow'
        BY <3>1, <3>2 DEF VerdictsFollow
      <3> QED BY <3>3, <3>4, <3>5, <3>6, <3>7
    <2> QED BY <1>3, <2>1, <2>2, <2>3 DEF CheckAfter
  <1> QED BY <1>1, <1>2, <1>3

(* The end of the suite: an interrupt, the finally block, a death; and the export of what it told. *)
LEMMA EndsKeepAccInv ==
    ASSUME AccInv, InterruptGate \/ FinishGate \/ GateDies \/ Export
    PROVE  AccInv'
  <1> USE AcceptanceAssumption
  <1>0. mlock \in {"free", "gate", "child", "other"} /\ AccTypeOK /\ gate.i \in Rows
    BY DEF AccInv, AccTypeOK
  <1>1. CASE InterruptGate
    <2>1. "aborted" \in RowStatus \ {"passed"}
      BY DEF RowStatus
    <2>2. gate.at \notin {"new", "final", "over", "dead"} /\ FailRow("aborted")
          /\ UNCHANGED <<stack, child, shared, others>>
      BY <1>1 DEF InterruptGate
    <2>3. mlock' \in {"free", "gate", "child", "other"}
      BY <1>0, <1>1 DEF InterruptGate
    <2> QED BY <2>1, <2>2, <2>3, FailRowKeepsAccInv
  <1>2. CASE FinishGate
    <2> DEFINE spoilt == stack.marker /\ gate.verdict = "passed"
    <2> USE <1>2 DEF FinishGate, AccInv, At
    <2>1. /\ gate.at = "final" /\ gate'.at = "over" /\ gate'.i = gate.i /\ gate'.verdict = gate.verdict
          /\ gate'.expected = gate.expected /\ gate'.initial = gate.initial
      BY DEF AccTypeOK
    <2>2. Scenarios + 3 \in Rows
      BY DEF Rows
    <2>3. CASE spoilt
      <3>1. /\ row' = [row EXCEPT ![Scenarios + 3] = "failed"]
            /\ told'.verdict = "failed" /\ told'.row = row' /\ told' = [verdict |-> "failed", row |-> row']
            /\ gate.i = Scenarios + 3
        BY <2>1, <2>3 DEF VerdictsFollow
      <3>2. /\ row'[Scenarios + 3] = "failed" /\ \A j \in Rows : j # Scenarios + 3 => row'[j] = row[j]
            /\ row' \in [Rows -> RowStatus]
        BY <2>2, <3>1 DEF AccTypeOK, RowStatus
      <3>3. AccTypeOK'
        <4>1. told' \in [verdict : RowStatus \cup {"none"}, row : [Rows -> RowStatus]]
          BY <3>1, <3>2 DEF RowStatus
        <4>2. gate' = [gate EXCEPT !.at = "over", !.i = gate.i] /\ UNCHANGED <<stack, mlock, child, proof, shared, others>>
          OBVIOUS
        <4> QED BY <3>2, <4>1, <4>2, ZenonT(40) DEF AccTypeOK
      <3>4. PhasesKnowTheirRow' /\ ImagesAreTested'
        BY <2>1 DEF PhasesKnowTheirRow, ImagesAreTested
      <3>5. RowsInOrder'
        BY <2>1, <3>1, <3>2 DEF RowsInOrder, Rows
      <3>6. ProofIsEarned'
        BY <2>1, <3>2 DEF ProofIsEarned, Earned, ScenarioRows, Rows
      <3>7. VerdictsFollow'
        BY <2>1, <3>1 DEF VerdictsFollow
      <3> QED BY <3>3, <3>4, <3>5, <3>6, <3>7
    <2>4. CASE ~ spoilt
      <3>1. /\ row' = row
            /\ told'.verdict = gate.verdict /\ told'.row = row /\ told' = [verdict |-> gate.verdict, row |-> row]
        BY <2>4
      <3>2. AccTypeOK'
        <4>1. told' \in [verdict : RowStatus \cup {"none"}, row : [Rows -> RowStatus]]
          BY <3>1 DEF AccTypeOK
        <4>2. gate' = [gate EXCEPT !.at = "over", !.i = gate.i] /\ UNCHANGED <<stack, mlock, child, proof, shared, others>>
          OBVIOUS
        <4> QED BY <3>1, <4>1, <4>2, ZenonT(40) DEF AccTypeOK
      <3>3. PhasesKnowTheirRow' /\ ImagesAreTested'
        BY <2>1 DEF PhasesKnowTheirRow, ImagesAreTested
      <3>4. RowsInOrder'
        BY <2>1, <3>1 DEF RowsInOrder
      <3>5. ProofIsEarned'
        BY <2>1, <3>1 DEF ProofIsEarned, Earned
      <3>6. gate.verdict = "passed" => \A j \in Rows : row[j] = "passed"
        BY <2>1 DEF VerdictsFollow, RowsInOrder, Rows
      <3>7. VerdictsFollow'
        BY <2>1, <3>1, <3>6 DEF VerdictsFollow
      <3> QED BY <3>2, <3>3, <3>4, <3>5, <3>7
    <2> QED BY <2>3, <2>4
  <1>3. CASE GateDies
    <2> USE <1>3 DEF GateDies, AccInv, At
    <2>1. /\ gate.at \notin {"new", "over", "dead"} /\ gate'.at = "dead" /\ gate'.i = gate.i
          /\ gate'.verdict = gate.verdict /\ gate'.expected = gate.expected /\ gate'.initial = gate.initial
      BY DEF AccTypeOK
    <2>2. AccTypeOK'
      BY DEF AccTypeOK
    <2>3. PhasesKnowTheirRow' /\ ImagesAreTested' /\ RowsInOrder'
      BY <2>1 DEF PhasesKnowTheirRow, ImagesAreTested, RowsInOrder
    <2>4. ProofIsEarned' /\ VerdictsFollow'
      BY <2>1 DEF ProofIsEarned, Earned, VerdictsFollow
    <2> QED BY <2>2, <2>3, <2>4
  <1>4. CASE Export
    <2> USE <1>4 DEF Export, AccInv
    <2>1. shared' = Projection /\ Projection \in {"failed", told.verdict}
      BY DEF Projection
    <2>2. AccTypeOK'
      BY <2>1 DEF AccTypeOK, RowStatus
    <2>3. PhasesKnowTheirRow' /\ ImagesAreTested' /\ RowsInOrder' /\ ProofIsEarned'
      BY DEF PhasesKnowTheirRow, ImagesAreTested, RowsInOrder, ProofIsEarned, Earned
    <2>4. VerdictsFollow'
      BY <2>1 DEF VerdictsFollow
    <2> QED BY <2>2, <2>3, <2>4
  <1> QED BY <1>1, <1>2, <1>3, <1>4

(* The invariant of the suite holds for any number of rows and whatever other people do. *)
THEOREM AcceptanceInvariant == AccSpec => []AccInv
  <1>1. AccInv /\ [AccNext]_accVars => AccInv'
    <2> SUFFICES ASSUME AccInv, [AccNext]_accVars PROVE AccInv'
      OBVIOUS
    <2>1. CASE UNCHANGED accVars
      BY <2>1 DEF accVars, AccInv, AccTypeOK, PhasesKnowTheirRow, RowsInOrder, ImagesAreTested, ProofIsEarned,
                  Earned, VerdictsFollow
    <2>2. CASE AccNext
      BY <2>2, ProbesKeepAccInv, CommandsKeepAccInv, OthersKeepAccInv, EndsKeepAccInv DEF AccNext
    <2> QED BY <2>1, <2>2
  <1> QED BY <1>1, AcceptanceInitially, PTL DEF AccSpec

(***************************************************************************)
(* "Fail-closed": a pass that summary.json or a shared bundle reports was  *)
(* earned by every row on the images that were tested, and no row ran      *)
(* after one that failed.                                                  *)
(***************************************************************************)
THEOREM SuiteIsHonest == AccSpec => []AcceptanceIsHonest
  <1>1. AccInv => AcceptanceIsHonest
    <2> SUFFICES ASSUME AccInv PROVE PassIsEarned /\ NothingAfterAFailure
      BY DEF AcceptanceIsHonest
    <2>1. PassIsEarned
      BY AcceptanceAssumption DEF AccInv, PassIsEarned, VerdictsFollow, ImagesAreTested, ProofIsEarned, Earned, Rows, ScenarioRows
    <2>2. gate.i \in Rows
      BY DEF AccInv, AccTypeOK
    <2>3. NothingAfterAFailure
      BY <2>2, AcceptanceAssumption DEF AccInv, NothingAfterAFailure, RowsInOrder, Rows
    <2> QED BY <2>1, <2>3
  <1> QED BY <1>1, AcceptanceInvariant, PTL

-----------------------------------------------------------------------------
(* The connections of the HTTP service. *)

ConnRecord == [at : Holding \cup {"backlog", "closed"}, req : Requests, app : BOOLEAN, status : Int, wrote : BOOLEAN]

(* What the step a connection is at says of its clients, its write and its answer. *)
ConnOK(k) ==
    /\ k.app => k.at \in {"route", "reply", "finish"}
    /\ k.at \in {"backlog", "thread", "policy", "open"} => ~ k.wrote /\ k.status = 0
    /\ k.at \in {"open", "route"} => Policy(k.req) = {}
    /\ Policy(k.req) # {} => ~ k.app /\ ~ k.wrote /\ k.status \notin {200, 201}

Holders == {c \in Conns : conn[c].at \in Holding}

HttpInv ==
    /\ conn \in [Conns -> ConnRecord]
    /\ slots \in Nat
    /\ slots + Cardinality(Holders) = MaxSlots
    /\ \A c \in Conns : ConnOK(conn[c])

(* Slots the connection at this step keeps. *)
Kept(k) == IF k.at \in Holding THEN 1 ELSE 0

(* A step of one connection changes the number of holders by what it takes or gives back. *)
LEMMA HoldersChange ==
    ASSUME conn \in [Conns -> ConnRecord], NEW c \in Conns, NEW to \in ConnRecord,
           conn' = [conn EXCEPT ![c] = to]
    PROVE  /\ Cardinality(Holders) \in Nat
           /\ Cardinality(Holders') = Cardinality(Holders) + Kept(to) - Kept(conn[c])
  <1>1. IsFiniteSet(Holders) /\ Cardinality(Holders) \in Nat
    BY ServiceAssumption, FS_Subset, FS_CardinalityType DEF Holders
  <1>2. conn'[c] = to /\ \A d \in Conns : d # c => conn'[d] = conn[d]
    OBVIOUS
  <1>3. CASE conn[c].at \in Holding /\ to.at \in Holding
    <2>1. Holders' = Holders
      BY <1>2, <1>3 DEF Holders
    <2> QED BY <1>1, <1>3, <2>1 DEF Kept
  <1>4. CASE conn[c].at \notin Holding /\ to.at \notin Holding
    <2>1. Holders' = Holders
      BY <1>2, <1>4 DEF Holders
    <2> QED BY <1>1, <1>4, <2>1 DEF Kept
  <1>5. CASE conn[c].at \notin Holding /\ to.at \in Holding
    <2>1. Holders' = Holders \cup {c} /\ c \notin Holders
      BY <1>2, <1>5 DEF Holders
    <2>2. Cardinality(Holders') = Cardinality(Holders) + 1
      BY <1>1, <2>1, FS_AddElement
    <2> QED BY <1>1, <1>5, <2>2 DEF Kept
  <1>6. CASE conn[c].at \in Holding /\ to.at \notin Holding
    <2>1. Holders' = Holders \ {c} /\ c \in Holders
      BY <1>2, <1>6 DEF Holders
    <2>2. Cardinality(Holders') = Cardinality(Holders) - 1
      BY <1>1, <2>1, FS_RemoveElement
    <2> QED BY <1>1, <1>6, <2>2 DEF Kept
  <1> QED BY <1>3, <1>4, <1>5, <1>6

(* A move that keeps the books of the slots and leaves the connection in order. *)
LEMMA MoveKeepsHttpInv ==
    ASSUME HttpInv, NEW c \in Conns, NEW to \in ConnRecord, ConnOK(to),
           conn' = [conn EXCEPT ![c] = to],
           slots' = slots + Kept(conn[c]) - Kept(to), slots' >= 0
    PROVE  HttpInv'
  <1>1. Cardinality(Holders) \in Nat /\ Cardinality(Holders') = Cardinality(Holders) + Kept(to) - Kept(conn[c])
    BY HoldersChange DEF HttpInv
  <1>2. Kept(to) \in Int /\ Kept(conn[c]) \in Int
    BY DEF Kept
  <1>3. slots' \in Nat /\ slots' + Cardinality(Holders') = MaxSlots
    BY <1>1, <1>2, ServiceAssumption DEF HttpInv
  <1>4. conn' \in [Conns -> ConnRecord]
    BY DEF HttpInv
  <1>5. \A d \in Conns : ConnOK(conn'[d])
    BY DEF HttpInv
  <1>6. (\A d \in Conns : ConnOK(conn[d]))'
    BY <1>5 DEF ConnOK
  <1> QED BY <1>3, <1>4, <1>6 DEF HttpInv

(* A closed connection, and one that has just arrived, hold nothing. *)
LEMMA ClosedIsClean == Closed \in ConnRecord /\ ConnOK(Closed) /\ Kept(Closed) = 0
  <1>1. Arriving \in ConnRecord
    BY DEF Arriving, ConnRecord, Requests, Reads
  <1>2. Closed \in ConnRecord /\ Closed.at = "closed"
    BY <1>1 DEF Closed, ConnRecord
  <1>3. ~ Closed.app /\ Closed.status = 0 /\ ~ Closed.wrote /\ Closed.req = "read"
    BY DEF Closed, Arriving
  <1>4. Closed.at \notin Holding
    BY <1>2 DEF Holding
  <1>5. Policy("read") = {}
    BY DEF Policy, LocalHost, JsonLength, DecodeJson, BadHost, BadOrigin
  <1>6. ConnOK(Closed)
    BY <1>2, <1>3, <1>5 DEF ConnOK
  <1> QED BY <1>2, <1>4, <1>6 DEF Kept

(* A refusal of the policy never is a success. *)
LEMMA RefusalsRefuse ==
    ASSUME NEW req \in Requests, NEW code \in Policy(req)
    PROVE  code \in Int /\ code \notin {200, 201}
  <1>1. code \in {400, 403} \cup {400, 413, 415}
    BY ZenonT(40) DEF Policy, LocalHost, JsonLength, DecodeJson
  <1> QED BY <1>1

(* Every answer of a route is a number. *)
LEMMA RouteAnswers ==
    ASSUME NEW req \in Requests, NEW code \in Route(req)
    PROVE  code \in Int
  <1>1. \/ Route(req) = {404} \/ Route(req) = {200} \/ Route(req) = {400}
        \/ Route(req) = {200, 201, 400, 404, 409, 500} \cup {503}
        \/ Route(req) = {200, 400, 404, 500} \cup {503}
    <2>1. CASE req = "no route"
      BY <2>1, ZenonT(40) DEF Route, BodyFields, BadFields
    <2>2. CASE req = "diagnostics"
      BY <2>2 DEF Route, BodyFields, BadFields, Diagnostics
    <2>3. CASE req = BadFields
      <3>1. ~ BodyFields(req) /\ req # "no route" /\ req # "diagnostics" /\ req # "write"
        BY <2>3 DEF BodyFields, BadFields
      <3>2. Route(req) = {400}
        BY <3>1, ZenonT(40) DEF Route
      <3> QED BY <3>2
    <2>4. CASE req = "write"
      BY <2>4 DEF Route, BodyFields, BadFields, Backend
    <2>5. CASE /\ ~ (req = "no route") /\ ~ (req = "diagnostics")
               /\ ~ (req = BadFields) /\ ~ (req = "write")
      <3>1. BodyFields(req)
        BY <2>5 DEF BodyFields
      <3>2. Route(req) = Backend({200, 400, 404, 500})
        BY <2>5, <3>1, ZenonT(40) DEF Route
      <3> QED BY <3>2 DEF Backend
    <2> QED BY <2>1, <2>2, <2>3, <2>4, <2>5
  <1> QED BY <1>1

(* Each step of a connection keeps the books: the slot, the clients, and what was written. *)
LEMMA ConnStepKeepsHttpInv ==
    ASSUME HttpInv, NEW c \in Conns, ConnStep(c)
    PROVE  HttpInv'
  <1> DEFINE k == conn[c]
  <1>1. k \in ConnRecord /\ ConnOK(k) /\ slots \in Nat
    BY DEF HttpInv
  <1>2. ASSUME NEW to \in ConnRecord, ConnOK(to), Moves(c, k.at, to),
               k.at \in Holding, to.at \in Holding, UNCHANGED slots
        PROVE  HttpInv'
    <2>1. Kept(k) = 1 /\ Kept(to) = 1
      BY <1>2 DEF Kept
    <2>2. conn' = [conn EXCEPT ![c] = to] /\ slots' = slots + Kept(k) - Kept(to) /\ slots' >= 0
      BY <1>1, <1>2, <2>1 DEF Moves
    <2> QED BY <1>2, <2>2, MoveKeepsHttpInv
  <1>3. CASE Accept(c)
    <2>1. PICK req \in Requests : Moves(c, "backlog", [AtNow(c, "thread") EXCEPT !.req = req])
      BY <1>3 DEF Accept
    <2> DEFINE to == [AtNow(c, "thread") EXCEPT !.req = req]
    <2>2. /\ k.at = "backlog" /\ conn' = [conn EXCEPT ![c] = to]
          /\ slots > 0 /\ slots' = slots - 1
      BY <1>3, <2>1 DEF Moves, Accept
    <2>3. /\ to \in ConnRecord
          /\ to.at = "thread" /\ to.app = k.app /\ to.wrote = k.wrote /\ to.status = k.status
      BY <1>1 DEF ConnRecord, AtNow, Holding
    <2>4. ~ k.app /\ ~ k.wrote /\ k.status = 0
      BY <1>1, <2>2 DEF ConnOK
    <2>5. ConnOK(to)
      BY <2>3, <2>4 DEF ConnOK
    <2>6. Kept(to) = 1 /\ Kept(k) = 0
      BY <2>2, <2>3 DEF Kept, Holding
    <2> HIDE DEF to
    <2>7. slots' = slots + Kept(k) - Kept(to) /\ slots' >= 0
      BY <1>1, <2>2, <2>6
    <2> QED BY <2>2, <2>3, <2>5, <2>7, MoveKeepsHttpInv
  <1>4. CASE Overloaded(c)
    <2>1. Kept(k) = 0 /\ conn' = [conn EXCEPT ![c] = Closed] /\ slots' = slots
      BY <1>4 DEF Overloaded, Moves, Kept, Holding
    <2>2. slots' = slots + Kept(k) - Kept(Closed) /\ slots' >= 0
      BY <1>1, <2>1, ClosedIsClean
    <2> QED BY <2>1, <2>2, ClosedIsClean, MoveKeepsHttpInv
  <1>5. CASE StartFails(c) \/ Release(c)
    <2>1. Kept(k) = 1 /\ conn' = [conn EXCEPT ![c] = Closed] /\ slots' = slots + 1
      BY <1>5 DEF StartFails, Release, Moves, Kept, Holding
    <2>2. slots' = slots + Kept(k) - Kept(Closed) /\ slots' >= 0
      BY <1>1, <2>1, ClosedIsClean
    <2> QED BY <2>1, <2>2, ClosedIsClean, MoveKeepsHttpInv
  <1>6. CASE Starts(c)
    <2> DEFINE to == AtNow(c, "policy")
    <2>1. k.at = "thread" /\ Moves(c, k.at, to) /\ UNCHANGED slots
      BY <1>6 DEF Starts, Moves
    <2>2. /\ to \in ConnRecord
          /\ to.at = "policy" /\ to.app = k.app /\ to.wrote = k.wrote /\ to.status = k.status /\ to.req = k.req
      BY <1>1 DEF ConnRecord, AtNow, Holding
    <2>3. ConnOK(to)
      BY <1>1, <2>1, <2>2 DEF ConnOK
    <2>4. k.at \in Holding /\ to.at \in Holding
      BY <2>1, <2>2 DEF Holding
    <2> HIDE DEF to
    <2> QED BY <1>2, <2>1, <2>2, <2>3, <2>4
  <1>7. CASE Disconnects(c)
    <2> DEFINE to == AtNow(c, "finish")
    <2>1. k.at = "policy" /\ Moves(c, k.at, to) /\ UNCHANGED slots
      BY <1>7 DEF Disconnects, Moves
    <2>2. /\ to \in ConnRecord
          /\ to.at = "finish" /\ to.app = k.app /\ to.wrote = k.wrote /\ to.status = k.status /\ to.req = k.req
      BY <1>1 DEF ConnRecord, AtNow, Holding
    <2>3. ConnOK(to)
      BY <1>1, <2>1, <2>2 DEF ConnOK
    <2>4. k.at \in Holding /\ to.at \in Holding
      BY <2>1, <2>2 DEF Holding
    <2> HIDE DEF to
    <2> QED BY <1>2, <2>1, <2>2, <2>3, <2>4
  <1>8. CASE Vet(c)
    <2> DEFINE refusals == IF k.req = "asset" THEN StaticFile ELSE Policy(k.req)
    <2>1. CASE refusals = {} /\ Moves(c, "policy", AtNow(c, "open"))
      <3> DEFINE to == AtNow(c, "open")
      <3>1. k.at = "policy" /\ Moves(c, k.at, to) /\ UNCHANGED slots /\ Policy(k.req) = {}
        BY <1>8, <2>1 DEF Vet, Moves, StaticFile
      <3>2. /\ to \in ConnRecord
            /\ to.at = "open" /\ to.app = k.app /\ to.wrote = k.wrote /\ to.status = k.status /\ to.req = k.req
        BY <1>1 DEF ConnRecord, AtNow, Holding
      <3>3. ConnOK(to)
        BY <1>1, <3>1, <3>2 DEF ConnOK
      <3>4. k.at \in Holding /\ to.at \in Holding
        BY <3>1, <3>2 DEF Holding
      <3> HIDE DEF to
      <3> QED BY <1>2, <3>1, <3>2, <3>3, <3>4
    <2>2. ASSUME NEW code \in refusals, Moves(c, "policy", [AtNow(c, "reply") EXCEPT !.status = code])
          PROVE  HttpInv'
      <3> DEFINE to == [AtNow(c, "reply") EXCEPT !.status = code]
      <3>1. k.at = "policy" /\ Moves(c, k.at, to) /\ UNCHANGED slots
        BY <1>8, <2>2 DEF Vet, Moves
      <3>2. Policy("asset") = {} /\ k.req \in Requests
        BY <1>1, ZenonT(40) DEF Policy, LocalHost, JsonLength, DecodeJson, BadHost, BadOrigin, ConnRecord
      <3>3. code \in Int /\ (Policy(k.req) # {} => code \notin {200, 201})
        BY <2>2, <3>2, RefusalsRefuse DEF StaticFile
      <3>4. /\ to \in ConnRecord
            /\ to.at = "reply" /\ to.app = k.app /\ to.wrote = k.wrote /\ to.status = code /\ to.req = k.req
        BY <1>1, <3>3 DEF ConnRecord, AtNow, Holding
      <3>5. ConnOK(to)
        BY <1>1, <3>1, <3>3, <3>4 DEF ConnOK
      <3>6. k.at \in Holding /\ to.at \in Holding
        BY <3>1, <3>4 DEF Holding
      <3> HIDE DEF to
      <3> QED BY <1>2, <3>1, <3>4, <3>5, <3>6
    <2> QED BY <1>8, <2>1, <2>2 DEF Vet
  <1>9. CASE Connect(c)
    <2>1. CASE Moves(c, "open", [AtNow(c, "route") EXCEPT !.app = TRUE])
      <3> DEFINE to == [AtNow(c, "route") EXCEPT !.app = TRUE]
      <3>1. k.at = "open" /\ Moves(c, k.at, to) /\ UNCHANGED slots
        BY <1>9, <2>1 DEF Connect, Moves
      <3>2. /\ to \in ConnRecord
            /\ to.at = "route" /\ to.wrote = k.wrote /\ to.status = k.status /\ to.req = k.req
        BY <1>1 DEF ConnRecord, AtNow, Holding
      <3>3. ConnOK(to)
        BY <1>1, <3>1, <3>2 DEF ConnOK
      <3>4. k.at \in Holding /\ to.at \in Holding
        BY <3>1, <3>2 DEF Holding
      <3> HIDE DEF to
      <3> QED BY <1>2, <3>1, <3>2, <3>3, <3>4
    <2>2. CASE Moves(c, "open", [AtNow(c, "reply") EXCEPT !.status = 500])
      <3>0. PICK code \in Int : code = 500
        OBVIOUS
      <3> DEFINE to == [AtNow(c, "reply") EXCEPT !.status = code]
      <3>1. k.at = "open" /\ Moves(c, k.at, to) /\ UNCHANGED slots
        BY <1>9, <2>2, <3>0 DEF Connect, Moves
      <3>2. /\ to \in ConnRecord
            /\ to.at = "reply" /\ to.app = k.app /\ to.wrote = k.wrote /\ to.req = k.req /\ to.status = code
        BY <1>1 DEF ConnRecord, AtNow, Holding
      <3>3. ConnOK(to)
        BY <1>1, <3>1, <3>2 DEF ConnOK
      <3>4. k.at \in Holding /\ to.at \in Holding
        BY <3>1, <3>2 DEF Holding
      <3> HIDE DEF to
      <3> QED BY <1>2, <3>1, <3>2, <3>3, <3>4
    <2> QED BY <1>9, <2>1, <2>2 DEF Connect
  <1>10. CASE Serve(c)
    <2>1. PICK code \in Route(k.req), wrote \in BOOLEAN :
              Moves(c, "route", [AtNow(c, "reply") EXCEPT !.status = code, !.wrote = wrote])
      BY <1>10 DEF Serve
    <2> DEFINE to == [AtNow(c, "reply") EXCEPT !.status = code, !.wrote = wrote]
    <2>2. k.at = "route" /\ Moves(c, k.at, to) /\ UNCHANGED slots
      BY <1>10, <2>1 DEF Serve, Moves
    <2>3. code \in Int
      <3>1. k.req \in Requests
        BY <1>1 DEF ConnRecord
      <3> QED BY <3>1, RouteAnswers
    <2>4. /\ to \in ConnRecord
          /\ to.at = "reply" /\ to.app = k.app /\ to.req = k.req
      BY <1>1, <2>3 DEF ConnRecord, AtNow, Holding
    <2>5. ConnOK(to)
      BY <1>1, <2>2, <2>4 DEF ConnOK
    <2>6. k.at \in Holding /\ to.at \in Holding
      BY <2>2, <2>4 DEF Holding
    <2> HIDE DEF to
    <2> QED BY <1>2, <2>2, <2>4, <2>5, <2>6
  <1>11. CASE Reply(c)
    <2> DEFINE to == AtNow(c, "finish")
    <2>1. k.at = "reply" /\ Moves(c, k.at, to) /\ UNCHANGED slots
      BY <1>11 DEF Reply, Moves
    <2>2. /\ to \in ConnRecord
          /\ to.at = "finish" /\ to.app = k.app /\ to.wrote = k.wrote /\ to.status = k.status /\ to.req = k.req
      BY <1>1 DEF ConnRecord, AtNow, Holding
    <2>3. ConnOK(to)
      BY <1>1, <2>1, <2>2 DEF ConnOK
    <2>4. k.at \in Holding /\ to.at \in Holding
      BY <2>1, <2>2 DEF Holding
    <2> HIDE DEF to
    <2> QED BY <1>2, <2>1, <2>2, <2>3, <2>4
  <1>12. CASE CloseClients(c)
    <2> DEFINE to == [k EXCEPT !.app = FALSE]
    <2>1. k.at = "finish" /\ Moves(c, k.at, to) /\ UNCHANGED slots
      BY <1>12 DEF CloseClients, Moves
    <2>2. /\ to \in ConnRecord
          /\ to.at = k.at /\ to.wrote = k.wrote /\ to.status = k.status /\ to.req = k.req /\ ~ to.app
      BY <1>1 DEF ConnRecord
    <2>3. ConnOK(to)
      BY <1>1, <2>1, <2>2 DEF ConnOK
    <2>4. k.at \in Holding /\ to.at \in Holding
      BY <2>1, <2>2 DEF Holding
    <2> HIDE DEF to
    <2> QED BY <1>2, <2>1, <2>2, <2>3, <2>4
  <1> QED BY <1>3, <1>4, <1>5, <1>6, <1>7, <1>8, <1>9, <1>10, <1>11, <1>12 DEF ConnStep

-----------------------------------------------------------------------------
(* The worker's health receipt. *)

LoopRow == [ok : BOOLEAN, last : Int]
LoopState == {"run", "failed", "ended", "dead"}
WorkerRecord ==
    [start : Nat, runs : [Loops -> LoopState], rows : [Loops -> LoopRow], wrote : Int, stop : BOOLEAN,
     spoiled : BOOLEAN, born : Nat]

WorkTypeOK ==
    /\ now \in Nat
    /\ worker \in WorkerRecord
    /\ receipt \in [start : Int, rows : [Loops -> LoopRow]]
    /\ good \in [Loops -> Int]

(***************************************************************************)
(* While a worker runs the receipt is its own; memory has the last success *)
(* of each loop, the receipt one no later; and a receipt that calls a loop *)
(* well agrees with memory unless a save has failed since.                 *)
(***************************************************************************)
ReceiptFollows ==
    worker.start # 0 =>
        /\ receipt.start = worker.start
        /\ \A l \in Loops :
              /\ good[l] <= now
              /\ worker.rows[l].last = good[l]
              /\ worker.rows[l].ok => worker.rows[l].last >= 0
              /\ receipt.rows[l].last <= good[l]
              /\ receipt.rows[l].ok => receipt.rows[l].last >= 0
              /\ receipt.rows[l].ok => worker.rows[l].ok \/ worker.spoiled

WorkInv == WorkTypeOK /\ ReceiptFollows

(* The row that mark() writes in memory. *)
LEMMA MarkedRow ==
    ASSUME NEW l \in Loops, NEW ok \in BOOLEAN, WorkTypeOK
    PROVE  /\ Marked(l, ok) \in WorkerRecord
           /\ Marked(l, ok).start = worker.start
           /\ Marked(l, ok).spoiled = worker.spoiled
           /\ Marked(l, ok).rows[l].ok = ok
           /\ Marked(l, ok).rows[l].last = IF ok THEN now ELSE worker.rows[l].last
           /\ \A m \in Loops : m # l => Marked(l, ok).rows[m] = worker.rows[m]
  <1> DEFINE mine == [ok |-> ok, last |-> IF ok THEN now ELSE worker.rows[l].last]
             rows == [worker.rows EXCEPT ![l] = mine]
  <1>1. worker.rows \in [Loops -> LoopRow] /\ worker.rows[l] \in LoopRow
    BY DEF WorkTypeOK, WorkerRecord
  <1>2. mine \in LoopRow
    BY <1>1 DEF LoopRow, WorkTypeOK
  <1>3. mine.ok = ok /\ mine.last = (IF ok THEN now ELSE worker.rows[l].last)
    OBVIOUS
  <1>4. Marked(l, ok) = [worker EXCEPT !.rows = rows]
    BY DEF Marked
  <1> HIDE DEF mine
  <1>5. rows \in [Loops -> LoopRow] /\ rows[l] = mine /\ \A m \in Loops : m # l => rows[m] = worker.rows[m]
    BY <1>1, <1>2
  <1> HIDE DEF rows
  <1>6. /\ [worker EXCEPT !.rows = rows] \in WorkerRecord
        /\ [worker EXCEPT !.rows = rows].start = worker.start
        /\ [worker EXCEPT !.rows = rows].spoiled = worker.spoiled
        /\ [worker EXCEPT !.rows = rows].rows = rows
    BY <1>5 DEF WorkTypeOK, WorkerRecord
  <1> QED BY <1>3, <1>4, <1>5, <1>6

(* A worker record that differs in the state of a loop, the time of the save and the flag only. *)
SameRows(w, v, spoiled) == v \in WorkerRecord /\ v.start = w.start /\ v.rows = w.rows /\ v.spoiled = spoiled
Moved(w, l, next) == [w EXCEPT !.runs[l] = next]
Flagged(w, l, next, spoiled) == [w EXCEPT !.runs[l] = next, !.spoiled = spoiled]
Stamped(w, l, next, wrote, spoiled) == [w EXCEPT !.runs[l] = next, !.wrote = wrote, !.spoiled = spoiled]

(* The state of a loop, the time of the save and the flag are no part of a row. *)
LEMMA RunsOnly ==
    ASSUME NEW w \in WorkerRecord, NEW l \in Loops, NEW next \in LoopState, NEW spoiled \in BOOLEAN, NEW wrote \in Int
    PROVE  /\ SameRows(w, Moved(w, l, next), w.spoiled)
           /\ SameRows(w, Flagged(w, l, next, spoiled), spoiled)
           /\ SameRows(w, Stamped(w, l, next, wrote, spoiled), spoiled)
  <1> DEFINE states == [w.runs EXCEPT ![l] = next]
  <1>1. states \in [Loops -> LoopState]
    BY DEF WorkerRecord
  <1>2. /\ [w EXCEPT !.runs[l] = next] = [w EXCEPT !.runs = states]
        /\ [w EXCEPT !.runs[l] = next, !.spoiled = spoiled] = [w EXCEPT !.runs = states, !.spoiled = spoiled]
        /\ [w EXCEPT !.runs[l] = next, !.wrote = wrote, !.spoiled = spoiled]
             = [w EXCEPT !.runs = states, !.wrote = wrote, !.spoiled = spoiled]
    OBVIOUS
  <1> HIDE DEF states
  <1>3. /\ [w EXCEPT !.runs = states] \in WorkerRecord
        /\ [w EXCEPT !.runs = states].start = w.start
        /\ [w EXCEPT !.runs = states].rows = w.rows
        /\ [w EXCEPT !.runs = states].spoiled = w.spoiled
    BY <1>1 DEF WorkerRecord
  <1>4. /\ [w EXCEPT !.runs = states, !.spoiled = spoiled] \in WorkerRecord
        /\ [w EXCEPT !.runs = states, !.spoiled = spoiled].start = w.start
        /\ [w EXCEPT !.runs = states, !.spoiled = spoiled].rows = w.rows
        /\ [w EXCEPT !.runs = states, !.spoiled = spoiled].spoiled = spoiled
    BY <1>1 DEF WorkerRecord
  <1>5. /\ [w EXCEPT !.runs = states, !.wrote = wrote, !.spoiled = spoiled] \in WorkerRecord
        /\ [w EXCEPT !.runs = states, !.wrote = wrote, !.spoiled = spoiled].start = w.start
        /\ [w EXCEPT !.runs = states, !.wrote = wrote, !.spoiled = spoiled].rows = w.rows
        /\ [w EXCEPT !.runs = states, !.wrote = wrote, !.spoiled = spoiled].spoiled = spoiled
    BY <1>1 DEF WorkerRecord
  <1> QED BY <1>2, <1>3, <1>4, <1>5 DEF SameRows, Moved, Flagged, Stamped

(* mark() saves, fails to save, or leaves the file alone because nothing changed in it. *)
LEMMA MarkOutcome ==
    ASSUME WorkTypeOK, NEW l \in Loops, NEW ok \in BOOLEAN, NEW next \in LoopState, NEW raised \in LoopState,
           Mark(l, ok, next, raised)
    PROVE  /\ now' = now /\ worker' \in WorkerRecord /\ worker'.start = worker.start
           /\ worker'.rows = Marked(l, ok).rows
           /\ \/ receipt' = [start |-> worker.start, rows |-> worker'.rows]
              \/ receipt' = receipt /\ worker'.spoiled = TRUE
              \/ receipt' = receipt /\ worker'.spoiled = worker.spoiled /\ worker.rows[l].ok = ok
  <1> DEFINE marked == Marked(l, ok)
  <1>1. marked \in WorkerRecord /\ marked.start = worker.start /\ marked.spoiled = worker.spoiled /\ now \in Int
    BY MarkedRow DEF WorkTypeOK
  <1>2. \/ MustSave(l, ok) /\ Save([marked EXCEPT !.runs[l] = next])
        \/ worker' = [marked EXCEPT !.runs[l] = raised, !.spoiled = TRUE] /\ receipt' = receipt
        \/ ~ MustSave(l, ok) /\ worker' = [marked EXCEPT !.runs[l] = next] /\ receipt' = receipt
    BY DEF Mark
  <1>3. now' = now
    BY DEF Mark
  <1> HIDE DEF marked
  <1>4. CASE Save([marked EXCEPT !.runs[l] = next])
    <2> DEFINE new == Moved(marked, l, next)
               stamped == Stamped(marked, l, next, now, FALSE)
    <2>1. receipt' = [start |-> new.start, rows |-> new.rows] /\ worker' = stamped
      BY <1>4 DEF Save, Moved, Stamped
    <2>2. SameRows(marked, new, marked.spoiled) /\ SameRows(marked, stamped, FALSE)
      BY <1>1, RunsOnly
    <2> HIDE DEF new, stamped
    <2> QED BY <1>1, <1>3, <2>1, <2>2 DEF marked, SameRows
  <1>5. CASE worker' = [marked EXCEPT !.runs[l] = raised, !.spoiled = TRUE] /\ receipt' = receipt
    <2> DEFINE stamped == Flagged(marked, l, raised, TRUE)
    <2>1. SameRows(marked, stamped, TRUE)
      BY <1>1, RunsOnly
    <2>2. worker' = stamped
      BY <1>5 DEF Flagged
    <2> HIDE DEF stamped
    <2> QED BY <1>1, <1>3, <1>5, <2>1, <2>2 DEF marked, SameRows
  <1>6. CASE ~ MustSave(l, ok) /\ worker' = [marked EXCEPT !.runs[l] = next] /\ receipt' = receipt
    <2> DEFINE stamped == Moved(marked, l, next)
    <2>1. SameRows(marked, stamped, marked.spoiled)
      BY <1>1, RunsOnly
    <2>2. worker' = stamped /\ worker.rows[l].ok = ok
      BY <1>6 DEF Moved, MustSave
    <2> HIDE DEF stamped
    <2> QED BY <1>1, <1>3, <1>6, <2>1, <2>2 DEF marked, SameRows
  <1> QED BY <1>2, <1>4, <1>5, <1>6

(* A mark of a running worker keeps the receipt behind memory and memory at the last success. *)
LEMMA MarkKeepsWorkInv ==
    ASSUME WorkInv, NEW l \in Loops, NEW ok \in BOOLEAN, NEW next \in LoopState, NEW raised \in LoopState,
           worker.start # 0, Mark(l, ok, next, raised),
           good' = IF ok THEN [good EXCEPT ![l] = now] ELSE good
    PROVE  WorkInv'
  <1> DEFINE rows == Marked(l, ok).rows
  <1>1. WorkTypeOK /\ ReceiptFollows
    BY DEF WorkInv
  <1>2. /\ now' = now /\ worker' \in WorkerRecord /\ worker'.start = worker.start
        /\ worker'.rows = rows
        /\ \/ receipt' = [start |-> worker.start, rows |-> worker'.rows]
           \/ receipt' = receipt /\ worker'.spoiled = TRUE
           \/ receipt' = receipt /\ worker'.spoiled = worker.spoiled /\ worker.rows[l].ok = ok
    BY <1>1, MarkOutcome
  <1>3. /\ rows[l].ok = ok
        /\ rows[l].last = IF ok THEN now ELSE worker.rows[l].last
        /\ \A m \in Loops : m # l => rows[m] = worker.rows[m]
    BY <1>1, MarkedRow
  <1> HIDE DEF rows
  <1>4. rows \in [Loops -> LoopRow] /\ worker.start \in Int
    BY <1>1, <1>2 DEF WorkTypeOK, WorkerRecord
  <1>5. WorkTypeOK'
    BY <1>1, <1>2, <1>4 DEF WorkTypeOK
  <1>6. /\ now \in Nat /\ \A m \in Loops : good[m] \in Int /\ worker.rows[m] \in LoopRow /\ receipt.rows[m] \in LoopRow
        /\ receipt.start = worker.start
    BY <1>1 DEF WorkTypeOK, WorkerRecord, ReceiptFollows
  <1>7. ASSUME NEW m \in Loops
        PROVE  /\ good'[m] <= now /\ rows[m].last = good'[m] /\ good[m] <= good'[m]
               /\ rows[m].ok => rows[m].last >= 0
    <2>1. good[m] <= now /\ worker.rows[m].last = good[m] /\ (worker.rows[m].ok => worker.rows[m].last >= 0)
      BY <1>1 DEF ReceiptFollows
    <2>2. CASE m = l /\ ok
      <3>1. good'[m] = now
        BY <2>2, <1>1 DEF WorkTypeOK
      <3> QED BY <1>3, <1>6, <2>1, <2>2, <3>1
    <2>3. CASE ~ (m = l /\ ok)
      <3>1. good'[m] = good[m]
        BY <2>3, <1>1 DEF WorkTypeOK
      <3> QED BY <1>3, <1>6, <2>1, <2>3, <3>1
    <2> QED BY <2>2, <2>3
  <1>8. receipt'.start = worker.start
    BY <1>2, <1>6
  <1>9. ASSUME NEW m \in Loops
        PROVE  /\ receipt'.rows[m].last <= good'[m]
               /\ receipt'.rows[m].ok => receipt'.rows[m].last >= 0
               /\ receipt'.rows[m].ok => rows[m].ok \/ worker'.spoiled
    <2>1. /\ good'[m] \in Int /\ rows[m].last = good'[m] /\ good[m] <= good'[m]
          /\ rows[m].ok => rows[m].last >= 0
      BY <1>5, <1>7 DEF WorkTypeOK
    <2>2. CASE receipt' = [start |-> worker.start, rows |-> worker'.rows]
      <3>1. receipt'.rows = rows
        BY <1>2, <2>2
      <3> QED BY <2>1, <3>1
    <2>3. CASE receipt' = receipt
      <3>1. /\ receipt.rows[m].last <= good[m]
            /\ receipt.rows[m].ok => receipt.rows[m].last >= 0
            /\ receipt.rows[m].ok => worker.rows[m].ok \/ worker.spoiled
        BY <1>1 DEF ReceiptFollows
      <3>2. receipt.rows[m].last \in Int /\ good[m] \in Int
        BY <1>6 DEF LoopRow
      <3>3. receipt'.rows[m].last <= good'[m] /\ (receipt'.rows[m].ok => receipt'.rows[m].last >= 0)
        BY <2>1, <2>3, <3>1, <3>2
      <3>4. receipt'.rows[m].ok => rows[m].ok \/ worker'.spoiled
        <4>1. CASE worker'.spoiled = TRUE
          BY <4>1
        <4>2. CASE worker'.spoiled = worker.spoiled /\ worker.rows[l].ok = ok
          <5>1. rows[m].ok = worker.rows[m].ok
            BY <1>3, <4>2
          <5> QED BY <2>3, <3>1, <4>2, <5>1
        <4>3. CASE receipt' = [start |-> worker.start, rows |-> worker'.rows]
          <5>1. receipt'.rows = rows
            BY <1>2, <4>3
          <5> QED BY <5>1
        <4> QED BY <1>2, <4>1, <4>2, <4>3
      <3> QED BY <3>3, <3>4
    <2> QED BY <1>2, <2>2, <2>3
  <1>10. ReceiptFollows'
    BY <1>2, <1>7, <1>8, <1>9 DEF ReceiptFollows
  <1> QED BY <1>5, <1>10 DEF WorkInv

(* A step that leaves the rows, the receipt and the successes alone. *)
LEMMA QuietKeepsWorkInv ==
    ASSUME WorkInv, SameRows(worker, worker', worker.spoiled), UNCHANGED <<receipt, good>>, now' \in Nat, now' >= now
    PROVE  WorkInv'
  <1>1. WorkTypeOK'
    BY DEF WorkInv, WorkTypeOK, SameRows
  <1>2. now \in Nat /\ \A l \in Loops : good[l] \in Int
    BY DEF WorkInv, WorkTypeOK
  <1>3. ReceiptFollows'
    BY <1>2 DEF WorkInv, ReceiptFollows, SameRows
  <1> QED BY <1>1, <1>3 DEF WorkInv

(* A worker that is gone has promised nothing. *)
LEMMA DeadKeepsWorkInv ==
    ASSUME WorkInv, worker' = [Dead EXCEPT !.born = worker.born], UNCHANGED <<now, good>>,
           receipt' \in [start : Int, rows : [Loops -> LoopRow]]
    PROVE  WorkInv'
  <1>1. worker.born \in Nat
    BY DEF WorkInv, WorkTypeOK, WorkerRecord
  <1>2. NoReceipt.rows \in [Loops -> LoopRow]
    BY DEF NoReceipt, NoRow, LoopRow, Never
  <1>3. Dead \in WorkerRecord /\ Dead.start = 0
    <2> DEFINE rows == NoReceipt.rows
               states == [l \in Loops |-> "ended"]
    <2>1. states \in [Loops -> LoopState] /\ rows \in [Loops -> LoopRow]
      BY <1>2 DEF LoopState
    <2>2. Dead = [start |-> 0, runs |-> states, rows |-> rows, wrote |-> Never, stop |-> FALSE, spoiled |-> FALSE, born |-> 0]
      BY DEF Dead
    <2> HIDE DEF rows, states
    <2> QED BY <2>1, <2>2 DEF WorkerRecord, Never
  <1>4. worker' \in WorkerRecord /\ worker'.start = 0
    BY <1>1, <1>3 DEF WorkerRecord
  <1> QED BY <1>4 DEF WorkInv, WorkTypeOK, ReceiptFollows

(* Each step of the worker, of its loops and of the clock. *)
LEMMA WorkStepKeepsWorkInv ==
    ASSUME WorkInv, WorkStep
    PROVE  WorkInv'
  <1>1. WorkTypeOK /\ now \in Nat /\ now \in Int /\ worker \in WorkerRecord /\ worker.spoiled \in BOOLEAN
    BY DEF WorkInv, WorkTypeOK, WorkerRecord
  <1>2. \A s \in {"run", "failed", "ended", "dead"} : s \in LoopState
    BY DEF LoopState
  <1>3. CASE WorkerStarts
    <2> DEFINE rows == NoReceipt.rows
               states == [l \in Loops |-> "run"]
               birth == worker.born + 1
    <2>1. birth \in Nat \ {0}
      BY <1>1 DEF WorkerRecord
    <2>2. rows \in [Loops -> LoopRow] /\ states \in [Loops -> LoopState]
          /\ \A l \in Loops : ~ rows[l].ok /\ rows[l].last = Never
      BY DEF NoReceipt, NoRow, LoopRow, LoopState, Never
    <2>3. /\ receipt' = [start |-> birth, rows |-> rows]
          /\ worker' = [start |-> birth, runs |-> states, rows |-> rows, wrote |-> now, stop |-> FALSE,
                        spoiled |-> FALSE, born |-> birth]
          /\ good' = [l \in Loops |-> Never] /\ now' = now
      BY <1>3 DEF WorkerStarts, Save
    <2> HIDE DEF rows, states, birth
    <2>4. worker' \in WorkerRecord
      BY <1>1, <2>1, <2>2, <2>3 DEF WorkerRecord
    <2>5. WorkTypeOK'
      BY <1>1, <2>1, <2>2, <2>3, <2>4 DEF WorkTypeOK, Never
    <2>6. receipt'.start = worker'.start /\ receipt'.rows = rows /\ worker'.rows = rows
      BY <2>3
    <2>7. ReceiptFollows'
      BY <1>1, <2>2, <2>3, <2>6 DEF ReceiptFollows, Never
    <2> QED BY <2>5, <2>7 DEF WorkInv
  <1>4. ASSUME NEW l \in Loops, PassSucceeds(l)
        PROVE  WorkInv'
    <2>1. worker.start # 0 /\ Mark(l, TRUE, "run", "failed") /\ good' = [good EXCEPT ![l] = now]
      BY <1>4 DEF PassSucceeds, Running
    <2> QED BY <1>2, <2>1, MarkKeepsWorkInv
  <1>5. ASSUME NEW l \in Loops, PassFails(l)
        PROVE  WorkInv'
    <2>1. worker' = Moved(worker, l, "failed") /\ UNCHANGED <<now, receipt, good>>
      BY <1>5 DEF PassFails, Moved
    <2>2. SameRows(worker, Moved(worker, l, "failed"), worker.spoiled)
      BY <1>1, <1>2, RunsOnly
    <2> QED BY <1>1, <2>1, <2>2, QuietKeepsWorkInv
  <1>6. ASSUME NEW l \in Loops, MarksFailure(l)
        PROVE  WorkInv'
    <2>1. worker.start # 0 /\ Mark(l, FALSE, "run", "dead") /\ good' = good
      BY <1>6 DEF MarksFailure
    <2> QED BY <1>2, <2>1, MarkKeepsWorkInv
  <1>7. ASSUME NEW l \in Loops, LoopEnds(l)
        PROVE  WorkInv'
    <2>1. CASE l = "consumer"
      <3>1. worker.start # 0 /\ Mark(l, FALSE, "ended", "dead") /\ good' = good
        BY <1>7, <2>1 DEF LoopEnds, Running
      <3> QED BY <1>2, <3>1, MarkKeepsWorkInv
    <2>2. CASE l # "consumer"
      <3>1. worker' = Moved(worker, l, "ended") /\ UNCHANGED <<now, receipt, good>>
        BY <1>7, <2>2 DEF LoopEnds, Moved
      <3>2. SameRows(worker, Moved(worker, l, "ended"), worker.spoiled)
        BY <1>1, <1>2, RunsOnly
      <3> QED BY <1>1, <3>1, <3>2, QuietKeepsWorkInv
    <2> QED BY <2>1, <2>2
  <1>8. CASE IdleProbe
    <2>1. PICK ready \in BOOLEAN : /\ Mark("consumer", ready, "run", "failed")
                                   /\ good' = IF ready THEN [good EXCEPT !["consumer"] = now] ELSE good
      BY <1>8 DEF IdleProbe
    <2>2. worker.start # 0 /\ "consumer" \in Loops
      BY <1>8 DEF IdleProbe, Running, Loops
    <2> QED BY <1>2, <2>1, <2>2, MarkKeepsWorkInv
  <1>9. CASE Signal
    <2>1. worker' = [worker EXCEPT !.stop = TRUE] /\ UNCHANGED <<now, receipt, good>>
      BY <1>9 DEF Signal
    <2>2. SameRows(worker, worker', worker.spoiled)
      BY <1>1, <2>1 DEF SameRows, WorkerRecord
    <2> QED BY <1>1, <2>1, <2>2, QuietKeepsWorkInv
  <1>10. CASE WorkerCloses
    <2> DEFINE rows == [l \in Loops |-> [worker.rows[l] EXCEPT !.ok = FALSE]]
    <2>1. rows \in [Loops -> LoopRow]
      BY <1>1 DEF WorkerRecord, LoopRow
    <2>2. /\ worker' = [Dead EXCEPT !.born = worker.born] /\ UNCHANGED <<now, good>>
          /\ receipt' \in {receipt, [receipt EXCEPT !.rows = rows]}
      BY <1>10 DEF WorkerCloses
    <2> HIDE DEF rows
    <2>3. receipt' \in [start : Int, rows : [Loops -> LoopRow]]
      BY <1>1, <2>1, <2>2 DEF WorkTypeOK
    <2> QED BY <2>2, <2>3, DeadKeepsWorkInv
  <1>11. CASE WorkerKilled
    <2>1. worker' = [Dead EXCEPT !.born = worker.born] /\ UNCHANGED <<now, good>>
          /\ receipt' \in [start : Int, rows : [Loops -> LoopRow]]
      BY <1>1, <1>11 DEF WorkerKilled, WorkTypeOK
    <2> QED BY <2>1, DeadKeepsWorkInv
  <1>12. CASE SecondPasses
    <2>1. now' = now + 1 /\ UNCHANGED <<worker, receipt, good>>
      BY <1>12 DEF SecondPasses
    <2>2. SameRows(worker, worker', worker.spoiled)
      BY <1>1, <2>1 DEF SameRows
    <2> QED BY <1>1, <2>1, <2>2, QuietKeepsWorkInv
  <1> QED BY <1>3, <1>4, <1>5, <1>6, <1>7, <1>8, <1>9, <1>10, <1>11, <1>12 DEF WorkStep

-----------------------------------------------------------------------------
(* The two processes together. *)

SvcInv == HttpInv /\ WorkInv

LEMMA ServiceInitially == SvcInit => SvcInv
  <1> SUFFICES ASSUME SvcInit PROVE SvcInv
    OBVIOUS
  <1>1. HttpInv
    <2>1. Arriving \in ConnRecord /\ Arriving.at = "backlog" /\ Arriving.req = "read" /\ ~ Arriving.app
          /\ Arriving.status = 0 /\ ~ Arriving.wrote
      BY DEF Arriving, ConnRecord, Requests, Reads
    <2>2. Policy("read") = {}
      BY DEF Policy, LocalHost, JsonLength, DecodeJson, BadHost, BadOrigin
    <2>3. ConnOK(Arriving)
      BY <2>1, <2>2 DEF ConnOK
    <2>4. conn = [c \in Conns |-> Arriving] /\ slots = MaxSlots
      BY DEF SvcInit
    <2>5. Holders = {}
      BY <2>1, <2>4 DEF Holders, Holding
    <2>6. Cardinality(Holders) = 0
      BY <2>5, FS_EmptySet
    <2>7. \A c \in Conns : ConnOK(conn[c])
      BY <2>3, <2>4
    <2>8. conn \in [Conns -> ConnRecord]
      BY <2>1, <2>4
    <2> QED BY <2>4, <2>6, <2>7, <2>8, ServiceAssumption DEF HttpInv
  <1>2. WorkInv
    <2> DEFINE rows == NoReceipt.rows
               states == [l \in Loops |-> "ended"]
    <2>1. rows \in [Loops -> LoopRow] /\ states \in [Loops -> LoopState]
      BY DEF NoReceipt, NoRow, LoopRow, LoopState, Never
    <2>2. /\ worker = [start |-> 0, runs |-> states, rows |-> rows, wrote |-> Never, stop |-> FALSE,
                       spoiled |-> FALSE, born |-> 0]
          /\ receipt = [start |-> Never, rows |-> rows]
          /\ good = [l \in Loops |-> Never] /\ now = 0
      BY DEF SvcInit, Dead, NoReceipt
    <2> HIDE DEF rows, states
    <2>3. worker \in WorkerRecord /\ worker.start = 0
      BY <2>1, <2>2 DEF WorkerRecord, Never
    <2>4. WorkTypeOK
      BY <2>1, <2>2, <2>3 DEF WorkTypeOK, Never
    <2> QED BY <2>3, <2>4 DEF WorkInv, ReceiptFollows
  <1> QED BY <1>1, <1>2 DEF SvcInv

(* A process that does not move keeps what holds of it. *)
LEMMA StillKeeps ==
    /\ HttpInv /\ UNCHANGED httpVars => HttpInv'
    /\ WorkInv /\ UNCHANGED workVars => WorkInv'
  <1>1. ASSUME HttpInv, UNCHANGED httpVars PROVE HttpInv'
    BY <1>1 DEF httpVars, HttpInv, Holders, ConnOK
  <1>2. ASSUME WorkInv, UNCHANGED workVars PROVE WorkInv'
    BY <1>2 DEF workVars, WorkInv, WorkTypeOK, ReceiptFollows
  <1> QED BY <1>1, <1>2

(* The service invariant holds for any connections, any number of slots and any ages. *)
THEOREM ServiceInvariant == SvcSpec => []SvcInv
  <1>1. SvcInv /\ [SvcNext]_svcVars => SvcInv'
    <2> SUFFICES ASSUME SvcInv, [SvcNext]_svcVars PROVE SvcInv'
      OBVIOUS
    <2>1. CASE UNCHANGED svcVars
      BY <2>1, StillKeeps DEF svcVars, SvcInv
    <2>2. ASSUME NEW c \in Conns, ConnStep(c) PROVE SvcInv'
      <3>1. UNCHANGED workVars
        BY <2>2 DEF ConnStep, Accept, Overloaded, Starts, StartFails, Vet, Disconnects, Connect, Serve, Reply,
                    CloseClients, Release, Moves
      <3> QED BY <2>2, <3>1, ConnStepKeepsHttpInv, StillKeeps DEF SvcInv
    <2>3. CASE WorkStep
      <3>1. UNCHANGED httpVars
        BY <2>3, Zenon DEF WorkStep, WorkerStarts, PassSucceeds, PassFails, MarksFailure, LoopEnds, IdleProbe, Signal,
                    WorkerCloses, WorkerKilled, SecondPasses, Mark, HttpSame
      <3> QED BY <2>3, <3>1, WorkStepKeepsWorkInv, StillKeeps DEF SvcInv
    <2> QED BY <2>1, <2>2, <2>3 DEF SvcNext
  <1> QED BY <1>1, ServiceInitially, PTL DEF SvcSpec

(***************************************************************************)
(* Slots are given back exactly once and after the clients are closed, a   *)
(* refused request touches nothing, and the health check says ready only   *)
(* on recent successes of the process that runs.                           *)
(***************************************************************************)
THEOREM ServiceStaysSound == SvcSpec => []ServiceIsSound
  <1>1. SvcInv => ServiceIsSound
    <2> SUFFICES ASSUME SvcInv PROVE SlotsAreExact /\ ClientsAreClosed /\ RefusedTouchesNothing /\ ReadyIsRecent
      BY DEF ServiceIsSound
    <2>1. SlotsAreExact
      BY DEF SvcInv, HttpInv, SlotsAreExact, Holders
    <2>2. ClientsAreClosed /\ RefusedTouchesNothing
      BY DEF SvcInv, HttpInv, ConnOK, ClientsAreClosed, RefusedTouchesNothing, Holding
    <2>3. ReadyIsRecent
      <3> SUFFICES ASSUME Ready, NEW l \in Loops
                   PROVE  /\ good[l] # Never /\ now - good[l] <= MaxAge
                          /\ worker.rows[l].ok \/ worker.spoiled
        BY DEF ReadyIsRecent
      <3>1. /\ worker.start # 0 /\ receipt.rows[l].ok /\ now - receipt.rows[l].last <= MaxAge
        BY DEF Ready
      <3>2. /\ receipt.rows[l].last <= good[l] /\ receipt.rows[l].last >= 0
            /\ worker.rows[l].ok \/ worker.spoiled
        BY <3>1 DEF SvcInv, WorkInv, ReceiptFollows
      <3>3. now \in Nat /\ good[l] \in Int /\ receipt.rows[l].last \in Int
        BY DEF SvcInv, WorkInv, WorkTypeOK, LoopRow
      <3> QED BY <3>1, <3>2, <3>3, ServiceAssumption DEF Never
    <2> QED BY <2>1, <2>2, <2>3
  <1> QED BY <1>1, ServiceInvariant, PTL

-----------------------------------------------------------------------------
(***************************************************************************)
(* The message recovery lab: nothing is skipped, only poison is            *)
(* quarantined, no corrupted copy reaches the index and the repair         *)
(* restores what SQL has, for every number of orders, versions, records    *)
(* and failures.                                                           *)
(***************************************************************************)
Indices == 1..Len(source)
Letters == ToSet(dlq) \cup late
DlqIds == {d.id : d \in ToSet(dlq)}

(* A record that process_record refuses for good: strict stops at it, quarantine parks it. *)
Doomed(r) == r.body = "schema" \/ Rejects(r)

(* A consumer that runs is at the committed offset: it commits before it goes on. *)
AtCommitted == pc # "closed" => position = committed

(* The topic holds versions SQL has committed, and a collision only behind the record it corrupts. *)
VersionsAreCommitted == \A i \in Indices : source[i].version <= sql[source[i].order]
CollisionsFollow ==
    \A i \in Indices : source[i].body = "collision" =>
        \E j \in 1..(i - 1) : source[j] = [source[i] EXCEPT !.body = "true"]

(***************************************************************************)
(* Dead letters are of records the consumer has reached; one of the record *)
(* at the offset is of a record that will be refused again, so that a late *)
(* letter behind the offset has a twin that was acknowledged.              *)
(***************************************************************************)
LettersAreBehind ==
    /\ \A d \in Letters : d.id <= committed /\ d.id < Len(source)
    /\ \A d \in Letters : d.id = committed => Doomed(d.record)
    /\ \A d \in late : d.id < committed => d \in ToSet(dlq)

(* What each step of process_record knows about the record it is at. *)
StepKnows ==
    /\ pc = "project" => Current.body # "schema"
    /\ pc = "quarantine" => Doomed(Current)
    /\ pc = "commit" => /\ Shown(Current) \/ Quarantined(position)
                        /\ \A d \in late : d.id = position => d \in ToSet(dlq)

(* The repair: only true records are still to come, every letter is answered or still to be. *)
RepairGoesOn ==
    /\ phase = "load" => Len(source) <= MaxLoad
    /\ phase = "repaired" => todo = {}
    /\ phase # "load" =>
          /\ \A i \in Indices : i > committed => source[i].body = "true"
          /\ todo \subseteq DlqIds
          /\ \A d \in ToSet(dlq) : d.id \in todo \/ \E i \in Indices : source[i] = repair_event(d)
          /\ Len(source) + Cardinality(todo) <= MaxLoad + Cardinality(DlqIds)

(* The types of what the processes share, and of the consumer's own state. *)
SharedTypeOK ==
    /\ sql \in [Orders -> 1..MaxVersion]
    /\ source \in Seq(Record)
    /\ committed \in 0..Len(source)
    /\ DOMAIN es \subseteq Orders
    /\ es \in [DOMAIN es -> [version : 1..MaxVersion, body : Bodies]]
    /\ dlq \in Seq([id : Nat, record : Record])
    /\ late \subseteq [id : Nat, record : Record]
    /\ phase \in {"load", "repair", "repaired"}
    /\ todo \subseteq Nat

ConsumerTypeOK ==
    /\ pc \in {"closed", "decode", "project", "quarantine", "commit"}
    /\ policy \in {"strict", "quarantine"}
    /\ position \in 0..Len(source)
    /\ pc # "closed" => position < Len(source)
    /\ faults \in 0..MaxFaults

(* What holds of the topics, the index and the repair, wherever the consumer is. *)
SharedInv ==
    /\ SharedTypeOK
    /\ VersionsAreCommitted
    /\ CollisionsFollow
    /\ NothingSkipped
    /\ OnlyPoisonQuarantined
    /\ LettersAreBehind
    /\ NoCorruptDocument
    /\ RepairGoesOn

MessageInv ==
    /\ SharedInv
    /\ ConsumerTypeOK
    /\ AtCommitted
    /\ StepKnows

-----------------------------------------------------------------------------
(* Sequences, sets and records. *)

(* The elements of a topic are what its offsets hold. *)
LEMMA ToSetElement ==
    ASSUME NEW S, NEW s \in Seq(S)
    PROVE  /\ \A e \in ToSet(s) : e \in S /\ \E i \in 1..Len(s) : s[i] = e
           /\ \A i \in 1..Len(s) : s[i] \in ToSet(s)
  BY DEF ToSet

(* A topic that is appended to holds the new record besides the old ones. *)
LEMMA ToSetAppend ==
    ASSUME NEW S, NEW s \in Seq(S), NEW e \in S
    PROVE  ToSet(Append(s, e)) = ToSet(s) \cup {e}
  <1> DEFINE longer == Append(s, e)
  <1>1. /\ longer \in Seq(S) /\ Len(s) \in Nat /\ Len(longer) = Len(s) + 1
        /\ \A i \in 1..Len(s) : longer[i] = s[i]
        /\ longer[Len(s) + 1] = e
    OBVIOUS
  <1> HIDE DEF longer
  <1>2. ASSUME NEW x \in ToSet(longer) PROVE x \in ToSet(s) \cup {e}
    <2>1. PICK i \in 1..Len(longer) : longer[i] = x
      BY <1>1, ToSetElement
    <2>2. CASE i = Len(s) + 1
      BY <1>1, <2>1, <2>2
    <2>3. CASE i \in 1..Len(s)
      BY <1>1, <2>1, <2>3, ToSetElement
    <2> QED BY <1>1, <2>2, <2>3
  <1>3. ASSUME NEW x \in ToSet(s) \cup {e} PROVE x \in ToSet(longer)
    <2>1. CASE x = e
      <3>1. Len(s) + 1 \in 1..Len(longer)
        BY <1>1
      <3> QED BY <1>1, <2>1, <3>1, ToSetElement
    <2>2. CASE x \in ToSet(s)
      <3>1. PICK i \in 1..Len(s) : s[i] = x
        BY <2>2, ToSetElement
      <3>2. i \in 1..Len(longer) /\ longer[i] = x
        BY <1>1, <3>1
      <3> QED BY <1>1, <3>2, ToSetElement
    <2> QED BY <2>1, <2>2
  <1> QED BY <1>2, <1>3 DEF longer

(* The dead-letter topic names finitely many records. *)
LEMMA DlqIdsFinite ==
    ASSUME SharedTypeOK
    PROVE  IsFiniteSet(DlqIds) /\ Cardinality(DlqIds) \in Nat
  <1> DEFINE number == [i \in 1..Len(dlq) |-> dlq[i].id]
  <1>1. Len(dlq) \in Nat /\ IsFiniteSet(1..Len(dlq))
    BY FS_Interval DEF SharedTypeOK
  <1>2. DlqIds = {number[i] : i \in 1..Len(dlq)}
    <2>1. \A x \in DlqIds : x \in {number[i] : i \in 1..Len(dlq)}
      BY ToSetElement DEF DlqIds, SharedTypeOK
    <2>2. \A i \in 1..Len(dlq) : number[i] \in DlqIds
      BY ToSetElement DEF DlqIds, SharedTypeOK
    <2> QED BY <2>1, <2>2
  <1>3. IsFiniteSet({number[i] : i \in 1..Len(dlq)})
    <2>1. number \in Surjection(1..Len(dlq), {number[i] : i \in 1..Len(dlq)})
      BY DEF Surjection
    <2> HIDE DEF number
    <2> QED BY <1>1, <2>1, FS_Surjection
  <1> QED BY <1>2, <1>3, FS_CardinalityType

(* A letter names an offset and carries a record. *)
LEMMA LettersAreTyped ==
    ASSUME SharedTypeOK
    PROVE  \A d \in ToSet(dlq) : d.id \in Nat /\ d.record \in Record
  <1>1. ToSet(dlq) \subseteq [id : Nat, record : Record]
    BY ToSetElement DEF SharedTypeOK
  <1> QED BY <1>1

(* What the consumer is at is a record of the topic. *)
LEMMA CurrentIsRecord ==
    ASSUME MessageInv, pc # "closed"
    PROVE  /\ position = committed /\ position \in Nat /\ position + 1 \in Indices
           /\ Current \in Record /\ quarantine_record(position) = [id |-> committed, record |-> Current]
           /\ quarantine_record(position) \in [id : Nat, record : Record]
  <1>1. /\ position = committed /\ position \in Nat /\ position < Len(source) /\ Len(source) \in Nat
        /\ source \in Seq(Record)
    BY DEF MessageInv, AtCommitted, ConsumerTypeOK, SharedInv, SharedTypeOK
  <1>2. position + 1 \in Indices
    BY <1>1 DEF Indices
  <1>3. Current \in Record
    BY <1>1, <1>2 DEF Current, Indices
  <1>4. quarantine_record(position) = [id |-> committed, record |-> Current]
    BY <1>1 DEF quarantine_record, Current
  <1> QED BY <1>1, <1>2, <1>3, <1>4

(* A healthy record is never refused, because the index holds no corrupted copy. *)
LEMMA TrueIsNotDoomed ==
    ASSUME SharedInv, NEW r \in Record, r.body = "true"
    PROVE  ~ Doomed(r)
  <1> SUFFICES ASSUME Doomed(r) PROVE FALSE
    OBVIOUS
  <1>1. r.order \in DOMAIN es /\ es[r.order].version = r.version /\ es[r.order] # Document(r)
    BY DEF Doomed, Rejects
  <1>2. es[r.order] \in [version : 1..MaxVersion, body : Bodies] /\ es[r.order].body = "true"
    BY <1>1 DEF SharedInv, SharedTypeOK, NoCorruptDocument
  <1>3. es[r.order] = [version |-> r.version, body |-> "true"]
    BY <1>1, <1>2
  <1> QED BY <1>1, <1>3 DEF Document

(* A letter about the record at the offset says that it is refused. *)
LEMMA NoLetterOfAccepted ==
    ASSUME MessageInv, pc = "project", ~ Rejects(Current)
    PROVE  \A d \in Letters : d.id < committed
  <1> SUFFICES ASSUME NEW d \in Letters, d.id = committed PROVE FALSE
    <2>1. \A d \in Letters : d.id \in Int /\ d.id <= committed
      <3>1. ToSet(dlq) \subseteq [id : Nat, record : Record]
        BY ToSetElement DEF MessageInv, SharedInv, SharedTypeOK
      <3>2. Letters \subseteq [id : Nat, record : Record]
        BY <3>1 DEF MessageInv, SharedInv, SharedTypeOK, Letters
      <3> QED BY <3>2 DEF MessageInv, SharedInv, LettersAreBehind
    <2>2. committed \in Int
      BY DEF MessageInv, SharedInv, SharedTypeOK
    <2> QED BY <2>1, <2>2
  <1>1. Doomed(d.record) /\ d = quarantine_record(d.id)
    BY DEF MessageInv, SharedInv, LettersAreBehind, OnlyPoisonQuarantined, Letters
  <1>2. d.record = Current
    <2>1. position = committed
      BY CurrentIsRecord
    <2> QED BY <1>1, <2>1 DEF quarantine_record, Current
  <1>3. Current.body # "schema"
    BY DEF MessageInv, StepKnows
  <1> QED BY <1>1, <1>2, <1>3 DEF Doomed

(***************************************************************************)
(* Only a healthy record is written: a collision stands behind the record  *)
(* it corrupts, which is shown since it was not skipped nor quarantined.   *)
(***************************************************************************)
LEMMA AcceptedIsTrue ==
    ASSUME MessageInv, pc = "project", Accepts(Current)
    PROVE  Current.body = "true" /\ Current.version <= sql[Current.order]
  <1>1. /\ position = committed /\ position \in Nat /\ position + 1 \in Indices /\ Current \in Record
    BY CurrentIsRecord
  <1>2. Current.body \in Bodies /\ Current.body # "schema" /\ Current.body # "mapping"
    BY <1>1 DEF MessageInv, StepKnows, Accepts, Rejects, Record
  <1>3. Current.version <= sql[Current.order]
    BY <1>1 DEF MessageInv, SharedInv, VersionsAreCommitted, Current
  <1>4. ASSUME Current.body = "collision" PROVE FALSE
    <2>1. PICK j \in 1..(position + 1 - 1) : source[j] = [Current EXCEPT !.body = "true"]
      BY <1>1, <1>4 DEF MessageInv, SharedInv, CollisionsFollow, Current
    <2> PICK i \in 0..(committed - 1) : i + 1 = j
      <3>1. j - 1 \in 0..(committed - 1) /\ (j - 1) + 1 = j
        BY <1>1, <2>1
      <3> QED BY <3>1
    <2>2. /\ source[j].body = "true" /\ source[j].order = Current.order /\ source[j].version = Current.version
      BY <1>1, <2>1 DEF Record
    <2>3. Shown(source[i + 1]) \/ Quarantined(i)
      BY DEF MessageInv, SharedInv, NothingSkipped
    <2>4. ~ Quarantined(i)
      BY <2>2 DEF MessageInv, SharedInv, OnlyPoisonQuarantined, Quarantined, quarantine_record
    <2>5. /\ Current.order \in DOMAIN es
          /\ es[Current.order].version > Current.version \/ es[Current.order] = Document(source[j])
      BY <2>2, <2>3, <2>4 DEF Shown
    <2>6. es[Current.order].version >= Current.version
      <3>1. es[Current.order].version \in Int /\ Current.version \in Int
        BY <1>1, <2>5 DEF MessageInv, SharedInv, SharedTypeOK, Record
      <3> QED BY <2>2, <2>5, <3>1 DEF Document
    <2>7. es[Current.order].version < Current.version
      BY <2>5 DEF Accepts
    <2>8. es[Current.order].version \in Int /\ Current.version \in Int
      BY <1>1, <2>5 DEF MessageInv, SharedInv, SharedTypeOK, Record
    <2> QED BY <2>6, <2>7, <2>8
  <1> QED BY <1>2, <1>3, <1>4 DEF Bodies

-----------------------------------------------------------------------------
(* The index, the dead-letter topic and the offset, one change at a time. *)

(* A step of the consumer alone. *)
LEMMA ConsumerAlone ==
    ASSUME SharedInv, UNCHANGED <<drill, committed, es, dlq, late>>
    PROVE  SharedInv'
  BY DEF SharedInv, drill, SharedTypeOK, VersionsAreCommitted, CollisionsFollow, NothingSkipped, OnlyPoisonQuarantined,
         LettersAreBehind, NoCorruptDocument, RepairGoesOn, Indices, Letters, DlqIds, Doomed, Rejects, Document,
         Shown, Quarantined, quarantine_record, repair_event

LEMMA StoreEffect ==
    ASSUME SharedTypeOK, NEW r \in Record, Store(r)
    PROVE  /\ DOMAIN es' = DOMAIN es \cup {r.order} /\ es'[r.order] = Document(r)
           /\ \A o \in DOMAIN es : o # r.order => es'[o] = es[o]
           /\ DOMAIN es' \subseteq Orders
           /\ es' \in [DOMAIN es' -> [version : 1..MaxVersion, body : Bodies]]
  <1>1. Document(r) \in [version : 1..MaxVersion, body : Bodies] /\ r.order \in Orders
    BY DEF Document, Record
  <1>2. es' = [o \in DOMAIN es \cup {r.order} |-> IF o = r.order THEN Document(r) ELSE es[o]]
    BY DEF Store
  <1> QED BY <1>1, <1>2 DEF SharedTypeOK

(* The fenced write of a healthy record: what was shown stays shown. *)
LEMMA StoreKeepsShared ==
    ASSUME MessageInv, pc = "project", Accepts(Current), Store(Current), UNCHANGED <<drill, committed, dlq, late>>
    PROVE  SharedInv' /\ Shown(source[committed + 1])'
  <1> DEFINE r == Current
  <1>1. r \in Record /\ position = committed /\ SharedInv /\ SharedTypeOK
    BY CurrentIsRecord DEF MessageInv, SharedInv
  <1>2. r.body = "true" /\ r.version <= sql[r.order]
    BY AcceptedIsTrue
  <1>3. /\ DOMAIN es' = DOMAIN es \cup {r.order} /\ es'[r.order] = Document(r)
        /\ \A o \in DOMAIN es : o # r.order => es'[o] = es[o]
        /\ DOMAIN es' \subseteq Orders
        /\ es' \in [DOMAIN es' -> [version : 1..MaxVersion, body : Bodies]]
    BY <1>1, StoreEffect
  <1>4. \A d \in Letters : d.id < committed
    BY NoLetterOfAccepted DEF Accepts
  <1>5. r.order \in DOMAIN es => es[r.order].version < r.version
    BY DEF Accepts
  <1>6. r = source[committed + 1]
    BY <1>1 DEF Current
  <1> HIDE DEF r
  <1>7. UNCHANGED <<sql, source, phase, todo>>
    BY DEF drill
  <1>8. SharedTypeOK'
    BY <1>1, <1>3, <1>7 DEF SharedTypeOK
  <1>9. VersionsAreCommitted' /\ CollisionsFollow' /\ OnlyPoisonQuarantined'
    BY <1>1, <1>7 DEF SharedInv, VersionsAreCommitted, CollisionsFollow, OnlyPoisonQuarantined, Indices, quarantine_record
  <1>10. \A q \in Record : Shown(q) => Shown(q)'
    <2> SUFFICES ASSUME NEW q \in Record, Shown(q) PROVE Shown(q)'
      OBVIOUS
    <2>1. CASE q.order # r.order
      BY <1>3, <2>1 DEF Shown, Document
    <2>2. CASE q.order = r.order
      <3>1. q.order \in DOMAIN es /\ es[q.order].version >= q.version
        <4>1. q.order \in DOMAIN es /\ es[q.order].version \in Int /\ q.version \in Int
          BY <1>1 DEF Shown, SharedTypeOK, Record
        <4> QED BY <4>1 DEF Shown, Document
      <3>2. es[r.order].version \in Int /\ r.version \in Int /\ q.version \in Int
        BY <1>1, <2>2, <3>1 DEF SharedTypeOK, Record
      <3>3. es'[q.order].version > q.version
        BY <1>3, <1>5, <2>2, <3>1, <3>2 DEF Document
      <3> QED BY <1>3, <2>2, <3>3 DEF Shown
    <2> QED BY <2>1, <2>2
  <1>11. NothingSkipped'
    <2>1. \A i \in 0..(committed - 1) : source[i + 1] \in Record
      BY <1>1 DEF SharedTypeOK
    <2> QED BY <1>1, <1>7, <1>10, <2>1 DEF SharedInv, NothingSkipped, Quarantined, quarantine_record, Shown, Document
  <1>12. LettersAreBehind'
    <2>1. committed \in Int /\ \A d \in Letters : d.id # committed
      <3>1. ToSet(dlq) \subseteq [id : Nat, record : Record]
        BY <1>1, ToSetElement DEF SharedTypeOK
      <3>2. \A d \in Letters : d.id \in Int
        BY <1>1, <3>1 DEF Letters, SharedTypeOK
      <3>3. committed \in Int
        BY <1>1 DEF SharedTypeOK
      <3> QED BY <1>4, <3>2, <3>3
    <2> QED BY <1>1, <1>7, <2>1 DEF SharedInv, LettersAreBehind, Letters
  <1>13. NoCorruptDocument'
    BY <1>1, <1>2, <1>3, <1>7 DEF SharedInv, NoCorruptDocument, Document
  <1>14. RepairGoesOn'
    BY <1>1, <1>7 DEF SharedInv, RepairGoesOn, Indices, DlqIds, repair_event
  <1>15. Shown(source[committed + 1])'
    BY <1>3, <1>6, <1>7 DEF Shown, Document
  <1> QED BY <1>8, <1>9, <1>11, <1>12, <1>13, <1>14, <1>15 DEF SharedInv

(* In the repair only healthy records are left to read. *)
LEMMA PoisonIsOfTheLoad ==
    ASSUME MessageInv, pc # "closed", Current.body # "true"
    PROVE  phase = "load"
  <1>1. position + 1 \in Indices /\ position = committed /\ committed \in Int
    BY CurrentIsRecord
  <1>2. position + 1 > committed
    BY <1>1
  <1> QED BY <1>1, <1>2 DEF MessageInv, SharedInv, RepairGoesOn, Current

(* A letter that is acknowledged, or given up and still under way. *)
LEMMA LetterKeepsShared ==
    ASSUME MessageInv, pc = "quarantine", UNCHANGED <<drill, committed, es>>,
           \/ dlq' = Append(dlq, quarantine_record(position)) /\ late' = late
           \/ dlq' = dlq /\ late' = late \cup {quarantine_record(position)}
    PROVE  SharedInv'
  <1> DEFINE letter == quarantine_record(position)
  <1>1. /\ SharedInv /\ SharedTypeOK /\ UNCHANGED <<sql, source, phase, todo>>
        /\ position = committed /\ committed \in Nat /\ committed + 1 \in Indices /\ Current \in Record
        /\ letter = [id |-> committed, record |-> Current] /\ letter \in [id : Nat, record : Record]
    BY CurrentIsRecord DEF MessageInv, SharedInv, drill
  <1>2. Doomed(Current) /\ Current.body # "true"
    BY <1>1, TrueIsNotDoomed DEF MessageInv, StepKnows
  <1>3. phase = "load"
    BY <1>2, PoisonIsOfTheLoad
  <1> HIDE DEF letter
  <1> DEFINE LetterType == [id : Nat, record : Record]
  <1>a. dlq \in Seq(LetterType) /\ late \subseteq LetterType /\ letter \in LetterType
    BY <1>1 DEF SharedTypeOK
  <1>b. \/ dlq' = Append(dlq, letter) /\ late' = late
        \/ dlq' = dlq /\ late' = late \cup {letter}
    BY DEF letter
  <1> HIDE DEF LetterType
  <1>4. dlq' \in Seq(LetterType) /\ late' \subseteq LetterType
    BY <1>a, <1>b
  <1>5. /\ ToSet(dlq) \subseteq ToSet(dlq') /\ late \subseteq late'
        /\ Letters' \subseteq Letters \cup {letter}
        /\ \A d \in late' : d \in late \/ d = letter
    <2>1. ToSet(Append(dlq, letter)) = ToSet(dlq) \cup {letter}
      BY <1>a, ToSetAppend
    <2> QED BY <1>b, <2>1 DEF Letters
  <1>6. SharedTypeOK'
    BY <1>1, <1>4 DEF SharedTypeOK, LetterType
  <1>7. VersionsAreCommitted' /\ CollisionsFollow' /\ NoCorruptDocument'
    BY <1>1 DEF SharedInv, VersionsAreCommitted, CollisionsFollow, NoCorruptDocument, Indices
  <1>8. NothingSkipped'
    BY <1>1, <1>5 DEF SharedInv, NothingSkipped, Shown, Document, Quarantined, quarantine_record
  <1>9. letter.id = committed /\ letter.record = Current /\ letter = quarantine_record(letter.id)
    <2>1. letter.id = committed /\ letter.record = Current
      BY <1>1
    <2> QED BY <1>1, <2>1 DEF letter
  <1>10. OnlyPoisonQuarantined'
    <2> SUFFICES ASSUME NEW d \in Letters' PROVE d = quarantine_record(d.id)' /\ d.record.body # "true"
      BY DEF OnlyPoisonQuarantined, Letters
    <2>1. (quarantine_record(d.id))' = [id |-> d.id, record |-> source[d.id + 1]]
      BY <1>1 DEF quarantine_record
    <2>2. CASE d \in Letters
      BY <1>1, <2>1, <2>2 DEF SharedInv, OnlyPoisonQuarantined, Letters, quarantine_record
    <2>3. CASE d = letter
      BY <1>2, <1>9, <2>1, <2>3 DEF quarantine_record
    <2> QED BY <1>5, <2>2, <2>3
  <1>11. LettersAreBehind'
    <2>1. committed < Len(source) /\ Len(source) \in Nat
      BY <1>1 DEF Indices, SharedTypeOK
    <2>2. ASSUME NEW d \in Letters'
          PROVE  d.id <= committed /\ d.id < Len(source) /\ (d.id = committed => Doomed(d.record)')
      <3>1. CASE d \in Letters
        BY <1>1, <3>1 DEF SharedInv, LettersAreBehind, Doomed, Rejects, Document
      <3>2. CASE d = letter
        BY <1>1, <1>2, <1>9, <2>1, <3>2 DEF Doomed, Rejects, Document
      <3> QED BY <1>5, <3>1, <3>2
    <2>3. ASSUME NEW d \in late', d.id < committed PROVE d \in ToSet(dlq')
      <3>1. d \in late
        BY <1>1, <1>5, <1>9, <2>3
      <3> QED BY <1>1, <1>5, <2>3, <3>1 DEF SharedInv, LettersAreBehind
    <2> QED BY <1>1, <2>2, <2>3 DEF LettersAreBehind
  <1>12. RepairGoesOn'
    BY <1>1, <1>3 DEF SharedInv, RepairGoesOn
  <1> QED BY <1>6, <1>7, <1>8, <1>10, <1>11, <1>12 DEF SharedInv

(* The offset passes a record that is shown or in the dead-letter topic. *)
LEMMA CommitKeepsShared ==
    ASSUME MessageInv, pc = "commit", committed' = position + 1, UNCHANGED <<drill, es, dlq, late>>
    PROVE  SharedInv'
  <1>1. /\ SharedInv /\ SharedTypeOK /\ UNCHANGED <<sql, source, phase, todo>>
        /\ position = committed /\ committed \in Nat /\ committed + 1 \in Indices
    BY CurrentIsRecord DEF MessageInv, SharedInv, drill
  <1>2. committed' = committed + 1 /\ committed' \in 0..Len(source) /\ Len(source) \in Nat
    BY <1>1 DEF Indices, SharedTypeOK
  <1>3. SharedTypeOK'
    BY <1>1, <1>2 DEF SharedTypeOK
  <1>4. VersionsAreCommitted' /\ CollisionsFollow' /\ NoCorruptDocument' /\ OnlyPoisonQuarantined'
    BY <1>1 DEF SharedInv, VersionsAreCommitted, CollisionsFollow, NoCorruptDocument, Indices, OnlyPoisonQuarantined,
                quarantine_record
  <1>5. NothingSkipped'
    <2> SUFFICES ASSUME NEW i \in 0..committed PROVE Shown(source[i + 1])' \/ Quarantined(i)'
      BY <1>1, <1>2 DEF NothingSkipped
    <2>1. Shown(source[i + 1]) \/ Quarantined(i)
      <3>1. CASE i = committed
        BY <1>1, <3>1 DEF MessageInv, StepKnows, Current
      <3>2. CASE i \in 0..(committed - 1)
        BY <1>1, <3>2 DEF SharedInv, NothingSkipped
      <3> QED BY <1>1, <3>1, <3>2
    <2> QED BY <1>1, <2>1 DEF Shown, Document, Quarantined, quarantine_record
  <1>6. LettersAreBehind'
    <2>1. \A d \in Letters : d.id \in Int /\ d.id <= committed /\ d.id < Len(source)
      <3>1. ToSet(dlq) \subseteq [id : Nat, record : Record]
        BY <1>1, ToSetElement DEF SharedTypeOK
      <3>2. \A d \in Letters : d.id \in Int
        BY <1>1, <3>1 DEF Letters, SharedTypeOK
      <3> QED BY <1>1, <3>2 DEF SharedInv, LettersAreBehind
    <2>2. \A d \in Letters : d.id < committed'
      BY <1>1, <1>2, <2>1
    <2>3. \A d \in late : d \in ToSet(dlq)
      <3> SUFFICES ASSUME NEW d \in late PROVE d \in ToSet(dlq)
        OBVIOUS
      <3>1. d \in Letters
        BY DEF Letters
      <3>2. CASE d.id < committed
        BY <1>1, <3>2 DEF SharedInv, LettersAreBehind
      <3>3. CASE d.id = committed
        BY <1>1, <3>3 DEF MessageInv, StepKnows
      <3> QED BY <1>1, <2>1, <3>1, <3>2, <3>3
    <2>4. \A d \in Letters : d.id <= committed' /\ d.id < Len(source) /\ d.id # committed'
      BY <1>1, <1>2, <2>1, <2>2
    <2> QED BY <1>1, <2>3, <2>4 DEF LettersAreBehind, Letters
  <1>7. RepairGoesOn'
    BY <1>1, <1>2 DEF SharedInv, RepairGoesOn, Indices, DlqIds, repair_event
  <1> QED BY <1>3, <1>4, <1>5, <1>6, <1>7 DEF SharedInv
(* A letter under way is acknowledged late: in the repair it is the twin of one that was read. *)
LEMMA LateKeepsMessageInv ==
    ASSUME MessageInv, LateArrival
    PROVE  MessageInv'
  <1> DEFINE LetterType == [id : Nat, record : Record]
  <1>1. PICK d \in late : dlq' = Append(dlq, d) /\ late' = late \ {d}
    BY DEF LateArrival
  <1>2. /\ SharedInv /\ SharedTypeOK
        /\ UNCHANGED <<sql, source, phase, todo, committed, es, pc, policy, position, faults>>
    BY DEF MessageInv, SharedInv, LateArrival, drill, consumer
  <1>3. dlq \in Seq(LetterType) /\ late \subseteq LetterType /\ d \in LetterType
    BY <1>2 DEF SharedTypeOK
  <1> HIDE DEF LetterType
  <1>4. ToSet(dlq') = ToSet(dlq) \cup {d}
    BY <1>1, <1>3, ToSetAppend
  <1>5. Letters' = Letters /\ d \in Letters
    BY <1>1, <1>4 DEF Letters
  <1>6. dlq' \in Seq(LetterType) /\ late' \subseteq LetterType
    BY <1>1, <1>3
  <1>7. SharedTypeOK'
    BY <1>2, <1>6 DEF SharedTypeOK, LetterType
  <1>8. VersionsAreCommitted' /\ CollisionsFollow' /\ NoCorruptDocument'
    BY <1>2 DEF SharedInv, VersionsAreCommitted, CollisionsFollow, NoCorruptDocument, Indices
  <1>9. NothingSkipped'
    BY <1>2, <1>4 DEF SharedInv, NothingSkipped, Shown, Document, Quarantined, quarantine_record
  <1>10. OnlyPoisonQuarantined'
    BY <1>2, <1>5 DEF SharedInv, OnlyPoisonQuarantined, Letters, quarantine_record
  <1>11. LettersAreBehind'
    <2>1. \A e \in Letters : Doomed(e.record)' <=> Doomed(e.record)
      BY <1>2 DEF Doomed, Rejects, Document
    <2>2. \A e \in late' : e \in late
      BY <1>1
    <2> QED BY <1>2, <1>4, <1>5, <2>1, <2>2 DEF SharedInv, LettersAreBehind
  <1>12. phase # "load" => d \in ToSet(dlq)
    <2> SUFFICES ASSUME phase # "load", d \notin ToSet(dlq) PROVE FALSE
      OBVIOUS
    <2>1. d.id \in Nat /\ committed \in Nat /\ d.id <= committed /\ d.id < Len(source) /\ ~ (d.id < committed)
      BY <1>2, <1>3, <1>5 DEF SharedInv, SharedTypeOK, LettersAreBehind, LetterType
    <2>2. d.id = committed /\ Len(source) \in Nat
      BY <1>2, <2>1 DEF SharedTypeOK
    <2>3. d.id + 1 \in Indices /\ d.id + 1 > committed
      BY <2>1, <2>2 DEF Indices
    <2>4. source[d.id + 1].body = "true"
      BY <1>2, <2>3 DEF SharedInv, RepairGoesOn
    <2> QED BY <1>2, <1>5, <2>4 DEF SharedInv, OnlyPoisonQuarantined, Letters, quarantine_record
  <1>13. RepairGoesOn'
    <2>1. CASE phase = "load"
      BY <1>2, <2>1 DEF SharedInv, RepairGoesOn
    <2>2. CASE phase # "load"
      <3>1. ToSet(dlq') = ToSet(dlq)
        BY <1>4, <1>12, <2>2
      <3> QED BY <1>2, <3>1 DEF SharedInv, RepairGoesOn, Indices, DlqIds, repair_event
    <2> QED BY <2>1, <2>2
  <1>14. ConsumerTypeOK' /\ AtCommitted'
    BY <1>2 DEF MessageInv, ConsumerTypeOK, AtCommitted
  <1>15. StepKnows'
    BY <1>1, <1>2, <1>4 DEF MessageInv, StepKnows, Current, Doomed, Rejects, Document, Shown, Quarantined, quarantine_record
  <1> QED BY <1>7, <1>8, <1>9, <1>10, <1>11, <1>13, <1>14, <1>15 DEF MessageInv, SharedInv

-----------------------------------------------------------------------------
(* The drill: the load and the repair. *)

(* What every record the drill sends leaves as it was. *)
SendKeeps ==
    /\ source' \in Seq(Record) /\ committed' \in 0..Len(source')
    /\ VersionsAreCommitted' /\ CollisionsFollow' /\ NothingSkipped' /\ OnlyPoisonQuarantined'
    /\ LettersAreBehind' /\ NoCorruptDocument' /\ ConsumerTypeOK' /\ AtCommitted' /\ StepKnows'
    /\ Len(source) \in Nat /\ Len(source') = Len(source) + 1
    /\ \A i \in Indices : source'[i] = source[i]

LEMMA SourceGrows ==
    ASSUME MessageInv, NEW r \in Record, r.version <= sql[r.order],
           r.body = "collision" => [r EXCEPT !.body = "true"] \in ToSet(source),
           source' = Append(source, r), UNCHANGED <<sql, committed, es, dlq, late, consumer, faults>>
    PROVE  SendKeeps /\ source'[Len(source) + 1] = r
  <1>1. /\ SharedInv /\ SharedTypeOK /\ UNCHANGED <<pc, policy, position>>
    BY DEF MessageInv, SharedInv, consumer
  <1>2. /\ source' \in Seq(Record) /\ Len(source) \in Nat /\ Len(source') = Len(source) + 1
        /\ \A i \in Indices : source'[i] = source[i]
        /\ source'[Len(source) + 1] = r
    BY <1>1 DEF SharedTypeOK, Indices
  <1>3. Indices' = Indices \cup {Len(source) + 1}
    BY <1>2 DEF Indices
  <1>4. committed \in Nat /\ committed <= Len(source) /\ committed' \in 0..Len(source')
    BY <1>1, <1>2 DEF SharedTypeOK
  <1>5. VersionsAreCommitted'
    BY <1>1, <1>2, <1>3 DEF SharedInv, VersionsAreCommitted
  <1>6. CollisionsFollow'
    <2> SUFFICES ASSUME NEW i \in Indices', source'[i].body = "collision"
                 PROVE  \E j \in 1..(i - 1) : source'[j] = [source'[i] EXCEPT !.body = "true"]
      BY DEF CollisionsFollow
    <2>1. CASE i \in Indices
      <3>1. PICK j \in 1..(i - 1) : source[j] = [source[i] EXCEPT !.body = "true"]
        BY <1>1, <1>2, <2>1 DEF SharedInv, CollisionsFollow
      <3>2. j \in Indices
        BY <1>2, <2>1 DEF Indices
      <3> QED BY <1>2, <2>1, <3>1, <3>2
    <2>2. CASE i = Len(source) + 1
      <3>1. PICK j \in 1..Len(source) : source[j] = [r EXCEPT !.body = "true"]
        BY <1>1, <1>2, <2>2, ToSetElement DEF SharedTypeOK
      <3>2. j \in 1..(i - 1) /\ source'[j] = source[j] /\ source'[i] = r
        BY <1>2, <2>2 DEF Indices
      <3> QED BY <3>1, <3>2
    <2> QED BY <1>3, <2>1, <2>2
  <1>7. \A i \in 0..(committed - 1) : i + 1 \in Indices
    BY <1>2, <1>4 DEF Indices
  <1>8. NothingSkipped'
    BY <1>1, <1>2, <1>4, <1>7 DEF SharedInv, NothingSkipped, Shown, Document, Quarantined, quarantine_record
  <1>9. ToSet(dlq) \subseteq [id : Nat, record : Record]
    BY <1>1, ToSetElement DEF SharedTypeOK
  <1>10. \A d \in Letters : d.id \in Nat /\ d.id <= committed /\ d.id < Len(source) /\ d.id + 1 \in Indices
    <2>1. \A d \in Letters : d.id \in Nat /\ d.id <= committed /\ d.id < Len(source)
      BY <1>1, <1>9 DEF SharedInv, SharedTypeOK, Letters, LettersAreBehind
    <2> QED BY <1>2, <2>1 DEF Indices
  <1>11. OnlyPoisonQuarantined'
    BY <1>1, <1>2, <1>10 DEF SharedInv, OnlyPoisonQuarantined, Letters, quarantine_record
  <1>12. LettersAreBehind'
    <2>1. Letters' = Letters
      BY DEF Letters
    <2>2. \A d \in Letters : d.id < Len(source')
      BY <1>2, <1>10
    <2>3. \A d \in Letters : Doomed(d.record)' <=> Doomed(d.record)
      BY <1>1 DEF Doomed, Rejects, Document
    <2> QED BY <1>1, <2>1, <2>2, <2>3 DEF SharedInv, LettersAreBehind
  <1>13. NoCorruptDocument'
    BY <1>1 DEF SharedInv, NoCorruptDocument
  <1>14. ConsumerTypeOK' /\ AtCommitted'
    <2>1. position \in 0..Len(source) /\ (pc # "closed" => position < Len(source))
      BY DEF MessageInv, ConsumerTypeOK
    <2>2. position' \in 0..Len(source') /\ (pc' # "closed" => position' < Len(source'))
      BY <1>1, <1>2, <2>1
    <2> QED BY <1>1, <2>2 DEF MessageInv, ConsumerTypeOK, AtCommitted
  <1>15. StepKnows'
    <2>1. CASE pc = "closed"
      BY <1>1, <2>1 DEF StepKnows
    <2>2. CASE pc # "closed"
      <3>1. position + 1 \in Indices
        BY <2>2, CurrentIsRecord
      <3>2. Current' = Current /\ source'[position + 1] = source[position + 1]
        BY <1>1, <1>2, <3>1 DEF Current
      <3> QED BY <1>1, <3>2 DEF MessageInv, StepKnows, Current, Doomed, Rejects, Document, Shown, Quarantined, quarantine_record
    <2> QED BY <2>1, <2>2
  <1> QED BY <1>2, <1>4, <1>5, <1>6, <1>8, <1>11, <1>12, <1>13, <1>14, <1>15 DEF SendKeeps

(* An update of SQL: the versions on the topic and in the index stay behind it. *)
LEMMA UpdateKeepsMessageInv ==
    ASSUME MessageInv, NEW o \in Orders, Update(o)
    PROVE  MessageInv'
  <1>1. /\ SharedInv /\ SharedTypeOK /\ phase = "load"
        /\ UNCHANGED <<source, phase, todo, committed, es, dlq, late, pc, policy, position, faults>>
    BY DEF MessageInv, SharedInv, Update, consumer
  <1>2. sql' \in [Orders -> 1..MaxVersion] /\ \A q \in Orders : sql'[q] >= sql[q]
    BY <1>1, MessageAssumption DEF SharedTypeOK, Update
  <1>3. SharedTypeOK'
    BY <1>1, <1>2 DEF SharedTypeOK
  <1>4. VersionsAreCommitted'
    <2> SUFFICES ASSUME NEW i \in Indices PROVE source[i].version <= sql'[source[i].order]
      BY <1>1 DEF VersionsAreCommitted, Indices
    <2>1. source[i] \in Record
      BY <1>1 DEF SharedTypeOK, Indices
    <2>2. source[i].order \in Orders /\ source[i].version \in Int
      BY <2>1 DEF Record
    <2>3. source[i].version <= sql[source[i].order]
      BY <1>1 DEF SharedInv, VersionsAreCommitted
    <2>4. sql[source[i].order] \in Int /\ sql'[source[i].order] \in Int
      BY <1>1, <1>2, <2>2 DEF SharedTypeOK
    <2> QED BY <1>2, <2>2, <2>3, <2>4
  <1>5. CollisionsFollow' /\ NothingSkipped' /\ OnlyPoisonQuarantined'
    BY <1>1 DEF SharedInv, CollisionsFollow, NothingSkipped, OnlyPoisonQuarantined, Indices, Shown, Document,
                Quarantined, quarantine_record
  <1>6. LettersAreBehind'
    BY <1>1 DEF SharedInv, LettersAreBehind, Letters, Doomed, Rejects, Document
  <1>7. NoCorruptDocument'
    <2> SUFFICES ASSUME NEW q \in DOMAIN es PROVE es[q].body = "true" /\ es[q].version <= sql'[q]
      BY <1>1 DEF NoCorruptDocument
    <2>1. q \in Orders /\ es[q].version \in Int /\ es[q].body = "true" /\ es[q].version <= sql[q]
      BY <1>1 DEF SharedInv, SharedTypeOK, NoCorruptDocument
    <2>2. sql[q] \in Int /\ sql'[q] \in Int
      BY <1>1, <1>2, <2>1 DEF SharedTypeOK
    <2> QED BY <1>2, <2>1, <2>2
  <1>8. RepairGoesOn'
    BY <1>1 DEF SharedInv, RepairGoesOn
  <1>9. ConsumerTypeOK' /\ AtCommitted' /\ StepKnows'
    BY <1>1 DEF MessageInv, ConsumerTypeOK, AtCommitted, StepKnows, Current, Doomed, Rejects, Document, Shown,
                Quarantined, quarantine_record
  <1> QED BY <1>3, <1>4, <1>5, <1>6, <1>7, <1>8, <1>9 DEF MessageInv, SharedInv
(* The load: any committed version, or a poisoned copy of one. *)
LEMMA SendKeepsMessageInv ==
    ASSUME MessageInv, NEW r \in Record, Send(r), r.version <= sql[r.order],
           r.body = "collision" => [r EXCEPT !.body = "true"] \in ToSet(source)
    PROVE  MessageInv'
  <1>1. /\ SharedInv /\ SharedTypeOK /\ phase = "load" /\ Len(source) < MaxLoad /\ source' = Append(source, r)
        /\ UNCHANGED <<sql, phase, todo, committed, es, dlq, late, consumer, faults>>
    BY DEF MessageInv, SharedInv, Send
  <1>2. SendKeeps
    BY <1>1, SourceGrows
  <1>3. SharedTypeOK'
    BY <1>1, <1>2 DEF SharedTypeOK, SendKeeps
  <1>4. Len(source') <= MaxLoad
    BY <1>1, <1>2, MessageAssumption DEF SendKeeps
  <1>5. RepairGoesOn'
    BY <1>1, <1>4 DEF RepairGoesOn
  <1> QED BY <1>2, <1>3, <1>5 DEF MessageInv, SharedInv, SendKeeps

LEMMA SendTrueKeepsMessageInv ==
    ASSUME MessageInv, NEW o \in Orders, NEW v \in 1..MaxVersion, SendTrue(o, v)
    PROVE  MessageInv'
  <1> DEFINE r == [order |-> o, version |-> v, body |-> "true"]
  <1>1. r \in Record /\ r.version <= sql[r.order] /\ r.body = "true"
    BY DEF Record, Bodies, SendTrue
  <1>2. Send(r)
    BY DEF SendTrue
  <1> HIDE DEF r
  <1> QED BY <1>1, <1>2, SendKeepsMessageInv

LEMMA SendPoisonKeepsMessageInv ==
    ASSUME MessageInv, NEW o \in Orders, NEW v \in 1..MaxVersion, NEW body \in Bodies, SendPoison(o, v, body)
    PROVE  MessageInv'
  <1> DEFINE r == [order |-> o, version |-> v, body |-> body]
  <1>1. r \in Record /\ r.version <= sql[r.order]
    BY DEF Record, SendPoison
  <1>2. Send(r)
    BY DEF SendPoison
  <1>3. r.body = "collision" => [r EXCEPT !.body = "true"] \in ToSet(source)
    <2>1. [r EXCEPT !.body = "true"] = [order |-> o, version |-> v, body |-> "true"]
      OBVIOUS
    <2> QED BY <2>1 DEF SendPoison
  <1> HIDE DEF r
  <1> QED BY <1>1, <1>2, <1>3, SendKeepsMessageInv

(* The repair begins when the load is consumed: nothing is left behind the offset. *)
LEMMA RepairReadKeepsMessageInv ==
    ASSUME MessageInv, RepairRead
    PROVE  MessageInv'
  <1>1. /\ SharedInv /\ SharedTypeOK /\ phase = "load" /\ committed = Len(source) /\ phase' = "repair"
        /\ todo' = DlqIds
        /\ UNCHANGED <<sql, source, committed, es, dlq, late, pc, policy, position, faults>>
    BY DEF MessageInv, SharedInv, RepairRead, consumer, DlqIds
  <1>2. DlqIds \subseteq Nat
    BY <1>1, LettersAreTyped DEF DlqIds
  <1>3. SharedTypeOK'
    BY <1>1, <1>2 DEF SharedTypeOK
  <1>4. /\ VersionsAreCommitted' /\ CollisionsFollow' /\ NothingSkipped' /\ OnlyPoisonQuarantined'
        /\ NoCorruptDocument'
    BY <1>1 DEF SharedInv, VersionsAreCommitted, CollisionsFollow, NothingSkipped, OnlyPoisonQuarantined,
                NoCorruptDocument, Indices, Shown, Document, Quarantined, quarantine_record
  <1>5. LettersAreBehind'
    BY <1>1 DEF SharedInv, LettersAreBehind, Letters, Doomed, Rejects, Document
  <1>6. RepairGoesOn'
    <2>1. \A i \in Indices : ~ (i > committed)
      BY <1>1 DEF Indices, SharedTypeOK
    <2>2. \A d \in ToSet(dlq) : d.id \in DlqIds
      BY DEF DlqIds
    <2>3. Len(source) + Cardinality(DlqIds) <= MaxLoad + Cardinality(DlqIds)
      <3>1. Cardinality(DlqIds) \in Nat /\ Len(source) \in Nat /\ Len(source) <= MaxLoad
        BY <1>1, DlqIdsFinite DEF SharedInv, SharedTypeOK, RepairGoesOn
      <3> QED BY <3>1, MessageAssumption
    <2>4. Indices' = Indices /\ DlqIds' = DlqIds
      BY <1>1 DEF Indices, DlqIds
    <2> QED BY <1>1, <2>1, <2>2, <2>3, <2>4 DEF RepairGoesOn
  <1>7. ConsumerTypeOK' /\ AtCommitted' /\ StepKnows'
    BY <1>1 DEF MessageInv, ConsumerTypeOK, AtCommitted, StepKnows, Current, Doomed, Rejects, Document, Shown,
                Quarantined, quarantine_record
  <1> QED BY <1>3, <1>4, <1>5, <1>6, <1>7 DEF MessageInv, SharedInv

(* Each dlq_id is answered by one event that holds what SQL has. *)
LEMMA RepairSendKeepsMessageInv ==
    ASSUME MessageInv, RepairSend
    PROVE  MessageInv'
  <1>1. /\ SharedInv /\ SharedTypeOK /\ phase = "repair"
        /\ UNCHANGED <<sql, phase, committed, es, dlq, late, consumer, faults>>
    BY DEF MessageInv, SharedInv, RepairSend
  <1>2. PICK d \in ToSet(dlq) : /\ d.id \in todo /\ source' = Append(source, repair_event(d))
                                /\ todo' = todo \ {d.id}
    BY DEF RepairSend
  <1> DEFINE r == repair_event(d)
  <1>3. d.id \in Nat /\ d.record.order \in Orders /\ sql[d.record.order] \in 1..MaxVersion
    <2>1. d.id \in Nat /\ d.record \in Record
      BY <1>1, LettersAreTyped
    <2> QED BY <1>1, <2>1 DEF SharedTypeOK, Record
  <1>4. r \in Record /\ r.version <= sql[r.order] /\ r.body = "true"
    BY <1>3 DEF repair_event, Record, Bodies
  <1> HIDE DEF r
  <1>5. source' = Append(source, r)
    BY <1>2 DEF r
  <1>6. SendKeeps /\ source'[Len(source) + 1] = r
    BY <1>1, <1>4, <1>5, SourceGrows
  <1>7. SharedTypeOK'
    BY <1>1, <1>2, <1>6 DEF SharedTypeOK, SendKeeps
  <1>8. \A i \in Indices' : i \in Indices \/ i = Len(source) + 1
    BY <1>6 DEF Indices, SendKeeps
  <1>9. \A i \in Indices' : i > committed => source'[i].body = "true"
    <2> SUFFICES ASSUME NEW i \in Indices', i > committed PROVE source'[i].body = "true"
      OBVIOUS
    <2>1. CASE i \in Indices
      BY <1>1, <1>6, <2>1 DEF SharedInv, RepairGoesOn, SendKeeps
    <2>2. CASE i = Len(source) + 1
      BY <1>4, <1>6, <2>2
    <2> QED BY <1>8, <2>1, <2>2
  <1>10. \A e \in ToSet(dlq) : e.id \in todo' \/ \E i \in Indices' : source'[i] = repair_event(e)'
    <2> SUFFICES ASSUME NEW e \in ToSet(dlq), e.id \notin todo'
                 PROVE  \E i \in Indices' : source'[i] = repair_event(e)'
      OBVIOUS
    <2>1. repair_event(e)' = repair_event(e)
      BY <1>1 DEF repair_event
    <2>2. CASE e.id = d.id
      <3>1. e = d
        BY <1>1, <2>2 DEF SharedInv, OnlyPoisonQuarantined
      <3>2. Len(source) + 1 \in Indices'
        BY <1>6 DEF Indices, SendKeeps
      <3> QED BY <1>6, <2>1, <3>1, <3>2 DEF r
    <2>3. CASE e.id # d.id
      <3>1. PICK i \in Indices : source[i] = repair_event(e)
        BY <1>1, <1>2, <2>3 DEF SharedInv, RepairGoesOn
      <3>2. i \in Indices' /\ source'[i] = source[i]
        BY <1>6 DEF Indices, SendKeeps
      <3> QED BY <2>1, <3>1, <3>2
    <2> QED BY <2>2, <2>3
  <1>11. Len(source') + Cardinality(todo') <= MaxLoad + Cardinality(DlqIds)
    <2>1. IsFiniteSet(todo) /\ Cardinality(DlqIds) \in Nat
      <3>1. todo \subseteq DlqIds
        BY <1>1 DEF SharedInv, RepairGoesOn
      <3> QED BY <1>1, <3>1, DlqIdsFinite, FS_Subset
    <2>2. Cardinality(todo') = Cardinality(todo) - 1 /\ Cardinality(todo) \in Nat
      BY <1>2, <2>1, FS_RemoveElement, FS_CardinalityType
    <2>3. Len(source) + Cardinality(todo) <= MaxLoad + Cardinality(DlqIds)
      BY <1>1 DEF SharedInv, RepairGoesOn
    <2> QED BY <1>6, <2>1, <2>2, <2>3, MessageAssumption DEF SendKeeps
  <1>12. RepairGoesOn'
    <2>1. DlqIds' = DlqIds /\ todo' \subseteq DlqIds
      BY <1>1, <1>2 DEF SharedInv, RepairGoesOn, DlqIds
    <2> QED BY <1>1, <1>9, <1>10, <1>11, <2>1 DEF RepairGoesOn
  <1> QED BY <1>6, <1>7, <1>12 DEF MessageInv, SharedInv, SendKeeps

LEMMA RepairDoneKeepsMessageInv ==
    ASSUME MessageInv, RepairDone
    PROVE  MessageInv'
  <1>1. /\ SharedInv /\ SharedTypeOK /\ phase = "repair" /\ todo = {} /\ phase' = "repaired"
        /\ UNCHANGED <<sql, source, todo, committed, es, dlq, late, pc, policy, position, faults>>
    BY DEF MessageInv, SharedInv, RepairDone, consumer
  <1>2. SharedTypeOK'
    BY <1>1 DEF SharedTypeOK
  <1>3. /\ VersionsAreCommitted' /\ CollisionsFollow' /\ NothingSkipped' /\ OnlyPoisonQuarantined'
        /\ NoCorruptDocument'
    BY <1>1 DEF SharedInv, VersionsAreCommitted, CollisionsFollow, NothingSkipped, OnlyPoisonQuarantined,
                NoCorruptDocument, Indices, Shown, Document, Quarantined, quarantine_record
  <1>4. LettersAreBehind'
    BY <1>1 DEF SharedInv, LettersAreBehind, Letters, Doomed, Rejects, Document
  <1>5. RepairGoesOn'
    BY <1>1 DEF SharedInv, RepairGoesOn, Indices, DlqIds, repair_event
  <1>6. ConsumerTypeOK' /\ AtCommitted' /\ StepKnows'
    BY <1>1 DEF MessageInv, ConsumerTypeOK, AtCommitted, StepKnows, Current, Doomed, Rejects, Document, Shown,
                Quarantined, quarantine_record
  <1> QED BY <1>2, <1>3, <1>4, <1>5, <1>6 DEF MessageInv, SharedInv
-----------------------------------------------------------------------------
(* The consumer, step by step. *)

(* A call that ends, for whatever reason, leaves nothing behind but what it committed. *)
LEMMA ClosingKeepsMessageInv ==
    ASSUME SharedInv', Close, faults' \in 0..MaxFaults
    PROVE  MessageInv'
  <1>1. pc' = "closed" /\ policy' = "strict" /\ position' = 0
    BY DEF Close
  <1>2. 0 \in 0..Len(source')
    <2>1. Len(source') \in Nat
      BY DEF SharedInv, SharedTypeOK
    <2> QED BY <2>1
  <1> QED BY <1>1, <1>2 DEF MessageInv, ConsumerTypeOK, AtCommitted, StepKnows

(* A step to another label, at the same record of the same topic. *)
LEMMA GoingOnKeepsMessageInv ==
    ASSUME MessageInv, SharedInv', pc # "closed", UNCHANGED <<policy, position, source, committed, faults>>,
           pc' \in {"closed", "decode", "project", "quarantine", "commit"}, StepKnows'
    PROVE  MessageInv'
  BY DEF MessageInv, ConsumerTypeOK, AtCommitted

LEMMA OpenKeepsMessageInv ==
    ASSUME MessageInv, NEW p \in {"strict", "quarantine"}, Open(p)
    PROVE  MessageInv'
  <1>1. /\ SharedInv' /\ pc' = "decode" /\ policy' = p /\ position' = committed /\ committed < Len(source)
        /\ UNCHANGED <<source, committed, faults>>
    BY ConsumerAlone DEF MessageInv, Open, drill
  <1>2. ConsumerTypeOK'
    BY <1>1 DEF MessageInv, SharedInv, SharedTypeOK, ConsumerTypeOK
  <1> QED BY <1>1, <1>2 DEF MessageInv, AtCommitted, StepKnows

LEMMA DecodeKeepsMessageInv ==
    ASSUME MessageInv, Decode
    PROVE  MessageInv'
  <1>1. /\ SharedInv' /\ pc = "decode" /\ UNCHANGED <<source, committed, es, dlq, late, faults>>
        /\ faults' \in 0..MaxFaults
    BY ConsumerAlone DEF MessageInv, Decode, drill, ConsumerTypeOK
  <1>2. CASE Close
    BY <1>1, <1>2, ClosingKeepsMessageInv
  <1>3. CASE Current.body = "schema" /\ Goto("quarantine")
    <2>1. Doomed(Current)' /\ pc' = "quarantine" /\ UNCHANGED <<policy, position>>
      BY <1>1, <1>3 DEF Doomed, Current, Goto
    <2>2. StepKnows'
      BY <2>1 DEF StepKnows
    <2> QED BY <1>1, <2>1, <2>2, GoingOnKeepsMessageInv
  <1>4. CASE Current.body # "schema" /\ Goto("project")
    <2>1. Current'.body # "schema" /\ pc' = "project" /\ UNCHANGED <<policy, position>>
      BY <1>1, <1>4 DEF Current, Goto
    <2>2. StepKnows'
      BY <2>1 DEF StepKnows
    <2> QED BY <1>1, <2>1, <2>2, GoingOnKeepsMessageInv
  <1> QED BY <1>2, <1>3, <1>4 DEF Decode, Poisoned

(* The index refuses the record, takes it, or ignores it as old. *)
LEMMA ProjectKeepsMessageInv ==
    ASSUME MessageInv, Project
    PROVE  MessageInv'
  <1>1. /\ pc = "project" /\ UNCHANGED <<drill, source, committed, dlq, late, faults>> /\ faults' \in 0..MaxFaults
        /\ SharedInv
    BY DEF MessageInv, Project, drill, ConsumerTypeOK
  <1>2. position = committed /\ Current \in Record
    BY <1>1, CurrentIsRecord
  <1>3. CASE Rejects(Current) /\ Poisoned /\ UNCHANGED es
    <2>1. SharedInv'
      BY <1>1, <1>3, ConsumerAlone
    <2>2. CASE Close
      BY <1>1, <2>1, <2>2, ClosingKeepsMessageInv
    <2>3. CASE Goto("quarantine")
      <3>1. pc' = "quarantine" /\ UNCHANGED <<policy, position>>
        BY <2>3 DEF Goto
      <3>2. Doomed(Current)'
        BY <1>1, <1>3, <3>1 DEF Doomed, Rejects, Document, Current
      <3>3. StepKnows'
        BY <3>1, <3>2 DEF StepKnows
      <3> QED BY <1>1, <2>1, <3>1, <3>3, GoingOnKeepsMessageInv
    <2> QED BY <1>3, <2>2, <2>3 DEF Poisoned
  <1>4. ASSUME ~ Rejects(Current)
        PROVE  \A d \in late : d.id # position
    <2>1. \A d \in late : d.id < committed
      BY <1>1, <1>4, NoLetterOfAccepted DEF Letters
    <2>2. \A d \in late : d.id \in Int
      BY <1>1 DEF SharedInv, SharedTypeOK
    <2>3. committed \in Int
      BY <1>1 DEF SharedInv, SharedTypeOK
    <2> QED BY <1>2, <2>1, <2>2, <2>3
  <1>5. CASE Accepts(Current) /\ Store(Current) /\ Goto("commit")
    <2>1. SharedInv' /\ Shown(source[committed + 1])'
      BY <1>1, <1>5, StoreKeepsShared
    <2>2. pc' = "commit" /\ UNCHANGED <<policy, position>>
      BY <1>5 DEF Goto
    <2>3. Shown(Current)'
      BY <1>1, <1>2, <2>1, <2>2 DEF Current
    <2>4. \A d \in late' : d.id # position'
      BY <1>1, <1>4, <1>5, <2>2 DEF Accepts
    <2>5. StepKnows'
      BY <2>2, <2>3, <2>4 DEF StepKnows
    <2> QED BY <1>1, <2>1, <2>2, <2>5, GoingOnKeepsMessageInv
  <1>6. CASE ~ Rejects(Current) /\ ~ Accepts(Current) /\ Goto("commit") /\ UNCHANGED es
    <2>1. SharedInv'
      BY <1>1, <1>6, ConsumerAlone
    <2>2. pc' = "commit" /\ UNCHANGED <<policy, position>>
      BY <1>6 DEF Goto
    <2>3. Shown(Current)
      <3>1. Current.order \in DOMAIN es /\ ~ (es[Current.order].version < Current.version)
        BY <1>6 DEF Accepts
      <3>2. es[Current.order].version \in Int /\ Current.version \in Int
        BY <1>1, <1>2, <3>1 DEF SharedInv, SharedTypeOK, Record
      <3>3. es[Current.order].version = Current.version => es[Current.order] = Document(Current)
        BY <1>6, <3>1 DEF Rejects
      <3> QED BY <3>1, <3>2, <3>3 DEF Shown
    <2>4. Shown(Current)'
      BY <1>1, <1>6, <2>2, <2>3 DEF Shown, Document, Current
    <2>5. \A d \in late' : d.id # position'
      BY <1>1, <1>4, <1>6, <2>2
    <2>6. StepKnows'
      BY <2>2, <2>4, <2>5 DEF StepKnows
    <2> QED BY <1>1, <2>1, <2>2, <2>6, GoingOnKeepsMessageInv
  <1> QED BY <1>3, <1>5, <1>6 DEF Project

LEMMA QuarantineKeepsMessageInv ==
    ASSUME MessageInv, Quarantine
    PROVE  MessageInv'
  <1> DEFINE letter == quarantine_record(position)
  <1> DEFINE LetterType == [id : Nat, record : Record]
  <1>1. /\ pc = "quarantine" /\ pc' = "commit" /\ dlq' = Append(dlq, letter)
        /\ UNCHANGED <<policy, position, drill, source, committed, es, late, faults>>
    BY DEF Quarantine, Goto, drill
  <1>2. SharedInv' /\ SharedInv
    BY <1>1, LetterKeepsShared DEF MessageInv
  <1>3. dlq \in Seq(LetterType) /\ letter \in LetterType
    BY <1>1, CurrentIsRecord DEF MessageInv, SharedInv, SharedTypeOK
  <1>4. letter \in ToSet(dlq')
    <2> HIDE DEF letter, LetterType
    <2> QED BY <1>1, <1>3, ToSetAppend
  <1>5. Quarantined(position)'
    BY <1>1, <1>4 DEF Quarantined, quarantine_record
  <1>6. \A d \in late' : d.id = position' => d \in ToSet(dlq')
    BY <1>1, <1>2, <1>4 DEF SharedInv, OnlyPoisonQuarantined
  <1>7. StepKnows'
    BY <1>1, <1>5, <1>6 DEF StepKnows
  <1> HIDE DEF letter, LetterType
  <1> QED BY <1>1, <1>2, <1>7, GoingOnKeepsMessageInv

LEMMA CommitKeepsMessageInv ==
    ASSUME MessageInv, Commit
    PROVE  MessageInv'
  <1>1. /\ pc = "commit" /\ committed' = position + 1 /\ UNCHANGED <<drill, source, es, dlq, late, faults>>
        /\ faults' \in 0..MaxFaults
    BY DEF Commit, drill, MessageInv, ConsumerTypeOK
  <1>2. SharedInv'
    BY <1>1, CommitKeepsShared
  <1>3. CASE Close
    BY <1>1, <1>2, <1>3, ClosingKeepsMessageInv
  <1>4. CASE /\ position + 1 < Len(source)
             /\ pc' = "decode" /\ position' = position + 1 /\ UNCHANGED policy
    <2>1. ConsumerTypeOK'
      <3>1. position \in Nat /\ Len(source) \in Nat
        BY DEF MessageInv, ConsumerTypeOK, SharedInv, SharedTypeOK
      <3>2. position' \in 0..Len(source') /\ position' < Len(source')
        BY <1>1, <1>4, <3>1
      <3> QED BY <1>1, <1>4, <3>2 DEF MessageInv, ConsumerTypeOK
    <2> QED BY <1>1, <1>2, <1>4, <2>1 DEF MessageInv, AtCommitted, StepKnows
  <1> QED BY <1>3, <1>4 DEF Commit

(* Every failure: between the calls, or with the outcome of one of them unknown. *)
LEMMA FailsKeepsMessageInv ==
    ASSUME MessageInv, Fails
    PROVE  MessageInv'
  <1>1. /\ pc # "closed" /\ Close /\ UNCHANGED drill /\ faults' \in 0..MaxFaults /\ SharedInv
    BY MessageAssumption DEF Fails, Fault, MessageInv, ConsumerTypeOK
  <1>2. CASE UNCHANGED <<committed, es, dlq, late>>
    <2>1. SharedInv'
      BY <1>1, <1>2, ConsumerAlone
    <2> QED BY <1>1, <2>1, ClosingKeepsMessageInv
  <1>3. CASE pc = "project" /\ Accepts(Current) /\ Store(Current) /\ UNCHANGED <<committed, dlq, late>>
    <2>1. SharedInv'
      BY <1>1, <1>3, StoreKeepsShared
    <2> QED BY <1>1, <2>1, ClosingKeepsMessageInv
  <1>4. CASE pc = "quarantine" /\ dlq' = Append(dlq, quarantine_record(position)) /\ UNCHANGED <<committed, es, late>>
    <2>1. SharedInv'
      BY <1>1, <1>4, LetterKeepsShared
    <2> QED BY <1>1, <2>1, ClosingKeepsMessageInv
  <1>5. CASE pc = "quarantine" /\ late' = late \cup {quarantine_record(position)} /\ UNCHANGED <<committed, es, dlq>>
    <2>1. SharedInv'
      BY <1>1, <1>5, LetterKeepsShared
    <2> QED BY <1>1, <2>1, ClosingKeepsMessageInv
  <1>6. CASE pc = "commit" /\ committed' = position + 1 /\ UNCHANGED <<es, dlq, late>>
    <2>1. SharedInv'
      BY <1>1, <1>6, CommitKeepsShared
    <2> QED BY <1>1, <2>1, ClosingKeepsMessageInv
  <1> QED BY <1>2, <1>3, <1>4, <1>5, <1>6 DEF Fails

LEMMA StutterKeepsMessageInv ==
    ASSUME MessageInv, UNCHANGED messageVars
    PROVE  MessageInv'
  <1>1. UNCHANGED <<drill, sql, source, phase, todo, committed, es, dlq, late, pc, policy, position, faults>>
    BY DEF messageVars, drill, consumer
  <1>2. SharedInv'
    BY <1>1, ConsumerAlone DEF MessageInv
  <1>3. ConsumerTypeOK' /\ AtCommitted'
    BY <1>1 DEF MessageInv, ConsumerTypeOK, AtCommitted
  <1>4. StepKnows'
    BY <1>1 DEF MessageInv, StepKnows, Current, Doomed, Rejects, Document, Shown, Quarantined, quarantine_record
  <1> QED BY <1>2, <1>3, <1>4 DEF MessageInv

-----------------------------------------------------------------------------
(* The theorems. *)

LEMMA MessageStarts ==
    ASSUME MessageInit
    PROVE  MessageInv
  <1>1. /\ sql = [o \in Orders |-> 1] /\ source = <<>> /\ committed = 0 /\ es = <<>> /\ dlq = <<>> /\ late = {}
        /\ pc = "closed" /\ policy = "strict" /\ position = 0 /\ phase = "load" /\ todo = {} /\ faults = 0
    BY DEF MessageInit
  <1>2. DOMAIN es = {} /\ ToSet(dlq) = {} /\ Len(source) = 0 /\ Indices = {}
    BY <1>1 DEF ToSet, Indices
  <1>3. SharedTypeOK
    BY <1>1, <1>2, MessageAssumption DEF SharedTypeOK
  <1>4. ConsumerTypeOK
    BY <1>1, <1>2, MessageAssumption DEF ConsumerTypeOK
  <1>5. VersionsAreCommitted /\ CollisionsFollow /\ NothingSkipped /\ NoCorruptDocument
    BY <1>1, <1>2 DEF VersionsAreCommitted, CollisionsFollow, NothingSkipped, NoCorruptDocument
  <1>6. OnlyPoisonQuarantined /\ LettersAreBehind
    BY <1>1, <1>2 DEF OnlyPoisonQuarantined, LettersAreBehind, Letters
  <1>7. RepairGoesOn /\ AtCommitted /\ StepKnows
    BY <1>1, <1>2, MessageAssumption DEF RepairGoesOn, AtCommitted, StepKnows
  <1> QED BY <1>3, <1>4, <1>5, <1>6, <1>7 DEF MessageInv, SharedInv

LEMMA MessageStep ==
    ASSUME MessageInv, [MessageNext]_messageVars
    PROVE  MessageInv'
  <1>1. ASSUME NEW o \in Orders, Update(o) PROVE MessageInv'
    BY <1>1, UpdateKeepsMessageInv
  <1>2. ASSUME NEW o \in Orders, NEW v \in 1..MaxVersion, SendTrue(o, v) PROVE MessageInv'
    BY <1>2, SendTrueKeepsMessageInv
  <1>3. ASSUME NEW o \in Orders, NEW v \in 1..MaxVersion, NEW body \in Bodies, SendPoison(o, v, body)
        PROVE  MessageInv'
    BY <1>3, SendPoisonKeepsMessageInv
  <1>4. ASSUME NEW p \in {"strict", "quarantine"}, Open(p) PROVE MessageInv'
    BY <1>4, OpenKeepsMessageInv
  <1>5. CASE Decode
    BY <1>5, DecodeKeepsMessageInv
  <1>6. CASE Project
    BY <1>6, ProjectKeepsMessageInv
  <1>7. CASE Quarantine
    BY <1>7, QuarantineKeepsMessageInv
  <1>8. CASE Commit
    BY <1>8, CommitKeepsMessageInv
  <1>9. CASE Fails
    BY <1>9, FailsKeepsMessageInv
  <1>10. CASE LateArrival
    BY <1>10, LateKeepsMessageInv
  <1>11. CASE RepairRead
    BY <1>11, RepairReadKeepsMessageInv
  <1>12. CASE RepairSend
    BY <1>12, RepairSendKeepsMessageInv
  <1>13. CASE RepairDone
    BY <1>13, RepairDoneKeepsMessageInv
  <1>14. CASE UNCHANGED messageVars
    BY <1>14, StutterKeepsMessageInv
  <1> QED
    BY <1>1, <1>2, <1>3, <1>4, <1>5, <1>6, <1>7, <1>8, <1>9, <1>10, <1>11, <1>12, <1>13, <1>14 DEF MessageNext

(***************************************************************************)
(* The inductive invariant of the message recovery lab: what the topics,   *)
(* the index and the repair hold, and what each step of process_record     *)
(* knows about the record at its offset.                                   *)
(***************************************************************************)
THEOREM MessageInvariant == MessageSpec => []MessageInv
  <1>1. MessageInit => MessageInv
    BY MessageStarts
  <1>2. MessageInv /\ [MessageNext]_messageVars => MessageInv'
    BY MessageStep
  <1> QED BY <1>1, <1>2, PTL DEF MessageSpec

(* After the repair the index shows what SQL has, because each answer is a healthy record below the offset. *)
LEMMA RepairRestores ==
    ASSUME SharedInv
    PROVE  RepairedMatchesSql
  <1> SUFFICES ASSUME phase = "repaired", committed = Len(source)
               PROVE  /\ \A d \in ToSet(dlq) : d.record.order \in DOMAIN es
                                               /\ es[d.record.order].version = sql[d.record.order]
                      /\ Len(source) <= MaxLoad + Cardinality(DlqIds)
    BY DEF RepairedMatchesSql, DlqIds
  <1>1. SharedTypeOK /\ todo = {} /\ Len(source) \in Nat
    BY DEF SharedInv, RepairGoesOn, SharedTypeOK
  <1>2. Len(source) <= MaxLoad + Cardinality(DlqIds)
    <2>1. Len(source) + Cardinality({}) <= MaxLoad + Cardinality(DlqIds)
      BY <1>1 DEF SharedInv, RepairGoesOn
    <2> QED BY <1>1, <2>1, FS_EmptySet
  <1>3. ASSUME NEW d \in ToSet(dlq)
        PROVE  d.record.order \in DOMAIN es /\ es[d.record.order].version = sql[d.record.order]
    <2> DEFINE o == d.record.order
    <2>1. PICK i \in Indices : source[i] = repair_event(d)
      BY <1>1 DEF SharedInv, RepairGoesOn
    <2>2. source[i].order = o /\ source[i].version = sql[o] /\ source[i].body = "true"
      BY <2>1 DEF repair_event
    <2>3. PICK n \in 0..(committed - 1) : n + 1 = i
      <3>1. i - 1 \in 0..(committed - 1) /\ (i - 1) + 1 = i
        BY <1>1 DEF Indices
      <3> QED BY <3>1
    <2>4. Shown(source[i])
      <3>1. Shown(source[n + 1]) \/ Quarantined(n)
        BY DEF SharedInv, NothingSkipped
      <3>2. ~ Quarantined(n)
        BY <2>2, <2>3 DEF SharedInv, OnlyPoisonQuarantined, Quarantined, quarantine_record
      <3> QED BY <2>3, <3>1, <3>2
    <2>5. o \in DOMAIN es /\ (es[o].version > sql[o] \/ es[o].version = sql[o])
      BY <2>2, <2>4 DEF Shown, Document
    <2>6. es[o].version <= sql[o]
      BY <2>5 DEF SharedInv, NoCorruptDocument
    <2>7. es[o].version \in Int /\ sql[o] \in Int
      BY <1>1, <2>5 DEF SharedTypeOK
    <2> QED BY <2>5, <2>6, <2>7
  <1> QED BY <1>2, <1>3

(***************************************************************************)
(* Through every failure of process_record and every late dead letter:     *)
(* what the offset has passed is shown or quarantined, only poison is      *)
(* quarantined, no corrupted copy is ever the document, and after          *)
(* Runner.repair every quarantined order shows the version SQL has.        *)
(***************************************************************************)
THEOREM MessagesStayExact == MessageSpec => []MessagesAreExact
  <1>1. MessageInv => MessagesAreExact
    BY RepairRestores DEF MessageInv, SharedInv, MessagesAreExact, DeadLettersAreExact, RepairIsExact
  <1> QED BY <1>1, MessageInvariant, PTL

(* The topics, the index and the consumer keep their types; the consumer never stands beyond the topic's end. *)
THEOREM MessageTypes == MessageSpec => []MessageTypeOK
  <1>1. MessageInv => MessageTypeOK
    BY DEF MessageInv, SharedInv, SharedTypeOK, ConsumerTypeOK, MessageTypeOK
  <1> QED BY <1>1, MessageInvariant, PTL

-----------------------------------------------------------------------------
(***************************************************************************)
(* The invariant of the MVP tools, and what follows from it for every set  *)
(* of faults and any number of runs, failed calls, kills and outside       *)
(* changes: a verdict "passed" is honest, the three kinds of tools keep one *)
(* fault journal, and what somebody else created is left alone.            *)
(*                                                                         *)
(* The invariant says more than the properties: which record there may be  *)
(* beside which command, that a note precedes what it names, that damage is *)
(* limited to what the recorded fault undoes from the current call on, and  *)
(* that what a run is yet to create is not there.                           *)
(***************************************************************************)
Faults == {"stop", "pause", "recreate", "switch", "netem", "rowlock", "drill", "deadlock", "message"}
NoteNames == {"replacement", "spare", "spare_before", "name", "id"} \cup {"database", "client"} \cup Resources
JobStates == {"idle", "begin", "apply", "hold", "decide", "verify", "restore", "end"}
Words == {"up", "stopped", "paused", "absent", "normal", "redis-spare", "off", "on", "foreign"}
Replaceable == Containers \cup Resources

Records == [action : Faults \cup {"none"}, notes : SUBSET NoteNames]
Jobs == [cmd : {"none", "run", "recover"}, action : Faults \cup {"none"}, at : JobStates, i : Nat]
Runners ==
    [main : {"idle", "load", "join", "done"}, cancel : BOOLEAN, applied : BOOLEAN, error : BOOLEAN,
     restored : BOOLEAN, verdict : {"none", "aborted", "passed", "inconclusive", "failed"}]

ControlTypes ==
    /\ world \in [Parts -> Words] /\ baseline \in [Parts -> Words]
    /\ \A p \in Replaceable \cup {"qdisc"} : world[p] \in {"off", "on", "foreign"}
    /\ marker \in [Kinds -> Records]
    /\ job \in Jobs
    /\ runner \in Runners

(* There is one record, of a fault of its kind. *)
RecordsKnow ==
    /\ \A k, l \in Kinds : Active(k) /\ Active(l) => k = l
    /\ \A k \in Kinds : Active(k) => marker[k].action \in Faults /\ KindOf(marker[k].action) = k

(* A command works for the record there is. *)
JobKnows ==
    /\ job.at # "idle" => job.action \in Faults
    /\ job.at = "idle" => job = Idle
    /\ job.at = "begin" => NoActiveFault
    /\ job.at \in {"begin", "apply"} => job.i \in Nat \ {0}
    /\ job.at \in {"begin", "verify"} => job.i = 1
    /\ job.at \in {"verify", "restore"} => job.i \in Nat \ {0}
    /\ job.at \in {"apply", "hold", "decide", "restore"} => Active(MyKind)
    /\ job.at = "decide" => MyKind = "message"
    /\ job.at # "idle" /\ Active(MyKind) => marker[MyKind].action = job.action

(* The notes of the calls that were made are in the record. *)
NotesAreTaken ==
    job.at = "apply" =>
        \A j \in 1..Len(Steps) : j < job.i /\ Steps[j][1] = "note" => Steps[j][2] \in marker[MyKind].notes

Undone(a) == {Undo[a][j] : j \in 1..Len(Undo[a])}

(* Nothing is damaged but what the recorded fault damages, and what it created is named in the record. *)
DamageIsRecorded ==
    /\ NoActiveFault => Damaged \subseteq {"spare"}
    /\ \A k \in Kinds : Active(k) =>
          /\ Damaged \subseteq Undone(marker[k].action) \cup {"spare"}
          /\ Damaged \cap {"qdisc", "helper"} # {} => "name" \in marker[k].notes
          /\ Damaged \cap {"database", "client"} \subseteq marker[k].notes
    /\ job.at = "restore" =>
          Damaged \subseteq {Undo[job.action][j] : j \in {n \in 1..Len(Undo[job.action]) : n >= job.i}} \cup {"spare"}

(* What a run is yet to create is not there, and no container is part of what was found. *)
FreshParts ==
    /\ \A p \in Containers : baseline[p] # "on"
    /\ job.at \in {"begin", "apply"} =>
          \A j \in 1..Len(Steps) : j >= job.i /\ Steps[j][1] \in Replaceable => world[Steps[j][1]] = "off"

(* A run that has passed is at its end, with its fault applied and no record left. *)
VerdictKnows ==
    runner.verdict = "passed" => runner.main = "done" /\ runner.applied /\ job.at = "end" /\ NoActiveFault

ControlInv ==
    ControlTypes /\ RecordsKnow /\ JobKnows /\ NotesAreTaken /\ DamageIsRecorded /\ FreshParts /\ VerdictKnows

(* Two short scripts, one after the other. *)
LEMMA FourAndFour ==
    ASSUME NEW S, NEW a \in S, NEW b \in S, NEW c \in S, NEW d \in S, NEW e \in S, NEW f \in S, NEW g \in S, NEW h \in S
    PROVE  <<a, b, c, d>> \o <<e, f, g, h>> = <<a, b, c, d, e, f, g, h>>
  <1>1a. <<a, b, c, d>> \in Seq(S)
    OBVIOUS
  <1>1b. Len(<<a, b, c, d>>) = 4
    OBVIOUS
  <1>1. PICK s \in Seq(S) : s = <<a, b, c, d>> /\ Len(s) = 4
    BY <1>1a, <1>1b, Zenon
  <1>2a. <<e, f, g, h>> \in Seq(S)
    OBVIOUS
  <1>2b. Len(<<e, f, g, h>>) = 4
    OBVIOUS
  <1>2. PICK t \in Seq(S) : t = <<e, f, g, h>> /\ Len(t) = 4
    BY <1>2a, <1>2b, Zenon
  <1>3a. <<a, b, c, d, e, f, g, h>> \in Seq(S)
    OBVIOUS
  <1>3b. Len(<<a, b, c, d, e, f, g, h>>) = 8
    OBVIOUS
  <1>3. PICK u \in Seq(S) : u = <<a, b, c, d, e, f, g, h>> /\ Len(u) = 8
    BY <1>3a, <1>3b, Zenon
  <1>4. \A i \in 1..4 : s[i] = u[i] /\ t[i] = u[i + 4]
    BY <1>1, <1>2, <1>3
  <1>5. /\ s \o t \in Seq(S)
        /\ Len(s \o t) = Len(s) + Len(t)
        /\ \A i \in 1..Len(s) + Len(t) : (s \o t)[i] = IF i <= Len(s) THEN s[i] ELSE t[i - Len(s)]
    BY ConcatProperties, Zenon
  <1>6. \A i \in 1..8 : (s \o t)[i] = u[i]
    <2> SUFFICES ASSUME NEW i \in 1..8 PROVE (s \o t)[i] = u[i]
      OBVIOUS
    <2>0. (s \o t)[i] = IF i <= 4 THEN s[i] ELSE t[i - 4]
      BY <1>1, <1>2, <1>5
    <2>1. CASE i <= 4
      BY <2>0, <1>4, <2>1
    <2>2. CASE ~ (i <= 4)
      <3>1. i - 4 \in 1..4 /\ (i - 4) + 4 = i
        BY <2>2
      <3> QED BY <1>4, <2>0, <2>2, <3>1
    <2> QED BY <2>1, <2>2
  <1>7. Len(s \o t) = Len(u) /\ Len(u) = 8
    BY <1>1, <1>2, <1>3, <1>5
  <1>8. s \o t = u
    BY <1>5, <1>6, <1>7, SeqEqual
  <1> QED BY <1>1, <1>2, <1>3, <1>8

(* The two scripts of a drill: Disposable.create. *)
LEMMA DrillCalls ==
    Drill = << <<"note", "database">>, <<"env", "on">>, <<"database", "on">>, <<"env", "off">>,
               <<"note", "client">>, <<"env", "on">>, <<"client", "on">>, <<"env", "off">> >>
  <1> DEFINE S == {<<"note", "database">>, <<"env", "on">>, <<"database", "on">>, <<"env", "off">>, <<"note", "client">>,
                   <<"client", "on">>}
  <1>1. PICK noteDb \in S : noteDb = <<"note", "database">>
    OBVIOUS
  <1>2. PICK envOn \in S : envOn = <<"env", "on">>
    OBVIOUS
  <1>3. PICK dbOn \in S : dbOn = <<"database", "on">>
    OBVIOUS
  <1>4. PICK envOff \in S : envOff = <<"env", "off">>
    OBVIOUS
  <1>5. PICK noteClient \in S : noteClient = <<"note", "client">>
    OBVIOUS
  <1>6. PICK clientOn \in S : clientOn = <<"client", "on">>
    OBVIOUS
  <1> HIDE DEF S
  <1>7. <<noteDb, envOn, dbOn, envOff>> \o <<noteClient, envOn, clientOn, envOff>> =
            <<noteDb, envOn, dbOn, envOff, noteClient, envOn, clientOn, envOff>>
    BY FourAndFour
  <1>8. Drill = <<noteDb, envOn, dbOn, envOff>> \o <<noteClient, envOn, clientOn, envOff>>
    BY <1>1, <1>2, <1>3, <1>4, <1>5, <1>6, Zenon DEF Drill, Create
  <1>9. Drill = <<noteDb, envOn, dbOn, envOff, noteClient, envOn, clientOn, envOff>>
    BY <1>7, <1>8, Zenon
  <1> QED BY <1>1, <1>2, <1>3, <1>4, <1>5, <1>6, <1>9, Zenon

(* The calls of a script are on parts that its restoration puts back, the spare apart. *)
LEMMA ScriptsAreUndone ==
    ASSUME NEW a \in Faults, NEW i \in 1..Len(Script[a]), Script[a][i][1] # "note"
    PROVE  /\ Script[a][i][1] \in Undone(a) \cup {"spare"} /\ Script[a][i][1] \in Parts /\ Script[a][i][2] \in Words
           /\ Script[a][i][1] \in Replaceable \cup {"qdisc"} => Script[a][i][2] = "on"
  <1> USE DEF Undone, Undo, Script, Parts, Containers, Resources, Words, Replaceable
  <1>1. CASE a = "stop"
    BY <1>1 DEF Stop
  <1>2. CASE a = "pause"
    BY <1>2 DEF Pause
  <1>3. CASE a = "recreate"
    BY <1>3 DEF Recreate
  <1>4. CASE a = "switch"
    BY <1>4 DEF Switch
  <1>5. CASE a = "netem"
    BY <1>5 DEF Netem
  <1>6. CASE a = "rowlock"
    BY <1>6 DEF RowLock
  <1>7. CASE a = "drill"
    BY <1>7, DrillCalls
  <1>8. CASE a = "deadlock"
    BY <1>8 DEF Deadlock
  <1>9. CASE a = "message"
    BY <1>9 DEF Messages
  <1> QED BY <1>1, <1>2, <1>3, <1>4, <1>5, <1>6, <1>7, <1>8, <1>9 DEF Faults

(* What a script creates is named in the record first: netem.start, Disposable.create. *)
LEMMA ScriptsTakeNotes ==
    ASSUME NEW a \in Faults, NEW i \in 1..Len(Script[a])
    PROVE  /\ Script[a][i][1] \in {"qdisc", "helper"} =>
                 \E j \in 1..Len(Script[a]) : j < i /\ Script[a][j][1] = "note" /\ Script[a][j][2] = "name"
           /\ Script[a][i][1] \in {"database", "client"} =>
                 \E j \in 1..Len(Script[a]) : j < i /\ Script[a][j][1] = "note" /\ Script[a][j][2] = Script[a][i][1]
           /\ Script[a][i][1] = "note" => Script[a][i][2] \in NoteNames
  <1> USE DEF Script
  <1>1. CASE a = "stop"
    BY <1>1 DEF Stop
  <1>2. CASE a = "pause"
    BY <1>2 DEF Pause
  <1>3. CASE a = "recreate"
    BY <1>3 DEF Recreate, NoteNames
  <1>4. CASE a = "switch"
    BY <1>4 DEF Switch, NoteNames
  <1>5. CASE a = "netem"
    BY <1>5 DEF Netem, NoteNames
  <1>6. CASE a = "rowlock"
    BY <1>6 DEF RowLock
  <1>7. CASE a = "drill"
    BY <1>7, DrillCalls DEF NoteNames
  <1>8. CASE a = "deadlock"
    BY <1>8 DEF Deadlock
  <1>9. CASE a = "message"
    BY <1>9 DEF Messages, NoteNames, Resources
  <1> QED BY <1>1, <1>2, <1>3, <1>4, <1>5, <1>6, <1>7, <1>8, <1>9 DEF Faults

(* A script creates a part at most once, and parts of its own kind only. *)
LEMMA ScriptsCreateOnce ==
    ASSUME NEW a \in Faults, NEW i \in 1..Len(Script[a]), Script[a][i][1] \in Replaceable
    PROVE  /\ \A j \in 1..Len(Script[a]) : j # i => Script[a][j][1] # Script[a][i][1]
           /\ Script[a][i][1] \in Resources => KindOf(a) = "message"
  <1> USE DEF Script, Replaceable, Containers, Resources, KindOf
  <1>1. CASE a = "stop"
    BY <1>1 DEF Stop
  <1>2. CASE a = "pause"
    BY <1>2 DEF Pause
  <1>3. CASE a = "recreate"
    BY <1>3 DEF Recreate
  <1>4. CASE a = "switch"
    BY <1>4 DEF Switch
  <1>5. CASE a = "netem"
    BY <1>5 DEF Netem
  <1>6. CASE a = "rowlock"
    BY <1>6 DEF RowLock
  <1>7. CASE a = "drill"
    BY <1>7, DrillCalls
  <1>8. CASE a = "deadlock"
    BY <1>8 DEF Deadlock
  <1>9. CASE a = "message"
    BY <1>9 DEF Messages
  <1> QED BY <1>1, <1>2, <1>3, <1>4, <1>5, <1>6, <1>7, <1>8, <1>9 DEF Faults

(* Restorations name parts; that of a message run names its three resources. *)
LEMMA UndoNamesParts ==
    ASSUME NEW a \in Faults
    PROVE  /\ Len(Undo[a]) \in Nat
           /\ \A j \in 1..Len(Undo[a]) : Undo[a][j] \in Parts
           /\ KindOf(a) = "message" => Undone(a) \subseteq Resources
  <1> USE DEF Undo, Parts, Containers, Resources, KindOf, Undone
  <1>1. CASE a = "stop"
    BY <1>1
  <1>2. CASE a = "pause"
    BY <1>2
  <1>3. CASE a = "recreate"
    BY <1>3
  <1>4. CASE a = "switch"
    BY <1>4
  <1>5. CASE a = "netem"
    BY <1>5
  <1>6. CASE a = "rowlock"
    BY <1>6
  <1>7. CASE a = "drill"
    BY <1>7
  <1>8. CASE a = "deadlock"
    BY <1>8
  <1>9. CASE a = "message"
    BY <1>9
  <1> QED BY <1>1, <1>2, <1>3, <1>4, <1>5, <1>6, <1>7, <1>8, <1>9 DEF Faults

(* A script is a sequence of calls. *)
LEMMA ScriptsAreSequences ==
    ASSUME NEW a \in Faults
    PROVE  Len(Script[a]) \in Nat
  <1> USE DEF Script
  <1>1. CASE a = "drill"
    BY <1>1, DrillCalls
  <1>2. CASE a # "drill"
    BY <1>2 DEF Faults, Stop, Pause, Recreate, Switch, Netem, RowLock, Deadlock, Messages
  <1> QED BY <1>1, <1>2

-----------------------------------------------------------------------------
(* Commands and the runner go from one state to the next. *)

LEMMA KindsAreKinds == ASSUME NEW a PROVE KindOf(a) \in Kinds
  BY DEF KindOf, Kinds

LEMMA JobGoes ==
    ASSUME job \in Jobs, NEW at \in JobStates, job' = [job EXCEPT !.at = at]
    PROVE  job' \in Jobs /\ job'.at = at /\ job'.cmd = job.cmd /\ job'.action = job.action /\ job'.i = job.i
  BY DEF Jobs

LEMMA JobRestarts ==
    ASSUME job \in Jobs, NEW at \in JobStates, job' = [job EXCEPT !.at = at, !.i = 1]
    PROVE  job' \in Jobs /\ job'.at = at /\ job'.cmd = job.cmd /\ job'.action = job.action /\ job'.i = 1
  <1>1. ASSUME NEW i \in Nat PROVE [job EXCEPT !.at = at, !.i = i] \in Jobs
    BY DEF Jobs
  <1>2. 1 \in Nat
    OBVIOUS
  <1>3. job' \in Jobs
    BY <1>1, <1>2, Zenon
  <1> QED BY <1>3 DEF Jobs

LEMMA JobCounts ==
    ASSUME job \in Jobs, job' = [job EXCEPT !.i = @ + 1]
    PROVE  job' \in Jobs /\ job'.at = job.at /\ job'.cmd = job.cmd /\ job'.action = job.action /\ job'.i = job.i + 1
  BY DEF Jobs

LEMMA IdleJob == Idle \in Jobs /\ Idle.at = "idle" /\ NotRunning \in Runners /\ NotRunning.verdict = "none" /\ NotRunning.main = "idle"
  BY DEF Idle, NotRunning, Jobs, JobStates, Runners

(* A command with nothing to apply or restore: what is damaged stays recorded. *)
LEMMA QuietSteps ==
    ASSUME ControlInv, UNCHANGED <<world, baseline, marker>>, job' \in Jobs, runner' \in Runners, JobKnows', VerdictKnows',
           job'.at = "apply" => job' = job,
           job'.at = "begin" =>
              job' = job \/ \A j \in 1..Len(Script[job'.action]) : Script[job'.action][j][1] \in Replaceable => world[Script[job'.action][j][1]] = "off",
           job'.at = "restore" => job' = job \/ (job'.i = 1 /\ Active(KindOf(job'.action)) /\ marker[KindOf(job'.action)].action = job'.action)
    PROVE  ControlInv'
  <1>1. ControlTypes' /\ RecordsKnow'
    BY DEF ControlInv, ControlTypes, RecordsKnow, Active
  <1>2. NotesAreTaken'
    BY DEF ControlInv, NotesAreTaken, Steps, MyKind
  <1>3. FreshParts'
    BY DEF ControlInv, FreshParts, Steps
  <1>4. DamageIsRecorded'
    <2>1. Damaged' = Damaged /\ (NoActiveFault' <=> NoActiveFault) /\ \A k \in Kinds : Active(k)' <=> Active(k)
      BY DEF Damaged, NoActiveFault, Active
    <2>2. job'.at = "restore" /\ job' # job =>
            Damaged \subseteq {Undo[job'.action][j] : j \in {n \in 1..Len(Undo[job'.action]) : n >= 1}} \cup {"spare"}
      BY KindsAreKinds DEF ControlInv, DamageIsRecorded, Undone
    <2>3. NoActiveFault => Damaged \subseteq {"spare"}
      BY DEF ControlInv, DamageIsRecorded
    <2>4. \A k \in Kinds : Active(k) =>
          /\ Damaged \subseteq Undone(marker[k].action) \cup {"spare"}
          /\ Damaged \cap {"qdisc", "helper"} # {} => "name" \in marker[k].notes
          /\ Damaged \cap {"database", "client"} \subseteq marker[k].notes
      BY DEF ControlInv, DamageIsRecorded
    <2>5. job'.at = "restore" =>
            Damaged \subseteq {Undo[job'.action][j] : j \in {n \in 1..Len(Undo[job'.action]) : n >= job'.i}} \cup {"spare"}
      BY <2>2 DEF ControlInv, DamageIsRecorded
    <2> QED BY <2>1, <2>3, <2>4, <2>5 DEF DamageIsRecorded
  <1> QED BY <1>1, <1>2, <1>3, <1>4 DEF ControlInv

(* A step from one state of the command to another that neither applies nor restores. *)
LEMMA QuietMoves ==
    ASSUME ControlInv, UNCHANGED <<world, baseline, marker>>, job.at # "idle", NEW at \in {"hold", "decide", "verify", "end"},
           job' \in Jobs, job'.at = at, job'.action = job.action, job'.i \in Nat \ {0}, at = "verify" => job'.i = 1,
           at \in {"hold", "decide"} => Active(MyKind), at = "decide" => MyKind = "message",
           runner' \in Runners, runner'.verdict # "passed"
    PROVE  ControlInv'
  <1>1. JobKnows'
    BY DEF ControlInv, JobKnows, MyKind, Active
  <1>2. VerdictKnows'
    BY DEF VerdictKnows
  <1> QED BY <1>1, <1>2, QuietSteps

(* Before its end no run has passed. *)
LEMMA NotPassed == ASSUME ControlInv, job.at # "end" PROVE runner.verdict # "passed"
  BY DEF ControlInv, VerdictKnows

(* Nothing is damaged and nothing recorded at first. *)
LEMMA ControlInit == Init => ControlInv
  <1> SUFFICES ASSUME Init PROVE ControlInv
    OBVIOUS
  <1>1. /\ Healthy \in [Parts -> Words]
        /\ \A p \in Replaceable \cup {"qdisc"} : Healthy[p] = "off"
    BY DEF Healthy, Parts, Words, Containers, Resources, Replaceable
  <1>2. NoRecord \in Records
    BY DEF NoRecord, Records
  <1>3. \A k \in Kinds : marker[k] = NoRecord
    BY DEF Init
  <1>4. NoActiveFault
    BY <1>3 DEF NoActiveFault, Active
  <1>5. job.at = "idle" /\ runner.verdict = "none"
    BY IdleJob DEF Init
  <1>6. Damaged = {}
    BY DEF Damaged, Init
  <1>7. ControlTypes
    BY <1>1, <1>2, IdleJob DEF ControlTypes, Init
  <1>8. RecordsKnow
    BY <1>4 DEF RecordsKnow, NoActiveFault
  <1>9. JobKnows
    BY <1>5 DEF JobKnows, Init
  <1>10. NotesAreTaken /\ VerdictKnows
    BY <1>5 DEF NotesAreTaken, VerdictKnows
  <1>11. DamageIsRecorded
    BY <1>4, <1>5, <1>6 DEF DamageIsRecorded, NoActiveFault
  <1>12. FreshParts
    <2>1. \A p \in Containers : baseline[p] # "on"
      BY <1>1 DEF Init, Replaceable
    <2> QED BY <2>1, <1>5 DEF FreshParts
  <1> QED BY <1>7, <1>8, <1>9, <1>10, <1>11, <1>12 DEF ControlInv

-----------------------------------------------------------------------------
(* Steps that change neither the stack nor a record. *)

LEMMA RunnerErrs ==
    ASSUME runner \in Runners, runner' = [runner EXCEPT !.error = TRUE]
    PROVE  runner' \in Runners /\ runner'.verdict = runner.verdict
  <1>1. ASSUME NEW b \in BOOLEAN PROVE [runner EXCEPT !.error = b] \in Runners /\ [runner EXCEPT !.error = b].verdict = runner.verdict
    BY DEF Runners
  <1>2. TRUE \in BOOLEAN
    OBVIOUS
  <1> QED BY <1>1, <1>2, Zenon

LEMMA RunnerRestores ==
    ASSUME runner \in Runners, runner' = [runner EXCEPT !.restored = TRUE]
    PROVE  runner' \in Runners /\ runner'.verdict = runner.verdict
  <1>1. ASSUME NEW b \in BOOLEAN PROVE [runner EXCEPT !.restored = b] \in Runners /\ [runner EXCEPT !.restored = b].verdict = runner.verdict
    BY DEF Runners
  <1>2. TRUE \in BOOLEAN
    OBVIOUS
  <1> QED BY <1>1, <1>2, Zenon

LEMMA RunnerApplies ==
    ASSUME runner \in Runners, runner' = [runner EXCEPT !.applied = TRUE]
    PROVE  runner' \in Runners /\ runner'.verdict = runner.verdict
  <1>1. ASSUME NEW b \in BOOLEAN PROVE [runner EXCEPT !.applied = b] \in Runners /\ [runner EXCEPT !.applied = b].verdict = runner.verdict
    BY DEF Runners
  <1>2. TRUE \in BOOLEAN
    OBVIOUS
  <1> QED BY <1>1, <1>2, Zenon

LEMMA CancelledKeeps == ASSUME ControlInv, Cancelled PROVE ControlInv'
  <1>1. job \in Jobs /\ runner \in Runners /\ job.at = "begin" /\ job.i = 1
    BY DEF Cancelled, ControlInv, ControlTypes, JobKnows
  <1>2. job' \in Jobs /\ job'.at = "end" /\ job'.action = job.action /\ job'.i = job.i
    <2>1. "end" \in JobStates
      BY DEF JobStates
    <2> QED BY <1>1, <2>1, JobGoes DEF Cancelled
  <1>3. runner'.verdict # "passed" /\ runner' \in Runners
    BY <1>1, NotPassed DEF Cancelled
  <1> QED BY <1>1, <1>2, <1>3, QuietMoves DEF Cancelled

LEMMA AppliedKeeps == ASSUME ControlInv, Applied PROVE ControlInv'
  <1>1. job \in Jobs /\ runner \in Runners /\ job.at = "apply" /\ job.i \in Nat \ {0} /\ Active(MyKind)
    BY DEF Applied, ControlInv, ControlTypes, JobKnows
  <1>2. PICK at \in {"hold", "decide"} : job' = [job EXCEPT !.at = at] /\ (at = "decide" => MyKind = "message")
    BY DEF Applied
  <1>3. job' \in Jobs /\ job'.at = at /\ job'.action = job.action /\ job'.i = job.i
    <2>1. at \in JobStates
      BY DEF JobStates
    <2> QED BY <1>1, <1>2, <2>1, JobGoes
  <1>4. runner'.verdict # "passed" /\ runner' \in Runners
    <2>1. runner' = [runner EXCEPT !.applied = TRUE]
      BY DEF Applied
    <2>2. runner'.verdict = runner.verdict /\ runner' \in Runners
      BY <1>1, <2>1, RunnerApplies
    <2> QED BY <1>1, <2>2, NotPassed
  <1> QED BY <1>1, <1>2, <1>3, <1>4, QuietMoves DEF Applied

LEMMA HoldEndsKeeps == ASSUME ControlInv, HoldEnds PROVE ControlInv'
  <1>1. job \in Jobs /\ runner \in Runners /\ job.at = "hold"
    BY DEF HoldEnds, ControlInv, ControlTypes
  <1>2. job' \in Jobs /\ job'.at = "verify" /\ job'.action = job.action /\ job'.i = 1
    <2>1. "verify" \in JobStates
      BY DEF JobStates
    <2> QED BY <1>1, <2>1, JobRestarts DEF HoldEnds
  <1>3. runner'.verdict # "passed" /\ runner' \in Runners
    BY <1>1, NotPassed DEF HoldEnds
  <1> QED BY <1>1, <1>2, <1>3, QuietMoves DEF HoldEnds

LEMMA CleanUpKeeps == ASSUME ControlInv, CleanUp PROVE ControlInv'
  <1>1. job \in Jobs /\ runner \in Runners /\ job.at = "decide"
    BY DEF CleanUp, ControlInv, ControlTypes
  <1>2. job' \in Jobs /\ job'.at = "verify" /\ job'.action = job.action /\ job'.i = 1
    <2>1. "verify" \in JobStates
      BY DEF JobStates
    <2> QED BY <1>1, <2>1, JobRestarts DEF CleanUp
  <1>3. runner'.verdict # "passed" /\ runner' \in Runners
    BY <1>1, NotPassed DEF CleanUp
  <1> QED BY <1>1, <1>2, <1>3, QuietMoves DEF CleanUp

LEMMA ToTheEnd ==
    ASSUME ControlInv, UNCHANGED <<world, baseline, marker>>, job.at # "idle", job' = [job EXCEPT !.at = "end"],
           runner' \in Runners, runner'.verdict # "passed"
    PROVE  ControlInv'
  <1>1. job \in Jobs
    BY DEF ControlInv, ControlTypes
  <1>2. job' \in Jobs /\ job'.at = "end" /\ job'.action = job.action /\ job'.i = job.i
    <2>1. "end" \in JobStates
      BY DEF JobStates
    <2> QED BY <1>1, <2>1, JobGoes
  <1>3. JobKnows'
    BY <1>2 DEF ControlInv, JobKnows, MyKind, Active
  <1>4. VerdictKnows'
    BY DEF VerdictKnows
  <1> QED BY <1>2, <1>3, <1>4, QuietSteps

LEMMA ScenarioFailsKeeps == ASSUME ControlInv, ScenarioFails PROVE ControlInv'
  <1>1. runner \in Runners /\ job.at = "decide" /\ runner.verdict # "passed"
    BY NotPassed DEF ScenarioFails, ControlInv, ControlTypes
  <1> QED BY <1>1, ToTheEnd DEF ScenarioFails

LEMMA NothingToRestoreKeeps == ASSUME ControlInv, NothingToRestore PROVE ControlInv'
  <1>1. runner \in Runners /\ job.at = "verify" /\ runner.verdict # "passed"
    BY NotPassed DEF NothingToRestore, ControlInv, ControlTypes
  <1>2. runner' \in Runners /\ runner'.verdict # "passed"
    BY <1>1, RunnerRestores DEF NothingToRestore
  <1> QED BY <1>1, <1>2, ToTheEnd DEF NothingToRestore

LEMMA RestoreRefusedKeeps == ASSUME ControlInv, RestoreRefused PROVE ControlInv'
  <1>1. runner \in Runners /\ job.at \in {"verify", "restore"}
    BY DEF RestoreRefused, ControlInv, ControlTypes
  <1>2. runner' \in Runners /\ runner'.verdict # "passed"
    BY <1>1, NotPassed, RunnerErrs DEF RestoreRefused, RestoreStops
  <1> QED BY <1>1, <1>2, ToTheEnd DEF RestoreRefused, RestoreStops

(* A step into "restore" begins with all there is to undo. *)
LEMMA VerifiedKeeps == ASSUME ControlInv, Verified PROVE ControlInv'
  <1>1. /\ job \in Jobs /\ runner \in Runners /\ job.at = "verify" /\ job.i = 1 /\ Active(MyKind) /\ job.action \in Faults
        /\ marker[MyKind].action = job.action
    BY DEF Verified, ControlInv, ControlTypes, JobKnows
  <1>2. job' \in Jobs /\ job'.at = "restore" /\ job'.action = job.action /\ job'.i = job.i
    <2>1. "restore" \in JobStates
      BY DEF JobStates
    <2> QED BY <1>1, <2>1, JobGoes DEF Verified
  <1>3. JobKnows'
    BY <1>1, <1>2 DEF Verified, JobKnows, MyKind, Active
  <1>4. VerdictKnows'
    BY <1>1, NotPassed DEF VerdictKnows, Verified
  <1>5. job'.at = "restore" => job'.i = 1 /\ Active(KindOf(job'.action)) /\ marker[KindOf(job'.action)].action = job'.action
    BY <1>1, <1>2 DEF MyKind
  <1> QED BY <1>1, <1>2, <1>3, <1>4, <1>5, QuietSteps DEF Verified

(* The main thread moves; the command stays where it is. *)
LEMMA RunnerMoves ==
    ASSUME ControlInv, UNCHANGED <<world, baseline, marker, job>>, runner' \in Runners, VerdictKnows'
    PROVE  ControlInv'
  <1>1. job' = job /\ UNCHANGED <<world, baseline, marker>>
    OBVIOUS
  <1>2. job' \in Jobs /\ JobKnows'
    <2>1. job \in Jobs /\ JobKnows
      BY DEF ControlInv, ControlTypes
    <2>2. JobKnows'
      BY <1>1, <2>1 DEF JobKnows, MyKind, Active, NoActiveFault
    <2>3. job' \in Jobs
      BY <1>1, <2>1
    <2> QED BY <2>2, <2>3
  <1>3. job'.at = "begin" =>
              job' = job \/ \A j \in 1..Len(Script[job'.action]) : Script[job'.action][j][1] \in Replaceable => world[Script[job'.action][j][1]] = "off"
    BY <1>1, Zenon
  <1>4. job'.at = "restore" => job' = job \/ (job'.i = 1 /\ Active(KindOf(job'.action)) /\ marker[KindOf(job'.action)].action = job'.action)
    BY <1>1, Zenon
  <1>5. job'.at = "apply" => job' = job
    BY <1>1, Zenon
  <1> QED BY <1>1, <1>2, <1>3, <1>4, <1>5, QuietSteps

LEMMA LoadEndsKeeps == ASSUME ControlInv, LoadEnds PROVE ControlInv'
  <1>1. runner \in Runners /\ runner.main = "load" /\ runner.verdict # "passed" /\ runner' = [runner EXCEPT !.main = "join"]
    BY DEF LoadEnds, ControlInv, ControlTypes, VerdictKnows
  <1>2. runner' \in Runners /\ runner'.verdict # "passed"
    BY <1>1 DEF Runners
  <1>3. VerdictKnows'
    BY <1>2 DEF VerdictKnows
  <1>6. UNCHANGED <<world, baseline, marker, job>>
    BY DEF LoadEnds
  <1> QED BY <1>2, <1>3, <1>6, RunnerMoves

LEMMA InterruptKeeps == ASSUME ControlInv, Interrupt PROVE ControlInv'
  <1>1. runner \in Runners
    BY DEF ControlInv, ControlTypes
  <1>2. PICK main \in {"idle", "load", "join", "done"}, b \in BOOLEAN,
             verdict \in {"none", "aborted", "passed", "inconclusive", "failed"} :
             /\ main = "join" /\ b = TRUE /\ verdict = "aborted"
             /\ runner' = [runner EXCEPT !.main = main, !.cancel = b, !.verdict = verdict]
    <2>1. "join" \in {"idle", "load", "join", "done"} /\ TRUE \in BOOLEAN
            /\ "aborted" \in {"none", "aborted", "passed", "inconclusive", "failed"}
      OBVIOUS
    <2> QED BY <2>1, Zenon DEF Interrupt
  <1>3. runner' \in Runners /\ runner'.verdict = verdict
    BY <1>1, <1>2 DEF Runners
  <1>4. VerdictKnows'
    BY <1>2, <1>3 DEF VerdictKnows
  <1>6. UNCHANGED <<world, baseline, marker, job>>
    BY DEF Interrupt
  <1> QED BY <1>3, <1>4, <1>6, RunnerMoves

(* The verdict: no error, the fault applied, and the stack restored and free of records. *)
LEMMA JudgeKeeps == ASSUME ControlInv, Judge PROVE ControlInv'
  <1>1. runner \in Runners /\ job.at = "end"
    BY DEF Judge, ControlInv, ControlTypes
  <1>2. PICK verdict \in {"none", "aborted", "passed", "inconclusive", "failed"} :
             /\ runner' = [runner EXCEPT !.main = "done", !.verdict = verdict]
             /\ verdict = "passed" => MayPass
    <2>1. PICK observed \in EffectObserved \cup {"failed"} :
             runner' = [runner EXCEPT !.main = "done",
                       !.verdict = IF @ = "aborted" THEN @ ELSE IF MayPass THEN observed ELSE "failed"]
      BY DEF Judge
    <2>2. PICK v : v = (IF runner.verdict = "aborted" THEN runner.verdict ELSE IF MayPass THEN observed ELSE "failed")
      OBVIOUS
    <2>3. v \in {"none", "aborted", "passed", "inconclusive", "failed"} /\ (v = "passed" => MayPass)
      BY <2>2 DEF EffectObserved
    <2> QED BY <2>1, <2>2, <2>3, Zenon
  <1>3. /\ runner' \in Runners /\ runner'.verdict = verdict /\ runner'.main = "done"
        /\ runner'.applied = runner.applied
    <2>1. "done" \in {"idle", "load", "join", "done"}
      OBVIOUS
    <2>2. ASSUME NEW main \in {"idle", "load", "join", "done"}
          PROVE  /\ [runner EXCEPT !.main = main, !.verdict = verdict] \in Runners
                 /\ [runner EXCEPT !.main = main, !.verdict = verdict].verdict = verdict
                 /\ [runner EXCEPT !.main = main, !.verdict = verdict].main = main
                 /\ [runner EXCEPT !.main = main, !.verdict = verdict].applied = runner.applied
      BY <1>1 DEF Runners
    <2> QED BY <1>2, <2>1, <2>2, Zenon
  <1>4. VerdictKnows'
    <2>1. MayPass => runner.applied /\ NoActiveFault
      BY DEF MayPass, Preflight
    <2>2. NoActiveFault' <=> NoActiveFault
      BY DEF Judge, NoActiveFault, Active
    <2>3. job' = job
      BY DEF Judge
    <2>4. verdict = "passed" => runner'.applied /\ NoActiveFault'
      BY <1>2, <1>3, <2>1, <2>2, Zenon
    <2> QED BY <1>1, <1>3, <2>3, <2>4 DEF VerdictKnows
  <1>6. UNCHANGED <<world, baseline, marker, job>>
    BY DEF Judge
  <1> QED BY <1>3, <1>4, <1>6, RunnerMoves

LEMMA ToIdle ==
    ASSUME ControlInv, UNCHANGED <<world, baseline, marker>>, job' = Idle, runner' = NotRunning
    PROVE  ControlInv'
  <1>1. job' \in Jobs /\ runner' \in Runners /\ job'.at = "idle" /\ runner'.verdict = "none"
    BY IdleJob, Zenon
  <1>2. JobKnows' /\ VerdictKnows'
    BY <1>1 DEF JobKnows, VerdictKnows
  <1> QED BY <1>1, <1>2, QuietSteps

LEMMA FinishKeeps == ASSUME ControlInv, Finish PROVE ControlInv'
  BY ToIdle DEF Finish

LEMMA CrashKeeps == ASSUME ControlInv, Crash PROVE ControlInv'
  BY ToIdle DEF Crash

-----------------------------------------------------------------------------
(* The start of a command, and the records it saves and removes. *)

LEMMA FaultsAreScripts == Actions \subseteq Faults
  BY ActionsAssumption DEF Script, Faults

LEMMA NamedRecords == ASSUME NEW r, r.action \in Faults PROVE r # NoRecord
  BY DEF NoRecord, Faults

LEMMA NamedJobs ==
    ASSUME NEW cmd \in {"none", "run", "recover"}, NEW a \in Faults, NEW at \in JobStates, NEW i \in Nat,
           job' = [cmd |-> cmd, action |-> a, at |-> at, i |-> i]
    PROVE  job' \in Jobs /\ job'.at = at /\ job'.cmd = cmd /\ job'.action = a /\ job'.i = i
  BY DEF Jobs

(* A container that is there is damage, as none is part of what was found. *)
LEMMA NoContainerWithoutRecord ==
    ASSUME ControlInv, NoActiveFault, NEW p \in Containers
    PROVE  world[p] # "on"
  <1>1. baseline[p] # "on" /\ Damaged \subseteq {"spare"}
    BY DEF ControlInv, FreshParts, DamageIsRecorded
  <1>2. p \in Parts /\ p # "spare" /\ Healthy[p] = "off"
    BY DEF Containers, Parts, Healthy, Resources
  <1> QED BY <1>1, <1>2 DEF Damaged

LEMMA StartRunKeeps == ASSUME ControlInv, NEW a \in Actions, StartRun(a) PROVE ControlInv'
  <1>1. a \in Faults /\ job.at = "idle" /\ runner.verdict # "passed" /\ NoActiveFault
    BY FaultsAreScripts, IdleJob, NotPassed DEF StartRun, Preflight
  <1>2. job' \in Jobs /\ job'.at = "begin" /\ job'.action = a /\ job'.i = 1
    <2>1. "begin" \in JobStates /\ "run" \in {"none", "run", "recover"} /\ 1 \in Nat
      BY DEF JobStates
    <2>2. PICK i \in Nat, cmd \in {"none", "run", "recover"}, at \in JobStates :
              i = 1 /\ cmd = "run" /\ at = "begin" /\ job' = [cmd |-> cmd, action |-> a, at |-> at, i |-> i]
      BY <2>1, Zenon DEF StartRun
    <2>3. job' \in Jobs /\ job'.at = at /\ job'.action = a /\ job'.i = i
      BY <1>1, <2>2, NamedJobs, Zenon
    <2> QED BY <2>2, <2>3
  <1>3. runner' \in Runners /\ runner'.verdict = "none"
    <2>1. ASSUME NEW main \in {"idle", "load", "join", "done"}
          PROVE  [NotRunning EXCEPT !.main = main] \in Runners /\ [NotRunning EXCEPT !.main = main].verdict = "none"
      BY DEF NotRunning, Runners
    <2>2. "load" \in {"idle", "load", "join", "done"}
      OBVIOUS
    <2> QED BY <2>1, <2>2, Zenon DEF StartRun
  <1>4. UNCHANGED <<world, baseline, marker>> /\ (NoActiveFault' <=> NoActiveFault)
    BY DEF StartRun, NoActiveFault, Active
  <1>5. JobKnows'
    <2>1. ~ Active(MyKind)'
      BY <1>1, <1>4, KindsAreKinds DEF NoActiveFault, MyKind
    <2> QED BY <1>1, <1>2, <1>4, <2>1 DEF JobKnows
  <1>6. VerdictKnows'
    BY <1>3 DEF VerdictKnows
  <1>7. \A j \in 1..Len(Script[a]) : Script[a][j][1] \in Replaceable => world[Script[a][j][1]] = "off"
    <2> SUFFICES ASSUME NEW j \in 1..Len(Script[a]), Script[a][j][1] \in Replaceable
                 PROVE  world[Script[a][j][1]] = "off"
      OBVIOUS
    <2>0. PICK p \in Replaceable : p = Script[a][j][1]
      OBVIOUS
    <2>1. CASE p \in Containers
      <3>1. world[p] # "on"
        BY <1>1, <2>1, NoContainerWithoutRecord
      <3>2. world[p] # "foreign"
        BY <2>0 DEF StartRun, Replaceable
      <3>3. world[p] \in {"off", "on", "foreign"}
        BY <2>0 DEF ControlInv, ControlTypes
      <3> QED BY <2>0, <3>1, <3>2, <3>3
    <2>2. CASE p \in Resources
      <3>1. KindOf(a) = "message"
        BY <1>1, <2>0, <2>2, ScriptsCreateOnce
      <3>2. a = "message"
        BY <3>1 DEF KindOf
      <3> QED BY <2>0, <2>2, <3>2 DEF StartRun
    <2> QED BY <2>0, <2>1, <2>2 DEF Replaceable
  <1>8. job'.at = "begin" =>
              job' = job \/ \A j \in 1..Len(Script[job'.action]) : Script[job'.action][j][1] \in Replaceable => world[Script[job'.action][j][1]] = "off"
    BY <1>2, <1>7, Zenon
  <1>9. job'.at # "restore" /\ job'.at # "apply"
    BY <1>2
  <1> QED BY <1>2, <1>3, <1>4, <1>5, <1>6, <1>8, <1>9, QuietSteps

LEMMA StartRecoverKeeps == ASSUME ControlInv, NEW k \in Kinds, StartRecover(k) PROVE ControlInv'
  <1>1. /\ job.at = "idle" /\ runner.verdict # "passed" /\ Active(k) /\ UNCHANGED <<world, baseline, marker, runner>>
        /\ marker[k].action \in Faults /\ KindOf(marker[k].action) = k /\ runner \in Runners
    BY IdleJob, NotPassed DEF StartRecover, ControlInv, ControlTypes, RecordsKnow
  <1>2. job' \in Jobs /\ job'.at = "verify" /\ job'.action = marker[k].action /\ job'.i = 1
    <2>1. "verify" \in JobStates /\ "recover" \in {"none", "run", "recover"} /\ 1 \in Nat
      BY DEF JobStates
    <2>2. PICK i \in Nat, cmd \in {"none", "run", "recover"}, at \in JobStates, a \in Faults :
              i = 1 /\ cmd = "recover" /\ at = "verify" /\ a = marker[k].action /\ job' = [cmd |-> cmd, action |-> a, at |-> at, i |-> i]
      BY <1>1, <2>1, Zenon DEF StartRecover
    <2>3. job' \in Jobs /\ job'.at = at /\ job'.action = a /\ job'.i = i
      BY <2>2, NamedJobs, Zenon
    <2> QED BY <2>2, <2>3
  <1>3. JobKnows'
    BY <1>1, <1>2 DEF JobKnows, MyKind, Active
  <1>4. VerdictKnows'
    BY <1>1 DEF VerdictKnows
  <1>5. job'.at # "restore" /\ job'.at # "apply" /\ job'.at # "begin" /\ runner' \in Runners
    BY <1>1, <1>2
  <1> QED BY <1>1, <1>2, <1>3, <1>4, <1>5, QuietSteps

(* A record saved while there was none is the only one. *)
LEMMA OneRecord ==
    ASSUME ControlInv, NoActiveFault, NEW k \in Kinds, NEW a \in Faults, NEW notes \in SUBSET NoteNames, KindOf(a) = k,
           marker' = [marker EXCEPT ![k] = [action |-> a, notes |-> notes]]
    PROVE  /\ marker' \in [Kinds -> Records] /\ RecordsKnow' /\ ~ NoActiveFault'
           /\ marker'[k].action = a /\ marker'[k].notes = notes /\ Active(k)' /\ \A l \in Kinds : Active(l)' => l = k
  <1>1. marker \in [Kinds -> Records]
    BY DEF ControlInv, ControlTypes
  <1>2. PICK r \in Records : r = [action |-> a, notes |-> notes] /\ r.action = a /\ r.notes = notes
    <2>1. [action |-> a, notes |-> notes] \in Records
      BY DEF Records
    <2>2. [action |-> a, notes |-> notes].action = a /\ [action |-> a, notes |-> notes].notes = notes
      OBVIOUS
    <2> QED BY <2>1, <2>2, Zenon
  <1>3. marker' \in [Kinds -> Records] /\ marker'[k] = r /\ \A l \in Kinds \ {k} : marker'[l] = marker[l]
    BY <1>1, <1>2
  <1>4. \A l \in Kinds : Active(l)' => l = k
    BY <1>3 DEF NoActiveFault, Active
  <1>5. Active(k)'
    BY <1>2, <1>3, NamedRecords DEF Active
  <1>6. RecordsKnow' /\ ~ NoActiveFault'
    BY <1>2, <1>3, <1>4, <1>5 DEF RecordsKnow, NoActiveFault
  <1> QED BY <1>2, <1>3, <1>4, <1>5, <1>6

(* The record is saved before the first call, when nothing but a spare Redis is damaged. *)
LEMMA SaveIntentKeeps == ASSUME ControlInv, SaveIntent PROVE ControlInv'
  <1>1. /\ job \in Jobs /\ runner \in Runners /\ job.at = "begin" /\ job.i = 1 /\ job.action \in Faults /\ NoActiveFault
        /\ runner.verdict # "passed" /\ world' = world
    BY NotPassed DEF SaveIntent, ControlInv, ControlTypes, JobKnows
  <1>2. CASE MyKind = "simulation" /\ world.target # "up"
    <2>1. job' = [job EXCEPT !.at = "verify"] /\ runner' = [runner EXCEPT !.error = TRUE] /\ UNCHANGED <<marker, baseline>>
      BY <1>2, Zenon DEF SaveIntent
    <2>2. "verify" \in JobStates
      BY DEF JobStates
    <2>3. job' \in Jobs /\ job'.at = "verify" /\ job'.action = job.action /\ job'.i = 1
      BY <1>1, <2>1, <2>2, JobGoes
    <2>4. runner' \in Runners /\ runner'.verdict # "passed"
      BY <1>1, <2>1, RunnerErrs
    <2> QED BY <1>1, <2>1, <2>3, <2>4, QuietMoves
  <1>3. CASE ~ (MyKind = "simulation" /\ world.target # "up")
    <2>1. PICK notes \in SUBSET NoteNames :
             /\ marker' = [marker EXCEPT ![MyKind] = [action |-> job.action, notes |-> notes]]
             /\ job' = [job EXCEPT !.at = "apply"] /\ baseline' = world /\ runner' = runner
      <3>1. (IF world.spare = "on" THEN {"spare_before"} ELSE {}) \in SUBSET NoteNames
        BY DEF NoteNames
      <3> QED BY <1>3, <3>1, Zenon DEF SaveIntent
    <2>2. job' \in Jobs /\ job'.at = "apply" /\ job'.action = job.action /\ job'.i = 1
      <3>1. "apply" \in JobStates
        BY DEF JobStates
      <3> QED BY <1>1, <2>1, <3>1, JobGoes
    <2>3. MyKind \in Kinds /\ MyKind = KindOf(job.action) /\ MyKind' = MyKind
      BY <2>2, KindsAreKinds DEF MyKind
    <2>4. PICK k \in Kinds : k = MyKind
      BY <2>3
    <2>5. /\ marker' \in [Kinds -> Records] /\ RecordsKnow' /\ ~ NoActiveFault'
          /\ marker'[k].action = job.action /\ marker'[k].notes = notes /\ Active(k)' /\ \A l \in Kinds : Active(l)' => l = k
      BY <1>1, <2>1, <2>3, <2>4, OneRecord
    <2>6. ControlTypes'
      BY <1>1, <2>1, <2>2, <2>5 DEF ControlInv, ControlTypes
    <2>7. JobKnows'
      <3>1. Active(MyKind)' /\ (marker[MyKind].action)' = job.action
        BY <2>3, <2>4, <2>5 DEF Active
      <3> QED BY <1>1, <2>2, <3>1 DEF JobKnows
    <2>8. NotesAreTaken'
      BY <2>2 DEF NotesAreTaken
    <2>9. Damaged' = {}
      BY <1>1, <2>1 DEF Damaged
    <2>10. DamageIsRecorded'
      BY <2>2, <2>5, <2>9 DEF DamageIsRecorded
    <2>11. FreshParts'
      <3>1. \A p \in Containers : baseline'[p] # "on"
        BY <1>1, <2>1, NoContainerWithoutRecord
      <3>2. \A j \in 1..Len(Steps) : j >= job.i /\ Steps[j][1] \in Replaceable => world[Steps[j][1]] = "off"
        BY <1>1 DEF ControlInv, FreshParts
      <3>3. Steps' = Steps
        BY <2>2 DEF Steps
      <3> QED BY <1>1, <2>2, <3>1, <3>2, <3>3 DEF FreshParts
    <2>12. VerdictKnows'
      BY <1>1, <2>1 DEF VerdictKnows
    <2> QED BY <2>5, <2>6, <2>7, <2>8, <2>10, <2>11, <2>12 DEF ControlInv
  <1> QED BY <1>2, <1>3

LEMMA StartCleanupKeeps == ASSUME ControlInv, StartCleanup PROVE ControlInv'
  <1>1. job.at = "idle" /\ runner.verdict # "passed" /\ NoActiveFault /\ UNCHANGED <<world, baseline, runner>>
    BY IdleJob, NotPassed DEF StartCleanup
  <1>2. PICK a \in Faults : a = "message" /\ KindOf(a) = "message"
    BY DEF Faults, KindOf
  <1>3. PICK k \in Kinds : k = "message"
    BY DEF Kinds
  <1>4. PICK notes \in SUBSET NoteNames : notes = Resources
    BY DEF NoteNames
  <1>5. marker' = [marker EXCEPT ![k] = [action |-> a, notes |-> notes]]
    BY <1>2, <1>3, <1>4, Zenon DEF StartCleanup
  <1>6. /\ marker' \in [Kinds -> Records] /\ RecordsKnow' /\ ~ NoActiveFault'
        /\ marker'[k].action = a /\ Active(k)' /\ \A l \in Kinds : Active(l)' => l = k
    BY <1>1, <1>2, <1>3, <1>5, OneRecord
  <1>7. job' \in Jobs /\ job'.at = "verify" /\ job'.action = a /\ job'.i = 1
    <2>1. "verify" \in JobStates /\ "recover" \in {"none", "run", "recover"} /\ 1 \in Nat
      BY DEF JobStates
    <2>2. PICK i \in Nat, cmd \in {"none", "run", "recover"}, at \in JobStates :
              i = 1 /\ cmd = "recover" /\ at = "verify" /\ job' = [cmd |-> cmd, action |-> a, at |-> at, i |-> i]
      BY <1>2, <2>1, Zenon DEF StartCleanup
    <2>3. job' \in Jobs /\ job'.at = at /\ job'.action = a /\ job'.i = i
      BY <2>2, NamedJobs, Zenon
    <2> QED BY <2>2, <2>3
  <1>8. ControlTypes'
    BY <1>1, <1>6, <1>7 DEF ControlInv, ControlTypes
  <1>9. JobKnows'
    BY <1>2, <1>3, <1>6, <1>7 DEF JobKnows, MyKind, Active
  <1>10. NotesAreTaken' /\ VerdictKnows'
    BY <1>1, <1>7 DEF NotesAreTaken, VerdictKnows
  <1>11. DamageIsRecorded'
    <2>1. Damaged' = Damaged /\ Damaged \subseteq {"spare"}
      BY <1>1 DEF Damaged, ControlInv, DamageIsRecorded
    <2> QED BY <1>6, <1>7, <2>1 DEF DamageIsRecorded
  <1>12. FreshParts'
    BY <1>1, <1>7 DEF ControlInv, FreshParts
  <1> QED BY <1>6, <1>8, <1>9, <1>10, <1>11, <1>12 DEF ControlInv

(* The record goes: none is left. *)
LEMMA LastRecord ==
    ASSUME ControlInv, NEW k \in Kinds, Active(k), marker' = [marker EXCEPT ![k] = NoRecord]
    PROVE  marker' \in [Kinds -> Records] /\ RecordsKnow' /\ NoActiveFault'
  <1>1. marker \in [Kinds -> Records] /\ NoRecord \in Records /\ \A l \in Kinds : Active(l) => l = k
    BY DEF ControlInv, ControlTypes, RecordsKnow, NoRecord, Records
  <1>2. marker' \in [Kinds -> Records] /\ marker'[k] = NoRecord /\ \A l \in Kinds \ {k} : marker'[l] = marker[l]
    BY <1>1
  <1>3. NoActiveFault'
    BY <1>1, <1>2 DEF NoActiveFault, Active
  <1>4. RecordsKnow'
    BY <1>3 DEF RecordsKnow, NoActiveFault
  <1> QED BY <1>2, <1>3, <1>4

(* active_path.unlink() comes after the last call: nothing is left to undo. *)
LEMMA UnlinkKeeps == ASSUME ControlInv, Unlink PROVE ControlInv'
  <1>1. /\ job \in Jobs /\ runner \in Runners /\ job.at = "restore" /\ job.action \in Faults /\ Active(MyKind)
        /\ job.i > Len(Undo[job.action]) /\ job.i \in Nat /\ UNCHANGED <<world, baseline>>
    BY DEF Unlink, ControlInv, ControlTypes, JobKnows
  <1>2. PICK k \in Kinds : k = MyKind
    BY KindsAreKinds DEF MyKind
  <1>3. marker' \in [Kinds -> Records] /\ RecordsKnow' /\ NoActiveFault'
    <2>1. marker' = [marker EXCEPT ![k] = NoRecord]
      BY <1>2, Zenon DEF Unlink
    <2> QED BY <1>1, <1>2, <2>1, LastRecord
  <1>4. runner' \in Runners /\ runner'.verdict # "passed"
    <2>1. runner' = [runner EXCEPT !.restored = TRUE]
      BY DEF Unlink
    <2> QED BY <1>1, <2>1, NotPassed, RunnerRestores
  <1>5. job' \in Jobs /\ job'.at = "end" /\ job'.action = job.action
    <2>1. "end" \in JobStates
      BY DEF JobStates
    <2>2. job' = [job EXCEPT !.at = "end"]
      BY DEF Unlink
    <2> QED BY <1>1, <2>1, <2>2, JobGoes
  <1>6. Damaged' \subseteq {"spare"}
    <2>1. Damaged \subseteq {Undo[job.action][j] : j \in {n \in 1..Len(Undo[job.action]) : n >= job.i}} \cup {"spare"}
      BY <1>1 DEF ControlInv, DamageIsRecorded
    <2>2. Len(Undo[job.action]) \in Nat
      BY <1>1, UndoNamesParts
    <2>3. {n \in 1..Len(Undo[job.action]) : n >= job.i} = {}
      BY <1>1, <2>2
    <2>4. Damaged \subseteq {"spare"}
      BY <2>1, <2>3
    <2>5. Damaged' = Damaged
      BY <1>1 DEF Damaged
    <2> QED BY <2>4, <2>5
  <1>7. ControlTypes'
    BY <1>1, <1>3, <1>4, <1>5 DEF ControlInv, ControlTypes
  <1>8. JobKnows'
    <2>1. ~ Active(MyKind)'
      BY <1>3, KindsAreKinds DEF NoActiveFault, MyKind
    <2> QED BY <1>1, <1>5, <2>1 DEF JobKnows
  <1>9. NotesAreTaken' /\ VerdictKnows'
    BY <1>4, <1>5 DEF NotesAreTaken, VerdictKnows
  <1>10. DamageIsRecorded'
    BY <1>3, <1>5, <1>6 DEF DamageIsRecorded, NoActiveFault
  <1>11. FreshParts'
    BY <1>1, <1>5 DEF ControlInv, FreshParts
  <1> QED BY <1>3, <1>7, <1>8, <1>9, <1>10, <1>11 DEF ControlInv

(* --keep: the record goes, the resources become part of what is there. *)
LEMMA KeepKeeps == ASSUME ControlInv, Keep PROVE ControlInv'
  <1>1. /\ job \in Jobs /\ runner \in Runners /\ job.at = "decide" /\ job.action \in Faults /\ Active(MyKind) /\ MyKind = "message"
        /\ marker[MyKind].action = job.action /\ runner.verdict # "passed" /\ world' = world /\ runner' = runner
    BY NotPassed DEF Keep, ControlInv, ControlTypes, JobKnows
  <1>2. PICK k \in Kinds : k = MyKind
    BY KindsAreKinds DEF MyKind
  <1>3. marker' \in [Kinds -> Records] /\ RecordsKnow' /\ NoActiveFault'
    <2>1. marker' = [marker EXCEPT ![k] = NoRecord]
      BY <1>1, <1>2, Zenon DEF Keep
    <2> QED BY <1>1, <1>2, <2>1, LastRecord
  <1>4. job' \in Jobs /\ job'.at = "end" /\ job'.action = job.action
    <2>1. "end" \in JobStates
      BY DEF JobStates
    <2>2. job' = [job EXCEPT !.at = "end"]
      BY DEF Keep
    <2> QED BY <1>1, <2>1, <2>2, JobGoes
  <1>5. baseline' = [p \in Parts |-> IF p \in Resources THEN world[p] ELSE baseline[p]]
    BY DEF Keep
  <1>6. Damaged' \subseteq {"spare"}
    <2>1. Damaged \subseteq Undone(job.action) \cup {"spare"}
      BY <1>1, <1>2 DEF ControlInv, DamageIsRecorded
    <2>2. Undone(job.action) \subseteq Resources
      BY <1>1, UndoNamesParts DEF MyKind
    <2>3. Damaged' \subseteq Damaged \ Resources
      BY <1>1, <1>5 DEF Damaged
    <2> QED BY <2>1, <2>2, <2>3
  <1>7. ControlTypes'
    <2>1. baseline' \in [Parts -> Words]
      BY <1>5 DEF ControlInv, ControlTypes
    <2> QED BY <1>1, <1>3, <1>4, <2>1 DEF ControlInv, ControlTypes
  <1>8. JobKnows'
    <2>1. ~ Active(MyKind)'
      BY <1>3, KindsAreKinds DEF NoActiveFault, MyKind
    <2> QED BY <1>1, <1>4, <2>1 DEF JobKnows
  <1>9. NotesAreTaken' /\ VerdictKnows'
    BY <1>1, <1>4 DEF NotesAreTaken, VerdictKnows
  <1>10. DamageIsRecorded'
    BY <1>3, <1>4, <1>6 DEF DamageIsRecorded, NoActiveFault
  <1>11. FreshParts'
    <2>1. \A p \in Containers : p \in Parts /\ p \notin Resources
      BY DEF Containers, Parts, Resources
    <2>2. \A p \in Containers : baseline'[p] # "on"
      BY <1>5, <2>1 DEF ControlInv, FreshParts
    <2> QED BY <1>4, <2>2 DEF FreshParts
  <1> QED BY <1>3, <1>7, <1>8, <1>9, <1>10, <1>11 DEF ControlInv

-----------------------------------------------------------------------------
(* The calls that change the stack. *)

(* The record, the notes and the verdict do not depend on the stack. *)
LEMMA WorldSteps ==
    ASSUME ControlInv, UNCHANGED marker, world' \in [Parts -> Words], baseline' \in [Parts -> Words],
           \A p \in Replaceable \cup {"qdisc"} : world'[p] \in {"off", "on", "foreign"},
           job' = job, runner' = runner
    PROVE  /\ ControlTypes' /\ RecordsKnow' /\ JobKnows' /\ NotesAreTaken' /\ VerdictKnows' /\ (NoActiveFault' <=> NoActiveFault)
           /\ \A k \in Kinds : Active(k)' <=> Active(k)
  <1>1. ControlTypes /\ RecordsKnow /\ JobKnows /\ NotesAreTaken /\ VerdictKnows
    BY DEF ControlInv
  <1>2. ControlTypes'
    BY <1>1 DEF ControlTypes
  <1>3. RecordsKnow'
    BY <1>1 DEF RecordsKnow, Active
  <1>4. (NoActiveFault' <=> NoActiveFault) /\ (\A k \in Kinds : Active(k)' <=> Active(k)) /\ MyKind' = MyKind /\ Steps' = Steps
    BY DEF NoActiveFault, Active, MyKind, Steps
  <1>5. JobKnows'
    <2>1. Active(MyKind)' <=> Active(MyKind)
      BY <1>4, KindsAreKinds DEF MyKind
    <2>2. marker' = marker
      OBVIOUS
    <2> QED BY <1>1, <1>4, <2>1, <2>2 DEF JobKnows
  <1>6. NotesAreTaken'
    BY <1>1, <1>4 DEF NotesAreTaken
  <1>7. VerdictKnows'
    BY <1>1, <1>4 DEF VerdictKnows
  <1> QED BY <1>2, <1>3, <1>4, <1>5, <1>6, <1>7

(* Nothing more is damaged. *)
LEMMA NoMoreDamage ==
    ASSUME ControlInv, UNCHANGED <<marker, job>>, Damaged' \subseteq Damaged
    PROVE  DamageIsRecorded'
  <1>1. (NoActiveFault' <=> NoActiveFault) /\ \A k \in Kinds : Active(k)' <=> Active(k)
    BY DEF NoActiveFault, Active
  <1>2. DamageIsRecorded
    BY DEF ControlInv
  <1>3. NoActiveFault' => Damaged' \subseteq {"spare"}
    BY <1>1, <1>2 DEF DamageIsRecorded
  <1>4. \A k \in Kinds : Active(k)' =>
          /\ Damaged' \subseteq Undone(marker[k].action) \cup {"spare"}
          /\ Damaged' \cap {"qdisc", "helper"} # {} => "name" \in marker[k].notes
          /\ Damaged' \cap {"database", "client"} \subseteq marker[k].notes
    BY <1>1, <1>2 DEF DamageIsRecorded
  <1>5. job.at = "restore" =>
          Damaged' \subseteq {Undo[job.action][j] : j \in {n \in 1..Len(Undo[job.action]) : n >= job.i}} \cup {"spare"}
    BY <1>2 DEF DamageIsRecorded
  <1> QED BY <1>3, <1>4, <1>5 DEF DamageIsRecorded

(* The operator's choice is what is there from now on. *)
LEMMA ChosenKeeps ==
    ASSUME ControlInv, Lifecycle, NEW w \in [Parts -> Words], Chosen(w), UNCHANGED <<marker, job, runner>>,
           \A p \in Replaceable \cup {"qdisc"} : w[p] = world[p]
    PROVE  ControlInv'
  <1>1. world' = w /\ baseline' = w /\ job.at = "idle" /\ NoActiveFault
    BY IdleJob DEF Chosen, Lifecycle
  <1>2. \A p \in Replaceable \cup {"qdisc"} : w[p] \in {"off", "on", "foreign"}
    BY DEF ControlInv, ControlTypes
  <1>3. /\ ControlTypes' /\ RecordsKnow' /\ JobKnows' /\ NotesAreTaken' /\ VerdictKnows'
    BY <1>1, <1>2, WorldSteps
  <1>4. DamageIsRecorded'
    <2>1. Damaged' = {}
      BY <1>1 DEF Damaged
    <2> QED BY <2>1, NoMoreDamage
  <1>5. FreshParts'
    <2>1. \A p \in Containers : w[p] # "on"
      BY <1>1, NoContainerWithoutRecord DEF Replaceable
    <2> QED BY <1>1, <2>1 DEF FreshParts
  <1> QED BY <1>3, <1>4, <1>5 DEF ControlInv

LEMMA OtherParts ==
    /\ \A p \in Replaceable \cup {"qdisc"} : p \notin {"target", "spare", "mode", "apps", "env", "rowlock"}
    /\ {"target", "spare", "mode", "apps", "env", "rowlock", "qdisc"} \cup Replaceable \subseteq Parts
  BY DEF Replaceable, Containers, Resources, Parts

LEMMA StopOrResumeChooses ==
    ASSUME ControlInv, NEW state \in {"up", "stopped"}, StopOrResume(state)
    PROVE  Lifecycle /\ UNCHANGED <<marker, job, runner>> /\ \E w \in [Parts -> Words] : Chosen(w) /\ \A p \in Replaceable \cup {"qdisc"} : w[p] = world[p]
  <1>1. world \in [Parts -> Words] /\ state \in Words
    BY DEF ControlInv, ControlTypes, Words
  <1>2. PICK w \in [Parts -> Words] : w = [world EXCEPT !.target = state] /\ \A p \in Replaceable \cup {"qdisc"} : w[p] = world[p]
    BY <1>1, OtherParts
  <1>3. Chosen(w)
    BY <1>2, Zenon DEF StopOrResume
  <1>4. Lifecycle /\ UNCHANGED <<marker, job, runner>>
    BY DEF StopOrResume
  <1> QED BY <1>2, <1>3, <1>4, Zenon

LEMMA DownChooses ==
    ASSUME ControlInv, Down
    PROVE  Lifecycle /\ UNCHANGED <<marker, job, runner>> /\ \E w \in [Parts -> Words] : Chosen(w) /\ \A p \in Replaceable \cup {"qdisc"} : w[p] = world[p]
  <1>1. world \in [Parts -> Words] /\ "absent" \in Words /\ "off" \in Words
    BY DEF ControlInv, ControlTypes, Words
  <1>2. PICK v \in [Parts -> Words] : v = [world EXCEPT !.target = "absent"] /\ \A p \in Replaceable \cup {"qdisc"} : v[p] = world[p]
    BY <1>1, OtherParts
  <1>3. PICK w \in [Parts -> Words] : w = [v EXCEPT !.spare = "off"] /\ \A p \in Replaceable \cup {"qdisc"} : w[p] = world[p]
    <2>1. [v EXCEPT !.spare = "off"] \in [Parts -> Words]
      BY <1>1
    <2>2. \A p \in Replaceable \cup {"qdisc"} : [v EXCEPT !.spare = "off"][p] = v[p]
      BY OtherParts
    <2>3. \A p \in Replaceable \cup {"qdisc"} : v[p] = world[p]
      BY <1>2
    <2> QED BY <2>1, <2>2, <2>3, Zenon
  <1>4. w = [world EXCEPT !.target = "absent", !.spare = "off"]
    BY <1>2, <1>3
  <1>5. Chosen(w)
    BY <1>4, Zenon DEF Down
  <1>6. Lifecycle /\ UNCHANGED <<marker, job, runner>>
    BY DEF Down
  <1> QED BY <1>3, <1>5, <1>6, Zenon

LEMMA ExperimentChooses ==
    ASSUME ControlInv, NEW m \in {"normal", "redis-spare"}, Experiment(m)
    PROVE  Lifecycle /\ UNCHANGED <<marker, job, runner>> /\ \E w \in [Parts -> Words] : Chosen(w) /\ \A p \in Replaceable \cup {"qdisc"} : w[p] = world[p]
  <1>1. world \in [Parts -> Words] /\ m \in Words
    BY DEF ControlInv, ControlTypes, Words
  <1>2. PICK spare \in Words : spare = IF m = "redis-spare" THEN "on" ELSE world.spare
    BY <1>1, OtherParts DEF Words
  <1>3. PICK w1 \in [Parts -> Words] : w1 = [world EXCEPT !.spare = spare] /\ \A p \in Replaceable \cup {"qdisc"} : w1[p] = world[p]
    BY <1>1, <1>2, OtherParts
  <1>4. PICK w2 \in [Parts -> Words] : w2 = [w1 EXCEPT !.mode = m] /\ \A p \in Replaceable \cup {"qdisc"} : w2[p] = world[p]
    <2>1. [w1 EXCEPT !.mode = m] \in [Parts -> Words]
      BY <1>1
    <2>2. \A p \in Replaceable \cup {"qdisc"} : [w1 EXCEPT !.mode = m][p] = w1[p]
      BY OtherParts
    <2> QED BY <2>1, <2>2, <1>1, <1>3, Zenon
  <1>5. PICK w3 \in [Parts -> Words] : w3 = [w2 EXCEPT !.apps = m] /\ \A p \in Replaceable \cup {"qdisc"} : w3[p] = world[p]
    <2>1. [w2 EXCEPT !.apps = m] \in [Parts -> Words]
      BY <1>1
    <2>2. \A p \in Replaceable \cup {"qdisc"} : [w2 EXCEPT !.apps = m][p] = w2[p]
      BY OtherParts
    <2> QED BY <2>1, <2>2, <1>1, <1>4, Zenon
  <1>6. w2 = [world EXCEPT !.spare = spare, !.mode = m] /\ w3 = [world EXCEPT !.spare = spare, !.mode = m, !.apps = m]
    BY <1>3, <1>4, <1>5
  <1>7. Chosen(w1) \/ Chosen(w2) \/ Chosen(w3)
    BY <1>2, <1>3, <1>6 DEF Experiment
  <1>8. Lifecycle /\ UNCHANGED <<marker, job, runner>>
    BY DEF Experiment
  <1> QED BY <1>3, <1>4, <1>5, <1>7, <1>8, Zenon

LEMMA UpChooses ==
    ASSUME ControlInv, Up
    PROVE  Lifecycle /\ UNCHANGED <<marker, job, runner>> /\ \E w \in [Parts -> Words] : Chosen(w) /\ \A p \in Replaceable \cup {"qdisc"} : w[p] = world[p]
  <1>1. world \in [Parts -> Words] /\ world.mode \in Words /\ "up" \in Words
    BY OtherParts DEF ControlInv, ControlTypes, Words
  <1>2. PICK v \in [Parts -> Words] : v = [world EXCEPT !.target = "up"] /\ \A p \in Replaceable \cup {"qdisc"} : v[p] = world[p]
    BY <1>1, OtherParts
  <1>3. PICK spare \in Words : spare = IF world.mode = "redis-spare" THEN "on" ELSE v.spare
    BY <1>2, OtherParts DEF Words
  <1>4. PICK w1 \in [Parts -> Words] : w1 = [v EXCEPT !.spare = spare] /\ \A p \in Replaceable \cup {"qdisc"} : w1[p] = world[p]
    <2>1. [v EXCEPT !.spare = spare] \in [Parts -> Words]
      BY <1>1
    <2>2. \A p \in Replaceable \cup {"qdisc"} : [v EXCEPT !.spare = spare][p] = v[p]
      BY OtherParts
    <2>3. \A p \in Replaceable \cup {"qdisc"} : v[p] = world[p]
      BY <1>2
    <2> QED BY <2>1, <2>2, <2>3, Zenon
  <1>5. PICK w2 \in [Parts -> Words] : w2 = [w1 EXCEPT !.apps = world.mode] /\ \A p \in Replaceable \cup {"qdisc"} : w2[p] = world[p]
    <2>1. [w1 EXCEPT !.apps = world.mode] \in [Parts -> Words]
      BY <1>1
    <2>2. \A p \in Replaceable \cup {"qdisc"} : [w1 EXCEPT !.apps = world.mode][p] = w1[p]
      BY OtherParts
    <2> QED BY <2>1, <2>2, <1>1, <1>4, Zenon
  <1>6. w1 = UpDatabases /\ w2 = UpAll
    BY <1>2, <1>3, <1>4, <1>5 DEF UpDatabases, UpAll
  <1>7. Chosen(w1) \/ Chosen(w2)
    BY <1>6 DEF Up
  <1>8. Lifecycle /\ UNCHANGED <<marker, job, runner>>
    BY DEF Up
  <1> QED BY <1>4, <1>5, <1>7, <1>8, Zenon

(* stop, resume, experiment, up and down. *)
Administer ==
    \/ \E state \in {"up", "stopped"} : StopOrResume(state)
    \/ \E m \in {"normal", "redis-spare"} : Experiment(m)
    \/ Up \/ Down

LEMMA AdministerChooses ==
    ASSUME ControlInv, Administer
    PROVE  Lifecycle /\ UNCHANGED <<marker, job, runner>> /\ \E w \in [Parts -> Words] : Chosen(w) /\ \A p \in Replaceable \cup {"qdisc"} : w[p] = world[p]
  <1>1. CASE Up
    BY <1>1, UpChooses, Zenon
  <1>2. CASE Down
    BY <1>2, DownChooses, Zenon
  <1>3. CASE \E state \in {"up", "stopped"} : StopOrResume(state)
    BY <1>3, StopOrResumeChooses, Zenon
  <1>4. CASE \E m \in {"normal", "redis-spare"} : Experiment(m)
    BY <1>4, ExperimentChooses, Zenon
  <1> QED BY <1>1, <1>2, <1>3, <1>4 DEF Administer

LEMMA AdministerKeeps == ASSUME ControlInv, Administer PROVE ControlInv'
  <1>1. Lifecycle /\ UNCHANGED <<marker, job, runner>>
    BY AdministerChooses, Zenon
  <1>2. PICK w \in [Parts -> Words] : Chosen(w) /\ \A p \in Replaceable \cup {"qdisc"} : w[p] = world[p]
    BY AdministerChooses, Zenon
  <1> QED BY <1>1, <1>2, ChosenKeeps

-----------------------------------------------------------------------------
(* apply(): what a call damages is in the record before it is made. *)

LEMMA NoteTaken ==
    ASSUME marker \in [Kinds -> Records], NEW k \in Kinds, NEW x \in NoteNames, marker[k].action \in Faults,
           marker' = [marker EXCEPT ![k].notes = @ \cup {x}]
    PROVE  /\ marker' \in [Kinds -> Records] /\ marker'[k].notes = marker[k].notes \cup {x}
           /\ marker'[k].action = marker[k].action /\ Active(k)' /\ \A l \in Kinds \ {k} : marker'[l] = marker[l]
  <1>1. /\ marker[k] \in Records
        /\ marker' \in [Kinds -> Records] /\ marker'[k] = [marker[k] EXCEPT !.notes = @ \cup {x}]
        /\ \A l \in Kinds \ {k} : marker'[l] = marker[l]
    <2>1. marker[k] \in Records /\ marker[k].notes \cup {x} \in SUBSET NoteNames
      BY DEF Records
    <2>2. [marker[k] EXCEPT !.notes = @ \cup {x}] \in Records
      BY <2>1 DEF Records
    <2> QED BY <2>1, <2>2
  <1>2. marker'[k].notes = marker[k].notes \cup {x} /\ marker'[k].action = marker[k].action
    BY <1>1 DEF Records
  <1>3. marker'[k] # NoRecord
    BY <1>2, NamedRecords
  <1> QED BY <1>1, <1>2, <1>3 DEF Active

LEMMA RecordedDamage ==
    ASSUME NEW k \in Kinds, Active(k)', \A l \in Kinds : Active(l)' => l = k, job'.at # "restore",
           Damaged' \subseteq Undone(marker'[k].action) \cup {"spare"},
           Damaged' \cap {"qdisc", "helper"} # {} => "name" \in marker'[k].notes,
           Damaged' \cap {"database", "client"} \subseteq marker'[k].notes
    PROVE  DamageIsRecorded'
  <1>1. ~ NoActiveFault'
    BY DEF NoActiveFault
  <1> QED BY <1>1 DEF DamageIsRecorded

LEMMA CallDamages ==
    ASSUME ControlInv, job.at = "apply", NEW i \in 1..Len(Script[job.action]), i = job.i, NEW p \in Parts,
           p = Script[job.action][i][1], p # "note", UNCHANGED <<baseline, marker>>, job'.at # "restore",
           \A q \in Parts \ {p} : world'[q] = world[q] \/ world'[q] = Healthy[q]
    PROVE  DamageIsRecorded'
  <1>1. Damaged' \subseteq Damaged \cup {p}
    BY DEF Damaged
  <1>2. job.action \in Faults /\ Active(MyKind) /\ marker[MyKind].action = job.action
    BY DEF ControlInv, JobKnows
  <1>3. PICK k \in Kinds : k = MyKind
    BY KindsAreKinds DEF MyKind
  <1>4. Active(k)' /\ \A l \in Kinds : Active(l)' => l = k
    BY <1>2, <1>3 DEF ControlInv, RecordsKnow, Active
  <1>5. /\ Damaged \subseteq Undone(job.action) \cup {"spare"}
        /\ Damaged \cap {"qdisc", "helper"} # {} => "name" \in marker[k].notes
        /\ Damaged \cap {"database", "client"} \subseteq marker[k].notes
    BY <1>2, <1>3 DEF ControlInv, DamageIsRecorded
  <1>6. p \in Undone(job.action) \cup {"spare"}
    BY <1>2, ScriptsAreUndone
  <1>7. \A j \in 1..Len(Script[job.action]) :
           j < i /\ Script[job.action][j][1] = "note" => Script[job.action][j][2] \in marker[k].notes
    BY <1>3 DEF ControlInv, NotesAreTaken, Steps
  <1>8. p \in {"qdisc", "helper"} => "name" \in marker[k].notes
    <2> SUFFICES ASSUME p \in {"qdisc", "helper"} PROVE "name" \in marker[k].notes
      OBVIOUS
    <2>1. PICK j \in 1..Len(Script[job.action]) :
             j < i /\ Script[job.action][j][1] = "note" /\ Script[job.action][j][2] = "name"
      BY <1>2, ScriptsTakeNotes
    <2> QED BY <1>7, <2>1
  <1>9. p \in {"database", "client"} => p \in marker[k].notes
    <2> SUFFICES ASSUME p \in {"database", "client"} PROVE p \in marker[k].notes
      OBVIOUS
    <2>1. PICK j \in 1..Len(Script[job.action]) :
             j < i /\ Script[job.action][j][1] = "note" /\ Script[job.action][j][2] = p
      BY <1>2, ScriptsTakeNotes
    <2> QED BY <1>7, <2>1
  <1>10. marker'[k].action = job.action /\ marker'[k].notes = marker[k].notes
    BY <1>2, <1>3
  <1>11. Damaged' \subseteq Undone(marker'[k].action) \cup {"spare"}
    BY <1>1, <1>5, <1>6, <1>10
  <1>12. Damaged' \cap {"qdisc", "helper"} # {} => "name" \in marker'[k].notes
    BY <1>1, <1>5, <1>8, <1>10
  <1>13. Damaged' \cap {"database", "client"} \subseteq marker'[k].notes
    BY <1>1, <1>5, <1>9, <1>10
  <1> QED BY <1>4, <1>11, <1>12, <1>13, RecordedDamage

LEMMA ApplyCallKeeps == ASSUME ControlInv, ApplyCall PROVE ControlInv'
  <1>1. /\ job \in Jobs /\ runner \in Runners /\ job.at = "apply" /\ job.action \in Faults /\ job.i \in Nat \ {0}
        /\ Active(MyKind) /\ marker[MyKind].action = job.action /\ runner.verdict # "passed"
        /\ baseline' = baseline /\ runner' = runner /\ job.i <= Len(Script[job.action])
    BY NotPassed DEF ApplyCall, ControlInv, ControlTypes, JobKnows, Steps
  <1>2. PICK a \in Faults : a = job.action
    BY <1>1
  <1>3. PICK i \in 1..Len(Script[a]) : i = job.i
    BY <1>1, <1>2, ScriptsAreSequences
  <1>4. PICK k \in Kinds : k = MyKind
    BY KindsAreKinds DEF MyKind
  <1>5. job' \in Jobs /\ job'.at = "apply" /\ job'.action = a /\ job'.i = i + 1
    <2>1. job' = [job EXCEPT !.i = @ + 1]
      BY DEF ApplyCall
    <2> QED BY <1>1, <1>2, <1>3, <2>1, JobCounts
  <1>6. Steps' = Script[a] /\ Steps = Script[a] /\ MyKind' = k /\ MyKind = k
    BY <1>2, <1>4, <1>5 DEF Steps, MyKind
  <1>7. VerdictKnows'
    BY <1>1 DEF VerdictKnows
  <1>8. ASSUME Active(k)', marker'[k].action = a PROVE JobKnows'
    BY <1>5, <1>6, <1>8 DEF JobKnows
  <1>9. /\ \A j \in 1..Len(Script[a]) : j >= i /\ Script[a][j][1] \in Replaceable => world[Script[a][j][1]] = "off"
        /\ \A j \in 1..Len(Script[a]) : j < i /\ Script[a][j][1] = "note" => Script[a][j][2] \in marker[k].notes
        /\ \A p \in Containers : baseline[p] # "on"
    BY <1>1, <1>3, <1>6 DEF ControlInv, FreshParts, NotesAreTaken
  <1>10. CASE Script[a][i][1] = "note"
    <2>1. PICK x \in NoteNames : x = Script[a][i][2]
      BY <1>10, ScriptsTakeNotes
    <2>2. marker' = [marker EXCEPT ![k].notes = @ \cup {x}] /\ world' = world
      BY <1>2, <1>3, <1>4, <1>6, <1>10, <2>1, Zenon DEF ApplyCall
    <2>3. /\ marker' \in [Kinds -> Records] /\ marker'[k].notes = marker[k].notes \cup {x}
          /\ marker'[k].action = a /\ Active(k)' /\ \A l \in Kinds \ {k} : marker'[l] = marker[l]
      <3>1. marker \in [Kinds -> Records] /\ marker[k].action = a
        BY <1>1, <1>2, <1>4 DEF ControlInv, ControlTypes
      <3> QED BY <2>2, <3>1, NoteTaken
    <2>4. Active(k) /\ \A l \in Kinds : Active(l)' => l = k
      BY <1>1, <1>4, <2>3 DEF ControlInv, RecordsKnow, Active
    <2>5. ControlTypes'
      BY <1>1, <1>5, <2>2, <2>3 DEF ControlInv, ControlTypes
    <2>6. RecordsKnow'
      BY <1>2, <1>4, <2>3, <2>4 DEF RecordsKnow, MyKind
    <2>7. NotesAreTaken'
      <3>1. ASSUME NEW j \in 1..Len(Script[a]), j < i + 1, Script[a][j][1] = "note" PROVE Script[a][j][2] \in marker'[k].notes
        <4>1. j < i \/ j = i
          BY <3>1
        <4> QED BY <1>9, <2>1, <2>3, <3>1, <4>1
      <3> QED BY <1>5, <1>6, <3>1 DEF NotesAreTaken
    <2>8. DamageIsRecorded'
      <3>1. Damaged' = Damaged
        BY <1>1, <2>2 DEF Damaged
      <3>2. /\ Damaged \subseteq Undone(a) \cup {"spare"}
            /\ Damaged \cap {"qdisc", "helper"} # {} => "name" \in marker[k].notes
            /\ Damaged \cap {"database", "client"} \subseteq marker[k].notes
        BY <1>1, <1>2, <1>4, <2>4 DEF ControlInv, DamageIsRecorded
      <3> QED BY <1>5, <2>3, <2>4, <3>1, <3>2, RecordedDamage
    <2>9. FreshParts'
      <3>1. \A j \in 1..Len(Script[a]) : j >= i + 1 => j >= i
        OBVIOUS
      <3> QED BY <1>1, <1>5, <1>6, <1>9, <2>2, <3>1 DEF FreshParts
    <2> QED BY <1>7, <1>8, <2>3, <2>5, <2>6, <2>7, <2>8, <2>9 DEF ControlInv
  <1>11. CASE Script[a][i][1] # "note"
    <2>1. PICK p \in Parts, v \in Words :
             /\ p = Script[a][i][1] /\ v = Script[a][i][2]
             /\ p \in Replaceable \cup {"qdisc"} => v = "on"
      BY <1>11, ScriptsAreUndone
    <2>2. marker' = marker /\ world' = [world EXCEPT ![p] = v]
      <3>1. Steps[job.i][1] = p /\ Steps[job.i][2] = v /\ Steps[job.i][1] # "note"
        BY <1>2, <1>3, <1>6, <1>11, <2>1
      <3>2. world' = [world EXCEPT ![Steps[job.i][1]] = Steps[job.i][2]] /\ UNCHANGED marker
        BY <3>1, Zenon DEF ApplyCall
      <3> QED BY <3>1, <3>2
    <2>3. world \in [Parts -> Words] /\ world' \in [Parts -> Words] /\ world'[p] = v /\ \A q \in Parts \ {p} : world'[q] = world[q]
      BY <2>2 DEF ControlInv, ControlTypes
    <2>4. \A q \in Replaceable \cup {"qdisc"} : world'[q] \in {"off", "on", "foreign"}
      <3>1. \A q \in Replaceable \cup {"qdisc"} : world[q] \in {"off", "on", "foreign"} /\ q \in Parts
        BY OtherParts DEF ControlInv, ControlTypes
      <3>2. ASSUME NEW q \in Replaceable \cup {"qdisc"}, q # p PROVE world'[q] \in {"off", "on", "foreign"}
        BY <2>3, <3>1, <3>2
      <3>3. p \in Replaceable \cup {"qdisc"} => world'[p] \in {"off", "on", "foreign"}
        BY <2>1, <2>3
      <3> QED BY <3>2, <3>3
    <2>5. ControlTypes'
      BY <1>1, <1>5, <2>2, <2>3, <2>4 DEF ControlInv, ControlTypes
    <2>6. RecordsKnow' /\ Active(k)' /\ marker'[k].action = a
      BY <1>1, <1>2, <1>4, <2>2 DEF ControlInv, RecordsKnow, Active
    <2>7. NotesAreTaken'
      <3>1. ASSUME NEW j \in 1..Len(Script[a]), j < i + 1, Script[a][j][1] = "note" PROVE Script[a][j][2] \in marker'[k].notes
        <4>1. j < i \/ j = i
          BY <3>1
        <4> QED BY <1>9, <1>11, <2>2, <3>1, <4>1
      <3> QED BY <1>5, <1>6, <3>1 DEF NotesAreTaken
    <2>8. DamageIsRecorded'
      <3>1. job.at = "apply" /\ i \in 1..Len(Script[job.action]) /\ i = job.i /\ p = Script[job.action][i][1] /\ p # "note"
        BY <1>1, <1>2, <1>3, <1>11, <2>1
      <3>2. UNCHANGED <<baseline, marker>> /\ job'.at # "restore"
        BY <1>1, <1>5, <2>2
      <3> QED BY <2>3, <3>1, <3>2, CallDamages
    <2>9. FreshParts'
      <3>1. ASSUME NEW j \in 1..Len(Script[a]), j >= i + 1, Script[a][j][1] \in Replaceable PROVE world'[Script[a][j][1]] = "off"
        <4>1. j >= i /\ j # i
          BY <3>1
        <4>2. Script[a][j][1] # p
          <5>1. \A m \in 1..Len(Script[a]) : m # j => Script[a][m][1] # Script[a][j][1]
            BY <3>1, ScriptsCreateOnce
          <5> QED BY <2>1, <4>1, <5>1
        <4>3. Script[a][j][1] \in Parts /\ world[Script[a][j][1]] = "off"
          BY <1>9, <3>1, <4>1, OtherParts
        <4> QED BY <2>3, <4>2, <4>3
      <3> QED BY <1>1, <1>5, <1>6, <1>9, <3>1 DEF FreshParts
    <2> QED BY <1>7, <1>8, <2>5, <2>6, <2>7, <2>8, <2>9 DEF ControlInv
  <1> QED BY <1>10, <1>11

-----------------------------------------------------------------------------
(* A failed call, and the calls that restore. *)

LEMMA DamageShrinks ==
    ASSUME ControlInv, UNCHANGED marker, Damaged' \subseteq Damaged \cup {"spare"},
           job'.at = "restore" =>
              Damaged' \subseteq {Undo[job'.action][j] : j \in {n \in 1..Len(Undo[job'.action]) : n >= job'.i}} \cup {"spare"}
    PROVE  DamageIsRecorded'
  <1>1. (NoActiveFault' <=> NoActiveFault) /\ \A k \in Kinds : Active(k)' <=> Active(k)
    BY DEF NoActiveFault, Active
  <1>2. NoActiveFault' => Damaged' \subseteq {"spare"}
    BY <1>1 DEF ControlInv, DamageIsRecorded
  <1>3. \A k \in Kinds : Active(k)' =>
          /\ Damaged' \subseteq Undone(marker[k].action) \cup {"spare"}
          /\ Damaged' \cap {"qdisc", "helper"} # {} => "name" \in marker[k].notes
          /\ Damaged' \cap {"database", "client"} \subseteq marker[k].notes
    BY <1>1 DEF ControlInv, DamageIsRecorded
  <1> QED BY <1>2, <1>3 DEF DamageIsRecorded

(* A command goes on or ends: what the record says of it stays true. *)
LEMMA WorkSteps ==
    ASSUME ControlInv, job.at \in {"apply", "restore"}, UNCHANGED <<baseline, marker>>, world' \in [Parts -> Words],
           \A p \in Replaceable \cup {"qdisc"} : world'[p] \in {"off", "on", "foreign"},
           job' \in Jobs, job'.action = job.action, job'.at \in {"verify", "restore", "end"}, job'.i \in Nat \ {0},
           job'.at = "verify" => job'.i = 1, runner' \in Runners, runner'.verdict # "passed", DamageIsRecorded'
    PROVE  ControlInv'
  <1>1. ControlTypes /\ RecordsKnow /\ JobKnows /\ FreshParts
    BY DEF ControlInv
  <1>2. ControlTypes'
    BY <1>1 DEF ControlTypes
  <1>3. RecordsKnow'
    BY <1>1 DEF RecordsKnow, Active
  <1>4. job.action \in Faults /\ Active(MyKind) /\ marker[MyKind].action = job.action
    BY <1>1 DEF JobKnows
  <1>5. MyKind' = MyKind
    BY DEF MyKind
  <1>6. Active(MyKind)' /\ (marker[MyKind].action)' = job.action
    BY <1>4, <1>5 DEF Active
  <1>7. JobKnows'
    BY <1>4, <1>6 DEF JobKnows
  <1>8. NotesAreTaken' /\ VerdictKnows'
    BY DEF NotesAreTaken, VerdictKnows
  <1>9. FreshParts'
    BY <1>1 DEF FreshParts
  <1> QED BY <1>2, <1>3, <1>7, <1>8, <1>9 DEF ControlInv

LEMMA ApplyFailsKeeps == ASSUME ControlInv, ApplyFails PROVE ControlInv'
  <1>1. /\ job \in Jobs /\ runner \in Runners /\ job.at = "apply" /\ job.action \in Faults /\ job.i \in Nat \ {0}
        /\ runner.verdict # "passed" /\ UNCHANGED <<baseline, marker>> /\ job.i <= Len(Script[job.action])
    BY NotPassed DEF ApplyFails, ControlInv, ControlTypes, JobKnows, Steps
  <1>2. PICK a \in Faults : a = job.action
    BY <1>1
  <1>3. PICK i \in 1..Len(Script[a]) : i = job.i
    BY <1>1, <1>2, ScriptsAreSequences
  <1>4. Steps[job.i] = Script[a][i] /\ Script[a][i][1] # "note"
    <2>1. Steps[job.i] = Script[a][i]
      BY <1>2, <1>3 DEF Steps
    <2>2. Steps[job.i][1] # "note"
      BY Zenon DEF ApplyFails
    <2> QED BY <2>1, <2>2
  <1>5. PICK p \in Parts, v \in Words :
             /\ p = Script[a][i][1] /\ v = Script[a][i][2]
             /\ p \in Replaceable \cup {"qdisc"} => v = "on"
    BY <1>4, ScriptsAreUndone
  <1>6. PICK w : w \in {world, [world EXCEPT ![p] = v]} /\ world' = [w EXCEPT !.env = "off"]
    <2>1. \E w \in {world, [world EXCEPT ![Steps[job.i][1]] = Steps[job.i][2]]} : world' = [w EXCEPT !.env = "off"]
      BY DEF ApplyFails
    <2> QED BY <1>4, <1>5, <2>1
  <1>7. w \in [Parts -> Words] /\ (\A q \in Parts \ {p} : w[q] = world[q]) /\ w[p] \in {world[p], v} /\ world \in [Parts -> Words]
    BY <1>6 DEF ControlInv, ControlTypes
  <1>8. "off" \in Words /\ Healthy["env"] = "off" /\ "env" \in Parts /\ "env" \notin Replaceable \cup {"qdisc"}
    BY OtherParts DEF Words, Healthy, Containers, Resources
  <1>9. world' \in [Parts -> Words] /\ world'["env"] = "off" /\ \A q \in Parts \ {"env"} : world'[q] = w[q]
    BY <1>6, <1>7, <1>8
  <1>10. \A q \in Parts \ {p} : world'[q] = world[q] \/ world'[q] = Healthy[q]
    BY <1>7, <1>8, <1>9
  <1>11. \A q \in Replaceable \cup {"qdisc"} : world'[q] \in {"off", "on", "foreign"}
    <2> SUFFICES ASSUME NEW q \in Replaceable \cup {"qdisc"} PROVE world'[q] \in {"off", "on", "foreign"}
      OBVIOUS
    <2>1. q \in Parts /\ q # "env" /\ world[q] \in {"off", "on", "foreign"}
      BY <1>8, OtherParts DEF ControlInv, ControlTypes
    <2>2. world'[q] = w[q]
      BY <1>9, <2>1
    <2>3. w[q] = world[q] \/ (q = p /\ w[q] = v)
      BY <1>7, <2>1
    <2>4. q = p => v = "on"
      BY <1>5
    <2> QED BY <2>1, <2>2, <2>3, <2>4
  <1>12. PICK at \in {"end", "verify"} : job' = [job EXCEPT !.at = at, !.i = 1]
    <2>1. PICK at : at = (IF MyKind = "message" THEN "end" ELSE "verify")
      OBVIOUS
    <2>2. at \in {"end", "verify"}
      BY <2>1
    <2> QED BY <2>1, <2>2, Zenon DEF ApplyFails
  <1>13. job' \in Jobs /\ job'.at = at /\ job'.action = a /\ job'.i = 1
    <2>1. at \in JobStates
      BY <1>12 DEF JobStates
    <2> QED BY <1>1, <1>2, <1>12, <2>1, JobRestarts
  <1>14. runner' \in Runners /\ runner'.verdict # "passed"
    <2>1. runner' = [runner EXCEPT !.error = TRUE]
      BY DEF ApplyFails
    <2> QED BY <1>1, <2>1, RunnerErrs
  <1>15. DamageIsRecorded'
    <2>1. i \in 1..Len(Script[job.action]) /\ i = job.i /\ p = Script[job.action][i][1] /\ p # "note"
      BY <1>2, <1>3, <1>4, <1>5
    <2>2. job'.at # "restore"
      BY <1>12, <1>13
    <2> QED BY <1>1, <1>10, <2>1, <2>2, CallDamages
  <1> QED BY <1>1, <1>2, <1>9, <1>11, <1>12, <1>13, <1>14, <1>15, WorkSteps

(* What restore() leaves of a part is as it was before the run, or was not damaged by it. *)
LEMMA PutBackMends ==
    ASSUME ControlInv, job.at = "restore", NEW p \in Parts
    PROVE  /\ PutBack(p) \in Words
           /\ p \in Replaceable \cup {"qdisc"} => PutBack(p) \in {"off", "on", "foreign"}
           /\ p = "spare" \/ PutBack(p) = Healthy[p] \/ (PutBack(p) = world[p] /\ p \notin Damaged)
  <1>1. Active(MyKind) /\ world \in [Parts -> Words] /\ MyKind \in Kinds /\ \A q \in Replaceable \cup {"qdisc"} : world[q] \in {"off", "on", "foreign"}
    BY KindsAreKinds DEF ControlInv, ControlTypes, JobKnows, MyKind
  <1>2. /\ Damaged \cap {"qdisc", "helper"} # {} => "name" \in Notes
        /\ Damaged \cap {"database", "client"} \subseteq Notes
    BY <1>1 DEF ControlInv, DamageIsRecorded, Notes
  <1>3. \A q \in Damaged : world[q] # Healthy[q] /\ world[q] # "foreign"
    BY DEF Damaged
  <1>4. CASE p = "spare"
    <2>1. PutBack(p) = StopSpare /\ p \notin Replaceable \cup {"qdisc"}
      BY <1>4 DEF PutBack, Replaceable, Resources, Containers
    <2>2. StopSpare \in Words
      BY <1>1, <1>4 DEF StopSpare, Words
    <2> QED BY <1>4, <2>1, <2>2
  <1>5. CASE p \in {"qdisc", "helper"}
    <2>1. PutBack(p) = ClearNetem(p) /\ Healthy[p] = "off" /\ p \in Replaceable \cup {"qdisc"}
      BY <1>5 DEF PutBack, Healthy, Containers, Resources, Replaceable
    <2>2. world[p] \in {"off", "on", "foreign"}
      BY <1>1, <2>1
    <2>3. CASE "name" \in Notes /\ world[p] = "on"
      BY <2>1, <2>3 DEF ClearNetem, Words
    <2>4. CASE ~ ("name" \in Notes /\ world[p] = "on")
      <3>1. PutBack(p) = world[p]
        BY <2>1, <2>4 DEF ClearNetem
      <3>2. p \notin Damaged
        BY <1>2, <1>3, <1>5, <2>1, <2>2, <2>4
      <3> QED BY <1>1, <2>2, <3>1, <3>2
    <2> QED BY <2>3, <2>4
  <1>6. CASE p \in {"database", "client"}
    <2>1. PutBack(p) = RemoveContainer(p) /\ Healthy[p] = "off" /\ p \in Replaceable \cup {"qdisc"}
      BY <1>6 DEF PutBack, Healthy, Containers, Resources, Replaceable
    <2>2. world[p] \in {"off", "on", "foreign"}
      BY <1>1, <2>1
    <2>3. CASE p \in Notes /\ world[p] = "on"
      BY <2>1, <2>3 DEF RemoveContainer, Words
    <2>4. CASE ~ (p \in Notes /\ world[p] = "on")
      <3>1. PutBack(p) = world[p]
        BY <2>1, <2>4 DEF RemoveContainer
      <3>2. p \notin Damaged
        BY <1>2, <1>3, <1>6, <2>1, <2>2, <2>4
      <3> QED BY <1>1, <2>2, <3>1, <3>2
    <2> QED BY <2>3, <2>4
  <1>7. CASE p \in Resources
    BY <1>7 DEF PutBack, Healthy, Containers, Resources, DeleteResource, Words
  <1>8. CASE p \notin {"spare", "qdisc", "helper", "database", "client"} \cup Resources
    <2>1. PutBack(p) = Healthy[p] /\ Healthy[p] \in Words /\ p \notin Replaceable \cup {"qdisc"}
      BY <1>8 DEF PutBack, Healthy, Words, Containers, Replaceable
    <2> QED BY <2>1
  <1> QED BY <1>4, <1>5, <1>6, <1>7, <1>8

(* A part that is put back is no longer damaged. *)
LEMMA UndoMends ==
    ASSUME ControlInv, job.at = "restore", NEW p \in Parts, baseline' = baseline, world' = [world EXCEPT ![p] = PutBack(p)]
    PROVE  /\ world' \in [Parts -> Words]
           /\ \A q \in Replaceable \cup {"qdisc"} : world'[q] \in {"off", "on", "foreign"}
           /\ Damaged' \subseteq (Damaged \ {p}) \cup {"spare"}
  <1>1. world \in [Parts -> Words] /\ \A q \in Replaceable \cup {"qdisc"} : world[q] \in {"off", "on", "foreign"} /\ q \in Parts
    BY OtherParts DEF ControlInv, ControlTypes
  <1>2. /\ PutBack(p) \in Words
        /\ p \in Replaceable \cup {"qdisc"} => PutBack(p) \in {"off", "on", "foreign"}
        /\ p = "spare" \/ PutBack(p) = Healthy[p] \/ (PutBack(p) = world[p] /\ p \notin Damaged)
    BY PutBackMends
  <1>3. world' \in [Parts -> Words] /\ world'[p] = PutBack(p) /\ \A q \in Parts \ {p} : world'[q] = world[q]
    BY <1>1, <1>2
  <1>4. \A q \in Replaceable \cup {"qdisc"} : world'[q] \in {"off", "on", "foreign"}
    BY <1>1, <1>2, <1>3
  <1>5. \A q \in Parts \ {p} : q \in Damaged' => q \in Damaged
    BY <1>3 DEF Damaged
  <1>6. p # "spare" => p \notin Damaged'
    <2>1. p # "spare" => world'[p] = Healthy[p] \/ (world'[p] = world[p] /\ p \notin Damaged)
      BY <1>2, <1>3
    <2> QED BY <2>1 DEF Damaged
  <1>7. Damaged' \subseteq Parts
    BY DEF Damaged
  <1> QED BY <1>3, <1>4, <1>5, <1>6, <1>7

LEMMA UndoCallKeeps == ASSUME ControlInv, UndoCall PROVE ControlInv'
  <1>1. /\ job \in Jobs /\ runner \in Runners /\ job.at = "restore" /\ job.action \in Faults /\ job.i \in Nat \ {0}
        /\ runner.verdict # "passed" /\ UNCHANGED <<baseline, marker, runner>> /\ job.i <= Len(Undo[job.action])
    BY NotPassed DEF UndoCall, ControlInv, ControlTypes, JobKnows
  <1>2. /\ Len(Undo[job.action]) \in Nat /\ job.i \in 1..Len(Undo[job.action])
        /\ \A j \in 1..Len(Undo[job.action]) : Undo[job.action][j] \in Parts
    BY <1>1, UndoNamesParts
  <1>3. PICK p \in Parts : p = Undo[job.action][job.i]
    BY <1>2
  <1>4. world' = [world EXCEPT ![p] = PutBack(p)]
    BY <1>3, Zenon DEF UndoCall
  <1>5. /\ world' \in [Parts -> Words]
        /\ \A q \in Replaceable \cup {"qdisc"} : world'[q] \in {"off", "on", "foreign"}
        /\ Damaged' \subseteq (Damaged \ {p}) \cup {"spare"}
    BY <1>1, <1>4, UndoMends
  <1>6. job' \in Jobs /\ job'.at = "restore" /\ job'.action = job.action /\ job'.i = job.i + 1
    <2>1. job' = [job EXCEPT !.i = @ + 1]
      BY DEF UndoCall
    <2> QED BY <1>1, <2>1, JobCounts
  <1>7. DamageIsRecorded'
    <2>1. Damaged \subseteq {Undo[job.action][j] : j \in {n \in 1..Len(Undo[job.action]) : n >= job.i}} \cup {"spare"}
      BY <1>1 DEF ControlInv, DamageIsRecorded
    <2>2. ASSUME NEW q \in Damaged', q # "spare"
          PROVE  q \in {Undo[job.action][j] : j \in {n \in 1..Len(Undo[job.action]) : n >= job.i + 1}}
      <3>1. q \in Damaged /\ q # p
        BY <1>5, <2>2
      <3>2. PICK j \in 1..Len(Undo[job.action]) : j >= job.i /\ q = Undo[job.action][j]
        BY <2>1, <2>2, <3>1
      <3>3. j # job.i
        BY <1>3, <3>1, <3>2
      <3>4. j >= job.i + 1
        BY <1>1, <1>2, <3>2, <3>3
      <3> QED BY <3>2, <3>4
    <2>3. Damaged' \subseteq {Undo[job'.action][j] : j \in {n \in 1..Len(Undo[job'.action]) : n >= job'.i}} \cup {"spare"}
      BY <1>6, <2>2
    <2>4. Damaged' \subseteq Damaged \cup {"spare"}
      BY <1>5
    <2> QED BY <1>1, <2>3, <2>4, DamageShrinks
  <1>8. job'.i \in Nat \ {0}
    BY <1>1, <1>6
  <1> QED BY <1>1, <1>5, <1>6, <1>7, <1>8, WorkSteps

LEMMA RestoreFailsKeeps == ASSUME ControlInv, RestoreFails PROVE ControlInv'
  <1>1. /\ job \in Jobs /\ runner \in Runners /\ job.at = "restore" /\ job.action \in Faults /\ job.i \in Nat \ {0}
        /\ runner.verdict # "passed" /\ UNCHANGED <<baseline, marker>> /\ job.i <= Len(Undo[job.action])
    BY NotPassed DEF RestoreFails, RestoreStops, ControlInv, ControlTypes, JobKnows
  <1>2. PICK p \in Parts : p = Undo[job.action][job.i]
    <2>1. Len(Undo[job.action]) \in Nat /\ \A j \in 1..Len(Undo[job.action]) : Undo[job.action][j] \in Parts
      BY <1>1, UndoNamesParts
    <2> QED BY <1>1, <2>1
  <1>3. world' = world \/ world' = [world EXCEPT ![p] = PutBack(p)]
    <2>1. world' \in {world} \cup {[world EXCEPT ![p] = PutBack(p)] : x \in {y \in {p} : Restorable(y)}}
      BY <1>2, Zenon DEF RestoreFails
    <2> QED BY <2>1
  <1>4. /\ world' \in [Parts -> Words]
        /\ \A q \in Replaceable \cup {"qdisc"} : world'[q] \in {"off", "on", "foreign"}
        /\ Damaged' \subseteq Damaged \cup {"spare"}
    <2>1. CASE world' = world
      BY <1>1, <2>1 DEF ControlInv, ControlTypes, Damaged
    <2>2. CASE world' = [world EXCEPT ![p] = PutBack(p)]
      BY <1>1, <2>2, UndoMends
    <2> QED BY <1>3, <2>1, <2>2
  <1>5. job' \in Jobs /\ job'.at = "end" /\ job'.action = job.action /\ job'.i = job.i
    <2>1. "end" \in JobStates
      BY DEF JobStates
    <2>2. job' = [job EXCEPT !.at = "end"]
      BY DEF RestoreFails, RestoreStops
    <2> QED BY <1>1, <2>1, <2>2, JobGoes
  <1>6. runner' \in Runners /\ runner'.verdict # "passed"
    <2>1. runner' = [runner EXCEPT !.error = TRUE]
      BY DEF RestoreFails, RestoreStops
    <2> QED BY <1>1, <2>1, RunnerErrs
  <1>7. DamageIsRecorded'
    BY <1>1, <1>4, <1>5, DamageShrinks
  <1> QED BY <1>1, <1>4, <1>5, <1>6, <1>7, WorkSteps

-----------------------------------------------------------------------------
(* What happens to the stack from outside. *)

LEMMA OutsideSteps ==
    ASSUME ControlInv, UNCHANGED <<marker, job, runner>>, world' \in [Parts -> Words], baseline' \in [Parts -> Words],
           \A p \in Replaceable \cup {"qdisc"} : world'[p] \in {"off", "on", "foreign"},
           \A p \in Containers : baseline'[p] = baseline[p],
           \A p \in Replaceable : world[p] = "off" => world'[p] = "off",
           Damaged' \subseteq Damaged
    PROVE  ControlInv'
  <1>1. ControlTypes' /\ RecordsKnow' /\ JobKnows' /\ NotesAreTaken' /\ VerdictKnows'
    BY WorldSteps
  <1>2. DamageIsRecorded'
    BY NoMoreDamage
  <1>3. FreshParts'
    <2>1. FreshParts /\ Steps' = Steps
      BY DEF ControlInv, Steps
    <2> QED BY <2>1 DEF FreshParts
  <1> QED BY <1>1, <1>2, <1>3 DEF ControlInv

(* One part goes back to normal, or to somebody else. *)
LEMMA OnePartMends ==
    ASSUME ControlInv, UNCHANGED <<baseline, marker, job, runner>>, NEW p \in Parts, NEW v \in Words,
           v \in {Healthy[p], "foreign"}, p \in Replaceable \cup {"qdisc"} => v \in {"off", "foreign"},
           p \in Replaceable /\ world[p] = "off" => v = "off",
           world' = [world EXCEPT ![p] = v]
    PROVE  ControlInv'
  <1>1. /\ world \in [Parts -> Words] /\ baseline \in [Parts -> Words]
        /\ \A q \in Replaceable \cup {"qdisc"} : world[q] \in {"off", "on", "foreign"} /\ q \in Parts
    BY OtherParts DEF ControlInv, ControlTypes
  <1>2. world' \in [Parts -> Words] /\ world'[p] = v /\ \A q \in Parts \ {p} : world'[q] = world[q]
    BY <1>1
  <1>3. \A q \in Replaceable \cup {"qdisc"} : world'[q] \in {"off", "on", "foreign"}
    BY <1>1, <1>2
  <1>4. \A q \in Replaceable : world[q] = "off" => world'[q] = "off"
    BY <1>1, <1>2
  <1>5. Damaged' \subseteq Damaged
    <2>1. p \notin Damaged'
      BY <1>2 DEF Damaged
    <2> QED BY <1>2, <2>1 DEF Damaged
  <1> QED BY <1>1, <1>2, <1>3, <1>4, <1>5, OutsideSteps

LEMMA HealthyParts ==
    /\ \A p \in Replaceable \cup {"qdisc", "rowlock"} : p \in Parts /\ Healthy[p] = "off"
    /\ "target" \in Parts /\ Healthy["target"] = "up" /\ "rowlock" \notin Replaceable /\ "qdisc" \notin Replaceable
    /\ "target" \notin Replaceable \cup {"qdisc"}
  BY DEF Replaceable, Parts, Healthy, Containers, Resources

LEMMA LeaseEndsKeeps == ASSUME ControlInv, LeaseEnds PROVE ControlInv'
  <1>1. PICK p \in {"qdisc", "rowlock"} : world[p] = "on" /\ world' = [world EXCEPT ![p] = "off"]
    BY DEF LeaseEnds
  <1>2. "off" \in Words /\ UNCHANGED <<baseline, marker, job, runner>> /\ p \in Parts /\ p \notin Replaceable /\ Healthy[p] = "off"
    BY HealthyParts DEF LeaseEnds, Words
  <1> QED BY <1>1, <1>2, OnePartMends

LEMMA OutsiderKeeps == ASSUME ControlInv, Outsider PROVE ControlInv'
  <1>1. CASE \E p \in Replaceable : world[p] = "on" /\ world' = [world EXCEPT ![p] = "foreign"] /\ UNCHANGED baseline
    <2>1. PICK p \in Replaceable : world[p] = "on" /\ world' = [world EXCEPT ![p] = "foreign"] /\ UNCHANGED baseline
      BY <1>1
    <2>2. "foreign" \in Words /\ UNCHANGED <<marker, job, runner>> /\ p \in Parts
      BY HealthyParts DEF Outsider, Words
    <2> QED BY <2>1, <2>2, OnePartMends
  <1>2. CASE world' = [world EXCEPT !.target = "stopped"] /\ baseline' = [baseline EXCEPT !.target = "stopped"]
    <2>1. /\ world \in [Parts -> Words] /\ baseline \in [Parts -> Words] /\ "stopped" \in Words
          /\ \A q \in Replaceable \cup {"qdisc"} : world[q] \in {"off", "on", "foreign"} /\ q \in Parts /\ q # "target"
      BY OtherParts, HealthyParts DEF ControlInv, ControlTypes, Words
    <2>2. /\ world' \in [Parts -> Words] /\ world'["target"] = "stopped" /\ \A q \in Parts \ {"target"} : world'[q] = world[q]
      BY <1>2, <2>1, HealthyParts
    <2>3. /\ baseline' \in [Parts -> Words] /\ baseline'["target"] = "stopped" /\ \A q \in Parts \ {"target"} : baseline'[q] = baseline[q]
      BY <1>2, <2>1, HealthyParts
    <2>4. Damaged' \subseteq Damaged
      <3>1. "target" \notin Damaged'
        BY <2>2, <2>3 DEF Damaged
      <3> QED BY <2>2, <2>3, <3>1 DEF Damaged
    <2>5. \A p \in Containers : baseline'[p] = baseline[p]
      BY <2>1, <2>3 DEF Replaceable
    <2>6. /\ \A q \in Replaceable \cup {"qdisc"} : world'[q] \in {"off", "on", "foreign"}
          /\ \A q \in Replaceable : world[q] = "off" => world'[q] = "off"
      BY <2>1, <2>2
    <2>7. UNCHANGED <<marker, job, runner>>
      BY DEF Outsider
    <2> QED BY <2>2, <2>3, <2>4, <2>5, <2>6, <2>7, OutsideSteps
  <1> QED BY <1>1, <1>2 DEF Outsider, Replaceable

LEMMA OperatorRepairsKeeps == ASSUME ControlInv, OperatorRepairs PROVE ControlInv'
  <1>1. UNCHANGED <<baseline, marker, job, runner>> /\ "up" \in Words /\ "off" \in Words
    BY DEF OperatorRepairs, Words
  <1>2. CASE world' = [world EXCEPT !.target = "up"]
    BY <1>1, <1>2, HealthyParts, OnePartMends
  <1>3. CASE \E p \in Replaceable : world' = [world EXCEPT ![p] = "off"]
    <2>1. PICK p \in Replaceable : world' = [world EXCEPT ![p] = "off"]
      BY <1>3
    <2> QED BY <1>1, <2>1, HealthyParts, OnePartMends
  <1> QED BY <1>2, <1>3 DEF OperatorRepairs, Replaceable

-----------------------------------------------------------------------------
(* Every step keeps the invariant. *)

LEMMA StutterKeeps == ASSUME ControlInv, UNCHANGED vars PROVE ControlInv'
  <1>1. UNCHANGED <<world, baseline, marker, job, runner>>
    BY DEF vars
  <1>2. ControlTypes /\ \A p \in Replaceable \cup {"qdisc"} : p \in Parts
    BY OtherParts DEF ControlInv
  <1>3. Damaged' = Damaged
    BY <1>1 DEF Damaged
  <1>4. world' \in [Parts -> Words] /\ baseline' \in [Parts -> Words] /\ \A p \in Replaceable \cup {"qdisc"} : world'[p] \in {"off", "on", "foreign"}
    BY <1>1, <1>2 DEF ControlTypes
  <1> QED BY <1>1, <1>3, <1>4, OutsideSteps

LEMMA ControlStep == ASSUME ControlInv, [Next]_vars PROVE ControlInv'
  <1>1. CASE UNCHANGED vars
    BY <1>1, StutterKeeps
  <1>2. CASE Administer
    BY <1>2, AdministerKeeps
  <1>3. CASE (\E a \in Actions : StartRun(a)) \/ Recover \/ StartCleanup
    BY <1>3, StartRunKeeps, StartRecoverKeeps, StartCleanupKeeps DEF Recover
  <1>4. CASE JobStep
    BY <1>4, SaveIntentKeeps, CancelledKeeps, ApplyCallKeeps, AppliedKeeps, HoldEndsKeeps, KeepKeeps, CleanUpKeeps,
       ScenarioFailsKeeps, VerifiedKeeps, UndoCallKeeps, UnlinkKeeps, NothingToRestoreKeeps, RestoreRefusedKeeps,
       LoadEndsKeeps, JudgeKeeps, FinishKeeps DEF JobStep
  <1>5. CASE ApplyFails \/ RestoreFails \/ Interrupt \/ Crash
    BY <1>5, ApplyFailsKeeps, RestoreFailsKeeps, InterruptKeeps, CrashKeeps
  <1>6. CASE LeaseEnds \/ Outsider \/ OperatorRepairs
    BY <1>6, LeaseEndsKeeps, OutsiderKeeps, OperatorRepairsKeeps
  <1> QED BY <1>1, <1>2, <1>3, <1>4, <1>5, <1>6 DEF Next, Administer

(***************************************************************************)
(* The tools keep their invariant for every set of faults, any number of   *)
(* runs, failures, kills and outside changes: sim_engine.py, advanced.py,  *)
(* messages.py, manage.py.                                                 *)
(***************************************************************************)
THEOREM ControlInvariant == Spec => []ControlInv
  BY ControlInit, ControlStep, PTL DEF Spec

LEMMA VerdictOfInv == ASSUME ControlInv PROVE VerdictIsHonest
  BY DEF ControlInv, VerdictKnows, DamageIsRecorded, VerdictIsHonest

(* A simulation that reports "passed" applied its fault and left the stack restored: Runner.run. *)
THEOREM VerdictStaysHonest == Spec => []VerdictIsHonest
  BY ControlInvariant, VerdictOfInv, PTL

(* A record comes only with Runner.fault, Disposable.begin, Session.create or "messages cleanup". *)
LEMMA RecordsOpen ==
    ASSUME ControlInv, [Next]_vars, NoActiveFault, ~ NoActiveFault'
    PROVE  SaveIntent \/ StartCleanup
  <1>1. marker' # marker
    BY DEF NoActiveFault, Active
  <1>2. SaveIntent \/ StartCleanup \/ ApplyCall \/ Keep \/ Unlink
    <2>1. ~ (\E state \in {"up", "stopped"} : StopOrResume(state)) /\ ~ (\E m \in {"normal", "redis-spare"} : Experiment(m))
      BY <1>1 DEF StopOrResume, Experiment
    <2>2. ~ Up /\ ~ Down /\ ~ Recover /\ ~ (\E a \in Actions : StartRun(a))
      BY <1>1 DEF Up, Down, Recover, StartRecover, StartRun
    <2>3. ~ ApplyFails /\ ~ RestoreFails /\ ~ Interrupt /\ ~ Crash /\ ~ LeaseEnds /\ ~ Outsider /\ ~ OperatorRepairs
      BY <1>1, Zenon DEF ApplyFails, RestoreFails, RestoreStops, Interrupt, Crash, LeaseEnds, Outsider, OperatorRepairs
    <2>4. ~ Cancelled /\ ~ Applied /\ ~ HoldEnds /\ ~ CleanUp /\ ~ ScenarioFails /\ ~ Verified /\ ~ UndoCall
      BY <1>1, Zenon DEF Cancelled, Applied, HoldEnds, CleanUp, ScenarioFails, Verified, UndoCall
    <2>5. ~ NothingToRestore /\ ~ RestoreRefused /\ ~ LoadEnds /\ ~ Judge /\ ~ Finish
      BY <1>1, Zenon DEF NothingToRestore, RestoreRefused, RestoreStops, LoadEnds, Judge, Finish
    <2>6. ~ UNCHANGED vars
      BY <1>1 DEF vars
    <2> QED BY <2>1, <2>2, <2>3, <2>4, <2>5, <2>6 DEF Next, JobStep
  <1>3. ~ Active(MyKind)
    BY KindsAreKinds DEF NoActiveFault, MyKind
  <1>4. ~ ApplyCall /\ ~ Keep /\ ~ Unlink
    <2>1. job.at \notin {"apply", "decide", "restore"}
      BY <1>3 DEF ControlInv, JobKnows
    <2> QED BY <2>1, Zenon DEF ApplyCall, Keep, Unlink
  <1> QED BY <1>2, <1>4

LEMMA JournalInit == Init => Journal!Init
  <1> SUFFICES ASSUME Init PROVE Journal!Init
    OBVIOUS
  <1>1. NoActiveFault
    BY DEF Init, NoActiveFault, Active
  <1>2. Damaged = {}
    BY DEF Init, Damaged
  <1> QED BY <1>1, <1>2 DEF Journal!Init

LEMMA JournalStep ==
    ASSUME ControlInv, ControlInv', [Next]_vars
    PROVE  Journal!Next \/ UNCHANGED <<~ NoActiveFault, Damaged>>
  <1>1. Damaged \subseteq Parts /\ Damaged' \subseteq Parts
    BY DEF Damaged
  <1>2. NoActiveFault' => Damaged' \subseteq {"spare"}
    BY DEF ControlInv, DamageIsRecorded
  <1>3. NoActiveFault /\ ~ NoActiveFault' => Damaged' \subseteq {"spare"}
    <2> SUFFICES ASSUME NoActiveFault, ~ NoActiveFault' PROVE Damaged' \subseteq {"spare"}
      OBVIOUS
    <2>1. Damaged \subseteq {"spare"}
      BY DEF ControlInv, DamageIsRecorded
    <2>2. CASE SaveIntent
      <3>1. marker' # marker
        BY DEF NoActiveFault, Active
      <3>2. world' = world /\ baseline' = world
        BY <2>2, <3>1 DEF SaveIntent
      <3> QED BY <3>2 DEF Damaged
    <2>3. CASE StartCleanup
      BY <2>1, <2>3 DEF StartCleanup, Damaged
    <2> QED BY <2>2, <2>3, RecordsOpen
  <1> QED BY <1>1, <1>2, <1>3 DEF Journal!Next, Journal!Open, Journal!Change, Journal!Settle, Journal!Close

(***************************************************************************)
(* The three kinds of tools together implement FaultJournal: no kill, no   *)
(* failed call and no outside change leaves damage that no record names.   *)
(***************************************************************************)
THEOREM ToolsKeepTheirJournal == Spec => JournalSpec
  <1>1. ControlInv /\ ControlInv' /\ [Next]_vars => Journal!Next \/ UNCHANGED <<~ NoActiveFault, Damaged>>
    BY JournalStep
  <1> QED BY <1>1, JournalInit, ControlInvariant, PTL DEF Spec, JournalSpec, Journal!Spec, Journal!vars

-----------------------------------------------------------------------------
(* What somebody else put in the place of a part stays. *)

LEMMA ForeignApply ==
    ASSUME ControlInv, ApplyCall \/ ApplyFails, NEW p \in Replaceable, world[p] = "foreign"
    PROVE  world'[p] = "foreign"
  <1>1. /\ job.action \in Faults /\ job.at = "apply" /\ job.i \in 1..Len(Script[job.action])
        /\ world \in [Parts -> Words] /\ p \in Parts /\ p # "env"
    <2>1. job.action \in Faults /\ job.at = "apply" /\ job.i \in Nat \ {0} /\ job.i <= Len(Script[job.action])
      BY DEF ApplyCall, ApplyFails, ControlInv, JobKnows, Steps
    <2>2. Len(Script[job.action]) \in Nat
      BY <2>1, ScriptsAreSequences
    <2>3. world \in [Parts -> Words] /\ p \in Parts /\ p # "env"
      BY OtherParts DEF ControlInv, ControlTypes
    <2> QED BY <2>1, <2>2, <2>3
  <1>2. PICK q, v : q = Steps[job.i][1] /\ v = Steps[job.i][2]
    OBVIOUS
  <1>3. q # p
    <2>1. Steps[job.i][1] \in Replaceable => world[Steps[job.i][1]] = "off"
      BY <1>1 DEF ControlInv, FreshParts, Steps
    <2> QED BY <1>2, <2>1
  <1>4. \E w \in {world, [world EXCEPT ![q] = v]} : world' = w \/ world' = [w EXCEPT !.env = "off"]
    <2>1. CASE ApplyCall
      <3>1. world' = world \/ world' = [world EXCEPT ![Steps[job.i][1]] = Steps[job.i][2]]
        BY <2>1 DEF ApplyCall
      <3> QED BY <1>2, <3>1
    <2>2. CASE ApplyFails
      <3>1. \E w \in {world, [world EXCEPT ![Steps[job.i][1]] = Steps[job.i][2]]} : world' = [w EXCEPT !.env = "off"]
        BY <2>2 DEF ApplyFails
      <3> QED BY <1>2, <3>1
    <2> QED BY <2>1, <2>2
  <1>5. PICK w \in {world, [world EXCEPT ![q] = v]} : world' = w \/ world' = [w EXCEPT !.env = "off"]
    BY <1>4
  <1>6. w[p] = world[p] /\ DOMAIN w = Parts
    BY <1>1, <1>3, <1>5
  <1>7. world'[p] = w[p]
    BY <1>1, <1>5, <1>6
  <1> QED BY <1>6, <1>7

LEMMA ForeignRestore ==
    ASSUME ControlInv, UndoCall \/ RestoreFails, NEW p \in Replaceable, world[p] = "foreign"
    PROVE  world'[p] = "foreign"
  <1>1. world \in [Parts -> Words] /\ p \in Parts
    BY OtherParts DEF ControlInv, ControlTypes
  <1>2. PICK q : q = Undo[job.action][job.i]
    OBVIOUS
  <1>3. world' = world \/ (Restorable(q) /\ world' = [world EXCEPT ![q] = PutBack(q)])
    <2>1. CASE UndoCall
      BY <1>2, <2>1, Zenon DEF UndoCall
    <2>2. CASE RestoreFails
      <3>1. world' \in {world} \cup {[world EXCEPT ![q] = PutBack(q)] : x \in {y \in {q} : Restorable(y)}}
        BY <1>2, <2>2, Zenon DEF RestoreFails
      <3> QED BY <3>1
    <2> QED BY <2>1, <2>2
  <1>4. CASE world' = world
    BY <1>4
  <1>5. CASE Restorable(q) /\ world' = [world EXCEPT ![q] = PutBack(q)] /\ q # p
    BY <1>1, <1>5
  <1>6. CASE Restorable(q) /\ world' = [world EXCEPT ![q] = PutBack(q)] /\ q = p
    <2>1. p = "helper" /\ ~ ("name" \in Notes)
      BY <1>6 DEF Restorable, Refuses, RefusesNetem, Replaceable, Containers, Resources
    <2>2. PutBack(p) = world[p]
      BY <2>1 DEF PutBack, ClearNetem, Resources
    <2> QED BY <1>1, <1>6, <2>2
  <1> QED BY <1>3, <1>4, <1>5, <1>6

LEMMA ForeignStays ==
    ASSUME ControlInv, [Next]_vars, NEW p \in Replaceable, world[p] = "foreign", ~ OperatorRepairs
    PROVE  world'[p] = "foreign"
  <1>1. CASE UNCHANGED world
    BY <1>1
  <1>2. CASE Administer
    <2>1. PICK w \in [Parts -> Words] : Chosen(w) /\ \A q \in Replaceable \cup {"qdisc"} : w[q] = world[q]
      BY <1>2, AdministerChooses, Zenon
    <2> QED BY <2>1 DEF Chosen
  <1>3. CASE ApplyCall \/ ApplyFails
    BY <1>3, ForeignApply
  <1>4. CASE UndoCall \/ RestoreFails
    BY <1>4, ForeignRestore
  <1>5. world \in [Parts -> Words] /\ p \in Parts /\ p \notin {"target", "rowlock", "qdisc"}
    BY OtherParts, HealthyParts DEF ControlInv, ControlTypes
  <1>6. CASE LeaseEnds
    <2>1. PICK q \in {"qdisc", "rowlock"} : world' = [world EXCEPT ![q] = "off"]
      BY <1>6 DEF LeaseEnds
    <2> QED BY <1>5, <2>1
  <1>7. CASE Outsider
    <2>1. CASE \E q \in Replaceable : world' = [world EXCEPT ![q] = "foreign"]
      <3>1. PICK q \in Replaceable : world' = [world EXCEPT ![q] = "foreign"]
        BY <2>1
      <3> QED BY <1>5, <3>1
    <2>2. CASE world' = [world EXCEPT !.target = "stopped"]
      BY <1>5, <2>2
    <2> QED BY <1>7, <2>1, <2>2 DEF Outsider, Replaceable
  <1>8. UNCHANGED world \/ Administer \/ ApplyCall \/ ApplyFails \/ UndoCall \/ RestoreFails \/ LeaseEnds \/ Outsider
    <2>1. CASE Recover \/ (\E a \in Actions : StartRun(a)) \/ StartCleanup \/ Interrupt \/ Crash \/ UNCHANGED vars
      BY <2>1 DEF Recover, StartRecover, StartRun, StartCleanup, Interrupt, Crash, vars
    <2>2. CASE SaveIntent \/ Cancelled \/ Applied \/ HoldEnds \/ Keep \/ CleanUp \/ ScenarioFails \/ Verified
      BY <2>2 DEF SaveIntent, Cancelled, Applied, HoldEnds, Keep, CleanUp, ScenarioFails, Verified
    <2>3. CASE Unlink \/ NothingToRestore \/ RestoreRefused \/ LoadEnds \/ Judge \/ Finish
      BY <2>3 DEF Unlink, NothingToRestore, RestoreRefused, LoadEnds, Judge, Finish
    <2> QED BY <2>1, <2>2, <2>3 DEF Next, JobStep, Administer
  <1> QED BY <1>1, <1>2, <1>3, <1>4, <1>6, <1>7, <1>8

LEMMA AllForeignStay ==
    ASSUME ControlInv, [Next]_vars
    PROVE  \A p \in Containers \cup Resources : world[p] = "foreign" => world'[p] = "foreign" \/ OperatorRepairs
  BY ForeignStays DEF Replaceable

(***************************************************************************)
(* No step of a tool touches what somebody else put in the place of a      *)
(* container, topic or index: inspect_owned, verify_resources, netem.      *)
(***************************************************************************)
THEOREM ForeignStaysUntouched == Spec => ForeignUntouched
  <1>1. ControlInv /\ [Next]_vars
          => \A p \in Containers \cup Resources : world[p] = "foreign" => world'[p] = "foreign" \/ OperatorRepairs
    BY AllForeignStay
  <1> QED BY <1>1, ControlInvariant, PTL DEF Spec, ForeignUntouched
=============================================================================
