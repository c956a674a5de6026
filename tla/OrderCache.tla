------------------------------ MODULE OrderCache ------------------------------
(***************************************************************************)
(* The Redis copy of one order: Storefront.detail fills it, Storefront.update *)
(* and core.project_one delete it (src/mvp-lab/mvp_app/core.py), Redis       *)
(* expires it (adapters.Cache.put, ex=cache_ttl), and inspect_order           *)
(* (inspection.py) compares it with SQL.  Every Redis call may fail; the code *)
(* goes on without it.                                                        *)
(*                                                                            *)
(* db       committed version of the order in SQL                             *)
(* entry    cached version, 0 when there is none; ttl its remaining life      *)
(* since    ticks since each version was superseded, counted up to Horizon    *)
(* step       reader threads: "idle", "sql", "fill"; held the row a reader took  *)
(*          from SQL, age the ticks it has been holding it                    *)
(* owed     updates whose invalidate() call is still to come                  *)
(* events   versions whose event the consumer has not committed               *)
(* look     the inspector: reads SQL, Redis and SQL again                     *)
(******************************************************************************)
EXTENDS Integers

CONSTANTS Readers,      \* threads serving GET /api/orders/<id>
          LastVersion,  \* bound: versions of the order
          Ttl,          \* CACHE_TTL in ticks
          FillTime      \* longest time from the SQL read to the Redis SET

ASSUME CacheAssumption ==
    LastVersion \in Nat \ {0} /\ Ttl \in Nat \ {0} /\ FillTime \in Nat

VARIABLES db, entry, ttl, since, step, held, age, owed, events, look

reader == <<step, held, age>>
cacheVars == <<db, entry, ttl, since, reader, owed, events, look>>

Versions == 1..LastVersion
Horizon == FillTime + Ttl + 1

NotLooking == [at |-> "idle", first |-> 0, seen |-> 0, equal |-> FALSE, verdict |-> "none"]

CacheInit ==
    /\ db = 1 /\ entry = 0 /\ ttl = 0
    /\ since = [v \in Versions |-> 0]
    /\ step = [r \in Readers |-> "idle"]
    /\ held = [r \in Readers |-> 0]
    /\ age = [r \in Readers |-> 0]
    /\ owed = {} /\ events = {}
    /\ look = NotLooking

(* Altered: a hit renews the entry's life. *)
CacheHitRenews(r) ==
    /\ step[r] = "idle"
    /\ entry # 0
    /\ ttl' = Ttl
    /\ UNCHANGED <<db, entry, since, reader, owed, events, look>>

(* detail: a valid hit answers and changes nothing; a miss, an error or fresh=1 goes to SQL. *)
CacheHit(r) ==
    /\ step[r] = "idle"
    /\ entry # 0
    /\ UNCHANGED cacheVars

CacheMiss(r) ==
    /\ step[r] = "idle"
    /\ step' = [step EXCEPT ![r] = "sql"]
    /\ UNCHANGED <<db, entry, ttl, since, held, age, owed, events, look>>

(* detail: repo.get *)
ReadSql(r) ==
    /\ step[r] = "sql"
    /\ held' = [held EXCEPT ![r] = db]
    /\ age' = [age EXCEPT ![r] = 0]
    /\ step' = [step EXCEPT ![r] = "fill"]
    /\ UNCHANGED <<db, entry, ttl, since, owed, events, look>>

Answered(r) ==
    /\ step' = [step EXCEPT ![r] = "idle"]
    /\ held' = [held EXCEPT ![r] = 0]
    /\ age' = [age EXCEPT ![r] = 0]

(* detail: cache.put with a new life of Ttl, or a swallowed error. *)
Fill(r) ==
    /\ step[r] = "fill"
    /\ entry' = held[r] /\ ttl' = Ttl
    /\ Answered(r)
    /\ UNCHANGED <<db, since, owed, events, look>>

FillFails(r) ==
    /\ step[r] = "fill"
    /\ Answered(r)
    /\ UNCHANGED <<db, entry, ttl, since, owed, events, look>>

(* update: the commit; the invalidation and the event are still to come. *)
CommitUpdate ==
    /\ db < LastVersion
    /\ db' = db + 1
    /\ owed' = owed \cup {db + 1}
    /\ events' = events \cup {db + 1}
    /\ UNCHANGED <<entry, ttl, since, reader, look>>

Delete == entry' = 0 /\ ttl' = 0

(* update: invalidate() after the commit; an error, or a crash of the API, skips it. *)
Invalidate(v) ==
    /\ v \in owed
    /\ owed' = owed \ {v}
    /\ Delete \/ UNCHANGED <<entry, ttl>>
    /\ UNCHANGED <<db, since, reader, events, look>>

(* project_one: cache.delete before the commit; an uncommitted event comes again. *)
ProjectorDelete(v) ==
    /\ v \in events
    /\ events' \in {events, events \ {v}}
    /\ Delete \/ UNCHANGED <<entry, ttl>>
    /\ UNCHANGED <<db, since, reader, owed, look>>

(* inspect_order: first SQL read, Redis read, second SQL read and verdict; *)
(* a read that fails makes it unknown.                                    *)
InspectFirst ==
    /\ look.at = "idle"
    /\ look' = [NotLooking EXCEPT !.at = "cache", !.first = db]
    /\ UNCHANGED <<db, entry, ttl, since, reader, owed, events>>

InspectCache ==
    /\ look.at = "cache"
    /\ look' = [look EXCEPT !.at = "last", !.seen = entry, !.equal = (entry = db)]
    /\ UNCHANGED <<db, entry, ttl, since, reader, owed, events>>

(* Altered: the first SQL read is not compared. *)
VerdictUnfenced(first, seen, last) ==
    IF seen = 0 THEN "missing" ELSE IF seen = last THEN "match" ELSE "mismatch"

Verdict(first, seen, last) ==
    IF first # last THEN "unknown"
    ELSE IF seen = 0 THEN "missing"
    ELSE IF seen = last THEN "match" ELSE "mismatch"

InspectLast ==
    /\ look.at = "last"
    /\ \E verdict \in {Verdict(look.first, look.seen, db), "unknown"} :
          look' = [look EXCEPT !.at = "done", !.verdict = verdict]
    /\ UNCHANGED <<db, entry, ttl, since, reader, owed, events>>

InspectDone ==
    /\ look.at = "done"
    /\ look' = NotLooking
    /\ UNCHANGED <<db, entry, ttl, since, reader, owed, events>>

(* One tick; socket and SQL timeouts end a fill within FillTime ticks. *)
Tick ==
    /\ \A r \in Readers : step[r] = "fill" => age[r] < FillTime
    /\ since' = [v \in Versions |-> IF v < db /\ since[v] < Horizon THEN since[v] + 1 ELSE since[v]]
    /\ age' = [r \in Readers |-> IF step[r] = "fill" THEN age[r] + 1 ELSE age[r]]
    /\ ttl' = IF ttl > 0 THEN ttl - 1 ELSE 0
    /\ entry' = IF ttl > 1 THEN entry ELSE 0
    /\ UNCHANGED <<db, step, held, owed, events, look>>

ReaderStep(r) == ReadSql(r) \/ Fill(r) \/ FillFails(r)

CacheNext ==
    \/ \E r \in Readers : CacheHit(r) \/ CacheMiss(r) \/ ReaderStep(r)
    \/ CommitUpdate
    \/ \E v \in Versions : Invalidate(v) \/ ProjectorDelete(v)
    \/ InspectFirst \/ InspectCache \/ InspectLast \/ InspectDone
    \/ Tick

CacheSpec == CacheInit /\ [][CacheNext]_cacheVars

-----------------------------------------------------------------------------
(* Every variable has its type. *)
CacheTypeOK ==
    /\ db \in Versions /\ entry \in 0..LastVersion /\ ttl \in 0..Ttl
    /\ (entry = 0) <=> (ttl = 0)
    /\ since \in [Versions -> 0..Horizon]
    /\ step \in [Readers -> {"idle", "sql", "fill"}]
    /\ held \in [Readers -> 0..LastVersion]
    /\ age \in [Readers -> 0..FillTime]
    /\ owed \subseteq Versions /\ events \subseteq Versions
    /\ look \in [at : {"idle", "cache", "last", "done"}, first : 0..LastVersion, seen : 0..LastVersion,
                 equal : BOOLEAN, verdict : {"none", "unknown", "missing", "match", "mismatch"}]

(***************************************************************************)
(* A stale answer is bounded however a slow fill, lost invalidations and   *)
(* new writes interleave: the version Redis serves was current at most     *)
(* FillTime plus the age of the entry ago, so never longer than            *)
(* FillTime + Ttl ("TTL provides a bounded best-effort repair window").    *)
(***************************************************************************)
StalenessIsBounded ==
    entry # 0 /\ entry < db => since[entry] <= FillTime + (Ttl - ttl)

(***************************************************************************)
(* The unatomic inspection never lies: when it calls the copy a match (a    *)
(* mismatch) the copy did (did not) equal SQL when Redis was read.         *)
(***************************************************************************)
InspectionIsSound ==
    /\ look.verdict = "match" => look.equal
    /\ look.verdict = "mismatch" => ~ look.equal
=============================================================================
