---------------------------- MODULE OrderPipeline ----------------------------
(***************************************************************************)
(* The worker of src/mvp-lab/mvp_app (worker.py, core.relay_once,          *)
(* core.project_one) between the outbox, the one-partition Kafka topic and *)
(* the Elasticsearch index, and admin.rebuild running beside it.  Writers  *)
(* are the atomic commits of OrderLedger.                                  *)
(*                                                                         *)
(* sent      outbox rows whose sent_at is set                              *)
(* log       the Kafka partition                                           *)
(* late      produce requests given up by the client that the broker may   *)
(*           still append                                                  *)
(* relay     relay thread: "idle", "publish" or "mark"; relaySeq its row   *)
(* consumer  consumer thread: "closed", "poll", "put", "check", "commit";  *)
(*           position is the offset it reads next                          *)
(* committed the group's committed offset                                  *)
(* es        documents of the search index, id -> snapshot                 *)
(* rebuild   "idle", "scan", "put", "check"; last and rows are the scan's   *)
(*           cursor and current page, fresh: no index loss since it began  *)
(* lost      the index was lost and no complete rebuild has followed       *)
(* faults    failures so far                                               *)
(***************************************************************************)
EXTENDS OrderLedger, Sequences

CONSTANTS PageSize,    \* rows per page of SQL.scan (200 in the code)
          MaxFaults    \* bound: failures of a dependency or of the worker

ASSUME PipelineAssumption ==
    /\ OrderIds \subseteq Nat \ {0}
    /\ IsFiniteSet(OrderIds)
    /\ PageSize \in Nat \ {0}
    /\ MaxFaults \in Nat

VARIABLES sent, log, late, relay, relaySeq, consumer, position, committed,
          es, rebuild, last, rows, fresh, lost, faults

relayvars == <<sent, log, late, relay, relaySeq>>
consumervars == <<consumer, position, committed>>
rebuildvars == <<rebuild, last, rows, fresh>>
vars == <<ledger, relayvars, consumervars, es, rebuildvars, lost, faults>>

Init ==
    /\ LedgerInit
    /\ sent = {} /\ log = <<>> /\ late = {}
    /\ relay = "idle" /\ relaySeq = 0
    /\ consumer = "closed" /\ position = 0 /\ committed = 0
    /\ es = <<>> /\ lost = FALSE
    /\ rebuild = "idle" /\ last = 0 /\ rows = <<>> /\ fresh = TRUE
    /\ faults = 0

(* A call that returned, or raised, has no local state left. *)
RelayIdle == relay' = "idle" /\ relaySeq' = 0
ConsumerClosed == consumer' = "closed" /\ position' = 0
RebuildIdle == rebuild' = "idle" /\ last' = 0 /\ rows' = <<>> /\ fresh' = TRUE

(* Something fails: a timeout, a refused connection, a killed process. *)
Fault == faults < MaxFaults /\ faults' = faults + 1

(* API writers. *)
Write ==
    /\ LedgerNext
    /\ UNCHANGED <<relayvars, consumervars, es, rebuildvars, lost, faults>>

-----------------------------------------------------------------------------
(* The relay loop. *)

Pending == DOMAIN outbox \ sent

(* Altered: no ORDER BY seq. *)
RelayReadAny ==
    /\ relay = "idle"
    /\ \E s \in Pending : relaySeq' = s
    /\ relay' = "publish"
    /\ UNCHANGED <<ledger, sent, log, late, consumervars, es, rebuildvars, lost, faults>>

(* pending_one: the lowest unsent row that is visible now. *)
RelayRead ==
    /\ relay = "idle"
    /\ \E s \in Pending :
          /\ \A t \in Pending : s <= t
          /\ relaySeq' = s
    /\ relay' = "publish"
    /\ UNCHANGED <<ledger, sent, log, late, consumervars, es, rebuildvars, lost, faults>>

(* publish: the broker appended the event and the acknowledgement arrived. *)
Publish ==
    /\ relay = "publish"
    /\ log' = Append(log, outbox[relaySeq])
    /\ relay' = "mark"
    /\ UNCHANGED <<ledger, sent, late, relaySeq, consumervars, es, rebuildvars, lost, faults>>

(* publish raises: not delivered, delivered but unacknowledged, or still on its way. *)
PublishFails ==
    /\ Fault
    /\ relay = "publish"
    /\ \/ UNCHANGED <<log, late>>
       \/ log' = Append(log, outbox[relaySeq]) /\ UNCHANGED late
       \/ late' = late \cup {outbox[relaySeq]} /\ UNCHANGED log
    /\ RelayIdle
    /\ UNCHANGED <<ledger, sent, consumervars, es, rebuildvars, lost>>

LateArrival ==
    /\ \E e \in late : log' = Append(log, e) /\ late' = late \ {e}
    /\ UNCHANGED <<ledger, sent, relay, relaySeq, consumervars, es, rebuildvars, lost, faults>>

MarkSent ==
    /\ relay = "mark"
    /\ sent' = sent \cup {relaySeq}
    /\ RelayIdle
    /\ UNCHANGED <<ledger, log, late, consumervars, es, rebuildvars, lost, faults>>

(* mark_sent raises, with or without the update: the row may be published again. *)
MarkFails ==
    /\ Fault
    /\ relay = "mark"
    /\ sent' \in {sent, sent \cup {relaySeq}}
    /\ RelayIdle
    /\ UNCHANGED <<ledger, log, late, consumervars, es, rebuildvars, lost>>

-----------------------------------------------------------------------------
(* Search.index: a PUT fenced by the external version, then a GET on 409. *)

(* Altered: a PUT without version_type=external. *)
AcceptsAlways(doc) == TRUE

Accepts(doc) == doc.id \in DOMAIN es => es[doc.id].version < doc.version

Store(doc) == es' = Bind(es, doc.id, doc)

(* The GET shows a newer document or the same one; otherwise index() raises. *)
Settled(doc) ==
    /\ doc.id \in DOMAIN es
    /\ es[doc.id].version > doc.version \/ es[doc.id] = doc

-----------------------------------------------------------------------------
(* The consumer loop. *)

Message == log[position + 1]

(* Altered: auto.offset.reset to the end, and no committed offset used. *)
JoinAtEnd ==
    /\ consumer = "closed"
    /\ consumer' = "poll"
    /\ position' = Len(log)
    /\ UNCHANGED <<ledger, relayvars, committed, es, rebuildvars, lost, faults>>

Join ==
    /\ consumer = "closed"
    /\ consumer' = "poll"
    /\ position' = committed
    /\ UNCHANGED <<ledger, relayvars, committed, es, rebuildvars, lost, faults>>

Poll ==
    /\ consumer = "poll"
    /\ position < Len(log)
    /\ consumer' = "put"
    /\ UNCHANGED <<ledger, relayvars, position, committed, es, rebuildvars, lost, faults>>

ProjectPut ==
    /\ consumer = "put"
    /\ \/ Accepts(Message) /\ Store(Message) /\ consumer' = "commit"
       \/ ~ Accepts(Message) /\ consumer' = "check" /\ UNCHANGED es
    /\ UNCHANGED <<ledger, relayvars, position, committed, rebuildvars, lost, faults>>

ProjectCheck ==
    /\ consumer = "check"
    /\ \/ Settled(Message) /\ consumer' = "commit" /\ UNCHANGED position
       \/ ~ Settled(Message) /\ ConsumerClosed
    /\ UNCHANGED <<ledger, relayvars, committed, es, rebuildvars, lost, faults>>

Acknowledge ==
    /\ consumer = "commit"
    /\ committed' = position + 1
    /\ position' = position + 1
    /\ consumer' = "poll"
    /\ UNCHANGED <<ledger, relayvars, es, rebuildvars, lost, faults>>

(* Altered: closing commits the message that failed (enable.auto.commit). *)
ConsumerFailsCommitting ==
    /\ Fault
    /\ consumer \in {"put", "check", "commit"}
    /\ ConsumerClosed
    /\ committed' = position + 1
    /\ UNCHANGED <<ledger, relayvars, es, rebuildvars, lost>>

(* Any exception: close without commit; the failed call may have had its effect. *)
ConsumerFails ==
    /\ Fault
    /\ consumer # "closed"
    /\ ConsumerClosed
    /\ \/ UNCHANGED <<es, committed>>
       \/ consumer = "put" /\ Accepts(Message) /\ Store(Message) /\ UNCHANGED committed
       \/ consumer = "commit" /\ committed' = position + 1 /\ UNCHANGED es
    /\ UNCHANGED <<ledger, relayvars, rebuildvars, lost>>

(* The worker process dies with both threads; a produce request may be on its way. *)
WorkerCrash ==
    /\ Fault
    /\ RelayIdle /\ ConsumerClosed
    /\ \/ UNCHANGED late
       \/ relay = "publish" /\ late' = late \cup {outbox[relaySeq]}
    /\ UNCHANGED <<ledger, sent, log, committed, es, rebuildvars, lost>>

-----------------------------------------------------------------------------
(* admin rebuild-search. *)

(* Ids above the cursor, and the PageSize smallest of them. *)
Above(cursor) == {id \in DOMAIN orders : id > cursor}
Page(cursor) == {id \in Above(cursor) : Cardinality({j \in Above(cursor) : j < id}) < PageSize}

RebuildStart ==
    /\ rebuild = "idle"
    /\ rebuild' = "scan" /\ last' = 0 /\ rows' = <<>> /\ fresh' = TRUE
    /\ UNCHANGED <<ledger, relayvars, consumervars, es, lost, faults>>

ReadPage ==
    /\ rebuild = "scan"
    /\ Above(last) # {}
    /\ rows' = [id \in Page(last) |-> envelope(id, orders[id])]
    /\ \E id \in Page(last) : (\A j \in Page(last) : j <= id) /\ last' = id
    /\ rebuild' = "put"
    /\ UNCHANGED <<ledger, relayvars, consumervars, es, fresh, lost, faults>>

(* The scan is exhausted: the index again holds what SQL held at the start. *)
RebuildDone ==
    /\ rebuild = "scan"
    /\ Above(last) = {}
    /\ RebuildIdle
    /\ lost' = (lost /\ ~ fresh)
    /\ UNCHANGED <<ledger, relayvars, consumervars, es, faults>>

IsNextRow(id) == id \in DOMAIN rows /\ \A j \in DOMAIN rows : id <= j

RowDone(id) ==
    /\ rows' = [j \in DOMAIN rows \ {id} |-> rows[j]]
    /\ rebuild' = IF DOMAIN rows = {id} THEN "scan" ELSE "put"

RebuildPut ==
    /\ rebuild = "put"
    /\ \E id \in DOMAIN rows :
          /\ IsNextRow(id)
          /\ \/ Accepts(rows[id]) /\ Store(rows[id]) /\ RowDone(id)
             \/ ~ Accepts(rows[id]) /\ rebuild' = "check" /\ UNCHANGED <<es, rows>>
    /\ UNCHANGED <<ledger, relayvars, consumervars, last, fresh, lost, faults>>

RebuildCheck ==
    /\ rebuild = "check"
    /\ \E id \in DOMAIN rows :
          /\ IsNextRow(id)
          /\ \/ Settled(rows[id]) /\ RowDone(id) /\ UNCHANGED <<last, fresh>>
             \/ ~ Settled(rows[id]) /\ RebuildIdle
    /\ UNCHANGED <<ledger, relayvars, consumervars, es, lost, faults>>

(* rebuild raises, or the admin process is killed. *)
RebuildFails ==
    /\ Fault
    /\ rebuild # "idle"
    /\ RebuildIdle
    /\ \/ UNCHANGED es
       \/ rebuild = "put" /\ \E id \in DOMAIN rows :
             IsNextRow(id) /\ Accepts(rows[id]) /\ Store(rows[id])
    /\ UNCHANGED <<ledger, relayvars, consumervars, lost>>

(* The search container loses its index; the next index() creates an empty one. *)
LoseIndex ==
    /\ Fault
    /\ es' = <<>>
    /\ lost' = TRUE
    /\ fresh' = (rebuild = "idle")
    /\ UNCHANGED <<ledger, relayvars, consumervars, rebuild, last, rows>>

-----------------------------------------------------------------------------
RelayStep == RelayRead \/ Publish \/ MarkSent
ConsumerStep == Join \/ Poll \/ ProjectPut \/ ProjectCheck \/ Acknowledge
RebuildStep == ReadPage \/ RebuildPut \/ RebuildCheck \/ RebuildDone

Next ==
    \/ Write
    \/ RelayStep \/ PublishFails \/ LateArrival \/ MarkFails
    \/ ConsumerStep \/ ConsumerFails
    \/ WorkerCrash
    \/ RebuildStart \/ RebuildStep \/ RebuildFails
    \/ LoseIndex

Spec == Init /\ [][Next]_vars

(* Both loops of the worker retry for ever; nobody is obliged to write or rebuild. *)
FairSpec == Spec /\ WF_vars(RelayStep) /\ WF_vars(ConsumerStep)

-----------------------------------------------------------------------------
(* Every variable has its type. *)
TypeOK ==
    /\ LedgerTypeOK
    /\ sent \subseteq DOMAIN outbox
    /\ log \in Seq(Event)
    /\ late \subseteq Event
    /\ relay \in {"idle", "publish", "mark"}
    /\ relay # "idle" => relaySeq \in DOMAIN outbox
    /\ consumer \in {"closed", "poll", "put", "check", "commit"}
    /\ position \in 0..Len(log)
    /\ consumer \in {"put", "check", "commit"} => position < Len(log)
    /\ committed \in 0..Len(log)
    /\ DOMAIN es \subseteq OrderIds
    /\ es \in [DOMAIN es -> Event]
    /\ rebuild \in {"idle", "scan", "put", "check"}
    /\ last \in Nat
    /\ DOMAIN rows \subseteq OrderIds
    /\ rows \in [DOMAIN rows -> Event]
    /\ fresh \in BOOLEAN /\ lost \in BOOLEAN
    /\ faults \in 0..MaxFaults

(* What SQL ever committed about orders. *)
History == {outbox[s] : s \in DOMAIN outbox}

Logged(e) == \E i \in 1..Len(log) : log[i] = e

(* Snapshots whose PUT was refused and that are about to be compared. *)
Checked ==
    (IF consumer = "check" THEN {Message} ELSE {})
    \cup (IF rebuild = "check" THEN {rows[id] : id \in {i \in DOMAIN rows : IsNextRow(i)}} ELSE {})

(* The documents show the event's order in its version or a newer one. *)
Covers(docs, e) == e.id \in DOMAIN docs /\ docs[e.id].version >= e.version

(***************************************************************************)
(* relay_once marks a row only after the delivery acknowledgement: whatever *)
(* crashes between publish and mark_sent, a row with sent_at is on the topic. *)
(***************************************************************************)
SentIsLogged == \A s \in sent : Logged(outbox[s])

(***************************************************************************)
(* Duplicates and late appends are possible, gaps are not: an event of     *)
(* version v > 1 is on the topic only after the event of version v - 1.    *)
(***************************************************************************)
FirstDeliveryInOrder ==
    \A i \in 1..Len(log) : log[i].version > 1 =>
        \E j \in 1..(i - 1) : log[j].id = log[i].id /\ log[j].version = log[i].version - 1

(***************************************************************************)
(* "NEVER advance past a failed ES write" (project_one): every event below *)
(* the committed offset is in the index, in its version or a newer one;    *)
(* after a loss of the index again once a rebuild begun later has finished. *)
(***************************************************************************)
CheckpointIsProjected ==
    ~ lost => \A i \in 1..committed : Covers(es, log[i])

(***************************************************************************)
(* Search never shows what SQL did not commit: each document is a snapshot *)
(* of its order at some version not above the current one, whoever of the  *)
(* consumer and the rebuild wrote it last.                                 *)
(***************************************************************************)
SearchFollowsSql ==
    \A id \in DOMAIN es :
        /\ es[id] \in History
        /\ id \in DOMAIN orders /\ es[id].id = id
        /\ es[id].version <= orders[id].version

(***************************************************************************)
(* The version fence never meets two contents of one version, so the       *)
(* consumer is never blocked for good by event_version_payload_conflict;   *)
(* and index() settles every 409 unless the index was lost under it.       *)
(***************************************************************************)
NoPayloadConflict ==
    \A doc \in Checked :
        /\ doc.id \in DOMAIN es /\ es[doc.id].version = doc.version => es[doc.id] = doc
        /\ ~ lost => Settled(doc)

(***************************************************************************)
(* A document goes back to an older version only when the index is lost,   *)
(* although the consumer replays and the rebuild writes old snapshots.     *)
(***************************************************************************)
VersionsNeverGoBack ==
    [][\/ es' = <<>>
       \/ \A id \in DOMAIN es : id \in DOMAIN es' /\ es'[id].version >= es[id].version]_vars

(***************************************************************************)
(* Once writes and failures have stopped, search agrees with SQL for ever  *)
(* (unless the index was lost and not rebuilt).                            *)
(***************************************************************************)
EventuallySearchable ==
    <>[](lost \/ \A id \in DOMAIN orders :
                    id \in DOMAIN es /\ es[id] = envelope(id, orders[id]))
=============================================================================
