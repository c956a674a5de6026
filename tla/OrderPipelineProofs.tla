------------------------- MODULE OrderPipelineProofs -------------------------
(***************************************************************************)
(* The safety properties of OrderPipeline for every number of orders,      *)
(* events, failures and rows per page; and, in the second half, of the     *)
(* simulator that watches the pipeline from outside (SimAudit), for every  *)
(* number of workers, operations and failures.                             *)
(***************************************************************************)
EXTENDS OrderPipeline, OrderLedgerProofs, SimAudit, SequenceTheorems, FiniteSetTheorems, WellFoundedInduction

(* What appending to the partition does. *)
LEMMA LogAppend ==
    ASSUME NEW e \in Event, log \in Seq(Event), log' = Append(log, e)
    PROVE  /\ log' \in Seq(Event)
           /\ Len(log) \in Nat /\ Len(log') = Len(log) + 1
           /\ \A i \in 1..Len(log) : log'[i] = log[i]
           /\ log'[Len(log) + 1] = e
OBVIOUS

(* A fenced PUT stores one document. *)
LEMMA StoreTypes ==
    ASSUME NEW doc \in Event, Store(doc), DOMAIN es \subseteq OrderIds, es \in [DOMAIN es -> Event]
    PROVE  /\ DOMAIN es' \subseteq OrderIds /\ es' \in [DOMAIN es' -> Event]
           /\ DOMAIN es' = DOMAIN es \cup {doc.id} /\ es'[doc.id] = doc
           /\ \A id \in DOMAIN es : id # doc.id => es'[id] = es[id]
<1>1. doc.id \in OrderIds
  BY DEF Event
<1>2. es' = [x \in DOMAIN es \cup {doc.id} |-> IF x = doc.id THEN doc ELSE es[x]]
  BY DEF Store, Bind
<1>3. \A x \in DOMAIN es \cup {doc.id} : (IF x = doc.id THEN doc ELSE es[x]) \in Event
  OBVIOUS
<1> QED
  BY <1>1, <1>2, <1>3

(* The ledger only grows: rows stay, versions rise, events are immutable. *)
LEMMA LedgerGrows ==
    ASSUME LedgerTypeOK, [LedgerNext]_ledger
    PROVE  /\ DOMAIN orders \subseteq DOMAIN orders'
           /\ \A id \in DOMAIN orders : orders'[id].version >= orders[id].version
           /\ DOMAIN outbox \subseteq DOMAIN outbox'
           /\ \A s \in DOMAIN outbox : outbox'[s] = outbox[s]
<1>0. \A id \in DOMAIN orders : orders[id] \in Order /\ orders[id].version \in Nat
  BY DEF LedgerTypeOK, Order
<1>1. ASSUME NEW id \in OrderIds, NEW seq \in Seqs, NEW order, Save(id, order, seq),
             id \in DOMAIN orders => order.version >= orders[id].version
      PROVE  /\ DOMAIN orders \subseteq DOMAIN orders'
             /\ \A i \in DOMAIN orders : orders'[i].version >= orders[i].version
             /\ DOMAIN outbox \subseteq DOMAIN outbox'
             /\ \A s \in DOMAIN outbox : outbox'[s] = outbox[s]
  BY <1>0, <1>1 DEF Save, Bind
<1>2. ASSUME NEW id \in OrderIds, NEW seq \in Seqs, NEW key \in Keys, NEW data \in Data,
             CommitCreate(id, key, data, seq)
      PROVE  id \notin DOMAIN orders /\ Save(id, new_order(key, data), seq)
  BY <1>2 DEF CommitCreate
<1>3. ASSUME NEW id \in OrderIds, NEW seq \in Seqs, NEW status \in Statuses,
             CommitUpdate(id, status, seq)
      PROVE  /\ Save(id, transition(orders[id], status), seq)
             /\ transition(orders[id], status).version >= orders[id].version
  BY <1>0, <1>3 DEF CommitUpdate, transition
<1>4. CASE UNCHANGED ledger
  BY <1>0, <1>4 DEF ledger
<1> QED
  BY <1>1, <1>2, <1>3, <1>4 DEF LedgerNext

-----------------------------------------------------------------------------
(* Type correctness. *)
LEMMA TypeOKInitial == Init => TypeOK
<1> SUFFICES ASSUME Init PROVE TypeOK
  OBVIOUS
<1>1. LedgerTypeOK
  BY LedgerInitial DEF Init
<1>2. es = [x \in {} |-> 0] /\ DOMAIN es = {} /\ rows = [x \in {} |-> 0] /\ DOMAIN rows = {}
  BY DEF Init
<1>3. log \in Seq(Event) /\ Len(log) = 0
  BY DEF Init
<1>4. es \in [DOMAIN es -> Event] /\ rows \in [DOMAIN rows -> Event]
  BY <1>2
<1>5. fresh \in BOOLEAN /\ lost \in BOOLEAN
  BY DEF Init
<1>6. position \in 0..Len(log) /\ committed \in 0..Len(log) /\ faults \in 0..MaxFaults /\ last \in Nat
  BY <1>3, PipelineAssumption DEF Init
<1> QED
  BY <1>1, <1>2, <1>3, <1>4, <1>5, <1>6 DEF Init, TypeOK

(* What the relay is about to publish is an event. *)
LEMMA RowIsEvent == TypeOK /\ relay # "idle" => outbox[relaySeq] \in Event
BY DEF TypeOK, LedgerTypeOK

(* The message the consumer holds is an event of the partition. *)
LEMMA MessageIsEvent == TypeOK /\ consumer \in {"put", "check", "commit"} => Message \in Event /\ position + 1 \in 1..Len(log)
<1> SUFFICES ASSUME TypeOK, consumer \in {"put", "check", "commit"}
             PROVE  Message \in Event /\ position + 1 \in 1..Len(log)
  OBVIOUS
<1>1. log \in Seq(Event) /\ Len(log) \in Nat /\ position \in Nat /\ position < Len(log)
  BY DEF TypeOK
<1>2. position + 1 \in 1..Len(log)
  BY <1>1
<1> QED
  BY <1>1, <1>2 DEF Message

(* The documents of a page are snapshots of committed rows. *)
LEMMA EnvelopeIsEvent ==
    ASSUME LedgerTypeOK, NEW id \in DOMAIN orders
    PROVE  envelope(id, orders[id]) \in Event
BY DEF LedgerTypeOK, envelope, Order, Event

(* Every step of the worker, the rebuild and the writers keeps the types. *)
LEMMA TypeOKKept == TypeOK /\ [Next]_vars => TypeOK'
<1> SUFFICES ASSUME TypeOK, [Next]_vars PROVE TypeOK'
  OBVIOUS
<1>0. log \in Seq(Event) /\ Len(log) \in Nat /\ position \in Nat /\ committed \in Nat
  BY DEF TypeOK
<1>1. CASE Write
  <2>1. LedgerTypeOK'
    BY <1>1, LedgerTypesKept DEF Write, TypeOK
  <2>2. DOMAIN outbox \subseteq DOMAIN outbox'
    BY <1>1, LedgerGrows DEF Write, TypeOK
  <2> QED
    BY <1>1, <2>1, <2>2 DEF Write, TypeOK, relayvars, consumervars, rebuildvars
<1>2. CASE RelayRead
  BY <1>2 DEF RelayRead, Pending, TypeOK, LedgerTypeOK, ledger, consumervars, rebuildvars
<1>3. CASE Publish
  <2>1. log' \in Seq(Event) /\ Len(log') = Len(log) + 1
    BY <1>3, RowIsEvent, LogAppend DEF Publish, TypeOK
  <2> QED
    BY <1>0, <1>3, <2>1 DEF Publish, TypeOK, LedgerTypeOK, ledger, consumervars, rebuildvars
<1>4. CASE PublishFails
  <2>1. /\ log' \in Seq(Event) /\ Len(log') \in Nat /\ Len(log') >= Len(log)
        /\ late' \subseteq Event
    BY <1>0, <1>4, RowIsEvent, LogAppend DEF PublishFails, TypeOK
  <2> QED
    BY <1>0, <1>4, <2>1, PipelineAssumption
    DEF PublishFails, Fault, RelayIdle, TypeOK, LedgerTypeOK, ledger, consumervars, rebuildvars
<1>5. CASE LateArrival
  <2>1. /\ log' \in Seq(Event) /\ Len(log') = Len(log) + 1
        /\ late' \subseteq Event
    BY <1>5, LogAppend DEF LateArrival, TypeOK
  <2> QED
    BY <1>0, <1>5, <2>1 DEF LateArrival, TypeOK, LedgerTypeOK, ledger, consumervars, rebuildvars
<1>6. CASE MarkSent
  BY <1>6 DEF MarkSent, RelayIdle, TypeOK, LedgerTypeOK, ledger, consumervars, rebuildvars
<1>7. CASE MarkFails
  BY <1>7, PipelineAssumption
  DEF MarkFails, Fault, RelayIdle, TypeOK, LedgerTypeOK, ledger, consumervars, rebuildvars
<1>8. CASE Join
  BY <1>0, <1>8 DEF Join, TypeOK, LedgerTypeOK, ledger, relayvars, rebuildvars
<1>9. CASE Poll
  BY <1>0, <1>9 DEF Poll, TypeOK, LedgerTypeOK, ledger, relayvars, rebuildvars
<1>10. CASE ProjectPut
  <2>1. DOMAIN es' \subseteq OrderIds /\ es' \in [DOMAIN es' -> Event]
    BY <1>10, MessageIsEvent, StoreTypes DEF ProjectPut, TypeOK
  <2> QED
    BY <1>10, <2>1 DEF ProjectPut, TypeOK, LedgerTypeOK, ledger, relayvars, rebuildvars
<1>11. CASE ProjectCheck
  BY <1>0, <1>11 DEF ProjectCheck, ConsumerClosed, TypeOK, LedgerTypeOK, ledger, relayvars, rebuildvars
<1>12. CASE Acknowledge
  BY <1>0, <1>12 DEF Acknowledge, TypeOK, LedgerTypeOK, ledger, relayvars, rebuildvars
<1>13. CASE ConsumerFails
  <2>1. DOMAIN es' \subseteq OrderIds /\ es' \in [DOMAIN es' -> Event]
    BY <1>13, MessageIsEvent, StoreTypes DEF ConsumerFails, TypeOK
  <2>2. committed' \in 0..Len(log)
    BY <1>0, <1>13 DEF ConsumerFails, TypeOK
  <2> QED
    BY <1>0, <1>13, <2>1, <2>2, PipelineAssumption
    DEF ConsumerFails, Fault, ConsumerClosed, TypeOK, LedgerTypeOK, ledger, relayvars, rebuildvars
<1>14. CASE WorkerCrash
  <2>1. late' \subseteq Event
    BY <1>14, RowIsEvent DEF WorkerCrash, TypeOK
  <2> QED
    BY <1>0, <1>14, <2>1, PipelineAssumption
    DEF WorkerCrash, Fault, RelayIdle, ConsumerClosed, TypeOK, LedgerTypeOK, ledger, rebuildvars
<1>15. CASE RebuildStart
  <2>1. rows' = [x \in {} |-> 0] /\ DOMAIN rows' = {}
    BY <1>15 DEF RebuildStart
  <2> QED
    BY <1>15, <2>1 DEF RebuildStart, TypeOK, LedgerTypeOK, ledger, relayvars, consumervars
<1>16. CASE ReadPage
  <2>1. DOMAIN rows' = Page(last) /\ DOMAIN rows' \subseteq DOMAIN orders
    BY <1>16 DEF ReadPage, Page, Above
  <2>2. rows' \in [DOMAIN rows' -> Event]
    BY <1>16, <2>1, EnvelopeIsEvent DEF ReadPage, TypeOK
  <2>3. last' \in Nat
    BY <1>16, <2>1, PipelineAssumption DEF ReadPage, TypeOK, LedgerTypeOK
  <2> QED
    BY <1>16, <2>1, <2>2, <2>3 DEF ReadPage, TypeOK, LedgerTypeOK, ledger, relayvars, consumervars
<1>17. CASE RebuildDone
  <2>1. rows' = [x \in {} |-> 0] /\ DOMAIN rows' = {}
    BY <1>17 DEF RebuildDone, RebuildIdle
  <2> QED
    BY <1>17, <2>1 DEF RebuildDone, RebuildIdle, TypeOK, LedgerTypeOK, ledger, relayvars, consumervars
<1>18. CASE RebuildPut
  <2>1. PICK id \in DOMAIN rows :
          \/ Accepts(rows[id]) /\ Store(rows[id]) /\ RowDone(id)
          \/ ~ Accepts(rows[id]) /\ rebuild' = "check" /\ UNCHANGED <<es, rows>>
    BY <1>18 DEF RebuildPut
  <2>2. DOMAIN es' \subseteq OrderIds /\ es' \in [DOMAIN es' -> Event]
    BY <2>1, StoreTypes DEF TypeOK
  <2>3. /\ DOMAIN rows' \subseteq OrderIds /\ rows' \in [DOMAIN rows' -> Event]
        /\ rebuild' \in {"scan", "put", "check"}
    BY <2>1 DEF RowDone, TypeOK
  <2> QED
    BY <1>18, <2>2, <2>3 DEF RebuildPut, TypeOK, LedgerTypeOK, ledger, relayvars, consumervars
<1>19. CASE RebuildCheck
  <2>1. PICK id \in DOMAIN rows :
          \/ RowDone(id) /\ UNCHANGED <<last, fresh>>
          \/ RebuildIdle
    BY <1>19 DEF RebuildCheck
  <2>2. CASE RowDone(id) /\ UNCHANGED <<last, fresh>>
    BY <1>19, <2>2 DEF RebuildCheck, RowDone, TypeOK, LedgerTypeOK, ledger, relayvars, consumervars
  <2>3. CASE RebuildIdle
    <3>1. rows' = [x \in {} |-> 0] /\ DOMAIN rows' = {}
      BY <2>3 DEF RebuildIdle
    <3> QED
      BY <1>19, <2>3, <3>1 DEF RebuildCheck, RebuildIdle, TypeOK, LedgerTypeOK, ledger, relayvars, consumervars
  <2> QED
    BY <2>1, <2>2, <2>3
<1>20. CASE RebuildFails
  <2>1. rows' = [x \in {} |-> 0] /\ DOMAIN rows' = {}
    BY <1>20 DEF RebuildFails, RebuildIdle
  <2>2. DOMAIN es' \subseteq OrderIds /\ es' \in [DOMAIN es' -> Event]
    BY <1>20, StoreTypes DEF RebuildFails, TypeOK
  <2> QED
    BY <1>20, <2>1, <2>2, PipelineAssumption
    DEF RebuildFails, Fault, RebuildIdle, TypeOK, LedgerTypeOK, ledger, relayvars, consumervars
<1>21. CASE LoseIndex
  <2>1. es' = [x \in {} |-> 0] /\ DOMAIN es' = {}
    BY <1>21 DEF LoseIndex
  <2> QED
    BY <1>21, <2>1, PipelineAssumption
    DEF LoseIndex, Fault, TypeOK, LedgerTypeOK, ledger, relayvars, consumervars
<1>22. CASE UNCHANGED vars
  BY <1>22 DEF vars, TypeOK, LedgerTypeOK, ledger, relayvars, consumervars, rebuildvars
<1> QED
  BY <1>1, <1>2, <1>3, <1>4, <1>5, <1>6, <1>7, <1>8, <1>9, <1>10, <1>11, <1>12, <1>13, <1>14,
     <1>15, <1>16, <1>17, <1>18, <1>19, <1>20, <1>21, <1>22
  DEF Next, RelayStep, ConsumerStep, RebuildStep

(***************************************************************************)
(* Every variable of the pipeline keeps its type.                          *)
(***************************************************************************)
THEOREM PipelineTypes == Spec => []TypeOK
<1> QED
  BY TypeOKInitial, TypeOKKept, PTL DEF Spec

-----------------------------------------------------------------------------
(* The inductive invariant, in three parts. *)

(* An event that may be appended without leaving a gap in its order's history. *)
Ready(e) ==
    /\ e \in History
    /\ e.version > 1 => \E j \in 1..Len(log) : log[j].id = e.id /\ log[j].version = e.version - 1

(* From the outbox to the topic. *)
DeliveryInv ==
    /\ SentIsLogged
    /\ relay = "mark" => Logged(outbox[relaySeq])
    /\ relay # "idle" => Ready(outbox[relaySeq])
    /\ \A e \in late : Ready(e)
    /\ \A i \in 1..Len(log) : log[i] \in History
    /\ FirstDeliveryInOrder

(* Documents, and the rows the rebuild is about to write, are history. *)
SearchInv ==
    /\ SearchFollowsSql
    /\ \A id \in DOMAIN rows : rows[id] \in History /\ rows[id].id = id

(* Offsets the group has committed or is entitled to commit. *)
Claimed == 1..committed \cup (IF consumer \in {"check", "commit"} THEN {position + 1} ELSE {})

(* A rebuild with this cursor and page has yet to write the event's order. *)
Awaits(cursor, page, e) == e.id > cursor \/ Covers(page, e)

(* From the topic to the index. *)
ProjectionInv ==
    /\ consumer # "closed" => position = committed
    /\ rebuild \in {"idle", "scan"} => DOMAIN rows = {}
    /\ \A i \in Claimed :
          /\ ~ lost => Covers(es, log[i])
          /\ rebuild # "idle" /\ fresh => Covers(es, log[i]) \/ Awaits(last, rows, log[i])
    /\ rebuild = "check" /\ ~ lost =>
          \A id \in DOMAIN rows : IsNextRow(id) => Covers(es, rows[id])

Inv == TypeOK /\ OutboxIsHistory /\ DeliveryInv /\ SearchInv /\ ProjectionInv

-----------------------------------------------------------------------------
(* History is bounded by the orders table, and one version has one content. *)
LEMMA HistoryFacts ==
    ASSUME LedgerTypeOK, OutboxIsHistory
    PROVE  /\ \A e \in History : /\ e \in Event /\ e.version \in Nat \ {0}
                                /\ e.id \in DOMAIN orders /\ e.version <= orders[e.id].version
           /\ \A e, f \in History : e.id = f.id /\ e.version = f.version => e = f
           /\ \A id \in DOMAIN orders : envelope(id, orders[id]) \in History
<1>1. ASSUME NEW s \in DOMAIN outbox
      PROVE  /\ outbox[s] \in Event /\ outbox[s].version \in Nat \ {0} /\ s \in Nat
             /\ outbox[s].id \in DOMAIN orders /\ s \in SeqsOf(outbox[s].id)
             /\ orders[outbox[s].id].version \in Nat
    BY MaxSeqAssumption DEF LedgerTypeOK, OutboxIsHistory, SeqsOf, Event, Order, Seqs
<1>2. ASSUME NEW s \in DOMAIN outbox
      PROVE  outbox[s].version <= orders[outbox[s].id].version
  <2>1. outbox[s].version \in 1..orders[outbox[s].id].version
    BY <1>1 DEF OutboxIsHistory
  <2> QED
    BY <2>1, <1>1
<1>3. ASSUME NEW s \in DOMAIN outbox, NEW t \in DOMAIN outbox,
             outbox[s].id = outbox[t].id, outbox[s].version = outbox[t].version
      PROVE  s = t
  <2>1. s \in SeqsOf(outbox[s].id) /\ t \in SeqsOf(outbox[s].id) /\ outbox[s].id \in DOMAIN orders
    BY <1>1, <1>3
  <2>2. ~ (s < t) /\ ~ (t < s)
    BY <2>1, <1>3, <1>1 DEF OutboxIsHistory
  <2> QED
    BY <2>2, <1>1
<1>4. ASSUME NEW id \in DOMAIN orders
      PROVE  envelope(id, orders[id]) \in History
  <2>1. orders[id].version \in Nat \ {0}
    BY DEF LedgerTypeOK, Order
  <2>2. orders[id].version \in {outbox[s].version : s \in SeqsOf(id)}
    BY <2>1 DEF OutboxIsHistory
  <2>3. PICK s \in SeqsOf(id) : outbox[s].version = orders[id].version
    BY <2>2
  <2> QED
    BY <2>3 DEF OutboxIsHistory, History, SeqsOf
<1> QED
  BY <1>1, <1>2, <1>3, <1>4 DEF History

(* Commits add to history and take nothing away. *)
LEMMA HistoryGrows ==
    ASSUME LedgerTypeOK, [LedgerNext]_ledger
    PROVE  History \subseteq History'
BY LedgerGrows DEF History

(* Appending a ready event keeps the topic free of gaps. *)
LEMMA AppendReady ==
    ASSUME TypeOK, NEW e \in Event, Ready(e), log' = Append(log, e), UNCHANGED ledger,
           \A i \in 1..Len(log) : log[i] \in History, FirstDeliveryInOrder
    PROVE  /\ \A i \in 1..Len(log') : log'[i] \in History'
           /\ FirstDeliveryInOrder'
           /\ \A f : Logged(f) => Logged(f)'
           /\ \A f : Ready(f) => Ready(f)'
           /\ Logged(e)'
<1>1. /\ Len(log) \in Nat /\ Len(log') = Len(log) + 1
      /\ \A i \in 1..Len(log) : log'[i] = log[i]
      /\ log'[Len(log) + 1] = e
  BY LogAppend DEF TypeOK
<1>2. History' = History
  BY DEF History, ledger
<1>3. \A i \in 1..Len(log') : i \in 1..Len(log) \/ (i = Len(log) + 1 /\ log'[i] = e)
  BY <1>1
<1>4. \A i \in 1..Len(log') : log'[i] \in History'
  BY <1>1, <1>2, <1>3 DEF Ready
<1>5. \A f : Logged(f) => Logged(f)'
  BY <1>1 DEF Logged
<1>6. \A f : Ready(f) => Ready(f)'
  BY <1>1, <1>2 DEF Ready
<1>7. Logged(e)'
  BY <1>1 DEF Logged
<1>8. ASSUME NEW i \in 1..Len(log'), log'[i].version > 1
      PROVE  \E j \in 1..(i - 1) : log'[j].id = log'[i].id /\ log'[j].version = log'[i].version - 1
  <2>1. CASE i \in 1..Len(log)
    <3>1. PICK j \in 1..(i - 1) : log[j].id = log[i].id /\ log[j].version = log[i].version - 1
      BY <1>1, <1>8, <2>1 DEF FirstDeliveryInOrder
    <3>2. j \in 1..Len(log)
      BY <1>1, <2>1
    <3> QED
      BY <1>1, <2>1, <3>1, <3>2
  <2>2. CASE i = Len(log) + 1
    <3>1. PICK j \in 1..Len(log) : log[j].id = e.id /\ log[j].version = e.version - 1
      BY <1>1, <1>8, <2>2 DEF Ready
    <3> QED
      BY <1>1, <2>2, <3>1
  <2> QED
    BY <1>3, <2>1, <2>2
<1>9. FirstDeliveryInOrder'
  BY <1>8 DEF FirstDeliveryInOrder
<1> QED
  BY <1>4, <1>5, <1>6, <1>7, <1>9

(* The lowest unsent event is ready: its predecessor was sent, hence logged. *)
LEMMA LowestIsReady ==
    ASSUME TypeOK, OutboxIsHistory, SentIsLogged,
           NEW s \in Pending, \A t \in Pending : s <= t
    PROVE  Ready(outbox[s])
<1>1. s \in DOMAIN outbox /\ outbox[s] \in History /\ LedgerTypeOK
  BY DEF Pending, History, TypeOK
<1>2. outbox[s].version \in Nat \ {0} /\ outbox[s].id \in DOMAIN orders
      /\ outbox[s].version <= orders[outbox[s].id].version /\ orders[outbox[s].id].version \in Nat
  BY <1>1, HistoryFacts DEF LedgerTypeOK, Order
<1>3. ASSUME outbox[s].version > 1
      PROVE  \E j \in 1..Len(log) : log[j].id = outbox[s].id /\ log[j].version = outbox[s].version - 1
  <2> DEFINE id == outbox[s].id
  <2>1. outbox[s].version - 1 \in 1..orders[id].version
    BY <1>2, <1>3
  <2>2. outbox[s].version - 1 \in {outbox[t].version : t \in SeqsOf(id)}
    BY <1>2, <2>1 DEF OutboxIsHistory
  <2>3. PICK t \in SeqsOf(id) : outbox[t].version = outbox[s].version - 1
    BY <2>2
  <2>4. t \in DOMAIN outbox /\ outbox[t].id = id /\ s \in SeqsOf(id)
    BY <1>1, <2>3 DEF SeqsOf
  <2>5. s \in Nat /\ t \in Nat /\ s # t
    BY <1>1, <1>2, <2>3, <2>4, MaxSeqAssumption DEF LedgerTypeOK, Seqs
  <2>6. ~ (s < t)
    BY <1>2, <2>3, <2>4 DEF OutboxIsHistory
  <2>7. t \in sent
    BY <2>4, <2>5, <2>6 DEF Pending
  <2> QED
    BY <2>3, <2>4, <2>7 DEF SentIsLogged, Logged
<1> QED
  BY <1>1, <1>3 DEF Ready

(* Relay, late appends and crashes keep the delivery invariant. *)
LEMMA DeliveryKept ==
    TypeOK /\ OutboxIsHistory /\ DeliveryInv /\ [Next]_vars => DeliveryInv'
<1> SUFFICES ASSUME TypeOK, OutboxIsHistory, DeliveryInv, [Next]_vars PROVE DeliveryInv'
  OBVIOUS
<1> USE DEF DeliveryInv
<1>0. relay # "idle" => relaySeq \in DOMAIN outbox /\ outbox[relaySeq] \in Event
  BY RowIsEvent DEF TypeOK
<1>1. CASE Write
  <2>1. History \subseteq History' /\ (\A s \in DOMAIN outbox : outbox'[s] = outbox[s])
    BY <1>1, HistoryGrows, LedgerGrows DEF Write, TypeOK
  <2>2. UNCHANGED <<sent, log, late, relay, relaySeq>>
    BY <1>1 DEF Write, relayvars
  <2>3. SentIsLogged'
    BY <2>1, <2>2 DEF SentIsLogged, Logged, TypeOK
  <2>4. \A e : Ready(e) => Ready(e)'
    BY <2>1, <2>2 DEF Ready
  <2>5. FirstDeliveryInOrder' /\ (\A e : Logged(e)' <=> Logged(e))
    BY <2>2 DEF FirstDeliveryInOrder, Logged
  <2> QED
    BY <1>0, <2>1, <2>2, <2>3, <2>4, <2>5
<1>2. CASE RelayRead
  <2>1. PICK s \in Pending : (\A t \in Pending : s <= t) /\ relaySeq' = s
    BY <1>2 DEF RelayRead
  <2>2. Ready(outbox[s])
    BY <2>1, LowestIsReady
  <2>3. relay' = "publish" /\ UNCHANGED <<orders, outbox, sent, log, late>>
    BY <1>2 DEF RelayRead, ledger
  <2> QED
    BY <2>1, <2>2, <2>3 DEF Ready, History, Logged, SentIsLogged, FirstDeliveryInOrder
<1>3. CASE Publish
  <2>1. /\ log' = Append(log, outbox[relaySeq]) /\ relay = "publish" /\ relay' = "mark"
        /\ UNCHANGED <<orders, outbox, sent, late, relaySeq>> /\ UNCHANGED ledger
    BY <1>3 DEF Publish, ledger
  <2>2. /\ \A i \in 1..Len(log') : log'[i] \in History'
        /\ FirstDeliveryInOrder'
        /\ \A f : Logged(f) => Logged(f)'
        /\ \A f : Ready(f) => Ready(f)'
        /\ Logged(outbox[relaySeq])'
    BY <1>0, <2>1, AppendReady
  <2> QED
    BY <2>1, <2>2 DEF SentIsLogged
<1>4. CASE PublishFails
  <2>1. /\ relay = "publish" /\ relay' = "idle" /\ UNCHANGED <<orders, outbox, sent>> /\ UNCHANGED ledger
    BY <1>4 DEF PublishFails, RelayIdle, ledger
  <2>2. CASE UNCHANGED log /\ late' \subseteq late \cup {outbox[relaySeq]}
    BY <2>1, <2>2 DEF Ready, History, Logged, SentIsLogged, FirstDeliveryInOrder
  <2>3. CASE log' = Append(log, outbox[relaySeq]) /\ UNCHANGED late
    <3>1. /\ \A i \in 1..Len(log') : log'[i] \in History'
          /\ FirstDeliveryInOrder'
          /\ \A f : Logged(f) => Logged(f)'
          /\ \A f : Ready(f) => Ready(f)'
      BY <1>0, <2>1, <2>3, AppendReady
    <3> QED
      BY <2>1, <2>3, <3>1 DEF SentIsLogged
  <2> QED
    BY <1>4, <2>2, <2>3 DEF PublishFails
<1>5. CASE LateArrival
  <2>1. PICK e \in late : log' = Append(log, e) /\ late' = late \ {e}
    BY <1>5 DEF LateArrival
  <2>2. UNCHANGED <<orders, outbox, sent, relay, relaySeq>> /\ UNCHANGED ledger /\ e \in Event
    BY <1>5, <2>1 DEF LateArrival, ledger, TypeOK
  <2>3. /\ \A i \in 1..Len(log') : log'[i] \in History'
        /\ FirstDeliveryInOrder'
        /\ \A f : Logged(f) => Logged(f)'
        /\ \A f : Ready(f) => Ready(f)'
    BY <2>1, <2>2, AppendReady
  <2> QED
    BY <2>1, <2>2, <2>3 DEF SentIsLogged
<1>6. CASE MarkSent \/ MarkFails
  <2>1. /\ relay = "mark" /\ relay' = "idle" /\ sent' \subseteq sent \cup {relaySeq}
        /\ UNCHANGED <<orders, outbox, log, late>>
    BY <1>6 DEF MarkSent, MarkFails, RelayIdle, ledger
  <2> QED
    BY <2>1 DEF Ready, History, Logged, SentIsLogged, FirstDeliveryInOrder
<1>7. CASE WorkerCrash
  <2>1. /\ relay' = "idle" /\ UNCHANGED <<orders, outbox, log, sent>>
        /\ late' \subseteq late \cup (IF relay = "publish" THEN {outbox[relaySeq]} ELSE {})
    BY <1>7 DEF WorkerCrash, RelayIdle, ledger
  <2> QED
    BY <2>1 DEF Ready, History, Logged, SentIsLogged, FirstDeliveryInOrder
<1>8. CASE UNCHANGED <<ledger, relayvars>>
  BY <1>8 DEF ledger, relayvars, Ready, History, Logged, SentIsLogged, FirstDeliveryInOrder
<1>9. CASE ConsumerStep \/ ConsumerFails \/ RebuildStart \/ RebuildStep \/ RebuildFails \/ LoseIndex
           \/ UNCHANGED vars
  BY <1>8, <1>9 DEF ConsumerStep, Join, Poll, ProjectPut, ProjectCheck, Acknowledge, ConsumerFails,
     RebuildStart, RebuildStep, ReadPage, RebuildPut, RebuildCheck, RebuildDone, RebuildFails,
     LoseIndex, vars
<1> QED
  BY <1>1, <1>2, <1>3, <1>4, <1>5, <1>6, <1>7, <1>9 DEF Next, RelayStep

-----------------------------------------------------------------------------
(* The index changes only by an accepted PUT of a known snapshot, or by its loss. *)
Putting(doc) ==
    \/ consumer = "put" /\ doc = Message
    \/ rebuild = "put" /\ \E id \in DOMAIN rows : doc = rows[id]

(* The index changes only by a fenced PUT of Putting, or by being lost. *)
LEMMA IndexSteps ==
    ASSUME [Next]_vars
    PROVE  \/ UNCHANGED es
           \/ \E doc : Putting(doc) /\ Accepts(doc) /\ Store(doc) /\ UNCHANGED <<orders, outbox>>
           \/ LoseIndex
<1>1. CASE Write \/ RelayStep \/ PublishFails \/ LateArrival \/ MarkFails \/ WorkerCrash
           \/ Join \/ Poll \/ ProjectCheck \/ Acknowledge \/ RebuildStart \/ ReadPage \/ RebuildCheck
           \/ RebuildDone \/ UNCHANGED vars
  BY <1>1 DEF Write, RelayStep, RelayRead, Publish, MarkSent, PublishFails, LateArrival, MarkFails,
     WorkerCrash, Join, Poll, ProjectCheck, Acknowledge, RebuildStart, ReadPage, RebuildCheck,
     RebuildDone, vars
<1>2. CASE ProjectPut \/ ConsumerFails
  BY <1>2 DEF ProjectPut, ConsumerFails, Putting, ledger
<1>3. CASE RebuildPut
  BY <1>3 DEF RebuildPut, Putting, ledger
<1>4. CASE RebuildFails
  BY <1>4 DEF RebuildFails, Putting, ledger
<1> QED
  BY <1>1, <1>2, <1>3, <1>4 DEF Next, ConsumerStep, RebuildStep

(* What is put is history. *)
LEMMA PuttingIsHistory ==
    ASSUME TypeOK, OutboxIsHistory, DeliveryInv, SearchInv, NEW doc, Putting(doc)
    PROVE  doc \in History /\ doc \in Event
<1>1. doc \in History
  BY MessageIsEvent DEF Putting, Message, DeliveryInv, SearchInv
<1> QED
  BY <1>1, HistoryFacts DEF TypeOK

(* Every write to the index keeps it a part of history. *)
LEMMA SearchKept ==
    TypeOK /\ OutboxIsHistory /\ DeliveryInv /\ SearchInv /\ [Next]_vars => SearchInv'
<1> SUFFICES ASSUME TypeOK, OutboxIsHistory, DeliveryInv, SearchInv, [Next]_vars PROVE SearchInv'
  OBVIOUS
<1>0. [LedgerNext]_ledger
  BY DEF Next, Write, RelayStep, RelayRead, Publish, MarkSent, PublishFails, LateArrival, MarkFails,
     WorkerCrash, ConsumerStep, Join, Poll, ProjectPut, ProjectCheck, Acknowledge, ConsumerFails,
     RebuildStart, RebuildStep, ReadPage, RebuildPut, RebuildCheck, RebuildDone, RebuildFails,
     LoseIndex, vars
<1>1. /\ History \subseteq History' /\ DOMAIN orders \subseteq DOMAIN orders'
      /\ \A id \in DOMAIN orders : orders'[id].version >= orders[id].version
      /\ LedgerTypeOK /\ LedgerTypeOK'
  BY <1>0, HistoryGrows, LedgerGrows, LedgerTypesKept DEF TypeOK
<1>2. /\ \A id \in DOMAIN orders : orders[id].version \in Nat
      /\ \A id \in DOMAIN orders' : orders'[id].version \in Nat
      /\ \A id \in DOMAIN es : es[id].version \in Nat
  BY <1>1 DEF LedgerTypeOK, Order, Event, TypeOK
<1>3. SearchFollowsSql'
  <2>1. CASE UNCHANGED es
    BY <2>1, <1>1, <1>2 DEF SearchInv, SearchFollowsSql
  <2>2. ASSUME NEW doc, Putting(doc), Store(doc), UNCHANGED <<orders, outbox>>
        PROVE  SearchFollowsSql'
    <3>1. doc \in History /\ doc \in Event
      BY <2>2, PuttingIsHistory
    <3>2. /\ DOMAIN es' = DOMAIN es \cup {doc.id} /\ es'[doc.id] = doc
          /\ \A id \in DOMAIN es : id # doc.id => es'[id] = es[id]
      BY <2>2, <3>1, StoreTypes DEF TypeOK
    <3>3. doc.id \in DOMAIN orders /\ doc.version <= orders[doc.id].version
      BY <3>1, HistoryFacts DEF TypeOK
    <3>4. History' = History
      BY <2>2 DEF History
    <3> QED
      BY <2>2, <3>1, <3>2, <3>3, <3>4 DEF SearchInv, SearchFollowsSql
  <2>3. CASE LoseIndex
    <3>1. DOMAIN es' = {}
      BY <2>3 DEF LoseIndex
    <3> QED
      BY <3>1 DEF SearchFollowsSql
  <2> QED
    BY <2>1, <2>2, <2>3, IndexSteps
<1>4. \A id \in DOMAIN rows' : rows'[id] \in History' /\ rows'[id].id = id
  <2>1. CASE UNCHANGED rows
    BY <2>1, <1>1 DEF SearchInv
  <2>2. CASE DOMAIN rows' = {}
    BY <2>2
  <2>3. CASE ReadPage
    <3>1. \A id \in DOMAIN rows' : id \in DOMAIN orders /\ rows'[id] = envelope(id, orders[id])
      BY <2>3 DEF ReadPage, Page, Above
    <3> QED
      BY <3>1, <1>1, HistoryFacts DEF envelope, TypeOK
  <2>4. ASSUME NEW id \in DOMAIN rows, RowDone(id)
        PROVE  \A j \in DOMAIN rows' : rows'[j] \in History' /\ rows'[j].id = j
    BY <2>4, <1>1 DEF RowDone, SearchInv
  <2>5. CASE RebuildStart \/ RebuildDone \/ RebuildFails
    <3>1. DOMAIN rows' = {}
      BY <2>5 DEF RebuildStart, RebuildDone, RebuildFails, RebuildIdle
    <3> QED
      BY <3>1
  <2>6. CASE RebuildPut
    BY <2>1, <2>4, <2>6 DEF RebuildPut
  <2>7. CASE RebuildCheck
    <3>1. PICK id \in DOMAIN rows : RowDone(id) \/ RebuildIdle
      BY <2>7 DEF RebuildCheck
    <3>2. RebuildIdle => DOMAIN rows' = {}
      BY DEF RebuildIdle
    <3> QED
      BY <2>4, <3>1, <3>2
  <2>8. CASE ~ (RebuildStart \/ RebuildDone \/ RebuildFails \/ RebuildPut \/ RebuildCheck \/ ReadPage)
    <3>1. UNCHANGED rows
      BY <2>8 DEF Next, Write, RelayStep, RelayRead, Publish, MarkSent, PublishFails, LateArrival,
         MarkFails, WorkerCrash, ConsumerStep, Join, Poll, ProjectPut, ProjectCheck, Acknowledge,
         ConsumerFails, RebuildStep, LoseIndex, vars, rebuildvars
    <3> QED
      BY <2>1, <3>1
  <2> QED
    BY <2>3, <2>5, <2>6, <2>7, <2>8
<1> QED
  BY <1>3, <1>4 DEF SearchInv

(* Only the loss of the index uncovers an event. *)
LEMMA CoverageKept ==
    ASSUME TypeOK, OutboxIsHistory, DeliveryInv, SearchInv, [Next]_vars, ~ LoseIndex,
           NEW e \in Event, Covers(es, e)
    PROVE  Covers(es', e)
<1>1. /\ e.version \in Nat
      /\ \A id \in DOMAIN es : es[id].version \in Nat
  BY DEF Event, TypeOK
<1>2. CASE UNCHANGED es
  BY <1>2 DEF Covers
<1>3. ASSUME NEW doc, Putting(doc), Accepts(doc), Store(doc)
      PROVE  Covers(es', e)
  <2>1. doc \in Event /\ doc.version \in Nat
    BY <1>3, PuttingIsHistory DEF Event
  <2>2. /\ DOMAIN es' = DOMAIN es \cup {doc.id} /\ es'[doc.id] = doc
        /\ \A id \in DOMAIN es : id # doc.id => es'[id] = es[id]
    BY <1>3, <2>1, StoreTypes DEF TypeOK
  <2> QED
    BY <1>1, <1>3, <2>1, <2>2 DEF Covers, Accepts
<1> QED
  BY <1>2, <1>3, IndexSteps

(* A page is an initial part of the rows above the cursor. *)
LEMMA PageIsInitial ==
    ASSUME LedgerTypeOK, NEW cursor \in Nat, NEW i \in Above(cursor), NEW j \in Page(cursor), i < j
    PROVE  i \in Page(cursor)
<1> DEFINE Below(k) == {m \in Above(cursor) : m < k}
<1>1. /\ Above(cursor) \subseteq OrderIds /\ i \in Nat /\ j \in Nat
      /\ \A m \in Above(cursor) : m \in Nat
  BY PipelineAssumption DEF LedgerTypeOK, Above, Page
<1>2. IsFiniteSet(Below(j))
  <2>1. Below(j) \in SUBSET OrderIds
    BY <1>1
  <2> QED
    BY <2>1, FS_Subset, PipelineAssumption
<1>3. Below(i) \in SUBSET Below(j)
  <2>1. \A m \in Above(cursor) : m < i => m < j
    BY <1>1
  <2> QED
    BY <2>1
<1>4. /\ IsFiniteSet(Below(i)) /\ Cardinality(Below(i)) <= Cardinality(Below(j))
  BY <1>2, <1>3, FS_Subset
<1>5. Cardinality(Below(i)) \in Nat /\ Cardinality(Below(j)) \in Nat
  BY <1>2, <1>4, FS_CardinalityType
<1>6. Cardinality(Below(j)) < PageSize
  BY DEF Page
<1>7. Cardinality(Below(i)) < PageSize
  BY <1>4, <1>5, <1>6, PipelineAssumption
<1> QED
  BY <1>7 DEF Page

(* Typing facts the projection proof uses throughout. *)
LEMMA ClaimedFacts ==
    ASSUME TypeOK, OutboxIsHistory, DeliveryInv
    PROVE  /\ Len(log) \in Nat /\ position \in Nat /\ committed \in Nat /\ last \in Nat
           /\ Claimed \subseteq 1..Len(log)
           /\ \A i \in 1..Len(log) :
                 /\ log[i] \in Event /\ log[i] \in History /\ log[i].version \in Nat
                 /\ log[i].id \in DOMAIN orders /\ log[i].id \in Nat \ {0}
                 /\ log[i].version <= orders[log[i].id].version
<1>1. Len(log) \in Nat /\ position \in Nat /\ committed \in Nat /\ committed <= Len(log) /\ last \in Nat
  BY DEF TypeOK
<1>2. Claimed \subseteq 1..Len(log)
  BY <1>1 DEF Claimed, TypeOK
<1>3. \A i \in 1..Len(log) : log[i] \in History
  BY DEF DeliveryInv
<1>4. DOMAIN orders \subseteq Nat \ {0}
  BY PipelineAssumption DEF TypeOK, LedgerTypeOK
<1> QED
  BY <1>1, <1>2, <1>3, <1>4, HistoryFacts DEF TypeOK

(* Steps that leave the rebuild and the loss flag alone. *)
LEMMA ProjectionByWorker ==
    ASSUME TypeOK, OutboxIsHistory, DeliveryInv, SearchInv, ProjectionInv, [Next]_vars, ~ LoseIndex,
           UNCHANGED rebuildvars, UNCHANGED lost,
           consumer' # "closed" => position' = committed',
           \A i \in 1..Len(log) : log'[i] = log[i],
           \A i \in Claimed' : i \in Claimed \/ (i \in 1..Len(log) /\ Covers(es', log[i]))
    PROVE  ProjectionInv'
<1>1. \A i \in Claimed' : i \in 1..Len(log) /\ log'[i] = log[i] /\ log[i] \in Event
  BY ClaimedFacts
<1>2. \A i \in Claimed' : Covers(es, log[i]) => Covers(es', log[i])
  BY <1>1, CoverageKept
<1>3. UNCHANGED <<rebuild, last, rows, fresh>>
  BY DEF rebuildvars
<1>4. ASSUME NEW i \in Claimed'
      PROVE  /\ ~ lost' => Covers(es', log'[i])
             /\ rebuild' # "idle" /\ fresh' => Covers(es', log'[i]) \/ Awaits(last', rows', log'[i])
  BY <1>1, <1>2, <1>3 DEF ProjectionInv
<1>5. ASSUME rebuild' = "check", ~ lost', NEW id \in DOMAIN rows', IsNextRow(id)'
      PROVE  Covers(es', rows'[id])
  <2>1. id \in DOMAIN rows /\ rows' = rows /\ rows[id] \in Event /\ Covers(es, rows[id])
    BY <1>3, <1>5 DEF ProjectionInv, IsNextRow, TypeOK
  <2> QED
    BY <2>1, CoverageKept
<1> QED
  BY <1>3, <1>4, <1>5 DEF ProjectionInv

(* Consumer, rebuild and index loss keep the projection invariant. *)
LEMMA ProjectionKept ==
    TypeOK /\ OutboxIsHistory /\ DeliveryInv /\ SearchInv /\ ProjectionInv /\ [Next]_vars
        => ProjectionInv'
<1> SUFFICES ASSUME TypeOK, OutboxIsHistory, DeliveryInv, SearchInv, ProjectionInv, [Next]_vars
             PROVE  ProjectionInv'
  OBVIOUS
<1>0. /\ Len(log) \in Nat /\ position \in Nat /\ committed \in Nat /\ last \in Nat
      /\ Claimed \subseteq 1..Len(log)
      /\ \A i \in 1..Len(log) :
            /\ log[i] \in Event /\ log[i] \in History /\ log[i].version \in Nat
            /\ log[i].id \in DOMAIN orders /\ log[i].id \in Nat \ {0}
            /\ log[i].version <= orders[log[i].id].version
  BY ClaimedFacts
<1>1. CASE LoseIndex
  BY <1>1 DEF LoseIndex, ProjectionInv, consumervars, relayvars
<1>2. CASE ~ LoseIndex /\ (Write \/ RelayStep \/ PublishFails \/ LateArrival \/ MarkFails)
  <2>1. \A i \in 1..Len(log) : log'[i] = log[i]
    <3>1. UNCHANGED log \/ \E e \in Event : log' = Append(log, e)
      BY <1>2, RowIsEvent DEF Write, RelayStep, RelayRead, Publish, MarkSent, PublishFails, LateArrival,
         MarkFails, relayvars, TypeOK
    <3> QED
      BY <3>1, LogAppend DEF TypeOK
  <2>2. UNCHANGED <<rebuildvars, lost, consumer, position, committed>>
    BY <1>2 DEF Write, RelayStep, RelayRead, Publish, MarkSent, PublishFails, LateArrival, MarkFails,
       consumervars
  <2>3. Claimed' = Claimed
    BY <2>2 DEF Claimed
  <2> QED
    BY <1>2, <2>1, <2>2, <2>3, ProjectionByWorker DEF ProjectionInv
<1>3. CASE ~ LoseIndex /\ (Join \/ Poll \/ ProjectCheck \/ WorkerCrash)
  <2>1. UNCHANGED <<log, rebuildvars, lost, committed>>
    BY <1>3 DEF Join, Poll, ProjectCheck, WorkerCrash, relayvars
  <2>2. consumer' # "closed" => position' = committed'
    BY <1>3 DEF Join, Poll, ProjectCheck, WorkerCrash, ConsumerClosed, ProjectionInv
  <2>3. Claimed' \subseteq Claimed
    BY <1>3, <2>1 DEF Join, Poll, ProjectCheck, WorkerCrash, ConsumerClosed, Claimed
  <2> QED
    BY <1>3, <2>1, <2>2, <2>3, ProjectionByWorker
<1>4. CASE ~ LoseIndex /\ ProjectPut
  <2>1. UNCHANGED <<log, rebuildvars, lost, committed, position>> /\ consumer = "put"
    BY <1>4 DEF ProjectPut, relayvars
  <2>2. Message \in Event /\ position + 1 \in 1..Len(log) /\ Message = log[position + 1]
        /\ Message.version \in Nat
    BY <2>1, MessageIsEvent DEF Message, Event
  <2>3. Covers(es', Message)
    <3>1. CASE Store(Message)
      <4>1. Message.id \in DOMAIN es' /\ es'[Message.id] = Message
        BY <2>2, <3>1, StoreTypes DEF TypeOK
      <4> QED
        BY <2>2, <4>1 DEF Covers
    <3>2. CASE ~ Accepts(Message) /\ UNCHANGED es
      <4>1. \A id \in DOMAIN es : es[id].version \in Nat
        BY DEF TypeOK, Event
      <4> QED
        BY <2>2, <3>2, <4>1 DEF Accepts, Covers
    <3> QED
      BY <1>4, <3>1, <3>2 DEF ProjectPut
  <2>4. \A i \in Claimed' : i \in Claimed \/ i = position + 1
    BY <2>1 DEF Claimed
  <2> QED
    BY <1>4, <2>1, <2>2, <2>3, <2>4, ProjectionByWorker DEF ProjectionInv
<1>5. CASE ~ LoseIndex /\ (Acknowledge \/ ConsumerFails)
  <2>1. UNCHANGED <<log, rebuildvars, lost>>
    BY <1>5 DEF Acknowledge, ConsumerFails, relayvars
  <2>2. consumer' # "closed" => position' = committed'
    BY <1>5 DEF Acknowledge, ConsumerFails, ConsumerClosed
  <2>3. /\ consumer' \in {"poll", "closed"}
        /\ committed' = committed \/ (consumer = "commit" /\ committed' = position + 1)
        /\ consumer = "commit" => position = committed
    BY <1>5 DEF Acknowledge, ConsumerFails, ConsumerClosed, ProjectionInv
  <2>4. Claimed' = 1..committed'
    BY <2>3 DEF Claimed
  <2>5. Claimed' \subseteq Claimed
    BY <1>0, <2>3, <2>4 DEF Claimed
  <2> QED
    BY <1>5, <2>1, <2>2, <2>5, ProjectionByWorker
<1>6. CASE ~ LoseIndex /\ (RebuildStart \/ RebuildStep \/ RebuildFails)
  <2>1. UNCHANGED <<log, consumer, position, committed, orders>> /\ Claimed' = Claimed
    BY <1>6 DEF RebuildStart, RebuildStep, ReadPage, RebuildPut, RebuildCheck, RebuildDone, RebuildFails,
       relayvars, consumervars, ledger, Claimed
  <2>2. \A i \in Claimed : Covers(es, log[i]) => Covers(es', log[i])
    BY <1>0, <1>6, CoverageKept
  <2>3. \A id \in DOMAIN rows : rows[id] \in Event /\ rows[id].version \in Nat /\ rows[id].id = id
    BY DEF TypeOK, Event, SearchInv
  <2>4. CASE RebuildStart
    <3>1. rebuild' = "scan" /\ last' = 0 /\ DOMAIN rows' = {} /\ UNCHANGED <<es, lost>>
      BY <2>4 DEF RebuildStart
    <3> QED
      BY <1>0, <2>1, <3>1 DEF ProjectionInv, Awaits
  <2>5. CASE RebuildFails
    <3>1. rebuild' = "idle" /\ DOMAIN rows' = {} /\ UNCHANGED lost
      BY <2>5 DEF RebuildFails, RebuildIdle
    <3> QED
      BY <2>1, <2>2, <3>1 DEF ProjectionInv
  <2>6. CASE ReadPage
    <3>1. PICK top \in Page(last) : (\A j \in Page(last) : j <= top) /\ last' = top
      BY <2>6 DEF ReadPage
    <3>2. /\ rebuild = "scan" /\ DOMAIN rows = {} /\ rebuild' = "put" /\ UNCHANGED <<es, lost, fresh>>
          /\ rows' = [id \in Page(last) |-> envelope(id, orders[id])]
      BY <2>6 DEF ReadPage, ProjectionInv
    <3>3. ASSUME NEW i \in Claimed, log[i].id > last
          PROVE  Awaits(last', rows', log[i])
      <4>1. log[i].id \in Above(last) /\ log[i].id \in Nat /\ top \in Nat
        BY <1>0, <3>1, <3>3, PipelineAssumption DEF Above, Page, TypeOK, LedgerTypeOK
      <4>2. CASE log[i].id <= top
        <5>1. log[i].id \in Page(last)
          BY <1>0, <3>1, <4>1, <4>2, PageIsInitial DEF TypeOK
        <5>2. rows'[log[i].id].version = orders[log[i].id].version
          BY <3>2, <5>1 DEF envelope
        <5>3. orders[log[i].id].version >= log[i].version
          BY <1>0 DEF TypeOK, LedgerTypeOK, Order
        <5> QED
          BY <3>2, <5>1, <5>2, <5>3 DEF Awaits, Covers
      <4> QED
        BY <3>1, <4>1, <4>2 DEF Awaits
    <3>4. \A i \in Claimed : rebuild # "idle" /\ fresh =>
             Covers(es, log[i]) \/ Awaits(last', rows', log[i])
      BY <3>2, <3>3 DEF ProjectionInv, Awaits, Covers
    <3> QED
      BY <2>1, <3>2, <3>4 DEF ProjectionInv
  <2>7. CASE RebuildDone
    <3>1. /\ rebuild = "scan" /\ DOMAIN rows = {} /\ Above(last) = {} /\ rebuild' = "idle"
          /\ DOMAIN rows' = {} /\ lost' = (lost /\ ~ fresh) /\ UNCHANGED es
      BY <2>7 DEF RebuildDone, RebuildIdle, ProjectionInv
    <3>2. \A i \in Claimed : ~ Awaits(last, rows, log[i])
      BY <1>0, <3>1 DEF Awaits, Covers, Above
    <3>3. \A i \in Claimed : ~ lost \/ fresh => Covers(es, log[i])
      BY <3>1, <3>2 DEF ProjectionInv
    <3>4. \A i \in Claimed : ~ lost' => Covers(es', log'[i])
      BY <2>1, <3>1, <3>3
    <3> QED
      BY <2>1, <3>1, <3>4 DEF ProjectionInv
  <2>8. ASSUME NEW id \in DOMAIN rows, rebuild # "idle", RowDone(id), UNCHANGED <<last, fresh, lost>>,
               Covers(es', rows[id])
        PROVE  ProjectionInv'
    <3>1. /\ DOMAIN rows' = DOMAIN rows \ {id}
          /\ \A j \in DOMAIN rows' : rows'[j] = rows[j]
          /\ rebuild' \in {"scan", "put"} /\ (rebuild' = "scan" => DOMAIN rows' = {})
      BY <2>8 DEF RowDone
    <3>2. ASSUME NEW i \in Claimed, Awaits(last, rows, log[i])
          PROVE  Covers(es', log[i]) \/ Awaits(last', rows', log[i])
      <4>1. CASE log[i].id > last
        BY <2>8, <4>1 DEF Awaits
      <4>2. CASE Covers(rows, log[i]) /\ log[i].id # id
        BY <3>1, <4>2 DEF Awaits, Covers
      <4>3. CASE Covers(rows, log[i]) /\ log[i].id = id
        <5>1. /\ rows[id].version >= log[i].version /\ rows[id].id = id
              /\ id \in DOMAIN es' /\ es'[id].version >= rows[id].version
          BY <2>3, <2>8, <4>3 DEF Covers
        <5>2. es'[id].version \in Nat /\ rows[id].version \in Nat /\ log[i].version \in Nat
          BY <1>0, <2>3, <5>1, TypeOKKept DEF TypeOK, Event
        <5> QED
          BY <4>3, <5>1, <5>2 DEF Covers
      <4> QED
        BY <3>2, <4>1, <4>2, <4>3 DEF Awaits
    <3> QED
      BY <2>1, <2>2, <2>8, <3>1, <3>2 DEF ProjectionInv
  <2>9. CASE RebuildPut
    <3>1. PICK id \in DOMAIN rows :
            /\ IsNextRow(id)
            /\ \/ Accepts(rows[id]) /\ Store(rows[id]) /\ RowDone(id)
               \/ ~ Accepts(rows[id]) /\ rebuild' = "check" /\ UNCHANGED <<es, rows>>
      BY <2>9 DEF RebuildPut
    <3>2. rebuild = "put" /\ UNCHANGED <<last, fresh, lost>>
      BY <2>9 DEF RebuildPut
    <3>3. CASE Store(rows[id]) /\ RowDone(id)
      <4>0. rows[id] \in Event /\ Store(rows[id]) /\ DOMAIN es \subseteq OrderIds /\ es \in [DOMAIN es -> Event]
        BY <2>3, <3>3 DEF TypeOK
      <4>1. rows[id].id \in DOMAIN es' /\ es'[rows[id].id] = rows[id]
        BY <4>0, StoreTypes
      <4>2. Covers(es', rows[id])
        BY <2>3, <4>1 DEF Covers
      <4> QED
        BY <2>8, <3>2, <3>3, <4>2
    <3>4. CASE ~ Accepts(rows[id]) /\ rebuild' = "check" /\ UNCHANGED <<es, rows>>
      <4>1. \A j \in DOMAIN es : es[j].version \in Nat
        BY DEF TypeOK, Event
      <4>2. Covers(es, rows[id])
        BY <2>3, <3>4, <4>1 DEF Accepts, Covers
      <4>3. \A j \in DOMAIN rows : IsNextRow(j) => j = id
        BY <3>1, PipelineAssumption DEF IsNextRow, TypeOK
      <4>4. \A j \in DOMAIN rows' : IsNextRow(j)' => Covers(es', rows'[j])
        BY <3>4, <4>2, <4>3 DEF IsNextRow
      <4> QED
        BY <2>1, <3>2, <3>4, <4>4 DEF ProjectionInv
    <3> QED
      BY <3>1, <3>3, <3>4
  <2>10. CASE RebuildCheck
    <3>1. PICK id \in DOMAIN rows :
            \/ Settled(rows[id]) /\ RowDone(id) /\ UNCHANGED <<last, fresh>>
            \/ RebuildIdle
      BY <2>10 DEF RebuildCheck
    <3>2. rebuild = "check" /\ UNCHANGED <<es, lost>>
      BY <2>10 DEF RebuildCheck
    <3>3. CASE Settled(rows[id]) /\ RowDone(id) /\ UNCHANGED <<last, fresh>>
      <4>1. \A j \in DOMAIN es : es[j].version \in Nat
        BY DEF TypeOK, Event
      <4>2. Covers(es', rows[id])
        BY <2>3, <3>2, <3>3, <4>1 DEF Settled, Covers
      <4> QED
        BY <2>8, <3>2, <3>3, <4>2
    <3>4. CASE RebuildIdle
      <4>1. rebuild' = "idle" /\ DOMAIN rows' = {}
        BY <3>4 DEF RebuildIdle
      <4> QED
        BY <2>1, <3>2, <4>1 DEF ProjectionInv
    <3> QED
      BY <3>1, <3>3, <3>4
  <2> QED
    BY <1>6, <2>4, <2>5, <2>6, <2>7, <2>9, <2>10 DEF RebuildStep
<1>7. CASE UNCHANGED vars
  BY <1>7 DEF vars, relayvars, consumervars, rebuildvars, ProjectionInv, Claimed, IsNextRow
<1> QED
  BY <1>1, <1>2, <1>3, <1>4, <1>5, <1>6, <1>7 DEF Next, ConsumerStep

-----------------------------------------------------------------------------
(* The initial state satisfies the inductive invariant. *)
LEMMA InvInitial == Init => Inv
<1> SUFFICES ASSUME Init PROVE Inv
  OBVIOUS
<1>1. TypeOK /\ OutboxIsHistory
  BY TypeOKInitial, LedgerInitial DEF Init
<1>2. DOMAIN es = {} /\ DOMAIN rows = {} /\ Len(log) = 0 /\ late = {} /\ sent = {}
  BY DEF Init
<1>3. DeliveryInv
  BY <1>2 DEF Init, DeliveryInv, SentIsLogged, FirstDeliveryInOrder
<1>4. SearchInv
  BY <1>2 DEF SearchInv, SearchFollowsSql
<1>5. ProjectionInv
  BY <1>2 DEF Init, ProjectionInv, Claimed
<1> QED
  BY <1>1, <1>3, <1>4, <1>5 DEF Inv

(* Every step keeps the inductive invariant. *)
LEMMA InvKept == Inv /\ [Next]_vars => Inv'
<1> SUFFICES ASSUME Inv, [Next]_vars PROVE Inv'
  OBVIOUS
<1>1. [LedgerNext]_ledger
  BY DEF Next, Write, RelayStep, RelayRead, Publish, MarkSent, PublishFails, LateArrival, MarkFails,
     WorkerCrash, ConsumerStep, Join, Poll, ProjectPut, ProjectCheck, Acknowledge, ConsumerFails,
     RebuildStart, RebuildStep, ReadPage, RebuildPut, RebuildCheck, RebuildDone, RebuildFails,
     LoseIndex, vars
<1>2. OutboxIsHistory'
  BY <1>1, LedgerHistoryKept DEF Inv, TypeOK
<1> QED
  BY <1>2, TypeOKKept, DeliveryKept, SearchKept, ProjectionKept DEF Inv

(* The inductive invariant holds always. *)
LEMMA InvAlways == Spec => []Inv
<1> QED
  BY InvInitial, InvKept, PTL DEF Spec

(***************************************************************************)
(* The relay loses nothing: a row with sent_at is on the topic, and the    *)
(* topic never has a gap in the first deliveries of an order, for any      *)
(* number of failed publishes, late appends, failed marks and crashes.     *)
(***************************************************************************)
THEOREM RelayIsLossless == Spec => []SentIsLogged /\ []FirstDeliveryInOrder
<1>1. Inv => SentIsLogged /\ FirstDeliveryInOrder
  BY DEF Inv, DeliveryInv
<1> QED
  BY <1>1, InvAlways, PTL

(***************************************************************************)
(* The committed offset never passes an event the index does not show,     *)
(* whatever failures, replays and rebuilds happen.                         *)
(***************************************************************************)
THEOREM CheckpointsAreSafe == Spec => []CheckpointIsProjected
<1>1. Inv => CheckpointIsProjected
  BY DEF Inv, ProjectionInv, CheckpointIsProjected, Claimed
<1> QED
  BY <1>1, InvAlways, PTL

(***************************************************************************)
(* Search only ever shows snapshots SQL committed, never ahead of SQL.     *)
(***************************************************************************)
THEOREM SearchIsHistory == Spec => []SearchFollowsSql
<1>1. Inv => SearchFollowsSql
  BY DEF Inv, SearchInv
<1> QED
  BY <1>1, InvAlways, PTL

(***************************************************************************)
(* The fence never sees two contents of one version, and every refused PUT *)
(* is settled by the GET while the index is intact.                        *)
(***************************************************************************)
THEOREM FenceNeverBlocks == Spec => []NoPayloadConflict
<1>1. Inv => NoPayloadConflict
  <2> SUFFICES ASSUME Inv, NEW doc \in Checked
               PROVE  /\ doc.id \in DOMAIN es /\ es[doc.id].version = doc.version => es[doc.id] = doc
                      /\ ~ lost => Settled(doc)
    BY DEF NoPayloadConflict
  <2>1. doc \in History
    BY MessageIsEvent DEF Checked, Message, Inv, DeliveryInv, SearchInv
  <2>2. /\ doc.id \in DOMAIN es => es[doc.id] \in History /\ es[doc.id].id = doc.id
        /\ doc.id \in DOMAIN es => es[doc.id].version \in Nat
        /\ doc.version \in Nat
    BY <2>1, HistoryFacts DEF Inv, SearchInv, SearchFollowsSql, TypeOK, Event
  <2>3. doc.id \in DOMAIN es /\ es[doc.id].version = doc.version => es[doc.id] = doc
    BY <2>1, <2>2, HistoryFacts DEF Inv, TypeOK
  <2>4. ~ lost => Covers(es, doc)
    <3>1. CASE consumer = "check" /\ doc = Message
      BY <3>1, MessageIsEvent DEF Inv, ProjectionInv, Claimed, Message
    <3>2. CASE rebuild = "check" /\ \E id \in DOMAIN rows : IsNextRow(id) /\ doc = rows[id]
      BY <3>2 DEF Inv, ProjectionInv
    <3> QED
      BY <3>1, <3>2 DEF Checked
  <2> QED
    BY <2>2, <2>3, <2>4 DEF Covers, Settled
<1> QED
  BY <1>1, InvAlways, PTL

(***************************************************************************)
(* No document ever goes back to an older version, except by the loss of   *)
(* the whole index.                                                        *)
(***************************************************************************)
THEOREM DocumentsAreMonotone == Spec => VersionsNeverGoBack
<1>1. Inv /\ [Next]_vars =>
        [\/ es' = <<>>
         \/ \A id \in DOMAIN es : id \in DOMAIN es' /\ es'[id].version >= es[id].version]_vars
  <2> SUFFICES ASSUME Inv, [Next]_vars, ~ LoseIndex, NEW id \in DOMAIN es
               PROVE  id \in DOMAIN es' /\ es'[id].version >= es[id].version
    BY DEF LoseIndex
  <2>1. es[id] \in Event /\ es[id].id = id /\ es[id].version \in Nat
    BY DEF Inv, TypeOK, SearchInv, SearchFollowsSql, Event
  <2>2. Covers(es, es[id])
    BY <2>1 DEF Covers
  <2>3. Covers(es', es[id])
    BY <2>1, <2>2, CoverageKept DEF Inv
  <2> QED
    BY <2>1, <2>3 DEF Covers
<1> QED
  BY <1>1, InvAlways, PTL DEF Spec, VersionsNeverGoBack

-----------------------------------------------------------------------------
(***************************************************************************)
(* The workload of the simulator and its oracle (SimAudit).  In what       *)
(* follows st is the store, gone whether it forgot commits, its the        *)
(* intents, op the next operation, aside the requests that lost their      *)
(* client, f and l the workflow and the lane of a worker.                  *)
(***************************************************************************)
OpStatuses == {"created", "paid", "shipped", "cancelled"}
Unanswered == {"queued", "sent"}
InCall == {"queued", "sent", "answered"}
Codes == {0, 200, 201, 404, 409}

(* What version v of the order under key k may be: the fixture is paid and shipped, an order of the run is raced for. *)
Fits(k, v, status) ==
    \/ v = 1 /\ status = "created"
    \/ k = 0 /\ v = 2 /\ status = "paid"
    \/ k = 0 /\ v = 3 /\ status = "shipped"
    \/ k # 0 /\ v = 2 /\ status \in {"paid", "cancelled"}

Rows == [id : Nat, hist : Seq(OpStatuses)]
RowFits(k, row) ==
    /\ row \in Rows
    /\ \A v \in 1..Len(row.hist) : Fits(k, v, row.hist[v])
    /\ row.hist # <<>> => row.id # 0

StoreFits(st) == st \in [Places -> Rows] /\ \A k \in Places : RowFits(k, st[k])

(* An intent knows versions that fit, and of every update that made a version of the row. *)
Marks == [id : Nat, status : OpStatuses]
IntentShape(i) == i = [known |-> i.known, ids |-> i.ids, acks |-> i.acks, tried |-> i.tried]
IntentFits(k, i) ==
    /\ IntentShape(i)
    /\ i.known \in BOOLEAN /\ i.ids \subseteq Nat
    /\ i.acks \in [DOMAIN i.acks -> Marks]
    /\ \A v \in DOMAIN i.acks : Fits(k, v, i.acks[v].status) /\ i.acks[v].id \in i.ids
    /\ DOMAIN i.acks # {} => i.known
CoversRow(i, row) == \A v \in 2..Len(row.hist) : <<v, row.hist[v]>> \in i.tried

IntentsFit(st, its) ==
    /\ its = [k \in Places |-> its[k]]
    /\ \A k \in Places : IntentFits(k, its[k]) /\ CoversRow(its[k], st[k])

Requests == [op : {"create", "update", "source", "read"}, key : Places, id : Nat, version : Nat, status : OpStatuses \cup {"none"}]
Answers == [code : Codes, id : Nat, version : Nat, status : OpStatuses \cup {"none"}]

RequestShape(req) ==
    /\ req \in Requests
    /\ req.op = "update" => req.version # 0 /\ Fits(req.key, req.version + 1, req.status)
    /\ req.op \in {"source", "read"} => req.key = 0

(* A request on its way: its key is registered, its update noted. *)
RequestFits(its, op, req) ==
    /\ RequestShape(req)
    /\ its[req.key].known
    /\ req.op = "update" => <<req.version + 1, req.status>> \in its[req.key].tried
    /\ req.key # 0 => req.key < op

(* An answer with an order: what it shows fits, and is in a store that forgot nothing. *)
Shows(req, a) == a.code \in {200, 201} /\ (req.op = "source" => a.id # 0)
AnswerFits(st, gone, req, a) ==
    /\ a \in Answers
    /\ Shows(req, a) /\ req.op # "read" => a.version # 0 /\ Fits(req.key, a.version, a.status)
    /\ ~ gone /\ HasOrder(req, a) =>
          /\ a.version \in 1..Len(st[req.key].hist) /\ a.id = st[req.key].id /\ a.status = st[req.key].hist[a.version]

(* The order a workflow has for itself. *)
OwnKey(f) == f.kind \in {"create", "race"}
Racing(f) == f.kind = "race" /\ f.step = "race"
StatusOf(s) == IF s = 1 THEN "paid" ELSE "cancelled"

(* The one call of a workflow. *)
SingleCall(f, req) ==
    \/ OwnKey(f) /\ f.step = "create" /\ req = Create(f.n)
    \/ f.kind = "retry" /\ f.step = "create" /\ req = Create(0)
    \/ f.kind = "update" /\ f.step = "source" /\ req = Source(0)
    \/ f.kind = "update" /\ f.step = "change" /\ req.key = 0 /\ req.op \in {"update", "read"}
    \/ f.kind = "read" /\ f.step = "read" /\ req = Read(0)

(* A side of a race. *)
RaceSide(f, s, call) ==
    \/ call.at = "ended" /\ call.code \in Codes
    \/ call.at \in InCall /\ call.req.key = f.n /\ call.req.op = "update" /\ call.req.status = StatusOf(s)

(* What a lane holds, given the workflow of its worker. *)
LaneFits(f, l) ==
    \/ f = NoFlow /\ l = <<NoCall, NoCall>>
    \/ f # NoFlow /\ ~ Racing(f) /\ l[2] = NoCall /\ l[1].at \in InCall /\ SingleCall(f, l[1].req)
    \/ f # NoFlow /\ Racing(f) /\ \A s \in Sides : RaceSide(f, s, l[s])

CallFits(st, gone, its, op, call) ==
    /\ call.at \in InCall => RequestFits(its, op, call.req)
    /\ call.at \in Unanswered => call = [at |-> call.at, req |-> call.req]
    /\ call.at = "answered" =>
          call = [at |-> "answered", req |-> call.req, answer |-> call.answer] /\ AnswerFits(st, gone, call.req, call.answer)

LaneKnows(st, gone, its, op, f, l) ==
    /\ l = <<l[1], l[2]>>
    /\ LaneFits(f, l)
    /\ \A s \in Sides : CallFits(st, gone, its, op, l[s])
    /\ OwnKey(f) => f.n \in 1..MaxOps /\ f.n < op

(* A workflow that created its order alone: nobody else has touched it. *)
OwnRow(st, gone, f, l) ==
    OwnKey(f) /\ f.step = "create" =>
        /\ l[1].at \in Unanswered => st[f.n] = Absent
        /\ l[1].at = "answered" => /\ l[1].answer.code = 201 /\ l[1].answer.version = 1
                                   /\ ~ gone => Len(st[f.n].hist) = 1

(* Of two racing updates one wins: what the answers say of it. *)
CodeOf(call) == IF call.at = "ended" THEN call.code ELSE call.answer.code
SideKnows(row, s, call) ==
    /\ call.at \in InCall => call.req.id = row.id
    /\ call.at \in Unanswered /\ Len(row.hist) = 2 => row.hist[2] # StatusOf(s)
    /\ call.at \in {"answered", "ended"} =>
          /\ CodeOf(call) = 200 => Len(row.hist) = 2 /\ row.hist[2] = StatusOf(s)
          /\ CodeOf(call) = 409 => Len(row.hist) = 2 /\ row.hist[2] # StatusOf(s)
RaceRow(st, gone, f, l) ==
    ~ gone /\ Racing(f) => st[f.n].hist # <<>> /\ \A s \in Sides : SideKnows(st[f.n], s, l[s])

(* A request without a client, on the order of a workflow: the update of a side that was given up. *)
Detached(req, f, l) ==
    OwnKey(f) /\ req.key = f.n =>
        /\ Racing(f) /\ req.op = "update"
        /\ \A s \in Sides : req.status = StatusOf(s) => l[s].at = "ended" /\ l[s].code = 0

WorkerKnows(st, gone, its, op, aside, f, l) ==
    /\ LaneKnows(st, gone, its, op, f, l)
    /\ OwnRow(st, gone, f, l)
    /\ RaceRow(st, gone, f, l)
    /\ \A req \in aside : Detached(req, f, l)

Flows == [n : Nat, kind : {"none", "create", "retry", "race", "update", "read"},
          step : {"none", "create", "source", "change", "read", "race"}, left : Int]

WorkersKnow ==
    /\ flow \in [Workers -> Flows]
    /\ lane = [w \in Workers |-> lane[w]]
    /\ \A w \in Workers : WorkerKnows(store, forgot, intent, plan.op, astray, flow[w], lane[w])

(* The order of an operation belongs to one workflow. *)
OneOwner == \A u, w \in Workers : OwnKey(flow[u]) /\ OwnKey(flow[w]) /\ flow[u].n = flow[w].n => u = w

(* Without a client: a creation of an order of the run is alone with it. *)
AstrayFit ==
    /\ \A req \in astray : RequestFits(intent, plan.op, req)
    /\ \A req \in astray : req.key # 0 /\ req.op = "create" =>
          store[req.key] = Absent /\ \A r \in astray : r.key = req.key => r = req

(* The order of an operation still to come. *)
Unborn(st, its, op) == \A k \in Places : k >= op /\ k # 0 => st[k] = Absent /\ its[k] = NoIntent

(* What clients were told of is in a store that forgot nothing. *)
Told(row, i) ==
    /\ i.ids \subseteq {row.id} /\ (row.hist = <<>> => i.ids = {})
    /\ \A v \in DOMAIN i.acks : v <= Len(row.hist) /\ i.acks[v].status = row.hist[v]
ToldIsTrue == ~ forgot => \A k \in Places : Told(store[k], intent[k])

PlanAdds ==
    /\ plan \in [op : Nat, admitted : Nat, skipped : Nat]
    /\ plan.op \in 1..MaxOps + 1
    /\ plan.admitted + plan.skipped = plan.op - 1

(* What a verdict says of a key. *)
Passed(row, i, seen) ==
    \A v \in DOMAIN i.acks :
        /\ v <= Len(row.hist)
        /\ i.acks[v] = [id |-> row.id, status |-> row.hist[v]]
        /\ seen.id = row.id /\ seen.version >= v

Errors == {"identity", "version_missing", "content", "unexpected_version", "acknowledged_missing"}
Audits == [at : {"none", "lookup", "inspect", "done"}, key : Nat, sql : Rows, ok : BOOLEAN, streak : Nat,
           wrong : SUBSET Errors, verdict : {"none", "consistent", "deadline_exceeded"}]

(* The rows of the current round that were found right are right. *)
AuditKnows ==
    /\ audit \in Audits
    /\ audit.at # "none" => plan.op = MaxOps + 1 /\ \A w \in Workers : flow[w] = NoFlow
    /\ audit.at = "inspect" => Remaining # {}
    /\ audit.at \in {"lookup", "inspect"} /\ audit.ok => \A k \in Places : k < audit.key => Passed(store[k], intent[k], shown[k])
    /\ audit.verdict = "consistent" => audit.at = "done" /\ \A k \in Places : Passed(store[k], intent[k], shown[k])
    /\ audit.at = "none" => audit = NotAuditing

ContractErrors ==
    {"same_key_multiple_order_ids", "same_version_different_content", "two_winners_same_expected_version",
     "invalid_race_result", "planned_workflow_accounting_mismatch", "no_workload_observed"}

SimTypes ==
    /\ shown \in [Places -> [id : Nat, version : Nat]]
    /\ forgot \in BOOLEAN
    /\ contract \subseteq ContractErrors

SimInv ==
    SimTypes /\ StoreFits(store) /\ IntentsFit(store, intent) /\ WorkersKnow /\ OneOwner /\ AstrayFit
    /\ Unborn(store, intent, plan.op) /\ ToldIsTrue /\ PlanAdds /\ AuditKnows /\ NoFalseAlarm

-----------------------------------------------------------------------------
(* The server: what a request does to a row, and what its answer says. *)

(* r2 is r1, or r1 with more versions. *)
Extends(r1, r2) ==
    /\ Len(r1.hist) <= Len(r2.hist) /\ \A v \in 1..Len(r1.hist) : r2.hist[v] = r1.hist[v]
    /\ r1.hist # <<>> => r2.id = r1.id

LEMMA RowShape ==
    ASSUME NEW k, NEW row, RowFits(k, row)
    PROVE  /\ row \in Rows /\ row.id \in Nat /\ row.hist \in Seq(OpStatuses) /\ Len(row.hist) \in Nat
           /\ row.hist = <<>> <=> Len(row.hist) = 0
           /\ row.hist # <<>> => /\ Len(row.hist) \in 1..Len(row.hist) /\ row.hist[Len(row.hist)] \in OpStatuses
                                 /\ row.hist[1] = "created" /\ Len(row.hist) <= 3
  <1>1. row \in Rows /\ row.id \in Nat /\ row.hist \in Seq(OpStatuses) /\ Len(row.hist) \in Nat
    BY DEF RowFits, Rows
  <1>2. row.hist = <<>> <=> Len(row.hist) = 0
    BY <1>1, EmptySeq, Zenon
  <1>3. ASSUME row.hist # <<>>
        PROVE  /\ Len(row.hist) \in 1..Len(row.hist) /\ row.hist[Len(row.hist)] \in OpStatuses
               /\ row.hist[1] = "created" /\ Len(row.hist) <= 3
    <2>1. Len(row.hist) \in 1..Len(row.hist) /\ 1 \in 1..Len(row.hist)
      BY <1>1, <1>2, <1>3
    <2>2. Fits(k, 1, row.hist[1]) /\ Fits(k, Len(row.hist), row.hist[Len(row.hist)])
      BY <2>1 DEF RowFits
    <2> QED BY <1>1, <2>1, <2>2 DEF Fits
  <1> QED BY <1>1, <1>2, <1>3

(* The first version of an order. *)
LEMMA FirstVersion ==
    ASSUME NEW row \in Rows, row.hist = <<>>
    PROVE  /\ Created(row) \in Rows /\ Created(row).id = row.id + 1 /\ Created(row).hist = <<"created">>
           /\ Len(Created(row).hist) = 1 /\ Created(row).hist[1] = "created"
  <1>1. Created(row) = [id |-> row.id + 1, hist |-> <<"created">>]
    BY DEF Created
  <1>2. "created" \in OpStatuses
    BY DEF OpStatuses
  <1>3. <<"created">> \in Seq(OpStatuses) /\ Len(<<"created">>) = 1 /\ <<"created">>[1] = "created"
    BY <1>2
  <1>4. PICK h \in Seq(OpStatuses) : h = <<"created">> /\ Len(h) = 1 /\ h[1] = "created"
    BY <1>3, Zenon
  <1>5. Created(row) = [id |-> row.id + 1, hist |-> h]
    BY <1>1, <1>4, Zenon
  <1>6. Created(row) \in Rows /\ Created(row).id = row.id + 1 /\ Created(row).hist = h
    BY <1>5 DEF Rows
  <1> QED BY <1>4, <1>6

LEMMA NextVersion ==
    ASSUME NEW row \in Rows, NEW status \in OpStatuses
    PROVE  /\ [row EXCEPT !.hist = Append(@, status)] \in Rows
           /\ [row EXCEPT !.hist = Append(@, status)].id = row.id
           /\ Len([row EXCEPT !.hist = Append(@, status)].hist) = Len(row.hist) + 1
           /\ \A v \in 1..Len(row.hist) : [row EXCEPT !.hist = Append(@, status)].hist[v] = row.hist[v]
           /\ [row EXCEPT !.hist = Append(@, status)].hist[Len(row.hist) + 1] = status
  <1>1. PICK h \in Seq(OpStatuses) : h = row.hist
    BY DEF Rows
  <1>2. /\ Append(h, status) \in Seq(OpStatuses) /\ Len(Append(h, status)) = Len(h) + 1
        /\ \A v \in 1..Len(h) : Append(h, status)[v] = h[v] /\ Append(h, status)[Len(h) + 1] = status
    BY AppendProperties
  <1>3. Append(h, status)[Len(h) + 1] = status
    BY AppendProperties
  <1>4. PICK g \in Seq(OpStatuses) : g = Append(h, status)
    BY <1>2
  <1>5. [row EXCEPT !.hist = Append(@, status)] = [row EXCEPT !.hist = g]
    BY <1>1, <1>4
  <1>6. [row EXCEPT !.hist = g] \in Rows /\ [row EXCEPT !.hist = g].id = row.id /\ [row EXCEPT !.hist = g].hist = g
    BY DEF Rows
  <1>7. Len(g) = Len(row.hist) + 1 /\ (\A v \in 1..Len(row.hist) : g[v] = row.hist[v]) /\ g[Len(row.hist) + 1] = status
    BY <1>1, <1>2, <1>3, <1>4
  <1> QED BY <1>5, <1>6, <1>7, Zenon

LEMMA EffectExtends ==
    ASSUME NEW req, RequestShape(req), NEW row, RowFits(req.key, row)
    PROVE  /\ RowFits(req.key, Effect(row, req)) /\ Extends(row, Effect(row, req))
           /\ \A v \in 2..Len(Effect(row, req).hist) :
                 v <= Len(row.hist) \/ (req.op = "update" /\ v = req.version + 1 /\ Effect(row, req).hist[v] = req.status)
           /\ row.hist # <<>> /\ req.op # "update" => Effect(row, req) = row
           /\ req.op # "create" /\ row.hist = <<>> => Effect(row, req) = row
           /\ req.op = "update" /\ Len(row.hist) # req.version => Effect(row, req) = row
  <1>1. row \in Rows /\ Len(row.hist) \in Nat /\ (row.hist = <<>> <=> Len(row.hist) = 0)
    BY RowShape
  <1>2. CASE req.op = "create" /\ row.hist = <<>>
    <2>1. Effect(row, req) = Created(row)
      BY <1>2 DEF Effect
    <2>2. PICK r \in Rows : r = Created(row) /\ r.id = row.id + 1 /\ Len(r.hist) = 1 /\ r.hist[1] = "created"
      BY <1>1, <1>2, FirstVersion
    <2>3. RowFits(req.key, r)
      BY <1>1, <2>2 DEF RowFits, Fits, Rows
    <2>4. Extends(row, r)
      BY <1>1, <1>2, <2>2 DEF Extends
    <2> QED BY <1>2, <2>1, <2>2, <2>3, <2>4
  <1>3. CASE req.op = "create" /\ row.hist # <<>>
    <2>1. Effect(row, req) = row
      BY <1>3 DEF Effect, Created
    <2> QED BY <1>1, <1>3, <2>1 DEF Extends
  <1>4. CASE req.op = "update" /\ Updatable(row, req)
    <2>1. Effect(row, req) = [row EXCEPT !.hist = Append(@, req.status)]
      BY <1>4 DEF Effect
    <2>2. req.status \in OpStatuses /\ Len(row.hist) = req.version /\ Fits(req.key, req.version + 1, req.status) /\ row.hist # <<>>
      BY <1>4 DEF RequestShape, Updatable, Fits, OpStatuses
    <2>3. PICK r \in Rows : /\ r = Effect(row, req) /\ r.id = row.id /\ Len(r.hist) = Len(row.hist) + 1
                            /\ \A v \in 1..Len(row.hist) : r.hist[v] = row.hist[v]
                            /\ r.hist[Len(row.hist) + 1] = req.status
      BY <1>1, <2>1, <2>2, NextVersion
    <2>4. \A v \in 1..Len(r.hist) : v \in 1..Len(row.hist) \/ v = req.version + 1
      BY <1>1, <2>2, <2>3
    <2>5. RowFits(req.key, r)
      <3>1. \A v \in 1..Len(r.hist) : Fits(req.key, v, r.hist[v])
        BY <2>2, <2>3, <2>4 DEF RowFits
      <3>2. r.id # 0
        BY <2>2, <2>3 DEF RowFits
      <3> QED BY <2>3, <3>1, <3>2 DEF RowFits
    <2>6. Extends(row, r)
      BY <1>1, <2>3 DEF Extends
    <2> QED BY <1>1, <1>4, <2>2, <2>3, <2>4, <2>5, <2>6
  <1>5. CASE req.op # "create" /\ ~ (req.op = "update" /\ Updatable(row, req))
    <2>1. Effect(row, req) = row
      BY <1>5 DEF Effect
    <2> QED BY <1>1, <1>5, <2>1 DEF Extends
  <1> QED BY <1>2, <1>3, <1>4, <1>5

(* The image of a row is the row's last version. *)
LEMMA Images ==
    ASSUME NEW k, NEW row, RowFits(k, row), row.hist # <<>>, NEW code \in {200, 201}
    PROVE  /\ Image(code, row) \in Answers /\ Image(code, row).code = code /\ Image(code, row).id = row.id
           /\ Image(code, row).version = Len(row.hist) /\ Image(code, row).status = row.hist[Len(row.hist)]
           /\ row.id # 0 /\ Len(row.hist) # 0 /\ Len(row.hist) \in 1..Len(row.hist) /\ Fits(k, Len(row.hist), row.hist[Len(row.hist)])
  <1>1. /\ row.id \in Nat /\ Len(row.hist) \in Nat /\ row.hist[Len(row.hist)] \in OpStatuses /\ Len(row.hist) \in 1..Len(row.hist)
        /\ row.id # 0 /\ Len(row.hist) # 0
    BY RowShape DEF RowFits
  <1>2. Image(code, row) = [code |-> code, id |-> row.id, version |-> Len(row.hist), status |-> row.hist[Len(row.hist)]]
    BY DEF Image
  <1>3. PICK id \in Nat, n \in Nat, status \in OpStatuses : id = row.id /\ n = Len(row.hist) /\ status = row.hist[Len(row.hist)]
    BY <1>1
  <1>4. Image(code, row) = [code |-> code, id |-> id, version |-> n, status |-> status]
    BY <1>2, <1>3, Zenon
  <1>5. Image(code, row) \in Answers
    BY <1>4 DEF Answers, Codes
  <1>6. Image(code, row).code = code /\ Image(code, row).id = id /\ Image(code, row).version = n /\ Image(code, row).status = status
    BY <1>4
  <1>7. Fits(k, Len(row.hist), row.hist[Len(row.hist)])
    BY <1>1 DEF RowFits
  <1> QED BY <1>1, <1>3, <1>5, <1>6, <1>7

(* An answer without an order. *)
LEMMA Refusals ==
    ASSUME NEW code \in Codes
    PROVE  /\ [Lost EXCEPT !.code = code] \in Answers /\ [Lost EXCEPT !.code = code].code = code
           /\ [Lost EXCEPT !.code = code].id = 0
  BY DEF Lost, Answers, Codes

LEMMA OutcomeFits ==
    ASSUME NEW req, RequestShape(req), NEW row, RowFits(req.key, row)
    PROVE  /\ Outcome(row, req) \in Answers
           /\ Shows(req, Outcome(row, req)) /\ req.op # "read" =>
                 /\ Outcome(row, req).version # 0
                 /\ Fits(req.key, Outcome(row, req).version, Outcome(row, req).status)
           /\ HasOrder(req, Outcome(row, req)) =>
                 /\ Outcome(row, req).version \in 1..Len(Effect(row, req).hist) /\ Outcome(row, req).id = Effect(row, req).id
                 /\ Outcome(row, req).status = Effect(row, req).hist[Outcome(row, req).version]
           /\ req.op = "update" /\ Outcome(row, req).code = 200 => Updatable(row, req)
           /\ req.op = "update" /\ Outcome(row, req).code = 409 => ~ Updatable(row, req)
           /\ req.op = "create" /\ row.hist = <<>> => Outcome(row, req).code = 201 /\ Outcome(row, req).version = 1
  <1>1. RowFits(req.key, Effect(row, req)) /\ req.op \in {"create", "update", "source", "read"}
    BY EffectExtends DEF RequestShape, Requests
  <1>2. CASE req.op = "create"
    <2>1. PICK code \in {200, 201} : code = (IF row.hist = <<>> THEN 201 ELSE 200)
      OBVIOUS
    <2>2. Outcome(row, req) = Image(code, Created(row)) /\ Effect(row, req) = Created(row)
      BY <1>2, <2>1 DEF Outcome, Effect
    <2>3. Created(row).hist # <<>>
      BY RowShape, FirstVersion DEF Created
    <2>4. /\ Outcome(row, req) \in Answers /\ Outcome(row, req).code = code /\ Outcome(row, req).id = Created(row).id
          /\ Outcome(row, req).version = Len(Created(row).hist) /\ Outcome(row, req).status = Created(row).hist[Len(Created(row).hist)]
          /\ Len(Created(row).hist) # 0 /\ Len(Created(row).hist) \in 1..Len(Created(row).hist)
          /\ Fits(req.key, Len(Created(row).hist), Created(row).hist[Len(Created(row).hist)])
      BY <1>1, <2>2, <2>3, Images
    <2>5. row.hist = <<>> => Len(Created(row).hist) = 1
      BY RowShape, FirstVersion
    <2> QED BY <1>2, <2>1, <2>2, <2>4, <2>5
  <1>3. CASE req.op = "update" /\ Updatable(row, req)
    <2>1. Outcome(row, req) = Image(200, Effect(row, req))
      BY <1>3 DEF Outcome
    <2>2. Effect(row, req).hist # <<>>
      <3>1. row.hist # <<>> /\ Len(row.hist) # 0 /\ Len(row.hist) \in Nat
        BY <1>3, RowShape DEF Updatable
      <3>2. Len(row.hist) <= Len(Effect(row, req).hist)
        BY EffectExtends DEF Extends
      <3>3. Len(Effect(row, req).hist) \in Nat /\ (Effect(row, req).hist = <<>> <=> Len(Effect(row, req).hist) = 0)
        BY <1>1, RowShape
      <3> QED BY <3>1, <3>2, <3>3
    <2>3. 200 \in {200, 201}
      OBVIOUS
    <2>4. /\ Outcome(row, req) \in Answers /\ Outcome(row, req).code = 200 /\ Outcome(row, req).id = Effect(row, req).id
          /\ Outcome(row, req).version = Len(Effect(row, req).hist)
          /\ Outcome(row, req).status = Effect(row, req).hist[Len(Effect(row, req).hist)]
          /\ Len(Effect(row, req).hist) # 0 /\ Len(Effect(row, req).hist) \in 1..Len(Effect(row, req).hist)
          /\ Fits(req.key, Len(Effect(row, req).hist), Effect(row, req).hist[Len(Effect(row, req).hist)])
      BY <1>1, <2>1, <2>2, <2>3, Images
    <2> QED BY <1>3, <2>4
  <1>4. CASE req.op = "update" /\ ~ Updatable(row, req)
    <2>1. PICK code \in {404, 409} : Outcome(row, req) = [Lost EXCEPT !.code = code]
      BY <1>4 DEF Outcome
    <2>2. code \in Codes
      BY DEF Codes
    <2>3. Outcome(row, req) \in Answers /\ Outcome(row, req).code = code
      BY <2>1, <2>2, Refusals
    <2> QED BY <1>4, <2>3 DEF Shows, HasOrder
  <1>5. CASE req.op \in {"source", "read"} /\ row.hist = <<>>
    <2>1. Outcome(row, req) = [Lost EXCEPT !.code = 200]
      BY <1>5 DEF Outcome
    <2>2. 200 \in Codes
      BY DEF Codes
    <2>3. Outcome(row, req) \in Answers /\ Outcome(row, req).id = 0
      BY <2>1, <2>2, Refusals
    <2> QED BY <1>5, <2>3 DEF Shows, HasOrder
  <1>6. CASE req.op \in {"source", "read"} /\ row.hist # <<>>
    <2>1. Outcome(row, req) = Image(200, row)
      BY <1>6 DEF Outcome
    <2>2. /\ Outcome(row, req) \in Answers /\ Outcome(row, req).version = Len(row.hist)
          /\ Outcome(row, req).status = row.hist[Len(row.hist)]
          /\ Len(row.hist) # 0 /\ Fits(req.key, Len(row.hist), row.hist[Len(row.hist)])
      BY <1>6, <2>1, Images
    <2> QED BY <1>6, <2>2 DEF HasOrder
  <1> QED BY <1>1, <1>2, <1>3, <1>4, <1>5, <1>6

-----------------------------------------------------------------------------
(* A step makes the store longer, unless it has forgotten, and the intents know more. *)

Grows(st, gone, its, op, st2, gone2, its2, op2) ==
    /\ gone \in BOOLEAN /\ gone2 \in BOOLEAN /\ op \in Nat /\ op2 \in Nat
    /\ StoreFits(st) /\ StoreFits(st2)
    /\ gone => gone2
    /\ ~ gone2 => \A k \in Places : Extends(st[k], st2[k])
    /\ \A k \in Places : (its[k].known => its2[k].known) /\ its[k].tried \subseteq its2[k].tried
    /\ op <= op2

LEMMA RequestKeeps ==
    ASSUME NEW its, NEW op \in Nat, NEW its2, NEW op2 \in Nat, op <= op2,
           \A k \in Places : (its[k].known => its2[k].known) /\ its[k].tried \subseteq its2[k].tried,
           NEW req, RequestFits(its, op, req)
    PROVE  RequestFits(its2, op2, req)
  <1>1. RequestShape(req) /\ req.key \in Places /\ req.key \in Int
    BY DEF RequestFits, RequestShape, Requests, Places
  <1>2. its[req.key].known => its2[req.key].known
    BY <1>1
  <1>3. its[req.key].tried \subseteq its2[req.key].tried
    BY <1>1
  <1> QED BY <1>1, <1>2, <1>3 DEF RequestFits

LEMMA AnswerKeeps ==
    ASSUME NEW st, NEW gone, NEW its, NEW op, NEW st2, NEW gone2, NEW its2, NEW op2,
           Grows(st, gone, its, op, st2, gone2, its2, op2),
           NEW req, RequestShape(req), NEW a, AnswerFits(st, gone, req, a)
    PROVE  AnswerFits(st2, gone2, req, a)
  <1>1. req.key \in Places /\ a.version \in Nat
    BY DEF RequestShape, Requests, AnswerFits, Answers
  <1>2. PICK k \in Places : k = req.key
    BY <1>1
  <1>3. Len(st[k].hist) \in Nat /\ Len(st2[k].hist) \in Nat /\ (st[k].hist = <<>> <=> Len(st[k].hist) = 0)
    BY <1>2, RowShape DEF Grows, StoreFits
  <1>4. ASSUME ~ gone2, HasOrder(req, a)
        PROVE  /\ a.version \in 1..Len(st2[k].hist) /\ a.id = st2[k].id /\ a.status = st2[k].hist[a.version]
    <2>1. ~ gone /\ Extends(st[k], st2[k])
      BY <1>2, <1>4 DEF Grows
    <2>2. a.version \in 1..Len(st[k].hist) /\ a.id = st[k].id /\ a.status = st[k].hist[a.version]
      BY <1>2, <1>4, <2>1 DEF AnswerFits
    <2> QED BY <1>3, <2>1, <2>2 DEF Extends
  <1> QED BY <1>2, <1>4 DEF AnswerFits

LEMMA CallKeeps ==
    ASSUME NEW st, NEW gone, NEW its, NEW op, NEW st2, NEW gone2, NEW its2, NEW op2,
           Grows(st, gone, its, op, st2, gone2, its2, op2),
           NEW call, CallFits(st, gone, its, op, call)
    PROVE  CallFits(st2, gone2, its2, op2, call)
  <1>1. call.at \in InCall => RequestFits(its2, op2, call.req) /\ RequestShape(call.req)
    BY RequestKeeps DEF Grows, CallFits, RequestFits
  <1>2. call.at = "answered" => call.at \in InCall
    BY DEF InCall
  <1>3. call.at = "answered" => AnswerFits(st2, gone2, call.req, call.answer)
    BY <1>1, <1>2, AnswerKeeps DEF CallFits
  <1> QED BY <1>1, <1>3 DEF CallFits

LEMMA LaneKeeps ==
    ASSUME NEW st, NEW gone, NEW its, NEW op, NEW st2, NEW gone2, NEW its2, NEW op2,
           Grows(st, gone, its, op, st2, gone2, its2, op2),
           NEW f, NEW l, LaneKnows(st, gone, its, op, f, l)
    PROVE  LaneKnows(st2, gone2, its2, op2, f, l)
  <1>1. \A s \in Sides : CallFits(st2, gone2, its2, op2, l[s])
    BY CallKeeps DEF LaneKnows
  <1>2. OwnKey(f) => f.n \in 1..MaxOps /\ f.n < op2
    BY SimAssumption DEF LaneKnows, Grows
  <1> QED BY <1>1, <1>2 DEF LaneKnows

(* A worker whose own order the step leaves alone knows what it knew. *)
LEMMA WorkerKeeps ==
    ASSUME NEW st, NEW gone, NEW its, NEW op, NEW st2, NEW gone2, NEW its2, NEW op2,
           Grows(st, gone, its, op, st2, gone2, its2, op2),
           NEW aside, NEW aside2, NEW f, NEW l, WorkerKnows(st, gone, its, op, aside, f, l),
           OwnKey(f) => st2[f.n] = st[f.n] \/ (gone2 /\ st[f.n].hist # <<>>),
           \A req \in aside2 : req \in aside \/ Detached(req, f, l)
    PROVE  WorkerKnows(st2, gone2, its2, op2, aside2, f, l)
  <1>1. LaneKnows(st2, gone2, its2, op2, f, l)
    BY LaneKeeps DEF WorkerKnows
  <1>2. gone => gone2
    BY DEF Grows
  <1>3. OwnRow(st2, gone2, f, l)
    BY <1>2 DEF WorkerKnows, OwnRow, Absent
  <1>4. RaceRow(st2, gone2, f, l)
    BY <1>2 DEF WorkerKnows, RaceRow, Racing, OwnKey
  <1>5. \A req \in aside2 : Detached(req, f, l)
    BY DEF WorkerKnows
  <1> QED BY <1>1, <1>3, <1>4, <1>5 DEF WorkerKnows

LEMMA Standing ==
    ASSUME SimInv
    PROVE  /\ StoreFits(store) /\ \A k \in Places : RowFits(k, store[k]) /\ store[k] \in Rows
           /\ IntentsFit(store, intent) /\ forgot \in BOOLEAN /\ plan.op \in Nat /\ plan.op >= 1 /\ plan.op <= MaxOps + 1
           /\ \A w \in Workers : WorkerKnows(store, forgot, intent, plan.op, astray, flow[w], lane[w])
           /\ \A req \in astray : RequestFits(intent, plan.op, req)
           /\ \A k \in Places : IntentFits(k, intent[k]) /\ CoversRow(intent[k], store[k])
  <1>1. plan.op \in Nat /\ plan.op \in 1..MaxOps + 1
    BY DEF SimInv, PlanAdds
  <1>2. MaxOps + 1 \in Nat
    BY SimAssumption
  <1>3. plan.op >= 1 /\ plan.op <= MaxOps + 1
    BY <1>1, <1>2
  <1>4. StoreFits(store) /\ \A k \in Places : RowFits(k, store[k]) /\ store[k] \in Rows
    BY DEF SimInv, StoreFits, RowFits
  <1>5. IntentsFit(store, intent) /\ \A k \in Places : IntentFits(k, intent[k]) /\ CoversRow(intent[k], store[k])
    BY DEF SimInv, IntentsFit
  <1>6. /\ forgot \in BOOLEAN
        /\ \A w \in Workers : WorkerKnows(store, forgot, intent, plan.op, astray, flow[w], lane[w])
        /\ \A req \in astray : RequestFits(intent, plan.op, req)
    BY DEF SimInv, SimTypes, WorkersKnow, AstrayFit
  <1> QED BY <1>1, <1>3, <1>4, <1>5, <1>6

(* A step that leaves the store alone. *)
LEMMA StoreStays ==
    ASSUME SimInv, store' = store, forgot' = forgot, plan'.op \in Nat, plan.op <= plan'.op,
           \A k \in Places : (intent[k].known => intent'[k].known) /\ intent[k].tried \subseteq intent'[k].tried
    PROVE  Grows(store, forgot, intent, plan.op, store', forgot', intent', plan'.op)
  <1>1. \A k \in Places : Extends(store[k], store[k])
    <2> SUFFICES ASSUME NEW k \in Places
                 PROVE  Extends(store[k], store[k])
      OBVIOUS
    <2>1. Len(store[k].hist) \in Nat
      BY Standing, RowShape
    <2> QED BY <2>1 DEF Extends
  <1> QED BY <1>1, Standing DEF Grows

(* A step of the projection or of the audit. *)
LEMMA QuietSteps ==
    ASSUME SimInv, UNCHANGED <<store, forgot, astray, intent, flow, lane, plan>>
    PROVE  /\ StoreFits(store') /\ IntentsFit(store', intent') /\ WorkersKnow' /\ OneOwner' /\ AstrayFit'
           /\ Unborn(store', intent', plan'.op) /\ ToldIsTrue' /\ PlanAdds' /\ forgot' \in BOOLEAN
  <1>1. StoreFits(store') /\ IntentsFit(store', intent') /\ Unborn(store', intent', plan'.op) /\ forgot' \in BOOLEAN
    BY DEF SimInv, SimTypes
  <1>2. WorkersKnow'
    BY DEF SimInv, WorkersKnow
  <1>3. OneOwner' /\ AstrayFit'
    BY DEF SimInv, OneOwner, AstrayFit
  <1>4. ToldIsTrue' /\ PlanAdds'
    BY DEF SimInv, ToldIsTrue, PlanAdds
  <1> QED BY <1>1, <1>2, <1>3, <1>4

(* Before the audit nothing of it is known; while a workflow runs there is no audit. *)
LEMMA NoAuditYet ==
    ASSUME SimInv, audit' = audit, audit.at = "none"
    PROVE  AuditKnows' /\ audit' = NotAuditing
  <1>1. audit' = NotAuditing /\ audit = NotAuditing
    BY DEF SimInv, AuditKnows
  <1>2. audit'.at = "none" /\ audit'.verdict = "none"
    BY <1>1 DEF NotAuditing
  <1>3. audit' \in Audits
    BY <1>1 DEF SimInv, AuditKnows
  <1> QED BY <1>1, <1>2, <1>3 DEF AuditKnows

LEMMA WorkingIsBefore ==
    ASSUME SimInv, NEW w \in Workers, flow[w] # NoFlow
    PROVE  audit.at = "none"
  BY DEF SimInv, AuditKnows

-----------------------------------------------------------------------------
(* The schedule moves on. *)

Plans == [op : Nat, admitted : Nat, skipped : Nat]

LEMMA PlanMoves ==
    ASSUME SimInv, plan' \in Plans, plan.op < plan'.op, plan'.op <= MaxOps + 1,
           plan'.admitted + plan'.skipped = plan'.op - 1, audit.at = "none",
           UNCHANGED <<store, shown, forgot, astray, intent, flow, lane, contract, audit>>
    PROVE  SimInv'
  <1>1. plan'.op \in Nat /\ plan.op <= plan'.op /\ plan'.op \in 1..MaxOps + 1 /\ PlanAdds'
    BY Standing, SimAssumption DEF Plans, PlanAdds
  <1>2. Grows(store, forgot, intent, plan.op, store', forgot', intent', plan'.op)
    BY <1>1, StoreStays
  <1>3. WorkersKnow'
    <2>1. ASSUME NEW w \in Workers
          PROVE  WorkerKnows(store', forgot', intent', plan'.op, astray', flow'[w], lane'[w])
      <3>1. WorkerKnows(store, forgot, intent, plan.op, astray, flow[w], lane[w])
        BY Standing
      <3>2. store'[flow[w].n] = store[flow[w].n] /\ astray' = astray /\ flow'[w] = flow[w] /\ lane'[w] = lane[w]
        OBVIOUS
      <3> QED BY <1>2, <3>1, <3>2, WorkerKeeps
    <2> QED BY <2>1 DEF SimInv, WorkersKnow
  <1>4. AstrayFit'
    <2>1. \A req \in astray : RequestFits(intent', plan'.op, req)
      BY <1>1, Standing, RequestKeeps
    <2> QED BY <2>1 DEF SimInv, AstrayFit
  <1>5. Unborn(store', intent', plan'.op)
    <2> SUFFICES ASSUME NEW k \in Places, k >= plan'.op, k # 0
                 PROVE  store[k] = Absent /\ intent[k] = NoIntent
      BY DEF Unborn
    <2>1. k >= plan.op
      BY <1>1, Standing DEF Places
    <2> QED BY <2>1 DEF SimInv, Unborn
  <1>6. SimTypes' /\ StoreFits(store') /\ IntentsFit(store', intent') /\ OneOwner' /\ ToldIsTrue' /\ NoFalseAlarm'
    BY DEF SimInv, SimTypes, OneOwner, ToldIsTrue, NoFalseAlarm
  <1>7. AuditKnows'
    BY NoAuditYet
  <1> QED BY <1>1, <1>3, <1>4, <1>5, <1>6, <1>7 DEF SimInv

LEMMA SkipsKeep ==
    ASSUME SimInv, SkipOp \/ EndOfTime
    PROVE  SimInv'
  <1>1. plan.op \in Nat /\ plan.op >= 1 /\ plan.op <= MaxOps /\ audit.at = "none" /\ MaxOps \in Nat
    BY Standing, SimAssumption DEF SkipOp, EndOfTime
  <1>2. PICK o \in Nat, m \in Nat, n \in Nat : plan = [op |-> o, admitted |-> m, skipped |-> n] /\ m + n = o - 1
    BY DEF SimInv, PlanAdds
  <1>3. o >= 1 /\ o <= MaxOps
    BY <1>1, <1>2
  <1>4. PICK p \in Nat, q \in Nat : plan' = [op |-> p, admitted |-> m, skipped |-> q] /\ o < p /\ p <= MaxOps + 1 /\ m + q = p - 1
    <2>1. CASE SkipOp
      <3>1. plan' = [op |-> o + 1, admitted |-> m, skipped |-> n + 1]
        BY <1>2, <2>1 DEF SkipOp
      <3> QED BY <1>1, <1>2, <1>3, <3>1
    <2>2. CASE EndOfTime
      <3>1. plan' = [op |-> MaxOps + 1, admitted |-> m, skipped |-> n + MaxOps - o + 1]
        BY <1>2, <2>2 DEF EndOfTime
      <3>2. n + MaxOps - o + 1 \in Nat /\ MaxOps + 1 \in Nat
        BY <1>1, <1>2, <1>3
      <3> QED BY <1>1, <1>2, <1>3, <3>1, <3>2
    <2> QED BY <2>1, <2>2
  <1>5. /\ plan' \in Plans /\ plan.op < plan'.op /\ plan'.op <= MaxOps + 1
        /\ plan'.admitted + plan'.skipped = plan'.op - 1
    BY <1>2, <1>4 DEF Plans
  <1>6. UNCHANGED <<store, shown, forgot, astray, intent, flow, lane, contract, audit>>
    BY DEF SkipOp, EndOfTime, simStore
  <1> QED BY <1>1, <1>5, <1>6, PlanMoves

-----------------------------------------------------------------------------
(* The projection, and the store that forgets. *)

LEMMA ProjectKeyKeeps ==
    ASSUME SimInv, NEW k \in Places, ProjectKey(k)
    PROVE  SimInv'
  <1>0. UNCHANGED <<store, forgot, astray, intent, flow, lane, plan, contract, audit>>
    BY DEF ProjectKey
  <1>1. /\ StoreFits(store') /\ IntentsFit(store', intent') /\ WorkersKnow' /\ OneOwner' /\ AstrayFit'
        /\ Unborn(store', intent', plan'.op) /\ ToldIsTrue' /\ PlanAdds' /\ forgot' \in BOOLEAN
    BY <1>0, QuietSteps
  <1>2. store[k].id \in Nat /\ Len(store[k].hist) \in Nat
    BY Standing, RowShape
  <1>3. Seen(store[k]) \in [id : Nat, version : Nat] /\ Seen(store[k]).id = store[k].id /\ Seen(store[k]).version = Len(store[k].hist)
    BY <1>2 DEF Seen
  <1>4. shown' = [shown EXCEPT ![k] = Seen(store[k])] /\ shown \in [Places -> [id : Nat, version : Nat]]
    BY DEF ProjectKey, SimInv, SimTypes
  <1>5. SimTypes'
    <2>1. shown' \in [Places -> [id : Nat, version : Nat]]
      BY <1>3, <1>4
    <2> QED BY <1>0, <1>1, <2>1 DEF SimInv, SimTypes
  <1>6. \A j \in Places : Passed(store[j], intent[j], shown[j]) => Passed(store[j], intent[j], shown'[j])
    <2> SUFFICES ASSUME NEW j \in Places, Passed(store[j], intent[j], shown[j])
                 PROVE  Passed(store[j], intent[j], shown'[j])
      OBVIOUS
    <2>1. CASE j = k
      <3>1. shown'[j] = Seen(store[j])
        BY <1>4, <2>1
      <3> QED BY <1>2, <1>3, <2>1, <3>1 DEF Passed
    <2>2. CASE j # k
      BY <1>4, <2>2
    <2> QED BY <2>1, <2>2
  <1>7. AuditKnows'
    <2>1. Remaining' = Remaining
      BY <1>0 DEF Remaining
    <2>2. audit.at \in {"lookup", "inspect"} /\ audit.ok =>
              \A j \in Places : j < audit.key => Passed(store[j], intent[j], shown'[j])
      BY <1>6 DEF SimInv, AuditKnows
    <2>3. audit.verdict = "consistent" => audit.at = "done" /\ \A j \in Places : Passed(store[j], intent[j], shown'[j])
      BY <1>6 DEF SimInv, AuditKnows
    <2> QED BY <1>0, <2>1, <2>2, <2>3 DEF SimInv, AuditKnows
  <1>8. NoFalseAlarm'
    BY <1>0 DEF SimInv, NoFalseAlarm
  <1> QED BY <1>1, <1>5, <1>7, <1>8 DEF SimInv

LEMMA ForgetKeeps ==
    ASSUME SimInv, NEW k \in Places, Forget(k)
    PROVE  SimInv'
  <1>0. /\ UNCHANGED <<shown, astray, intent, flow, lane, plan, contract, audit>>
        /\ audit.at = "none" /\ store[k].hist # <<>> /\ forgot' = TRUE
    BY DEF Forget
  <1>1. PICK n \in 0..Len(store[k].hist) - 1 : store' = [store EXCEPT ![k].hist = SubSeq(@, 1, n)]
    BY DEF Forget
  <1>2. PICK row \in Rows : row = store[k] /\ RowFits(k, row) /\ row.id # 0 /\ Len(row.hist) \in Nat /\ row.hist \in Seq(OpStatuses)
    BY <1>0, Standing, RowShape DEF RowFits
  <1>3. PICK h \in Seq(OpStatuses) : h = SubSeq(row.hist, 1, n) /\ Len(h) = n /\ \A v \in 1..n : h[v] = row.hist[v]
    <2>1. n \in Nat /\ n <= Len(row.hist)
      BY <1>1, <1>2
    <2>2. CASE n = 0
      <3>1. SubSeq(row.hist, 1, n) = <<>>
        BY <1>2, <2>2, SubSeqEmpty
      <3>2. <<>> \in Seq(OpStatuses) /\ Len(<<>>) = 0
        OBVIOUS
      <3>3. PICK g \in Seq(OpStatuses) : g = <<>> /\ Len(g) = 0
        BY <3>2, Zenon
      <3>4. Len(g) = n /\ \A v \in 1..n : g[v] = row.hist[v]
        BY <2>2, <3>3
      <3> QED BY <3>1, <3>3, <3>4, Zenon
    <2>3. CASE n # 0
      <3>1. /\ SubSeq(row.hist, 1, n) \in Seq(OpStatuses) /\ Len(SubSeq(row.hist, 1, n)) = n
            /\ \A v \in 1..n : SubSeq(row.hist, 1, n)[v] = row.hist[v]
        BY <1>2, <2>1, <2>3
      <3> QED BY <3>1
    <2> QED BY <2>2, <2>3
  <1>4. PICK r \in Rows : r = [id |-> row.id, hist |-> h]
    BY <1>2, <1>3 DEF Rows
  <1>5. store' = [store EXCEPT ![k] = r]
    <2>1. [row EXCEPT !.hist = h] = r
      BY <1>2, <1>4 DEF Rows
    <2>2. store' = [store EXCEPT ![k] = [row EXCEPT !.hist = h]]
      BY <1>1, <1>2, <1>3
    <2> QED BY <2>1, <2>2
  <1>6. RowFits(k, r)
    <2>1. \A v \in 1..Len(r.hist) : v \in 1..Len(row.hist) /\ r.hist[v] = row.hist[v]
      BY <1>1, <1>2, <1>3, <1>4
    <2> QED BY <1>2, <1>4, <2>1 DEF RowFits
  <1>7. StoreFits(store')
    BY <1>4, <1>5, <1>6, Standing DEF StoreFits
  <1>8. IntentsFit(store', intent')
    <2>1. CoversRow(intent[k], r)
      <3>1. \A v \in 2..Len(r.hist) : v \in 2..Len(row.hist) /\ r.hist[v] = row.hist[v]
        BY <1>1, <1>2, <1>3, <1>4
      <3> QED BY <1>2, <3>1, Standing DEF CoversRow
    <2>2. \A j \in Places : CoversRow(intent[j], store'[j])
      BY <1>5, <2>1, Standing DEF StoreFits
    <2> QED BY <1>0, <2>2, Standing DEF IntentsFit
  <1>9. Grows(store, forgot, intent, plan.op, store', forgot', intent', plan'.op)
    <2>1. plan'.op = plan.op /\ forgot' \in BOOLEAN /\ intent' = intent
      BY <1>0
    <2> QED BY <1>0, <1>7, <2>1, Standing DEF Grows
  <1>10. WorkersKnow'
    <2>1. ASSUME NEW w \in Workers
          PROVE  WorkerKnows(store', forgot', intent', plan'.op, astray', flow'[w], lane'[w])
      <3>1. WorkerKnows(store, forgot, intent, plan.op, astray, flow[w], lane[w])
        BY Standing
      <3>2. OwnKey(flow[w]) => store'[flow[w].n] = store[flow[w].n] \/ (forgot' /\ store[flow[w].n].hist # <<>>)
        <4>1. OwnKey(flow[w]) => flow[w].n \in Places
          BY <3>1 DEF WorkerKnows, LaneKnows, Places
        <4> QED BY <1>0, <1>5, <4>1, Standing DEF StoreFits
      <3>3. astray' = astray /\ flow'[w] = flow[w] /\ lane'[w] = lane[w]
        BY <1>0
      <3> QED BY <1>9, <3>1, <3>2, <3>3, WorkerKeeps
    <2> QED BY <1>0, <2>1 DEF SimInv, WorkersKnow
  <1>11. AstrayFit'
    <2>1. \A req \in astray : req.key # 0 /\ req.op = "create" => store'[req.key] = Absent
      <3> SUFFICES ASSUME NEW req \in astray, req.key # 0, req.op = "create"
                   PROVE  store'[req.key] = Absent
        OBVIOUS
      <3>1. store[req.key] = Absent /\ req.key \in Places
        BY Standing DEF SimInv, AstrayFit, RequestFits, RequestShape, Requests
      <3>2. req.key # k
        BY <1>0, <3>1 DEF Absent
      <3> QED BY <1>5, <3>1, <3>2, Standing DEF StoreFits
    <2> QED BY <1>0, <2>1 DEF SimInv, AstrayFit
  <1>12. Unborn(store', intent', plan'.op)
    <2> SUFFICES ASSUME NEW j \in Places, j >= plan.op, j # 0
                 PROVE  store'[j] = Absent /\ intent[j] = NoIntent
      BY <1>0 DEF Unborn
    <2>1. store[j] = Absent /\ intent[j] = NoIntent
      BY DEF SimInv, Unborn
    <2>2. j # k
      BY <1>0, <2>1 DEF Absent
    <2> QED BY <1>5, <2>1, <2>2, Standing DEF StoreFits
  <1>13. SimTypes' /\ OneOwner' /\ PlanAdds' /\ ToldIsTrue' /\ NoFalseAlarm'
    BY <1>0 DEF SimInv, SimTypes, OneOwner, PlanAdds, ToldIsTrue, NoFalseAlarm
  <1>14. AuditKnows'
    BY <1>0, NoAuditYet
  <1> QED BY <1>7, <1>8, <1>10, <1>11, <1>12, <1>13, <1>14 DEF SimInv

-----------------------------------------------------------------------------
(* The audit. *)

LEMMA AcksAreFew ==
    ASSUME NEW k, NEW i, IntentFits(k, i)
    PROVE  /\ DOMAIN i.acks \subseteq {1, 2, 3}
           /\ i.acks = <<>> <=> DOMAIN i.acks = {}
           /\ \A v \in DOMAIN i.acks : i.acks[v] = [id |-> i.acks[v].id, status |-> i.acks[v].status]
  <1>1. \A v \in DOMAIN i.acks : v \in {1, 2, 3}
    BY DEF IntentFits, Fits
  <1>2. i.acks = <<>> => DOMAIN i.acks = {}
    OBVIOUS
  <1>3. ASSUME DOMAIN i.acks = {}
        PROVE  i.acks = <<>>
    <2>1. i.acks \in [{} -> Marks]
      BY <1>3 DEF IntentFits
    <2>2. <<>> \in [{} -> Marks]
      OBVIOUS
    <2> QED BY <2>1, <2>2
  <1>4. \A v \in DOMAIN i.acks : i.acks[v] \in Marks
    BY DEF IntentFits
  <1>5. \A v \in DOMAIN i.acks : i.acks[v] = [id |-> i.acks[v].id, status |-> i.acks[v].status]
    BY <1>4 DEF Marks
  <1> QED BY <1>1, <1>2, <1>3, <1>5

LEMMA LatestIsGreatest ==
    ASSUME NEW acks, DOMAIN acks \subseteq {1, 2, 3}, DOMAIN acks # {}
    PROVE  Latest(acks) \in DOMAIN acks /\ \A u \in DOMAIN acks : u <= Latest(acks)
  <1>1. \E v \in DOMAIN acks : \A u \in DOMAIN acks : u <= v
    <2>1. CASE 3 \in DOMAIN acks
      BY <2>1
    <2>2. CASE 3 \notin DOMAIN acks /\ 2 \in DOMAIN acks
      BY <2>2
    <2>3. CASE 3 \notin DOMAIN acks /\ 2 \notin DOMAIN acks
      <3>1. DOMAIN acks = {1}
        BY <2>3
      <3> QED BY <3>1
    <2> QED BY <2>1, <2>2, <2>3
  <1> QED BY <1>1, Zenon DEF Latest

LEMMA AuditedIsFirst ==
    ASSUME Remaining # {}
    PROVE  /\ AuditedKey \in Remaining /\ AuditedKey \in Places /\ AuditedKey \in Nat
           /\ \A j \in Remaining : AuditedKey <= j
  <1>1. Remaining \subseteq Nat /\ Remaining \subseteq Places
    BY SimAssumption DEF Remaining, Places
  <1>2. \E k \in Remaining : \A j \in Remaining : k <= j
    <2>1. PICK k \in Remaining : \A j \in Remaining : ~ (<<j, k>> \in OpToRel(<, Nat))
      BY <1>1, NatLessThanWellFounded, WFMin
    <2>2. \A j \in Remaining : ~ (j < k)
      BY <1>1, <2>1 DEF OpToRel
    <2> QED BY <1>1, <2>2
  <1>3. AuditedKey \in Remaining /\ \A j \in Remaining : AuditedKey <= j
    BY <1>2, Zenon DEF AuditedKey
  <1> QED BY <1>1, <1>3

(* A key before the one audited next was never registered: it passes. *)
LEMMA OthersPass ==
    ASSUME SimInv, NEW n \in Nat, \A j \in Remaining : n <= j,
           audit.at \in {"lookup", "inspect"}, audit.ok, NEW k \in Places, k < n
    PROVE  Passed(store[k], intent[k], shown[k])
  <1>1. CASE k < audit.key
    BY <1>1 DEF SimInv, AuditKnows
  <1>2. CASE ~ (k < audit.key)
    <2>1. k \in Int /\ audit.key \in Nat
      BY DEF SimInv, AuditKnows, Audits, Places
    <2>2. k \notin Remaining
      BY <2>1
    <2>3. ~ intent[k].known
      BY <1>2, <2>1, <2>2 DEF Remaining
    <2>4. DOMAIN intent[k].acks = {}
      BY <2>3, Standing DEF IntentFits
    <2> QED BY <2>4 DEF Passed
  <1> QED BY <1>1, <1>2

LEMMA AuditMoves ==
    ASSUME SimInv, audit.at # "none", UNCHANGED <<store, shown, forgot, astray, intent, flow, lane, plan>>,
           audit' \in Audits, audit'.at # "none", contract' \subseteq ContractErrors,
           ~ forgot => contract' \subseteq {"no_workload_observed"} /\ audit'.wrong = {},
           audit'.at = "inspect" => Remaining' # {},
           audit'.at \in {"lookup", "inspect"} /\ audit'.ok =>
               \A k \in Places : k < audit'.key => Passed(store[k], intent[k], shown[k]),
           audit'.verdict = "consistent" => audit'.at = "done" /\ \A k \in Places : Passed(store[k], intent[k], shown[k])
    PROVE  SimInv'
  <1>1. /\ StoreFits(store') /\ IntentsFit(store', intent') /\ WorkersKnow' /\ OneOwner' /\ AstrayFit'
        /\ Unborn(store', intent', plan'.op) /\ ToldIsTrue' /\ PlanAdds'
    BY QuietSteps
  <1>2. SimTypes' /\ NoFalseAlarm'
    BY DEF SimInv, SimTypes, NoFalseAlarm
  <1>3. AuditKnows'
    BY DEF SimInv, AuditKnows
  <1> QED BY <1>1, <1>2, <1>3 DEF SimInv

LEMMA StartAuditKeeps ==
    ASSUME SimInv, StartAudit
    PROVE  SimInv'
  <1>0. /\ UNCHANGED <<store, shown, forgot, astray, intent, flow, lane, plan, contract>>
        /\ audit.at = "none" /\ plan.op > MaxOps /\ \A w \in Workers : flow[w] = NoFlow
    BY DEF StartAudit, simStore
  <1>1. audit = NotAuditing /\ audit \in Audits
    BY <1>0 DEF SimInv, AuditKnows
  <1>2. audit' = [audit EXCEPT !.at = "lookup"]
    BY DEF StartAudit
  <1>3. /\ audit'.at = "lookup" /\ audit'.wrong = {} /\ audit'.key = 0 /\ audit'.verdict = "none" /\ audit' \in Audits
    BY <1>1, <1>2 DEF Audits, NotAuditing
  <1>4. plan'.op = MaxOps + 1
    BY <1>0, Standing, SimAssumption
  <1>5. \A k \in Places : ~ (k < 0)
    BY DEF Places
  <1>6. AuditKnows'
    BY <1>0, <1>3, <1>4, <1>5 DEF AuditKnows
  <1>7. /\ StoreFits(store') /\ IntentsFit(store', intent') /\ WorkersKnow' /\ OneOwner' /\ AstrayFit'
        /\ Unborn(store', intent', plan'.op) /\ ToldIsTrue' /\ PlanAdds'
    BY <1>0, QuietSteps
  <1>8. SimTypes' /\ NoFalseAlarm'
    BY <1>0, <1>3 DEF SimInv, SimTypes, NoFalseAlarm
  <1> QED BY <1>6, <1>7, <1>8 DEF SimInv

(* The record of a row that has been looked at. *)
LEMMA RowRecorded ==
    ASSUME SimInv, Remaining # {}, NEW ok \in BOOLEAN, NEW wrong \in SUBSET Errors, AuditRow(ok, wrong)
    PROVE  /\ audit' \in Audits /\ audit'.at = "lookup" /\ audit'.key = AuditedKey + 1
           /\ audit'.wrong = audit.wrong \cup wrong /\ audit'.verdict = audit.verdict
           /\ audit'.ok => audit.ok /\ ok
  <1>1. audit \in Audits /\ audit.ok \in BOOLEAN /\ audit.wrong \in SUBSET Errors
    BY DEF SimInv, AuditKnows, Audits
  <1>2. PICK both \in BOOLEAN : both = (audit.ok /\ ok)
    OBVIOUS
  <1>3. PICK next \in Nat : next = AuditedKey + 1
    BY AuditedIsFirst
  <1>4. PICK all \in SUBSET Errors : all = audit.wrong \cup wrong
    BY <1>1
  <1>5. PICK none \in Rows : none = Absent
    <2>1. <<>> \in Seq(OpStatuses)
      OBVIOUS
    <2>2. PICK h \in Seq(OpStatuses) : h = <<>>
      BY <2>1, Zenon
    <2>3. Absent = [id |-> 0, hist |-> h]
      BY <2>2 DEF Absent
    <2> QED BY <2>3 DEF Rows
  <1>6. audit' = [audit EXCEPT !.at = "lookup", !.key = next, !.sql = none, !.ok = both, !.wrong = all]
    BY <1>2, <1>3, <1>4, <1>5 DEF AuditRow
  <1>7. /\ audit'.at = "lookup" /\ audit'.key = next /\ audit'.ok = both /\ audit'.wrong = all
        /\ audit'.verdict = audit.verdict
    BY <1>1, <1>6 DEF Audits
  <1>8. audit' \in Audits
    BY <1>1, <1>6 DEF Audits
  <1> QED BY <1>2, <1>3, <1>4, <1>7, <1>8

(* A row that was looked at: found right, it is right. *)
LEMMA RowAudited ==
    ASSUME SimInv, Remaining # {}, NEW ok \in BOOLEAN, NEW wrong \in SUBSET Errors, AuditRow(ok, wrong),
           audit.at \in {"lookup", "inspect"},
           UNCHANGED <<store, shown, forgot, astray, intent, flow, lane, plan, contract>>,
           ~ forgot => wrong = {},
           ok => Passed(store[AuditedKey], intent[AuditedKey], shown[AuditedKey])
    PROVE  SimInv'
  <1>1. /\ audit' \in Audits /\ audit'.at = "lookup" /\ audit'.key = AuditedKey + 1
        /\ audit'.wrong = audit.wrong \cup wrong /\ audit'.verdict = audit.verdict
        /\ audit'.ok => audit.ok /\ ok
    BY RowRecorded
  <1>2. AuditedKey \in Nat /\ AuditedKey \in Places /\ \A j \in Remaining : AuditedKey <= j
    BY AuditedIsFirst
  <1>3. ASSUME audit'.ok, NEW k \in Places, k < audit'.key
        PROVE  Passed(store[k], intent[k], shown[k])
    <2>1. CASE k = AuditedKey
      BY <1>1, <1>3, <2>1
    <2>2. CASE k # AuditedKey
      <3>1. k < AuditedKey
        BY <1>1, <1>2, <1>3, <2>2 DEF Places
      <3> QED BY <1>1, <1>2, <1>3, <3>1, OthersPass
    <2> QED BY <2>1, <2>2
  <1>4. audit'.verdict # "consistent"
    BY <1>1 DEF SimInv, AuditKnows
  <1>5. ~ forgot => contract' \subseteq {"no_workload_observed"} /\ audit'.wrong = {}
    BY <1>1 DEF SimInv, NoFalseAlarm
  <1>6. audit.at # "none" /\ audit'.at # "none" /\ audit'.at # "inspect" /\ contract' \subseteq ContractErrors
    BY <1>1 DEF SimInv, SimTypes
  <1> QED BY <1>1, <1>3, <1>4, <1>5, <1>6, AuditMoves

LEMMA AuditFailsKeeps ==
    ASSUME SimInv, AuditFails
    PROVE  SimInv'
  <1>1. FALSE \in BOOLEAN /\ {} \in SUBSET Errors
    OBVIOUS
  <1>2. /\ AuditRow(FALSE, {}) /\ Remaining # {} /\ audit.at \in {"lookup", "inspect"}
        /\ UNCHANGED <<store, shown, forgot, astray, intent, flow, lane, plan, contract>>
    BY DEF AuditFails, simStore
  <1> QED BY <1>1, <1>2, RowAudited

(* A store that forgot nothing has what an intent was told. *)
LEMMA NoErrors ==
    ASSUME SimInv, ~ forgot, NEW k \in Places
    PROVE  /\ SourceErrors(intent[k], store[k]) = {}
           /\ store[k].hist = <<>> => intent[k].acks = <<>>
  <1>1. Told(store[k], intent[k])
    BY DEF SimInv, ToldIsTrue
  <1>2. IntentFits(k, intent[k]) /\ CoversRow(intent[k], store[k]) /\ RowFits(k, store[k])
    BY Standing
  <1>3. Len(store[k].hist) \in Nat /\ (store[k].hist = <<>> <=> Len(store[k].hist) = 0)
    BY <1>2, RowShape
  <1>4. DOMAIN intent[k].acks \subseteq {1, 2, 3} /\ (intent[k].acks = <<>> <=> DOMAIN intent[k].acks = {})
    BY <1>2, AcksAreFew
  <1>5. store[k].hist = <<>> => intent[k].acks = <<>>
    BY <1>1, <1>3, <1>4 DEF Told
  <1>6. ~ (intent[k].ids # {} /\ intent[k].ids # {store[k].id})
    BY <1>1 DEF Told
  <1>7. ASSUME intent[k].acks # <<>>
        PROVE  LET n == Len(store[k].hist)
                   v == Latest(intent[k].acks)
               IN /\ ~ (n < v)
                  /\ ~ (n = v /\ intent[k].acks[v] # [id |-> store[k].id, status |-> store[k].hist[n]])
                  /\ ~ (n > v /\ <<n, store[k].hist[n]>> \notin intent[k].tried)
    <2>1. PICK v \in DOMAIN intent[k].acks : v = Latest(intent[k].acks)
      BY <1>4, <1>7, LatestIsGreatest
    <2>2. PICK n \in Nat : n = Len(store[k].hist)
      BY <1>3
    <2>3. v <= n /\ v \in {1, 2, 3} /\ intent[k].acks[v].status = store[k].hist[v]
      BY <1>1, <1>4, <2>2 DEF Told
    <2>4. intent[k].acks[v].id = store[k].id
      BY <1>1, <1>2 DEF Told, IntentFits
    <2>5. intent[k].acks[v] = [id |-> store[k].id, status |-> store[k].hist[v]]
      BY <1>2, <2>3, <2>4, AcksAreFew
    <2>6. n > v => <<n, store[k].hist[n]>> \in intent[k].tried
      BY <1>2, <2>2, <2>3 DEF CoversRow
    <2>7. ~ (n < v)
      BY <2>3
    <2> QED BY <2>1, <2>2, <2>5, <2>6, <2>7
  <1>8. SourceErrors(intent[k], store[k]) = {}
    BY <1>6, <1>7 DEF SourceErrors
  <1> QED BY <1>5, <1>8

(* What the latest acknowledged version says of the row says all. *)
LEMMA SoundRows ==
    ASSUME NEW k, NEW i, IntentFits(k, i), NEW row, RowFits(k, row), SourceErrors(i, row) = {}, NEW seen, seen = Seen(row)
    PROVE  Passed(row, i, seen)
  <1>1. Len(row.hist) \in Nat /\ row.hist \in Seq(OpStatuses)
    BY RowShape
  <1>2. DOMAIN i.acks \subseteq {1, 2, 3} /\ (i.acks = <<>> <=> DOMAIN i.acks = {})
    BY AcksAreFew
  <1> SUFFICES ASSUME NEW u \in DOMAIN i.acks
               PROVE  /\ u <= Len(row.hist)
                      /\ i.acks[u] = [id |-> row.id, status |-> row.hist[u]]
                      /\ seen.id = row.id /\ seen.version >= u
    BY DEF Passed
  <1>3. PICK v \in DOMAIN i.acks : v = Latest(i.acks) /\ u <= v
    BY <1>2, LatestIsGreatest
  <1>4. PICK n \in Nat : n = Len(row.hist)
    BY <1>1
  <1>5. i.acks # <<>>
    BY <1>2
  <1>6. ~ (i.ids # {} /\ i.ids # {row.id})
    BY DEF SourceErrors
  <1>7. ~ (n < v)
    BY <1>3, <1>4, <1>5 DEF SourceErrors
  <1>8. n = v => i.acks[v] = [id |-> row.id, status |-> row.hist[n]]
    BY <1>3, <1>4, <1>5 DEF SourceErrors
  <1>9. u \in {1, 2, 3} /\ v \in {1, 2, 3} /\ u <= n /\ u \in 1..n
    BY <1>2, <1>3, <1>7
  <1>10. i.acks[u].id = row.id
    BY <1>6 DEF IntentFits
  <1>11. i.acks[u].status = row.hist[u]
    <2>1. Fits(k, u, i.acks[u].status) /\ Fits(k, u, row.hist[u]) /\ Fits(k, n, row.hist[n])
      BY <1>4, <1>9 DEF IntentFits, RowFits
    <2>2. CASE u = n
      <3>1. v = n
        BY <1>3, <1>7, <1>9, <2>2
      <3> QED BY <1>8, <2>2, <3>1
    <2>3. CASE u # n
      BY <1>9, <2>1, <2>3 DEF Fits
    <2> QED BY <2>2, <2>3
  <1>12. i.acks[u] = [id |-> row.id, status |-> row.hist[u]]
    BY <1>10, <1>11, AcksAreFew
  <1>13. seen.id = row.id /\ seen.version = n
    BY <1>4 DEF Seen
  <1> QED BY <1>4, <1>9, <1>12, <1>13

LEMMA AuditLookupKeeps ==
    ASSUME SimInv, AuditLookup
    PROVE  SimInv'
  <1>0. /\ UNCHANGED <<store, shown, forgot, astray, intent, flow, lane, plan, contract>>
        /\ audit.at = "lookup" /\ Remaining # {}
    BY DEF AuditLookup, simStore
  <1>1. PICK k \in Places : k = AuditedKey
    BY <1>0, AuditedIsFirst
  <1>2. IntentFits(k, intent[k]) /\ RowFits(k, store[k])
    BY Standing
  <1>3. CASE store[k].hist = <<>> /\ intent[k].acks = <<>> /\ AuditRow(TRUE, {})
    <2>1. TRUE \in BOOLEAN /\ {} \in SUBSET Errors
      OBVIOUS
    <2>2. Passed(store[k], intent[k], shown[k])
      BY <1>2, <1>3, AcksAreFew DEF Passed
    <2> QED BY <1>0, <1>1, <1>3, <2>1, <2>2, RowAudited
  <1>4. CASE store[k].hist = <<>> /\ intent[k].acks # <<>> /\ AuditRow(FALSE, {"acknowledged_missing"})
    <2>1. FALSE \in BOOLEAN /\ {"acknowledged_missing"} \in SUBSET Errors
      BY DEF Errors
    <2>2. forgot
      BY <1>4, NoErrors
    <2> QED BY <1>0, <1>1, <1>4, <2>1, <2>2, RowAudited
  <1>5. CASE /\ store[k].hist # <<>>
             /\ audit' = [audit EXCEPT !.at = "inspect", !.sql = store[k],
                                       !.wrong = @ \cup SourceErrors(intent[k], store[k])]
    <2>1. audit \in Audits /\ store[k] \in Rows
      BY Standing DEF SimInv, AuditKnows
    <2>2. SourceErrors(intent[k], store[k]) \subseteq Errors
      BY DEF SourceErrors, Errors
    <2>3. PICK all \in SUBSET Errors : all = audit.wrong \cup SourceErrors(intent[k], store[k])
      BY <2>1, <2>2 DEF Audits
    <2>4. audit' = [audit EXCEPT !.at = "inspect", !.sql = store[k], !.wrong = all]
      BY <1>5, <2>3
    <2>5. /\ audit'.at = "inspect" /\ audit'.wrong = all /\ audit'.key = audit.key /\ audit'.ok = audit.ok
          /\ audit'.verdict = audit.verdict /\ audit' \in Audits
      BY <2>1, <2>4 DEF Audits
    <2>6. ~ forgot => contract' \subseteq {"no_workload_observed"} /\ audit'.wrong = {}
      BY <1>0, <2>3, <2>5, NoErrors DEF SimInv, NoFalseAlarm
    <2>7. Remaining' # {}
      BY <1>0, <2>5 DEF Remaining
    <2>8. audit'.verdict # "consistent"
      BY <1>0, <2>5 DEF SimInv, AuditKnows
    <2>9. audit'.ok => \A j \in Places : j < audit'.key => Passed(store[j], intent[j], shown[j])
      BY <1>0, <2>5 DEF SimInv, AuditKnows
    <2>10. audit.at # "none" /\ audit'.at # "none" /\ contract' \subseteq ContractErrors
      BY <1>0, <2>5 DEF SimInv, SimTypes
    <2> QED BY <1>0, <2>5, <2>6, <2>7, <2>8, <2>9, <2>10, AuditMoves
  <1>6. \/ store[k].hist = <<>> /\ intent[k].acks = <<>> /\ AuditRow(TRUE, {})
        \/ store[k].hist = <<>> /\ intent[k].acks # <<>> /\ AuditRow(FALSE, {"acknowledged_missing"})
        \/ /\ store[k].hist # <<>>
           /\ audit' = [audit EXCEPT !.at = "inspect", !.sql = store[k], !.wrong = @ \cup SourceErrors(intent[k], store[k])]
    BY <1>1 DEF AuditLookup
  <1> QED BY <1>3, <1>4, <1>5, <1>6

LEMMA AuditInspectKeeps ==
    ASSUME SimInv, NEW cache, AuditInspect(cache)
    PROVE  SimInv'
  <1>0. /\ UNCHANGED <<store, shown, forgot, astray, intent, flow, lane, plan, contract>>
        /\ audit.at = "inspect"
    BY DEF AuditInspect, simStore
  <1>1. Remaining # {}
    BY <1>0 DEF SimInv, AuditKnows
  <1>2. PICK k \in Places : k = AuditedKey
    BY <1>1, AuditedIsFirst
  <1>3. PICK ok \in BOOLEAN : /\ AuditRow(ok, {})
                              /\ ok => /\ SourceErrors(intent[k], audit.sql) = {}
                                       /\ store[k] = audit.sql /\ shown[k] = Seen(audit.sql)
    <2> DEFINE right == /\ SourceErrors(intent[k], audit.sql) = {}
                        /\ store[k] = audit.sql
                        /\ shown[k] = Seen(audit.sql)
                        /\ cache \in {"match", "missing"}
    <2>1. right \in BOOLEAN
      OBVIOUS
    <2>2. AuditRow(right, {})
      BY <1>2, Zenon DEF AuditInspect
    <2>3. right => SourceErrors(intent[k], audit.sql) = {} /\ store[k] = audit.sql /\ shown[k] = Seen(audit.sql)
      OBVIOUS
    <2> HIDE DEF right
    <2> QED BY <2>1, <2>2, <2>3, Zenon
  <1>4. ok => Passed(store[k], intent[k], shown[k])
    BY <1>3, SoundRows, Standing
  <1>5. {} \in SUBSET Errors
    OBVIOUS
  <1> QED BY <1>0, <1>1, <1>2, <1>3, <1>4, <1>5, RowAudited

(* The verdict is given, with the accounting of the plan. *)
LEMMA ConcludeKeeps ==
    ASSUME SimInv, NEW verdict \in {"consistent", "deadline_exceeded"}, Conclude(verdict),
           audit.at \in {"lookup", "inspect"},
           UNCHANGED <<store, shown, forgot, astray, intent, flow, lane, plan>>,
           verdict = "consistent" => \A k \in Places : Passed(store[k], intent[k], shown[k])
    PROVE  SimInv'
  <1>1. audit \in Audits /\ plan.op = MaxOps + 1
    BY DEF SimInv, AuditKnows
  <1>2. audit' = [audit EXCEPT !.at = "done", !.verdict = verdict]
    BY DEF Conclude
  <1>3. audit' \in Audits /\ audit'.at = "done" /\ audit'.verdict = verdict /\ audit'.wrong = audit.wrong
    BY <1>1, <1>2 DEF Audits
  <1>4. plan.admitted + plan.skipped = MaxOps
    BY <1>1, SimAssumption DEF SimInv, PlanAdds
  <1>5. contract' \subseteq contract \cup {"no_workload_observed"}
    BY <1>4 DEF Conclude
  <1>6. contract' \subseteq ContractErrors
    BY <1>5 DEF SimInv, SimTypes, ContractErrors
  <1>7. ~ forgot => contract' \subseteq {"no_workload_observed"} /\ audit'.wrong = {}
    BY <1>3, <1>5 DEF SimInv, NoFalseAlarm
  <1>8. /\ audit.at # "none" /\ audit'.at # "none" /\ audit'.at \notin {"lookup", "inspect"} /\ audit'.at # "inspect"
        /\ audit'.verdict = "consistent" => audit'.at = "done" /\ \A k \in Places : Passed(store[k], intent[k], shown[k])
    BY <1>3
  <1> QED BY <1>3, <1>6, <1>7, <1>8, AuditMoves

LEMMA DeadlineKeeps ==
    ASSUME SimInv, Deadline
    PROVE  SimInv'
  <1>1. /\ audit.at \in {"lookup", "inspect"} /\ Conclude("deadline_exceeded")
        /\ UNCHANGED <<store, shown, forgot, astray, intent, flow, lane, plan>>
    BY DEF Deadline, simStore
  <1>2. "deadline_exceeded" \in {"consistent", "deadline_exceeded"} /\ "deadline_exceeded" # "consistent"
    OBVIOUS
  <1> QED BY <1>1, <1>2, ConcludeKeeps

LEMMA RoundEndsKeeps ==
    ASSUME SimInv, RoundEnds
    PROVE  SimInv'
  <1>0. /\ audit.at = "lookup" /\ Remaining = {}
        /\ UNCHANGED <<store, shown, forgot, astray, intent, flow, lane, plan>>
    BY DEF RoundEnds, simStore
  <1>1. audit \in Audits /\ audit.streak \in Nat
    BY DEF SimInv, AuditKnows, Audits
  <1>2. PICK streak \in Nat : /\ streak >= 1 => audit.ok
                              /\ \/ streak >= 2 /\ Conclude("consistent")
                                 \/ /\ streak < 2
                                    /\ audit' = [audit EXCEPT !.key = 0, !.ok = TRUE, !.streak = streak]
                                    /\ UNCHANGED contract
    <2>1. CASE audit.ok /\ \E k \in Places : intent[k].acks # <<>>
      <3>1. PICK n \in Nat : n = audit.streak + 1
        BY <1>1
      <3>2. \/ n >= 2 /\ Conclude("consistent")
            \/ /\ n < 2
               /\ audit' = [audit EXCEPT !.key = 0, !.ok = TRUE, !.streak = n]
               /\ UNCHANGED contract
        BY <2>1, <3>1 DEF RoundEnds
      <3> QED BY <2>1, <3>2, Zenon
    <2>2. CASE ~ (audit.ok /\ \E k \in Places : intent[k].acks # <<>>)
      <3>1. PICK n \in Nat : n = 0
        OBVIOUS
      <3>2. \/ n >= 2 /\ Conclude("consistent")
            \/ /\ n < 2
               /\ audit' = [audit EXCEPT !.key = 0, !.ok = TRUE, !.streak = n]
               /\ UNCHANGED contract
        BY <2>2, <3>1 DEF RoundEnds
      <3>3. ~ (n >= 1)
        BY <3>1
      <3> QED BY <3>2, <3>3, Zenon
    <2> QED BY <2>1, <2>2
  <1>3. CASE streak >= 2 /\ Conclude("consistent")
    <2>1. audit.ok
      BY <1>2, <1>3
    <2>2. \A k \in Places : Passed(store[k], intent[k], shown[k])
      <3> SUFFICES ASSUME NEW k \in Places
                   PROVE  Passed(store[k], intent[k], shown[k])
        OBVIOUS
      <3>1. MaxOps + 1 \in Nat /\ k < MaxOps + 1
        BY SimAssumption DEF Places
      <3>2. \A j \in Remaining : MaxOps + 1 <= j
        BY <1>0
      <3> QED BY <1>0, <2>1, <3>1, <3>2, OthersPass
    <2>3. "consistent" \in {"consistent", "deadline_exceeded"}
      OBVIOUS
    <2> QED BY <1>0, <1>3, <2>2, <2>3, ConcludeKeeps
  <1>4. CASE /\ streak < 2
             /\ audit' = [audit EXCEPT !.key = 0, !.ok = TRUE, !.streak = streak]
             /\ UNCHANGED contract
    <2>1. TRUE \in BOOLEAN /\ 0 \in Nat
      OBVIOUS
    <2>2. /\ audit' \in Audits /\ audit'.at = "lookup" /\ audit'.key = 0 /\ audit'.wrong = audit.wrong
          /\ audit'.verdict = audit.verdict
      BY <1>0, <1>1, <1>4, <2>1 DEF Audits
    <2>3. \A k \in Places : ~ (k < audit'.key)
      BY <2>2 DEF Places
    <2>4. audit'.verdict # "consistent"
      BY <1>0, <2>2 DEF SimInv, AuditKnows
    <2>5. ~ forgot => contract' \subseteq {"no_workload_observed"} /\ audit'.wrong = {}
      BY <1>4, <2>2 DEF SimInv, NoFalseAlarm
    <2>6. audit.at # "none" /\ audit'.at # "none" /\ audit'.at # "inspect" /\ contract' \subseteq ContractErrors
      BY <1>0, <1>4, <2>2 DEF SimInv, SimTypes
    <2> QED BY <1>0, <2>2, <2>3, <2>4, <2>5, <2>6, AuditMoves
  <1> QED BY <1>2, <1>3, <1>4

-----------------------------------------------------------------------------
(* A step of one worker. *)

LEMMA WorkersStep ==
    ASSUME SimInv, NEW w \in Workers, NEW f2 \in Flows, NEW l2,
           flow' = [flow EXCEPT ![w] = f2], lane' = [lane EXCEPT ![w] = l2],
           Grows(store, forgot, intent, plan.op, store', forgot', intent', plan'.op),
           WorkerKnows(store', forgot', intent', plan'.op, astray', f2, l2),
           \A u \in Workers : u # w =>
               /\ OwnKey(flow[u]) => store'[flow[u].n] = store[flow[u].n]
               /\ \A req \in astray' : req \in astray \/ Detached(req, flow[u], lane[u])
               /\ OwnKey(f2) /\ OwnKey(flow[u]) => flow[u].n # f2.n
    PROVE  WorkersKnow' /\ OneOwner'
  <1>1. flow \in [Workers -> Flows] /\ lane = [u \in Workers |-> lane[u]]
    BY DEF SimInv, WorkersKnow
  <1>2. flow' \in [Workers -> Flows] /\ lane' = [u \in Workers |-> lane'[u]]
    BY <1>1
  <1>3. flow'[w] = f2 /\ lane'[w] = l2 /\ \A u \in Workers : u # w => flow'[u] = flow[u] /\ lane'[u] = lane[u]
    BY <1>1
  <1>4. ASSUME NEW u \in Workers
        PROVE  WorkerKnows(store', forgot', intent', plan'.op, astray', flow'[u], lane'[u])
    <2>1. CASE u = w
      BY <1>3, <2>1
    <2>2. CASE u # w
      <3>1. WorkerKnows(store, forgot, intent, plan.op, astray, flow[u], lane[u])
        BY Standing
      <3>2. OwnKey(flow[u]) => store'[flow[u].n] = store[flow[u].n]
        BY <2>2
      <3>3. \A req \in astray' : req \in astray \/ Detached(req, flow[u], lane[u])
        BY <2>2
      <3>4. WorkerKnows(store', forgot', intent', plan'.op, astray', flow[u], lane[u])
        BY <3>1, <3>2, <3>3, WorkerKeeps
      <3> QED BY <1>3, <2>2, <3>4
    <2> QED BY <2>1, <2>2
  <1>5. WorkersKnow'
    BY <1>2, <1>4 DEF WorkersKnow
  <1>6. OneOwner'
    <2> SUFFICES ASSUME NEW u \in Workers, NEW v \in Workers, OwnKey(flow'[u]), OwnKey(flow'[v]), flow'[u].n = flow'[v].n
                 PROVE  u = v
      BY DEF OneOwner
    <2>1. CASE u # w /\ v # w
      BY <1>3, <2>1 DEF SimInv, OneOwner
    <2>2. CASE u = w /\ v # w
      BY <1>3, <2>2
    <2>3. CASE u # w /\ v = w
      BY <1>3, <2>3
    <2> QED BY <2>1, <2>2, <2>3
  <1> QED BY <1>5, <1>6

(* One side of a lane. *)
LEMMA SideSet ==
    ASSUME NEW l, l = <<l[1], l[2]>>, NEW s \in Sides, NEW c
    PROVE  /\ [l EXCEPT ![s] = c] = <<[l EXCEPT ![s] = c][1], [l EXCEPT ![s] = c][2]>>
           /\ [l EXCEPT ![s] = c][s] = c
           /\ \A t \in Sides : t # s => [l EXCEPT ![s] = c][t] = l[t]
  <1>1. PICK a, b : l = <<a, b>> /\ l[1] = a /\ l[2] = b
    BY Zenon
  <1>2. CASE s = 1
    <2>1. [<<a, b>> EXCEPT ![1] = c] = <<c, b>>
      OBVIOUS
    <2>2. [l EXCEPT ![s] = c] = <<c, b>>
      BY <1>1, <1>2, <2>1
    <2>3. <<c, b>>[1] = c /\ <<c, b>>[2] = b
      OBVIOUS
    <2>4. \A t \in Sides : t # s => t = 2
      BY <1>2 DEF Sides
    <2> QED BY <1>1, <1>2, <2>2, <2>3, <2>4
  <1>3. CASE s = 2
    <2>1. [<<a, b>> EXCEPT ![2] = c] = <<a, c>>
      OBVIOUS
    <2>2. [l EXCEPT ![s] = c] = <<a, c>>
      BY <1>1, <1>3, <2>1
    <2>3. <<a, c>>[1] = a /\ <<a, c>>[2] = c
      OBVIOUS
    <2>4. \A t \in Sides : t # s => t = 1
      BY <1>3 DEF Sides
    <2> QED BY <1>1, <1>3, <2>2, <2>3, <2>4
  <1> QED BY <1>2, <1>3 DEF Sides

(* A call goes on with the same request. *)
LEMMA CallGoesOn ==
    ASSUME NEW f, NEW l, NEW m, LaneFits(f, l), NEW s \in Sides, l[s].at \in InCall,
           m[s].at \in InCall, m[s].req = l[s].req, \A t \in Sides : t # s => m[t] = l[t]
    PROVE  /\ LaneFits(f, m)
           /\ \A req : Detached(req, f, l) => Detached(req, f, m)
  <1>0. 1 \in Sides /\ 2 \in Sides /\ (s = 1 \/ s = 2)
    BY DEF Sides
  <1>1. NoCall.at \notin InCall /\ "ended" \notin InCall
    BY DEF NoCall, InCall
  <1>2. CASE f = NoFlow /\ l = <<NoCall, NoCall>>
    <2>1. l[s] = NoCall
      BY <1>0, <1>2
    <2> QED BY <1>1, <2>1
  <1>3. CASE f # NoFlow /\ ~ Racing(f) /\ l[2] = NoCall /\ l[1].at \in InCall /\ SingleCall(f, l[1].req)
    <2>1. s = 1
      BY <1>0, <1>1, <1>3
    <2>2. m[2] = NoCall /\ m[1].at \in InCall /\ m[1].req = l[1].req
      BY <1>0, <1>3, <2>1
    <2> QED BY <1>3, <2>2 DEF LaneFits, Detached
  <1>4. CASE f # NoFlow /\ Racing(f) /\ \A t \in Sides : RaceSide(f, t, l[t])
    <2>1. \A t \in Sides : RaceSide(f, t, m[t])
      BY <1>1, <1>4 DEF RaceSide
    <2>2. ASSUME NEW req, Detached(req, f, l)
          PROVE  Detached(req, f, m)
      BY <1>1, <2>2 DEF Detached
    <2> QED BY <1>4, <2>1, <2>2 DEF LaneFits
  <1> QED BY <1>2, <1>3, <1>4 DEF LaneFits

LEMMA SendCallKeeps ==
    ASSUME SimInv, NEW w \in Workers, NEW s \in Sides, SendCall(w, s)
    PROVE  SimInv'
  <1>0. /\ lane[w][s].at = "queued"
        /\ lane' = [lane EXCEPT ![w][s].at = "sent"]
        /\ UNCHANGED <<store, shown, forgot, astray, intent, flow, plan, contract, audit>>
    BY DEF SendCall, simStore
  <1>1. PICK f, l : f \in Flows /\ f = flow[w] /\ l = lane[w] /\ WorkerKnows(store, forgot, intent, plan.op, astray, f, l)
    BY DEF SimInv, WorkersKnow
  <1>2. /\ l = <<l[1], l[2]>> /\ LaneFits(f, l) /\ l[s].at \in InCall /\ l[s].at \in Unanswered
        /\ l[s] = [at |-> "queued", req |-> l[s].req] /\ CallFits(store, forgot, intent, plan.op, l[s])
    BY <1>0, <1>1 DEF WorkerKnows, LaneKnows, CallFits, InCall, Unanswered
  <1>3. PICK r : l[s].req = r /\ l[s] = [at |-> "queued", req |-> r]
    BY <1>2
  <1>4. PICK c : c = [at |-> "sent", req |-> r] /\ c.at = "sent" /\ c.req = r
    <2>1. [at |-> "sent", req |-> r].at = "sent" /\ [at |-> "sent", req |-> r].req = r
      OBVIOUS
    <2> QED BY <2>1, Zenon
  <1>5. PICK m : m = [l EXCEPT ![s] = c]
    OBVIOUS
  <1>6. lane' = [lane EXCEPT ![w] = m]
    <2>1. [l[s] EXCEPT !.at = "sent"] = c
      BY <1>3, <1>4
    <2>2. lane' = [lane EXCEPT ![w] = [l EXCEPT ![s] = [l[s] EXCEPT !.at = "sent"]]]
      BY <1>0, <1>1
    <2> QED BY <1>5, <2>1, <2>2
  <1>7. m = <<m[1], m[2]>> /\ m[s] = c /\ \A t \in Sides : t # s => m[t] = l[t]
    BY <1>2, <1>5, SideSet
  <1>8. c.at \in InCall /\ c.at \in Unanswered /\ c.at # "answered" /\ c.at # "ended"
    BY <1>4 DEF InCall, Unanswered
  <1>9. LaneFits(f, m) /\ \A req : Detached(req, f, l) => Detached(req, f, m)
    BY <1>2, <1>3, <1>4, <1>7, <1>8, CallGoesOn
  <1>10. CallFits(store, forgot, intent, plan.op, c)
    BY <1>2, <1>3, <1>4, <1>8 DEF CallFits
  <1>11. LaneKnows(store, forgot, intent, plan.op, f, m)
    BY <1>1, <1>7, <1>9, <1>10 DEF WorkerKnows, LaneKnows
  <1>12. OwnRow(store, forgot, f, m)
    <2>1. 1 \in Sides
      BY DEF Sides
    <2>2. CASE s = 1
      BY <1>1, <1>2, <1>7, <1>8, <2>2 DEF WorkerKnows, OwnRow
    <2>3. CASE s # 1
      BY <1>1, <1>7, <2>1, <2>3 DEF WorkerKnows, OwnRow
    <2> QED BY <2>2, <2>3
  <1>13. RaceRow(store, forgot, f, m)
    <2> SUFFICES ASSUME ~ forgot, Racing(f), NEW t \in Sides
                 PROVE  SideKnows(store[f.n], t, m[t])
      BY <1>1 DEF WorkerKnows, RaceRow
    <2>1. SideKnows(store[f.n], t, l[t])
      BY <1>1 DEF WorkerKnows, RaceRow
    <2>2. CASE t = s
      BY <1>2, <1>3, <1>4, <1>7, <1>8, <2>1, <2>2 DEF SideKnows
    <2>3. CASE t # s
      BY <1>7, <2>1, <2>3
    <2> QED BY <2>2, <2>3
  <1>14. WorkerKnows(store, forgot, intent, plan.op, astray, f, m)
    BY <1>1, <1>9, <1>11, <1>12, <1>13 DEF WorkerKnows
  <1>15. Grows(store, forgot, intent, plan.op, store', forgot', intent', plan'.op)
    BY <1>0, Standing, StoreStays
  <1>16. WorkersKnow' /\ OneOwner'
    <2>1. flow' = [flow EXCEPT ![w] = f]
      BY <1>0, <1>1 DEF SimInv, WorkersKnow
    <2>2. WorkerKnows(store', forgot', intent', plan'.op, astray', f, m)
      BY <1>0, <1>14
    <2>3. \A u \in Workers : u # w =>
               /\ OwnKey(flow[u]) => store'[flow[u].n] = store[flow[u].n]
               /\ \A req \in astray' : req \in astray \/ Detached(req, flow[u], lane[u])
               /\ OwnKey(f) /\ OwnKey(flow[u]) => flow[u].n # f.n
      BY <1>0, <1>1 DEF SimInv, OneOwner
    <2> QED BY <1>1, <1>6, <1>15, <2>1, <2>2, <2>3, WorkersStep
  <1>17. /\ SimTypes' /\ StoreFits(store') /\ IntentsFit(store', intent') /\ AstrayFit'
         /\ Unborn(store', intent', plan'.op) /\ ToldIsTrue' /\ PlanAdds' /\ NoFalseAlarm'
    BY <1>0 DEF SimInv, SimTypes, AstrayFit, ToldIsTrue, PlanAdds, NoFalseAlarm
  <1>18. AuditKnows'
    <2>1. flow[w] # NoFlow
      <3>1. l # <<NoCall, NoCall>>
        <4>1. l = <<NoCall, NoCall>> => l[1] = NoCall /\ l[2] = NoCall
          OBVIOUS
        <4> QED BY <1>2, <1>0, <1>1, <4>1 DEF NoCall, Sides
      <3> QED BY <1>1, <1>2, <3>1 DEF LaneFits
    <2> QED BY <1>0, <2>1, WorkingIsBefore, NoAuditYet
  <1> QED BY <1>16, <1>17, <1>18 DEF SimInv

-----------------------------------------------------------------------------
(* A request is served. *)

(* The row two updates race for. *)
LEMMA RaceRows ==
    ASSUME NEW k \in Places, k # 0, NEW row, RowFits(k, row), row.hist # <<>>, NEW s \in Sides,
           NEW req, RequestShape(req), req.key = k, req.op = "update", req.status = StatusOf(s)
    PROVE  /\ req.version = 1 /\ Len(row.hist) \in {1, 2}
           /\ Effect(row, req).hist # <<>> /\ Effect(row, req).id = row.id
           /\ Updatable(row, req) =>
                 Len(row.hist) = 1 /\ Len(Effect(row, req).hist) = 2 /\ Effect(row, req).hist[2] = req.status
           /\ ~ Updatable(row, req) => Effect(row, req) = row /\ (req.id = row.id => Len(row.hist) = 2)
  <1>1. row \in Rows /\ Len(row.hist) \in Nat /\ Len(row.hist) # 0 /\ Len(row.hist) \in 1..Len(row.hist) /\ row.hist[1] = "created"
    BY RowShape
  <1>2. req.version \in Nat /\ Fits(k, req.version + 1, req.status) /\ req.version # 0 /\ req.status \in OpStatuses
    BY DEF RequestShape, Requests, StatusOf, OpStatuses
  <1>3. req.version = 1
    BY <1>2 DEF Fits
  <1>4. Len(row.hist) \in {1, 2}
    <2>1. Fits(k, Len(row.hist), row.hist[Len(row.hist)])
      BY <1>1 DEF RowFits
    <2> QED BY <1>1, <2>1 DEF Fits
  <1>5. Extends(row, Effect(row, req)) /\ RowFits(k, Effect(row, req))
    BY EffectExtends
  <1>6. Effect(row, req).hist # <<>> /\ Effect(row, req).id = row.id
    <2>1. Len(Effect(row, req).hist) \in Nat /\ (Effect(row, req).hist = <<>> <=> Len(Effect(row, req).hist) = 0)
      BY <1>5, RowShape
    <2> QED BY <1>1, <1>5, <2>1 DEF Extends
  <1>7. ASSUME Updatable(row, req)
        PROVE  Len(row.hist) = 1 /\ Len(Effect(row, req).hist) = 2 /\ Effect(row, req).hist[2] = req.status
    <2>1. Len(row.hist) = 1
      BY <1>3, <1>7 DEF Updatable
    <2>2. Effect(row, req) = [row EXCEPT !.hist = Append(@, req.status)]
      BY <1>7 DEF Effect
    <2>3. Len(Effect(row, req).hist) = Len(row.hist) + 1 /\ Effect(row, req).hist[Len(row.hist) + 1] = req.status
      BY <1>1, <1>2, <2>2, NextVersion
    <2> QED BY <2>1, <2>3
  <1>8. ASSUME ~ Updatable(row, req)
        PROVE  Effect(row, req) = row /\ (req.id = row.id => Len(row.hist) = 2)
    <2>1. Effect(row, req) = row
      BY <1>8 DEF Effect
    <2>2. MayBecome("created", req.status)
      BY DEF MayBecome, StatusOf
    <2>3. req.id = row.id => Len(row.hist) # 1
      BY <1>1, <1>3, <1>8, <2>2 DEF Updatable
    <2> QED BY <1>4, <2>1, <2>3
  <1> QED BY <1>3, <1>4, <1>6, <1>7, <1>8

(* What a side knows after the update of the other side, or its own without a client, was served. *)
LEMMA RaceServed ==
    ASSUME NEW k \in Places, k # 0, NEW row, RowFits(k, row), row.hist # <<>>, NEW s \in Sides,
           NEW req, RequestShape(req), req.key = k, req.op = "update", req.status = StatusOf(s),
           NEW t \in Sides, NEW call, SideKnows(row, t, call), t # s \/ (call.at = "ended" /\ call.code = 0)
    PROVE  SideKnows(Effect(row, req), t, call)
  <1>1. CASE ~ Updatable(row, req)
    <2>1. Effect(row, req) = row
      BY <1>1, RaceRows
    <2> QED BY <2>1
  <1>2. CASE Updatable(row, req)
    <2>1. PICK r : /\ r = Effect(row, req) /\ Len(row.hist) = 1 /\ Len(r.hist) = 2
                   /\ r.hist[2] = StatusOf(s) /\ r.id = row.id
      BY <1>2, RaceRows
    <2>2. t # s => StatusOf(t) # StatusOf(s)
      BY DEF StatusOf, Sides
    <2>3. ~ (Len(row.hist) = 2)
      BY <2>1
    <2>4. call.at \in {"answered", "ended"} => CodeOf(call) # 200 /\ CodeOf(call) # 409
      BY <2>3 DEF SideKnows
    <2>5. call.at = "ended" => call.at \notin Unanswered
      BY DEF Unanswered
    <2>6. call.at \in Unanswered => r.hist[2] # StatusOf(t)
      BY <2>1, <2>2, <2>5
    <2> QED BY <2>1, <2>4, <2>6 DEF SideKnows
  <1> QED BY <1>1, <1>2

(* What a side knows after its own update was served. *)
LEMMA RaceAnswered ==
    ASSUME NEW k \in Places, k # 0, NEW row, RowFits(k, row), row.hist # <<>>, NEW s \in Sides,
           NEW req, RequestShape(req), req.key = k, req.op = "update", req.status = StatusOf(s),
           NEW call, call.at \in Unanswered, call.req = req, SideKnows(row, s, call),
           NEW c, c.at = "answered", c.req = req, c.answer = Outcome(row, req)
    PROVE  SideKnows(Effect(row, req), s, c)
  <1>1. req.id = row.id /\ (Len(row.hist) = 2 => row.hist[2] # StatusOf(s))
    BY DEF SideKnows, Unanswered, InCall
  <1>2. Outcome(row, req).code = 200 => Updatable(row, req)
    BY OutcomeFits
  <1>3. Outcome(row, req).code = 409 => ~ Updatable(row, req)
    BY OutcomeFits
  <1>4. CodeOf(c) = Outcome(row, req).code
    BY DEF CodeOf
  <1>5. Effect(row, req).id = row.id
    BY RaceRows
  <1>6. Updatable(row, req) => Len(Effect(row, req).hist) = 2 /\ Effect(row, req).hist[2] = StatusOf(s)
    BY RaceRows
  <1>7. ~ Updatable(row, req) => Len(Effect(row, req).hist) = 2 /\ Effect(row, req).hist[2] # StatusOf(s)
    <2>1. ~ Updatable(row, req) => Effect(row, req) = row /\ (req.id = row.id => Len(row.hist) = 2)
      BY RaceRows
    <2> QED BY <1>1, <2>1
  <1>8. c.at \notin Unanswered
    BY DEF Unanswered
  <1> QED BY <1>1, <1>2, <1>3, <1>4, <1>5, <1>6, <1>7, <1>8 DEF SideKnows

(* What was told stays true of a longer row, and what was found right stays right. *)
LEMMA RowsGrow ==
    ASSUME NEW k \in Places, NEW row, RowFits(k, row), NEW r, RowFits(k, r), Extends(row, r), NEW i, IntentFits(k, i)
    PROVE  /\ Told(row, i) => Told(r, i)
           /\ \A seen : Passed(row, i, seen) => Passed(r, i, seen)
  <1>1. /\ Len(row.hist) \in Nat /\ (row.hist = <<>> <=> Len(row.hist) = 0)
        /\ Len(r.hist) \in Nat /\ (r.hist = <<>> <=> Len(r.hist) = 0)
    BY RowShape
  <1>2. \A v \in DOMAIN i.acks : v \in {1, 2, 3}
    BY AcksAreFew
  <1>3. ASSUME NEW v \in DOMAIN i.acks, v <= Len(row.hist)
        PROVE  v <= Len(r.hist) /\ r.hist[v] = row.hist[v] /\ r.id = row.id
    <2>1. v \in {1, 2, 3} /\ v \in 1..Len(row.hist) /\ row.hist # <<>>
      BY <1>1, <1>2, <1>3
    <2> QED BY <1>1, <1>3, <2>1 DEF Extends
  <1>4. Told(row, i) => Told(r, i)
    <2> SUFFICES ASSUME Told(row, i)
                 PROVE  Told(r, i)
      OBVIOUS
    <2>1. \A v \in DOMAIN i.acks : v <= Len(r.hist) /\ i.acks[v].status = r.hist[v]
      BY <1>3 DEF Told
    <2>2. CASE row.hist = <<>>
      BY <2>1, <2>2 DEF Told
    <2>3. CASE row.hist # <<>>
      <3>1. r.id = row.id /\ r.hist # <<>>
        BY <1>1, <2>3 DEF Extends
      <3> QED BY <2>1, <3>1 DEF Told
    <2> QED BY <2>2, <2>3
  <1>5. ASSUME NEW seen, Passed(row, i, seen)
        PROVE  Passed(r, i, seen)
    BY <1>3, <1>5 DEF Passed
  <1> QED BY <1>4, <1>5

(* What holds of the store and of the intents when a request has been served. *)
LEMMA ServedStore ==
    ASSUME SimInv, NEW req, RequestFits(intent, plan.op, req),
           store' = [store EXCEPT ![req.key] = Effect(@, req)],
           UNCHANGED <<shown, forgot, intent, plan, audit, contract, flow>>
    PROVE  /\ req.key \in Places /\ store'[req.key] = Effect(store[req.key], req)
           /\ \A k \in Places : k # req.key => store'[k] = store[k]
           /\ Grows(store, forgot, intent, plan.op, store', forgot', intent', plan'.op)
           /\ StoreFits(store') /\ IntentsFit(store', intent') /\ Unborn(store', intent', plan'.op) /\ ToldIsTrue'
           /\ SimTypes' /\ PlanAdds' /\ NoFalseAlarm' /\ AuditKnows'
  <1>1. RequestShape(req) /\ req.key \in Places
    BY DEF RequestFits, RequestShape, Requests
  <1>2. PICK k \in Places, row \in Rows : k = req.key /\ row = store[k] /\ RowFits(k, row)
    BY <1>1, Standing
  <1>3. PICK r : r = Effect(row, req)
    OBVIOUS
  <1>4. /\ RowFits(k, r) /\ Extends(row, r) /\ r \in Rows
        /\ \A v \in 2..Len(r.hist) : v <= Len(row.hist) \/ (req.op = "update" /\ v = req.version + 1 /\ r.hist[v] = req.status)
        /\ Len(row.hist) \in Nat
    BY <1>1, <1>2, <1>3, EffectExtends, RowShape DEF RowFits
  <1>5. store' = [store EXCEPT ![k] = r] /\ store \in [Places -> Rows]
    BY <1>2, <1>3, Standing DEF StoreFits
  <1>6. store'[k] = r /\ \A j \in Places : j # k => store'[j] = store[j]
    BY <1>5
  <1>7. StoreFits(store')
    BY <1>4, <1>5, <1>6, Standing DEF StoreFits
  <1>8. \A j \in Places : Extends(store[j], store'[j])
    <2> SUFFICES ASSUME NEW j \in Places
                 PROVE  Extends(store[j], store'[j])
      OBVIOUS
    <2>1. CASE j = k
      BY <1>2, <1>4, <1>6, <2>1
    <2>2. CASE j # k
      <3>1. Len(store[j].hist) \in Nat
        BY Standing, RowShape
      <3> QED BY <1>6, <2>2, <3>1 DEF Extends
    <2> QED BY <2>1, <2>2
  <1>9. Grows(store, forgot, intent, plan.op, store', forgot', intent', plan'.op)
    BY <1>7, <1>8, Standing DEF Grows
  <1>10. IntentsFit(store', intent')
    <2>1. CoversRow(intent[k], r)
      <3> SUFFICES ASSUME NEW v \in 2..Len(r.hist)
                   PROVE  <<v, r.hist[v]>> \in intent[k].tried
        BY DEF CoversRow
      <3>1. CASE v <= Len(row.hist)
        <4>1. v \in 2..Len(row.hist) /\ v \in 1..Len(row.hist)
          BY <1>4, <3>1
        <4>2. <<v, row.hist[v]>> \in intent[k].tried
          BY <1>2, <4>1, Standing DEF CoversRow
        <4> QED BY <1>4, <4>1, <4>2 DEF Extends
      <3>2. CASE req.op = "update" /\ v = req.version + 1 /\ r.hist[v] = req.status
        BY <1>2, <3>2 DEF RequestFits
      <3> QED BY <1>4, <3>1, <3>2
    <2>2. \A j \in Places : IntentFits(j, intent[j]) /\ CoversRow(intent[j], store'[j])
      BY <1>6, <2>1, Standing
    <2> QED BY <2>2, Standing DEF IntentsFit
  <1>11. Unborn(store', intent', plan'.op)
    <2> SUFFICES ASSUME NEW j \in Places, j >= plan.op, j # 0
                 PROVE  store'[j] = Absent /\ intent[j] = NoIntent
      BY DEF Unborn
    <2>1. store[j] = Absent /\ intent[j] = NoIntent
      BY DEF SimInv, Unborn
    <2>2. j # k
      BY <1>2, Standing DEF RequestFits, Places
    <2> QED BY <1>6, <2>1, <2>2
  <1>12. \A j \in Places : /\ Told(store[j], intent[j]) => Told(store'[j], intent[j])
                           /\ \A seen : Passed(store[j], intent[j], seen) => Passed(store'[j], intent[j], seen)
    BY <1>7, <1>8, Standing, RowsGrow DEF StoreFits
  <1>13. ToldIsTrue'
    BY <1>12 DEF SimInv, ToldIsTrue
  <1>14. SimTypes' /\ PlanAdds' /\ NoFalseAlarm'
    BY DEF SimInv, SimTypes, PlanAdds, NoFalseAlarm
  <1>15. AuditKnows'
    <2>1. Remaining' = Remaining
      BY DEF Remaining
    <2>2. audit.at \in {"lookup", "inspect"} /\ audit.ok =>
              \A j \in Places : j < audit.key => Passed(store'[j], intent[j], shown[j])
      BY <1>12 DEF SimInv, AuditKnows
    <2>3. audit.verdict = "consistent" => audit.at = "done" /\ \A j \in Places : Passed(store'[j], intent[j], shown[j])
      BY <1>12 DEF SimInv, AuditKnows
    <2> QED BY <2>1, <2>2, <2>3 DEF SimInv, AuditKnows
  <1> QED BY <1>2, <1>3, <1>6, <1>7, <1>9, <1>10, <1>11, <1>13, <1>14, <1>15

LEMMA ServeAstrayKeeps ==
    ASSUME SimInv, NEW req \in astray, ServeAstray(req)
    PROVE  SimInv'
  <1>0. /\ astray' = astray \ {req} /\ store' = [store EXCEPT ![req.key] = Effect(@, req)]
        /\ UNCHANGED <<shown, forgot, intent, plan, audit, contract, flow, lane>>
    BY DEF ServeAstray
  <1>1. RequestFits(intent, plan.op, req) /\ RequestShape(req)
    BY Standing DEF RequestFits
  <1>2. /\ req.key \in Places /\ store'[req.key] = Effect(store[req.key], req)
        /\ \A k \in Places : k # req.key => store'[k] = store[k]
        /\ Grows(store, forgot, intent, plan.op, store', forgot', intent', plan'.op)
        /\ StoreFits(store') /\ IntentsFit(store', intent') /\ Unborn(store', intent', plan'.op) /\ ToldIsTrue'
        /\ SimTypes' /\ PlanAdds' /\ NoFalseAlarm' /\ AuditKnows'
    BY <1>0, <1>1, ServedStore
  <1>3. ASSUME NEW w \in Workers
        PROVE  WorkerKnows(store', forgot', intent', plan'.op, astray', flow'[w], lane'[w])
    <2>1. PICK f, l : f = flow[w] /\ l = lane[w] /\ WorkerKnows(store, forgot, intent, plan.op, astray, f, l)
      BY Standing
    <2>2. OwnKey(f) => f.n \in Places /\ f.n # 0
      BY <2>1, SimAssumption DEF WorkerKnows, LaneKnows, Places
    <2>3. \A r \in astray' : r \in astray \/ Detached(r, f, l)
      BY <1>0
    <2>4. CASE ~ (OwnKey(f) /\ req.key = f.n)
      <3>1. OwnKey(f) => store'[f.n] = store[f.n]
        BY <1>2, <2>2, <2>4
      <3>2. WorkerKnows(store', forgot', intent', plan'.op, astray', f, l)
        BY <1>2, <2>1, <2>3, <3>1, WorkerKeeps
      <3> QED BY <1>0, <2>1, <3>2
    <2>5. CASE OwnKey(f) /\ req.key = f.n
      <3>1. /\ Racing(f) /\ req.op = "update"
            /\ \A s \in Sides : req.status = StatusOf(s) => l[s].at = "ended" /\ l[s].code = 0
        BY <2>1, <2>5 DEF WorkerKnows, Detached
      <3>2. LaneKnows(store', forgot', intent', plan'.op, f, l)
        BY <1>2, <2>1, LaneKeeps DEF WorkerKnows
      <3>3. OwnRow(store', forgot', f, l)
        BY <3>1 DEF OwnRow, Racing
      <3>4. \A r \in astray' : Detached(r, f, l)
        BY <1>0, <2>1 DEF WorkerKnows
      <3>5. PICK s \in Sides : req.status = StatusOf(s)
        <4>1. Fits(req.key, req.version + 1, req.status) /\ req.version # 0 /\ req.version \in Nat /\ req.key # 0
          BY <1>1, <2>2, <2>5, <3>1 DEF RequestShape, Requests
        <4>2. req.status \in {"paid", "cancelled"}
          BY <4>1 DEF Fits
        <4>3. StatusOf(1) = "paid" /\ StatusOf(2) = "cancelled" /\ 1 \in Sides /\ 2 \in Sides
          BY DEF StatusOf, Sides
        <4> QED BY <4>2, <4>3
      <3>6. ASSUME ~ forgot'
            PROVE  store'[f.n].hist # <<>> /\ \A t \in Sides : SideKnows(store'[f.n], t, l[t])
        <4>1. store[f.n].hist # <<>> /\ \A t \in Sides : SideKnows(store[f.n], t, l[t])
          BY <1>0, <2>1, <3>1, <3>6 DEF WorkerKnows, RaceRow
        <4>2. PICK k, row : k \in Places /\ k = f.n /\ row = store[k] /\ RowFits(k, row) /\ k # 0 /\ req.key = k
          BY <2>2, <2>5, Standing
        <4>3. store'[k] = Effect(row, req) /\ Effect(row, req).hist # <<>>
          BY <1>1, <1>2, <3>1, <3>5, <4>1, <4>2, RaceRows
        <4>4. ASSUME NEW t \in Sides
              PROVE  SideKnows(Effect(row, req), t, l[t])
          <5>1. t # s \/ (l[t].at = "ended" /\ l[t].code = 0)
            BY <3>1, <3>5
          <5> QED BY <1>1, <3>1, <3>5, <4>1, <4>2, <5>1, RaceServed
        <4> QED BY <4>2, <4>3, <4>4
      <3>7. RaceRow(store', forgot', f, l)
        BY <3>6 DEF RaceRow
      <3> QED BY <1>0, <2>1, <3>2, <3>3, <3>4, <3>7 DEF WorkerKnows
    <2> QED BY <2>4, <2>5
  <1>4. WorkersKnow'
    BY <1>0, <1>3 DEF SimInv, WorkersKnow
  <1>5. OneOwner'
    BY <1>0 DEF SimInv, OneOwner
  <1>6. AstrayFit'
    <2>1. \A r \in astray' : RequestFits(intent', plan'.op, r)
      BY <1>0, Standing
    <2>2. ASSUME NEW r \in astray', r.key # 0, r.op = "create"
          PROVE  store'[r.key] = Absent /\ \A q \in astray' : q.key = r.key => q = r
      <3>1. r \in astray /\ r # req /\ store[r.key] = Absent /\ \A q \in astray : q.key = r.key => q = r
        BY <1>0, <2>2 DEF SimInv, AstrayFit
      <3>2. r.key \in Places /\ r.key # req.key
        BY <3>1, Standing DEF RequestFits, RequestShape, Requests
      <3> QED BY <1>0, <1>2, <3>1, <3>2
    <2> QED BY <2>1, <2>2 DEF AstrayFit
  <1> QED BY <1>2, <1>4, <1>5, <1>6 DEF SimInv

LEMMA ServeCallKeeps ==
    ASSUME SimInv, NEW w \in Workers, NEW s \in Sides, ServeCall(w, s)
    PROVE  SimInv'
  <1>0. /\ lane[w][s].at = "sent"
        /\ UNCHANGED <<shown, forgot, astray, intent, flow, plan, contract, audit>>
    BY DEF ServeCall
  <1>1. PICK f, l : f \in Flows /\ f = flow[w] /\ l = lane[w] /\ WorkerKnows(store, forgot, intent, plan.op, astray, f, l)
    BY DEF SimInv, WorkersKnow
  <1>2. /\ l = <<l[1], l[2]>> /\ LaneFits(f, l) /\ l[s].at \in InCall /\ l[s].at \in Unanswered
        /\ CallFits(store, forgot, intent, plan.op, l[s])
    BY <1>0, <1>1 DEF WorkerKnows, LaneKnows, InCall, Unanswered
  <1>3. PICK req : req = l[s].req /\ RequestFits(intent, plan.op, req) /\ RequestShape(req)
    BY <1>2 DEF CallFits, RequestFits
  <1>4. store' = [store EXCEPT ![req.key] = Effect(@, req)]
    BY <1>1, <1>3 DEF ServeCall
  <1>5. /\ req.key \in Places /\ store'[req.key] = Effect(store[req.key], req)
        /\ \A k \in Places : k # req.key => store'[k] = store[k]
        /\ Grows(store, forgot, intent, plan.op, store', forgot', intent', plan'.op)
        /\ StoreFits(store') /\ IntentsFit(store', intent') /\ Unborn(store', intent', plan'.op) /\ ToldIsTrue'
        /\ SimTypes' /\ PlanAdds' /\ NoFalseAlarm' /\ AuditKnows'
    BY <1>0, <1>3, <1>4, ServedStore
  <1>6. PICK k, row : k \in Places /\ k = req.key /\ row = store[k] /\ RowFits(k, row)
    BY <1>5, Standing
  <1>7. PICK a : a = Outcome(row, req)
    OBVIOUS
  <1>8. PICK c : c = [at |-> "answered", req |-> req, answer |-> a] /\ c.at = "answered" /\ c.req = req /\ c.answer = a
    <2>1. LET c == [at |-> "answered", req |-> req, answer |-> a]
          IN  c.at = "answered" /\ c.req = req /\ c.answer = a
      OBVIOUS
    <2> QED BY <2>1, Zenon
  <1>9. PICK m : m = [l EXCEPT ![s] = c]
    OBVIOUS
  <1>10. lane' = [lane EXCEPT ![w] = m]
    BY <1>1, <1>3, <1>6, <1>7, <1>8, <1>9 DEF ServeCall
  <1>11. m = <<m[1], m[2]>> /\ m[s] = c /\ \A t \in Sides : t # s => m[t] = l[t]
    BY <1>2, <1>9, SideSet
  <1>12. c.at \in InCall /\ c.at \notin Unanswered
    BY <1>8 DEF InCall, Unanswered
  <1>13. LaneFits(f, m) /\ \A r : Detached(r, f, l) => Detached(r, f, m)
    BY <1>2, <1>3, <1>8, <1>11, <1>12, CallGoesOn
  <1>14. AnswerFits(store', forgot', req, a)
    <2>1. a \in Answers /\ (Shows(req, a) /\ req.op # "read" => a.version # 0 /\ Fits(req.key, a.version, a.status))
      BY <1>3, <1>6, <1>7, OutcomeFits
    <2>2. HasOrder(req, a) => /\ a.version \in 1..Len(Effect(row, req).hist) /\ a.id = Effect(row, req).id
                              /\ a.status = Effect(row, req).hist[a.version]
      BY <1>3, <1>6, <1>7, OutcomeFits
    <2> QED BY <1>5, <1>6, <2>1, <2>2 DEF AnswerFits
  <1>15. LaneKnows(store', forgot', intent', plan'.op, f, m)
    <2>1. LaneKnows(store', forgot', intent', plan'.op, f, l)
      BY <1>1, <1>5, LaneKeeps DEF WorkerKnows
    <2>2. CallFits(store', forgot', intent', plan'.op, c)
      BY <1>0, <1>3, <1>8, <1>12, <1>14 DEF CallFits
    <2> QED BY <1>11, <1>13, <2>1, <2>2 DEF LaneKnows
  <1>16. OwnKey(f) => f.n \in Places /\ f.n # 0
    BY <1>1, SimAssumption DEF WorkerKnows, LaneKnows, Places
  <1>17. ~ Racing(f) => s = 1 /\ SingleCall(f, req)
    BY <1>2, <1>3 DEF LaneFits, Sides, NoCall, InCall
  <1>18. Racing(f) => req.key = f.n /\ req.op = "update" /\ req.status = StatusOf(s)
    BY <1>2, <1>3 DEF LaneFits, RaceSide, Racing, NoFlow, InCall
  <1>19. OwnRow(store', forgot', f, m)
    <2> SUFFICES ASSUME OwnKey(f), f.step = "create"
                 PROVE  /\ m[1].at \in Unanswered => store'[f.n] = Absent
                        /\ m[1].at = "answered" => /\ m[1].answer.code = 201 /\ m[1].answer.version = 1
                                                   /\ ~ forgot' => Len(store'[f.n].hist) = 1
      BY DEF OwnRow
    <2>1. s = 1 /\ req = Create(f.n) /\ m[1] = c
      BY <1>11, <1>17 DEF Racing, SingleCall, OwnKey
    <2>2. store[f.n] = Absent
      BY <1>1, <1>2, <2>1 DEF WorkerKnows, OwnRow
    <2>3. req.op = "create" /\ req.key = f.n /\ row.hist = <<>> /\ row \in Rows
      BY <1>6, <2>1, <2>2 DEF Create, Absent, RowFits
    <2>4. a.code = 201 /\ a.version = 1
      BY <1>3, <1>6, <1>7, <2>3, OutcomeFits
    <2>5. Len(Effect(row, req).hist) = 1
      <3>1. Effect(row, req) = Created(row)
        BY <2>3 DEF Effect
      <3> QED BY <2>3, <3>1, FirstVersion
    <2> QED BY <1>5, <1>6, <1>8, <1>12, <2>1, <2>3, <2>4, <2>5
  <1>20. RaceRow(store', forgot', f, m)
    <2> SUFFICES ASSUME ~ forgot', Racing(f)
                 PROVE  store'[f.n].hist # <<>> /\ \A t \in Sides : SideKnows(store'[f.n], t, m[t])
      BY DEF RaceRow
    <2>1. k # 0 /\ k = f.n /\ req.key = k /\ req.op = "update" /\ req.status = StatusOf(s)
      BY <1>6, <1>16, <1>18 DEF Racing, OwnKey
    <2>2. row.hist # <<>> /\ \A t \in Sides : SideKnows(row, t, l[t])
      BY <1>0, <1>1, <1>6, <2>1 DEF WorkerKnows, RaceRow
    <2>3. store'[k] = Effect(row, req) /\ Effect(row, req).hist # <<>>
      <3>1. store'[k] = Effect(row, req)
        BY <1>5, <1>6
      <3>2. RowFits(k, row) /\ RequestShape(req) /\ k \in Places /\ row.hist # <<>>
        BY <1>3, <1>6, <2>2
      <3>3. Effect(row, req).hist # <<>>
        BY <2>1, <3>2, RaceRows
      <3> QED BY <3>1, <3>3
    <2>4. ASSUME NEW t \in Sides
          PROVE  SideKnows(Effect(row, req), t, m[t])
      <3>1. CASE t = s
        BY <1>2, <1>3, <1>6, <1>7, <1>8, <1>11, <2>1, <2>2, <3>1, RaceAnswered
      <3>2. CASE t # s
        BY <1>3, <1>6, <1>11, <2>1, <2>2, <3>2, RaceServed
      <3> QED BY <3>1, <3>2
    <2> QED BY <2>1, <2>3, <2>4
  <1>21. WorkerKnows(store', forgot', intent', plan'.op, astray', f, m)
    <2>1. \A r \in astray' : Detached(r, f, m)
      BY <1>0, <1>1, <1>13 DEF WorkerKnows
    <2> QED BY <1>15, <1>19, <1>20, <2>1 DEF WorkerKnows
  <1>22. req.key = 0 \/ (OwnKey(f) /\ req.key = f.n)
    BY <1>17, <1>18 DEF SingleCall, Racing, OwnKey, Create, Source, Read
  <1>23. WorkersKnow' /\ OneOwner'
    <2>1. flow' = [flow EXCEPT ![w] = f]
      BY <1>0, <1>1 DEF SimInv, WorkersKnow
    <2>2. ASSUME NEW u \in Workers, u # w
          PROVE  /\ OwnKey(flow[u]) => store'[flow[u].n] = store[flow[u].n]
                 /\ \A r \in astray' : r \in astray \/ Detached(r, flow[u], lane[u])
                 /\ OwnKey(f) /\ OwnKey(flow[u]) => flow[u].n # f.n
      <3>1. OwnKey(f) /\ OwnKey(flow[u]) => flow[u].n # f.n
        BY <1>1, <2>2 DEF SimInv, OneOwner
      <3>2. OwnKey(flow[u]) => flow[u].n \in Places /\ flow[u].n # 0
        <4>1. WorkerKnows(store, forgot, intent, plan.op, astray, flow[u], lane[u])
          BY Standing
        <4> QED BY <4>1, SimAssumption DEF WorkerKnows, LaneKnows, Places
      <3>3. OwnKey(flow[u]) => store'[flow[u].n] = store[flow[u].n]
        BY <1>5, <1>22, <3>1, <3>2
      <3> QED BY <1>0, <3>1, <3>3
    <2> QED BY <1>1, <1>5, <1>10, <1>21, <2>1, <2>2, WorkersStep
  <1>24. AstrayFit'
    <2>1. \A r \in astray' : RequestFits(intent', plan'.op, r)
      BY <1>0, Standing
    <2>2. ASSUME NEW r \in astray', r.key # 0, r.op = "create"
          PROVE  store'[r.key] = Absent /\ \A q \in astray' : q.key = r.key => q = r
      <3>1. r \in astray /\ store[r.key] = Absent /\ \A q \in astray : q.key = r.key => q = r
        BY <1>0, <2>2 DEF SimInv, AstrayFit
      <3>2. Detached(r, f, l)
        BY <1>1, <3>1 DEF WorkerKnows
      <3>3. r.key \in Places /\ r.key # req.key
        BY <1>22, <2>2, <3>1, <3>2, Standing DEF RequestFits, RequestShape, Requests, Detached
      <3> QED BY <1>0, <1>5, <3>1, <3>3
    <2> QED BY <2>1, <2>2 DEF AstrayFit
  <1> QED BY <1>5, <1>23, <1>24 DEF SimInv

-----------------------------------------------------------------------------
(* What an intent learns. *)

LEMMA TriedSet ==
    ASSUME NEW a, NEW b, NEW c, NEW d, NEW e
    PROVE  [[known |-> a, ids |-> b, acks |-> c, tried |-> d] EXCEPT !.tried = e] = [known |-> a, ids |-> b, acks |-> c, tried |-> e]
  OBVIOUS

LEMMA NotedAllFacts ==
    ASSUME NEW i, IntentShape(i), i.known = TRUE, NEW reqs
    PROVE  LET j == NotedAll(i, reqs)
           IN /\ IntentShape(j) /\ j.known = TRUE /\ j.ids = i.ids /\ j.acks = i.acks /\ i.tried \subseteq j.tried
              /\ \A r \in reqs : r.op = "update" => <<r.version + 1, r.status>> \in j.tried
  <1>1. PICK ids, acks, tried : /\ i = [known |-> TRUE, ids |-> ids, acks |-> acks, tried |-> tried]
                                /\ i.ids = ids /\ i.acks = acks /\ i.tried = tried
    BY Zenon DEF IntentShape
  <1>2. CASE reqs = {}
    <2>1. NotedAll(i, reqs) = i
      BY <1>2 DEF NotedAll
    <2> QED BY <1>2, <2>1
  <1>3. CASE reqs # {}
    <2>1. PICK r \in reqs : r = CHOOSE q \in reqs : TRUE
      BY <1>3
    <2>2. \A q : \E x : /\ Noted(i, q) = [known |-> TRUE, ids |-> ids, acks |-> acks, tried |-> x] /\ Noted(i, q).tried = x
                        /\ tried \subseteq x /\ (q.op = "update" => <<q.version + 1, q.status>> \in x)
      <3> TAKE q
      <3>1. CASE q.op = "update"
        <4>1. PICK x : x = tried \cup {<<q.version + 1, q.status>>}
          OBVIOUS
        <4>2. Noted(i, q) = [i EXCEPT !.known = TRUE, !.tried = x]
          BY <1>1, <3>1, <4>1 DEF Noted
        <4>3. Noted(i, q) = [known |-> TRUE, ids |-> ids, acks |-> acks, tried |-> x]
          BY <1>1, <4>2
        <4>4. Noted(i, q).tried = x
          BY <4>3
        <4> QED BY <4>1, <4>3, <4>4
      <3>2. CASE q.op # "update"
        <4>1. Noted(i, q) = [i EXCEPT !.known = TRUE, !.tried = tried]
          BY <1>1, <3>2 DEF Noted
        <4>2. Noted(i, q) = [known |-> TRUE, ids |-> ids, acks |-> acks, tried |-> tried]
          BY <1>1, <4>1
        <4>3. Noted(i, q).tried = tried
          BY <4>2
        <4> QED BY <3>2, <4>2, <4>3
      <3> QED BY <3>1, <3>2
    <2>3. PICK all : all = UNION {Noted(i, q).tried : q \in reqs}
      OBVIOUS
    <2>4. NotedAll(i, reqs) = [Noted(i, r) EXCEPT !.tried = all]
      BY <1>3, <2>1, <2>3 DEF NotedAll
    <2>5. PICK x : Noted(i, r) = [known |-> TRUE, ids |-> ids, acks |-> acks, tried |-> x]
      BY <2>2
    <2>6. NotedAll(i, reqs) = [known |-> TRUE, ids |-> ids, acks |-> acks, tried |-> all]
      <3>1. PICK n, yes : yes = TRUE /\ n = Noted(i, r) /\ n = [known |-> yes, ids |-> ids, acks |-> acks, tried |-> x]
        BY <2>5, Zenon
      <3>2. NotedAll(i, reqs) = [n EXCEPT !.tried = all]
        BY <2>4, <3>1, Zenon
      <3>3. [[known |-> yes, ids |-> ids, acks |-> acks, tried |-> x] EXCEPT !.tried = all]
                = [known |-> yes, ids |-> ids, acks |-> acks, tried |-> all]
        BY TriedSet
      <3> QED BY <3>1, <3>2, <3>3, Zenon
    <2>7. PICK j : j = NotedAll(i, reqs) /\ j = [known |-> TRUE, ids |-> ids, acks |-> acks, tried |-> all]
      BY <2>6
    <2>8. j.known = TRUE /\ j.ids = ids /\ j.acks = acks /\ j.tried = all
      BY <2>7
    <2>9. \A q \in reqs : Noted(i, q).tried \subseteq all
      BY <2>3
    <2>10. tried \subseteq all
      BY <2>2, <2>9
    <2>11. \A q \in reqs : q.op = "update" => <<q.version + 1, q.status>> \in all
      BY <2>2, <2>9
    <2>12. IntentShape(j)
      BY <2>7, <2>8 DEF IntentShape
    <2> QED BY <1>1, <2>7, <2>8, <2>10, <2>11, <2>12
  <1> QED BY <1>2, <1>3

(* An intent with more updates noted. *)
LEMMA NotedFits ==
    ASSUME NEW k, NEW i, IntentFits(k, i), NEW j, IntentShape(j), j.known = TRUE, j.ids = i.ids, j.acks = i.acks, i.tried \subseteq j.tried
    PROVE  /\ IntentFits(k, j)
           /\ \A row : (CoversRow(i, row) => CoversRow(j, row)) /\ (Told(row, i) => Told(row, j))
  <1>1. IntentFits(k, j)
    BY DEF IntentFits
  <1>2. \A row : (CoversRow(i, row) => CoversRow(j, row)) /\ (Told(row, i) => Told(row, j))
    BY DEF CoversRow, Told
  <1> QED BY <1>1, <1>2

(* An acknowledged version; the store that has it is not accused. *)
LEMMA Acknowledged ==
    ASSUME NEW k, NEW i, IntentFits(k, i), i.known, NEW a \in Answers, a.version # 0, Fits(k, a.version, a.status)
    PROVE  /\ IntentFits(k, Remembered(i, a)) /\ Remembered(i, a).known = TRUE /\ Remembered(i, a).tried = i.tried
           /\ \A row : /\ Told(row, i) /\ RowFits(k, row)
                       /\ a.version \in 1..Len(row.hist) /\ a.id = row.id /\ a.status = row.hist[a.version]
                       => Told(row, Remembered(i, a)) /\ Alarms(i, a) = {}
  <1>1. PICK ids, acks, tried : /\ i = [known |-> TRUE, ids |-> ids, acks |-> acks, tried |-> tried]
                                /\ i.ids = ids /\ i.acks = acks /\ i.tried = tried
    <2>1. i.known = TRUE /\ IntentShape(i)
      BY DEF IntentFits
    <2> QED BY <2>1, Zenon DEF IntentShape
  <1>2. PICK v \in Nat, id \in Nat, status \in OpStatuses : a.version = v /\ a.id = id /\ a.status = status
    BY DEF Answers, Fits, OpStatuses
  <1>3. PICK mark \in Marks : mark = [id |-> id, status |-> status] /\ mark.id = id /\ mark.status = status
    <2>1. [id |-> id, status |-> status] \in Marks
      BY DEF Marks
    <2>2. [id |-> id, status |-> status].id = id /\ [id |-> id, status |-> status].status = status
      OBVIOUS
    <2> QED BY <2>1, <2>2, Zenon
  <1>4. PICK g : g = With(acks, v, mark)
    OBVIOUS
  <1>5. PICK more : more = ids \cup {id}
    OBVIOUS
  <1>6. Remembered(i, a) = [i EXCEPT !.ids = more, !.acks = g]
    BY <1>1, <1>2, <1>3, <1>4, <1>5 DEF Remembered
  <1>7. PICK j : j = Remembered(i, a) /\ j = [known |-> TRUE, ids |-> more, acks |-> g, tried |-> tried]
    BY <1>1, <1>6
  <1>8. j.known = TRUE /\ j.ids = more /\ j.acks = g /\ j.tried = tried /\ IntentShape(j)
    BY <1>7 DEF IntentShape
  <1>9. /\ DOMAIN g = DOMAIN acks \cup {v} /\ g = [x \in DOMAIN g |-> g[x]]
        /\ g[v] = mark /\ \A u \in DOMAIN acks : u # v => g[u] = acks[u]
    BY <1>4 DEF With
  <1>10. acks \in [DOMAIN acks -> Marks] /\ ids \subseteq Nat /\ \A u \in DOMAIN acks : Fits(k, u, acks[u].status) /\ acks[u].id \in ids
    BY <1>1 DEF IntentFits
  <1>11. \A u \in DOMAIN g : g[u] \in Marks /\ Fits(k, u, g[u].status) /\ g[u].id \in more
    BY <1>2, <1>3, <1>5, <1>9, <1>10
  <1>12. IntentFits(k, j)
    <2>1. g \in [DOMAIN g -> Marks]
      BY <1>9, <1>11
    <2>2. more \subseteq Nat /\ TRUE \in BOOLEAN
      BY <1>2, <1>5, <1>10
    <2> QED BY <1>8, <1>11, <2>1, <2>2 DEF IntentFits
  <1>13. ASSUME NEW row, Told(row, i), RowFits(k, row), v \in 1..Len(row.hist), id = row.id, status = row.hist[v]
         PROVE  Told(row, j) /\ Alarms(i, a) = {}
    <2>1. ids \subseteq {id} /\ \A u \in DOMAIN acks : u <= Len(row.hist) /\ acks[u].status = row.hist[u]
      BY <1>1, <1>13 DEF Told
    <2>2. row.hist # <<>> /\ v <= Len(row.hist)
      BY <1>13, RowShape
    <2>3. \A u \in DOMAIN g : u <= Len(row.hist) /\ g[u].status = row.hist[u]
      BY <1>3, <1>9, <1>13, <2>1, <2>2
    <2>4. Told(row, j)
      BY <1>5, <1>8, <1>13, <2>1, <2>2, <2>3 DEF Told
    <2>5. Cardinality(i.ids \cup {a.id}) = 1
      <3>1. i.ids \cup {a.id} = {id}
        BY <1>1, <1>2, <2>1
      <3> QED BY <3>1, FS_Singleton
    <2>6. ~ (Cardinality(i.ids \cup {a.id}) > 1)
      BY <2>5
    <2>7. a.version \in DOMAIN i.acks => i.acks[a.version] = [id |-> a.id, status |-> a.status]
      <3>1. ASSUME v \in DOMAIN acks
            PROVE  acks[v] = [id |-> id, status |-> status]
        <4>1. acks[v].id = id /\ acks[v].status = status
          BY <1>10, <1>13, <2>1, <3>1
        <4>2. acks[v] = [id |-> acks[v].id, status |-> acks[v].status]
          BY <1>10, <3>1 DEF Marks
        <4> QED BY <4>1, <4>2
      <3> QED BY <1>1, <1>2, <3>1
    <2>8. Alarms(i, a) = {}
      BY <2>6, <2>7 DEF Alarms
    <2> QED BY <2>4, <2>8
  <1>14. \A row : /\ Told(row, i) /\ RowFits(k, row)
                  /\ a.version \in 1..Len(row.hist) /\ a.id = row.id /\ a.status = row.hist[a.version]
                  => Told(row, Remembered(i, a)) /\ Alarms(i, a) = {}
    BY <1>2, <1>7, <1>13
  <1> QED BY <1>1, <1>7, <1>8, <1>12, <1>14

(* A step that notes something in one intent. *)
LEMMA IntentSet ==
    ASSUME SimInv, NEW k \in Places, NEW j, intent' = [intent EXCEPT ![k] = j], UNCHANGED <<store, forgot>>,
           IntentFits(k, j), CoversRow(j, store[k]), j.known, intent[k].tried \subseteq j.tried,
           ~ forgot => Told(store[k], j)
    PROVE  /\ IntentsFit(store', intent') /\ ToldIsTrue'
           /\ \A x \in Places : (intent[x].known => intent'[x].known) /\ intent[x].tried \subseteq intent'[x].tried
           /\ \A x \in Places : x # k => intent'[x] = intent[x]
           /\ intent'[k] = j
  <1>1. intent = [x \in Places |-> intent[x]]
    BY Standing DEF IntentsFit
  <1>2. intent'[k] = j /\ \A x \in Places : x # k => intent'[x] = intent[x]
    BY <1>1
  <1>3. intent' = [x \in Places |-> intent'[x]]
    BY <1>1
  <1>4. IntentsFit(store', intent')
    BY <1>2, <1>3, Standing DEF IntentsFit
  <1>5. ToldIsTrue'
    BY <1>2 DEF SimInv, ToldIsTrue
  <1>6. \A x \in Places : (intent[x].known => intent'[x].known) /\ intent[x].tried \subseteq intent'[x].tried
    BY <1>2
  <1> QED BY <1>2, <1>4, <1>5, <1>6

(* A worker without a workflow. *)
LEMMA IdleKnows ==
    ASSUME NEW st, NEW gone, NEW its, NEW op, NEW aside
    PROVE  NoFlow \in Flows /\ WorkerKnows(st, gone, its, op, aside, NoFlow, <<NoCall, NoCall>>)
  <1>1. PICK l : l = <<NoCall, NoCall>> /\ l[1] = NoCall /\ l[2] = NoCall /\ \A s \in Sides : l[s] = NoCall
    <2>1. <<NoCall, NoCall>>[1] = NoCall /\ <<NoCall, NoCall>>[2] = NoCall
      OBVIOUS
    <2> QED BY <2>1 DEF Sides
  <1>2. NoCall.at = "idle" /\ NoFlow.kind = "none" /\ NoFlow \in Flows
    BY DEF NoCall, NoFlow, Flows
  <1>3. LaneKnows(st, gone, its, op, NoFlow, l)
    BY <1>1, <1>2 DEF LaneKnows, LaneFits, CallFits, InCall, Unanswered, OwnKey
  <1> QED BY <1>1, <1>2, <1>3 DEF WorkerKnows, OwnRow, RaceRow, Detached, OwnKey, Racing

LEMMA BusyLane ==
    ASSUME SimInv, NEW w \in Workers, NEW s \in Sides, lane[w][s].at # "idle"
    PROVE  flow[w] # NoFlow /\ audit.at = "none"
  <1>1. WorkerKnows(store, forgot, intent, plan.op, astray, flow[w], lane[w])
    BY Standing
  <1>2. lane[w] # <<NoCall, NoCall>>
    <2>1. lane[w] = <<NoCall, NoCall>> => lane[w][1] = NoCall /\ lane[w][2] = NoCall
      OBVIOUS
    <2> QED BY <2>1 DEF NoCall, Sides
  <1>3. flow[w] # NoFlow
    BY <1>1, <1>2 DEF WorkerKnows, LaneKnows, LaneFits
  <1> QED BY <1>3, WorkingIsBefore

LEMMA RaceEndsKeeps ==
    ASSUME SimInv, NEW w \in Workers, RaceEnds(w)
    PROVE  SimInv'
  <1>0. /\ UNCHANGED <<store, shown, forgot, astray, intent, plan, audit>>
        /\ \A s \in Sides : lane[w][s].at = "ended"
        /\ lane' = [lane EXCEPT ![w] = <<NoCall, NoCall>>] /\ flow' = [flow EXCEPT ![w] = NoFlow]
        /\ contract' = contract \cup RaceAlarms(<<lane[w][1].code, lane[w][2].code>>)
    BY DEF RaceEnds, simStore
  <1>1. PICK f, l : f = flow[w] /\ l = lane[w] /\ WorkerKnows(store, forgot, intent, plan.op, astray, f, l)
    BY Standing
  <1>2. 1 \in Sides /\ 2 \in Sides /\ l[1].at = "ended" /\ l[2].at = "ended"
    BY <1>0, <1>1 DEF Sides
  <1>3. audit.at = "none"
    BY <1>1, <1>2, BusyLane
  <1>4. Racing(f)
    <2>1. flow[w] # NoFlow
      BY <1>1, <1>2, BusyLane
    <2> QED BY <1>1, <1>2, <2>1 DEF WorkerKnows, LaneKnows, LaneFits, InCall
  <1>5. WorkersKnow' /\ OneOwner'
    <2>1. Grows(store, forgot, intent, plan.op, store', forgot', intent', plan'.op)
      BY <1>0, Standing, StoreStays
    <2>2. NoFlow \in Flows /\ WorkerKnows(store', forgot', intent', plan'.op, astray', NoFlow, <<NoCall, NoCall>>)
      BY IdleKnows
    <2>3. ~ OwnKey(NoFlow)
      BY DEF OwnKey, NoFlow
    <2>4. \A u \in Workers : u # w =>
               /\ OwnKey(flow[u]) => store'[flow[u].n] = store[flow[u].n]
               /\ \A r \in astray' : r \in astray \/ Detached(r, flow[u], lane[u])
               /\ OwnKey(NoFlow) /\ OwnKey(flow[u]) => flow[u].n # NoFlow.n
      BY <1>0, <2>3
    <2> QED BY <1>0, <2>1, <2>2, <2>4, WorkersStep
  <1>6. ~ forgot => RaceAlarms(<<l[1].code, l[2].code>>) = {}
    <2> SUFFICES ASSUME ~ forgot
                 PROVE  RaceAlarms(<<l[1].code, l[2].code>>) = {}
      OBVIOUS
    <2>1. SideKnows(store[f.n], 1, l[1]) /\ SideKnows(store[f.n], 2, l[2])
      BY <1>1, <1>2, <1>4 DEF WorkerKnows, RaceRow
    <2>2. StatusOf(1) = "paid" /\ StatusOf(2) = "cancelled"
      BY DEF StatusOf
    <2>3. PICK k, row : k \in Places /\ k = f.n /\ row = store[k] /\ RowFits(k, row) /\ k # 0
      BY <1>1, <1>4, Standing, SimAssumption DEF WorkerKnows, LaneKnows, Racing, OwnKey, Places
    <2>4. ~ (l[1].code = 200 /\ l[2].code = 200)
      BY <1>2, <2>1, <2>2 DEF SideKnows, CodeOf
    <2>5. ~ (l[1].code = 409 /\ l[2].code = 409)
      <3> SUFFICES ASSUME l[1].code = 409, l[2].code = 409
                   PROVE  FALSE
        OBVIOUS
      <3>1. Len(row.hist) = 2 /\ row.hist[2] # "paid" /\ row.hist[2] # "cancelled"
        BY <1>2, <2>1, <2>2, <2>3 DEF SideKnows, CodeOf
      <3>2. Fits(k, 2, row.hist[2])
        BY <2>3, <3>1 DEF RowFits
      <3> QED BY <2>3, <3>1, <3>2 DEF Fits
    <2>6. <<l[1].code, l[2].code>> # <<200, 200>> /\ <<l[1].code, l[2].code>> # <<409, 409>>
      BY <2>4, <2>5
    <2> QED BY <2>6 DEF RaceAlarms
  <1>7. RaceAlarms(<<l[1].code, l[2].code>>) \subseteq ContractErrors
    BY DEF RaceAlarms, ContractErrors
  <1>8. SimTypes' /\ NoFalseAlarm'
    BY <1>0, <1>1, <1>6, <1>7 DEF SimInv, SimTypes, NoFalseAlarm
  <1>9. /\ StoreFits(store') /\ IntentsFit(store', intent') /\ AstrayFit'
        /\ Unborn(store', intent', plan'.op) /\ ToldIsTrue' /\ PlanAdds'
    BY <1>0 DEF SimInv, AstrayFit, ToldIsTrue, PlanAdds
  <1>10. AuditKnows'
    BY <1>0, <1>3, NoAuditYet
  <1> QED BY <1>5, <1>8, <1>9, <1>10 DEF SimInv

-----------------------------------------------------------------------------
(* A call is made ready. *)

LEMMA QueuedIs == \A req : Queued(req).at = "queued" /\ Queued(req).req = req
  BY DEF Queued

LEMMA QueuedFits ==
    ASSUME NEW st, NEW gone, NEW its, NEW op, NEW req, RequestFits(its, op, req)
    PROVE  /\ Queued(req).at = "queued" /\ Queued(req).req = req
           /\ Queued(req).at \in InCall /\ Queued(req).at \in Unanswered
           /\ CallFits(st, gone, its, op, Queued(req))
  <1>1. PICK c : c = Queued(req) /\ c = [at |-> "queued", req |-> req] /\ c.at = "queued" /\ c.req = req
    <2>1. [at |-> "queued", req |-> req].at = "queued" /\ [at |-> "queued", req |-> req].req = req
      OBVIOUS
    <2> QED BY <2>1, Zenon DEF Queued
  <1>2. c.at \in InCall /\ c.at \in Unanswered /\ c.at # "answered"
    BY <1>1 DEF InCall, Unanswered
  <1> QED BY <1>1, <1>2 DEF CallFits

LEMMA NoCallFits ==
    ASSUME NEW st, NEW gone, NEW its, NEW op
    PROVE  CallFits(st, gone, its, op, NoCall) /\ NoCall.at = "idle" /\ NoCall.at \notin InCall /\ NoCall.at \notin Unanswered
  BY DEF CallFits, NoCall, InCall, Unanswered

LEMMA FirstCallShape ==
    ASSUME NEW kind \in {"create", "retry", "race", "update", "read"}, NEW n \in Places
    PROVE  LET req == FirstCall(kind, n)
           IN /\ RequestShape(req) /\ req.op \in {"create", "source", "read"}
              /\ kind \in {"create", "race"} => req = Create(n) /\ req.op = "create" /\ req.key = n
              /\ kind = "retry" => req = Create(0) /\ req.op = "create" /\ req.key = 0
              /\ kind = "update" => req = Source(0) /\ req.op = "source" /\ req.key = 0
              /\ kind = "read" => req = Read(0) /\ req.op = "read" /\ req.key = 0
  <1>0. 0 \in Places /\ n \in Nat
    BY SimAssumption DEF Places
  <1>1. \A k \in Places : Create(k) \in Requests /\ Create(k).op = "create" /\ Create(k).key = k
    BY DEF Create, Requests, OpStatuses
  <1>2. Source(0) \in Requests /\ Source(0).op = "source" /\ Source(0).key = 0
    BY <1>0 DEF Source, Requests
  <1>3. Read(0) \in Requests /\ Read(0).op = "read" /\ Read(0).key = 0
    BY <1>0 DEF Read, Requests
  <1>4. CASE kind \in {"create", "race"}
    <2>1. FirstCall(kind, n) = Create(n)
      BY <1>4 DEF FirstCall
    <2> QED BY <1>1, <1>4, <2>1 DEF RequestShape
  <1>5. CASE kind = "retry"
    <2>1. FirstCall(kind, n) = Create(0)
      BY <1>5 DEF FirstCall
    <2> QED BY <1>0, <1>1, <1>5, <2>1 DEF RequestShape
  <1>6. CASE kind = "update"
    <2>1. FirstCall(kind, n) = Source(0)
      BY <1>6 DEF FirstCall
    <2> QED BY <1>2, <1>6, <2>1 DEF RequestShape
  <1>7. CASE kind = "read"
    <2>1. FirstCall(kind, n) = Read(0)
      BY <1>7 DEF FirstCall
    <2> QED BY <1>3, <1>7, <2>1 DEF RequestShape
  <1> QED BY <1>4, <1>5, <1>6, <1>7

(* Noting a call that is not an update registers its key. *)
LEMMA Registered ==
    ASSUME NEW k, NEW i, IntentFits(k, i), NEW req, req.op # "update"
    PROVE  LET j == Noted(i, req)
           IN IntentShape(j) /\ j.known = TRUE /\ j.ids = i.ids /\ j.acks = i.acks /\ j.tried = i.tried
  <1>1. PICK known, ids, acks, tried : /\ i = [known |-> known, ids |-> ids, acks |-> acks, tried |-> tried]
                                       /\ i.ids = ids /\ i.acks = acks /\ i.tried = tried
    BY Zenon DEF IntentFits, IntentShape
  <1>2. Noted(i, req) = [i EXCEPT !.known = TRUE, !.tried = tried]
    BY <1>1 DEF Noted
  <1>3. PICK j : j = Noted(i, req) /\ j = [known |-> TRUE, ids |-> ids, acks |-> acks, tried |-> tried]
    BY <1>1, <1>2
  <1>4. j.known = TRUE /\ j.ids = ids /\ j.acks = acks /\ j.tried = tried
    BY <1>3
  <1>5. IntentShape(j)
    BY <1>3, <1>4 DEF IntentShape
  <1> QED BY <1>1, <1>3, <1>4, <1>5

LEMMA AdmitKeeps ==
    ASSUME SimInv, NEW w \in Workers, NEW kind \in OpKinds, Admit(w, kind)
    PROVE  SimInv'
  <1>0. /\ UNCHANGED <<store, shown, forgot, astray, contract, audit>>
        /\ audit.at = "none" /\ plan.op <= MaxOps
    BY DEF Admit, simStore
  <1>1. PICK o \in Nat, m \in Nat, n \in Nat : plan = [op |-> o, admitted |-> m, skipped |-> n] /\ m + n = o - 1 /\ plan.op = o
    BY DEF SimInv, PlanAdds
  <1>2. o >= 1 /\ o <= MaxOps /\ o \in Places /\ o # 0
    BY <1>0, <1>1, Standing, SimAssumption DEF Places
  <1>3. /\ plan' \in Plans /\ plan'.op = o + 1 /\ PlanAdds'
    <2>1. plan' = [op |-> o + 1, admitted |-> m + 1, skipped |-> n]
      BY <1>1 DEF Admit
    <2>2. plan' \in Plans /\ plan'.op = o + 1 /\ plan'.admitted = m + 1 /\ plan'.skipped = n
      BY <2>1 DEF Plans
    <2> QED BY <1>1, <1>2, <2>2, SimAssumption DEF Plans, PlanAdds
  <1>4. kind \in {"create", "retry", "race", "update", "read"}
    BY SimAssumption
  <1>5. PICK req : /\ req = FirstCall(kind, o) /\ RequestShape(req) /\ req.op \in {"create", "source", "read"}
                   /\ kind \in {"create", "race"} => req = Create(o) /\ req.op = "create" /\ req.key = o
                   /\ kind = "retry" => req = Create(0) /\ req.op = "create" /\ req.key = 0
                   /\ kind = "update" => req = Source(0) /\ req.op = "source" /\ req.key = 0
                   /\ kind = "read" => req = Read(0) /\ req.op = "read" /\ req.key = 0
    BY <1>2, <1>4, FirstCallShape
  <1>6. PICK k \in Places : k = req.key /\ (k = 0 \/ k = o)
    BY <1>4, <1>5 DEF RequestShape, Requests
  <1>7. PICK j : j = Noted(intent[k], req)
    OBVIOUS
  <1>8. IntentShape(j) /\ j.known = TRUE /\ j.ids = intent[k].ids /\ j.acks = intent[k].acks /\ j.tried = intent[k].tried
    BY <1>5, <1>7, Standing, Registered
  <1>9. /\ IntentFits(k, j) /\ CoversRow(j, store[k]) /\ j.known /\ intent[k].tried \subseteq j.tried
        /\ ~ forgot => Told(store[k], j)
    BY <1>8, Standing, NotedFits DEF SimInv, ToldIsTrue
  <1>10. intent' = [intent EXCEPT ![k] = j]
    BY <1>1, <1>5, <1>6, <1>7 DEF Admit
  <1>11. /\ IntentsFit(store', intent') /\ ToldIsTrue'
         /\ \A x \in Places : (intent[x].known => intent'[x].known) /\ intent[x].tried \subseteq intent'[x].tried
         /\ \A x \in Places : x # k => intent'[x] = intent[x]
         /\ intent'[k] = j
    BY <1>0, <1>9, <1>10, IntentSet
  <1>12. Grows(store, forgot, intent, plan.op, store', forgot', intent', plan'.op)
    <2>1. plan'.op \in Nat /\ plan.op <= plan'.op
      BY <1>1, <1>3
    <2> QED BY <1>0, <1>11, <2>1, StoreStays
  <1>13. RequestFits(intent', plan'.op, req)
    BY <1>3, <1>5, <1>6, <1>8, <1>11 DEF RequestFits
  <1>14. PICK f \in Flows : /\ f = [n |-> o, kind |-> kind, step |-> req.op, left |-> 3]
                            /\ f.n = o /\ f.kind = kind /\ f.step = req.op
    <2>1. req.op \in {"none", "create", "source", "change", "read", "race"} /\ kind \in {"none", "create", "retry", "race", "update", "read"}
      BY <1>4, <1>5
    <2>2. [n |-> o, kind |-> kind, step |-> req.op, left |-> 3] \in Flows
      BY <2>1 DEF Flows
    <2>3. LET f == [n |-> o, kind |-> kind, step |-> req.op, left |-> 3]
          IN  f.n = o /\ f.kind = kind /\ f.step = req.op
      OBVIOUS
    <2> QED BY <2>2, <2>3, Zenon
  <1>15. PICK c, l : c = Queued(req) /\ l = <<c, NoCall>> /\ l[1] = c /\ l[2] = NoCall
    <2>1. <<Queued(req), NoCall>>[1] = Queued(req) /\ <<Queued(req), NoCall>>[2] = NoCall
      OBVIOUS
    <2> QED BY <2>1, Zenon
  <1>16. flow' = [flow EXCEPT ![w] = f] /\ lane' = [lane EXCEPT ![w] = l]
    BY <1>1, <1>5, <1>14, <1>15 DEF Admit
  <1>17. /\ c.at = "queued" /\ c.req = req /\ c.at \in InCall
         /\ CallFits(store', forgot', intent', plan'.op, c)
    BY <1>13, <1>15, QueuedFits
  <1>18. LaneKnows(store', forgot', intent', plan'.op, f, l)
    <2>1. f # NoFlow /\ ~ Racing(f)
      BY <1>4, <1>5, <1>14 DEF NoFlow, Racing
    <2>2. SingleCall(f, req)
      BY <1>4, <1>5, <1>14 DEF SingleCall, OwnKey
    <2>3. LaneFits(f, l)
      BY <1>15, <1>17, <2>1, <2>2 DEF LaneFits
    <2>4. \A s \in Sides : CallFits(store', forgot', intent', plan'.op, l[s])
      BY <1>15, <1>17, NoCallFits DEF Sides
    <2>5. f.n \in 1..MaxOps /\ f.n < plan'.op
      BY <1>2, <1>3, <1>14
    <2> QED BY <1>15, <2>3, <2>4, <2>5 DEF LaneKnows
  <1>19. OwnRow(store', forgot', f, l)
    <2>1. store'[o] = Absent
      BY <1>0, <1>1, <1>2 DEF SimInv, Unborn
    <2> QED BY <1>14, <1>15, <1>17, <2>1 DEF OwnRow
  <1>20. RaceRow(store', forgot', f, l)
    BY <1>5, <1>14 DEF RaceRow, Racing
  <1>21. \A r \in astray' : Detached(r, f, l)
    <2> SUFFICES ASSUME NEW r \in astray, OwnKey(f), r.key = f.n
                 PROVE  FALSE
      BY <1>0 DEF Detached
    <2>1. RequestFits(intent, plan.op, r)
      BY Standing
    <2> QED BY <1>1, <1>2, <1>14, <2>1 DEF RequestFits
  <1>22. WorkersKnow' /\ OneOwner'
    <2>1. WorkerKnows(store', forgot', intent', plan'.op, astray', f, l)
      BY <1>18, <1>19, <1>20, <1>21 DEF WorkerKnows
    <2>2. ASSUME NEW u \in Workers, u # w
          PROVE  /\ OwnKey(flow[u]) => store'[flow[u].n] = store[flow[u].n]
                 /\ \A r \in astray' : r \in astray \/ Detached(r, flow[u], lane[u])
                 /\ OwnKey(f) /\ OwnKey(flow[u]) => flow[u].n # f.n
      <3>1. WorkerKnows(store, forgot, intent, plan.op, astray, flow[u], lane[u])
        BY Standing
      <3>2. OwnKey(flow[u]) => flow[u].n < o /\ flow[u].n \in 1..MaxOps
        BY <1>1, <3>1 DEF WorkerKnows, LaneKnows
      <3>3. OwnKey(flow[u]) => flow[u].n # f.n
        BY <1>14, <3>2, SimAssumption
      <3> QED BY <1>0, <3>3
    <2> QED BY <1>12, <1>16, <2>1, <2>2, WorkersStep
  <1>23. AstrayFit'
    <2>1. \A r \in astray : RequestFits(intent', plan'.op, r)
      <3>1. plan.op \in Nat /\ plan'.op \in Nat /\ plan.op <= plan'.op
        BY <1>1, <1>3
      <3> QED BY <1>11, <3>1, Standing, RequestKeeps
    <2> QED BY <1>0, <2>1 DEF SimInv, AstrayFit
  <1>24. Unborn(store', intent', plan'.op)
    <2> SUFFICES ASSUME NEW x \in Places, x >= plan'.op, x # 0
                 PROVE  store'[x] = Absent /\ intent'[x] = NoIntent
      BY DEF Unborn
    <2>1. x >= plan.op /\ x # k
      BY <1>1, <1>3, <1>6 DEF Places
    <2> QED BY <1>0, <1>11, <2>1 DEF SimInv, Unborn
  <1>25. SimTypes' /\ StoreFits(store') /\ NoFalseAlarm'
    BY <1>0 DEF SimInv, SimTypes, NoFalseAlarm
  <1>26. AuditKnows'
    BY <1>0, NoAuditYet
  <1> QED BY <1>3, <1>11, <1>22, <1>23, <1>24, <1>25, <1>26 DEF SimInv

-----------------------------------------------------------------------------
(* A call has ended. *)

(* What the calls of an ended call are, and what is noted of them. *)
MadeOf(calls, l) == {calls[t].req : t \in {x \in Sides : calls[x].at = "queued" /\ calls[x] # l[x]}}

LEMMA CallEndedIs ==
    ASSUME NEW w, NEW s, NEW a, CallEnded(w, s, a), NEW l, l = lane[w], NEW req, req = l[s].req,
           NEW calls, calls = Calls(w, s, a)
    PROVE  LET told == IF HasOrder(req, a) THEN Remembered(intent[req.key], a) ELSE intent[req.key]
           IN /\ intent' = [intent EXCEPT ![req.key] = NotedAll(told, MadeOf(calls, l))]
              /\ contract' = contract \cup (IF HasOrder(req, a) THEN Alarms(intent[req.key], a) ELSE {})
              /\ lane' = [lane EXCEPT ![w] = calls]
              /\ flow' = [flow EXCEPT ![w] = Advance(flow[w], calls)]
  <1>1. lane' = [lane EXCEPT ![w] = calls]
    BY DEF CallEnded
  <1>2. contract' = contract \cup (IF HasOrder(req, a) THEN Alarms(intent[req.key], a) ELSE {})
    BY DEF CallEnded
  <1>3. flow' = [flow EXCEPT ![w] = Advance(flow[w], calls)]
    BY DEF CallEnded
  <1>4. intent' = [intent EXCEPT ![req.key] =
            NotedAll(IF HasOrder(req, a) THEN Remembered(intent[req.key], a) ELSE intent[req.key], MadeOf(calls, l))]
    BY DEF CallEnded, MadeOf
  <1> QED BY <1>1, <1>2, <1>3, <1>4

(* What the intent of an ended call knows then. *)
LEMMA EndedIntent ==
    ASSUME SimInv, UNCHANGED <<store, forgot>>,
           NEW req, RequestFits(intent, plan.op, req), NEW a, AnswerFits(store, forgot, req, a), NEW reqs,
           intent' = [intent EXCEPT ![req.key] =
               NotedAll(IF HasOrder(req, a) THEN Remembered(intent[req.key], a) ELSE intent[req.key], reqs)]
    PROVE  /\ IntentsFit(store', intent') /\ ToldIsTrue'
           /\ \A x \in Places : (intent[x].known => intent'[x].known) /\ intent[x].tried \subseteq intent'[x].tried
           /\ \A x \in Places : x # req.key => intent'[x] = intent[x]
           /\ intent'[req.key].known
           /\ \A r \in reqs : r.op = "update" => <<r.version + 1, r.status>> \in intent'[req.key].tried
           /\ ~ forgot /\ HasOrder(req, a) => Alarms(intent[req.key], a) = {}
  <1>1. RequestShape(req) /\ req.key \in Places /\ intent[req.key].known /\ a \in Answers
    BY DEF RequestFits, RequestShape, Requests, AnswerFits
  <1>2. PICK k, i : k \in Places /\ k = req.key /\ i = intent[k] /\ IntentFits(k, i) /\ CoversRow(i, store[k]) /\ RowFits(k, store[k])
                               /\ i.known /\ (~ forgot => Told(store[k], i))
    BY <1>1, Standing DEF SimInv, ToldIsTrue
  <1>3. HasOrder(req, a) =>
            /\ a.version # 0 /\ Fits(k, a.version, a.status)
            /\ ~ forgot => a.version \in 1..Len(store[k].hist) /\ a.id = store[k].id /\ a.status = store[k].hist[a.version]
    BY <1>2 DEF AnswerFits, HasOrder, Shows
  <1>4. PICK told : told = IF HasOrder(req, a) THEN Remembered(i, a) ELSE i
    OBVIOUS
  <1>5. /\ IntentFits(k, told) /\ told.known = TRUE /\ told.tried = i.tried
        /\ ~ forgot => Told(store[k], told)
        /\ ~ forgot /\ HasOrder(req, a) => Alarms(i, a) = {}
    <2>1. CASE HasOrder(req, a)
      <3>1. told = Remembered(i, a)
        BY <1>4, <2>1
      <3>2. a \in Answers /\ a.version # 0 /\ Fits(k, a.version, a.status) /\ IntentFits(k, i) /\ i.known
        BY <1>1, <1>2, <1>3, <2>1
      <3>3. IntentFits(k, told) /\ told.known = TRUE /\ told.tried = i.tried
        BY <3>1, <3>2, Acknowledged
      <3>4. ASSUME ~ forgot
            PROVE  Told(store[k], told) /\ Alarms(i, a) = {}
        <4>1. /\ Told(store[k], i) /\ RowFits(k, store[k])
              /\ a.version \in 1..Len(store[k].hist) /\ a.id = store[k].id /\ a.status = store[k].hist[a.version]
          BY <1>2, <1>3, <2>1, <3>4
        <4> QED BY <3>1, <3>2, <4>1, Acknowledged
      <3> QED BY <2>1, <3>3, <3>4
    <2>2. CASE ~ HasOrder(req, a)
      <3>1. told = i
        BY <1>4, <2>2
      <3> QED BY <1>2, <2>2, <3>1 DEF IntentFits
    <2> QED BY <2>1, <2>2
  <1>6. PICK j : j = NotedAll(told, reqs)
    OBVIOUS
  <1>7. /\ IntentShape(j) /\ j.known = TRUE /\ j.ids = told.ids /\ j.acks = told.acks /\ told.tried \subseteq j.tried
        /\ \A r \in reqs : r.op = "update" => <<r.version + 1, r.status>> \in j.tried
    BY <1>5, <1>6, NotedAllFacts DEF IntentFits
  <1>8. /\ IntentFits(k, j) /\ j.known /\ intent[k].tried \subseteq j.tried
        /\ ~ forgot => Told(store[k], j)
    BY <1>2, <1>5, <1>7, NotedFits
  <1>9. CoversRow(j, store[k])
    BY <1>2, <1>8 DEF CoversRow
  <1>10. intent' = [intent EXCEPT ![k] = j]
    BY <1>2, <1>4, <1>6
  <1>11. /\ IntentsFit(store', intent') /\ ToldIsTrue'
         /\ \A x \in Places : (intent[x].known => intent'[x].known) /\ intent[x].tried \subseteq intent'[x].tried
         /\ \A x \in Places : x # k => intent'[x] = intent[x]
         /\ intent'[k] = j
    BY <1>2, <1>8, <1>9, <1>10, IntentSet
  <1> QED BY <1>2, <1>5, <1>7, <1>8, <1>11

(* A workflow that goes on with the calls it has made. *)
LEMMA GoesOn ==
    ASSUME NEW f \in Flows, NEW calls, calls # <<NoCall, NoCall>>
    PROVE  /\ Advance(f, calls) \in Flows /\ Advance(f, calls).n = f.n /\ Advance(f, calls).kind = f.kind
           /\ f.kind = "race" => Advance(f, calls).step = "race"
           /\ f.kind = "update" => Advance(f, calls).step = "change"
           /\ f.kind \notin {"race", "update"} => Advance(f, calls).step = f.step
  <1>1. PICK left \in Int : left = f.left - 1
    BY DEF Flows
  <1>2. CASE f.kind = "race"
    <2>1. "race" \in {"none", "create", "source", "change", "read", "race"}
      OBVIOUS
    <2>2. Advance(f, calls) = [f EXCEPT !.left = left, !.step = "race"]
      BY <1>1, <1>2 DEF Advance
    <2> QED BY <1>2, <2>1, <2>2 DEF Flows
  <1>3. CASE f.kind = "update"
    <2>1. "change" \in {"none", "create", "source", "change", "read", "race"}
      OBVIOUS
    <2>2. Advance(f, calls) = [f EXCEPT !.left = left, !.step = "change"]
      BY <1>1, <1>3 DEF Advance
    <2> QED BY <1>3, <2>1, <2>2 DEF Flows
  <1>4. CASE f.kind \notin {"race", "update"}
    <2>1. Advance(f, calls) = [f EXCEPT !.left = left, !.step = f.step]
      BY <1>1, <1>4 DEF Advance
    <2> QED BY <1>4, <2>1 DEF Flows
  <1> QED BY <1>2, <1>3, <1>4

(* The second call of a single lane. *)
LEMMA OneCall ==
    ASSUME NEW c
    PROVE  /\ <<c, NoCall>>[1] = c /\ <<c, NoCall>>[2] = NoCall
           /\ c.at = "queued" => <<c, NoCall>> # <<NoCall, NoCall>>
  <1>1. <<c, NoCall>>[1] = c /\ <<c, NoCall>>[2] = NoCall /\ <<NoCall, NoCall>>[1] = NoCall
    OBVIOUS
  <1>2. NoCall.at = "idle"
    BY DEF NoCall
  <1> QED BY <1>1, <1>2

LEMMA UpdateShape ==
    ASSUME NEW k \in Places, NEW a \in Answers, NEW status, a.version # 0, Fits(k, a.version + 1, status)
    PROVE  LET u == UpdateCall(k, a, status)
           IN /\ RequestShape(u) /\ u.op = "update" /\ u.key = k /\ u.id = a.id /\ u.version = a.version /\ u.status = status
  <1>1. PICK id \in Nat, v \in Nat, x \in OpStatuses : a.id = id /\ a.version = v /\ status = x
    BY DEF Answers, Fits, OpStatuses
  <1>2. PICK u : u = UpdateCall(k, a, status) /\ u = [op |-> "update", key |-> k, id |-> id, version |-> v, status |-> x]
    BY <1>1 DEF UpdateCall
  <1>3. u \in Requests /\ u.op = "update" /\ u.key = k /\ u.id = id /\ u.version = v /\ u.status = x
    BY <1>2 DEF Requests
  <1>4. RequestShape(u)
    BY <1>1, <1>3 DEF RequestShape
  <1> QED BY <1>1, <1>2, <1>3, <1>4

(* The call on side s of worker w has ended with answer a, and is followed by calls. *)
Ending(w, s, f, l, req, a, calls) ==
    /\ f \in Flows /\ f = flow[w] /\ l = lane[w] /\ s \in Sides
    /\ WorkerKnows(store, forgot, intent, plan.op, astray, f, l)
    /\ l[s].at \in InCall /\ req = l[s].req /\ AnswerFits(store, forgot, req, a)
    /\ a = Lost \/ (l[s].at = "answered" /\ a = l[s].answer)
    /\ store' = store /\ forgot' = forgot
    /\ Grows(store, forgot, intent, plan.op, store', forgot', intent', plan'.op)
    /\ RequestFits(intent', plan'.op, req)
    /\ \A r \in MadeOf(calls, l) : r.op = "update" => <<r.version + 1, r.status>> \in intent'[req.key].tried
    /\ \A r \in astray' : r \in astray \/ (r = req /\ a = Lost)
    /\ calls = Calls(w, s, a)

(* What its worker knows then. *)
Knowing(f, calls) ==
    /\ Advance(f, calls) \in Flows
    /\ WorkerKnows(store', forgot', intent', plan'.op, astray', Advance(f, calls), calls)
    /\ OwnKey(Advance(f, calls)) => OwnKey(f) /\ Advance(f, calls).n = f.n

LEMMA Stops ==
    ASSUME NEW w, NEW s, NEW f, NEW l, NEW req, NEW a, NEW calls, Ending(w, s, f, l, req, a, calls), calls = <<NoCall, NoCall>>
    PROVE  Knowing(f, calls)
  <1>1. Advance(f, calls) = NoFlow
    BY DEF Advance
  <1>2. ~ OwnKey(NoFlow)
    BY DEF OwnKey, NoFlow
  <1>3. NoFlow \in Flows /\ WorkerKnows(store', forgot', intent', plan'.op, astray', NoFlow, <<NoCall, NoCall>>)
    BY IdleKnows
  <1> QED BY <1>1, <1>2, <1>3 DEF Knowing

(* A lane that is not racing has one call; its answer, if there is one, has come. *)
LEMMA Alone ==
    ASSUME NEW w, NEW s, NEW f, NEW l, NEW req, NEW a, NEW calls, Ending(w, s, f, l, req, a, calls), ~ Racing(f)
    PROVE  /\ s = 1 /\ l[2] = NoCall /\ SingleCall(f, req) /\ f # NoFlow
           /\ a.code # 0 => l[1].at = "answered" /\ a = l[1].answer
  <1>1. LaneFits(f, l) /\ l[s].at \in InCall /\ s \in Sides /\ req = l[s].req
    BY DEF Ending, WorkerKnows, LaneKnows
  <1>2. NoCall.at \notin InCall
    BY DEF NoCall, InCall
  <1>3. l # <<NoCall, NoCall>>
    <2>1. l = <<NoCall, NoCall>> => l[1] = NoCall /\ l[2] = NoCall
      OBVIOUS
    <2> QED BY <1>1, <1>2, <2>1 DEF Sides
  <1>4. f # NoFlow /\ l[2] = NoCall /\ SingleCall(f, l[1].req)
    BY <1>1, <1>3 DEF LaneFits
  <1>5. s = 1
    BY <1>1, <1>2, <1>4 DEF Sides
  <1>6. a.code # 0 => a # Lost
    BY DEF Lost
  <1> QED BY <1>1, <1>4, <1>5, <1>6 DEF Ending

LEMMA RaceSideEnds ==
    ASSUME NEW w, NEW s, NEW f, NEW l, NEW req, NEW a, NEW calls, Ending(w, s, f, l, req, a, calls), Racing(f)
    PROVE  Knowing(f, calls)
  <1>0. f.kind = "race" /\ f.step = "race" /\ OwnKey(f) /\ s \in Sides
    BY DEF Racing, OwnKey, Ending
  <1>1. PICK c : c = [at |-> "ended", code |-> a.code] /\ c.at = "ended" /\ c.code = a.code
    <2>1. [at |-> "ended", code |-> a.code].at = "ended" /\ [at |-> "ended", code |-> a.code].code = a.code
      OBVIOUS
    <2> QED BY <2>1, Zenon
  <1>2. calls = [l EXCEPT ![s] = c]
    BY <1>0, <1>1 DEF Ending, Calls
  <1>3. LaneKnows(store, forgot, intent, plan.op, f, l) /\ l = <<l[1], l[2]>> /\ LaneFits(f, l)
    BY DEF Ending, WorkerKnows, LaneKnows
  <1>4. calls = <<calls[1], calls[2]>> /\ calls[s] = c /\ \A t \in Sides : t # s => calls[t] = l[t]
    BY <1>0, <1>2, <1>3, SideSet
  <1>5. calls # <<NoCall, NoCall>>
    <2>1. calls = <<NoCall, NoCall>> => calls[1] = NoCall /\ calls[2] = NoCall
      OBVIOUS
    <2>2. NoCall.at = "idle"
      BY DEF NoCall
    <2> QED BY <1>0, <1>1, <1>4, <2>1, <2>2 DEF Sides
  <1>6. PICK g \in Flows : g = Advance(f, calls) /\ g.n = f.n /\ g.kind = "race" /\ g.step = "race"
    BY <1>0, <1>5, GoesOn DEF Ending
  <1>7. g # NoFlow /\ Racing(g) /\ OwnKey(g)
    BY <1>6 DEF NoFlow, Racing, OwnKey
  <1>8. l[s].at \in InCall /\ req = l[s].req /\ req.key = f.n /\ req.op = "update" /\ req.status = StatusOf(s)
    <2>1. l[s].at \in InCall /\ req = l[s].req /\ l[s].at # "ended"
      BY DEF Ending, InCall
    <2>2. f # NoFlow
      BY <1>0 DEF NoFlow
    <2> QED BY <1>0, <1>3, <2>1, <2>2 DEF LaneFits, RaceSide, Racing
  <1>9. c.at \notin InCall /\ c.at \notin Unanswered /\ c.at # "answered" /\ c.code \in Codes
    BY <1>1 DEF InCall, Unanswered, Ending, AnswerFits, Answers
  <1>10. LaneKnows(store', forgot', intent', plan'.op, g, calls)
    <2>1. \A t \in Sides : RaceSide(g, t, calls[t])
      <3> SUFFICES ASSUME NEW t \in Sides
                   PROVE  RaceSide(g, t, calls[t])
        OBVIOUS
      <3>1. CASE t = s
        BY <1>1, <1>4, <1>9, <3>1 DEF RaceSide
      <3>2. CASE t # s
        <4>1. RaceSide(f, t, l[t])
          BY <1>0, <1>3 DEF LaneFits, NoFlow, Racing
        <4> QED BY <1>4, <1>6, <3>2, <4>1 DEF RaceSide
      <3> QED BY <3>1, <3>2
    <2>2. LaneKnows(store', forgot', intent', plan'.op, f, l)
      BY <1>3, LaneKeeps DEF Ending
    <2>3. CallFits(store', forgot', intent', plan'.op, c)
      BY <1>9 DEF CallFits
    <2>4. \A t \in Sides : CallFits(store', forgot', intent', plan'.op, calls[t])
      BY <1>4, <2>2, <2>3 DEF LaneKnows
    <2>5. g.n \in 1..MaxOps /\ g.n < plan'.op
      BY <1>0, <1>6, <2>2 DEF LaneKnows
    <2> QED BY <1>4, <1>7, <2>1, <2>4, <2>5 DEF LaneKnows, LaneFits
  <1>11. OwnRow(store', forgot', g, calls)
    BY <1>6 DEF OwnRow
  <1>12. RaceRow(store', forgot', g, calls)
    <2> SUFFICES ASSUME ~ forgot
                 PROVE  store[f.n].hist # <<>> /\ \A t \in Sides : SideKnows(store[f.n], t, calls[t])
      BY <1>6 DEF RaceRow, Ending
    <2>1. store[f.n].hist # <<>> /\ \A t \in Sides : SideKnows(store[f.n], t, l[t])
      BY DEF Ending, WorkerKnows, RaceRow
    <2>2. SideKnows(store[f.n], s, c)
      <3>1. CASE a = Lost
        <4>1. CodeOf(c) = 0
          BY <1>1, <3>1 DEF CodeOf, Lost
        <4> QED BY <1>9, <4>1 DEF SideKnows
      <3>2. CASE l[s].at = "answered" /\ a = l[s].answer
        <4>1. CodeOf(c) = CodeOf(l[s])
          BY <1>1, <3>2 DEF CodeOf
        <4>2. SideKnows(store[f.n], s, l[s])
          BY <1>0, <2>1
        <4> QED BY <1>9, <3>2, <4>1, <4>2 DEF SideKnows
      <3> QED BY <3>1, <3>2 DEF Ending
    <2> QED BY <1>4, <2>1, <2>2
  <1>13. ASSUME NEW r \in astray'
         PROVE  Detached(r, g, calls)
    <2> SUFFICES ASSUME r.key = f.n
                 PROVE  /\ r.op = "update"
                        /\ \A t \in Sides : r.status = StatusOf(t) => calls[t].at = "ended" /\ calls[t].code = 0
      BY <1>6, <1>7 DEF Detached
    <2>1. CASE r \in astray
      <3>1. Detached(r, f, l)
        BY <2>1 DEF Ending, WorkerKnows
      <3>2. /\ r.op = "update"
            /\ \A t \in Sides : r.status = StatusOf(t) => l[t].at = "ended" /\ l[t].code = 0
        BY <1>0, <3>1 DEF Detached
      <3>3. r.status # StatusOf(s)
        BY <1>0, <1>8, <3>2 DEF InCall
      <3> QED BY <1>4, <3>2, <3>3
    <2>2. CASE r = req /\ a = Lost
      <3>1. \A t \in Sides : r.status = StatusOf(t) => t = s
        BY <1>0, <1>8, <2>2 DEF StatusOf, Sides
      <3>2. c.code = 0
        BY <1>1, <2>2 DEF Lost
      <3> QED BY <1>1, <1>4, <1>8, <2>2, <3>1, <3>2
    <2> QED BY <2>1, <2>2 DEF Ending
  <1> QED BY <1>0, <1>6, <1>10, <1>11, <1>12, <1>13 DEF Knowing, WorkerKnows

LEMMA RaceStarts ==
    ASSUME SimInv, NEW w, NEW s, NEW f, NEW l, NEW req, NEW a, NEW calls, Ending(w, s, f, l, req, a, calls),
           f.kind = "race", f.step = "create", a.code \in {200, 201}
    PROVE  Knowing(f, calls)
  <1>0. OwnKey(f) /\ ~ Racing(f) /\ a.code # 0 /\ f \in Flows
    BY DEF OwnKey, Racing, Ending
  <1>1. /\ s = 1 /\ l[2] = NoCall /\ SingleCall(f, req) /\ l[1].at = "answered" /\ a = l[1].answer
    BY <1>0, Alone
  <1>2. req = Create(f.n) /\ req.op = "create" /\ req.key = f.n
    BY <1>0, <1>1 DEF SingleCall, OwnKey, Create
  <1>3. LaneKnows(store', forgot', intent', plan'.op, f, l)
    BY LaneKeeps DEF Ending, WorkerKnows
  <1>4. f.n \in 1..MaxOps /\ f.n < plan'.op /\ f.n \in Places /\ f.n # 0
    BY <1>0, <1>3, SimAssumption DEF LaneKnows, Places
  <1>5. a.code = 201 /\ a.version = 1 /\ (~ forgot => Len(store[f.n].hist) = 1)
    BY <1>0, <1>1 DEF Ending, WorkerKnows, OwnRow
  <1>6. a \in Answers /\ (~ forgot => a.id = store[f.n].id)
    BY <1>2, <1>5 DEF Ending, AnswerFits, HasOrder
  <1>7. PICK u, v : u = UpdateCall(f.n, a, "paid") /\ v = UpdateCall(f.n, a, "cancelled")
    OBVIOUS
  <1>8. Fits(f.n, a.version + 1, "paid") /\ Fits(f.n, a.version + 1, "cancelled") /\ a.version # 0
    BY <1>4, <1>5 DEF Fits
  <1>9. RequestShape(u) /\ u.op = "update" /\ u.key = f.n /\ u.id = a.id /\ u.version = 1 /\ u.status = "paid"
    BY <1>4, <1>5, <1>6, <1>7, <1>8, UpdateShape
  <1>10. RequestShape(v) /\ v.op = "update" /\ v.key = f.n /\ v.id = a.id /\ v.version = 1 /\ v.status = "cancelled"
    BY <1>4, <1>5, <1>6, <1>7, <1>8, UpdateShape
  <1>11. PICK c, d : c = Queued(u) /\ d = Queued(v)
    OBVIOUS
  <1>12. c.at = "queued" /\ c.req = u /\ d.at = "queued" /\ d.req = v
    BY <1>11, QueuedIs
  <1>13. calls = <<c, d>>
    BY <1>7, <1>9, <1>10, <1>11, <1>12 DEF Ending, Calls
  <1>14. calls = <<calls[1], calls[2]>> /\ calls[1] = c /\ calls[2] = d
    BY <1>13
  <1>15. calls # <<NoCall, NoCall>>
    <2>1. calls = <<NoCall, NoCall>> => calls[1] = NoCall
      OBVIOUS
    <2> QED BY <1>11, <1>12, <1>14, <2>1 DEF NoCall
  <1>16. PICK g \in Flows : g = Advance(f, calls) /\ g.n = f.n /\ g.kind = "race" /\ g.step = "race"
    BY <1>0, <1>15, GoesOn
  <1>17. g # NoFlow /\ Racing(g) /\ OwnKey(g)
    BY <1>16 DEF NoFlow, Racing, OwnKey
  <1>18. c.at \in InCall /\ d.at \in InCall /\ c.at \in Unanswered /\ d.at \in Unanswered
    BY <1>11, <1>12 DEF InCall, Unanswered
  <1>19. u \in MadeOf(calls, l) /\ v \in MadeOf(calls, l)
    <2>1. calls[1].at = "queued" /\ calls[1] # l[1] /\ calls[2].at = "queued" /\ calls[2] # l[2]
      BY <1>1, <1>11, <1>12, <1>14 DEF NoCall
    <2> QED BY <1>11, <1>12, <1>14, <2>1 DEF MadeOf, Sides
  <1>20. <<2, "paid">> \in intent'[f.n].tried /\ <<2, "cancelled">> \in intent'[f.n].tried
    <2>1. <<u.version + 1, u.status>> \in intent'[req.key].tried
      BY <1>7, <1>9, <1>10, <1>19 DEF Ending
    <2>2. <<v.version + 1, v.status>> \in intent'[req.key].tried
      BY <1>7, <1>9, <1>10, <1>19 DEF Ending
    <2> QED BY <1>2, <1>7, <1>9, <1>10, <2>1, <2>2
  <1>21. RequestFits(intent', plan'.op, u) /\ RequestFits(intent', plan'.op, v)
    <2>1. intent'[f.n].known
      BY <1>2 DEF Ending, RequestFits
    <2>2. 1 + 1 = 2
      OBVIOUS
    <2> QED BY <1>4, <1>7, <1>9, <1>10, <1>20, <2>1, <2>2 DEF RequestFits
  <1>22. LaneKnows(store', forgot', intent', plan'.op, g, calls)
    <2>1. \A t \in Sides : RaceSide(g, t, calls[t])
      BY <1>7, <1>9, <1>10, <1>11, <1>12, <1>14, <1>16, <1>18 DEF RaceSide, StatusOf, Sides
    <2>2. CallFits(store', forgot', intent', plan'.op, c) /\ CallFits(store', forgot', intent', plan'.op, d)
      BY <1>11, <1>12, <1>21, QueuedFits
    <2>3. \A t \in Sides : CallFits(store', forgot', intent', plan'.op, calls[t])
      BY <1>14, <2>2 DEF Sides
    <2> QED BY <1>4, <1>14, <1>16, <1>17, <2>1, <2>3 DEF LaneKnows, LaneFits
  <1>23. OwnRow(store', forgot', g, calls)
    BY <1>16 DEF OwnRow
  <1>24. RaceRow(store', forgot', g, calls)
    <2> SUFFICES ASSUME ~ forgot
                 PROVE  store[f.n].hist # <<>> /\ \A t \in Sides : SideKnows(store[f.n], t, calls[t])
      BY <1>16 DEF RaceRow, Ending
    <2>1. store[f.n].hist # <<>>
      BY <1>5
    <2>2. ~ (Len(store[f.n].hist) = 2)
      BY <1>5
    <2>3. SideKnows(store[f.n], 1, c) /\ SideKnows(store[f.n], 2, d)
      BY <1>6, <1>7, <1>9, <1>10, <1>11, <1>12, <2>2 DEF SideKnows
    <2> QED BY <1>14, <2>1, <2>3 DEF Sides
  <1>25. ASSUME NEW r \in astray'
         PROVE  Detached(r, g, calls)
    <2> SUFFICES ASSUME r.key = f.n
                 PROVE  FALSE
      BY <1>16 DEF Detached
    <2>1. a # Lost
      BY <1>0 DEF Lost
    <2>2. Detached(r, f, l)
      BY <2>1 DEF Ending, WorkerKnows
    <2> QED BY <1>0, <2>2 DEF Detached
  <1> QED BY <1>0, <1>16, <1>22, <1>23, <1>24, <1>25 DEF Knowing, WorkerKnows

(* A workflow without an order of its own goes on with one more call. *)
LEMMA SharedGoesOn ==
    ASSUME NEW w, NEW s, NEW f, NEW l, NEW req, NEW a, NEW calls, Ending(w, s, f, l, req, a, calls),
           f.kind \in {"retry", "update"}, NEW next, RequestFits(intent', plan'.op, next), calls = <<Queued(next), NoCall>>,
           f.kind = "retry" => f.step = "create" /\ next = Create(0),
           f.kind = "update" => next.key = 0 /\ next.op \in {"update", "read"}
    PROVE  Knowing(f, calls)
  <1>1. PICK c : c = Queued(next)
    OBVIOUS
  <1>2. c.at = "queued" /\ c.req = next /\ c.at \in InCall /\ CallFits(store', forgot', intent', plan'.op, c)
    BY <1>1, QueuedFits
  <1>3. calls = <<c, NoCall>> /\ calls[1] = c /\ calls[2] = NoCall /\ calls # <<NoCall, NoCall>>
    BY <1>1, <1>2, OneCall
  <1>4. PICK g \in Flows : /\ g = Advance(f, calls) /\ g.n = f.n /\ g.kind = f.kind
                           /\ f.kind = "update" => g.step = "change"
                           /\ f.kind = "retry" => g.step = f.step
    BY <1>3, GoesOn DEF Ending
  <1>5. g # NoFlow /\ ~ Racing(g) /\ ~ OwnKey(g)
    BY <1>4 DEF NoFlow, Racing, OwnKey
  <1>6. SingleCall(g, next)
    BY <1>4 DEF SingleCall
  <1>7. LaneKnows(store', forgot', intent', plan'.op, g, calls)
    <2>1. calls = <<calls[1], calls[2]>>
      BY <1>3
    <2>2. LaneFits(g, calls)
      BY <1>2, <1>3, <1>5, <1>6 DEF LaneFits
    <2>3. \A t \in Sides : CallFits(store', forgot', intent', plan'.op, calls[t])
      BY <1>2, <1>3, NoCallFits DEF Sides
    <2> QED BY <1>5, <2>1, <2>2, <2>3 DEF LaneKnows
  <1> QED BY <1>4, <1>5, <1>7 DEF Knowing, WorkerKnows, OwnRow, RaceRow, Detached

LEMMA UpdateGoes ==
    ASSUME SimInv, NEW w, NEW s, NEW f, NEW l, NEW req, NEW a, NEW calls, Ending(w, s, f, l, req, a, calls),
           f.kind = "update", f.step = "source", a.code = 200, a.id # 0
    PROVE  Knowing(f, calls)
  <1>0. ~ Racing(f)
    BY DEF Racing
  <1>1. s = 1 /\ l[2] = NoCall /\ SingleCall(f, req) /\ l[1].at = "answered" /\ a = l[1].answer
    BY <1>0, Alone
  <1>2. req = Source(0) /\ req.op = "source" /\ req.key = 0
    BY <1>1 DEF SingleCall, OwnKey, Source
  <1>3. a \in Answers /\ a.version # 0 /\ a.version \in Nat /\ Fits(0, a.version, a.status)
    BY <1>2 DEF Ending, AnswerFits, Answers, Shows
  <1>4. 0 \in Places /\ 0 \in Int
    BY SimAssumption DEF Places
  <1>5. intent'[0].known
    BY <1>2 DEF Ending, RequestFits
  <1>6. CASE a.status \in DOMAIN NextStatus
    <2>1. Fits(0, a.version + 1, NextStatus[a.status])
      <3>1. a.status \in {"created", "paid"} /\ NextStatus["created"] = "paid" /\ NextStatus["paid"] = "shipped"
        BY <1>6 DEF NextStatus
      <3>2. a.status = "created" => a.version = 1
        BY <1>3 DEF Fits
      <3>3. a.status = "paid" => a.version = 2
        BY <1>3 DEF Fits
      <3> QED BY <3>1, <3>2, <3>3 DEF Fits
    <2>2. PICK u : u = UpdateCall(0, a, NextStatus[a.status])
      OBVIOUS
    <2>3. RequestShape(u) /\ u.op = "update" /\ u.key = 0 /\ u.version = a.version /\ u.status = NextStatus[a.status]
      BY <1>3, <1>4, <2>1, <2>2, UpdateShape
    <2>4. calls = <<Queued(u), NoCall>>
      BY <1>6, <2>2 DEF Ending, Calls
    <2>5. u \in MadeOf(calls, l)
      <3>1. PICK c : c = Queued(u)
        OBVIOUS
      <3>2. c.at = "queued" /\ c.req = u /\ calls[1] = c
        BY <2>4, <3>1, QueuedIs, OneCall
      <3>3. calls[1] # l[1] /\ 1 \in Sides
        BY <1>1, <3>2 DEF Sides
      <3> QED BY <3>2, <3>3 DEF MadeOf
    <2>6. <<u.version + 1, u.status>> \in intent'[0].tried
      BY <1>2, <2>3, <2>5 DEF Ending
    <2>7. RequestFits(intent', plan'.op, u)
      BY <1>5, <2>3, <2>6 DEF RequestFits
    <2> QED BY <2>3, <2>4, <2>7, SharedGoesOn
  <1>7. CASE a.status \notin DOMAIN NextStatus
    <2>1. calls = <<Queued(Read(0)), NoCall>>
      BY <1>7 DEF Ending, Calls
    <2>2. Read(0).op = "read" /\ Read(0).key = 0 /\ RequestShape(Read(0))
      BY <1>4 DEF Read, RequestShape, Requests
    <2>3. RequestFits(intent', plan'.op, Read(0))
      BY <1>5, <2>2 DEF RequestFits
    <2> QED BY <2>1, <2>2, <2>3, SharedGoesOn
  <1> QED BY <1>6, <1>7

LEMMA RetryGoes ==
    ASSUME SimInv, NEW w, NEW s, NEW f, NEW l, NEW req, NEW a, NEW calls, Ending(w, s, f, l, req, a, calls),
           f.kind = "retry", f.left > 1
    PROVE  Knowing(f, calls)
  <1>0. ~ Racing(f)
    BY DEF Racing
  <1>1. SingleCall(f, req)
    BY <1>0, Alone
  <1>2. req = Create(0) /\ req.op = "create" /\ f.step = "create"
    BY <1>1 DEF SingleCall, OwnKey, Create
  <1>3. calls = <<Queued(Create(0)), NoCall>>
    BY DEF Ending, Calls
  <1>4. RequestFits(intent', plan'.op, Create(0))
    BY <1>2 DEF Ending
  <1> QED BY <1>2, <1>3, <1>4, SharedGoesOn

LEMMA WorkerGoesOn ==
    ASSUME SimInv, NEW w, NEW s, NEW f, NEW l, NEW req, NEW a, NEW calls, Ending(w, s, f, l, req, a, calls)
    PROVE  Knowing(f, calls)
  <1>1. CASE f.kind = "retry" /\ f.left > 1
    BY <1>1, RetryGoes
  <1>2. CASE f.kind = "race" /\ f.step = "create" /\ a.code \in {200, 201}
    BY <1>2, RaceStarts
  <1>3. CASE f.kind = "race" /\ f.step = "race"
    BY <1>3, RaceSideEnds DEF Racing
  <1>4. CASE f.kind = "update" /\ f.step = "source" /\ a.code = 200 /\ a.id # 0
    BY <1>4, UpdateGoes
  <1>5. CASE /\ ~ (f.kind = "retry" /\ f.left > 1)
             /\ ~ (f.kind = "race" /\ f.step = "create" /\ a.code \in {200, 201})
             /\ ~ (f.kind = "race" /\ f.step = "race")
             /\ ~ (f.kind = "update" /\ f.step = "source" /\ a.code = 200 /\ a.id # 0)
    <2>1. calls = <<NoCall, NoCall>>
      BY <1>5 DEF Ending, Calls
    <2> QED BY <2>1, Stops
  <1> QED BY <1>1, <1>2, <1>3, <1>4, <1>5

LEMMA CallEndedKeeps ==
    ASSUME SimInv, NEW w \in Workers, NEW s \in Sides, NEW a, CallEnded(w, s, a), lane[w][s].at \in InCall,
           AnswerFits(store, forgot, lane[w][s].req, a),
           a = Lost \/ (lane[w][s].at = "answered" /\ a = lane[w][s].answer),
           UNCHANGED <<store, shown, forgot, plan, audit>>,
           astray' = astray \/ (astray' = astray \cup {lane[w][s].req} /\ lane[w][s].at \in Unanswered /\ a = Lost)
    PROVE  SimInv'
  <1>1. PICK f, l : f \in Flows /\ f = flow[w] /\ l = lane[w] /\ WorkerKnows(store, forgot, intent, plan.op, astray, f, l)
    BY DEF SimInv, WorkersKnow
  <1>2. PICK req : req = l[s].req
    OBVIOUS
  <1>3. PICK calls : calls = Calls(w, s, a)
    OBVIOUS
  <1>4. RequestFits(intent, plan.op, req) /\ RequestShape(req) /\ req.key \in Places
    BY <1>1, <1>2 DEF WorkerKnows, LaneKnows, CallFits, RequestFits, RequestShape, Requests
  <1>5. /\ intent' = [intent EXCEPT ![req.key] = NotedAll(IF HasOrder(req, a) THEN Remembered(intent[req.key], a) ELSE intent[req.key],
                                                          MadeOf(calls, l))]
        /\ contract' = contract \cup (IF HasOrder(req, a) THEN Alarms(intent[req.key], a) ELSE {})
        /\ lane' = [lane EXCEPT ![w] = calls]
        /\ flow' = [flow EXCEPT ![w] = Advance(f, calls)]
    BY <1>1, <1>2, <1>3, CallEndedIs
  <1>6. AnswerFits(store, forgot, req, a)
    BY <1>1, <1>2
  <1>7. /\ IntentsFit(store', intent') /\ ToldIsTrue'
        /\ \A x \in Places : (intent[x].known => intent'[x].known) /\ intent[x].tried \subseteq intent'[x].tried
        /\ \A x \in Places : x # req.key => intent'[x] = intent[x]
        /\ intent'[req.key].known
        /\ \A r \in MadeOf(calls, l) : r.op = "update" => <<r.version + 1, r.status>> \in intent'[req.key].tried
        /\ ~ forgot /\ HasOrder(req, a) => Alarms(intent[req.key], a) = {}
    BY <1>4, <1>5, <1>6, EndedIntent
  <1>8. plan'.op \in Nat /\ plan.op \in Nat /\ plan.op <= plan'.op
    BY Standing
  <1>9. Grows(store, forgot, intent, plan.op, store', forgot', intent', plan'.op)
    BY <1>7, <1>8, StoreStays
  <1>10. RequestFits(intent', plan'.op, req)
    BY <1>4, <1>7, <1>8, RequestKeeps
  <1>11. Ending(w, s, f, l, req, a, calls)
    <2>1. \A r \in astray' : r \in astray \/ (r = req /\ a = Lost)
      BY <1>1, <1>2
    <2> QED BY <1>1, <1>2, <1>3, <1>6, <1>7, <1>9, <1>10, <2>1 DEF Ending
  <1>12. PICK g \in Flows : /\ g = Advance(f, calls)
                            /\ WorkerKnows(store', forgot', intent', plan'.op, astray', g, calls)
                            /\ OwnKey(g) => OwnKey(f) /\ g.n = f.n
    BY <1>11, WorkerGoesOn DEF Knowing
  <1>13. req.key = 0 \/ (OwnKey(f) /\ req.key = f.n)
    <2>1. CASE Racing(f)
      <3>1. LaneFits(f, l) /\ l[s].at \in InCall
        BY <1>1 DEF WorkerKnows, LaneKnows
      <3> QED BY <1>2, <2>1, <3>1 DEF LaneFits, RaceSide, Racing, OwnKey, NoFlow, InCall
    <2>2. CASE ~ Racing(f)
      <3>1. SingleCall(f, req)
        BY <1>11, <2>2, Alone
      <3> QED BY <3>1 DEF SingleCall, Create, Source, Read
    <2> QED BY <2>1, <2>2
  <1>14. WorkersKnow' /\ OneOwner'
    <2>1. ASSUME NEW u \in Workers, u # w
          PROVE  /\ OwnKey(flow[u]) => store'[flow[u].n] = store[flow[u].n]
                 /\ \A r \in astray' : r \in astray \/ Detached(r, flow[u], lane[u])
                 /\ OwnKey(g) /\ OwnKey(flow[u]) => flow[u].n # g.n
      <3>1. OwnKey(f) /\ OwnKey(flow[u]) => flow[u].n # f.n
        BY <1>1, <2>1 DEF SimInv, OneOwner
      <3>2. OwnKey(flow[u]) => flow[u].n # 0
        <4>1. WorkerKnows(store, forgot, intent, plan.op, astray, flow[u], lane[u])
          BY Standing
        <4> QED BY <4>1, SimAssumption DEF WorkerKnows, LaneKnows
      <3>3. Detached(req, flow[u], lane[u])
        BY <1>13, <3>1, <3>2 DEF Detached
      <3>4. \A r \in astray' : r \in astray \/ Detached(r, flow[u], lane[u])
        BY <1>1, <1>2, <3>3
      <3> QED BY <1>12, <3>1, <3>4
    <2>2. flow' = [flow EXCEPT ![w] = g]
      BY <1>5, <1>12
    <2> QED BY <1>5, <1>9, <1>12, <2>1, <2>2, WorkersStep
  <1>15. AstrayFit'
    <2>1. \A r \in astray' : RequestFits(intent', plan'.op, r)
      <3>1. \A r \in astray : RequestFits(intent', plan'.op, r)
        BY <1>7, <1>8, Standing, RequestKeeps
      <3> QED BY <1>1, <1>2, <1>10, <3>1
    <2>2. \A r \in astray : Detached(r, f, l)
      BY <1>1 DEF WorkerKnows
    <2>3. CASE astray' = astray
      BY <2>1, <2>3 DEF SimInv, AstrayFit
    <2>4. CASE astray' = astray \cup {req} /\ l[s].at \in Unanswered
      <3>1. req.key # 0 /\ req.op = "create" => store[req.key] = Absent /\ \A r \in astray : r.key # req.key
        <4> SUFFICES ASSUME req.key # 0, req.op = "create"
                     PROVE  store[req.key] = Absent /\ \A r \in astray : r.key # req.key
          OBVIOUS
        <4>1. OwnKey(f) /\ req.key = f.n
          BY <1>13
        <4>2. ~ Racing(f)
          <5>1. LaneFits(f, l) /\ l[s].at \in InCall
            BY <1>1 DEF WorkerKnows, LaneKnows
          <5> QED BY <1>2, <5>1 DEF LaneFits, RaceSide, Racing, NoFlow, InCall
        <4>3. s = 1 /\ SingleCall(f, req)
          BY <1>11, <4>2, Alone
        <4>4. f.step = "create"
          BY <4>1, <4>3 DEF SingleCall, OwnKey
        <4>5. store[f.n] = Absent
          BY <1>1, <2>4, <4>1, <4>3, <4>4 DEF WorkerKnows, OwnRow
        <4>6. \A r \in astray : r.key # f.n
          BY <2>2, <4>1, <4>2 DEF Detached
        <4> QED BY <4>1, <4>5, <4>6
      <3>2. ASSUME NEW r \in astray, r.key # 0, r.op = "create"
            PROVE  store[r.key] = Absent /\ (\A q \in astray : q.key = r.key => q = r) /\ r.key # req.key
        <4>1. store[r.key] = Absent /\ (\A q \in astray : q.key = r.key => q = r)
          BY <3>2 DEF SimInv, AstrayFit
        <4>2. r.key # req.key
          BY <1>13, <2>2, <3>2 DEF Detached
        <4> QED BY <4>1, <4>2
      <3>3. ASSUME NEW r \in astray', r.key # 0, r.op = "create"
            PROVE  store[r.key] = Absent /\ \A q \in astray' : q.key = r.key => q = r
        <4>1. CASE r = req
          BY <2>4, <3>1, <3>3, <4>1
        <4>2. CASE r # req
          BY <2>4, <3>2, <3>3, <4>2
        <4> QED BY <4>1, <4>2
      <3> QED BY <2>1, <3>3 DEF AstrayFit
    <2> QED BY <1>1, <1>2, <2>3, <2>4
  <1>16. Unborn(store', intent', plan'.op)
    <2> SUFFICES ASSUME NEW x \in Places, x >= plan.op, x # 0
                 PROVE  store[x] = Absent /\ intent'[x] = NoIntent
      BY DEF Unborn
    <2>1. x # req.key
      BY <1>4, <1>8 DEF RequestFits, Places
    <2> QED BY <1>7, <2>1 DEF SimInv, Unborn
  <1>17. SimTypes' /\ NoFalseAlarm'
    <2>1. Alarms(intent[req.key], a) \subseteq ContractErrors
      BY DEF Alarms, ContractErrors
    <2> QED BY <1>5, <1>7, <2>1 DEF SimInv, SimTypes, NoFalseAlarm
  <1>18. StoreFits(store') /\ PlanAdds'
    BY DEF SimInv, PlanAdds
  <1>19. AuditKnows'
    <2>1. lane[w][s].at # "idle"
      BY DEF InCall
    <2> QED BY <2>1, BusyLane, NoAuditYet
  <1> QED BY <1>7, <1>14, <1>15, <1>16, <1>17, <1>18, <1>19 DEF SimInv

LEMMA ReceiveKeeps ==
    ASSUME SimInv, NEW w \in Workers, NEW s \in Sides, Receive(w, s)
    PROVE  SimInv'
  <1>1. /\ lane[w][s].at = "answered" /\ CallEnded(w, s, lane[w][s].answer)
        /\ UNCHANGED <<store, shown, forgot, astray, plan, audit>>
    BY DEF Receive, simStore
  <1>2. CallFits(store, forgot, intent, plan.op, lane[w][s])
    BY Standing DEF WorkerKnows, LaneKnows
  <1>3. AnswerFits(store, forgot, lane[w][s].req, lane[w][s].answer) /\ lane[w][s].at \in InCall
    BY <1>1, <1>2 DEF CallFits, InCall
  <1> QED BY <1>1, <1>3, CallEndedKeeps

LEMMA GiveUpKeeps ==
    ASSUME SimInv, NEW w \in Workers, NEW s \in Sides, GiveUp(w, s)
    PROVE  SimInv'
  <1>1. /\ lane[w][s].at \in InCall /\ CallEnded(w, s, Lost)
        /\ UNCHANGED <<store, shown, forgot, plan, audit>>
        /\ astray' = IF lane[w][s].at = "sent" THEN astray \cup {lane[w][s].req} ELSE astray
    BY DEF GiveUp, InCall
  <1>2. astray' = astray \/ (astray' = astray \cup {lane[w][s].req} /\ lane[w][s].at \in Unanswered)
    BY <1>1 DEF Unanswered
  <1>3. AnswerFits(store, forgot, lane[w][s].req, Lost)
    <2>1. Lost \in Answers /\ Lost.code = 0
      BY DEF Lost, Answers, Codes
    <2> QED BY <2>1 DEF AnswerFits, Shows, HasOrder
  <1> QED BY <1>1, <1>2, <1>3, CallEndedKeeps

-----------------------------------------------------------------------------
(* The fixture is in the store, shown, and acknowledged. *)
LEMMA FixtureFits ==
    ASSUME NEW row, row = [id |-> 1, hist |-> <<"created">>],
           NEW i, i = Remembered([NoIntent EXCEPT !.known = TRUE], Image(201, row))
    PROVE  /\ RowFits(0, row) /\ IntentFits(0, i) /\ CoversRow(i, row) /\ Told(row, i) /\ Seen(row) \in [id : Nat, version : Nat]
  <1>1. PICK h : h = <<"created">> /\ h \in Seq(OpStatuses) /\ Len(h) = 1 /\ h[1] = "created" /\ h # <<>>
    <2>1. "created" \in OpStatuses
      BY DEF OpStatuses
    <2>2. <<"created">> \in Seq(OpStatuses) /\ Len(<<"created">>) = 1 /\ <<"created">>[1] = "created" /\ <<"created">> # <<>>
      BY <2>1
    <2> QED BY <2>2
  <1>2. row.id = 1 /\ row.hist = h /\ row \in Rows
    BY <1>1 DEF Rows
  <1>3. RowFits(0, row)
    BY <1>1, <1>2 DEF RowFits, Fits
  <1>4. PICK a : a = Image(201, row) /\ a = [code |-> 201, id |-> 1, version |-> 1, status |-> "created"]
    BY <1>1, <1>2 DEF Image
  <1>5. a \in Answers /\ a.version = 1 /\ a.id = 1 /\ a.status = "created"
    BY <1>4 DEF Answers, Codes, OpStatuses
  <1>6. PICK j : j = [NoIntent EXCEPT !.known = TRUE] /\ j = [known |-> TRUE, ids |-> {}, acks |-> <<>>, tried |-> {}]
    BY DEF NoIntent
  <1>7. j.known = TRUE /\ j.ids = {} /\ j.acks = <<>> /\ j.tried = {} /\ IntentShape(j)
    <2>1. j.known = TRUE /\ j.ids = {} /\ j.acks = <<>> /\ j.tried = {}
      BY <1>6
    <2> QED BY <2>1, <1>6, Zenon DEF IntentShape
  <1>8. DOMAIN j.acks = {} /\ j.acks \in [DOMAIN j.acks -> Marks]
    BY <1>7
  <1>9. IntentFits(0, j)
    BY <1>7, <1>8 DEF IntentFits
  <1>10. Fits(0, a.version, a.status)
    BY <1>5 DEF Fits
  <1>11. Told(row, j)
    BY <1>2, <1>7, <1>8 DEF Told
  <1>12. a.version \in 1..Len(row.hist) /\ a.id = row.id /\ a.status = row.hist[a.version]
    BY <1>1, <1>2, <1>5
  <1>13. i = Remembered(j, a)
    BY <1>4, <1>6
  <1>14. IntentFits(0, i) /\ Told(row, i)
    <2>1. j.known /\ a.version # 0
      BY <1>5, <1>7
    <2>2. /\ IntentFits(0, Remembered(j, a))
          /\ \A r : /\ Told(r, j) /\ RowFits(0, r)
                   /\ a.version \in 1..Len(r.hist) /\ a.id = r.id /\ a.status = r.hist[a.version]
                   => Told(r, Remembered(j, a)) /\ Alarms(j, a) = {}
      BY <1>5, <1>9, <1>10, <2>1, Acknowledged
    <2> QED BY <2>2, <1>3, <1>11, <1>12, <1>13
  <1>15. CoversRow(i, row)
    BY <1>1, <1>2 DEF CoversRow
  <1>16. Seen(row) \in [id : Nat, version : Nat]
    BY <1>1, <1>2 DEF Seen
  <1> QED BY <1>3, <1>14, <1>15, <1>16

LEMMA NothingFits ==
    ASSUME NEW k
    PROVE  /\ RowFits(k, Absent) /\ IntentFits(k, NoIntent) /\ CoversRow(NoIntent, Absent) /\ Told(Absent, NoIntent)
           /\ Unshown \in [id : Nat, version : Nat]
  <1>1. PICK h : h = <<>> /\ h \in Seq(OpStatuses) /\ Len(h) = 0
    <2>1. <<>> \in Seq(OpStatuses) /\ Len(<<>>) = 0
      OBVIOUS
    <2> QED BY <2>1, Zenon
  <1>2. Absent.id = 0 /\ Absent.hist = h /\ Absent \in Rows
    BY <1>1 DEF Absent, Rows
  <1>3. RowFits(k, Absent)
    BY <1>1, <1>2 DEF RowFits
  <1>4. NoIntent.known = FALSE /\ NoIntent.ids = {} /\ NoIntent.acks = <<>> /\ NoIntent.tried = {} /\ IntentShape(NoIntent)
    BY DEF NoIntent, IntentShape
  <1>5. DOMAIN NoIntent.acks = {} /\ NoIntent.acks \in [DOMAIN NoIntent.acks -> Marks]
    BY <1>4
  <1>6. IntentFits(k, NoIntent)
    BY <1>4, <1>5 DEF IntentFits
  <1>7. CoversRow(NoIntent, Absent) /\ Told(Absent, NoIntent)
    BY <1>1, <1>2, <1>4, <1>5 DEF CoversRow, Told
  <1>8. Unshown \in [id : Nat, version : Nat]
    BY DEF Unshown
  <1> QED BY <1>3, <1>6, <1>7, <1>8

LEMMA SimStarts ==
    ASSUME SimInit
    PROVE  SimInv
  <1>1. PICK first, note : /\ first = [id |-> 1, hist |-> <<"created">>]
                           /\ note = Remembered([NoIntent EXCEPT !.known = TRUE], Image(201, first))
    OBVIOUS
  <1>2. /\ store = [k \in Places |-> IF k = 0 THEN first ELSE Absent]
        /\ shown = [k \in Places |-> IF k = 0 THEN Seen(first) ELSE Unshown]
        /\ intent = [k \in Places |-> IF k = 0 THEN note ELSE NoIntent]
    BY <1>1 DEF SimInit
  <1>3. /\ forgot = FALSE /\ astray = {} /\ contract = {} /\ audit = NotAuditing
        /\ flow = [w \in Workers |-> NoFlow] /\ lane = [w \in Workers |-> <<NoCall, NoCall>>]
        /\ plan = [op |-> 1, admitted |-> 0, skipped |-> 0]
    BY DEF SimInit
  <1>4. \A k \in Places : /\ k = 0 => store[k] = first /\ shown[k] = Seen(first) /\ intent[k] = note
                          /\ k # 0 => store[k] = Absent /\ shown[k] = Unshown /\ intent[k] = NoIntent
    BY <1>2
  <1>5. \A k \in Places : RowFits(k, store[k]) /\ IntentFits(k, intent[k]) /\ CoversRow(intent[k], store[k]) /\ Told(store[k], intent[k])
                          /\ shown[k] \in [id : Nat, version : Nat]
    <2>1. /\ RowFits(0, first) /\ IntentFits(0, note) /\ CoversRow(note, first) /\ Told(first, note)
          /\ Seen(first) \in [id : Nat, version : Nat]
      BY <1>1, FixtureFits
    <2> QED BY <1>4, <2>1, NothingFits, Zenon
  <1>6. StoreFits(store)
    <2>1. \A k \in Places : store[k] \in Rows
      BY <1>5 DEF RowFits
    <2>2. store = [k \in Places |-> store[k]]
      BY <1>2
    <2>3. store \in [Places -> Rows]
      BY <2>1, <2>2
    <2> QED BY <2>3, <1>5 DEF StoreFits
  <1>7. IntentsFit(store, intent)
    <2>1. intent = [k \in Places |-> intent[k]]
      BY <1>2
    <2> QED BY <2>1, <1>5 DEF IntentsFit
  <1>8. SimTypes
    <2>1. shown \in [Places -> [id : Nat, version : Nat]]
      BY <1>2, <1>5
    <2> QED BY <2>1, <1>3 DEF SimTypes
  <1>9. WorkersKnow
    <2>1. \A w \in Workers : flow[w] = NoFlow /\ lane[w] = <<NoCall, NoCall>>
      BY <1>3
    <2>2. \A w \in Workers : WorkerKnows(store, forgot, intent, plan.op, astray, flow[w], lane[w])
      BY <2>1, IdleKnows
    <2>3. flow \in [Workers -> Flows]
      BY <1>3, IdleKnows
    <2>4. lane = [w \in Workers |-> lane[w]]
      BY <1>3
    <2> QED BY <2>2, <2>3, <2>4 DEF WorkersKnow
  <1>10. OneOwner
    <2>1. \A w \in Workers : flow[w].kind = "none"
      BY <1>3 DEF NoFlow
    <2> QED BY <2>1 DEF OneOwner, OwnKey
  <1>11. AstrayFit
    BY <1>3 DEF AstrayFit
  <1>12. plan.op = 1 /\ PlanAdds
    BY <1>3, SimAssumption DEF PlanAdds
  <1>13. Unborn(store, intent, plan.op)
    BY <1>4 DEF Unborn
  <1>14. ToldIsTrue
    BY <1>5 DEF ToldIsTrue
  <1>15. audit \in Audits /\ audit.at = "none" /\ audit.verdict = "none" /\ audit.wrong = {}
    <2>1. RowFits(0, Absent) /\ Absent \in Rows
      BY NothingFits DEF RowFits
    <2> QED BY <2>1, <1>3 DEF NotAuditing, Audits
  <1>16. AuditKnows
    BY <1>3, <1>15 DEF AuditKnows
  <1>17. NoFalseAlarm
    BY <1>3, <1>15 DEF NoFalseAlarm
  <1> QED BY <1>6, <1>7, <1>8, <1>9, <1>10, <1>11, <1>12, <1>13, <1>14, <1>16, <1>17 DEF SimInv

LEMMA SimStutters ==
    ASSUME SimInv, UNCHANGED simVars
    PROVE  SimInv'
  <1>1. UNCHANGED <<store, shown, forgot, astray, intent, flow, lane, plan, contract, audit>>
    BY DEF simVars, simStore
  <1>2. /\ StoreFits(store') /\ IntentsFit(store', intent') /\ WorkersKnow' /\ OneOwner' /\ AstrayFit'
        /\ Unborn(store', intent', plan'.op) /\ ToldIsTrue' /\ PlanAdds' /\ forgot' \in BOOLEAN
    BY <1>1, QuietSteps
  <1>3. SimTypes' /\ NoFalseAlarm'
    BY <1>1 DEF SimInv, SimTypes, NoFalseAlarm
  <1>4. AuditKnows'
    BY <1>1 DEF SimInv, AuditKnows, Remaining
  <1> QED BY <1>2, <1>3, <1>4 DEF SimInv

LEMMA SimSteps ==
    ASSUME SimInv, [SimNext]_simVars
    PROVE  SimInv'
  <1>1. ASSUME NEW w \in Workers, NEW kind \in OpKinds, Admit(w, kind)
        PROVE  SimInv'
    BY <1>1, AdmitKeeps
  <1>2. ASSUME NEW w \in Workers, NEW s \in Sides, SendCall(w, s) \/ ServeCall(w, s) \/ Receive(w, s) \/ GiveUp(w, s)
        PROVE  SimInv'
    BY <1>2, SendCallKeeps, ServeCallKeeps, ReceiveKeeps, GiveUpKeeps
  <1>3. ASSUME NEW w \in Workers, RaceEnds(w)
        PROVE  SimInv'
    BY <1>3, RaceEndsKeeps
  <1>4. ASSUME NEW req \in astray, ServeAstray(req)
        PROVE  SimInv'
    BY <1>4, ServeAstrayKeeps
  <1>5. ASSUME NEW k \in Places, ProjectKey(k) \/ Forget(k)
        PROVE  SimInv'
    BY <1>5, ProjectKeyKeeps, ForgetKeeps
  <1>6. ASSUME SkipOp \/ EndOfTime
        PROVE  SimInv'
    BY <1>6, SkipsKeep
  <1>7. ASSUME NEW cache \in {"match", "missing", "mismatch", "unknown"}, AuditInspect(cache)
        PROVE  SimInv'
    BY <1>7, AuditInspectKeeps
  <1>8. ASSUME StartAudit \/ AuditLookup \/ AuditFails \/ RoundEnds \/ Deadline
        PROVE  SimInv'
    BY <1>8, StartAuditKeeps, AuditLookupKeeps, AuditFailsKeeps, RoundEndsKeeps, DeadlineKeeps
  <1>9. ASSUME UNCHANGED simVars
        PROVE  SimInv'
    BY <1>9, SimStutters
  <1> QED BY <1>1, <1>2, <1>3, <1>4, <1>5, <1>6, <1>7, <1>8, <1>9 DEF SimNext

LEMMA OracleFollows ==
    ASSUME SimInv
    PROVE  OracleIsExact
  <1>1. audit.verdict = "consistent" => \A k \in Places : Passed(store[k], intent[k], shown[k])
    BY DEF SimInv, AuditKnows
  <1>2. PassIsDeserved
    BY <1>1 DEF PassIsDeserved, Passed
  <1> QED BY <1>2 DEF SimInv, OracleIsExact

(***************************************************************************)
(* Through every run of the simulator: rows and acknowledged versions are  *)
(* ones the workload can make, an intent covers every update the server    *)
(* may have made, each worker knows of its order what the server did, and  *)
(* the rows an audit round has passed are right (simulation.py: Runner).   *)
(***************************************************************************)
THEOREM SimInvariant == SimSpec => []SimInv
  <1>1. SimInit => SimInv
    BY SimStarts
  <1>2. SimInv /\ [SimNext]_simVars => SimInv'
    BY SimSteps
  <1> QED BY <1>1, <1>2, PTL DEF SimSpec

(***************************************************************************)
(* The oracle is exact for any number of workers, operations and faults:   *)
(* it accuses no store that kept its promises and passes none that lost    *)
(* what a client was told (inspect_intent, acknowledge, converge).         *)
(***************************************************************************)
THEOREM OracleStaysExact == SimSpec => []OracleIsExact
  <1>1. SimInv => OracleIsExact
    BY OracleFollows
  <1> QED BY <1>1, SimInvariant, PTL
=============================================================================
