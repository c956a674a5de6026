-------------------------- MODULE OrderLedgerProofs --------------------------
(* What every sequence of atomic commits keeps, for all orders and keys. *)
EXTENDS OrderLedger, TLAPS

(* A step of the ledger writes one order's next version and its event. *)
LEMMA SaveTypes ==
    ASSUME LedgerTypeOK,
           NEW id \in OrderIds, NEW order \in Order, NEW seq \in Seqs, Save(id, order, seq)
    PROVE  LedgerTypeOK'
<1>1. envelope(id, order) \in Event
  BY DEF envelope, Order, Event
<1>2. DOMAIN orders' = DOMAIN orders \cup {id} /\ DOMAIN outbox' = DOMAIN outbox \cup {seq}
  BY DEF Save, Bind
<1>3. \A i \in DOMAIN orders' : orders'[i] \in Order
  BY <1>2 DEF Save, Bind, LedgerTypeOK
<1>4. \A s \in DOMAIN outbox' : outbox'[s] \in Event
  BY <1>1, <1>2 DEF Save, Bind, LedgerTypeOK
<1>5. orders' = [i \in DOMAIN orders' |-> orders'[i]] /\ outbox' = [s \in DOMAIN outbox' |-> outbox'[s]]
  BY <1>2 DEF Save, Bind
<1> QED
  BY <1>2, <1>3, <1>4, <1>5 DEF LedgerTypeOK

(* transition() keeps a row a row. *)
LEMMA TransitionType ==
    ASSUME NEW order \in Order, NEW status \in STATES[order.status]
    PROVE  transition(order, status) \in Order /\ transition(order, status).version = order.version + 1
           /\ transition(order, status).key = order.key
<1>1. order.status \in Statuses /\ order.version \in Nat \ {0}
  BY DEF Order
<1>2. status \in Statuses
  BY <1>1 DEF STATES, Statuses
<1> QED
  BY <1>1, <1>2 DEF transition, Order

(***************************************************************************)
(* Type correctness of the ledger is kept by every commit.                 *)
(***************************************************************************)
LEMMA LedgerTypesKept == LedgerTypeOK /\ [LedgerNext]_ledger => LedgerTypeOK'
<1> SUFFICES ASSUME LedgerTypeOK, [LedgerNext]_ledger PROVE LedgerTypeOK'
  OBVIOUS
<1>1. ASSUME NEW id \in OrderIds, NEW seq \in Seqs, NEW key \in Keys, NEW data \in Data,
             CommitCreate(id, key, data, seq)
      PROVE  LedgerTypeOK'
  <2>1. new_order(key, data) \in Order
    BY DEF new_order, Order, Statuses
  <2> QED
    BY <1>1, <2>1, SaveTypes DEF CommitCreate
<1>2. ASSUME NEW id \in OrderIds, NEW seq \in Seqs, NEW status \in Statuses,
             CommitUpdate(id, status, seq)
      PROVE  LedgerTypeOK'
  <2>1. orders[id] \in Order
    BY <1>2 DEF CommitUpdate, LedgerTypeOK
  <2>2. transition(orders[id], status) \in Order
    BY <1>2, <2>1, TransitionType DEF CommitUpdate
  <2> QED
    BY <1>2, <2>2, SaveTypes DEF CommitUpdate
<1>3. CASE UNCHANGED ledger
  BY <1>3 DEF ledger, LedgerTypeOK
<1> QED
  BY <1>1, <1>2, <1>3 DEF LedgerNext

(* Saving version n + 1 of an order extends its history by one event. *)
LEMMA SaveHistory ==
    ASSUME LedgerTypeOK, OutboxIsHistory,
           NEW id \in OrderIds, NEW order \in Order, NEW seq \in Seqs, Save(id, order, seq),
           order.version = IF id \in DOMAIN orders THEN orders[id].version + 1 ELSE 1
    PROVE  OutboxIsHistory'
<1>1. DOMAIN orders' = DOMAIN orders \cup {id} /\ DOMAIN outbox' = DOMAIN outbox \cup {seq}
  BY DEF Save, Bind
<1>2. seq \notin DOMAIN outbox /\ (\A s \in DOMAIN outbox : outbox[s].id = id => s < seq)
  BY DEF Save
<1>3. /\ outbox'[seq] = envelope(id, order) /\ orders'[id] = order
      /\ outbox'[seq].id = id /\ outbox'[seq].version = order.version
      /\ \A s \in DOMAIN outbox : outbox'[s] = outbox[s]
      /\ \A i \in DOMAIN orders : i # id => orders'[i] = orders[i]
  BY <1>2 DEF Save, Bind, envelope
<1>4. /\ order.version \in Nat \ {0}
      /\ \A i \in DOMAIN orders : orders[i].version \in Nat \ {0}
      /\ \A s \in DOMAIN outbox : s \in Nat /\ outbox[s].version \in Nat \ {0}
      /\ seq \in Nat
  BY MaxSeqAssumption DEF LedgerTypeOK, Order, Event, Seqs
<1>5. /\ \A s \in DOMAIN outbox : outbox[s].id \in DOMAIN orders
      /\ \A s \in DOMAIN outbox :
            /\ outbox[s].version <= orders[outbox[s].id].version
            /\ outbox[s].version = orders[outbox[s].id].version =>
                  outbox[s] = envelope(outbox[s].id, orders[outbox[s].id])
      /\ \A i \in DOMAIN orders : \A v \in 1..orders[i].version :
            \E s \in DOMAIN outbox : outbox[s].id = i /\ outbox[s].version = v
      /\ \A s, t \in DOMAIN outbox : outbox[s].id = outbox[t].id /\ s < t =>
            outbox[s].version < outbox[t].version
  <2>1. \A s \in DOMAIN outbox : outbox[s].id \in DOMAIN orders
    BY DEF OutboxIsHistory
  <2>2. ASSUME NEW s \in DOMAIN outbox
        PROVE  /\ outbox[s].version <= orders[outbox[s].id].version
               /\ outbox[s].version = orders[outbox[s].id].version =>
                     outbox[s] = envelope(outbox[s].id, orders[outbox[s].id])
    <3>1. s \in SeqsOf(outbox[s].id)
      BY DEF SeqsOf
    <3>2. outbox[s].version \in 1..orders[outbox[s].id].version
      BY <2>1, <3>1 DEF OutboxIsHistory
    <3> QED
      BY <2>1, <3>1, <3>2, <1>4 DEF OutboxIsHistory
  <2>3. ASSUME NEW i \in DOMAIN orders, NEW v \in 1..orders[i].version
        PROVE  \E s \in DOMAIN outbox : outbox[s].id = i /\ outbox[s].version = v
    <3>1. v \in {outbox[s].version : s \in SeqsOf(i)}
      BY DEF OutboxIsHistory
    <3> QED
      BY <3>1 DEF SeqsOf
  <2>4. ASSUME NEW s \in DOMAIN outbox, NEW t \in DOMAIN outbox,
               outbox[s].id = outbox[t].id, s < t
        PROVE  outbox[s].version < outbox[t].version
    BY <2>1, <2>4 DEF OutboxIsHistory, SeqsOf
  <2> QED
    BY <2>1, <2>2, <2>3, <2>4
<1>6. \A s \in DOMAIN outbox' : outbox'[s].id \in DOMAIN orders'
  BY <1>1, <1>3, <1>5
<1>7. ASSUME NEW i \in DOMAIN orders'
      PROVE  /\ {outbox'[s].version : s \in SeqsOf(i)'} = 1..orders'[i].version
             /\ \A s \in SeqsOf(i)' :
                   outbox'[s].version = orders'[i].version => outbox'[s] = envelope(i, orders'[i])
             /\ \A s, t \in SeqsOf(i)' : s < t => outbox'[s].version < outbox'[t].version
  <2>1. CASE i # id
    <3>1. i \in DOMAIN orders /\ orders'[i] = orders[i] /\ SeqsOf(i)' = SeqsOf(i)
      BY <2>1, <1>1, <1>2, <1>3 DEF SeqsOf
    <3>2. \A s \in SeqsOf(i) : outbox'[s] = outbox[s]
      BY <1>3 DEF SeqsOf
    <3>3. {outbox'[s].version : s \in SeqsOf(i)} = {outbox[s].version : s \in SeqsOf(i)}
      BY <3>2
    <3> QED
      BY <3>1, <3>2, <3>3 DEF OutboxIsHistory
  <2>2. CASE i = id
    <3>1. SeqsOf(id)' = SeqsOf(id) \cup {seq}
      BY <1>1, <1>2, <1>3 DEF SeqsOf
    <3>2. \A s \in SeqsOf(id) : /\ s < seq /\ s \in DOMAIN outbox /\ s \in Nat
                                /\ outbox'[s] = outbox[s] /\ outbox[s].id = id
                                /\ id \in DOMAIN orders /\ outbox[s].version < order.version
                                /\ outbox[s].version \in Nat \ {0}
      BY <1>2, <1>3, <1>4, <1>5 DEF SeqsOf
    <3>3. \A v \in 1..order.version : \E s \in SeqsOf(id)' : outbox'[s].version = v
      <4>1. ASSUME NEW v \in 1..order.version, v # order.version
            PROVE  \E s \in SeqsOf(id) : outbox[s].version = v
        <5>1. id \in DOMAIN orders /\ v \in 1..orders[id].version
          BY <4>1, <1>4
        <5> QED
          BY <5>1, <1>5 DEF SeqsOf
      <4> QED
        BY <4>1, <3>1, <3>2, <1>3
    <3>4. \A s \in SeqsOf(id)' : outbox'[s].version \in 1..order.version
      BY <3>1, <3>2, <1>3, <1>4
    <3>5. {outbox'[s].version : s \in SeqsOf(id)'} = 1..order.version
      BY <3>3, <3>4
    <3>6. \A s \in SeqsOf(id)' :
             outbox'[s].version = order.version => outbox'[s] = envelope(id, order)
      BY <3>1, <3>2, <1>3, <1>4
    <3>7. \A s, t \in SeqsOf(id)' : s < t => outbox'[s].version < outbox'[t].version
      BY <3>1, <3>2, <1>3, <1>4, <1>5
    <3> QED
      BY <2>2, <3>5, <3>6, <3>7, <1>3
  <2> QED
    BY <2>1, <2>2
<1> QED
  BY <1>6, <1>7 DEF OutboxIsHistory

(***************************************************************************)
(* Every commit keeps the outbox the complete, ordered history of orders.  *)
(***************************************************************************)
LEMMA LedgerHistoryKept ==
    LedgerTypeOK /\ OutboxIsHistory /\ [LedgerNext]_ledger => OutboxIsHistory'
<1> SUFFICES ASSUME LedgerTypeOK, OutboxIsHistory, [LedgerNext]_ledger PROVE OutboxIsHistory'
  OBVIOUS
<1>1. ASSUME NEW id \in OrderIds, NEW seq \in Seqs, NEW key \in Keys, NEW data \in Data,
             CommitCreate(id, key, data, seq)
      PROVE  OutboxIsHistory'
  <2>1. new_order(key, data) \in Order /\ new_order(key, data).version = 1
    BY DEF new_order, Order, Statuses
  <2> QED
    BY <1>1, <2>1, SaveHistory DEF CommitCreate
<1>2. ASSUME NEW id \in OrderIds, NEW seq \in Seqs, NEW status \in Statuses,
             CommitUpdate(id, status, seq)
      PROVE  OutboxIsHistory'
  <2>1. orders[id] \in Order
    BY <1>2 DEF CommitUpdate, LedgerTypeOK
  <2>2. /\ transition(orders[id], status) \in Order
        /\ transition(orders[id], status).version = orders[id].version + 1
    BY <1>2, <2>1, TransitionType DEF CommitUpdate
  <2> QED
    BY <1>2, <2>2, SaveHistory DEF CommitUpdate
<1>3. CASE UNCHANGED ledger
  BY <1>3 DEF ledger, OutboxIsHistory, SeqsOf
<1> QED
  BY <1>1, <1>2, <1>3 DEF LedgerNext

(* The empty ledger is typed and has an empty history. *)
LEMMA LedgerInitial == LedgerInit => LedgerTypeOK /\ OutboxIsHistory
<1> SUFFICES ASSUME LedgerInit PROVE LedgerTypeOK /\ OutboxIsHistory
  OBVIOUS
<1>1. orders = [x \in {} |-> 0] /\ outbox = [x \in {} |-> 0] /\ DOMAIN orders = {} /\ DOMAIN outbox = {}
  BY DEF LedgerInit
<1> QED
  BY <1>1 DEF LedgerTypeOK, OutboxIsHistory

(***************************************************************************)
(* For every set of orders, keys and payloads: SQL's atomic commits keep   *)
(* the outbox the exact history of the orders table.                       *)
(***************************************************************************)
THEOREM LedgerHistory == LedgerSpec => [](LedgerTypeOK /\ OutboxIsHistory)
<1>1. LedgerInit => LedgerTypeOK /\ OutboxIsHistory
  BY LedgerInitial
<1>2. (LedgerTypeOK /\ OutboxIsHistory) /\ [LedgerNext]_ledger => (LedgerTypeOK /\ OutboxIsHistory)'
  BY LedgerTypesKept, LedgerHistoryKept
<1> QED
  BY <1>1, <1>2, PTL DEF LedgerSpec
=============================================================================
