----------------------------- MODULE OrderLedger -----------------------------
(***************************************************************************)
(* What the authoritative store of mvp-lab promises to everybody else      *)
(* (src/mvp-lab/mvp_app/core.py, adapters.py class SQL): an order and the  *)
(* outbox event that announces it become visible in one atomic step.       *)
(*                                                                         *)
(* orders  committed rows of table orders: id -> row                       *)
(* outbox  committed rows of table outbox: seq -> event                    *)
(*                                                                         *)
(* OrderStore implements this specification with SQL transactions;         *)
(* OrderPipeline uses it as the writer whose events it relays.             *)
(***************************************************************************)
EXTENDS Integers, FiniteSets

CONSTANTS OrderIds,   \* the uuids orders can get
          Keys,       \* Idempotency-Key header values
          Data,       \* (item, quantity, unit_price) triples
          MaxSeq      \* bound: AUTO_INCREMENT values handed out

ASSUME MaxSeqAssumption == MaxSeq \in Nat

VARIABLES orders, outbox

ledger == <<orders, outbox>>

(* The order life cycle. *)
Statuses == {"created", "paid", "shipped", "cancelled"}

STATES == [s \in Statuses |-> CASE s = "created" -> {"paid", "cancelled"}
                               [] s = "paid"    -> {"shipped", "cancelled"}
                               [] OTHER         -> {}]

Order == [key : Keys, data : Data, status : Statuses, version : Nat \ {0}]

(* An event carries the public fields of the order, a complete snapshot. *)
Event == [id : OrderIds, data : Data, status : Statuses, version : Nat \ {0}]

Seqs == 1..MaxSeq

new_order(key, data) ==
    [key |-> key, data |-> data, status |-> "created", version |-> 1]

(* Altered: the version is compared, the life cycle is not. *)
TransitionAnyStatus(order, expected_version, status) == expected_version = order.version

(* The checks of transition(), and the row it returns when they pass. *)
TransitionAllowed(order, expected_version, status) ==
    /\ expected_version = order.version
    /\ status \in STATES[order.status]

transition(order, status) ==
    [key |-> order.key, data |-> order.data, status |-> status, version |-> order.version + 1]

envelope(id, order) ==
    [id |-> id, data |-> order.data, status |-> order.status, version |-> order.version]

(* f with k bound to v, whether or not k was bound before. *)
Bind(f, k, v) == [x \in DOMAIN f \cup {k} |-> IF x = k THEN v ELSE f[x]]

(* Altered: the event is committed, the row is not. *)
SaveEventOnly(id, order, seq) ==
    /\ seq \in Seqs \ DOMAIN outbox
    /\ outbox' = Bind(outbox, seq, envelope(id, order))
    /\ orders' = IF id \in DOMAIN orders THEN orders ELSE Bind(orders, id, order)

(***************************************************************************)
(* The row and its event appear together.  Sequence numbers of different   *)
(* orders may become visible in any order (AUTO_INCREMENT values are given *)
(* out before the commit), those of one order only in increasing order.    *)
(***************************************************************************)
Save(id, order, seq) ==
    /\ seq \in Seqs \ DOMAIN outbox
    /\ \A s \in DOMAIN outbox : outbox[s].id = id => s < seq
    /\ orders' = Bind(orders, id, order)
    /\ outbox' = Bind(outbox, seq, envelope(id, order))

CommitCreate(id, key, data, seq) ==
    /\ id \notin DOMAIN orders
    /\ \A i \in DOMAIN orders : orders[i].key # key
    /\ Save(id, new_order(key, data), seq)

CommitUpdate(id, status, seq) ==
    /\ id \in DOMAIN orders
    /\ status \in STATES[orders[id].status]
    /\ Save(id, transition(orders[id], status), seq)

LedgerInit == orders = <<>> /\ outbox = <<>>

LedgerNext ==
    \E id \in OrderIds, seq \in Seqs :
        \/ \E key \in Keys, data \in Data : CommitCreate(id, key, data, seq)
        \/ \E status \in Statuses : CommitUpdate(id, status, seq)

LedgerSpec == LedgerInit /\ [][LedgerNext]_ledger

LedgerTypeOK ==
    /\ DOMAIN orders \subseteq OrderIds
    /\ orders \in [DOMAIN orders -> Order]
    /\ DOMAIN outbox \subseteq Seqs
    /\ outbox \in [DOMAIN outbox -> Event]

(* The events of one order. *)
SeqsOf(id) == {s \in DOMAIN outbox : outbox[s].id = id}

(***************************************************************************)
(* The outbox is the complete history of every order (SQL.create and       *)
(* SQL.update enqueue in the transaction that writes the row): each version *)
(* 1..n of an order with current version n has exactly one event, the      *)
(* newest event equals the row, and sequence numbers grow with versions.   *)
(***************************************************************************)
OutboxIsHistory ==
    /\ \A s \in DOMAIN outbox : outbox[s].id \in DOMAIN orders
    /\ \A id \in DOMAIN orders :
          /\ {outbox[s].version : s \in SeqsOf(id)} = 1..orders[id].version
          /\ \A s \in SeqsOf(id) :
                outbox[s].version = orders[id].version => outbox[s] = envelope(id, orders[id])
          /\ \A s, t \in SeqsOf(id) : s < t => outbox[s].version < outbox[t].version
=============================================================================
