---------------------------- MODULE TransactionLab ----------------------------
(***************************************************************************)
(* The checkout of src/mvp-lab/mvp_app/transaction_sql.py under its        *)
(* "protected" policy: concurrent purchase() and refund() calls as the     *)
(* statements of READ COMMITTED transactions over one case's rows, and the *)
(* accounting oracle audit() of transaction_model.py.  The unsafe policies *)
(* of the code appear as altered definitions beside the protected ones.    *)
(*                                                                         *)
(* stock, buyer, merchant  committed inventory and wallet balances         *)
(* claims   table requests: key -> [quantity (the fingerprint), oid]       *)
(* orders   table orders: oid -> [key, quantity, state]                    *)
(* postings tables ledger and events: oid -> how often each phase was      *)
(*          posted (two balanced ledger rows and one event per posting)    *)
(* pc       next statement of each client; job what it was asked to do,    *)
(*          oid the order it works on, tries and resubmits its attempts    *)
(* outcome  what the call returned or raised                               *)
(* orphans  transactions whose COMMIT was sent and whose answer was lost:  *)
(*          the server still holds their locks and decides later           *)
(***************************************************************************)
EXTENDS Integers, FiniteSetsExt

CONSTANTS Clients, OrderIds, RequestKeys,
          Quantities,       \* quantities clients ask for
          Price,            \* unit_price of the seeded inventory row
          InitialStock, InitialBalance,
          MaxResubmits      \* bound: how often a client repeats an unresolved call

ASSUME TransactionAssumption ==
    /\ Quantities \subseteq Nat \ {0} /\ Price \in Nat \ {0}
    /\ InitialStock \in Nat /\ InitialBalance \in Nat /\ MaxResubmits \in Nat

VARIABLES stock, buyer, merchant, claims, orders, postings,
          pc, job, oid, tries, resubmits, outcome, orphans

tables == <<stock, buyer, merchant, claims, orders, postings>>
client == <<pc, job, oid, tries, resubmits, outcome>>
vars == <<tables, client, orphans>>

Phases == {"paid", "refunded"}
MaxTries == 3     \* attempts of purchase() on errors 1205 and 1213

NoJob == [kind |-> "none"]

Bind(f, k, v) == [x \in DOMAIN f \cup {k} |-> IF x = k THEN v ELSE f[x]]

Init ==
    /\ stock = InitialStock /\ buyer = InitialBalance /\ merchant = 0
    /\ claims = <<>> /\ orders = <<>> /\ postings = <<>>
    /\ pc = [c \in Clients |-> "idle"]
    /\ job = [c \in Clients |-> NoJob]
    /\ oid = [c \in Clients |-> "none"]
    /\ tries = [c \in Clients |-> 0]
    /\ resubmits = [c \in Clients |-> 0]
    /\ outcome = [c \in Clients |-> "none"]
    /\ orphans = {}

-----------------------------------------------------------------------------
(* Open transactions: those of running clients and the orphaned ones. *)
InTransaction(c) == pc[c] \in {"stock", "debit", "write", "commit"}

Open == {[job |-> job[c], oid |-> oid[c]] : c \in {d \in Clients : InTransaction(d)}} \cup orphans

KeyLocked(key) == \E t \in Open : t.job.kind = "purchase" /\ t.job.key = key
OrderLocked(id) == \E t \in Open : t.oid = id

(* The inventory row is updated first and locked until the end. *)
InventoryLocked ==
    orphans # {} \/ \E c \in Clients : pc[c] \in {"debit", "write", "commit"}

Goto(c, label) == pc' = [pc EXCEPT ![c] = label]

(* The call ends; whatever it had not committed is rolled back. *)
End(c, result) ==
    /\ Goto(c, "done")
    /\ outcome' = [outcome EXCEPT ![c] = result]
    /\ oid' = [oid EXCEPT ![c] = "none"]

Purchase(c, key, quantity) ==
    /\ pc[c] = "idle"
    /\ job' = [job EXCEPT ![c] = [kind |-> "purchase", key |-> key, quantity |-> quantity]]
    /\ Goto(c, "claim")
    /\ UNCHANGED <<tables, oid, tries, resubmits, outcome, orphans>>

Refund(c, id) ==
    /\ pc[c] = "idle"
    /\ job' = [job EXCEPT ![c] = [kind |-> "refund", id |-> id]]
    /\ Goto(c, "lock")
    /\ UNCHANGED <<tables, oid, tries, resubmits, outcome, orphans>>

Claimed(key) == key \in DOMAIN claims

(* _purchase: INSERT INTO requests; waits for an uncommitted claim, 1062 on a committed one. *)
Claim(c) ==
    /\ pc[c] = "claim"
    /\ ~ KeyLocked(job[c].key)
    /\ \/ /\ Claimed(job[c].key)
          /\ Goto(c, "lookup")
          /\ UNCHANGED oid
       \/ /\ ~ Claimed(job[c].key)
          /\ \E id \in OrderIds \ DOMAIN orders : ~ OrderLocked(id) /\ oid' = [oid EXCEPT ![c] = id]
          /\ Goto(c, "stock")
    /\ UNCHANGED <<tables, job, tries, resubmits, outcome, orphans>>

(* Altered: the unchecked-replay policy. *)
AnyPayload(claim, j) == TRUE

SamePayload(claim, j) == claim.quantity = j.quantity

(* lookup on a fresh connection: replay the order, or refuse another payload. *)
Lookup(c) ==
    /\ pc[c] = "lookup"
    /\ LET key == job[c].key IN
       End(c, IF key \notin DOMAIN claims THEN "error"
              ELSE IF ~ SamePayload(claims[key], job[c]) THEN "idempotency_conflict"
              ELSE IF claims[key].oid \notin DOMAIN orders \/ orders[claims[key].oid].key # key THEN "error"
              ELSE "replayed")
    /\ UNCHANGED <<tables, job, tries, resubmits, orphans>>

(* Altered: refund(protected=False) reads without a lock. *)
PlainReadWaits(id) == FALSE

(* SELECT ... FOR UPDATE waits for whoever holds the order's row. *)
ForUpdateWaits(id) == OrderLocked(id)

(* refund: the locking read and the state checks. *)
LockOrder(c) ==
    LET id == job[c].id IN
    /\ pc[c] = "lock"
    /\ ~ ForUpdateWaits(id)
    /\ \/ /\ id \notin DOMAIN orders
          /\ End(c, "order_missing")
       \/ /\ id \in DOMAIN orders /\ orders[id].state = "refunded"
          /\ End(c, "replayed")
       \/ /\ id \in DOMAIN orders /\ orders[id].state = "paid"
          /\ oid' = [oid EXCEPT ![c] = id]
          /\ Goto(c, "stock")
          /\ UNCHANGED outcome
    /\ UNCHANGED <<tables, job, tries, resubmits, orphans>>

(* The WHERE conditions of the two updates; a refund's have none. *)
EnoughStock(j) == j.kind = "purchase" => stock >= j.quantity
EnoughMoney(j) == j.kind = "purchase" => buyer >= j.quantity * Price

(* UPDATE inventory; a purchase it does not match is rejected. *)
UpdateStock(c) ==
    /\ pc[c] = "stock"
    /\ ~ InventoryLocked
    /\ \/ /\ EnoughStock(job[c]) = TRUE
          /\ Goto(c, "debit")
          /\ UNCHANGED <<oid, outcome>>
       \/ /\ EnoughStock(job[c]) = FALSE
          /\ End(c, "sold_out")
    /\ UNCHANGED <<tables, job, tries, resubmits, orphans>>

(* UPDATE wallets of the buyer, likewise. *)
UpdateBuyer(c) ==
    /\ pc[c] = "debit"
    /\ \/ /\ EnoughMoney(job[c]) = TRUE
          /\ Goto(c, "write")
          /\ UNCHANGED <<oid, outcome>>
       \/ /\ EnoughMoney(job[c]) = FALSE
          /\ End(c, "insufficient_funds")
    /\ UNCHANGED <<tables, job, tries, resubmits, orphans>>

(* The merchant's wallet, the order, ledger and outbox rows: nothing to wait for. *)
WriteRows(c) ==
    /\ pc[c] = "write"
    /\ Goto(c, "commit")
    /\ UNCHANGED <<tables, job, oid, tries, resubmits, outcome, orphans>>

Post(id, phase) ==
    postings' = Bind(postings, id,
        [p \in Phases |-> (IF id \in DOMAIN postings THEN postings[id][p] ELSE 0)
                          + (IF p = phase THEN 1 ELSE 0)])

(* The effect of a whole transaction, visible at once. *)
ApplyPurchase(key, quantity, id) ==
    /\ stock' = stock - quantity
    /\ buyer' = buyer - quantity * Price
    /\ merchant' = merchant + quantity * Price
    /\ claims' = Bind(claims, key, [quantity |-> quantity, oid |-> id])
    /\ orders' = Bind(orders, id, [key |-> key, quantity |-> quantity, state |-> "paid"])
    /\ Post(id, "paid")

ApplyRefund(id) ==
    /\ stock' = stock + orders[id].quantity
    /\ buyer' = buyer + orders[id].quantity * Price
    /\ merchant' = merchant - orders[id].quantity * Price
    /\ orders' = [orders EXCEPT ![id].state = "refunded"]
    /\ Post(id, "refunded")
    /\ UNCHANGED claims

Apply(j, id) ==
    \/ j.kind = "purchase" /\ ApplyPurchase(j.key, j.quantity, id)
    \/ j.kind = "refund" /\ ApplyRefund(id)

Commit(c) ==
    /\ pc[c] = "commit"
    /\ Apply(job[c], oid[c])
    /\ End(c, IF job[c].kind = "purchase" THEN "created" ELSE "refunded")
    /\ UNCHANGED <<job, tries, resubmits, orphans>>

(* CommitUnknown: committed, or not, or still undecided on the server. *)
CommitUnknown(c) ==
    /\ pc[c] = "commit"
    /\ End(c, "commit_unknown")
    /\ \/ Apply(job[c], oid[c]) /\ UNCHANGED orphans
       \/ UNCHANGED <<tables, orphans>>
       \/ orphans' = orphans \cup {[job |-> job[c], oid |-> oid[c]]} /\ UNCHANGED tables
    /\ UNCHANGED <<job, tries, resubmits>>

OrphanEnds ==
    /\ \E t \in orphans :
          /\ orphans' = orphans \ {t}
          /\ Apply(t.job, t.oid) \/ UNCHANGED tables
    /\ UNCHANGED client

(* Altered: attempts are not counted. *)
NoCount(c) == UNCHANGED tries

MayRetry(c) == job[c].kind = "purchase" /\ tries[c] < MaxTries - 1
CountTry(c) == tries' = [tries EXCEPT ![c] = @ + 1]

(* Errors 1205 and 1213: rolled back; purchase() tries again, refund() raises. *)
LockError(c) ==
    /\ InTransaction(c) \/ pc[c] \in {"claim", "lock"}
    /\ \/ /\ MayRetry(c)
          /\ Goto(c, "claim")
          /\ CountTry(c)
          /\ oid' = [oid EXCEPT ![c] = "none"]
          /\ UNCHANGED outcome
       \/ /\ ~ MayRetry(c)
          /\ End(c, "error")
          /\ UNCHANGED tries
    /\ UNCHANGED <<tables, job, resubmits, orphans>>

(* InjectedFailure at a statement boundary, or a lost connection: rollback. *)
Fail(c) ==
    /\ InTransaction(c)
    /\ End(c, "error")
    /\ UNCHANGED <<tables, job, tries, resubmits, orphans>>

(* The caller repeats the same request after an unresolved or failed call. *)
Resubmit(c) ==
    /\ pc[c] = "done"
    /\ outcome[c] \in {"commit_unknown", "error"}
    /\ resubmits[c] < MaxResubmits
    /\ resubmits' = [resubmits EXCEPT ![c] = @ + 1]
    /\ outcome' = [outcome EXCEPT ![c] = "none"]
    /\ tries' = [tries EXCEPT ![c] = 0]
    /\ Goto(c, IF job[c].kind = "purchase" THEN "claim" ELSE "lock")
    /\ UNCHANGED <<tables, job, oid, orphans>>

Finished == (\A c \in Clients : pc[c] = "done") /\ UNCHANGED vars

Step(c) ==
    \/ Claim(c) \/ Lookup(c) \/ LockOrder(c)
    \/ UpdateStock(c) \/ UpdateBuyer(c) \/ WriteRows(c) \/ Commit(c)

Next ==
    \/ \E c \in Clients :
          \/ \E key \in RequestKeys, quantity \in Quantities : Purchase(c, key, quantity)
          \/ \E id \in DOMAIN orders : Refund(c, id)
          \/ Step(c)
          \/ CommitUnknown(c) \/ LockError(c) \/ Fail(c) \/ Resubmit(c)
    \/ OrphanEnds
    \/ Finished

Spec == Init /\ [][Next]_vars

(* Threads go on and the server ends every transaction; errors are never owed. *)
FairSpec == Spec /\ WF_vars(OrphanEnds) /\ \A c \in Clients : WF_vars(Step(c))

-----------------------------------------------------------------------------
Outcomes == {"none", "created", "replayed", "refunded", "sold_out", "insufficient_funds",
             "idempotency_conflict", "order_missing", "commit_unknown", "error"}

(* Every variable has its type. *)
TypeOK ==
    /\ stock \in Int /\ buyer \in Int /\ merchant \in Int
    /\ DOMAIN claims \subseteq RequestKeys
    /\ \A k \in DOMAIN claims : claims[k] \in [quantity : Quantities, oid : OrderIds]
    /\ DOMAIN orders \subseteq OrderIds
    /\ \A id \in DOMAIN orders :
          orders[id] \in [key : RequestKeys, quantity : Quantities, state : Phases]
    /\ DOMAIN postings \subseteq OrderIds
    /\ \A id \in DOMAIN postings : postings[id] \in [Phases -> Nat]
    /\ pc \in [Clients -> {"idle", "claim", "lookup", "lock", "stock", "debit", "write", "commit", "done"}]
    /\ tries \in [Clients -> 0..MaxTries - 1]
    /\ resubmits \in [Clients -> 0..MaxResubmits]
    /\ outcome \in [Clients -> Outcomes]

Sold(state) == {id \in DOMAIN orders : orders[id].state = state}
TotalQuantity(book, ids) == MapThenSumSet(LAMBDA id : book[id].quantity, ids)
QuantityOf(ids) == TotalQuantity(orders, ids)

(***************************************************************************)
(* audit(): stock_conservation, stock_bounds, money_conservation and       *)
(* nonnegative_balance hold in every committed state, between any two      *)
(* statements of any clients.                                              *)
(***************************************************************************)
StockAndMoneyConserved ==
    /\ stock + QuantityOf(Sold("paid")) = InitialStock
    /\ stock >= 0
    /\ buyer + merchant = InitialBalance
    /\ buyer >= 0
    /\ merchant = Price * QuantityOf(Sold("paid"))

(***************************************************************************)
(* audit(): order_ledger_exact and order_events_exact: an order is posted  *)
(* once when paid and once more when refunded, and nothing else is posted. *)
(***************************************************************************)
EveryOrderExactlyPosted ==
    /\ DOMAIN postings = DOMAIN orders
    /\ \A id \in DOMAIN orders :
          /\ postings[id]["paid"] = 1
          /\ postings[id]["refunded"] = (IF orders[id].state = "refunded" THEN 1 ELSE 0)

(***************************************************************************)
(* audit(): claims and orders correspond one to one (claims_no_orphans,    *)
(* claim_targets_unique, one_order_per_request, claim_payload_and_order).  *)
(***************************************************************************)
ClaimsMatchOrders ==
    /\ \A k \in DOMAIN claims : claims[k].oid \in DOMAIN orders /\ orders[claims[k].oid].key = k
    /\ \A id \in DOMAIN orders :
          /\ orders[id].key \in DOMAIN claims
          /\ claims[orders[id].key] = [quantity |-> orders[id].quantity, oid |-> id]

(* The whole audit, in every committed state. *)
BooksBalance == StockAndMoneyConserved /\ EveryOrderExactlyPosted /\ ClaimsMatchOrders

(***************************************************************************)
(* Whoever was told "created" or "replayed" owns an order of exactly the   *)
(* quantity it asked for, and no two calls were told they created it,      *)
(* through lost commit answers, retries and resubmissions.                 *)
(***************************************************************************)
AnswersAreHonest ==
    LET Created == {c \in Clients : outcome[c] = "created"}
        Served == Created \cup {c \in Clients : job[c].kind = "purchase" /\ outcome[c] = "replayed"}
    IN /\ \A c \in Served : /\ job[c].key \in DOMAIN claims
                            /\ claims[job[c].key].quantity = job[c].quantity
       /\ \A c, d \in Created : job[c].key = job[d].key => c = d

(***************************************************************************)
(* The fixed lock order (claim or order row, then inventory, then wallets) *)
(* leaves no cycle of waiting transactions: every call ends.               *)
(***************************************************************************)
EveryCallEnds == \A c \in Clients : pc[c] # "idle" ~> pc[c] = "done"
=============================================================================
