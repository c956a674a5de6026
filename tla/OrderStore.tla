------------------------------ MODULE OrderStore ------------------------------
(***************************************************************************)
(* SQL.create and SQL.update of src/mvp-lab/mvp_app/adapters.py as the     *)
(* statements of concurrent InnoDB transactions, one request per thread of *)
(* the API.  Reads see committed rows (plain SELECT) or wait for the row's *)
(* lock (SELECT ... FOR UPDATE, a duplicate INSERT).                       *)
(*                                                                         *)
(* nextSeq  next AUTO_INCREMENT value of table outbox (never rolled back)  *)
(* pc       next statement of each request                                 *)
(* arg      what the client asked for                                      *)
(* draft    the uncommitted row and sequence number of the transaction     *)
(* reply    what the client was told                                       *)
(***************************************************************************)
EXTENDS OrderLedger

CONSTANTS Requests,   \* API requests, each served once
          Wanted      \* statuses and versions clients ask for in updates

VARIABLES nextSeq, pc, arg, draft, reply

txvars == <<nextSeq, pc, arg, draft, reply>>
vars == <<ledger, txvars>>

CreateArg == [op : {"create"}, key : Keys, data : Data]
UpdateArg == [op : {"update"}, id : OrderIds, expected_version : {w[1] : w \in Wanted},
              status : {w[2] : w \in Wanted}]
NoArg   == [op |-> "none"]
NoDraft == [seq |-> -1]
NoReply == [kind |-> "none"]

(* An answer that carries an order, and one that does not. *)
Answer(kind, id, order) == [kind |-> kind, id |-> id, version |-> order.version]
Refusal(kind) == [kind |-> kind]

Good == {"created", "replayed", "updated"}

Init ==
    /\ LedgerInit
    /\ nextSeq = 1
    /\ pc = [r \in Requests |-> "idle"]
    /\ arg = [r \in Requests |-> NoArg]
    /\ draft = [r \in Requests |-> NoDraft]
    /\ reply = [r \in Requests |-> NoReply]

Finish(r, answer) ==
    /\ pc' = [pc EXCEPT ![r] = "done"]
    /\ draft' = [draft EXCEPT ![r] = NoDraft]
    /\ reply' = [reply EXCEPT ![r] = answer]

(* A transaction holds its uncommitted row from the write to the commit. *)
InTransaction(r) == pc[r] \in {"enqueue", "commit"}

KeyLocked(key) == \E q \in Requests : InTransaction(q) /\ arg[q].op = "create" /\ arg[q].key = key

(* Altered: a request that waits for a row blocks the others, and itself. *)
RowLockedByWaiters(id) ==
    \E q \in Requests : \/ InTransaction(q) /\ draft[q].id = id
                        \/ pc[q] = "lock" /\ arg[q].id = id

RowLocked(id) == \E q \in Requests : InTransaction(q) /\ draft[q].id = id

HoldersOf(key) == {id \in DOMAIN orders : orders[id].key = key}

(* _existing: same payload replays the stored order, another is refused. *)
Existing(id, data) ==
    IF orders[id].data = data THEN Answer("replayed", id, orders[id])
                              ELSE Refusal("conflict")

(* create: the first SELECT by idempotency key. *)
SelectKey(r, key, data) ==
    /\ pc[r] = "idle"
    /\ arg' = [arg EXCEPT ![r] = [op |-> "create", key |-> key, data |-> data]]
    /\ \/ \E id \in HoldersOf(key) : Finish(r, Existing(id, data))
       \/ /\ HoldersOf(key) = {}
          /\ pc' = [pc EXCEPT ![r] = "insert"]
          /\ UNCHANGED <<draft, reply>>
    /\ UNCHANGED <<ledger, nextSeq>>

(* Altered: no UNIQUE index on the idempotency key. *)
InsertWithoutUniqueKey(r) ==
    /\ pc[r] = "insert"
    /\ \E id \in OrderIds \ DOMAIN orders :
          /\ ~ RowLocked(id)
          /\ draft' = [draft EXCEPT ![r] =
                [id |-> id, order |-> new_order(arg[r].key, arg[r].data), seq |-> 0]]
    /\ pc' = [pc EXCEPT ![r] = "enqueue"]
    /\ UNCHANGED <<ledger, nextSeq, arg, reply>>

(* create: INSERT INTO orders waits for an uncommitted holder of the key. *)
InsertOrder(r) ==
    /\ pc[r] = "insert"
    /\ ~ KeyLocked(arg[r].key)
    /\ HoldersOf(arg[r].key) = {}
    /\ \E id \in OrderIds \ DOMAIN orders :
          /\ ~ RowLocked(id)
          /\ draft' = [draft EXCEPT ![r] =
                [id |-> id, order |-> new_order(arg[r].key, arg[r].data), seq |-> 0]]
    /\ pc' = [pc EXCEPT ![r] = "enqueue"]
    /\ UNCHANGED <<ledger, nextSeq, arg, reply>>

(* create: error 1062, a committed row has the key: roll back and look again. *)
InsertDuplicate(r) ==
    /\ pc[r] = "insert"
    /\ HoldersOf(arg[r].key) # {}
    /\ pc' = [pc EXCEPT ![r] = "select_again"]
    /\ UNCHANGED <<ledger, nextSeq, arg, draft, reply>>

(* create: the SELECT of the fresh transaction; without a row the 1062 is raised. *)
SelectAgain(r) ==
    /\ pc[r] = "select_again"
    /\ LET found == HoldersOf(arg[r].key) IN
       Finish(r, IF found = {} THEN Refusal("error")
                               ELSE Existing(CHOOSE id \in found : TRUE, arg[r].data))
    /\ UNCHANGED <<ledger, nextSeq, arg>>

(* update: the request reaches the database and may have to wait for the row. *)
BeginUpdate(r, id, expected_version, status) ==
    /\ pc[r] = "idle"
    /\ arg' = [arg EXCEPT ![r] = [op |-> "update", id |-> id,
                                  expected_version |-> expected_version, status |-> status]]
    /\ pc' = [pc EXCEPT ![r] = "lock"]
    /\ UNCHANGED <<ledger, nextSeq, draft, reply>>

(* update: SELECT ... FOR UPDATE, transition() and the UPDATE under the row lock. *)
LockRow(r) ==
    LET id == arg[r].id IN
    /\ pc[r] = "lock"
    /\ ~ RowLocked(id)
    /\ \/ id \notin DOMAIN orders /\ Finish(r, Refusal("not_found"))
       \/ /\ id \in DOMAIN orders
          /\ ~ TransitionAllowed(orders[id], arg[r].expected_version, arg[r].status)
          /\ Finish(r, Refusal("conflict"))
       \/ /\ id \in DOMAIN orders
          /\ TransitionAllowed(orders[id], arg[r].expected_version, arg[r].status)
          /\ draft' = [draft EXCEPT ![r] =
                [id |-> id, order |-> transition(orders[id], arg[r].status), seq |-> 0]]
          /\ pc' = [pc EXCEPT ![r] = "enqueue"]
          /\ UNCHANGED reply
    /\ UNCHANGED <<ledger, nextSeq, arg>>

(* _enqueue: INSERT INTO outbox takes the next AUTO_INCREMENT value. *)
Enqueue(r) ==
    /\ pc[r] = "enqueue"
    /\ nextSeq \in Seqs
    /\ draft' = [draft EXCEPT ![r].seq = nextSeq]
    /\ nextSeq' = nextSeq + 1
    /\ pc' = [pc EXCEPT ![r] = "commit"]
    /\ UNCHANGED <<ledger, arg, reply>>

(* Altered: the outbox row is written outside the transaction and lost. *)
DurableRowOnly(r) ==
    /\ orders' = Bind(orders, draft[r].id, draft[r].order)
    /\ UNCHANGED outbox

(* The commit makes the row and its event visible and frees the locks. *)
Durable(r) ==
    /\ orders' = Bind(orders, draft[r].id, draft[r].order)
    /\ outbox' = Bind(outbox, draft[r].seq, envelope(draft[r].id, draft[r].order))

Commit(r) ==
    /\ pc[r] = "commit"
    /\ Durable(r)
    /\ Finish(r, Answer(IF arg[r].op = "create" THEN "created" ELSE "updated",
                        draft[r].id, draft[r].order))
    /\ UNCHANGED <<nextSeq, arg>>

(* The server commits, the client sees a lost connection or a timeout. *)
CommitUnknown(r) ==
    /\ pc[r] = "commit"
    /\ Durable(r)
    /\ Finish(r, Refusal("error"))
    /\ UNCHANGED <<nextSeq, arg>>

(* Lock wait timeout, deadlock victim, lost connection, killed API: rollback. *)
Abort(r) ==
    /\ pc[r] \in {"insert", "select_again", "lock", "enqueue", "commit"}
    /\ Finish(r, Refusal("error"))
    /\ UNCHANGED <<ledger, nextSeq, arg>>

Step(r) ==
    \/ InsertOrder(r) \/ InsertDuplicate(r) \/ SelectAgain(r)
    \/ LockRow(r)
    \/ Enqueue(r) \/ Commit(r)

(* Every request has been answered: the run is over. *)
Served == (\A r \in Requests : pc[r] = "done") /\ UNCHANGED vars

Next ==
    \/ \E r \in Requests :
          \/ \E key \in Keys, data \in Data : SelectKey(r, key, data)
          \/ \E id \in OrderIds, w \in Wanted : BeginUpdate(r, id, w[1], w[2])
          \/ Step(r)
          \/ CommitUnknown(r)
          \/ Abort(r)
    \/ Served

Spec == Init /\ [][Next]_vars

(* The thread of an accepted request runs on; faults are never owed. *)
FairSpec == Spec /\ \A r \in Requests : WF_vars(Step(r))

-----------------------------------------------------------------------------
Draft == [id : OrderIds, order : Order, seq : 0..MaxSeq]

Reply == [kind : Good, id : OrderIds, version : Nat \ {0}]
         \cup [kind : {"conflict", "not_found", "error"}]

(* Every variable has its type. *)
TypeOK ==
    /\ LedgerTypeOK
    /\ nextSeq \in 1..MaxSeq + 1
    /\ pc \in [Requests -> {"idle", "insert", "select_again", "lock", "enqueue", "commit", "done"}]
    /\ arg \in [Requests -> CreateArg \cup UpdateArg \cup {NoArg}]
    /\ draft \in [Requests -> Draft \cup {NoDraft}]
    /\ reply \in [Requests -> Reply \cup {NoReply}]

(***************************************************************************)
(* However the SELECT, the INSERT, the 1062 recovery and client retries    *)
(* interleave, all orders handed out for one idempotency key are the same   *)
(* order, it has the payload the client sent, and one request created it.  *)
(***************************************************************************)
IdempotentReplies ==
    \A q, r \in Requests :
        (arg[q].op = "create" /\ arg[r].op = "create" /\ arg[q].key = arg[r].key
           /\ reply[q].kind \in Good /\ reply[r].kind \in Good) =>
        /\ reply[q].id = reply[r].id
        /\ arg[q].data = arg[r].data
        /\ reply[q].kind = "created" /\ reply[r].kind = "created" => q = r

(***************************************************************************)
(* Optimistic concurrency: of the updates of an order that expected the    *)
(* same version at most one succeeds, and it produced the next version.    *)
(***************************************************************************)
NoLostUpdate ==
    \A q, r \in Requests :
        (reply[q].kind = "updated" /\ reply[r].kind = "updated" /\ arg[q].id = arg[r].id
           /\ arg[q].expected_version = arg[r].expected_version) => q = r

(***************************************************************************)
(* An answer is never ahead of the disk: the version a client was told is  *)
(* in the outbox, so the pipeline will announce it.                        *)
(***************************************************************************)
AnswersAreDurable ==
    \A r \in Requests : reply[r].kind \in Good =>
        \E s \in DOMAIN outbox : outbox[s].id = reply[r].id /\ outbox[s].version = reply[r].version

(* What the clients were told, taken together. *)
AnswersAreTrue == IdempotentReplies /\ NoLostUpdate /\ AnswersAreDurable

(***************************************************************************)
(* The transactions implement the atomic ledger: the statements before a   *)
(* commit are stutters of it, the commit is one of its steps.              *)
(***************************************************************************)
Ledger == INSTANCE OrderLedger WITH
              OrderIds <- OrderIds, Keys <- Keys, Data <- Data, MaxSeq <- MaxSeq,
              orders <- orders, outbox <- outbox
ImplementsLedger == Ledger!LedgerSpec

(***************************************************************************)
(* No set of transactions waits for each other for ever: every accepted    *)
(* request gets an answer.                                                 *)
(***************************************************************************)
EveryRequestAnswered == \A r \in Requests : pc[r] # "idle" ~> pc[r] = "done"
=============================================================================
