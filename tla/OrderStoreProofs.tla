-------------------------- MODULE OrderStoreProofs --------------------------
(***************************************************************************)
(* The SQL transactions of OrderStore implement the atomic ledger, and     *)
(* what clients are told is true, for every number of requests.            *)
(***************************************************************************)
EXTENDS OrderStore, OrderLedgerProofs

(* Where a request is says what it asked for, and that it has no answer yet. *)
Shapes ==
    \A r \in Requests :
        /\ pc[r] \in {"insert", "select_again"} => arg[r] \in CreateArg
        /\ pc[r] = "lock" => arg[r] \in UpdateArg
        /\ InTransaction(r) => draft[r] \in Draft /\ arg[r] \in CreateArg \cup UpdateArg
        /\ pc[r] # "done" => reply[r] = NoReply

(***************************************************************************)
(* What a transaction is going to commit is still what the committed rows  *)
(* call for: its locks keep everybody else away.                           *)
(***************************************************************************)
CreateDraft(r) ==
    /\ draft[r].id \notin DOMAIN orders
    /\ \A id \in DOMAIN orders : orders[id].key # arg[r].key
    /\ draft[r].order = new_order(arg[r].key, arg[r].data)

UpdateDraft(r) ==
    /\ draft[r].id = arg[r].id
    /\ draft[r].id \in DOMAIN orders
    /\ TransitionAllowed(orders[draft[r].id], arg[r].expected_version, arg[r].status)
    /\ draft[r].order = transition(orders[draft[r].id], arg[r].status)

Drafts ==
    \A r \in Requests : InTransaction(r) =>
        IF arg[r].op = "create" THEN CreateDraft(r) ELSE UpdateDraft(r)

(* Open transactions have different rows and, when they create, different keys. *)
Locks ==
    \A q, r \in Requests : q # r /\ InTransaction(q) /\ InTransaction(r) =>
        /\ draft[q].id # draft[r].id
        /\ arg[q].op = "create" /\ arg[r].op = "create" => arg[q].key # arg[r].key

(* A number that was taken is free, unique, and higher than every event of its order. *)
Numbers ==
    /\ \A s \in DOMAIN outbox : s < nextSeq
    /\ \A r \in Requests : pc[r] = "commit" =>
          /\ draft[r].seq \in Seqs \ DOMAIN outbox
          /\ draft[r].seq < nextSeq
          /\ \A s \in DOMAIN outbox : outbox[s].id = draft[r].id => s < draft[r].seq
    /\ \A q, r \in Requests : q # r /\ pc[q] = "commit" /\ pc[r] = "commit" => draft[q].seq # draft[r].seq

(* The UNIQUE index on the idempotency key. *)
KeysUnique == \A i, j \in DOMAIN orders : orders[i].key = orders[j].key => i = j

(* What an answer says about the rows, for ever. *)
Replies ==
    \A r \in Requests :
        /\ reply[r].kind \in {"created", "replayed"} =>
              /\ arg[r] \in CreateArg
              /\ reply[r].id \in DOMAIN orders
              /\ orders[reply[r].id].key = arg[r].key /\ orders[reply[r].id].data = arg[r].data
        /\ reply[r].kind = "updated" =>
              /\ arg[r] \in UpdateArg /\ arg[r].id \in DOMAIN orders
              /\ arg[r].expected_version \in Nat
              /\ arg[r].expected_version < orders[arg[r].id].version
              /\ reply[r].id = arg[r].id
        /\ reply[r].kind \in Good =>
              \E s \in DOMAIN outbox : outbox[s].id = reply[r].id /\ outbox[s].version = reply[r].version

(* One request created the order of a key, one update followed a version. *)
CreatedOnce ==
    \A q, r \in Requests :
        reply[q].kind = "created" /\ reply[r].kind = "created" /\ arg[q].key = arg[r].key => q = r

StoreInv ==
    /\ TypeOK /\ OutboxIsHistory
    /\ Shapes /\ Drafts /\ Locks /\ Numbers /\ KeysUnique
    /\ Replies /\ CreatedOnce /\ NoLostUpdate

-----------------------------------------------------------------------------
(* The commit of a transaction is a step of the ledger. *)
LEMMA CommitIsLedgerStep ==
    ASSUME StoreInv, NEW r \in Requests, pc[r] = "commit", Durable(r)
    PROVE  LedgerNext
<1>1. InTransaction(r) /\ draft[r] \in Draft /\ arg[r] \in CreateArg \cup UpdateArg
  BY DEF StoreInv, Shapes, InTransaction
<1>2. draft[r].id \in OrderIds /\ draft[r].seq \in Seqs
  BY <1>1 DEF StoreInv, Numbers, Draft
<1>3. Save(draft[r].id, draft[r].order, draft[r].seq)
  BY DEF StoreInv, Numbers, Save, Durable
<1>4. CASE arg[r].op = "create"
  <2>1. CreateDraft(r)
    BY <1>1, <1>4 DEF StoreInv, Drafts
  <2>2. arg[r].key \in Keys /\ arg[r].data \in Data
    BY <1>1, <1>4 DEF CreateArg, UpdateArg
  <2>3. CommitCreate(draft[r].id, arg[r].key, arg[r].data, draft[r].seq)
    BY <1>3, <2>1 DEF CommitCreate, CreateDraft
  <2> QED
    BY <1>2, <2>2, <2>3 DEF LedgerNext
<1>5. CASE arg[r].op # "create"
  <2>1. UpdateDraft(r)
    BY <1>1, <1>5 DEF StoreInv, Drafts
  <2>2. orders[draft[r].id] \in Order
    BY <2>1 DEF UpdateDraft, StoreInv, TypeOK, LedgerTypeOK
  <2>3. arg[r].status \in STATES[orders[draft[r].id].status]
    BY <2>1 DEF UpdateDraft, TransitionAllowed
  <2>4. arg[r].status \in Statuses
    BY <2>2, <2>3 DEF STATES, Statuses, Order
  <2>5. CommitUpdate(draft[r].id, arg[r].status, draft[r].seq)
    BY <1>3, <2>1, <2>3 DEF CommitUpdate, UpdateDraft
  <2> QED
    BY <1>2, <2>4, <2>5 DEF LedgerNext
<1> QED
  BY <1>4, <1>5

(* Every statement of SQL.create and SQL.update is a stutter of the ledger or one commit of it. *)
LEMMA StepsAreLedgerSteps == StoreInv /\ [Next]_vars => [LedgerNext]_ledger
<1> SUFFICES ASSUME StoreInv, [Next]_vars PROVE [LedgerNext]_ledger
  OBVIOUS
<1>1. ASSUME NEW r \in Requests, Commit(r) \/ CommitUnknown(r) PROVE LedgerNext
  BY <1>1, CommitIsLedgerStep DEF Commit, CommitUnknown
<1>2. ASSUME NEW r \in Requests, NEW key \in Keys, NEW data \in Data, SelectKey(r, key, data)
      PROVE  UNCHANGED ledger
  BY <1>2 DEF SelectKey
<1>3. ASSUME NEW r \in Requests, NEW id \in OrderIds, NEW w \in Wanted, BeginUpdate(r, id, w[1], w[2])
      PROVE  UNCHANGED ledger
  BY <1>3 DEF BeginUpdate
<1>4. ASSUME NEW r \in Requests, InsertOrder(r) \/ InsertDuplicate(r) \/ SelectAgain(r) \/ LockRow(r)
                                \/ Enqueue(r) \/ Abort(r)
      PROVE  UNCHANGED ledger
  BY <1>4 DEF InsertOrder, InsertDuplicate, SelectAgain, LockRow, Enqueue, Abort
<1>5. CASE Served \/ UNCHANGED vars
  BY <1>5 DEF Served, vars
<1> QED
  BY <1>1, <1>2, <1>3, <1>4, <1>5 DEF Next, Step

(* The newest event of an order carries its current version. *)
LEMMA NewestEvent ==
    ASSUME LedgerTypeOK, OutboxIsHistory, NEW id \in DOMAIN orders
    PROVE  \E s \in DOMAIN outbox : outbox[s].id = id /\ outbox[s].version = orders[id].version
<1>1. orders[id].version \in 1..orders[id].version
  BY DEF LedgerTypeOK, Order
<1>2. orders[id].version \in {outbox[s].version : s \in SeqsOf(id)}
  BY <1>1 DEF OutboxIsHistory
<1> QED
  BY <1>2 DEF SeqsOf

-----------------------------------------------------------------------------
(* Only one request takes part in a step. *)
Others(r) ==
    \A q \in Requests \ {r} :
        pc'[q] = pc[q] /\ arg'[q] = arg[q] /\ draft'[q] = draft[q] /\ reply'[q] = reply[q]

(* Answers and drafts have their types. *)
LEMMA FinishTypes ==
    ASSUME TypeOK, NEW r \in Requests, NEW answer \in Reply, Finish(r, answer)
    PROVE  /\ pc' \in [Requests -> {"idle", "insert", "select_again", "lock", "enqueue", "commit", "done"}]
           /\ draft' \in [Requests -> Draft \cup {NoDraft}]
           /\ reply' \in [Requests -> Reply \cup {NoReply}]
           /\ pc'[r] = "done" /\ reply'[r] = answer
BY DEF TypeOK, Finish

LEMMA RefusalType ==
    \A kind \in {"conflict", "not_found", "error"} :
        Refusal(kind) \in Reply /\ Refusal(kind).kind = kind /\ Refusal(kind).kind \notin Good
BY DEF Refusal, Reply, Good

LEMMA AnswerType ==
    ASSUME NEW kind \in Good, NEW id \in OrderIds, NEW order \in Order
    PROVE  /\ Answer(kind, id, order) \in Reply
           /\ Answer(kind, id, order).kind = kind /\ Answer(kind, id, order).id = id
           /\ Answer(kind, id, order).version = order.version
BY DEF Answer, Reply, Order, Good

LEMMA ExistingType ==
    ASSUME LedgerTypeOK, NEW id \in DOMAIN orders, NEW data
    PROVE  Existing(id, data) \in Reply
<1>1. id \in OrderIds /\ orders[id] \in Order
  BY DEF LedgerTypeOK
<1> QED
  BY <1>1, AnswerType, RefusalType DEF Existing, Good

LEMMA StoreTypesKept == StoreInv /\ [Next]_vars => TypeOK'
<1> SUFFICES ASSUME StoreInv, [Next]_vars PROVE TypeOK'
  OBVIOUS
<1>0. TypeOK /\ LedgerTypeOK /\ LedgerTypeOK'
  BY StepsAreLedgerSteps, LedgerTypesKept DEF StoreInv, TypeOK
<1>1. ASSUME NEW r \in Requests, NEW key \in Keys, NEW data \in Data, SelectKey(r, key, data)
      PROVE  TypeOK'
  <2>1. arg' \in [Requests -> CreateArg \cup UpdateArg \cup {NoArg}] /\ nextSeq' = nextSeq
    BY <1>0, <1>1 DEF SelectKey, TypeOK, CreateArg
  <2>2. CASE \E id \in HoldersOf(key) : Finish(r, Existing(id, data))
    <3>1. PICK id \in DOMAIN orders : Finish(r, Existing(id, data))
      BY <2>2 DEF HoldersOf
    <3> QED
      BY <1>0, <2>1, <3>1, ExistingType, FinishTypes DEF TypeOK
  <2>3. CASE pc' = [pc EXCEPT ![r] = "insert"] /\ UNCHANGED <<draft, reply>>
    BY <1>0, <2>1, <2>3 DEF TypeOK
  <2> QED
    BY <1>1, <2>2, <2>3 DEF SelectKey
<1>2. ASSUME NEW r \in Requests, NEW id \in OrderIds, NEW w \in Wanted, BeginUpdate(r, id, w[1], w[2])
      PROVE  TypeOK'
  <2>1. [op |-> "update", id |-> id, expected_version |-> w[1], status |-> w[2]] \in UpdateArg
    BY DEF UpdateArg
  <2> QED
    BY <1>0, <1>2, <2>1 DEF BeginUpdate, TypeOK
<1>3. ASSUME NEW r \in Requests, InsertOrder(r) PROVE TypeOK'
  <2>1. arg[r].key \in Keys /\ arg[r].data \in Data
    BY <1>3 DEF InsertOrder, StoreInv, Shapes, CreateArg
  <2>2. new_order(arg[r].key, arg[r].data) \in Order
    BY <2>1 DEF new_order, Order, Statuses
  <2>3. \A id \in OrderIds :
           [id |-> id, order |-> new_order(arg[r].key, arg[r].data), seq |-> 0] \in Draft
    BY <2>2, MaxSeqAssumption DEF Draft
  <2> QED
    BY <1>0, <1>3, <2>3 DEF InsertOrder, TypeOK
<1>4. ASSUME NEW r \in Requests, InsertDuplicate(r) PROVE TypeOK'
  BY <1>0, <1>4 DEF InsertDuplicate, TypeOK
<1>5. ASSUME NEW r \in Requests, SelectAgain(r) PROVE TypeOK'
  <2>1. PICK answer \in Reply : Finish(r, answer)
    <3> DEFINE found == HoldersOf(arg[r].key)
    <3>1. CASE found = {}
      BY <1>5, <3>1, RefusalType DEF SelectAgain
    <3>2. CASE found # {}
      <4>1. (CHOOSE id \in found : TRUE) \in DOMAIN orders
        BY <3>2 DEF HoldersOf
      <4> QED
        BY <1>0, <1>5, <3>2, <4>1, ExistingType DEF SelectAgain
    <3> QED
      BY <3>1, <3>2
  <2> QED
    BY <1>0, <1>5, <2>1, FinishTypes DEF SelectAgain, TypeOK
<1>6. ASSUME NEW r \in Requests, LockRow(r) PROVE TypeOK'
  <2>1. CASE \E kind \in {"not_found", "conflict"} : Finish(r, Refusal(kind))
    BY <1>0, <1>6, <2>1, RefusalType, FinishTypes DEF LockRow, TypeOK
  <2>2. CASE /\ arg[r].id \in DOMAIN orders
             /\ TransitionAllowed(orders[arg[r].id], arg[r].expected_version, arg[r].status)
             /\ draft' = [draft EXCEPT ![r] =
                   [id |-> arg[r].id, order |-> transition(orders[arg[r].id], arg[r].status), seq |-> 0]]
             /\ pc' = [pc EXCEPT ![r] = "enqueue"]
             /\ UNCHANGED reply
    <3>1. arg[r].id \in OrderIds /\ orders[arg[r].id] \in Order
      BY <1>0, <2>2 DEF LedgerTypeOK
    <3>2. transition(orders[arg[r].id], arg[r].status) \in Order
      BY <2>2, <3>1, TransitionType DEF TransitionAllowed
    <3>3. [id |-> arg[r].id, order |-> transition(orders[arg[r].id], arg[r].status), seq |-> 0] \in Draft
      BY <3>1, <3>2, MaxSeqAssumption DEF Draft
    <3> QED
      BY <1>0, <1>6, <2>2, <3>3 DEF LockRow, TypeOK
  <2> QED
    BY <1>6, <2>1, <2>2 DEF LockRow
<1>7. ASSUME NEW r \in Requests, Enqueue(r) PROVE TypeOK'
  <2>1. draft[r] \in Draft
    BY <1>7 DEF Enqueue, StoreInv, Shapes, InTransaction
  <2>2. [draft[r] EXCEPT !.seq = nextSeq] \in Draft
    BY <1>7, <2>1 DEF Enqueue, Draft, Seqs
  <2> QED
    BY <1>0, <1>7, <2>2, MaxSeqAssumption DEF Enqueue, TypeOK, Seqs
<1>8. ASSUME NEW r \in Requests, Commit(r) PROVE TypeOK'
  <2>1. draft[r] \in Draft
    BY <1>8 DEF Commit, StoreInv, Shapes, InTransaction
  <2>2. PICK answer \in Reply : Finish(r, answer)
    BY <1>8, <2>1, AnswerType DEF Commit, Draft, Good
  <2> QED
    BY <1>0, <1>8, <2>2, FinishTypes DEF Commit, TypeOK
<1>9. ASSUME NEW r \in Requests, CommitUnknown(r) \/ Abort(r) PROVE TypeOK'
  BY <1>0, <1>9, RefusalType, FinishTypes DEF CommitUnknown, Abort, TypeOK
<1>10. CASE Served \/ UNCHANGED vars
  BY <1>0, <1>10 DEF Served, vars, txvars, TypeOK
<1> QED
  BY <1>1, <1>2, <1>3, <1>4, <1>5, <1>6, <1>7, <1>8, <1>9, <1>10 DEF Next, Step

-----------------------------------------------------------------------------
(* A step that neither writes a table nor leaves its request in a transaction. *)
Quiet(r) ==
    /\ Others(r)
    /\ UNCHANGED <<orders, outbox, nextSeq>>
    /\ pc'[r] \notin {"enqueue", "commit"}

(* A request is not done until it has an answer; a refusal promises nothing, a replay what is stored. *)
Replay(r) ==
    /\ arg'[r] \in CreateArg
    /\ reply'[r].kind = "replayed"
    /\ reply'[r].id \in DOMAIN orders
    /\ orders[reply'[r].id].key = arg'[r].key /\ orders[reply'[r].id].data = arg'[r].data
    /\ reply'[r].version = orders[reply'[r].id].version

Harmless(r) == reply'[r].kind \notin Good \/ Replay(r)

LEMMA QuietKeepsRows ==
    ASSUME StoreInv, NEW r \in Requests, Quiet(r)
    PROVE  Drafts' /\ Locks' /\ Numbers' /\ KeysUnique'
<1>1. \A q \in Requests : InTransaction(q)' =>
         q # r /\ InTransaction(q) /\ pc'[q] = pc[q] /\ arg'[q] = arg[q] /\ draft'[q] = draft[q]
  BY DEF Quiet, Others, InTransaction
<1>2. \A q \in Requests : pc'[q] = "commit" => InTransaction(q)'
  BY DEF InTransaction
<1>3. Drafts'
  BY <1>1 DEF StoreInv, Drafts, CreateDraft, UpdateDraft, Quiet
<1>4. Locks'
  BY <1>1 DEF StoreInv, Locks
<1>5. Numbers'
  BY <1>1, <1>2 DEF StoreInv, Numbers, Quiet
<1>6. KeysUnique'
  BY DEF StoreInv, KeysUnique, Quiet
<1> QED
  BY <1>3, <1>4, <1>5, <1>6

LEMMA QuietKeepsReplies ==
    ASSUME StoreInv, NEW r \in Requests, Quiet(r), Harmless(r)
    PROVE  Replies' /\ CreatedOnce' /\ NoLostUpdate'
<1>1. \A q \in Requests \ {r} : reply'[q] = reply[q] /\ arg'[q] = arg[q]
  BY DEF Quiet, Others
<1>2. orders' = orders /\ outbox' = outbox
  BY DEF Quiet
<1>3. reply'[r].kind \notin {"created", "updated"}
  BY DEF Harmless, Replay, Good
<1>4. ASSUME reply'[r].kind \in Good
      PROVE  /\ Replay(r)
             /\ \E s \in DOMAIN outbox : outbox[s].id = reply'[r].id /\ outbox[s].version = reply'[r].version
  BY <1>4, NewestEvent DEF Harmless, Replay, StoreInv, TypeOK
<1>5. Replies'
  <2> SUFFICES ASSUME NEW q \in Requests
               PROVE  /\ reply'[q].kind \in {"created", "replayed"} =>
                            /\ arg'[q] \in CreateArg
                            /\ reply'[q].id \in DOMAIN orders
                            /\ orders[reply'[q].id].key = arg'[q].key /\ orders[reply'[q].id].data = arg'[q].data
                      /\ reply'[q].kind = "updated" =>
                            /\ arg'[q] \in UpdateArg /\ arg'[q].id \in DOMAIN orders
                            /\ arg'[q].expected_version \in Nat
                            /\ arg'[q].expected_version < orders[arg'[q].id].version
                            /\ reply'[q].id = arg'[q].id
                      /\ reply'[q].kind \in Good =>
                            \E s \in DOMAIN outbox : outbox[s].id = reply'[q].id /\ outbox[s].version = reply'[q].version
    BY <1>2 DEF Replies, CreateArg, UpdateArg
  <2>1. CASE q = r
    BY <1>3, <1>4, <2>1 DEF Replay, Good
  <2>2. CASE q # r
    <3>1. reply'[q] = reply[q] /\ arg'[q] = arg[q]
      BY <1>1, <2>2
    <3> QED
      BY <3>1 DEF StoreInv, Replies
  <2> QED
    BY <2>1, <2>2
<1>6. CreatedOnce' /\ NoLostUpdate'
  BY <1>1, <1>3 DEF StoreInv, CreatedOnce, NoLostUpdate
<1> QED
  BY <1>5, <1>6

(* What _existing answers about a row with the key of the request. *)
LEMMA ExistingIsHarmless ==
    ASSUME StoreInv, NEW r \in Requests, NEW id \in DOMAIN orders, arg'[r] \in CreateArg,
           orders[id].key = arg'[r].key, reply'[r] = Existing(id, arg'[r].data)
    PROVE  Harmless(r)
<1>1. id \in OrderIds /\ orders[id] \in Order
  BY DEF StoreInv, TypeOK, LedgerTypeOK
<1>2. CASE orders[id].data = arg'[r].data
  <2>1. reply'[r] = Answer("replayed", id, orders[id])
    BY <1>2 DEF Existing
  <2> QED
    BY <1>1, <1>2, <2>1, AnswerType DEF Harmless, Replay, Good
<1>3. CASE orders[id].data # arg'[r].data
  BY <1>3, RefusalType DEF Existing, Harmless
<1> QED
  BY <1>2, <1>3

(* The statements that read, wait, refuse or roll back promise nothing new. *)
LEMMA QuietSteps ==
    ASSUME StoreInv, NEW r \in Requests,
           \/ \E key \in Keys, data \in Data : SelectKey(r, key, data)
           \/ \E id \in OrderIds, w \in Wanted : BeginUpdate(r, id, w[1], w[2])
           \/ InsertDuplicate(r) \/ SelectAgain(r) \/ Abort(r)
           \/ LockRow(r) /\ pc'[r] # "enqueue"
    PROVE  Quiet(r) /\ Harmless(r)
<1>0. TypeOK /\ LedgerTypeOK /\ Shapes
  BY DEF StoreInv, TypeOK
<1>1. ASSUME NEW key \in Keys, NEW data \in Data, SelectKey(r, key, data)
      PROVE  Quiet(r) /\ Harmless(r)
  <2>1. arg'[r] = [op |-> "create", key |-> key, data |-> data] /\ arg'[r] \in CreateArg
    BY <1>0, <1>1 DEF SelectKey, TypeOK, CreateArg
  <2>2. CASE \E id \in HoldersOf(key) : Finish(r, Existing(id, data))
    <3>1. PICK id \in HoldersOf(key) : Finish(r, Existing(id, data))
      BY <2>2
    <3>2. id \in DOMAIN orders /\ orders[id].key = arg'[r].key /\ reply'[r] = Existing(id, arg'[r].data)
      BY <1>0, <2>1, <3>1 DEF HoldersOf, Finish, TypeOK
    <3>3. Harmless(r)
      BY <2>1, <3>2, ExistingIsHarmless
    <3> QED
      BY <1>0, <1>1, <3>1, <3>3 DEF SelectKey, Finish, Quiet, Others, TypeOK, ledger
  <2>3. CASE pc' = [pc EXCEPT ![r] = "insert"] /\ UNCHANGED <<draft, reply>>
    <3>1. reply'[r] = NoReply
      BY <1>0, <1>1, <2>3 DEF SelectKey, Shapes
    <3> QED
      BY <1>0, <1>1, <2>3, <3>1 DEF SelectKey, Quiet, Others, Harmless, TypeOK, ledger, NoReply, Good
  <2> QED
    BY <1>1, <2>2, <2>3 DEF SelectKey
<1>2. ASSUME NEW id \in OrderIds, NEW w \in Wanted, BeginUpdate(r, id, w[1], w[2])
      PROVE  Quiet(r) /\ Harmless(r)
  <2>1. reply'[r] = NoReply
    BY <1>0, <1>2 DEF BeginUpdate, Shapes
  <2> QED
    BY <1>0, <1>2, <2>1 DEF BeginUpdate, Quiet, Others, Harmless, TypeOK, ledger, NoReply, Good
<1>3. CASE InsertDuplicate(r)
  <2>1. reply'[r] = NoReply
    BY <1>0, <1>3 DEF InsertDuplicate, Shapes
  <2> QED
    BY <1>0, <1>3, <2>1 DEF InsertDuplicate, Quiet, Others, Harmless, TypeOK, ledger, NoReply, Good
<1>4. CASE SelectAgain(r)
  <2> DEFINE found == HoldersOf(arg[r].key)
  <2>1. Quiet(r)
    BY <1>0, <1>4 DEF SelectAgain, Finish, Quiet, Others, TypeOK, ledger
  <2>2. arg[r] \in CreateArg /\ arg' = arg
    BY <1>0, <1>4 DEF SelectAgain, Shapes
  <2>3. CASE found = {}
    <3>1. reply'[r] = Refusal("error")
      BY <1>0, <1>4, <2>3 DEF SelectAgain, Finish, TypeOK
    <3> QED
      BY <2>1, <3>1, RefusalType DEF Harmless
  <2>4. CASE found # {}
    <3>1. PICK id \in found : reply'[r] = Existing(id, arg[r].data)
      BY <1>0, <1>4, <2>4 DEF SelectAgain, Finish, TypeOK
    <3>2. id \in DOMAIN orders /\ orders[id].key = arg[r].key
      BY <3>1 DEF HoldersOf
    <3> QED
      BY <2>1, <2>2, <3>1, <3>2, ExistingIsHarmless
  <2> QED
    BY <2>3, <2>4
<1>5. CASE Abort(r)
  <2>1. reply'[r] = Refusal("error")
    BY <1>0, <1>5 DEF Abort, Finish, TypeOK
  <2> QED
    BY <1>0, <1>5, <2>1, RefusalType DEF Abort, Finish, Quiet, Others, Harmless, TypeOK, ledger
<1>6. CASE LockRow(r) /\ pc'[r] # "enqueue"
  <2>1. PICK kind \in {"not_found", "conflict"} : Finish(r, Refusal(kind))
    BY <1>0, <1>6 DEF LockRow, TypeOK
  <2>2. reply'[r] = Refusal(kind)
    BY <1>0, <2>1 DEF Finish, TypeOK
  <2> QED
    BY <1>0, <1>6, <2>1, <2>2, RefusalType DEF LockRow, Finish, Quiet, Others, Harmless, TypeOK, ledger
<1> QED
  BY <1>1, <1>2, <1>3, <1>4, <1>5, <1>6

-----------------------------------------------------------------------------
(* A request that takes its locks with a row nobody else is writing. *)
Enters(r) ==
    /\ Others(r)
    /\ UNCHANGED <<orders, outbox, nextSeq, arg, reply>>
    /\ ~ InTransaction(r) /\ pc'[r] = "enqueue"
    /\ ~ RowLocked(draft'[r].id)
    /\ arg[r].op = "create" => ~ KeyLocked(arg[r].key)
    /\ IF arg[r].op = "create" THEN CreateDraft(r)' ELSE UpdateDraft(r)'

LEMMA TablesAloneKeepReplies ==
    ASSUME StoreInv, UNCHANGED <<orders, outbox, arg, reply>>
    PROVE  Replies' /\ CreatedOnce' /\ NoLostUpdate' /\ KeysUnique'
BY DEF StoreInv, Replies, CreatedOnce, NoLostUpdate, KeysUnique, CreateArg, UpdateArg

LEMMA EntersKeepsLocks ==
    ASSUME StoreInv, NEW r \in Requests, Enters(r)
    PROVE  Drafts' /\ Locks' /\ Numbers'
<1>1. \A q \in Requests \ {r} : pc'[q] = pc[q] /\ draft'[q] = draft[q] /\ InTransaction(q)' = InTransaction(q)
  BY DEF Enters, Others, InTransaction
<1>2. orders' = orders /\ outbox' = outbox /\ nextSeq' = nextSeq /\ arg' = arg /\ pc'[r] = "enqueue"
  BY DEF Enters
<1>3. Drafts'
  <2> SUFFICES ASSUME NEW q \in Requests, InTransaction(q)'
               PROVE  IF arg'[q].op = "create" THEN CreateDraft(q)' ELSE UpdateDraft(q)'
    BY DEF Drafts
  <2>1. CASE q = r
    BY <1>2, <2>1 DEF Enters
  <2>2. CASE q # r
    BY <1>1, <1>2, <2>2 DEF StoreInv, Drafts, CreateDraft, UpdateDraft
  <2> QED
    BY <2>1, <2>2
<1>4. Locks'
  <2>1. \A q \in Requests \ {r} : InTransaction(q) =>
           /\ draft'[q].id # draft'[r].id
           /\ arg[q].op = "create" /\ arg[r].op = "create" => arg[q].key # arg[r].key
    BY <1>1 DEF Enters, RowLocked, KeyLocked
  <2> QED
    BY <1>1, <1>2, <2>1 DEF StoreInv, Locks
<1>5. Numbers'
  BY <1>1, <1>2 DEF StoreInv, Numbers
<1> QED
  BY <1>3, <1>4, <1>5

LEMMA EnteringSteps ==
    ASSUME StoreInv, NEW r \in Requests, InsertOrder(r) \/ (LockRow(r) /\ pc'[r] = "enqueue")
    PROVE  Enters(r)
<1>0. TypeOK /\ LedgerTypeOK /\ Shapes
  BY DEF StoreInv, TypeOK
<1>1. CASE InsertOrder(r)
  <2>1. arg[r] \in CreateArg /\ arg[r].op = "create"
    BY <1>0, <1>1 DEF InsertOrder, Shapes, CreateArg
  <2>2. PICK id \in OrderIds \ DOMAIN orders :
           /\ ~ RowLocked(id)
           /\ draft' = [draft EXCEPT ![r] =
                 [id |-> id, order |-> new_order(arg[r].key, arg[r].data), seq |-> 0]]
    BY <1>1 DEF InsertOrder
  <2>3. draft'[r] = [id |-> id, order |-> new_order(arg[r].key, arg[r].data), seq |-> 0]
    BY <1>0, <2>2 DEF TypeOK
  <2>4. \A i \in DOMAIN orders : orders[i].key # arg[r].key
    BY <1>1 DEF InsertOrder, HoldersOf
  <2>5. CreateDraft(r)'
    BY <1>1, <2>2, <2>3, <2>4 DEF InsertOrder, CreateDraft, ledger
  <2>6. Others(r) /\ UNCHANGED <<orders, outbox, nextSeq, arg, reply>> /\ ~ InTransaction(r) /\ pc'[r] = "enqueue"
    BY <1>0, <1>1, <2>2 DEF InsertOrder, Others, TypeOK, ledger, InTransaction
  <2> QED
    BY <1>1, <2>1, <2>2, <2>3, <2>5, <2>6 DEF Enters, InsertOrder
<1>2. CASE LockRow(r) /\ pc'[r] = "enqueue"
  <2>1. arg[r] \in UpdateArg /\ arg[r].op # "create"
    BY <1>0, <1>2 DEF LockRow, Shapes, UpdateArg
  <2>2. /\ arg[r].id \in DOMAIN orders
        /\ TransitionAllowed(orders[arg[r].id], arg[r].expected_version, arg[r].status)
        /\ draft' = [draft EXCEPT ![r] =
              [id |-> arg[r].id, order |-> transition(orders[arg[r].id], arg[r].status), seq |-> 0]]
        /\ pc' = [pc EXCEPT ![r] = "enqueue"]
        /\ UNCHANGED reply
    <3>1. \A answer : Finish(r, answer) => pc'[r] = "done"
      BY <1>0 DEF Finish, TypeOK
    <3> QED
      BY <1>2, <3>1 DEF LockRow
  <2>3. draft'[r] = [id |-> arg[r].id, order |-> transition(orders[arg[r].id], arg[r].status), seq |-> 0]
    BY <1>0, <2>2 DEF TypeOK
  <2>4. Others(r) /\ UNCHANGED <<orders, outbox, nextSeq, arg, reply>> /\ ~ InTransaction(r) /\ pc'[r] = "enqueue"
    BY <1>0, <1>2, <2>2 DEF LockRow, Others, TypeOK, ledger, InTransaction
  <2>5. UpdateDraft(r)'
    BY <2>2, <2>3, <2>4 DEF UpdateDraft
  <2> QED
    BY <1>2, <2>1, <2>3, <2>4, <2>5 DEF Enters, LockRow
<1> QED
  BY <1>1, <1>2

(* _enqueue takes a number above every number handed out before. *)
LEMMA EnqueueKeepsNumbers ==
    ASSUME StoreInv, NEW r \in Requests, Enqueue(r)
    PROVE  Drafts' /\ Locks' /\ Numbers'
<1>0. TypeOK /\ LedgerTypeOK /\ Shapes /\ nextSeq \in Nat
  BY DEF StoreInv, TypeOK
<1>1. draft[r] \in Draft /\ InTransaction(r) /\ pc[r] = "enqueue"
  BY <1>0 DEF Enqueue, Shapes, InTransaction
<1>2. draft'[r].id = draft[r].id /\ draft'[r].order = draft[r].order /\ draft'[r].seq = nextSeq
  BY <1>0, <1>1 DEF Enqueue, TypeOK, Draft
<1>3. \A q \in Requests \ {r} : pc'[q] = pc[q] /\ draft'[q] = draft[q]
  BY <1>0 DEF Enqueue, TypeOK
<1>4. orders' = orders /\ outbox' = outbox /\ arg' = arg /\ nextSeq' = nextSeq + 1 /\ pc'[r] = "commit"
  BY <1>0 DEF Enqueue, TypeOK, ledger
<1>5. \A q \in Requests : InTransaction(q)' = InTransaction(q) /\ draft'[q].id = draft[q].id
                          /\ draft'[q].order = draft[q].order
  BY <1>1, <1>2, <1>3, <1>4 DEF InTransaction
<1>6. Drafts' /\ Locks'
  BY <1>4, <1>5 DEF StoreInv, Drafts, Locks, CreateDraft, UpdateDraft
<1>7. DOMAIN outbox \subseteq Seqs /\ \A s \in DOMAIN outbox : s \in Nat
  BY <1>0 DEF LedgerTypeOK, Seqs
<1>8. \A q \in Requests \ {r} : pc[q] = "commit" => draft[q].seq \in Nat /\ draft[q].seq < nextSeq
  BY DEF StoreInv, Numbers, Seqs
<1>9. \A s \in DOMAIN outbox' : s < nextSeq'
  BY <1>0, <1>4, <1>7 DEF StoreInv, Numbers
<1>10. ASSUME NEW q \in Requests, pc'[q] = "commit"
       PROVE  /\ draft'[q].seq \in Seqs \ DOMAIN outbox
              /\ draft'[q].seq < nextSeq'
              /\ \A s \in DOMAIN outbox : outbox[s].id = draft'[q].id => s < draft'[q].seq
  <2>1. CASE q = r
    <3>1. draft'[q].seq = nextSeq /\ nextSeq \in Seqs
      BY <1>2, <2>1 DEF Enqueue
    <3>2. \A s \in DOMAIN outbox : s < nextSeq
      BY DEF StoreInv, Numbers
    <3>3. nextSeq \notin DOMAIN outbox
      BY <1>0, <3>2
    <3> QED
      BY <1>0, <1>4, <3>1, <3>2, <3>3
  <2>2. CASE q # r
    <3>1. draft'[q] = draft[q] /\ pc[q] = "commit"
      BY <1>3, <1>10, <2>2
    <3>2. draft[q].seq < nextSeq'
      BY <1>0, <1>4, <1>8, <2>2, <3>1
    <3> QED
      BY <3>1, <3>2 DEF StoreInv, Numbers
  <2> QED
    BY <2>1, <2>2
<1>11. \A q1, q2 \in Requests : q1 # q2 /\ pc'[q1] = "commit" /\ pc'[q2] = "commit"
                                => draft'[q1].seq # draft'[q2].seq
  <2>1. \A q \in Requests \ {r} : pc[q] = "commit" => draft[q].seq # nextSeq
    BY <1>0, <1>8
  <2> QED
    BY <1>2, <1>3, <2>1 DEF StoreInv, Numbers
<1> QED
  BY <1>4, <1>6, <1>9, <1>10, <1>11 DEF Numbers

-----------------------------------------------------------------------------
(* What a commit does to the tables: one row appears or moves on, one event is added. *)
TablesGrow(r) ==
    /\ DOMAIN orders' = DOMAIN orders \cup {draft[r].id}
    /\ orders'[draft[r].id] = draft[r].order
    /\ \A id \in DOMAIN orders : id # draft[r].id => orders'[id] = orders[id]
    /\ \A id \in DOMAIN orders : /\ orders'[id].key = orders[id].key
                                 /\ orders'[id].data = orders[id].data
                                 /\ orders[id].version \in Nat /\ orders'[id].version \in Nat
                                 /\ orders[id].version <= orders'[id].version
    /\ DOMAIN outbox' = DOMAIN outbox \cup {draft[r].seq}
    /\ outbox'[draft[r].seq] = envelope(draft[r].id, draft[r].order)
    /\ \A s \in DOMAIN outbox : outbox'[s] = outbox[s]

LEMMA CommitGrowsTables ==
    ASSUME StoreInv, NEW r \in Requests, pc[r] = "commit", Durable(r)
    PROVE  TablesGrow(r)
<1>0. LedgerTypeOK /\ InTransaction(r) /\ draft[r] \in Draft /\ arg[r] \in CreateArg \cup UpdateArg
  BY DEF StoreInv, TypeOK, Shapes, InTransaction
<1>1. /\ DOMAIN orders' = DOMAIN orders \cup {draft[r].id}
      /\ orders'[draft[r].id] = draft[r].order
      /\ \A id \in DOMAIN orders : id # draft[r].id => orders'[id] = orders[id]
  BY DEF Durable, Bind
<1>2. draft[r].seq \notin DOMAIN outbox
  BY DEF StoreInv, Numbers
<1>3. /\ DOMAIN outbox' = DOMAIN outbox \cup {draft[r].seq}
      /\ outbox'[draft[r].seq] = envelope(draft[r].id, draft[r].order)
      /\ \A s \in DOMAIN outbox : outbox'[s] = outbox[s]
  BY <1>2 DEF Durable, Bind
<1>4. ASSUME NEW id \in DOMAIN orders
      PROVE  /\ orders'[id].key = orders[id].key
             /\ orders'[id].data = orders[id].data
             /\ orders[id].version \in Nat /\ orders'[id].version \in Nat
             /\ orders[id].version <= orders'[id].version
  <2>1. orders[id] \in Order /\ orders[id].version \in Nat
    BY <1>0, <1>4 DEF LedgerTypeOK, Order
  <2>2. CASE id # draft[r].id
    BY <1>1, <2>1, <2>2
  <2>3. CASE id = draft[r].id
    <3>1. UpdateDraft(r)
      BY <1>0, <2>3 DEF StoreInv, Drafts, CreateDraft
    <3>2. orders'[id] = transition(orders[id], arg[r].status)
      BY <1>1, <2>3, <3>1 DEF UpdateDraft
    <3> QED
      BY <2>1, <3>2 DEF transition
  <2> QED
    BY <2>2, <2>3
<1> QED
  BY <1>1, <1>3, <1>4 DEF TablesGrow

(* The locks keep the other transactions' drafts current. *)
LEMMA CommitKeepsDrafts ==
    ASSUME StoreInv, NEW r \in Requests, pc[r] = "commit", Durable(r),
           Others(r), pc'[r] = "done", nextSeq' = nextSeq
    PROVE  Drafts' /\ Locks' /\ Numbers'
<1>0. InTransaction(r) /\ TypeOK /\ LedgerTypeOK /\ draft[r] \in Draft
  BY DEF StoreInv, TypeOK, Shapes, InTransaction
<1>g. TablesGrow(r)
  BY CommitGrowsTables
<1>1. ASSUME NEW q \in Requests, InTransaction(q)'
      PROVE  /\ q # r /\ pc'[q] = pc[q] /\ arg'[q] = arg[q] /\ draft'[q] = draft[q] /\ InTransaction(q)
             /\ draft[q].id # draft[r].id
             /\ arg[q].op = "create" /\ arg[r].op = "create" => arg[q].key # arg[r].key
  <2>1. q # r
    BY <1>1 DEF InTransaction
  <2>2. pc'[q] = pc[q] /\ arg'[q] = arg[q] /\ draft'[q] = draft[q] /\ InTransaction(q)
    BY <1>1, <2>1 DEF Others, InTransaction
  <2> QED
    BY <1>0, <2>1, <2>2 DEF StoreInv, Locks
<1>2. \A q \in Requests : pc'[q] = "commit" => InTransaction(q)'
  BY DEF InTransaction
<1>3. Locks'
  BY <1>1 DEF StoreInv, Locks
<1>4. Drafts'
  <2> SUFFICES ASSUME NEW q \in Requests, InTransaction(q)'
               PROVE  IF arg'[q].op = "create" THEN CreateDraft(q)' ELSE UpdateDraft(q)'
    BY DEF Drafts
  <2>1. IF arg[q].op = "create" THEN CreateDraft(q) ELSE UpdateDraft(q)
    BY <1>1 DEF StoreInv, Drafts
  <2>2. CASE arg[q].op = "create"
    <3>1. orders'[draft[r].id].key # arg[q].key
      <4>1. CASE arg[r].op = "create"
        <5>1. draft[r].order = new_order(arg[r].key, arg[r].data)
          BY <1>0, <4>1 DEF StoreInv, Drafts, CreateDraft
        <5> QED
          BY <1>1, <2>2, <4>1, <5>1, <1>g DEF TablesGrow, new_order
      <4>2. CASE arg[r].op # "create"
        <5>1. draft[r].id \in DOMAIN orders
          BY <1>0, <4>2 DEF StoreInv, Drafts, UpdateDraft
        <5> QED
          BY <2>1, <2>2, <5>1, <1>g DEF TablesGrow, CreateDraft
      <4> QED
        BY <4>1, <4>2
    <3>2. \A id \in DOMAIN orders' : orders'[id].key # arg[q].key
      BY <2>1, <2>2, <3>1, <1>g DEF TablesGrow, CreateDraft
    <3>3. draft[q].id \notin DOMAIN orders'
      BY <1>1, <2>1, <2>2, <1>g DEF TablesGrow, CreateDraft
    <3> QED
      BY <1>1, <2>1, <2>2, <3>2, <3>3 DEF CreateDraft
  <2>3. CASE arg[q].op # "create"
    <3>1. draft[q].id \in DOMAIN orders' /\ orders'[draft[q].id] = orders[draft[q].id]
      BY <1>1, <2>1, <2>3, <1>g DEF TablesGrow, UpdateDraft
    <3> QED
      BY <1>1, <2>1, <2>3, <3>1 DEF UpdateDraft
  <2> QED
    BY <1>1, <2>2, <2>3
<1>5. Numbers'
  <2>1. \A s \in DOMAIN outbox' : s < nextSeq'
    BY <1>g DEF TablesGrow, StoreInv, Numbers
  <2>2. ASSUME NEW q \in Requests, pc'[q] = "commit"
        PROVE  /\ draft'[q].seq \in Seqs \ DOMAIN outbox'
               /\ draft'[q].seq < nextSeq'
               /\ \A s \in DOMAIN outbox' : outbox'[s].id = draft'[q].id => s < draft'[q].seq
    <3>1. q # r /\ draft'[q] = draft[q] /\ pc[q] = "commit" /\ draft[q].id # draft[r].id
      BY <1>1, <1>2, <2>2
    <3>2. draft[q].seq # draft[r].seq
      BY <3>1 DEF StoreInv, Numbers
    <3>3. outbox'[draft[r].seq].id # draft[q].id
      BY <3>1, <1>g DEF TablesGrow, envelope
    <3> QED
      BY <3>1, <3>2, <3>3, <1>g DEF TablesGrow, StoreInv, Numbers
  <2>3. \A q1, q2 \in Requests : q1 # q2 /\ pc'[q1] = "commit" /\ pc'[q2] = "commit"
                                 => draft'[q1].seq # draft'[q2].seq
    BY <1>1, <1>2 DEF StoreInv, Numbers
  <2> QED
    BY <2>1, <2>2, <2>3 DEF Numbers
<1> QED
  BY <1>3, <1>4, <1>5

(* The client of a commit is told what was committed, or nothing it may rely on. *)
LEMMA CommitAnswer ==
    ASSUME StoreInv, NEW r \in Requests, Commit(r) \/ CommitUnknown(r)
    PROVE  /\ pc[r] = "commit" /\ Durable(r) /\ InTransaction(r) /\ arg' = arg /\ Others(r)
           /\ pc'[r] = "done" /\ nextSeq' = nextSeq
           /\ arg[r] \in CreateArg \cup UpdateArg
           /\ \/ reply'[r].kind \notin Good
              \/ /\ reply'[r].kind = IF arg[r].op = "create" THEN "created" ELSE "updated"
                 /\ reply'[r].id = draft[r].id /\ reply'[r].version = draft[r].order.version
<1>0. /\ InTransaction(r) /\ pc[r] = "commit" /\ Durable(r) /\ TypeOK
      /\ arg[r] \in CreateArg \cup UpdateArg /\ arg' = arg /\ nextSeq' = nextSeq
  BY DEF Commit, CommitUnknown, StoreInv, Shapes, InTransaction
<1>1. Others(r) /\ pc'[r] = "done"
  BY <1>0 DEF Commit, CommitUnknown, Finish, Others, TypeOK
<1>2. CASE Commit(r)
  <2>1. reply'[r] = Answer(IF arg[r].op = "create" THEN "created" ELSE "updated", draft[r].id, draft[r].order)
    BY <1>0, <1>2 DEF Commit, Finish, TypeOK
  <2> QED
    BY <1>0, <1>1, <2>1 DEF Answer
<1>3. CASE CommitUnknown(r)
  <2>1. reply'[r] = Refusal("error")
    BY <1>0, <1>3 DEF CommitUnknown, Finish, TypeOK
  <2> QED
    BY <1>0, <1>1, <2>1, RefusalType
<1> QED
  BY <1>2, <1>3

(* The promise of an answer, over given tables: the conjuncts of Replies for one request. *)
Promise(r) ==
    /\ reply[r].kind \in {"created", "replayed"} =>
          /\ arg[r] \in CreateArg
          /\ reply[r].id \in DOMAIN orders
          /\ orders[reply[r].id].key = arg[r].key /\ orders[reply[r].id].data = arg[r].data
    /\ reply[r].kind = "updated" =>
          /\ arg[r] \in UpdateArg /\ arg[r].id \in DOMAIN orders
          /\ arg[r].expected_version \in Nat
          /\ arg[r].expected_version < orders[arg[r].id].version
          /\ reply[r].id = arg[r].id
    /\ reply[r].kind \in Good =>
          \E s \in DOMAIN outbox : outbox[s].id = reply[r].id /\ outbox[s].version = reply[r].version

(* What earlier answers said stays true when a transaction commits. *)
LEMMA CommitKeepsPromises ==
    ASSUME StoreInv, NEW r \in Requests, TablesGrow(r), Others(r), NEW q \in Requests \ {r}
    PROVE  Promise(q)'
<1>1. Promise(q) /\ reply'[q] = reply[q] /\ arg'[q] = arg[q]
  BY DEF StoreInv, Replies, Promise, Others
<1>2. ASSUME reply[q].kind \in {"created", "replayed"}
      PROVE  /\ reply[q].id \in DOMAIN orders'
             /\ orders'[reply[q].id].key = arg[q].key /\ orders'[reply[q].id].data = arg[q].data
  BY <1>1, <1>2 DEF Promise, TablesGrow
<1>3. ASSUME reply[q].kind = "updated"
      PROVE  arg[q].id \in DOMAIN orders' /\ arg[q].expected_version < orders'[arg[q].id].version
  <2>1. /\ arg[q].id \in DOMAIN orders /\ arg[q].expected_version \in Nat
        /\ arg[q].expected_version < orders[arg[q].id].version
    BY <1>1, <1>3 DEF Promise
  <2>2. /\ orders[arg[q].id].version \in Nat /\ orders'[arg[q].id].version \in Nat
        /\ orders[arg[q].id].version <= orders'[arg[q].id].version
        /\ arg[q].id \in DOMAIN orders'
    BY <2>1 DEF TablesGrow
  <2> QED
    BY <2>1, <2>2
<1>4. ASSUME reply[q].kind \in Good
      PROVE  \E s \in DOMAIN outbox' : outbox'[s].id = reply[q].id /\ outbox'[s].version = reply[q].version
  <2>1. PICK s \in DOMAIN outbox : outbox[s].id = reply[q].id /\ outbox[s].version = reply[q].version
    BY <1>1, <1>4 DEF Promise
  <2> QED
    BY <2>1 DEF TablesGrow
<1> QED
  BY <1>1, <1>2, <1>3, <1>4 DEF Promise, CreateArg, UpdateArg

LEMMA CommitKeepsReplies ==
    ASSUME StoreInv, NEW r \in Requests, Commit(r) \/ CommitUnknown(r)
    PROVE  KeysUnique' /\ Replies' /\ CreatedOnce' /\ NoLostUpdate'
<1>0. /\ pc[r] = "commit" /\ InTransaction(r) /\ arg' = arg /\ Others(r)
      /\ arg[r] \in CreateArg \cup UpdateArg /\ draft[r] \in Draft /\ LedgerTypeOK
  BY CommitAnswer DEF StoreInv, TypeOK, Shapes
<1>1. TablesGrow(r)
  BY CommitAnswer, CommitGrowsTables
<1>2. \/ reply'[r].kind \notin Good
      \/ /\ reply'[r].kind = IF arg[r].op = "create" THEN "created" ELSE "updated"
         /\ reply'[r].id = draft[r].id /\ reply'[r].version = draft[r].order.version
  BY CommitAnswer
<1>3. \A q \in Requests \ {r} : reply'[q] = reply[q] /\ Promise(q)'
  BY <1>0, <1>1, CommitKeepsPromises DEF Others
<1>4. reply'[r].kind \in Good =>
         \E s \in DOMAIN outbox' : outbox'[s].id = reply'[r].id /\ outbox'[s].version = reply'[r].version
  <2>1. /\ draft[r].seq \in DOMAIN outbox'
        /\ outbox'[draft[r].seq].id = draft[r].id
        /\ outbox'[draft[r].seq].version = draft[r].order.version
    BY <1>1 DEF TablesGrow, envelope
  <2> QED
    BY <1>2, <2>1
<1>5. CASE arg[r].op = "create"
  <2>1. CreateDraft(r) /\ arg[r] \in CreateArg
    BY <1>0, <1>5 DEF StoreInv, Drafts, CreateArg, UpdateArg
  <2>2. /\ draft[r].id \in DOMAIN orders'
        /\ orders'[draft[r].id].key = arg[r].key /\ orders'[draft[r].id].data = arg[r].data
    BY <1>1, <2>1 DEF CreateDraft, new_order, TablesGrow
  <2>3. KeysUnique'
    <3>1. \A i \in DOMAIN orders : orders'[i].key = orders[i].key /\ orders[i].key # orders'[draft[r].id].key
      BY <1>1, <2>1, <2>2 DEF TablesGrow, CreateDraft
    <3> QED
      BY <1>1, <3>1 DEF TablesGrow, StoreInv, KeysUnique
  <2>4. Promise(r)'
    BY <1>0, <1>2, <1>4, <1>5, <2>1, <2>2 DEF Promise, Good
  <2>5. Replies'
    BY <1>3, <2>4 DEF Promise, Replies
  <2>6. ASSUME NEW q \in Requests \ {r}, reply[q].kind = "created" PROVE arg[q].key # arg[r].key
    <3>1. reply[q].id \in DOMAIN orders /\ orders[reply[q].id].key = arg[q].key
      BY <2>6 DEF StoreInv, Replies
    <3> QED
      BY <2>1, <3>1 DEF CreateDraft
  <2>7. CreatedOnce'
    BY <1>0, <1>3, <2>6 DEF StoreInv, CreatedOnce
  <2>8. NoLostUpdate'
    BY <1>0, <1>2, <1>3, <1>5 DEF StoreInv, NoLostUpdate, Good
  <2> QED
    BY <2>3, <2>5, <2>7, <2>8
<1>6. CASE arg[r].op # "create"
  <2>1. UpdateDraft(r) /\ arg[r] \in UpdateArg
    BY <1>0, <1>6 DEF StoreInv, Drafts, CreateArg, UpdateArg
  <2>2. draft[r].id \in DOMAIN orders /\ orders[draft[r].id] \in Order /\ draft[r].id = arg[r].id
    BY <1>0, <2>1 DEF UpdateDraft, LedgerTypeOK
  <2>3. /\ arg[r].expected_version = orders[arg[r].id].version
        /\ orders[arg[r].id].version \in Nat
        /\ orders'[arg[r].id].version = orders[arg[r].id].version + 1
    BY <1>1, <2>1, <2>2 DEF UpdateDraft, TransitionAllowed, transition, TablesGrow, Order
  <2>4. KeysUnique'
    BY <1>1, <2>2 DEF TablesGrow, StoreInv, KeysUnique
  <2>5. Promise(r)'
    <3>1. arg[r].id \in DOMAIN orders' /\ arg[r].expected_version \in Nat
          /\ arg[r].expected_version < orders'[arg[r].id].version
      BY <1>1, <2>2, <2>3 DEF TablesGrow
    <3> QED
      BY <1>0, <1>2, <1>4, <1>6, <2>1, <2>2, <3>1 DEF Promise, Good
  <2>6. Replies'
    BY <1>3, <2>5 DEF Promise, Replies
  <2>7. ASSUME NEW q \in Requests \ {r}, reply[q].kind = "updated", arg[q].id = arg[r].id
        PROVE  arg[q].expected_version # arg[r].expected_version
    <3>1. arg[q].expected_version \in Nat /\ arg[q].expected_version < orders[arg[q].id].version
      BY <2>7 DEF StoreInv, Replies
    <3> QED
      BY <2>3, <2>7, <3>1
  <2>8. NoLostUpdate'
    BY <1>0, <1>3, <2>7 DEF StoreInv, NoLostUpdate
  <2>9. CreatedOnce'
    BY <1>0, <1>2, <1>3, <1>6 DEF StoreInv, CreatedOnce, Good
  <2> QED
    BY <2>4, <2>6, <2>8, <2>9
<1> QED
  BY <1>5, <1>6

-----------------------------------------------------------------------------
(* A request is where its statements have taken it. *)
LEMMA ShapesKept == StoreInv /\ [Next]_vars => Shapes'
<1> SUFFICES ASSUME StoreInv, [Next]_vars PROVE Shapes'
  OBVIOUS
<1>0. TypeOK /\ Shapes /\ TypeOK'
  BY StoreTypesKept DEF StoreInv
<1> DEFINE Shape(r) ==
        /\ pc[r] \in {"insert", "select_again"} => arg[r] \in CreateArg
        /\ pc[r] = "lock" => arg[r] \in UpdateArg
        /\ InTransaction(r) => draft[r] \in Draft /\ arg[r] \in CreateArg \cup UpdateArg
        /\ pc[r] # "done" => reply[r] = NoReply
<1>1. ASSUME NEW r \in Requests, Others(r), Shape(r)' PROVE Shapes'
  BY <1>0, <1>1 DEF Shapes, Others, InTransaction, CreateArg, UpdateArg, Draft
<1>2. ASSUME NEW r \in Requests, NEW answer, Finish(r, answer), UNCHANGED arg PROVE Shapes'
  <2>1. Others(r) /\ pc'[r] = "done"
    BY <1>0, <1>2 DEF Finish, Others, TypeOK
  <2> QED
    BY <1>1, <2>1 DEF InTransaction
<1>3. ASSUME NEW r \in Requests, NEW key \in Keys, NEW data \in Data, SelectKey(r, key, data) PROVE Shapes'
  <2>1. Others(r) /\ arg'[r] \in CreateArg /\ pc'[r] \in {"insert", "done"}
    BY <1>0, <1>3 DEF SelectKey, Finish, Others, TypeOK, CreateArg
  <2>2. pc'[r] # "done" => reply'[r] = NoReply
    BY <1>0, <1>3 DEF SelectKey, Finish, TypeOK, Shapes
  <2> QED
    BY <1>1, <2>1, <2>2 DEF InTransaction
<1>4. ASSUME NEW r \in Requests, NEW id \in OrderIds, NEW w \in Wanted, BeginUpdate(r, id, w[1], w[2])
      PROVE  Shapes'
  <2>1. [op |-> "update", id |-> id, expected_version |-> w[1], status |-> w[2]] \in UpdateArg
    BY DEF UpdateArg
  <2>2. Others(r) /\ arg'[r] \in UpdateArg /\ pc'[r] = "lock" /\ reply'[r] = NoReply
    BY <1>0, <1>4, <2>1 DEF BeginUpdate, Others, TypeOK, Shapes
  <2> QED
    BY <1>1, <2>2 DEF InTransaction
<1>5. ASSUME NEW r \in Requests, InsertOrder(r) \/ (LockRow(r) /\ pc'[r] = "enqueue") PROVE Shapes'
  <2>1. Enters(r)
    BY <1>5, EnteringSteps
  <2>2. pc[r] # "done" /\ reply'[r] = NoReply /\ arg'[r] = arg[r] /\ arg[r] \in CreateArg \cup UpdateArg
    BY <1>0, <1>5, <2>1 DEF Enters, InsertOrder, LockRow, Shapes
  <2>3. draft'[r] \in Draft
    <3>1. draft'[r] # NoDraft
      <4>1. "id" \in DOMAIN draft'[r]
        BY <1>0, <1>5 DEF InsertOrder, LockRow, Finish, TypeOK
      <4> QED
        BY <4>1 DEF NoDraft
    <3> QED
      BY <1>0, <3>1 DEF TypeOK
  <2> QED
    BY <1>1, <2>1, <2>2, <2>3 DEF Enters, InTransaction
<1>6. ASSUME NEW r \in Requests, InsertDuplicate(r) PROVE Shapes'
  <2>1. Others(r) /\ arg'[r] = arg[r] /\ arg[r] \in CreateArg /\ pc'[r] = "select_again" /\ reply'[r] = NoReply
    BY <1>0, <1>6 DEF InsertDuplicate, Others, TypeOK, Shapes
  <2> QED
    BY <1>1, <2>1 DEF InTransaction
<1>7. ASSUME NEW r \in Requests, Enqueue(r) PROVE Shapes'
  <2>1. draft[r] \in Draft /\ arg[r] \in CreateArg \cup UpdateArg /\ reply[r] = NoReply
    BY <1>0, <1>7 DEF Enqueue, Shapes, InTransaction
  <2>2. [draft[r] EXCEPT !.seq = nextSeq] \in Draft
    BY <1>7, <2>1 DEF Enqueue, Draft, Seqs
  <2>3. Others(r) /\ arg'[r] = arg[r] /\ reply'[r] = NoReply /\ draft'[r] \in Draft /\ pc'[r] = "commit"
    BY <1>0, <1>7, <2>1, <2>2 DEF Enqueue, Others, TypeOK
  <2> QED
    BY <1>1, <2>1, <2>3 DEF InTransaction
<1>8. ASSUME NEW r \in Requests,
             SelectAgain(r) \/ Commit(r) \/ CommitUnknown(r) \/ Abort(r) \/ (LockRow(r) /\ pc'[r] # "enqueue")
      PROVE  Shapes'
  <2>1. PICK answer : Finish(r, answer) /\ UNCHANGED arg
    BY <1>0, <1>8 DEF SelectAgain, Commit, CommitUnknown, Abort, LockRow, TypeOK
  <2> QED
    BY <1>2, <2>1
<1>9. CASE Served \/ UNCHANGED vars
  BY <1>0, <1>9 DEF Served, vars, txvars, Shapes, InTransaction, CreateArg, UpdateArg, Draft
<1> QED
  BY <1>3, <1>4, <1>5, <1>6, <1>7, <1>8, <1>9 DEF Next, Step

-----------------------------------------------------------------------------
LEMMA StoreInitial == Init => StoreInv
<1> SUFFICES ASSUME Init PROVE StoreInv
  OBVIOUS
<1>1. LedgerTypeOK /\ OutboxIsHistory
  BY LedgerInitial DEF Init
<1>2. DOMAIN orders = {} /\ DOMAIN outbox = {}
  BY DEF Init, LedgerInit
<1>3. \A r \in Requests : pc[r] = "idle" /\ reply[r] = NoReply /\ ~ InTransaction(r)
  BY DEF Init, InTransaction
<1>4. TypeOK
  BY <1>1, MaxSeqAssumption DEF Init, TypeOK
<1>5. Shapes /\ Drafts /\ Locks /\ Numbers /\ KeysUnique
  BY <1>2, <1>3 DEF Shapes, Drafts, Locks, Numbers, KeysUnique
<1>6. Replies /\ CreatedOnce /\ NoLostUpdate
  BY <1>3 DEF Replies, CreatedOnce, NoLostUpdate, NoReply, Good
<1> QED
  BY <1>1, <1>4, <1>5, <1>6 DEF StoreInv

LEMMA StoreInductive == StoreInv /\ [Next]_vars => StoreInv'
<1> SUFFICES ASSUME StoreInv, [Next]_vars PROVE StoreInv'
  OBVIOUS
<1>1. TypeOK' /\ Shapes'
  BY StoreTypesKept, ShapesKept
<1>2. OutboxIsHistory'
  BY StepsAreLedgerSteps, LedgerHistoryKept DEF StoreInv, TypeOK
<1> DEFINE Rest == Drafts /\ Locks /\ Numbers /\ KeysUnique /\ Replies /\ CreatedOnce /\ NoLostUpdate
<1>3. ASSUME NEW r \in Requests,
             \/ \E key \in Keys, data \in Data : SelectKey(r, key, data)
             \/ \E id \in OrderIds, w \in Wanted : BeginUpdate(r, id, w[1], w[2])
             \/ InsertDuplicate(r) \/ SelectAgain(r) \/ Abort(r)
             \/ LockRow(r) /\ pc'[r] # "enqueue"
      PROVE  Rest'
  <2>1. Quiet(r) /\ Harmless(r)
    BY <1>3, QuietSteps
  <2> QED
    BY <2>1, QuietKeepsRows, QuietKeepsReplies
<1>4. ASSUME NEW r \in Requests, InsertOrder(r) \/ (LockRow(r) /\ pc'[r] = "enqueue")
      PROVE  Rest'
  <2>1. Enters(r)
    BY <1>4, EnteringSteps
  <2>2. UNCHANGED <<orders, outbox, arg, reply>>
    BY <2>1 DEF Enters
  <2> QED
    BY <2>1, <2>2, EntersKeepsLocks, TablesAloneKeepReplies
<1>5. ASSUME NEW r \in Requests, Enqueue(r) PROVE Rest'
  <2>1. UNCHANGED <<orders, outbox, arg, reply>>
    BY <1>5 DEF Enqueue, ledger
  <2> QED
    BY <1>5, <2>1, EnqueueKeepsNumbers, TablesAloneKeepReplies
<1>6. ASSUME NEW r \in Requests, Commit(r) \/ CommitUnknown(r) PROVE Rest'
  <2>1. pc[r] = "commit" /\ Durable(r) /\ Others(r) /\ pc'[r] = "done" /\ nextSeq' = nextSeq
    BY <1>6, CommitAnswer
  <2> QED
    BY <1>6, <2>1, CommitKeepsDrafts, CommitKeepsReplies
<1>7. ASSUME Served \/ UNCHANGED vars PROVE Rest'
  <2>1. UNCHANGED <<orders, outbox, nextSeq, pc, arg, draft, reply>>
    BY <1>7 DEF Served, vars, txvars, ledger
  <2>2. Drafts' /\ Locks' /\ Numbers'
    BY <2>1 DEF StoreInv, Drafts, CreateDraft, UpdateDraft, Locks, Numbers, InTransaction
  <2> QED
    BY <2>1, <2>2, TablesAloneKeepReplies
<1>8. Rest'
  BY <1>3, <1>4, <1>5, <1>6, <1>7 DEF Next, Step
<1> QED
  BY <1>1, <1>2, <1>8 DEF StoreInv

(* Orders of one key are one row, so the answers that name one agree. *)
LEMMA InvariantGivesAnswers == StoreInv => AnswersAreTrue
<1> SUFFICES ASSUME StoreInv PROVE AnswersAreTrue
  OBVIOUS
<1>1. IdempotentReplies
  <2> SUFFICES ASSUME NEW q \in Requests, NEW r \in Requests,
                      arg[q].op = "create", arg[r].op = "create", arg[q].key = arg[r].key,
                      reply[q].kind \in Good, reply[r].kind \in Good
               PROVE  /\ reply[q].id = reply[r].id
                      /\ arg[q].data = arg[r].data
                      /\ reply[q].kind = "created" /\ reply[r].kind = "created" => q = r
    BY DEF IdempotentReplies
  <2>1. \A x \in {q, r} : /\ reply[x].id \in DOMAIN orders
                          /\ orders[reply[x].id].key = arg[x].key
                          /\ orders[reply[x].id].data = arg[x].data
    BY DEF StoreInv, Replies, Good, UpdateArg
  <2>2. reply[q].id = reply[r].id
    BY <2>1 DEF StoreInv, KeysUnique
  <2> QED
    BY <2>1, <2>2 DEF StoreInv, CreatedOnce
<1>2. NoLostUpdate
  BY DEF StoreInv
<1>3. AnswersAreDurable
  BY DEF StoreInv, Replies, AnswersAreDurable
<1> QED
  BY <1>1, <1>2, <1>3 DEF AnswersAreTrue

(***************************************************************************)
(* The inductive invariant of SQL.create and SQL.update, whatever the      *)
(* number of requests, keys and orders and however they interleave, time   *)
(* out, are rolled back or lose their connection at the commit.            *)
(***************************************************************************)
THEOREM StoreInvariant == Spec => []StoreInv
<1> QED
  BY StoreInitial, StoreInductive, PTL DEF Spec

(***************************************************************************)
(* What clients were told is true: one order per idempotency key, with the *)
(* payload that was sent and one creator; no two updates on one version;   *)
(* every version that was reported is in the outbox.                       *)
(***************************************************************************)
THEOREM StoreAnswersAreTrue == Spec => []AnswersAreTrue
<1> QED
  BY StoreInvariant, InvariantGivesAnswers, PTL

(* Every variable keeps its type, and the outbox is the history of every order. *)
THEOREM StoreHistory == Spec => [](TypeOK /\ OutboxIsHistory)
<1>1. StoreInv => TypeOK /\ OutboxIsHistory
  BY DEF StoreInv
<1> QED
  BY <1>1, StoreInvariant, PTL

(***************************************************************************)
(* The transactions implement the atomic ledger that the rest of the       *)
(* system relies on: each statement is a stutter of it, each commit a step.*)
(***************************************************************************)
THEOREM StoreImplementsLedger == Spec => ImplementsLedger
<1>1. Init => Ledger!LedgerInit
  BY DEF Init, LedgerInit, Ledger!LedgerInit
<1>2. [LedgerNext]_ledger => [Ledger!LedgerNext]_(Ledger!ledger)
  BY DEF LedgerNext, CommitCreate, CommitUpdate, Save, Seqs, Statuses, STATES, Bind, envelope,
         new_order, transition, ledger,
         Ledger!LedgerNext, Ledger!CommitCreate, Ledger!CommitUpdate, Ledger!Save, Ledger!Seqs,
         Ledger!Statuses, Ledger!STATES, Ledger!Bind, Ledger!envelope, Ledger!new_order,
         Ledger!transition, Ledger!ledger
<1>3. StoreInv /\ [Next]_vars => [Ledger!LedgerNext]_(Ledger!ledger)
  BY <1>2, StepsAreLedgerSteps
<1> QED
  BY <1>1, <1>3, StoreInvariant, PTL DEF Spec, ImplementsLedger, Ledger!LedgerSpec
=============================================================================
