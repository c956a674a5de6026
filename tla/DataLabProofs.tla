------------------------- MODULE DataLabProofs -------------------------
(***************************************************************************)
(* Proofs about the laboratories that keep data.                           *)
(* TransactionLab: the books of the checkout balance and its answers are   *)
(* honest, for every number of clients, request keys, orders and           *)
(* quantities.  SearchLab: a drill's journal covers everything the drill   *)
(* has changed, its report and the loader's manifest are honest, for every *)
(* set of nodes, indices and drills and every number of commands and       *)
(* failures.                                                               *)
(***************************************************************************)
EXTENDS TransactionLab, SearchLab, TLAPS, SequenceTheorems, FiniteSetTheorems, WellFoundedInduction

(***************************************************************************)
(* Sums over finite sets.  The fold that computes a total takes the        *)
(* elements in an arbitrary order; these lemmas show that the order does   *)
(* not matter, by induction on subsets (a least counterexample).           *)
(***************************************************************************)
Pick(s) == CHOOSE x \in s : TRUE

IsSum(g, q, S) ==
    g = [s \in SUBSET S |-> IF s = {} THEN 0 ELSE q[Pick(s)] + g[s \ {Pick(s)}]]

(* A set of finite sets that is not empty has a member of which no other is a proper subset. *)
LEMMA LeastSet ==
    ASSUME NEW S, IsFiniteSet(S), NEW Bad \in SUBSET SUBSET S, Bad # {}
    PROVE  \E T \in Bad : \A U \in Bad : ~ (U \subseteq T /\ U # T)
<1>1. Bad \subseteq FiniteSubsetsOf(S)
  BY FS_Subset DEF FiniteSubsetsOf
<1>2. IsWellFoundedOn(StrictSubsetOrdering(S), FiniteSubsetsOf(S))
  BY FS_StrictSubsetOrderingWellFounded
<1>3. PICK T \in Bad : \A U \in Bad : ~ (<<U, T>> \in StrictSubsetOrdering(S))
  BY <1>1, <1>2, WFMin
<1>4. \A U \in Bad : U \subseteq T /\ U # T => <<U, T>> \in StrictSubsetOrdering(S)
  BY <1>3 DEF StrictSubsetOrdering
<1>5. \A U \in Bad : ~ (U \subseteq T /\ U # T)
  BY <1>3, <1>4, Zenon
<1> QED
  BY <1>5, Zenon

LEMMA PickIn == ASSUME NEW s, s # {} PROVE Pick(s) \in s
BY DEF Pick

LEMMA SumAt ==
    ASSUME NEW g, NEW q, NEW S, IsSum(g, q, S), NEW s \in SUBSET S
    PROVE  g[s] = IF s = {} THEN 0 ELSE q[Pick(s)] + g[s \ {Pick(s)}]
BY DEF IsSum

(* g adds up the numbers q on the subsets of S. *)
SumsOn(g, q, S) ==
    \A s \in SUBSET S : g[s] = IF s = {} THEN 0 ELSE q[Pick(s)] + g[s \ {Pick(s)}]

LEMMA SumIsSumOnSubsets ==
    ASSUME NEW g, NEW q, NEW R, IsSum(g, q, R), NEW S \in SUBSET R
    PROVE  SumsOn(g, q, S)
<1>1. \A s \in SUBSET S : s \in SUBSET R
  OBVIOUS
<1> QED
  BY <1>1, SumAt DEF SumsOn

(* Sums of the same numbers over the same set are equal. *)
LEMMA SumsAgree ==
    ASSUME NEW S, IsFiniteSet(S), NEW g, NEW h, NEW p, NEW q,
           SumsOn(g, p, S), SumsOn(h, q, S), \A x \in S : p[x] = q[x]
    PROVE  \A s \in SUBSET S : g[s] = h[s]
<1> DEFINE Bad == {s \in SUBSET S : g[s] # h[s]}
<1> SUFFICES ASSUME Bad # {} PROVE FALSE
  OBVIOUS
<1>0. Bad \in SUBSET SUBSET S
  OBVIOUS
<1>1. PICK T \in Bad : \A U \in Bad : ~ (U \subseteq T /\ U # T)
  <2> HIDE DEF Bad
  <2> QED
    BY <1>0, LeastSet
<1>2. T \in SUBSET S /\ g[T] # h[T]
  OBVIOUS
<1>3. /\ g[T] = IF T = {} THEN 0 ELSE p[Pick(T)] + g[T \ {Pick(T)}]
      /\ h[T] = IF T = {} THEN 0 ELSE q[Pick(T)] + h[T \ {Pick(T)}]
  BY <1>2 DEF SumsOn
<1>4. T # {} => Pick(T) \in T
  BY PickIn
<1>5. T # {} => T \ {Pick(T)} \notin Bad
  BY <1>1, <1>4
<1>6. T # {} => g[T \ {Pick(T)}] = h[T \ {Pick(T)}] /\ p[Pick(T)] = q[Pick(T)]
  BY <1>2, <1>4, <1>5
<1> QED
  BY <1>2, <1>3, <1>6

LEMMA SumExists ==
    ASSUME NEW S, IsFiniteSet(S), NEW q
    PROVE  \E g : IsSum(g, q, S)
<1> DEFINE Bad == {s \in SUBSET S : ~ \E g : IsSum(g, q, s)}
<1> SUFFICES ASSUME Bad # {} PROVE FALSE
  OBVIOUS
<1>0. Bad \in SUBSET SUBSET S
  OBVIOUS
<1>1. PICK T \in Bad : \A U \in Bad : ~ (U \subseteq T /\ U # T)
  <2> HIDE DEF Bad
  <2> QED
    BY <1>0, LeastSet
<1> DEFINE G(s) == (CHOOSE g : IsSum(g, q, s))[s]
<1>2. \A s \in SUBSET T : s # T => IsSum(CHOOSE g : IsSum(g, q, s), q, s)
  BY <1>1
<1>3. ASSUME NEW s \in SUBSET T, s # T, s # {} PROVE G(s) = q[Pick(s)] + G(s \ {Pick(s)})
  <2> DEFINE g == CHOOSE g : IsSum(g, q, s)
             r == s \ {Pick(s)}
             h == CHOOSE h : IsSum(h, q, r)
  <2>1. Pick(s) \in s
    BY <1>3, PickIn
  <2>2. r \in SUBSET s /\ r \in SUBSET T /\ r # T
    BY <1>3, <2>1
  <2>3. IsSum(g, q, s) /\ IsSum(h, q, r)
    BY <1>2, <1>3, <2>2
  <2>4. IsFiniteSet(r)
    BY <2>2, FS_Subset
  <2>5. \A u \in SUBSET r : h[u] = g[u]
    <3> HIDE DEF g, h, r
    <3>1. r \in SUBSET r
      OBVIOUS
    <3>2. SumsOn(h, q, r) /\ SumsOn(g, q, r)
      BY <2>2, <2>3, <3>1, SumIsSumOnSubsets
    <3> QED
      BY <2>4, <3>2, SumsAgree
  <2>6. g[s] = q[Pick(s)] + g[r]
    BY <1>3, <2>3, SumAt
  <2> QED
    BY <2>5, <2>6
<1> DEFINE new == [s \in SUBSET T |-> IF s = {} THEN 0 ELSE q[Pick(s)] + G(s \ {Pick(s)})]
<1>4. ASSUME NEW s \in SUBSET T, s # {} PROVE new[s \ {Pick(s)}] = G(s \ {Pick(s)})
  <2> DEFINE r == s \ {Pick(s)}
  <2>1. Pick(s) \in s
    BY <1>4, PickIn
  <2>2. r \in SUBSET T /\ r # T
    BY <2>1
  <2>3. CASE r = {}
    <3>1. IsSum(CHOOSE g : IsSum(g, q, r), q, r)
      BY <1>2, <2>2
    <3>2. G(r) = 0
      BY <2>3, <3>1, SumAt
    <3> QED
      BY <2>2, <2>3, <3>2
  <2>4. CASE r # {}
    BY <1>3, <2>2, <2>4
  <2> QED
    BY <2>3, <2>4
<1>5. IsSum(new, q, T)
  <2>1. \A s \in SUBSET T : (IF s = {} THEN 0 ELSE q[Pick(s)] + G(s \ {Pick(s)}))
                            = (IF s = {} THEN 0 ELSE q[Pick(s)] + new[s \ {Pick(s)}])
    <3> HIDE DEF G, new
    <3> QED
      BY <1>4
  <2>2. new = [s \in SUBSET T |-> IF s = {} THEN 0 ELSE q[Pick(s)] + G(s \ {Pick(s)})]
    OBVIOUS
  <2> HIDE DEF G, new
  <2> QED
    BY <2>1, <2>2 DEF IsSum
<1> QED
  BY <1>1, <1>5

(* Whatever element is taken first, the sum is the same. *)
LEMMA SumTakesAny ==
    ASSUME NEW S, IsFiniteSet(S), NEW q \in [S -> Int], NEW g, IsSum(g, q, S)
    PROVE  \A s \in SUBSET S : g[s] \in Int /\ \A x \in s : g[s] = q[x] + g[s \ {x}]
<1> DEFINE Good(s) == g[s] \in Int /\ \A x \in s : g[s] = q[x] + g[s \ {x}]
           Bad == {s \in SUBSET S : ~ Good(s)}
<1> SUFFICES ASSUME Bad # {} PROVE FALSE
  OBVIOUS
<1>0. Bad \in SUBSET SUBSET S
  OBVIOUS
<1>1. PICK T \in Bad : \A U \in Bad : ~ (U \subseteq T /\ U # T)
  <2> HIDE DEF Bad
  <2> QED
    BY <1>0, LeastSet
<1>2. \A U \in SUBSET T : U # T => Good(U)
  BY <1>1
<1>3. g[T] = IF T = {} THEN 0 ELSE q[Pick(T)] + g[T \ {Pick(T)}]
  BY SumAt
<1>4. T # {}
  BY <1>1, <1>3
<1>5. Pick(T) \in T /\ q[Pick(T)] \in Int
  BY <1>4, PickIn
<1>6. g[T \ {Pick(T)}] \in Int
  BY <1>2, <1>5
<1>7. g[T] \in Int
  BY <1>3, <1>4, <1>5, <1>6
<1>8. ASSUME NEW x \in T PROVE g[T] = q[x] + g[T \ {x}]
  <2> DEFINE c == Pick(T)
  <2>1. CASE x = c
    BY <1>3, <1>4, <2>1
  <2>2. CASE x # c
    <3>1. x \in T \ {c} /\ c \in T \ {x} /\ (T \ {c}) \ {x} = (T \ {x}) \ {c}
      BY <1>5, <2>2
    <3>2. g[T \ {c}] = q[x] + g[(T \ {c}) \ {x}]
      BY <1>2, <1>5, <3>1
    <3>3. g[T \ {x}] = q[c] + g[(T \ {x}) \ {c}]
      BY <1>2, <3>1
    <3>4. g[(T \ {c}) \ {x}] \in Int /\ q[x] \in Int /\ q[c] \in Int
      BY <1>2, <1>5
    <3>5. g[T] = q[c] + g[T \ {c}]
      BY <1>3, <1>4
    <3>6. g[(T \ {x}) \ {c}] = g[(T \ {c}) \ {x}]
      BY <3>1
    <3> HIDE DEF c
    <3> QED
      BY <3>2, <3>3, <3>4, <3>5, <3>6
  <2> QED
    BY <2>1, <2>2
<1> QED
  BY <1>1, <1>7, <1>8

Amounts(book, ids) == [id \in ids |-> book[id].quantity]

LEMMA TotalIsSum ==
    ASSUME NEW book, NEW ids, IsFiniteSet(ids)
    PROVE  \E g : IsSum(g, Amounts(book, ids), ids) /\ TotalQuantity(book, ids) = g[ids]
<1> DEFINE Unfolds(g) == g = [s \in SUBSET ids |-> IF s = {} THEN 0
                ELSE book[CHOOSE x \in s : TRUE].quantity + g[s \ {CHOOSE x \in s : TRUE}]]
           iter == CHOOSE g : Unfolds(g)
<1>1. TotalQuantity(book, ids) = iter[ids]
  BY Zenon DEF TotalQuantity, MapThenSumSet, MapThenFoldSet
<1>2. \A s \in SUBSET ids : s # {} =>
         Amounts(book, ids)[CHOOSE x \in s : TRUE] = book[CHOOSE x \in s : TRUE].quantity
  BY DEF Amounts
<1>3. \A g : IsSum(g, Amounts(book, ids), ids) <=> Unfolds(g)
  BY <1>2 DEF IsSum, Pick
<1>4. \E g : Unfolds(g)
  <2>1. PICK g : IsSum(g, Amounts(book, ids), ids)
    BY SumExists
  <2> HIDE DEF Unfolds
  <2> QED
    BY <1>3, <2>1
<1>5. Unfolds(iter)
  <2> HIDE DEF Unfolds
  <2> QED
    BY <1>4, Zenon
<1> HIDE DEF iter
<1> QED
  BY <1>1, <1>3, <1>5

(* Nothing sold is zero. *)
LEMMA TotalOfNothing == \A book : TotalQuantity(book, {}) = 0
<1> TAKE book
<1>1. IsFiniteSet({})
  BY FS_EmptySet
<1>2. PICK g : IsSum(g, Amounts(book, {}), {}) /\ TotalQuantity(book, {}) = g[{}]
  BY <1>1, TotalIsSum
<1> QED
  BY <1>2, SumAt

(* Equal quantities give equal totals. *)
LEMMA TotalDependsOnQuantities ==
    ASSUME NEW b, NEW c, NEW ids, IsFiniteSet(ids), \A id \in ids : b[id].quantity = c[id].quantity
    PROVE  TotalQuantity(b, ids) = TotalQuantity(c, ids)
<1>1. PICK g : IsSum(g, Amounts(b, ids), ids) /\ TotalQuantity(b, ids) = g[ids]
  BY TotalIsSum
<1>2. PICK h : IsSum(h, Amounts(c, ids), ids) /\ TotalQuantity(c, ids) = h[ids]
  BY TotalIsSum
<1>3. \A id \in ids : Amounts(b, ids)[id] = Amounts(c, ids)[id]
  BY DEF Amounts
<1>4. SumsOn(g, Amounts(b, ids), ids) /\ SumsOn(h, Amounts(c, ids), ids)
  BY <1>1, <1>2, SumIsSumOnSubsets
<1>5. \A s \in SUBSET ids : g[s] = h[s]
  BY <1>3, <1>4, SumsAgree
<1> QED
  BY <1>1, <1>2, <1>5

(* One more order adds its quantity, and the total is an integer. *)
LEMMA TotalAdds ==
    ASSUME NEW book, NEW ids, IsFiniteSet(ids), NEW x, x \notin ids,
           \A id \in ids \cup {x} : book[id].quantity \in Int
    PROVE  /\ TotalQuantity(book, ids) \in Int
           /\ TotalQuantity(book, ids \cup {x}) = book[x].quantity + TotalQuantity(book, ids)
<1> DEFINE more == ids \cup {x}
<1>1. IsFiniteSet(more) /\ x \in more /\ more \ {x} = ids /\ ids \subseteq more
  BY FS_AddElement
<1>2. \A id \in more : book[id].quantity \in Int
  OBVIOUS
<1> HIDE DEF more
<1>3. PICK g : IsSum(g, Amounts(book, more), more) /\ TotalQuantity(book, more) = g[more]
  BY <1>1, TotalIsSum
<1>4. PICK h : IsSum(h, Amounts(book, ids), ids) /\ TotalQuantity(book, ids) = h[ids]
  BY TotalIsSum
<1>5. /\ Amounts(book, more) \in [more -> Int] /\ Amounts(book, more)[x] = book[x].quantity
      /\ \A id \in ids : Amounts(book, ids)[id] = Amounts(book, more)[id]
  BY <1>1, <1>2 DEF Amounts
<1>6. \A s \in SUBSET more :
         g[s] \in Int /\ \A y \in s : g[s] = Amounts(book, more)[y] + g[s \ {y}]
  BY <1>1, <1>3, <1>5, SumTakesAny
<1>7. \A s \in SUBSET ids : h[s] = g[s]
  <2>1. SumsOn(h, Amounts(book, ids), ids) /\ SumsOn(g, Amounts(book, more), ids)
    BY <1>1, <1>3, <1>4, SumIsSumOnSubsets
  <2> QED
    BY <1>5, <2>1, SumsAgree
<1>8. h[ids] = g[ids] /\ g[ids] \in Int
  BY <1>1, <1>6, <1>7
<1>9. g[more] = Amounts(book, more)[x] + g[more \ {x}]
  BY <1>1, <1>6
<1> QED
  BY <1>1, <1>3, <1>4, <1>5, <1>8, <1>9 DEF more

-----------------------------------------------------------------------------
PurchaseJob == [kind : {"purchase"}, key : RequestKeys, quantity : Quantities]
RefundJob   == [kind : {"refund"}, id : OrderIds]

(* The committed rows have their types. *)
TableTypes ==
    /\ stock \in Int /\ buyer \in Int /\ merchant \in Int
    /\ DOMAIN claims \subseteq RequestKeys
    /\ \A k \in DOMAIN claims : claims[k] \in [quantity : Quantities, oid : OrderIds]
    /\ DOMAIN orders \subseteq OrderIds
    /\ \A id \in DOMAIN orders :
          orders[id] \in [key : RequestKeys, quantity : Quantities, state : Phases]
    /\ DOMAIN postings \subseteq OrderIds
    /\ \A id \in DOMAIN postings : postings[id] \in [Phases -> Nat]

(* What the tables look like between any two commits. *)
TablesInv == TableTypes /\ BooksBalance /\ IsFiniteSet(DOMAIN orders)

(***************************************************************************)
(* What a transaction read is still so when it commits: a purchase found   *)
(* its key unclaimed and took a fresh order id, a refund found its order   *)
(* paid.  Its locks keep the rows that way.                                *)
(***************************************************************************)
Ready(j, id) ==
    \/ j \in PurchaseJob /\ j.key \notin DOMAIN claims /\ id \in OrderIds \ DOMAIN orders
    \/ j \in RefundJob /\ id = j.id /\ id \in DOMAIN orders /\ orders[id].state = "paid"

(* The inventory and wallet rows still match the WHERE conditions. *)
Covered(j) == EnoughStock(j) /\ EnoughMoney(j)

LEMMA QuantityTypes == Quantities \subseteq Nat /\ (\A q \in Quantities : q * Price \in Nat) /\ Price \in Nat
<1>1. Quantities \subseteq Nat /\ Price \in Nat
  BY TransactionAssumption
<1>2. \A q \in Nat, p \in Nat : q * p \in Nat
  OBVIOUS
<1> QED
  BY <1>1, <1>2

LEMMA OrderQuantities ==
    ASSUME TablesInv, NEW id \in DOMAIN orders
    PROVE  orders[id].quantity \in Int
<1>1. orders[id] \in [key : RequestKeys, quantity : Quantities, state : Phases]
  BY DEF TablesInv, TableTypes
<1>2. orders[id].quantity \in Quantities
  BY <1>1
<1>3. \A q \in Quantities : q \in Int
  BY TransactionAssumption
<1> QED
  BY <1>2, <1>3

LEMMA PurchaseKeepsBooks ==
    ASSUME TablesInv, NEW j \in PurchaseJob, NEW id, Ready(j, id), Covered(j), ApplyPurchase(j.key, j.quantity, id)
    PROVE  TablesInv'
<1>0. /\ j.kind = "purchase" /\ j.key \in RequestKeys /\ j.key \notin DOMAIN claims
      /\ id \in OrderIds /\ id \notin DOMAIN orders /\ j.quantity \in Quantities
      /\ stock >= j.quantity /\ buyer >= j.quantity * Price
  BY DEF Ready, PurchaseJob, RefundJob, Covered, EnoughStock, EnoughMoney
<1>1. j.quantity \in Nat /\ j.quantity * Price \in Nat /\ Price \in Nat
  BY <1>0, QuantityTypes
<1>2. /\ DOMAIN orders' = DOMAIN orders \cup {id}
      /\ orders'[id] = [key |-> j.key, quantity |-> j.quantity, state |-> "paid"]
      /\ \A i \in DOMAIN orders : orders'[i] = orders[i]
  BY <1>0 DEF ApplyPurchase, Bind
<1>3. /\ DOMAIN claims' = DOMAIN claims \cup {j.key}
      /\ claims'[j.key] = [quantity |-> j.quantity, oid |-> id]
      /\ \A k \in DOMAIN claims : claims'[k] = claims[k]
  BY <1>0 DEF ApplyPurchase, Bind
<1>4. DOMAIN postings = DOMAIN orders
  BY DEF TablesInv, BooksBalance, EveryOrderExactlyPosted
<1>5. /\ DOMAIN postings' = DOMAIN postings \cup {id}
      /\ postings'[id] = [p \in Phases |-> IF p = "paid" THEN 1 ELSE 0]
      /\ \A i \in DOMAIN postings : postings'[i] = postings[i]
  <2>1. postings' = Bind(postings, id, [p \in Phases |-> 0 + (IF p = "paid" THEN 1 ELSE 0)])
    BY <1>0, <1>4 DEF ApplyPurchase, Post
  <2>2. [p \in Phases |-> 0 + (IF p = "paid" THEN 1 ELSE 0)] = [p \in Phases |-> IF p = "paid" THEN 1 ELSE 0]
    OBVIOUS
  <2> QED
    BY <1>0, <1>4, <2>1, <2>2 DEF Bind
<1>6. TableTypes'
  <2>1. stock' \in Int /\ buyer' \in Int /\ merchant' \in Int
    BY <1>1 DEF ApplyPurchase, TablesInv, TableTypes
  <2>2. /\ DOMAIN claims' \subseteq RequestKeys
        /\ \A k \in DOMAIN claims' : claims'[k] \in [quantity : Quantities, oid : OrderIds]
    BY <1>0, <1>3 DEF TablesInv, TableTypes
  <2>3. /\ DOMAIN orders' \subseteq OrderIds
        /\ \A i \in DOMAIN orders' :
              orders'[i] \in [key : RequestKeys, quantity : Quantities, state : Phases]
    BY <1>0, <1>2 DEF TablesInv, TableTypes, Phases
  <2>4. DOMAIN postings' \subseteq OrderIds /\ \A i \in DOMAIN postings' : postings'[i] \in [Phases -> Nat]
    BY <1>0, <1>5 DEF TablesInv, TableTypes
  <2> QED
    BY <2>1, <2>2, <2>3, <2>4 DEF TableTypes
<1>7. IsFiniteSet(DOMAIN orders')
  BY <1>2, FS_AddElement DEF TablesInv
<1>8. Sold("paid")' = Sold("paid") \cup {id} /\ id \notin Sold("paid") /\ IsFiniteSet(Sold("paid"))
  <2>1. Sold("paid")' = Sold("paid") \cup {id}
    BY <1>0, <1>2 DEF Sold
  <2>2. Sold("paid") \subseteq DOMAIN orders
    BY DEF Sold
  <2> QED
    BY <1>0, <2>1, <2>2, FS_Subset DEF TablesInv
<1>9. /\ QuantityOf(Sold("paid")) \in Int
      /\ QuantityOf(Sold("paid"))' = j.quantity + QuantityOf(Sold("paid"))
  <2> DEFINE paid == Sold("paid")
  <2>1. \A i \in paid : i \in DOMAIN orders /\ orders'[i].quantity = orders[i].quantity
                         /\ orders[i].quantity \in Int
    BY <1>2, OrderQuantities DEF Sold
  <2>2. \A i \in paid \cup {id} : orders'[i].quantity \in Int
    BY <1>1, <1>2, <2>1
  <2>3. IsFiniteSet(paid) /\ id \notin paid /\ orders'[id].quantity = j.quantity
    BY <1>2, <1>8
  <2>4. TotalQuantity(orders', paid) = TotalQuantity(orders, paid)
    <3> HIDE DEF paid
    <3> QED
      BY <2>1, <2>3, TotalDependsOnQuantities
  <2>5. /\ TotalQuantity(orders', paid) \in Int
        /\ TotalQuantity(orders', paid \cup {id}) = orders'[id].quantity + TotalQuantity(orders', paid)
    <3> HIDE DEF paid
    <3> QED
      BY <2>2, <2>3, TotalAdds
  <2>6. QuantityOf(Sold("paid"))' = TotalQuantity(orders', paid \cup {id})
    BY <1>8 DEF QuantityOf
  <2> QED
    BY <2>3, <2>4, <2>5, <2>6 DEF QuantityOf
<1>10. StockAndMoneyConserved'
  <2> DEFINE total == QuantityOf(Sold("paid"))
  <2>1. /\ stock + total = InitialStock /\ buyer + merchant = InitialBalance
        /\ merchant = Price * total /\ stock \in Int /\ buyer \in Int /\ merchant \in Int
        /\ InitialStock \in Int /\ InitialBalance \in Int
    BY TransactionAssumption DEF TablesInv, TableTypes, BooksBalance, StockAndMoneyConserved
  <2>2. /\ stock' = stock - j.quantity /\ buyer' = buyer - j.quantity * Price
        /\ merchant' = merchant + j.quantity * Price
    BY DEF ApplyPurchase
  <2>3. total' = j.quantity + total /\ total \in Int
    BY <1>9
  <2>4. Price * (j.quantity + total) = j.quantity * Price + Price * total
    BY <1>1, <2>3
  <2>5. merchant' = Price * total'
    BY <1>1, <2>1, <2>2, <2>3, <2>4
  <2>6. stock' + total' = InitialStock /\ stock' >= 0
    BY <1>0, <1>1, <2>1, <2>2, <2>3
  <2>7. buyer' + merchant' = InitialBalance /\ buyer' >= 0
    BY <1>0, <1>1, <2>1, <2>2
  <2> QED
    BY <2>5, <2>6, <2>7 DEF StockAndMoneyConserved
<1>11. EveryOrderExactlyPosted'
  BY <1>0, <1>2, <1>4, <1>5 DEF TablesInv, BooksBalance, EveryOrderExactlyPosted, Phases
<1>12. ClaimsMatchOrders'
  <2>1. \A i \in DOMAIN orders : orders[i].key # j.key
    BY <1>0 DEF TablesInv, BooksBalance, ClaimsMatchOrders
  <2> QED
    BY <1>0, <1>2, <1>3, <2>1 DEF TablesInv, BooksBalance, ClaimsMatchOrders
<1> QED
  BY <1>6, <1>7, <1>10, <1>11, <1>12 DEF TablesInv, BooksBalance

LEMMA RefundKeepsBooks ==
    ASSUME TablesInv, NEW id \in DOMAIN orders, orders[id].state = "paid", ApplyRefund(id)
    PROVE  TablesInv'
<1>0. /\ orders[id] \in [key : RequestKeys, quantity : Quantities, state : Phases]
      /\ id \in OrderIds /\ claims' = claims
  BY DEF TablesInv, TableTypes, ApplyRefund
<1>1. orders[id].quantity \in Nat /\ orders[id].quantity * Price \in Nat /\ Price \in Nat
  BY <1>0, QuantityTypes
<1>2. /\ DOMAIN orders' = DOMAIN orders
      /\ orders'[id] = [key |-> orders[id].key, quantity |-> orders[id].quantity, state |-> "refunded"]
      /\ \A i \in DOMAIN orders : i # id => orders'[i] = orders[i]
  BY <1>0 DEF ApplyRefund
<1>3. DOMAIN postings = DOMAIN orders /\ postings[id] \in [Phases -> Nat]
      /\ postings[id]["paid"] = 1 /\ postings[id]["refunded"] = 0
  BY DEF TablesInv, TableTypes, BooksBalance, EveryOrderExactlyPosted
<1>4. /\ DOMAIN postings' = DOMAIN postings
      /\ postings'[id] \in [Phases -> Nat]
      /\ postings'[id]["paid"] = 1 /\ postings'[id]["refunded"] = 1
      /\ \A i \in DOMAIN postings : i # id => postings'[i] = postings[i]
  <2>1. postings' = Bind(postings, id, [p \in Phases |-> postings[id][p] + (IF p = "refunded" THEN 1 ELSE 0)])
    BY <1>3 DEF ApplyRefund, Post
  <2>2. postings'[id] = [p \in Phases |-> postings[id][p] + (IF p = "refunded" THEN 1 ELSE 0)]
    BY <2>1 DEF Bind
  <2>3. /\ DOMAIN postings' = DOMAIN postings
        /\ \A i \in DOMAIN postings : i # id => postings'[i] = postings[i]
    BY <1>3, <2>1 DEF Bind
  <2> QED
    BY <1>3, <2>2, <2>3 DEF Phases
<1>5. TableTypes'
  <2>1. stock' \in Int /\ buyer' \in Int /\ merchant' \in Int
    BY <1>1 DEF ApplyRefund, TablesInv, TableTypes
  <2>2. /\ DOMAIN orders' \subseteq OrderIds
        /\ \A i \in DOMAIN orders' :
              orders'[i] \in [key : RequestKeys, quantity : Quantities, state : Phases]
    BY <1>0, <1>2 DEF TablesInv, TableTypes, Phases
  <2>3. DOMAIN postings' \subseteq OrderIds /\ \A i \in DOMAIN postings' : postings'[i] \in [Phases -> Nat]
    BY <1>4 DEF TablesInv, TableTypes
  <2> QED
    BY <1>0, <2>1, <2>2, <2>3 DEF TablesInv, TableTypes
<1>6. IsFiniteSet(DOMAIN orders')
  BY <1>2 DEF TablesInv
<1>7. /\ Sold("paid") = Sold("paid")' \cup {id} /\ id \notin Sold("paid")'
      /\ Sold("paid")' \subseteq DOMAIN orders /\ IsFiniteSet(Sold("paid")')
  <2>1. /\ Sold("paid") = Sold("paid")' \cup {id} /\ id \notin Sold("paid")'
        /\ Sold("paid")' \subseteq DOMAIN orders
    BY <1>2 DEF Sold
  <2> QED
    BY <2>1, FS_Subset DEF TablesInv
<1>8. /\ QuantityOf(Sold("paid"))' \in Int
      /\ QuantityOf(Sold("paid")) = orders[id].quantity + QuantityOf(Sold("paid"))'
  <2> DEFINE left == Sold("paid")'
  <2>1. \A i \in left : i \in DOMAIN orders /\ orders'[i].quantity = orders[i].quantity
                         /\ orders[i].quantity \in Int
    BY <1>2, <1>7, OrderQuantities
  <2>2. \A i \in left \cup {id} : orders[i].quantity \in Int
    BY <1>1, <2>1
  <2>3. IsFiniteSet(left) /\ id \notin left
    BY <1>7
  <2>4. TotalQuantity(orders', left) = TotalQuantity(orders, left)
    <3> HIDE DEF left
    <3> QED
      BY <2>1, <2>3, TotalDependsOnQuantities
  <2>5. /\ TotalQuantity(orders, left) \in Int
        /\ TotalQuantity(orders, left \cup {id}) = orders[id].quantity + TotalQuantity(orders, left)
    <3> HIDE DEF left
    <3> QED
      BY <2>2, <2>3, TotalAdds
  <2>6. QuantityOf(Sold("paid")) = TotalQuantity(orders, left \cup {id})
    BY <1>7 DEF QuantityOf
  <2> QED
    BY <2>4, <2>5, <2>6 DEF QuantityOf
<1>9. StockAndMoneyConserved'
  <2> DEFINE total == QuantityOf(Sold("paid"))
             q == orders[id].quantity
  <2>1. /\ stock + total = InitialStock /\ buyer + merchant = InitialBalance
        /\ stock >= 0 /\ buyer >= 0
        /\ merchant = Price * total /\ stock \in Int /\ buyer \in Int /\ merchant \in Int
        /\ InitialStock \in Int /\ InitialBalance \in Int
    BY TransactionAssumption DEF TablesInv, TableTypes, BooksBalance, StockAndMoneyConserved
  <2>2. stock' = stock + q /\ buyer' = buyer + q * Price /\ merchant' = merchant - q * Price
    BY DEF ApplyRefund
  <2>3. total = q + total' /\ total' \in Int /\ q \in Int
    BY <1>1, <1>8
  <2> HIDE DEF total, q
  <2>4. Price * (q + total') = q * Price + Price * total'
    BY <1>1, <2>3
  <2>5. merchant' = Price * total'
    BY <1>1, <2>1, <2>2, <2>3, <2>4
  <2>6. stock' + total' = InitialStock /\ stock' >= 0
    BY <1>1, <2>1, <2>2, <2>3 DEF q
  <2>7. buyer' + merchant' = InitialBalance /\ buyer' >= 0
    BY <1>1, <2>1, <2>2 DEF q
  <2> QED
    BY <2>5, <2>6, <2>7 DEF StockAndMoneyConserved, total
<1>10. EveryOrderExactlyPosted'
  BY <1>2, <1>3, <1>4 DEF TablesInv, BooksBalance, EveryOrderExactlyPosted
<1>11. ClaimsMatchOrders'
  BY <1>0, <1>2 DEF TablesInv, BooksBalance, ClaimsMatchOrders
<1> QED
  BY <1>5, <1>6, <1>9, <1>10, <1>11 DEF TablesInv, BooksBalance

(* A commit writes balanced books, and claims are never taken back. *)
LEMMA ApplyKeepsBooks ==
    ASSUME TablesInv, NEW j, NEW id, Ready(j, id), Covered(j), Apply(j, id)
    PROVE  /\ TablesInv'
           /\ \A k \in DOMAIN claims : k \in DOMAIN claims' /\ claims'[k] = claims[k]
           /\ j \in PurchaseJob => /\ j.key \in DOMAIN claims' /\ claims'[j.key].quantity = j.quantity
                                   /\ j.key \notin DOMAIN claims
<1>1. CASE j \in PurchaseJob
  <2>1. ApplyPurchase(j.key, j.quantity, id) /\ j.key \notin DOMAIN claims
    BY <1>1 DEF Apply, Ready, PurchaseJob, RefundJob
  <2>2. TablesInv'
    BY <1>1, <2>1, PurchaseKeepsBooks
  <2> QED
    BY <2>1, <2>2 DEF ApplyPurchase, Bind
<1>2. CASE j \notin PurchaseJob
  <2>1. ApplyRefund(id) /\ id \in DOMAIN orders /\ orders[id].state = "paid"
    BY <1>2 DEF Apply, Ready, PurchaseJob, RefundJob
  <2>2. TablesInv'
    BY <2>1, RefundKeepsBooks
  <2> QED
    BY <1>2, <2>1, <2>2 DEF ApplyRefund
<1> QED
  BY <1>1, <1>2

(* Two transactions work on different orders and, when both purchase, under different keys. *)
Apart(j, id, k, other) ==
    id # other /\ (j.kind = "purchase" /\ k.kind = "purchase" => j.key # k.key)

(* The commit of one transaction leaves what another one read alone. *)
LEMMA ApplyKeepsReady ==
    ASSUME TablesInv, NEW j, NEW id, Ready(j, id), Apply(j, id),
           NEW k, NEW other, Ready(k, other), Apart(j, id, k, other)
    PROVE  Ready(k, other)'
<1>1. CASE j \in PurchaseJob
  <2>1. ApplyPurchase(j.key, j.quantity, id) /\ j.kind = "purchase" /\ id \notin DOMAIN orders
    BY <1>1 DEF Apply, Ready, PurchaseJob, RefundJob
  <2>2. /\ DOMAIN orders' = DOMAIN orders \cup {id} /\ DOMAIN claims' = DOMAIN claims \cup {j.key}
        /\ \A i \in DOMAIN orders : orders'[i] = orders[i]
    BY <2>1 DEF ApplyPurchase, Bind
  <2>3. k \in PurchaseJob => k.kind = "purchase"
    BY DEF PurchaseJob
  <2> QED
    BY <2>1, <2>2, <2>3 DEF Ready, Apart, PurchaseJob, RefundJob
<1>2. CASE j \notin PurchaseJob
  <2>1. ApplyRefund(id)
    BY <1>2 DEF Apply, Ready, PurchaseJob, RefundJob
  <2>2. /\ DOMAIN orders' = DOMAIN orders /\ claims' = claims
        /\ \A i \in DOMAIN orders : i # id => orders'[i] = orders[i]
    BY <2>1 DEF ApplyRefund
  <2> QED
    BY <2>2 DEF Ready, Apart, PurchaseJob, RefundJob
<1> QED
  BY <1>1, <1>2

-----------------------------------------------------------------------------
HoldsInventory(c) == pc[c] \in {"debit", "write", "commit"}

(* Where a client is says what it was asked to do. *)
JobsFit ==
    \A c \in Clients :
        /\ pc[c] = "idle" => outcome[c] = "none"
        /\ pc[c] \in {"claim", "lookup"} => job[c] \in PurchaseJob
        /\ pc[c] = "lock" => job[c] \in RefundJob
        /\ pc[c] # "idle" => job[c] \in PurchaseJob \cup RefundJob

(* Every open transaction can still commit what it set out to do. *)
AllReady ==
    /\ \A c \in Clients :
          /\ InTransaction(c) => Ready(job[c], oid[c])
          /\ HoldsInventory(c) => EnoughStock(job[c])
          /\ pc[c] \in {"write", "commit"} => EnoughMoney(job[c])
    /\ \A t \in orphans : Ready(t.job, t.oid) /\ Covered(t.job)

(* Rows are locked by one transaction at a time, the inventory row by one in all. *)
LocksHeld ==
    /\ \A c, d \in Clients : c # d /\ InTransaction(c) /\ InTransaction(d) => Apart(job[c], oid[c], job[d], oid[d])
    /\ \A c \in Clients : InTransaction(c) => \A t \in orphans : Apart(job[c], oid[c], t.job, t.oid)
    /\ \A c, d \in Clients : HoldsInventory(c) /\ HoldsInventory(d) => c = d
    /\ orphans # {} => \A c \in Clients : ~ HoldsInventory(c)
    /\ \A t, u \in orphans : t = u

(* What calls were told stays true: claims are permanent, and one call made each. *)
Told ==
    /\ \A c \in Clients :
          outcome[c] = "created" \/ (job[c].kind = "purchase" /\ outcome[c] = "replayed") =>
             /\ job[c].key \in DOMAIN claims
             /\ claims[job[c].key].quantity = job[c].quantity
    /\ \A c, d \in Clients :
          outcome[c] = "created" /\ outcome[d] = "created" /\ job[c].key = job[d].key => c = d

ClientTypes ==
    /\ pc \in [Clients -> {"idle", "claim", "lookup", "lock", "stock", "debit", "write", "commit", "done"}]
    /\ tries \in [Clients -> 0..MaxTries - 1]
    /\ resubmits \in [Clients -> 0..MaxResubmits]
    /\ outcome \in [Clients -> Outcomes]
    /\ DOMAIN job = Clients /\ DOMAIN oid = Clients

CheckoutInv == TablesInv /\ ClientTypes /\ JobsFit /\ AllReady /\ LocksHeld /\ Told

LEMMA TablesAlone == TablesInv /\ UNCHANGED tables => TablesInv'
<1> SUFFICES ASSUME TablesInv, UNCHANGED <<stock, buyer, merchant, claims, orders, postings>>
             PROVE  TablesInv'
  BY DEF tables
<1>1. TableTypes'
  BY DEF TablesInv, TableTypes
<1>2. StockAndMoneyConserved'
  BY DEF TablesInv, BooksBalance, StockAndMoneyConserved, QuantityOf, Sold
<1>3. EveryOrderExactlyPosted' /\ ClaimsMatchOrders'
  BY DEF TablesInv, BooksBalance, EveryOrderExactlyPosted, ClaimsMatchOrders
<1> QED
  BY <1>1, <1>2, <1>3 DEF TablesInv, BooksBalance

(* Only one client takes part in a step. *)
Others(c) ==
    \A d \in Clients \ {c} :
        pc'[d] = pc[d] /\ job'[d] = job[d] /\ oid'[d] = oid[d] /\ outcome'[d] = outcome[d]

(* The part of JobsFit about one client. *)
JobFits(c) ==
    /\ pc[c] = "idle" => outcome[c] = "none"
    /\ pc[c] \in {"claim", "lookup"} => job[c] \in PurchaseJob
    /\ pc[c] = "lock" => job[c] \in RefundJob
    /\ pc[c] # "idle" => job[c] \in PurchaseJob \cup RefundJob

LEMMA OthersFit ==
    ASSUME JobsFit, NEW c \in Clients, Others(c), JobFits(c)'
    PROVE  JobsFit'
BY DEF JobsFit, JobFits, Others, PurchaseJob, RefundJob

(***************************************************************************)
(* A step that writes no table and leaves its client outside a             *)
(* transaction; what the client is told, if anything, is already so.       *)
(***************************************************************************)
Quiet(c) ==
    /\ Others(c)
    /\ UNCHANGED <<stock, buyer, merchant, claims, orders, postings, orphans>>
    /\ pc'[c] \notin {"stock", "debit", "write", "commit"}
    /\ outcome'[c] # "created" \/ UNCHANGED <<outcome, job>>
    /\ outcome'[c] = "replayed" /\ job'[c].kind = "purchase" =>
          job'[c].key \in DOMAIN claims /\ claims[job'[c].key].quantity = job'[c].quantity

LEMMA QuietKeepsInvariant ==
    ASSUME CheckoutInv, NEW c \in Clients, Quiet(c)
    PROVE  AllReady' /\ LocksHeld' /\ Told'
<1>1. \A d \in Clients : InTransaction(d)' => d # c /\ InTransaction(d)
  BY DEF Quiet, Others, InTransaction
<1>2. \A d \in Clients : HoldsInventory(d)' => InTransaction(d)' /\ HoldsInventory(d)
  BY DEF Quiet, Others, HoldsInventory, InTransaction
<1>3. \A d \in Clients \ {c} : pc'[d] = pc[d] /\ job'[d] = job[d] /\ oid'[d] = oid[d] /\ outcome'[d] = outcome[d]
  BY DEF Quiet, Others
<1>4. /\ orders' = orders /\ claims' = claims /\ stock' = stock /\ buyer' = buyer /\ orphans' = orphans
  BY DEF Quiet
<1>5. \A d \in Clients : pc'[d] \in {"write", "commit"} => d # c
  BY DEF Quiet
<1>6. AllReady'
  <2>1. \A d \in Clients : InTransaction(d)' => Ready(job[d], oid[d])'
    <3>1. \A d \in Clients : InTransaction(d)' => Ready(job[d], oid[d]) /\ job'[d] = job[d] /\ oid'[d] = oid[d]
      BY <1>1, <1>3 DEF CheckoutInv, AllReady
    <3> QED
      BY <1>4, <3>1 DEF Ready, PurchaseJob, RefundJob
  <2>2. \A d \in Clients : HoldsInventory(d)' => EnoughStock(job[d])'
    <3>1. \A d \in Clients : HoldsInventory(d)' => EnoughStock(job[d]) /\ job'[d] = job[d]
      BY <1>1, <1>2, <1>3 DEF CheckoutInv, AllReady
    <3> QED
      BY <1>4, <3>1 DEF EnoughStock
  <2>3. \A d \in Clients : pc'[d] \in {"write", "commit"} => EnoughMoney(job[d])'
    <3>1. \A d \in Clients : pc'[d] \in {"write", "commit"} => EnoughMoney(job[d]) /\ job'[d] = job[d]
      BY <1>3, <1>5 DEF CheckoutInv, AllReady
    <3> QED
      BY <1>4, <3>1 DEF EnoughMoney
  <2>4. \A u \in orphans' : Ready(u.job, u.oid)' /\ Covered(u.job)'
    BY <1>4 DEF CheckoutInv, AllReady, Covered, Ready, EnoughStock, EnoughMoney, PurchaseJob, RefundJob
  <2> QED
    BY <2>1, <2>2, <2>3, <2>4 DEF AllReady
<1>7. LocksHeld'
  BY <1>1, <1>2, <1>3, <1>4 DEF CheckoutInv, LocksHeld, Apart
<1>8. Told'
  BY <1>3, <1>4 DEF Quiet, CheckoutInv, Told
<1> QED
  BY <1>6, <1>7, <1>8

(* A call that ends without a commit and is told nothing new. *)
LEMMA EndIsQuiet ==
    ASSUME CheckoutInv, NEW c \in Clients, NEW result, End(c, result), UNCHANGED <<tables, job, orphans>>,
           pc[c] # "idle", result # "created",
           result = "replayed" /\ job[c].kind = "purchase" =>
              job[c].key \in DOMAIN claims /\ claims[job[c].key].quantity = job[c].quantity
    PROVE  Quiet(c) /\ JobFits(c)'
<1>1. /\ pc'[c] = "done" /\ outcome'[c] = result /\ job' = job
      /\ \A d \in Clients \ {c} : pc'[d] = pc[d] /\ oid'[d] = oid[d] /\ outcome'[d] = outcome[d]
  BY DEF End, Goto, CheckoutInv, ClientTypes
<1>2. job[c] \in PurchaseJob \cup RefundJob
  BY DEF CheckoutInv, JobsFit
<1> QED
  BY <1>1, <1>2 DEF Quiet, Others, JobFits, tables

LEMMA LookupIsQuiet ==
    ASSUME CheckoutInv, NEW c \in Clients, Lookup(c)
    PROVE  Quiet(c) /\ JobFits(c)'
<1> DEFINE result == LET key == job[c].key IN
               IF key \notin DOMAIN claims THEN "error"
               ELSE IF ~ SamePayload(claims[key], job[c]) THEN "idempotency_conflict"
               ELSE IF claims[key].oid \notin DOMAIN orders \/ orders[claims[key].oid].key # key THEN "error"
               ELSE "replayed"
<1>1. End(c, result) /\ UNCHANGED <<tables, job, orphans>> /\ pc[c] # "idle" /\ result # "created"
  BY DEF Lookup
<1>2. result = "replayed" => job[c].key \in DOMAIN claims /\ claims[job[c].key].quantity = job[c].quantity
  BY DEF SamePayload
<1> HIDE DEF result
<1> QED
  BY <1>1, <1>2, EndIsQuiet

LEMMA QuietSteps ==
    ASSUME CheckoutInv, NEW c \in Clients,
           \/ \E key \in RequestKeys, quantity \in Quantities : Purchase(c, key, quantity)
           \/ \E id \in DOMAIN orders : Refund(c, id)
           \/ (Claim(c) \/ LockOrder(c) \/ UpdateStock(c) \/ UpdateBuyer(c)) /\ ~ InTransaction(c)'
           \/ Lookup(c) \/ LockError(c) \/ Fail(c) \/ Resubmit(c)
           \/ CommitUnknown(c) /\ UNCHANGED <<tables, orphans>>
    PROVE  Quiet(c) /\ JobFits(c)'
<1>0. ClientTypes /\ JobFits(c)
  BY DEF CheckoutInv, JobsFit, JobFits
<1>1. ASSUME NEW key \in RequestKeys, NEW quantity \in Quantities, Purchase(c, key, quantity)
      PROVE  Quiet(c) /\ JobFits(c)'
  <2>1. /\ pc'[c] = "claim" /\ job'[c] = [kind |-> "purchase", key |-> key, quantity |-> quantity]
        /\ outcome'[c] = "none" /\ Others(c)
    BY <1>0, <1>1 DEF Purchase, Goto, ClientTypes, JobFits, Others
  <2> QED
    BY <1>1, <2>1 DEF Quiet, JobFits, Purchase, tables, PurchaseJob
<1>2. ASSUME NEW id \in DOMAIN orders, Refund(c, id) PROVE Quiet(c) /\ JobFits(c)'
  <2>1. /\ pc'[c] = "lock" /\ job'[c] = [kind |-> "refund", id |-> id] /\ id \in OrderIds
        /\ outcome'[c] = "none" /\ Others(c)
    BY <1>0, <1>2 DEF Refund, Goto, ClientTypes, JobFits, Others, CheckoutInv, TablesInv, TableTypes
  <2> QED
    BY <1>2, <2>1 DEF Quiet, JobFits, Refund, tables, RefundJob
<1>3. CASE Claim(c) /\ ~ InTransaction(c)'
  <2>1. pc'[c] = "lookup" /\ oid' = oid /\ job[c] \in PurchaseJob /\ Others(c) /\ UNCHANGED <<job, outcome>>
    BY <1>0, <1>3 DEF Claim, Goto, ClientTypes, JobFits, Others, InTransaction
  <2>2. outcome[c] = "replayed" => job[c].key \in DOMAIN claims /\ claims[job[c].key].quantity = job[c].quantity
    BY <2>1 DEF CheckoutInv, Told, PurchaseJob
  <2> QED
    BY <1>3, <2>1, <2>2 DEF Quiet, JobFits, Claim, tables
<1>4. CASE LockOrder(c) /\ ~ InTransaction(c)'
  <2>1. PICK result \in {"order_missing", "replayed"} : End(c, result)
    BY <1>0, <1>4 DEF LockOrder, Goto, ClientTypes, InTransaction
  <2>2. job[c].kind = "refund"
    BY <1>0, <1>4 DEF LockOrder, JobFits, RefundJob
  <2> QED
    BY <1>4, <2>1, <2>2, EndIsQuiet DEF LockOrder
<1>5. CASE (UpdateStock(c) \/ UpdateBuyer(c)) /\ ~ InTransaction(c)'
  <2>1. PICK result \in {"sold_out", "insufficient_funds"} : End(c, result)
    BY <1>0, <1>5 DEF UpdateStock, UpdateBuyer, Goto, ClientTypes, InTransaction
  <2> QED
    BY <1>5, <2>1, EndIsQuiet DEF UpdateStock, UpdateBuyer
<1>6. CASE LockError(c)
  <2>1. CASE MayRetry(c) /\ Goto(c, "claim") /\ oid' = [oid EXCEPT ![c] = "none"] /\ UNCHANGED outcome
    <3>1. /\ pc'[c] = "claim" /\ job' = job /\ outcome' = outcome /\ Others(c)
          /\ job[c] \in PurchaseJob /\ job[c].kind = "purchase"
      BY <1>0, <1>6, <2>1 DEF LockError, MayRetry, Goto, ClientTypes, JobFits, Others, InTransaction,
                              PurchaseJob, RefundJob
    <3>2. outcome[c] = "replayed" => job[c].key \in DOMAIN claims /\ claims[job[c].key].quantity = job[c].quantity
      BY <3>1 DEF CheckoutInv, Told
    <3> QED
      BY <1>6, <3>1, <3>2 DEF Quiet, JobFits, LockError, tables
  <2>2. CASE End(c, "error")
    <3>1. pc[c] # "idle"
      BY <1>6 DEF LockError, InTransaction
    <3> QED
      BY <1>6, <2>2, <3>1, EndIsQuiet DEF LockError
  <2> QED
    BY <1>6, <2>1, <2>2 DEF LockError
<1>7. CASE Fail(c)
  <2>1. pc[c] # "idle"
    BY <1>7 DEF Fail, InTransaction
  <2> QED
    BY <1>7, <2>1, EndIsQuiet DEF Fail
<1>8. CASE Resubmit(c)
  <2>1. /\ pc'[c] = IF job[c].kind = "purchase" THEN "claim" ELSE "lock"
        /\ outcome'[c] = "none" /\ job' = job /\ Others(c) /\ job[c] \in PurchaseJob \cup RefundJob
    BY <1>0, <1>8 DEF Resubmit, Goto, ClientTypes, JobFits, Others
  <2> QED
    BY <1>8, <2>1 DEF Quiet, JobFits, Resubmit, tables, PurchaseJob, RefundJob
<1>9. CASE CommitUnknown(c) /\ UNCHANGED <<tables, orphans>>
  BY <1>9, EndIsQuiet DEF CommitUnknown
<1> QED
  BY <1>1, <1>2, <1>3, <1>4, <1>5, <1>6, <1>7, <1>8, <1>9, LookupIsQuiet

-----------------------------------------------------------------------------
(* The rows of a transaction that begins belong to nobody else. *)
LEMMA EnterKeepsInvariant ==
    ASSUME CheckoutInv, NEW c \in Clients, Others(c), UNCHANGED <<tables, job, outcome, orphans>>,
           ~ InTransaction(c), pc'[c] = "stock", Ready(job[c], oid'[c]), ~ OrderLocked(oid'[c]),
           job[c].kind = "purchase" => ~ KeyLocked(job[c].key)
    PROVE  AllReady' /\ LocksHeld' /\ Told'
<1>1. /\ orders' = orders /\ claims' = claims /\ stock' = stock /\ buyer' = buyer /\ orphans' = orphans
      /\ job' = job /\ outcome' = outcome
  BY DEF tables
<1>2. \A d \in Clients \ {c} : pc'[d] = pc[d] /\ oid'[d] = oid[d] /\ InTransaction(d)' = InTransaction(d)
                               /\ HoldsInventory(d)' = HoldsInventory(d)
  BY DEF Others, InTransaction, HoldsInventory
<1>3. InTransaction(c)' /\ ~ HoldsInventory(c)' /\ pc'[c] \notin {"write", "commit"}
  BY DEF InTransaction, HoldsInventory
<1>4. \A d \in Clients \ {c} : InTransaction(d) => Apart(job[c], oid'[c], job[d], oid[d])
  <2>1. \A d \in Clients : InTransaction(d) => [job |-> job[d], oid |-> oid[d]] \in Open
    BY DEF Open
  <2>2. \A d \in Clients : InTransaction(d) => oid[d] # oid'[c]
    BY <2>1 DEF OrderLocked
  <2>3. \A d \in Clients : InTransaction(d) /\ job[c].kind = "purchase" /\ job[d].kind = "purchase"
                           => job[d].key # job[c].key
    BY <2>1 DEF KeyLocked
  <2> QED
    BY <2>2, <2>3 DEF Apart
<1>5. \A u \in orphans : Apart(job[c], oid'[c], u.job, u.oid)
  BY DEF Apart, OrderLocked, KeyLocked, Open
<1>6. AllReady'
  <2>1. \A d \in Clients \ {c} : InTransaction(d)' => Ready(job[d], oid[d])'
    BY <1>1, <1>2 DEF CheckoutInv, AllReady, Ready, PurchaseJob, RefundJob
  <2>2. Ready(job[c], oid[c])'
    BY <1>1 DEF Ready, PurchaseJob, RefundJob
  <2>3. \A d \in Clients : /\ HoldsInventory(d)' => EnoughStock(job[d])'
                           /\ pc'[d] \in {"write", "commit"} => EnoughMoney(job[d])'
    BY <1>1, <1>2, <1>3 DEF CheckoutInv, AllReady, EnoughStock, EnoughMoney
  <2>4. \A u \in orphans' : Ready(u.job, u.oid)' /\ Covered(u.job)'
    BY <1>1 DEF CheckoutInv, AllReady, Covered, Ready, EnoughStock, EnoughMoney, PurchaseJob, RefundJob
  <2> QED
    BY <2>1, <2>2, <2>3, <2>4 DEF AllReady
<1>7. LocksHeld'
  <2>1. \A d, e \in Clients : d # e /\ InTransaction(d)' /\ InTransaction(e)' =>
           Apart(job[d], oid'[d], job[e], oid'[e])
    <3>1. \A j, id, k, other : Apart(j, id, k, other) => Apart(k, other, j, id)
      BY DEF Apart
    <3>2. \A d, e \in Clients \ {c} : d # e /\ InTransaction(d)' /\ InTransaction(e)' =>
             Apart(job[d], oid'[d], job[e], oid'[e])
      BY <1>2 DEF CheckoutInv, LocksHeld
    <3> QED
      BY <1>2, <1>4, <3>1, <3>2
  <2>2. \A d \in Clients : InTransaction(d)' => \A u \in orphans : Apart(job[d], oid'[d], u.job, u.oid)
    BY <1>2, <1>5 DEF CheckoutInv, LocksHeld
  <2>3. \A d, e \in Clients : HoldsInventory(d)' /\ HoldsInventory(e)' => d = e
    BY <1>2, <1>3 DEF CheckoutInv, LocksHeld
  <2>4. orphans # {} => \A d \in Clients : ~ HoldsInventory(d)'
    BY <1>2, <1>3 DEF CheckoutInv, LocksHeld
  <2> QED
    BY <1>1, <2>1, <2>2, <2>3, <2>4 DEF CheckoutInv, LocksHeld, Apart
<1>8. Told'
  BY <1>1 DEF CheckoutInv, Told
<1> QED
  BY <1>6, <1>7, <1>8

LEMMA EnteringSteps ==
    ASSUME CheckoutInv, NEW c \in Clients, (Claim(c) \/ LockOrder(c)) /\ InTransaction(c)'
    PROVE  AllReady' /\ LocksHeld' /\ Told' /\ Others(c) /\ JobFits(c)'
<1>0. ClientTypes /\ JobFits(c)
  BY DEF CheckoutInv, JobsFit, JobFits
<1>1. CASE Claim(c)
  <2>1. PICK id \in OrderIds \ DOMAIN orders : ~ OrderLocked(id) /\ oid' = [oid EXCEPT ![c] = id]
    BY <1>0, <1>1 DEF Claim, Goto, ClientTypes, InTransaction
  <2>2. pc'[c] = "stock" /\ ~ Claimed(job[c].key) /\ ~ KeyLocked(job[c].key)
    BY <1>0, <1>1 DEF Claim, Goto, ClientTypes, InTransaction
  <2>3. Others(c) /\ oid'[c] = id /\ ~ InTransaction(c) /\ job[c] \in PurchaseJob
        /\ UNCHANGED <<tables, job, outcome, orphans>>
    BY <1>0, <1>1, <2>1 DEF Claim, Goto, ClientTypes, InTransaction, Others, JobFits
  <2>4. Ready(job[c], oid'[c])
    BY <2>1, <2>2, <2>3 DEF Ready, Claimed
  <2>5. JobFits(c)'
    BY <2>2, <2>3 DEF JobFits
  <2> QED
    BY <2>1, <2>2, <2>3, <2>4, <2>5, EnterKeepsInvariant
<1>2. CASE LockOrder(c)
  <2>1. /\ job[c].id \in DOMAIN orders /\ orders[job[c].id].state = "paid"
        /\ oid' = [oid EXCEPT ![c] = job[c].id] /\ Goto(c, "stock") /\ UNCHANGED outcome
        /\ ~ OrderLocked(job[c].id)
    <3>1. \A result : End(c, result) => pc'[c] = "done"
      BY <1>0 DEF End, Goto, ClientTypes
    <3> QED
      BY <1>2, <3>1 DEF LockOrder, InTransaction, ForUpdateWaits
  <2>2. /\ Others(c) /\ oid'[c] = job[c].id /\ ~ InTransaction(c) /\ job[c] \in RefundJob
        /\ pc'[c] = "stock" /\ UNCHANGED <<tables, job, outcome, orphans>>
    BY <1>0, <1>2, <2>1 DEF LockOrder, Goto, ClientTypes, InTransaction, Others, JobFits
  <2>3. Ready(job[c], oid'[c]) /\ job[c].kind # "purchase"
    BY <2>1, <2>2 DEF Ready, RefundJob
  <2>4. JobFits(c)'
    BY <2>2 DEF JobFits
  <2> QED
    BY <2>1, <2>2, <2>3, <2>4, EnterKeepsInvariant
<1> QED
  BY <1>1, <1>2

(* UPDATE inventory waits for the row; the statements after it have it. *)
LEMMA AdvancingSteps ==
    ASSUME CheckoutInv, NEW c \in Clients,
           (UpdateStock(c) \/ UpdateBuyer(c) \/ WriteRows(c)) /\ InTransaction(c)'
    PROVE  AllReady' /\ LocksHeld' /\ Told' /\ Others(c) /\ JobFits(c)'
<1>0. ClientTypes /\ JobFits(c)
  BY DEF CheckoutInv, JobsFit, JobFits
<1>1. /\ orders' = orders /\ claims' = claims /\ stock' = stock /\ buyer' = buyer /\ orphans' = orphans
      /\ job' = job
  BY DEF UpdateStock, UpdateBuyer, WriteRows, tables
<1>2. /\ outcome' = outcome /\ oid' = oid
      /\ \A d \in Clients \ {c} : pc'[d] = pc[d]
      /\ InTransaction(c) /\ pc'[c] \in {"debit", "write", "commit"}
      /\ EnoughStock(job[c])
      /\ pc'[c] \in {"write", "commit"} => EnoughMoney(job[c])
      /\ pc[c] = "stock" => ~ InventoryLocked
  <2>1. \A result : End(c, result) => pc'[c] = "done"
    BY <1>0 DEF End, Goto, ClientTypes
  <2>2. CASE UpdateStock(c)
    BY <1>0, <2>1, <2>2 DEF UpdateStock, Goto, ClientTypes, InTransaction
  <2>3. CASE UpdateBuyer(c)
    <3>1. EnoughStock(job[c])
      BY <2>3 DEF UpdateBuyer, CheckoutInv, AllReady, HoldsInventory
    <3> QED
      BY <1>0, <2>1, <2>3, <3>1 DEF UpdateBuyer, Goto, ClientTypes, InTransaction
  <2>4. CASE WriteRows(c)
    <3>1. EnoughStock(job[c]) /\ EnoughMoney(job[c])
      BY <2>4 DEF WriteRows, CheckoutInv, AllReady, HoldsInventory
    <3> QED
      BY <1>0, <2>4, <3>1 DEF WriteRows, Goto, ClientTypes, InTransaction
  <2> QED
    BY <2>2, <2>3, <2>4
<1>3. \A d \in Clients : InTransaction(d)' = InTransaction(d)
  BY <1>2 DEF InTransaction
<1>4. \A d \in Clients \ {c} : HoldsInventory(d)' = HoldsInventory(d)
  BY <1>2 DEF HoldsInventory
<1>5. orphans = {} /\ \A d \in Clients \ {c} : ~ HoldsInventory(d)
  <2>1. CASE pc[c] = "stock"
    BY <1>2, <2>1 DEF InventoryLocked, HoldsInventory
  <2>2. CASE pc[c] # "stock"
    <3>1. HoldsInventory(c)
      BY <1>2, <2>2 DEF InTransaction, HoldsInventory
    <3> QED
      BY <3>1 DEF CheckoutInv, LocksHeld
  <2> QED
    BY <2>1, <2>2
<1>6. AllReady'
  <2>1. \A d \in Clients : InTransaction(d)' => Ready(job[d], oid[d])'
    BY <1>1, <1>2, <1>3 DEF CheckoutInv, AllReady, Ready, PurchaseJob, RefundJob
  <2>2. \A d \in Clients : HoldsInventory(d)' => EnoughStock(job[d])'
    BY <1>1, <1>2, <1>4, <1>5 DEF EnoughStock
  <2>3. \A d \in Clients : pc'[d] \in {"write", "commit"} => EnoughMoney(job[d])'
    <3>1. \A d \in Clients \ {c} : pc'[d] \notin {"write", "commit"}
      BY <1>2, <1>5 DEF HoldsInventory
    <3> QED
      BY <1>1, <1>2, <3>1 DEF EnoughMoney
  <2> QED
    BY <1>1, <1>5, <2>1, <2>2, <2>3 DEF AllReady
<1>7. LocksHeld'
  BY <1>1, <1>2, <1>3, <1>4, <1>5 DEF CheckoutInv, LocksHeld, Apart
<1>8. Told'
  BY <1>1, <1>2 DEF CheckoutInv, Told
<1>9. Others(c) /\ JobFits(c)'
  BY <1>0, <1>1, <1>2 DEF Others, JobFits, InTransaction
<1> QED
  BY <1>6, <1>7, <1>8, <1>9

-----------------------------------------------------------------------------
(***************************************************************************)
(* A transaction that holds every lock it needs commits, as a client's or  *)
(* as an orphan's: the others keep what they read, and nobody else holds   *)
(* the inventory row.                                                      *)
(***************************************************************************)
LEMMA ApplyKeepsOthers ==
    ASSUME CheckoutInv, NEW j, NEW id, Ready(j, id), Covered(j), Apply(j, id),
           NEW D \in SUBSET Clients, orphans' = {}, UNCHANGED job,
           \A d \in D : InTransaction(d)' => /\ InTransaction(d) /\ oid'[d] = oid[d]
                                             /\ Apart(j, id, job[d], oid[d]),
           \A d \in D : ~ HoldsInventory(d)',
           \A d \in Clients \ D : ~ InTransaction(d)'
    PROVE  TablesInv' /\ AllReady' /\ LocksHeld'
<1>1. TablesInv'
  BY ApplyKeepsBooks DEF CheckoutInv
<1>2. ASSUME NEW d \in Clients, InTransaction(d)' PROVE Ready(job[d], oid[d])'
  <2>1. d \in D /\ InTransaction(d) /\ oid'[d] = oid[d] /\ Apart(j, id, job[d], oid[d]) /\ job'[d] = job[d]
    BY <1>2
  <2>2. Ready(job[d], oid[d])
    BY <2>1 DEF CheckoutInv, AllReady
  <2>3. PICK k, other : k = job[d] /\ other = oid[d]
    OBVIOUS
  <2>4. Ready(k, other)'
    BY <2>1, <2>2, <2>3, ApplyKeepsReady DEF CheckoutInv
  <2> QED
    BY <2>1, <2>3, <2>4 DEF Ready
<1>3. \A d \in Clients : HoldsInventory(d)' => InTransaction(d)'
  BY DEF HoldsInventory, InTransaction
<1>4. \A d \in Clients : ~ HoldsInventory(d)'
  BY <1>3
<1>5. \A d \in Clients : pc'[d] \notin {"write", "commit"}
  BY <1>4 DEF HoldsInventory
<1>6. AllReady'
  BY <1>2, <1>4, <1>5 DEF AllReady
<1>7. \A d, e \in Clients : d # e /\ InTransaction(d)' /\ InTransaction(e)' =>
         Apart(job[d], oid'[d], job[e], oid'[e])
  BY DEF CheckoutInv, LocksHeld
<1>8. LocksHeld'
  BY <1>4, <1>7 DEF LocksHeld, Apart
<1> QED
  BY <1>1, <1>6, <1>8

LEMMA ApartIsSymmetric == \A j, id, k, other : Apart(j, id, k, other) => Apart(k, other, j, id)
BY DEF Apart

(* What the holder of the inventory row may rely on. *)
LEMMA Committer ==
    ASSUME CheckoutInv, NEW c \in Clients, pc[c] = "commit"
    PROVE  /\ InTransaction(c) /\ Ready(job[c], oid[c]) /\ Covered(job[c])
           /\ orphans = {}
           /\ \A d \in Clients \ {c} : ~ HoldsInventory(d)
           /\ \A d \in Clients \ {c} : InTransaction(d) => Apart(job[c], oid[c], job[d], oid[d])
BY DEF CheckoutInv, AllReady, LocksHeld, Covered, InTransaction, HoldsInventory

LEMMA EndEffect ==
    ASSUME ClientTypes, NEW c \in Clients, NEW result, End(c, result)
    PROVE  /\ pc'[c] = "done" /\ outcome'[c] = result /\ oid'[c] = "none"
           /\ \A d \in Clients \ {c} : pc'[d] = pc[d] /\ oid'[d] = oid[d] /\ outcome'[d] = outcome[d]
BY DEF End, Goto, ClientTypes

LEMMA CommittingSteps ==
    ASSUME CheckoutInv, NEW c \in Clients, Commit(c) \/ (CommitUnknown(c) /\ Apply(job[c], oid[c]) /\ UNCHANGED orphans)
    PROVE  TablesInv' /\ AllReady' /\ LocksHeld' /\ Told' /\ Others(c) /\ JobFits(c)'
<1>0. ClientTypes /\ pc[c] = "commit" /\ Apply(job[c], oid[c]) /\ job' = job /\ orphans' = orphans
      /\ job[c] \in PurchaseJob \cup RefundJob
  BY DEF Commit, CommitUnknown, CheckoutInv, JobsFit
<1>1. PICK result : /\ End(c, result)
                    /\ result = "created" => job[c] \in PurchaseJob
                    /\ result # "replayed"
  BY <1>0 DEF Commit, CommitUnknown, PurchaseJob, RefundJob
<1>2. /\ pc'[c] = "done" /\ outcome'[c] = result
      /\ \A d \in Clients \ {c} : pc'[d] = pc[d] /\ oid'[d] = oid[d] /\ outcome'[d] = outcome[d]
  BY <1>0, <1>1, EndEffect
<1>3. /\ Ready(job[c], oid[c]) /\ Covered(job[c]) /\ orphans = {}
      /\ \A d \in Clients \ {c} : ~ HoldsInventory(d)
      /\ \A d \in Clients \ {c} : InTransaction(d) => Apart(job[c], oid[c], job[d], oid[d])
  BY <1>0, Committer
<1>4. TablesInv' /\ AllReady' /\ LocksHeld'
  <2> DEFINE D == Clients \ {c}
  <2>1. \A d \in D : InTransaction(d)' => /\ InTransaction(d) /\ oid'[d] = oid[d]
                                          /\ Apart(job[c], oid[c], job[d], oid[d])
    BY <1>2, <1>3 DEF InTransaction
  <2>2. (\A d \in D : ~ HoldsInventory(d)') /\ (\A d \in Clients \ D : ~ InTransaction(d)')
    BY <1>2, <1>3 DEF InTransaction, HoldsInventory
  <2>3. D \in SUBSET Clients /\ orphans' = {}
    BY <1>0, <1>3
  <2>4. PICK j, id : j = job[c] /\ id = oid[c]
    OBVIOUS
  <2> HIDE DEF D
  <2> QED
    BY <1>0, <1>3, <2>1, <2>2, <2>3, <2>4, ApplyKeepsOthers
<1>5. /\ \A k \in DOMAIN claims : k \in DOMAIN claims' /\ claims'[k] = claims[k]
      /\ job[c] \in PurchaseJob => /\ job[c].key \in DOMAIN claims'
                                   /\ claims'[job[c].key].quantity = job[c].quantity
                                   /\ job[c].key \notin DOMAIN claims
  <2>1. PICK j, id : j = job[c] /\ id = oid[c]
    OBVIOUS
  <2> QED
    BY <1>0, <1>3, <2>1, ApplyKeepsBooks DEF CheckoutInv
<1>6. Told'
  <2>1. ASSUME NEW d \in Clients,
               outcome'[d] = "created" \/ (job[d].kind = "purchase" /\ outcome'[d] = "replayed")
        PROVE  job[d].key \in DOMAIN claims' /\ claims'[job[d].key].quantity = job[d].quantity
    <3>1. CASE d = c
      BY <1>1, <1>2, <1>5, <2>1, <3>1
    <3>2. CASE d # c
      <4>1. job[d].key \in DOMAIN claims /\ claims[job[d].key].quantity = job[d].quantity
        BY <1>2, <2>1, <3>2 DEF CheckoutInv, Told
      <4> QED
        BY <1>5, <4>1
    <3> QED
      BY <3>1, <3>2
  <2>2. \A d \in Clients \ {c} : outcome'[d] = "created" => job[d].key \in DOMAIN claims
    BY <1>2 DEF CheckoutInv, Told
  <2>3. outcome'[c] = "created" => job[c].key \notin DOMAIN claims
    BY <1>1, <1>2, <1>5
  <2>4. \A d, e \in Clients : outcome'[d] = "created" /\ outcome'[e] = "created" /\ job[d].key = job[e].key => d = e
    BY <1>2, <2>2, <2>3 DEF CheckoutInv, Told
  <2> QED
    BY <1>0, <2>1, <2>4 DEF Told
<1>7. Others(c) /\ JobFits(c)'
  BY <1>0, <1>2 DEF Others, JobFits
<1> QED
  BY <1>4, <1>6, <1>7

(* The connection is lost at the commit: the server keeps the locks. *)
LEMMA OrphaningStep ==
    ASSUME CheckoutInv, NEW c \in Clients, CommitUnknown(c),
           orphans' = orphans \cup {[job |-> job[c], oid |-> oid[c]]}, UNCHANGED tables
    PROVE  AllReady' /\ LocksHeld' /\ Told' /\ Others(c) /\ JobFits(c)'
<1>0. ClientTypes /\ pc[c] = "commit" /\ job' = job /\ job[c] \in PurchaseJob \cup RefundJob
      /\ End(c, "commit_unknown")
  BY DEF CommitUnknown, CheckoutInv, JobsFit
<1>1. /\ pc'[c] = "done" /\ outcome'[c] = "commit_unknown"
      /\ \A d \in Clients \ {c} : pc'[d] = pc[d] /\ oid'[d] = oid[d] /\ outcome'[d] = outcome[d]
  BY <1>0, EndEffect
<1>2. /\ Ready(job[c], oid[c]) /\ Covered(job[c]) /\ orphans = {}
      /\ \A d \in Clients \ {c} : ~ HoldsInventory(d)
      /\ \A d \in Clients \ {c} : InTransaction(d) => Apart(job[c], oid[c], job[d], oid[d])
  BY <1>0, Committer
<1>3. orphans' = {[job |-> job[c], oid |-> oid[c]]}
  BY <1>2
<1>4. orders' = orders /\ claims' = claims /\ stock' = stock /\ buyer' = buyer
  BY DEF tables
<1>5. \A d \in Clients : (InTransaction(d)' => d # c /\ InTransaction(d)) /\ ~ HoldsInventory(d)'
                         /\ pc'[d] \notin {"write", "commit"}
  BY <1>1, <1>2 DEF InTransaction, HoldsInventory
<1>6. AllReady'
  <2>1. \A d \in Clients : InTransaction(d)' => Ready(job[d], oid[d])'
    BY <1>0, <1>1, <1>4, <1>5 DEF CheckoutInv, AllReady, Ready, PurchaseJob, RefundJob
  <2>2. \A u \in orphans' : u.job = job[c] /\ u.oid = oid[c]
    BY <1>3
  <2>3. \A u \in orphans' : Ready(u.job, u.oid)' /\ Covered(u.job)'
    BY <1>2, <1>4, <2>2 DEF Covered, Ready, EnoughStock, EnoughMoney, PurchaseJob, RefundJob
  <2> QED
    BY <1>5, <2>1, <2>3 DEF AllReady
<1>7. LocksHeld'
  <2>1. \A d \in Clients : InTransaction(d)' => \A u \in orphans' : Apart(job[d], oid'[d], u.job, u.oid)
    BY <1>1, <1>2, <1>3, <1>5, ApartIsSymmetric
  <2>2. \A d, e \in Clients : d # e /\ InTransaction(d)' /\ InTransaction(e)' =>
           Apart(job[d], oid'[d], job[e], oid'[e])
    BY <1>1, <1>5 DEF CheckoutInv, LocksHeld
  <2> QED
    BY <1>0, <1>3, <1>5, <2>1, <2>2 DEF LocksHeld, Apart
<1>8. Told'
  BY <1>0, <1>1, <1>4 DEF CheckoutInv, Told
<1>9. Others(c) /\ JobFits(c)'
  BY <1>0, <1>1 DEF Others, JobFits
<1> QED
  BY <1>6, <1>7, <1>8, <1>9

(* The server decides an orphan, either way. *)
LEMMA OrphanStep ==
    ASSUME CheckoutInv, OrphanEnds
    PROVE  TablesInv' /\ AllReady' /\ LocksHeld' /\ Told' /\ JobsFit' /\ ClientTypes'
<1>1. PICK t \in orphans : orphans' = orphans \ {t} /\ (Apply(t.job, t.oid) \/ UNCHANGED tables)
  BY DEF OrphanEnds
<1>2. orphans' = {}
  BY <1>1 DEF CheckoutInv, LocksHeld
<1>3. pc' = pc /\ job' = job /\ oid' = oid /\ outcome' = outcome /\ tries' = tries /\ resubmits' = resubmits
  BY DEF OrphanEnds, client
<1>4. ClientTypes' /\ JobsFit'
  BY <1>3 DEF CheckoutInv, ClientTypes, JobsFit, PurchaseJob, RefundJob
<1>5. /\ Ready(t.job, t.oid) /\ Covered(t.job) /\ \A d \in Clients : ~ HoldsInventory(d)
      /\ \A d \in Clients : InTransaction(d) => Apart(t.job, t.oid, job[d], oid[d])
  BY <1>1, ApartIsSymmetric DEF CheckoutInv, AllReady, LocksHeld
<1>6. \A d \in Clients : InTransaction(d)' = InTransaction(d) /\ HoldsInventory(d)' = HoldsInventory(d)
  BY <1>3 DEF InTransaction, HoldsInventory
<1>7. CASE Apply(t.job, t.oid)
  <2>1. TablesInv' /\ AllReady' /\ LocksHeld'
    BY <1>2, <1>3, <1>5, <1>6, <1>7, ApplyKeepsOthers
  <2>2. \A k \in DOMAIN claims : k \in DOMAIN claims' /\ claims'[k] = claims[k]
    BY <1>5, <1>7, ApplyKeepsBooks DEF CheckoutInv
  <2>3. Told'
    BY <1>3, <2>2 DEF CheckoutInv, Told
  <2> QED
    BY <1>4, <2>1, <2>3
<1>8. CASE UNCHANGED tables
  <2>1. orders' = orders /\ claims' = claims /\ stock' = stock /\ buyer' = buyer
    BY <1>8 DEF tables
  <2>2. TablesInv'
    BY <1>8, TablesAlone DEF CheckoutInv
  <2>3. \A d \in Clients : ~ HoldsInventory(d)' /\ pc'[d] \notin {"write", "commit"}
    BY <1>3, <1>5, <1>6 DEF HoldsInventory
  <2>4. \A d \in Clients : InTransaction(d)' => Ready(job[d], oid[d])'
    BY <1>3, <1>6, <2>1 DEF CheckoutInv, AllReady, Ready, PurchaseJob, RefundJob
  <2>5. AllReady'
    BY <1>2, <2>3, <2>4 DEF AllReady
  <2>6. LocksHeld'
    BY <1>2, <1>3, <1>6, <2>3 DEF CheckoutInv, LocksHeld, Apart
  <2>7. Told'
    BY <1>3, <2>1 DEF CheckoutInv, Told
  <2> QED
    BY <1>4, <2>2, <2>5, <2>6, <2>7
<1> QED
  BY <1>1, <1>7, <1>8

-----------------------------------------------------------------------------
(* Attempts and resubmissions stay within their bounds. *)
LEMMA ClientTypesKept ==
    ASSUME CheckoutInv, NEW c \in Clients,
           \/ \E key \in RequestKeys, quantity \in Quantities : Purchase(c, key, quantity)
           \/ \E id \in DOMAIN orders : Refund(c, id)
           \/ Step(c) \/ CommitUnknown(c) \/ LockError(c) \/ Fail(c) \/ Resubmit(c)
    PROVE  ClientTypes'
<1>0. ClientTypes
  BY DEF CheckoutInv
<1>1. ASSUME NEW result \in Outcomes, End(c, result), UNCHANGED <<job, tries, resubmits>> PROVE ClientTypes'
  BY <1>0, <1>1 DEF End, Goto, ClientTypes
<1>2. ASSUME NEW key \in RequestKeys, NEW quantity \in Quantities, Purchase(c, key, quantity) PROVE ClientTypes'
  BY <1>0, <1>2 DEF Purchase, Goto, ClientTypes
<1>3. ASSUME NEW id \in DOMAIN orders, Refund(c, id) PROVE ClientTypes'
  BY <1>0, <1>3 DEF Refund, Goto, ClientTypes
<1>4. CASE Claim(c) \/ WriteRows(c)
  BY <1>0, <1>4 DEF Claim, WriteRows, Goto, ClientTypes
<1>5. CASE Lookup(c)
  <2>1. PICK result \in Outcomes : End(c, result)
    BY <1>5 DEF Lookup, Outcomes
  <2> QED
    BY <1>1, <1>5, <2>1 DEF Lookup
<1>6. CASE LockOrder(c) \/ UpdateStock(c) \/ UpdateBuyer(c)
  <2>1. CASE \E result \in Outcomes : End(c, result)
    BY <1>1, <1>6, <2>1 DEF LockOrder, UpdateStock, UpdateBuyer
  <2>2. CASE \E label \in {"stock", "debit", "write"} :
                Goto(c, label) /\ UNCHANGED outcome /\ (oid' = oid \/ oid' = [oid EXCEPT ![c] = job[c].id])
    BY <1>0, <1>6, <2>2 DEF LockOrder, UpdateStock, UpdateBuyer, Goto, ClientTypes
  <2> QED
    BY <1>6, <2>1, <2>2 DEF LockOrder, UpdateStock, UpdateBuyer, Outcomes
<1>7. CASE Commit(c) \/ CommitUnknown(c) \/ Fail(c)
  <2>1. PICK result \in Outcomes : End(c, result)
    BY <1>7 DEF Commit, CommitUnknown, Fail, Outcomes
  <2> QED
    BY <1>1, <1>7, <2>1 DEF Commit, CommitUnknown, Fail
<1>8. CASE LockError(c)
  <2>1. CASE MayRetry(c) /\ Goto(c, "claim") /\ CountTry(c) /\ oid' = [oid EXCEPT ![c] = "none"] /\ UNCHANGED outcome
    <3>1. tries[c] + 1 \in 0..MaxTries - 1
      BY <1>0, <2>1 DEF MayRetry, ClientTypes, MaxTries
    <3> QED
      BY <1>0, <1>8, <2>1, <3>1 DEF LockError, CountTry, Goto, ClientTypes
  <2>2. CASE End(c, "error") /\ UNCHANGED tries
    BY <1>1, <1>8, <2>2 DEF LockError, Outcomes
  <2> QED
    BY <1>8, <2>1, <2>2 DEF LockError
<1>9. CASE Resubmit(c)
  <2>1. resubmits[c] + 1 \in 0..MaxResubmits /\ 0 \in 0..MaxTries - 1
    BY <1>0, <1>9, TransactionAssumption DEF Resubmit, ClientTypes, MaxTries
  <2> QED
    BY <1>0, <1>9, <2>1 DEF Resubmit, Goto, ClientTypes, Outcomes
<1> QED
  BY <1>2, <1>3, <1>4, <1>5, <1>6, <1>7, <1>8, <1>9 DEF Step

LEMMA CheckoutInitial == Init => CheckoutInv
<1> SUFFICES ASSUME Init PROVE CheckoutInv
  OBVIOUS
<1>1. DOMAIN orders = {} /\ DOMAIN claims = {} /\ DOMAIN postings = {} /\ orphans = {}
  BY DEF Init
<1>2. TableTypes
  BY <1>1, TransactionAssumption DEF Init, TableTypes
<1>3. StockAndMoneyConserved
  <2>1. Sold("paid") = {}
    BY <1>1 DEF Sold
  <2>2. QuantityOf(Sold("paid")) = 0
    BY <2>1, TotalOfNothing DEF QuantityOf
  <2>3. stock = InitialStock /\ buyer = InitialBalance /\ merchant = 0
    BY DEF Init
  <2>4. InitialStock \in Nat /\ InitialBalance \in Nat /\ Price \in Nat
    BY TransactionAssumption
  <2> QED
    BY <2>2, <2>3, <2>4 DEF StockAndMoneyConserved
<1>4. IsFiniteSet(DOMAIN orders)
  BY <1>1, FS_EmptySet
<1>5. TablesInv
  BY <1>1, <1>2, <1>3, <1>4 DEF TablesInv, BooksBalance, EveryOrderExactlyPosted, ClaimsMatchOrders
<1>6. ClientTypes
  BY TransactionAssumption DEF Init, ClientTypes, MaxTries, Outcomes
<1>7. \A c \in Clients : pc[c] = "idle" /\ outcome[c] = "none"
  BY DEF Init
<1>8. JobsFit /\ AllReady /\ LocksHeld /\ Told
  BY <1>1, <1>7 DEF JobsFit, AllReady, LocksHeld, Told, InTransaction, HoldsInventory
<1> QED
  BY <1>5, <1>6, <1>8 DEF CheckoutInv

LEMMA CheckoutInductive == CheckoutInv /\ [Next]_vars => CheckoutInv'
<1> SUFFICES ASSUME CheckoutInv, [Next]_vars PROVE CheckoutInv'
  OBVIOUS
<1> DEFINE StepOf(c) ==
        \/ \E key \in RequestKeys, quantity \in Quantities : Purchase(c, key, quantity)
        \/ \E id \in DOMAIN orders : Refund(c, id)
        \/ Step(c) \/ CommitUnknown(c) \/ LockError(c) \/ Fail(c) \/ Resubmit(c)
<1>1. ASSUME NEW c \in Clients, StepOf(c) PROVE CheckoutInv'
  <2>0. ClientTypes'
    BY <1>1, ClientTypesKept
  <2>1. ASSUME \/ \E key \in RequestKeys, quantity \in Quantities : Purchase(c, key, quantity)
               \/ \E id \in DOMAIN orders : Refund(c, id)
               \/ (Claim(c) \/ LockOrder(c) \/ UpdateStock(c) \/ UpdateBuyer(c)) /\ ~ InTransaction(c)'
               \/ Lookup(c) \/ LockError(c) \/ Fail(c) \/ Resubmit(c)
               \/ CommitUnknown(c) /\ UNCHANGED <<tables, orphans>>
        PROVE  CheckoutInv'
    <3>1. Quiet(c) /\ JobFits(c)'
      BY <2>1, QuietSteps
    <3>2. UNCHANGED tables /\ Others(c)
      BY <3>1 DEF Quiet, tables
    <3>3. AllReady' /\ LocksHeld' /\ Told'
      BY <3>1, QuietKeepsInvariant
    <3> QED
      BY <2>0, <3>1, <3>2, <3>3, TablesAlone, OthersFit DEF CheckoutInv
  <2>2. ASSUME \/ (Claim(c) \/ LockOrder(c)) /\ InTransaction(c)'
               \/ (UpdateStock(c) \/ UpdateBuyer(c) \/ WriteRows(c)) /\ InTransaction(c)'
               \/ CommitUnknown(c) /\ orphans' = orphans \cup {[job |-> job[c], oid |-> oid[c]]} /\ UNCHANGED tables
        PROVE  CheckoutInv'
    <3>1. AllReady' /\ LocksHeld' /\ Told' /\ Others(c) /\ JobFits(c)'
      BY <2>2, EnteringSteps, AdvancingSteps, OrphaningStep
    <3>2. UNCHANGED tables
      BY <2>2 DEF Claim, LockOrder, UpdateStock, UpdateBuyer, WriteRows
    <3> QED
      BY <2>0, <3>1, <3>2, TablesAlone, OthersFit DEF CheckoutInv
  <2>3. ASSUME Commit(c) \/ (CommitUnknown(c) /\ Apply(job[c], oid[c]) /\ UNCHANGED orphans)
        PROVE  CheckoutInv'
    BY <2>0, <2>3, CommittingSteps, OthersFit DEF CheckoutInv
  <2>4. WriteRows(c) => InTransaction(c)'
    BY DEF WriteRows, Goto, CheckoutInv, ClientTypes, InTransaction
  <2>5. CommitUnknown(c) => \/ Apply(job[c], oid[c]) /\ UNCHANGED orphans
                            \/ UNCHANGED <<tables, orphans>>
                            \/ orphans' = orphans \cup {[job |-> job[c], oid |-> oid[c]]} /\ UNCHANGED tables
    BY DEF CommitUnknown
  <2> QED
    BY <1>1, <2>1, <2>2, <2>3, <2>4, <2>5 DEF Step
<1>2. CASE OrphanEnds
  BY <1>2, OrphanStep DEF CheckoutInv
<1>3. CASE Finished \/ UNCHANGED vars
  <2>1. UNCHANGED <<tables, pc, job, oid, tries, resubmits, outcome, orphans>>
    BY <1>3 DEF Finished, vars, client
  <2>2. orders' = orders /\ claims' = claims /\ stock' = stock /\ buyer' = buyer
    BY <2>1 DEF tables
  <2>3. TablesInv' /\ ClientTypes'
    BY <2>1, TablesAlone DEF CheckoutInv, ClientTypes
  <2>4. JobsFit' /\ Told'
    BY <2>1, <2>2 DEF CheckoutInv, JobsFit, Told, PurchaseJob, RefundJob
  <2>5. AllReady' /\ LocksHeld'
    BY <2>1, <2>2 DEF CheckoutInv, AllReady, LocksHeld, Apart, InTransaction, HoldsInventory, Ready, Covered,
                      EnoughStock, EnoughMoney, PurchaseJob, RefundJob
  <2> QED
    BY <2>3, <2>4, <2>5 DEF CheckoutInv
<1> QED
  BY <1>1, <1>2, <1>3 DEF Next

(***************************************************************************)
(* The inductive invariant of purchase() and refund(): every transaction   *)
(* in flight, orphans included, can still commit what it read.             *)
(***************************************************************************)
THEOREM CheckoutInvariant == Spec => []CheckoutInv
<1> QED
  BY CheckoutInitial, CheckoutInductive, PTL DEF Spec

(***************************************************************************)
(* audit() of transaction_model.py finds nothing in any committed state:   *)
(* stock and money are conserved and never negative, every order is posted *)
(* exactly once per phase, and claims and orders match one to one.         *)
(***************************************************************************)
THEOREM CheckoutBooksBalance == Spec => [](TypeOK /\ BooksBalance)
<1>1. CheckoutInv => TypeOK /\ BooksBalance
  BY DEF CheckoutInv, TablesInv, TableTypes, ClientTypes, TypeOK
<1> QED
  BY <1>1, CheckoutInvariant, PTL

(***************************************************************************)
(* Whoever was told "created" or "replayed" owns an order of the quantity  *)
(* it asked for, and one call created it, through lost commit answers.     *)
(***************************************************************************)
THEOREM CheckoutAnswersAreHonest == Spec => []AnswersAreHonest
<1>1. CheckoutInv => AnswersAreHonest
  BY DEF CheckoutInv, Told, AnswersAreHonest
<1> QED
  BY <1>1, CheckoutInvariant, PTL

-----------------------------------------------------------------------------
(* The drills of the Elasticsearch laboratories and their loader (SearchLab). *)
(* l is the laboratory, w the world, a the record, d the drill, ix the seed   *)
(* indices.                                                                   *)

Settings == {"enable", "exclude", "awareness", "rebalance", "disk"}
Breaking == {"create", "probe", "inject", "observe"}
Repairing == {"start", "settings", "index", "canary", "verify", "delete", "finish", "unlink"}
OutageCalls == {"mark", "stop"}
InjectCalls == OutageCalls \cup {"replicas", "patch", "grow", "block"}
SeedContents == Docs \cup {"live"}
Configs == {"c1", "c2"}

Canaries == [of : 0..MaxDrills, doc : BOOLEAN, filter : BOOLEAN, block : BOOLEAN, copies : {0, 1, 2}]
Worlds == [up : BOOLEAN, down : SUBSET Nodes, master : Nodes, keys : SUBSET Settings, canary : Canaries, uuid : Nat, gen : Nat]
SeedIndexRows == [config : Configs \cup {None}, id : Nat, docs : SUBSET SeedContents, replicas : {"layout", "many", None}, refresh : {"1s", "-1"}]
Journals ==
    [id : 1..MaxDrills, scenario : Scenarios7 \cup Scenarios9, targets : SUBSET Nodes, index : Indices \cup {None},
     keys : SUBSET Settings, gen : Nat, uuid : Nat, baseline : [Indices -> [id : Nat, docs : SUBSET SeedContents]],
     before : Nodes, restart : SUBSET Nodes, observed : BOOLEAN, error : BOOLEAN]
DrillSteps == Breaking \cup Repairing \cup {"recover", None}
DrillStates ==
    [at : DrillSteps, rest : Seq(InjectCalls), todo : SUBSET Nodes, failed : BOOLEAN, errors : BOOLEAN, leave : BOOLEAN]
LoadStates ==
    [at : {None, "prepare", "next", "bulk", "restore", "count", "purge", "reset"}, config : Configs \cup {None},
     recreate : BOOLEAN, todo : SUBSET Indices, index : Indices \cup {None}, pending : SUBSET Docs, refresh : {"1s", "-1", None}]

(* An index that is not there has no replicas. *)
SeedsFit(ix) == ix \in [Indices -> SeedIndexRows] /\ \A i \in Indices : ix[i].config = None => ix[i].replicas # "many"

DrillTypes ==
    /\ lab \in {"es7", "es9"}
    /\ world \in Worlds
    /\ SeedsFit(index)
    /\ manifest \in [status : {"loading", "loaded", "failed"}, config : Configs, uuid : Nat]
    /\ active = [id |-> 0] \/ active \in Journals
    /\ drill \in DrillStates
    /\ report \in {None, "PASS", "FAIL"}
    /\ load \in LoadStates
    /\ used \in [drills : 0..MaxDrills, loads : Nat]

(* Nothing but the canary is left of a drill. *)
DrillRestored(w, ix) == w.down = {} /\ w.keys = {} /\ \A i \in Indices : ix[i].replicas # "many"

(* What the cluster shows of a drill is in its record; from the verification on it has been restored.  The    *)
(* canary has the mark of the drill, unless the cluster was replaced, which recovery notices before it begins. *)
DrillKnows(w, a, d, ix) ==
    /\ d.at # None => a.id # 0
    /\ a.id # 0 => a.uuid <= w.uuid /\ w.keys \subseteq a.keys
    /\ w.canary # NoCanary => a.id # 0 /\ (w.canary.of = a.id \/ (a.uuid < w.uuid /\ d.at \notin Repairing))
    /\ d.at \in {"probe", "inject"} => w.canary.of = a.id \/ a.uuid < w.uuid
    /\ a.id = 0 \/ d.at \in {"delete", "unlink"} \/ (d.at = "finish" /\ ~ d.errors) => DrillRestored(w, ix)
    /\ d.at = "unlink" \/ (d.at = "finish" /\ ~ d.errors) => w.canary = NoCanary

(* The 9 lab changes no setting and no index; it reports PASS for what it has observed in one run. *)
OutageKnows(w, a, d, ix) ==
    /\ a.id # 0 => a.keys = {}
    /\ \A i \in Indices : ix[i].replicas # "many"
    /\ d.rest \in Seq(OutageCalls)
    /\ d.at \in Breaking => ~ a.error
    /\ d.at \in Repairing \cup {"recover"} /\ ~ d.failed => a.observed /\ ~ a.error

(* The loader: what it has prepared is of its configuration, what it has counted is complete. *)
LoaderKnows(ld, ix) ==
    /\ ld.at \in {"prepare", "next", "bulk", "restore", "count"} => ld.config \in Configs
    /\ ld.at = "prepare" => \A i \in Indices \ ld.todo : ix[i].config = ld.config
    /\ ld.at \in {"next", "bulk", "restore", "count"} =>
          \A i \in Indices : ix[i].config = ld.config /\ (i \notin ld.todo => Docs \subseteq ix[i].docs)
    /\ ld.at \in {"bulk", "restore", "count"} =>
          ld.index \in ld.todo /\ ld.refresh # None /\ Docs \ ld.pending \subseteq ix[ld.index].docs

DrillInv ==
    /\ DrillTypes
    /\ DrillKnows(world, active, drill, index)
    /\ lab = "es9" => OutageKnows(world, active, drill, index)
    /\ LoaderKnows(load, index)

-----------------------------------------------------------------------------
(* What the steps do to the records. *)

(* The parts of the world that no property but its type is about. *)
SameBut(w, v) == v.uuid = w.uuid /\ v.up = w.up

LEMMA WorldDown ==
    ASSUME NEW w \in Worlds, NEW x \in SUBSET Nodes, NEW v, v = [w EXCEPT !.down = x]
    PROVE  v \in Worlds /\ SameBut(w, v) /\ v.down = x /\ v.keys = w.keys /\ v.canary = w.canary
  BY DEF Worlds, SameBut

LEMMA WorldKeys ==
    ASSUME NEW w \in Worlds, NEW x \in SUBSET Settings, NEW v, v = [w EXCEPT !.keys = x]
    PROVE  v \in Worlds /\ SameBut(w, v) /\ v.down = w.down /\ v.keys = x /\ v.canary = w.canary
  BY DEF Worlds, SameBut

LEMMA WorldCanary ==
    ASSUME NEW w \in Worlds, NEW x \in Canaries, NEW v, v = [w EXCEPT !.canary = x]
    PROVE  v \in Worlds /\ SameBut(w, v) /\ v.down = w.down /\ v.keys = w.keys /\ v.canary = x
  BY DEF Worlds, SameBut

LEMMA WorldMaster ==
    ASSUME NEW w \in Worlds, NEW x \in Nodes, NEW v, v = [w EXCEPT !.master = x]
    PROVE  v \in Worlds /\ SameBut(w, v) /\ v.down = w.down /\ v.keys = w.keys /\ v.canary = w.canary
  BY DEF Worlds, SameBut

LEMMA CanarySets ==
    ASSUME NEW c \in Canaries
    PROVE  /\ [c EXCEPT !.doc = TRUE] \in Canaries /\ [c EXCEPT !.doc = TRUE].of = c.of
           /\ [c EXCEPT !.copies = 2] \in Canaries /\ [c EXCEPT !.copies = 2].of = c.of
           /\ [c EXCEPT !.block = TRUE] \in Canaries /\ [c EXCEPT !.block = TRUE].of = c.of
           /\ [c EXCEPT !.filter = FALSE, !.block = FALSE, !.copies = 1] \in Canaries
           /\ [c EXCEPT !.filter = FALSE, !.block = FALSE, !.copies = 1].of = c.of
           /\ NoCanary \in Canaries /\ NoCanary.of = 0
  <1>1. /\ [c EXCEPT !.doc = TRUE] \in Canaries /\ [c EXCEPT !.doc = TRUE].of = c.of
        /\ [c EXCEPT !.copies = 2] \in Canaries /\ [c EXCEPT !.copies = 2].of = c.of
    BY DEF Canaries
  <1>2. /\ [c EXCEPT !.block = TRUE] \in Canaries /\ [c EXCEPT !.block = TRUE].of = c.of
    BY DEF Canaries
  <1>3. /\ [c EXCEPT !.filter = FALSE, !.block = FALSE, !.copies = 1] \in Canaries
        /\ [c EXCEPT !.filter = FALSE, !.block = FALSE, !.copies = 1].of = c.of
    BY DEF Canaries
  <1>4. NoCanary \in Canaries /\ NoCanary.of = 0
    BY SearchAssumption DEF NoCanary, Canaries
  <1> QED BY <1>1, <1>2, <1>3, <1>4

LEMMA DrillAt ==
    ASSUME NEW d \in DrillStates, NEW s \in DrillSteps, NEW e, e = [d EXCEPT !.at = s]
    PROVE  /\ e \in DrillStates /\ e.at = s /\ e.rest = d.rest /\ e.todo = d.todo /\ e.failed = d.failed
           /\ e.errors = d.errors /\ e.leave = d.leave
  BY DEF DrillStates

LEMMA DrillTodo ==
    ASSUME NEW d \in DrillStates, NEW x \in SUBSET Nodes, NEW e, e = [d EXCEPT !.todo = x]
    PROVE  /\ e \in DrillStates /\ e.at = d.at /\ e.rest = d.rest /\ e.todo = x /\ e.failed = d.failed
           /\ e.errors = d.errors /\ e.leave = d.leave
  BY DEF DrillStates

LEMMA DrillErrors ==
    ASSUME NEW d \in DrillStates, NEW x \in BOOLEAN, NEW e, e = [d EXCEPT !.errors = x]
    PROVE  /\ e \in DrillStates /\ e.at = d.at /\ e.rest = d.rest /\ e.todo = d.todo /\ e.failed = d.failed
           /\ e.errors = x /\ e.leave = d.leave
  BY DEF DrillStates

LEMMA DrillRest ==
    ASSUME NEW d \in DrillStates, NEW x \in Seq(InjectCalls), NEW e, e = [d EXCEPT !.rest = x]
    PROVE  /\ e \in DrillStates /\ e.at = d.at /\ e.rest = x /\ e.todo = d.todo /\ e.failed = d.failed
           /\ e.errors = d.errors /\ e.leave = d.leave
  BY DEF DrillStates

LEMMA NoDrill ==
    /\ Idle \in DrillStates /\ Idle.at = None /\ Idle.rest = <<>> /\ Idle.todo = {} /\ Idle.failed = FALSE /\ Idle.errors = FALSE
    /\ Idle.leave = FALSE
  <1>1. <<>> \in Seq(InjectCalls)
    OBVIOUS
  <1>2. Idle.at = None /\ Idle.rest = <<>> /\ Idle.todo = {} /\ Idle.failed = FALSE /\ Idle.errors = FALSE /\ Idle.leave = FALSE
    BY DEF Idle
  <1>3. Idle \in DrillStates
    BY <1>1 DEF Idle, DrillStates, DrillSteps
  <1> QED BY <1>2, <1>3

(* The rest of a script after its next call. *)
LEMMA FollowingIs ==
    ASSUME drill \in DrillStates, drill.at = "inject"
    PROVE  /\ Following \in DrillStates /\ Following.at \in {"inject", "observe"} /\ Following.failed = drill.failed
           /\ Following.errors = drill.errors
           /\ drill.rest \in Seq(OutageCalls) => Following.rest \in Seq(OutageCalls)
  <1>1. PICK d \in DrillStates : d = drill /\ d.rest \in Seq(InjectCalls)
    BY DEF DrillStates
  <1>2. CASE Len(d.rest) > 1
    <2>1. PICK t \in Seq(InjectCalls) : t = Tail(d.rest) /\ (d.rest \in Seq(OutageCalls) => t \in Seq(OutageCalls))
      <3>1. d.rest # <<>>
        BY <1>2
      <3>2. ASSUME NEW S, d.rest \in Seq(S)
            PROVE  Tail(d.rest) \in Seq(S)
        BY <3>1, <3>2
      <3> QED BY <1>1, <3>2
    <2>2. PICK e : e = [d EXCEPT !.rest = t]
      OBVIOUS
    <2>3. e \in DrillStates /\ e.at = d.at /\ e.rest = t /\ e.failed = d.failed /\ e.errors = d.errors
      BY <2>2, DrillRest
    <2>4. Following = e
      BY <1>1, <1>2, <2>1, <2>2 DEF Following
    <2> QED BY <1>1, <2>1, <2>3, <2>4
  <1>3. CASE ~ (Len(d.rest) > 1)
    <2>1. PICK t \in Seq(InjectCalls) : t = <<>> /\ t \in Seq(OutageCalls)
      <3>1. <<>> \in Seq(InjectCalls) /\ <<>> \in Seq(OutageCalls)
        OBVIOUS
      <3> QED BY <3>1
    <2>2. PICK c : c = [d EXCEPT !.rest = t]
      OBVIOUS
    <2>3. c \in DrillStates /\ c.rest = t /\ c.failed = d.failed /\ c.errors = d.errors
      BY <2>2, DrillRest
    <2>4. PICK e : e = [c EXCEPT !.at = "observe"]
      OBVIOUS
    <2>5. "observe" \in DrillSteps
      BY DEF DrillSteps, Breaking
    <2>6. e \in DrillStates /\ e.at = "observe" /\ e.rest = t /\ e.failed = d.failed /\ e.errors = d.errors
      BY <2>3, <2>4, <2>5, DrillAt
    <2>7. Following = e
      BY <1>1, <1>3, <2>1, <2>2, <2>4 DEF Following
    <2> QED BY <1>1, <2>1, <2>6, <2>7
  <1> QED BY <1>2, <1>3

(* A step that fails is journalled, and recovery begins. *)
LEMMA ProblemIs ==
    ASSUME active \in Journals, Problem
    PROVE  /\ active' \in Journals /\ active'.id = active.id /\ active'.uuid = active.uuid /\ active'.keys = active.keys
           /\ drill' \in DrillStates /\ drill'.at = "recover" /\ drill'.rest = <<>> /\ drill'.failed = TRUE
  <1>1. PICK a : a = active /\ a \in Journals
    OBVIOUS
  <1>2. PICK b : b = active' /\ b = [a EXCEPT !.error = TRUE]
    BY <1>1 DEF Problem
  <1>3. b \in Journals /\ b.id = a.id /\ b.uuid = a.uuid /\ b.keys = a.keys
    BY <1>1, <1>2 DEF Journals
  <1>4. PICK c : c = [Idle EXCEPT !.at = "recover"]
    OBVIOUS
  <1>5. "recover" \in DrillSteps
    BY DEF DrillSteps
  <1>6. c \in DrillStates /\ c.at = "recover" /\ c.rest = <<>>
    BY <1>4, <1>5, DrillAt, NoDrill
  <1>7. PICK e : e = drill' /\ e = [c EXCEPT !.failed = TRUE]
    BY <1>4 DEF Problem, Idle
  <1>8. e \in DrillStates /\ e.at = c.at /\ e.rest = c.rest /\ e.failed = TRUE
    BY <1>6, <1>7 DEF DrillStates
  <1> QED BY <1>1, <1>2, <1>3, <1>6, <1>7, <1>8

-----------------------------------------------------------------------------
(* Steps of a drill, of its recovery, and beside them. *)

(* The seed indices keep configuration and documents. *)
SeedsStay(ix, jx) == SeedsFit(jx) /\ \A i \in Indices : jx[i].config = ix[i].config /\ jx[i].docs = ix[i].docs
NoMoreReplicas(ix, jx) == \A i \in Indices : jx[i].replicas = "many" => ix[i].replicas = "many"

LEMMA Steps ==
    /\ Breaking \subseteq DrillSteps /\ Repairing \subseteq DrillSteps /\ "recover" \in DrillSteps /\ None \in DrillSteps
    /\ \A s \in Breaking : s \notin Repairing \cup {"recover", None, "delete", "finish", "unlink"}
    /\ None \notin Repairing \cup Breaking /\ "recover" \notin Repairing \cup Breaking
    /\ None # "recover" /\ {"delete", "finish", "unlink"} \subseteq Repairing /\ {"probe", "inject"} \subseteq Breaking
    /\ None \notin {"probe", "inject", "delete", "finish", "unlink"}
  BY DEF DrillSteps, Breaking, Repairing, None

LEMMA Recorded ==
    ASSUME DrillInv, active.id # 0
    PROVE  active \in Journals /\ active.id \in 1..MaxDrills
  BY DEF DrillInv, DrillTypes, Journals

LEMMA SeedsKept ==
    ASSUME NEW ix, SeedsFit(ix)
    PROVE  SeedsStay(ix, ix) /\ NoMoreReplicas(ix, ix)
  BY DEF SeedsStay, NoMoreReplicas

LEMMA LoaderWaits ==
    ASSUME NEW ld \in LoadStates, NEW ix, NEW jx, SeedsStay(ix, jx), LoaderKnows(ld, ix)
    PROVE  LoaderKnows(ld, jx)
  <1>1. \A i \in Indices : jx[i].config = ix[i].config /\ jx[i].docs = ix[i].docs
    BY DEF SeedsStay
  <1>2. ld.todo \subseteq Indices
    BY DEF LoadStates
  <1> QED BY <1>1, <1>2 DEF LoaderKnows

(* While the fault is injected: the changes are those of the record. *)
LEMMA BreakingStep ==
    ASSUME DrillInv, drill.at \in Breaking, UNCHANGED <<lab, manifest, load, used, report>>,
           world' \in Worlds, SameBut(world, world'), world'.keys \subseteq active.keys,
           world'.canary # NoCanary => world'.canary.of = active.id \/ active.uuid < world.uuid,
           SeedsStay(index, index'), lab = "es9" => NoMoreReplicas(index, index'),
           \/ Problem
           \/ /\ active' \in Journals /\ active'.id = active.id /\ active'.uuid = active.uuid /\ active'.keys = active.keys
              /\ active'.error = active.error
              /\ drill' \in DrillStates /\ drill'.at \in Breaking
              /\ drill.rest \in Seq(OutageCalls) => drill'.rest \in Seq(OutageCalls)
              /\ drill'.at \in {"probe", "inject"} => world'.canary.of = active.id \/ active.uuid < world.uuid
    PROVE  DrillInv'
  <1>1. DrillKnows(world, active, drill, index) /\ drill.at # None
    BY Steps DEF DrillInv
  <1>2. active.id # 0 /\ active \in Journals
    BY <1>1, Recorded DEF DrillKnows
  <1>3. PICK w, a, d, ix : w = world /\ a = active /\ d = drill /\ ix = index
    OBVIOUS
  <1>4. PICK v, b, e, jx : v = world' /\ b = active' /\ e = drill' /\ jx = index'
    OBVIOUS
  <1>5. /\ b \in Journals /\ b.id = a.id /\ b.uuid = a.uuid /\ b.keys = a.keys
        /\ e \in DrillStates /\ e.at \in Breaking \cup {"recover"}
        /\ e.at \in {"probe", "inject"} => v.canary.of = a.id \/ a.uuid < w.uuid
    <2>1. CASE Problem
      BY <1>2, <1>3, <1>4, <2>1, ProblemIs, Steps
    <2>2. CASE ~ Problem
      BY <1>3, <1>4, <2>2
    <2> QED BY <2>1, <2>2
  <1>6. lab = "es9" => /\ e.rest \in Seq(OutageCalls) /\ (e.at = "recover" => e.failed) /\ (e.at \in Breaking => ~ b.error)
    <2>1. CASE Problem
      <3>1. <<>> \in Seq(OutageCalls)
        OBVIOUS
      <3> QED BY <1>2, <1>4, <2>1, <3>1, ProblemIs, Steps
    <2>2. CASE ~ Problem
      BY <1>3, <1>4, <2>2, Steps DEF DrillInv, OutageKnows
    <2> QED BY <2>1, <2>2
  <1>7. DrillKnows(v, b, e, jx)
    <2>1. b.id # 0 /\ b.uuid <= v.uuid /\ v.keys \subseteq b.keys
      BY <1>1, <1>2, <1>3, <1>4, <1>5 DEF DrillKnows, SameBut
    <2>2. v.canary # NoCanary => v.canary.of = b.id \/ (b.uuid < v.uuid /\ e.at \notin Repairing)
      BY <1>3, <1>4, <1>5, Steps DEF SameBut
    <2>3. e.at \notin {"delete", "finish", "unlink"}
      BY <1>5, Steps
    <2>4. e.at \in {"probe", "inject"} => v.canary.of = b.id \/ b.uuid < v.uuid
      BY <1>3, <1>4, <1>5 DEF SameBut
    <2> QED BY <2>1, <2>2, <2>3, <2>4 DEF DrillKnows
  <1>8. lab = "es9" => OutageKnows(v, b, e, jx)
    <2> SUFFICES ASSUME lab = "es9"
                 PROVE  OutageKnows(v, b, e, jx)
      OBVIOUS
    <2>1. OutageKnows(w, a, d, ix)
      BY <1>3 DEF DrillInv
    <2>2. b.keys = {} /\ \A i \in Indices : jx[i].replicas # "many"
      BY <1>2, <1>3, <1>4, <1>5, <2>1 DEF OutageKnows, NoMoreReplicas
    <2>3. e.at \notin Repairing /\ (e.at = "recover" => e.failed)
      BY <1>5, <1>6, Steps
    <2> QED BY <1>6, <2>2, <2>3 DEF OutageKnows
  <1>9. DrillTypes'
    BY <1>4, <1>5 DEF DrillInv, DrillTypes, SeedsStay
  <1>10. LoaderKnows(load', index')
    BY LoaderWaits DEF DrillInv, DrillTypes
  <1> QED BY <1>4, <1>7, <1>8, <1>9, <1>10 DEF DrillInv

(* While it is taken back: nothing is added, and what follows the verification finds it restored. *)
LEMMA RepairingStep ==
    ASSUME DrillInv, drill.at \in Repairing \cup {"recover"}, UNCHANGED <<lab, active, manifest, load, used>>,
           report' \in {None, "PASS", "FAIL"},
           world' \in Worlds, SameBut(world, world'), world'.down \subseteq world.down, world'.keys \subseteq world.keys,
           world'.canary = NoCanary \/ (world.canary # NoCanary /\ world'.canary.of = world.canary.of),
           SeedsStay(index, index'), NoMoreReplicas(index, index'),
           drill' \in DrillStates, drill'.rest \in {drill.rest, <<>>}, drill'.at \in Repairing \cup {None},
           drill'.at # None => drill'.failed = drill.failed,
           drill.at = "recover" /\ drill'.at # None => world.uuid = active.uuid,
           drill'.at \in {"delete", "unlink"} \/ (drill'.at = "finish" /\ ~ drill'.errors) => DrillRestored(world', index'),
           drill'.at = "unlink" \/ (drill'.at = "finish" /\ ~ drill'.errors) => world'.canary = NoCanary
    PROVE  DrillInv'
  <1>1. DrillKnows(world, active, drill, index) /\ drill.at # None
    BY Steps DEF DrillInv
  <1>2. active.id # 0 /\ active \in Journals
    BY <1>1, Recorded DEF DrillKnows
  <1>3. PICK w, a, d, ix : w = world /\ a = active /\ d = drill /\ ix = index
    OBVIOUS
  <1>4. PICK v, e, jx : v = world' /\ e = drill' /\ jx = index'
    OBVIOUS
  <1>5. DrillKnows(v, a, e, jx)
    <2>1. a.id # 0 /\ a.uuid <= v.uuid /\ v.keys \subseteq a.keys
      BY <1>1, <1>2, <1>3, <1>4 DEF DrillKnows, SameBut
    <2>2. v.canary # NoCanary => v.canary.of = a.id \/ (a.uuid < v.uuid /\ e.at \notin Repairing)
      <3> SUFFICES ASSUME v.canary # NoCanary, v.canary.of # a.id
                   PROVE  a.uuid < v.uuid /\ e.at \notin Repairing
        OBVIOUS
      <3>1. a.uuid < w.uuid /\ d.at \notin Repairing
        BY <1>1, <1>3, <1>4 DEF DrillKnows
      <3>2. d.at = "recover"
        BY <1>3, <3>1
      <3>3. a.uuid \in Nat /\ w.uuid \in Nat /\ a.uuid # w.uuid
        BY <1>2, <1>3, <3>1 DEF Journals, DrillInv, DrillTypes, Worlds
      <3>4. e.at = None
        BY <1>3, <1>4, <3>2, <3>3
      <3> QED BY <1>3, <1>4, <3>1, <3>4, Steps DEF SameBut
    <2>3. e.at \notin {"probe", "inject"}
      BY <1>4, Steps
    <2> QED BY <1>4, <2>1, <2>2, <2>3 DEF DrillKnows
  <1>6. lab = "es9" => OutageKnows(v, a, e, jx)
    <2> SUFFICES ASSUME lab = "es9"
                 PROVE  OutageKnows(v, a, e, jx)
      OBVIOUS
    <2>1. OutageKnows(w, a, d, ix)
      BY <1>3 DEF DrillInv
    <2>2. a.keys = {} /\ \A i \in Indices : jx[i].replicas # "many"
      BY <1>2, <1>3, <1>4, <2>1 DEF OutageKnows, NoMoreReplicas
    <2>3. e.rest \in Seq(OutageCalls)
      <3>1. <<>> \in Seq(OutageCalls)
        OBVIOUS
      <3> QED BY <1>3, <1>4, <2>1, <3>1 DEF OutageKnows
    <2>4. e.at \notin Breaking
      BY <1>4, Steps
    <2>5. e.at \in Repairing \cup {"recover"} /\ ~ e.failed => a.observed /\ ~ a.error
      BY <1>3, <1>4, <2>1, Steps DEF OutageKnows
    <2> QED BY <2>2, <2>3, <2>4, <2>5 DEF OutageKnows
  <1>7. DrillTypes'
    BY DEF DrillInv, DrillTypes, SeedsStay
  <1>8. LoaderKnows(load', index')
    BY LoaderWaits DEF DrillInv, DrillTypes
  <1> QED BY <1>3, <1>4, <1>5, <1>6, <1>7, <1>8 DEF DrillInv

(* Beside the drill: settings, replicas and stopped nodes may go, the cluster may be replaced. *)
LEMMA BesideStep ==
    ASSUME DrillInv, UNCHANGED <<lab, active, drill, report>>,
           world' \in Worlds, world'.down \subseteq world.down, world'.keys \subseteq world.keys,
           \/ world'.canary = world.canary /\ world'.uuid = world.uuid
           \/ world'.canary = NoCanary /\ world.uuid < world'.uuid,
           SeedsFit(index'), NoMoreReplicas(index, index'),
           manifest' \in [status : {"loading", "loaded", "failed"}, config : Configs, uuid : Nat],
           load' \in LoadStates, used' \in [drills : 0..MaxDrills, loads : Nat], LoaderKnows(load', index')
    PROVE  DrillInv'
  <1>1. PICK w, a, d, ix : w = world /\ a = active /\ d = drill /\ ix = index
    OBVIOUS
  <1>2. PICK v, jx : v = world' /\ jx = index'
    OBVIOUS
  <1>3. DrillKnows(w, a, d, ix)
    BY <1>1 DEF DrillInv
  <1>4. w.uuid \in Nat /\ v.uuid \in Nat /\ w.uuid <= v.uuid
    BY <1>1, <1>2 DEF DrillInv, DrillTypes, Worlds
  <1>5. a.id # 0 => a.uuid \in Nat
    BY <1>1, Recorded DEF Journals
  <1>6. DrillRestored(w, ix) => DrillRestored(v, jx)
    BY <1>1, <1>2 DEF DrillRestored, NoMoreReplicas
  <1>7. DrillKnows(v, a, d, jx)
    <2>1. a.id # 0 => a.uuid <= v.uuid /\ v.keys \subseteq a.keys
      BY <1>1, <1>2, <1>3, <1>4, <1>5 DEF DrillKnows
    <2>2. v.canary # NoCanary => a.id # 0 /\ (v.canary.of = a.id \/ (a.uuid < v.uuid /\ d.at \notin Repairing))
      BY <1>1, <1>2, <1>3 DEF DrillKnows
    <2>3. d.at \in {"probe", "inject"} => v.canary.of = a.id \/ a.uuid < v.uuid
      <3>1. d.at \in {"probe", "inject"} => a.id # 0
        BY <1>3, Steps DEF DrillKnows
      <3> QED BY <1>1, <1>2, <1>3, <1>4, <1>5, <3>1 DEF DrillKnows
    <2> QED BY <1>1, <1>2, <1>3, <1>6, <2>1, <2>2, <2>3 DEF DrillKnows
  <1>8. lab = "es9" => OutageKnows(v, a, d, jx)
    BY <1>1, <1>2 DEF DrillInv, OutageKnows, NoMoreReplicas
  <1>9. DrillTypes'
    BY DEF DrillInv, DrillTypes
  <1> QED BY <1>1, <1>2, <1>7, <1>8, <1>9 DEF DrillInv

-----------------------------------------------------------------------------
(* A drill, call by call. *)

LEMMA Standing ==
    ASSUME DrillInv
    PROVE  /\ world \in Worlds /\ SeedsFit(index) /\ drill \in DrillStates /\ SameBut(world, world)
           /\ world.canary \in Canaries /\ world.keys \subseteq Settings /\ world.down \subseteq Nodes
           /\ SeedsStay(index, index) /\ NoMoreReplicas(index, index)
           /\ active.id # 0 => /\ active \in Journals /\ active.keys \subseteq Settings /\ active.targets \subseteq Nodes
                               /\ active.restart \subseteq Nodes /\ world.keys \subseteq active.keys
           /\ drill.at # None => active.id # 0
           /\ drill.at \in Breaking =>
                  active.id # 0 /\ (world.canary # NoCanary => world.canary.of = active.id \/ active.uuid < world.uuid)
  <1>1. world \in Worlds /\ SeedsFit(index) /\ drill \in DrillStates /\ DrillKnows(world, active, drill, index)
    BY DEF DrillInv, DrillTypes
  <1>2. world.canary \in Canaries /\ world.keys \subseteq Settings /\ world.down \subseteq Nodes /\ SameBut(world, world)
    BY <1>1 DEF Worlds, SameBut
  <1>3. active.id # 0 => /\ active \in Journals /\ active.keys \subseteq Settings /\ active.targets \subseteq Nodes
                         /\ active.restart \subseteq Nodes /\ world.keys \subseteq active.keys
    BY <1>1, Recorded DEF Journals, DrillKnows
  <1>4. drill.at # None => active.id # 0
    BY <1>1 DEF DrillKnows
  <1>5. drill.at \in Breaking =>
                  active.id # 0 /\ (world.canary # NoCanary => world.canary.of = active.id \/ active.uuid < world.uuid)
    BY <1>1, Steps DEF DrillKnows
  <1> QED BY <1>1, <1>2, <1>3, <1>4, <1>5, SeedsKept

LEMMA CallStep ==
    ASSUME DrillInv, drill.at \in Breaking, NEW after, NEW next, Call(after, next), Kept,
           after \in Worlds, SameBut(world, after), after.keys \subseteq active.keys,
           after.canary # NoCanary => after.canary.of = active.id \/ active.uuid < world.uuid,
           next \in DrillStates, next.at \in Breaking, drill.rest \in Seq(OutageCalls) => next.rest \in Seq(OutageCalls),
           next.at \in {"probe", "inject"} => after.canary.of = active.id \/ active.uuid < world.uuid
    PROVE  DrillInv'
  <1>1. UNCHANGED <<lab, manifest, load, used, report, index>>
    BY DEF Kept, loading
  <1>2. active \in Journals
    BY Standing
  <1>3. CASE world' = after /\ drill' = next /\ active' = active
    BY <1>1, <1>2, <1>3, Standing, BreakingStep
  <1>4. CASE world' \in {after, world} /\ Problem
    <2>1. CASE world' = after
      BY <1>1, <1>4, <2>1, Standing, BreakingStep
    <2>2. CASE world' = world
      BY <1>1, <1>4, <2>2, Standing, BreakingStep
    <2> QED BY <1>4, <2>1, <2>2
  <1> QED BY <1>3, <1>4 DEF Call

LEMMA FailingStep ==
    ASSUME DrillInv, drill.at \in Breaking, Problem, UNCHANGED world, Kept
    PROVE  DrillInv'
  <1>1. UNCHANGED <<lab, manifest, load, used, report, index>>
    BY DEF Kept, loading
  <1> QED BY <1>1, Standing, BreakingStep

LEMMA ToStep ==
    ASSUME DrillInv, NEW s \in DrillSteps
    PROVE  /\ DrillTo(s) \in DrillStates /\ DrillTo(s).at = s /\ DrillTo(s).rest = drill.rest /\ DrillTo(s).todo = drill.todo
           /\ DrillTo(s).failed = drill.failed /\ DrillTo(s).errors = drill.errors
  <1>1. PICK d \in DrillStates : d = drill
    BY Standing
  <1>2. PICK e : e = [d EXCEPT !.at = s]
    OBVIOUS
  <1>3. DrillTo(s) = e
    BY <1>1, <1>2 DEF DrillTo
  <1> QED BY <1>1, <1>2, <1>3, DrillAt

LEMMA CreateCanaryKeeps ==
    ASSUME DrillInv, CreateCanary
    PROVE  DrillInv'
  <1>1. drill.at = "create" /\ drill.at \in Breaking /\ Kept
    BY DEF CreateCanary, Breaking
  <1>2. PICK filter \in BOOLEAN, s \in {"inject", "probe"} :
           Call([world EXCEPT !.canary = [NoCanary EXCEPT !.of = active.id, !.filter = filter, !.copies = 1]], DrillTo(s))
    BY DEF CreateCanary
  <1>3. PICK id \in 1..MaxDrills, w \in Worlds : id = active.id /\ w = world
    BY <1>1, Standing, Recorded, Steps
  <1>4. PICK c \in Canaries : c = [NoCanary EXCEPT !.of = id, !.filter = filter, !.copies = 1] /\ c.of = id
    <2>1. PICK n \in Canaries : n = NoCanary
      BY <1>3, Standing, CanarySets
    <2>2. PICK c : c = [n EXCEPT !.of = id, !.filter = filter, !.copies = 1]
      OBVIOUS
    <2>3. id \in 0..MaxDrills
      BY SearchAssumption
    <2>4. c \in Canaries /\ c.of = id
      BY <2>2, <2>3 DEF Canaries
    <2> QED BY <2>1, <2>2, <2>4
  <1>5. PICK v : v = [w EXCEPT !.canary = c]
    OBVIOUS
  <1>6. v \in Worlds /\ SameBut(w, v) /\ v.keys = w.keys /\ v.canary = c
    BY <1>5, WorldCanary
  <1>7. Call(v, DrillTo(s))
    BY <1>2, <1>3, <1>4, <1>5
  <1>8. s \in Breaking /\ s \in DrillSteps
    BY DEF Breaking, DrillSteps
  <1>9. PICK e \in DrillStates : e = DrillTo(s) /\ e.at = s /\ e.rest = drill.rest
    BY <1>8, ToStep
  <1> QED BY <1>1, <1>3, <1>4, <1>6, <1>7, <1>8, <1>9, Standing, CallStep

LEMMA WriteProbeKeeps ==
    ASSUME DrillInv, WriteProbe
    PROVE  DrillInv'
  <1>1. drill.at = "probe" /\ drill.at \in Breaking /\ Kept
    BY DEF WriteProbe, Breaking
  <1>2. CASE Call([world EXCEPT !.canary.doc = TRUE], DrillTo("inject"))
    <2>1. PICK w \in Worlds, c \in Canaries : w = world /\ c = w.canary
      BY Standing
    <2>2. PICK c2 \in Canaries : c2 = [c EXCEPT !.doc = TRUE] /\ c2.of = c.of
      BY CanarySets
    <2>3. PICK v : v = [w EXCEPT !.canary = c2]
      OBVIOUS
    <2>4. v \in Worlds /\ SameBut(w, v) /\ v.keys = w.keys /\ v.canary = c2
      BY <2>3, WorldCanary
    <2>5. Call(v, DrillTo("inject"))
      BY <1>2, <2>1, <2>2, <2>3
    <2>6. "inject" \in Breaking /\ "inject" \in DrillSteps
      BY DEF Breaking, DrillSteps
    <2>7. PICK e \in DrillStates : e = DrillTo("inject") /\ e.at = "inject" /\ e.rest = drill.rest
      BY <2>6, ToStep
    <2>8. c.of = active.id \/ active.uuid < world.uuid
      BY <1>1, <2>1 DEF DrillInv, DrillKnows
    <2> QED BY <1>1, <2>1, <2>2, <2>4, <2>5, <2>6, <2>7, <2>8, Standing, CallStep
  <1>3. CASE Problem /\ UNCHANGED world
    BY <1>1, <1>3, FailingStep
  <1> QED BY <1>2, <1>3 DEF WriteProbe

(* Every call of a script leaves the canary with its mark. *)
LEMMA InjectStep ==
    ASSUME DrillInv, drill.at = "inject", NEW after, Call(after, Following), Kept,
           after \in Worlds, SameBut(world, after), after.keys \subseteq active.keys,
           after.canary # NoCanary => after.canary.of = world.canary.of,
           after.canary.of = world.canary.of
    PROVE  DrillInv'
  <1>1. drill.at \in Breaking /\ {"inject", "observe"} \subseteq Breaking /\ drill \in DrillStates
    BY Standing DEF Breaking
  <1>2. world.canary.of = active.id \/ active.uuid < world.uuid
    BY DEF DrillInv, DrillKnows
  <1>3. PICK e \in DrillStates : e = Following /\ e.at \in {"inject", "observe"} /\ (drill.rest \in Seq(OutageCalls) => e.rest \in Seq(OutageCalls))
    BY <1>1, FollowingIs
  <1> QED BY <1>1, <1>2, <1>3, CallStep

LEMMA ClusterPatchKeeps ==
    ASSUME DrillInv, ClusterPatch
    PROVE  DrillInv'
  <1>1. drill.at = "inject" /\ drill.at \in Breaking /\ Kept
    BY DEF ClusterPatch, Injecting, Breaking
  <1>2. CASE Call([world EXCEPT !.keys = @ \cup active.keys], Following)
    <2>1. PICK w \in Worlds, x \in SUBSET Settings : w = world /\ x = world.keys \cup active.keys /\ x \subseteq active.keys
      BY <1>1, Standing, Steps
    <2>2. PICK v : v = [w EXCEPT !.keys = x]
      OBVIOUS
    <2>3. v \in Worlds /\ SameBut(w, v) /\ v.keys = x /\ v.canary = w.canary
      BY <2>2, WorldKeys
    <2>4. Call(v, Following)
      BY <1>2, <2>1, <2>2
    <2> QED BY <1>1, <2>1, <2>3, <2>4, InjectStep
  <1>3. CASE Problem /\ UNCHANGED world
    BY <1>1, <1>3, FailingStep
  <1> QED BY <1>2, <1>3 DEF ClusterPatch

LEMMA CanarySettingKeeps ==
    ASSUME DrillInv, CanarySetting
    PROVE  DrillInv'
  <1>1. drill.at = "inject" /\ drill.at \in Breaking /\ Kept
    BY DEF CanarySetting, Injecting, Breaking
  <1>2. PICK w \in Worlds, c \in Canaries : w = world /\ c = w.canary /\ w.keys \subseteq active.keys
    BY <1>1, Standing, Steps
  <1>3. PICK c2 \in Canaries : Call([w EXCEPT !.canary = c2], Following) /\ c2.of = c.of
    <2>1. CASE Call([world EXCEPT !.canary.copies = 2], Following)
      <3>1. PICK c2 \in Canaries : c2 = [c EXCEPT !.copies = 2] /\ c2.of = c.of
        BY CanarySets
      <3>2. [w EXCEPT !.canary.copies = 2] = [w EXCEPT !.canary = c2]
        BY <1>2, <3>1
      <3> QED BY <1>2, <2>1, <3>1, <3>2
    <2>2. CASE Call([world EXCEPT !.canary.block = TRUE], Following)
      <3>1. PICK c2 \in Canaries : c2 = [c EXCEPT !.block = TRUE] /\ c2.of = c.of
        BY CanarySets
      <3>2. [w EXCEPT !.canary.block = TRUE] = [w EXCEPT !.canary = c2]
        BY <1>2, <3>1
      <3> QED BY <1>2, <2>2, <3>1, <3>2
    <2> QED BY <2>1, <2>2 DEF CanarySetting
  <1>4. PICK v : v = [w EXCEPT !.canary = c2]
    OBVIOUS
  <1>5. v \in Worlds /\ SameBut(w, v) /\ v.keys = w.keys /\ v.canary = c2
    BY <1>4, WorldCanary
  <1> QED BY <1>1, <1>2, <1>3, <1>4, <1>5, InjectStep

LEMMA StopNodeKeeps ==
    ASSUME DrillInv, StopNode
    PROVE  DrillInv'
  <1>1. drill.at = "inject" /\ drill.at \in Breaking /\ Kept /\ drill \in DrillStates
    BY Standing DEF StopNode, Injecting, Breaking
  <1>2. PICK n \in drill.todo :
         Call([world EXCEPT !.down = @ \cup {n}],
              IF drill.todo = {n} THEN [Following EXCEPT !.todo = {}] ELSE [drill EXCEPT !.todo = @ \ {n}])
    BY DEF StopNode
  <1>3. PICK w \in Worlds, x \in SUBSET Nodes : w = world /\ x = world.down \cup {n} /\ w.keys \subseteq active.keys
    <2>1. drill.todo \subseteq Nodes
      BY <1>1 DEF DrillStates
    <2>2. world \in Worlds /\ world.down \subseteq Nodes /\ world.keys \subseteq active.keys
      BY <1>1, Standing, Steps
    <2> QED BY <2>1, <2>2
  <1>4. PICK v : v = [w EXCEPT !.down = x]
    OBVIOUS
  <1>5. v \in Worlds /\ SameBut(w, v) /\ v.keys = w.keys /\ v.canary = w.canary
    BY <1>4, WorldDown
  <1>6. PICK e \in DrillStates :
           /\ Call(v, e) /\ e.at \in {"inject", "observe"} /\ (drill.rest \in Seq(OutageCalls) => e.rest \in Seq(OutageCalls))
    <2>1. CASE drill.todo = {n}
      <3>1. PICK f \in DrillStates : f = Following /\ f.at \in {"inject", "observe"} /\ (drill.rest \in Seq(OutageCalls) => f.rest \in Seq(OutageCalls))
        BY <1>1, FollowingIs
      <3>2. PICK e : e = [f EXCEPT !.todo = {}]
        OBVIOUS
      <3>3. e \in DrillStates /\ e.at = f.at /\ e.rest = f.rest
        BY <3>2, DrillTodo
      <3>4. Call(v, e)
        BY <1>2, <1>3, <1>4, <2>1, <3>1, <3>2
      <3> QED BY <3>1, <3>3, <3>4
    <2>2. CASE drill.todo # {n}
      <3>1. PICK d \in DrillStates, y \in SUBSET Nodes : d = drill /\ y = drill.todo \ {n}
        BY <1>1 DEF DrillStates
      <3>2. PICK e : e = [d EXCEPT !.todo = y]
        OBVIOUS
      <3>3. e \in DrillStates /\ e.at = d.at /\ e.rest = d.rest
        BY <3>2, DrillTodo
      <3>4. Call(v, e)
        BY <1>2, <1>3, <1>4, <2>2, <3>1, <3>2
      <3> QED BY <1>1, <3>1, <3>3, <3>4
    <2> QED BY <2>1, <2>2
  <1>7. world.canary.of = active.id \/ active.uuid < world.uuid
    BY <1>1 DEF DrillInv, DrillKnows
  <1>8. {"inject", "observe"} \subseteq Breaking
    BY DEF Breaking
  <1> QED BY <1>1, <1>3, <1>5, <1>6, <1>7, <1>8, CallStep

(* The journal of a drill that begins. *)
LEMMA KeysAre ==
    ASSUME NEW s
    PROVE  Keys(s) \subseteq Settings /\ (s \in Scenarios9 => Keys(s) = {})
  BY DEF Keys, Settings, Scenarios9

LEMMA ScriptIs ==
    ASSUME NEW s \in Scenarios7 \cup Scenarios9
    PROVE  Script(s) \in Seq(InjectCalls) /\ (s \in Scenarios9 => Script(s) \in Seq(OutageCalls))
  <1>1. {"mark", "stop"} \subseteq OutageCalls /\ {"mark", "stop", "replicas", "patch", "grow", "block"} \subseteq InjectCalls
    BY DEF OutageCalls, InjectCalls
  <1>2. CASE s \in NodeScenarios \cup Scenarios9
    <2>1. Script(s) = <<"mark", "stop">>
      BY <1>2 DEF Script, NodeScenarios, Scenarios9
    <2>2. <<"mark", "stop">> \in Seq(OutageCalls)
      BY <1>1
    <2>3. <<"mark", "stop">> \in Seq(InjectCalls)
      BY <1>1
    <2> QED BY <2>1, <2>2, <2>3
  <1>3. CASE s \notin NodeScenarios \cup Scenarios9
    <2>1. \/ s = "too-many-replicas" \/ s \in {"allocation-disabled", "disk-watermark"} \/ s = "write-block"
          \/ s \in {"drain-node", "zone-awareness", "rebalance-disabled"} \/ s = "allocation-filter"
      BY <1>3 DEF Scenarios7
    <2>2. Script(s) \in {<<"replicas">>, <<"patch", "grow">>, <<"block">>, <<"patch">>, <<>>}
      BY <1>3, <2>1 DEF Script
    <2>3. <<"replicas">> \in Seq(InjectCalls) /\ <<"patch", "grow">> \in Seq(InjectCalls)
      BY <1>1
    <2>4. <<"block">> \in Seq(InjectCalls) /\ <<"patch">> \in Seq(InjectCalls) /\ <<>> \in Seq(InjectCalls)
      BY <1>1
    <2> QED BY <1>3, <2>2, <2>3, <2>4
  <1> QED BY <1>2, <1>3

LEMMA JournalIs ==
    ASSUME DrillInv, used.drills < MaxDrills, NEW s \in Scenarios7 \cup Scenarios9, NEW t \in SUBSET Nodes,
           NEW i \in Indices \cup {None}, NEW a, a = Journal(s, t, i)
    PROVE  /\ a \in Journals /\ a.id = used.drills + 1 /\ a.id # 0 /\ a.uuid = world.uuid /\ a.keys = Keys(s)
           /\ a.observed = FALSE /\ a.error = FALSE
  <1>1. PICK id \in 1..MaxDrills : id = used.drills + 1 /\ id # 0
    BY SearchAssumption DEF DrillInv, DrillTypes
  <1>2. PICK keys \in SUBSET Settings : keys = Keys(s)
    BY KeysAre
  <1>3. PICK uuid \in Nat, gen \in Nat, before \in Nodes : uuid = world.uuid /\ gen = world.gen /\ before = world.master
    BY DEF DrillInv, DrillTypes, Worlds
  <1>4. PICK base \in [Indices -> [id : Nat, docs : SUBSET SeedContents]] : base = ReadSeeds
    <2>1. index \in [Indices -> SeedIndexRows]
      BY DEF DrillInv, DrillTypes, SeedsFit
    <2>2. \A j \in Indices : index[j].id \in Nat /\ index[j].docs \in SUBSET SeedContents
      BY <2>1 DEF SeedIndexRows
    <2> QED BY <2>2 DEF ReadSeeds
  <1>5. a = [id |-> id, scenario |-> s, targets |-> t, index |-> i, keys |-> keys, gen |-> gen, uuid |-> uuid, baseline |-> base,
             before |-> before, restart |-> {}, observed |-> FALSE, error |-> FALSE]
    BY <1>1, <1>2, <1>3, <1>4 DEF Journal
  <1>6. a \in Journals
    BY <1>5 DEF Journals
  <1> QED BY <1>1, <1>2, <1>3, <1>5, <1>6

LEMMA BeginIs ==
    ASSUME NEW r \in Seq(InjectCalls), NEW e,
           \/ \E leave \in BOOLEAN : e = [Idle EXCEPT !.at = "create", !.rest = r, !.leave = leave]
           \/ e = [Idle EXCEPT !.at = "create", !.rest = r]
    PROVE  e \in DrillStates /\ e.at = "create" /\ e.rest = r
  <1>1. PICK d \in DrillStates : d = Idle
    BY NoDrill
  <1>2. "create" \in DrillSteps
    BY DEF DrillSteps, Breaking
  <1>3. CASE \E leave \in BOOLEAN : e = [d EXCEPT !.at = "create", !.rest = r, !.leave = leave]
    <2>1. PICK leave \in BOOLEAN : e = [d EXCEPT !.at = "create", !.rest = r, !.leave = leave]
      BY <1>3
    <2> QED BY <1>2, <2>1 DEF DrillStates
  <1>4. CASE e = [d EXCEPT !.at = "create", !.rest = r]
    BY <1>2, <1>4 DEF DrillStates
  <1> QED BY <1>1, <1>3, <1>4

LEMMA BeginKeeps ==
    ASSUME DrillInv, NEW s \in Scenarios, NEW n \in Nodes, NEW i \in Indices, NEW leave \in BOOLEAN, Begin(s, n, i, leave)
    PROVE  DrillInv'
  <1>1. /\ drill = Idle /\ active.id = 0 /\ used.drills < MaxDrills /\ used' = [used EXCEPT !.drills = @ + 1]
        /\ UNCHANGED <<lab, world, index, manifest, report, load, spent>>
    BY DEF Begin, Active
  <1>2. PICK t \in SUBSET Nodes, j \in Indices \cup {None} :
           /\ active' = Journal(s, t, j) /\ s \in Scenarios7 \cup Scenarios9 /\ (lab = "es9" => s \in Scenarios9)
    <2>1. CASE lab = "es7"
      <3>1. s \in Scenarios7 /\ active' = Journal(s, IF s \in NodeScenarios THEN {n} ELSE {}, IF s = "too-many-replicas" THEN i ELSE None)
        BY <2>1 DEF Begin, Begin7
      <3>2. PICK t \in SUBSET Nodes : t = IF s \in NodeScenarios THEN {n} ELSE {}
        OBVIOUS
      <3>3. PICK j \in Indices \cup {None} : j = IF s = "too-many-replicas" THEN i ELSE None
        OBVIOUS
      <3> QED BY <2>1, <3>1, <3>2, <3>3
    <2>2. CASE lab # "es7"
      <3>1. s \in Scenarios9 /\ active' = Journal(s, IF s = "quorum-loss" THEN Nodes ELSE {n}, None)
        BY <2>2 DEF Begin, Begin9
      <3>2. PICK t \in SUBSET Nodes : t = IF s = "quorum-loss" THEN Nodes ELSE {n}
        OBVIOUS
      <3> QED BY <3>1, <3>2
    <2> QED BY <2>1, <2>2
  <1>3. PICK a \in Journals : /\ a = active' /\ a.id # 0 /\ a.uuid = world.uuid /\ a.keys = Keys(s) /\ a.error = FALSE
    BY <1>1, <1>2, JournalIs
  <1>4. PICK r \in Seq(InjectCalls) : r = Script(s) /\ (lab = "es9" => r \in Seq(OutageCalls))
    BY <1>2, ScriptIs
  <1>5. PICK e \in DrillStates : e = drill' /\ e.at = "create" /\ e.rest = r
    <2>1. PICK e : e = drill'
      OBVIOUS
    <2>2. CASE e = [Idle EXCEPT !.at = "create", !.rest = Script(s), !.leave = leave]
      <3>1. e = [Idle EXCEPT !.at = "create", !.rest = r, !.leave = leave]
        BY <1>4, <2>2
      <3>2. e \in DrillStates /\ e.at = "create" /\ e.rest = r
        BY <3>1, BeginIs
      <3> QED BY <2>1, <3>2
    <2>3. CASE e = [Idle EXCEPT !.at = "create", !.rest = Script(s)]
      <3>1. e = [Idle EXCEPT !.at = "create", !.rest = r]
        BY <1>4, <2>3
      <3>2. e \in DrillStates /\ e.at = "create" /\ e.rest = r
        BY <3>1, BeginIs
      <3> QED BY <2>1, <3>2
    <2> QED BY <2>1, <2>2, <2>3 DEF Begin, Begin7, Begin9
  <1>6. DrillKnows(world, active, drill, index)
    BY DEF DrillInv
  <1>7. world.keys = {} /\ world.canary = NoCanary
    BY <1>1, <1>6 DEF DrillKnows, DrillRestored
  <1>8. world.uuid \in Nat
    BY DEF DrillInv, DrillTypes, Worlds
  <1>9. "create" \notin {"probe", "inject", "delete", "finish", "unlink", "recover"} \cup Repairing /\ "create" # None
    BY DEF Repairing, None
  <1>10. DrillKnows(world, a, e, index)
    BY <1>3, <1>5, <1>7, <1>8, <1>9 DEF DrillKnows
  <1>11. lab = "es9" => OutageKnows(world, a, e, index)
    BY <1>2, <1>3, <1>4, <1>5, <1>9, KeysAre DEF OutageKnows, DrillInv
  <1>12. used' \in [drills : 0..MaxDrills, loads : Nat]
    BY <1>1, SearchAssumption DEF DrillInv, DrillTypes
  <1>13. DrillTypes'
    BY <1>1, <1>3, <1>5, <1>12 DEF DrillInv, DrillTypes
  <1> QED BY <1>1, <1>3, <1>5, <1>10, <1>11, <1>13 DEF DrillInv

LEMMA MarkRestartKeeps ==
    ASSUME DrillInv, MarkRestart
    PROVE  DrillInv'
  <1>1. drill.at = "inject" /\ drill.at \in Breaking /\ Kept /\ drill \in DrillStates /\ UNCHANGED world /\ active \in Journals
    BY Standing, Steps DEF MarkRestart, Injecting, Breaking
  <1>2. CASE Problem
    BY <1>1, <1>2, FailingStep
  <1>3. CASE MarkTargets /\ drill' = [Following EXCEPT !.todo = active.targets]
    <2>1. PICK a \in Journals, t \in SUBSET Nodes, g \in Nat : a = active /\ t = active.targets /\ g = world.gen
      BY <1>1 DEF Journals, DrillInv, DrillTypes, Worlds
    <2>2. PICK b : b = active' /\ b = [a EXCEPT !.restart = t, !.gen = g]
      BY <1>3, <2>1 DEF MarkTargets
    <2>3. b \in Journals /\ b.id = a.id /\ b.uuid = a.uuid /\ b.keys = a.keys /\ b.error = a.error
      BY <2>2 DEF Journals
    <2>4. PICK f \in DrillStates : f = Following /\ f.at \in {"inject", "observe"} /\ (drill.rest \in Seq(OutageCalls) => f.rest \in Seq(OutageCalls))
      BY <1>1, FollowingIs
    <2>5. PICK e : e = drill' /\ e = [f EXCEPT !.todo = t]
      BY <1>3, <2>1, <2>4
    <2>6. e \in DrillStates /\ e.at = f.at /\ e.rest = f.rest
      BY <2>5, DrillTodo
    <2>7. world.canary.of = active.id \/ active.uuid < world.uuid
      BY <1>1 DEF DrillInv, DrillKnows
    <2>8. {"inject", "observe"} \subseteq Breaking
      BY DEF Breaking
    <2>9. UNCHANGED <<lab, manifest, load, used, report, index>>
      BY <1>1 DEF Kept, loading
    <2> QED BY <1>1, <2>1, <2>2, <2>3, <2>4, <2>5, <2>6, <2>7, <2>8, <2>9, Standing, BreakingStep
  <1> QED BY <1>2, <1>3 DEF MarkRestart

LEMMA NothingToInjectKeeps ==
    ASSUME DrillInv, NothingToInject
    PROVE  DrillInv'
  <1>1. drill.at = "inject" /\ drill.at \in Breaking /\ Kept /\ UNCHANGED <<world, active>> /\ drill' = DrillTo("observe") /\ active \in Journals
    BY Standing, Steps DEF NothingToInject, Breaking
  <1>2. "observe" \in Breaking /\ "observe" \in DrillSteps /\ "observe" \notin {"probe", "inject"}
    BY DEF Breaking, DrillSteps
  <1>3. PICK e \in DrillStates : e = drill' /\ e.at = "observe" /\ e.rest = drill.rest
    BY <1>1, <1>2, ToStep
  <1>4. UNCHANGED <<lab, manifest, load, used, report, index>>
    BY <1>1 DEF Kept, loading
  <1> QED BY <1>1, <1>2, <1>3, <1>4, Standing, BreakingStep

(* The replicas of a seed index that is there. *)
LEMMA ReplicasAre ==
    ASSUME SeedsFit(index), NEW i, NEW jx, NEW r \in {"layout", "many"}, jx = [index EXCEPT ![i].replicas = r],
           i \in Present \/ i \notin Indices
    PROVE  SeedsStay(index, jx) /\ (r = "layout" => NoMoreReplicas(index, jx))
  <1>1. PICK ix \in [Indices -> SeedIndexRows] : ix = index
    BY DEF SeedsFit
  <1>2. \A j \in Indices : [ix[j] EXCEPT !.replicas = r] \in SeedIndexRows
    BY DEF SeedIndexRows
  <1>3. \A j \in Indices : [ix[j] EXCEPT !.replicas = r].config = ix[j].config /\ [ix[j] EXCEPT !.replicas = r].docs = ix[j].docs
                           /\ [ix[j] EXCEPT !.replicas = r].replicas = r
    BY DEF SeedIndexRows
  <1>4. jx \in [Indices -> SeedIndexRows] /\ \A j \in Indices : jx[j] = IF j = i THEN [ix[j] EXCEPT !.replicas = r] ELSE ix[j]
    BY <1>1, <1>2
  <1>5. \A j \in Indices : jx[j].config = ix[j].config /\ jx[j].docs = ix[j].docs /\ (jx[j].replicas = ix[j].replicas \/ (j = i /\ jx[j].replicas = r))
    BY <1>3, <1>4
  <1>6. i \in Indices => ix[i].config # None
    BY <1>1 DEF Present
  <1>7. \A j \in Indices : ix[j].config = None => ix[j].replicas # "many"
    BY <1>1 DEF SeedsFit
  <1>8. SeedsFit(jx)
    BY <1>4, <1>5, <1>6, <1>7 DEF SeedsFit
  <1> QED BY <1>1, <1>5, <1>8 DEF SeedsStay, NoMoreReplicas

LEMMA TooManyReplicasKeeps ==
    ASSUME DrillInv, TooManyReplicas
    PROVE  DrillInv'
  <1>1. /\ drill.at = "inject" /\ drill.at \in Breaking /\ drill \in DrillStates /\ active \in Journals
        /\ UNCHANGED <<lab, world, report, manifest, load, used>>
    BY Standing, Steps DEF TooManyReplicas, Injecting, Breaking, loading
  <1>2. lab # "es9"
    <2> SUFFICES ASSUME lab = "es9"
                 PROVE  FALSE
      OBVIOUS
    <2>1. drill.rest \in Seq(OutageCalls)
      BY DEF DrillInv, OutageKnows
    <2>2. drill.rest # <<>> /\ Head(drill.rest) = "replicas"
      BY DEF TooManyReplicas, Injecting
    <2>3. Head(drill.rest) \in OutageCalls
      BY <2>1, <2>2
    <2> QED BY <2>2, <2>3 DEF OutageCalls
  <1>3. SeedsStay(index, index')
    <2>1. CASE index' = index
      BY <2>1, Standing
    <2>2. CASE index' # index
      <3>1. active.index \in Present /\ index' = [index EXCEPT ![active.index].replicas = "many"]
        BY <2>2 DEF TooManyReplicas
      <3> QED BY <3>1, Standing, ReplicasAre
    <2> QED BY <2>1, <2>2
  <1>4. CASE Problem
    BY <1>1, <1>2, <1>3, <1>4, Standing, BreakingStep
  <1>5. CASE drill' = Following /\ active' = active
    <2>1. PICK e \in DrillStates : e = Following /\ e.at \in {"inject", "observe"}
      BY <1>1, FollowingIs
    <2>2. drill.rest \in Seq(OutageCalls) => drill'.rest \in Seq(OutageCalls)
      BY <1>1, <1>5, FollowingIs
    <2>3. {"inject", "observe"} \subseteq Breaking
      BY DEF Breaking
    <2>4. world.canary.of = active.id \/ active.uuid < world.uuid
      BY <1>1 DEF DrillInv, DrillKnows
    <2> QED BY <1>1, <1>2, <1>3, <1>5, <2>1, <2>2, <2>3, <2>4, Standing, BreakingStep
  <1> QED BY <1>4, <1>5 DEF TooManyReplicas

(* A command that ends, or recovery that begins, leaves cluster and journal's facts as they are. *)
LEMMA AsideStep ==
    ASSUME DrillInv, UNCHANGED <<lab, world, index, manifest, load, used, report>>,
           \/ active' = active
           \/ active' \in Journals /\ active'.id = active.id /\ active'.uuid = active.uuid /\ active'.keys = active.keys,
           drill' \in DrillStates, drill'.rest \in {drill.rest, <<>>}, drill'.at \in {None, "recover"},
           drill'.at = "recover" => active.id # 0,
           lab = "es9" /\ drill'.at = "recover" /\ ~ drill'.failed => active'.observed /\ ~ active'.error
    PROVE  DrillInv'
  <1>1. PICK w, a, d, ix : w = world /\ a = active /\ d = drill /\ ix = index
    OBVIOUS
  <1>2. PICK b, e : b = active' /\ e = drill'
    OBVIOUS
  <1>3. DrillKnows(w, a, d, ix)
    BY <1>1 DEF DrillInv
  <1>4. b.id = a.id /\ (a.id # 0 => b.uuid = a.uuid /\ b.keys = a.keys)
    BY <1>1, <1>2
  <1>5. e.at \notin Breaking \cup Repairing \cup {"probe", "inject", "delete", "finish", "unlink"}
    BY <1>2, Steps
  <1>6. DrillKnows(w, b, e, ix)
    <2>1. e.at # None => b.id # 0
      BY <1>1, <1>2, <1>4
    <2>2. b.id # 0 => b.uuid <= w.uuid /\ w.keys \subseteq b.keys
      BY <1>3, <1>4 DEF DrillKnows
    <2>3. w.canary # NoCanary => b.id # 0 /\ (w.canary.of = b.id \/ (b.uuid < w.uuid /\ e.at \notin Repairing))
      BY <1>3, <1>4, <1>5 DEF DrillKnows
    <2>4. b.id = 0 => DrillRestored(w, ix)
      BY <1>3, <1>4 DEF DrillKnows
    <2> QED BY <1>5, <2>1, <2>2, <2>3, <2>4 DEF DrillKnows
  <1>7. lab = "es9" => OutageKnows(w, b, e, ix)
    <2> SUFFICES ASSUME lab = "es9"
                 PROVE  OutageKnows(w, b, e, ix)
      OBVIOUS
    <2>1. OutageKnows(w, a, d, ix)
      BY <1>1 DEF DrillInv
    <2>2. e.rest \in Seq(OutageCalls)
      <3>1. <<>> \in Seq(OutageCalls)
        OBVIOUS
      <3> QED BY <1>1, <1>2, <2>1, <3>1 DEF OutageKnows
    <2>3. e.at = "recover" /\ ~ e.failed => b.observed /\ ~ b.error
      BY <1>2
    <2> QED BY <1>4, <1>5, <2>1, <2>2, <2>3 DEF OutageKnows
  <1>8. DrillTypes'
    BY DEF DrillInv, DrillTypes
  <1> QED BY <1>1, <1>2, <1>6, <1>7, <1>8 DEF DrillInv

LEMMA CheckKeeps ==
    ASSUME DrillInv, Check
    PROVE  DrillInv'
  <1>1. drill.at = "observe" /\ drill.at \in Breaking /\ Kept /\ UNCHANGED world /\ active \in Journals
    BY Standing DEF Check, Breaking
  <1>2. UNCHANGED <<lab, manifest, load, used, report, index>>
    BY <1>1 DEF Kept, loading
  <1>3. CASE Problem
    BY <1>1, <1>3, FailingStep
  <1>4. CASE active' = [active EXCEPT !.observed = TRUE] /\ drill' = IF drill.leave THEN Idle ELSE DrillTo("recover")
    <2>1. PICK a, b : a = active /\ b = active' /\ b = [a EXCEPT !.observed = TRUE] /\ a \in Journals
      BY <1>1, <1>4
    <2>2. b \in Journals /\ b.id = a.id /\ b.uuid = a.uuid /\ b.keys = a.keys /\ b.observed = TRUE /\ b.error = a.error
      BY <2>1 DEF Journals
    <2>3. "recover" \in DrillSteps
      BY Steps
    <2>4. drill' \in DrillStates /\ drill'.rest \in {drill.rest, <<>>} /\ drill'.at \in {None, "recover"}
      BY <1>4, <2>3, ToStep, NoDrill
    <2>5. lab = "es9" => ~ active.error
      BY <1>1 DEF DrillInv, OutageKnows
    <2> QED BY <1>1, <1>2, <2>1, <2>2, <2>4, <2>5, Standing, AsideStep, Steps
  <1> QED BY <1>3, <1>4 DEF Check

LEMMA ManualCheckKeeps ==
    ASSUME DrillInv, ManualCheck
    PROVE  DrillInv'
  <1>1. drill = Idle /\ Kept /\ UNCHANGED <<world, drill>> /\ active \in Journals /\ lab = "es7"
    BY Standing DEF ManualCheck, Active
  <1>2. UNCHANGED <<lab, manifest, load, used, report, index>>
    BY <1>1 DEF Kept, loading
  <1>3. PICK a \in Journals : a = active
    BY <1>1
  <1>4. active' = [a EXCEPT !.observed = Observed, !.error = a.error \/ ~ Observed]
    BY <1>3 DEF ManualCheck
  <1>5. a.error \in BOOLEAN /\ Observed \in BOOLEAN
    <2>1. a.error \in BOOLEAN
      BY DEF Journals
    <2>2. Observed \in BOOLEAN
      BY DEF Observed, Observed7, Observed9, ObservedOutage, ObservedQuorumLoss
    <2> QED BY <2>1, <2>2
  <1>6. PICK p \in BOOLEAN, x \in BOOLEAN : p = Observed /\ x = (a.error \/ ~ Observed)
    BY <1>5
  <1>7. PICK b : b = active' /\ b = [a EXCEPT !.observed = p, !.error = x]
    BY <1>4, <1>6
  <1>8. b \in Journals /\ b.id = a.id /\ b.uuid = a.uuid /\ b.keys = a.keys
    BY <1>7 DEF Journals
  <1>9. "recover" # None
    BY DEF None
  <1> QED BY <1>1, <1>2, <1>3, <1>7, <1>8, <1>9, NoDrill, AsideStep

LEMMA RecoverKeeps ==
    ASSUME DrillInv, Recover
    PROVE  DrillInv'
  <1>1. drill = Idle /\ Kept /\ UNCHANGED <<world, active>> /\ active.id # 0
    BY DEF Recover, Active
  <1>2. UNCHANGED <<lab, manifest, load, used, report, index>>
    BY <1>1 DEF Kept, loading
  <1>3. PICK c \in DrillStates : c = [Idle EXCEPT !.at = "recover"] /\ c.at = "recover" /\ c.rest = <<>>
    <2>1. PICK c : c = [Idle EXCEPT !.at = "recover"]
      OBVIOUS
    <2>2. c \in DrillStates /\ c.at = "recover" /\ c.rest = <<>>
      BY <2>1, NoDrill, DrillAt, Steps
    <2> QED BY <2>1, <2>2
  <1>4. PICK f \in BOOLEAN : f = (lab = "es9")
    OBVIOUS
  <1>5. PICK e : e = drill' /\ e = [c EXCEPT !.failed = f]
    BY <1>3, <1>4 DEF Recover, Idle
  <1>6. e \in DrillStates /\ e.at = c.at /\ e.rest = c.rest /\ e.failed = f
    BY <1>5 DEF DrillStates
  <1> QED BY <1>1, <1>2, <1>3, <1>4, <1>5, <1>6, AsideStep

LEMMA KillKeeps ==
    ASSUME DrillInv, Kill
    PROVE  DrillInv'
  <1>1. UNCHANGED <<lab, world, index, manifest, active, report, load, used>> /\ drill' = Idle
    BY DEF Kill
  <1> QED BY <1>1, NoDrill, Steps, AsideStep

-----------------------------------------------------------------------------
(* Recovery, call by call. *)

LEMMA IdentifyKeeps ==
    ASSUME DrillInv, Identify
    PROVE  DrillInv'
  <1>1. /\ drill.at = "recover" /\ UNCHANGED <<lab, world, index, active, manifest, load, used, report>>
        /\ drill \in DrillStates /\ active \in Journals /\ active.restart \subseteq Nodes
    BY Standing, Steps DEF Identify, Kept, loading
  <1>2. CASE drill' = Idle
    BY <1>1, <1>2, NoDrill, Steps, AsideStep
  <1>3. CASE SameCluster /\ drill' = [DrillTo("start") EXCEPT !.todo = active.restart]
    <2>1. "start" \in Repairing /\ "start" \in DrillSteps /\ "start" \notin {"delete", "finish", "unlink", None}
      BY DEF Repairing, DrillSteps, None
    <2>2. PICK c : c = DrillTo("start") /\ c \in DrillStates /\ c.at = "start" /\ c.rest = drill.rest /\ c.failed = drill.failed
      BY <2>1, ToStep
    <2>3. PICK t \in SUBSET Nodes, e \in {drill'} : t = active.restart /\ e = [c EXCEPT !.todo = t]
      BY <1>1, <1>3, <2>2
    <2>4. e \in DrillStates /\ e.at = c.at /\ e.rest = c.rest /\ e.failed = c.failed
      BY <2>2, <2>3, DrillTodo
    <2>5. world.uuid = active.uuid
      BY <1>3 DEF SameCluster
    <2>6. report' \in {None, "PASS", "FAIL"}
      BY <1>1 DEF DrillInv, DrillTypes
    <2>7. world'.canary = NoCanary \/ (world.canary # NoCanary /\ world'.canary.of = world.canary.of)
      BY <1>1
    <2> QED BY <1>1, <2>1, <2>2, <2>3, <2>4, <2>5, <2>6, <2>7, Standing, RepairingStep
  <1> QED BY <1>2, <1>3 DEF Identify

(* A call of the recovery: done, or refused with or without its effect. *)
LEMMA RepairStep ==
    ASSUME DrillInv, drill.at \in Repairing, UNCHANGED active, Kept,
           NEW after, NEW next, Repair(after, next),
           after \in Worlds, SameBut(world, after), after.down \subseteq world.down, after.keys \subseteq world.keys,
           after.canary = NoCanary \/ (world.canary # NoCanary /\ after.canary.of = world.canary.of),
           next \in DrillStates, next.rest = drill.rest, next.failed = drill.failed, next.at \in Repairing,
           next.at \notin {"delete", "unlink"},
           next.at = "finish" /\ ~ next.errors => DrillRestored(after, index) /\ after.canary = NoCanary
    PROVE  DrillInv'
  <1>1. UNCHANGED <<lab, index, manifest, load, used, report>> /\ drill.at # "recover"
    BY Steps DEF Kept, loading
  <1>2. report' \in {None, "PASS", "FAIL"}
    BY <1>1 DEF DrillInv, DrillTypes
  <1>3. PICK r : r = IF lab = "es7" THEN [next EXCEPT !.errors = TRUE] ELSE Idle
    OBVIOUS
  <1>4. /\ r \in DrillStates /\ r.rest \in {drill.rest, <<>>} /\ r.at \in (Repairing \ {"delete", "unlink"}) \cup {None}
        /\ r.at # None => r.failed = drill.failed
        /\ r.at # "finish" \/ r.errors
    <2>1. CASE lab = "es7"
      <3>1. r = [next EXCEPT !.errors = TRUE]
        BY <1>3, <2>1
      <3>2. r \in DrillStates /\ r.at = next.at /\ r.rest = next.rest /\ r.failed = next.failed /\ r.errors = TRUE
        BY <3>1, DrillErrors
      <3> QED BY <3>2
    <2>2. CASE lab # "es7"
      <3>1. r = Idle
        BY <1>3, <2>2
      <3> QED BY <3>1, NoDrill, Steps
    <2> QED BY <2>1, <2>2
  <1>5. CASE world' = after /\ drill' = next
    <2>1. drill'.at \in Repairing \cup {None} /\ (drill'.at # None => drill'.failed = drill.failed)
      BY <1>5
    <2> QED BY <1>1, <1>2, <1>5, <2>1, Standing, RepairingStep
  <1>6. CASE world' \in {after, world} /\ drill' = r
    <2>1. /\ world' \in Worlds /\ SameBut(world, world') /\ world'.down \subseteq world.down /\ world'.keys \subseteq world.keys
          /\ world'.canary = NoCanary \/ (world.canary # NoCanary /\ world'.canary.of = world.canary.of)
      <3>1. CASE world' = after
        BY <3>1
      <3>2. CASE world' = world
        BY <3>2, Standing
      <3> QED BY <1>6, <3>1, <3>2
    <2>2. "finish" # None /\ None \notin {"delete", "unlink"}
      BY Steps
    <2>3. ~ (drill'.at \in {"delete", "unlink"} \/ (drill'.at = "finish" /\ ~ drill'.errors))
      BY <1>4, <1>6, <2>2
    <2> QED BY <1>1, <1>2, <1>4, <1>6, <2>1, <2>3, Standing, RepairingStep
  <1> QED BY <1>3, <1>5, <1>6 DEF Repair

(* A step of the recovery that only moves on. *)
LEMMA OnStep ==
    ASSUME DrillInv, drill.at \in Repairing, UNCHANGED active, Kept, UNCHANGED world,
           drill' \in DrillStates, drill'.rest \in {drill.rest, <<>>}, drill'.at \in Repairing \cup {None},
           drill'.at # None => drill'.failed = drill.failed,
           drill'.at \in {"delete", "unlink"} \/ (drill'.at = "finish" /\ ~ drill'.errors) => DrillRestored(world, index),
           drill'.at = "unlink" \/ (drill'.at = "finish" /\ ~ drill'.errors) => world.canary = NoCanary
    PROVE  DrillInv'
  <1>1. UNCHANGED <<lab, index, manifest, load, used, report>> /\ drill.at # "recover"
    BY Steps DEF Kept, loading
  <1>2. report' \in {None, "PASS", "FAIL"}
    BY <1>1 DEF DrillInv, DrillTypes
  <1>3. world'.canary = NoCanary \/ (world.canary # NoCanary /\ world'.canary.of = world.canary.of)
    OBVIOUS
  <1> QED BY <1>1, <1>2, <1>3, Standing, RepairingStep

LEMMA RepairSteps ==
    /\ {"start", "settings", "index", "canary", "verify", "delete", "finish", "unlink"} \subseteq Repairing \cap DrillSteps
    /\ None \notin {"start", "settings", "index", "canary", "verify", "delete", "finish", "unlink"}
  BY DEF Repairing, DrillSteps, None

LEMMA StartNodeKeeps ==
    ASSUME DrillInv, StartNode
    PROVE  DrillInv'
  <1>1. drill.at = "start" /\ drill.at \in Repairing /\ UNCHANGED active /\ Kept /\ drill \in DrillStates
    BY RepairSteps, Standing DEF StartNode
  <1>2. CASE drill' = Idle /\ UNCHANGED world
    BY <1>1, <1>2, NoDrill, Steps, OnStep
  <1>3. CASE drill' = DrillTo(IF lab = "es7" THEN "settings" ELSE "verify") /\ UNCHANGED world
    <2>1. PICK s \in {"settings", "verify"} : drill' = DrillTo(s)
      BY <1>3
    <2>2. s \in DrillSteps /\ s \in Repairing /\ s \notin {"delete", "unlink", "finish"}
      BY RepairSteps
    <2>3. PICK e \in DrillStates : e = drill' /\ e.at = s /\ e.rest = drill.rest /\ e.failed = drill.failed
      BY <2>1, <2>2, ToStep
    <2> QED BY <1>1, <1>3, <2>2, <2>3, OnStep
  <1>4. CASE \E n \in drill.todo : Repair([world EXCEPT !.down = @ \ {n}], [drill EXCEPT !.todo = @ \ {n}])
    <2>1. PICK n \in drill.todo : Repair([world EXCEPT !.down = @ \ {n}], [drill EXCEPT !.todo = @ \ {n}])
      BY <1>4
    <2>2. PICK w \in Worlds, x \in SUBSET Nodes : w = world /\ x = world.down \ {n}
      BY Standing
    <2>3. PICK d \in DrillStates, y \in SUBSET Nodes : d = drill /\ y = drill.todo \ {n}
      BY <1>1 DEF DrillStates
    <2>4. PICK v : v = [w EXCEPT !.down = x]
      OBVIOUS
    <2>5. PICK e : e = [d EXCEPT !.todo = y]
      OBVIOUS
    <2>6. v \in Worlds /\ SameBut(w, v) /\ v.down = x /\ v.keys = w.keys /\ v.canary = w.canary
      BY <2>4, WorldDown
    <2>7. e \in DrillStates /\ e.at = d.at /\ e.rest = d.rest /\ e.failed = d.failed
      BY <2>5, DrillTodo
    <2>8. Repair(v, e)
      BY <2>1, <2>2, <2>3, <2>4, <2>5
    <2>9. v.canary = NoCanary \/ (world.canary # NoCanary /\ v.canary.of = world.canary.of)
      BY <2>2, <2>6
    <2> QED BY <1>1, <2>2, <2>3, <2>6, <2>7, <2>8, <2>9, RepairSteps, RepairStep
  <1> QED BY <1>2, <1>3, <1>4 DEF StartNode

LEMMA RestoreSettingsKeeps ==
    ASSUME DrillInv, RestoreSettings
    PROVE  DrillInv'
  <1>1. drill.at = "settings" /\ drill.at \in Repairing /\ UNCHANGED active /\ Kept
    BY RepairSteps DEF RestoreSettings
  <1>2. PICK w \in Worlds, x \in SUBSET Settings : w = world /\ x = world.keys \ active.keys
    BY Standing
  <1>3. PICK v : v = [w EXCEPT !.keys = x]
    OBVIOUS
  <1>4. v \in Worlds /\ SameBut(w, v) /\ v.down = w.down /\ v.keys = x /\ v.canary = w.canary
    BY <1>3, WorldKeys
  <1>5. PICK e \in DrillStates : e = DrillTo("index") /\ e.at = "index" /\ e.rest = drill.rest /\ e.failed = drill.failed
    BY RepairSteps, ToStep
  <1>6. Repair(v, e)
    BY <1>2, <1>3, <1>5 DEF RestoreSettings
  <1>7. v.canary = NoCanary \/ (world.canary # NoCanary /\ v.canary.of = world.canary.of)
    BY <1>2, <1>4
  <1> QED BY <1>1, <1>2, <1>4, <1>5, <1>6, <1>7, RepairSteps, RepairStep

LEMMA RestoreIndexKeeps ==
    ASSUME DrillInv, RestoreIndex
    PROVE  DrillInv'
  <1>1. /\ drill.at = "index" /\ drill.at \in Repairing /\ UNCHANGED <<lab, world, active, report, manifest, load, used>>
    BY RepairSteps DEF RestoreIndex, loading
  <1>2. SeedsStay(index, index') /\ NoMoreReplicas(index, index')
    <2>1. CASE index' = index
      BY <2>1, Standing
    <2>2. CASE index' # index
      <3>1. active.index \in Present /\ index' = [index EXCEPT ![active.index].replicas = "layout"]
        BY <2>2 DEF RestoreIndex
      <3> QED BY <3>1, Standing, ReplicasAre
    <2> QED BY <2>1, <2>2
  <1>3. PICK c \in DrillStates : c = DrillTo("canary") /\ c.at = "canary" /\ c.rest = drill.rest /\ c.failed = drill.failed
    BY RepairSteps, ToStep
  <1>4. PICK e \in DrillStates : e = drill' /\ e.at = "canary" /\ e.rest = drill.rest /\ e.failed = drill.failed
    <2>1. PICK x \in BOOLEAN : drill' = [c EXCEPT !.errors = x]
      <3>1. CASE drill' = [DrillTo("canary") EXCEPT !.errors = TRUE]
        BY <1>3, <3>1
      <3>2. CASE drill' = [DrillTo("canary") EXCEPT !.errors = @ \/ (active.scenario = "too-many-replicas" /\ active.index \notin Present)]
        <4>1. PICK x \in BOOLEAN : x = (c.errors \/ (active.scenario = "too-many-replicas" /\ active.index \notin Present))
          OBVIOUS
        <4>2. drill' = [c EXCEPT !.errors = x]
          BY <1>3, <3>2, <4>1
        <4> QED BY <4>2
      <3> QED BY <3>1, <3>2 DEF RestoreIndex
    <2>2. PICK e : e = [c EXCEPT !.errors = x]
      OBVIOUS
    <2>3. e \in DrillStates /\ e.at = c.at /\ e.rest = c.rest /\ e.failed = c.failed
      BY <2>2, DrillErrors
    <2> QED BY <1>3, <2>1, <2>2, <2>3
  <1>5. report' \in {None, "PASS", "FAIL"}
    BY <1>1 DEF DrillInv, DrillTypes
  <1>6. world'.canary = NoCanary \/ (world.canary # NoCanary /\ world'.canary.of = world.canary.of)
    BY <1>1
  <1> QED BY <1>1, <1>2, <1>4, <1>5, <1>6, RepairSteps, Standing, RepairingStep

LEMMA ResetCanaryKeeps ==
    ASSUME DrillInv, ResetCanary
    PROVE  DrillInv'
  <1>1. drill.at = "canary" /\ drill.at \in Repairing /\ UNCHANGED active /\ Kept
    BY RepairSteps DEF ResetCanary
  <1>2. PICK e \in DrillStates : e = DrillTo("verify") /\ e.at = "verify" /\ e.rest = drill.rest /\ e.failed = drill.failed
    BY RepairSteps, ToStep
  <1>3. CASE drill' = DrillTo("verify") /\ UNCHANGED world
    BY <1>1, <1>2, <1>3, RepairSteps, OnStep
  <1>4. CASE /\ world.canary.of = active.id
             /\ Repair([world EXCEPT !.canary = [@ EXCEPT !.filter = FALSE, !.block = FALSE, !.copies = 1]], DrillTo("verify"))
    <2>1. PICK w \in Worlds, c \in Canaries : w = world /\ c = world.canary
      BY Standing
    <2>2. PICK c2 \in Canaries : c2 = [c EXCEPT !.filter = FALSE, !.block = FALSE, !.copies = 1] /\ c2.of = c.of
      BY CanarySets
    <2>3. PICK v : v = [w EXCEPT !.canary = c2]
      OBVIOUS
    <2>4. v \in Worlds /\ SameBut(w, v) /\ v.down = w.down /\ v.keys = w.keys /\ v.canary = c2
      BY <2>3, WorldCanary
    <2>5. Repair(v, e)
      BY <1>2, <1>4, <2>1, <2>2, <2>3
    <2>6. world.canary # NoCanary
      BY <1>1, <1>4, <2>1, CanarySets, RepairSteps, Standing
    <2> QED BY <1>1, <1>2, <2>1, <2>2, <2>4, <2>5, <2>6, RepairSteps, RepairStep
  <1> QED BY <1>3, <1>4 DEF ResetCanary

LEMMA VerifyRecoveryKeeps ==
    ASSUME DrillInv, VerifyRecovery
    PROVE  DrillInv'
  <1>1. /\ drill.at = "verify" /\ drill.at \in Repairing /\ UNCHANGED active /\ Kept /\ active.id # 0 /\ active \in Journals
        /\ drill \in DrillStates
    BY RepairSteps, Standing, Steps DEF VerifyRecovery
  <1>2. Stable /\ world.keys \cap active.keys = {} => DrillRestored(world, index)
    <2> SUFFICES ASSUME Stable, world.keys \cap active.keys = {}
                 PROVE  DrillRestored(world, index)
      OBVIOUS
    <2>1. world.keys = {}
      BY <1>1, Standing
    <2>2. world.down = {} /\ \A i \in Indices : index[i].config # None => index[i].replicas # "many"
      BY DEF Stable, Present
    <2>3. \A i \in Indices : index[i].config = None => index[i].replicas # "many"
      BY Standing DEF SeedsFit
    <2> QED BY <2>1, <2>2, <2>3 DEF DrillRestored
  <1>3. PICK x \in DrillStates : x = DrillTo("delete") /\ x.at = "delete" /\ x.rest = drill.rest /\ x.failed = drill.failed
    BY RepairSteps, ToStep
  <1>4. PICK f \in DrillStates : f = DrillTo("finish") /\ f.at = "finish" /\ f.rest = drill.rest /\ f.failed = drill.failed
    BY RepairSteps, ToStep
  <1>5. CASE drill' = [DrillTo("finish") EXCEPT !.errors = TRUE] /\ UNCHANGED world
    <2>1. PICK e : e = [f EXCEPT !.errors = TRUE]
      OBVIOUS
    <2>2. e \in DrillStates /\ e.at = f.at /\ e.rest = f.rest /\ e.failed = f.failed /\ e.errors
      BY <2>1, DrillErrors
    <2>3. drill' = e
      BY <1>4, <1>5, <2>1
    <2> QED BY <1>1, <1>4, <1>5, <2>2, <2>3, RepairSteps, OnStep
  <1>6. CASE drill' = Idle /\ UNCHANGED world
    BY <1>1, <1>6, NoDrill, Steps, OnStep
  <1>7. CASE lab = "es9" /\ Stable /\ drill' = DrillTo("delete") /\ UNCHANGED world
    <2>1. DrillRestored(world, index)
      BY <1>1, <1>2, <1>7 DEF DrillInv, OutageKnows
    <2> QED BY <1>1, <1>3, <1>7, <2>1, RepairSteps, OnStep
  <1>8. CASE /\ Stable /\ world.keys \cap active.keys = {} /\ drill' = DrillTo("delete")
             /\ world' = IF world.canary.of = active.id THEN [world EXCEPT !.canary.doc = TRUE] ELSE world
    <2>1. CASE world.canary.of = active.id
      <3>1. PICK w \in Worlds, c \in Canaries : w = world /\ c = world.canary
        BY Standing
      <3>2. PICK c2 \in Canaries : c2 = [c EXCEPT !.doc = TRUE] /\ c2.of = c.of
        BY CanarySets
      <3>3. PICK v : v = [w EXCEPT !.canary = c2]
        OBVIOUS
      <3>4. v \in Worlds /\ SameBut(w, v) /\ v.down = w.down /\ v.keys = w.keys /\ v.canary = c2
        BY <3>3, WorldCanary
      <3>5. world' = v
        BY <1>8, <2>1, <3>1, <3>2, <3>3
      <3>6. world.canary # NoCanary
        BY <1>1, <2>1, <3>1, CanarySets
      <3>7. DrillRestored(world', index)
        BY <1>2, <1>8, <3>1, <3>4, <3>5 DEF DrillRestored
      <3>8. UNCHANGED <<lab, index, manifest, load, used, report>> /\ report' \in {None, "PASS", "FAIL"}
        BY <1>1 DEF Kept, loading, DrillInv, DrillTypes
      <3> QED BY <1>1, <1>3, <1>8, <3>1, <3>2, <3>4, <3>5, <3>6, <3>7, <3>8, RepairSteps, Standing, Steps, RepairingStep
    <2>2. CASE world.canary.of # active.id
      BY <1>1, <1>2, <1>3, <1>8, <2>2, RepairSteps, OnStep
    <2> QED BY <2>1, <2>2
  <1>9. lab \in {"es7", "es9"}
    BY DEF DrillInv, DrillTypes
  <1> QED BY <1>5, <1>6, <1>7, <1>8, <1>9 DEF VerifyRecovery, Verify7, Verify9

LEMMA DeleteCanaryKeeps ==
    ASSUME DrillInv, DeleteCanary
    PROVE  DrillInv'
  <1>1. drill.at = "delete" /\ drill.at \in Repairing /\ UNCHANGED active /\ Kept /\ active.id # 0
    BY RepairSteps, Standing DEF DeleteCanary
  <1>2. DrillKnows(world, active, drill, index)
    BY DEF DrillInv
  <1>3. DrillRestored(world, index)
    BY <1>1, <1>2 DEF DrillKnows
  <1>4. PICK f \in DrillStates : f = DrillTo("finish") /\ f.at = "finish" /\ f.rest = drill.rest /\ f.failed = drill.failed
    BY RepairSteps, ToStep
  <1>5. PICK x \in BOOLEAN : x = (f.errors \/ (lab = "es7" /\ ~ Stable))
    OBVIOUS
  <1>6. PICK e : e = [f EXCEPT !.errors = x]
    OBVIOUS
  <1>7. e = Finish
    BY <1>4, <1>5, <1>6 DEF Finish
  <1>8. e \in DrillStates /\ e.at = "finish" /\ e.rest = drill.rest /\ e.failed = drill.failed
    BY <1>4, <1>6, DrillErrors
  <1>9. CASE world.canary.of = active.id /\ Repair([world EXCEPT !.canary = NoCanary], Finish)
    <2>1. PICK w \in Worlds, c \in Canaries : w = world /\ c = NoCanary
      BY Standing, CanarySets
    <2>2. PICK v : v = [w EXCEPT !.canary = c]
      OBVIOUS
    <2>3. v \in Worlds /\ SameBut(w, v) /\ v.down = w.down /\ v.keys = w.keys /\ v.canary = NoCanary
      BY <2>1, <2>2, WorldCanary
    <2>4. Repair(v, e)
      BY <1>7, <1>9, <2>1, <2>2
    <2>5. DrillRestored(v, index)
      BY <1>3, <2>1, <2>3 DEF DrillRestored
    <2> QED BY <1>1, <1>8, <2>1, <2>3, <2>4, <2>5, RepairSteps, RepairStep
  <1>10. CASE world.canary.of # active.id /\ drill' = Finish /\ UNCHANGED world
    <2>1. world.canary = NoCanary
      BY <1>1, <1>2, <1>10 DEF DrillKnows
    <2> QED BY <1>1, <1>3, <1>7, <1>8, <1>10, <2>1, RepairSteps, OnStep
  <1> QED BY <1>9, <1>10 DEF DeleteCanary

LEMMA ArchiveKeeps ==
    ASSUME DrillInv, Archive
    PROVE  DrillInv'
  <1>1. /\ drill.at = "finish" /\ drill.at \in Repairing /\ UNCHANGED <<lab, world, index, active, manifest, load, used>>
        /\ drill.at # "recover" /\ active.id # 0
    BY RepairSteps, Standing, Steps DEF Archive, loading
  <1>2. DrillKnows(world, active, drill, index)
    BY DEF DrillInv
  <1>3. world'.canary = NoCanary \/ (world.canary # NoCanary /\ world'.canary.of = world.canary.of)
    BY <1>1
  <1>4. CASE ~ MayArchive
    <2>1. drill' = Idle /\ report' = report
      BY <1>4 DEF Archive
    <2> QED BY <1>1, <2>1, NoDrill, Steps, AsideStep
  <1>5. CASE MayArchive
    <2>1. ~ drill.errors /\ drill' = DrillTo("unlink")
      BY <1>5 DEF MayArchive, Archive
    <2>2. DrillRestored(world, index) /\ world.canary = NoCanary
      BY <1>1, <1>2, <2>1 DEF DrillKnows
    <2>3. report' \in {None, "PASS", "FAIL"}
      BY <1>5 DEF Archive, Result7, Result9
    <2>4. PICK e \in DrillStates : e = drill' /\ e.at = "unlink" /\ e.rest = drill.rest /\ e.failed = drill.failed
      BY <2>1, RepairSteps, ToStep
    <2> QED BY <1>1, <1>3, <2>2, <2>3, <2>4, RepairSteps, Standing, RepairingStep
  <1> QED BY <1>4, <1>5

LEMMA UnlinkKeeps ==
    ASSUME DrillInv, Unlink
    PROVE  DrillInv'
  <1>1. /\ drill.at = "unlink" /\ drill' = Idle /\ active' = [id |-> 0]
        /\ UNCHANGED <<lab, world, index, manifest, load, used, report>>
    BY DEF Unlink, Kept, loading
  <1>2. DrillKnows(world, active, drill, index)
    BY DEF DrillInv
  <1>3. DrillRestored(world, index) /\ world.canary = NoCanary
    BY <1>1, <1>2 DEF DrillKnows
  <1>4. active'.id = 0
    BY <1>1
  <1>5. drill'.at \notin Breaking \cup Repairing \cup {"probe", "inject", "delete", "finish", "unlink", "recover"} /\ drill'.at = None
    BY <1>1, NoDrill, Steps
  <1>6. DrillKnows(world, active', drill', index)
    BY <1>3, <1>4, <1>5 DEF DrillKnows
  <1>7. lab = "es9" => OutageKnows(world, active', drill', index)
    <2>1. <<>> \in Seq(OutageCalls)
      OBVIOUS
    <2> QED BY <1>1, <1>4, <1>5, <2>1, NoDrill DEF DrillInv, OutageKnows
  <1>8. DrillTypes'
    BY <1>1, NoDrill DEF DrillInv, DrillTypes
  <1> QED BY <1>1, <1>6, <1>7, <1>8 DEF DrillInv

LEMMA ElectKeeps ==
    ASSUME DrillInv, NEW n \in Nodes, Elect(n)
    PROVE  DrillInv'
  <1>1. UNCHANGED <<lab, index, manifest, active, drill, report, load, used>> /\ world' = [world EXCEPT !.master = n]
    BY DEF Elect
  <1>2. PICK w, v : w = world /\ v = world'
    OBVIOUS
  <1>3. v \in Worlds /\ SameBut(w, v) /\ v.down = w.down /\ v.keys = w.keys /\ v.canary = w.canary
    BY <1>1, <1>2, Standing, WorldMaster
  <1>4. LoaderKnows(load', index')
    BY <1>1 DEF DrillInv
  <1>5. /\ manifest' \in [status : {"loading", "loaded", "failed"}, config : Configs, uuid : Nat]
        /\ load' \in LoadStates /\ used' \in [drills : 0..MaxDrills, loads : Nat]
    BY <1>1 DEF DrillInv, DrillTypes
  <1> QED BY <1>1, <1>2, <1>3, <1>4, <1>5, Standing, BesideStep DEF SameBut

-----------------------------------------------------------------------------
(* The loader and the maintenance commands. *)

Manifests == [status : {"loading", "loaded", "failed"}, config : Configs, uuid : Nat]

LEMMA LoaderStands ==
    ASSUME DrillInv
    PROVE  /\ load \in LoadStates /\ SeedsFit(index) /\ index \in [Indices -> SeedIndexRows] /\ manifest \in Manifests
           /\ used \in [drills : 0..MaxDrills, loads : Nat] /\ LoaderKnows(load, index) /\ world.uuid \in Nat
           /\ NoMoreReplicas(index, index)
  <1>1. /\ load \in LoadStates /\ SeedsFit(index) /\ manifest \in Manifests
        /\ used \in [drills : 0..MaxDrills, loads : Nat] /\ LoaderKnows(load, index)
    BY DEF DrillInv, DrillTypes, Manifests
  <1>2. index \in [Indices -> SeedIndexRows] /\ NoMoreReplicas(index, index)
    BY <1>1 DEF SeedsFit, NoMoreReplicas
  <1>3. world.uuid \in Nat
    BY DEF DrillInv, DrillTypes, Worlds
  <1> QED BY <1>1, <1>2, <1>3

LEMMA LoaderStep ==
    ASSUME DrillInv, Untouched, SeedsFit(index'), NoMoreReplicas(index, index'), manifest' \in Manifests,
           load' \in LoadStates, used' \in [drills : 0..MaxDrills, loads : Nat], LoaderKnows(load', index')
    PROVE  DrillInv'
  <1>1. UNCHANGED <<lab, active, drill, report, world>>
    BY DEF Untouched
  <1> QED BY <1>1, Standing, BesideStep DEF Manifests

LEMMA NothingLoads ==
    ASSUME NEW ix
    PROVE  NoLoad \in LoadStates /\ NoLoad.at = None /\ LoaderKnows(NoLoad, ix)
  <1>1. NoLoad.at = None
    BY DEF NoLoad
  <1>2. NoLoad \in LoadStates
    BY DEF NoLoad, LoadStates
  <1>3. None \notin {"prepare", "next", "bulk", "restore", "count"}
    BY DEF None
  <1> QED BY <1>1, <1>2, <1>3 DEF LoaderKnows

LEMMA OneMore ==
    ASSUME NEW u \in [drills : 0..MaxDrills, loads : Nat]
    PROVE  [u EXCEPT !.loads = @ + 1] \in [drills : 0..MaxDrills, loads : Nat]
  OBVIOUS

LEMMA RowsAre ==
    /\ Absent \in SeedIndexRows /\ Absent.config = None /\ Absent.replicas = None /\ Absent.docs = {} /\ None # "many"
    /\ \A c \in Configs, n \in Nat : NewIndex(c, n) \in SeedIndexRows /\ NewIndex(c, n).config = c /\ NewIndex(c, n).replicas = "layout"
    /\ None \notin Configs
  <1>1. PICK r : r = NewIndex(None, 0)
    OBVIOUS
  <1>2. r \in SeedIndexRows /\ r.config = None /\ r.docs = {}
    BY <1>1 DEF NewIndex, SeedIndexRows
  <1>3. Absent = [r EXCEPT !.replicas = None]
    BY <1>1 DEF Absent
  <1>4. Absent \in SeedIndexRows /\ Absent.config = None /\ Absent.replicas = None /\ Absent.docs = {}
    BY <1>2, <1>3 DEF SeedIndexRows
  <1>5. \A c \in Configs, n \in Nat : NewIndex(c, n) \in SeedIndexRows /\ NewIndex(c, n).config = c /\ NewIndex(c, n).replicas = "layout"
    BY DEF NewIndex, SeedIndexRows
  <1> QED BY <1>4, <1>5 DEF None, Configs

LEMMA IndexIs ==
    ASSUME NEW ix, SeedsFit(ix), NEW i \in Indices, NEW jx \in [Indices -> SeedIndexRows],
           \A j \in Indices : j # i => jx[j] = ix[j],
           jx[i].replicas = "many" => ix[i].replicas = "many" /\ jx[i].config # None
    PROVE  SeedsFit(jx) /\ NoMoreReplicas(ix, jx)
  BY DEF SeedsFit, NoMoreReplicas

LEMMA SeedStartKeeps ==
    ASSUME DrillInv, NEW config \in {"c1", "c2"}, NEW recreate \in BOOLEAN, SeedStart(config, recreate)
    PROVE  DrillInv'
  <1>1. Untouched /\ UNCHANGED <<index, manifest>> /\ used' = [used EXCEPT !.loads = @ + 1]
    BY DEF SeedStart, DataCommand
  <1>2. PICK t \in SUBSET Indices : t = IF recreate THEN Indices ELSE Indices \ Present
    OBVIOUS
  <1>3. PICK n \in LoadStates : n = NoLoad
    BY NothingLoads
  <1>4. PICK l : l = load' /\ l = [n EXCEPT !.at = "prepare", !.config = config, !.recreate = recreate, !.todo = t]
    BY <1>2, <1>3 DEF SeedStart
  <1>5. config \in Configs
    BY DEF Configs
  <1>6. l \in LoadStates /\ l.at = "prepare" /\ l.config = config /\ l.todo = t
    BY <1>4, <1>5 DEF LoadStates
  <1>7. \A i \in Indices \ t : index[i].config = config
    BY <1>2 DEF SeedStart, Compatible, Present
  <1>8. LoaderKnows(l, index)
    BY <1>5, <1>6, <1>7 DEF LoaderKnows
  <1> QED BY <1>1, <1>4, <1>6, <1>8, LoaderStands, OneMore, LoaderStep

LEMMA PrepareIndexKeeps ==
    ASSUME DrillInv, NEW i \in Indices, PrepareIndex(i)
    PROVE  DrillInv'
  <1>1. Untouched /\ UNCHANGED <<manifest, used>> /\ load.at = "prepare" /\ i \in load.todo
    BY DEF PrepareIndex
  <1>2. PICK l, ix : l = load /\ ix = index /\ l \in LoadStates /\ SeedsFit(ix)
    BY LoaderStands
  <1>3. l.config \in Configs /\ \A j \in Indices \ l.todo : ix[j].config = l.config
    BY <1>1, <1>2, LoaderStands DEF LoaderKnows
  <1>4. CASE index' = [index EXCEPT ![i] = Absent] /\ load' = load
    <2>1. PICK jx : jx = index' /\ jx = [ix EXCEPT ![i] = Absent]
      BY <1>2, <1>4
    <2>2. SeedsFit(jx) /\ NoMoreReplicas(ix, jx) /\ \A j \in Indices : jx[j] = IF j = i THEN Absent ELSE ix[j]
      <3>1. PICK r \in SeedIndexRows : r = Absent /\ r.replicas # "many"
        BY RowsAre
      <3>2. jx \in [Indices -> SeedIndexRows] /\ \A j \in Indices : jx[j] = IF j = i THEN Absent ELSE ix[j]
        BY <1>2, <2>1, <3>1 DEF SeedsFit
      <3> QED BY <1>2, <3>1, <3>2, IndexIs
    <2>3. LoaderKnows(l, jx)
      BY <1>1, <1>2, <1>3, <2>2 DEF LoaderKnows
    <2> QED BY <1>1, <1>2, <1>4, <2>1, <2>2, <2>3, LoaderStands, LoaderStep
  <1>5. CASE index' = [index EXCEPT ![i] = NewIndex(load.config, used.loads)] /\ load' = [load EXCEPT !.todo = @ \ {i}]
    <2>1. PICK r \in SeedIndexRows : r = NewIndex(load.config, used.loads) /\ r.config = l.config /\ r.replicas = "layout"
      BY <1>2, <1>3, RowsAre, LoaderStands
    <2>2. PICK jx : jx = index' /\ jx = [ix EXCEPT ![i] = r]
      BY <1>2, <1>5, <2>1
    <2>3. SeedsFit(jx) /\ NoMoreReplicas(ix, jx) /\ \A j \in Indices : jx[j] = IF j = i THEN r ELSE ix[j]
      <3>1. r.replicas # "many"
        BY <2>1
      <3>2. jx \in [Indices -> SeedIndexRows] /\ \A j \in Indices : jx[j] = IF j = i THEN r ELSE ix[j]
        BY <1>2, <2>2 DEF SeedsFit
      <3> QED BY <1>2, <3>1, <3>2, IndexIs
    <2>4. PICK m, x : m = load' /\ x = l.todo \ {i} /\ m = [l EXCEPT !.todo = x] /\ x \subseteq Indices
      <3>1. l.todo \subseteq Indices
        BY <1>2 DEF LoadStates
      <3> QED BY <1>2, <1>5, <3>1
    <2>5. m \in LoadStates /\ m.at = l.at /\ m.config = l.config /\ m.todo = l.todo \ {i}
      BY <1>2, <2>4 DEF LoadStates
    <2>6. LoaderKnows(m, jx)
      BY <1>1, <1>2, <1>3, <2>1, <2>3, <2>5 DEF LoaderKnows
    <2> QED BY <1>1, <1>2, <2>2, <2>3, <2>4, <2>5, <2>6, LoaderStands, LoaderStep
  <1> QED BY <1>4, <1>5 DEF PrepareIndex

LEMMA LoadBeginsKeeps ==
    ASSUME DrillInv, LoadBegins
    PROVE  DrillInv'
  <1>1. Untouched /\ UNCHANGED <<index, used>> /\ load.at = "prepare" /\ load.todo = {}
    BY DEF LoadBegins
  <1>2. PICK l \in LoadStates : l = load
    BY LoaderStands
  <1>3. l.config \in Configs /\ \A j \in Indices : index[j].config = l.config
    BY <1>1, <1>2, LoaderStands DEF LoaderKnows
  <1>4. manifest' \in Manifests
    BY <1>2, <1>3, LoaderStands DEF LoadBegins, Manifest, Manifests
  <1>5. PICK m : m = load' /\ m = [l EXCEPT !.at = "next", !.todo = Indices]
    BY <1>2 DEF LoadBegins
  <1>6. m \in LoadStates /\ m.at = "next" /\ m.config = l.config /\ m.todo = Indices
    BY <1>5 DEF LoadStates
  <1>7. LoaderKnows(m, index)
    BY <1>3, <1>6 DEF LoaderKnows
  <1> QED BY <1>1, <1>4, <1>5, <1>6, <1>7, LoaderStands, LoaderStep

LEMMA SeedIndexKeeps ==
    ASSUME DrillInv, NEW i \in Indices, SeedIndex(i)
    PROVE  DrillInv'
  <1>1. Untouched /\ UNCHANGED <<manifest, used>> /\ load.at = "next" /\ i \in load.todo
    BY DEF SeedIndex
  <1>2. PICK l \in LoadStates, ix \in [Indices -> SeedIndexRows] : l = load /\ ix = index /\ SeedsFit(ix)
    BY LoaderStands
  <1>3. l.config \in Configs /\ \A j \in Indices : ix[j].config = l.config /\ (j \notin l.todo => Docs \subseteq ix[j].docs)
    BY <1>1, <1>2, LoaderStands DEF LoaderKnows
  <1>4. PICK f \in {"1s", "-1"} : f = ix[i].refresh
    BY DEF SeedIndexRows
  <1>5. PICK r : r = [ix[i] EXCEPT !.refresh = "-1"]
    OBVIOUS
  <1>6. r \in SeedIndexRows /\ r.config = ix[i].config /\ r.replicas = ix[i].replicas /\ r.docs = ix[i].docs
    BY <1>5 DEF SeedIndexRows
  <1>7. PICK jx : jx = index' /\ jx = [ix EXCEPT ![i] = r]
    BY <1>2, <1>5 DEF SeedIndex
  <1>8. r.config = None => r.replicas # "many"
    BY <1>2, <1>6 DEF SeedsFit
  <1>9. SeedsFit(jx) /\ NoMoreReplicas(ix, jx) /\ \A j \in Indices : jx[j] = IF j = i THEN r ELSE ix[j]
    <2>1. jx \in [Indices -> SeedIndexRows] /\ \A j \in Indices : jx[j] = IF j = i THEN r ELSE ix[j]
      BY <1>6, <1>7
    <2> QED BY <1>2, <1>6, <1>8, <2>1, IndexIs
  <1>10. PICK m : m = load' /\ m = [l EXCEPT !.at = "bulk", !.index = i, !.pending = Docs, !.refresh = f]
    BY <1>2, <1>4 DEF SeedIndex
  <1>11. m \in LoadStates /\ m.at = "bulk" /\ m.config = l.config /\ m.todo = l.todo /\ m.index = i /\ m.pending = Docs /\ m.refresh = f
    BY <1>10 DEF LoadStates
  <1>12. f # None
    BY DEF None
  <1>13. LoaderKnows(m, jx)
    BY <1>1, <1>2, <1>3, <1>6, <1>9, <1>11, <1>12 DEF LoaderKnows
  <1> QED BY <1>1, <1>2, <1>7, <1>9, <1>10, <1>11, <1>13, LoaderStands, LoaderStep

(* More documents in an index that is loaded. *)
Grown(ix, i, more) == [ix EXCEPT ![i].docs = @ \cup more]

GrownWell(ix, i, more) ==
    /\ SeedsFit(Grown(ix, i, more)) /\ NoMoreReplicas(ix, Grown(ix, i, more))
    /\ \A j \in Indices : /\ Grown(ix, i, more)[j].config = ix[j].config
                          /\ Grown(ix, i, more)[j].docs = (IF j = i THEN ix[j].docs \cup more ELSE ix[j].docs)

LEMMA DocsAre ==
    ASSUME NEW ix, SeedsFit(ix), NEW i \in Indices, NEW more, more \subseteq SeedContents
    PROVE  GrownWell(ix, i, more)
  <1>0. PICK jx : jx = Grown(ix, i, more)
    OBVIOUS
  <1>1. ix \in [Indices -> SeedIndexRows] /\ \A j \in Indices : ix[j].config = None => ix[j].replicas # "many"
    BY DEF SeedsFit
  <1>2. PICK d \in SUBSET SeedContents : d = ix[i].docs \cup more
    BY <1>1 DEF SeedIndexRows
  <1>3. PICK r : r = [ix[i] EXCEPT !.docs = d]
    OBVIOUS
  <1>4. r \in SeedIndexRows /\ r.config = ix[i].config /\ r.docs = d /\ r.replicas = ix[i].replicas
    BY <1>1, <1>3 DEF SeedIndexRows
  <1>5. jx \in [Indices -> SeedIndexRows] /\ \A j \in Indices : jx[j] = IF j = i THEN r ELSE ix[j]
    BY <1>0, <1>1, <1>2, <1>3, <1>4 DEF Grown
  <1>6. \A j \in Indices : jx[j].config = ix[j].config /\ jx[j].docs = (IF j = i THEN ix[j].docs \cup more ELSE ix[j].docs)
    BY <1>2, <1>4, <1>5
  <1>7. jx[i].replicas = "many" => ix[i].replicas = "many" /\ jx[i].config # None
    BY <1>1, <1>4, <1>5
  <1> QED BY <1>0, <1>5, <1>6, <1>7, IndexIs DEF GrownWell

LEMMA BulkSendKeeps ==
    ASSUME DrillInv, BulkSend
    PROVE  DrillInv'
  <1>1. Untouched /\ UNCHANGED <<manifest, used>> /\ load.at = "bulk"
    BY DEF BulkSend
  <1>2. PICK l \in LoadStates, ix \in [Indices -> SeedIndexRows] : l = load /\ ix = index /\ SeedsFit(ix)
    BY LoaderStands
  <1>3. /\ l.config \in Configs /\ \A j \in Indices : ix[j].config = l.config /\ (j \notin l.todo => Docs \subseteq ix[j].docs)
        /\ l.index \in l.todo /\ l.refresh # None /\ Docs \ l.pending \subseteq ix[l.index].docs
    BY <1>1, <1>2, LoaderStands DEF LoaderKnows
  <1>4. l.todo \subseteq Indices /\ l.pending \subseteq Docs
    BY DEF LoadStates
  <1>5. PICK written \in SUBSET l.pending :
           /\ index' = [ix EXCEPT ![l.index].docs = @ \cup written]
           /\ \/ load' = [l EXCEPT !.at = "restore", !.pending = {}] /\ written = l.pending
              \/ load' = [l EXCEPT !.pending = l.pending \ written, !.at = IF l.pending \ written = {} THEN "restore" ELSE @]
              \/ load' = l
              \/ load' = [l EXCEPT !.at = "restore"]
    BY <1>2 DEF BulkSend, Retry
  <1>6. PICK i, jx : i = l.index /\ i \in Indices /\ jx = index' /\ jx = Grown(ix, i, written)
    BY <1>3, <1>4, <1>5 DEF Grown
  <1>7. written \subseteq SeedContents
    BY <1>4 DEF SeedContents
  <1>8. /\ SeedsFit(jx) /\ NoMoreReplicas(ix, jx)
        /\ \A j \in Indices : jx[j].config = ix[j].config /\ jx[j].docs = (IF j = i THEN ix[j].docs \cup written ELSE ix[j].docs)
    <2>1. i \in Indices /\ SeedsFit(ix) /\ written \subseteq SeedContents
      BY <1>2, <1>6, <1>7
    <2>2. GrownWell(ix, i, written)
      BY <2>1, DocsAre
    <2> QED BY <1>6, <2>2 DEF GrownWell
  <1>9. PICK p \in SUBSET Docs : p = l.pending \ written
    BY <1>4
  <1>10. PICK m : m = load'
    OBVIOUS
  <1>11. /\ m \in LoadStates /\ m.at \in {"bulk", "restore"} /\ m.config = l.config /\ m.todo = l.todo /\ m.index = l.index
         /\ m.refresh = l.refresh /\ m.pending \in {l.pending, p}
    <2>1. CASE load' = [l EXCEPT !.at = "restore", !.pending = {}] /\ written = l.pending
      <3>1. p = {}
        BY <1>9, <2>1
      <3>2. m = [l EXCEPT !.at = "restore", !.pending = p]
        BY <1>10, <2>1, <3>1
      <3> QED BY <3>2 DEF LoadStates
    <2>2. CASE load' = [l EXCEPT !.pending = l.pending \ written, !.at = IF l.pending \ written = {} THEN "restore" ELSE @]
      <3>1. PICK s \in {"bulk", "restore"} : s = IF p = {} THEN "restore" ELSE l.at
        BY <1>1, <1>2
      <3>2. m = [l EXCEPT !.pending = p, !.at = s]
        BY <1>9, <1>10, <2>2, <3>1
      <3> QED BY <3>2 DEF LoadStates
    <2>3. CASE load' = l
      BY <1>1, <1>2, <1>10, <2>3
    <2>4. CASE load' = [l EXCEPT !.at = "restore"]
      BY <1>10, <2>4 DEF LoadStates
    <2> QED BY <1>5, <2>1, <2>2, <2>3, <2>4
  <1>12. Docs \ m.pending \subseteq jx[m.index].docs
    BY <1>3, <1>6, <1>8, <1>9, <1>11
  <1>13. LoaderKnows(m, jx)
    BY <1>3, <1>4, <1>8, <1>11, <1>12 DEF LoaderKnows
  <1> QED BY <1>1, <1>2, <1>6, <1>8, <1>10, <1>11, <1>13, LoaderStands, LoaderStep

LEMMA RestoreRefreshKeeps ==
    ASSUME DrillInv, RestoreRefresh
    PROVE  DrillInv'
  <1>1. Untouched /\ UNCHANGED <<manifest, used>> /\ load.at = "restore"
    BY DEF RestoreRefresh
  <1>2. PICK l \in LoadStates, ix \in [Indices -> SeedIndexRows] : l = load /\ ix = index /\ SeedsFit(ix)
    BY LoaderStands
  <1>3. /\ l.config \in Configs /\ \A j \in Indices : ix[j].config = l.config /\ (j \notin l.todo => Docs \subseteq ix[j].docs)
        /\ l.index \in l.todo /\ l.refresh # None /\ Docs \ l.pending \subseteq ix[l.index].docs
    BY <1>1, <1>2, LoaderStands DEF LoaderKnows
  <1>4. PICK i \in Indices, f \in {"1s", "-1"} : i = l.index /\ f = l.refresh
    BY <1>3 DEF LoadStates
  <1>5. PICK r : r = [ix[i] EXCEPT !.refresh = f]
    OBVIOUS
  <1>6. r \in SeedIndexRows /\ r.config = ix[i].config /\ r.replicas = ix[i].replicas /\ r.docs = ix[i].docs
    BY <1>5 DEF SeedIndexRows
  <1>7. PICK jx : jx = index' /\ jx = [ix EXCEPT ![i] = r]
    BY <1>2, <1>4, <1>5 DEF RestoreRefresh
  <1>8. r.config = None => r.replicas # "many"
    BY <1>2, <1>6 DEF SeedsFit
  <1>9. jx \in [Indices -> SeedIndexRows] /\ \A j \in Indices : jx[j] = IF j = i THEN r ELSE ix[j]
    BY <1>6, <1>7
  <1>10. SeedsFit(jx) /\ NoMoreReplicas(ix, jx)
    BY <1>2, <1>6, <1>8, <1>9, IndexIs
  <1>11. PICK m : m = load' /\ m = [l EXCEPT !.at = "count"]
    BY <1>2 DEF RestoreRefresh
  <1>12. /\ m \in LoadStates /\ m.at = "count" /\ m.config = l.config /\ m.todo = l.todo /\ m.index = l.index
         /\ m.pending = l.pending /\ m.refresh = l.refresh
    BY <1>11 DEF LoadStates
  <1>13. LoaderKnows(m, jx)
    <2>1. l.todo \subseteq Indices
      BY DEF LoadStates
    <2> QED BY <1>3, <1>6, <1>9, <1>12, <2>1 DEF LoaderKnows
  <1> QED BY <1>1, <1>2, <1>7, <1>10, <1>11, <1>12, <1>13, LoaderStands, LoaderStep

LEMMA CountIndexKeeps ==
    ASSUME DrillInv, CountIndex
    PROVE  DrillInv'
  <1>1. Untouched /\ UNCHANGED <<index, used>> /\ load.at = "count"
    BY DEF CountIndex
  <1>2. PICK l \in LoadStates : l = load
    BY LoaderStands
  <1>3. /\ l.config \in Configs /\ \A j \in Indices : index[j].config = l.config /\ (j \notin l.todo => Docs \subseteq index[j].docs)
        /\ l.index \in l.todo /\ l.refresh # None /\ Docs \ l.pending \subseteq index[l.index].docs
    BY <1>1, <1>2, LoaderStands DEF LoaderKnows
  <1>4. CASE ~ Counted
    <2>1. load' = NoLoad /\ manifest' = [manifest EXCEPT !.status = "failed"]
      BY <1>4 DEF CountIndex
    <2>2. manifest' \in Manifests
      BY <2>1, LoaderStands DEF Manifests
    <2> QED BY <1>1, <2>1, <2>2, LoaderStands, NothingLoads, LoaderStep
  <1>5. CASE Counted
    <2>1. l.pending = {} /\ load' = [l EXCEPT !.at = "next", !.todo = l.todo \ {l.index}] /\ UNCHANGED manifest
      BY <1>2, <1>5 DEF CountIndex, Counted
    <2>2. PICK t \in SUBSET Indices : t = l.todo \ {l.index}
      BY DEF LoadStates
    <2>3. PICK m : m = load' /\ m = [l EXCEPT !.at = "next", !.todo = t]
      BY <2>1, <2>2
    <2>4. m \in LoadStates /\ m.at = "next" /\ m.config = l.config /\ m.todo = t
      BY <2>3 DEF LoadStates
    <2>5. \A j \in Indices : j \notin t => Docs \subseteq index[j].docs
      BY <1>3, <2>1, <2>2
    <2>6. LoaderKnows(m, index)
      BY <1>3, <2>4, <2>5 DEF LoaderKnows
    <2> QED BY <1>1, <2>1, <2>3, <2>4, <2>6, LoaderStands, LoaderStep
  <1> QED BY <1>4, <1>5

LEMMA SeedLoadEndsKeeps ==
    ASSUME DrillInv, SeedLoadEnds
    PROVE  DrillInv' /\ \A i \in Indices : index[i].config = manifest'.config /\ Docs \subseteq index[i].docs
  <1>1. Untouched /\ UNCHANGED <<index, used>> /\ load.at = "next" /\ load.todo = {} /\ load' = NoLoad
    BY DEF SeedLoadEnds
  <1>2. load.config \in Configs /\ \A j \in Indices : index[j].config = load.config /\ Docs \subseteq index[j].docs
    BY <1>1, LoaderStands DEF LoaderKnows
  <1>3. manifest' \in Manifests /\ manifest'.config = load.config
    BY <1>2, LoaderStands DEF SeedLoadEnds, Manifest, Manifests
  <1>4. DrillInv'
    BY <1>1, <1>3, LoaderStands, NothingLoads, LoaderStep
  <1> QED BY <1>2, <1>3, <1>4

LEMMA LoadFailsKeeps ==
    ASSUME DrillInv, LoadFails
    PROVE  DrillInv'
  <1>1. Untouched /\ UNCHANGED <<index, used>> /\ load' = NoLoad
    BY DEF LoadFails
  <1>2. manifest' \in Manifests
    BY LoaderStands DEF LoadFails, Manifests
  <1> QED BY <1>1, <1>2, LoaderStands, NothingLoads, LoaderStep

LEMMA LiveLoadKeeps ==
    ASSUME DrillInv, NEW i \in Indices, LiveLoad(i)
    PROVE  DrillInv'
  <1>1. Untouched /\ UNCHANGED <<manifest, load>> /\ used' = [used EXCEPT !.loads = @ + 1]
    BY DEF LiveLoad, loading
  <1>2. PICK ix, jx : ix = index /\ jx = index'
    OBVIOUS
  <1>3. jx = Grown(ix, i, {"live"})
    BY <1>2 DEF LiveLoad, Grown
  <1>4. {"live"} \in SUBSET SeedContents
    BY DEF SeedContents
  <1>5. /\ SeedsFit(jx) /\ NoMoreReplicas(ix, jx)
        /\ \A j \in Indices : jx[j].config = ix[j].config /\ jx[j].docs = (IF j = i THEN ix[j].docs \cup {"live"} ELSE ix[j].docs)
    BY <1>2, <1>3, <1>4, LoaderStands, DocsAre DEF GrownWell
  <1>6. load.todo \subseteq Indices
    BY LoaderStands DEF LoadStates
  <1>7. LoaderKnows(load, jx)
    BY <1>2, <1>5, <1>6, LoaderStands DEF LoaderKnows
  <1> QED BY <1>1, <1>2, <1>5, <1>7, LoaderStands, OneMore, LoaderStep

LEMMA MaintenanceStartKeeps ==
    ASSUME DrillInv, NEW op \in {"purge", "reset"}, MaintenanceStart(op)
    PROVE  DrillInv'
  <1>1. Untouched /\ UNCHANGED <<index, manifest>> /\ used' = [used EXCEPT !.loads = @ + 1]
    BY DEF MaintenanceStart, DataCommand
  <1>2. PICK n \in LoadStates, t \in SUBSET Indices : n = NoLoad /\ t = Present
    BY NothingLoads DEF Present
  <1>3. PICK l : l = load' /\ l = [n EXCEPT !.at = op, !.todo = t]
    BY <1>2 DEF MaintenanceStart
  <1>4. l \in LoadStates /\ l.at = op
    BY <1>3 DEF LoadStates
  <1>5. LoaderKnows(l, index)
    BY <1>4 DEF LoaderKnows
  <1> QED BY <1>1, <1>3, <1>4, <1>5, LoaderStands, OneMore, LoaderStep

LEMMA PurgeKeeps ==
    ASSUME DrillInv, Purge
    PROVE  DrillInv'
  <1>1. Untouched /\ UNCHANGED <<manifest, used>> /\ load' = NoLoad
    BY DEF Purge
  <1>2. PICK ix, jx : ix = index /\ jx = index' /\ ix \in [Indices -> SeedIndexRows] /\ SeedsFit(ix)
    BY LoaderStands
  <1>3. \A i \in Indices : jx[i] \in {ix[i], Absent}
    BY <1>2 DEF Purge
  <1>4. jx \in [Indices -> SeedIndexRows]
    BY <1>2, RowsAre DEF Purge
  <1>5. SeedsFit(jx) /\ NoMoreReplicas(ix, jx)
    BY <1>2, <1>3, <1>4, RowsAre DEF SeedsFit, NoMoreReplicas
  <1> QED BY <1>1, <1>2, <1>5, LoaderStands, NothingLoads, LoaderStep

LEMMA ResetKeeps ==
    ASSUME DrillInv, Reset
    PROVE  DrillInv'
  <1>1. UNCHANGED <<lab, manifest, active, drill, report, used>> /\ load' = NoLoad
    BY DEF Reset
  <1>2. PICK ix, jx : ix = index /\ jx = index' /\ ix \in [Indices -> SeedIndexRows] /\ SeedsFit(ix)
    BY LoaderStands
  <1>3. \A r \in SeedIndexRows : [r EXCEPT !.replicas = "layout", !.refresh = "1s"] \in SeedIndexRows
                            /\ [r EXCEPT !.replicas = "layout", !.refresh = "1s"].replicas = "layout"
    BY DEF SeedIndexRows
  <1>4. jx = [i \in Indices |-> IF i \in load.todo THEN [ix[i] EXCEPT !.replicas = "layout", !.refresh = "1s"] ELSE ix[i]]
    BY <1>2 DEF Reset
  <1>5. jx \in [Indices -> SeedIndexRows] /\ \A i \in Indices : jx[i].replicas = "layout" \/ jx[i] = ix[i]
    <2>1. ASSUME NEW i \in Indices
          PROVE  jx[i] \in SeedIndexRows /\ (jx[i].replicas = "layout" \/ jx[i] = ix[i])
      <3>1. PICK r \in SeedIndexRows : r = ix[i]
        BY <1>2
      <3>2. jx[i] = [r EXCEPT !.replicas = "layout", !.refresh = "1s"] \/ jx[i] = ix[i]
        BY <1>4, <3>1
      <3> QED BY <1>3, <3>1, <3>2
    <2>2. jx = [i \in Indices |-> jx[i]]
      BY <1>4
    <2> QED BY <2>1, <2>2
  <1>6. SeedsFit(jx) /\ NoMoreReplicas(ix, jx)
    BY <1>2, <1>5 DEF SeedsFit, NoMoreReplicas
  <1>7. PICK w, v : w = world /\ v = world' /\ v = [w EXCEPT !.keys = {}] /\ w \in Worlds
    <2>1. world' = [world EXCEPT !.keys = {}] /\ world \in Worlds
      BY Standing DEF Reset
    <2> QED BY <2>1
  <1>8. v \in Worlds /\ v.uuid = w.uuid /\ v.down = w.down /\ v.keys = {} /\ v.canary = w.canary
    BY <1>7 DEF Worlds
  <1>9. manifest' \in [status : {"loading", "loaded", "failed"}, config : Configs, uuid : Nat]
    BY <1>1, LoaderStands DEF Manifests
  <1> QED BY <1>1, <1>2, <1>6, <1>7, <1>8, <1>9, LoaderStands, NothingLoads, BesideStep

LEMMA DownKeeps ==
    ASSUME DrillInv, NEW purge \in BOOLEAN, Down(purge)
    PROVE  DrillInv'
  <1>1. UNCHANGED <<lab, manifest, active, drill, report, load>> /\ load = NoLoad /\ used' = [used EXCEPT !.loads = @ + 1]
    BY DEF Down, DataCommand
  <1>2. manifest' \in [status : {"loading", "loaded", "failed"}, config : Configs, uuid : Nat]
    BY <1>1, LoaderStands DEF Manifests
  <1>3. used' \in [drills : 0..MaxDrills, loads : Nat] /\ load' \in LoadStates /\ LoaderKnows(load', index')
    BY <1>1, LoaderStands, OneMore, NothingLoads
  <1>4. PICK w \in Worlds : w = world
    BY Standing
  <1>5. CASE purge
    <2>1. PICK m \in Nodes, u \in Nat, g \in Nat, c \in Canaries : m = w.master /\ u = w.uuid /\ g = w.gen /\ c = NoCanary
      BY <1>4, Standing, CanarySets DEF Worlds
    <2>2. world' = [up |-> FALSE, down |-> {}, master |-> m, keys |-> {}, canary |-> c, uuid |-> u + 1, gen |-> g + 1]
      BY <1>4, <1>5, <2>1 DEF Down
    <2>3. world' \in Worlds /\ world'.down = {} /\ world'.keys = {} /\ world'.canary = NoCanary /\ w.uuid < world'.uuid
      BY <2>1, <2>2 DEF Worlds
    <2>4. index' = [i \in Indices |-> Absent]
      BY <1>5 DEF Down
    <2>5. SeedsFit(index') /\ NoMoreReplicas(index, index')
      BY <2>4, RowsAre DEF SeedsFit, NoMoreReplicas
    <2> QED BY <1>1, <1>2, <1>3, <1>4, <2>3, <2>5, BesideStep
  <1>6. CASE ~ purge
    <2>1. PICK g \in Nat : g = w.gen + 1
      BY DEF Worlds
    <2>2. world' = [w EXCEPT !.up = FALSE, !.down = {}, !.gen = g] /\ index' = index
      BY <1>4, <1>6, <2>1 DEF Down
    <2>3. world' \in Worlds /\ world'.down = {} /\ world'.keys = w.keys /\ world'.canary = w.canary /\ world'.uuid = w.uuid
      BY <2>2 DEF Worlds
    <2> QED BY <1>1, <1>2, <1>3, <1>4, <2>2, <2>3, LoaderStands, BesideStep
  <1> QED BY <1>5, <1>6

LEMMA UpKeeps ==
    ASSUME DrillInv, Up
    PROVE  DrillInv'
  <1>1. UNCHANGED <<lab, index, manifest, active, drill, report, load, used>> /\ world' = [world EXCEPT !.up = TRUE]
    BY DEF Up
  <1>2. PICK w \in Worlds : w = world
    BY Standing
  <1>3. world' \in Worlds /\ world'.down = w.down /\ world'.keys = w.keys /\ world'.canary = w.canary /\ world'.uuid = w.uuid
    BY <1>1, <1>2 DEF Worlds
  <1>4. manifest' \in [status : {"loading", "loaded", "failed"}, config : Configs, uuid : Nat]
    BY <1>1, LoaderStands DEF Manifests
  <1> QED BY <1>1, <1>2, <1>3, <1>4, LoaderStands, BesideStep

LEMMA SearchStarts ==
    ASSUME SearchInit
    PROVE  DrillInv
  <1>1. PICK m \in Nodes : m = CHOOSE n \in Nodes : TRUE
    BY SearchAssumption
  <1>2. PICK c \in Canaries : c = NoCanary
    <2>1. NoCanary \in Canaries
      BY SearchAssumption DEF NoCanary, Canaries
    <2> QED BY <2>1
  <1>3. world = [up |-> TRUE, down |-> {}, master |-> m, keys |-> {}, canary |-> c, uuid |-> 0, gen |-> 0]
    BY <1>1, <1>2 DEF SearchInit
  <1>4. world \in Worlds /\ world.keys = {} /\ world.canary = NoCanary /\ world.down = {}
    BY <1>2, <1>3 DEF Worlds
  <1>5. PICK r \in SeedIndexRows : r = [NewIndex("c1", 0) EXCEPT !.docs = Docs] /\ r.replicas = "layout"
    <2>1. PICK q \in SeedIndexRows : q = NewIndex("c1", 0) /\ q.replicas = "layout"
      BY RowsAre DEF Configs
    <2>2. [q EXCEPT !.docs = Docs] \in SeedIndexRows /\ [q EXCEPT !.docs = Docs].replicas = "layout"
      BY <2>1 DEF SeedIndexRows, SeedContents
    <2> QED BY <2>1, <2>2
  <1>6. index = [i \in Indices |-> r]
    BY <1>5 DEF SearchInit
  <1>7. SeedsFit(index) /\ \A i \in Indices : index[i].replicas # "many"
    BY <1>5, <1>6 DEF SeedsFit
  <1>8. lab \in {"es7", "es9"} /\ active = [id |-> 0] /\ drill = Idle /\ report = None /\ load = NoLoad
    BY SearchAssumption DEF SearchInit
  <1>9. active.id = 0
    BY <1>8
  <1>10. manifest \in [status : {"loading", "loaded", "failed"}, config : Configs, uuid : Nat]
    BY DEF SearchInit, Configs
  <1>11. used \in [drills : 0..MaxDrills, loads : Nat]
    BY SearchAssumption DEF SearchInit
  <1>12. DrillTypes
    BY <1>4, <1>7, <1>8, <1>10, <1>11, NoDrill, NothingLoads DEF DrillTypes
  <1>13. drill.at = None /\ drill.at \notin Breaking \cup Repairing \cup {"probe", "inject", "delete", "finish", "unlink", "recover"}
    BY <1>8, NoDrill, Steps
  <1>14. DrillKnows(world, active, drill, index)
    BY <1>4, <1>7, <1>9, <1>13 DEF DrillKnows, DrillRestored
  <1>15. OutageKnows(world, active, drill, index)
    <2>1. drill.rest \in Seq(OutageCalls)
      <3>1. <<>> \in Seq(OutageCalls)
        OBVIOUS
      <3> QED BY <1>8, <3>1, NoDrill
    <2> QED BY <1>7, <1>9, <1>13, <2>1 DEF OutageKnows
  <1> QED BY <1>8, <1>12, <1>14, <1>15, NothingLoads DEF DrillInv

LEMMA SearchStep ==
    ASSUME DrillInv, [SearchNext]_searchVars
    PROVE  DrillInv'
  <1>1. CASE UNCHANGED searchVars
    BY <1>1 DEF searchVars, DrillInv, DrillTypes
  <1>2. CASE Drilling
    BY <1>2, BeginKeeps, CreateCanaryKeeps, WriteProbeKeeps, MarkRestartKeeps, StopNodeKeeps, ClusterPatchKeeps, CanarySettingKeeps,
       TooManyReplicasKeeps, NothingToInjectKeeps, CheckKeeps DEF Drilling
  <1>3. CASE Recovering
    BY <1>3, IdentifyKeeps, StartNodeKeeps, RestoreSettingsKeeps, RestoreIndexKeeps, ResetCanaryKeeps, VerifyRecoveryKeeps,
       DeleteCanaryKeeps, ArchiveKeeps, UnlinkKeeps DEF Recovering
  <1>4. CASE Loading
    BY <1>4, SeedStartKeeps, PrepareIndexKeeps, SeedIndexKeeps, LiveLoadKeeps, LoadBeginsKeeps, BulkSendKeeps, RestoreRefreshKeeps,
       CountIndexKeeps, SeedLoadEndsKeeps, LoadFailsKeeps DEF Loading
  <1>5. CASE Maintaining
    BY <1>5, MaintenanceStartKeeps, PurgeKeeps, ResetKeeps, DownKeeps, UpKeeps DEF Maintaining
  <1>6. CASE ManualCheck \/ Recover \/ Kill \/ \E n \in Nodes : Elect(n)
    BY <1>6, ManualCheckKeeps, RecoverKeeps, KillKeeps, ElectKeeps
  <1> QED BY <1>1, <1>2, <1>3, <1>4, <1>5, <1>6 DEF SearchNext

-----------------------------------------------------------------------------
(* What a step may do to the journal, the report and the manifest. *)

LEMMA NoEffects ==
    ASSUME DrillInv, DrillRestored(world, index), world.canary = NoCanary
    PROVE  Effects = {}
  BY DEF Effects, DrillRestored, Present

(* A journal appears while nothing of the cluster changes. *)
LEMMA OpensQuietly ==
    ASSUME DrillInv, [SearchNext]_searchVars, ~ Active, Active'
    PROVE  UNCHANGED <<world, index>>
  <1>1. active.id = 0 /\ active' # active /\ drill.at = None
    BY Standing DEF Active
  <1>2. CASE Drilling
    <2>1. None \notin {"create", "probe", "inject", "observe"}
      BY DEF None
    <2>2. PICK s \in Scenarios, n \in Nodes, i \in Indices, leave \in BOOLEAN : Begin(s, n, i, leave)
      BY <1>1, <1>2, <2>1 DEF Drilling, CreateCanary, WriteProbe, MarkRestart, StopNode, ClusterPatch, CanarySetting, TooManyReplicas,
           NothingToInject, Check, Injecting
    <2> QED BY <2>2 DEF Begin
  <1>3. ~ Recovering
    BY <1>1 DEF Recovering, Identify, StartNode, RestoreSettings, RestoreIndex, ResetCanary, VerifyRecovery, DeleteCanary, Archive, Unlink, None
  <1>4. ~ Loading
    BY <1>1 DEF Loading, SeedStart, PrepareIndex, SeedIndex, LiveLoad, LoadBegins, BulkSend, RestoreRefresh, CountIndex, SeedLoadEnds, LoadFails,
                Untouched
  <1>5. ~ Maintaining
    BY <1>1 DEF Maintaining, MaintenanceStart, Purge, Reset, Down, Up, Untouched
  <1>6. ~ (ManualCheck \/ Recover \/ Kill \/ \E n \in Nodes : Elect(n))
    BY <1>1 DEF ManualCheck, Recover, Kill, Elect, Active
  <1>7. active' = active \/ SearchNext
    BY DEF searchVars
  <1> QED BY <1>1, <1>2, <1>3, <1>4, <1>5, <1>6, <1>7 DEF SearchNext

LEMMA JournalStep ==
    ASSUME DrillInv, DrillInv', [SearchNext]_searchVars
    PROVE  Drills!Next \/ UNCHANGED <<Active, Effects>>
  <1>1. ~ Active => Effects = {}
    <2> SUFFICES ASSUME ~ Active
                 PROVE  Effects = {}
      OBVIOUS
    <2>1. DrillRestored(world, index) /\ world.canary = NoCanary
      BY DEF DrillInv, DrillKnows, Active
    <2> QED BY <2>1, NoEffects
  <1>2. ~ Active' => Effects' = {}
    <2> SUFFICES ASSUME ~ Active'
                 PROVE  Effects' = {}
      OBVIOUS
    <2>1. DrillRestored(world', index') /\ world'.canary = NoCanary
      BY DEF DrillInv, DrillKnows, Active
    <2> QED BY <2>1 DEF Effects, DrillRestored, Present
  <1>3. Effects' \subseteq {"node", "settings", "replicas", "canary"}
    BY DEF Effects
  <1>4. Active \in BOOLEAN /\ Active' \in BOOLEAN
    BY DEF Active
  <1>5. CASE Active /\ Active'
    BY <1>3, <1>4, <1>5 DEF Drills!Next, Drills!Change
  <1>6. CASE Active /\ ~ Active'
    BY <1>2, <1>4, <1>6 DEF Drills!Next, Drills!Close
  <1>7. CASE ~ Active /\ Active'
    <2>1. UNCHANGED <<world, index>>
      BY <1>7, OpensQuietly
    <2>2. Effects' = Effects
      BY <2>1 DEF Effects, Present
    <2> QED BY <1>1, <1>4, <1>7, <2>2 DEF Drills!Next, Drills!Open
  <1>8. CASE ~ Active /\ ~ Active'
    BY <1>2, <1>4, <1>8 DEF Drills!Next, Drills!Settle
  <1> QED BY <1>5, <1>6, <1>7, <1>8

(* Only the archive step leads from the last check to the end of the journal. *)
LEMMA OnlyArchiveEnds ==
    ASSUME DrillInv, [SearchNext]_searchVars, drill.at = "finish", drill'.at = "unlink"
    PROVE  Archive
  <1>1. drill' # drill /\ drill # Idle /\ drill' # Idle
    BY NoDrill DEF None
  <1>2. ~ Drilling
    BY <1>1 DEF Drilling, Begin, CreateCanary, WriteProbe, MarkRestart, StopNode, ClusterPatch, CanarySetting, TooManyReplicas,
           NothingToInject, Check, Injecting
  <1>3. Recovering => Archive
    BY DEF Recovering, Identify, StartNode, RestoreSettings, RestoreIndex, ResetCanary, VerifyRecovery, DeleteCanary, Unlink
  <1>4. ~ Loading
    BY <1>1 DEF Loading, SeedStart, PrepareIndex, SeedIndex, LiveLoad, LoadBegins, BulkSend, RestoreRefresh, CountIndex, SeedLoadEnds, LoadFails,
                Untouched
  <1>5. ~ Maintaining
    BY <1>1 DEF Maintaining, MaintenanceStart, Purge, Reset, Down, Up, Untouched
  <1>6. ~ (ManualCheck \/ Recover \/ Kill \/ \E n \in Nodes : Elect(n))
    BY <1>1 DEF ManualCheck, Recover, Kill, Elect
  <1>7. drill' = drill \/ SearchNext
    BY DEF searchVars
  <1> QED BY <1>1, <1>2, <1>3, <1>4, <1>5, <1>6, <1>7 DEF SearchNext

LEMMA ReportStep ==
    ASSUME DrillInv, [SearchNext]_searchVars, drill.at = "finish", drill'.at = "unlink", report' = "PASS"
    PROVE  active.observed /\ ~ active.error /\ Effects = {}
  <1>1. Archive
    BY OnlyArchiveEnds
  <1>2. MayArchive /\ report' = (IF lab = "es7" THEN Result7 ELSE Result9)
    BY <1>1, NoDrill DEF Archive, None
  <1>3. Effects = {}
    <2>1. DrillRestored(world, index) /\ world.canary = NoCanary
      BY <1>2, Standing DEF DrillInv, DrillKnows, MayArchive, None
    <2> QED BY <2>1, NoEffects
  <1>4. CASE lab = "es7"
    BY <1>2, <1>3, <1>4 DEF Result7
  <1>5. CASE lab = "es9"
    <2>1. ~ drill.failed
      BY <1>2, <1>5 DEF Result9
    <2> QED BY <1>3, <1>5, <2>1, RepairSteps DEF DrillInv, OutageKnows
  <1> QED BY <1>4, <1>5 DEF DrillInv, DrillTypes

LEMMA LoadedStep ==
    ASSUME DrillInv, [SearchNext]_searchVars, manifest.status # "loaded", manifest'.status = "loaded"
    PROVE  \A i \in Indices : index[i].config = manifest'.config /\ Docs \subseteq index[i].docs
  <1>1. manifest' # manifest
    OBVIOUS
  <1>2. ~ Drilling
    BY <1>1 DEF Drilling, Begin, CreateCanary, WriteProbe, MarkRestart, StopNode, ClusterPatch, CanarySetting, TooManyReplicas,
           NothingToInject, Check, Kept, loading
  <1>3. ~ Recovering
    BY <1>1 DEF Recovering, Identify, StartNode, RestoreSettings, RestoreIndex, ResetCanary, VerifyRecovery, DeleteCanary, Archive, Unlink,
                Kept, loading
  <1>4. Loading => SeedLoadEnds
    <2>1. [manifest EXCEPT !.status = "failed"].status # "loaded"
      BY LoaderStands DEF Manifests
    <2>2. ~ LoadBegins
      BY DEF LoadBegins, Manifest
    <2>3. ~ CountIndex /\ ~ LoadFails
      BY <1>1, <2>1 DEF CountIndex, LoadFails
    <2>4. \A i \in Indices : ~ PrepareIndex(i) /\ ~ SeedIndex(i) /\ ~ LiveLoad(i)
      BY <1>1 DEF PrepareIndex, SeedIndex, LiveLoad, loading
    <2>5. ~ BulkSend /\ ~ RestoreRefresh /\ \A c, r : ~ SeedStart(c, r)
      BY <1>1 DEF BulkSend, RestoreRefresh, SeedStart
    <2> QED BY <2>2, <2>3, <2>4, <2>5 DEF Loading
  <1>5. ~ Maintaining
    BY <1>1 DEF Maintaining, MaintenanceStart, Purge, Reset, Down, Up
  <1>6. ~ (ManualCheck \/ Recover \/ Kill \/ \E n \in Nodes : Elect(n))
    BY <1>1 DEF ManualCheck, Recover, Kill, Elect, Kept, loading
  <1>7. SearchNext
    BY <1>1 DEF searchVars
  <1> QED BY <1>2, <1>3, <1>4, <1>5, <1>6, <1>7, SeedLoadEndsKeeps DEF SearchNext

-----------------------------------------------------------------------------

(* The inductive invariant of the search laboratories. *)
THEOREM DrillInvariant == SearchSpec => []DrillInv
  <1>1. SearchInit => DrillInv
    BY SearchStarts
  <1>2. DrillInv /\ [SearchNext]_searchVars => DrillInv'
    BY SearchStep
  <1> QED BY <1>1, <1>2, PTL DEF SearchSpec

(* The drills of both laboratories implement FaultJournal: active.json is written before the canary or  *)
(* any fault and unlinked only when no node is stopped, no setting or replica count changed and the     *)
(* canary is gone, with failed calls, kills, elections and the other commands at any point.             *)
THEOREM DrillsKeepTheirJournal == SearchSpec => JournalSpec
  <1>1. DrillInv /\ DrillInv' /\ [SearchNext]_searchVars => [Drills!Next \/ UNCHANGED <<Active, Effects>>]_searchVars
    BY JournalStep
  <1> QED BY <1>1, DrillInvariant, PTL DEF SearchSpec, JournalSpec

(* recover reports PASS only for a drill whose fault was observed, in which nothing failed, and of which *)
(* nothing is left in the cluster.                                                                      *)
THEOREM DrillReportsStayHonest == SearchSpec => ReportIsHonest
  <1>1. DrillInv /\ [SearchNext]_searchVars =>
            [drill.at = "finish" /\ drill'.at = "unlink" /\ report' = "PASS" =>
                active.observed /\ ~ active.error /\ Effects = {}]_searchVars
    BY ReportStep
  <1> QED BY <1>1, DrillInvariant, PTL DEF SearchSpec, ReportIsHonest

(* The seed manifest turns to "loaded" only over indices of its configuration that hold every document, *)
(* however the bulk requests were split, refused or repeated.                                           *)
THEOREM LoadedStaysComplete == SearchSpec => LoadedIsComplete
  <1>1. DrillInv /\ [SearchNext]_searchVars =>
            [manifest.status # "loaded" /\ manifest'.status = "loaded" =>
                \A i \in Indices : index[i].config = manifest'.config /\ Docs \subseteq index[i].docs]_searchVars
    BY LoadedStep
  <1> QED BY <1>1, DrillInvariant, PTL DEF SearchSpec, LoadedIsComplete

(* Nodes, seed indices, canary, report and manifest keep their types. *)
THEOREM SearchTypeCorrect == SearchSpec => []SearchTypeOK
  <1>1. DrillInv => SearchTypeOK
    BY DEF DrillInv, DrillTypes, SeedsFit, SeedIndexRows, Worlds, Canaries, SeedContents, SearchTypeOK
  <1> QED BY <1>1, DrillInvariant, PTL

=============================================================================
