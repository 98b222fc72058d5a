---------------------------- MODULE TenantProofs ----------------------------
(***************************************************************************)
(* Tenants stay apart and totals are exact: proofs about API keys,          *)
(* customers, invoices and the arithmetic of line items.                    *)
(*                                                                         *)
(* What the folds of the totals compute is proved by induction in the form  *)
(* "a set of naturals has a least element": the least counterexample of a   *)
(* claim about sets of n elements has a smaller one.                         *)
(***************************************************************************)
EXTENDS TenantApi, FiniteSetTheorems, SequenceTheorems, WellFoundedInduction, TLAPS

-----------------------------------------------------------------------------
(* Folds                                                                   *)

\* Every set of naturals has a least element: the form of induction used below.
LEMMA NatMin ==
  ASSUME NEW T, T \subseteq Nat, T # {}
  PROVE  \E x \in T : \A y \in T : x <= y
<1> DEFINE R == {ss \in Nat \X Nat : ss[1] < ss[2]}
<1>1. IsWellFoundedOn(R, Nat)
  BY NatLessThanWellFounded DEF OpToRel
<1>2. ASSUME NEW x \in Nat, NEW y \in Nat, y < x PROVE <<y, x>> \in R
  BY <1>2
<1> HIDE DEF R
<1>3. PICK x \in T : \A y \in T : ~(<<y, x>> \in R)
  BY <1>1, WFMin
<1>4. ASSUME NEW y \in T PROVE x <= y
  <2>1. ~(y < x)
    BY <1>2, <1>3
  <2> QED BY <2>1
<1> QED BY <1>4

\* The equation of a fold over the subsets of D: pick[s] is the element taken next,
\* step combines it with the fold of the rest.
FoldEq(fold, D, base, pick, step) ==
  \A s \in SUBSET D :
    fold[s] = IF s = {} THEN base ELSE step[<<pick[s], fold[s \ {pick[s]}]>>]

Picks(pick, D) == \A s \in SUBSET D : s # {} => pick[s] \in s

\* A set without one of its elements.
LEMMA OneLess ==
  ASSUME NEW D, IsFiniteSet(D), NEW s \in SUBSET D, NEW x \in s
  PROVE  /\ IsFiniteSet(s) /\ s \ {x} \in SUBSET D
         /\ Cardinality(s) \in Nat /\ Cardinality(s \ {x}) \in Nat
         /\ Cardinality(s) = Cardinality(s \ {x}) + 1
<1>1. IsFiniteSet(s)
  BY FS_Subset
<1>2. IsFiniteSet(s \ {x}) /\ Cardinality(s \ {x}) = Cardinality(s) - 1
  BY <1>1, FS_RemoveElement
<1>3. Cardinality(s) \in Nat /\ Cardinality(s \ {x}) \in Nat
  BY <1>1, <1>2, FS_CardinalityType
<1> QED BY <1>1, <1>2, <1>3

\* A fold exists.
LEMMA FoldExists ==
  ASSUME NEW D, IsFiniteSet(D), NEW V, NEW base \in V,
         NEW pick, Picks(pick, D),
         NEW step \in [D \X V -> V]
  PROVE  \E fold \in [SUBSET D -> V] : FoldEq(fold, D, base, pick, step)
<1> DEFINE Small(n) == {s \in SUBSET D : Cardinality(s) <= n}
           Body(g, s) == IF s = {} THEN base ELSE step[<<pick[s], g[s \ {pick[s]}]>>]
           Good(n, g) == g \in [Small(n) -> V] /\ \A s \in Small(n) : g[s] = Body(g, s)
           Bad == {n \in Nat : ~\E g : Good(n, g)}
<1>1. \A s \in SUBSET D : Cardinality(s) \in Nat /\ (Cardinality(s) = 0 => s = {})
  <2> SUFFICES ASSUME NEW s \in SUBSET D
               PROVE  Cardinality(s) \in Nat /\ (Cardinality(s) = 0 => s = {})
    OBVIOUS
  <2>1. IsFiniteSet(s)
    BY FS_Subset
  <2> QED BY <2>1, FS_CardinalityType, FS_EmptySet
<1>2. \E g : Good(0, g)
  <2>1. \A s \in Small(0) : s = {}
    BY <1>1
  <2>2. Good(0, [s \in Small(0) |-> base])
    BY <2>1
  <2> QED BY <2>2
<1>3. ASSUME NEW n \in Nat, NEW g, Good(n, g) PROVE \E h : Good(n + 1, h)
  <2> DEFINE h == [s \in Small(n + 1) |-> Body(g, s)]
  <2>1. ASSUME NEW s \in Small(n + 1), s # {}
        PROVE  pick[s] \in D /\ s \ {pick[s]} \in Small(n)
    <3>1. s \in SUBSET D /\ pick[s] \in s
      BY <2>1 DEF Picks
    <3> QED BY <2>1, <3>1, OneLess
  <2>2. \A s \in Small(n) : s \in Small(n + 1)
    BY <1>1
  <2>3. \A s \in Small(n) : h[s] = g[s]
    BY <1>3, <2>2
  <2>4. \A s \in Small(n + 1) : Body(g, s) \in V /\ h[s] = Body(g, s)
    BY <1>3, <2>1
  <2>5. \A s \in Small(n + 1) : Body(g, s) = Body(h, s)
    BY <2>1, <2>3
  <2>6. h \in [Small(n + 1) -> V]
    BY <2>4
  <2> HIDE DEF h
  <2>7. Good(n + 1, h)
    BY <2>4, <2>5, <2>6
  <2> QED BY <2>7
<1> HIDE DEF Good
<1>4. Bad = {}
  <2> SUFFICES ASSUME Bad # {} PROVE FALSE
    OBVIOUS
  <2>1. PICK m \in Bad : \A n \in Bad : m <= n
    BY NatMin
  <2>2. m # 0 /\ m \in Nat
    BY <1>2, <2>1
  <2>3. m - 1 \in Nat /\ m - 1 \notin Bad
    BY <2>1, <2>2
  <2>4. PICK g : Good(m - 1, g)
    BY <2>3
  <2>5. \E h : Good((m - 1) + 1, h)
    BY <1>3, <2>3, <2>4
  <2>6. (m - 1) + 1 = m
    BY <2>2
  <2> QED BY <2>1, <2>5, <2>6
<1>5. PICK g : Good(Cardinality(D), g)
  BY <1>1, <1>4
<1>6. SUBSET D = Small(Cardinality(D))
  BY FS_Subset
<1>7. g \in [SUBSET D -> V] /\ \A s \in SUBSET D : g[s] = Body(g, s)
  BY <1>5, <1>6 DEF Good
<1> QED BY <1>7 DEF FoldEq

-----------------------------------------------------------------------------
(* Sums                                                                    *)

Pick(s) == CHOOSE x \in s : TRUE

\* The equation of the sum of a over the subsets of D.
SumBody(sum, a, s) == IF s = {} THEN 0 ELSE a[Pick(s)] + sum[s \ {Pick(s)}]

SumEq(sum, a, D) == \A s \in SUBSET D : sum[s] = SumBody(sum, a, s)

SumOver(a, D) == CHOOSE sum : sum = [s \in SUBSET D |-> SumBody(sum, a, s)]

LEMMA SumUnique ==
  ASSUME NEW D, IsFiniteSet(D), NEW a, NEW f, NEW g, SumEq(f, a, D), SumEq(g, a, D)
  PROVE  \A s \in SUBSET D : f[s] = g[s]
<1> DEFINE Bad == {n \in Nat : \E s \in SUBSET D : Cardinality(s) = n /\ f[s] # g[s]}
<1>1. Bad = {}
  <2> SUFFICES ASSUME Bad # {} PROVE FALSE
    OBVIOUS
  <2>1. PICK m \in Bad : \A n \in Bad : m <= n
    BY NatMin
  <2>2. PICK s \in SUBSET D : Cardinality(s) = m /\ f[s] # g[s]
    BY <2>1
  <2>3. PICK x : x = Pick(s)
    OBVIOUS
  <2>4. f[s] = SumBody(f, a, s) /\ g[s] = SumBody(g, a, s)
    BY DEF SumEq
  <2>5. s # {} /\ x \in s
    BY <2>2, <2>3, <2>4 DEF SumBody, Pick
  <2>6. PICK t \in SUBSET D, n \in Nat : t = s \ {x} /\ n = Cardinality(t) /\ m = n + 1
    <3>1. /\ s \ {x} \in SUBSET D /\ Cardinality(s \ {x}) \in Nat
          /\ Cardinality(s) = Cardinality(s \ {x}) + 1
      BY <2>5, OneLess
    <3> QED BY <2>2, <3>1
  <2>7. n \notin Bad
    <3> HIDE DEF Bad
    <3> QED BY <2>1, <2>6
  <2>8. f[t] = g[t]
    BY <2>6, <2>7
  <2> QED BY <2>2, <2>3, <2>4, <2>5, <2>6, <2>8 DEF SumBody
<1>2. ASSUME NEW s \in SUBSET D PROVE Cardinality(s) \in Nat
  <2>1. IsFiniteSet(s)
    BY FS_Subset
  <2> QED BY <2>1, FS_CardinalityType
<1> QED BY <1>1, <1>2

\* The sum over the subsets of a finite set is well defined.
LEMMA SumFacts ==
  ASSUME NEW D, IsFiniteSet(D), NEW a \in [D -> Nat], NEW sum, sum = SumOver(a, D)
  PROVE  /\ sum \in [SUBSET D -> Nat] /\ sum[{}] = 0
         /\ SumEq(sum, a, D)
<1> DEFINE pick == [s \in SUBSET D |-> Pick(s)]
           step == [p \in D \X Nat |-> a[p[1]] + p[2]]
<1>1. Picks(pick, D)
  BY DEF Pick, Picks
<1>2. step \in [D \X Nat -> Nat]
  OBVIOUS
<1>3. PICK fold \in [SUBSET D -> Nat] : FoldEq(fold, D, 0, pick, step)
  <2> HIDE DEF pick, step
  <2>1. 0 \in Nat
    OBVIOUS
  <2> QED BY <1>1, <1>2, <2>1, FoldExists
<1>4. SumEq(fold, a, D)
  <2> SUFFICES ASSUME NEW s \in SUBSET D PROVE fold[s] = SumBody(fold, a, s)
    BY DEF SumEq
  <2>1. CASE s = {}
    BY <1>3, <2>1 DEF FoldEq, SumBody
  <2>2. CASE s # {}
    <3>1. fold[s] = step[<<pick[s], fold[s \ {pick[s]}]>>]
      BY <1>3, <2>2 DEF FoldEq
    <3>2. pick[s] = Pick(s) /\ Pick(s) \in D /\ fold[s \ {Pick(s)}] \in Nat
      BY <1>1, <1>3, <2>2 DEF Picks
    <3>3. step[<<Pick(s), fold[s \ {Pick(s)}]>>] = a[Pick(s)] + fold[s \ {Pick(s)}]
      BY <3>2
    <3> QED BY <2>2, <3>1, <3>2, <3>3 DEF SumBody
  <2> QED BY <2>1, <2>2
<1> HIDE DEF pick, step
<1>5. fold = [s \in SUBSET D |-> SumBody(fold, a, s)]
  BY <1>3, <1>4 DEF SumEq
<1>6. sum = [s \in SUBSET D |-> SumBody(sum, a, s)]
  BY <1>5 DEF SumOver
<1>7. SumEq(sum, a, D)
  BY <1>6 DEF SumEq
<1>8. \A s \in SUBSET D : sum[s] = fold[s]
  BY <1>4, <1>7, SumUnique
<1>9. sum \in [SUBSET D -> Nat] /\ sum[{}] = 0
  <2>1. DOMAIN sum = SUBSET D /\ sum = [s \in DOMAIN sum |-> sum[s]]
    BY <1>6
  <2>2. sum[{}] = 0
    BY <1>7 DEF SumEq, SumBody
  <2> QED BY <1>3, <1>8, <2>1, <2>2
<1> QED BY <1>7, <1>9

LEMMA SumIsSumOver ==
  ASSUME NEW amounts
  PROVE  Sum(amounts) = SumOver(amounts, DOMAIN amounts)[DOMAIN amounts]
  BY DEF Sum, FoldSeq, FoldFunction, FoldFunctionOnSet, MapThenFoldSet, SumOver, SumBody, Pick

-----------------------------------------------------------------------------
(* The totals of line items                                                *)

\* The amounts of valid line items are natural numbers, one for each item.
LEMMA AmountsFacts ==
  ASSUME NEW items \in Seq(LineItem), ValidItems(items)
  PROVE  /\ DOMAIN items = 1 .. Len(items) /\ Len(items) \in Nat
         /\ IsFiniteSet(DOMAIN items)
         /\ Amounts(items) \in [DOMAIN items -> Nat]
         /\ Amounts(items) \in Seq(Nat)
         /\ \A n \in DOMAIN items :
              /\ Amounts(items)[n] = Amount(items[n])
              /\ Amounts(items)[n] = items[n].quantity * items[n].unit_amount_cents
<1>1. DOMAIN items = 1 .. Len(items) /\ Len(items) \in Nat
  OBVIOUS
<1>2. IsFiniteSet(DOMAIN items)
  <2>1. 1 \in Int /\ Len(items) \in Int
    BY <1>1
  <2> QED BY <1>1, <2>1, FS_Interval
<1>3. ASSUME NEW n \in DOMAIN items PROVE Amount(items[n]) \in Nat
  <2>1. items[n] \in LineItem /\ ValidItem(items[n])
    BY DEF ValidItems
  <2>2. items[n].quantity \in Nat /\ items[n].unit_amount_cents \in Nat
    BY <2>1 DEF LineItem, ValidItem
  <2>3. \A x, y \in Nat : x * y \in Nat
    OBVIOUS
  <2> QED BY <2>2, <2>3 DEF Amount
<1>4. Amounts(items) \in [DOMAIN items -> Nat]
  BY <1>3 DEF Amounts
<1>5. Amounts(items) \in Seq(Nat)
  BY <1>1, <1>4, SeqDef
<1>6. \A n \in DOMAIN items : Amounts(items)[n] = Amount(items[n])
  BY DEF Amounts
<1> QED BY <1>1, <1>2, <1>4, <1>5, <1>6 DEF Amount

\* SUM over the amounts, as a sum over sets of line numbers.
LEMMA TotalFacts ==
  ASSUME NEW items \in Seq(LineItem), ValidItems(items),
         NEW sum, sum = SumOver(Amounts(items), DOMAIN items)
  PROVE  /\ sum \in [SUBSET DOMAIN items -> Nat] /\ sum[{}] = 0
         /\ SumEq(sum, Amounts(items), DOMAIN items)
         /\ Sum(Amounts(items)) = sum[DOMAIN items]
         /\ Sum(Amounts(items)) \in Nat
<1>1. /\ IsFiniteSet(DOMAIN items) /\ Amounts(items) \in [DOMAIN items -> Nat]
      /\ DOMAIN Amounts(items) = DOMAIN items
  BY AmountsFacts DEF Amounts
<1>2. /\ sum \in [SUBSET DOMAIN items -> Nat] /\ sum[{}] = 0
      /\ SumEq(sum, Amounts(items), DOMAIN items)
  BY <1>1, SumFacts
<1>3. Sum(Amounts(items)) = sum[DOMAIN items]
  BY <1>1, SumIsSumOver
<1> QED BY <1>2, <1>3

\* The total is the sum of the products, whichever way they are added up.
LEMMA SumOfProducts ==
  ASSUME NEW items \in Seq(LineItem), ValidItems(items)
  PROVE  LET Product(n) == items[n].quantity * items[n].unit_amount_cents
         IN  MapThenSumSet(Product, DOMAIN items) = Sum(Amounts(items))
<1> DEFINE D == DOMAIN items
           Product(n) == items[n].quantity * items[n].unit_amount_cents
           Body(f, s) == IF s = {} THEN 0 ELSE Product(Pick(s)) + f[s \ {Pick(s)}]
           prod == CHOOSE f : f = [s \in SUBSET D |-> Body(f, s)]
<1>1. MapThenSumSet(Product, D) = prod[D]
  BY DEF MapThenSumSet, MapThenFoldSet, Pick
<1>2. PICK sum : sum = SumOver(Amounts(items), D)
  OBVIOUS
<1>3. /\ IsFiniteSet(D) /\ \A n \in D : Amounts(items)[n] = Product(n)
      /\ sum \in [SUBSET D -> Nat] /\ SumEq(sum, Amounts(items), D)
      /\ Sum(Amounts(items)) = sum[D]
  BY <1>2, AmountsFacts, TotalFacts
<1>4. ASSUME NEW f, NEW s \in SUBSET D PROVE Body(f, s) = SumBody(f, Amounts(items), s)
  <2>1. s # {} => Pick(s) \in D
    BY DEF Pick
  <2> HIDE DEF D, Product
  <2> QED BY <1>3, <2>1 DEF SumBody
<1> HIDE DEF D, Body
<1>5. sum = [s \in SUBSET D |-> Body(sum, s)]
  BY <1>3, <1>4 DEF SumEq
<1>6. prod = [s \in SUBSET D |-> Body(prod, s)]
  BY <1>5
<1> HIDE DEF prod
<1>7. SumEq(prod, Amounts(items), D)
  BY <1>4, <1>6 DEF SumEq
<1>8. prod[D] = sum[D]
  <2>1. \A s \in SUBSET D : prod[s] = sum[s]
    BY <1>3, <1>7, SumUnique
  <2> QED BY <2>1
<1> QED BY <1>1, <1>3, <1>8 DEF D

-----------------------------------------------------------------------------
(* Requests                                                                *)

\* No row is mistaken for a free id.
LEMMA RowsNotFree ==
  /\ \A row \in KeyRow : row # Free
  /\ \A row \in CustomerRow : row # Free
  /\ \A row \in InvoiceRow : row # Free
<1>1. ASSUME NEW row \in KeyRow PROVE row # Free
  BY DEF KeyRow, Free
<1>2. ASSUME NEW row \in CustomerRow PROVE row # Free
  BY DEF CustomerRow, Free
<1>3. ASSUME NEW row \in InvoiceRow PROVE row # Free
  BY DEF InvoiceRow, Free
<1> QED BY <1>1, <1>2, <1>3

\* Tokens and customers are never taken away.
Grows == /\ issued \subseteq issued'
         /\ \A c \in CustomerIds : customers[c] # Free => customers'[c] = customers[c]

\* What a request in its handler, or about to insert, holds.
LEMMA RequestShape ==
  ASSUME TypeOK, NEW r \in Requests
  PROVE  /\ requests[r] \in RequestState
         /\ requests[r].pc # "idle" => requests[r].business \in Businesses /\ requests[r].token \in Tokens
         /\ requests[r].pc = "insert" =>
              requests[r].customer \in CustomerIds /\ requests[r].items \in Orders
<1>1. requests[r] \in RequestState
  BY DEF TypeOK
<1> QED BY <1>1 DEF RequestState

\* A request that moves on while tokens and customers only grow.
LEMMA RequestMoves ==
  ASSUME TypeOK, RequestsSound, Grows, NEW r \in Requests, NEW st \in RequestState,
         requests' = [requests EXCEPT ![r] = st],
         st.pc # "idle" => <<st.token, st.business>> \in issued',
         st.pc = "insert" => /\ customers'[st.customer] # Free
                             /\ customers'[st.customer].business = st.business
                             /\ ValidItems(st.items)
  PROVE  requests' \in [Requests -> RequestState] /\ RequestsSound'
<1>1. requests \in [Requests -> RequestState]
  BY DEF TypeOK
<1>2. /\ requests' \in [Requests -> RequestState] /\ requests'[r] = st
      /\ \A q \in Requests : q # r => requests'[q] = requests[q]
  BY <1>1
<1>3. ASSUME NEW q \in Requests
      PROVE  /\ requests'[q].pc # "idle" =>
                  <<requests'[q].token, requests'[q].business>> \in issued'
             /\ requests'[q].pc = "insert" =>
                  /\ customers'[requests'[q].customer] # Free
                  /\ customers'[requests'[q].customer].business = requests'[q].business
                  /\ ValidItems(requests'[q].items)
  <2>1. CASE q = r
    BY <1>2, <2>1
  <2>2. CASE q # r
    <3>1. requests'[q] = requests[q]
      BY <1>2, <2>2
    <3>2. requests[q].pc = "insert" => requests[q].customer \in CustomerIds
      BY RequestShape
    <3> QED BY <3>1, <3>2 DEF RequestsSound, HasCustomer, Grows
  <2> QED BY <2>1, <2>2
<1>4. RequestsSound'
  BY <1>3 DEF RequestsSound, HasCustomer, ValidItems, ValidItem
<1> QED BY <1>2, <1>4

LEMMA RequestAnswered ==
  ASSUME TypeOK, RequestsSound, Grows, NEW r \in Requests, NEW result \in Results,
         Answer(r, result)
  PROVE  requests' \in [Requests -> RequestState] /\ RequestsSound' /\ requests'[r].pc = "idle"
<1> DEFINE st == [pc |-> "idle", result |-> result]
<1>1. st \in RequestState /\ st.pc = "idle"
  BY DEF RequestState
<1>2. requests' = [requests EXCEPT ![r] = st]
  BY DEF Answer
<1> HIDE DEF st
<1>3. requests' \in [Requests -> RequestState] /\ RequestsSound'
  BY <1>1, <1>2, RequestMoves
<1> QED BY <1>1, <1>2, <1>3 DEF TypeOK

LEMMA ExactNext ==
  ExactTotals' <=> \A i \in InvoiceIds : invoices'[i] # Free => Exact(invoices'[i])
  BY DEF ExactTotals, Exact, MapThenSumSet, MapThenFoldSet

\* A step that writes no row.
LEMMA ReadsKeep ==
  ASSUME TenantInv, UNCHANGED tables, requests' \in [Requests -> RequestState], RequestsSound'
  PROVE  TenantInv'
<1> USE DEF tables
<1>1. TypeOK'
  BY DEF TenantInv, TypeOK
<1>2. KeysIssued' /\ ActsForOwner' /\ OwnCustomers'
  BY DEF TenantInv, KeysIssued, ActsForOwner, OwnCustomers, derive_prefix
<1>3. ExactTotals'
  BY ExactNext DEF TenantInv, ExactTotals
<1>4. CreatedOnce'
  BY DEF TenantInv, CreatedOnce
<1> QED BY <1>1, <1>2, <1>3, <1>4 DEF TenantInv

LEMMA AuthenticateKeeps ==
  ASSUME TenantInv, NEW r \in Requests, NEW token \in Tokens, Authenticate(r, token)
  PROVE  TenantInv'
<1>1. PICK k \in KeyIds :
        /\ Verifies(k, token)
        /\ requests' = [requests EXCEPT ![r] =
             [pc |-> "handler", business |-> keys[k].business, token |-> token]]
  BY DEF Authenticate
<1> DEFINE st == [pc |-> "handler", business |-> keys[k].business, token |-> token]
<1>2. keys[k] # Free /\ keys[k] \in KeyRow /\ keys[k].token = token
  BY <1>1 DEF Verifies, TenantInv, TypeOK
<1>3. <<token, keys[k].business>> \in issued
  BY <1>2 DEF TenantInv, KeysIssued
<1>4. st \in RequestState /\ st.pc = "handler" /\ st.token = token /\ st.business = keys[k].business
  BY <1>2 DEF RequestState, KeyRow
<1>5. UNCHANGED tables /\ Grows
  BY DEF Authenticate, Grows, tables
<1> HIDE DEF st
<1>6. requests' = [requests EXCEPT ![r] = st]
  BY <1>1 DEF st
<1>7. <<st.token, st.business>> \in issued'
  BY <1>3, <1>4, <1>5 DEF tables
<1>8. requests' \in [Requests -> RequestState] /\ RequestsSound'
  BY <1>4, <1>5, <1>6, <1>7, RequestMoves DEF TenantInv
<1> QED BY <1>5, <1>8, ReadsKeep

LEMMA CheckInvoiceKeeps ==
  ASSUME TenantInv, NEW r \in Requests, NEW c \in CustomerIds, NEW items \in Orders,
         CheckInvoice(r, c, items)
  PROVE  TenantInv'
<1> DEFINE st == [pc |-> "insert", business |-> requests[r].business,
                  token |-> requests[r].token, customer |-> c, items |-> items]
<1>1. /\ requests[r].pc = "handler" /\ ValidItems(items) /\ HasCustomer(requests[r].business, c)
      /\ requests' = [requests EXCEPT ![r] = st] /\ UNCHANGED tables /\ Grows
  BY DEF CheckInvoice, Grows, tables
<1>2. requests[r].business \in Businesses /\ requests[r].token \in Tokens
  BY <1>1, RequestShape DEF TenantInv
<1>3. <<requests[r].token, requests[r].business>> \in issued
  BY <1>1 DEF TenantInv, RequestsSound
<1>4. /\ st \in RequestState /\ st.pc = "insert" /\ st.token = requests[r].token
      /\ st.business = requests[r].business /\ st.customer = c /\ st.items = items
  BY <1>2 DEF RequestState
<1> HIDE DEF st
<1>5. /\ <<st.token, st.business>> \in issued'
      /\ customers'[st.customer] # Free /\ customers'[st.customer].business = st.business
  BY <1>1, <1>3, <1>4 DEF HasCustomer, tables
<1>6. requests' \in [Requests -> RequestState] /\ RequestsSound'
  BY <1>1, <1>4, <1>5, RequestMoves DEF TenantInv
<1> QED BY <1>1, <1>6, ReadsKeep

\* Every refusal, and a request given up, answers and writes nothing.
Refuses(r) ==
  \/ \E token \in Tokens : Unauthorized(r, token) \/ CreateKeyCollides(r, token)
  \/ \E k \in KeyIds : RevokeNotFound(r, k)
  \/ \E email \in Emails \cup {NoEmail} : CustomerExists(r, email)
  \/ CustomerInvalid(r)
  \/ \E items \in Orders : \/ InvoiceInvalid(r, items)
                           \/ \E c \in CustomerIds : CustomerNotFound(r, c, items)
  \/ InsertOverflows(r) \/ Abandon(r)

LEMMA RefusesKeeps ==
  ASSUME TenantInv, NEW r \in Requests, Refuses(r)
  PROVE  TenantInv'
<1>1. PICK result \in Results : Answer(r, result) /\ UNCHANGED tables
  BY DEF Refuses, Unauthorized, CreateKeyCollides, RevokeNotFound, CustomerExists,
     CustomerInvalid, InvoiceInvalid, CustomerNotFound, InsertOverflows, Abandon, Results
<1>2. Grows
  BY <1>1 DEF Grows, tables
<1> QED BY <1>1, <1>2, RequestAnswered, ReadsKeep DEF TenantInv

-----------------------------------------------------------------------------
(* The requests that write                                                 *)

\* Whoever writes acts for the business its token was handed to.
LEMMA ActsAllowed ==
  ASSUME TenantInv, NEW r \in Requests, requests[r].pc # "idle", Acts(r),
         issued \subseteq issued', issued' \subseteq Tokens \X Businesses
  PROVE  acted' \subseteq issued' /\ acted' \subseteq Tokens \X Businesses
<1>1. acted \subseteq issued /\ <<requests[r].token, requests[r].business>> \in issued
  BY DEF TenantInv, ActsForOwner, RequestsSound
<1> QED BY <1>1 DEF Acts

LEMMA CreateKeyKeeps ==
  ASSUME TenantInv, NEW r \in Requests, NEW k \in KeyIds, NEW token \in Tokens,
         CreateKey(r, k, token)
  PROVE  TenantInv'
<1> DEFINE b == requests[r].business
           row == [business |-> b, token |-> token, revoked |-> FALSE]
<1>1. /\ requests[r].pc = "handler" /\ keys[k] = Free /\ ~PrefixTaken(derive_prefix(token))
      /\ keys' = [keys EXCEPT ![k] = row] /\ issued' = issued \cup {<<token, b>>}
      /\ Acts(r) /\ Answer(r, "ok") /\ UNCHANGED <<customers, invoices, outbox>>
  BY DEF CreateKey
<1>2. TypeOK /\ b \in Businesses
  BY <1>1, RequestShape DEF TenantInv
<1>3. row \in KeyRow /\ row.token = token /\ row.business = b /\ row # Free
  BY <1>2, RowsNotFree DEF KeyRow
<1> HIDE DEF row, b
<1>4. /\ keys' \in [KeyIds -> KeyRow \cup {Free}] /\ keys'[k] = row
      /\ \A j \in KeyIds : j # k => keys'[j] = keys[j]
  BY <1>1, <1>2, <1>3 DEF TypeOK
<1>5. Grows /\ issued' \subseteq Tokens \X Businesses
  BY <1>1, <1>2 DEF Grows, TypeOK
<1>6. acted' \subseteq issued' /\ acted' \subseteq Tokens \X Businesses
  BY <1>1, <1>5, ActsAllowed DEF Grows
<1>7. requests' \in [Requests -> RequestState] /\ RequestsSound'
  <2>1. "ok" \in Results
    BY DEF Results
  <2> QED BY <1>1, <1>2, <1>5, <2>1, RequestAnswered DEF TenantInv
<1>8. TypeOK'
  BY <1>1, <1>2, <1>4, <1>5, <1>6, <1>7 DEF TypeOK
<1>9. \A j \in KeyIds : keys[j] # Free =>
        derive_prefix(keys[j].token) # derive_prefix(token) /\ keys[j].token # token
  BY <1>1 DEF PrefixTaken
<1>10. KeysIssued'
  <2>1. ASSUME NEW j \in KeyIds, keys'[j] # Free
        PROVE  <<keys'[j].token, keys'[j].business>> \in issued'
    BY <1>1, <1>3, <1>4, <2>1 DEF TenantInv, KeysIssued
  <2>2. ASSUME NEW p \in issued'
        PROVE  \E j \in KeyIds : keys'[j] # Free /\ keys'[j].token = p[1] /\ keys'[j].business = p[2]
    <3>1. CASE p = <<token, b>>
      BY <1>3, <1>4, <3>1
    <3>2. CASE p \in issued
      <4>1. PICK j \in KeyIds : keys[j] # Free /\ keys[j].token = p[1] /\ keys[j].business = p[2]
        BY <3>2 DEF TenantInv, KeysIssued
      <4>2. keys'[j] = keys[j]
        BY <1>1, <1>4, <4>1
      <4> QED BY <4>1, <4>2
    <3> QED BY <1>1, <3>1, <3>2
  <2>3. ASSUME NEW i \in KeyIds, NEW j \in KeyIds, keys'[i] # Free, keys'[j] # Free,
               derive_prefix(keys'[i].token) = derive_prefix(keys'[j].token)
        PROVE  i = j
    BY <1>3, <1>4, <1>9, <2>3 DEF TenantInv, KeysIssued
  <2> QED BY <2>1, <2>2, <2>3 DEF KeysIssued, derive_prefix
<1>11. ActsForOwner'
  <2>1. ASSUME NEW p \in issued PROVE p[1] # token
    BY <1>9 DEF TenantInv, KeysIssued
  <2>2. ASSUME NEW p \in issued', NEW q \in issued', p[1] = q[1] PROVE p[2] = q[2]
    BY <1>1, <2>1, <2>2 DEF TenantInv, ActsForOwner
  <2> QED BY <1>6, <2>2 DEF ActsForOwner
<1>12. OwnCustomers' /\ CreatedOnce'
  BY <1>1 DEF TenantInv, OwnCustomers, CreatedOnce
<1>13. ExactTotals'
  BY <1>1, ExactNext DEF TenantInv, ExactTotals
<1> QED BY <1>7, <1>8, <1>10, <1>11, <1>12, <1>13 DEF TenantInv

LEMMA RevokeKeyKeeps ==
  ASSUME TenantInv, NEW r \in Requests, NEW k \in KeyIds, RevokeKey(r, k)
  PROVE  TenantInv'
<1> DEFINE row == [keys[k] EXCEPT !.revoked = TRUE]
<1>1. /\ requests[r].pc = "handler" /\ keys[k] # Free
      /\ keys' = [keys EXCEPT ![k] = row] /\ Acts(r) /\ Answer(r, "ok")
      /\ UNCHANGED <<customers, invoices, outbox, issued>>
  BY DEF RevokeKey, Revocable
<1>2. TypeOK /\ keys[k] \in KeyRow
  BY <1>1 DEF TenantInv, TypeOK
<1>3. row \in KeyRow /\ row.token = keys[k].token /\ row.business = keys[k].business /\ row # Free
  <2>1. row \in KeyRow /\ row.token = keys[k].token /\ row.business = keys[k].business
    BY <1>2 DEF KeyRow
  <2> QED BY <2>1, RowsNotFree
<1> HIDE DEF row
<1>4. /\ keys' \in [KeyIds -> KeyRow \cup {Free}]
      /\ \A j \in KeyIds : /\ keys'[j] # Free <=> keys[j] # Free
                           /\ keys[j] # Free => /\ keys'[j].token = keys[j].token
                                                /\ keys'[j].business = keys[j].business
  BY <1>1, <1>2, <1>3 DEF TypeOK
<1>5. Grows /\ issued' \subseteq Tokens \X Businesses
  BY <1>1, <1>2 DEF Grows, TypeOK
<1>6. acted' \subseteq issued' /\ acted' \subseteq Tokens \X Businesses
  BY <1>1, <1>5, ActsAllowed DEF Grows
<1>7. requests' \in [Requests -> RequestState] /\ RequestsSound'
  <2>1. "ok" \in Results
    BY DEF Results
  <2> QED BY <1>1, <1>2, <1>5, <2>1, RequestAnswered DEF TenantInv
<1>8. TypeOK'
  BY <1>1, <1>2, <1>4, <1>5, <1>6, <1>7 DEF TypeOK
<1>9. KeysIssued'
  BY <1>1, <1>4 DEF TenantInv, KeysIssued, derive_prefix
<1>10. ActsForOwner' /\ OwnCustomers' /\ CreatedOnce'
  BY <1>1, <1>6 DEF TenantInv, ActsForOwner, OwnCustomers, CreatedOnce
<1>11. ExactTotals'
  BY <1>1, ExactNext DEF TenantInv, ExactTotals
<1> QED BY <1>7, <1>8, <1>9, <1>10, <1>11 DEF TenantInv

LEMMA CreateCustomerKeeps ==
  ASSUME TenantInv, NEW r \in Requests, NEW c \in CustomerIds, NEW email \in Emails \cup {NoEmail},
         CreateCustomer(r, c, email)
  PROVE  TenantInv'
<1> DEFINE row == [business |-> requests[r].business, email |-> email]
<1>1. /\ requests[r].pc = "handler" /\ customers[c] = Free
      /\ customers' = [customers EXCEPT ![c] = row] /\ Acts(r) /\ Answer(r, "ok")
      /\ UNCHANGED <<keys, invoices, outbox, issued>>
  BY DEF CreateCustomer
<1>2. TypeOK /\ row \in CustomerRow
  BY <1>1, RequestShape DEF TenantInv, CustomerRow
<1> HIDE DEF row
<1>3. /\ customers' \in [CustomerIds -> CustomerRow \cup {Free}]
      /\ \A d \in CustomerIds : customers[d] # Free => customers'[d] = customers[d]
  BY <1>1, <1>2 DEF TypeOK
<1>4. Grows /\ issued' \subseteq Tokens \X Businesses
  BY <1>1, <1>2, <1>3 DEF Grows, TypeOK
<1>5. acted' \subseteq issued' /\ acted' \subseteq Tokens \X Businesses
  BY <1>1, <1>4, ActsAllowed DEF Grows
<1>6. requests' \in [Requests -> RequestState] /\ RequestsSound'
  <2>1. "ok" \in Results
    BY DEF Results
  <2> QED BY <1>1, <1>2, <1>4, <2>1, RequestAnswered DEF TenantInv
<1>7. TypeOK'
  BY <1>1, <1>2, <1>3, <1>4, <1>5, <1>6 DEF TypeOK
<1>8. KeysIssued' /\ ActsForOwner' /\ CreatedOnce'
  BY <1>1, <1>5 DEF TenantInv, KeysIssued, ActsForOwner, CreatedOnce, derive_prefix
<1>9. OwnCustomers'
  <2>1. ASSUME NEW i \in InvoiceIds, invoices[i] # Free PROVE invoices[i].customer \in CustomerIds
    <3>1. invoices[i] \in InvoiceRow
      BY <1>2, <2>1 DEF TypeOK
    <3> QED BY <3>1 DEF InvoiceRow
  <2> QED BY <1>1, <1>3, <2>1 DEF TenantInv, OwnCustomers
<1>10. ExactTotals'
  BY <1>1, ExactNext DEF TenantInv, ExactTotals
<1> QED BY <1>6, <1>7, <1>8, <1>9, <1>10 DEF TenantInv

LEMMA InsertInvoiceKeeps ==
  ASSUME TenantInv, NEW r \in Requests, NEW i \in InvoiceIds, InsertInvoice(r, i)
  PROVE  TenantInv'
<1> DEFINE req == requests[r]
           total == Sum(Amounts(req.items))
           row == [business |-> req.business, customer |-> req.customer, items |-> req.items,
                   amounts |-> Amounts(req.items), total_cents |-> total]
           event == [business |-> req.business, invoice |-> i, total_cents |-> total]
<1>1. /\ req.pc = "insert" /\ invoices[i] = Free /\ Representable(req.items)
      /\ invoices' = [invoices EXCEPT ![i] = row] /\ outbox' = outbox \cup {event}
      /\ Acts(r) /\ Answer(r, "ok") /\ UNCHANGED <<keys, customers, issued>>
  BY DEF InsertInvoice, CreatedEvent
<1>2. /\ TypeOK /\ req.business \in Businesses /\ req.customer \in CustomerIds
      /\ req.items \in Orders /\ req.items \in Seq(LineItem)
  BY <1>1, RequestShape, TenantAssumption DEF TenantInv
<1>3. ValidItems(req.items) /\ HasCustomer(req.business, req.customer)
  BY <1>1 DEF TenantInv, RequestsSound
<1>4. total \in Nat /\ total <= MaxBigint /\ Amounts(req.items) \in Seq(Nat)
  <2>1. PICK sum : sum = SumOver(Amounts(req.items), DOMAIN req.items)
    OBVIOUS
  <2>2. total \in Nat
    BY <1>2, <1>3, <2>1, TotalFacts
  <2>3. Amounts(req.items) \in Seq(Nat)
    BY <1>2, <1>3, AmountsFacts
  <2> QED BY <1>1, <2>2, <2>3 DEF Representable
<1>5. Exact(row)
  <2>1. PICK items : items = req.items
    OBVIOUS
  <2>2. items \in Seq(LineItem) /\ ValidItems(items)
    BY <1>2, <1>3, <2>1
  <2> DEFINE Product(n) == items[n].quantity * items[n].unit_amount_cents
  <2>3. \A n \in DOMAIN items : Amounts(items)[n] = Product(n)
    BY <2>2, AmountsFacts
  <2>4. MapThenSumSet(Product, DOMAIN items) = Sum(Amounts(items))
    BY <2>2, SumOfProducts
  <2>5. Sum(Amounts(items)) \in 0 .. MaxBigint
    BY <1>4, <2>1, BigintAssumption
  <2>6. row = [business |-> req.business, customer |-> req.customer, items |-> items,
               amounts |-> Amounts(items), total_cents |-> Sum(Amounts(items))]
    BY <2>1
  <2>7. row.items = items /\ row.amounts = Amounts(items) /\ row.total_cents = Sum(Amounts(items))
    BY <2>6
  <2> HIDE DEF row
  <2> QED BY <2>3, <2>4, <2>5, <2>7 DEF Exact, MapThenSumSet, MapThenFoldSet
<1> HIDE DEF total
<1>6. /\ row \in InvoiceRow /\ row.business = req.business /\ row.customer = req.customer
      /\ row.total_cents = total
  BY <1>2, <1>4 DEF InvoiceRow
<1>7. /\ event \in EventRow /\ event.invoice = i /\ event.business = req.business
      /\ event.total_cents = total
  BY <1>2, <1>4 DEF EventRow
<1>8. row # Free
  BY <1>6, RowsNotFree
<1>9. Grows /\ issued' \subseteq Tokens \X Businesses
  BY <1>1, <1>2 DEF Grows, TypeOK
<1>10. acted' \subseteq issued' /\ acted' \subseteq Tokens \X Businesses
  BY <1>1, <1>9, ActsAllowed DEF Grows
<1>11. requests' \in [Requests -> RequestState] /\ RequestsSound'
  <2>1. "ok" \in Results
    BY DEF Results
  <2> QED BY <1>1, <1>2, <1>9, <2>1, RequestAnswered DEF TenantInv
<1> HIDE DEF row, event, req
<1>12. /\ invoices' \in [InvoiceIds -> InvoiceRow \cup {Free}] /\ invoices'[i] = row
       /\ \A j \in InvoiceIds : j # i => invoices'[j] = invoices[j]
  BY <1>1, <1>2, <1>6 DEF TypeOK
<1>13. TypeOK'
  BY <1>1, <1>2, <1>7, <1>9, <1>10, <1>11, <1>12 DEF TypeOK
<1>14. KeysIssued' /\ ActsForOwner'
  BY <1>1, <1>10 DEF TenantInv, KeysIssued, ActsForOwner, derive_prefix
<1>15. OwnCustomers'
  BY <1>1, <1>3, <1>6, <1>12 DEF TenantInv, OwnCustomers, HasCustomer
<1>16. ExactTotals'
  BY <1>5, <1>12, ExactNext DEF TenantInv, ExactTotals
<1>17. CreatedOnce'
  <2>1. ASSUME NEW e \in outbox
        PROVE  /\ invoices[e.invoice] # Free /\ invoices[e.invoice].business = e.business
               /\ invoices[e.invoice].total_cents = e.total_cents
               /\ e.invoice \in InvoiceIds /\ e.invoice # i
    <3>1. e \in EventRow
      BY <1>2 DEF TypeOK
    <3>2. e.invoice \in InvoiceIds
      BY <3>1 DEF EventRow
    <3> QED BY <1>1, <3>2 DEF TenantInv, CreatedOnce
  <2>2. ASSUME NEW e \in outbox'
        PROVE  /\ invoices'[e.invoice] # Free /\ invoices'[e.invoice].business = e.business
               /\ invoices'[e.invoice].total_cents = e.total_cents
    <3>1. CASE e = event
      BY <1>6, <1>7, <1>8, <1>12, <3>1
    <3>2. CASE e \in outbox
      BY <1>12, <2>1, <3>2
    <3> QED BY <1>1, <3>1, <3>2
  <2>3. ASSUME NEW j \in InvoiceIds, invoices'[j] # Free
        PROVE  Cardinality({e \in outbox' : e.invoice = j}) = 1
    <3>1. CASE j = i
      <4>1. {e \in outbox' : e.invoice = j} = {event}
        BY <1>1, <1>7, <2>1, <3>1
      <4> QED BY <4>1, FS_Singleton
    <3>2. CASE j # i
      <4>1. {e \in outbox' : e.invoice = j} = {e \in outbox : e.invoice = j}
        BY <1>1, <1>7, <3>2
      <4>2. invoices[j] # Free
        BY <1>12, <2>3, <3>2
      <4> QED BY <4>1, <4>2 DEF TenantInv, CreatedOnce
    <3> QED BY <3>1, <3>2
  <2> QED BY <2>2, <2>3 DEF CreatedOnce
<1> QED BY <1>11, <1>13, <1>14, <1>15, <1>16, <1>17 DEF TenantInv

-----------------------------------------------------------------------------
(* The theorems                                                            *)

\* The keys the businesses are set up with: one row each, found by its prefix.
LEMMA SeedKeys ==
  ASSUME Init
  PROVE  /\ keys \in [KeyIds -> KeyRow \cup {Free}]
         /\ \A k \in KeyIds : keys[k] # Free =>
              \E b \in Businesses : SeedId[b] = k /\ keys[k].token = SeedToken[b] /\ keys[k].business = b
         /\ \A b \in Businesses : /\ SeedId[b] \in KeyIds /\ keys[SeedId[b]] # Free
                                  /\ keys[SeedId[b]].token = SeedToken[b]
                                  /\ keys[SeedId[b]].business = b
<1> DEFINE Owner(k) == CHOOSE b \in Businesses : SeedId[b] = k
           Row(b) == [business |-> b, token |-> SeedToken[b], revoked |-> FALSE]
<1>1. keys = [k \in KeyIds |-> IF \E b \in Businesses : SeedId[b] = k THEN Row(Owner(k)) ELSE Free]
  BY DEF Init
<1>2. ASSUME NEW b \in Businesses
      PROVE  /\ Row(b) \in KeyRow /\ Row(b).token = SeedToken[b] /\ Row(b).business = b /\ Row(b) # Free
             /\ SeedId[b] \in KeyIds
  <2>1. /\ Row(b) \in KeyRow /\ Row(b).token = SeedToken[b] /\ Row(b).business = b
        /\ SeedId[b] \in KeyIds
    BY TenantAssumption DEF KeyRow
  <2> QED BY <2>1, RowsNotFree
<1>3. ASSUME NEW k \in KeyIds, NEW b \in Businesses, SeedId[b] = k
      PROVE  Owner(k) \in Businesses /\ SeedId[Owner(k)] = k
  BY <1>3
<1>4. ASSUME NEW b \in Businesses PROVE Owner(SeedId[b]) = b
  BY <1>2, <1>3, TenantAssumption
<1> HIDE DEF Row, Owner
<1>5. keys \in [KeyIds -> KeyRow \cup {Free}]
  BY <1>1, <1>2, <1>3
<1>6. ASSUME NEW k \in KeyIds, keys[k] # Free
      PROVE  \E b \in Businesses : SeedId[b] = k /\ keys[k].token = SeedToken[b] /\ keys[k].business = b
  BY <1>1, <1>2, <1>3, <1>6
<1>7. ASSUME NEW b \in Businesses
      PROVE  /\ SeedId[b] \in KeyIds /\ keys[SeedId[b]] # Free
             /\ keys[SeedId[b]].token = SeedToken[b] /\ keys[SeedId[b]].business = b
  BY <1>1, <1>2, <1>4
<1> QED BY <1>5, <1>6, <1>7

LEMMA TenantInit ==
  ASSUME Init
  PROVE  TenantInv
<1>1. issued = {<<SeedToken[b], b>> : b \in Businesses} /\ acted = {}
  BY DEF Init
<1>2. issued \subseteq Tokens \X Businesses
  BY <1>1, TenantAssumption
<1>3. KeysIssued
  <2>1. \A k \in KeyIds : keys[k] # Free => <<keys[k].token, keys[k].business>> \in issued
    BY <1>1, SeedKeys
  <2>2. \A p \in issued : \E k \in KeyIds :
          keys[k] # Free /\ keys[k].token = p[1] /\ keys[k].business = p[2]
    BY <1>1, SeedKeys
  <2>3. ASSUME NEW j \in KeyIds, NEW k \in KeyIds, keys[j] # Free, keys[k] # Free,
               derive_prefix(keys[j].token) = derive_prefix(keys[k].token)
        PROVE  j = k
    <3>1. PICK b \in Businesses : SeedId[b] = j /\ keys[j].token = SeedToken[b]
      BY <2>3, SeedKeys
    <3>2. PICK c \in Businesses : SeedId[c] = k /\ keys[k].token = SeedToken[c]
      BY <2>3, SeedKeys
    <3>3. b = c
      BY <2>3, <3>1, <3>2, TenantAssumption DEF derive_prefix
    <3> QED BY <3>1, <3>2, <3>3
  <2> QED BY <2>1, <2>2, <2>3 DEF KeysIssued
<1>4. ActsForOwner
  <2>1. ASSUME NEW p \in issued, NEW q \in issued, p[1] = q[1] PROVE p[2] = q[2]
    <3>1. PICK b \in Businesses : p = <<SeedToken[b], b>>
      BY <1>1
    <3>2. PICK c \in Businesses : q = <<SeedToken[c], c>>
      BY <1>1
    <3> QED BY <2>1, <3>1, <3>2, TenantAssumption
  <2> QED BY <1>1, <2>1 DEF ActsForOwner
<1>5. requests \in [Requests -> RequestState] /\ RequestsSound
  <2> DEFINE st == [pc |-> "idle", result |-> "none"]
  <2>1. st \in RequestState /\ st.pc = "idle"
    BY DEF RequestState, Results
  <2>2. requests = [r \in Requests |-> st]
    BY DEF Init
  <2> HIDE DEF st
  <2> QED BY <2>1, <2>2 DEF RequestsSound
<1>6. TypeOK
  BY <1>1, <1>2, <1>5, SeedKeys DEF Init, TypeOK
<1>7. OwnCustomers /\ ExactTotals /\ CreatedOnce
  BY DEF Init, OwnCustomers, ExactTotals, CreatedOnce
<1> QED BY <1>3, <1>4, <1>5, <1>6, <1>7 DEF TenantInv

LEMMA StandsStill ==
  ASSUME TenantInv, UNCHANGED vars
  PROVE  TenantInv'
<1>1. UNCHANGED tables /\ requests' = requests
  BY DEF vars, tables
<1>2. requests' \in [Requests -> RequestState]
  BY <1>1 DEF TenantInv, TypeOK
<1>3. RequestsSound'
  BY <1>1 DEF TenantInv, RequestsSound, HasCustomer, tables, ValidItems, ValidItem
<1> QED BY <1>1, <1>2, <1>3, ReadsKeep

LEMMA TenantStep ==
  ASSUME TenantInv, [Next]_vars
  PROVE  TenantInv'
<1>1. CASE Next
  <2>1. PICK r \in Requests :
          \/ Refuses(r)
          \/ \E token \in Tokens :
               Authenticate(r, token) \/ \E k \in KeyIds : CreateKey(r, k, token)
          \/ \E k \in KeyIds : RevokeKey(r, k)
          \/ \E email \in Emails \cup {NoEmail}, c \in CustomerIds : CreateCustomer(r, c, email)
          \/ \E items \in Orders, c \in CustomerIds : CheckInvoice(r, c, items)
          \/ \E i \in InvoiceIds : InsertInvoice(r, i)
    BY <1>1 DEF Next, Refuses
  <2>2. CASE Refuses(r)
    BY <2>2, RefusesKeeps
  <2>3. ASSUME NEW token \in Tokens, Authenticate(r, token) PROVE TenantInv'
    BY <2>3, AuthenticateKeeps
  <2>4. ASSUME NEW token \in Tokens, NEW k \in KeyIds, CreateKey(r, k, token) PROVE TenantInv'
    BY <2>4, CreateKeyKeeps
  <2>5. ASSUME NEW k \in KeyIds, RevokeKey(r, k) PROVE TenantInv'
    BY <2>5, RevokeKeyKeeps
  <2>6. ASSUME NEW email \in Emails \cup {NoEmail}, NEW c \in CustomerIds, CreateCustomer(r, c, email)
        PROVE  TenantInv'
    BY <2>6, CreateCustomerKeeps
  <2>7. ASSUME NEW items \in Orders, NEW c \in CustomerIds, CheckInvoice(r, c, items)
        PROVE  TenantInv'
    BY <2>7, CheckInvoiceKeeps
  <2>8. ASSUME NEW i \in InvoiceIds, InsertInvoice(r, i) PROVE TenantInv'
    BY <2>8, InsertInvoiceKeeps
  <2> QED BY <2>1, <2>2, <2>3, <2>4, <2>5, <2>6, <2>7, <2>8
<1>2. CASE UNCHANGED vars
  BY <1>2, StandsStill
<1> QED BY <1>1, <1>2

\* Tokens, rows and the requests between their check and their write keep together,
\* however the requests of any number of businesses interleave (require_api_key and the
\* handlers behind it).
THEOREM TenantInductive == Spec => []TenantInv
<1>1. Init => TenantInv
  BY TenantInit
<1>2. TenantInv /\ [Next]_vars => TenantInv'
  BY TenantStep
<1> QED BY <1>1, <1>2, PTL DEF Spec

\* Tables and requests keep their shapes.
THEOREM TenantTypes == Spec => []TypeOK
<1>1. TenantInv => TypeOK
  BY DEF TenantInv
<1> QED BY <1>1, TenantInductive, PTL

\* No row is written for a business under a token that was not handed to it, revoked keys
\* and colliding prefixes included (find_active_by_prefix, uq_api_keys_prefix).
THEOREM OwnersAct == Spec => []ActsForOwner
<1>1. TenantInv => ActsForOwner
  BY DEF TenantInv
<1> QED BY <1>1, TenantInductive, PTL

\* The customer of an invoice is of the invoice's business, the check before the
\* transaction notwithstanding (create_invoice).
THEOREM CustomersOwned == Spec => []OwnCustomers
<1>1. TenantInv => OwnCustomers
  BY DEF TenantInv
<1> QED BY <1>1, TenantInductive, PTL

\* For orders of any length and any bigint width, what is stored is the exact product of
\* each line and their exact sum (insert_line_item, sync_total).
THEOREM TotalsExact == Spec => []ExactTotals
<1>1. TenantInv => ExactTotals
  BY DEF TenantInv
<1> QED BY <1>1, TenantInductive, PTL

\* Each invoice has its one invoice.created and no other invoice has any (create_invoice).
THEOREM EventsCreatedOnce == Spec => []CreatedOnce
<1>1. TenantInv => CreatedOnce
  BY DEF TenantInv
<1> QED BY <1>1, TenantInductive, PTL

\* Nothing but creating and revoking writes the keys.
LEMMA KeyWriters ==
  ASSUME Next, keys' # keys
  PROVE  \E r \in Requests, k \in KeyIds : RevokeKey(r, k) \/ \E token \in Tokens : CreateKey(r, k, token)
BY DEF Next, tables, Authenticate, Unauthorized, CreateKeyCollides, RevokeNotFound, CreateCustomer,
   CustomerExists, CustomerInvalid, InvoiceInvalid, CustomerNotFound, CheckInvoice, InsertInvoice,
   InsertOverflows, Abandon

\* A key once created changes only by being revoked, and only at the request of its own
\* business (create_key, revoke).
THEOREM RevokedByOwnerOnly == Spec => RevokedByOwner
<1> DEFINE Owned(k) ==
      /\ keys'[k] = [keys[k] EXCEPT !.revoked = TRUE]
      /\ \E r \in Requests : /\ requests[r].pc = "handler" /\ requests'[r].pc = "idle"
                             /\ requests[r].business = keys[k].business
<1>1. ASSUME TenantInv, [Next]_vars, NEW j \in KeyIds, keys[j] # Free, keys'[j] # keys[j]
      PROVE  Owned(j)
  <2>1. Next /\ keys' # keys
    BY <1>1 DEF vars
  <2>2. PICK r \in Requests, k \in KeyIds :
          RevokeKey(r, k) \/ \E token \in Tokens : CreateKey(r, k, token)
    BY <2>1, KeyWriters
  <2>3. ~\E token \in Tokens : CreateKey(r, k, token)
    BY <1>1 DEF CreateKey, TenantInv, TypeOK
  <2>4. /\ requests[r].pc = "handler" /\ keys[k].business = requests[r].business
        /\ keys' = [keys EXCEPT ![k] = [keys[k] EXCEPT !.revoked = TRUE]] /\ Answer(r, "ok")
    BY <2>2, <2>3 DEF RevokeKey, Revocable
  <2>5. j = k /\ keys'[j] = [keys[k] EXCEPT !.revoked = TRUE]
    BY <1>1, <2>4 DEF TenantInv, TypeOK
  <2>6. requests'[r].pc = "idle"
    BY <1>1, <2>4 DEF Answer, TenantInv, TypeOK
  <2> QED BY <2>4, <2>5, <2>6
<1>2. ASSUME TenantInv, [Next]_vars
      PROVE  \A k \in KeyIds : keys[k] # Free /\ keys'[k] # keys[k] => Owned(k)
  BY <1>1, <1>2
<1> QED BY <1>2, TenantInductive, PTL DEF Spec, RevokedByOwner

\* A request is opened by require_api_key and by nothing else.
LEMMA OpenedByMiddleware ==
  ASSUME TenantInv, Next, NEW r \in Requests,
         requests[r].pc = "idle", requests'[r].pc = "handler"
  PROVE  \E token \in Tokens : Authenticate(r, token)
<1>1. requests \in [Requests -> RequestState]
  BY DEF TenantInv, TypeOK
<1>2. ASSUME NEW s \in Requests, NEW result, Answer(s, result) PROVE FALSE
  BY <1>1, <1>2 DEF Answer
<1>3. ASSUME NEW s \in Requests, NEW c, NEW items, CheckInvoice(s, c, items) PROVE FALSE
  BY <1>1, <1>3 DEF CheckInvoice
<1>4. ASSUME NEW s \in Requests, NEW token \in Tokens, Authenticate(s, token)
      PROVE  Authenticate(r, token)
  BY <1>1, <1>4 DEF Authenticate
<1> QED
  BY <1>2, <1>3, <1>4 DEF Next, Unauthorized, CreateKey, CreateKeyCollides, RevokeKey,
     RevokeNotFound, CreateCustomer, CustomerExists, CustomerInvalid, InvoiceInvalid,
     CustomerNotFound, InsertInvoice, InsertOverflows, Abandon

\* Once its key is revoked a token opens no request, also if it is drawn again
\* (find_active_by_prefix, uq_api_keys_prefix).
THEOREM RevokedStaysRevoked == Spec => RevokedForGood
<1>1. ASSUME TenantInv, [Next]_vars, NEW r \in Requests, NEW k \in KeyIds,
             requests[r].pc = "idle", requests'[r].pc = "handler", keys[k] # Free, keys[k].revoked
      PROVE  keys[k].token # requests'[r].token
  <2>1. Next
    BY <1>1 DEF vars
  <2>2. PICK token \in Tokens : Authenticate(r, token)
    BY <1>1, <2>1, OpenedByMiddleware
  <2>3. PICK j \in KeyIds :
          /\ Verifies(j, token)
          /\ requests' = [requests EXCEPT ![r] =
                            [pc |-> "handler", business |-> keys[j].business, token |-> token]]
    BY <2>2 DEF Authenticate
  <2>4. requests'[r].token = token /\ keys[j] # Free /\ keys[j].token = token /\ ~keys[j].revoked
    BY <1>1, <2>3 DEF Verifies, TenantInv, TypeOK
  <2>5. keys[k].token = token => j = k
    BY <1>1, <2>4 DEF TenantInv, KeysIssued
  <2> QED BY <1>1, <2>4, <2>5
<1>2. ASSUME TenantInv, [Next]_vars
      PROVE  \A r \in Requests, k \in KeyIds :
               /\ requests[r].pc = "idle" /\ requests'[r].pc = "handler"
               /\ keys[k] # Free /\ keys[k].revoked
               => keys[k].token # requests'[r].token
  BY <1>1, <1>2
<1> QED BY <1>2, TenantInductive, PTL DEF Spec, RevokedForGood
=============================================================================
