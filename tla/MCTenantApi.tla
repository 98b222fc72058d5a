----------------------------- MODULE MCTenantApi -----------------------------
(* Two businesses with a key each and room for one more; orders at, below and *)
(* beyond the largest amount, in one product and in the sum of two.            *)
EXTENDS TenantApi

CONSTANTS b1, b2, p1, p2, p3, x, y, k1, k2, k3, c1, c2, i1, r1, r2

Seeds == b1 :> <<p1, x>> @@ b2 :> <<p2, x>>
SeedIds == b1 :> k1 @@ b2 :> k2
CitextFold == "a@x.io" :> "a@x.io" @@ "A@X.io" :> "a@x.io"

Item(q, u) == [described |-> TRUE, quantity |-> q, unit_amount_cents |-> u]

\* MaxBigint is 7: 7 fits, 8 does not.
SomeOrders == { <<>>, <<Item(0, 1)>>, <<Item(1, -1)>>, <<Item(1, 7)>>, <<Item(2, 4)>>,
                <<Item(1, 4), Item(1, 4)>>, <<Item(2, 3), Item(3, 0)>>,
                <<[described |-> FALSE, quantity |-> 1, unit_amount_cents |-> 1]>> }

\* Swapping the two businesses with all that is theirs changes nothing.
SwapTenants == {b1 :> b2 @@ b2 :> b1 @@ p1 :> p2 @@ p2 :> p1 @@ k1 :> k2 @@ k2 :> k1}

Symmetric == Permutations({r1, r2}) \cup Permutations({c1, c2}) \cup SwapTenants
=============================================================================
