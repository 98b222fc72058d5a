------------------------------ MODULE MCPayment ------------------------------
(* Small instances of PaymentFlow: one business with one invoice, or two      *)
(* businesses with an invoice each and a key in common.                       *)
EXTENDS PaymentInvariant, TLC

CONSTANTS b1, b2, i1, i2, k1, k2, a1, a2, h1, h2, r1, r2, s1, p1

\* One business, one invoice.
OneOwner == i1 :> b1
OneTotal == i1 :> 100
OneKey   == b1 :> {k1}
OneKeys  == b1 :> {k1, k2}

\* Two businesses, one invoice each.
TwoOwners == i1 :> b1 @@ i2 :> b2
TwoTotals == i1 :> 100 @@ i2 :> 200
SharedKey == b1 :> {k1} @@ b2 :> {k1}

RaceSymmetry    == Permutations({k1, k2}) \cup Permutations({a1, a2}) \cup Permutations({h1, h2})
ReplicaSymmetry == Permutations({r1, r2})
=============================================================================
