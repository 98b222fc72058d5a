------------------------------ MODULE LineItems ------------------------------
(***************************************************************************)
(* The line items of an invoice and its server-computed total: validation   *)
(* (services/invoice_service.rs), the generated column amount_cents and the *)
(* SUM of sync_total (migration 0007, repositories/invoice_repo.rs).         *)
(* bigint arithmetic is exact or an error; it never wraps.                   *)
(***************************************************************************)
EXTENDS Integers, Sequences, SequencesExt

CONSTANT MaxBigint      \* the largest bigint, 2^63 - 1 in Postgres

ASSUME BigintAssumption == MaxBigint \in Nat

\* CreateLineItem, of the description only whether there is one.
LineItem == [described : BOOLEAN, quantity : Int, unit_amount_cents : Int]

\* Faulty: prices may be negative.
ValidItemNegative(item) == item.described /\ item.quantity > 0

\* What validate_line_items asks of one item.
ValidItem(item) == item.described /\ item.quantity > 0 /\ item.unit_amount_cents >= 0

\* validate_line_items
ValidItems(items) == items # <<>> /\ \A n \in DOMAIN items : ValidItem(items[n])

\* Faulty: the product wraps around.
AmountWrapped(item) == (item.quantity * item.unit_amount_cents) % (MaxBigint + 1)

\* quantity * unit_amount_cents, before it is stored.
Amount(item) == item.quantity * item.unit_amount_cents

Amounts(items) == [n \in DOMAIN items |-> Amount(items[n])]

\* SUM over bigint is numeric, which has no bound.
Sum(amounts) == FoldSeq(LAMBDA amount, sum : amount + sum, 0, amounts)

\* Every generated amount, and the sum assigned to total_cents, must be a bigint;
\* otherwise the statement fails and the transaction with it.
Representable(items) ==
  /\ \A n \in DOMAIN items : Amounts(items)[n] <= MaxBigint
  /\ Sum(Amounts(items)) <= MaxBigint
=============================================================================
