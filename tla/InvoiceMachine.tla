---------------------------- MODULE InvoiceMachine ----------------------------
(***************************************************************************)
(* What the service promises about an invoice, whoever moves it: it is     *)
(* created as a draft, and from then on every change of its state is one   *)
(* legal edge of the state machine taken in one atomic step.  In           *)
(* particular a terminal state is never left.  The lifecycle of the admin  *)
(* endpoints (InvoiceLifecycle) and the payment flow (PaymentFlow) are both *)
(* shown to implement this specification.                                   *)
(***************************************************************************)
EXTENDS InvoiceDomain

CONSTANT Invoices      \* invoice ids

VARIABLE state         \* state[i]: the state of invoice i, or "absent"

Init == state \in [Invoices -> {"absent", "draft"}]

Create(i) ==
  /\ state[i] = "absent"
  /\ state' = [state EXCEPT ![i] = "draft"]

Move(i) ==
  /\ \E to \in InvoiceState :
        /\ <<state[i], to>> \in LegalEdges
        /\ state' = [state EXCEPT ![i] = to]

Next == \E i \in Invoices : Create(i) \/ Move(i)

Spec == Init /\ [][Next]_state
=============================================================================
