--------------------------- MODULE InvoiceLifecycle ---------------------------
(***************************************************************************)
(* Invoices under concurrent admin requests (services/invoice_service.rs,  *)
(* repositories/invoice_repo.rs).  A transition is three database round    *)
(* trips: load the row, decide on what was loaded, then an UPDATE          *)
(* conditional on the state that was loaded.  Other requests and the       *)
(* payment path's open -> paid run between the load and the UPDATE.         *)
(***************************************************************************)
EXTENDS Integers, Sequences, InvoiceDomain

CONSTANTS
  Invoices,     \* bound: ids of the invoices that can be created
  Admins        \* bound: concurrent requests to the invoice endpoints

VARIABLES
  rows,         \* the invoices table
  outbox,       \* webhook_events written by this component
  admins        \* local state of each request

vars == <<rows, outbox, admins>>

-----------------------------------------------------------------------------
NoRow == [state |-> "absent"]

\* A timestamp is NULL or set; version counts the transitions.
Timestamp == {"null", "set"}

InvoiceRow == [state : InvoiceState, version : Nat, finalized_at : Timestamp,
               paid_at : Timestamp, voided_at : Timestamp]

Results == {"none", "ok", "not_found", "validation_error", "invalid_state_transition"}

Idle(result) == [pc |-> "idle", result |-> result]

AdminState == [pc : {"idle"}, result : Results]
                \cup [pc : {"update"}, invoice : Invoices, to : AdminTargets, loaded : InvoiceRow]

Init ==
  /\ rows = [i \in Invoices |-> NoRow]
  /\ outbox = <<>>
  /\ admins = [m \in Admins |-> Idle("none")]

Answer(m, result) == admins' = [admins EXCEPT ![m] = Idle(result)]

-----------------------------------------------------------------------------
(* create                                                                  *)

\* Bad line items, or a customer the business does not have.
CreateRejected(m) ==
  /\ admins[m].pc = "idle"
  /\ \E result \in {"validation_error", "not_found"} : Answer(m, result)
  /\ UNCHANGED <<rows, outbox>>

\* The row insert_invoice writes.  Line items and total are fixed from here on.
DraftRow == [state |-> "draft", version |-> 0, finalized_at |-> "null", paid_at |-> "null",
             voided_at |-> "null"]

\* webhook_service::emit_event
EmitEvent(type, i) == outbox' = Append(outbox, [type |-> type, invoice |-> i])

\* The row with its line items and total, and invoice.created, in one transaction.
Create(m) ==
  /\ admins[m].pc = "idle"
  /\ \E i \in Invoices :
       /\ rows[i] = NoRow
       /\ rows' = [rows EXCEPT ![i] = DraftRow]
       /\ EmitEvent("invoice.created", i)
  /\ Answer(m, "ok")

-----------------------------------------------------------------------------
(* transition: finalize, void and mark_uncollectible                       *)

TransitionNotFound(m) ==
  /\ admins[m].pc = "idle"
  /\ \E i \in Invoices : rows[i] = NoRow
  /\ Answer(m, "not_found")
  /\ UNCHANGED <<rows, outbox>>

\* The loaded state already is the target, or has no edge to it.
TransitionRefused(m) ==
  /\ admins[m].pc = "idle"
  /\ \E i \in Invoices, to \in AdminTargets :
       /\ rows[i] # NoRow
       /\ rows[i].state = to \/ ~CanTransitionTo(rows[i].state, to)
  /\ Answer(m, "invalid_state_transition")
  /\ UNCHANGED <<rows, outbox>>

TransitionLoad(m) ==
  /\ admins[m].pc = "idle"
  /\ \E i \in Invoices, to \in AdminTargets :
       /\ rows[i] # NoRow
       /\ rows[i].state # to
       /\ CanTransitionTo(rows[i].state, to)
       /\ admins' = [admins EXCEPT ![m] =
                       [pc |-> "update", invoice |-> i, to |-> to, loaded |-> rows[i]]]
  /\ UNCHANGED <<rows, outbox>>

\* Faulty: the UPDATE matches on the id alone.
StillAsLoadedById(m) == TRUE

\* invoice_repo::transition's WHERE clause.
StillAsLoaded(m) == rows[admins[m].invoice].state = admins[m].loaded.state

\* Faulty: finalized_at is not stamped.
TransitionedUnstamped(row, to) ==
  [row EXCEPT !.state = to, !.version = @ + 1,
              !.voided_at = IF to = "void" THEN "set" ELSE @]

\* Faulty: version counts down.
TransitionedDown(row, to) ==
  [row EXCEPT !.state = to, !.version = @ - 1,
              !.finalized_at = IF to = "open" THEN "set" ELSE @,
              !.voided_at = IF to = "void" THEN "set" ELSE @]

\* The row the UPDATE writes.
Transitioned(row, to) ==
  [state        |-> to,
   version      |-> row.version + 1,
   finalized_at |-> IF to = "open" THEN "set" ELSE row.finalized_at,
   paid_at      |-> row.paid_at,
   voided_at    |-> IF to = "void" THEN "set" ELSE row.voided_at]

\* The UPDATE commits by itself.  The read of the line items that follows may still
\* fail, or the request be dropped: the invoice has moved all the same.
TransitionWins(m) ==
  /\ admins[m].pc = "update"
  /\ StillAsLoaded(m)
  /\ LET i == admins[m].invoice
     IN  rows' = [rows EXCEPT ![i] = Transitioned(@, admins[m].to)]
  /\ \E result \in {"ok", "none"} : Answer(m, result)
  /\ UNCHANGED outbox

\* No row matched: somebody moved the invoice first.
TransitionLosesRace(m) ==
  /\ admins[m].pc = "update"
  /\ ~StillAsLoaded(m)
  /\ Answer(m, "invalid_state_transition")
  /\ UNCHANGED <<rows, outbox>>

\* The request is dropped or fails between load and UPDATE.
AbandonTransition(m) ==
  /\ admins[m].pc = "update"
  /\ Answer(m, "none")
  /\ UNCHANGED <<rows, outbox>>

-----------------------------------------------------------------------------
(* payment_service::finalize of a successful charge: its UPDATE of the      *)
(* invoice, WHERE state = 'open'.  Module PaymentFlow has the rest of that   *)
(* transaction, the event included.                                         *)
PaySucceeds(i) ==
  /\ rows[i] # NoRow
  /\ rows[i].state = "open"
  /\ rows' = [rows EXCEPT ![i] = [state |-> "paid", version |-> @.version + 1, paid_at |-> "set",
                                  finalized_at |-> @.finalized_at, voided_at |-> @.voided_at]]
  /\ UNCHANGED <<outbox, admins>>

Next ==
  \/ \E m \in Admins :
       \/ CreateRejected(m) \/ Create(m)
       \/ TransitionNotFound(m) \/ TransitionRefused(m) \/ TransitionLoad(m)
       \/ TransitionWins(m) \/ TransitionLosesRace(m) \/ AbandonTransition(m)
  \/ \E i \in Invoices : PaySucceeds(i)

Spec == Init /\ [][Next]_vars

-----------------------------------------------------------------------------
(* Properties                                                              *)

\* Every variable keeps the shape of the table or request it stands for.
TypeOK ==
  /\ rows \in [Invoices -> InvoiceRow \cup {NoRow}]
  /\ outbox \in Seq([type : {"invoice.created"}, invoice : Invoices])
  /\ admins \in [Admins -> AdminState]

Machine == INSTANCE InvoiceMachine WITH state <- [i \in Invoices |-> rows[i].state]

\* Whatever requests race, each invoice moves as the abstract state machine
\* allows: one legal edge per committed UPDATE, and never out of a terminal state.
ImplementsMachine == Machine!Spec

TellsItsPath(row) ==
  /\ row.state = "draft" => row.version = 0 /\ row.finalized_at = "null"
  /\ row.state = "open" => row.version = 1 /\ row.finalized_at = "set"
  /\ row.state \in {"paid", "uncollectible"} => row.version = 2 /\ row.finalized_at = "set"
  /\ row.state = "void" => row.version = IF row.finalized_at = "set" THEN 2 ELSE 1
  /\ row.paid_at = IF row.state = "paid" THEN "set" ELSE "null"
  /\ row.voided_at = IF row.state = "void" THEN "set" ELSE "null"

\* version and the timestamps tell the path an invoice took: finalized_at is set
\* exactly on those that passed through open, paid_at on the paid, voided_at on
\* the void, and version is the number of edges, although nothing in the UPDATE
\* compares versions.
RowTellsItsPath == \A i \in Invoices : rows[i] # NoRow => TellsItsPath(rows[i])

\* The UPDATE compares states, not versions.  Still an admin whose UPDATE matches
\* acts on the very row it loaded: no invoice comes back to a state it has left
\* (the "optimistic version bump" of invoice_repo::transition needs no version).
NoStaleWin ==
  \A m \in Admins :
    (admins[m].pc = "update" /\ StillAsLoaded(m)) =>
      rows[admins[m].invoice] = admins[m].loaded
=============================================================================
