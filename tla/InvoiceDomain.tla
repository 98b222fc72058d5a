---------------------------- MODULE InvoiceDomain ----------------------------
(***************************************************************************)
(* The invoice state enum and the rules of its state machine               *)
(* (crates/invoice-service/src/domain/invoice.rs).  No state of its own:    *)
(* the modules that keep invoices extend it.                                *)
(***************************************************************************)

InvoiceState == {"draft", "open", "paid", "void", "uncollectible"}

\* InvoiceState::is_terminal
IsTerminal(s) == s \in {"paid", "void", "uncollectible"}

\* The (from, to) pairs InvoiceState::can_transition_to matches.
LegalEdges == { <<"draft", "open">>, <<"draft", "void">>, <<"open", "paid">>,
                <<"open", "void">>, <<"open", "uncollectible">> }

\* Faulty: a void invoice may be finalized again: an edge back into the machine.
CanTransitionToReopensVoid(from, to) ==
  <<from, to>> \in LegalEdges \cup {<<"void", "open">>}

CanTransitionTo(from, to) == <<from, to>> \in LegalEdges

\* The targets the three admin endpoints ask for: finalize, void and
\* mark_uncollectible.  open -> paid belongs to the payment path alone.
AdminTargets == {"open", "void", "uncollectible"}
=============================================================================
