--------------------------- MODULE LifecycleProofs ---------------------------
(***************************************************************************)
(* Proofs about InvoiceLifecycle, for any set of invoices and any number   *)
(* of concurrent requests.                                                  *)
(***************************************************************************)
EXTENDS InvoiceLifecycle, TLAPS

\* What a request has loaded was a row of the table, in a state with a legal
\* edge to the target.
LoadedSound ==
  \A m \in Admins : admins[m].pc = "update" =>
    /\ TellsItsPath(admins[m].loaded)
    /\ CanTransitionTo(admins[m].loaded.state, admins[m].to)

\* A request holds a row only of an invoice that exists: rows are never deleted.
LoadedExists ==
  \A m \in Admins : admins[m].pc = "update" => rows[admins[m].invoice] # NoRow

IndInv == TypeOK /\ RowTellsItsPath /\ LoadedSound /\ LoadedExists

-----------------------------------------------------------------------------
\* The row the UPDATE writes is well formed and tells its path when the row it
\* replaces does and the edge is legal.
LEMMA TransitionedSound ==
  ASSUME NEW row \in InvoiceRow, NEW to \in AdminTargets,
         TellsItsPath(row), CanTransitionTo(row.state, to)
  PROVE  /\ Transitioned(row, to) \in InvoiceRow
         /\ TellsItsPath(Transitioned(row, to))
         /\ Transitioned(row, to).state = to
<1> DEFINE new == Transitioned(row, to)
<1>1. new \in InvoiceRow
  BY DEF Transitioned, InvoiceRow, Timestamp, AdminTargets, InvoiceState
<1>2. /\ new.state = to
      /\ new.version = row.version + 1
      /\ new.finalized_at = IF to = "open" THEN "set" ELSE row.finalized_at
      /\ new.paid_at = row.paid_at
      /\ new.voided_at = IF to = "void" THEN "set" ELSE row.voided_at
  BY DEF Transitioned, InvoiceRow
<1>3. <<row.state, to>> \in { <<"draft", "open">>, <<"draft", "void">>, <<"open", "void">>,
                              <<"open", "uncollectible">> }
  BY DEF CanTransitionTo, LegalEdges, AdminTargets
<1> HIDE DEF new
<1>4. TellsItsPath(new)
  BY <1>2, <1>3 DEF TellsItsPath, InvoiceRow
<1> QED BY <1>1, <1>2, <1>4 DEF new

\* A state with an outgoing edge determines the whole row, so comparing states
\* is as good as comparing versions.
LEMMA StateDeterminesRow ==
  ASSUME NEW row \in InvoiceRow, NEW old \in InvoiceRow, NEW to,
         TellsItsPath(row), TellsItsPath(old), row.state = old.state,
         CanTransitionTo(old.state, to)
  PROVE  row = old
  BY DEF InvoiceRow, Timestamp, TellsItsPath, CanTransitionTo, LegalEdges

LEMMA InitInv == Init => IndInv
  BY DEF Init, IndInv, TypeOK, RowTellsItsPath, LoadedSound, LoadedExists, NoRow, Idle,
         AdminState, Results

LEMMA NextInv ==
  ASSUME IndInv, [Next]_vars
  PROVE  IndInv'
<1> USE DEF IndInv
<1>1. CASE UNCHANGED vars
  BY <1>1 DEF vars, TypeOK, RowTellsItsPath, LoadedSound, LoadedExists
<1>2. ASSUME NEW m \in Admins, NEW result \in Results,
             Answer(m, result), UNCHANGED <<rows, outbox>>
      PROVE  IndInv'
  BY <1>2 DEF Answer, Idle, TypeOK, RowTellsItsPath, LoadedSound, LoadedExists, AdminState
<1>3. ASSUME NEW m \in Admins, CreateRejected(m) PROVE IndInv'
  BY <1>2, <1>3 DEF CreateRejected, Results
<1>4. ASSUME NEW m \in Admins, Create(m) PROVE IndInv'
  <2>1. PICK i \in Invoices :
          /\ rows[i] = NoRow
          /\ rows' = [rows EXCEPT ![i] = [state |-> "draft", version |-> 0, finalized_at |-> "null",
                                          paid_at |-> "null", voided_at |-> "null"]]
          /\ outbox' = Append(outbox, [type |-> "invoice.created", invoice |-> i])
    BY <1>4 DEF Create, DraftRow, EmitEvent
  <2>2. TypeOK'
    BY <1>4, <2>1 DEF Create, Answer, Idle, TypeOK, AdminState, Results, InvoiceRow, Timestamp,
                            InvoiceState
  <2>3. RowTellsItsPath'
    BY <2>1 DEF RowTellsItsPath, TellsItsPath, TypeOK
  <2>4. LoadedSound' /\ LoadedExists'
    BY <1>4, <2>1 DEF Create, Answer, Idle, LoadedSound, LoadedExists, TypeOK, NoRow, AdminState
  <2> QED BY <2>2, <2>3, <2>4
<1>5. ASSUME NEW m \in Admins, TransitionNotFound(m) PROVE IndInv'
  BY <1>2, <1>5 DEF TransitionNotFound, Results
<1>6. ASSUME NEW m \in Admins, TransitionRefused(m) PROVE IndInv'
  BY <1>2, <1>6 DEF TransitionRefused, Results
<1>7. ASSUME NEW m \in Admins, TransitionLoad(m) PROVE IndInv'
  <2>1. PICK i \in Invoices, to \in AdminTargets :
          /\ rows[i] # NoRow
          /\ CanTransitionTo(rows[i].state, to)
          /\ admins' = [admins EXCEPT ![m] =
                          [pc |-> "update", invoice |-> i, to |-> to, loaded |-> rows[i]]]
    BY <1>7 DEF TransitionLoad
  <2>2. UNCHANGED <<rows, outbox>>
    BY <1>7 DEF TransitionLoad
  <2>3. TypeOK'
    BY <2>1, <2>2 DEF TypeOK, AdminState
  <2>4. RowTellsItsPath'
    BY <2>2 DEF RowTellsItsPath
  <2>5. LoadedSound' /\ LoadedExists'
    BY <2>1, <2>2 DEF LoadedSound, LoadedExists, RowTellsItsPath, TypeOK
  <2> QED BY <2>3, <2>4, <2>5
<1>8. ASSUME NEW m \in Admins, TransitionWins(m) PROVE IndInv'
  <2> DEFINE i == admins[m].invoice
             to == admins[m].to
  <2>1. /\ i \in Invoices /\ to \in AdminTargets
        /\ rows[i] \in InvoiceRow
        /\ rows' = [rows EXCEPT ![i] = Transitioned(rows[i], to)]
        /\ UNCHANGED outbox
        /\ TellsItsPath(rows[i])
        /\ CanTransitionTo(rows[i].state, to)
    BY <1>8 DEF TransitionWins, StillAsLoaded, TypeOK, AdminState, LoadedSound, LoadedExists,
                RowTellsItsPath
  <2>2. /\ Transitioned(rows[i], to) \in InvoiceRow
        /\ TellsItsPath(Transitioned(rows[i], to))
    BY <2>1, TransitionedSound
  <2>3. TypeOK'
    BY <1>8, <2>1, <2>2 DEF TransitionWins, Answer, Idle, TypeOK, AdminState, Results
  <2>4. RowTellsItsPath'
    BY <2>1, <2>2 DEF RowTellsItsPath, TypeOK
  <2>5. Transitioned(rows[i], to) # NoRow
    BY <2>2 DEF InvoiceRow, NoRow, InvoiceState
  <2>6. LoadedSound' /\ LoadedExists'
    BY <1>8, <2>1, <2>5 DEF TransitionWins, Answer, Idle, LoadedSound, LoadedExists, TypeOK,
                            AdminState
  <2> QED BY <2>3, <2>4, <2>6
<1>9. ASSUME NEW m \in Admins, TransitionLosesRace(m) PROVE IndInv'
  BY <1>2, <1>9 DEF TransitionLosesRace, Results
<1>10. ASSUME NEW m \in Admins, AbandonTransition(m) PROVE IndInv'
  BY <1>2, <1>10 DEF AbandonTransition, Results
<1>11. ASSUME NEW i \in Invoices, PaySucceeds(i) PROVE IndInv'
  <2> DEFINE row == [state |-> "paid", version |-> rows[i].version + 1, paid_at |-> "set",
                     finalized_at |-> rows[i].finalized_at, voided_at |-> rows[i].voided_at]
  <2>1. /\ rows[i] \in InvoiceRow /\ rows[i].state = "open" /\ TellsItsPath(rows[i])
        /\ rows' = [rows EXCEPT ![i] = row]
        /\ UNCHANGED admins
    BY <1>11 DEF PaySucceeds, TypeOK, RowTellsItsPath
  <2>2. row \in InvoiceRow /\ TellsItsPath(row) /\ row # NoRow
    BY <2>1 DEF InvoiceRow, Timestamp, InvoiceState, TellsItsPath, NoRow
  <2> HIDE DEF row
  <2>3. TypeOK'
    BY <1>11, <2>1, <2>2 DEF PaySucceeds, TypeOK
  <2>4. RowTellsItsPath' /\ LoadedSound' /\ LoadedExists'
    BY <2>1, <2>2 DEF RowTellsItsPath, LoadedSound, LoadedExists, TypeOK, AdminState
  <2> QED BY <2>3, <2>4
<1> QED
  BY <1>1, <1>3, <1>4, <1>5, <1>6, <1>7, <1>8, <1>9, <1>10, <1>11 DEF Next

\* Every variable keeps the shape of the table or request it stands for.
THEOREM TypeCorrect == Spec => []TypeOK
  BY InitInv, NextInv, PTL DEF Spec, IndInv

\* version and the timestamps always tell the path an invoice took, however the
\* admin requests and the payments race.
THEOREM PathRecorded == Spec => []RowTellsItsPath
  BY InitInv, NextInv, PTL DEF Spec, IndInv

\* A conditional UPDATE that matches acts on the row its request loaded, although
\* it compares only the state.
THEOREM NoStaleWinTheorem == Spec => []NoStaleWin
<1>1. IndInv => NoStaleWin
  <2> SUFFICES ASSUME IndInv, NEW m \in Admins, admins[m].pc = "update", StillAsLoaded(m)
               PROVE  rows[admins[m].invoice] = admins[m].loaded
    BY DEF NoStaleWin
  <2>1. /\ rows[admins[m].invoice] \in InvoiceRow
        /\ admins[m].loaded \in InvoiceRow
        /\ TellsItsPath(rows[admins[m].invoice])
        /\ TellsItsPath(admins[m].loaded)
        /\ CanTransitionTo(admins[m].loaded.state, admins[m].to)
    BY DEF IndInv, TypeOK, RowTellsItsPath, LoadedSound, LoadedExists, AdminState
  <2> QED BY <2>1, StateDeterminesRow DEF StillAsLoaded
<1> QED BY <1>1, InitInv, NextInv, PTL DEF Spec

-----------------------------------------------------------------------------
(* Refinement                                                              *)

\* One step of the lifecycle moves the abstract machine by one legal edge, or
\* not at all.
LEMMA StepRefines ==
  ASSUME IndInv, [Next]_vars
  PROVE  [Machine!Next]_[i \in Invoices |-> rows[i].state]
<1> DEFINE bar == [i \in Invoices |-> rows[i].state]
<1> DEFINE moved(i, s) == bar' = [bar EXCEPT ![i] = s]
<1>1. CASE rows' = rows
  BY <1>1
<1>2. ASSUME NEW m \in Admins, Create(m) PROVE Machine!Next
  <2>1. PICK i \in Invoices :
          /\ rows[i] = NoRow
          /\ rows' = [rows EXCEPT ![i] = [state |-> "draft", version |-> 0,
                        finalized_at |-> "null", paid_at |-> "null", voided_at |-> "null"]]
    BY <1>2 DEF Create, DraftRow
  <2>2. bar[i] = "absent" /\ moved(i, "draft")
    <3> DEFINE row == [state |-> "draft", version |-> 0, finalized_at |-> "null",
                       paid_at |-> "null", voided_at |-> "null"]
    <3>1. bar[i] = "absent" /\ row.state = "draft"
      BY <2>1 DEF NoRow
    <3>2. rows' = [rows EXCEPT ![i] = row]
      BY <2>1
    <3> HIDE DEF row
    <3> QED BY <3>1, <3>2 DEF IndInv, TypeOK
  <2> QED BY <2>2 DEF Machine!Next, Machine!Create
<1>3. ASSUME NEW m \in Admins, TransitionWins(m) PROVE Machine!Next
  <2> DEFINE i == admins[m].invoice
             to == admins[m].to
  <2>1. /\ i \in Invoices /\ to \in AdminTargets
        /\ rows[i] \in InvoiceRow /\ TellsItsPath(rows[i])
        /\ rows' = [rows EXCEPT ![i] = Transitioned(rows[i], to)]
        /\ CanTransitionTo(rows[i].state, to)
    BY <1>3 DEF TransitionWins, StillAsLoaded, IndInv, TypeOK, AdminState, LoadedSound,
                LoadedExists, RowTellsItsPath
  <2>2. Transitioned(rows[i], to).state = to
    BY <2>1, TransitionedSound
  <2>3. moved(i, to) /\ <<bar[i], to>> \in LegalEdges /\ to \in InvoiceState
    BY <2>1, <2>2 DEF IndInv, TypeOK, CanTransitionTo, AdminTargets, InvoiceState
  <2> HIDE DEF i, to
  <2> QED BY <2>1, <2>3 DEF Machine!Next, Machine!Move, Machine!LegalEdges, LegalEdges,
                            Machine!InvoiceState, InvoiceState
<1>4. ASSUME NEW i \in Invoices, PaySucceeds(i) PROVE Machine!Next
  <2>1. bar[i] = "open" /\ moved(i, "paid")
    BY <1>4 DEF PaySucceeds, IndInv, TypeOK, InvoiceRow
  <2> QED BY <2>1 DEF Machine!Next, Machine!Move, Machine!LegalEdges, Machine!InvoiceState
<1> QED
  BY <1>1, <1>2, <1>3, <1>4 DEF Next, vars, CreateRejected, TransitionNotFound,
     TransitionRefused, TransitionLoad, TransitionLosesRace, AbandonTransition

\* The lifecycle implements the abstract invoice state machine, for any number of
\* invoices and concurrent requests.
THEOREM Refinement == Spec => ImplementsMachine
<1>1. Init => Machine!Init
  BY DEF Init, Machine!Init, NoRow
<1> QED BY <1>1, InitInv, NextInv, StepRefines, PTL DEF Spec, ImplementsMachine, Machine!Spec
=============================================================================
