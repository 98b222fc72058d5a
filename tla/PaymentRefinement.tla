-------------------------- MODULE PaymentRefinement --------------------------
(***************************************************************************)
(* The payment flow implements PaymentMachine: the whole machinery of keys, *)
(* calls, leases, retries, crashes and PSP restarts takes each attempt from *)
(* begun to charged and succeeded, or to failed and never charged, for      *)
(* every value of the constants in which no two businesses share a key.      *)
(***************************************************************************)
EXTENDS BooksProofs

-----------------------------------------------------------------------------
(* The refinement mapping, named part by part                              *)

StatusOf  == [a \in AttemptIds |-> attempts[a].status]
InvoiceOf == [a \in AttemptIds |-> IF Exists(a) THEN attempts[a].invoice ELSE NoId]
Charged   == {a \in AttemptIds : Exists(a) /\ ChargesOf(a) # {}}

\* What a step of the abstract machine is, in terms of the mapping.
LEMMA AbstractSteps ==
  /\ Payments!vars = <<StatusOf, InvoiceOf, Charged>>
  /\ \A a \in AttemptIds, i \in Invoices :
       /\ StatusOf[a] = "none"
       /\ \A b \in AttemptIds : StatusOf[b] \in {"pending", "succeeded"} => InvoiceOf[b] # i
       /\ StatusOf' = [StatusOf EXCEPT ![a] = "pending"]
       /\ InvoiceOf' = [InvoiceOf EXCEPT ![a] = i]
       /\ Charged' = Charged
       => Payments!Next
  /\ \A a \in AttemptIds :
       /\ StatusOf[a] = "pending"
       /\ Charged' = Charged \cup {a}
       /\ StatusOf' = StatusOf /\ InvoiceOf' = InvoiceOf
       => Payments!Next
  /\ \A a \in AttemptIds :
       /\ StatusOf[a] = "pending"
       /\ \/ StatusOf' = [StatusOf EXCEPT ![a] = "succeeded"] /\ a \in Charged
          \/ StatusOf' = [StatusOf EXCEPT ![a] = "failed"] /\ a \notin Charged
       /\ InvoiceOf' = InvoiceOf /\ Charged' = Charged
       => Payments!Next
<1>1. Payments!vars = <<StatusOf, InvoiceOf, Charged>>
  BY DEF Payments!vars, StatusOf, InvoiceOf, Charged
<1>2. ASSUME NEW a \in AttemptIds, NEW i \in Invoices,
             StatusOf[a] = "none",
             \A b \in AttemptIds : StatusOf[b] \in {"pending", "succeeded"} => InvoiceOf[b] # i,
             StatusOf' = [StatusOf EXCEPT ![a] = "pending"],
             InvoiceOf' = [InvoiceOf EXCEPT ![a] = i],
             Charged' = Charged
      PROVE  Payments!Next
  <2>1. Payments!Begin(a, i)
    BY <1>2 DEF Payments!Begin, StatusOf, InvoiceOf, Charged
  <2> QED BY <2>1 DEF Payments!Next
<1>3. ASSUME NEW a \in AttemptIds, StatusOf[a] = "pending", Charged' = Charged \cup {a},
             StatusOf' = StatusOf, InvoiceOf' = InvoiceOf
      PROVE  Payments!Next
  <2>1. Payments!Charge(a)
    BY <1>3 DEF Payments!Charge, StatusOf, InvoiceOf, Charged
  <2> QED BY <2>1 DEF Payments!Next
<1>4. ASSUME NEW a \in AttemptIds, StatusOf[a] = "pending",
             \/ StatusOf' = [StatusOf EXCEPT ![a] = "succeeded"] /\ a \in Charged
             \/ StatusOf' = [StatusOf EXCEPT ![a] = "failed"] /\ a \notin Charged,
             InvoiceOf' = InvoiceOf, Charged' = Charged
      PROVE  Payments!Next
  <2>1. Payments!Succeed(a) \/ Payments!Fail(a)
    BY <1>4 DEF Payments!Succeed, Payments!Fail, StatusOf, InvoiceOf, Charged
  <2> QED BY <2>1 DEF Payments!Next
<1> QED BY <1>1, <1>2, <1>3, <1>4

-----------------------------------------------------------------------------
(* What the steps of the flow do to the mapping                            *)

\* The rows of attempts: none, or one of the three statuses.
LEMMA StatusShape ==
  ASSUME WellFormed, NEW a \in AttemptIds
  PROVE  /\ Exists(a) => StatusOf[a] \in AttemptStatus
         /\ ~Exists(a) => StatusOf[a] = "none"
         /\ StatusOf[a] = attempts[a].status
<1>1. Exists(a) => attempts[a] \in AttemptRow
  BY WellFormedParts, AttemptShape
<1> QED BY <1>1 DEF StatusOf, Exists, NoAttempt, AttemptRow

\* A step that adds no attempt leaves all invoices of attempts alone, and without
\* a charge it also leaves alone who was charged.
LEMMA SameAttempts ==
  ASSUME WellFormed, Next, \A a \in AttemptIds : attempts'[a] # NoAttempt => Exists(a)
  PROVE  /\ InvoiceOf' = InvoiceOf
         /\ UNCHANGED charges => Charged' = Charged
<1>1. AttemptsKept
  BY NextWellFormed
<1>2. \A a \in AttemptIds :
        /\ (attempts'[a] # NoAttempt) <=> Exists(a)
        /\ Exists(a) => /\ attempts'[a].invoice = attempts[a].invoice
                        /\ attempts'[a].key = attempts[a].key
  BY <1>1 DEF AttemptsKept
<1> QED BY <1>2 DEF InvoiceOf, Charged, ChargesOf, Exists

\* Transaction 1 begins an attempt: the partial index saw no other active one, and
\* its key is fresh, so no money has moved on it.
LEMMA ClaimBegins ==
  ASSUME DisjointKeys, IndInv, Next, NEW h \in Handlers, ClaimAttempt(h)
  PROVE  Payments!Next
<1>1. WellFormed /\ DbOK /\ TaskTypes
  BY WellFormedParts DEF IndInv, WellFormed
<1> DEFINE req == handlers[h].req
           i   == req.invoice
           row == [invoice |-> req.invoice, key |-> req.key, token |-> req.token,
                   amount |-> Total[req.invoice], status |-> "pending", ref |-> 0,
                   poll |-> "null"]
<1>2. req \in PayRequest
  BY <1>1 DEF ClaimAttempt, TaskTypes, HandlerState
<1>3. i \in Invoices /\ req.key \in KeysOf[Owner[i]] /\ Owner[i] \in Businesses
  BY <1>2, FlowAssumption DEF PayRequest
<1>4. PICK a \in AttemptIds : ~Exists(a) /\ attempts' = [attempts EXCEPT ![a] = row]
  BY DEF ClaimAttempt
<1>5. UNCHANGED charges /\ keys[Owner[i]][req.key] = FreeKey /\ ~InvoicePinned(i)
  BY DEF ClaimAttempt, KeyTaken
<1>6. /\ row.status = "pending" /\ row.invoice = i /\ row.key = req.key
      /\ row # NoAttempt
  BY DEF NoAttempt
<1>7. /\ attempts'[a] = row
      /\ \A b \in AttemptIds : b # a => attempts'[b] = attempts[b]
  BY <1>1, <1>4 DEF DbOK
<1> HIDE DEF row
<1>8. ASSUME NEW n \in DOMAIN charges PROVE charges[n].key # req.key
  <2> SUFFICES ASSUME charges[n].key = req.key PROVE FALSE
    OBVIOUS
  <2>1. PICK b \in AttemptIds : Exists(b) /\ ChargeOf(b) = charges[n]
    BY DEF IndInv, ChargesSound
  <2>2. attempts[b].key = req.key
    BY <2>1 DEF ChargeOf
  <2>3. Owner[attempts[b].invoice] \in Businesses
    BY <1>1, <2>1, AttemptShape
  <2>4. Owner[attempts[b].invoice] = Owner[i]
    BY <1>3, <2>1, <2>2, <2>3 DEF IndInv, AttemptsSound, DisjointKeys
  <2>5. KeyOf(b) # FreeKey
    BY <2>1 DEF IndInv, References
  <2> QED BY <1>5, <2>2, <2>4, <2>5 DEF KeyOf
<1>9. StatusOf' = [StatusOf EXCEPT ![a] = "pending"]
  BY <1>6, <1>7 DEF StatusOf
<1>10. InvoiceOf' = [InvoiceOf EXCEPT ![a] = i]
  BY <1>6, <1>7 DEF InvoiceOf, Exists
<1>11. Charged' = Charged
  <2>1. \A b \in AttemptIds : b # a => (b \in Charged' <=> b \in Charged)
    BY <1>5, <1>7 DEF Charged, ChargesOf, Exists
  <2>2. a \notin Charged
    BY <1>4 DEF Charged
  <2>3. a \notin Charged'
    BY <1>5, <1>6, <1>7, <1>8 DEF Charged, ChargesOf
  <2> QED BY <2>1, <2>2, <2>3 DEF Charged
<1>12. StatusOf[a] = "none"
  BY <1>1, <1>4, StatusShape
<1>13. ASSUME NEW b \in AttemptIds, StatusOf[b] \in {"pending", "succeeded"}
       PROVE  InvoiceOf[b] # i
  <2>1. Exists(b) /\ Active(b)
    BY <1>1, <1>13, StatusShape DEF Active
  <2> QED BY <1>5, <2>1 DEF InvoicePinned, InvoiceOf
<1> QED BY <1>3, <1>9, <1>10, <1>11, <1>12, <1>13, AbstractSteps

\* Transaction 2 decides an attempt as the PSP did, or changes nothing that counts.
LEMMA FinalizeDecides ==
  ASSUME DisjointKeys, IndInv, Next, NEW c \in Callers, Work(c) # NoId,
         Finalize(Work(c), ChargeResult(c)), UNCHANGED charges
  PROVE  Payments!Next \/ UNCHANGED <<StatusOf, InvoiceOf, Charged>>
<1> DEFINE a == Work(c)
           result == ChargeResult(c)
<1>1. WellFormed /\ DbOK /\ PspTypeOK /\ a \in AttemptIds /\ Exists(a)
  BY WellFormedParts, WorkExists DEF IndInv, WellFormed
<1>2. result \in PspResults /\ result.kind \in {"Succeeded", "Declined", "Unknown"}
  BY <1>1, ChargeResultType DEF PspResults, Unknown
<1>3. /\ \A b \in AttemptIds : b # a => attempts'[b] = attempts[b]
      /\ attempts[a].status # "pending" => attempts'[a] = attempts[a]
      /\ attempts[a].status = "pending" =>
           /\ result.kind = "Succeeded" => attempts'[a].status = "succeeded"
           /\ result.kind = "Declined" => attempts'[a].status = "failed"
           /\ result.kind = "Unknown" => attempts'[a].status = "pending"
  BY <1>1, <1>2, FinalizeEffect
<1>4. \A b \in AttemptIds : attempts'[b] # NoAttempt => Exists(b)
  BY <1>1, <1>3 DEF Exists
<1>5. InvoiceOf' = InvoiceOf /\ Charged' = Charged
  BY <1>1, <1>4, SameAttempts
<1>6. /\ result.kind = "Succeeded" =>
           result.ref \in DOMAIN charges /\ charges[result.ref] = ChargeOf(a)
      /\ result.kind = "Declined" => ~Moves(attempts[a].token)
  BY <1>1, ResultSound DEF IndInv
<1> HIDE DEF a, result
<1>7. CASE attempts[a].status # "pending" \/ result.kind = "Unknown"
  <2>1. StatusOf' = StatusOf
    BY <1>1, <1>3, <1>7 DEF StatusOf
  <2> QED BY <1>5, <2>1
<1>8. CASE attempts[a].status = "pending" /\ result.kind = "Succeeded"
  <2>1. StatusOf' = [StatusOf EXCEPT ![a] = "succeeded"]
    BY <1>1, <1>3, <1>8 DEF StatusOf
  <2>2. a \in Charged
    BY <1>1, <1>6, <1>8 DEF Charged, ChargesOf, ChargeOf
  <2> QED BY <1>1, <1>5, <1>8, <2>1, <2>2, StatusShape, AbstractSteps
<1>9. CASE attempts[a].status = "pending" /\ result.kind = "Declined"
  <2>1. StatusOf' = [StatusOf EXCEPT ![a] = "failed"]
    BY <1>1, <1>3, <1>9 DEF StatusOf
  <2>2. a \notin Charged
    <3> SUFFICES ASSUME NEW n \in DOMAIN charges, charges[n].key = attempts[a].key PROVE FALSE
      BY DEF Charged, ChargesOf
    <3>1. PICK b \in AttemptIds :
            Exists(b) /\ ChargeOf(b) = charges[n] /\ Moves(charges[n].token)
      BY DEF IndInv, ChargesSound
    <3>2. attempts[b].key = attempts[a].key /\ Moves(attempts[b].token)
      BY <3>1 DEF ChargeOf
    <3>3. a = b
      BY <1>1, <3>1, <3>2, KeyNamesAttempt DEF IndInv
    <3> QED BY <1>6, <1>9, <3>2, <3>3
  <2> QED BY <1>1, <1>5, <1>9, <2>1, <2>2, StatusShape, AbstractSteps
<1> QED BY <1>2, <1>7, <1>8, <1>9

\* The PSP charges a pending attempt, or once more one that was charged already:
\* never one that has failed, also when its call was given up long ago.
LEMMA ChargeMovesMoney ==
  ASSUME DisjointKeys, IndInv, Next, Settled, NEW x \in Callers \cup Slots,
         calls[x].stage = "sleeping", Moves(calls[x].req.token),
         calls[x].req \in ChargeRequest, charges' = Append(charges, calls[x].req)
  PROVE  Payments!Next \/ UNCHANGED <<StatusOf, InvoiceOf, Charged>>
<1> DEFINE req == calls[x].req
<1>1. WellFormed /\ DbOK /\ PspTypeOK /\ AttemptsKept
  BY WellFormedParts, NextWellFormed DEF IndInv, WellFormed
<1>2. PICK a \in AttemptIds : Exists(a) /\ req = ChargeOf(a)
  BY <1>1, RunningCall DEF IndInv
<1>3. req.key = attempts[a].key /\ Moves(attempts[a].token)
  BY <1>2 DEF ChargeOf
<1>4. charges \in Seq(ChargeRequest) /\ req \in ChargeRequest /\ charges' = Append(charges, req)
  BY <1>1 DEF PspTypeOK
<1>5. InvoiceOf' = InvoiceOf /\ StatusOf' = StatusOf
  <2>1. \A b \in AttemptIds : attempts'[b] # NoAttempt => Exists(b)
    BY DEF Settled
  <2>2. \A b \in AttemptIds : attempts'[b].status = attempts[b].status
    BY <1>1, <2>1 DEF Settled, Exists, NoAttempt
  <2> QED BY <1>1, <2>1, <2>2, SameAttempts DEF StatusOf
<1> HIDE DEF req
<1>6. /\ DOMAIN charges' = DOMAIN charges \cup {Len(charges) + 1}
      /\ charges'[Len(charges) + 1] = req
      /\ \A n \in DOMAIN charges : charges'[n] = charges[n]
  BY <1>4
<1>7. ASSUME NEW b \in AttemptIds
      PROVE  b \in Charged' <=> (b \in Charged \/ b = a)
  <2>1. (attempts'[b] # NoAttempt) <=> Exists(b)
    BY <1>1 DEF Settled, AttemptsKept
  <2>2. Exists(b) => attempts'[b].key = attempts[b].key
    BY <1>1 DEF AttemptsKept
  <2>3. Exists(b) /\ attempts[b].key = req.key => b = a
    BY <1>1, <1>2, <1>3, KeyNamesAttempt DEF IndInv
  <2>4. Exists(b) => (ChargesOf(b)' # {} <=> (ChargesOf(b) # {} \/ b = a))
    BY <1>3, <1>6, <2>2, <2>3 DEF ChargesOf
  <2> QED BY <1>2, <2>1, <2>4 DEF Charged, Exists
<1>8. Charged' = Charged \cup {a}
  BY <1>7 DEF Charged
<1>9. attempts[a].status \in {"pending", "succeeded"}
  BY <1>1, <1>2, <1>3, StatusShape DEF IndInv, BooksSound, AttemptStatus
<1>10. CASE attempts[a].status = "pending"
  BY <1>1, <1>5, <1>8, <1>10, StatusShape, AbstractSteps
<1>11. CASE attempts[a].status = "succeeded"
  <2>1. a \in Charged
    BY <1>2, <1>11 DEF IndInv, BooksSound, Charged, ChargesOf, ChargeOf
  <2> QED BY <1>5, <1>8, <2>1
<1> QED BY <1>9, <1>10, <1>11

\* Handlers, reconcilers and the PSP together implement the abstract payment
\* machine: an attempt is begun only while its invoice has no other active one,
\* money moves only for a pending attempt or again for a succeeded one, and an
\* attempt is decided only the way the money went, whatever crashes, is retried
\* or answers late.
THEOREM ImplementsPayments ==
  ASSUME DisjointKeys
  PROVE  Spec => ImplementsPayment
<1>1. Init => Payments!Init
  BY DEF Init, PspInit, Payments!Init, Exists, NoAttempt
<1>2. IndInv /\ [Next]_vars => [Payments!Next]_Payments!vars
  <2>1. ASSUME IndInv, UNCHANGED vars PROVE UNCHANGED Payments!vars
    BY <2>1 DEF vars, pspVars, dbVars, Payments!vars, Exists, ChargesOf
  <2>2. ASSUME IndInv, Next PROVE Payments!Next \/ UNCHANGED Payments!vars
    <3>1. WellFormed
      BY <2>2 DEF IndInv, WellFormed
    <3>2. CASE Settled
      <4>1. CASE UNCHANGED charges
        <5>1. \A a \in AttemptIds : attempts'[a].status = attempts[a].status
          BY <3>2 DEF Settled, Exists, NoAttempt
        <5>2. StatusOf' = StatusOf /\ InvoiceOf' = InvoiceOf /\ Charged' = Charged
          BY <2>2, <3>1, <3>2, <4>1, <5>1, SameAttempts DEF StatusOf, Settled
        <5> QED BY <5>2 DEF Payments!vars, StatusOf, InvoiceOf, Charged
      <4>2. CASE ~UNCHANGED charges
        <5>1. Payments!Next \/ UNCHANGED <<StatusOf, InvoiceOf, Charged>>
          BY <2>2, <3>1, <3>2, <4>2, ChargeSteps, ChargeMovesMoney
        <5> QED BY <5>1 DEF Payments!vars, StatusOf, InvoiceOf, Charged
      <4> QED BY <4>1, <4>2
    <3>3. CASE \E h \in Handlers : ClaimAttempt(h)
      BY <2>2, <3>3, ClaimBegins
    <3>4. ASSUME NEW c \in Callers, Work(c) # NoId, Finalize(Work(c), ChargeResult(c)),
                 UNCHANGED <<seen, charges>>
          PROVE  Payments!Next \/ UNCHANGED Payments!vars
      <4>1. Payments!Next \/ UNCHANGED <<StatusOf, InvoiceOf, Charged>>
        BY <2>2, <3>4, FinalizeDecides
      <4> QED BY <4>1 DEF Payments!vars, StatusOf, InvoiceOf, Charged
    <3> QED BY <2>2, <3>1, <3>2, <3>3, <3>4, AttemptSteps
  <2> QED BY <2>1, <2>2
<1> QED BY <1>1, <1>2, Inductive, PTL DEF Spec, ImplementsPayment, Payments!Spec
=============================================================================
