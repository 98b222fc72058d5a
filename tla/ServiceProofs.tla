---------------------------- MODULE ServiceProofs ----------------------------
(***************************************************************************)
(* What the service tells its clients is true: proofs about keys, invoices, *)
(* the outbox, the answers of POST /pay and of the poll endpoint.  What     *)
(* needs no agreement with the PSP is proved for any keys (LinkInv), the    *)
(* rest for businesses that share none (ServiceInv).                        *)
(***************************************************************************)
EXTENDS BooksProofs

-----------------------------------------------------------------------------
(* What a step can do to a request, a poll and an invoice                  *)

\* Only a request's own steps change its state.
LEMMA HandlerMoves ==
  ASSUME WellFormed, Next, NEW h \in Handlers
  PROVE  handlers'[h] = handlers[h] \/ HandlerStep(h)
<1>1. handlers \in [Handlers -> HandlerState]
  BY WellFormedParts DEF TaskTypes
<1>2. ASSUME NEW g \in Handlers, HandlerStep(g), g # h PROVE handlers'[h] = handlers[h]
  <2>1. \E st : handlers' = [handlers EXCEPT ![g] = st]
    BY <1>2 DEF HandlerStep, PayRejected, PayRead, ClaimReplay, ClaimNotPayable, ClaimRace,
       ClaimAttempt, ReplayMismatch, ReplayCompleted, ReplayPending, PayFinalize, AbandonPay,
       Answer
  <2> QED BY <1>1, <1>2, <2>1
<1>3. ASSUME ~\E g \in Handlers : HandlerStep(g) PROVE UNCHANGED handlers
  BY <1>3 DEF Next, PspStep, RecStep, Lease, LeaseRows, Requery, RecFinalize, RecFinalizeFails,
     RecCrash, PollTimePasses, AdminTransition, PollAttempt, PollInvoice, taskVars
<1> QED BY <1>2, <1>3

\* A step of a request reads an invoice, begins an attempt, falls back to a replay
\* or answers.
LEMMA HandlerTargets ==
  ASSUME WellFormed, NEW h \in Handlers, HandlerStep(h), ~PayRead(h), ~ClaimAttempt(h)
  PROVE  handlers'[h].pc \in {"replay", "idle"}
<1>1. handlers \in [Handlers -> HandlerState]
  BY WellFormedParts DEF TaskTypes
<1>2. ASSUME NEW resp, Answer(h, resp) PROVE handlers'[h].pc = "idle"
  BY <1>1, <1>2 DEF Answer, Idle
<1>3. CASE ClaimReplay(h)
  BY <1>1, <1>3 DEF ClaimReplay
<1>4. CASE PayRejected(h) \/ ClaimNotPayable(h) \/ ClaimRace(h) \/ AbandonPay(h)
  <2>1. \E resp : Answer(h, resp)
    BY <1>4 DEF PayRejected, ClaimNotPayable, ClaimRace, AbandonPay
  <2> QED BY <1>2, <2>1
<1>5. CASE ReplayMismatch(h) \/ ReplayCompleted(h) \/ ReplayPending(h) \/ PayFinalize(h)
  <2>1. \E resp : Answer(h, resp)
    BY <1>5 DEF ReplayMismatch, ReplayCompleted, ReplayPending, PayFinalize
  <2> QED BY <1>2, <2>1
<1> QED BY <1>3, <1>4, <1>5 DEF HandlerStep

\* Only a poll's own queries change its state.
LEMMA PollMoves ==
  ASSUME WellFormed, Next, NEW p \in Pollers
  PROVE  polls'[p] = polls[p] \/ PollAttempt(p) \/ PollInvoice(p)
<1>1. polls \in [Pollers -> PollState]
  BY WellFormedParts DEF TaskTypes
<1>2. ASSUME NEW q \in Pollers, PollAttempt(q) \/ PollInvoice(q), q # p
      PROVE  polls'[p] = polls[p]
  <2>1. \E st : polls' = [polls EXCEPT ![q] = st]
    BY <1>2 DEF PollAttempt, PollInvoice
  <2> QED BY <1>1, <1>2, <2>1
<1>3. ASSUME NEW h \in Handlers, HandlerStep(h) PROVE UNCHANGED polls
  BY <1>3 DEF HandlerStep, PayRejected, PayRead, ClaimReplay, ClaimNotPayable, ClaimRace,
     ClaimAttempt, ReplayMismatch, ReplayCompleted, ReplayPending, PayFinalize, AbandonPay
<1>4. ASSUME ~\E q \in Pollers : PollAttempt(q) \/ PollInvoice(q) PROVE UNCHANGED polls
  BY <1>3, <1>4 DEF Next, PspStep, RecStep, Lease, LeaseRows, Requery, RecFinalize,
     RecFinalizeFails, RecCrash, PollTimePasses, AdminTransition, taskVars
<1> QED BY <1>2, <1>4

\* An invoice is paid by transaction 2 of a success, or moved by an admin request.
LEMMA InvoiceSteps ==
  ASSUME WellFormed, Next, NEW i \in Invoices, inv'[i] # inv[i]
  PROVE  /\ CanTransitionTo(inv[i], inv'[i])
         /\ inv'[i] = "paid" =>
              \E c \in Callers :
                /\ Work(c) # NoId
                /\ Finalize(Work(c), ChargeResult(c))
                /\ ChargeResult(c).kind = "Succeeded"
                /\ attempts[Work(c)].invoice = i
<1>1. PspTypeOK /\ DbOK /\ TaskTypes /\ TaskRefs /\ Handlers \cup Reconcilers \subseteq Callers
  BY WellFormedParts, FlowAssumption
<1>2. ASSUME NEW j \in Invoices, AdminTransition(j)
      PROVE  CanTransitionTo(inv[i], inv'[i]) /\ inv'[i] # "paid"
  BY <1>1, <1>2 DEF AdminTransition, AdminTargets, CanTransitionTo, LegalEdges, DbOK
<1>3. ASSUME NEW c \in Callers, Work(c) # NoId, Finalize(Work(c), ChargeResult(c))
      PROVE  /\ CanTransitionTo(inv[i], inv'[i])
             /\ ChargeResult(c).kind = "Succeeded"
             /\ attempts[Work(c)].invoice = i
  <2>1. Work(c) \in AttemptIds /\ Exists(Work(c)) /\ attempts[Work(c)].invoice \in Invoices
    BY <1>1, <1>3, WorkExists, AttemptShape
  <2>2. ChargeResult(c).kind = "Succeeded" /\ FinalizeSucceeded(Work(c), ChargeResult(c).ref)
    BY <1>3 DEF Finalize, FinalizeDeclined, FinalizeUnknown
  <2>3. PICK j \in Invoices :
          /\ j = attempts[Work(c)].invoice
          /\ inv' = [inv EXCEPT ![j] = IF inv[j] = "open" THEN "paid" ELSE inv[j]]
    BY <2>1, <2>2 DEF FinalizeSucceeded
  <2>4. i = j /\ inv[i] = "open" /\ inv'[i] = "paid"
    BY <1>1, <2>3 DEF DbOK
  <2> QED BY <2>2, <2>3, <2>4 DEF CanTransitionTo, LegalEdges
<1>4. ASSUME NEW h \in Handlers, PayFinalize(h)
      PROVE  h \in Callers /\ Work(h) # NoId /\ Finalize(Work(h), ChargeResult(h))
  BY <1>1, <1>4, FlowAssumption DEF PayFinalize, Work, TaskTypes, HandlerState
<1>5. ASSUME NEW r \in Reconcilers, RecFinalize(r)
      PROVE  r \in Callers /\ Work(r) # NoId /\ Finalize(Work(r), ChargeResult(r))
  BY <1>1, <1>5, FlowAssumption DEF RecFinalize, Work
<1>6. ASSUME NEW h \in Handlers, HandlerStep(h), ~PayFinalize(h) PROVE UNCHANGED inv
  BY <1>6 DEF HandlerStep, PayRejected, PayRead, ClaimReplay, ClaimNotPayable, ClaimRace,
     ClaimAttempt, ReplayMismatch, ReplayCompleted, ReplayPending, AbandonPay, dbVars
<1>7. ASSUME NEW r \in Reconcilers, RecStep(r), ~RecFinalize(r) PROVE UNCHANGED inv
  BY <1>7 DEF RecStep, Lease, LeaseRows, Requery, RecFinalizeFails, RecCrash, dbVars
<1>8. ASSUME PspStep \/ (\E a \in AttemptIds : PollTimePasses(a))
               \/ (\E p \in Pollers : PollAttempt(p) \/ PollInvoice(p))
      PROVE  UNCHANGED inv
  BY <1>8 DEF PspStep, PollTimePasses, PollAttempt, PollInvoice, dbVars
<1> QED BY <1>2, <1>3, <1>4, <1>5, <1>6, <1>7, <1>8 DEF Next

\* An issued invoice stays issued, a settled one settled, a paid one paid.
LEMMA InvoiceForward ==
  ASSUME WellFormed, Next, NEW i \in Invoices
  PROVE  /\ inv[i] # "draft" => inv'[i] # "draft"
         /\ IsTerminal(inv[i]) => inv'[i] = inv[i]
  BY InvoiceSteps DEF CanTransitionTo, LegalEdges, IsTerminal

-----------------------------------------------------------------------------
(* What transaction 2 writes besides the attempt                           *)

\* A definite outcome completes the attempt's own key and adds one event about it.
LEMMA FinalizeWrites ==
  ASSUME DbOK, AttemptsSound, NEW a \in AttemptIds, Exists(a), NEW result \in PspResults,
         Finalize(a, result)
  PROVE  \/ result.kind = "Unknown" /\ UNCHANGED <<inv, keys, events>>
         \/ \E resp \in Response, type \in {"invoice.paid", "invoice.payment_failed"} :
              /\ resp.attempt = a
              /\ \/ /\ result.kind = "Succeeded" /\ resp.code = "succeeded"
                    /\ type = "invoice.paid"
                 \/ /\ result.kind = "Declined" /\ resp.code = "failed"
                    /\ type = "invoice.payment_failed"
              /\ Emit(type, a)
              /\ keys'[Owner[attempts[a].invoice]][attempts[a].key] =
                   [status |-> "completed", fp |-> KeyOf(a).fp, attempt |-> a, resp |-> resp]
              /\ \A b \in Businesses, k \in PspKeys :
                   <<b, k>> # <<Owner[attempts[a].invoice], attempts[a].key>> =>
                     keys'[b][k] = keys[b][k]
<1>1. /\ Owner[attempts[a].invoice] \in Businesses /\ attempts[a].key \in PspKeys
      /\ KeyOf(a).attempt = a
  BY AttemptShape DEF AttemptsSound
<1>2. ASSUME NEW resp \in Response, CompleteKey(a, resp)
      PROVE  /\ keys'[Owner[attempts[a].invoice]][attempts[a].key] =
                  [status |-> "completed", fp |-> KeyOf(a).fp, attempt |-> a, resp |-> resp]
             /\ \A b \in Businesses, k \in PspKeys :
                  <<b, k>> # <<Owner[attempts[a].invoice], attempts[a].key>> =>
                    keys'[b][k] = keys[b][k]
  <2> DEFINE bb == Owner[attempts[a].invoice]
             kk == attempts[a].key
             new == [status |-> "completed", fp |-> KeyOf(a).fp, attempt |-> a, resp |-> resp]
  <2>1. keys' = [keys EXCEPT ![bb][kk] = new]
    BY <1>1, <1>2 DEF CompleteKey, KeyOf
  <2>2. bb \in Businesses /\ kk \in PspKeys
    BY <1>1
  <2> HIDE DEF bb, kk, new
  <2>3. keys'[bb][kk] = new
    BY <2>1, <2>2 DEF DbOK
  <2>4. \A b \in Businesses, k \in PspKeys : <<b, k>> # <<bb, kk>> => keys'[b][k] = keys[b][k]
    BY <2>1, <2>2 DEF DbOK
  <2> QED BY <2>3, <2>4 DEF bb, kk, new
<1>3. CASE result.kind = "Succeeded" /\ FinalizeSucceeded(a, result.ref)
  <2> DEFINE resp == Resp("succeeded", a, result.ref)
  <2>1. result.ref \in Nat
    BY <1>3 DEF PspResults, Unknown
  <2>2. resp \in Response /\ resp.attempt = a /\ resp.code = "succeeded"
    BY <2>1 DEF Resp, Response
  <2>3. Emit("invoice.paid", a) /\ CompleteKey(a, resp)
    BY <1>3 DEF FinalizeSucceeded
  <2> HIDE DEF resp
  <2> QED BY <1>2, <1>3, <2>2, <2>3
<1>4. CASE result.kind = "Declined" /\ FinalizeDeclined(a)
  <2> DEFINE resp == Resp("failed", a, 0)
  <2>2. resp \in Response /\ resp.attempt = a /\ resp.code = "failed"
    BY DEF Resp, Response
  <2>3. Emit("invoice.payment_failed", a) /\ CompleteKey(a, resp)
    BY <1>4 DEF FinalizeDeclined
  <2> HIDE DEF resp
  <2> QED BY <1>2, <1>4, <2>2, <2>3
<1>5. CASE result.kind = "Unknown" /\ FinalizeUnknown(a)
  BY <1>5 DEF FinalizeUnknown
<1> QED BY <1>3, <1>4, <1>5 DEF Finalize

\* An event about an attempt changes what the outbox says of that attempt only.
LEMMA EmitAdds ==
  ASSUME DbOK, NEW a \in AttemptIds, Exists(a),
         NEW type \in {"invoice.paid", "invoice.payment_failed"}, Emit(type, a)
  PROVE  /\ EventsOf(a)' = EventsOf(a) \cup {type}
         /\ \A c \in AttemptIds : c # a => EventsOf(c)' = EventsOf(c)
         /\ \A n \in DOMAIN events' :
              events'[n].attempt = a \/ (n \in DOMAIN events /\ events'[n] = events[n])
<1> DEFINE row == [type |-> type, invoice |-> attempts[a].invoice, attempt |-> a]
<1>1. row \in EventRow /\ row.type = type /\ row.attempt = a
  BY AttemptShape DEF EventRow
<1>2. events \in Seq(EventRow) /\ events' = Append(events, row)
  BY DEF Emit, DbOK
<1> HIDE DEF row
<1>3. /\ DOMAIN events' = DOMAIN events \cup {Len(events) + 1}
      /\ events'[Len(events) + 1] = row
      /\ \A n \in DOMAIN events : events'[n] = events[n] /\ n # Len(events) + 1
  BY <1>1, <1>2
<1>4. EventsOf(a)' = EventsOf(a) \cup {type}
  <2>1. ASSUME NEW t PROVE t \in EventsOf(a)' <=> (t \in EventsOf(a) \/ t = type)
    BY <1>1, <1>3 DEF EventsOf
  <2> QED BY <2>1
<1>5. ASSUME NEW c \in AttemptIds, c # a PROVE EventsOf(c)' = EventsOf(c)
  <2>1. ASSUME NEW t PROVE t \in EventsOf(c)' <=> t \in EventsOf(c)
    BY <1>1, <1>3, <1>5 DEF EventsOf
  <2> QED BY <2>1
<1> QED BY <1>1, <1>3, <1>4, <1>5
-----------------------------------------------------------------------------
(* The links, for any keys                                                 *)

\* The request a handler works for.
LEMMA ClaimRequest ==
  ASSUME WellFormed, NEW h \in Handlers, ClaimAttempt(h)
  PROVE  /\ handlers[h].req \in PayRequest
         /\ handlers[h].req.invoice \in Invoices
         /\ handlers[h].req.key \in PspKeys
         /\ Owner[handlers[h].req.invoice] \in Businesses
  BY RequestShape DEF ClaimAttempt, WellFormed

LEMMA KeysLinkedKept ==
  ASSUME WellFormed, AttemptsSound, KeysLinked, Next
  PROVE  KeysLinked'
<1>1. PspTypeOK /\ DbOK /\ AttemptsKept
  BY NextWellFormed, WellFormedParts
<1> SUFFICES ASSUME NEW b \in Businesses, NEW k \in PspKeys, keys'[b][k] # FreeKey
             PROVE  LET row == keys'[b][k]
                        a   == row.attempt
                    IN  /\ attempts'[a] # NoAttempt /\ attempts'[a].key = k
                        /\ Owner[attempts'[a].invoice] = b
                        /\ row.fp = <<attempts'[a].invoice, attempts'[a].token,
                                      attempts'[a].amount>>
                        /\ row.status = "completed" => row.resp.attempt = a
  BY DEF KeysLinked, Exists
<1>2. ASSUME keys'[b][k] = keys[b][k]
      PROVE  LET row == keys'[b][k]
                 a   == row.attempt
             IN  /\ attempts'[a] # NoAttempt /\ attempts'[a].key = k
                 /\ Owner[attempts'[a].invoice] = b
                 /\ row.fp = <<attempts'[a].invoice, attempts'[a].token, attempts'[a].amount>>
                 /\ row.status = "completed" => row.resp.attempt = a
  <2>1. keys[b][k] \in KeyRow
    BY <1>1, <1>2 DEF DbOK
  <2>2. keys[b][k].attempt \in AttemptIds
    BY <2>1 DEF KeyRow
  <2> QED BY <1>1, <1>2, <2>2 DEF KeysLinked, AttemptsKept
<1>3. ASSUME NEW h \in Handlers, ClaimAttempt(h), keys'[b][k] # keys[b][k]
      PROVE  LET row == keys'[b][k]
                 a   == row.attempt
             IN  /\ attempts'[a] # NoAttempt /\ attempts'[a].key = k
                 /\ Owner[attempts'[a].invoice] = b
                 /\ row.fp = <<attempts'[a].invoice, attempts'[a].token, attempts'[a].amount>>
                 /\ row.status = "completed" => row.resp.attempt = a
  <2> DEFINE req == handlers[h].req
             row == [invoice |-> req.invoice, key |-> req.key, token |-> req.token,
                     amount |-> Total[req.invoice], status |-> "pending", ref |-> 0,
                     poll |-> "null"]
  <2>1. PICK a \in AttemptIds :
          /\ row \in AttemptRow
          /\ attempts' = [attempts EXCEPT ![a] = row]
          /\ keys' = [keys EXCEPT ![Owner[req.invoice]][req.key] = ClaimedKey(req, a)]
    BY <1>3, ClaimFacts
  <2>2. req.key \in PspKeys /\ Owner[req.invoice] \in Businesses
    BY <1>3, ClaimRequest
  <2>3. /\ row.invoice = req.invoice /\ row.key = req.key /\ row.token = req.token
        /\ row.amount = Total[req.invoice] /\ row # NoAttempt
    BY DEF NoAttempt
  <2> HIDE DEF row, req
  <2>4. attempts'[a] = row
    BY <1>1, <2>1 DEF DbOK
  <2>5. b = Owner[req.invoice] /\ k = req.key /\ keys'[b][k] = ClaimedKey(req, a)
    BY <1>1, <1>3, <2>1, <2>2 DEF DbOK
  <2>6. /\ keys'[b][k].attempt = a /\ keys'[b][k].status = "in_progress"
        /\ keys'[b][k].fp = <<req.invoice, req.token, Total[req.invoice]>>
    BY <2>5 DEF ClaimedKey, Fingerprint
  <2> QED BY <2>3, <2>4, <2>5, <2>6
<1>4. ASSUME NEW c \in Callers, Work(c) # NoId, Finalize(Work(c), ChargeResult(c)),
             keys'[b][k] # keys[b][k]
      PROVE  LET row == keys'[b][k]
                 a   == row.attempt
             IN  /\ attempts'[a] # NoAttempt /\ attempts'[a].key = k
                 /\ Owner[attempts'[a].invoice] = b
                 /\ row.fp = <<attempts'[a].invoice, attempts'[a].token, attempts'[a].amount>>
                 /\ row.status = "completed" => row.resp.attempt = a
  <2> DEFINE a == Work(c)
  <2>1. a \in AttemptIds /\ Exists(a) /\ ChargeResult(c) \in PspResults
    BY <1>1, <1>4, WorkExists, ChargeResultType
  <2>2. PICK resp \in Response :
          /\ resp.attempt = a
          /\ keys'[Owner[attempts[a].invoice]][attempts[a].key] =
               [status |-> "completed", fp |-> KeyOf(a).fp, attempt |-> a, resp |-> resp]
          /\ \A bb \in Businesses, kk \in PspKeys :
               <<bb, kk>> # <<Owner[attempts[a].invoice], attempts[a].key>> =>
                 keys'[bb][kk] = keys[bb][kk]
    BY <1>1, <1>4, <2>1, FinalizeWrites
  <2> HIDE DEF a
  <2>3. b = Owner[attempts[a].invoice] /\ k = attempts[a].key
    BY <1>4, <2>2
  <2>4. /\ keys'[b][k].attempt = a /\ keys'[b][k].resp.attempt = a
        /\ keys'[b][k].fp = KeyOf(a).fp
    BY <2>2, <2>3
  <2>5. KeyOf(a) # FreeKey /\ KeyOf(a).attempt = a /\ KeyOf(a) = keys[b][k]
    BY <1>1, <2>1, <2>3 DEF DbOK, AttemptsSound, KeyOf
  <2>6. KeyOf(a).fp = <<attempts[a].invoice, attempts[a].token, attempts[a].amount>>
    BY <2>5 DEF KeysLinked
  <2> QED BY <1>1, <2>1, <2>3, <2>4, <2>6 DEF AttemptsKept
<1> QED BY <1>2, <1>3, <1>4, AttemptSteps

\* Handlers that charge: a new one has just inserted its attempt.
LEMMA HandlersOwnKept ==
  ASSUME WellFormed, HandlersOwn, Next
  PROVE  HandlersOwn'
<1>1. DbOK /\ TaskTypes /\ TaskRefs /\ AttemptsKept
  BY NextWellFormed, WellFormedParts
<1> SUFFICES ASSUME NEW h \in Handlers, handlers'[h].pc = "charge"
             PROVE  LET row == attempts'[handlers'[h].attempt]
                        req == handlers'[h].req
                    IN  <<row.invoice, row.key, row.token>> = <<req.invoice, req.key, req.token>>
  BY DEF HandlersOwn
<1>2. CASE handlers'[h] = handlers[h]
  <2>1. handlers[h].attempt \in AttemptIds /\ Exists(handlers[h].attempt)
    BY <1>1, <1>2 DEF TaskTypes, TaskRefs, HandlerState
  <2> QED BY <1>1, <1>2, <2>1 DEF HandlersOwn, AttemptsKept
<1>3. CASE ClaimAttempt(h)
  <2> DEFINE req == handlers[h].req
             row == [invoice |-> req.invoice, key |-> req.key, token |-> req.token,
                     amount |-> Total[req.invoice], status |-> "pending", ref |-> 0,
                     poll |-> "null"]
  <2>1. PICK a \in AttemptIds :
          /\ attempts' = [attempts EXCEPT ![a] = row]
          /\ handlers' = [handlers EXCEPT ![h] = [pc |-> "charge", req |-> req, attempt |-> a]]
    BY <1>3, ClaimFacts
  <2>2. row.invoice = req.invoice /\ row.key = req.key /\ row.token = req.token
    OBVIOUS
  <2> HIDE DEF row, req
  <2>3. attempts'[a] = row /\ handlers'[h].attempt = a /\ handlers'[h].req = req
    BY <1>1, <2>1 DEF DbOK, TaskTypes
  <2> QED BY <2>2, <2>3
<1>4. CASE PayRead(h)
  BY <1>1, <1>4 DEF PayRead, TaskTypes
<1> QED BY <1>2, <1>3, <1>4, HandlerMoves, HandlerTargets

\* An attempt is begun only for an invoice that a request has read as open.
LEMMA InvoicesIssuedKept ==
  ASSUME WellFormed, InvoicesIssued, Next
  PROVE  InvoicesIssued'
<1>1. DbOK /\ TaskTypes /\ AttemptsKept
  BY NextWellFormed, WellFormedParts
<1>2. ASSUME NEW a \in AttemptIds, attempts'[a] # NoAttempt
      PROVE  inv'[attempts'[a].invoice] # "draft"
  <2>1. CASE Exists(a)
    BY <1>1, <2>1, AttemptShape, InvoiceForward DEF InvoicesIssued, AttemptsKept
  <2>2. CASE ~Exists(a)
    <3>1. PICK h \in Handlers :
            /\ ClaimAttempt(h)
            /\ attempts' = [attempts EXCEPT ![a] =
                 [invoice |-> handlers[h].req.invoice, key |-> handlers[h].req.key,
                  token |-> handlers[h].req.token, amount |-> Total[handlers[h].req.invoice],
                  status |-> "pending", ref |-> 0, poll |-> "null"]]
      BY <1>2, <2>2, NewAttempt
    <3>2. attempts'[a].invoice = handlers[h].req.invoice
      BY <1>1, <3>1 DEF DbOK
    <3>3. UNCHANGED inv /\ handlers[h].pc = "claim" /\ handlers[h].state = "open"
      BY <3>1 DEF ClaimAttempt
    <3> QED BY <3>2, <3>3 DEF InvoicesIssued
  <2> QED BY <2>1, <2>2
<1>3. ASSUME NEW h \in Handlers, handlers'[h].pc = "claim", handlers'[h].state = "open"
      PROVE  inv'[handlers'[h].req.invoice] # "draft"
  <2>1. CASE handlers'[h] = handlers[h]
    <3>1. handlers[h].req \in PayRequest
      BY <1>1, <1>3, <2>1 DEF TaskTypes, HandlerState
    <3>2. handlers[h].req.invoice \in Invoices
      BY <3>1 DEF PayRequest
    <3> QED BY <1>3, <2>1, <3>2, InvoiceForward DEF InvoicesIssued
  <2>2. CASE PayRead(h)
    <3>1. PICK req \in PayRequest :
            handlers' = [handlers EXCEPT ![h] =
                           [pc |-> "claim", req |-> req, state |-> inv[req.invoice]]]
      BY <2>2 DEF PayRead
    <3>2. handlers'[h].state = inv[req.invoice] /\ handlers'[h].req = req
      BY <1>1, <3>1 DEF TaskTypes
    <3>3. UNCHANGED inv
      BY <2>2 DEF PayRead, dbVars
    <3> QED BY <1>3, <3>2, <3>3
  <2>3. ASSUME ClaimAttempt(h) PROVE handlers'[h].pc = "charge"
    BY <1>1, <2>3 DEF ClaimAttempt, TaskTypes
  <2> QED BY <1>3, <2>1, <2>2, <2>3, HandlerMoves, HandlerTargets
<1> QED BY <1>2, <1>3 DEF InvoicesIssued, Exists

LEMMA EventsReferKept ==
  ASSUME WellFormed, AttemptsSound, EventsRefer, Next
  PROVE  EventsRefer'
<1>1. PspTypeOK /\ DbOK /\ AttemptsKept
  BY NextWellFormed, WellFormedParts
<1>2. ASSUME NEW n \in DOMAIN events PROVE events[n].attempt \in AttemptIds
  <2>1. events[n] \in EventRow
    BY <1>1 DEF DbOK
  <2> QED BY <2>1 DEF EventRow
<1>3. CASE UNCHANGED events
  BY <1>1, <1>2, <1>3 DEF EventsRefer, AttemptsKept, Exists
<1>4. ASSUME NEW c \in Callers, Work(c) # NoId, Finalize(Work(c), ChargeResult(c)),
             events' # events
      PROVE  EventsRefer'
  <2>1. Work(c) \in AttemptIds /\ Exists(Work(c)) /\ ChargeResult(c) \in PspResults
    BY <1>1, <1>4, WorkExists, ChargeResultType
  <2>2. \E type \in {"invoice.paid", "invoice.payment_failed"} : Emit(type, Work(c))
    BY <1>4 DEF Finalize, FinalizeSucceeded, FinalizeDeclined, FinalizeUnknown
  <2>3. \A n \in DOMAIN events' :
          events'[n].attempt = Work(c) \/ (n \in DOMAIN events /\ events'[n] = events[n])
    BY <1>1, <2>1, <2>2, EmitAdds
  <2> QED BY <1>1, <1>2, <2>1, <2>3 DEF EventsRefer, AttemptsKept, Exists
<1>5. ASSUME NEW h \in Handlers, ClaimAttempt(h) PROVE UNCHANGED events
  BY <1>5 DEF ClaimAttempt
<1> QED BY <1>3, <1>4, <1>5, AttemptSteps

\* How an attempt comes to have succeeded.
LEMMA SucceedSteps ==
  ASSUME WellFormed, Next, NEW a \in AttemptIds, attempts'[a].status = "succeeded"
  PROVE  /\ Exists(a)
         /\ \/ attempts[a].status = "succeeded"
            \/ \E c \in Callers :
                 /\ Work(c) = a /\ a # NoId
                 /\ Finalize(a, ChargeResult(c))
                 /\ ChargeResult(c).kind = "Succeeded"
<1>1. PspTypeOK /\ DbOK
  BY WellFormedParts
<1>2. attempts'[a] # NoAttempt
  BY DEF NoAttempt
<1>3. Exists(a)
  <2> SUFFICES ASSUME ~Exists(a) PROVE FALSE
    OBVIOUS
  <2>1. \E row : row.status = "pending" /\ attempts' = [attempts EXCEPT ![a] = row]
    BY <1>2, NewAttempt
  <2> QED BY <1>1, <2>1 DEF DbOK
<1>4. ASSUME NEW h \in Handlers, ClaimAttempt(h) PROVE attempts'[a] = attempts[a]
  BY <1>1, <1>3, <1>4 DEF ClaimAttempt, DbOK
<1>5. ASSUME NEW c \in Callers, Work(c) # NoId, Finalize(Work(c), ChargeResult(c)),
             attempts[a].status # "succeeded"
      PROVE  Work(c) = a /\ ChargeResult(c).kind = "Succeeded"
  <2>1. ChargeResult(c) \in PspResults
    BY <1>1, ChargeResultType
  <2>2. ChargeResult(c).kind \in {"Succeeded", "Declined", "Unknown"}
    BY <2>1 DEF PspResults, Unknown
  <2> QED BY <1>1, <1>5, <2>1, <2>2, WorkExists, FinalizeEffect
<1> QED BY <1>3, <1>4, <1>5, AttemptSteps DEF Settled

\* Transaction 2 of a success pays the invoice, unless it is settled already.
LEMMA SucceededSettlesKept ==
  ASSUME WellFormed, InvoicesIssued, SucceededSettles, Next
  PROVE  SucceededSettles'
<1>1. PspTypeOK /\ DbOK /\ AttemptsKept
  BY NextWellFormed, WellFormedParts
<1> SUFFICES ASSUME NEW a \in AttemptIds, attempts'[a].status = "succeeded"
             PROVE  IsTerminal(inv'[attempts'[a].invoice])
  BY DEF SucceededSettles, IsTerminal
<1> DEFINE i == attempts[a].invoice
<1>2. Exists(a) /\ i \in Invoices /\ attempts'[a].invoice = i
  BY <1>1, SucceedSteps, AttemptShape DEF AttemptsKept
<1>3. CASE attempts[a].status = "succeeded"
  BY <1>2, <1>3, InvoiceForward DEF SucceededSettles, IsTerminal
<1>4. ASSUME NEW c \in Callers, Work(c) = a, Finalize(a, ChargeResult(c)),
             ChargeResult(c).kind = "Succeeded"
      PROVE  IsTerminal(inv'[i])
  <2>1. FinalizeSucceeded(a, ChargeResult(c).ref)
    BY <1>4 DEF Finalize
  <2>2. inv' = [inv EXCEPT ![i] = IF inv[i] = "open" THEN "paid" ELSE inv[i]]
    BY <2>1 DEF FinalizeSucceeded
  <2>3. inv[i] \in InvoiceState \ {"draft"}
    BY <1>1, <1>2 DEF InvoicesIssued, DbOK
  <2> QED BY <1>1, <1>2, <2>2, <2>3 DEF DbOK, InvoiceState, IsTerminal
<1> QED BY <1>2, <1>3, <1>4, SucceedSteps

\* The poll reads the attempt before the invoice: what it read is still so.
LEMMA PollsSoundKept ==
  ASSUME WellFormed, SucceededSettles, PollsSound, Next
  PROVE  PollsSound'
<1>1. DbOK /\ TaskTypes /\ TaskRefs /\ AttemptsKept
  BY NextWellFormed, WellFormedParts
<1> SUFFICES ASSUME NEW p \in Pollers, polls'[p].pc # "idle", polls'[p].status = "succeeded"
             PROVE  /\ attempts'[polls'[p].attempt].status = "succeeded"
                    /\ polls'[p].pc = "answered" => IsTerminal(polls'[p].state)
  BY DEF PollsSound, IsTerminal
<1>2. ASSUME polls[p].pc # "idle"
      PROVE  polls[p].attempt \in AttemptIds /\ Exists(polls[p].attempt)
  BY <1>1, <1>2 DEF TaskTypes, TaskRefs, PollState
<1>3. CASE polls'[p] = polls[p]
  BY <1>2, <1>3, TerminalKept DEF PollsSound
<1>4. CASE PollAttempt(p)
  <2>1. PICK a \in AttemptIds :
          polls' = [polls EXCEPT ![p] =
                      [pc |-> "attempt_read", attempt |-> a, status |-> attempts[a].status]]
    BY <1>4 DEF PollAttempt
  <2>2. UNCHANGED attempts
    BY <1>4 DEF PollAttempt, dbVars
  <2>3. /\ polls'[p].attempt = a /\ polls'[p].status = attempts[a].status
        /\ polls'[p].pc = "attempt_read"
    BY <1>1, <2>1 DEF TaskTypes
  <2> QED BY <2>2, <2>3
<1>5. CASE PollInvoice(p)
  <2>1. /\ polls[p].pc = "attempt_read"
        /\ UNCHANGED attempts
        /\ polls' = [polls EXCEPT ![p] =
             [pc |-> "answered", attempt |-> polls[p].attempt, status |-> polls[p].status,
              state |-> inv[attempts[polls[p].attempt].invoice]]]
    BY <1>5 DEF PollInvoice, dbVars
  <2>2. /\ polls'[p].attempt = polls[p].attempt /\ polls'[p].status = polls[p].status
        /\ polls'[p].state = inv[attempts[polls[p].attempt].invoice]
    BY <1>1, <2>1 DEF TaskTypes
  <2>3. attempts[polls[p].attempt].status = "succeeded"
    BY <2>1, <2>2 DEF PollsSound
  <2> QED BY <1>2, <2>1, <2>2, <2>3 DEF SucceededSettles
<1> QED BY <1>3, <1>4, <1>5, PollMoves

LEMMA LinkStutter ==
  ASSUME LinkInv, UNCHANGED vars
  PROVE  LinkInv'
<1> USE DEF Exists, vars, pspVars, dbVars, taskVars
<1>1. TypeOK' /\ References'
  BY StutterKeeps DEF LinkInv, WellFormed
<1>2. AttemptsSound' /\ InvoicesIssued' /\ HandlersOwn'
  BY DEF LinkInv, AttemptsSound, InvoicesIssued, HandlersOwn, KeyOf
<1>3. KeysLinked'
  BY DEF LinkInv, KeysLinked
<1>4. EventsRefer' /\ SucceededSettles' /\ PollsSound'
  BY DEF LinkInv, EventsRefer, SucceededSettles, PollsSound, IsTerminal
<1> QED BY <1>1, <1>2, <1>3, <1>4 DEF LinkInv

LEMMA LinkNext ==
  ASSUME LinkInv, Next
  PROVE  LinkInv'
<1>1. WellFormed
  BY DEF LinkInv, WellFormed
<1>2. TypeOK' /\ References'
  BY <1>1, NextWellFormed DEF WellFormed
<1>3. AttemptsSound' /\ InvoicesIssued' /\ KeysLinked'
  BY <1>1, AttemptsSoundKept, InvoicesIssuedKept, KeysLinkedKept DEF LinkInv
<1>4. HandlersOwn' /\ EventsRefer'
  BY <1>1, HandlersOwnKept, EventsReferKept DEF LinkInv
<1>5. SucceededSettles' /\ PollsSound'
  BY <1>1, SucceededSettlesKept, PollsSoundKept DEF LinkInv
<1> QED BY <1>2, <1>3, <1>4, <1>5 DEF LinkInv

LEMMA InitLinks == Init => LinkInv
<1> SUFFICES ASSUME Init PROVE LinkInv
  OBVIOUS
<1>1. TypeOK /\ References
  BY InitWellFormed DEF WellFormed
<1>2. AttemptsSound /\ InvoicesIssued /\ HandlersOwn
  BY DEF Init, AttemptsSound, InvoicesIssued, HandlersOwn, Exists, Idle
<1>3. KeysLinked /\ EventsRefer /\ SucceededSettles /\ PollsSound
  BY DEF Init, KeysLinked, EventsRefer, SucceededSettles, PollsSound, Exists
<1> QED BY <1>1, <1>2, <1>3 DEF LinkInv

\* Whatever keys the clients choose, an attempt, its key, its invoice, its events and
\* the requests and polls that work on it stay linked as the service linked them.
THEOREM LinksKeep == Spec => []LinkInv
<1>1. Init => LinkInv
  BY InitLinks
<1>2. LinkInv /\ [Next]_vars => LinkInv'
  BY LinkNext, LinkStutter
<1> QED BY <1>1, <1>2, PTL DEF Spec

\* The poll endpoint reads attempt and invoice in two queries, and still never shows
\* a succeeded attempt of an invoice that can be paid again.
THEOREM PollsAreWhole == Spec => []PollNotTorn
<1>1. LinkInv => PollNotTorn
  <2> SUFFICES ASSUME LinkInv, NEW p \in Pollers, polls[p].pc = "answered",
                      polls[p].status = "succeeded"
               PROVE  IsTerminal(polls[p].state)
    BY DEF PollNotTorn
  <2> QED BY DEF LinkInv, PollsSound
<1> QED BY <1>1, LinksKeep, PTL

\* What a replay finds under a key was made for a request like the one it answers.
LEMMA ReplayOwn ==
  ASSUME LinkInv, NEW req \in PayRequest,
         keys[Owner[req.invoice]][req.key] # FreeKey,
         keys[Owner[req.invoice]][req.key].fp = Fingerprint(req)
  PROVE  LET a == keys[Owner[req.invoice]][req.key].attempt
         IN  /\ a \in AttemptIds /\ Exists(a)
             /\ attempts[a].invoice = req.invoice
             /\ attempts[a].key = req.key
             /\ attempts[a].token = req.token
<1> DEFINE b == Owner[req.invoice]
           k == req.key
<1>1. b \in Businesses /\ k \in PspKeys
  BY FlowAssumption DEF PayRequest
<1>2. keys[b][k] \in KeyRow
  BY <1>1 DEF LinkInv, TypeOK
<1>3. keys[b][k].attempt \in AttemptIds
  BY <1>2 DEF KeyRow
<1>4. <<req.invoice, req.token, Total[req.invoice]>> = keys[b][k].fp
  BY DEF Fingerprint
<1>5. PICK a : a = keys[b][k].attempt
  OBVIOUS
<1>6. keys[b][k] # FreeKey
  OBVIOUS
<1> HIDE DEF b, k
<1>7. /\ Exists(a) /\ attempts[a].key = k
      /\ keys[b][k].fp = <<attempts[a].invoice, attempts[a].token, attempts[a].amount>>
  BY <1>1, <1>5, <1>6 DEF LinkInv, KeysLinked
<1>8. attempts[a].invoice = req.invoice /\ attempts[a].token = req.token
  BY <1>4, <1>7
<1> QED BY <1>3, <1>5, <1>7, <1>8 DEF b, k

\* A request is answered with an attempt made for that very request, replays and
\* concurrent duplicates included, whatever keys other businesses use.
THEOREM OwnAnswers == Spec => AnswersOwnRequest
<1>1. ASSUME LinkInv, Next, NEW h \in Handlers, handlers[h].pc \in {"replay", "charge"},
             handlers'[h].pc = "idle", handlers'[h].resp.attempt # NoId
      PROVE  LET row == attempts[handlers'[h].resp.attempt]
                 req == handlers[h].req
             IN  /\ row # NoAttempt
                 /\ <<row.invoice, row.key, row.token>> = <<req.invoice, req.key, req.token>>
  <2> DEFINE req == handlers[h].req
             krow == keys[Owner[req.invoice]][req.key]
             got == handlers'[h].resp.attempt
  <2>1. WellFormed /\ TaskTypes /\ TaskRefs /\ HandlerStep(h)
    BY <1>1, HandlerMoves, WellFormedParts DEF LinkInv, WellFormed
  <2>2. req \in PayRequest
    BY <1>1, <2>1 DEF TaskTypes, HandlerState
  <2>3. ASSUME NEW resp, Answer(h, resp) PROVE handlers'[h].resp = resp
    BY <2>1, <2>3 DEF Answer, Idle, TaskTypes
  <2>4. ASSUME NEW code, Answer(h, ErrorResp(code)) PROVE FALSE
    BY <1>1, <2>3, <2>4 DEF ErrorResp, Resp
  <2>5. ASSUME krow # FreeKey, krow.fp = Fingerprint(req), got = krow.attempt
        PROVE  /\ attempts[got] # NoAttempt
               /\ <<attempts[got].invoice, attempts[got].key, attempts[got].token>>
                    = <<req.invoice, req.key, req.token>>
    BY <1>1, <2>2, <2>5, ReplayOwn DEF Exists
  <2>6. CASE ReplayCompleted(h)
    <3>1. krow.fp = Fingerprint(req) /\ krow.status = "completed" /\ got = krow.resp.attempt
      BY <2>3, <2>6 DEF ReplayCompleted
    <3>2. krow # FreeKey
      BY <3>1 DEF FreeKey
    <3>3. Owner[req.invoice] \in Businesses /\ req.key \in PspKeys
      BY <2>2, FlowAssumption DEF PayRequest
    <3>4. krow.resp.attempt = krow.attempt
      BY <1>1, <3>1, <3>2, <3>3 DEF LinkInv, KeysLinked
    <3> QED BY <2>5, <3>1, <3>2, <3>4
  <2>7. CASE ReplayPending(h)
    <3>1. krow.fp = Fingerprint(req) /\ krow.status = "in_progress" /\ got = krow.attempt
      <4>1. /\ krow.fp = Fingerprint(req) /\ krow.status = "in_progress"
            /\ Answer(h, Resp("pending", krow.attempt, 0))
        BY <2>7 DEF ReplayPending
      <4>2. handlers'[h].resp = Resp("pending", krow.attempt, 0)
        BY <2>3, <4>1
      <4> HIDE DEF krow, req
      <4> QED BY <4>1, <4>2 DEF Resp
    <3>2. krow # FreeKey
      BY <3>1 DEF FreeKey
    <3> QED BY <2>5, <3>1, <3>2
  <2>8. CASE PayFinalize(h)
    <3>1. handlers[h].pc = "charge" /\ got = handlers[h].attempt
      BY <2>3, <2>8 DEF PayFinalize, FinalizeResponse, Resp
    <3> QED BY <1>1, <2>1, <3>1 DEF LinkInv, HandlersOwn, TaskRefs, Exists
  <2>9. CASE ReplayMismatch(h) \/ AbandonPay(h)
    BY <2>4, <2>9 DEF ReplayMismatch, AbandonPay
  <2> QED BY <1>1, <2>1, <2>6, <2>7, <2>8, <2>9 DEF HandlerStep, PayRejected, PayRead,
     ClaimReplay, ClaimNotPayable, ClaimRace, ClaimAttempt
<1>2. LinkInv /\ [Next]_vars =>
        [\A h \in Handlers :
           /\ handlers[h].pc \in {"replay", "charge"}
           /\ handlers'[h].pc = "idle"
           /\ handlers'[h].resp.attempt # NoId
           => LET row == attempts[handlers'[h].resp.attempt]
                  req == handlers[h].req
              IN  /\ row # NoAttempt
                  /\ <<row.invoice, row.key, row.token>>
                       = <<req.invoice, req.key, req.token>>]_vars
  BY <1>1
<1> QED BY <1>2, LinksKeep, PTL DEF Spec, AnswersOwnRequest

-----------------------------------------------------------------------------
(* What is told, when no two businesses share a key                        *)

\* An attempt that is decided twice is decided alike: a late handler, a second
\* reconciler or a repeated charge cannot contradict what was recorded first.
LEMMA DecidedAlike ==
  ASSUME DisjointKeys, IndInv, NEW c \in Callers, Work(c) # NoId,
         Finalize(Work(c), ChargeResult(c))
  PROVE  /\ ChargeResult(c).kind \in {"Succeeded", "Declined", "Unknown"}
         /\ ChargeResult(c).kind = "Succeeded" => attempts'[Work(c)].status = "succeeded"
         /\ ChargeResult(c).kind = "Declined" => attempts'[Work(c)].status = "failed"
         /\ ChargeResult(c).kind = "Unknown" =>
              attempts'[Work(c)].status = attempts[Work(c)].status
<1> DEFINE a == Work(c)
           result == ChargeResult(c)
<1>1. WellFormed /\ DbOK /\ PspTypeOK /\ a \in AttemptIds /\ Exists(a)
  BY WellFormedParts, WorkExists DEF IndInv, WellFormed
<1>2. result \in PspResults /\ result.kind \in {"Succeeded", "Declined", "Unknown"}
  BY <1>1, ChargeResultType DEF PspResults, Unknown
<1>3. /\ result.kind = "Succeeded" =>
           result.ref \in DOMAIN charges /\ charges[result.ref] = ChargeOf(a)
      /\ result.kind = "Declined" => ~Moves(attempts[a].token)
  BY <1>1, ResultSound DEF IndInv
<1>4. attempts[a].status \in AttemptStatus
  BY <1>1, AttemptShape DEF AttemptRow
<1>5. result.kind = "Succeeded" => Moves(attempts[a].token)
  BY <1>3 DEF IndInv, ChargesSound, ChargeOf
<1>6. /\ attempts[a].status = "failed" => ~Moves(attempts[a].token)
      /\ attempts[a].status = "succeeded" => Moves(attempts[a].token)
  <2> HIDE DEF a
  <2>1. /\ attempts[a].status = "failed" => ~Moves(attempts[a].token)
        /\ attempts[a].status = "succeeded" =>
             attempts[a].ref \in DOMAIN charges /\ charges[attempts[a].ref] = ChargeOf(a)
    BY <1>1 DEF IndInv, BooksSound
  <2>2. \A n \in DOMAIN charges : Moves(charges[n].token)
    BY DEF IndInv, ChargesSound
  <2>3. ChargeOf(a).token = attempts[a].token
    BY DEF ChargeOf
  <2> QED BY <2>1, <2>2, <2>3
<1>7. /\ attempts[a].status # "pending" => attempts'[a] = attempts[a]
      /\ attempts[a].status = "pending" =>
           /\ result.kind = "Succeeded" => attempts'[a].status = "succeeded"
           /\ result.kind = "Declined" => attempts'[a].status = "failed"
           /\ result.kind = "Unknown" => attempts'[a].status = "pending"
  BY <1>1, <1>2, FinalizeEffect
<1> HIDE DEF a, result
<1>8. /\ result.kind = "Succeeded" => attempts'[a].status = "succeeded"
      /\ result.kind = "Declined" => attempts'[a].status = "failed"
      /\ result.kind = "Unknown" => attempts'[a].status = attempts[a].status
  BY <1>3, <1>4, <1>5, <1>6, <1>7 DEF AttemptStatus
<1> QED BY <1>2, <1>8 DEF a, result

\* A definite outcome as transaction 2 records it: attempt, cached response, key and
\* event say the same, and no other key changes.
Recorded(a, resp, type) ==
  /\ resp.attempt = a /\ resp.code = attempts'[a].status
  /\ \/ attempts'[a].status = "succeeded" /\ type = "invoice.paid"
     \/ attempts'[a].status = "failed" /\ type = "invoice.payment_failed"
  /\ Emit(type, a)
  /\ keys'[Owner[attempts[a].invoice]][attempts[a].key] =
       [status |-> "completed", fp |-> KeyOf(a).fp, attempt |-> a, resp |-> resp]
  /\ \A b \in Businesses, k \in PspKeys :
       <<b, k>> # <<Owner[attempts[a].invoice], attempts[a].key>> => keys'[b][k] = keys[b][k]

\* What a finalize leaves behind: unless the outcome was unknown, key, outbox and
\* attempt all say the same; no other attempt, key or event changes.
LEMMA FinalizeAgrees ==
  ASSUME DisjointKeys, IndInv, NEW c \in Callers, NEW a, a = Work(c), a # NoId,
         Finalize(a, ChargeResult(c))
  PROVE  /\ a \in AttemptIds /\ Exists(a)
         /\ \A d \in AttemptIds : d # a => attempts'[d] = attempts[d]
         /\ \/ UNCHANGED <<keys, events>> /\ attempts'[a].status = attempts[a].status
            \/ \E resp \in Response, type \in {"invoice.paid", "invoice.payment_failed"} :
                 Recorded(a, resp, type)
<1>1. WellFormed /\ DbOK /\ PspTypeOK /\ a \in AttemptIds /\ Exists(a) /\ AttemptsSound
  BY WellFormedParts, WorkExists DEF IndInv, WellFormed
<1>2. ChargeResult(c) \in PspResults
  BY <1>1, ChargeResultType
<1>3. \A d \in AttemptIds : d # a => attempts'[d] = attempts[d]
  BY <1>1, <1>2, FinalizeEffect
<1>4. /\ ChargeResult(c).kind = "Succeeded" => attempts'[a].status = "succeeded"
      /\ ChargeResult(c).kind = "Declined" => attempts'[a].status = "failed"
      /\ ChargeResult(c).kind = "Unknown" => attempts'[a].status = attempts[a].status
  BY DecidedAlike
<1>5. CASE ChargeResult(c).kind = "Unknown" /\ UNCHANGED <<inv, keys, events>>
  BY <1>1, <1>3, <1>4, <1>5
<1>6. ASSUME NEW resp \in Response, NEW type \in {"invoice.paid", "invoice.payment_failed"},
             resp.attempt = a,
             \/ /\ ChargeResult(c).kind = "Succeeded" /\ resp.code = "succeeded"
                /\ type = "invoice.paid"
             \/ /\ ChargeResult(c).kind = "Declined" /\ resp.code = "failed"
                /\ type = "invoice.payment_failed"
      PROVE  /\ resp.code = attempts'[a].status
             /\ \/ attempts'[a].status = "succeeded" /\ type = "invoice.paid"
                \/ attempts'[a].status = "failed" /\ type = "invoice.payment_failed"
  BY <1>4, <1>6
<1>7. CASE ~(ChargeResult(c).kind = "Unknown" /\ UNCHANGED <<inv, keys, events>>)
  <2>1. PICK resp \in Response, type \in {"invoice.paid", "invoice.payment_failed"} :
          /\ resp.attempt = a
          /\ \/ /\ ChargeResult(c).kind = "Succeeded" /\ resp.code = "succeeded"
                /\ type = "invoice.paid"
             \/ /\ ChargeResult(c).kind = "Declined" /\ resp.code = "failed"
                /\ type = "invoice.payment_failed"
          /\ Emit(type, a)
          /\ keys'[Owner[attempts[a].invoice]][attempts[a].key] =
               [status |-> "completed", fp |-> KeyOf(a).fp, attempt |-> a, resp |-> resp]
          /\ \A b \in Businesses, k \in PspKeys :
               <<b, k>> # <<Owner[attempts[a].invoice], attempts[a].key>> =>
                 keys'[b][k] = keys[b][k]
    BY <1>1, <1>2, <1>7, FinalizeWrites
  <2>2. /\ resp.code = attempts'[a].status
        /\ \/ attempts'[a].status = "succeeded" /\ type = "invoice.paid"
           \/ attempts'[a].status = "failed" /\ type = "invoice.payment_failed"
    BY <1>6, <2>1
  <2>3. Recorded(a, resp, type)
    BY <2>1, <2>2 DEF Recorded
  <2> QED BY <1>1, <1>3, <2>3
<1> QED BY <1>5, <1>7

LEMMA KeysTellKept ==
  ASSUME DisjointKeys, IndInv, LinkInv, KeysTell, Next
  PROVE  KeysTell'
<1>1. WellFormed /\ PspTypeOK /\ DbOK /\ AttemptsKept
  BY NextWellFormed, WellFormedParts DEF IndInv, WellFormed
<1> SUFFICES ASSUME NEW b \in Businesses, NEW k \in PspKeys, keys'[b][k] # FreeKey
             PROVE  LET row == keys'[b][k]
                    IN  /\ row.status = "in_progress" <=> attempts'[row.attempt].status = "pending"
                        /\ row.status = "completed" =>
                             row.resp.code = attempts'[row.attempt].status
  BY DEF KeysTell
<1>2. ASSUME keys[b][k] # FreeKey
      PROVE  /\ keys[b][k].attempt \in AttemptIds /\ Exists(keys[b][k].attempt)
             /\ attempts[keys[b][k].attempt].key = k
             /\ Owner[attempts[keys[b][k].attempt].invoice] = b
  <2>1. keys[b][k] \in KeyRow
    BY <1>1, <1>2 DEF DbOK
  <2>2. keys[b][k].attempt \in AttemptIds
    BY <2>1 DEF KeyRow
  <2> QED BY <1>2, <2>2 DEF LinkInv, KeysLinked
<1>3. ASSUME keys'[b][k] = keys[b][k],
             attempts'[keys[b][k].attempt].status = attempts[keys[b][k].attempt].status
      PROVE  LET row == keys'[b][k]
             IN  /\ row.status = "in_progress" <=> attempts'[row.attempt].status = "pending"
                 /\ row.status = "completed" => row.resp.code = attempts'[row.attempt].status
  BY <1>3 DEF KeysTell
<1>4. CASE Settled /\ UNCHANGED <<keys, events>>
  BY <1>2, <1>3, <1>4 DEF Settled
<1>5. ASSUME NEW h \in Handlers, ClaimAttempt(h)
      PROVE  LET row == keys'[b][k]
             IN  /\ row.status = "in_progress" <=> attempts'[row.attempt].status = "pending"
                 /\ row.status = "completed" => row.resp.code = attempts'[row.attempt].status
  <2> DEFINE req == handlers[h].req
             arow == [invoice |-> req.invoice, key |-> req.key, token |-> req.token,
                      amount |-> Total[req.invoice], status |-> "pending", ref |-> 0,
                      poll |-> "null"]
  <2>1. PICK a \in AttemptIds :
          /\ ~Exists(a)
          /\ attempts' = [attempts EXCEPT ![a] = arow]
          /\ keys' = [keys EXCEPT ![Owner[req.invoice]][req.key] = ClaimedKey(req, a)]
    BY <1>1, <1>5, ClaimFacts
  <2>2. req.key \in PspKeys /\ Owner[req.invoice] \in Businesses /\ arow.status = "pending"
    BY <1>1, <1>5, ClaimRequest
  <2> HIDE DEF arow, req
  <2>3. attempts'[a].status = "pending" /\ \A d \in AttemptIds : d # a => attempts'[d] = attempts[d]
    BY <1>1, <2>1, <2>2 DEF DbOK
  <2>4. CASE b = Owner[req.invoice] /\ k = req.key
    <3>1. keys'[b][k] = ClaimedKey(req, a)
      BY <1>1, <2>1, <2>2, <2>4 DEF DbOK
    <3>2. keys'[b][k].status = "in_progress" /\ keys'[b][k].attempt = a
      BY <3>1 DEF ClaimedKey
    <3> QED BY <2>3, <3>2
  <2>5. CASE ~(b = Owner[req.invoice] /\ k = req.key)
    <3>1. keys'[b][k] = keys[b][k]
      BY <1>1, <2>1, <2>2, <2>5 DEF DbOK
    <3> QED BY <1>2, <1>3, <2>1, <2>3, <3>1
  <2> QED BY <2>4, <2>5
<1>6. ASSUME NEW c \in Callers, Work(c) # NoId, Finalize(Work(c), ChargeResult(c))
      PROVE  LET row == keys'[b][k]
             IN  /\ row.status = "in_progress" <=> attempts'[row.attempt].status = "pending"
                 /\ row.status = "completed" => row.resp.code = attempts'[row.attempt].status
  <2>1. PICK a : a = Work(c)
    OBVIOUS
  <2>2. a \in AttemptIds /\ Exists(a) /\ \A d \in AttemptIds : d # a => attempts'[d] = attempts[d]
    BY <1>6, <2>1, FinalizeAgrees
  <2>3. CASE UNCHANGED keys /\ attempts'[a].status = attempts[a].status
    BY <1>2, <1>3, <2>2, <2>3
  <2>4. ASSUME NEW resp \in Response,
               resp.attempt = a, resp.code = attempts'[a].status,
               attempts'[a].status \in {"succeeded", "failed"},
               keys'[Owner[attempts[a].invoice]][attempts[a].key] =
                 [status |-> "completed", fp |-> KeyOf(a).fp, attempt |-> a, resp |-> resp],
               \A bb \in Businesses, kk \in PspKeys :
                 <<bb, kk>> # <<Owner[attempts[a].invoice], attempts[a].key>> =>
                   keys'[bb][kk] = keys[bb][kk]
        PROVE  LET row == keys'[b][k]
               IN  /\ row.status = "in_progress" <=> attempts'[row.attempt].status = "pending"
                   /\ row.status = "completed" => row.resp.code = attempts'[row.attempt].status
    <3>1. CASE b = Owner[attempts[a].invoice] /\ k = attempts[a].key
      <4>1. /\ keys'[b][k].status = "completed" /\ keys'[b][k].attempt = a
            /\ keys'[b][k].resp = resp
        BY <2>4, <3>1
      <4> QED BY <2>4, <4>1
    <3>2. CASE ~(b = Owner[attempts[a].invoice] /\ k = attempts[a].key)
      <4>1. keys'[b][k] = keys[b][k]
        BY <2>4, <3>2
      <4>2. keys[b][k].attempt # a
        BY <1>2, <3>2, <4>1
      <4> QED BY <1>2, <1>3, <2>2, <4>1, <4>2
    <3> QED BY <3>1, <3>2
  <2>5. \/ UNCHANGED <<keys, events>> /\ attempts'[a].status = attempts[a].status
       \/ \E resp \in Response, type \in {"invoice.paid", "invoice.payment_failed"} :
            Recorded(a, resp, type)
    BY <1>6, <2>1, FinalizeAgrees
  <2>6. CASE ~(UNCHANGED <<keys, events>> /\ attempts'[a].status = attempts[a].status)
    <3>1. PICK resp \in Response, type \in {"invoice.paid", "invoice.payment_failed"} :
            Recorded(a, resp, type)
      BY <2>5, <2>6
    <3> QED BY <2>4, <3>1 DEF Recorded
  <2> QED BY <2>3, <2>6
<1> QED BY <1>1, <1>4, <1>5, <1>6, AttemptSteps

LEMMA OutboxKept ==
  ASSUME DisjointKeys, IndInv, LinkInv, OutboxComplete, Next
  PROVE  OutboxComplete'
<1>1. WellFormed /\ PspTypeOK /\ DbOK /\ AttemptsKept
  BY NextWellFormed, WellFormedParts DEF IndInv, WellFormed
<1> DEFINE Called(status) == CASE status = "pending"   -> {}
                               [] status = "succeeded" -> {"invoice.paid"}
                               [] status = "failed"    -> {"invoice.payment_failed"}
<1> SUFFICES ASSUME NEW d \in AttemptIds, attempts'[d] # NoAttempt
             PROVE  EventsOf(d)' = Called(attempts'[d].status)
  BY DEF OutboxComplete, Exists
<1>2. Exists(d) => EventsOf(d) = Called(attempts[d].status)
  BY DEF OutboxComplete
<1>3. Exists(d) => attempts[d].status \in AttemptStatus
  BY <1>1, AttemptShape DEF AttemptRow
<1>4. UNCHANGED events => EventsOf(d)' = EventsOf(d)
  BY DEF EventsOf
<1>5. CASE Settled /\ UNCHANGED <<keys, events>>
  BY <1>2, <1>4, <1>5 DEF Settled
<1>6. ASSUME NEW h \in Handlers, ClaimAttempt(h)
      PROVE  EventsOf(d)' = Called(attempts'[d].status)
  <2>1. UNCHANGED events
    BY <1>6 DEF ClaimAttempt
  <2>2. CASE Exists(d)
    <3>1. attempts'[d] = attempts[d]
      BY <1>1, <1>6, <2>2 DEF ClaimAttempt, DbOK
    <3> QED BY <1>2, <1>4, <2>1, <2>2, <3>1
  <2>3. CASE ~Exists(d)
    <3>1. \E row : row.status = "pending" /\ attempts' = [attempts EXCEPT ![d] = row]
      BY <1>1, <2>3, NewAttempt
    <3>2. attempts'[d].status = "pending"
      BY <1>1, <3>1 DEF DbOK
    <3>3. EventsOf(d) = {}
      BY <2>3 DEF LinkInv, EventsRefer, EventsOf
    <3> QED BY <1>4, <2>1, <3>2, <3>3
  <2> QED BY <2>2, <2>3
<1>7. ASSUME NEW c \in Callers, Work(c) # NoId, Finalize(Work(c), ChargeResult(c))
      PROVE  EventsOf(d)' = Called(attempts'[d].status)
  <2>1. PICK a : a = Work(c)
    OBVIOUS
  <2>2. a \in AttemptIds /\ Exists(a) /\ \A e \in AttemptIds : e # a => attempts'[e] = attempts[e]
    BY <1>7, <2>1, FinalizeAgrees
  <2>3. Exists(d)
    BY <2>2 DEF Exists
  <2>4. CASE UNCHANGED events /\ attempts'[a].status = attempts[a].status
    BY <1>2, <1>4, <2>2, <2>3, <2>4
  <2>5. ASSUME NEW type \in {"invoice.paid", "invoice.payment_failed"}, Emit(type, a),
               \/ attempts'[a].status = "succeeded" /\ type = "invoice.paid"
               \/ attempts'[a].status = "failed" /\ type = "invoice.payment_failed"
        PROVE  EventsOf(d)' = Called(attempts'[d].status)
    <3>1. /\ EventsOf(a)' = EventsOf(a) \cup {type}
          /\ \A e \in AttemptIds : e # a => EventsOf(e)' = EventsOf(e)
      BY <1>1, <2>2, <2>5, EmitAdds
    <3>2. CASE d # a
      BY <1>2, <2>2, <2>3, <3>1, <3>2
    <3>3. CASE d = a
      <4>1. attempts[a].status # "pending" => attempts'[a].status = attempts[a].status
        BY <1>1, <2>2, TerminalKept
      <4>2. EventsOf(a) \subseteq {type}
        BY <1>2, <1>3, <2>3, <2>5, <3>3, <4>1 DEF AttemptStatus
      <4> QED BY <2>5, <3>1, <3>3, <4>2
    <3> QED BY <3>2, <3>3
  <2>6. \/ UNCHANGED <<keys, events>> /\ attempts'[a].status = attempts[a].status
       \/ \E resp \in Response, type \in {"invoice.paid", "invoice.payment_failed"} :
            Recorded(a, resp, type)
    BY <1>7, <2>1, FinalizeAgrees
  <2>7. CASE ~(UNCHANGED <<keys, events>> /\ attempts'[a].status = attempts[a].status)
    <3>1. PICK resp \in Response, type \in {"invoice.paid", "invoice.payment_failed"} :
            Recorded(a, resp, type)
      BY <2>6, <2>7
    <3> QED BY <2>5, <3>1 DEF Recorded
  <2> QED BY <2>4, <2>7
<1> QED BY <1>1, <1>5, <1>6, <1>7, AttemptSteps

\* A paid invoice was paid by an attempt that has succeeded, and stays so.
LEMMA PaidKept ==
  ASSUME DisjointKeys, IndInv, PaidForCause, Next
  PROVE  PaidForCause'
<1>1. WellFormed /\ AttemptsKept
  BY NextWellFormed DEF IndInv, WellFormed
<1> SUFFICES ASSUME NEW i \in Invoices, inv'[i] = "paid"
             PROVE  \E a \in AttemptIds : /\ attempts'[a] # NoAttempt
                                          /\ attempts'[a].invoice = i
                                          /\ attempts'[a].status = "succeeded"
  BY DEF PaidForCause, Exists
<1>2. CASE inv[i] = "paid"
  <2>1. PICK a \in AttemptIds :
          Exists(a) /\ attempts[a].invoice = i /\ attempts[a].status = "succeeded"
    BY <1>2 DEF PaidForCause
  <2>2. attempts'[a].status = "succeeded"
    BY <1>1, <2>1, TerminalKept
  <2> QED BY <1>1, <2>1, <2>2 DEF AttemptsKept
<1>3. CASE inv[i] # "paid"
  <2>1. PICK c \in Callers : /\ Work(c) # NoId
                             /\ Finalize(Work(c), ChargeResult(c))
                             /\ ChargeResult(c).kind = "Succeeded"
                             /\ attempts[Work(c)].invoice = i
    BY <1>1, <1>3, InvoiceSteps
  <2>2. attempts'[Work(c)].status = "succeeded"
    BY <2>1, DecidedAlike
  <2>3. Work(c) \in AttemptIds /\ Exists(Work(c))
    BY <1>1, <2>1, WorkExists
  <2> QED BY <1>1, <2>1, <2>2, <2>3 DEF AttemptsKept
<1> QED BY <1>2, <1>3

\* A new answer is given by the transaction that decides, or is the cached one of a key that
\* mirrors its attempt; an old one is about an attempt that is decided for good.
LEMMA TruthfulKept ==
  ASSUME DisjointKeys, IndInv, LinkInv, KeysTell, TruthfulAnswers, Next
  PROVE  TruthfulAnswers'
<1>1. WellFormed /\ DbOK /\ TaskTypes /\ TaskRefs /\ PspTypeOK /\ AttemptsKept
  BY NextWellFormed, WellFormedParts DEF IndInv, WellFormed
<1> SUFFICES ASSUME NEW h \in Handlers, handlers'[h].pc = "idle",
                    handlers'[h].resp.code \in AttemptStatus
             PROVE  LET resp == handlers'[h].resp
                    IN  /\ resp.attempt \in AttemptIds /\ attempts'[resp.attempt] # NoAttempt
                        /\ resp.code # "pending" => attempts'[resp.attempt].status = resp.code
  BY DEF TruthfulAnswers, Exists
<1>2. ASSUME NEW resp, handlers'[h].resp = resp, resp.attempt \in AttemptIds,
             Exists(resp.attempt),
             resp.code # "pending" => attempts[resp.attempt].status = resp.code
      PROVE  /\ attempts'[resp.attempt] # NoAttempt
             /\ resp.code # "pending" => attempts'[resp.attempt].status = resp.code
  BY <1>1, <1>2, TerminalKept DEF AttemptsKept
<1>3. CASE handlers'[h] = handlers[h]
  BY <1>2, <1>3 DEF TruthfulAnswers
<1>4. ASSUME NEW resp, Answer(h, resp) PROVE handlers'[h].resp = resp
  BY <1>1, <1>4 DEF Answer, Idle, TaskTypes
<1>5. ASSUME NEW code \in {"validation_error", "not_found", "invoice_not_payable",
                           "payment_in_progress", "idempotency_key_reuse", "internal_error"},
             Answer(h, ErrorResp(code))
      PROVE  FALSE
  <2>1. handlers'[h].resp.code = code
    BY <1>4, <1>5 DEF ErrorResp, Resp
  <2> QED BY <2>1 DEF AttemptStatus
<1>6. CASE ReplayCompleted(h) \/ ReplayPending(h)
  <2> DEFINE req == handlers[h].req
             krow == keys[Owner[req.invoice]][req.key]
  <2>1. req \in PayRequest
    BY <1>1, <1>6 DEF ReplayCompleted, ReplayPending, TaskTypes, HandlerState
  <2>2. Owner[req.invoice] \in Businesses /\ req.key \in PspKeys
    BY <2>1, FlowAssumption DEF PayRequest
  <2>3. \/ krow.status = "completed" /\ Answer(h, krow.resp)
        \/ krow.status = "in_progress" /\ Answer(h, Resp("pending", krow.attempt, 0))
    BY <1>6 DEF ReplayCompleted, ReplayPending
  <2>4. krow # FreeKey
    BY <2>3 DEF FreeKey
  <2>5. krow \in KeyRow
    BY <1>1, <2>2, <2>4 DEF DbOK
  <2>6. PICK b \in Businesses, k \in PspKeys : keys[b][k] = krow
    BY <2>2
  <2> HIDE DEF krow
  <2>7. krow.attempt \in AttemptIds
    BY <2>5 DEF KeyRow
  <2>8. /\ Exists(krow.attempt)
        /\ krow.status = "completed" => /\ krow.resp.attempt = krow.attempt
                                        /\ krow.resp.code = attempts[krow.attempt].status
    BY <2>4, <2>6 DEF LinkInv, KeysLinked, KeysTell
  <2>9. CASE krow.status = "completed" /\ Answer(h, krow.resp)
    BY <1>2, <1>4, <2>7, <2>8, <2>9
  <2>10. CASE Answer(h, Resp("pending", krow.attempt, 0))
    <3>1. handlers'[h].resp.code = "pending" /\ handlers'[h].resp.attempt = krow.attempt
      BY <1>4, <2>10 DEF Resp
    <3> QED BY <1>2, <2>7, <2>8, <3>1
  <2> QED BY <2>3, <2>9, <2>10
<1>7. CASE PayFinalize(h)
  <2>1. PICK a : a = handlers[h].attempt
    OBVIOUS
  <2>2. /\ h \in Callers /\ Work(h) = a /\ a # NoId
        /\ Finalize(a, ChargeResult(h)) /\ Answer(h, FinalizeResponse(a, ChargeResult(h)))
    BY <1>1, <1>7, <2>1, FlowAssumption DEF PayFinalize, Work, TaskTypes, HandlerState
  <2>3. a \in AttemptIds /\ Exists(a)
    BY <1>1, <2>2, WorkExists
  <2>4. /\ ChargeResult(h).kind \in {"Succeeded", "Declined", "Unknown"}
        /\ ChargeResult(h).kind = "Succeeded" => attempts'[a].status = "succeeded"
        /\ ChargeResult(h).kind = "Declined" => attempts'[a].status = "failed"
    BY <2>2, DecidedAlike
  <2>5. handlers'[h].resp = FinalizeResponse(a, ChargeResult(h))
    BY <1>4, <2>2
  <2>6. /\ handlers'[h].resp.attempt = a
        /\ ChargeResult(h).kind = "Succeeded" => handlers'[h].resp.code = "succeeded"
        /\ ChargeResult(h).kind = "Declined" => handlers'[h].resp.code = "failed"
        /\ ChargeResult(h).kind = "Unknown" => handlers'[h].resp.code = "pending"
    BY <2>4, <2>5 DEF FinalizeResponse, Resp
  <2> QED BY <1>1, <2>3, <2>4, <2>6 DEF AttemptsKept
<1>8. CASE PayRejected(h) \/ ClaimNotPayable(h) \/ ClaimRace(h) \/ ReplayMismatch(h)
             \/ AbandonPay(h)
  BY <1>5, <1>8 DEF PayRejected, ClaimNotPayable, ClaimRace, ReplayMismatch, AbandonPay
<1>9. CASE PayRead(h) \/ ClaimReplay(h) \/ ClaimAttempt(h)
  <2>1. CASE PayRead(h)
    BY <1>1, <2>1 DEF PayRead, TaskTypes
  <2>2. CASE ClaimReplay(h)
    BY <1>1, <2>2 DEF ClaimReplay, TaskTypes
  <2>3. CASE ClaimAttempt(h)
    BY <1>1, <2>3 DEF ClaimAttempt, TaskTypes
  <2> QED BY <1>9, <2>1, <2>2, <2>3
<1> QED BY <1>1, <1>3, <1>6, <1>7, <1>8, <1>9, HandlerMoves DEF HandlerStep

-----------------------------------------------------------------------------
(* The theorems about what is told                                         *)

\* The inductive invariant behind every answer, poll and event, for every value of the
\* constants in which no two businesses share a key.
THEOREM ServiceInductive ==
  ASSUME DisjointKeys
  PROVE  Spec => []ServiceInv
<1>1. Init => ServiceInv
  <2> SUFFICES ASSUME Init PROVE KeysTell /\ PaidForCause /\ OutboxComplete /\ TruthfulAnswers
    BY InitLinks DEF ServiceInv
  <2>1. KeysTell /\ PaidForCause /\ OutboxComplete
    BY DEF Init, KeysTell, PaidForCause, OutboxComplete, Exists
  <2>2. TruthfulAnswers
    BY DEF Init, TruthfulAnswers, Idle, ErrorResp, Resp, AttemptStatus
  <2> QED BY <2>1, <2>2
<1>2. IndInv /\ ServiceInv /\ [Next]_vars => ServiceInv'
  <2>1. ASSUME IndInv, ServiceInv, Next PROVE ServiceInv'
    BY <2>1, LinkNext, KeysTellKept, PaidKept, OutboxKept, TruthfulKept DEF ServiceInv
  <2>2. ASSUME ServiceInv, UNCHANGED vars PROVE ServiceInv'
    <3> USE DEF Exists, vars, pspVars, dbVars, taskVars
    <3>1. LinkInv'
      BY <2>2, LinkStutter DEF ServiceInv
    <3>2. KeysTell' /\ PaidForCause'
      BY <2>2 DEF ServiceInv, KeysTell, PaidForCause
    <3>3. OutboxComplete'
      <4>1. \A a \in AttemptIds : EventsOf(a)' = EventsOf(a)
        BY <2>2 DEF EventsOf
      <4> QED BY <2>2, <4>1 DEF ServiceInv, OutboxComplete
    <3>4. TruthfulAnswers'
      BY <2>2 DEF ServiceInv, TruthfulAnswers
    <3> QED BY <3>1, <3>2, <3>3, <3>4 DEF ServiceInv
  <2> QED BY <2>1, <2>2
<1> QED BY <1>1, <1>2, Inductive, PTL DEF Spec

\* A succeeded attempt leaves its invoice settled, and an invoice is paid only by a
\* succeeded attempt of its own.
THEOREM InvoicesFollowAttempts ==
  ASSUME DisjointKeys
  PROVE  Spec => []InvoiceMatchesAttempts
<1>1. ServiceInv => InvoiceMatchesAttempts
  BY DEF ServiceInv, LinkInv, SucceededSettles, PaidForCause, InvoiceMatchesAttempts
<1> QED BY <1>1, ServiceInductive, PTL

\* The key of an attempt is linked to it, is completed exactly when the attempt is
\* decided, and caches a response that says how.
THEOREM KeysMirrorAttempts ==
  ASSUME DisjointKeys
  PROVE  Spec => []KeyMirrorsAttempt
<1>1. ServiceInv => KeyMirrorsAttempt
  <2> SUFFICES ASSUME ServiceInv PROVE KeyMirrorsAttempt
    OBVIOUS
  <2>1. TypeOK /\ References /\ AttemptsSound /\ KeysLinked /\ KeysTell
    BY DEF ServiceInv, LinkInv
  <2>2. ASSUME NEW a \in AttemptIds, Exists(a)
        PROVE  /\ KeyOf(a) # FreeKey
               /\ KeyOf(a).attempt = a
               /\ KeyOf(a).status = "in_progress" <=> attempts[a].status = "pending"
               /\ KeyOf(a).status = "completed" => KeyOf(a).resp.code = attempts[a].status
    <3>1. Owner[attempts[a].invoice] \in Businesses /\ attempts[a].key \in PspKeys
      BY <2>1, <2>2, AttemptShape, WellFormedParts DEF WellFormed
    <3>2. KeyOf(a) # FreeKey /\ KeyOf(a).attempt = a
      BY <2>1, <2>2 DEF References, AttemptsSound
    <3> QED BY <2>1, <3>1, <3>2 DEF KeysTell, KeyOf
  <2>3. ASSUME NEW b \in Businesses, NEW k \in PspKeys, keys[b][k] # FreeKey
        PROVE  Exists(keys[b][k].attempt)
    BY <2>1, <2>3 DEF KeysLinked
  <2> QED BY <2>2, <2>3 DEF KeyMirrorsAttempt
<1> QED BY <1>1, ServiceInductive, PTL

\* The outbox has exactly the kind of event the status of an attempt calls for, and
\* none while the attempt is pending.
THEOREM OutboxTellsAll ==
  ASSUME DisjointKeys
  PROVE  Spec => []OutboxComplete
<1>1. ServiceInv => OutboxComplete
  BY DEF ServiceInv
<1> QED BY <1>1, ServiceInductive, PTL

\* What a client was told stays true: 200 only for an attempt that succeeded, 402 only
\* for one that failed, 202 only with an attempt that exists.
THEOREM AnswersStayTrue ==
  ASSUME DisjointKeys
  PROVE  Spec => []TruthfulAnswers
<1>1. ServiceInv => TruthfulAnswers
  BY DEF ServiceInv
<1> QED BY <1>1, ServiceInductive, PTL
=============================================================================
