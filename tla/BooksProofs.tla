----------------------------- MODULE BooksProofs -----------------------------
(***************************************************************************)
(* The books agree with the PSP: proofs of BooksMatchPsp and                *)
(* OneChargedAttempt, for every value of the constants in which no two      *)
(* businesses use the same Idempotency-Key.  The layers of PaymentInvariant *)
(* are proved one after the other, on top of the shapes of PaymentProofs.   *)
(***************************************************************************)
EXTENDS PaymentProofs

-----------------------------------------------------------------------------
(* What a step can do to an attempt                                        *)

\* Who works on an attempt works on one that exists.
LEMMA WorkExists ==
  ASSUME WellFormed, NEW c \in Callers, Work(c) # NoId
  PROVE  Work(c) \in AttemptIds /\ Exists(Work(c))
<1>1. TaskTypes /\ TaskRefs
  BY WellFormedParts
<1>2. CASE c \in Handlers
  BY <1>1, <1>2 DEF Work, TaskTypes, TaskRefs, HandlerState
<1>3. CASE c \notin Handlers
  BY <1>1, <1>3, FlowAssumption DEF Work, TaskTypes, TaskRefs, RecState
<1> QED BY <1>2, <1>3

\* What transaction 2 makes of an attempt.
LEMMA FinalizeEffect ==
  ASSUME DbOK, NEW a \in AttemptIds, Exists(a), NEW result \in PspResults, Finalize(a, result)
  PROVE  /\ \A c \in AttemptIds : c # a => attempts'[c] = attempts[c]
         /\ attempts[a].status # "pending" => attempts'[a] = attempts[a]
         /\ attempts[a].status = "pending" =>
              /\ result.kind = "Succeeded" =>
                   attempts'[a].status = "succeeded" /\ attempts'[a].ref = result.ref
              /\ result.kind = "Declined" => attempts'[a].status = "failed"
              /\ result.kind = "Unknown" => attempts'[a].status = "pending"
<1>1. attempts[a] \in AttemptRow /\ attempts \in [AttemptIds -> AttemptRow \cup {NoAttempt}]
  BY AttemptShape DEF DbOK
<1>2. \E row : UpdateIfPending(a, row)
  BY DEF Finalize, FinalizeSucceeded, FinalizeDeclined, FinalizeUnknown
<1>3. /\ \A c \in AttemptIds : c # a => attempts'[c] = attempts[c]
      /\ attempts[a].status # "pending" => attempts'[a] = attempts[a]
  BY <1>1, <1>2 DEF UpdateIfPending
<1>4. ASSUME attempts[a].status = "pending", result.kind = "Succeeded"
      PROVE  attempts'[a].status = "succeeded" /\ attempts'[a].ref = result.ref
  <2>1. attempts'[a] = [attempts[a] EXCEPT !.status = "succeeded", !.ref = result.ref]
    BY <1>1, <1>4 DEF Finalize, FinalizeSucceeded, UpdateIfPending
  <2> QED BY <1>1, <2>1 DEF AttemptRow
<1>5. ASSUME attempts[a].status = "pending", result.kind = "Declined"
      PROVE  attempts'[a].status = "failed"
  <2>1. attempts'[a] = [attempts[a] EXCEPT !.status = "failed"]
    BY <1>1, <1>5 DEF Finalize, FinalizeDeclined, UpdateIfPending
  <2> QED BY <1>1, <2>1 DEF AttemptRow
<1>6. ASSUME attempts[a].status = "pending", result.kind = "Unknown"
      PROVE  attempts'[a].status = "pending"
  <2>1. attempts'[a] = [attempts[a] EXCEPT !.poll = "later"]
    BY <1>1, <1>6 DEF Finalize, FinalizeUnknown, UpdateIfPending
  <2> QED BY <1>1, <1>6, <2>1 DEF AttemptRow
<1> QED BY <1>3, <1>4, <1>5, <1>6

\* The attempts there are keep their status and psp_ref, and none is added.
Settled ==
  /\ \A a \in AttemptIds : attempts'[a] # NoAttempt => Exists(a)
  /\ \A a \in AttemptIds : Exists(a) =>
       attempts'[a].status = attempts[a].status /\ attempts'[a].ref = attempts[a].ref

\* A step adds an attempt, finalizes one with what its caller got from the PSP,
\* or leaves the outcome of all attempts, the keys and the outbox alone.
LEMMA AttemptSteps ==
  ASSUME WellFormed, Next
  PROVE  \/ \E h \in Handlers : ClaimAttempt(h)
         \/ \E c \in Callers :
              /\ Work(c) # NoId
              /\ Finalize(Work(c), ChargeResult(c))
              /\ UNCHANGED <<seen, charges>>
         \/ Settled /\ UNCHANGED <<keys, events>>
<1>1. PspTypeOK /\ DbOK /\ TaskTypes /\ TaskRefs
  BY WellFormedParts
<1>2. ASSUME UNCHANGED <<attempts, keys, events>> PROVE Settled /\ UNCHANGED <<keys, events>>
  BY <1>2 DEF Settled, Exists
<1>3. ASSUME NEW h \in Handlers, PayFinalize(h)
      PROVE  /\ h \in Callers
             /\ Work(h) # NoId
             /\ Finalize(Work(h), ChargeResult(h))
             /\ UNCHANGED <<seen, charges>>
  BY <1>1, <1>3, FlowAssumption DEF PayFinalize, Work, TaskTypes, HandlerState
<1>4. ASSUME NEW r \in Reconcilers, RecFinalize(r)
      PROVE  /\ r \in Callers
             /\ Work(r) # NoId
             /\ Finalize(Work(r), ChargeResult(r))
             /\ UNCHANGED <<seen, charges>>
  BY <1>4, FlowAssumption DEF RecFinalize, Work
<1>5. ASSUME NEW h \in Handlers, HandlerStep(h), ~PayFinalize(h), ~ClaimAttempt(h)
      PROVE  UNCHANGED <<attempts, keys, events>>
  BY <1>5 DEF HandlerStep, PayRejected, PayRead, ClaimReplay, ClaimNotPayable, ClaimRace,
     ReplayMismatch, ReplayCompleted, ReplayPending, AbandonPay, dbVars
<1>6. ASSUME NEW r \in Reconcilers, NEW rows \in SUBSET AttemptIds, LeaseRows(r, rows)
      PROVE  Settled /\ UNCHANGED <<keys, events>>
  <2>1. \A a \in rows : Exists(a)
    BY <1>6 DEF LeaseRows, Due
  <2> QED BY <1>1, <1>6, <2>1, PollEditKeeps DEF LeaseRows, Settled
<1>7. ASSUME NEW r \in Reconcilers, RecStep(r), ~RecFinalize(r), ~Lease(r)
      PROVE  UNCHANGED <<attempts, keys, events>>
  BY <1>7 DEF RecStep, Requery, RecFinalizeFails, RecCrash, dbVars
<1>8. ASSUME NEW a \in AttemptIds, PollTimePasses(a)
      PROVE  Settled /\ UNCHANGED <<keys, events>>
  <2>1. attempts' = [c \in AttemptIds |->
                       IF c \in {a} THEN [attempts[c] EXCEPT !.poll = "due"] ELSE attempts[c]]
    BY <1>1, <1>8 DEF PollTimePasses, DbOK
  <2>2. {a} \in SUBSET AttemptIds /\ (\A c \in {a} : Exists(c)) /\ UNCHANGED <<inv, keys, events>>
    BY <1>8 DEF PollTimePasses
  <2>3. /\ \A c \in AttemptIds : attempts'[c] # NoAttempt => Exists(c)
        /\ \A c \in AttemptIds : Exists(c) =>
             attempts'[c].status = attempts[c].status /\ attempts'[c].ref = attempts[c].ref
    BY <1>1, <2>1, <2>2, PollEditKeeps
  <2> QED BY <2>2, <2>3 DEF Settled
<1>9. ASSUME \/ PspStep \/ (\E i \in Invoices : AdminTransition(i))
             \/ \E p \in Pollers : PollAttempt(p) \/ PollInvoice(p)
      PROVE  UNCHANGED <<attempts, keys, events>>
  BY <1>9 DEF PspStep, AdminTransition, PollAttempt, PollInvoice, dbVars
<1> QED
  BY <1>2, <1>3, <1>4, <1>5, <1>6, <1>7, <1>8, <1>9 DEF Next, RecStep, Lease

\* A terminal attempt is never rewritten.
LEMMA TerminalKept ==
  ASSUME WellFormed, Next, NEW a \in AttemptIds, Exists(a), attempts[a].status # "pending"
  PROVE  attempts'[a].status = attempts[a].status /\ attempts'[a].ref = attempts[a].ref
<1>1. PspTypeOK /\ DbOK
  BY WellFormedParts
<1>2. ASSUME NEW h \in Handlers, ClaimAttempt(h) PROVE attempts'[a] = attempts[a]
  BY <1>1, <1>2 DEF ClaimAttempt, DbOK
<1>3. ASSUME NEW c \in Callers, Work(c) # NoId, Finalize(Work(c), ChargeResult(c))
      PROVE  attempts'[a] = attempts[a]
  BY <1>1, <1>3, WorkExists, ChargeResultType, FinalizeEffect
<1> QED BY <1>2, <1>3, AttemptSteps DEF Settled

\* No late handler, stale batch or second answer of the PSP rewrites an attempt
\* that has succeeded or failed, for every value of the constants.
THEOREM TerminalFinal == Spec => TerminalAttemptFinal
<1>1. WellFormed /\ [Next]_vars =>
        [\A a \in AttemptIds :
           Exists(a) /\ attempts[a].status # "pending" =>
             /\ attempts'[a].status = attempts[a].status
             /\ attempts'[a].ref = attempts[a].ref]_vars
  BY TerminalKept
<1> QED BY <1>1, WellFormedAlways, PTL DEF Spec, TerminalAttemptFinal

-----------------------------------------------------------------------------
(* Layer 2: keys are linked to their attempts, and one attempt is active   *)

\* An attempt that a step adds.
LEMMA NewAttempt ==
  ASSUME WellFormed, Next, NEW a \in AttemptIds, ~Exists(a), attempts'[a] # NoAttempt
  PROVE  \E h \in Handlers :
           /\ ClaimAttempt(h)
           /\ attempts' = [attempts EXCEPT ![a] =
                [invoice |-> handlers[h].req.invoice, key |-> handlers[h].req.key,
                 token |-> handlers[h].req.token, amount |-> Total[handlers[h].req.invoice],
                 status |-> "pending", ref |-> 0, poll |-> "null"]]
           /\ keys' = [keys EXCEPT ![Owner[handlers[h].req.invoice]][handlers[h].req.key] =
                         ClaimedKey(handlers[h].req, a)]
<1>1. PspTypeOK /\ DbOK
  BY WellFormedParts
<1>2. ASSUME NEW c \in Callers, Work(c) # NoId, Finalize(Work(c), ChargeResult(c)) PROVE FALSE
  BY <1>1, <1>2, WorkExists, ChargeResultType, FinalizeKeeps
<1>3. PICK h \in Handlers : ClaimAttempt(h)
  BY <1>2, AttemptSteps DEF Settled
<1>4. PICK b \in AttemptIds :
        /\ attempts' = [attempts EXCEPT ![b] =
                [invoice |-> handlers[h].req.invoice, key |-> handlers[h].req.key,
                 token |-> handlers[h].req.token, amount |-> Total[handlers[h].req.invoice],
                 status |-> "pending", ref |-> 0, poll |-> "null"]]
        /\ keys' = [keys EXCEPT ![Owner[handlers[h].req.invoice]][handlers[h].req.key] =
                      ClaimedKey(handlers[h].req, b)]
  BY <1>3 DEF ClaimAttempt
<1>5. a = b
  BY <1>1, <1>4 DEF Exists, DbOK
<1> QED BY <1>3, <1>4, <1>5

LEMMA AttemptsSoundKept ==
  ASSUME WellFormed, AttemptsSound, Next
  PROVE  AttemptsSound'
<1> SUFFICES ASSUME NEW a \in AttemptIds, attempts'[a] # NoAttempt
             PROVE  /\ attempts'[a].amount = Total[attempts'[a].invoice]
                    /\ attempts'[a].key \in KeysOf[Owner[attempts'[a].invoice]]
                    /\ keys'[Owner[attempts'[a].invoice]][attempts'[a].key].attempt = a
  BY DEF AttemptsSound, Exists, KeyOf
<1>1. DbOK /\ AttemptsKept /\ KeysKept
  BY WellFormedParts, NextWellFormed
<1>2. CASE Exists(a)
  <2>1. KeyOf(a) # FreeKey /\ KeyOf(a).attempt = a
    BY <1>1, <1>2 DEF DbOK, AttemptsSound
  <2>2. keys'[Owner[attempts[a].invoice]][attempts[a].key].attempt = a
    BY <1>1, <1>2, <2>1, AttemptShape DEF KeysKept, KeyOf
  <2> QED BY <1>1, <1>2, <2>2 DEF AttemptsKept, AttemptsSound
<1>3. CASE ~Exists(a)
  <2>1. PICK h \in Handlers :
           /\ ClaimAttempt(h)
           /\ attempts' = [attempts EXCEPT ![a] =
                [invoice |-> handlers[h].req.invoice, key |-> handlers[h].req.key,
                 token |-> handlers[h].req.token, amount |-> Total[handlers[h].req.invoice],
                 status |-> "pending", ref |-> 0, poll |-> "null"]]
           /\ keys' = [keys EXCEPT ![Owner[handlers[h].req.invoice]][handlers[h].req.key] =
                         ClaimedKey(handlers[h].req, a)]
    BY <1>3, NewAttempt
  <2> DEFINE req == handlers[h].req
  <2>2. /\ req.invoice \in Invoices /\ req.key \in PspKeys
        /\ Owner[req.invoice] \in Businesses /\ req.key \in KeysOf[Owner[req.invoice]]
    BY <2>1, RequestShape DEF ClaimAttempt, WellFormed
  <2>3. /\ attempts'[a].invoice = req.invoice /\ attempts'[a].key = req.key
        /\ attempts'[a].amount = Total[req.invoice]
    BY <1>1, <2>1 DEF DbOK
  <2>4. keys'[Owner[req.invoice]][req.key] = ClaimedKey(req, a)
    BY <1>1, <2>1, <2>2 DEF DbOK
  <2>5. ClaimedKey(req, a).attempt = a
    BY DEF ClaimedKey
  <2> HIDE DEF req
  <2> QED BY <2>2, <2>3, <2>4, <2>5
<1> QED BY <1>2, <1>3

LEMMA SingleActiveKept ==
  ASSUME WellFormed, SingleActive, Next
  PROVE  SingleActive'
<1>1. DbOK /\ AttemptsKept
  BY WellFormedParts, NextWellFormed
<1>2. ASSUME NEW a \in AttemptIds, Exists(a), attempts'[a].status \in {"pending", "succeeded"}
      PROVE  Active(a)
  <2>1. attempts[a].status \in AttemptStatus
    BY <1>1, <1>2, AttemptShape DEF AttemptRow
  <2> QED BY <1>2, <2>1, TerminalKept DEF Active, AttemptStatus
<1>3. ASSUME NEW a \in AttemptIds, NEW b \in AttemptIds, ~Exists(a), attempts'[a] # NoAttempt,
             attempts'[b] # NoAttempt, attempts'[b].status \in {"pending", "succeeded"},
             attempts'[a].invoice = attempts'[b].invoice
      PROVE  a = b
  <2>1. PICK h \in Handlers :
           /\ ClaimAttempt(h)
           /\ attempts' = [attempts EXCEPT ![a] =
                [invoice |-> handlers[h].req.invoice, key |-> handlers[h].req.key,
                 token |-> handlers[h].req.token, amount |-> Total[handlers[h].req.invoice],
                 status |-> "pending", ref |-> 0, poll |-> "null"]]
    BY <1>3, NewAttempt
  <2>2. ~InvoicePinned(handlers[h].req.invoice)
    BY <2>1 DEF ClaimAttempt
  <2>3. attempts'[a].invoice = handlers[h].req.invoice
    BY <1>1, <2>1 DEF DbOK
  <2>4. ASSUME b # a PROVE FALSE
    <3>1. attempts'[b] = attempts[b] /\ Exists(b)
      BY <1>1, <1>3, <2>1, <2>4 DEF DbOK, Exists
    <3> QED BY <1>2, <1>3, <2>2, <2>3, <3>1 DEF InvoicePinned
  <2> QED BY <2>4
<1>4. ASSUME NEW a \in AttemptIds, NEW b \in AttemptIds, Exists(a), Exists(b),
             attempts'[a].status \in {"pending", "succeeded"},
             attempts'[b].status \in {"pending", "succeeded"},
             attempts'[a].invoice = attempts'[b].invoice
      PROVE  a = b
  BY <1>1, <1>2, <1>4 DEF SingleActive, AttemptsKept
<1> QED BY <1>3, <1>4 DEF SingleActive, Active, Exists

-----------------------------------------------------------------------------
(* Layer 3: the calls in flight                                            *)

\* The PSP answers calls; it neither makes nor redirects one.
LEMMA PspKeepsCalls ==
  ASSUME WellFormed, PspStep
  PROVE  \A x \in Callers \cup Slots :
           \/ calls'[x] = calls[x]
           \/ x \in Slots /\ calls'[x] = NoCall
           \/ /\ calls[x].stage # "none" /\ calls'[x].stage # "none"
              /\ calls'[x].req = calls[x].req
<1>1. PspTypeOK
  BY WellFormedParts
<1>2. CASE PspRestart
  BY <1>1, <1>2, PspAssumption DEF PspRestart, Answered
<1>3. ASSUME NEW x \in Callers \cup Slots, PspHandle(x),
             NEW y \in Callers \cup Slots
      PROVE  \/ calls'[y] = calls[y]
             \/ y \in Slots /\ calls'[y] = NoCall
             \/ /\ calls[y].stage # "none" /\ calls'[y].stage # "none"
                /\ calls'[y].req = calls[y].req
  <2>1. CASE y # x
    BY <1>1, <1>3, <2>1 DEF PspHandle, PspReceive, ReplayRecorded, Refuse, BeginCharge,
       SettleCharge, Reply, PspTypeOK
  <2>2. CASE BeginCharge(x) /\ y = x
    BY <1>1, <2>2 DEF BeginCharge, Sleeping, PspTypeOK
  <2>3. CASE ~BeginCharge(x) /\ y = x
    <3>1. /\ calls[x].stage \in {"sent", "sleeping"}
          /\ \E ans : calls' = [calls EXCEPT ![x] =
                         IF x \in Callers THEN Answered(calls[x].req, ans) ELSE NoCall]
      BY <1>3, <2>3 DEF PspHandle, PspReceive, ReplayRecorded, Refuse, SettleCharge, Reply
    <3> QED BY <1>1, <2>3, <3>1 DEF Answered, PspTypeOK
  <2> QED BY <2>1, <2>2, <2>3
<1> QED BY <1>2, <1>3 DEF PspStep

\* What the service does with its calls.
ServiceCalls ==
  /\ \A c \in Callers :
       \/ Work(c)' = Work(c) /\ calls'[c] = calls[c]
       \/ Work(c)' = NoId /\ calls'[c] = NoCall
       \/ \E a \in AttemptIds :
            Work(c)' = a /\ attempts'[a] # NoAttempt /\ calls'[c] = Sent(ChargeOf(a)')
  /\ \A s \in Slots :
       \/ calls'[s] = calls[s]
       \/ \E c \in Callers : Waiting(c) /\ calls'[s] = calls[c]

\* Work depends on the local state of the caller alone.
LEMMA WorkUnchanged ==
  ASSUME NEW c \in Callers,
         c \in Handlers => handlers'[c] = handlers[c],
         c \notin Handlers => recs'[c] = recs[c]
  PROVE  Work(c)' = Work(c)
  BY DEF Work

\* A caller that gives its call up.
LEMMA HangUpService ==
  ASSUME WellFormed, NEW c \in Callers, HangUp(c), Work(c)' = NoId,
         \A x \in Callers \ {c} : Work(x)' = Work(x)
  PROVE  ServiceCalls
<1>1. PspTypeOK
  BY WellFormedParts
<1> QED BY <1>1, HangUpCalls DEF ServiceCalls

LEMMA HandlerCalls ==
  ASSUME WellFormed, NEW h \in Handlers, HandlerStep(h)
  PROVE  ServiceCalls
<1>1. PspTypeOK /\ DbOK /\ TaskTypes /\ TaskRefs /\ h \in Callers
  BY WellFormedParts, FlowAssumption
<1>2. UNCHANGED recs /\ \A g \in Handlers \ {h} : handlers'[g] = handlers[g]
  BY <1>1 DEF HandlerStep, PayRejected, PayRead, ClaimReplay, ClaimNotPayable, ClaimRace,
     ClaimAttempt, ReplayMismatch, ReplayCompleted, ReplayPending, PayFinalize, AbandonPay,
     Answer, TaskTypes
<1>3. \A x \in Callers \ {h} : Work(x)' = Work(x)
  BY <1>2, WorkUnchanged
<1>4. CASE PayFinalize(h) \/ AbandonPay(h)
  <2>1. HangUp(h) /\ \E resp : handlers' = [handlers EXCEPT ![h] = Idle(resp)]
    BY <1>4 DEF PayFinalize, AbandonPay, Answer
  <2>2. handlers'[h].pc = "idle"
    BY <1>1, <2>1 DEF Idle, TaskTypes
  <2>3. Work(h)' = NoId
    BY <2>2 DEF Work
  <2> QED BY <1>1, <1>3, <2>1, <2>3, HangUpService
<1>5. CASE ClaimAttempt(h)
  <2> DEFINE req == handlers[h].req
             amt == Total[req.invoice]
             row(a) == [invoice |-> req.invoice, key |-> req.key, token |-> req.token,
                        amount |-> amt, status |-> "pending", ref |-> 0, poll |-> "null"]
  <2>1. PICK a \in AttemptIds :
          /\ attempts' = [attempts EXCEPT ![a] = row(a)]
          /\ handlers' = [handlers EXCEPT ![h] = [pc |-> "charge", req |-> req, attempt |-> a]]
          /\ calls' = [calls EXCEPT ![h] =
                         Sent([key |-> req.key, token |-> req.token, amount |-> amt])]
    BY <1>5 DEF ClaimAttempt, SendCharge
  <2>2. attempts'[a] = row(a)
    BY <1>1, <2>1 DEF DbOK
  <2>3. row(a) # NoAttempt
    BY DEF NoAttempt
  <2>4. ChargeOf(a)' = [key |-> req.key, token |-> req.token, amount |-> amt]
    BY <2>2 DEF ChargeOf
  <2>5. handlers'[h].pc = "charge" /\ handlers'[h].attempt = a
    BY <1>1, <2>1 DEF TaskTypes
  <2>6. Work(h)' = a
    BY <2>5 DEF Work
  <2>7. calls'[h] = Sent(ChargeOf(a)') /\ \A x \in (Callers \cup Slots) \ {h} : calls'[x] = calls[x]
    BY <1>1, <2>1, <2>4 DEF PspTypeOK
  <2>8. \A s \in Slots : s # h
    BY <1>1, PspAssumption
  <2> HIDE DEF row
  <2> QED BY <1>3, <2>2, <2>3, <2>6, <2>7, <2>8 DEF ServiceCalls
<1>6. CASE \/ PayRejected(h) \/ PayRead(h) \/ ClaimReplay(h) \/ ClaimNotPayable(h)
           \/ ClaimRace(h) \/ ReplayMismatch(h) \/ ReplayCompleted(h) \/ ReplayPending(h)
  <2>1. PICK st \in HandlerState :
           /\ st.pc # "charge"
           /\ handlers[h].pc # "charge"
           /\ handlers' = [handlers EXCEPT ![h] = st]
           /\ UNCHANGED <<pspVars, dbVars, recs, polls>>
    BY <1>6, ReadStepsType
  <2>2. handlers'[h].pc # "charge"
    BY <1>1, <2>1 DEF TaskTypes
  <2>3. Work(h)' = Work(h)
    BY <2>1, <2>2 DEF Work
  <2>4. UNCHANGED calls
    BY <2>1 DEF pspVars
  <2> QED BY <1>3, <2>3, <2>4 DEF ServiceCalls
<1> QED BY <1>4, <1>5, <1>6 DEF HandlerStep

LEMMA RecCalls ==
  ASSUME WellFormed, NEW r \in Reconcilers, RecStep(r)
  PROVE  ServiceCalls
<1>1. PspTypeOK /\ DbOK /\ TaskTypes /\ TaskRefs /\ r \in Callers /\ r \notin Handlers
  BY WellFormedParts, FlowAssumption
<1>2. UNCHANGED handlers /\ \A q \in Reconcilers \ {r} : recs'[q] = recs[q]
  BY <1>1 DEF RecStep, Lease, LeaseRows, Requery, RecFinalize, RecFinalizeFails, RecCrash, TaskTypes
<1>3. \A x \in Callers \ {r} : Work(x)' = Work(x)
  BY <1>2, FlowAssumption, WorkUnchanged
<1>4. Work(r)' = recs'[r].cur /\ Work(r) = recs[r].cur
  BY <1>1 DEF Work
<1>5. CASE RecFinalize(r) \/ RecFinalizeFails(r) \/ RecCrash(r)
  <2>1. HangUp(r)
    BY <1>5 DEF RecFinalize, RecFinalizeFails, RecCrash
  <2>2. recs'[r].cur = NoId
    BY <1>1, <1>5 DEF RecFinalize, RecFinalizeFails, RecCrash, RecIdle, TaskTypes
  <2> QED BY <1>1, <1>3, <1>4, <2>1, <2>2, HangUpService
<1>6. CASE Lease(r)
  <2>1. UNCHANGED calls /\ recs'[r].cur = NoId /\ recs[r].cur = NoId
    BY <1>1, <1>6 DEF Lease, LeaseRows, RecIdle, TaskTypes, pspVars
  <2> QED BY <1>3, <1>4, <2>1 DEF ServiceCalls
<1>7. ASSUME NEW a \in AttemptIds, Requery(r, a) PROVE ServiceCalls
  <2>1. recs'[r].cur = a
    BY <1>1, <1>7 DEF Requery, TaskTypes
  <2>2. Exists(a) /\ UNCHANGED attempts
    BY <1>1, <1>7 DEF Requery, TaskRefs, dbVars
  <2>3. calls'[r] = Sent(ChargeOf(a)) /\ \A x \in (Callers \cup Slots) \ {r} : calls'[x] = calls[x]
    BY <1>1, <1>7 DEF Requery, SendCharge, PspTypeOK
  <2>4. ChargeOf(a)' = ChargeOf(a) /\ attempts'[a] # NoAttempt
    BY <2>2 DEF ChargeOf, Exists
  <2>5. \A s \in Slots : s # r
    BY <1>1, PspAssumption
  <2> QED BY <1>3, <1>4, <2>1, <2>3, <2>4, <2>5 DEF ServiceCalls
<1> QED BY <1>5, <1>6, <1>7 DEF RecStep

\* Every step but those of the PSP.
LEMMA StepCalls ==
  ASSUME WellFormed, Next, ~PspStep
  PROVE  ServiceCalls /\ UNCHANGED <<charges, seen>>
<1>1. ASSUME UNCHANGED <<calls, handlers, recs>> PROVE ServiceCalls
  BY <1>1, WorkUnchanged DEF ServiceCalls
<1>2. ServiceCalls
  <2>1. ASSUME NEW a \in AttemptIds, PollTimePasses(a) PROVE UNCHANGED <<calls, handlers, recs>>
    BY <2>1 DEF PollTimePasses, pspVars, taskVars
  <2>2. ASSUME NEW i \in Invoices, AdminTransition(i) PROVE UNCHANGED <<calls, handlers, recs>>
    BY <2>2 DEF AdminTransition, pspVars, taskVars
  <2>3. ASSUME NEW p \in Pollers, PollAttempt(p) \/ PollInvoice(p)
        PROVE UNCHANGED <<calls, handlers, recs>>
    BY <2>3 DEF PollAttempt, PollInvoice, pspVars
  <2> QED BY <1>1, <2>1, <2>2, <2>3, HandlerCalls, RecCalls DEF Next
<1>3. UNCHANGED <<charges, seen>>
  BY DEF Next, HandlerStep, PayRejected, PayRead, ClaimReplay, ClaimNotPayable, ClaimRace,
     ClaimAttempt, ReplayMismatch, ReplayCompleted, ReplayPending, PayFinalize, AbandonPay,
     RecStep, Lease, LeaseRows, Requery, RecFinalize, RecFinalizeFails, RecCrash,
     PollTimePasses, AdminTransition, PollAttempt, PollInvoice, pspVars
<1> QED BY <1>2, <1>3

\* The charge of an attempt never changes.
LEMMA ChargeOfKept ==
  ASSUME AttemptsKept, NEW a \in AttemptIds, Exists(a)
  PROVE  attempts'[a] # NoAttempt /\ ChargeOf(a)' = ChargeOf(a)
  BY DEF AttemptsKept, ChargeOf

LEMMA CallsSoundKept ==
  ASSUME WellFormed, CallsSound, Next
  PROVE  CallsSound'
<1>1. AttemptsKept /\ PspTypeOK /\ Callers \cap Slots = {}
  BY NextWellFormed, WellFormedParts, PspAssumption
<1>2. ASSUME NEW c \in Callers, Work(c) # NoId
      PROVE  /\ Work(c) \in AttemptIds /\ Exists(Work(c)) /\ attempts'[Work(c)] # NoAttempt
             /\ ChargeOf(Work(c)) = [key |-> attempts'[Work(c)].key,
                                     token |-> attempts'[Work(c)].token,
                                     amount |-> attempts'[Work(c)].amount]
  BY <1>1, <1>2, WorkExists DEF AttemptsKept, ChargeOf
<1>3. \A s \in Slots :
        (\E a \in AttemptIds : Exists(a) /\ calls'[s].req = ChargeOf(a)) =>
          \E a \in AttemptIds : attempts'[a] # NoAttempt /\ calls'[s].req = ChargeOf(a)'
  BY <1>1, ChargeOfKept
<1>4. CASE PspStep
  <2>1. \A c \in Callers : Work(c)' = Work(c)
    BY <1>4, WorkUnchanged DEF PspStep, taskVars
  <2>2. ASSUME NEW c \in Callers
        PROVE  IF Work(c)' = NoId THEN calls'[c] = NoCall
               ELSE calls'[c].stage # "none" /\ calls'[c].req = ChargeOf(Work(c))
    BY <1>1, <1>4, <2>1, PspKeepsCalls DEF CallsSound, NoCall
  <2>3. ASSUME NEW s \in Slots, calls'[s] # NoCall
        PROVE  \E a \in AttemptIds : Exists(a) /\ calls'[s].req = ChargeOf(a)
    BY <1>1, <1>4, <2>3, PspKeepsCalls DEF CallsSound, NoCall
  <2> QED BY <1>2, <1>3, <2>1, <2>2, <2>3 DEF CallsSound, Exists, ChargeOf
<1>5. CASE ~PspStep
  <2>1. ServiceCalls
    BY <1>5, StepCalls
  <2>2. ASSUME NEW c \in Callers
        PROVE  IF Work(c)' = NoId THEN calls'[c] = NoCall
               ELSE /\ calls'[c].stage # "none"
                    /\ calls'[c].req = [key |-> attempts'[Work(c)'].key,
                                        token |-> attempts'[Work(c)'].token,
                                        amount |-> attempts'[Work(c)'].amount]
    <3>1. CASE Work(c)' = Work(c) /\ calls'[c] = calls[c]
      <4>1. CASE Work(c) = NoId
        BY <3>1, <4>1 DEF CallsSound
      <4>2. CASE Work(c) # NoId
        BY <1>2, <3>1, <4>2 DEF CallsSound
      <4> QED BY <4>1, <4>2
    <3>2. CASE Work(c)' = NoId /\ calls'[c] = NoCall
      BY <3>2
    <3>3. ASSUME NEW a \in AttemptIds, Work(c)' = a, calls'[c] = Sent(ChargeOf(a)')
          PROVE  /\ calls'[c].stage # "none"
                 /\ calls'[c].req = [key |-> attempts'[a].key, token |-> attempts'[a].token,
                                     amount |-> attempts'[a].amount]
      BY <3>3 DEF Sent, ChargeOf
    <3>4. \A a \in AttemptIds : a # NoId
      BY FlowAssumption
    <3> QED BY <2>1, <3>1, <3>2, <3>3, <3>4 DEF ServiceCalls
  <2>3. ASSUME NEW s \in Slots, calls'[s] # NoCall
        PROVE  \E a \in AttemptIds : Exists(a) /\ calls'[s].req = ChargeOf(a)
    <3>1. CASE calls'[s] = calls[s]
      BY <2>3, <3>1 DEF CallsSound
    <3>2. ASSUME NEW c \in Callers, Waiting(c), calls'[s] = calls[c]
          PROVE  \E a \in AttemptIds : Exists(a) /\ calls'[s].req = ChargeOf(a)
      <4>1. Work(c) # NoId
        BY <3>2 DEF CallsSound, Waiting, NoCall
      <4> QED BY <1>2, <3>2, <4>1 DEF CallsSound
    <3> QED BY <2>1, <3>1, <3>2 DEF ServiceCalls
  <2> QED BY <1>3, <2>2, <2>3 DEF CallsSound, Exists, ChargeOf
<1> QED BY <1>4, <1>5

-----------------------------------------------------------------------------
(* Layer 4: the money that moved, and what the PSP says about it           *)

\* A call that is running was made for an attempt.
LEMMA RunningCall ==
  ASSUME WellFormed, CallsSound, NEW x \in Callers \cup Slots, calls[x].stage # "none"
  PROVE  \E a \in AttemptIds : Exists(a) /\ calls[x].req = ChargeOf(a)
<1>1. calls[x] # NoCall
  BY DEF NoCall
<1>2. CASE x \in Callers
  BY <1>1, <1>2, WorkExists DEF CallsSound
<1>3. CASE x \in Slots
  BY <1>1, <1>3 DEF CallsSound
<1> QED BY <1>2, <1>3

\* How a step moves money: a running call with a good card is charged at the end.
LEMMA ChargeSteps ==
  ASSUME WellFormed, Next
  PROVE  \/ UNCHANGED charges
         \/ \E x \in Callers \cup Slots :
              /\ calls[x].stage = "sleeping"
              /\ Moves(calls[x].req.token)
              /\ calls[x].req \in ChargeRequest
              /\ charges' = Append(charges, calls[x].req)
<1>1. PspTypeOK
  BY WellFormedParts
<1>2. ASSUME NEW x \in Callers \cup Slots, calls[x].stage = "sleeping"
      PROVE  calls[x].req \in ChargeRequest
  BY <1>1, <1>2 DEF PspTypeOK, Calls, NoCall
<1>3. CASE PspStep
  BY <1>2, <1>3 DEF PspStep, PspRestart, PspHandle, PspReceive, ReplayRecorded, Refuse,
     BeginCharge, SettleCharge
<1>4. CASE ~PspStep
  BY <1>4, StepCalls
<1> QED BY <1>3, <1>4

\* Charges are only added.
LEMMA ChargesGrow ==
  ASSUME WellFormed, Next
  PROVE  \A n \in DOMAIN charges : n \in DOMAIN charges' /\ charges'[n] = charges[n]
<1>1. charges \in Seq(ChargeRequest)
  BY WellFormedParts DEF PspTypeOK
<1>2. CASE UNCHANGED charges
  BY <1>2
<1>3. ASSUME NEW req \in ChargeRequest, charges' = Append(charges, req)
      PROVE  \A n \in DOMAIN charges : n \in DOMAIN charges' /\ charges'[n] = charges[n]
  BY <1>1, <1>3
<1> QED BY <1>2, <1>3, ChargeSteps

LEMMA ChargesSoundKept ==
  ASSUME WellFormed, CallsSound, ChargesSound, Next
  PROVE  ChargesSound'
<1>1. AttemptsKept /\ charges \in Seq(ChargeRequest)
  BY NextWellFormed, WellFormedParts DEF PspTypeOK
<1>2. ASSUME NEW req, \E a \in AttemptIds : Exists(a) /\ ChargeOf(a) = req
      PROVE  \E a \in AttemptIds : attempts'[a] # NoAttempt /\ ChargeOf(a)' = req
  BY <1>1, <1>2, ChargeOfKept
<1>3. CASE UNCHANGED charges
  BY <1>2, <1>3 DEF ChargesSound, Exists
<1>4. ASSUME NEW x \in Callers \cup Slots, calls[x].stage = "sleeping",
             Moves(calls[x].req.token), calls[x].req \in ChargeRequest,
             charges' = Append(charges, calls[x].req)
      PROVE  ChargesSound'
  <2> DEFINE req == calls[x].req
  <2>1. \E a \in AttemptIds : Exists(a) /\ ChargeOf(a) = req
    BY <1>4, RunningCall
  <2>2. \A n \in DOMAIN charges' : charges'[n] = req \/ (n \in DOMAIN charges /\ charges'[n] = charges[n])
    <3> HIDE DEF req
    <3> QED BY <1>1, <1>4 DEF req
  <2>3. Moves(req.token)
    BY <1>4
  <2> HIDE DEF req
  <2> QED BY <1>2, <2>1, <2>2, <2>3 DEF ChargesSound, Exists, Moves
<1> QED BY <1>3, <1>4, ChargeSteps

\* What was sound to say about a key stays so.
LEMMA OutcomeKept ==
  ASSUME WellFormed, Next, NEW key, NEW outcome, OutcomeSound(key, outcome)
  PROVE  /\ outcome.status = "succeeded" =>
              outcome.ref \in DOMAIN charges' /\ charges'[outcome.ref].key = key
         /\ outcome.status = "failed" =>
              \E a \in AttemptIds :
                /\ attempts'[a] # NoAttempt
                /\ attempts'[a].key = key
                /\ ~Moves(attempts'[a].token)
<1>1. outcome.status = "succeeded" =>
        outcome.ref \in DOMAIN charges' /\ charges'[outcome.ref].key = key
  BY ChargesGrow DEF OutcomeSound
<1>2. ASSUME outcome.status = "failed"
      PROVE  \E a \in AttemptIds :
               attempts'[a] # NoAttempt /\ attempts'[a].key = key /\ ~Moves(attempts'[a].token)
  BY <1>2, NextWellFormed DEF OutcomeSound, AttemptsKept, Moves
<1> QED BY <1>1, <1>2

\* What the PSP decides at the end of a call is sound.
LEMMA SettleSound ==
  ASSUME WellFormed, CallsSound, Next, NEW x \in Callers \cup Slots, SettleCharge(x)
  PROVE  \E outcome :
           /\ seen' = [seen EXCEPT ![calls[x].req.key] = outcome]
           /\ Reply(x, outcome)
           /\ outcome.status = "succeeded" =>
                outcome.ref \in DOMAIN charges' /\ charges'[outcome.ref].key = calls[x].req.key
           /\ outcome.status = "failed" =>
                \E a \in AttemptIds :
                  /\ attempts'[a] # NoAttempt
                  /\ attempts'[a].key = calls[x].req.key
                  /\ ~Moves(attempts'[a].token)
<1> DEFINE req == calls[x].req
           outcome == IF Moves(req.token) THEN Succeeded(Len(charges) + 1) ELSE Failed
<1>1. /\ charges' = IF Moves(req.token) THEN Append(charges, req) ELSE charges
      /\ seen' = [seen EXCEPT ![req.key] = outcome]
      /\ Reply(x, outcome)
      /\ calls[x].stage = "sleeping"
  BY DEF SettleCharge
<1>2. charges \in Seq(ChargeRequest) /\ req \in ChargeRequest
  BY <1>1, WellFormedParts DEF PspTypeOK, Calls, NoCall
<1>3. ASSUME outcome.status = "succeeded"
      PROVE  outcome.ref \in DOMAIN charges' /\ charges'[outcome.ref].key = req.key
  <2>1. Moves(req.token)
    BY <1>3 DEF Failed
  <2>2. outcome.ref = Len(charges) + 1 /\ charges' = Append(charges, req)
    BY <1>1, <2>1 DEF Succeeded
  <2> HIDE DEF req, outcome
  <2> QED BY <1>2, <2>2
<1>4. ASSUME outcome.status = "failed"
      PROVE  \E a \in AttemptIds :
               attempts'[a] # NoAttempt /\ attempts'[a].key = req.key /\ ~Moves(attempts'[a].token)
  <2>1. ~Moves(req.token)
    BY <1>4 DEF Succeeded
  <2>2. PICK a \in AttemptIds : Exists(a) /\ req = ChargeOf(a)
    BY <1>1, RunningCall
  <2>3. attempts[a].key = req.key /\ attempts[a].token = req.token
    BY <2>2 DEF ChargeOf
  <2> HIDE DEF req
  <2> QED BY <2>1, <2>2, <2>3, NextWellFormed DEF AttemptsKept, Moves
<1> HIDE DEF outcome
<1> QED BY <1>1, <1>3, <1>4

LEMMA PspSoundKept ==
  ASSUME WellFormed, CallsSound, PspSound, Next
  PROVE  PspSound'
<1> DEFINE Good(key, outcome) ==
             /\ outcome.status = "succeeded" =>
                  outcome.ref \in DOMAIN charges' /\ charges'[outcome.ref].key = key
             /\ outcome.status = "failed" =>
                  \E a \in AttemptIds :
                    /\ attempts'[a] # NoAttempt
                    /\ attempts'[a].key = key
                    /\ ~Moves(attempts'[a].token)
<1>1. SUFFICES /\ \A k \in PspKeys : Good(k, seen'[k])
               /\ \A c \in Callers :
                    calls'[c].stage = "answered" => Good(calls'[c].req.key, calls'[c].answer)
  BY DEF PspSound, OutcomeSound, Exists, Moves
<1>2. \A key, outcome : OutcomeSound(key, outcome) => Good(key, outcome)
  BY OutcomeKept
<1>3. \A key, outcome : outcome.status \notin {"succeeded", "failed"} => Good(key, outcome)
  OBVIOUS
<1>4. PspTypeOK /\ Callers \cap Slots = {}
  BY WellFormedParts, PspAssumption
<1>5. \A k \in PspKeys : Good(k, seen[k])
  BY <1>2 DEF PspSound
<1>6. \A c \in Callers : calls[c].stage = "answered" => Good(calls[c].req.key, calls[c].answer)
  BY <1>2 DEF PspSound
<1> HIDE DEF Good
<1>7. CASE ~PspStep
  <2>1. ServiceCalls /\ UNCHANGED seen
    BY <1>7, StepCalls
  <2>2. ASSUME NEW c \in Callers, calls'[c].stage = "answered"
        PROVE  calls'[c] = calls[c]
    <3>1. NoCall.stage = "none" /\ \A req : Sent(req).stage = "sent"
      BY DEF NoCall, Sent
    <3> QED BY <2>1, <2>2, <3>1 DEF ServiceCalls
  <2> QED BY <1>5, <1>6, <2>1, <2>2
<1>8. CASE PspRestart
  <2>1. \A k \in PspKeys : Good(k, seen'[k])
    BY <1>3, <1>8 DEF PspRestart, NotSeen
  <2>2. ASSUME NEW c \in Callers, calls'[c].stage = "answered"
        PROVE  calls'[c] = calls[c] \/ calls'[c].answer.status = "reset"
    BY <1>8, <2>2 DEF PspRestart, Answered, Reset
  <2> QED BY <1>3, <1>6, <2>1, <2>2
<1>9. ASSUME NEW x \in Callers \cup Slots, PspHandle(x)
      PROVE  /\ \A k \in PspKeys : Good(k, seen'[k])
             /\ \A c \in Callers :
                  calls'[c].stage = "answered" => Good(calls'[c].req.key, calls'[c].answer)
  <2>1. ASSUME NEW outcome, Reply(x, outcome), calls[x].stage \in {"sent", "sleeping"},
               Good(calls[x].req.key, outcome)
        PROVE  \A c \in Callers :
                 calls'[c].stage = "answered" => Good(calls'[c].req.key, calls'[c].answer)
    <3> SUFFICES ASSUME NEW c \in Callers, calls'[c].stage = "answered"
                 PROVE  Good(calls'[c].req.key, calls'[c].answer)
      OBVIOUS
    <3>1. CASE c = x
      <4>1. calls'[c].req = calls[x].req /\ calls'[c].answer = outcome
        BY <1>4, <2>1, <3>1 DEF Reply, Answered, PspTypeOK
      <4> QED BY <2>1, <4>1
    <3>2. CASE c # x
      BY <1>4, <1>6, <2>1, <3>2 DEF Reply, PspTypeOK
    <3> QED BY <3>1, <3>2
  <2>2. CASE ReplayRecorded(x)
    <3>1. calls[x].req.key \in PspKeys
      BY <1>4, <2>2 DEF ReplayRecorded, PspTypeOK, Calls, NoCall, ChargeRequest
    <3> QED BY <1>5, <2>1, <2>2, <3>1 DEF ReplayRecorded
  <2>3. CASE Refuse(x)
    <3>1. ServerError.status \notin {"succeeded", "failed"} /\ BadRequest.status \notin {"succeeded", "failed"}
      BY DEF ServerError, BadRequest
    <3> QED BY <1>3, <1>5, <2>1, <2>3, <3>1 DEF Refuse
  <2>4. CASE BeginCharge(x)
    <3>1. ASSUME NEW c \in Callers, calls'[c].stage = "answered" PROVE calls'[c] = calls[c]
      BY <1>4, <2>4, <3>1 DEF BeginCharge, Sleeping, PspTypeOK
    <3> QED BY <1>5, <1>6, <2>4, <3>1 DEF BeginCharge
  <2>5. CASE SettleCharge(x)
    <3>1. PICK outcome :
            /\ seen' = [seen EXCEPT ![calls[x].req.key] = outcome]
            /\ Reply(x, outcome)
            /\ Good(calls[x].req.key, outcome)
      BY <2>5, SettleSound DEF Good
    <3>2. \A k \in PspKeys : Good(k, seen'[k])
      BY <1>4, <1>5, <3>1 DEF PspTypeOK
    <3> QED BY <2>1, <2>5, <3>1, <3>2 DEF SettleCharge
  <2> QED BY <1>9, <2>2, <2>3, <2>4, <2>5 DEF PspHandle, PspReceive
<1> QED BY <1>7, <1>8, <1>9 DEF PspStep

-----------------------------------------------------------------------------
(* Layer 5: the books                                                      *)

\* Businesses that never share a key never share a charge.
LEMMA KeyNamesAttempt ==
  ASSUME DisjointKeys, WellFormed, AttemptsSound,
         NEW a \in AttemptIds, NEW b \in AttemptIds, Exists(a), Exists(b),
         attempts[a].key = attempts[b].key
  PROVE  a = b
<1>1. DbOK
  BY WellFormedParts
<1>2. /\ Owner[attempts[a].invoice] \in Businesses
      /\ Owner[attempts[b].invoice] \in Businesses
  BY <1>1, AttemptShape
<1>3. Owner[attempts[a].invoice] = Owner[attempts[b].invoice]
  BY <1>2 DEF DisjointKeys, AttemptsSound
<1>4. KeyOf(a) = KeyOf(b)
  BY <1>3 DEF KeyOf
<1> QED BY <1>4 DEF AttemptsSound

\* What a caller may conclude from what charge() returned.
LEMMA ResultSound ==
  ASSUME DisjointKeys, WellFormed, AttemptsSound, CallsSound, ChargesSound, PspSound,
         NEW c \in Callers, Work(c) # NoId
  PROVE  /\ ChargeResult(c).kind = "Succeeded" =>
              /\ ChargeResult(c).ref \in DOMAIN charges
              /\ charges[ChargeResult(c).ref] = ChargeOf(Work(c))
         /\ ChargeResult(c).kind = "Declined" => ~Moves(attempts[Work(c)].token)
<1> DEFINE a == Work(c)
           ans == calls[c].answer
<1>1. /\ a \in AttemptIds /\ Exists(a) /\ calls[c].req = ChargeOf(a)
      /\ calls[c].req.key = attempts[a].key
  BY WorkExists DEF CallsSound, ChargeOf
<1>2. ASSUME ChargeResult(c).kind # "Unknown"
      PROVE  /\ calls[c].stage = "answered"
             /\ ChargeResult(c) = PspResult(ans)
             /\ OutcomeSound(attempts[a].key, ans)
  BY <1>1, <1>2 DEF ChargeResult, Unknown, PspSound
<1>3. ASSUME ChargeResult(c).kind = "Succeeded"
      PROVE  ChargeResult(c).ref \in DOMAIN charges /\ charges[ChargeResult(c).ref] = ChargeOf(a)
  <2>1. ans.status = "succeeded" /\ ChargeResult(c).ref = ans.ref
    BY <1>2, <1>3 DEF PspResult
  <2>2. ans.ref \in DOMAIN charges /\ charges[ans.ref].key = attempts[a].key
    BY <1>2, <1>3, <2>1 DEF OutcomeSound
  <2>3. PICK b \in AttemptIds : Exists(b) /\ ChargeOf(b) = charges[ans.ref]
    BY <2>2 DEF ChargesSound
  <2>4. attempts[b].key = attempts[a].key
    BY <2>2, <2>3 DEF ChargeOf
  <2> QED BY <1>1, <2>1, <2>2, <2>3, <2>4, KeyNamesAttempt
<1>4. ASSUME ChargeResult(c).kind = "Declined"
      PROVE  ~Moves(attempts[a].token)
  <2>1. ans.status = "failed"
    BY <1>2, <1>4 DEF PspResult
  <2> QED BY <1>1, <1>2, <1>4, <2>1, KeyNamesAttempt DEF OutcomeSound
<1> QED BY <1>3, <1>4

LEMMA BooksSoundKept ==
  ASSUME DisjointKeys, WellFormed, AttemptsSound, CallsSound, ChargesSound, PspSound,
         BooksSound, Next
  PROVE  BooksSound'
<1>1. PspTypeOK /\ DbOK /\ AttemptsKept
  BY NextWellFormed, WellFormedParts
<1> SUFFICES ASSUME NEW a \in AttemptIds, attempts'[a] # NoAttempt
             PROVE  /\ attempts'[a].status = "succeeded" =>
                         /\ attempts'[a].ref \in DOMAIN charges'
                         /\ charges'[attempts'[a].ref] = ChargeOf(a)'
                    /\ attempts'[a].status = "failed" => ~Moves(attempts'[a].token)
  BY DEF BooksSound, Exists, ChargeOf, Moves
<1>2. CASE ~Exists(a)
  <2>1. attempts'[a].status = "pending"
    <3>1. \E row : row.status = "pending" /\ attempts' = [attempts EXCEPT ![a] = row]
      BY <1>2, NewAttempt
    <3> QED BY <1>1, <3>1 DEF DbOK
  <2> QED BY <2>1
<1>3. ASSUME Exists(a), attempts'[a].status = attempts[a].status,
             attempts'[a].ref = attempts[a].ref
      PROVE  /\ attempts'[a].status = "succeeded" =>
                  attempts'[a].ref \in DOMAIN charges' /\ charges'[attempts'[a].ref] = ChargeOf(a)
             /\ attempts'[a].status = "failed" => ~Moves(attempts[a].token)
  BY <1>3, ChargesGrow DEF BooksSound
<1>4. ASSUME NEW c \in Callers, Work(c) = a, Exists(a), attempts[a].status = "pending",
             a # NoId, Finalize(a, ChargeResult(c)), UNCHANGED <<seen, charges>>
      PROVE  /\ attempts'[a].status = "succeeded" =>
                  attempts'[a].ref \in DOMAIN charges' /\ charges'[attempts'[a].ref] = ChargeOf(a)
             /\ attempts'[a].status = "failed" => ~Moves(attempts[a].token)
  <2>1. ChargeResult(c) \in PspResults
    BY <1>1, ChargeResultType
  <2>2. ChargeResult(c).kind \in {"Succeeded", "Declined", "Unknown"}
    BY <2>1 DEF PspResults, Unknown
  <2> QED BY <1>1, <1>4, <2>1, <2>2, FinalizeEffect, ResultSound
<1>5. CASE Exists(a)
  <2>1. ChargeOf(a)' = ChargeOf(a) /\ attempts'[a].token = attempts[a].token
    BY <1>1, <1>5, ChargeOfKept DEF AttemptsKept
  <2>2. ASSUME NEW h \in Handlers, ClaimAttempt(h) PROVE attempts'[a] = attempts[a]
    BY <1>1, <1>5, <2>2 DEF ClaimAttempt, DbOK
  <2>3. ASSUME NEW c \in Callers, Work(c) # NoId, Finalize(Work(c), ChargeResult(c)),
               ~(Work(c) = a /\ attempts[a].status = "pending")
        PROVE  attempts'[a] = attempts[a]
    BY <1>1, <2>3, WorkExists, ChargeResultType, FinalizeEffect
  <2> QED BY <1>3, <1>4, <1>5, <2>1, <2>2, <2>3, AttemptSteps DEF Settled, Moves
<1> QED BY <1>2, <1>5

-----------------------------------------------------------------------------
(* The theorems                                                            *)

\* The inductive invariant of the payment flow, for every value of the constants
\* in which no two businesses share a key.
THEOREM Inductive ==
  ASSUME DisjointKeys
  PROVE  Spec => []IndInv
<1>1. Init => IndInv
  <2> SUFFICES ASSUME Init PROVE IndInv
    OBVIOUS
  <2>1. WellFormed
    BY InitWellFormed
  <2>2. AttemptsSound /\ SingleActive /\ BooksSound
    BY DEF Init, AttemptsSound, SingleActive, Active, BooksSound, Exists
  <2>3. \A c \in Callers : Work(c) = NoId
    BY FlowAssumption DEF Init, Work, Idle, RecIdle
  <2>4. CallsSound
    BY <2>3 DEF Init, PspInit, CallsSound
  <2>5. ChargesSound /\ PspSound
    BY DEF Init, PspInit, ChargesSound, PspSound, OutcomeSound, NotSeen, NoCall
  <2> QED BY <2>1, <2>2, <2>4, <2>5 DEF IndInv, WellFormed
<1>2. IndInv /\ [Next]_vars => IndInv'
  <2>1. IndInv /\ Next => IndInv'
    BY NextWellFormed, AttemptsSoundKept, SingleActiveKept, CallsSoundKept, ChargesSoundKept,
       PspSoundKept, BooksSoundKept DEF IndInv, WellFormed
  <2>2. IndInv /\ UNCHANGED vars => IndInv'
    <3> SUFFICES ASSUME IndInv, UNCHANGED vars PROVE IndInv'
      OBVIOUS
    <3> USE DEF Exists, ChargeOf, vars, pspVars, dbVars, taskVars
    <3>1. WellFormed'
      BY StutterKeeps DEF IndInv, WellFormed
    <3>2. AttemptsSound' /\ SingleActive' /\ BooksSound'
      BY DEF IndInv, AttemptsSound, SingleActive, Active, BooksSound, KeyOf
    <3>3. CallsSound' /\ ChargesSound'
      BY DEF IndInv, CallsSound, Work, ChargesSound
    <3>4. PspSound'
      BY DEF IndInv, PspSound, OutcomeSound
    <3> QED BY <3>1, <3>2, <3>3, <3>4 DEF IndInv, WellFormed
  <2> QED BY <2>1, <2>2
<1> QED BY <1>1, <1>2, PTL DEF Spec

\* A succeeded attempt points at a charge of its own key, card and amount, and a
\* failed one was never charged, however requests, retries, crashes, reconcilers
\* and restarts of the PSP interleave.
THEOREM BooksAgree ==
  ASSUME DisjointKeys
  PROVE  Spec => []BooksMatchPsp
<1>1. IndInv => BooksMatchPsp
  <2> SUFFICES ASSUME IndInv, NEW a \in AttemptIds, Exists(a), attempts[a].status = "failed",
                      NEW n \in DOMAIN charges, charges[n].key = attempts[a].key
               PROVE  FALSE
    BY DEF IndInv, BooksSound, BooksMatchPsp, ChargesOf
  <2>1. PICK b \in AttemptIds : Exists(b) /\ ChargeOf(b) = charges[n] /\ Moves(charges[n].token)
    BY DEF IndInv, ChargesSound
  <2>2. attempts[b].key = attempts[a].key /\ Moves(attempts[b].token)
    BY <2>1 DEF ChargeOf
  <2>3. a = b
    BY <2>1, <2>2, KeyNamesAttempt DEF IndInv, WellFormed
  <2> QED BY <2>2, <2>3 DEF IndInv, BooksSound
<1> QED BY <1>1, Inductive, PTL

\* At most one attempt of an invoice is ever charged.
THEOREM ChargedOnce ==
  ASSUME DisjointKeys
  PROVE  Spec => []OneChargedAttempt
<1>1. ASSUME IndInv, NEW a \in AttemptIds, Exists(a), ChargesOf(a) # {}
      PROVE  Active(a)
  <2>1. PICK n \in DOMAIN charges : charges[n].key = attempts[a].key
    BY <1>1 DEF ChargesOf
  <2>2. PICK b \in AttemptIds : Exists(b) /\ ChargeOf(b) = charges[n] /\ Moves(charges[n].token)
    BY <1>1 DEF IndInv, ChargesSound
  <2>3. attempts[b].key = attempts[a].key /\ Moves(attempts[b].token)
    BY <2>1, <2>2 DEF ChargeOf
  <2>4. a = b
    BY <1>1, <2>2, <2>3, KeyNamesAttempt DEF IndInv, WellFormed
  <2>5. attempts[a].status # "failed"
    BY <1>1, <2>3, <2>4 DEF IndInv, BooksSound
  <2>6. attempts[a].status \in AttemptStatus
    BY <1>1, WellFormedParts, AttemptShape DEF IndInv, WellFormed, AttemptRow
  <2> QED BY <1>1, <2>5, <2>6 DEF Active, AttemptStatus
<1>2. IndInv => OneChargedAttempt
  BY <1>1 DEF IndInv, SingleActive, OneChargedAttempt
<1> QED BY <1>2, Inductive, PTL
=============================================================================
