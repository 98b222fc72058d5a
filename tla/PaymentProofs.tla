---------------------------- MODULE PaymentProofs ----------------------------
(***************************************************************************)
(* Proofs about PaymentFlow, for any number of businesses, invoices, keys, *)
(* attempts, requests, reconcilers, executions that outlive their caller,  *)
(* and restarts of the PSP.                                                 *)
(***************************************************************************)
EXTENDS PaymentInvariant, TLAPS

\* The first layer: shapes and references.
WellFormed == TypeOK /\ References

\* Attempts are only added, and an attempt keeps what it was created with.
AttemptsKept ==
  \A a \in AttemptIds : Exists(a) =>
    /\ attempts'[a] # NoAttempt
    /\ attempts'[a].invoice = attempts[a].invoice
    /\ attempts'[a].key = attempts[a].key
    /\ attempts'[a].token = attempts[a].token
    /\ attempts'[a].amount = attempts[a].amount

\* Keys are only added, and a key keeps the attempt it is linked to.
KeysKept ==
  \A b \in Businesses, k \in PspKeys : keys[b][k] # FreeKey =>
    /\ keys'[b][k] # FreeKey
    /\ keys'[b][k].attempt = keys[b][k].attempt

-----------------------------------------------------------------------------
(* The calls                                                               *)

\* What giving up a call does: the caller is free, nobody else's call changes,
\* and a slot holds what it held or the call that was given up.
LEMMA HangUpCalls ==
  ASSUME PspTypeOK, NEW c \in Callers, HangUp(c)
  PROVE  /\ calls' \in [Callers \cup Slots -> Calls]
         /\ calls'[c] = NoCall
         /\ \A x \in Callers \ {c} : calls'[x] = calls[x]
         /\ \A s \in Slots : calls'[s] = calls[s] \/ (Waiting(c) /\ calls'[s] = calls[c])
<1>1. NoCall \in Calls /\ c \notin Slots
  BY PspAssumption DEF Calls
<1>2. CASE calls' = [calls EXCEPT ![c] = NoCall]
  BY <1>1, <1>2 DEF PspTypeOK
<1>3. CASE Waiting(c) /\ \E s \in Slots : calls' = [calls EXCEPT ![c] = NoCall, ![s] = calls[c]]
  <2>1. PICK s \in Slots : calls' = [calls EXCEPT ![c] = NoCall, ![s] = calls[c]]
    BY <1>3
  <2> QED BY <1>1, <1>3, <2>1, PspAssumption DEF PspTypeOK
<1> QED BY <1>2, <1>3 DEF HangUp

\* An answer goes to the caller of a call, or nowhere.
LEMMA ReplyCalls ==
  ASSUME PspTypeOK, NEW x \in Callers \cup Slots, NEW ans \in Answers,
         calls[x].stage \in {"sent", "sleeping"}, Reply(x, ans)
  PROVE  /\ calls' \in [Callers \cup Slots -> Calls]
         /\ \A y \in (Callers \cup Slots) \ {x} : calls'[y] = calls[y]
         /\ x \in Callers => calls'[x] = Answered(calls[x].req, ans)
         /\ x \notin Callers => calls'[x] = NoCall
<1>1. calls[x].req \in ChargeRequest
  BY DEF PspTypeOK, Calls, NoCall
<1>2. Answered(calls[x].req, ans) \in Calls /\ NoCall \in Calls
  BY <1>1 DEF Answered, Calls
<1> QED BY <1>2 DEF Reply, PspTypeOK

-----------------------------------------------------------------------------
(* Layer 1: shapes and references                                          *)

LEMMA PspStepType ==
  ASSUME WellFormed, PspStep
  PROVE  WellFormed' /\ AttemptsKept /\ KeysKept
<1> USE DEF WellFormed, TypeOK
<1>1. UNCHANGED <<dbVars, taskVars>>
  BY DEF PspStep
<1>2. References' /\ AttemptsKept /\ KeysKept
  BY <1>1 DEF References, AttemptsKept, KeysKept, dbVars, taskVars, Exists, KeyOf
<1>3. SUFFICES PspTypeOK'
  BY <1>1, <1>2 DEF dbVars, taskVars
<1>4. CASE PspRestart
  <2>1. restarts' \in 0 .. MaxPspRestarts
    BY <1>4, PspAssumption DEF PspRestart, PspTypeOK
  <2>2. calls' \in [Callers \cup Slots -> Calls]
    <3>1. ASSUME NEW c \in Callers \cup Slots, calls[c].stage = "sleeping"
          PROVE  Answered(calls[c].req, Reset) \in Calls
      BY <3>1 DEF PspTypeOK, Calls, NoCall, Answered, Answers
    <3> QED BY <1>4, <3>1 DEF PspRestart, PspTypeOK, Calls
  <2> QED BY <1>4, <2>1, <2>2 DEF PspRestart, PspTypeOK
<1>5. ASSUME NEW x \in Callers \cup Slots, ReplayRecorded(x) PROVE PspTypeOK'
  <2>1. seen[calls[x].req.key] \in Answers
    BY <1>5 DEF ReplayRecorded, PspTypeOK, Calls, NoCall, ChargeRequest, Answers
  <2> QED BY <1>5, <2>1, ReplyCalls DEF ReplayRecorded, PspTypeOK
<1>6. ASSUME NEW x \in Callers \cup Slots, Refuse(x) PROVE PspTypeOK'
  <2>1. ServerError \in Answers /\ BadRequest \in Answers
    BY DEF Answers
  <2> QED BY <1>6, <2>1, ReplyCalls DEF Refuse, PspTypeOK
<1>7. ASSUME NEW x \in Callers \cup Slots, BeginCharge(x) PROVE PspTypeOK'
  BY <1>7 DEF BeginCharge, PspTypeOK, Sleeping, Calls, NoCall
<1>8. ASSUME NEW x \in Callers \cup Slots, SettleCharge(x) PROVE PspTypeOK'
  <2> DEFINE req     == calls[x].req
             outcome == IF Moves(req.token) THEN Succeeded(Len(charges) + 1) ELSE Failed
  <2>1. /\ req \in ChargeRequest
        /\ charges' = IF Moves(req.token) THEN Append(charges, req) ELSE charges
        /\ seen' = [seen EXCEPT ![req.key] = outcome]
        /\ Reply(x, outcome)
        /\ UNCHANGED restarts
    BY <1>8 DEF SettleCharge, PspTypeOK, Calls, NoCall
  <2>2. outcome \in ChargeOutcome /\ outcome \in Answers
    BY DEF Succeeded, ChargeOutcome, Answers, PspTypeOK
  <2>3. calls' \in [Callers \cup Slots -> Calls]
    BY <1>8, <2>1, <2>2, ReplyCalls DEF SettleCharge
  <2>4. charges' \in Seq(ChargeRequest)
    BY <2>1 DEF PspTypeOK
  <2> QED BY <2>1, <2>2, <2>3, <2>4 DEF PspTypeOK
<1> QED
  BY <1>4, <1>5, <1>6, <1>7, <1>8 DEF PspStep, PspHandle, PspReceive

\* Steps that change nothing but the state of one handler, short of a charge.
LEMMA HandlerOnlyType ==
  ASSUME WellFormed, NEW h \in Handlers, NEW st \in HandlerState, st.pc # "charge",
         handlers' = [handlers EXCEPT ![h] = st],
         UNCHANGED <<pspVars, dbVars, recs, polls>>
  PROVE  WellFormed' /\ AttemptsKept /\ KeysKept
  BY DEF WellFormed, TypeOK, PspTypeOK, References, AttemptsKept, KeysKept, pspVars, dbVars,
         Exists, KeyOf

\* A request that was read or claimed is well shaped.
LEMMA RequestShape ==
  ASSUME TypeOK, NEW h \in Handlers, handlers[h].pc \in {"claim", "replay", "charge"}
  PROVE  /\ handlers[h].req \in PayRequest
         /\ handlers[h].req.invoice \in Invoices
         /\ handlers[h].req.key \in PspKeys
         /\ handlers[h].req.token \in Tokens
         /\ handlers[h].req.key \in KeysOf[Owner[handlers[h].req.invoice]]
         /\ Owner[handlers[h].req.invoice] \in Businesses
<1>1. handlers[h].req \in PayRequest
  BY DEF TypeOK, HandlerState
<1> QED BY <1>1, FlowAssumption DEF PayRequest

LEMMA IdleState ==
  ASSUME NEW resp \in Response
  PROVE  Idle(resp) \in HandlerState /\ Idle(resp).pc = "idle"
  BY DEF Idle, HandlerState

LEMMA ErrorShape ==
  ASSUME NEW code \in {"none", "validation_error", "not_found", "invoice_not_payable",
                       "payment_in_progress", "idempotency_key_reuse", "internal_error"}
  PROVE  ErrorResp(code) \in Response
  BY DEF ErrorResp, Resp, Response

LEMMA ReadStepsType ==
  ASSUME WellFormed, NEW h \in Handlers,
         \/ PayRejected(h) \/ PayRead(h) \/ ClaimReplay(h) \/ ClaimNotPayable(h) \/ ClaimRace(h)
         \/ ReplayMismatch(h) \/ ReplayCompleted(h) \/ ReplayPending(h)
  PROVE  \E st \in HandlerState :
           /\ st.pc # "charge"
           /\ handlers[h].pc # "charge"
           /\ handlers' = [handlers EXCEPT ![h] = st]
           /\ UNCHANGED <<pspVars, dbVars, recs, polls>>
<1> USE DEF Answer
<1>1. CASE PayRejected(h)
  BY <1>1, IdleState, ErrorShape DEF PayRejected
<1>2. CASE PayRead(h)
  <2>1. PICK req \in PayRequest :
          handlers' = [handlers EXCEPT ![h] =
                         [pc |-> "claim", req |-> req, state |-> inv[req.invoice]]]
    BY <1>2 DEF PayRead
  <2>2. [pc |-> "claim", req |-> req, state |-> inv[req.invoice]] \in HandlerState
    BY DEF WellFormed, TypeOK, PayRequest, HandlerState
  <2> QED BY <1>2, <2>1, <2>2 DEF PayRead
<1>3. CASE ClaimReplay(h)
  <2>1. [pc |-> "replay", req |-> handlers[h].req] \in HandlerState
    BY <1>3, RequestShape DEF ClaimReplay, WellFormed, HandlerState
  <2> QED BY <1>3, <2>1 DEF ClaimReplay
<1>4. CASE ClaimNotPayable(h)
  BY <1>4, IdleState, ErrorShape DEF ClaimNotPayable
<1>5. CASE ClaimRace(h)
  BY <1>5, IdleState, ErrorShape DEF ClaimRace
<1>6. CASE ReplayMismatch(h)
  BY <1>6, IdleState, ErrorShape DEF ReplayMismatch
<1> DEFINE row == keys[Owner[handlers[h].req.invoice]][handlers[h].req.key]
<1>7. ASSUME handlers[h].pc = "replay" PROVE row \in KeyRow \cup {FreeKey}
  BY <1>7, RequestShape DEF WellFormed, TypeOK
<1>8. CASE ReplayCompleted(h)
  <2>1. row \in KeyRow \cup {FreeKey} /\ row.status = "completed"
    BY <1>7, <1>8 DEF ReplayCompleted
  <2>2. row.resp \in Response
    <3> HIDE DEF row
    <3> QED BY <2>1 DEF KeyRow, FreeKey
  <2> QED BY <1>8, <2>2, IdleState DEF ReplayCompleted
<1>9. CASE ReplayPending(h)
  <2>1. row \in KeyRow \cup {FreeKey} /\ row.status = "in_progress"
    BY <1>7, <1>9 DEF ReplayPending
  <2>2. row.attempt \in AttemptIds
    <3> HIDE DEF row
    <3> QED BY <2>1 DEF KeyRow, FreeKey
  <2>3. Resp("pending", row.attempt, 0) \in Response
    BY <2>2 DEF Resp, Response
  <2> QED BY <1>9, <2>3, IdleState DEF ReplayPending
<1> QED BY <1>1, <1>2, <1>3, <1>4, <1>5, <1>6, <1>8, <1>9

\* What transaction 1 commits, with the rows it writes named.
LEMMA ClaimFacts ==
  ASSUME WellFormed, NEW h \in Handlers, ClaimAttempt(h)
  PROVE  \E a \in AttemptIds :
           LET req == handlers[h].req
               row == [invoice |-> req.invoice, key |-> req.key, token |-> req.token,
                       amount |-> Total[req.invoice], status |-> "pending", ref |-> 0,
                       poll |-> "null"]
           IN  /\ ~Exists(a)
               /\ row \in AttemptRow
               /\ attempts' = [attempts EXCEPT ![a] = row]
               /\ ClaimedKey(req, a) \in KeyRow
               /\ keys[Owner[req.invoice]][req.key] = FreeKey
               /\ keys' = [keys EXCEPT ![Owner[req.invoice]][req.key] = ClaimedKey(req, a)]
               /\ handlers' = [handlers EXCEPT ![h] =
                                 [pc |-> "charge", req |-> req, attempt |-> a]]
               /\ calls' = [calls EXCEPT ![h] =
                              Sent([key |-> req.key, token |-> req.token,
                                    amount |-> Total[req.invoice]])]
               /\ [key |-> req.key, token |-> req.token, amount |-> Total[req.invoice]]
                    \in ChargeRequest
<1> DEFINE req == handlers[h].req
           amt == Total[req.invoice]
           row == [invoice |-> req.invoice, key |-> req.key, token |-> req.token,
                   amount |-> amt, status |-> "pending", ref |-> 0, poll |-> "null"]
<1>1. /\ req \in PayRequest /\ req.invoice \in Invoices /\ req.key \in PspKeys
      /\ req.token \in Tokens /\ amt \in Amounts
  BY RequestShape, FlowAssumption DEF ClaimAttempt, WellFormed
<1>2. PICK a \in AttemptIds :
        /\ ~Exists(a)
        /\ attempts' = [attempts EXCEPT ![a] = row]
        /\ keys' = [keys EXCEPT ![Owner[req.invoice]][req.key] = ClaimedKey(req, a)]
        /\ handlers' = [handlers EXCEPT ![h] = [pc |-> "charge", req |-> req, attempt |-> a]]
        /\ calls' = [calls EXCEPT ![h] = Sent([key |-> req.key, token |-> req.token,
                                               amount |-> amt])]
  BY DEF ClaimAttempt, SendCharge
<1>3. row \in AttemptRow
  BY <1>1 DEF AttemptRow, AttemptStatus
<1>4. ClaimedKey(req, a) \in KeyRow
  BY <1>1 DEF ClaimedKey, KeyRow, Fingerprint
<1>5. [key |-> req.key, token |-> req.token, amount |-> amt] \in ChargeRequest
  BY <1>1 DEF ChargeRequest
<1>6. keys[Owner[req.invoice]][req.key] = FreeKey
  BY DEF ClaimAttempt, KeyTaken
<1> HIDE DEF row, req, amt
<1>7. QED BY <1>2, <1>3, <1>4, <1>5, <1>6 DEF row, req, amt

LEMMA ClaimType ==
  ASSUME WellFormed, NEW h \in Handlers, ClaimAttempt(h)
  PROVE  WellFormed' /\ AttemptsKept /\ KeysKept
<1> DEFINE req == handlers[h].req
           row == [invoice |-> req.invoice, key |-> req.key, token |-> req.token,
                   amount |-> Total[req.invoice], status |-> "pending", ref |-> 0,
                   poll |-> "null"]
           cr  == [key |-> req.key, token |-> req.token, amount |-> Total[req.invoice]]
<1>1. PICK a \in AttemptIds :
        /\ ~Exists(a)
        /\ row \in AttemptRow
        /\ attempts' = [attempts EXCEPT ![a] = row]
        /\ ClaimedKey(req, a) \in KeyRow
        /\ keys[Owner[req.invoice]][req.key] = FreeKey
        /\ keys' = [keys EXCEPT ![Owner[req.invoice]][req.key] = ClaimedKey(req, a)]
        /\ handlers' = [handlers EXCEPT ![h] = [pc |-> "charge", req |-> req, attempt |-> a]]
        /\ calls' = [calls EXCEPT ![h] = Sent(cr)]
        /\ cr \in ChargeRequest
  BY ClaimFacts
<1>2. /\ req \in PayRequest /\ Owner[req.invoice] \in Businesses /\ req.key \in PspKeys
  BY RequestShape DEF ClaimAttempt, WellFormed
<1>3. UNCHANGED <<seen, charges, restarts, inv, events, recs, polls>>
  BY DEF ClaimAttempt
<1>4. row.invoice = req.invoice /\ row.key = req.key
  OBVIOUS
<1>5. ClaimedKey(req, a) # FreeKey /\ row # NoAttempt
  BY DEF ClaimedKey, FreeKey, NoAttempt
<1> HIDE DEF row, cr, req
<1>6. TypeOK'
  <2>1. Sent(cr) \in Calls
    BY <1>1 DEF Sent, Calls
  <2>2. PspTypeOK'
    BY <1>1, <1>3, <2>1, FlowAssumption DEF WellFormed, TypeOK, PspTypeOK
  <2>3. [pc |-> "charge", req |-> req, attempt |-> a] \in HandlerState
    BY <1>2 DEF HandlerState
  <2>4. keys' \in [Businesses -> [PspKeys -> KeyRow \cup {FreeKey}]]
    BY <1>1, <1>2 DEF WellFormed, TypeOK
  <2>5. attempts' \in [AttemptIds -> AttemptRow \cup {NoAttempt}]
    BY <1>1 DEF WellFormed, TypeOK
  <2>6. handlers' \in [Handlers -> HandlerState]
    BY <1>1, <2>3 DEF WellFormed, TypeOK
  <2> QED BY <1>3, <2>2, <2>4, <2>5, <2>6 DEF WellFormed, TypeOK
<1>7. AttemptsKept
  BY <1>1 DEF AttemptsKept, Exists, WellFormed, TypeOK
<1>8. KeysKept
  BY <1>1, <1>2 DEF KeysKept, WellFormed, TypeOK
<1>9. References'
  <2>1. \A c \in AttemptIds : Exists(c)' => KeyOf(c)' # FreeKey
    <3> SUFFICES ASSUME NEW c \in AttemptIds, Exists(c)'
                 PROVE  keys'[Owner[attempts'[c].invoice]][attempts'[c].key] # FreeKey
      BY DEF KeyOf
    <3>1. CASE c = a
      BY <1>1, <1>2, <1>4, <1>5, <3>1 DEF WellFormed, TypeOK
    <3>2. CASE c # a
      <4>1. Exists(c) /\ attempts'[c] = attempts[c]
        BY <1>1, <3>2 DEF Exists, WellFormed, TypeOK
      <4>2. /\ Owner[attempts[c].invoice] \in Businesses /\ attempts[c].key \in PspKeys
            /\ KeyOf(c) # FreeKey
        BY <4>1, FlowAssumption DEF WellFormed, TypeOK, References, Exists, AttemptRow
      <4> QED BY <1>8, <4>1, <4>2 DEF KeysKept, KeyOf
    <3> QED BY <3>1, <3>2
  <2>2. (\A g \in Handlers : handlers[g].pc = "charge" => Exists(handlers[g].attempt))'
    <3> SUFFICES ASSUME NEW g \in Handlers, handlers'[g].pc = "charge"
                 PROVE  attempts'[handlers'[g].attempt] # NoAttempt
      BY DEF Exists
    <3>1. CASE g = h
      BY <1>1, <1>5, <3>1 DEF WellFormed, TypeOK
    <3>2. CASE g # h
      <4>1. handlers'[g] = handlers[g]
        BY <1>1, <3>2 DEF WellFormed, TypeOK
      <4> QED BY <1>7, <4>1 DEF AttemptsKept, WellFormed, TypeOK, References, HandlerState
    <3> QED BY <3>1, <3>2
  <2>3. (/\ \A r \in Reconcilers : \A c \in recs[r].todo : Exists(c)
         /\ \A r \in Reconcilers : recs[r].cur # NoId => Exists(recs[r].cur))'
    BY <1>3, <1>7 DEF AttemptsKept, WellFormed, TypeOK, References, RecState, Exists
  <2>4. (\A p \in Pollers : polls[p].pc # "idle" => Exists(polls[p].attempt))'
    BY <1>3, <1>7 DEF AttemptsKept, WellFormed, TypeOK, References, PollState, Exists
  <2> QED BY <2>1, <2>2, <2>3, <2>4 DEF References
<1> QED BY <1>6, <1>7, <1>8, <1>9 DEF WellFormed

-----------------------------------------------------------------------------
(* Finalize                                                                *)

\* What the UPDATE of a definite outcome makes of a row.
LEMMA RowEdits ==
  ASSUME NEW row \in AttemptRow, NEW st \in AttemptStatus, NEW ref \in Nat
  PROVE  /\ [row EXCEPT !.status = st, !.ref = ref] \in AttemptRow
         /\ [row EXCEPT !.status = st] \in AttemptRow
  BY DEF AttemptRow

PspResults == [kind : {"Succeeded"}, ref : Nat] \cup {[kind |-> "Declined"], Unknown}

LEMMA ChargeResultType ==
  ASSUME PspTypeOK, NEW c \in Callers
  PROVE  ChargeResult(c) \in PspResults
<1>1. CASE calls[c].stage = "answered"
  <2>1. calls[c].answer \in Answers
    BY <1>1 DEF PspTypeOK, Calls, NoCall
  <2>2. PspResult(calls[c].answer) \in PspResults
    BY <2>1 DEF PspResult, PspResults, Answers, ChargeOutcome, Failed, ServerError, BadRequest,
                Reset, Unknown
  <2> QED BY <1>1, <2>2 DEF ChargeResult
<1> QED BY <1>1 DEF ChargeResult, PspResults

\* The tables are well shaped, and every attempt has its key.
DbOK ==
  /\ inv \in [Invoices -> InvoiceState]
  /\ attempts \in [AttemptIds -> AttemptRow \cup {NoAttempt}]
  /\ keys \in [Businesses -> [PspKeys -> KeyRow \cup {FreeKey}]]
  /\ events \in Seq(EventRow)
  /\ \A a \in AttemptIds : Exists(a) => KeyOf(a) # FreeKey

\* The row an attempt holds, and where its key is.
LEMMA AttemptShape ==
  ASSUME DbOK, NEW a \in AttemptIds, Exists(a)
  PROVE  /\ attempts[a] \in AttemptRow
         /\ attempts[a].invoice \in Invoices
         /\ attempts[a].key \in PspKeys
         /\ Owner[attempts[a].invoice] \in Businesses
         /\ KeyOf(a) \in KeyRow
<1>1. attempts[a] \in AttemptRow
  BY DEF DbOK, Exists
<1>2. attempts[a].invoice \in Invoices /\ attempts[a].key \in PspKeys
  BY <1>1 DEF AttemptRow
<1>3. Owner[attempts[a].invoice] \in Businesses
  BY <1>2, FlowAssumption
<1> QED BY <1>1, <1>2, <1>3 DEF DbOK, KeyOf

\* A conditional UPDATE of an attempt's status, psp_ref or next_poll_at.
LEMMA UpdateKeeps ==
  ASSUME DbOK, NEW a \in AttemptIds, Exists(a), NEW row \in AttemptRow,
         row.invoice = attempts[a].invoice, row.key = attempts[a].key,
         row.token = attempts[a].token, row.amount = attempts[a].amount,
         UpdateIfPending(a, row)
  PROVE  /\ attempts' \in [AttemptIds -> AttemptRow \cup {NoAttempt}]
         /\ AttemptsKept
         /\ \A c \in AttemptIds : c # a => attempts'[c] = attempts[c]
         /\ attempts'[a] = IF attempts[a].status = "pending" THEN row ELSE attempts[a]
         /\ \A c \in AttemptIds : attempts'[c] # NoAttempt => Exists(c)
<1>1. row # NoAttempt
  BY DEF AttemptRow, NoAttempt
<1>2. attempts \in [AttemptIds -> AttemptRow \cup {NoAttempt}]
  BY DEF DbOK
<1>3. attempts'[a] = IF attempts[a].status = "pending" THEN row ELSE attempts[a]
  BY <1>2 DEF UpdateIfPending
<1>4. \A c \in AttemptIds : c # a => attempts'[c] = attempts[c]
  BY <1>2 DEF UpdateIfPending
<1>5. attempts' \in [AttemptIds -> AttemptRow \cup {NoAttempt}]
  BY <1>2 DEF UpdateIfPending
<1>6. AttemptsKept
  BY <1>1, <1>3, <1>4 DEF AttemptsKept, Exists
<1> QED BY <1>3, <1>4, <1>5, <1>6 DEF Exists

\* complete_key keeps the fingerprint and the link.
LEMMA CompleteKeyKeeps ==
  ASSUME DbOK, NEW a \in AttemptIds, Exists(a), NEW resp \in Response, CompleteKey(a, resp)
  PROVE  /\ keys' \in [Businesses -> [PspKeys -> KeyRow \cup {FreeKey}]]
         /\ KeysKept
<1> DEFINE b == Owner[attempts[a].invoice]
           k == attempts[a].key
           new == [status |-> "completed", fp |-> keys[b][k].fp,
                   attempt |-> keys[b][k].attempt, resp |-> resp]
<1>1. b \in Businesses /\ k \in PspKeys /\ keys[b][k] \in KeyRow
  BY AttemptShape DEF KeyOf
<1>2. keys' = [keys EXCEPT ![b][k] = new]
  BY DEF CompleteKey
<1>3. /\ keys[b][k].fp \in Invoices \X Tokens \X Amounts
      /\ keys[b][k].attempt \in AttemptIds
  BY <1>1 DEF KeyRow
<1>4. new \in KeyRow
  BY <1>3 DEF KeyRow
<1>5. new # FreeKey /\ new.attempt = keys[b][k].attempt
  BY DEF FreeKey
<1> HIDE DEF new, b, k
<1> QED BY <1>1, <1>2, <1>4, <1>5 DEF KeysKept, DbOK

\* Attempts and keys that are kept stay linked.
LEMMA LinksKept ==
  ASSUME DbOK, AttemptsKept, KeysKept, \A c \in AttemptIds : attempts'[c] # NoAttempt => Exists(c)
  PROVE  (\A a \in AttemptIds : Exists(a) => KeyOf(a) # FreeKey)'
<1> SUFFICES ASSUME NEW a \in AttemptIds, attempts'[a] # NoAttempt
             PROVE  keys'[Owner[attempts'[a].invoice]][attempts'[a].key] # FreeKey
  BY DEF Exists, KeyOf
<1>1. Exists(a) /\ KeyOf(a) # FreeKey
  BY DEF DbOK
<1> QED BY <1>1, AttemptShape DEF AttemptsKept, KeysKept, KeyOf

LEMMA EmitType ==
  ASSUME DbOK, NEW a \in AttemptIds, Exists(a),
         NEW type \in {"invoice.paid", "invoice.payment_failed"}, Emit(type, a)
  PROVE  events' \in Seq(EventRow)
<1> DEFINE row == [type |-> type, invoice |-> attempts[a].invoice, attempt |-> a]
<1>1. row \in EventRow
  BY AttemptShape DEF EventRow
<1> HIDE DEF row
<1> QED BY <1>1 DEF Emit, row, DbOK

\* Transaction 2 keeps the tables in shape, whatever the PSP said.
LEMMA FinalizeKeeps ==
  ASSUME DbOK, NEW a \in AttemptIds, Exists(a), NEW result \in PspResults, Finalize(a, result)
  PROVE  DbOK' /\ AttemptsKept /\ KeysKept /\ (\A c \in AttemptIds : attempts'[c] # NoAttempt => Exists(c))
<1>1. attempts[a] \in AttemptRow
  BY AttemptShape
<1>2. CASE result.kind = "Succeeded" /\ FinalizeSucceeded(a, result.ref)
  <2> DEFINE row == [attempts[a] EXCEPT !.status = "succeeded", !.ref = result.ref]
  <2>1. result.ref \in Nat
    BY <1>2 DEF PspResults, Unknown
  <2>2. row \in AttemptRow
    BY <1>1, <2>1, RowEdits DEF AttemptStatus
  <2>3. /\ row.invoice = attempts[a].invoice /\ row.key = attempts[a].key
        /\ row.token = attempts[a].token /\ row.amount = attempts[a].amount
    BY <1>1 DEF AttemptRow
  <2>4. UpdateIfPending(a, row)
    BY <1>2 DEF FinalizeSucceeded
  <2> HIDE DEF row
  <2>5. /\ attempts' \in [AttemptIds -> AttemptRow \cup {NoAttempt}]
        /\ AttemptsKept
        /\ \A c \in AttemptIds : attempts'[c] # NoAttempt => Exists(c)
    BY <2>2, <2>3, <2>4, UpdateKeeps
  <2>6. Resp("succeeded", a, result.ref) \in Response
    BY <2>1 DEF Resp, Response
  <2>7. keys' \in [Businesses -> [PspKeys -> KeyRow \cup {FreeKey}]] /\ KeysKept
    BY <1>2, <2>6, CompleteKeyKeeps DEF FinalizeSucceeded
  <2>8. events' \in Seq(EventRow)
    BY <1>2, EmitType DEF FinalizeSucceeded
  <2>9. inv' \in [Invoices -> InvoiceState]
    BY <1>2 DEF FinalizeSucceeded, DbOK, InvoiceState
  <2> QED BY <2>5, <2>7, <2>8, <2>9, LinksKept DEF DbOK
<1>3. CASE result.kind = "Declined" /\ FinalizeDeclined(a)
  <2> DEFINE row == [attempts[a] EXCEPT !.status = "failed"]
  <2>2. row \in AttemptRow
    BY <1>1, RowEdits DEF AttemptStatus
  <2>3. /\ row.invoice = attempts[a].invoice /\ row.key = attempts[a].key
        /\ row.token = attempts[a].token /\ row.amount = attempts[a].amount
    BY <1>1 DEF AttemptRow
  <2>4. UpdateIfPending(a, row)
    BY <1>3 DEF FinalizeDeclined
  <2> HIDE DEF row
  <2>5. /\ attempts' \in [AttemptIds -> AttemptRow \cup {NoAttempt}]
        /\ AttemptsKept
        /\ \A c \in AttemptIds : attempts'[c] # NoAttempt => Exists(c)
    BY <2>2, <2>3, <2>4, UpdateKeeps
  <2>6. Resp("failed", a, 0) \in Response
    BY DEF Resp, Response
  <2>7. keys' \in [Businesses -> [PspKeys -> KeyRow \cup {FreeKey}]] /\ KeysKept
    BY <1>3, <2>6, CompleteKeyKeeps DEF FinalizeDeclined
  <2>8. events' \in Seq(EventRow)
    BY <1>3, EmitType DEF FinalizeDeclined
  <2>9. inv' \in [Invoices -> InvoiceState]
    BY <1>3 DEF FinalizeDeclined, DbOK
  <2> QED BY <2>5, <2>7, <2>8, <2>9, LinksKept DEF DbOK
<1>4. CASE result.kind = "Unknown" /\ FinalizeUnknown(a)
  <2> DEFINE row == [attempts[a] EXCEPT !.poll = "later"]
  <2>2. row \in AttemptRow
    BY <1>1 DEF AttemptRow
  <2>3. /\ row.invoice = attempts[a].invoice /\ row.key = attempts[a].key
        /\ row.token = attempts[a].token /\ row.amount = attempts[a].amount
    BY <1>1 DEF AttemptRow
  <2>4. UpdateIfPending(a, row) /\ UNCHANGED <<inv, keys, events>>
    BY <1>4 DEF FinalizeUnknown
  <2> HIDE DEF row
  <2>5. /\ attempts' \in [AttemptIds -> AttemptRow \cup {NoAttempt}]
        /\ AttemptsKept
        /\ \A c \in AttemptIds : attempts'[c] # NoAttempt => Exists(c)
    BY <2>2, <2>3, <2>4, UpdateKeeps
  <2>6. KeysKept
    BY <2>4 DEF KeysKept
  <2> QED BY <2>4, <2>5, <2>6, LinksKept DEF DbOK
<1> QED BY <1>2, <1>3, <1>4 DEF Finalize

-----------------------------------------------------------------------------
(* Layer 1 for the remaining steps                                         *)

\* The references of the tasks, apart from the tables.
TaskRefs ==
  /\ \A h \in Handlers : handlers[h].pc = "charge" => Exists(handlers[h].attempt)
  /\ \A r \in Reconcilers : \A a \in recs[r].todo : Exists(a)
  /\ \A r \in Reconcilers : recs[r].cur # NoId => Exists(recs[r].cur)
  /\ \A p \in Pollers : polls[p].pc # "idle" => Exists(polls[p].attempt)

TaskTypes ==
  /\ handlers \in [Handlers -> HandlerState]
  /\ recs \in [Reconcilers -> RecState]
  /\ polls \in [Pollers -> PollState]

LEMMA WellFormedParts ==
  /\ WellFormed <=> (PspTypeOK /\ DbOK /\ TaskTypes /\ TaskRefs)
  /\ WellFormed' <=> (PspTypeOK' /\ DbOK' /\ TaskTypes' /\ TaskRefs')
  BY DEF WellFormed, TypeOK, References, DbOK, TaskTypes, TaskRefs

\* Tasks that do not move keep their references, since attempts are kept.
LEMMA TasksKept ==
  ASSUME TaskTypes, TaskRefs, AttemptsKept
  PROVE  /\ UNCHANGED handlers =>
              (\A h \in Handlers : handlers[h].pc = "charge" => Exists(handlers[h].attempt))'
         /\ UNCHANGED recs =>
              /\ (\A r \in Reconcilers : \A a \in recs[r].todo : Exists(a))'
              /\ (\A r \in Reconcilers : recs[r].cur # NoId => Exists(recs[r].cur))'
         /\ UNCHANGED polls =>
              (\A p \in Pollers : polls[p].pc # "idle" => Exists(polls[p].attempt))'
<1>1. ASSUME UNCHANGED handlers
      PROVE  (\A h \in Handlers : handlers[h].pc = "charge" => Exists(handlers[h].attempt))'
  BY <1>1 DEF TaskTypes, TaskRefs, AttemptsKept, Exists, HandlerState
<1>2. ASSUME UNCHANGED recs
      PROVE  /\ (\A r \in Reconcilers : \A a \in recs[r].todo : Exists(a))'
             /\ (\A r \in Reconcilers : recs[r].cur # NoId => Exists(recs[r].cur))'
  BY <1>2 DEF TaskTypes, TaskRefs, AttemptsKept, Exists, RecState
<1>3. ASSUME UNCHANGED polls
      PROVE  (\A p \in Pollers : polls[p].pc # "idle" => Exists(polls[p].attempt))'
  BY <1>3 DEF TaskTypes, TaskRefs, AttemptsKept, Exists, PollState
<1> QED BY <1>1, <1>2, <1>3

\* A handler that answers holds no attempt any more.
LEMMA AnswerKeeps ==
  ASSUME TaskTypes, TaskRefs, AttemptsKept, NEW h \in Handlers, NEW resp \in Response,
         Answer(h, resp)
  PROVE  /\ handlers' \in [Handlers -> HandlerState]
         /\ (\A g \in Handlers : handlers[g].pc = "charge" => Exists(handlers[g].attempt))'
<1>1. Idle(resp) \in HandlerState /\ Idle(resp).pc = "idle"
  BY IdleState
<1>2. handlers' = [handlers EXCEPT ![h] = Idle(resp)]
  BY DEF Answer
<1>3. handlers' \in [Handlers -> HandlerState]
  BY <1>1, <1>2 DEF TaskTypes
<1>4. ASSUME NEW g \in Handlers, handlers'[g].pc = "charge"
      PROVE  attempts'[handlers'[g].attempt] # NoAttempt
  <2>1. g # h /\ handlers'[g] = handlers[g]
    BY <1>1, <1>2, <1>4 DEF TaskTypes
  <2> QED BY <1>4, <2>1 DEF TaskTypes, TaskRefs, AttemptsKept, Exists, HandlerState
<1> QED BY <1>3, <1>4 DEF Exists

\* A reconciler that works on rows that exist.
LEMMA RecKeeps ==
  ASSUME TaskTypes, TaskRefs, AttemptsKept, NEW r \in Reconcilers, NEW st \in RecState,
         \A a \in st.todo : attempts'[a] # NoAttempt,
         st.cur # NoId => attempts'[st.cur] # NoAttempt,
         recs' = [recs EXCEPT ![r] = st]
  PROVE  /\ recs' \in [Reconcilers -> RecState]
         /\ (\A q \in Reconcilers : \A a \in recs[q].todo : Exists(a))'
         /\ (\A q \in Reconcilers : recs[q].cur # NoId => Exists(recs[q].cur))'
<1>1. recs' \in [Reconcilers -> RecState]
  BY DEF TaskTypes
<1>2. ASSUME NEW q \in Reconcilers
      PROVE  /\ \A a \in recs'[q].todo : attempts'[a] # NoAttempt
             /\ recs'[q].cur # NoId => attempts'[recs'[q].cur] # NoAttempt
  <2>1. CASE q = r
    BY <2>1 DEF TaskTypes
  <2>2. CASE q # r
    BY <2>2 DEF TaskTypes, TaskRefs, AttemptsKept, Exists, RecState
  <2> QED BY <2>1, <2>2
<1> QED BY <1>1, <1>2 DEF Exists

LEMMA HangUpType ==
  ASSUME PspTypeOK, NEW c \in Callers, HangUp(c), UNCHANGED <<seen, charges, restarts>>
  PROVE  PspTypeOK'
  BY HangUpCalls DEF PspTypeOK

LEMMA PayFinalizeType ==
  ASSUME WellFormed, NEW h \in Handlers, PayFinalize(h)
  PROVE  WellFormed' /\ AttemptsKept /\ KeysKept
<1> DEFINE a == handlers[h].attempt
           result == ChargeResult(h)
<1>1. PspTypeOK /\ DbOK /\ TaskTypes /\ TaskRefs /\ h \in Callers
  BY WellFormedParts, FlowAssumption
<1>2. /\ handlers[h].pc = "charge"
      /\ Finalize(a, result)
      /\ Answer(h, FinalizeResponse(a, result))
      /\ HangUp(h)
      /\ UNCHANGED <<seen, charges, restarts, recs, polls>>
  BY DEF PayFinalize
<1>3. a \in AttemptIds /\ Exists(a)
  BY <1>1, <1>2 DEF TaskTypes, TaskRefs, HandlerState
<1>4. result \in PspResults
  BY <1>1, ChargeResultType
<1>5. FinalizeResponse(a, result) \in Response
  <2> HIDE DEF a, result
  <2> QED BY <1>3, <1>4 DEF FinalizeResponse, PspResults, Unknown, Resp, Response
<1> HIDE DEF a, result
<1>6. DbOK' /\ AttemptsKept /\ KeysKept
  BY <1>1, <1>2, <1>3, <1>4, FinalizeKeeps
<1>7. PspTypeOK'
  BY <1>1, <1>2, HangUpType
<1>8. TaskTypes' /\ TaskRefs'
  BY <1>1, <1>2, <1>5, <1>6, AnswerKeeps, TasksKept DEF TaskTypes, TaskRefs
<1> QED BY <1>6, <1>7, <1>8, WellFormedParts

LEMMA AbandonPayType ==
  ASSUME WellFormed, NEW h \in Handlers, AbandonPay(h)
  PROVE  WellFormed' /\ AttemptsKept /\ KeysKept
<1>1. PspTypeOK /\ DbOK /\ TaskTypes /\ TaskRefs /\ h \in Callers
  BY WellFormedParts, FlowAssumption
<1>2. /\ Answer(h, ErrorResp("internal_error"))
      /\ HangUp(h)
      /\ UNCHANGED <<seen, charges, restarts, dbVars, recs, polls>>
  BY DEF AbandonPay
<1>3. DbOK' /\ AttemptsKept /\ KeysKept
  BY <1>1, <1>2 DEF DbOK, AttemptsKept, KeysKept, dbVars, Exists, KeyOf
<1>4. PspTypeOK'
  BY <1>1, <1>2, HangUpType
<1>5. TaskTypes' /\ TaskRefs'
  BY <1>1, <1>2, <1>3, ErrorShape, AnswerKeeps, TasksKept DEF TaskTypes, TaskRefs
<1> QED BY <1>3, <1>4, <1>5, WellFormedParts

\* Moving next_poll_at of attempts that exist keeps everything else about them.
LEMMA PollEditKeeps ==
  ASSUME DbOK, NEW rows \in SUBSET AttemptIds, \A a \in rows : Exists(a),
         NEW poll \in {"null", "later", "due"},
         attempts' = [a \in AttemptIds |->
                        IF a \in rows THEN [attempts[a] EXCEPT !.poll = poll] ELSE attempts[a]],
         UNCHANGED <<inv, keys, events>>
  PROVE  /\ DbOK' /\ AttemptsKept /\ KeysKept
         /\ \A a \in AttemptIds : attempts'[a] # NoAttempt => Exists(a)
         /\ \A a \in AttemptIds : Exists(a) =>
              attempts'[a].status = attempts[a].status /\ attempts'[a].ref = attempts[a].ref
<1>1. ASSUME NEW a \in rows
      PROVE  /\ [attempts[a] EXCEPT !.poll = poll] \in AttemptRow
             /\ [attempts[a] EXCEPT !.poll = poll] # NoAttempt
  <2>1. attempts[a] \in AttemptRow
    BY AttemptShape
  <2> QED BY <2>1 DEF AttemptRow, NoAttempt
<1>2. attempts' \in [AttemptIds -> AttemptRow \cup {NoAttempt}]
  BY <1>1 DEF DbOK
<1>3. \A a \in AttemptIds : attempts'[a] # NoAttempt => Exists(a)
  BY DEF Exists
<1>4. ASSUME NEW a \in AttemptIds, Exists(a)
      PROVE  /\ attempts'[a] # NoAttempt
             /\ attempts'[a].invoice = attempts[a].invoice
             /\ attempts'[a].key = attempts[a].key
             /\ attempts'[a].token = attempts[a].token
             /\ attempts'[a].amount = attempts[a].amount
             /\ attempts'[a].status = attempts[a].status
             /\ attempts'[a].ref = attempts[a].ref
  <2>1. attempts[a] \in AttemptRow
    BY <1>4, AttemptShape
  <2>2. CASE a \in rows
    <3>1. attempts'[a] = [attempts[a] EXCEPT !.poll = poll]
      BY <2>2
    <3> QED BY <1>1, <2>1, <2>2, <3>1 DEF AttemptRow
  <2>3. CASE a \notin rows
    BY <1>4, <2>3 DEF Exists
  <2> QED BY <2>2, <2>3
<1>5. AttemptsKept /\ KeysKept
  BY <1>4 DEF AttemptsKept, KeysKept
<1> QED BY <1>2, <1>3, <1>4, <1>5, LinksKept DEF DbOK

LEMMA LeaseType ==
  ASSUME WellFormed, NEW r \in Reconcilers, NEW rows \in SUBSET AttemptIds, LeaseRows(r, rows)
  PROVE  WellFormed' /\ AttemptsKept /\ KeysKept
<1>1. PspTypeOK /\ DbOK /\ TaskTypes /\ TaskRefs
  BY WellFormedParts
<1>2. \A a \in rows : Exists(a)
  BY DEF LeaseRows, Due
<1>3. DbOK' /\ AttemptsKept /\ KeysKept
  BY <1>1, <1>2, PollEditKeeps DEF LeaseRows
<1>4. PspTypeOK'
  BY <1>1 DEF LeaseRows, pspVars, PspTypeOK
<1> DEFINE st == [todo |-> rows, cur |-> NoId]
<1>5. st \in RecState /\ st.todo = rows /\ st.cur = NoId
  BY DEF RecState
<1>6. \A a \in st.todo : attempts'[a] # NoAttempt
  BY <1>2, <1>3 DEF AttemptsKept
<1>7. recs' = [recs EXCEPT ![r] = st] /\ UNCHANGED <<handlers, polls>>
  BY DEF LeaseRows
<1> HIDE DEF st
<1>8. TaskTypes' /\ TaskRefs'
  BY <1>1, <1>3, <1>5, <1>6, <1>7, RecKeeps, TasksKept DEF TaskTypes, TaskRefs
<1> QED BY <1>3, <1>4, <1>8, WellFormedParts

LEMMA RequeryType ==
  ASSUME WellFormed, NEW r \in Reconcilers, NEW a \in AttemptIds, Requery(r, a)
  PROVE  WellFormed' /\ AttemptsKept /\ KeysKept
<1>1. PspTypeOK /\ DbOK /\ TaskTypes /\ TaskRefs /\ r \in Callers
  BY WellFormedParts, FlowAssumption
<1>2. DbOK' /\ AttemptsKept /\ KeysKept
  BY <1>1 DEF Requery, DbOK, AttemptsKept, KeysKept, dbVars, Exists, KeyOf
<1>3. Exists(a) /\ \A c \in recs[r].todo : Exists(c)
  BY <1>1 DEF Requery, TaskRefs
<1>4. PspTypeOK'
  <2>1. ChargeOf(a) \in ChargeRequest
    BY <1>1, <1>3, AttemptShape DEF ChargeOf, ChargeRequest, AttemptRow
  <2>2. Sent(ChargeOf(a)) \in Calls
    BY <2>1 DEF Sent, Calls
  <2> QED BY <1>1, <2>2 DEF Requery, SendCharge, PspTypeOK
<1> DEFINE st == [todo |-> recs[r].todo \ {a}, cur |-> a]
<1>5. st \in RecState /\ st.todo \subseteq recs[r].todo /\ st.cur = a
  BY <1>1 DEF RecState, TaskTypes
<1>6. recs' = [recs EXCEPT ![r] = st] /\ UNCHANGED <<handlers, polls>>
  BY DEF Requery
<1>7. recs[r].todo \subseteq AttemptIds
  BY <1>1 DEF TaskTypes, RecState
<1>8. /\ \A c \in st.todo : attempts'[c] # NoAttempt
      /\ attempts'[a] # NoAttempt
  BY <1>2, <1>3, <1>5, <1>7 DEF AttemptsKept
<1> HIDE DEF st
<1>9. TaskTypes' /\ TaskRefs'
  BY <1>1, <1>2, <1>5, <1>6, <1>8, RecKeeps, TasksKept DEF TaskTypes, TaskRefs
<1> QED BY <1>2, <1>4, <1>9, WellFormedParts

\* A reconciler that is done with a row, or gives it or the whole batch up.
LEMMA RecReleaseKeeps ==
  ASSUME TaskTypes, TaskRefs, AttemptsKept, NEW r \in Reconcilers,
         NEW todo \in SUBSET recs[r].todo,
         recs' = [recs EXCEPT ![r] = [todo |-> todo, cur |-> NoId]],
         UNCHANGED <<handlers, polls>>
  PROVE  TaskTypes' /\ TaskRefs'
<1> DEFINE st == [todo |-> todo, cur |-> NoId]
<1>1. recs[r].todo \subseteq AttemptIds
  BY DEF TaskTypes, RecState
<1>2. st \in RecState /\ st.todo = todo /\ st.cur = NoId
  BY <1>1 DEF RecState
<1>3. \A c \in st.todo : attempts'[c] # NoAttempt
  BY <1>1, <1>2 DEF TaskRefs, AttemptsKept
<1>4. recs' = [recs EXCEPT ![r] = st]
  OBVIOUS
<1> HIDE DEF st
<1> QED BY <1>2, <1>3, <1>4, RecKeeps, TasksKept DEF TaskTypes, TaskRefs

LEMMA RecFinalizeType ==
  ASSUME WellFormed, NEW r \in Reconcilers, RecFinalize(r)
  PROVE  WellFormed' /\ AttemptsKept /\ KeysKept
<1>1. PspTypeOK /\ DbOK /\ TaskTypes /\ TaskRefs /\ r \in Callers
  BY WellFormedParts, FlowAssumption
<1>2. recs[r].cur \in AttemptIds /\ Exists(recs[r].cur)
  BY <1>1 DEF RecFinalize, TaskTypes, TaskRefs, RecState
<1>3. ChargeResult(r) \in PspResults
  BY <1>1, ChargeResultType
<1>4. DbOK' /\ AttemptsKept /\ KeysKept
  BY <1>1, <1>2, <1>3, FinalizeKeeps DEF RecFinalize
<1>5. PspTypeOK'
  BY <1>1, HangUpType DEF RecFinalize
<1>6. TaskTypes' /\ TaskRefs'
  BY <1>1, <1>4, RecReleaseKeeps DEF RecFinalize
<1> QED BY <1>4, <1>5, <1>6, WellFormedParts

LEMMA RecGiveUpType ==
  ASSUME WellFormed, NEW r \in Reconcilers, RecFinalizeFails(r) \/ RecCrash(r)
  PROVE  WellFormed' /\ AttemptsKept /\ KeysKept
<1>1. PspTypeOK /\ DbOK /\ TaskTypes /\ TaskRefs /\ r \in Callers
  BY WellFormedParts, FlowAssumption
<1>2. HangUp(r) /\ UNCHANGED <<seen, charges, restarts, dbVars, handlers, polls>>
  BY DEF RecFinalizeFails, RecCrash
<1>3. DbOK' /\ AttemptsKept /\ KeysKept
  BY <1>1, <1>2 DEF DbOK, AttemptsKept, KeysKept, dbVars, Exists, KeyOf
<1>4. PspTypeOK'
  BY <1>1, <1>2, HangUpType
<1>5. TaskTypes' /\ TaskRefs'
  BY <1>1, <1>2, <1>3, RecReleaseKeeps DEF RecFinalizeFails, RecCrash, RecIdle
<1> QED BY <1>3, <1>4, <1>5, WellFormedParts

LEMMA PollTimePassesType ==
  ASSUME WellFormed, NEW a \in AttemptIds, PollTimePasses(a)
  PROVE  WellFormed' /\ AttemptsKept /\ KeysKept
<1>1. PspTypeOK /\ DbOK /\ TaskTypes /\ TaskRefs
  BY WellFormedParts
<1>2. Exists(a) /\ attempts[a] \in AttemptRow
  BY <1>1, AttemptShape DEF PollTimePasses
<1>3. attempts' = [c \in AttemptIds |->
                     IF c \in {a} THEN [attempts[c] EXCEPT !.poll = "due"] ELSE attempts[c]]
  BY <1>1 DEF PollTimePasses, DbOK
<1>4. DbOK' /\ AttemptsKept /\ KeysKept
  <2>1. {a} \in SUBSET AttemptIds /\ (\A c \in {a} : Exists(c)) /\ UNCHANGED <<inv, keys, events>>
    BY <1>2 DEF PollTimePasses
  <2> QED BY <1>1, <1>3, <2>1, PollEditKeeps
<1>5. PspTypeOK' /\ TaskTypes' /\ TaskRefs'
  BY <1>1, <1>4, TasksKept DEF PollTimePasses, pspVars, taskVars, PspTypeOK, TaskTypes, TaskRefs
<1> QED BY <1>4, <1>5, WellFormedParts

LEMMA AdminTransitionType ==
  ASSUME WellFormed, NEW i \in Invoices, AdminTransition(i)
  PROVE  WellFormed' /\ AttemptsKept /\ KeysKept
<1>1. PspTypeOK /\ DbOK /\ TaskTypes /\ TaskRefs
  BY WellFormedParts
<1>2. UNCHANGED <<pspVars, attempts, keys, events, taskVars>>
  BY DEF AdminTransition
<1>3. inv' \in [Invoices -> InvoiceState]
  BY <1>1 DEF AdminTransition, DbOK, AdminTargets, InvoiceState
<1>4. DbOK' /\ AttemptsKept /\ KeysKept
  BY <1>1, <1>2, <1>3 DEF DbOK, AttemptsKept, KeysKept, Exists, KeyOf
<1>5. PspTypeOK' /\ TaskTypes' /\ TaskRefs'
  BY <1>1, <1>2, <1>4, TasksKept DEF pspVars, taskVars, PspTypeOK, TaskTypes, TaskRefs
<1> QED BY <1>4, <1>5, WellFormedParts

LEMMA PollType ==
  ASSUME WellFormed, NEW p \in Pollers, PollAttempt(p) \/ PollInvoice(p)
  PROVE  WellFormed' /\ AttemptsKept /\ KeysKept
<1>1. PspTypeOK /\ DbOK /\ TaskTypes /\ TaskRefs
  BY WellFormedParts
<1>2. UNCHANGED <<pspVars, dbVars, handlers, recs>>
  BY DEF PollAttempt, PollInvoice
<1>3. PspTypeOK' /\ DbOK' /\ AttemptsKept /\ KeysKept
  BY <1>1, <1>2 DEF pspVars, dbVars, PspTypeOK, DbOK, AttemptsKept, KeysKept, Exists, KeyOf
<1>4. PICK st \in PollState :
        st.pc # "idle" /\ Exists(st.attempt) /\ polls' = [polls EXCEPT ![p] = st]
  <2>1. CASE PollAttempt(p)
    <3>1. PICK a \in AttemptIds :
            Exists(a) /\ polls' = [polls EXCEPT ![p] = [pc |-> "attempt_read", attempt |-> a,
                                                        status |-> attempts[a].status]]
      BY <2>1 DEF PollAttempt
    <3>2. attempts[a].status \in AttemptStatus
      BY <1>1, <3>1, AttemptShape DEF AttemptRow
    <3>3. [pc |-> "attempt_read", attempt |-> a, status |-> attempts[a].status] \in PollState
      BY <3>2 DEF PollState
    <3> QED BY <3>1, <3>3
  <2>2. CASE PollInvoice(p)
    <3> DEFINE a == polls[p].attempt
               st == [pc |-> "answered", attempt |-> a, status |-> polls[p].status,
                      state |-> inv[attempts[a].invoice]]
    <3>1. /\ a \in AttemptIds /\ polls[p].status \in AttemptStatus /\ Exists(a)
      BY <1>1, <2>2 DEF PollInvoice, TaskTypes, TaskRefs, PollState
    <3>2. inv[attempts[a].invoice] \in InvoiceState
      BY <1>1, <3>1, AttemptShape DEF DbOK
    <3>3. st \in PollState
      BY <3>1, <3>2 DEF PollState
    <3>4. polls' = [polls EXCEPT ![p] = st]
      BY <2>2 DEF PollInvoice
    <3> QED BY <3>1, <3>3, <3>4
  <2> QED BY <2>1, <2>2
<1>5. TaskTypes' /\ TaskRefs'
  <2>1. TaskTypes'
    BY <1>1, <1>2, <1>4 DEF TaskTypes
  <2>2. (\A q \in Pollers : polls[q].pc # "idle" => Exists(polls[q].attempt))'
    <3> SUFFICES ASSUME NEW q \in Pollers, polls'[q].pc # "idle"
                 PROVE  attempts'[polls'[q].attempt] # NoAttempt
      BY DEF Exists
    <3>1. CASE q = p
      BY <1>1, <1>2, <1>4, <3>1 DEF TaskTypes, dbVars, Exists
    <3>2. CASE q # p
      BY <1>1, <1>2, <1>4, <3>2 DEF TaskTypes, TaskRefs, dbVars, Exists
    <3> QED BY <3>1, <3>2
  <2> QED BY <1>1, <1>2, <1>3, <2>1, <2>2, TasksKept DEF TaskRefs
<1> QED BY <1>3, <1>5, WellFormedParts

LEMMA InitWellFormed == Init => WellFormed
<1> SUFFICES ASSUME Init PROVE WellFormed
  OBVIOUS
<1>1. ErrorResp("none") \in Response
  BY ErrorShape
<1>2. Idle(ErrorResp("none")) \in HandlerState /\ Idle(ErrorResp("none")).pc = "idle"
  BY <1>1, IdleState
<1>3. RecIdle \in RecState /\ RecIdle.todo = {} /\ RecIdle.cur = NoId
  BY DEF RecIdle, RecState
<1>4. PspTypeOK
  BY PspAssumption DEF Init, PspInit, PspTypeOK, Calls
<1>5. DbOK
  BY DEF Init, DbOK, Exists, InvoiceState
<1>6. TaskTypes /\ TaskRefs
  BY <1>2, <1>3 DEF Init, TaskTypes, TaskRefs, PollState
<1> QED BY <1>4, <1>5, <1>6, WellFormedParts

\* Every step keeps the shapes, the attempts and the keys.
LEMMA NextWellFormed ==
  ASSUME WellFormed, Next
  PROVE  WellFormed' /\ AttemptsKept /\ KeysKept
<1>1. CASE PspStep
  BY <1>1, PspStepType
<1>2. ASSUME NEW h \in Handlers, HandlerStep(h)
      PROVE  WellFormed' /\ AttemptsKept /\ KeysKept
  <2>1. CASE ClaimAttempt(h)
    BY <2>1, ClaimType
  <2>2. CASE PayFinalize(h)
    BY <2>2, PayFinalizeType
  <2>3. CASE AbandonPay(h)
    BY <2>3, AbandonPayType
  <2>4. CASE \/ PayRejected(h) \/ PayRead(h) \/ ClaimReplay(h) \/ ClaimNotPayable(h)
             \/ ClaimRace(h) \/ ReplayMismatch(h) \/ ReplayCompleted(h) \/ ReplayPending(h)
    BY <2>4, ReadStepsType, HandlerOnlyType
  <2> QED BY <1>2, <2>1, <2>2, <2>3, <2>4 DEF HandlerStep
<1>3. ASSUME NEW r \in Reconcilers, RecStep(r)
      PROVE  WellFormed' /\ AttemptsKept /\ KeysKept
  BY <1>3, LeaseType, RequeryType, RecFinalizeType, RecGiveUpType DEF RecStep, Lease
<1>4. ASSUME NEW a \in AttemptIds, PollTimePasses(a)
      PROVE  WellFormed' /\ AttemptsKept /\ KeysKept
  BY <1>4, PollTimePassesType
<1>5. ASSUME NEW i \in Invoices, AdminTransition(i)
      PROVE  WellFormed' /\ AttemptsKept /\ KeysKept
  BY <1>5, AdminTransitionType
<1>6. ASSUME NEW p \in Pollers, PollAttempt(p) \/ PollInvoice(p)
      PROVE  WellFormed' /\ AttemptsKept /\ KeysKept
  BY <1>6, PollType
<1> QED BY <1>1, <1>2, <1>3, <1>4, <1>5, <1>6 DEF Next

LEMMA StutterKeeps ==
  ASSUME WellFormed, UNCHANGED vars
  PROVE  WellFormed'
  BY DEF WellFormed, TypeOK, PspTypeOK, References, Exists, KeyOf, vars, pspVars, dbVars, taskVars

LEMMA WellFormedAlways == Spec => []WellFormed
<1>1. Init => WellFormed
  BY InitWellFormed
<1>2. WellFormed /\ [Next]_vars => WellFormed'
  BY NextWellFormed, StutterKeeps
<1>3. QED BY <1>1, <1>2, PTL DEF Spec

\* For every value of the constants, the tables, the calls and the local states
\* of pay, the reconciler and the poll endpoint keep their shapes.
THEOREM TypeCorrect == Spec => []TypeOK
<1>1. WellFormed => TypeOK
  BY DEF WellFormed
<1> QED BY <1>1, WellFormedAlways, PTL

-----------------------------------------------------------------------------
(* Refinement: the payment flow moves invoices along legal edges           *)

\* Transaction 2 touches only an open invoice, and only to pay it.
LEMMA FinalizeMoves ==
  ASSUME DbOK, NEW a \in AttemptIds, Exists(a), NEW result \in PspResults, Finalize(a, result)
  PROVE  \/ UNCHANGED inv
         \/ \E i \in Invoices : inv[i] = "open" /\ inv' = [inv EXCEPT ![i] = "paid"]
<1>1. CASE result.kind = "Succeeded" /\ FinalizeSucceeded(a, result.ref)
  <2>1. PICK i \in Invoices : inv' = [inv EXCEPT ![i] = IF inv[i] = "open" THEN "paid" ELSE inv[i]]
    BY <1>1, AttemptShape DEF FinalizeSucceeded
  <2>2. CASE inv[i] = "open"
    BY <2>1, <2>2
  <2>3. CASE inv[i] # "open"
    BY <2>1, <2>3 DEF DbOK
  <2> QED BY <2>2, <2>3
<1>2. CASE result.kind # "Succeeded"
  BY <1>2 DEF Finalize, FinalizeDeclined, FinalizeUnknown
<1> QED BY <1>1, <1>2 DEF Finalize

\* How a step of the system can change the state of an invoice.
LEMMA InvoiceMoves ==
  ASSUME WellFormed, Next
  PROVE  \/ UNCHANGED inv
         \/ \E i \in Invoices : inv[i] = "open" /\ inv' = [inv EXCEPT ![i] = "paid"]
         \/ \E i \in Invoices : AdminTransition(i)
<1>1. PspTypeOK /\ DbOK /\ TaskTypes /\ TaskRefs /\ Handlers \cup Reconcilers \subseteq Callers
  BY WellFormedParts, FlowAssumption
<1>2. ASSUME NEW h \in Handlers, PayFinalize(h)
      PROVE  \/ UNCHANGED inv
             \/ \E i \in Invoices : inv[i] = "open" /\ inv' = [inv EXCEPT ![i] = "paid"]
  <2>1. handlers[h].attempt \in AttemptIds /\ Exists(handlers[h].attempt)
    BY <1>1, <1>2 DEF PayFinalize, TaskTypes, TaskRefs, HandlerState
  <2> QED BY <1>1, <1>2, <2>1, ChargeResultType, FinalizeMoves DEF PayFinalize
<1>3. ASSUME NEW r \in Reconcilers, RecFinalize(r)
      PROVE  \/ UNCHANGED inv
             \/ \E i \in Invoices : inv[i] = "open" /\ inv' = [inv EXCEPT ![i] = "paid"]
  <2>1. recs[r].cur \in AttemptIds /\ Exists(recs[r].cur)
    BY <1>1, <1>3 DEF RecFinalize, TaskTypes, TaskRefs, RecState
  <2> QED BY <1>1, <1>3, <2>1, ChargeResultType, FinalizeMoves DEF RecFinalize
<1>4. ASSUME NEW h \in Handlers, HandlerStep(h), ~PayFinalize(h) PROVE UNCHANGED inv
  BY <1>4 DEF HandlerStep, PayRejected, PayRead, ClaimReplay, ClaimNotPayable, ClaimRace,
     ClaimAttempt, ReplayMismatch, ReplayCompleted, ReplayPending, AbandonPay, dbVars
<1>5. ASSUME NEW r \in Reconcilers, RecStep(r), ~RecFinalize(r) PROVE UNCHANGED inv
  BY <1>5 DEF RecStep, Lease, LeaseRows, Requery, RecFinalizeFails, RecCrash, dbVars
<1>6. ASSUME PspStep \/ (\E a \in AttemptIds : PollTimePasses(a))
               \/ (\E p \in Pollers : PollAttempt(p) \/ PollInvoice(p))
      PROVE  UNCHANGED inv
  BY <1>6 DEF PspStep, PollTimePasses, PollAttempt, PollInvoice, dbVars
<1> QED BY <1>2, <1>3, <1>4, <1>5, <1>6 DEF Next

\* Payments, reconcilers, retries and admin requests together implement the
\* abstract invoice state machine, for every value of the constants.
THEOREM Refinement == Spec => ImplementsMachine
<1>1. Init => Machine!Init
  BY DEF Init, Machine!Init
<1>2. WellFormed /\ [Next]_vars => [Machine!Next]_inv
  <2> SUFFICES ASSUME WellFormed, Next, inv' # inv PROVE Machine!Next
    BY DEF vars, dbVars
  <2>1. CASE \E i \in Invoices : inv[i] = "open" /\ inv' = [inv EXCEPT ![i] = "paid"]
    BY <2>1 DEF Machine!Next, Machine!Move, Machine!LegalEdges, Machine!InvoiceState
  <2>2. CASE \E i \in Invoices : AdminTransition(i)
    BY <2>2 DEF AdminTransition, AdminTargets, CanTransitionTo, LegalEdges, Machine!Next,
       Machine!Move, Machine!LegalEdges, Machine!InvoiceState
  <2> QED BY <2>1, <2>2, InvoiceMoves
<1> QED BY <1>1, <1>2, WellFormedAlways, PTL DEF Spec, ImplementsMachine, Machine!Spec
=============================================================================
