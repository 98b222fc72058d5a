----------------------------- MODULE PaymentFlow -----------------------------
(***************************************************************************)
(* POST /v1/invoices/{id}/pay and everything that races with it: the       *)
(* request handlers (services/payment_service.rs), the reconciler          *)
(* (reconciler.rs), the admin transitions of invoices, the poll endpoint,  *)
(* and the PSP of module MockPsp.  All of them share the Postgres tables    *)
(* invoices, payment_attempts, idempotency_keys and webhook_events.         *)
(*                                                                         *)
(* One action is one committed transaction or one query on its own: what   *)
(* the code reads before a transaction, or before the PSP call, is kept in *)
(* the state of the handler and may be stale when it is used.               *)
(***************************************************************************)
EXTENDS MockPsp, InvoiceDomain, FiniteSets

CONSTANTS
  Businesses, Invoices,
  Owner,          \* Owner[i]: the business an invoice belongs to
  Total,          \* Total[i]: total_cents, fixed when the invoice is created
  KeysOf,         \* KeysOf[b]: the Idempotency-Keys the clients of b choose
  AttemptIds,     \* bound: ids of the payment attempts that can be created
  NoId,           \* the absent id
  Handlers,       \* bound: concurrent /pay requests
  Reconcilers,    \* replicas of the reconciler loop
  Pollers,        \* bound: concurrent GET .../payments/{attempt} requests
  Batch           \* BATCH: most rows a reconciler leases in one tick

ASSUME FlowAssumption ==
  /\ Owner \in [Invoices -> Businesses]
  /\ Total \in [Invoices -> Amounts]
  /\ KeysOf \in [Businesses -> SUBSET PspKeys]
  /\ NoId \notin AttemptIds
  /\ Callers = Handlers \cup Reconcilers
  /\ Handlers \cap Reconcilers = {}
  /\ Batch \in Nat \ {0}

VARIABLES
  inv,            \* invoices.state
  attempts,       \* payment_attempts
  keys,           \* idempotency_keys, by business and key
  events,         \* webhook_events, in the order of `sequence`
  handlers,       \* local state of each /pay request
  recs,           \* local state of each reconciler's tick
  polls           \* local state of each poll request

dbVars   == <<inv, attempts, keys, events>>
taskVars == <<handlers, recs, polls>>
vars     == <<pspVars, dbVars, taskVars>>

-----------------------------------------------------------------------------
(* Rows and local states                                                   *)

PayRequest == { r \in [invoice : Invoices, key : PspKeys, token : Tokens] :
                  r.key \in KeysOf[Owner[r.invoice]] }

\* fingerprint(): SHA-256 over invoice, token and amount, taken as injective.
Fingerprint(req) == <<req.invoice, req.token, Total[req.invoice]>>

NoAttempt == [status |-> "none"]
AttemptStatus == {"pending", "succeeded", "failed"}

\* next_poll_at is NULL, in the future or in the past.  psp_ref 0 is NULL.
AttemptRow == [invoice : Invoices, key : PspKeys, token : Tokens, amount : Amounts,
               status : AttemptStatus, ref : Nat, poll : {"null", "later", "due"}]

\* A response: HTTP status, error code or payment status, attempt and psp_ref.
\* invoice_state is left out: in pay it is a literal ("paid" with a success, "open"
\* otherwise), not read from the row.  amount is the attempt's, and 0
\* in the answer to a replay of a pending one.
Response == [code : {"none", "validation_error", "not_found", "invoice_not_payable",
                     "payment_in_progress", "idempotency_key_reuse", "internal_error",
                     "succeeded", "failed", "pending"},
             attempt : AttemptIds \cup {NoId}, ref : Nat]

Resp(code, a, ref) == [code |-> code, attempt |-> a, ref |-> ref]
ErrorResp(code)    == Resp(code, NoId, 0)

FreeKey == [status |-> "free"]
KeyRow  == [status : {"in_progress"}, fp : Invoices \X Tokens \X Amounts, attempt : AttemptIds]
             \cup [status : {"completed"}, fp : Invoices \X Tokens \X Amounts,
                   attempt : AttemptIds, resp : Response]

EventRow == [type : {"invoice.paid", "invoice.payment_failed"},
             invoice : Invoices, attempt : AttemptIds]

Idle(resp) == [pc |-> "idle", resp |-> resp]

HandlerState == [pc : {"idle"}, resp : Response]
                  \cup [pc : {"claim"}, req : PayRequest, state : InvoiceState]
                  \cup [pc : {"replay"}, req : PayRequest]
                  \cup [pc : {"charge"}, req : PayRequest, attempt : AttemptIds]

RecState == [todo : SUBSET AttemptIds, cur : AttemptIds \cup {NoId}]
RecIdle  == [todo |-> {}, cur |-> NoId]

PollState == {[pc |-> "idle"]}
               \cup [pc : {"attempt_read"}, attempt : AttemptIds, status : AttemptStatus]
               \cup [pc : {"answered"}, attempt : AttemptIds, status : AttemptStatus,
                     state : InvoiceState]

Exists(a) == attempts[a] # NoAttempt
Active(a) == Exists(a) /\ attempts[a].status \in {"pending", "succeeded"}
KeyOf(a)  == keys[Owner[attempts[a].invoice]][attempts[a].key]

\* What charge() is called with for an attempt.  The key is the client's own,
\* forwarded without the business it belongs to.
ChargeOf(a) == [key |-> attempts[a].key, token |-> attempts[a].token,
                amount |-> attempts[a].amount]

-----------------------------------------------------------------------------
Init ==
  /\ PspInit
  /\ inv = [i \in Invoices |-> "draft"]
  /\ attempts = [a \in AttemptIds |-> NoAttempt]
  /\ keys = [b \in Businesses |-> [k \in PspKeys |-> FreeKey]]
  /\ events = <<>>
  /\ handlers = [h \in Handlers |-> Idle(ErrorResp("none"))]
  /\ recs = [r \in Reconcilers |-> RecIdle]
  /\ polls = [p \in Pollers |-> [pc |-> "idle"]]

-----------------------------------------------------------------------------
(* pay: before and in transaction 1                                        *)

Answer(h, resp) == handlers' = [handlers EXCEPT ![h] = Idle(resp)]

\* No Idempotency-Key header, a blank card token, or an invoice the business
\* does not have: answered before anything is written.
PayRejected(h) ==
  /\ handlers[h].pc = "idle"
  /\ \E code \in {"validation_error", "not_found"} : Answer(h, ErrorResp(code))
  /\ UNCHANGED <<pspVars, dbVars, recs, polls>>

\* The unlocked read of the invoice's state.
PayRead(h) ==
  /\ handlers[h].pc = "idle"
  /\ \E req \in PayRequest :
       handlers' = [handlers EXCEPT ![h] =
                      [pc |-> "claim", req |-> req, state |-> inv[req.invoice]]]
  /\ UNCHANGED <<pspVars, dbVars, recs, polls>>

KeyTaken(req) == keys[Owner[req.invoice]][req.key] # FreeKey

\* Faulty: the partial index covers pending attempts only.
InvoicePinnedByPending(i) ==
  \E a \in AttemptIds : Exists(a) /\ attempts[a].status = "pending" /\ attempts[a].invoice = i

\* uq_active_attempt_per_invoice
InvoicePinned(i) == \E a \in AttemptIds : Active(a) /\ attempts[a].invoice = i

\* INSERT .. ON CONFLICT DO NOTHING finds the key: roll back, resolve a replay.
ClaimReplay(h) ==
  /\ handlers[h].pc = "claim"
  /\ KeyTaken(handlers[h].req)
  /\ handlers' = [handlers EXCEPT ![h] = [pc |-> "replay", req |-> handlers[h].req]]
  /\ UNCHANGED <<pspVars, dbVars, recs, polls>>

\* A fresh key, but the state read earlier was not open: the key is released.
ClaimNotPayable(h) ==
  /\ handlers[h].pc = "claim"
  /\ ~KeyTaken(handlers[h].req)
  /\ handlers[h].state # "open"
  /\ Answer(h, ErrorResp("invoice_not_payable"))
  /\ UNCHANGED <<pspVars, dbVars, recs, polls>>

\* The attempt's insert hits the partial unique index: the key is released.
ClaimRace(h) ==
  /\ handlers[h].pc = "claim"
  /\ ~KeyTaken(handlers[h].req)
  /\ handlers[h].state = "open"
  /\ InvoicePinned(handlers[h].req.invoice)
  /\ Answer(h, ErrorResp("payment_in_progress"))
  /\ UNCHANGED <<pspVars, dbVars, recs, polls>>

\* Faulty: the key is never linked to its attempt.
ClaimedKeyUnlinked(req, a) == [status |-> "in_progress", fp |-> Fingerprint(req), attempt |-> NoId]

\* The key's row as transaction 1 commits it.
ClaimedKey(req, a) == [status |-> "in_progress", fp |-> Fingerprint(req), attempt |-> a]

\* Key, attempt and link are committed together; the PSP call goes out next.
ClaimAttempt(h) ==
  /\ handlers[h].pc = "claim"
  /\ ~KeyTaken(handlers[h].req)
  /\ handlers[h].state = "open"
  /\ ~InvoicePinned(handlers[h].req.invoice)
  /\ \E a \in AttemptIds :
       LET req == handlers[h].req
           amt == Total[req.invoice]
       IN  /\ ~Exists(a)
           /\ attempts' = [attempts EXCEPT ![a] =
                [invoice |-> req.invoice, key |-> req.key, token |-> req.token,
                 amount |-> amt, status |-> "pending", ref |-> 0, poll |-> "null"]]
           /\ keys' = [keys EXCEPT ![Owner[req.invoice]][req.key] = ClaimedKey(req, a)]
           /\ handlers' = [handlers EXCEPT ![h] =
                [pc |-> "charge", req |-> req, attempt |-> a]]
           /\ SendCharge(h, [key |-> req.key, token |-> req.token, amount |-> amt])
  /\ UNCHANGED <<seen, charges, restarts, inv, events, recs, polls>>

-----------------------------------------------------------------------------
(* replay: one read of the key's row                                       *)

ReplayMismatch(h) ==
  /\ handlers[h].pc = "replay"
  /\ LET req == handlers[h].req
         row == keys[Owner[req.invoice]][req.key]
     IN  /\ row.fp # Fingerprint(req)
         /\ Answer(h, ErrorResp("idempotency_key_reuse"))
  /\ UNCHANGED <<pspVars, dbVars, recs, polls>>

\* Faulty: the cached response is returned whatever the request asks for.
ReplayCompletedUnchecked(h) ==
  /\ handlers[h].pc = "replay"
  /\ LET req == handlers[h].req
         row == keys[Owner[req.invoice]][req.key]
     IN  /\ row.status = "completed"
         /\ Answer(h, row.resp)
  /\ UNCHANGED <<pspVars, dbVars, recs, polls>>

ReplayCompleted(h) ==
  /\ handlers[h].pc = "replay"
  /\ LET req == handlers[h].req
         row == keys[Owner[req.invoice]][req.key]
     IN  /\ row.fp = Fingerprint(req)
         /\ row.status = "completed"
         /\ Answer(h, row.resp)
  /\ UNCHANGED <<pspVars, dbVars, recs, polls>>

ReplayPending(h) ==
  /\ handlers[h].pc = "replay"
  /\ LET req == handlers[h].req
         row == keys[Owner[req.invoice]][req.key]
     IN  /\ row.fp = Fingerprint(req)
         /\ row.status = "in_progress"
         /\ Answer(h, Resp("pending", row.attempt, 0))
  /\ UNCHANGED <<pspVars, dbVars, recs, polls>>

-----------------------------------------------------------------------------
(* finalize: transaction 2, shared by the handlers and the reconciler      *)

\* Faulty: the UPDATE matches on the id alone.
UpdateAlways(a, row) == attempts' = [attempts EXCEPT ![a] = row]

\* The UPDATE of the attempt takes effect only while it is pending.
UpdateIfPending(a, row) ==
  attempts' = [attempts EXCEPT ![a] = IF @.status = "pending" THEN row ELSE @]

\* emit: an outbox row in the same transaction.
Emit(type, a) ==
  events' = Append(events, [type |-> type, invoice |-> attempts[a].invoice, attempt |-> a])

\* complete_key: overwrites whatever response was cached, its psp_ref included.
CompleteKey(a, resp) ==
  LET b == Owner[attempts[a].invoice]
      k == attempts[a].key
  IN  keys' = [keys EXCEPT ![b][k] =
                 [status |-> "completed", fp |-> @.fp, attempt |-> @.attempt, resp |-> resp]]

\* Faulty: the invoice is not touched.
FinalizeSucceededInvoiceForgotten(a, ref) ==
  /\ UpdateIfPending(a, [attempts[a] EXCEPT !.status = "succeeded", !.ref = ref])
  /\ Emit("invoice.paid", a)
  /\ CompleteKey(a, Resp("succeeded", a, ref))
  /\ UNCHANGED inv

\* Faulty: the invoice is marked paid in whatever state it is.
FinalizeSucceededUnconditional(a, ref) ==
  /\ UpdateIfPending(a, [attempts[a] EXCEPT !.status = "succeeded", !.ref = ref])
  /\ inv' = [inv EXCEPT ![attempts[a].invoice] = "paid"]
  /\ Emit("invoice.paid", a)
  /\ CompleteKey(a, Resp("succeeded", a, ref))

FinalizeSucceeded(a, ref) ==
  LET i == attempts[a].invoice
  IN  /\ UpdateIfPending(a, [attempts[a] EXCEPT !.status = "succeeded", !.ref = ref])
      /\ inv' = [inv EXCEPT ![i] = IF @ = "open" THEN "paid" ELSE @]
      /\ Emit("invoice.paid", a)
      /\ CompleteKey(a, Resp("succeeded", a, ref))

\* Faulty: the key of a declined attempt stays in progress.
FinalizeDeclinedKeyForgotten(a) ==
  /\ UpdateIfPending(a, [attempts[a] EXCEPT !.status = "failed"])
  /\ Emit("invoice.payment_failed", a)
  /\ UNCHANGED <<inv, keys>>

\* Faulty: a decline leaves no event.
FinalizeDeclinedSilently(a) ==
  /\ UpdateIfPending(a, [attempts[a] EXCEPT !.status = "failed"])
  /\ CompleteKey(a, Resp("failed", a, 0))
  /\ UNCHANGED <<inv, events>>

FinalizeDeclined(a) ==
  /\ UpdateIfPending(a, [attempts[a] EXCEPT !.status = "failed"])
  /\ Emit("invoice.payment_failed", a)
  /\ CompleteKey(a, Resp("failed", a, 0))
  /\ UNCHANGED inv

FinalizeUnknown(a) ==
  /\ UpdateIfPending(a, [attempts[a] EXCEPT !.poll = "later"])
  /\ UNCHANGED <<inv, keys, events>>

Finalize(a, result) ==
  \/ result.kind = "Succeeded" /\ FinalizeSucceeded(a, result.ref)
  \/ result.kind = "Declined" /\ FinalizeDeclined(a)
  \/ result.kind = "Unknown" /\ FinalizeUnknown(a)

\* Faulty: an unknown outcome is answered as a decline.
FinalizeResponseDefinite(a, result) ==
  IF result.kind = "Succeeded" THEN Resp("succeeded", a, result.ref) ELSE Resp("failed", a, 0)

\* The response finalize returns; the reconciler discards it.
FinalizeResponse(a, result) ==
  CASE result.kind = "Succeeded" -> Resp("succeeded", a, result.ref)
    [] result.kind = "Declined"  -> Resp("failed", a, 0)
    [] OTHER                     -> Resp("pending", a, 0)

\* Faulty: a missed deadline is taken for a decline.
ChargeResultDeclined(c) ==
  IF calls[c].stage = "answered" THEN PspResult(calls[c].answer) ELSE [kind |-> "Declined"]

\* How charge() returns to caller c: with the answer, or Unknown at the deadline.
ChargeResult(c) ==
  IF calls[c].stage = "answered" THEN PspResult(calls[c].answer) ELSE Unknown

PayFinalize(h) ==
  /\ handlers[h].pc = "charge"
  /\ LET a      == handlers[h].attempt
         result == ChargeResult(h)
     IN  Finalize(a, result) /\ Answer(h, FinalizeResponse(a, result))
  /\ HangUp(h)
  /\ UNCHANGED <<seen, charges, restarts, recs, polls>>

\* The client disconnects (the handler is dropped), the process crashes or a
\* query fails: the open transaction rolls back, the call is given up.
AbandonPay(h) ==
  /\ handlers[h].pc # "idle"
  /\ Answer(h, ErrorResp("internal_error"))
  /\ HangUp(h)
  /\ UNCHANGED <<seen, charges, restarts, dbVars, recs, polls>>

-----------------------------------------------------------------------------
(* The reconciler                                                          *)

\* Faulty: a NULL next_poll_at never compares as past.
DueNotNull(a) == Exists(a) /\ attempts[a].status = "pending" /\ attempts[a].poll = "due"

Due(a) == Exists(a) /\ attempts[a].status = "pending" /\ attempts[a].poll \in {"null", "due"}

\* The lease of one batch.  SKIP LOCKED and LIMIT leave any due rows out.
LeaseRows(r, rows) ==
  /\ recs[r] = RecIdle
  /\ rows # {}
  /\ \A a \in rows : Due(a)
  /\ Cardinality(rows) <= Batch
  /\ attempts' = [a \in AttemptIds |->
                    IF a \in rows THEN [attempts[a] EXCEPT !.poll = "later"] ELSE attempts[a]]
  /\ recs' = [recs EXCEPT ![r] = [todo |-> rows, cur |-> NoId]]
  /\ UNCHANGED <<pspVars, inv, keys, events, handlers, polls>>

Lease(r) == \E rows \in SUBSET AttemptIds : LeaseRows(r, rows)

\* The next row of the batch: charge() with the attempt's own key.
Requery(r, a) ==
  /\ recs[r].cur = NoId
  /\ a \in recs[r].todo
  /\ recs' = [recs EXCEPT ![r] = [todo |-> recs[r].todo \ {a}, cur |-> a]]
  /\ SendCharge(r, ChargeOf(a))
  /\ UNCHANGED <<seen, charges, restarts, dbVars, handlers, polls>>

RecFinalize(r) ==
  /\ recs[r].cur # NoId
  /\ Finalize(recs[r].cur, ChargeResult(r))
  /\ HangUp(r)
  /\ recs' = [recs EXCEPT ![r] = [todo |-> recs[r].todo, cur |-> NoId]]
  /\ UNCHANGED <<seen, charges, restarts, handlers, polls>>

\* Faulty: the result of a row that could not be finalized is kept for the next.
RecFinalizeFailsKeepsResult(r) ==
  /\ recs[r].cur # NoId
  /\ recs' = [recs EXCEPT ![r] = [todo |-> recs[r].todo, cur |-> NoId]]
  /\ UNCHANGED <<pspVars, dbVars, handlers, polls>>

\* finalize fails: the error is logged and the batch goes on.
RecFinalizeFails(r) ==
  /\ recs[r].cur # NoId
  /\ recs' = [recs EXCEPT ![r] = [todo |-> recs[r].todo, cur |-> NoId]]
  /\ HangUp(r)
  /\ UNCHANGED <<seen, charges, restarts, dbVars, handlers, polls>>

\* The process dies in the middle of a tick; the leases run out by themselves.
RecCrash(r) ==
  /\ recs[r] # RecIdle
  /\ recs' = [recs EXCEPT ![r] = RecIdle]
  /\ HangUp(r)
  /\ UNCHANGED <<seen, charges, restarts, dbVars, handlers, polls>>

\* now() passes next_poll_at: a lease or a back-off of an attempt runs out.
PollTimePasses(a) ==
  /\ Exists(a)
  /\ attempts[a].status = "pending"
  /\ attempts[a].poll = "later"
  /\ attempts' = [attempts EXCEPT ![a].poll = "due"]
  /\ UNCHANGED <<pspVars, inv, keys, events, taskVars>>

-----------------------------------------------------------------------------
(* Admin transitions, and the poll endpoint                                *)

\* finalize, void and mark_uncollectible.  Module InvoiceLifecycle shows that
\* load, check and conditional UPDATE together take effect as one legal edge.
AdminTransition(i) ==
  /\ \E to \in AdminTargets :
       /\ CanTransitionTo(inv[i], to)
       /\ inv' = [inv EXCEPT ![i] = to]
  /\ UNCHANGED <<pspVars, attempts, keys, events, taskVars>>

\* get_attempt reads the attempt first and the invoice in a second query.
PollAttempt(p) ==
  /\ polls[p].pc # "attempt_read"
  /\ \E a \in AttemptIds :
       /\ Exists(a)
       /\ polls' = [polls EXCEPT ![p] =
                      [pc |-> "attempt_read", attempt |-> a, status |-> attempts[a].status]]
  /\ UNCHANGED <<pspVars, dbVars, handlers, recs>>

\* Faulty: the invoice is reported open, as replay does, without a read.
PollInvoiceLiteral(p) ==
  /\ polls[p].pc = "attempt_read"
  /\ polls' = [polls EXCEPT ![p] =
                 [pc |-> "answered", attempt |-> polls[p].attempt, status |-> polls[p].status,
                  state |-> "open"]]
  /\ UNCHANGED <<pspVars, dbVars, handlers, recs>>

PollInvoice(p) ==
  /\ polls[p].pc = "attempt_read"
  /\ polls' = [polls EXCEPT ![p] =
                 [pc |-> "answered", attempt |-> polls[p].attempt, status |-> polls[p].status,
                  state |-> inv[attempts[polls[p].attempt].invoice]]]
  /\ UNCHANGED <<pspVars, dbVars, handlers, recs>>

-----------------------------------------------------------------------------
(* The whole system                                                        *)

PspStep ==
  /\ PspRestart \/ \E x \in Callers \cup Slots : PspHandle(x)
  /\ UNCHANGED <<dbVars, taskVars>>

HandlerStep(h) ==
  \/ PayRejected(h) \/ PayRead(h)
  \/ ClaimReplay(h) \/ ClaimNotPayable(h) \/ ClaimRace(h) \/ ClaimAttempt(h)
  \/ ReplayMismatch(h) \/ ReplayCompleted(h) \/ ReplayPending(h)
  \/ PayFinalize(h) \/ AbandonPay(h)

RecStep(r) ==
  \/ Lease(r) \/ (\E a \in AttemptIds : Requery(r, a))
  \/ RecFinalize(r) \/ RecFinalizeFails(r) \/ RecCrash(r)

Next ==
  \/ PspStep
  \/ \E h \in Handlers : HandlerStep(h)
  \/ \E r \in Reconcilers : RecStep(r)
  \/ \E a \in AttemptIds : PollTimePasses(a)
  \/ \E i \in Invoices : AdminTransition(i)
  \/ \E p \in Pollers : PollAttempt(p) \/ PollInvoice(p)

Spec == Init /\ [][Next]_vars

\* The reconciler of every replica ticks for ever, time passes, and the PSP and the
\* database are not down for ever.  A tick takes 20 rows, fresh ones first (NULLS
\* FIRST): assuming that in the long run fewer than 20 fresh rows come with each
\* tick, a row that is due again and again is leased in some tick, queried
\* in some tick, answered within the deadline in some call, and committed in
\* some finalize; and a call ends, at its deadline if not before.  Nothing is
\* assumed of the clients or of the /pay handlers.
Fairness ==
  /\ \A a \in AttemptIds :
       /\ WF_vars(PollTimePasses(a))
       /\ SF_vars(\E r \in Reconcilers, rows \in SUBSET AttemptIds :
                    a \in rows /\ LeaseRows(r, rows))
  /\ \A r \in Reconcilers :
       /\ \A a \in AttemptIds : SF_vars(Requery(r, a))
       /\ SF_vars(PspReceive(r) /\ UNCHANGED <<dbVars, taskVars>>)
       /\ SF_vars(SettleCharge(r) /\ UNCHANGED <<dbVars, taskVars>>)
       /\ SF_vars(calls[r].stage = "answered" /\ RecFinalize(r))
       /\ SF_vars(RecFinalize(r))

FairSpec == Spec /\ Fairness

-----------------------------------------------------------------------------
(* Properties                                                              *)

\* Every variable keeps the shape of the table, request or call it stands for.
TypeOK ==
  /\ PspTypeOK
  /\ inv \in [Invoices -> InvoiceState]
  /\ attempts \in [AttemptIds -> AttemptRow \cup {NoAttempt}]
  /\ keys \in [Businesses -> [PspKeys -> KeyRow \cup {FreeKey}]]
  /\ events \in Seq(EventRow)
  /\ handlers \in [Handlers -> HandlerState]
  /\ recs \in [Reconcilers -> RecState]
  /\ polls \in [Pollers -> PollState]

\* Businesses whose clients never choose the same Idempotency-Key.
DisjointKeys ==
  \A b, c \in Businesses : KeysOf[b] \cap KeysOf[c] # {} => b = c

\* The money that moved for attempt a, as indices into charges.
ChargesOf(a) == {n \in DOMAIN charges : charges[n].key = attempts[a].key}

\* At most one attempt of an invoice is ever charged, however requests, retries,
\* crashes and the reconciler interleave: a second attempt starts only when the
\* first is known not to have moved money (the partial unique index, with
\* unknown outcomes left pending).
OneChargedAttempt ==
  \A a, b \in AttemptIds :
    /\ Exists(a) /\ Exists(b)
    /\ attempts[a].invoice = attempts[b].invoice
    /\ ChargesOf(a) # {} /\ ChargesOf(b) # {}
    => a = b

\* The books agree with the PSP: a succeeded attempt points, by psp_ref, at a
\* charge of its own key, card and amount; a failed one was never charged.
BooksMatchPsp ==
  \A a \in AttemptIds : Exists(a) =>
    /\ attempts[a].status = "succeeded" =>
         /\ attempts[a].ref \in DOMAIN charges
         /\ charges[attempts[a].ref] = ChargeOf(a)
    /\ attempts[a].status = "failed" => ChargesOf(a) = {}

\* A succeeded attempt never leaves its invoice payable, and an invoice is paid
\* only by a succeeded attempt of its own (finalize's conditional UPDATE).
InvoiceMatchesAttempts ==
  /\ \A a \in AttemptIds :
       Exists(a) /\ attempts[a].status = "succeeded" => IsTerminal(inv[attempts[a].invoice])
  /\ \A i \in Invoices : inv[i] = "paid" =>
       \E a \in AttemptIds :
         Exists(a) /\ attempts[a].invoice = i /\ attempts[a].status = "succeeded"

\* The key of an attempt is linked to it and mirrors it: completed exactly when
\* the attempt is terminal, with a cached response that says so.  A replay that
\* finds the key in progress therefore always has an attempt id to report.
KeyMirrorsAttempt ==
  /\ \A a \in AttemptIds : Exists(a) =>
       /\ KeyOf(a) # FreeKey
       /\ KeyOf(a).attempt = a
       /\ KeyOf(a).status = "in_progress" <=> attempts[a].status = "pending"
       /\ KeyOf(a).status = "completed" => KeyOf(a).resp.code = attempts[a].status
  /\ \A b \in Businesses, k \in PspKeys :
       keys[b][k] # FreeKey => Exists(keys[b][k].attempt)

\* The payment status a client was told stays true: 200 only for a succeeded attempt,
\* 402 only for a failed one, 202 only with an attempt it can poll.  (The status, not
\* the invoice_state or the psp_ref beside it: see SuccessMarksPaid and CompleteKey.)
TruthfulAnswers ==
  \A h \in Handlers : handlers[h].pc = "idle" =>
    LET resp == handlers[h].resp
    IN  resp.code \in AttemptStatus =>
          /\ resp.attempt \in AttemptIds /\ Exists(resp.attempt)
          /\ resp.code # "pending" => attempts[resp.attempt].status = resp.code

\* A request is answered with an attempt made for that very request, replays
\* included: same invoice, same key, same card (the fingerprint check).
AnswersOwnRequest ==
  [][\A h \in Handlers :
       /\ handlers[h].pc \in {"replay", "charge"}
       /\ handlers'[h].pc = "idle"
       /\ handlers'[h].resp.attempt # NoId
       => LET row == attempts[handlers'[h].resp.attempt]
              req == handlers[h].req
          IN  /\ row # NoAttempt
              /\ <<row.invoice, row.key, row.token>> = <<req.invoice, req.key, req.token>>]_vars

EventsOf(a) == {events[n].type : n \in {m \in DOMAIN events : events[m].attempt = a}}

\* The outbox loses nothing and announces nothing early: an attempt has exactly
\* the kind of event its status calls for, and none while it is pending.
OutboxComplete ==
  \A a \in AttemptIds : Exists(a) =>
    EventsOf(a) = CASE attempts[a].status = "pending"   -> {}
                    [] attempts[a].status = "succeeded" -> {"invoice.paid"}
                    [] attempts[a].status = "failed"    -> {"invoice.payment_failed"}

\* A terminal attempt is never rewritten, by a late handler, a reconciler with a
\* stale batch or a second answer of the PSP.
TerminalAttemptFinal ==
  [][\A a \in AttemptIds :
       Exists(a) /\ attempts[a].status # "pending" =>
         /\ attempts'[a].status = attempts[a].status
         /\ attempts'[a].ref = attempts[a].ref]_vars

\* get_attempt reads the attempt before the invoice, in two queries: it never
\* reports a succeeded attempt of an invoice that is still payable.
PollNotTorn ==
  \A p \in Pollers :
    polls[p].pc = "answered" /\ polls[p].status = "succeeded" => IsTerminal(polls[p].state)

\* A pending attempt with a card the PSP can decide on is resolved, whatever
\* became of the request that made it: the reconciler "resolves pending payment
\* attempts that the request path could not finish".
PendingResolved ==
  \A a \in AttemptIds :
    (Exists(a) /\ attempts[a].token \in {"tok_success", "tok_card_declined"})
      ~> (attempts[a].status \in {"succeeded", "failed"})

Payments == INSTANCE PaymentMachine WITH
  Attempts  <- AttemptIds,
  NoInvoice <- NoId,
  status    <- [a \in AttemptIds |-> attempts[a].status],
  invoice   <- [a \in AttemptIds |-> IF Exists(a) THEN attempts[a].invoice ELSE NoId],
  charged   <- {a \in AttemptIds : Exists(a) /\ ChargesOf(a) # {}}

\* When no two businesses share a key, handlers, reconcilers and PSP together take
\* each attempt from begun to charged and succeeded, or to failed and never charged,
\* one step at a time, whatever fails or is repeated on the way.
ImplementsPayment == Payments!Spec

Machine == INSTANCE InvoiceMachine WITH state <- inv

\* Payments and admin requests together move an invoice only along the legal
\* edges of the abstract state machine.
ImplementsMachine == Machine!Spec

-----------------------------------------------------------------------------
(* What the documentation says of the program and the code does not do     *)

\* reconciler.rs:5-7, mock-psp main.rs:15-17: re-querying with the same key "can
\* never produce a second charge".
AtMostOneChargePerKey ==
  \A m, n \in DOMAIN charges : charges[m].key = charges[n].key => m = n

\* webhook_service.rs:16-19: an event is atomic with the change it describes,
\* "no phantom events": a step that appends one changes the attempt it names.
EventsDescribeChanges ==
  [][events' # events =>
       LET a == events'[Len(events')].attempt
       IN  attempts'[a].status # attempts[a].status]_vars

\* DESIGN.md:128: on success the attempt is succeeded and the invoice goes to
\* paid, atomically.
SuccessMarksPaid ==
  \A a \in AttemptIds :
    Exists(a) /\ attempts[a].status = "succeeded" => inv[attempts[a].invoice] = "paid"
=============================================================================
