--------------------------- MODULE PaymentInvariant ---------------------------
(***************************************************************************)
(* The inductive invariant behind the safety properties of PaymentFlow, in *)
(* layers: shapes and references first, then the links between keys,       *)
(* attempts and the calls in flight, then what the PSP and the books know.  *)
(***************************************************************************)
EXTENDS PaymentFlow

\* Nothing points at a row that is not there: rows are never deleted, and an
\* attempt and its key are inserted by the same transaction.
References ==
  /\ \A a \in AttemptIds : Exists(a) => KeyOf(a) # FreeKey
  /\ \A h \in Handlers : handlers[h].pc = "charge" => Exists(handlers[h].attempt)
  /\ \A r \in Reconcilers : \A a \in recs[r].todo : Exists(a)
  /\ \A r \in Reconcilers : recs[r].cur # NoId => Exists(recs[r].cur)
  /\ \A p \in Pollers : polls[p].pc # "idle" => Exists(polls[p].attempt)

\* The partial unique index: one pending or succeeded attempt per invoice.
SingleActive ==
  \A a, b \in AttemptIds :
    Active(a) /\ Active(b) /\ attempts[a].invoice = attempts[b].invoice => a = b

\* An attempt carries its invoice's total and a key of its own business.
AttemptsSound ==
  \A a \in AttemptIds : Exists(a) =>
    /\ attempts[a].amount = Total[attempts[a].invoice]
    /\ attempts[a].key \in KeysOf[Owner[attempts[a].invoice]]
    /\ KeyOf(a).attempt = a

\* The attempt a caller has a charge outstanding for.
Work(c) ==
  IF c \in Handlers
  THEN IF handlers[c].pc = "charge" THEN handlers[c].attempt ELSE NoId
  ELSE recs[c].cur

\* A call in flight is the charge of the attempt its caller is working on.
CallsSound ==
  /\ \A c \in Callers :
       IF Work(c) = NoId THEN calls[c] = NoCall
       ELSE calls[c].stage # "none" /\ calls[c].req = ChargeOf(Work(c))
  /\ \A s \in Slots :
       calls[s] # NoCall => \E a \in AttemptIds : Exists(a) /\ calls[s].req = ChargeOf(a)

\* Money moves only for a committed attempt, on its key, card and amount.
ChargesSound ==
  \A n \in DOMAIN charges :
    /\ Moves(charges[n].token)
    /\ \E a \in AttemptIds : Exists(a) /\ ChargeOf(a) = charges[n]

\* What the PSP says about a key is about a request made with that key.
OutcomeSound(key, outcome) ==
  /\ outcome.status = "succeeded" =>
       outcome.ref \in DOMAIN charges /\ charges[outcome.ref].key = key
  /\ outcome.status = "failed" =>
       \E a \in AttemptIds : Exists(a) /\ attempts[a].key = key /\ ~Moves(attempts[a].token)

PspSound ==
  /\ \A k \in PspKeys : OutcomeSound(k, seen[k])
  /\ \A c \in Callers :
       calls[c].stage = "answered" => OutcomeSound(calls[c].req.key, calls[c].answer)

\* What the books say agrees with the PSP: a failed attempt's card cannot be
\* charged at all, a succeeded one has a charge of its own.
BooksSound ==
  \A a \in AttemptIds : Exists(a) =>
    /\ attempts[a].status = "succeeded" =>
         attempts[a].ref \in DOMAIN charges /\ charges[attempts[a].ref] = ChargeOf(a)
    /\ attempts[a].status = "failed" => ~Moves(attempts[a].token)

\* The inductive invariant of the payment flow.
IndInv ==
  /\ TypeOK
  /\ References
  /\ SingleActive
  /\ AttemptsSound
  /\ CallsSound
  /\ ChargesSound
  /\ PspSound
  /\ BooksSound

-----------------------------------------------------------------------------
(* What the service itself keeps linked, with any keys                     *)

\* An attempt's invoice is no draft, nor is the invoice a request has read as open.
InvoicesIssued ==
  /\ \A a \in AttemptIds : Exists(a) => inv[attempts[a].invoice] # "draft"
  /\ \A h \in Handlers :
       handlers[h].pc = "claim" /\ handlers[h].state = "open" =>
         inv[handlers[h].req.invoice] # "draft"

\* A key in use names an attempt of its business made with it, the fingerprint is of
\* that attempt's request, and a cached response is about it.
KeysLinked ==
  \A b \in Businesses, k \in PspKeys : keys[b][k] # FreeKey =>
    LET row == keys[b][k]
        a   == row.attempt
    IN  /\ Exists(a) /\ attempts[a].key = k /\ Owner[attempts[a].invoice] = b
        /\ row.fp = <<attempts[a].invoice, attempts[a].token, attempts[a].amount>>
        /\ row.status = "completed" => row.resp.attempt = a

\* A handler that charges works on the attempt of its own request.
HandlersOwn ==
  \A h \in Handlers : handlers[h].pc = "charge" =>
    LET row == attempts[handlers[h].attempt]
        req == handlers[h].req
    IN  <<row.invoice, row.key, row.token>> = <<req.invoice, req.key, req.token>>

\* An event is about an attempt that exists.
EventsRefer == \A n \in DOMAIN events : Exists(events[n].attempt)

\* The first half of InvoiceMatchesAttempts: it needs nothing of the keys.
SucceededSettles ==
  \A a \in AttemptIds :
    Exists(a) /\ attempts[a].status = "succeeded" => IsTerminal(inv[attempts[a].invoice])

\* What a poll has read of a succeeded attempt is still so.
PollsSound ==
  \A p \in Pollers : polls[p].pc # "idle" /\ polls[p].status = "succeeded" =>
    /\ attempts[polls[p].attempt].status = "succeeded"
    /\ polls[p].pc = "answered" => IsTerminal(polls[p].state)

\* The inductive invariant of these links, which holds with shared keys too.
LinkInv ==
  /\ TypeOK
  /\ References
  /\ AttemptsSound
  /\ InvoicesIssued
  /\ KeysLinked
  /\ HandlersOwn
  /\ EventsRefer
  /\ SucceededSettles
  /\ PollsSound

-----------------------------------------------------------------------------
(* What the service tells, when no two businesses share a key              *)

\* A key in use is completed exactly when its attempt is decided, and says how.
KeysTell ==
  \A b \in Businesses, k \in PspKeys : keys[b][k] # FreeKey =>
    LET row == keys[b][k]
    IN  /\ row.status = "in_progress" <=> attempts[row.attempt].status = "pending"
        /\ row.status = "completed" => row.resp.code = attempts[row.attempt].status

\* The second half.
PaidForCause ==
  \A i \in Invoices : inv[i] = "paid" =>
    \E a \in AttemptIds :
      Exists(a) /\ attempts[a].invoice = i /\ attempts[a].status = "succeeded"

\* The inductive invariant of what clients, polls and webhooks are told.  Its steps
\* rest on IndInv: an attempt that is decided twice is decided alike.
ServiceInv ==
  /\ LinkInv
  /\ KeysTell
  /\ PaidForCause
  /\ OutboxComplete
  /\ TruthfulAnswers
=============================================================================
