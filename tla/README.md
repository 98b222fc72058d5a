# The invoice payment service in TLA+

This directory models the invoice payment service (`src/`, two Rust crates:
`invoice-service`, an HTTP API over Postgres, and `mock-psp`, the payment
provider it calls), checks the models with TLC on small instances and proves
their main properties with TLAPS for every value of the constants.

The question that matters for this program is what becomes of the customer's
money when requests race, time out, are retried or die half-way. The payment path
is therefore modelled first and in most detail, then the invoice lifecycle it
races with, the webhooks that report it, the listings that show it, and the
requests of several businesses that create what is paid.

## 1. Inventory

| Component | State it keeps | Operations | Interacts with |
|---|---|---|---|
| Payment path (`services/payment_service.rs`, `routes/invoices.rs`) | `payment_attempts`, `idempotency_keys` | `pay` (validate, unlocked read, transaction 1: claim key + insert attempt), `charge`, `finalize` (transaction 2), `replay`, `get_attempt` | invoices, outbox, PSP client |
| Payment reconciler (`reconciler.rs`) | none of its own; leases through `next_poll_at` | `run` (the loop), `tick`: lease a batch, then re-query and finalize its rows one by one | attempts, PSP client, `finalize` |
| PSP client (`psp/mod.rs`) | none | `charge`: POST, 5 s deadline, answer to `PspResult` | mock PSP |
| Mock PSP (`crates/mock-psp`) | `seen`, an in-memory map key -> outcome | `POST /charge`: lookup, sleep, record, answer | - |
| Invoice lifecycle (`services/invoice_service.rs`, `repositories/invoice_repo.rs`, `domain/invoice.rs`) | `invoices` | `create`, `finalize`, `void`, `mark_uncollectible` | outbox; payments move `open -> paid` |
| Line items and totals (`invoice_service.rs`, `invoice_repo.rs`; the database multiplies and sums) | `invoice_line_items`, `invoices.total_cents` | inserted and summed at creation | - |
| Webhook outbox and dispatcher (`services/webhook_service.rs`, `webhooks/dispatcher.rs`) | `webhook_events`, `webhook_deliveries` | `emit_event`, fan-out, claim with a lease, send, `mark_succeeded` / `mark_failed`, dead letter, `redeliver` | endpoints; every emitting transaction |
| Webhook endpoints and signing (`routes/webhooks.rs`, `webhooks/signing.rs`) | `webhook_endpoints` | `register_endpoint`, `list_events`, `list_deliveries`, HMAC | dispatcher |
| Customers (`services/customer_service.rs`) | `customers` | create, get, list | invoices check that they exist |
| API keys and authentication (`auth/`) | `api_keys` | create, list, look up, revoke, expire | every request |
| Keyset pagination (`common/src/pagination.rs`) | none | cursor encode / decode, pages by `(created_at, id)` | the listings of invoices, customers and events |
| Error model (`common/src/error.rs`) | none | code -> HTTP status | every handler |
| Startup, configuration, pool, shutdown | process | wiring | - |

Where it is hard:

- **Interleaving.** Any number of replicas run handlers and reconcilers on the
  same rows. Only the database serialises them: the unique keys of
  `idempotency_keys`, the partial unique index `uq_active_attempt_per_invoice`,
  and conditional UPDATEs.
- **Stale reads.** `pay` reads the invoice without a lock before transaction 1;
  `transition` decides on a row loaded earlier; `get_attempt` makes two reads.
- **Failure between steps.** A handler is dropped when its client disconnects. A
  crash between transaction 1 and transaction 2 leaves a pending attempt whose
  charge may or may not have happened.
- **Timeouts and retries.** The client gives up after 5 s; the PSP may still be
  working. The reconciler re-queries with the original key. The PSP's lookup and
  record are separated by a sleep, and its memory does not survive a restart.
- **Leases.** 30 s for a batch of 20 rows that take up to 5 s each; in the
  dispatcher, 30 s for a batch of 50 at up to 10 s each, 16 at a time, after which
  a worker marks its rows by id, whoever holds them by then.
- **Pages over a moving table.** `created_at` is when a transaction began, so rows
  appear below a cursor that has already passed them.
- **Edges of bigint.** The database multiplies and sums after validation.
- **Two scopes of one key.** The database scopes a key by business, the PSP does not.

What makes the parts correct: an invoice is charged for at most one attempt; the
books agree with the PSP; the payment status a client is told is and stays true (the
`invoice_state` and `psp_ref` beside it need not, see section 4); a pending attempt is resolved; a terminal attempt or invoice is
never rewritten; the outbox announces each outcome, with events of the right kind only
(it may repeat one: `phantom_event`); a delivery is settled, and its status is true; a listing shows each row once and misses none that stayed; a request writes
only for the business whose key it carries; a stored total is exact. `PROJECT.json` lists the hazards one by
one with the properties that cover each.

## 2. Modules

| Module | What it is |
|---|---|
| `InvoiceDomain` | the invoice states and legal edges (`domain/invoice.rs`) |
| `InvoiceMachine` | abstract specification: an invoice moves along legal edges, atomically |
| `InvoiceLifecycle` | invoices under concurrent admin requests; implements `InvoiceMachine` |
| `MockPsp` | the PSP and the HTTP client in front of it |
| `PaymentMachine` | abstract specification: an attempt is begun alone, charged while pending, and succeeds or fails by what was charged |
| `PaymentFlow` | composes `MockPsp` with handlers, reconcilers, admin transitions and polls over the shared tables; implements `InvoiceMachine` and `PaymentMachine` |
| `PaymentInvariant` | the inductive invariants of `PaymentFlow`: `IndInv` (the books), `LinkInv` and `ServiceInv` (what the service tells) |
| `WebhookDispatcher` | the outbox's readers: fan-out, claims, sends, marks, replays, crashes |
| `Listing` | a client that follows `next_cursor` while the table moves |
| `LineItems` | validation, amounts and total of an invoice |
| `TenantApi` | requests from the bearer token to the rows they write: keys, customers, invoices; uses `LineItems` |
| `MCLifecycle`, `MCPayment`, `MCWebhooks`, `MCListing`, `MCTenantApi` | the constants of the instances TLC checks |
| `LifecycleProofs`, `WebhookProofs`, `ListingProofs`, `TenantProofs` | theorems and proofs about the module each extends |
| `PaymentProofs`, `BooksProofs`, `PaymentRefinement`, `ServiceProofs` | theorems and proofs about `PaymentFlow`: types and invoice states; money; the abstract payment; answers, keys, outbox and polls |

### InvoiceLifecycle

`rows` is the table `invoices` (state, version, and whether each timestamp is
set), `outbox` the events this component writes, `admins` the local state of each
request. `create` is one transaction and one action. A transition is three:
`TransitionNotFound` / `TransitionRefused` / `TransitionLoad` is the load and the
check, `TransitionWins` / `TransitionLosesRace` the UPDATE conditional on the
loaded state, and `AbandonTransition` a request that dies in between.
The read of the line items after a
committed UPDATE may fail, so `TransitionWins` may answer with an error although the
invoice has moved. `PaySucceeds` is the payment path's UPDATE of the invoice.

### MockPsp

`seen` is the PSP's map, `calls` the outstanding call of each caller with the stage
it is in (sent, sleeping, answered), `charges` a history variable: the money
movements, a `psp_ref` being the index of one. `BeginCharge` and `SettleCharge`
are the lookup and the record on either side of the sleep. `HangUp` is a caller
that stops waiting: the execution either dies with its connection or goes on in
one of the `Slots`. `PspRestart` forgets `seen`. The 30 s sleep of `tok_timeout`
outlasts the 5 s deadline, so it can end only in a slot.

### PaymentFlow

One action is one committed transaction, or one query outside a transaction. What
the code keeps in local variables across an await is kept in `handlers`, `recs`
and `polls`.

| Code | Actions |
|---|---|
| `pay`, before transaction 1 | `PayRejected`, `PayRead` |
| `pay`, transaction 1 | `ClaimReplay`, `ClaimNotPayable`, `ClaimRace`, `ClaimAttempt` (which also sends the charge) |
| `replay` | `ReplayMismatch`, `ReplayCompleted`, `ReplayPending` |
| `finalize`, transaction 2 | `Finalize`, by outcome `FinalizeSucceeded`, `FinalizeDeclined`, `FinalizeUnknown`; taken by `PayFinalize` and `RecFinalize` |
| a handler dropped, crashed or failing | `AbandonPay` |
| reconciler | `Lease`, `Requery`, `RecFinalize`, `RecFinalizeFails`, `RecCrash` |
| `now()` passing `next_poll_at` | `PollTimePasses` |
| admin endpoints | `AdminTransition` |
| `get_attempt` | `PollAttempt`, `PollInvoice` |

What the abstraction rests on:

- Transaction 2 locks the attempt, then the invoice, then the key, in that order
  for everybody, and each of its UPDATEs reads only rows it has locked. Two of
  them are thus serialised, which is why each is one action.
- `AdminTransition` is atomic here because `InvoiceLifecycle` shows (and
  `LifecycleProofs!Refinement` proves) that load, check and UPDATE take effect as
  one legal edge.
- The 30 s lease and the 5 s back-off are untimed: `PollTimePasses` may happen
  whenever a row waits. Any order of real times is thus covered, and some orders
  that exact times exclude.
- The SHA-256 request fingerprint is taken as injective. The total is fixed when
  the invoice is created, so it is a constant per invoice.
- Failure codes and messages, `last_error`, `attempt_count` and timestamps of
  attempts decide nothing and are left out. `tok_card_declined` stands for both
  declining tokens. The status `expired` exists in the schema, but no code writes
  it.
- A response is its status, attempt and `psp_ref`. `invoice_state` is a literal in
  `pay` ("paid" with a success, "open" otherwise) and the amount that of the attempt,
  so `TruthfulAnswers` is about the status only.
- `AbandonPay` merges the disconnect, the crash and the database error: all three
  roll the open transaction back and answer nobody, or a 500.

### PaymentMachine

Three variables: the status of an attempt, the invoice it pays, and the attempts
money has moved for. Keys, calls, leases, retries and crashes are gone. The mapping
(`Payments` in `PaymentFlow`) reads status and invoice off the rows, and calls an
attempt charged once the PSP has a charge under its key. That is a claim about two
systems at once: a step of the PSP must find its attempt still pending, and a
`finalize` must agree with what the PSP did. It holds only when no two businesses
share a key, for the reason `shared_keys` shows.

### WebhookDispatcher

`rows` is `webhook_deliveries`, one per event and endpoint. A timestamp is kept as
what it is compared with: `due` is `next_attempt_at <= now()`, `lease` is
`locked_until` NULL, ahead or past, an event is `recent` or `old` against the one-hour
window. `accepted`, `refused`, `owed` and `scanned` are history: what the receivers did,
which endpoints were there before an event, and what the committed fan-outs had in
their window.

| Code | Actions |
|---|---|
| `emit_event`, `register_endpoint`, `redeliver` | `EmitEvent`, `RegisterEndpoint`, `Redeliver` |
| `fan_out` | `FanOut`, `FanOutFails` |
| `deliver_batch` | `Claim`, `ClaimNothing`; `Hydrate`, `HydrateFails` |
| `send_one` | `Send`, then `Mark` (`mark_succeeded`, `mark_failed`) or `MarkLost` |
| a process that dies and comes back | `Crash`, `Restart` |
| `now()` | `HourPasses`, `BackoffEnds`, `LeaseExpires` |

A mark matches on the id alone, and it goes by the attempts the second query of the
tick has read. Both are kept: `Mark` has no guard on the row's state, and a job
carries the attempts of the moment of `Hydrate`. The random delay may be zero, so a
failed row may be due at once. Events are absent, then recent, then old.
`HourPasses` waits for nothing: the code does not keep an event in the window until it
has its rows, and the dispatchers may be down, `fan_out` may fail at every tick, or an
endpoint may be registered a moment before the hour ends.

### Listing

One table stands for the three that are paged alike. An insert is two steps
(`BeginInsert` stamps `created_at`, `Commit` shows the row), a page is one query. A
cursor is the position it encodes, and text that is no cursor decodes to none, which
is a first page. A page asks for `limit + 1` rows and its last row becomes
`next_cursor`. `seen` and `steady` remember the pages before and the rows that have
matched since the first page. The rows of other businesses are filtered by every
query and left out.

### LineItems and TenantApi

`LineItems` is pure: which items are valid, the generated `amount_cents`, the SUM, and
where Postgres refuses to store either. `MaxBigint` is a parameter. `common/src/money.rs`
has checked arithmetic as well, but nothing in the service calls it.

`TenantApi` follows a request: `Authenticate` reads the key row and gives the handler
its business; the handler runs later, when the key may be revoked. Creating an invoice
is the customer check outside the transaction (`CheckInvoice`), then the transaction
(`InsertInvoice`, or `InsertOverflows`, which rolls back). The CHECKs of `invoices` and
`invoice_line_items` (quantity above 0, no negative price or total) repeat the
validation and are left out: the properties hold on the validation alone. A key is a prefix and a
body; any token may be generated, one with a taken prefix too. `issued` and `acted`
are history: whom a token was handed to, and for whom it has written. `last_used_at`
is left out, since nothing reads it.

## 3. Runs

Every run is one question. `I` invoices, `K` keys, `A` attempts, `H` handlers,
`R` reconcilers, `S` slots.

| Run | Instance | Checks |
|---|---|---|
| `lifecycle` | 2 I, 3 admin requests | type, `RowTellsItsPath`, `NoStaleWin`, refinement of `InvoiceMachine` |
| `pay_race` | 1 I, 2 K, 2 A, 2 H, 1 R; success and decline | one charged attempt per invoice; invoice, keys and outbox agree with the attempts; the statuses told are true, answers belong to their request; refinement of `PaymentMachine` |
| `psp_restart` | 1 I, 1 K, 1 A, 1 H, 2 R, 1 S, one restart of the PSP; success, decline, timeout, network error | books match the PSP; `IndInv`; terminal attempts are final; refinement of `InvoiceMachine` |
| `pay_resolve` | 1 I, 1 A, 1 H, 1 R, 1 S, 1 poller, fair; success, decline, unknown card | type; the poll's two reads are never torn; a pending attempt is resolved |
| `webhooks` | 1 event, 2 endpoints of which one subscribes, 2 dispatchers, 2 attempts, 1 replay, 1 fault, fair | type; `NotStranded`, `SucceededIsTrue`, `DeadForCause`; every delivery is settled, every event delivered that one `fan_out` had in its window |
| `listing` | 3 rows, 3 clock values, pages of 1 and 2, with and without a filter, fair | type; `Descending`, `Complete`, `Terminates`; `Traversal` |
| `tenant_api` | 2 businesses, 3 key ids, 3 prefixes, 2 bodies, 2 customers, 1 invoice, 8 orders around the largest bigint, 2 requests | type; `ActsForOwner`, `OwnCustomers`, `RevokedByOwner`, `RevokedForGood`; `ExactTotals`, `CreatedOnce` |

What the newer properties say:

- `NotStranded`: exactly the rows in flight have a lease. A row without one in that
  status would match no branch of the claim and wait for ever.
- `SucceededIsTrue`, `DeadForCause`: whichever of several overlapping claims wrote a
  status last, a success was taken by the receiver, and a delivery that nobody
  replayed is dead only after a fatal answer or a spent budget.
- `Complete` is what keyset pages promise and no more: rows that were there at the
  first page and kept matching. A row committed later under an earlier `created_at`
  may be missed; TLC's runs contain that case.
- `EventuallyDelivered`: an event is settled at every matching endpoint registered
  within its hour, unless no `fan_out` at all committed in what was left of the hour.
  One that did is enough, whichever dispatcher ran it and whatever fails afterwards;
  its safety half, `FannedOutForGood`, is proved.

`IndInv` and `Traversal` are inductive invariants of the proofs. They are checked
because each says more than the properties that follow from it: `IndInv` what calls,
PSP and charges have to do with each other, `Traversal` that the cursor separates. The
other inductive invariants are only proved.

### Why the bounds are enough

Handlers and pollers return to idle and start again, so one handler stands for any
number of requests in a row, and two for any pair of requests that overlap.
Reconcilers tick for ever. Two attempts of one invoice are what a second charge of
it needs, and the partial index compares attempts pairwise. A third caller adds no
pair of steps that two do not have. One slot holds one execution that outlives its
caller, next to the executions that still have one; that is the second execution
with the same key. One restart of the PSP separates before from after. What is
proved (section 5) does not depend on any bound.

The safety of deliveries is proved for any number; for the rest, they meet nowhere
but in a batch, and a batch only decides when its worker ticks
again: one delivery with two workers shows every overlap of claim, expiry, replay and
mark; two attempts give one that is retried and one that is the last. The filter needs
a second endpoint, the ownership check a second business, which `lost_event` has.
A listing needs a row before, on and after a cursor, hence three, and clock values
before, at and after it. `MaxBigint = 7` puts orders at the bound, beyond it in one
product, and beyond it only in the sum; nothing in `LineItems` depends on the value.

Deadlock is checked in every run: a handler may always start a request, a dispatcher
ticks, a client may list again.

### Fairness

`pay_resolve` assumes of payments (`PaymentFlow!FairSpec`) that

- time passes (`PollTimePasses`, weak): `now()` overtakes `next_poll_at`;
- a row that is due again and again is leased by some reconciler (strong): the
  loop in `reconciler.rs` never ends and the lease orders by
  `next_poll_at NULLS FIRST`. Fresh rows thus come first, 20 rows a tick: the
  assumption is that in the long run fewer than 20 fresh rows come with each tick.
  Were there always 20, an older row would be passed over for ever;
- a leased row is queried, a query is answered and a finalize committed in some
  try (strong), and a finalize happens at the deadline if not before: the PSP and
  the database are not down for ever, and `charge()` always returns.

Nothing is assumed of clients, handlers, crashes or slots: a handler may stop or
be dropped at any point, and the attempt must still be resolved. Strong fairness
is needed because crashes and failed finalizes disable these steps again and
again.

`webhooks` assumes that dispatchers tick (the loop of `run` ends only with the
process) and are restarted, that time passes, and that a row which is claimable at
tick after tick is claimed by one of them (strong, since the other replica may take it
first; the claim orders by `next_attempt_at`, so newer rows do not overtake it for
ever). Of receivers nothing is assumed: they may time out at every try. Crashes and
failed statements are bounded by `MaxFaults`, replays by `MaxRedelivers`; under
infinitely many of either nothing settles.

`listing` assumes only that the client asks for the next page as long as there is one.

## 4. Where code and documents disagree

Each of these runs checks one statement of the repository's own documents or
comments, and TLC finds a behaviour of the code that breaks it. `PROJECT.json`
quotes the lines.

| Run | Statement | What the code does |
|---|---|---|
| `second_charge` | re-querying never produces a second charge | a fresh attempt is due at once, so the reconciler re-queries while the first call still sleeps in the PSP; both settle |
| `phantom_event` | no phantom events | a second `finalize` of one attempt emits its event again |
| `success_on_void` | success moves the invoice to paid | an invoice voided during the charge stays void; the response still says paid |
| `shared_keys` | the forwarded key names one charge | two businesses may choose one key; the second is marked paid without a charge |
| `lost_event` | delivery is at-least-once, events are never lost | `fan_out` looks back one hour: after a longer outage of the dispatchers the event is never sent, and there is no row to redeliver (it is still listed by `/v1/events`) |

Smaller disagreements were seen in the code while modelling. The models behave as the
code does, and no run is spent on them:

- Every re-query of `tok_timeout` starts its 30 s sleep anew and gives up after 5 s, so
  the attempt stays pending for ever while the PSP drops abandoned requests;
  `README.md:89` says "the reconciler resolves it", `DESIGN.md:143` that it
  "terminalizes it".
- The state `pay` tests under "The invoice must be payable"
  (`payment_service.rs:89`) was read before transaction 1, without a lock. This is
  one of the ways into `success_on_void`.
- `complete_key` overwrites a response that was already cached
  (`payment_service.rs:421`), although `README.md:67` says a replay "returns the
  same result": after `second_charge` the second `finalize` replaces the `psp_ref` a
  replay reports. `TruthfulAnswers` and `KeyMirrorsAttempt` are about the status only,
  which stays. The cause is that of `phantom_event`: `finalize` does not look at the
  row count of its first UPDATE.
- The 30 s lease does not cover a batch of 20 rows at up to 5 s each, although
  `reconciler.rs:44-45` says it keeps a concurrent reconciler away from its rows.
- A key reused with another body is a 409; `DESIGN.md:156` and
  `migrations/0009_idempotency_keys.sql:6` say 422, `docs/openapi.yaml:179` 409.
- `finalize`, `void` and `mark_uncollectible` emit no event, although
  `docs/VIDEO_SCRIPT.md:50` says that every state change does.
- `attempts` counts claims and the claim compares nothing: the claims of workers that
  die, or outlive their lease, before their mark take a row past the "Max **8
  attempts**" of `DESIGN.md:191`. `DeadForCause` says that a row is not given up
  early; that it is given up in time is false.
- A key revoked after the middleware has read it (`auth/middleware.rs:52`) is good
  for the rest of that request, which may still write; `DESIGN.md:218` says that a
  revocation is "effective immediately". `RevokedForGood` is what holds: no request
  starts with it any more.
- A late worker's mark overwrites the row whoever holds it: a delivery that has
  succeeded may become failed again and be sent once more, and one that was just
  replayed by hand may become dead again at once. At-least-once delivery allows the
  first; the second is not what the 202 "Re-queued" of `docs/openapi.yaml:237` suggests.
- No code disables an endpoint, although `DESIGN.md:194` says that sustained failure
  does. A new endpoint receives the events of the hour before it was registered.
- `common/src/money.rs:63` says that production totals go through
  `Money::checked_add`; the service leaves them to the database.
- `expires_at` is checked at authentication and written by nobody, and the
  environment in a key (`live`, `test`) is never looked at.

The double charge needs care in reading: `AtMostOneChargePerKey` fails, while
`OneChargedAttempt` holds. The PSP may execute one attempt's charge twice; two
*different* attempts of an invoice are never both charged.

## 5. Proofs

| Theorem | States |
|---|---|
| `LifecycleProofs!TypeCorrect`, `PathRecorded`, `NoStaleWinTheorem`, `Refinement` | everything the run `lifecycle` checks |
| `PaymentProofs!TypeCorrect` | `Spec => []TypeOK` |
| `PaymentProofs!Refinement` | `Spec => ImplementsMachine` |
| `BooksProofs!TerminalFinal` | `Spec => TerminalAttemptFinal` |
| `BooksProofs!Inductive` | `Spec => []IndInv` |
| `BooksProofs!BooksAgree`, `ChargedOnce` | `Spec => []BooksMatchPsp`, `Spec => []OneChargedAttempt` |
| `PaymentRefinement!ImplementsPayments` | `Spec => ImplementsPayment` |
| `ServiceProofs!LinksKeep` | `Spec => []LinkInv` |
| `ServiceProofs!PollsAreWhole`, `OwnAnswers` | `Spec => []PollNotTorn`, `Spec => AnswersOwnRequest` |
| `ServiceProofs!ServiceInductive` | `Spec => []ServiceInv` |
| `ServiceProofs!InvoicesFollowAttempts`, `KeysMirrorAttempts`, `OutboxTellsAll`, `AnswersStayTrue` | the other invariants the run `pay_race` checks |
| `WebhookProofs!TypeCorrect`, `NoneStranded`, `SuccessTrue`, `DeadCause` | the invariants the run `webhooks` checks |
| `WebhookProofs!FannedOutStays` | `Spec => []FannedOutForGood` |
| `WebhookProofs!Inductive` | `Spec => []IndInv`, the invariant they follow from |
| `ListingProofs!TraversalInductive` | `Spec => []Traversal` |
| `ListingProofs!ListingTypes`, `PagesDescend`, `PagesComplete` | the invariants the run `listing` checks |
| `TenantProofs!TenantInductive` | `Spec => []TenantInv` |
| `TenantProofs!TenantTypes`, `OwnersAct`, `CustomersOwned`, `TotalsExact`, `EventsCreatedOnce` | the invariants the run `tenant_api` checks |
| `TenantProofs!RevokedByOwnerOnly`, `RevokedStaysRevoked` | `Spec => RevokedByOwner`, `Spec => RevokedForGood` |

Assumptions: `PspAssumption` and `FlowAssumption` say what the constants are
(every invoice has an owner and a total, callers are handlers and reconcilers,
a batch is positive), `WebhookAssumption` that batch and budget are positive. `ListingAssumption` says
that ids are finitely many naturals (what matters is that they are ordered), that a
listing without a filter is one of the listings, and that the default limit lies
between 1 and the largest. `TenantAssumption` says that the businesses are set up with
keys of different prefixes and that an order is a sequence of line items with any
integers in it; `BigintAssumption` only that the largest bigint is a natural.

`BooksProofs!Inductive`, `BooksAgree`, `ChargedOnce`, `ImplementsPayments` and, in
`ServiceProofs`, `ServiceInductive` and the four theorems that follow from it also
assume `DisjointKeys`: no two businesses share a key. The run `shared_keys` shows
that `BooksMatchPsp`, and with it what is built on it, fails without it. Everything
else, `LinksKeep`, `PollsAreWhole` and `OwnAnswers` included, is proved with any
keys.

### Lifecycle

`NoStaleWin` is not inductive by itself. The UPDATE compares states only, so one
must know that a row in the loaded state is the loaded row. `RowTellsItsPath` fixes
version and timestamps for each state that has an outgoing edge
(`StateDeterminesRow`), and the strengthening adds that what a request has loaded
told its path too and had a legal edge to the target. Two rows that tell their path
and agree on such a state are equal.

### Payment flow

`BooksMatchPsp` is a statement about two parties who never see each other's
memory. The argument follows a charge backwards, and each layer of `IndInv` is
what the next one needs:

1. `TypeOK` and `References` (together `WellFormed`): shapes, and no id without a
   row. A primed `EXCEPT` says nothing at an index outside its domain, so nothing
   else can start without this.
2. `AttemptsSound`: an attempt carries its invoice's total, a key of its business,
   and its key points back at it. With `DisjointKeys`, a key then names one
   attempt (`KeyNamesAttempt`).
3. `SingleActive`: the partial index.
4. `CallsSound`: a call in flight is the charge of the attempt its caller works
   on, also when its caller has gone (slots). Rows of attempts keep key, card and
   amount for ever, so this survives every other step.
5. `ChargesSound`: money moves only for a committed attempt.
6. `PspSound`: what the PSP recorded or answered about a key is about a charge, or
   a card that cannot be charged, of that key. A restart only forgets.
7. `BooksSound`: a succeeded attempt points at its own charge, a failed one has a
   card that no execution can ever charge. The second half is stronger than "was
   not charged", and has to be: an execution left in a slot may settle after the
   attempt has failed.

`ChargedOnce` follows from 3, 5 and 7: a charged attempt is not failed, so two
charged attempts of one invoice would both be active.

`ImplementsPayments` takes the steps apart by what they do to the mapping.
Transaction 1 is `Begin`: the partial index saw no active attempt, and a charge
already made under the fresh key would belong to an attempt whose key is taken.
Transaction 2 is `Succeed` or `Fail` by what a caller may conclude from its answer
(`ResultSound`, from layer 6), or a stutter when it comes second. A settling call
is `Charge`, or a stutter when its attempt has succeeded; by layer 7 it is never the
call of a failed one.

### What the service tells

`finalize` writes attempt, invoice, outbox and key in one transaction, but only the
first two writes are conditional. The event and the cached response are written again
by whoever comes second, so the question is whether the second says what the first
said.

`LinkInv` is what holds with any keys, shared ones too: which attempt a key, a
fingerprint, a cached response, an event, a charging handler and a poll point at. From
it follow `OwnAnswers` (a replay compares fingerprints, and the fingerprint is that of
the attempt the key points at) and `PollsAreWhole` (a succeeded attempt has settled its
invoice before the second read). It needs that no attempt is of a draft, and with it
that an invoice a handler has read as open is not a draft later: otherwise the
conditional UPDATE of a success could match no row and leave the invoice payable.

`ServiceInv` adds what keys, outbox and answers say. Its steps rest on `IndInv`
through one lemma, `DecidedAlike`: when a caller is about to decide an attempt that is
already decided, both decisions agree. A succeeded attempt has a charge, so its card
moves money and no caller can conclude a decline; a failed one has a card that never
moves money, so no caller can hold a charge of it. That is layer 7 of `IndInv` again,
and it is where `DisjointKeys` enters. With it, the second `finalize` caches the
same status and emits the same kind of event, and a status once told stays true.

### Webhooks

The marks match on the id alone, so what a row says is only as good as what the
worker that wrote it knew. `WorkersSound` is that: the rows a worker holds exist, a
2xx in its hands means the receiver has taken the event, a fatal answer that it has
refused it, and unless somebody replayed the row by hand, the attempts it read are
at most the row's own. The last part is why a late `mark_failed` cannot declare a row
dead early: `Kept` says that attempts fall only by a replay. `SucceededIsTrue` and
`DeadForCause` are then preserved by `Mark`, and `NotStranded` by every step, since
status and lease are always written together. `FannedOutForGood` needs only that rows,
once there, stay (`Kept`).

### Listing

`Descending` and `Complete` speak of all pages so far, the query only of the cursor.
`CursorSeparates` connects them: no row that has been shown lies below the cursor,
every steady row that has not been shown does. A page is cut from the rows below the
cursor in the order of the query (`PageCut`: what it shows comes before what it leaves),
so the next cursor separates again; on the last page nothing is left. Writers do not
disturb it, because `created_at` and id of a row never change and a row that stops
matching is no longer steady (`WritersKeep`). A row committed late, below or above the
cursor, is not steady, which is why it may be missed but never repeated.

### Tenants and totals

`KeysIssued` says that tokens and key rows correspond one to one and that a prefix
finds a single row, revoked ones included. A request keeps its token's business across
its queries (`RequestsSound`), and since tokens and customers are never taken away,
what it checked before its transaction still holds inside it. `ActsForOwner`,
`OwnCustomers` and `CreatedOnce` follow action by action. `RevokedForGood` follows
from `KeysIssued`: the row that lets a token in is the only one with its prefix.

`ExactTotals` is a statement about folds over sequences of any length. It is proved by
induction in the form of a least counterexample (`NatMin`, from the well-foundedness of
`<`): `FoldExists` gives the recursion equation of a fold and `SumUnique` says that it
determines the fold, so the SUM over the stored amounts is the sum of the products over
the lines of the order (`SumOfProducts`).

### Only model-checked

`PendingResolved`, `EventuallySettled`, `EventuallyDelivered` and `Terminates` are
liveness under fairness, which the prover does not handle; they stay with TLC, and so
does that the system never deadlocks. Every safety property of a passing run is
proved.

## 6. Not modelled, and why

- HMAC, SHA-256, JSON, routing, configuration, pool and start-up: library calls,
  formatting and wiring. A shutdown appears as the crash actions.
- `list_deliveries`, `list` of API keys and the reads of one row: a single query that
  changes nothing and is followed by nothing.
- `last_used_at`: written in the background, read by nobody.
- The length of the back-off: whether a row is due is all that is ever read of it. The
  shift in `dispatcher.rs:238` overflows only when `max_attempts` is configured above
  64.
- Loss of committed database state: Postgres is taken to be durable.

## 7. Plan

Done: all modules of section 2, their runs and the theorems of section 5. Next:

1. Compose `TenantApi` with the lifecycle, so that the owner of an invoice in
   `PaymentFlow` is the business that created it.

## 8. Running it

    tlc -config PayRace.cfg MCPayment
    tlapm BooksProofs.tla

`PROJECT.json` names, for each run, its module and configuration. The definitions
marked `Faulty` are mutations of the operator they precede; no specification uses
them. Each shows that the property it is listed with in `PROJECT.json` can fail.
