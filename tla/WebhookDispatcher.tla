-------------------------- MODULE WebhookDispatcher --------------------------
(***************************************************************************)
(* The webhook subsystem behind the outbox (webhooks/dispatcher.rs,        *)
(* services/webhook_service.rs, migration 0010).  Any number of            *)
(* dispatchers tick over the same tables: fan events out to one row per    *)
(* event and endpoint, claim a batch under a lease, read the claimed rows  *)
(* again, send, and mark each row by its id alone.  A worker that is       *)
(* slower than its lease, or dies, meets the claims of others.             *)
(***************************************************************************)
EXTENDS Integers, FiniteSets

CONSTANTS
  Events,          \* bound: events that can be emitted
  Endpoints,       \* bound: endpoints that can be registered
  Dispatchers,     \* one dispatcher per replica
  EventOwner,      \* the business of an event
  EventType,       \* its event_type
  EndpointOwner,   \* the business of an endpoint
  EventTypes,      \* the subscription filter of an endpoint; empty = all
  MaxAttempts,     \* max_attempts
  Batch,           \* BATCH
  MaxRedelivers,   \* bound: manual replays of one delivery
  MaxFaults        \* bound: crashes and failed statements, together

ASSUME WebhookAssumption ==
  /\ MaxAttempts \in Nat \ {0}
  /\ Batch \in Nat \ {0}
  /\ MaxRedelivers \in Nat
  /\ MaxFaults \in Nat

VARIABLES
  events,          \* webhook_events: the age of each against the fan-out window
  endpoints,       \* webhook_endpoints, all of them active
  rows,            \* webhook_deliveries
  workers,         \* local state of each dispatcher's tick
  accepted,        \* history: deliveries the receiver has taken
  refused,         \* history: deliveries it has answered with a fatal 4xx
  owed,            \* history: deliveries whose endpoint was there before the event
  scanned,         \* history: subscriptions a committed fan_out had in its window
  redelivered,     \* manual replays of each delivery so far
  faults           \* crashes and failed statements so far

vars == <<events, endpoints, rows, workers, accepted, refused, owed, scanned, redelivered, faults>>
history == <<accepted, refused, owed, scanned>>

-----------------------------------------------------------------------------
\* The unique index uq_delivery_event_endpoint: one row for each pair.
Deliveries == Events \X Endpoints

Status == {"pending", "in_flight", "succeeded", "failed", "dead"}

\* due stands for next_attempt_at <= now(), lease for locked_until: NULL, in the
\* future, or in the past.
DeliveryRow == [status : Status, attempts : Nat, due : BOOLEAN,
                lease : {"null", "held", "expired"}]

NoRow == [status |-> "absent"]

\* A row as fan_out inserts it, all columns at their defaults.
NewRow == [status |-> "pending", attempts |-> 0, due |-> TRUE, lease |-> "null"]

Exists(d) == rows[d] # NoRow

\* What a POST comes to: 2xx, a 4xx other than 408 and 429, or anything else, a
\* timeout or a lost connection included.
Outcomes == {"2xx", "fatal_4xx", "retry"}

\* One claimed delivery in a worker's hands, with the attempts the worker read.
Job == [delivery : Deliveries, attempts : Nat, result : Outcomes \cup {"unsent"}]

Idle == [pc |-> "idle"]
Down == [pc |-> "down"]

WorkerState == {Idle, Down, [pc |-> "deliver"]}
                 \cup [pc : {"hydrate"}, ids : SUBSET Deliveries]
                 \cup [pc : {"send"}, jobs : SUBSET Job]

Init ==
  /\ events = [e \in Events |-> "absent"]
  /\ endpoints = {}
  /\ rows = [d \in Deliveries |-> NoRow]
  /\ workers = [w \in Dispatchers |-> Idle]
  /\ accepted = {} /\ refused = {} /\ owed = {} /\ scanned = {}
  /\ redelivered = [d \in Deliveries |-> 0]
  /\ faults = 0

\* A statement fails or a process dies.
Fault == faults < MaxFaults /\ faults' = faults + 1

\* The join condition of fan_out.
Matches(e, ep) ==
  /\ EndpointOwner[ep] = EventOwner[e]
  /\ EventTypes[ep] = {} \/ EventType[e] \in EventTypes[ep]

Subscriptions == {d \in Deliveries : Matches(d[1], d[2])}

-----------------------------------------------------------------------------
(* The API: events, endpoints, manual replay                               *)

\* webhook_service::emit_event, inside the transaction that it reports.
EmitEvent(e) ==
  /\ events[e] = "absent"
  /\ events' = [events EXCEPT ![e] = "recent"]
  /\ owed' = owed \cup {d \in Subscriptions : d[1] = e /\ d[2] \in endpoints}
  /\ UNCHANGED <<endpoints, rows, workers, accepted, refused, scanned, redelivered, faults>>

\* A URL that is not http(s) is a validation error and changes nothing.
RegisterEndpoint(ep) ==
  /\ ep \notin endpoints
  /\ endpoints' = endpoints \cup {ep}
  /\ UNCHANGED <<events, rows, workers, history, redelivered, faults>>

\* redeliver.  Any other status, or another business, is a 404.
Redeliver(d) ==
  /\ redelivered[d] < MaxRedelivers
  /\ rows[d].status \in {"failed", "dead"}
  /\ rows' = [rows EXCEPT ![d] = NewRow]
  /\ redelivered' = [redelivered EXCEPT ![d] = @ + 1]
  /\ UNCHANGED <<events, endpoints, workers, history, faults>>

-----------------------------------------------------------------------------
(* Time                                                                    *)

\* created_at falls out of the hour fan_out looks back.  Nothing waits for a row: the
\* dispatchers may be down, fan_out may fail at tick after tick, or the endpoint
\* may be registered at the hour's end.
HourPasses(e) ==
  /\ events[e] = "recent"
  /\ events' = [events EXCEPT ![e] = "old"]
  /\ UNCHANGED <<endpoints, rows, workers, history, redelivered, faults>>

\* now() overtakes next_attempt_at.
BackoffEnds(d) ==
  /\ Exists(d) /\ ~rows[d].due
  /\ rows' = [rows EXCEPT ![d] = [@ EXCEPT !.due = TRUE]]
  /\ UNCHANGED <<events, endpoints, workers, history, redelivered, faults>>

\* now() overtakes locked_until, whether or not the worker is still at it.
LeaseExpires(d) ==
  /\ Exists(d) /\ rows[d].lease = "held"
  /\ rows' = [rows EXCEPT ![d] = [@ EXCEPT !.lease = "expired"]]
  /\ UNCHANGED <<events, endpoints, workers, history, redelivered, faults>>

-----------------------------------------------------------------------------
(* One tick of a dispatcher                                                *)

\* Step w to the local state s.
Goto(w, s) == workers' = [workers EXCEPT ![w] = s]

\* The pairs in fan_out's window: an event of the last hour, an endpoint of its
\* business that subscribes to it.
InWindow == {d \in Subscriptions : events[d[1]] = "recent" /\ d[2] \in endpoints}

\* What fan_out has yet to insert.
Missing == {d \in InWindow : ~Exists(d)}

\* Faulty: the subscription filter is not applied.
FanOutUnfiltered(w) ==
  /\ workers[w] = Idle
  /\ rows' = [d \in Deliveries |->
                IF events[d[1]] = "recent" /\ d[2] \in endpoints /\ ~Exists(d) THEN NewRow
                ELSE rows[d]]
  /\ Goto(w, [pc |-> "deliver"])
  /\ scanned' = scanned \cup InWindow
  /\ UNCHANGED <<events, endpoints, accepted, refused, owed, redelivered, faults>>

\* Faulty: created_at is compared the wrong way round.
FanOutOldEvents(w) ==
  /\ workers[w] = Idle
  /\ rows' = [d \in Deliveries |->
                IF events[d[1]] = "old" /\ d[2] \in endpoints /\ d \in Subscriptions /\ ~Exists(d)
                THEN NewRow ELSE rows[d]]
  /\ Goto(w, [pc |-> "deliver"])
  /\ scanned' = scanned \cup InWindow
  /\ UNCHANGED <<events, endpoints, accepted, refused, owed, redelivered, faults>>

\* INSERT .. SELECT .. ON CONFLICT DO NOTHING.
FanOut(w) ==
  /\ workers[w] = Idle
  /\ rows' = [d \in Deliveries |-> IF d \in Missing THEN NewRow ELSE rows[d]]
  /\ Goto(w, [pc |-> "deliver"])
  /\ scanned' = scanned \cup InWindow
  /\ UNCHANGED <<events, endpoints, accepted, refused, owed, redelivered, faults>>

\* The error is logged and the tick goes on to the batch.
FanOutFails(w) ==
  /\ workers[w] = Idle
  /\ Fault
  /\ Goto(w, [pc |-> "deliver"])
  /\ UNCHANGED <<events, endpoints, rows, history, redelivered>>

\* Faulty: a crashed worker's rows are not taken back.
ClaimableIfWaiting(d) == rows[d].status \in {"pending", "failed"} /\ rows[d].due

\* The WHERE clause of the claim.
Claimable(d) ==
  \/ rows[d].status \in {"pending", "failed"} /\ rows[d].due
  \/ rows[d].status = "in_flight" /\ rows[d].lease = "expired"

Claimed(row) == [status |-> "in_flight", attempts |-> row.attempts + 1, due |-> row.due,
                 lease |-> "held"]

\* Rows that others have locked are skipped, so any part of the due rows may be
\* claimed.
ClaimRows(w, ids) ==
  /\ workers[w].pc = "deliver"
  /\ Cardinality(ids) \in 1 .. Batch
  /\ \A d \in ids : Claimable(d)
  /\ rows' = [d \in Deliveries |-> IF d \in ids THEN Claimed(rows[d]) ELSE rows[d]]
  /\ Goto(w, [pc |-> "hydrate", ids |-> ids])
  /\ UNCHANGED <<events, endpoints, history, redelivered, faults>>

Claim(w) == \E ids \in SUBSET Deliveries : ClaimRows(w, ids)

\* Nothing is due, all of it is locked, or the statement failed.
ClaimNothing(w) ==
  /\ workers[w].pc = "deliver"
  /\ Goto(w, Idle)
  /\ UNCHANGED <<events, endpoints, rows, history, redelivered, faults>>

\* A second query reads the rows again: the attempts a worker goes by are those
\* of this moment, not those its claim returned.
Hydrate(w) ==
  /\ workers[w].pc = "hydrate"
  /\ Goto(w, [pc |-> "send",
              jobs |-> {[delivery |-> d, attempts |-> rows[d].attempts, result |-> "unsent"] :
                          d \in workers[w].ids}])
  /\ UNCHANGED <<events, endpoints, rows, history, redelivered, faults>>

HydrateFails(w) ==
  /\ workers[w].pc = "hydrate"
  /\ Fault
  /\ Goto(w, Idle)
  /\ UNCHANGED <<events, endpoints, rows, history, redelivered>>

\* send_one's POST.  Before a timeout, or a 5xx, the receiver may have taken the event.
Send(w, j) ==
  /\ workers[w].pc = "send"
  /\ j \in workers[w].jobs /\ j.result = "unsent"
  /\ \E result \in Outcomes :
       /\ Goto(w, [pc |-> "send",
                   jobs |-> (workers[w].jobs \ {j}) \cup {[j EXCEPT !.result = result]}])
       /\ \/ result \in {"2xx", "retry"} /\ accepted' = accepted \cup {j.delivery}
          \/ result # "2xx" /\ UNCHANGED accepted
       /\ refused' = IF result = "fatal_4xx" THEN refused \cup {j.delivery} ELSE refused
  /\ UNCHANGED <<events, endpoints, rows, owed, scanned, redelivered, faults>>

\* The batch is joined once its last job is done; the next tick comes after that.
JobDone(w, j) ==
  LET rest == workers[w].jobs \ {j}
  IN  Goto(w, IF rest = {} THEN Idle ELSE [pc |-> "send", jobs |-> rest])

\* Faulty: the lease of a row that waits for its retry is kept.
MarkFailedLeaseKept(row, attempts, result) ==
  {[row EXCEPT !.status = "failed", !.due = now] : now \in BOOLEAN}

\* Faulty: the budget is compared the wrong way round.
MarkFailedEarly(row, attempts, result) ==
  IF result = "fatal_4xx" \/ attempts < MaxAttempts
  THEN {[row EXCEPT !.status = "dead", !.lease = "null"]}
  ELSE {[row EXCEPT !.status = "failed", !.due = now, !.lease = "null"] : now \in BOOLEAN}

\* mark_failed: a dead letter, or a retry after rand(0, ceiling) seconds, which
\* may be none at all.  It goes by the attempts the worker has read.
MarkFailed(row, attempts, result) ==
  IF result = "fatal_4xx" \/ attempts >= MaxAttempts
  THEN {[row EXCEPT !.status = "dead", !.lease = "null"]}
  ELSE {[row EXCEPT !.status = "failed", !.due = now, !.lease = "null"] : now \in BOOLEAN}

\* mark_succeeded.
MarkSucceeded(row) == [row EXCEPT !.status = "succeeded", !.lease = "null"]

\* Faulty: an answer that is no 2xx counts as a success.
MarkedAnyAnswer(row, j) ==
  IF j.result \in {"2xx", "retry"} THEN {MarkSucceeded(row)}
  ELSE MarkFailed(row, j.attempts, j.result)

\* The rows send_one may leave behind.  It matches on the id alone: whoever else
\* has claimed, finished or replayed the delivery meanwhile, the row is overwritten.
Marked(row, j) ==
  IF j.result = "2xx" THEN {MarkSucceeded(row)} ELSE MarkFailed(row, j.attempts, j.result)

Mark(w, j) ==
  /\ workers[w].pc = "send"
  /\ j \in workers[w].jobs /\ j.result # "unsent"
  /\ \E row \in Marked(rows[j.delivery], j) : rows' = [rows EXCEPT ![j.delivery] = row]
  /\ JobDone(w, j)
  /\ UNCHANGED <<events, endpoints, history, redelivered, faults>>

\* The error of a failed UPDATE is dropped (let _ =).
MarkLost(w, j) ==
  /\ workers[w].pc = "send"
  /\ j \in workers[w].jobs /\ j.result # "unsent"
  /\ Fault
  /\ JobDone(w, j)
  /\ UNCHANGED <<events, endpoints, rows, history, redelivered>>

Crash(w) ==
  /\ workers[w] # Down
  /\ Fault
  /\ Goto(w, Down)
  /\ UNCHANGED <<events, endpoints, rows, history, redelivered>>

Restart(w) ==
  /\ workers[w] = Down
  /\ Goto(w, Idle)
  /\ UNCHANGED <<events, endpoints, rows, history, redelivered, faults>>

SendStep(w) == workers[w].pc = "send" /\ \E j \in workers[w].jobs : Send(w, j) \/ Mark(w, j)

Next ==
  \/ \E e \in Events : EmitEvent(e) \/ HourPasses(e)
  \/ \E ep \in Endpoints : RegisterEndpoint(ep)
  \/ \E d \in Deliveries : Redeliver(d) \/ BackoffEnds(d) \/ LeaseExpires(d)
  \/ \E w \in Dispatchers :
       \/ FanOut(w) \/ FanOutFails(w) \/ Claim(w) \/ ClaimNothing(w)
       \/ Hydrate(w) \/ HydrateFails(w) \/ SendStep(w)
       \/ workers[w].pc = "send" /\ \E j \in workers[w].jobs : MarkLost(w, j)
       \/ Crash(w) \/ Restart(w)

Spec == Init /\ [][Next]_vars

\* Dispatchers tick for ever and are restarted, time passes, and a row that is due
\* at tick after tick is claimed by one of them (the claim orders by next_attempt_at).
FairSpec ==
  /\ Spec
  /\ \A w \in Dispatchers :
       WF_vars(FanOut(w)) /\ WF_vars(ClaimNothing(w)) /\ WF_vars(Hydrate(w))
         /\ WF_vars(SendStep(w)) /\ WF_vars(Restart(w))
  /\ \A d \in Subscriptions :
       /\ WF_vars(BackoffEnds(d)) /\ WF_vars(LeaseExpires(d))
       /\ SF_vars(\E w \in Dispatchers : \E ids \in SUBSET Deliveries : d \in ids /\ ClaimRows(w, ids))

-----------------------------------------------------------------------------
(* Properties                                                              *)

\* Every table and local state keeps its shape, and a row belongs to an emitted
\* event and a registered endpoint of the same business that subscribes to it.
TypeOK ==
  /\ events \in [Events -> {"absent", "recent", "old"}]
  /\ endpoints \subseteq Endpoints
  /\ rows \in [Deliveries -> DeliveryRow \cup {NoRow}]
  /\ \A d \in Deliveries :
       Exists(d) => events[d[1]] # "absent" /\ d[2] \in endpoints /\ Matches(d[1], d[2])
  /\ workers \in [Dispatchers -> WorkerState]
  /\ accepted \subseteq Deliveries /\ refused \subseteq Deliveries /\ owed \subseteq Deliveries
  /\ scanned \subseteq Deliveries
  /\ redelivered \in [Deliveries -> 0 .. MaxRedelivers]
  /\ faults \in 0 .. MaxFaults

Settled(d) == rows[d].status \in {"succeeded", "dead"}

\* No row is stranded: a lease is held by in_flight rows and by no others, so every
\* row that is not settled is due, will be due, or has a lease that runs out.  Late
\* workers, lost marks and manual replays all overwrite each other's rows.
NotStranded ==
  \A d \in Deliveries :
    Exists(d) => ((rows[d].status = "in_flight") <=> (rows[d].lease # "null"))

\* "succeeded" is true: the receiver has taken the event, whichever of several
\* claims of the row wrote the status last.
SucceededIsTrue == \A d \in Deliveries : rows[d].status = "succeeded" => d \in accepted

\* A delivery that nobody replayed by hand is given up only when the receiver has
\* rejected it for good or the row's own budget is spent, although mark_failed
\* decides on the attempts some worker read, perhaps before later claims.
DeadForCause ==
  \A d \in Deliveries :
    (rows[d].status = "dead" /\ redelivered[d] = 0) =>
      d \in refused \/ rows[d].attempts >= MaxAttempts

\* A row that is not settled gets settled: crashes, lost marks, late workers and
\* manual replays delay a delivery and never leave it behind.
EventuallySettled == \A d \in Subscriptions : Exists(d) ~> Settled(d)

\* An event is delivered, or given up for cause, at every matching endpoint that is
\* registered within its hour, late workers, lost marks, crashes and failed
\* fan-outs notwithstanding, unless no fan_out at all committed in what was left of
\* the hour: one that did, by any dispatcher, is enough.
EventuallyDelivered ==
  \A d \in Subscriptions :
    (events[d[1]] = "recent" /\ d[2] \in endpoints) ~>
      (Settled(d) \/ (events[d[1]] = "old" /\ d \notin scanned))

\* The safety half of it: what one committed fan_out of any dispatcher had in its window
\* has a row from then on, whatever claims, marks and replays make of the row.
FannedOutForGood == \A d \in scanned : Exists(d)

\* What the documents promise of the outbox ("events are never lost", "delivery is
\* at-least-once"): an outage of the dispatchers delays an event and no more, so an
\* endpoint that was there before the event is not left without a row when the event's
\* hour ends during the outage.  fan_out looks back one hour only.
NoEventLost ==
  [][\A d \in owed :
       (/\ \A w \in Dispatchers : workers[w] = Down
        /\ events[d[1]] = "recent" /\ events'[d[1]] = "old") => Exists(d)]_vars
=============================================================================
