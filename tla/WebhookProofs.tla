---------------------------- MODULE WebhookProofs ----------------------------
(***************************************************************************)
(* Proofs about WebhookDispatcher, for any number of events, endpoints,    *)
(* dispatchers, attempts, replays and faults.                               *)
(***************************************************************************)
EXTENDS WebhookDispatcher, TLAPS

\* What a worker holds about a delivery is true, although it may be old: the row is
\* there, an answer it got was given, and, unless somebody replayed the delivery,
\* the attempts it has read are no more than the row has now.
JobSound(j) ==
  /\ Exists(j.delivery)
  /\ j.result = "2xx" => j.delivery \in accepted
  /\ j.result = "fatal_4xx" => j.delivery \in refused
  /\ redelivered[j.delivery] = 0 => j.attempts <= rows[j.delivery].attempts

WorkSound(s) ==
  /\ s.pc = "hydrate" => \A d \in s.ids : Exists(d)
  /\ s.pc = "send" => \A j \in s.jobs : JobSound(j)

WorkersSound == \A w \in Dispatchers : WorkSound(workers[w])

\* The inductive invariant.
IndInv ==
  TypeOK /\ NotStranded /\ SucceededIsTrue /\ DeadForCause /\ FannedOutForGood /\ WorkersSound

\* What every step keeps: rows stay, their attempts fall only by a replay, and what
\* receivers did stays done.
Kept ==
  /\ \A d \in Deliveries :
       /\ Exists(d) => rows'[d] # NoRow
       /\ redelivered'[d] = 0 => redelivered[d] = 0
       /\ Exists(d) /\ redelivered'[d] = 0 => rows[d].attempts <= rows'[d].attempts
  /\ accepted \subseteq accepted'
  /\ refused \subseteq refused'

-----------------------------------------------------------------------------
(* What the steps have in common                                           *)

LEMMA RowShape ==
  ASSUME TypeOK, NEW d \in Deliveries, Exists(d)
  PROVE  rows[d] \in DeliveryRow
  BY DEF TypeOK, Exists

LEMMA RowIsThere ==
  ASSUME NEW row \in DeliveryRow
  PROVE  row # NoRow
  BY DEF DeliveryRow, NoRow, Status

LEMMA WorkKept ==
  ASSUME TypeOK, rows' \in [Deliveries -> DeliveryRow \cup {NoRow}], Kept,
         NEW s \in WorkerState, WorkSound(s)
  PROVE  WorkSound(s)'
<1>1. ASSUME s.pc = "hydrate", NEW d \in s.ids PROVE Exists(d)'
  <2>1. d \in Deliveries
    BY <1>1 DEF WorkerState, Idle, Down
  <2> QED BY <1>1, <2>1 DEF WorkSound, Kept, Exists
<1>2. ASSUME s.pc = "send", NEW j \in s.jobs PROVE JobSound(j)'
  <2>1. j \in Job
    BY <1>2 DEF WorkerState, Idle, Down
  <2>2. j.delivery \in Deliveries /\ j.attempts \in Nat
    BY <2>1 DEF Job
  <2>3. JobSound(j)
    BY <1>2 DEF WorkSound
  <2>4. rows[j.delivery].attempts \in Nat
    BY <2>2, <2>3, RowShape DEF JobSound, DeliveryRow
  <2>5. Exists(j.delivery)'
    BY <2>2, <2>3 DEF JobSound, Kept, Exists
  <2>6. rows'[j.delivery].attempts \in Nat
    BY <2>2, <2>5 DEF DeliveryRow, Exists
  <2>7. redelivered'[j.delivery] = 0 => j.attempts <= rows'[j.delivery].attempts
    BY <2>2, <2>3, <2>4, <2>6 DEF JobSound, Kept
  <2> QED BY <2>2, <2>3, <2>5, <2>7 DEF JobSound, Kept
<1> QED BY <1>1, <1>2 DEF WorkSound

\* A worker that does not move keeps what it knows.
LEMMA OthersKept ==
  ASSUME TypeOK, rows' \in [Deliveries -> DeliveryRow \cup {NoRow}], Kept,
         NEW v \in Dispatchers, WorkSound(workers[v]), workers'[v] = workers[v]
  PROVE  WorkSound(workers[v])'
<1>1. PICK s \in WorkerState : s = workers[v]
  BY DEF TypeOK
<1>2. WorkSound(s)'
  BY <1>1, WorkKept
<1> QED BY <1>1, <1>2 DEF WorkSound

\* A step that changes only one worker and, perhaps, adds to what receivers did.
LEMMA WorkerStep ==
  ASSUME IndInv, NEW w \in Dispatchers, NEW s \in WorkerState, Goto(w, s),
         UNCHANGED <<events, endpoints, rows, owed, scanned, redelivered>>,
         faults' \in 0 .. MaxFaults,
         accepted \subseteq accepted', accepted' \subseteq Deliveries,
         refused \subseteq refused', refused' \subseteq Deliveries,
         WorkSound(s)'
  PROVE  IndInv'
<1> USE DEF IndInv
<1>1. workers' = [workers EXCEPT ![w] = s]
  BY DEF Goto
<1>2. TypeOK'
  BY <1>1 DEF TypeOK, Exists, Matches
<1>3. NotStranded' /\ SucceededIsTrue' /\ DeadForCause' /\ FannedOutForGood'
  BY DEF NotStranded, SucceededIsTrue, DeadForCause, FannedOutForGood, Exists
<1>4. Kept
  <2>1. \A d \in Deliveries : Exists(d) => rows[d].attempts \in Nat
    BY RowShape DEF DeliveryRow
  <2> QED BY <2>1 DEF Kept, Exists
<1>5. WorkersSound'
  <2>1. rows' \in [Deliveries -> DeliveryRow \cup {NoRow}]
    BY <1>2 DEF TypeOK
  <2>2. ASSUME NEW v \in Dispatchers, v = w PROVE WorkSound(workers[v])'
    <3>1. workers'[v] = s
      BY <1>1, <2>2 DEF TypeOK
    <3> QED BY <3>1 DEF WorkSound
  <2>3. ASSUME NEW v \in Dispatchers, v # w PROVE WorkSound(workers[v])'
    BY <1>1, <1>4, <2>1, <2>3, OthersKept DEF TypeOK, WorkersSound
  <2> QED BY <2>2, <2>3 DEF WorkersSound
<1> QED BY <1>2, <1>3, <1>5

\* A row that a step may leave behind.
RowSound(d) ==
  /\ (rows[d].status = "in_flight") <=> (rows[d].lease # "null")
  /\ rows[d].status = "succeeded" => d \in accepted
  /\ (rows[d].status = "dead" /\ redelivered[d] = 0) =>
       d \in refused \/ rows[d].attempts >= MaxAttempts

\* A step that changes rows, and perhaps a worker.
LEMMA RowsStep ==
  ASSUME IndInv, Kept,
         UNCHANGED <<events, endpoints, accepted, refused, owed, faults>>,
         scanned' \subseteq Deliveries, \A d \in scanned' : d \in scanned \/ rows'[d] # NoRow,
         redelivered' \in [Deliveries -> 0 .. MaxRedelivers],
         rows' \in [Deliveries -> DeliveryRow \cup {NoRow}],
         \A d \in Deliveries : rows'[d] # rows[d] => Exists(d) \/ d \in Missing,
         \A d \in Deliveries : rows'[d] # rows[d] => RowSound(d)',
         workers' \in [Dispatchers -> WorkerState],
         \A v \in Dispatchers : workers'[v] = workers[v] \/ WorkSound(workers[v])'
  PROVE  IndInv'
<1> USE DEF IndInv
<1>1. TypeOK'
  <2>1. ASSUME NEW d \in Deliveries, rows'[d] # NoRow
        PROVE  events[d[1]] # "absent" /\ d[2] \in endpoints /\ Matches(d[1], d[2])
    BY <2>1 DEF TypeOK, Exists, Missing, InWindow, Subscriptions
  <2> QED BY <2>1 DEF TypeOK, Exists, Matches
<1>2. NotStranded'
  BY DEF NotStranded, RowSound, Exists
<1>3. SucceededIsTrue'
  BY DEF SucceededIsTrue, RowSound
<1>4. DeadForCause'
  BY DEF DeadForCause, RowSound, Kept
<1>5. FannedOutForGood'
  BY DEF FannedOutForGood, Kept, Exists, TypeOK
<1>6. WorkersSound'
  BY OthersKept DEF WorkersSound
<1> QED BY <1>1, <1>2, <1>3, <1>4, <1>5, <1>6

-----------------------------------------------------------------------------
(* The steps                                                               *)

LEMMA InitInv == Init => IndInv
<1> SUFFICES ASSUME Init PROVE IndInv
  OBVIOUS
<1>1. TypeOK
  BY WebhookAssumption DEF Init, TypeOK, Exists, WorkerState
<1>2. NotStranded /\ SucceededIsTrue /\ DeadForCause /\ FannedOutForGood
  BY DEF Init, NotStranded, SucceededIsTrue, DeadForCause, FannedOutForGood, Exists, NoRow
<1>3. WorkersSound
  BY DEF Init, WorkersSound, WorkSound, Idle
<1> QED BY <1>1, <1>2, <1>3 DEF IndInv

\* Attempts of rows are numbers.
LEMMA AttemptsNat ==
  ASSUME TypeOK, NEW d \in Deliveries, Exists(d)
  PROVE  rows[d].attempts \in Nat
  BY RowShape DEF DeliveryRow

\* The API and the clock.
LEMMA OutsideStep ==
  ASSUME IndInv,
         \/ \E e \in Events : EmitEvent(e) \/ HourPasses(e)
         \/ \E ep \in Endpoints : RegisterEndpoint(ep)
  PROVE  IndInv'
<1> USE DEF IndInv
<1>1. UNCHANGED <<rows, workers, accepted, refused, scanned, redelivered, faults>>
  BY DEF EmitEvent, HourPasses, RegisterEndpoint, history
<1>2. TypeOK'
  <2>1. CASE \E e \in Events : EmitEvent(e)
    <3>1. PICK e \in Events : EmitEvent(e)
      BY <2>1
    <3>2. owed' \subseteq Deliveries
      BY <3>1 DEF EmitEvent, TypeOK, Subscriptions
    <3> QED BY <1>1, <3>1, <3>2 DEF EmitEvent, TypeOK, Exists, Deliveries
  <2>2. CASE \E e \in Events : HourPasses(e)
    BY <1>1, <2>2 DEF HourPasses, history, TypeOK, Exists, Deliveries
  <2>3. CASE \E ep \in Endpoints : RegisterEndpoint(ep)
    BY <1>1, <2>3 DEF RegisterEndpoint, history, TypeOK, Exists
  <2> QED BY <2>1, <2>2, <2>3
<1>3. NotStranded' /\ SucceededIsTrue' /\ DeadForCause' /\ FannedOutForGood'
  BY <1>1 DEF NotStranded, SucceededIsTrue, DeadForCause, FannedOutForGood, Exists
<1>4. WorkersSound'
  BY <1>1 DEF WorkersSound, WorkSound, JobSound, Exists
<1> QED BY <1>2, <1>3, <1>4

LEMMA RedeliverStep ==
  ASSUME IndInv, NEW d \in Deliveries, Redeliver(d)
  PROVE  IndInv'
<1> USE DEF IndInv
<1>1. /\ rows' = [rows EXCEPT ![d] = NewRow]
      /\ redelivered' = [redelivered EXCEPT ![d] = @ + 1]
      /\ redelivered[d] \in Nat /\ redelivered[d] < MaxRedelivers
      /\ UNCHANGED <<events, endpoints, workers, accepted, refused, owed, scanned, faults>>
  BY WebhookAssumption DEF Redeliver, history, TypeOK
<1>2. Exists(d)
  BY DEF Redeliver, Exists, NoRow
<1>3. NewRow \in DeliveryRow
  BY DEF NewRow, DeliveryRow, Status
<1>4. rows' \in [Deliveries -> DeliveryRow \cup {NoRow}]
  BY <1>1, <1>3 DEF TypeOK
<1>5. redelivered' \in [Deliveries -> 0 .. MaxRedelivers] /\ redelivered'[d] # 0
  BY <1>1, WebhookAssumption DEF TypeOK
<1>6. Kept
  BY <1>1, <1>3, <1>5, RowIsThere, AttemptsNat DEF Kept, Exists, TypeOK
<1>7. RowSound(d)'
  BY <1>1 DEF RowSound, NewRow, TypeOK
<1> QED BY <1>1, <1>2, <1>4, <1>5, <1>6, <1>7, RowsStep DEF TypeOK

\* A step that rewrites one row without touching attempts, replays or workers.
LEMMA TimeStep ==
  ASSUME IndInv, NEW d \in Deliveries, BackoffEnds(d) \/ LeaseExpires(d)
  PROVE  IndInv'
<1> USE DEF IndInv
<1>1. /\ Exists(d) /\ rows[d] \in DeliveryRow
      /\ UNCHANGED <<events, endpoints, workers, accepted, refused, owed, scanned, redelivered, faults>>
  BY RowShape DEF BackoffEnds, LeaseExpires, history
<1>2. PICK row \in DeliveryRow :
        /\ rows' = [rows EXCEPT ![d] = row]
        /\ row.status = rows[d].status /\ row.attempts = rows[d].attempts
        /\ (row.lease = "null") <=> (rows[d].lease = "null")
  <2>1. CASE BackoffEnds(d)
    <3> DEFINE row == [rows[d] EXCEPT !.due = TRUE]
    <3>1. /\ rows' = [rows EXCEPT ![d] = row] /\ row \in DeliveryRow
          /\ row.status = rows[d].status /\ row.attempts = rows[d].attempts
          /\ row.lease = rows[d].lease
      BY <1>1, <2>1 DEF BackoffEnds, DeliveryRow, TypeOK
    <3> QED BY <3>1
  <2>2. CASE LeaseExpires(d)
    <3> DEFINE row == [rows[d] EXCEPT !.lease = "expired"]
    <3>1. /\ rows' = [rows EXCEPT ![d] = row] /\ row \in DeliveryRow
          /\ row.status = rows[d].status /\ row.attempts = rows[d].attempts
          /\ row.lease = "expired" /\ rows[d].lease = "held"
      BY <1>1, <2>2 DEF LeaseExpires, DeliveryRow, TypeOK
    <3> QED BY <3>1
  <2> QED BY <2>1, <2>2
<1>3. rows' \in [Deliveries -> DeliveryRow \cup {NoRow}] /\ rows'[d] = row
  BY <1>2 DEF TypeOK
<1>4. Kept
  BY <1>1, <1>2, <1>3, RowIsThere, AttemptsNat DEF Kept, Exists, TypeOK
<1>5. RowSound(d)'
  BY <1>1, <1>2, <1>3 DEF RowSound, NotStranded, SucceededIsTrue, DeadForCause
<1> QED BY <1>1, <1>2, <1>3, <1>4, <1>5, RowsStep DEF TypeOK

LEMMA FaultShape ==
  ASSUME TypeOK, Fault
  PROVE  faults' \in 0 .. MaxFaults
  BY WebhookAssumption DEF TypeOK, Fault

LEMMA FanOutStep ==
  ASSUME IndInv, NEW w \in Dispatchers, FanOut(w)
  PROVE  IndInv'
<1> USE DEF IndInv
<1>1. /\ rows' = [d \in Deliveries |-> IF d \in Missing THEN NewRow ELSE rows[d]]
      /\ workers' = [workers EXCEPT ![w] = [pc |-> "deliver"]]
      /\ scanned' = scanned \cup InWindow /\ InWindow \subseteq Deliveries
      /\ UNCHANGED <<events, endpoints, accepted, refused, owed, redelivered, faults>>
  BY DEF FanOut, Goto, InWindow, Subscriptions
<1>2. NewRow \in DeliveryRow
  BY DEF NewRow, DeliveryRow, Status
<1>3. rows' \in [Deliveries -> DeliveryRow \cup {NoRow}]
  BY <1>1, <1>2 DEF TypeOK
<1>4. \A d \in Deliveries : Exists(d) => rows'[d] = rows[d]
  BY <1>1 DEF Missing
<1>5. Kept
  BY <1>1, <1>4, AttemptsNat DEF Kept, Exists
<1>6. ASSUME NEW d \in Deliveries, rows'[d] # rows[d] PROVE d \in Missing /\ RowSound(d)'
  BY <1>1, <1>6 DEF RowSound, NewRow
<1>7. /\ workers' \in [Dispatchers -> WorkerState]
      /\ \A v \in Dispatchers : workers'[v] = workers[v] \/ WorkSound(workers[v])'
  BY <1>1 DEF TypeOK, WorkerState, WorkSound
<1>8. \A d \in InWindow : rows'[d] # NoRow
  BY <1>1, <1>2, RowIsThere DEF Missing, Exists
<1>9. scanned' \subseteq Deliveries /\ \A d \in scanned' : d \in scanned \/ rows'[d] # NoRow
  BY <1>1, <1>8 DEF TypeOK
<1> QED BY <1>1, <1>3, <1>5, <1>6, <1>7, <1>9, RowsStep DEF TypeOK

LEMMA ClaimStep ==
  ASSUME IndInv, NEW w \in Dispatchers, Claim(w)
  PROVE  IndInv'
<1> USE DEF IndInv
<1>1. PICK ids \in SUBSET Deliveries : ClaimRows(w, ids)
  BY DEF Claim
<1>2. /\ \A d \in ids : Claimable(d)
      /\ rows' = [d \in Deliveries |-> IF d \in ids THEN Claimed(rows[d]) ELSE rows[d]]
      /\ workers' = [workers EXCEPT ![w] = [pc |-> "hydrate", ids |-> ids]]
      /\ UNCHANGED <<events, endpoints, accepted, refused, owed, scanned, redelivered, faults>>
  BY <1>1 DEF ClaimRows, Goto, history
<1>3. \A d \in ids : Exists(d)
  BY <1>2 DEF Claimable, Exists, NoRow
<1>4. ASSUME NEW d \in ids
      PROVE  /\ Claimed(rows[d]) \in DeliveryRow
             /\ Claimed(rows[d]).attempts = rows[d].attempts + 1
             /\ Claimed(rows[d]).status = "in_flight"
             /\ Claimed(rows[d]).lease = "held"
  BY <1>3, RowShape DEF Claimed, DeliveryRow, Status
<1>5. rows' \in [Deliveries -> DeliveryRow \cup {NoRow}]
  BY <1>2, <1>4 DEF TypeOK
<1>6. Kept
  <2>1. ASSUME NEW d \in Deliveries, Exists(d)
        PROVE  rows'[d] # NoRow /\ rows[d].attempts <= rows'[d].attempts
    BY <1>2, <1>4, <2>1, RowIsThere, AttemptsNat DEF Exists
  <2> QED BY <1>2, <2>1 DEF Kept
<1>7. ASSUME NEW d \in Deliveries, rows'[d] # rows[d] PROVE Exists(d) /\ RowSound(d)'
  BY <1>2, <1>3, <1>4, <1>7 DEF RowSound
<1>8. \A d \in ids : Exists(d)'
  BY <1>3, <1>6 DEF Kept, Exists
<1>9. /\ workers' \in [Dispatchers -> WorkerState]
      /\ \A v \in Dispatchers : workers'[v] = workers[v] \/ WorkSound(workers[v])'
  BY <1>2, <1>8 DEF TypeOK, WorkerState, WorkSound
<1> QED BY <1>2, <1>5, <1>6, <1>7, <1>9, RowsStep DEF TypeOK

\* Steps after which a worker holds nothing.
LEMMA LetGoStep ==
  ASSUME IndInv, NEW w \in Dispatchers,
         \/ FanOutFails(w) \/ ClaimNothing(w) \/ HydrateFails(w) \/ Crash(w) \/ Restart(w)
  PROVE  IndInv'
<1> USE DEF IndInv
<1>1. UNCHANGED <<events, endpoints, rows, accepted, refused, owed, scanned, redelivered>>
  BY DEF FanOutFails, ClaimNothing, HydrateFails, Crash, Restart, history
<1>2. faults' \in 0 .. MaxFaults
  BY FaultShape DEF FanOutFails, ClaimNothing, HydrateFails, Crash, Restart, TypeOK
<1>3. PICK s \in {Idle, Down, [pc |-> "deliver"]} : Goto(w, s)
  BY DEF FanOutFails, ClaimNothing, HydrateFails, Crash, Restart
<1>4. s \in WorkerState /\ WorkSound(s)'
  BY <1>3 DEF WorkerState, WorkSound, Idle, Down
<1> QED BY <1>1, <1>2, <1>3, <1>4, WorkerStep DEF TypeOK

LEMMA HydrateStep ==
  ASSUME IndInv, NEW w \in Dispatchers, Hydrate(w)
  PROVE  IndInv'
<1> USE DEF IndInv
<1> DEFINE read(d) == [delivery |-> d, attempts |-> rows[d].attempts, result |-> "unsent"]
           jobs == {read(d) : d \in workers[w].ids}
           s == [pc |-> "send", jobs |-> jobs]
<1>1. /\ Goto(w, s)
      /\ UNCHANGED <<events, endpoints, rows, accepted, refused, owed, scanned, redelivered, faults>>
  BY DEF Hydrate, history
<1>2. \A d \in workers[w].ids : d \in Deliveries /\ Exists(d) /\ rows[d].attempts \in Nat
  <2>1. workers[w].pc = "hydrate" /\ workers[w] \in WorkerState /\ WorkSound(workers[w])
    BY DEF Hydrate, TypeOK, WorkersSound
  <2>2. \A d \in workers[w].ids : d \in Deliveries /\ Exists(d)
    BY <2>1 DEF WorkerState, WorkSound, Idle, Down
  <2> QED BY <2>2, AttemptsNat
<1>3. jobs \in SUBSET Job
  BY <1>2 DEF Job
<1>4. s \in WorkerState
  BY <1>3 DEF WorkerState
<1>5. PICK t \in WorkerState : t = s
  BY <1>4
<1>6. PICK known : known = jobs
  OBVIOUS
<1>7. \A j \in known : JobSound(j)'
  <2>1. ASSUME NEW j \in known PROVE JobSound(j)'
    <3>1. PICK d \in workers[w].ids : j = read(d)
      BY <1>6, <2>1
    <3> QED BY <1>1, <1>2, <3>1 DEF JobSound, Exists
  <2> QED BY <2>1
<1>8. WorkSound(t)'
  BY <1>5, <1>6, <1>7 DEF WorkSound
<1>9. Goto(w, t)
  BY <1>1, <1>5
<1> QED BY <1>1, <1>5, <1>8, <1>9, WorkerStep DEF TypeOK

\* The worker's jobs are well formed and sound.
LEMMA JobsInHand ==
  ASSUME IndInv, NEW w \in Dispatchers, workers[w].pc = "send"
  PROVE  /\ workers[w].jobs \in SUBSET Job
         /\ \A j \in workers[w].jobs : JobSound(j)
<1>1. workers[w] \in WorkerState /\ WorkSound(workers[w])
  BY DEF IndInv, TypeOK, WorkersSound
<1> QED BY <1>1 DEF WorkerState, WorkSound, Idle, Down

LEMMA SendKeepsInv ==
  ASSUME IndInv, NEW w \in Dispatchers, NEW j \in workers[w].jobs, Send(w, j)
  PROVE  IndInv'
<1> USE DEF IndInv
<1>1. /\ workers[w].jobs \in SUBSET Job
      /\ \A k \in workers[w].jobs : JobSound(k)
  BY JobsInHand DEF Send
<1>2. PICK result \in Outcomes :
        /\ Goto(w, [pc |-> "send",
                    jobs |-> (workers[w].jobs \ {j}) \cup {[j EXCEPT !.result = result]}])
        /\ \/ result \in {"2xx", "retry"} /\ accepted' = accepted \cup {j.delivery}
           \/ result # "2xx" /\ UNCHANGED accepted
        /\ refused' = IF result = "fatal_4xx" THEN refused \cup {j.delivery} ELSE refused
  BY DEF Send
<1>3. UNCHANGED <<events, endpoints, rows, owed, scanned, redelivered, faults>>
  BY DEF Send
<1> DEFINE answered == [j EXCEPT !.result = result]
           s == [pc |-> "send", jobs |-> (workers[w].jobs \ {j}) \cup {answered}]
<1>4. /\ answered \in Job /\ j.delivery \in Deliveries
      /\ answered.delivery = j.delivery /\ answered.attempts = j.attempts
      /\ answered.result = result
  BY <1>1 DEF Job
<1>5. /\ accepted \subseteq accepted' /\ accepted' \subseteq Deliveries
      /\ refused \subseteq refused' /\ refused' \subseteq Deliveries
      /\ result = "2xx" => j.delivery \in accepted'
      /\ result = "fatal_4xx" => j.delivery \in refused'
  BY <1>2, <1>4 DEF TypeOK
<1>6. s \in WorkerState
  BY <1>1, <1>4 DEF WorkerState
<1>7. PICK t \in WorkerState : t = s
  BY <1>6
<1>8. ASSUME NEW k \in t.jobs PROVE JobSound(k)'
  <2>1. CASE k \in workers[w].jobs
    BY <1>1, <1>3, <1>5, <2>1 DEF JobSound, Exists
  <2>2. CASE k = answered
    <3>1. k.delivery = j.delivery /\ k.attempts = j.attempts /\ k.result = result
      BY <1>4, <2>2
    <3> QED BY <1>1, <1>3, <1>5, <3>1 DEF JobSound, Exists
  <2> QED BY <1>7, <1>8, <2>1, <2>2
<1>9. WorkSound(t)'
  BY <1>7, <1>8 DEF WorkSound
<1>10. Goto(w, t)
  BY <1>2, <1>7
<1> QED BY <1>3, <1>5, <1>9, <1>10, WorkerStep DEF TypeOK

\* A worker that is done with a job keeps the others, or goes idle.
LEMMA JobDoneState ==
  ASSUME IndInv, NEW w \in Dispatchers, workers[w].pc = "send", NEW j, JobDone(w, j)
  PROVE  \E t \in WorkerState :
           /\ Goto(w, t)
           /\ t.pc # "hydrate"
           /\ t.pc = "send" => t.jobs \subseteq workers[w].jobs
<1> DEFINE rest == workers[w].jobs \ {j}
<1>1. rest \in SUBSET Job
  BY JobsInHand
<1>2. CASE rest = {}
  <2>1. Goto(w, Idle)
    BY <1>2 DEF JobDone
  <2> QED BY <2>1 DEF WorkerState, Idle
<1>3. CASE rest # {}
  <2>1. Goto(w, [pc |-> "send", jobs |-> rest])
    BY <1>3 DEF JobDone
  <2>2. [pc |-> "send", jobs |-> rest] \in WorkerState
    BY <1>1 DEF WorkerState
  <2> QED BY <2>1, <2>2
<1> QED BY <1>2, <1>3

LEMMA MarkLostStep ==
  ASSUME IndInv, NEW w \in Dispatchers, NEW j \in workers[w].jobs, MarkLost(w, j)
  PROVE  IndInv'
<1> USE DEF IndInv
<1>1. /\ workers[w].pc = "send" /\ JobDone(w, j)
      /\ UNCHANGED <<events, endpoints, rows, accepted, refused, owed, scanned, redelivered>>
  BY DEF MarkLost, history
<1>2. faults' \in 0 .. MaxFaults
  BY FaultShape DEF MarkLost
<1>3. PICK t \in WorkerState : /\ Goto(w, t)
                               /\ t.pc # "hydrate"
                               /\ t.pc = "send" => t.jobs \subseteq workers[w].jobs
  BY <1>1, JobDoneState
<1>4. WorkSound(t)'
  BY <1>1, <1>3, JobsInHand DEF WorkSound, JobSound, Exists
<1> QED BY <1>1, <1>2, <1>3, <1>4, WorkerStep DEF TypeOK

\* The row a mark leaves behind: no lease, the same attempts, and a final status only
\* for the worker's reason.
LEMMA MarkedRow ==
  ASSUME NEW row \in DeliveryRow, NEW j \in Job, j.result # "unsent", NEW new \in Marked(row, j)
  PROVE  /\ new \in DeliveryRow
         /\ new.lease = "null" /\ new.attempts = row.attempts
         /\ new.status \in {"succeeded", "failed", "dead"}
         /\ new.status = "succeeded" => j.result = "2xx"
         /\ new.status = "dead" => j.result = "fatal_4xx" \/ j.attempts >= MaxAttempts
<1>1. CASE j.result = "2xx"
  <2>1. new = [row EXCEPT !.status = "succeeded", !.lease = "null"]
    BY <1>1 DEF Marked, MarkSucceeded
  <2> QED BY <1>1, <2>1 DEF DeliveryRow, Status
<1>2. CASE j.result # "2xx" /\ (j.result = "fatal_4xx" \/ j.attempts >= MaxAttempts)
  <2>1. new = [row EXCEPT !.status = "dead", !.lease = "null"]
    BY <1>2 DEF Marked, MarkFailed
  <2> QED BY <1>2, <2>1 DEF DeliveryRow, Status
<1>3. CASE j.result # "2xx" /\ ~(j.result = "fatal_4xx" \/ j.attempts >= MaxAttempts)
  <2>1. PICK now \in BOOLEAN : new = [row EXCEPT !.status = "failed", !.due = now, !.lease = "null"]
    BY <1>3 DEF Marked, MarkFailed
  <2> QED BY <2>1 DEF DeliveryRow, Status
<1> QED BY <1>1, <1>2, <1>3

LEMMA MarkStep ==
  ASSUME IndInv, NEW w \in Dispatchers, NEW j \in workers[w].jobs, Mark(w, j)
  PROVE  IndInv'
<1> USE DEF IndInv
<1> DEFINE d == j.delivery
<1>1. /\ workers[w].pc = "send" /\ j.result # "unsent" /\ JobDone(w, j)
      /\ UNCHANGED <<events, endpoints, accepted, refused, owed, scanned, redelivered, faults>>
  BY DEF Mark, history
<1>2. workers[w].jobs \in SUBSET Job /\ \A k \in workers[w].jobs : JobSound(k)
  BY <1>1, JobsInHand
<1>3. /\ j \in Job /\ d \in Deliveries /\ j.attempts \in Nat
      /\ JobSound(j) /\ Exists(d)
  BY <1>2 DEF Job, JobSound
<1>4. rows[d] \in DeliveryRow /\ rows[d].attempts \in Nat
  BY <1>3, RowShape, AttemptsNat
<1>5. PICK new \in Marked(rows[d], j) : rows' = [rows EXCEPT ![d] = new]
  BY DEF Mark
<1>6. /\ new \in DeliveryRow
      /\ new.lease = "null" /\ new.attempts = rows[d].attempts
      /\ new.status \in {"succeeded", "failed", "dead"}
      /\ new.status = "succeeded" => j.result = "2xx"
      /\ new.status = "dead" => j.result = "fatal_4xx" \/ j.attempts >= MaxAttempts
  BY <1>1, <1>3, <1>4, <1>5, MarkedRow
<1>7. rows' \in [Deliveries -> DeliveryRow \cup {NoRow}] /\ rows'[d] = new
  BY <1>3, <1>5, <1>6 DEF TypeOK
<1>8. Kept
  <2>1. ASSUME NEW c \in Deliveries, Exists(c)
        PROVE  rows'[c] # NoRow /\ rows[c].attempts <= rows'[c].attempts
    BY <1>4, <1>5, <1>6, <1>7, <2>1, RowIsThere, AttemptsNat DEF Exists, TypeOK
  <2> QED BY <1>1, <2>1 DEF Kept
<1>9. ASSUME NEW c \in Deliveries, rows'[c] # rows[c] PROVE Exists(c) /\ RowSound(c)'
  <2>1. c = d
    BY <1>5, <1>9 DEF TypeOK
  <2>2. new.status = "succeeded" => d \in accepted'
    BY <1>1, <1>3, <1>6 DEF JobSound
  <2>3. (new.status = "dead" /\ redelivered'[d] = 0) => d \in refused' \/ new.attempts >= MaxAttempts
    BY <1>1, <1>3, <1>4, <1>6, WebhookAssumption DEF JobSound
  <2> QED BY <1>3, <1>6, <1>7, <2>1, <2>2, <2>3 DEF RowSound
<1>10. PICK t \in WorkerState : /\ Goto(w, t)
                                /\ t.pc # "hydrate"
                                /\ t.pc = "send" => t.jobs \subseteq workers[w].jobs
  BY <1>1, JobDoneState
<1>11. /\ workers' = [workers EXCEPT ![w] = t] /\ workers'[w] = t
       /\ workers' \in [Dispatchers -> WorkerState]
  BY <1>10 DEF Goto, TypeOK
<1>12. WorkSound(t)
  BY <1>2, <1>10 DEF WorkSound
<1>13. WorkSound(t)'
  BY <1>7, <1>8, <1>12, WorkKept
<1>14. \A v \in Dispatchers : workers'[v] = workers[v] \/ WorkSound(workers[v])'
  BY <1>11, <1>13 DEF TypeOK, WorkSound
<1> QED BY <1>1, <1>7, <1>8, <1>9, <1>11, <1>14, RowsStep DEF TypeOK

LEMMA NextInv ==
  ASSUME IndInv, [Next]_vars
  PROVE  IndInv'
<1>1. CASE UNCHANGED vars
  BY <1>1 DEF vars, IndInv, TypeOK, NotStranded, SucceededIsTrue, DeadForCause, FannedOutForGood, WorkersSound,
              WorkSound, JobSound, Exists, Matches
<1>2. ASSUME NEW w \in Dispatchers, SendStep(w) PROVE IndInv'
  BY <1>2, SendKeepsInv, MarkStep DEF SendStep
<1> QED
  BY <1>1, <1>2, OutsideStep, RedeliverStep, TimeStep, FanOutStep, ClaimStep, LetGoStep,
     HydrateStep, MarkLostStep DEF Next

-----------------------------------------------------------------------------
(* The theorems                                                            *)

\* IndInv holds in every reachable state: tables and workers keep their shapes, no
\* row is stranded, every status is true, and what a worker knows is sound.
THEOREM Inductive == Spec => []IndInv
  BY InitInv, NextInv, PTL DEF Spec

\* Tables and local states keep their shapes, and every delivery belongs to an event
\* and a subscribed endpoint of the same business.
THEOREM TypeCorrect == Spec => []TypeOK
<1>1. IndInv => TypeOK
  BY DEF IndInv
<1> QED BY <1>1, Inductive, PTL

\* Exactly the rows in flight have a lease, however claims, expiries, late or lost
\* marks and replays overlap: none is left where the claim does not look.
THEOREM NoneStranded == Spec => []NotStranded
<1>1. IndInv => NotStranded
  BY DEF IndInv
<1> QED BY <1>1, Inductive, PTL

\* A delivery is marked succeeded only if its receiver has taken the event, whichever
\* of its workers wrote last.
THEOREM SuccessTrue == Spec => []SucceededIsTrue
<1>1. IndInv => SucceededIsTrue
  BY DEF IndInv
<1> QED BY <1>1, Inductive, PTL

\* A delivery nobody replayed is dead only after a fatal answer or a spent budget,
\* although mark_failed goes by attempts that may be old.
THEOREM DeadCause == Spec => []DeadForCause
<1>1. IndInv => DeadForCause
  BY DEF IndInv
<1> QED BY <1>1, Inductive, PTL

\* One fan_out that commits within an event's hour is enough: its row is there and no
\* claim, mark, replay or crash takes it away.
THEOREM FannedOutStays == Spec => []FannedOutForGood
<1>1. IndInv => FannedOutForGood
  BY DEF IndInv
<1> QED BY <1>1, Inductive, PTL
=============================================================================
