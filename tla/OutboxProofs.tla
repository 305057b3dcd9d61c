---------------------------- MODULE OutboxProofs ----------------------------
(***************************************************************************)
(* Proofs about CallbackOutbox, for any numbers of events, processes,      *)
(* attempts, failures and retries by hand.                                 *)
(***************************************************************************)
EXTENDS CallbackOutbox, TLAPS

Busy == {"claimed", "posting", "answered"}

\* A busy worker has an event, an event that may still be attempted has an
\* attempt left, and a successful answer comes from a server that has processed
\* the event.
WorkInv ==
    /\ \A w \in Workers : worker[w].at \in Busy => worker[w].event \in Events
    /\ \A w \in Workers : worker[w].at \notin Busy => worker[w].event = None
    /\ \A e \in Events : status[e] \notin Settled => attempts[e] < MaxAttempts
    /\ \A w \in Workers : worker[w].at = "answered" /\ worker[w].ok => worker[w].event \in received

\* A worker's event is claimed, unless it was queued again meanwhile, and what
\* was queued again is in the table.
ClaimInv ==
    /\ \A w \in Workers, e \in Events :
          Working(w, e) /\ e \notin requeued => status[e] = "processing"
    /\ \A e \in requeued : status[e] # "absent"

TypedInv == OutboxTypeOK /\ WorkInv
ReportInv == DeliveredWasReceived /\ InvoiceMirrorsEvent
OwnerInv == ClaimInv /\ ClaimIsExclusive

-----------------------------------------------------------------------------

WorkerStates == [at : {"off", "idle", "claimed", "posting", "answered"},
                 event : Events \cup {None}, attempt : 0..MaxAttempts, ok : BOOLEAN]

LEMMA InitTyped == Init => TypedInv
  BY OutboxAssumption DEF Init, TypedInv, OutboxTypeOK, WorkInv, Resting, Busy, Settled, Queued

LEMMA NextTyped == TypedInv /\ [Next]_vars => TypedInv'
  <1> SUFFICES ASSUME TypedInv, [Next]_vars PROVE TypedInv'
    OBVIOUS
  <1> USE OutboxAssumption DEF TypedInv, OutboxTypeOK, WorkInv, Busy, Settled, Queued
  <1>1. ASSUME NEW e \in Events, Enqueue(e) PROVE TypedInv'
    BY <1>1 DEF Enqueue
  <1>2. ASSUME NEW e \in Events, BackoffElapses(e) PROVE TypedInv'
    BY <1>2 DEF BackoffElapses
  <1>3. ASSUME NEW e \in Events, LockAges(e) PROVE TypedInv'
    BY <1>3 DEF LockAges
  <1>4. ASSUME NEW e \in Events, ManualRetry(e) PROVE TypedInv'
    BY <1>4 DEF ManualRetry, Requeue
  <1>5. ASSUME NEW w \in Workers, NEW e \in Events, Claim(w, e) PROVE TypedInv'
    <2> DEFINE r == [worker[w] EXCEPT !.at = "claimed", !.event = e]
    <2>1. worker[w] \in WorkerStates
      BY DEF WorkerStates
    <2>2. r \in WorkerStates /\ r.at = "claimed" /\ r.event = e
      BY <2>1 DEF WorkerStates
    <2>3. worker' = [worker EXCEPT ![w] = r]
      BY <1>5 DEF Claim
    <2> HIDE DEF r
    <2>4. worker' \in [Workers -> WorkerStates]
      BY <2>2, <2>3 DEF WorkerStates
    <2>5. OutboxTypeOK'
      BY <1>5, <2>4 DEF Claim, Claimable, WorkerStates
    <2>6. WorkInv'
      BY <1>5, <2>2, <2>3 DEF Claim, Claimable
    <2> QED
      BY <2>5, <2>6
  <1>6. ASSUME NEW w \in Workers, Load(w) PROVE TypedInv'
    <2>1. CASE status[worker[w].event] = "processing"
      <3> DEFINE r == [worker[w] EXCEPT !.at = "posting", !.attempt = attempts[worker[w].event] + 1]
      <3>1. worker[w] \in WorkerStates /\ worker[w].event \in Events
        BY <1>6 DEF WorkerStates, Load
      <3>2. attempts[worker[w].event] + 1 \in 0..MaxAttempts
        BY <2>1, <3>1
      <3>3. r \in WorkerStates /\ r.at = "posting" /\ r.event = worker[w].event
        BY <3>1, <3>2 DEF WorkerStates
      <3>4. worker' = [worker EXCEPT ![w] = r]
        BY <1>6, <2>1 DEF Load
      <3> HIDE DEF r
      <3>5. worker' \in [Workers -> WorkerStates]
        BY <3>3, <3>4 DEF WorkerStates
      <3>6. UNCHANGED <<status, attempts, due, stale, mirror, received, requeued, faults, manual>>
        BY <1>6 DEF Load
      <3>7. OutboxTypeOK'
        BY <3>5, <3>6 DEF WorkerStates
      <3>8. WorkInv'
        BY <3>1, <3>3, <3>4, <3>6
      <3> QED
        BY <3>7, <3>8
    <2>2. CASE status[worker[w].event] # "processing"
      <3>1. worker' = [worker EXCEPT ![w] = Resting("idle")]
        BY <1>6, <2>2 DEF Load
      <3>2. UNCHANGED <<status, attempts, due, stale, mirror, received, requeued, faults, manual>>
        BY <1>6 DEF Load
      <3>3. OutboxTypeOK'
        BY <3>1, <3>2 DEF Resting
      <3>4. WorkInv'
        BY <3>1, <3>2 DEF Resting
      <3> QED
        BY <3>3, <3>4
    <2> QED
      BY <2>1, <2>2
  <1>7. ASSUME NEW w \in Workers, Post(w) PROVE TypedInv'
    <2>1. PICK processed \in BOOLEAN, ok \in BOOLEAN :
              /\ ok => processed
              /\ received' = IF processed THEN received \cup {worker[w].event} ELSE received
              /\ worker' = [worker EXCEPT ![w].at = "answered", ![w].ok = ok]
      BY <1>7 DEF Post
    <2> DEFINE r == [worker[w] EXCEPT !.at = "answered", !.ok = ok]
    <2>2. worker[w] \in WorkerStates /\ worker[w].event \in Events
      BY <1>7 DEF WorkerStates, Post
    <2>3. r \in WorkerStates /\ r.at = "answered" /\ r.event = worker[w].event /\ r.ok = ok
      BY <2>2 DEF WorkerStates
    <2>4. worker' = [worker EXCEPT ![w] = r]
      BY <2>1
    <2> HIDE DEF r
    <2>5. worker' \in [Workers -> WorkerStates]
      BY <2>3, <2>4 DEF WorkerStates
    <2>6. UNCHANGED <<status, attempts, due, stale, mirror, requeued, faults, manual>>
      BY <1>7 DEF Post
    <2>7. received' \subseteq Events /\ received \subseteq received' /\ (ok => worker[w].event \in received')
      BY <2>1, <2>2
    <2>8. OutboxTypeOK'
      BY <2>5, <2>6, <2>7 DEF WorkerStates
    <2>9. WorkInv'
      BY <2>2, <2>3, <2>4, <2>6, <2>7
    <2> QED
      BY <2>8, <2>9
  <1>8. ASSUME NEW w \in Workers, RecordOutcome(w) PROVE TypedInv'
    BY <1>8 DEF RecordOutcome, Outcome, Exhausted, Resting
  <1>9. ASSUME NEW w \in Workers, SessionFails(w) PROVE TypedInv'
    BY <1>9 DEF SessionFails, Resting
  <1>10. ASSUME NEW w \in Workers, Crash(w) PROVE TypedInv'
    BY <1>10 DEF Crash, Resting
  <1>11. ASSUME NEW w \in Workers, Restart(w) PROVE TypedInv'
    BY <1>11 DEF Restart, Requeue, Resting
  <1>12. CASE UNCHANGED vars
    BY <1>12 DEF vars
  <1> QED
    BY <1>1, <1>2, <1>3, <1>4, <1>5, <1>6, <1>7, <1>8, <1>9, <1>10, <1>11, <1>12 DEF Next, Step

LEMMA NextReports == TypedInv /\ ReportInv /\ [Next]_vars => ReportInv'
  <1> SUFFICES ASSUME TypedInv, ReportInv, [Next]_vars PROVE ReportInv'
    OBVIOUS
  <1> USE OutboxAssumption DEF TypedInv, OutboxTypeOK, ReportInv, DeliveredWasReceived, InvoiceMirrorsEvent, Settled
  <1>1. ASSUME NEW e \in Events, Enqueue(e) PROVE ReportInv'
    BY <1>1 DEF Enqueue
  <1>2. ASSUME NEW e \in Events, BackoffElapses(e) \/ LockAges(e) PROVE ReportInv'
    BY <1>2 DEF BackoffElapses, LockAges
  <1>3. ASSUME NEW e \in Events, ManualRetry(e) PROVE ReportInv'
    BY <1>3 DEF ManualRetry, Requeue
  <1>4. ASSUME NEW w \in Workers, NEW e \in Events, Claim(w, e) PROVE ReportInv'
    BY <1>4 DEF Claim
  <1>5. ASSUME NEW w \in Workers, Load(w) PROVE ReportInv'
    BY <1>5 DEF Load
  <1>6. ASSUME NEW w \in Workers, Post(w) PROVE ReportInv'
    BY <1>6 DEF Post
  <1>7. ASSUME NEW w \in Workers, RecordOutcome(w) PROVE ReportInv'
    <2> DEFINE e == worker[w].event
               result == Outcome(worker[w].attempt, worker[w].ok)
    <2>1. e \in Events
      BY <1>7 DEF RecordOutcome, WorkInv, Busy
    <2>2. result \in {"delivered", "failed", "retry"}
      BY DEF Outcome
    <2>3. result = "delivered" => e \in received
      BY <1>7 DEF RecordOutcome, Outcome, WorkInv
    <2>4. /\ status' = [status EXCEPT ![e] = result]
          /\ mirror' = [mirror EXCEPT ![e] = IF result = "retry" THEN "queued" ELSE result]
          /\ received' = received
      BY <1>7 DEF RecordOutcome
    <2> HIDE DEF e, result
    <2> QED
      BY <2>1, <2>2, <2>3, <2>4
  <1>8. ASSUME NEW w \in Workers, SessionFails(w) \/ Crash(w) PROVE ReportInv'
    BY <1>8 DEF SessionFails, Crash
  <1>9. ASSUME NEW w \in Workers, Restart(w) PROVE ReportInv'
    BY <1>9 DEF Restart, Requeue
  <1>10. CASE UNCHANGED vars
    BY <1>10 DEF vars
  <1> QED
    BY <1>1, <1>2, <1>3, <1>4, <1>5, <1>6, <1>7, <1>8, <1>9, <1>10 DEF Next, Step

\* Claims exclude each other, apart from the events queued again meanwhile.
LEMMA NextOwner == TypedInv /\ OwnerInv /\ [Next]_vars => OwnerInv'
  <1> SUFFICES ASSUME TypedInv, OwnerInv, [Next]_vars PROVE OwnerInv'
    OBVIOUS
  <1> USE OutboxAssumption DEF TypedInv, OutboxTypeOK, OwnerInv, ClaimInv, ClaimIsExclusive, Working
  <1>1. ASSUME NEW e \in Events, Enqueue(e) PROVE OwnerInv'
    BY <1>1 DEF Enqueue
  <1>2. ASSUME NEW e \in Events, BackoffElapses(e) \/ LockAges(e) PROVE OwnerInv'
    BY <1>2 DEF BackoffElapses, LockAges
  <1>3. ASSUME NEW e \in Events, ManualRetry(e) PROVE OwnerInv'
    BY <1>3 DEF ManualRetry, Requeue
  <1>4. ASSUME NEW w \in Workers, NEW e \in Events, Claim(w, e) PROVE OwnerInv'
    <2>1. \A v \in Workers : Working(v, e) => e \in requeued
      BY <1>4 DEF Claim, Claimable, Queued
    <2>2. /\ status' = [status EXCEPT ![e] = "processing"]
          /\ requeued' = requeued
          /\ worker'[w].event = e
          /\ \A v \in Workers : v # w => worker'[v] = worker[v]
      BY <1>4 DEF Claim
    <2> QED
      BY <2>1, <2>2
  <1>5. ASSUME NEW w \in Workers, Load(w) PROVE OwnerInv'
    <2>1. /\ status' = status /\ requeued' = requeued
          /\ \A v \in Workers : v # w => worker'[v] = worker[v]
      BY <1>5 DEF Load
    <2>2. worker[w].at = "claimed" /\ worker'[w].event \in {worker[w].event, None}
      BY <1>5 DEF Load, Resting
    <2> QED
      BY <2>1, <2>2
  <1>6. ASSUME NEW w \in Workers, Post(w) PROVE OwnerInv'
    BY <1>6 DEF Post
  <1>7. ASSUME NEW w \in Workers, RecordOutcome(w) PROVE OwnerInv'
    <2>1. /\ requeued' = requeued
          /\ \A v \in Workers : v # w => worker'[v] = worker[v]
          /\ \A f \in Events : f # worker[w].event => status'[f] = status[f]
          /\ worker'[w].event = None /\ worker[w].at = "answered"
      BY <1>7 DEF RecordOutcome, Resting
    <2>2. status'[worker[w].event] # "absent"
      BY <1>7 DEF RecordOutcome, Outcome, WorkInv, Busy
    <2> QED
      BY <2>1, <2>2
  <1>8. ASSUME NEW w \in Workers, SessionFails(w) \/ Crash(w) PROVE OwnerInv'
    BY <1>8 DEF SessionFails, Crash, Resting
  <1>9. ASSUME NEW w \in Workers, Restart(w) PROVE OwnerInv'
    BY <1>9 DEF Restart, Requeue, Resting
  <1>10. CASE UNCHANGED vars
    BY <1>10 DEF vars
  <1> QED
    BY <1>1, <1>2, <1>3, <1>4, <1>5, <1>6, <1>7, <1>8, <1>9, <1>10 DEF Next, Step

-----------------------------------------------------------------------------
(* What CallbackDelivery is about, in terms of the outbox *)

StateOf(s) == CASE s = "absent" -> "none" [] s \in Settled -> s [] OTHER -> "open"
EventStates == [e \in Events |-> StateOf(status[e])]

\* A step on one event's status is a step on that event's state.
LEMMA OneStateChanges ==
    ASSUME NEW e \in Events, NEW s, status' = [status EXCEPT ![e] = s],
           status \in [Events -> {"absent", "pending", "processing", "retry", "delivered", "failed"}]
    PROVE  EventStates' = [EventStates EXCEPT ![e] = StateOf(s)]
  BY DEF EventStates

\* The steps of the promise, on EventStates.
LEMMA PromiseOpen ==
    ASSUME NEW e \in Events, EventStates[e] = "none", EventStates' = [EventStates EXCEPT ![e] = "open"],
           UNCHANGED <<received, requeued, manual>>
    PROVE  Promise!Next
  <1>1. Promise!Open(e)
    BY DEF Promise!Open, EventStates, StateOf
  <1> QED
    BY <1>1 DEF Promise!Next

LEMMA PromiseReceive ==
    ASSUME NEW e \in Events, EventStates[e] = "open" \/ e \in requeued, received' = received \cup {e},
           UNCHANGED <<EventStates, requeued, manual>>
    PROVE  Promise!Next
  <1>1. Promise!Receive(e)
    BY DEF Promise!Receive, EventStates, StateOf
  <1> QED
    BY <1>1 DEF Promise!Next

LEMMA PromiseSettle ==
    ASSUME NEW e \in Events, NEW end \in Promise!Ends(e), EventStates[e] = "open",
           EventStates' = [EventStates EXCEPT ![e] = end], UNCHANGED <<received, requeued, manual>>
    PROVE  Promise!Next
  <1>1. Promise!Settle(e)
    BY DEF Promise!Settle, EventStates, StateOf
  <1> QED
    BY <1>1 DEF Promise!Next

LEMMA PromiseOverwrite ==
    ASSUME NEW e \in Events, NEW end \in Promise!Ends(e) \cup {"open"}, e \in requeued, EventStates[e] # "none",
           EventStates' = [EventStates EXCEPT ![e] = end], UNCHANGED <<received, requeued, manual>>
    PROVE  Promise!Next
  <1>1. Promise!Overwrite(e)
    BY DEF Promise!Overwrite, EventStates, StateOf
  <1> QED
    BY <1>1 DEF Promise!Next

LEMMA PromiseDisturb ==
    ASSUME NEW E \in SUBSET Events, \A e \in E : EventStates[e] = "open", requeued' = requeued \cup E,
           UNCHANGED <<EventStates, received, manual>>
    PROVE  Promise!Next
  <1>1. Promise!Disturb(E)
    BY DEF Promise!Disturb, EventStates, StateOf
  <1> QED
    BY <1>1 DEF Promise!Next

LEMMA PromiseReopen ==
    ASSUME NEW e \in Events, EventStates[e] # "none", EventStates' = [EventStates EXCEPT ![e] = "open"],
           requeued' \in {requeued, requeued \cup {e}}, manual' = manual + 1, received' = received
    PROVE  Promise!Next
  <1>1. Promise!Reopen(e)
    BY DEF Promise!Reopen, EventStates, StateOf
  <1> QED
    BY <1>1 DEF Promise!Next

LEMMA NextKeepsPromise ==
    TypedInv /\ OwnerInv /\ [Next]_vars => [Promise!Next]_(Promise!vars)
  <1> DEFINE Kept == Promise!Next \/ UNCHANGED <<EventStates, received, requeued, manual>>
  <1> SUFFICES ASSUME TypedInv, OwnerInv, [Next]_vars PROVE Kept
    BY DEF Promise!vars, EventStates, StateOf
  <1>0. /\ status \in [Events -> {"absent", "pending", "processing", "retry", "delivered", "failed"}]
        /\ \A e \in Events : EventStates[e] = StateOf(status[e])
    BY DEF TypedInv, OutboxTypeOK, EventStates
  <1>1. ASSUME NEW e \in Events, Enqueue(e) PROVE Kept
    <2>1. EventStates[e] = "none" /\ StateOf("pending") = "open"
      BY <1>0, <1>1 DEF Enqueue, StateOf, Settled
    <2>2. status' = [status EXCEPT ![e] = "pending"]
      BY <1>1 DEF Enqueue
    <2>3. EventStates' = [EventStates EXCEPT ![e] = StateOf("pending")]
      BY <1>0, <2>2, OneStateChanges
    <2> QED
      BY <1>1, <2>1, <2>3, PromiseOpen DEF Enqueue
  <1>2. ASSUME NEW e \in Events, BackoffElapses(e) \/ LockAges(e) PROVE Kept
    BY <1>2 DEF BackoffElapses, LockAges, EventStates
  <1>3. ASSUME NEW e \in Events, ManualRetry(e) PROVE Kept
    <2>1. EventStates[e] # "none" /\ StateOf("retry") = "open"
      BY <1>0, <1>3 DEF ManualRetry, StateOf, Settled
    <2>2. status' = [status EXCEPT ![e] = "retry"]
      BY <1>0, <1>3 DEF ManualRetry, Requeue
    <2>3. EventStates' = [EventStates EXCEPT ![e] = StateOf("retry")]
      BY <1>0, <2>2, OneStateChanges
    <2>4. requeued' \in {requeued, requeued \cup {e}}
      BY <1>3 DEF ManualRetry, Requeue
    <2> QED
      BY <1>3, <2>1, <2>3, <2>4, PromiseReopen DEF ManualRetry
  <1>4. ASSUME NEW w \in Workers, NEW e \in Events, Claim(w, e) PROVE Kept
    <2>1. EventStates[e] = "open" /\ StateOf("processing") = "open"
      BY <1>0, <1>4 DEF Claim, Claimable, Queued, StateOf, Settled
    <2>2. EventStates' = [EventStates EXCEPT ![e] = "open"]
      BY <1>0, <1>4, <2>1, OneStateChanges DEF Claim
    <2>3. EventStates' = EventStates
      BY <2>1, <2>2 DEF EventStates
    <2> QED
      BY <1>4, <2>3 DEF Claim
  <1>5. ASSUME NEW w \in Workers, Load(w) PROVE Kept
    BY <1>5 DEF Load, EventStates
  <1>6. ASSUME NEW w \in Workers, Post(w) PROVE Kept
    <2>1. worker[w].event \in Events /\ Working(w, worker[w].event)
      BY <1>6 DEF Post, TypedInv, WorkInv, Busy, Working
    <2>2. EventStates[worker[w].event] = "open" \/ worker[w].event \in requeued
      BY <1>0, <2>1 DEF OwnerInv, ClaimInv, StateOf, Settled
    <2>3. UNCHANGED <<EventStates, requeued, manual>>
      BY <1>6 DEF Post, EventStates
    <2>4. CASE received' = received \cup {worker[w].event}
      BY <2>1, <2>2, <2>3, <2>4, PromiseReceive
    <2>5. CASE received' = received
      BY <2>3, <2>5
    <2> QED
      BY <1>6, <2>4, <2>5 DEF Post
  <1>7. ASSUME NEW w \in Workers, RecordOutcome(w) PROVE Kept
    <2> DEFINE e == worker[w].event
               result == Outcome(worker[w].attempt, worker[w].ok)
    <2>1. e \in Events /\ Working(w, e)
      BY <1>7 DEF RecordOutcome, TypedInv, WorkInv, Busy, Working
    <2>2. status' = [status EXCEPT ![e] = result] /\ UNCHANGED <<received, requeued, manual>>
      BY <1>7 DEF RecordOutcome
    <2>3. EventStates' = [EventStates EXCEPT ![e] = StateOf(result)]
      BY <1>0, <2>1, <2>2, OneStateChanges
    <2>4. \/ StateOf(result) = "open"
          \/ StateOf(result) \in Promise!Ends(e)
      BY <1>7 DEF RecordOutcome, Outcome, StateOf, Settled, Promise!Ends, TypedInv, WorkInv
    <2> HIDE DEF e, result
    <2>5. CASE e \in requeued
      <3>1. EventStates[e] # "none"
        BY <1>0, <2>1, <2>5 DEF OwnerInv, ClaimInv, StateOf, Settled
      <3> QED
        BY <2>1, <2>2, <2>3, <2>4, <2>5, <3>1, PromiseOverwrite
    <2>6. CASE e \notin requeued
      <3>1. EventStates[e] = "open"
        BY <1>0, <2>1, <2>6 DEF OwnerInv, ClaimInv, StateOf, Settled
      <3>2. CASE StateOf(result) = "open"
        BY <2>1, <2>2, <2>3, <3>1, <3>2 DEF EventStates
      <3>3. CASE StateOf(result) \in Promise!Ends(e)
        BY <2>1, <2>2, <2>3, <3>1, <3>3, PromiseSettle
      <3> QED
        BY <2>4, <3>2, <3>3
    <2> QED
      BY <2>5, <2>6
  <1>8. ASSUME NEW w \in Workers, SessionFails(w) \/ Crash(w) PROVE Kept
    BY <1>8 DEF SessionFails, Crash, EventStates
  <1>9. ASSUME NEW w \in Workers, Restart(w) PROVE Kept
    <2> DEFINE E == {e \in Events : status[e] = "processing" /\ e \in stale}
    <2>1. /\ \A e \in E : EventStates[e] = "open"
          /\ requeued' = requeued \cup E
          /\ UNCHANGED <<received, manual>>
      BY <1>0, <1>9 DEF Restart, Requeue, StateOf, Settled
    <2>2. \A e \in Events : StateOf(status'[e]) = StateOf(status[e])
      BY <1>9 DEF Restart, Requeue, StateOf, Settled
    <2>3. EventStates' = EventStates
      BY <2>2 DEF EventStates
    <2> QED
      BY <2>1, <2>3, PromiseDisturb
  <1>10. CASE UNCHANGED vars
    BY <1>10 DEF vars, EventStates
  <1> QED
    BY <1>1, <1>2, <1>3, <1>4, <1>5, <1>6, <1>7, <1>8, <1>9, <1>10 DEF Next, Step

\* Whatever happens, types are kept and no event is attempted more often than
\* max_attempts between two retries by hand (OutboxTypeOK).
THEOREM OutboxTypeCorrect == Spec => []OutboxTypeOK
  <1>1. TypedInv => OutboxTypeOK
    BY DEF TypedInv
  <1> QED
    BY InitTyped, NextTyped, <1>1, PTL DEF Spec

\* Nothing is reported as delivered, in the portal or on the invoice, that the
\* merchant's server has not processed (DeliveredWasReceived): the outcome is
\* written from the answer to the worker's own request, however late.
THEOREM DeliveriesAreReal == Spec => []DeliveredWasReceived
  <1>1. Init => ReportInv
    BY DEF Init, ReportInv, DeliveredWasReceived, InvoiceMirrorsEvent, Settled
  <1>2. ReportInv => DeliveredWasReceived
    BY DEF ReportInv
  <1> QED
    BY InitTyped, NextTyped, NextReports, <1>1, <1>2, PTL DEF Spec

\* A settled event and its invoice agree (InvoiceMirrorsEvent), also when a
\* late worker overwrites an outcome recorded by another.
THEOREM InvoiceShowsOutcome == Spec => []InvoiceMirrorsEvent
  <1>1. Init => ReportInv
    BY DEF Init, ReportInv, DeliveredWasReceived, InvoiceMirrorsEvent, Settled
  <1>2. ReportInv => InvoiceMirrorsEvent
    BY DEF ReportInv
  <1> QED
    BY InitTyped, NextTyped, NextReports, <1>1, <1>2, PTL DEF Spec

\* No two workers have the same event in hand, although its lock is released
\* before delivery, unless it was queued again while claimed
\* (ClaimIsExclusive).
THEOREM ClaimsAreExclusive == Spec => []ClaimIsExclusive
  <1>1. Init => OwnerInv
    BY OutboxAssumption DEF Init, OwnerInv, ClaimInv, ClaimIsExclusive, Working, Resting
  <1>2. OwnerInv => ClaimIsExclusive
    BY DEF OwnerInv
  <1> QED
    BY InitTyped, NextTyped, NextOwner, <1>1, <1>2, PTL DEF Spec

\* The outbox implements CallbackDelivery (KeepsPromise): an event stays open
\* until it was received or has failed all its attempts, and is opened again
\* only by hand.  Only an event queued again during a delivery may be
\* overwritten.
THEOREM OutboxKeepsPromise == Spec => KeepsPromise
  <1>1. Init => OwnerInv
    BY OutboxAssumption DEF Init, OwnerInv, ClaimInv, ClaimIsExclusive, Working, Resting
  <1>2. Init => EventStates = [e \in Events |-> "none"]
    <2>1. StateOf("absent") = "none"
      BY DEF StateOf, Settled
    <2> QED
      BY <2>1 DEF Init, EventStates
  <1>3. Init => Promise!Init
    BY <1>2 DEF Init, Promise!Init, EventStates, StateOf
  <1> QED
    BY InitTyped, NextTyped, NextOwner, NextKeepsPromise, <1>1, <1>3, PTL
       DEF Spec, KeepsPromise, Promise!Spec
=============================================================================
