--------------------------- MODULE CallbackOutbox ---------------------------
(***************************************************************************)
(* The durable outbox of payment callbacks: table callback_events and the  *)
(* workers that claim an event, post it to the merchant's server and record*)
(* the outcome.  Each process of a deployment runs one worker; during a    *)
(* deployment the old and the new process overlap.                         *)
(*                                                                         *)
(* Time is kept as two sets: due, the queued events whose next_attempt_at  *)
(* has come, and stale, the claimed events whose locked_at is more than    *)
(* five minutes old.  The order by next_attempt_at only decides which due  *)
(* event goes first, so a claim takes any of them.                         *)
(***************************************************************************)
EXTENDS Naturals, FiniteSets

CONSTANTS
    Events,         \* ids of table callback_events
    Workers,        \* callback_outbox_worker of each process
    None,           \* SQL NULL
    MaxAttempts,    \* max_attempts, 3 in the code
    MaxFaults,      \* bound: crashes and failed commits
    MaxManual       \* bound: retries requested by hand

ASSUME OutboxAssumption ==
    /\ None \notin Events
    /\ MaxAttempts \in Nat \ {0}
    /\ MaxFaults \in Nat /\ MaxManual \in Nat

VARIABLES
    status,         \* [Events -> event status]
    attempts,       \* [Events -> Nat]: attempt_count
    due,            \* queued events whose next_attempt_at has come
    stale,          \* claimed events locked for more than five minutes
    mirror,         \* [Events -> callback_status of the event's invoice]
    worker,         \* [Workers -> what the worker is doing]
    received,       \* events the merchant's server has processed at least once
    requeued,       \* history: claimed events that were queued again
    faults, manual  \* counts, to bound them

vars == <<status, attempts, due, stale, mirror, worker, received, requeued, faults, manual>>

Queued == {"pending", "retry"}
Settled == {"delivered", "failed"}

\* at: "claimed" between the claim's commit and the load, "posting" during the
\* HTTP request, "answered" until the outcome is committed.  attempt: the
\* number this attempt will be recorded under.
Resting(at) == [at |-> at, event |-> None, attempt |-> 0, ok |-> FALSE]

Working(w, e) == worker[w].event = e /\ worker[w].at # "off"

Init ==
    /\ status = [e \in Events |-> "absent"]
    /\ attempts = [e \in Events |-> 0]
    /\ due = {}
    /\ stale = {}
    /\ mirror = [e \in Events |-> "not_configured"]
    /\ worker = [w \in Workers |-> Resting("idle")]
    /\ received = {}
    /\ requeued = {}
    /\ faults = 0 /\ manual = 0

-----------------------------------------------------------------------------
(* The queue *)

\* Committed together with the payment.
Enqueue(e) ==
    /\ status[e] = "absent"
    /\ status' = [status EXCEPT ![e] = "pending"]
    /\ due' = due \cup {e}
    /\ mirror' = [mirror EXCEPT ![e] = "queued"]
    /\ UNCHANGED <<attempts, stale, worker, received, requeued, faults, manual>>

\* The delay of 30 s or 300 s after a failed attempt is over.
BackoffElapses(e) ==
    /\ status[e] = "retry" /\ e \notin due
    /\ due' = due \cup {e}
    /\ UNCHANGED <<status, attempts, stale, mirror, worker, received, requeued, faults, manual>>

LockAges(e) ==
    /\ status[e] = "processing" /\ e \notin stale
    /\ stale' = stale \cup {e}
    /\ UNCHANGED <<status, attempts, due, mirror, worker, received, requeued, faults, manual>>

\* Queue the events of E again, to be tried at once.
Requeue(E) ==
    /\ status' = [e \in Events |-> IF e \in E THEN "retry" ELSE status[e]]
    /\ due' = due \cup E
    /\ stale' = stale \ E
    /\ requeued' = requeued \cup {e \in E : status[e] = "processing"}

\* The portals retry failed events, the admin panel any event.
ManualRetry(e) ==
    /\ manual < MaxManual
    /\ status[e] # "absent"
    /\ Requeue({e})
    /\ attempts' = [attempts EXCEPT ![e] = 0]
    /\ manual' = manual + 1
    /\ UNCHANGED <<mirror, worker, received, faults>>

-----------------------------------------------------------------------------
(* A worker *)

Claimable_AnyOpen(e) == e \in due \/ status[e] = "processing"
Claimable_UntilDelivered(e) == e \in due \/ status[e] = "failed"
Claimable_NewOnly(e) == status[e] = "pending" /\ e \in due
Claimable(e) == status[e] \in Queued /\ e \in due

\* FOR UPDATE SKIP LOCKED, set to processing, commit.
Claim(w, e) ==
    /\ worker[w].at = "idle"
    /\ Claimable(e)
    /\ status' = [status EXCEPT ![e] = "processing"]
    /\ due' = due \ {e}
    /\ stale' = stale \ {e}
    /\ worker' = [worker EXCEPT ![w].at = "claimed", ![w].event = e]
    /\ UNCHANGED <<attempts, mirror, received, requeued, faults, manual>>

\* A new session loads the event; a retry by hand may have taken it back.
Load(w) ==
    LET e == worker[w].event IN
    /\ worker[w].at = "claimed"
    /\ worker' = [worker EXCEPT ![w] =
          IF status[e] = "processing" THEN [@ EXCEPT !.at = "posting", !.attempt = attempts[e] + 1]
                                      ELSE Resting("idle")]
    /\ UNCHANGED <<status, attempts, due, stale, mirror, received, requeued, faults, manual>>

\* The server processes the request or not; a 2xx answer may be lost.
Post(w) ==
    /\ worker[w].at = "posting"
    /\ \E processed, ok \in BOOLEAN :
          /\ ok => processed
          /\ received' = IF processed THEN received \cup {worker[w].event} ELSE received
          /\ worker' = [worker EXCEPT ![w].at = "answered", ![w].ok = ok]
    /\ UNCHANGED <<status, attempts, due, stale, mirror, requeued, faults, manual>>

Exhausted_AtTheNext(n) == n > MaxAttempts
\* Attempt number n was the last.
Exhausted(n) == n >= MaxAttempts

Outcome_LastCounts(n, ok) ==
    IF ok \/ n = MaxAttempts THEN "delivered" ELSE "retry"
Outcome(n, ok) ==
    IF ok THEN "delivered" ELSE IF Exhausted(n) THEN "failed" ELSE "retry"

RecordOutcome_MirrorsSuccess(w) ==
    LET e == worker[w].event
        n == worker[w].attempt
        result == Outcome(n, worker[w].ok)
    IN
    /\ worker[w].at = "answered"
    /\ status' = [status EXCEPT ![e] = result]
    /\ attempts' = [attempts EXCEPT ![e] = n]
    /\ due' = due \ {e}
    /\ stale' = stale \ {e}
    /\ mirror' = [mirror EXCEPT ![e] = IF worker[w].ok THEN result ELSE "queued"]
    /\ worker' = [worker EXCEPT ![w] = Resting("idle")]
    /\ UNCHANGED <<received, requeued, faults, manual>>

\* The loaded object is written whatever has happened to the row meanwhile.
RecordOutcome(w) ==
    LET e == worker[w].event
        n == worker[w].attempt
        result == Outcome(n, worker[w].ok)
    IN
    /\ worker[w].at = "answered"
    /\ status' = [status EXCEPT ![e] = result]
    /\ attempts' = [attempts EXCEPT ![e] = n]
    /\ due' = due \ {e}
    /\ stale' = stale \ {e}
    /\ mirror' = [mirror EXCEPT ![e] = IF result = "retry" THEN "queued" ELSE result]
    /\ worker' = [worker EXCEPT ![w] = Resting("idle")]
    /\ UNCHANGED <<received, requeued, faults, manual>>

-----------------------------------------------------------------------------
(* Failure *)

\* The event cannot be loaded, or its outcome not be committed; the worker
\* logs the exception and goes on to the next event.
SessionFails(w) ==
    /\ faults < MaxFaults
    /\ worker[w].at \in {"claimed", "answered"}
    /\ worker' = [worker EXCEPT ![w] = Resting("idle")]
    /\ faults' = faults + 1
    /\ UNCHANGED <<status, attempts, due, stale, mirror, received, requeued, manual>>

Crash(w) ==
    /\ faults < MaxFaults
    /\ worker[w].at # "off"
    /\ worker' = [worker EXCEPT ![w] = Resting("off")]
    /\ faults' = faults + 1
    /\ UNCHANGED <<status, attempts, due, stale, mirror, received, requeued, manual>>

\* Locks that are stale at the start of the process are released, once.
Restart(w) ==
    /\ worker[w].at = "off"
    /\ worker' = [worker EXCEPT ![w] = Resting("idle")]
    /\ Requeue({e \in Events : status[e] = "processing" /\ e \in stale})
    /\ UNCHANGED <<attempts, mirror, received, faults, manual>>

-----------------------------------------------------------------------------
Step(w) == (\E e \in Events : Claim(w, e)) \/ Load(w) \/ Post(w) \/ RecordOutcome(w)

Next ==
    \/ \E e \in Events : Enqueue(e) \/ BackoffElapses(e) \/ LockAges(e) \/ ManualRetry(e)
    \/ \E w \in Workers : Step(w) \/ SessionFails(w) \/ Crash(w) \/ Restart(w)

Spec == Init /\ [][Next]_vars

\* The worker loop runs for the life of the process, a stopped process is
\* started again, and time passes.
FairSpec ==
    /\ Spec
    /\ \A w \in Workers : WF_vars(Step(w)) /\ WF_vars(Restart(w))
    /\ \A e \in Events : WF_vars(BackoffElapses(e)) /\ WF_vars(LockAges(e))

-----------------------------------------------------------------------------
(* Properties *)

\* Types; an event is due only while queued and stale only while claimed, and
\* its attempts stay within max_attempts.
OutboxTypeOK ==
    /\ status \in [Events -> {"absent", "pending", "processing", "retry", "delivered", "failed"}]
    /\ attempts \in [Events -> 0..MaxAttempts]
    /\ due \subseteq {e \in Events : status[e] \in Queued}
    /\ stale \subseteq {e \in Events : status[e] = "processing"}
    /\ mirror \in [Events -> {"not_configured", "queued", "delivered", "failed"}]
    /\ worker \in [Workers -> [at : {"off", "idle", "claimed", "posting", "answered"},
                               event : Events \cup {None}, attempt : 0..MaxAttempts, ok : BOOLEAN]]
    /\ received \subseteq Events /\ requeued \subseteq Events
    /\ faults \in 0..MaxFaults /\ manual \in 0..MaxManual

\* An event is in the hands of one worker, unless it was queued again while
\* claimed: the claim is exclusive although it is released before delivery.
ClaimIsExclusive ==
    \A v, w \in Workers, e \in Events :
        v # w /\ Working(v, e) /\ Working(w, e) => e \in requeued

\* No event is reported as delivered, to the merchant's portal or on the
\* invoice, that the merchant's server has not processed.
DeliveredWasReceived ==
    \A e \in Events : "delivered" \in {status[e], mirror[e]} => e \in received

\* The invoice shows the outcome of its settled event.
InvoiceMirrorsEvent ==
    \A e \in Events : status[e] \in Settled => mirror[e] = status[e]

\* What was claimed when its process stopped is retried after the restart.
RetriedAfterRestart ==
    \A e \in Events, w \in Workers :
        status[e] = "processing" /\ worker[w].at = "off" ~> status[e] \in Settled

\* Every event is finally delivered or has failed all its attempts.  Crashes
\* and failed commits leave one other end, that of an orphan: claimed, by
\* nobody.  Whatever was merely queued goes on.
Orphan(e) == status[e] = "processing" /\ \A w \in Workers : ~Working(w, e)
SettlesUnlessOrphaned ==
    \A e \in Events : status[e] # "absent" ~> (status[e] \in Settled \/ Orphan(e))

\* The outbox does what CallbackDelivery promises.
Promise == INSTANCE CallbackDelivery WITH
    state <- [e \in Events |->
                CASE status[e] = "absent" -> "none"
                  [] status[e] \in Settled -> status[e]
                  [] OTHER -> "open"],
    disturbed <- requeued,
    reopened <- manual
KeepsPromise == Promise!Spec

=============================================================================
