---------------------------- MODULE ApiRequests ----------------------------
(***************************************************************************)
(* The API requests of one store that create invoices, live and sandbox:   *)
(* authentication, idempotency records, risk rules, creation, and what     *)
(* happens to them when a client repeats a request, a process stops or a   *)
(* day ends.                                                               *)
(*                                                                         *)
(* api_context updates the key's row, so a store's requests wait for each  *)
(* other there and go on one at a time until their transaction ends.  What *)
(* a request has written is seen by nobody before it commits; a handler    *)
(* that raises is rolled back.  What creation does to money is the subject *)
(* of Settlement.                                                          *)
(***************************************************************************)
EXTENDS Naturals, Sequences, FiniteSets

CONSTANTS
    Sessions,       \* concurrent requests
    IdemKeys,       \* values of Idempotency-Key
    Orders,         \* values of order_id
    Amounts,        \* values of amount
    None,           \* SQL NULL, an absent header or field
    MinuteLimit,    \* invoice_rate_limit_per_minute of the store
    DailyLimit,     \* daily_amount_limit_rial of the store
    MaxInvoices,    \* bound: invoices created
    MaxDays         \* bound: days that pass

ASSUME ApiAssumption ==
    /\ None \notin IdemKeys \cup Orders \cup Sessions \cup Nat
    /\ Amounts \subseteq Nat \ {0}
    /\ MinuteLimit \in Nat \ {0} /\ DailyLimit \in Nat
    /\ MaxInvoices \in Nat /\ MaxDays \in Nat

VARIABLES
    records,        \* table idempotency_records, [Environments \X IdemKeys -> record]
    expired,        \* the records whose expires_at has come
    invoices,       \* tables invoices and sandbox_invoices, in the order of creation
    recent,         \* live invoices created less than a minute ago
    today,          \* the date
    key,            \* the session that holds the lock of the API key's row
    session,        \* [Sessions -> the request it works on]
    blocked         \* history: records committed by a request the risk rules refused

vars == <<records, expired, invoices, recent, today, key, session, blocked>>

Environments == {"live", "sandbox"}
\* A sandbox request must name its order.
Requests ==
    {q \in [env : Environments, idem : IdemKeys \cup {None}, order : Orders \cup {None}, amount : Amounts] :
        q.env = "sandbox" => q.order # None}
NoRequest == [env |-> "live", idem |-> None, order |-> None, amount |-> 0]

\* A record keeps the request it was made for (its hash) and the invoice of
\* the stored response, None while there is none.
NoRecord == [request |-> NoRequest, invoice |-> None]
Slot(q) == <<q.env, q.idem>>

\* began: the day its transaction began, which dates what it creates.
\* late: it was admitted on a later day.  code, invoice: the answer.
Idle == [at |-> "idle", request |-> NoRequest, began |-> 0, late |-> FALSE, code |-> None, invoice |-> None]
Inside == {"touched", "admitted"}

Live == {i \in DOMAIN invoices : invoices[i].request.env = "live"}
Counted(i) == invoices[i].status # "expired"
CountedOn(day) == {i \in Live : invoices[i].day = day /\ Counted(i)}
\* The sum of the amounts of the invoices I is the number of their rials.
Rials(I) == UNION {{i} \X (1..invoices[i].request.amount) : i \in I}
AmountOn(I) == Cardinality(Rials(I))

Init ==
    /\ records = [r \in Environments \X IdemKeys |-> NoRecord]
    /\ expired = {}
    /\ invoices = <<>>
    /\ recent = {}
    /\ today = 0
    /\ key = None
    /\ session = [s \in Sessions |-> Idle]
    /\ blocked = {}

-----------------------------------------------------------------------------
(* api_context *)

\* The key is looked up: the transaction begins.
Authenticate(s) ==
    /\ session[s].at = "idle"
    /\ session' = [session EXCEPT ![s].at = "known", ![s].began = today]
    /\ UNCHANGED <<records, expired, invoices, recent, today, key, blocked>>

Touch_NoFlush(s) ==
    /\ session[s].at = "known"
    /\ session' = [session EXCEPT ![s].at = "touched"]
    /\ UNCHANGED <<records, expired, invoices, recent, today, key, blocked>>

\* last_used_at is flushed: the row is locked until the transaction ends.
Touch(s) ==
    /\ session[s].at = "known"
    /\ key = None
    /\ key' = s
    /\ session' = [session EXCEPT ![s].at = "touched"]
    /\ UNCHANGED <<records, expired, invoices, recent, today, blocked>>

-----------------------------------------------------------------------------
(* The handlers *)

Ends_KeepsLock(s, q, code, i) ==
    /\ session' = [session EXCEPT ![s] = Idle]
    /\ UNCHANGED key
\* The transaction is over; an answer that names an invoice, or says that it
\* is on its way, is followed to the client.
Ends(s, q, code, i) ==
    /\ session' = [session EXCEPT ![s] =
          IF code \in {"ok", "in_progress"}
          THEN [Idle EXCEPT !.at = "answered", !.request = q, !.code = code, !.invoice = i]
          ELSE Idle]
    /\ key' = IF key = s THEN None ELSE key

InForce(q) == q.idem # None /\ records[Slot(q)] # NoRecord /\ Slot(q) \notin expired

RepeatOf_AnyBody(q) == TRUE
\* The hash of the stored request equals this one's.
RepeatOf(q) == records[Slot(q)].request = q

\* get_idempotent_response finds a record in force.
AnswerFromRecord(s, q) ==
    LET i == records[Slot(q)].invoice IN
    /\ session[s].at = "touched"
    /\ InForce(q)
    /\ \/ ~RepeatOf(q) /\ Ends(s, q, "reused", None)
       \/ RepeatOf(q) /\ i = None /\ Ends(s, q, "in_progress", None)
       \/ RepeatOf(q) /\ i # None /\ Ends(s, q, "ok", i)
    /\ UNCHANGED <<records, expired, invoices, recent, today, blocked>>

\* The request's record, new or in the place of an expired one, is committed.
Record(q, i) ==
    /\ records' = [r \in DOMAIN records |-> IF r = Slot(q) THEN [request |-> q, invoice |-> i] ELSE records[r]]
    /\ expired' = expired \ {Slot(q)}

RateExceeded == Cardinality(recent) >= MinuteLimit
DailyAmount == AmountOn(CountedOn(today))
DailyExceeded(q) == DailyAmount + q.amount > DailyLimit

\* No record is in force, one is reserved, and evaluate_invoice_creation
\* refuses: the risk event is committed, and the record with it.
Refuse(s, q) ==
    /\ session[s].at = "touched"
    /\ ~InForce(q)
    /\ q.env = "live" /\ (RateExceeded \/ DailyExceeded(q))
    /\ Record(q, None)
    /\ blocked' = IF q.idem = None THEN blocked ELSE blocked \cup {Slot(q)}
    /\ Ends(s, q, "refused", None)
    /\ UNCHANGED <<invoices, recent, today>>

Admit_RecordsAtOnce(s, q) ==
    /\ session[s].at = "touched"
    /\ ~InForce(q)
    /\ q.env = "live" /\ ~RateExceeded /\ ~DailyExceeded(q)
    /\ session' = [session EXCEPT ![s].at = "admitted", ![s].request = q, ![s].late = today # session[s].began]
    /\ Record(q, None)
    /\ UNCHANGED <<invoices, recent, today, key, blocked>>

\* It lets the request pass.  The reserved record is committed with the outcome.
Admit(s, q) ==
    /\ session[s].at = "touched"
    /\ ~InForce(q)
    /\ q.env = "live" /\ ~RateExceeded /\ ~DailyExceeded(q)
    /\ session' = [session EXCEPT ![s].at = "admitted", ![s].request = q, ![s].late = today # session[s].began]
    /\ UNCHANGED <<records, expired, invoices, recent, today, key, blocked>>

\* A sandbox invoice is not evaluated.
AdmitSandbox(s, q) ==
    /\ session[s].at = "touched"
    /\ ~InForce(q)
    /\ q.env = "sandbox"
    /\ session' = [session EXCEPT ![s].at = "admitted", ![s].request = q]
    /\ UNCHANGED <<records, expired, invoices, recent, today, key, blocked>>

SameTable(q) == {i \in DOMAIN invoices : invoices[i].request.env = q.env}
Conflict_OrderOnly(q) ==
    \E i \in SameTable(q) : q.order # None /\ invoices[i].request.order = q.order
\* The unique indexes on the store's orders and on its idempotency keys.
Conflict(q) ==
    \E i \in SameTable(q) :
        \/ q.order # None /\ invoices[i].request.order = q.order
        \/ q.idem # None /\ invoices[i].request.idem = q.idem

Create(s) ==
    LET q == session[s].request
        i == Len(invoices) + 1
    IN
    /\ session[s].at = "admitted"
    /\ i <= MaxInvoices
    /\ ~Conflict(q)
    /\ invoices' = Append(invoices,
          [request |-> q, day |-> session[s].began, late |-> session[s].late, status |-> "pending"])
    /\ recent' = IF q.env = "live" THEN recent \cup {i} ELSE recent
    /\ Record(q, i)
    /\ blocked' = blocked \ {Slot(q)}
    /\ Ends(s, q, "ok", i)
    /\ UNCHANGED today

\* A unique index is violated; or, live only, create_invoice raises ValueError
\* (no funds, no card, no free amount ...): rolled back.
CreateFails(s) ==
    LET q == session[s].request IN
    /\ session[s].at = "admitted"
    /\ \/ Conflict(q) /\ Ends(s, q, "conflict", None)
       \/ q.env = "live" /\ Ends(s, q, "failed", None)
    /\ UNCHANGED <<records, expired, invoices, recent, today, blocked>>

\* The client reads the answer, or loses it.
Leave(s) ==
    /\ session[s].at = "answered"
    /\ session' = [session EXCEPT ![s] = Idle]
    /\ UNCHANGED <<records, expired, invoices, recent, today, key, blocked>>

\* The process stops, or the connection to the database breaks.
Abort(s) ==
    /\ session[s].at \in Inside \cup {"known"}
    /\ session' = [session EXCEPT ![s] = Idle]
    /\ key' = IF key = s THEN None ELSE key
    /\ UNCHANGED <<records, expired, invoices, recent, today, blocked>>

\* POST /sandbox/invoices/{token}/simulate; the whole handler runs with the
\* key's row locked.
Simulate(i) ==
    /\ key = None
    /\ invoices[i].request.env = "sandbox" /\ invoices[i].status = "pending"
    /\ \E result \in {"paid", "failed", "expired"} : invoices' = [invoices EXCEPT ![i].status = result]
    /\ UNCHANGED <<records, expired, recent, today, key, session, blocked>>

-----------------------------------------------------------------------------
(* Around the requests *)

\* A live invoice is cancelled or expires; until then, and when paid, it
\* counts for the limits.
Close(i) ==
    /\ invoices[i].request.env = "live" /\ Counted(i)
    /\ invoices' = [invoices EXCEPT ![i].status = "expired"]
    /\ UNCHANGED <<records, expired, recent, today, key, session, blocked>>

MinutePasses ==
    /\ recent # {}
    /\ \E old \in SUBSET recent \ {{}} : recent' = recent \ old
    /\ UNCHANGED <<records, expired, invoices, today, key, session, blocked>>

\* Records live for 24 hours.
RecordExpires(r) ==
    /\ records[r] # NoRecord /\ r \notin expired
    /\ expired' = expired \cup {r}
    /\ UNCHANGED <<records, invoices, recent, today, key, session, blocked>>

Midnight ==
    /\ today < MaxDays
    /\ today' = today + 1
    /\ UNCHANGED <<records, expired, invoices, recent, key, session, blocked>>

\* housekeeping_worker.
CleanupExpiredIdempotency ==
    /\ expired # {}
    /\ records' = [r \in DOMAIN records |-> IF r \in expired THEN NoRecord ELSE records[r]]
    /\ blocked' = blocked \ expired
    /\ expired' = {}
    /\ UNCHANGED <<invoices, recent, today, key, session>>

-----------------------------------------------------------------------------
Handle(s) ==
    \/ Authenticate(s) \/ Touch(s)
    \/ \E q \in Requests : AnswerFromRecord(s, q) \/ Refuse(s, q) \/ Admit(s, q) \/ AdmitSandbox(s, q)
    \/ Create(s) \/ CreateFails(s) \/ Leave(s) \/ Abort(s)

Next ==
    \/ \E s \in Sessions : Handle(s)
    \/ \E i \in DOMAIN invoices : Simulate(i) \/ Close(i)
    \/ \E r \in DOMAIN records : RecordExpires(r)
    \/ MinutePasses \/ Midnight \/ CleanupExpiredIdempotency

Spec == Init /\ [][Next]_vars

-----------------------------------------------------------------------------
(* Properties *)

\* Types; the key's row is locked only by a request at work, and records name
\* invoices that exist.
ApiTypeOK ==
    /\ records \in [Environments \X IdemKeys ->
                      [request : Requests \cup {NoRequest}, invoice : DOMAIN invoices \cup {None}]]
    /\ expired \subseteq {r \in DOMAIN records : records[r] # NoRecord}
    /\ blocked \subseteq {r \in DOMAIN records : records[r] # NoRecord}
    /\ \A i \in DOMAIN invoices :
          invoices[i] \in [request : Requests, day : 0..MaxDays, late : BOOLEAN,
                           status : {"pending", "paid", "failed", "expired"}]
    /\ recent \subseteq Live
    /\ today \in 0..MaxDays
    /\ key \in Sessions \cup {None}
    /\ session \in [Sessions ->
          [at : {"idle", "known", "answered"} \cup Inside, request : Requests \cup {NoRequest},
           began : 0..MaxDays, late : BOOLEAN,
           code : {None, "ok", "in_progress"}, invoice : DOMAIN invoices \cup {None}]]
    /\ \A s \in Sessions : key = s => session[s].at \in Inside

\* A key of the store makes one invoice, for good: also when its record has
\* expired or been cleaned up, its process stopped before it answered, or the
\* client repeats it at the same time.
OneInvoicePerKey ==
    \A i, j \in DOMAIN invoices :
        Slot(invoices[i].request) = Slot(invoices[j].request) /\ invoices[i].request.idem # None => i = j

\* Whoever is answered with an invoice gets one that was made for what he
\* asked for, whether it was made now or replayed.
AnswerIsOwn ==
    \A s \in Sessions :
        session[s].at = "answered" /\ session[s].code = "ok" =>
            /\ session[s].invoice \in DOMAIN invoices
            /\ invoices[session[s].invoice].request = session[s].request

\* A stopped or failed request leaves no key taken: a record without a response
\* is that of a request at work or of one the risk rules refused.
StopsLeaveNoRecord ==
    \A r \in DOMAIN records :
        records[r] # NoRecord /\ records[r].invoice = None =>
            r \in blocked \/ \E s \in Sessions : session[s].at = "admitted" /\ Slot(session[s].request) = r

\* The store's open and paid invoices of a day stay within its daily limit
\* although they are added up before any of them is locked, apart from those
\* whose request waited past midnight.
WithinDailyLimit ==
    \A d \in 0..MaxDays :
        AmountOn({i \in CountedOn(d) : ~invoices[i].late}) <= DailyLimit

\* What the answer says: another request with the same key is being processed.
InProgressIsConcurrent ==
    \A s \in Sessions :
        session[s].at = "answered" /\ session[s].code = "in_progress" =>
            \E t \in Sessions \ {s} :
                session[t].at \in Inside /\ Slot(session[t].request) = Slot(session[s].request)
=============================================================================
