----------------------------- MODULE RateLimiter -----------------------------
(***************************************************************************)
(* DatabaseFixedWindowRateLimiter: the counters of table                   *)
(* rate_limit_buckets under PostgreSQL, shared by concurrent requests.     *)
(*                                                                         *)
(* A request is counted in one, two or three buckets, one transaction      *)
(* each: it reads the window's row FOR UPDATE and adds one, or finds none  *)
(* and inserts it. Two requests that both find none insert the same key:   *)
(* the second waits for the first, is refused by the unique constraint,    *)
(* rolls back and tries once more. A request is answered after all its     *)
(* buckets are counted, also when the first already refuses it.            *)
(*                                                                         *)
(* The clock is the number of the current window. A request is assumed to  *)
(* be over KeepWindows windows after it began (three minutes in the code;  *)
(* the pool and the database time out long before).                        *)
(***************************************************************************)
EXTENDS Integers, FiniteSets, FiniteSetsExt, Sequences, Functions

CONSTANTS
    Requests,       \* requests under way at one time
    Ips, ApiKeys,   \* identities, hashed in the table
    IpLimit, KeyLimit, CreateLimit,     \* 300, 120 and 30 a minute
    KeepWindows,    \* 3: older windows may be deleted
    CleanEvery,     \* 10: in every such window
    MaxWindow,      \* bound on the clock
    MaxHits         \* bound: consumptions of a bucket

ASSUME LimiterAssumption ==
    /\ {IpLimit, KeyLimit, CreateLimit, KeepWindows, MaxWindow, MaxHits} \subseteq Nat
    /\ CleanEvery \in Nat \ {0}

VARIABLES
    now,        \* the current window
    count,      \* table rate_limit_buckets: 0 stands for no row
    request,    \* [Requests -> Request]
    hits, granted   \* history: consumptions committed, and those allowed

limiterVars == <<now, count, request, hits, granted>>

-----------------------------------------------------------------------------
Bucket(scope, id) == [scope |-> scope, id |-> id]
Buckets ==
    {Bucket("ip", i) : i \in Ips}
        \cup {Bucket(s, k) : s \in {"api_key", "invoice_create"}, k \in ApiKeys}

Limit == [b \in Buckets |-> CASE b.scope = "ip" -> IpLimit
                              [] b.scope = "api_key" -> KeyLimit
                              [] b.scope = "invoice_create" -> CreateLimit]

\* What check() counts a request in.
AnyCall(ip)        == <<Bucket("ip", ip)>>
KeyedCall(ip, key) == Append(AnyCall(ip), Bucket("api_key", key))
Creation(ip, key)  == Append(KeyedCall(ip, key), Bucket("invoice_create", key))
Calls == {AnyCall(i) : i \in Ips}
           \cup {KeyedCall(i, k) : i \in Ips, k \in ApiKeys}
           \cup {Creation(i, k) : i \in Ips, k \in ApiKeys}

Windows == 0..MaxWindow
Keys == Buckets \X Windows

\* read: before the SELECT; locked: the row is read and locked; missing: no
\* row was found; inserted: the INSERT is flushed, the commit is to come.
Steps == {"idle", "read", "locked", "missing", "inserted", "raised"}
Idle == [at |-> "idle", todo |-> <<>>, window |-> 0, seen |-> 0, retry |-> FALSE]
Running(r) == request[r].at \notin {"idle", "raised"}
Current(r) == <<Head(request[r].todo), request[r].window>>

Owns(r, k) == Running(r) /\ Current(r) = k /\ request[r].at \in {"locked", "inserted"}
Free(k) == \A r \in Requests : ~Owns(r, k)

LimiterInit ==
    /\ now = 0
    /\ count = [k \in Keys |-> 0]
    /\ request = [r \in Requests |-> Idle]
    /\ hits = [k \in Keys |-> 0]
    /\ granted = [k \in Keys |-> 0]

-----------------------------------------------------------------------------
Consumptions(b) ==
    MapThenSumSet(LAMBDA w : hits[b, w], Windows) + Cardinality({o \in Requests : Running(o)})

Arrive(r, call) ==
    /\ request[r].at = "idle"
    /\ \A b \in Range(call) : Consumptions(b) < MaxHits
    /\ request' = [request EXCEPT ![r] = [Idle EXCEPT !.at = "read", !.todo = call, !.window = now]]
    /\ UNCHANGED <<now, count, hits, granted>>

Lockable_Shared(k) == count[k] > 0
\* SELECT ... FOR UPDATE finds the committed row once nobody else locks it.
Lockable(k) == count[k] > 0 /\ Free(k)

SelectRow(r) ==
    /\ request[r].at = "read"
    /\ \/ /\ Lockable(Current(r))
          /\ request' = [request EXCEPT ![r].at = "locked", ![r].seen = count[Current(r)]]
       \/ /\ count[Current(r)] = 0
          /\ request' = [request EXCEPT ![r].at = "missing"]
    /\ UNCHANGED <<now, count, hits, granted>>

AfterConflict_NoRetry(q) == "raised"
\* IntegrityError: roll back and try again, or raise the second time.
AfterConflict(q) == IF q.retry THEN "raised" ELSE "read"

\* The flushed INSERT waits for an uncommitted one of the same key.
InsertRow(r) ==
    LET k == Current(r) IN
    /\ request[r].at = "missing"
    /\ Free(k)
    /\ IF count[k] = 0
         THEN request' = [request EXCEPT ![r].at = "inserted", ![r].seen = 0]
         ELSE request' = [request EXCEPT ![r].at = AfterConflict(request[r]), ![r].retry = TRUE]
    /\ UNCHANGED <<now, count, hits, granted>>

Outdated_TooEager(w, old) == w % CleanEvery = 0 /\ old <= w - KeepWindows
\* Rows the commit of a request of window w deletes.
Outdated(w, old) == w % CleanEvery = 0 /\ old < w - KeepWindows

\* The commit of one consumption, and on to the next bucket or the answer.
CommitCount(r) ==
    LET q == request[r]
        k == Current(r)
        c == q.seen + 1
        refused == c > Limit[k[1]]
        rest == Tail(q.todo)
    IN
    /\ q.at \in {"locked", "inserted"}
    /\ count' = [x \in Keys |-> IF x = k THEN c
                                ELSE IF Outdated(q.window, x[2]) THEN 0 ELSE count[x]]
    /\ hits' = [hits EXCEPT ![k] = @ + 1]
    /\ granted' = IF refused THEN granted ELSE [granted EXCEPT ![k] = @ + 1]
    /\ request' = [request EXCEPT ![r] =
          IF rest = <<>> THEN Idle
          ELSE [Idle EXCEPT !.at = "read", !.todo = rest, !.window = now]]
    /\ UNCHANGED now

\* The session or the database fails: the transaction is rolled back, what
\* earlier transactions of the request have counted stays.
Abort(r) ==
    /\ request' = [request EXCEPT ![r] = Idle]
    /\ UNCHANGED <<now, count, hits, granted>>

Fail(r) == Running(r) /\ Abort(r)

NextWindow ==
    /\ now < MaxWindow
    /\ \A r \in Requests : Running(r) => request[r].window + KeepWindows > now
    /\ now' = now + 1
    /\ UNCHANGED <<count, request, hits, granted>>

Advance(r) == SelectRow(r) \/ InsertRow(r) \/ CommitCount(r)

LimiterNext ==
    \/ \E r \in Requests :
          \/ \E call \in Calls : Arrive(r, call)
          \/ Advance(r)
          \/ Fail(r)
    \/ NextWindow

LimiterSpec == LimiterInit /\ [][LimiterNext]_limiterVars

\* PostgreSQL grants a row to its waiters in turn.
LimiterFairness == \A r \in Requests : SF_limiterVars(Advance(r))

-----------------------------------------------------------------------------
(* Properties *)

\* Types; a row never counts more than was consumed, and neither is more
\* allowed; a row that is locked is there and holds what its owner has read.
LimiterTypeOK ==
    /\ now \in Windows
    /\ count \in [Keys -> Nat] /\ hits \in [Keys -> Nat] /\ granted \in [Keys -> Nat]
    /\ \A k \in Keys : count[k] <= hits[k] /\ granted[k] <= hits[k]
    /\ \A r \in Requests :
          /\ request[r].at \in Steps
          /\ request[r].at = "locked" => count[Current(r)] = request[r].seen

\* The limiter whose counts are rows, read, inserted twice, retried, failed
\* and cleaned up by concurrent requests, allows exactly what the limiter
\* that counts in memory under a lock allows.
FW == INSTANCE FixedWindow WITH counts <- hits, allowed <- granted
KeepsQuota == FW!Spec

\* The one retry is enough: the row whose insertion collided is still there,
\* so the second attempt finds it (otherwise the request would fail with 500).
RetrySucceeds == \A r \in Requests : request[r].at # "raised"
=============================================================================
