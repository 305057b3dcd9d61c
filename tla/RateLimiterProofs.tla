--------------------------- MODULE RateLimiterProofs ---------------------------
(***************************************************************************)
(* The limiter that counts in rows keeps the quota of the limiter that     *)
(* counts in memory, for any number of requests, buckets and windows and   *)
(* for every limit.                                                        *)
(***************************************************************************)
EXTENDS RateLimiter, TLAPS

RequestRow ==
    [at : Steps, todo : Seq(Buckets), window : Windows, seen : Nat, retry : BOOLEAN]

\* Counters, without the bounds of an instance.
Typed ==
    /\ now \in Windows
    /\ count \in [Keys -> Nat]
    /\ hits \in [Keys -> Nat]
    /\ granted \in [Keys -> Nat]
    /\ request \in [Requests -> RequestRow]
    /\ \A r \in Requests : Running(r) =>
          /\ request[r].todo # <<>>
          /\ request[r].window <= now /\ now <= request[r].window + KeepWindows

\* A row that a running request may still count in has not been deleted.
CountsKept ==
    \A k \in Keys : now <= k[2] + KeepWindows => count[k] = hits[k]

\* A row has one owner at a time, who has read what it holds.
OwnersAgree ==
    \A r \in Requests :
        /\ Running(r) /\ request[r].at \in {"locked", "inserted"} =>
              request[r].seen = count[Current(r)]
        /\ Running(r) /\ request[r].retry => count[Current(r)] > 0
        /\ request[r].at = "missing" => ~request[r].retry

OneOwner ==
    \A r, q \in Requests, k \in Keys : Owns(r, k) /\ Owns(q, k) => r = q

LimiterInv == CountsKept /\ OwnersAgree /\ OneOwner /\ RetrySucceeds

-----------------------------------------------------------------------------
(* Types. *)

LEMMA CallType == \A call \in Calls : call \in Seq(Buckets) /\ call # <<>>
<1>1. \A i \in Ips : Bucket("ip", i) \in Buckets
  BY DEF Buckets
<1>2. \A k \in ApiKeys : Bucket("api_key", k) \in Buckets /\ Bucket("invoice_create", k) \in Buckets
  BY DEF Buckets
<1>3. \A i \in Ips : AnyCall(i) \in Seq(Buckets) /\ AnyCall(i) # <<>>
  BY <1>1 DEF AnyCall
<1>4. \A i \in Ips, k \in ApiKeys : KeyedCall(i, k) \in Seq(Buckets) /\ KeyedCall(i, k) # <<>>
  BY <1>2, <1>3 DEF KeyedCall
<1>5. \A i \in Ips, k \in ApiKeys : Creation(i, k) \in Seq(Buckets) /\ Creation(i, k) # <<>>
  BY <1>2, <1>4 DEF Creation
<1> QED BY <1>3, <1>4, <1>5 DEF Calls

LEMMA CurrentType ==
    ASSUME Typed, NEW r \in Requests, Running(r)
    PROVE  /\ Current(r) \in Keys
           /\ Current(r) = <<Current(r)[1], Current(r)[2]>>
           /\ Current(r)[1] \in Buckets /\ Current(r)[2] = request[r].window
           /\ Current(r)[2] \in Windows
           /\ request[r] \in RequestRow
<1>1. /\ request[r] \in RequestRow /\ request[r].todo \in Seq(Buckets)
      /\ request[r].todo # <<>> /\ request[r].window \in Windows
  BY DEF Typed, RequestRow
<1>2. Head(request[r].todo) \in Buckets
  BY <1>1
<1> QED BY <1>1, <1>2 DEF Current, Keys

LEMMA IdleType == Idle \in RequestRow /\ Idle.at = "idle" /\ Idle.retry = FALSE
<1>1. 0 \in Windows
  BY LimiterAssumption DEF LimiterAssumption, Windows
<1> QED BY <1>1 DEF Idle, RequestRow, Steps
\* What a step makes of a request that goes on with the same bucket.
Moves(r, row) ==
    /\ row \in RequestRow
    /\ row.todo = request[r].todo /\ row.window = request[r].window
    /\ request' = [request EXCEPT ![r] = row]
    /\ UNCHANGED <<now, count, hits, granted>>

\* A request begins with a bucket, or is over.
Begins(r, row) ==
    /\ row \in RequestRow /\ row.retry = FALSE
    /\ \/ row.at = "idle"
       \/ row.at = "read" /\ row.window = now /\ row.todo # <<>>
    /\ request' = [request EXCEPT ![r] = row]

LEMMA BeginRow ==
    ASSUME Typed, NEW call \in Seq(Buckets), call # <<>>,
           NEW row, row = [Idle EXCEPT !.at = "read", !.todo = call, !.window = now]
    PROVE  /\ row \in RequestRow /\ row.retry = FALSE
           /\ row.at = "read" /\ row.window = now /\ row.todo # <<>>
BY DEF Typed, Idle, RequestRow, Steps

LEMMA ArriveBegins ==
    ASSUME Typed, NEW r \in Requests, NEW call \in Calls, Arrive(r, call)
    PROVE  \E row : Begins(r, row) /\ UNCHANGED <<now, count, hits, granted>>
<1> DEFINE row == [Idle EXCEPT !.at = "read", !.todo = call, !.window = now]
<1>1. /\ row \in RequestRow /\ row.retry = FALSE
      /\ row.at = "read" /\ row.window = now /\ row.todo # <<>>
  BY CallType, BeginRow
<1>2. request' = [request EXCEPT ![r] = row] /\ UNCHANGED <<now, count, hits, granted>>
  BY DEF Arrive
<1> HIDE DEF row
<1> QED BY <1>1, <1>2 DEF Begins

LEMMA FailBegins ==
    ASSUME NEW r \in Requests, Fail(r)
    PROVE  \E row : Begins(r, row) /\ UNCHANGED <<now, count, hits, granted>>
BY IdleType DEF Fail, Abort, Begins

LEMMA SelectMoves ==
    ASSUME Typed, NEW r \in Requests, SelectRow(r)
    PROVE  /\ Running(r)
           /\ \E row : /\ Moves(r, row) /\ row.retry = request[r].retry
                       /\ \/ /\ row.at = "locked" /\ Free(Current(r))
                             /\ row.seen = count[Current(r)]
                          \/ row.at = "missing" /\ count[Current(r)] = 0
<1>1. Running(r) /\ request[r].at = "read"
  BY DEF SelectRow, Running
<1>2. request[r] \in RequestRow /\ count[Current(r)] \in Nat
  BY <1>1, CurrentType DEF Typed
<1>3. CASE /\ Lockable(Current(r))
           /\ request' = [request EXCEPT ![r].at = "locked", ![r].seen = count[Current(r)]]
  <2> DEFINE row == [request[r] EXCEPT !.at = "locked", !.seen = count[Current(r)]]
  <2>1. /\ row \in RequestRow /\ row.todo = request[r].todo /\ row.window = request[r].window
        /\ row.at = "locked" /\ row.seen = count[Current(r)] /\ row.retry = request[r].retry
    BY <1>2 DEF RequestRow, Steps
  <2>2. request' = [request EXCEPT ![r] = row]
    BY <1>3
  <2> HIDE DEF row
  <2> QED BY <1>1, <1>3, <2>1, <2>2 DEF SelectRow, Moves, Lockable
<1>4. CASE /\ count[Current(r)] = 0
           /\ request' = [request EXCEPT ![r].at = "missing"]
  <2> DEFINE row == [request[r] EXCEPT !.at = "missing"]
  <2>1. /\ row \in RequestRow /\ row.todo = request[r].todo /\ row.window = request[r].window
        /\ row.at = "missing" /\ row.retry = request[r].retry
    BY <1>2 DEF RequestRow, Steps
  <2>2. request' = [request EXCEPT ![r] = row]
    BY <1>4
  <2> HIDE DEF row
  <2> QED BY <1>1, <1>4, <2>1, <2>2 DEF SelectRow, Moves
<1> QED BY <1>3, <1>4 DEF SelectRow

LEMMA InsertMoves ==
    ASSUME Typed, OwnersAgree, NEW r \in Requests, InsertRow(r)
    PROVE  /\ Running(r)
           /\ \E row : /\ Moves(r, row)
                       /\ \/ /\ row.at = "inserted" /\ Free(Current(r)) /\ row.retry = FALSE
                             /\ row.seen = 0 /\ count[Current(r)] = 0
                          \/ row.at = "read" /\ count[Current(r)] > 0
<1>1. Running(r) /\ request[r].at = "missing"
  BY DEF InsertRow, Running
<1>2. request[r] \in RequestRow /\ count[Current(r)] \in Nat
  BY <1>1, CurrentType DEF Typed
<1>3. request[r].retry = FALSE
  BY <1>1, <1>2 DEF OwnersAgree, RequestRow
<1>4. CASE count[Current(r)] = 0
  <2> DEFINE row == [request[r] EXCEPT !.at = "inserted", !.seen = 0]
  <2>1. /\ row \in RequestRow /\ row.todo = request[r].todo /\ row.window = request[r].window
        /\ row.at = "inserted" /\ row.seen = 0 /\ row.retry = FALSE
    BY <1>2, <1>3 DEF RequestRow, Steps
  <2>2. request' = [request EXCEPT ![r] = row]
    BY <1>4 DEF InsertRow
  <2> HIDE DEF row
  <2> QED BY <1>1, <1>4, <2>1, <2>2 DEF InsertRow, Moves
<1>5. CASE count[Current(r)] # 0
  <2> DEFINE row == [request[r] EXCEPT !.at = "read", !.retry = TRUE]
  <2>1. /\ row \in RequestRow /\ row.todo = request[r].todo /\ row.window = request[r].window
        /\ row.at = "read"
    BY <1>2 DEF RequestRow, Steps
  <2>2. request' = [request EXCEPT ![r] = row]
    BY <1>3, <1>5 DEF InsertRow, AfterConflict
  <2> HIDE DEF row
  <2>3. count[Current(r)] > 0
    BY <1>2, <1>5
  <2>4. Moves(r, row)
    BY <2>1, <2>2 DEF InsertRow, Moves
  <2> QED BY <1>1, <2>1, <2>3, <2>4
<1> QED BY <1>4, <1>5

\* A commit counts once more in the current row, and deletes only rows that
\* no running request counts in.
Counts(r) ==
    LET k == Current(r) IN
    /\ Running(r) /\ request[r].at \in {"locked", "inserted"}
    /\ count' \in [Keys -> Nat]
    /\ count'[k] = count[k] + 1
    /\ \A x \in Keys : x # k => count'[x] \in {0, count[x]}
    /\ \A x \in Keys : x # k /\ now <= x[2] + KeepWindows => count'[x] = count[x]
    /\ hits' = [hits EXCEPT ![k] = @ + 1]
    /\ granted' = IF count[k] + 1 > Limit[k[1]] THEN granted ELSE [granted EXCEPT ![k] = @ + 1]
    /\ UNCHANGED now

LEMMA CommitCounts ==
    ASSUME LimiterAssumption, Typed, OwnersAgree, NEW r \in Requests, CommitCount(r)
    PROVE  Counts(r) /\ \E row : Begins(r, row)
<1> DEFINE k == Current(r)
           c == request[r].seen + 1
           rest == Tail(request[r].todo)
<1>1. Running(r) /\ request[r].at \in {"locked", "inserted"}
  BY DEF CommitCount, Running
<1>2. /\ k \in Keys /\ request[r] \in RequestRow /\ count[k] \in Nat
      /\ request[r].seen = count[k] /\ c = count[k] + 1 /\ c \in Nat
  BY <1>1, CurrentType DEF Typed, OwnersAgree
<1>3. /\ request[r].window \in Nat /\ now \in Nat /\ KeepWindows \in Nat
      /\ request[r].window <= now
  BY <1>1, <1>2 DEF Typed, RequestRow, Windows, LimiterAssumption
<1>4. count' = [x \in Keys |-> IF x = k THEN c
                               ELSE IF Outdated(request[r].window, x[2]) THEN 0 ELSE count[x]]
  BY DEF CommitCount
<1>5. ASSUME NEW x \in Keys, now <= x[2] + KeepWindows
      PROVE  ~Outdated(request[r].window, x[2])
  <2>1. x[2] \in Nat
    BY DEF Keys, Windows
  <2> QED BY <1>3, <1>5, <2>1 DEF Outdated
<1>6. count' \in [Keys -> Nat]
  BY <1>2, <1>4 DEF Typed
<1>7. /\ hits' = [hits EXCEPT ![k] = @ + 1] /\ UNCHANGED now
      /\ granted' = IF c > Limit[k[1]] THEN granted ELSE [granted EXCEPT ![k] = @ + 1]
  BY DEF CommitCount
<1>8. request' = [request EXCEPT ![r] =
          IF rest = <<>> THEN Idle
          ELSE [Idle EXCEPT !.at = "read", !.todo = rest, !.window = now]]
  BY DEF CommitCount
<1>9. rest \in Seq(Buckets)
  BY <1>1, <1>2 DEF Typed, RequestRow
<1> HIDE DEF k, c, rest
<1>10. Counts(r)
  BY <1>1, <1>2, <1>4, <1>5, <1>6, <1>7 DEF Counts, k
<1>11. \E row : Begins(r, row)
  <2>1. CASE rest = <<>>
    BY <1>8, <2>1, IdleType DEF Begins
  <2>2. CASE rest # <<>>
    <3> DEFINE row == [Idle EXCEPT !.at = "read", !.todo = rest, !.window = now]
    <3>1. /\ row \in RequestRow /\ row.retry = FALSE
          /\ row.at = "read" /\ row.window = now /\ row.todo # <<>>
      BY <1>9, <2>2, BeginRow
    <3>2. request' = [request EXCEPT ![r] = row]
      BY <1>8, <2>2
    <3> HIDE DEF row
    <3> QED BY <3>1, <3>2 DEF Begins
  <2> QED BY <2>1, <2>2
<1> QED BY <1>10, <1>11

-----------------------------------------------------------------------------
(* What the steps preserve. *)

LEMMA BeginsKeepRequests ==
    ASSUME Typed, NEW r \in Requests, NEW row, Begins(r, row), now' = now
    PROVE  /\ request' \in [Requests -> RequestRow]
           /\ \A q \in Requests : (Running(q))' =>
                 /\ request'[q].todo # <<>>
                 /\ request'[q].window <= now' /\ now' <= request'[q].window + KeepWindows
<1>1. row \in RequestRow /\ request \in [Requests -> RequestRow] /\ now \in Nat /\ KeepWindows \in Nat
  BY LimiterAssumption DEF Begins, Typed, LimiterAssumption, Windows
<1>2. request' = [request EXCEPT ![r] = row]
  BY DEF Begins
<1>3. request' \in [Requests -> RequestRow]
  BY <1>1, <1>2
<1>4. ASSUME NEW q \in Requests, (Running(q))'
      PROVE  /\ request'[q].todo # <<>>
             /\ request'[q].window <= now' /\ now' <= request'[q].window + KeepWindows
  <2>1. CASE q = r
    <3>1. request'[q] = row /\ row.at # "idle"
      BY <1>1, <1>2, <1>4, <2>1 DEF Running
    <3> QED BY <1>1, <3>1 DEF Begins
  <2>2. CASE q # r
    <3>1. request'[q] = request[q] /\ Running(q)
      BY <1>1, <1>2, <1>4, <2>2 DEF Running
    <3> QED BY <3>1 DEF Typed
  <2> QED BY <2>1, <2>2
<1> QED BY <1>3, <1>4

LEMMA MovesKeepsTypes ==
    ASSUME Typed, NEW r \in Requests, NEW row, Running(r), Moves(r, row)
    PROVE  Typed'
<1>1. /\ row \in RequestRow /\ request \in [Requests -> RequestRow]
      /\ request' = [request EXCEPT ![r] = row] /\ UNCHANGED <<now, count, hits, granted>>
      /\ row.todo = request[r].todo /\ row.window = request[r].window
  BY DEF Moves, Typed
<1>2. request' \in [Requests -> RequestRow]
  BY <1>1
<1>3. ASSUME NEW q \in Requests, (Running(q))'
      PROVE  /\ request'[q].todo # <<>>
             /\ request'[q].window <= now' /\ now' <= request'[q].window + KeepWindows
  <2>1. Running(q) /\ request'[q].todo = request[q].todo /\ request'[q].window = request[q].window
    BY <1>1, <1>3 DEF Running
  <2> QED BY <1>1, <2>1 DEF Typed
<1> QED BY <1>1, <1>2, <1>3 DEF Typed

LEMMA CountsKeepsTypes ==
    ASSUME Typed, NEW r \in Requests, NEW row, Counts(r), Begins(r, row)
    PROVE  Typed'
<1>1. Current(r) \in Keys
  BY CurrentType DEF Counts
<1>2. count' \in [Keys -> Nat] /\ now' = now
  BY DEF Counts
<1>3. hits' \in [Keys -> Nat]
  BY <1>1 DEF Counts, Typed
<1>4. granted' \in [Keys -> Nat]
  BY <1>1 DEF Counts, Typed
<1> QED BY <1>2, <1>3, <1>4, BeginsKeepRequests DEF Typed

\* Whoever goes on counts in a row of its own; for the others the row they
\* own is unchanged and a row they know of stays.
LEMMA BeginsKeepsOwners ==
    ASSUME Typed, OwnersAgree, OneOwner, RetrySucceeds,
           NEW r \in Requests, NEW row, Begins(r, row),
           \A q \in Requests : q # r /\ Running(q) =>
              /\ request[q].at \in {"locked", "inserted"} => count'[Current(q)] = count[Current(q)]
              /\ count[Current(q)] > 0 => count'[Current(q)] > 0
    PROVE  (OwnersAgree /\ OneOwner /\ RetrySucceeds)'
<1>1. /\ request \in [Requests -> RequestRow] /\ request' = [request EXCEPT ![r] = row]
      /\ row \in RequestRow /\ row.retry = FALSE /\ row.at \in {"idle", "read"}
  BY DEF Typed, Begins
<1>2. request'[r] = row
  BY <1>1
<1>3. \A q \in Requests : q # r => request'[q] = request[q] /\ (Current(q))' = Current(q)
  BY <1>1 DEF Current
<1>4. ASSUME NEW q \in Requests
      PROVE  /\ (Running(q))' /\ request'[q].at \in {"locked", "inserted"} =>
                   request'[q].seen = count'[(Current(q))']
             /\ (Running(q))' /\ request'[q].retry => count'[(Current(q))'] > 0
             /\ request'[q].at = "missing" => ~request'[q].retry
  <2>1. CASE q = r
    BY <1>1, <1>2, <2>1
  <2>2. CASE q # r
    <3>1. request'[q] = request[q] /\ (Current(q))' = Current(q) /\ ((Running(q))' => Running(q))
      BY <1>3, <2>2 DEF Running
    <3> QED BY <2>2, <3>1 DEF OwnersAgree
  <2> QED BY <2>1, <2>2
<1>5. OwnersAgree'
  BY <1>4 DEF OwnersAgree
<1>6. \A q \in Requests, k \in Keys : (Owns(q, k))' => q # r /\ Owns(q, k)
  BY <1>1, <1>2, <1>3 DEF Owns, Running
<1>7. OneOwner'
  BY <1>6 DEF OneOwner
<1>8. RetrySucceeds'
  BY <1>1, <1>2, <1>3 DEF RetrySucceeds
<1> QED BY <1>5, <1>7, <1>8

LEMMA MovesKeepsOwners ==
    ASSUME Typed, LimiterInv, NEW r \in Requests, NEW row, Running(r), Moves(r, row),
           \/ /\ row.at \in {"locked", "inserted"} /\ Free(Current(r))
              /\ row.seen = count[Current(r)]
              /\ row.retry = TRUE => request[r].retry = TRUE
           \/ row.at = "missing" /\ row.retry = FALSE
           \/ row.at = "read" /\ count[Current(r)] > 0
    PROVE  LimiterInv'
<1>1. /\ request \in [Requests -> RequestRow] /\ request' = [request EXCEPT ![r] = row]
      /\ row \in RequestRow /\ row.todo = request[r].todo /\ row.window = request[r].window
      /\ UNCHANGED <<now, count, hits, granted>>
  BY DEF Typed, Moves
<1>2. request'[r] = row /\ \A q \in Requests : q # r => request'[q] = request[q]
  BY <1>1
<1>3. \A q \in Requests : (Current(q))' = Current(q)
  BY <1>1, <1>2 DEF Current
<1>4. CountsKept'
  BY <1>1 DEF LimiterInv, CountsKept
<1>5. ASSUME NEW q \in Requests
      PROVE  /\ (Running(q))' /\ request'[q].at \in {"locked", "inserted"} =>
                   request'[q].seen = count'[(Current(q))']
             /\ (Running(q))' /\ request'[q].retry => count'[(Current(q))'] > 0
             /\ request'[q].at = "missing" => ~request'[q].retry
  <2>1. CASE q = r
    <3>1. row.retry \in BOOLEAN /\ request[r].retry \in BOOLEAN
      BY <1>1 DEF RequestRow
    <3> QED BY <1>1, <1>2, <1>3, <2>1, <3>1 DEF LimiterInv, OwnersAgree
  <2>2. CASE q # r
    BY <1>1, <1>2, <1>3, <2>2 DEF LimiterInv, OwnersAgree, Running
  <2> QED BY <2>1, <2>2
<1>6. OwnersAgree'
  BY <1>5 DEF OwnersAgree
<1>7. ASSUME NEW p \in Requests, NEW q \in Requests, NEW k \in Keys, (Owns(p, k))', (Owns(q, k))'
      PROVE  p = q
  <2>1. \A o \in Requests : o # r /\ (Owns(o, k))' => Owns(o, k)
    BY <1>2, <1>3 DEF Owns, Running
  <2>2. (Owns(r, k))' => Free(k)
    BY <1>2, <1>3 DEF Owns
  <2> QED BY <1>7, <2>1, <2>2 DEF Free, LimiterInv, OneOwner
<1>8. OneOwner'
  BY <1>7 DEF OneOwner
<1>9. RetrySucceeds'
  BY <1>1, <1>2 DEF LimiterInv, RetrySucceeds
<1> QED BY <1>4, <1>6, <1>8, <1>9 DEF LimiterInv

LEMMA CountsKeepsOwners ==
    ASSUME Typed, LimiterInv, NEW r \in Requests, NEW row, Counts(r), Begins(r, row)
    PROVE  LimiterInv'
<1> DEFINE k == Current(r)
<1>1. /\ k \in Keys /\ Running(r) /\ Owns(r, k) /\ now' = now
      /\ hits' = [hits EXCEPT ![k] = @ + 1] /\ count'[k] = count[k] + 1
  BY CurrentType DEF Counts, Owns
<1>2. \A x \in Keys : x # k /\ now <= x[2] + KeepWindows => count'[x] = count[x]
  BY DEF Counts
<1>3. ASSUME NEW q \in Requests, q # r, Running(q)
      PROVE  /\ request[q].at \in {"locked", "inserted"} => count'[Current(q)] = count[Current(q)]
             /\ count[Current(q)] > 0 => count'[Current(q)] > 0
  <2>1. Current(q) \in Keys /\ now <= Current(q)[2] + KeepWindows
    BY <1>3, CurrentType DEF Typed
  <2>2. request[q].at \in {"locked", "inserted"} => Current(q) # k
    BY <1>1, <1>3, <2>1 DEF LimiterInv, OneOwner, Owns
  <2>3. count[k] \in Nat
    BY <1>1 DEF Typed
  <2> QED BY <1>1, <1>2, <2>1, <2>2, <2>3
<1>4. (OwnersAgree /\ OneOwner /\ RetrySucceeds)'
  BY <1>3, BeginsKeepsOwners DEF LimiterInv
<1>5. ASSUME NEW x \in Keys, now' <= x[2] + KeepWindows
      PROVE  count'[x] = hits'[x]
  <2>1. count[x] = hits[x]
    BY <1>1, <1>5 DEF LimiterInv, CountsKept
  <2>2. CASE x = k
    BY <1>1, <2>1, <2>2 DEF Typed
  <2>3. CASE x # k
    BY <1>1, <1>2, <1>5, <2>1, <2>3 DEF Typed
  <2> QED BY <2>2, <2>3
<1> QED BY <1>4, <1>5 DEF LimiterInv, CountsKept

-----------------------------------------------------------------------------
(* The induction. *)

LEMMA NextWindowKeeps ==
    ASSUME Typed, LimiterInv, NextWindow
    PROVE  Typed' /\ LimiterInv' /\ UNCHANGED <<hits, granted>>
<1>1. /\ now' = now + 1 /\ UNCHANGED <<count, request, hits, granted>> /\ now < MaxWindow
      /\ \A r \in Requests : Running(r) => request[r].window + KeepWindows > now
  BY DEF NextWindow
<1>2. now \in Nat /\ KeepWindows \in Nat /\ MaxWindow \in Nat
  BY LimiterAssumption DEF LimiterAssumption, Typed, Windows
<1>3. \A r \in Requests : request[r].window \in Nat
  BY DEF Typed, RequestRow, Windows
<1>4. now' \in Windows
  BY <1>1, <1>2 DEF Windows
<1>5. \A r \in Requests : (Running(r))' =>
          /\ request'[r].todo # <<>>
          /\ request'[r].window <= now' /\ now' <= request'[r].window + KeepWindows
  BY <1>1, <1>2, <1>3 DEF Typed, Running
<1>6. Typed'
  BY <1>1, <1>4, <1>5 DEF Typed
<1>7. CountsKept'
  <2>1. \A k \in Keys : k[2] \in Nat
    BY DEF Keys, Windows
  <2> QED BY <1>1, <1>2, <2>1 DEF LimiterInv, CountsKept
<1>8. (OwnersAgree /\ OneOwner /\ RetrySucceeds)'
  BY <1>1 DEF LimiterInv, OwnersAgree, OneOwner, RetrySucceeds, Owns, Running, Current
<1> QED BY <1>1, <1>6, <1>7, <1>8 DEF LimiterInv

LEMMA StutterKeeps ==
    ASSUME Typed, LimiterInv, UNCHANGED limiterVars
    PROVE  Typed' /\ LimiterInv' /\ UNCHANGED <<hits, granted>>
BY DEF limiterVars, Typed, LimiterInv, CountsKept, OwnersAgree, OneOwner, RetrySucceeds,
       Owns, Running, Current

LEMMA BeginsKeeps ==
    ASSUME Typed, LimiterInv, NEW r \in Requests, NEW row, Begins(r, row),
           UNCHANGED <<now, count, hits, granted>>
    PROVE  Typed' /\ LimiterInv'
<1>1. Typed'
  BY BeginsKeepRequests DEF Typed
<1>2. (OwnersAgree /\ OneOwner /\ RetrySucceeds)'
  BY BeginsKeepsOwners DEF LimiterInv
<1>3. CountsKept'
  BY DEF LimiterInv, CountsKept
<1> QED BY <1>1, <1>2, <1>3 DEF LimiterInv

\* Every commit consumes one unit of the quota, nothing else does.
LEMMA CountsConsume ==
    ASSUME Typed, LimiterInv, NEW r \in Requests, Counts(r)
    PROVE  FW!Next
<1> DEFINE b == Current(r)[1]
           w == Current(r)[2]
<1>1. /\ Current(r) \in Keys /\ Current(r) = <<b, w>> /\ b \in Buckets /\ w \in Windows
      /\ now <= w + KeepWindows
  BY CurrentType DEF Counts, Typed
<1>2. count[<<b, w>>] = hits[<<b, w>>] /\ hits[<<b, w>>] \in Nat
  <2>1. <<b, w>> \in Keys /\ <<b, w>>[2] = w
    BY <1>1
  <2> QED BY <1>1, <2>1 DEF LimiterInv, CountsKept, Typed
<1>3. Limit[b] \in Nat
  BY <1>1, LimiterAssumption DEF Limit, Buckets, Bucket, LimiterAssumption
<1>4. /\ hits' = [hits EXCEPT ![<<b, w>>] = @ + 1]
      /\ granted' = IF count[<<b, w>>] + 1 > Limit[b] THEN granted
                    ELSE [granted EXCEPT ![<<b, w>>] = @ + 1]
  BY <1>1 DEF Counts
<1> HIDE DEF b, w
<1>5. hits' = [hits EXCEPT ![<<b, w>>] = hits[<<b, w>>] + 1]
  BY <1>4
<1>6. granted' = IF hits[<<b, w>>] + 1 <= Limit[b] THEN [granted EXCEPT ![<<b, w>>] = @ + 1]
                 ELSE granted
  BY <1>2, <1>3, <1>4
<1>7. FW!Consume(b, w)
  BY <1>5, <1>6 DEF FW!Consume
<1> QED BY <1>1, <1>7 DEF FW!Next

LEMMA LimiterStep ==
    ASSUME Typed, LimiterInv, [LimiterNext]_limiterVars
    PROVE  Typed' /\ LimiterInv' /\ [FW!Next]_<<hits, granted>>
<1>1. ASSUME NEW r \in Requests, NEW call \in Calls, Arrive(r, call)
      PROVE  Typed' /\ LimiterInv' /\ UNCHANGED <<hits, granted>>
  <2>1. PICK row : Begins(r, row) /\ UNCHANGED <<now, count, hits, granted>>
    BY <1>1, ArriveBegins
  <2> QED BY <2>1, BeginsKeeps
<1>2. ASSUME NEW r \in Requests, Fail(r)
      PROVE  Typed' /\ LimiterInv' /\ UNCHANGED <<hits, granted>>
  <2>1. PICK row : Begins(r, row) /\ UNCHANGED <<now, count, hits, granted>>
    BY <1>2, FailBegins
  <2> QED BY <2>1, BeginsKeeps
<1>3. ASSUME NEW r \in Requests, SelectRow(r)
      PROVE  Typed' /\ LimiterInv' /\ UNCHANGED <<hits, granted>>
  <2>1. PICK row : /\ Moves(r, row) /\ row.retry = request[r].retry
                   /\ \/ /\ row.at = "locked" /\ Free(Current(r))
                         /\ row.seen = count[Current(r)]
                      \/ row.at = "missing" /\ count[Current(r)] = 0
    BY <1>3, SelectMoves
  <2>2. Running(r) /\ request[r] \in RequestRow
    BY <1>3, SelectMoves DEF Typed
  <2>3. row.at = "missing" => row.retry = FALSE
    BY <2>1, <2>2 DEF LimiterInv, OwnersAgree, RequestRow
  <2>4. Typed'
    BY <2>1, <2>2, MovesKeepsTypes
  <2>5. LimiterInv'
    BY <2>1, <2>2, <2>3, MovesKeepsOwners
  <2> QED BY <2>1, <2>4, <2>5 DEF Moves
<1>4. ASSUME NEW r \in Requests, InsertRow(r)
      PROVE  Typed' /\ LimiterInv' /\ UNCHANGED <<hits, granted>>
  <2>1. PICK row : /\ Moves(r, row)
                   /\ \/ /\ row.at = "inserted" /\ Free(Current(r)) /\ row.retry = FALSE
                         /\ row.seen = 0 /\ count[Current(r)] = 0
                      \/ row.at = "read" /\ count[Current(r)] > 0
    BY <1>4, InsertMoves DEF LimiterInv
  <2>2. Running(r)
    BY <1>4, InsertMoves DEF LimiterInv
  <2>3. Typed'
    BY <2>1, <2>2, MovesKeepsTypes
  <2>4. LimiterInv'
    BY <2>1, <2>2, MovesKeepsOwners
  <2> QED BY <2>1, <2>3, <2>4 DEF Moves
<1>5. ASSUME NEW r \in Requests, CommitCount(r)
      PROVE  Typed' /\ LimiterInv' /\ FW!Next
  <2>1. Counts(r) /\ \E row : Begins(r, row)
    BY <1>5, CommitCounts, LimiterAssumption DEF LimiterInv
  <2>2. PICK row : Begins(r, row)
    BY <2>1
  <2> QED BY <2>1, <2>2, CountsKeepsTypes, CountsKeepsOwners, CountsConsume
<1> QED BY <1>1, <1>2, <1>3, <1>4, <1>5, NextWindowKeeps, StutterKeeps
        DEF LimiterNext, Advance

LEMMA LimiterStart == LimiterInit => Typed /\ LimiterInv /\ FW!Init
<1> SUFFICES ASSUME LimiterInit
             PROVE  Typed /\ LimiterInv /\ FW!Init
  OBVIOUS
<1>1. 0 \in Windows
  BY LimiterAssumption DEF LimiterAssumption, Windows
<1>2. \A r \in Requests : request[r] = Idle
  BY DEF LimiterInit
<1>3. \A r \in Requests : request[r].at = "idle" /\ ~Running(r)
  BY <1>2, IdleType DEF Running
<1>4. Typed
  BY <1>1, <1>3, IdleType DEF LimiterInit, Typed
<1>5. CountsKept
  BY DEF LimiterInit, CountsKept, Keys
<1>6. OwnersAgree /\ OneOwner /\ RetrySucceeds
  BY <1>3 DEF OwnersAgree, OneOwner, Owns, RetrySucceeds
<1>7. FW!Init
  BY DEF LimiterInit, FW!Init, Keys
<1> QED BY <1>4, <1>5, <1>6, <1>7 DEF LimiterInv

\* The rows allow exactly what a counter under a lock allows, however the
\* requests that share them collide, retry, fail and clean up.
THEOREM LimiterKeepsQuota == LimiterSpec => KeepsQuota
<1>1. Typed /\ LimiterInv /\ [LimiterNext]_limiterVars
        => Typed' /\ LimiterInv' /\ [FW!Next]_<<hits, granted>>
  BY LimiterStep
<1> QED BY <1>1, LimiterStart, PTL DEF LimiterSpec, KeepsQuota, FW!Spec

\* A request whose INSERT collided finds the row on its second attempt.
THEOREM RetriesSucceed == LimiterSpec => []RetrySucceeds
<1>1. Typed /\ LimiterInv /\ [LimiterNext]_limiterVars => Typed' /\ LimiterInv'
  BY LimiterStep
<1>2. LimiterInv => RetrySucceeds
  BY DEF LimiterInv
<1> QED BY <1>1, <1>2, LimiterStart, PTL DEF LimiterSpec

-----------------------------------------------------------------------------
(* The types the runs check. *)

\* What is stored and what is allowed never exceed what was consumed.
WithinHits == \A k \in Keys : count[k] <= hits[k] /\ granted[k] <= hits[k]

LEMMA CountsKeepWithinHits ==
    ASSUME Typed, LimiterInv, WithinHits, NEW r \in Requests, Counts(r)
    PROVE  WithinHits'
<1> DEFINE k == Current(r)
<1>1. /\ k \in Keys /\ count[k] \in Nat /\ hits[k] \in Nat
      /\ hits' = [hits EXCEPT ![k] = @ + 1] /\ count'[k] = count[k] + 1
  BY CurrentType DEF Counts, Typed
<1>2. \A x \in Keys : x # k => hits'[x] = hits[x] /\ count'[x] \in {0, count[x]}
  BY <1>1 DEF Counts, Typed
<1>3. hits'[k] = hits[k] + 1
  BY <1>1 DEF Typed
<1>4. \A x \in Keys : granted'[x] = granted[x] \/ (x = k /\ granted'[x] = granted[x] + 1)
  BY <1>1 DEF Counts, Typed
<1> HIDE DEF k
<1>5. ASSUME NEW x \in Keys
      PROVE  count'[x] <= hits'[x] /\ granted'[x] <= hits'[x]
  <2>1. count[x] \in Nat /\ hits[x] \in Nat /\ granted[x] \in Nat
        /\ count[x] <= hits[x] /\ granted[x] <= hits[x]
    BY DEF Typed, WithinHits
  <2>2. CASE x = k
    BY <1>1, <1>3, <1>4, <2>1, <2>2
  <2>3. CASE x # k
    BY <1>2, <1>4, <2>1, <2>3
  <2> QED BY <2>2, <2>3
<1> QED BY <1>5 DEF WithinHits

LEMMA WithinHitsStep ==
    ASSUME Typed, LimiterInv, WithinHits, [LimiterNext]_limiterVars
    PROVE  WithinHits'
<1>1. CASE UNCHANGED <<count, hits, granted>>
  BY <1>1 DEF WithinHits
<1>2. ASSUME NEW r \in Requests, CommitCount(r)
      PROVE  WithinHits'
  <2>1. Counts(r)
    BY <1>2, CommitCounts, LimiterAssumption DEF LimiterInv
  <2> QED BY <2>1, CountsKeepWithinHits
<1> QED BY <1>1, <1>2
        DEF LimiterNext, Arrive, Advance, SelectRow, InsertRow, Fail, Abort, NextWindow, limiterVars

\* The counters of a row, of the quota and of its history are numbers in the
\* right order, and a row locked by SELECT ... FOR UPDATE is still there and
\* unchanged when its owner writes it.
THEOREM LimiterTypeCorrect == LimiterSpec => []LimiterTypeOK
<1>1. LimiterInit => WithinHits
  BY DEF LimiterInit, WithinHits
<1>2. Typed /\ LimiterInv /\ WithinHits /\ [LimiterNext]_limiterVars
        => Typed' /\ LimiterInv' /\ WithinHits'
  BY LimiterStep, WithinHitsStep
<1>3. Typed /\ LimiterInv /\ WithinHits => LimiterTypeOK
  <2> SUFFICES ASSUME Typed, LimiterInv, WithinHits
               PROVE  LimiterTypeOK
    OBVIOUS
  <2>1. ASSUME NEW r \in Requests
        PROVE  /\ request[r].at \in Steps
               /\ request[r].at = "locked" => count[Current(r)] = request[r].seen
    <3>1. request[r].at \in Steps
      BY DEF Typed, RequestRow
    <3>2. ASSUME request[r].at = "locked"
          PROVE  count[Current(r)] = request[r].seen
      BY <3>2 DEF Running, LimiterInv, OwnersAgree
    <3> QED BY <3>1, <3>2
  <2> QED BY <2>1 DEF LimiterTypeOK, Typed, WithinHits
<1> QED BY <1>1, <1>2, <1>3, LimiterStart, PTL DEF LimiterSpec
=============================================================================
