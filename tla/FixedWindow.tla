----------------------------- MODULE FixedWindow -----------------------------
(***************************************************************************)
(* What a quota promises: of the consumptions of a bucket in one window of *)
(* sixty seconds the first Limit are allowed and all later ones refused.   *)
(* This is FixedWindowRateLimiter, the limiter that keeps its counts in    *)
(* memory and takes a lock around each; RateLimiter keeps them in the      *)
(* database, shared by all processes, and implements this module.          *)
(***************************************************************************)
EXTENDS Naturals

CONSTANTS
    Buckets,    \* pairs of a scope and an identity
    Windows,    \* int(time.time() // 60)
    Limit       \* [Buckets -> Nat]

VARIABLES
    counts,     \* [Buckets \X Windows -> Nat]: the consumptions of a window
    allowed     \* [Buckets \X Windows -> Nat]: how many were told they may pass

Init ==
    /\ counts = [k \in Buckets \X Windows |-> 0]
    /\ allowed = [k \in Buckets \X Windows |-> 0]

\* One call of _consume: count first, then compare.
Consume(b, w) ==
    LET count == counts[<<b, w>>] + 1 IN
    /\ counts' = [counts EXCEPT ![<<b, w>>] = count]
    /\ allowed' = IF count <= Limit[b] THEN [allowed EXCEPT ![<<b, w>>] = @ + 1] ELSE allowed

Next == \E b \in Buckets, w \in Windows : Consume(b, w)

Spec == Init /\ [][Next]_<<counts, allowed>>
=============================================================================
