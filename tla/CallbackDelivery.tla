-------------------------- MODULE CallbackDelivery --------------------------
(***************************************************************************)
(* What the callback outbox promises of a paid invoice's event: it stays   *)
(* open until the merchant's server has processed it (delivered) or the    *)
(* attempts are used up (failed), and a settled event is opened again only *)
(* by hand.  An event that was queued again while its delivery was under   *)
(* way is disturbed: two deliveries of it may end in either order, and the *)
(* later end stands.                                                       *)
(***************************************************************************)
EXTENDS Naturals

CONSTANT Events

VARIABLES
    state,          \* [Events -> event state]
    received,       \* events the merchant's server has processed
    disturbed,      \* events queued again during a delivery
    reopened        \* number of retries requested by hand

vars == <<state, received, disturbed, reopened>>

Init ==
    /\ state = [e \in Events |-> "none"]
    /\ received = {}
    /\ disturbed = {}
    /\ reopened = 0

Open(e) ==
    /\ state[e] = "none"
    /\ state' = [state EXCEPT ![e] = "open"]
    /\ UNCHANGED <<received, disturbed, reopened>>

Receive(e) ==
    /\ state[e] = "open" \/ e \in disturbed
    /\ received' = received \cup {e}
    /\ UNCHANGED <<state, disturbed, reopened>>

Ends(e) == {"failed"} \cup (IF e \in received THEN {"delivered"} ELSE {})

Settle(e) ==
    /\ state[e] = "open"
    /\ \E end \in Ends(e) : state' = [state EXCEPT ![e] = end]
    /\ UNCHANGED <<received, disturbed, reopened>>

Overwrite(e) ==
    /\ e \in disturbed /\ state[e] # "none"
    /\ \E end \in Ends(e) \cup {"open"} : state' = [state EXCEPT ![e] = end]
    /\ UNCHANGED <<received, disturbed, reopened>>

Disturb(E) ==
    /\ \A e \in E : state[e] = "open"
    /\ disturbed' = disturbed \cup E
    /\ UNCHANGED <<state, received, reopened>>

Reopen(e) ==
    /\ state[e] # "none"
    /\ state' = [state EXCEPT ![e] = "open"]
    /\ disturbed' \in {disturbed, disturbed \cup {e}}
    /\ reopened' = reopened + 1
    /\ UNCHANGED received

Next ==
    \/ \E e \in Events : Open(e) \/ Receive(e) \/ Settle(e) \/ Overwrite(e) \/ Reopen(e)
    \/ \E E \in SUBSET Events : Disturb(E)

Spec == Init /\ [][Next]_vars
=============================================================================
