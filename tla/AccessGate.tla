----------------------------- MODULE AccessGate -----------------------------
(***************************************************************************)
(* The gate before the bot's handlers: membership of required channels and *)
(* a verified phone number, for one user who is not the administrator.     *)
(*                                                                         *)
(* An update reads the settings and then asks Telegram about one channel   *)
(* after another, unless an answer for this list of channels is cached;    *)
(* meanwhile other updates of the user are checked, the user joins and     *)
(* leaves channels, and the administrator changes the list.  The settings  *)
(* handlers are run one at a time: there is one administrator.             *)
(*                                                                         *)
(* Instead of a clock the model keeps how long ago things were and how     *)
(* long a cached answer is still good.  A decision and the start of the    *)
(* handler have no wait, so no time, between them.                         *)
(***************************************************************************)
EXTENDS Naturals, FiniteSets

CONSTANTS
    Channels,
    Checks,     \* updates checked at one time
    Ttl,        \* _MEMBERSHIP_CACHE_SECONDS
    MaxAge      \* bound: how long a check may last

ASSUME AccessAssumption == Ttl \in Nat \ {0} /\ MaxAge \in Nat /\ MaxAge >= Ttl

VARIABLES
    forceJoin, phoneNeeded, required,   \* the three settings
    verified,   \* phone_verified_at is set
    cache,      \* _MEMBERSHIP_CACHE for this user, by list of channels
    check,      \* [Checks -> Check]
    seen        \* history: how long ago Telegram said the user is in a channel

accessVars == <<forceJoin, phoneNeeded, required, verified, cache, check, seen>>

\* What an update is: an ordinary one, the button "access:check", /start, or
\* a contact, that is, the user's phone number.
UpdateKinds == {"ordinary", "access:check", "/start", "contact"}
Refreshes(kind) == kind # "ordinary"

Steps == {"idle", "asking", "allowed", "refused"}
Idle == [at |-> "idle", contact |-> FALSE, list |-> {}, age |-> 0, todo |-> {},
         missing |-> {}, phoneDue |-> FALSE]

LongAgo == MaxAge + 1
NoEntry == [left |-> 0, missing |-> {}]
EmptyCache == [list \in SUBSET Channels |-> NoEntry]

AccessInit ==
    /\ forceJoin = FALSE /\ phoneNeeded \in BOOLEAN /\ required = {}
    /\ verified = FALSE
    /\ cache = EmptyCache
    /\ check = [t \in Checks |-> Idle]
    /\ seen = [c \in Channels |-> LongAgo]

-----------------------------------------------------------------------------
(* The settings of the administrator *)

settingVars == <<forceJoin, phoneNeeded, required, cache>>

Settle(force, phone, list) ==
    /\ forceJoin' = force /\ phoneNeeded' = phone /\ required' = list
    /\ UNCHANGED <<verified, check, seen>>

ToggleJoin ==
    /\ forceJoin \/ required # {}
    /\ Settle(~forceJoin, phoneNeeded, required)
    /\ cache' = EmptyCache

TogglePhone == Settle(forceJoin, ~phoneNeeded, required) /\ UNCHANGED cache

AddChannel(c) ==
    /\ Settle(forceJoin, phoneNeeded, required \cup {c})
    /\ cache' = EmptyCache

ForceAfterRemoval_Kept(list) == forceJoin
\* Removing the last channel ends the obligation to join.
ForceAfterRemoval(list) == forceJoin /\ list # {}

RemoveChannel(c) ==
    LET list == required \ {c} IN
    /\ Settle(ForceAfterRemoval(list), phoneNeeded, list)
    /\ cache' = EmptyCache

ResetPhone ==
    /\ verified' = FALSE
    /\ UNCHANGED <<settingVars, check, seen>>

-----------------------------------------------------------------------------
(* evaluate_access *)

Proceed(t, c) == check' = [check EXCEPT ![t] = c]

\* Missing channels refuse; then a number that is due.
Decide(c) ==
    [c EXCEPT !.todo = {}, !.at = IF c.missing # {} \/ c.phoneDue THEN "refused" ELSE "allowed"]

\* (user_id, signature of the channels)
CacheKey(list) == list

\* The merchant and the settings are read and the cache is consulted, which
\* "access:check" has emptied for this user. A contact brings the number.
Arrive(t, kind) ==
    LET list  == IF forceJoin THEN required ELSE {}
        entry == cache[CacheKey(list)]
        c     == [Idle EXCEPT !.contact = (kind = "contact"), !.list = list,
                              !.phoneDue = phoneNeeded /\ ~verified /\ kind # "contact"]
    IN
    /\ check[t] = Idle
    /\ Proceed(t,
         IF list = {} THEN Decide(c)
         ELSE IF ~Refreshes(kind) /\ entry.left > 0
           THEN Decide([c EXCEPT !.missing = entry.missing \cap list])
           ELSE [c EXCEPT !.at = "asking", !.todo = list])
    /\ cache' = IF kind = "access:check" THEN EmptyCache ELSE cache
    /\ UNCHANGED <<forceJoin, phoneNeeded, required, verified, seen>>

TimeLeft_AfterTheCalls(c) == Ttl
\* The lifetime of an answer begins before the calls to Telegram.
TimeLeft(c) == IF c.age < Ttl THEN Ttl - c.age ELSE 0

Entry(left, missing) == IF left = 0 THEN NoEntry ELSE [left |-> left, missing |-> missing]

\* One get_chat_member; the user may join and leave at any time, and a call
\* that fails counts as not joined. After the last one the answer is cached,
\* in the place of an older or a newer one.
AskTelegram(t, ch) ==
    \E joined \in BOOLEAN :
        LET missing == check[t].missing \cup (IF joined THEN {} ELSE {ch})
            c == [check[t] EXCEPT !.todo = @ \ {ch}, !.missing = missing]
            last == c.todo = {}
        IN
        /\ check[t].at = "asking" /\ ch \in check[t].todo
        /\ seen' = IF joined THEN [seen EXCEPT ![ch] = 0] ELSE seen
        /\ Proceed(t, IF last THEN Decide(c) ELSE c)
        /\ cache' = IF last THEN [cache EXCEPT ![CacheKey(c.list)] = Entry(TimeLeft(c), missing)]
                    ELSE cache
        /\ UNCHANGED <<forceJoin, phoneNeeded, required, verified>>

\* An update that is allowed: its handler starts, the panel is shown, or the
\* phone number, if it is the user's own and well-formed, is stored.
Enter(t) ==
    /\ check[t].at = "allowed"
    /\ verified' \in {verified, verified \/ check[t].contact}
    /\ Proceed(t, Idle)
    /\ UNCHANGED <<settingVars, seen>>

Prompt(t) ==
    /\ check[t].at = "refused"
    /\ Proceed(t, Idle)
    /\ UNCHANGED <<settingVars, verified, seen>>

\* Time passes; an entry that has expired is as good as none.
Tick ==
    /\ \A t \in Checks : check[t] = Idle \/ (check[t].at = "asking" /\ check[t].age < MaxAge)
    /\ check' = [t \in Checks |->
          IF check[t] = Idle THEN Idle ELSE [check[t] EXCEPT !.age = @ + 1]]
    /\ cache' = [list \in SUBSET Channels |->
          IF cache[list].left = 0 THEN NoEntry
          ELSE Entry(cache[list].left - 1, cache[list].missing)]
    /\ seen' = [c \in Channels |-> IF seen[c] = LongAgo THEN LongAgo ELSE seen[c] + 1]
    /\ UNCHANGED <<forceJoin, phoneNeeded, required, verified>>

AccessNext ==
    \/ ToggleJoin \/ TogglePhone \/ ResetPhone \/ Tick
    \/ \E c \in Channels : AddChannel(c) \/ RemoveChannel(c)
    \/ \E t \in Checks :
          \/ \E kind \in UpdateKinds : Arrive(t, kind)
          \/ Enter(t) \/ Prompt(t)
          \/ \E ch \in Channels : AskTelegram(t, ch)

AccessSpec == AccessInit /\ [][AccessNext]_accessVars

-----------------------------------------------------------------------------
(* Properties *)

\* Types; joining is only enforced while there is a channel to join.
AccessTypeOK ==
    /\ {phoneNeeded, verified, forceJoin} \subseteq BOOLEAN
    /\ required \subseteq Channels /\ (forceJoin => required # {})
    /\ \A list \in SUBSET Channels : cache[list].left \in 0..Ttl /\ cache[list].missing \subseteq list
    /\ \A t \in Checks : check[t].at \in Steps
    /\ seen \in [Channels -> 0..LongAgo]

\* Whoever is let in was seen by Telegram in every channel that was required
\* when the update was read, at most Ttl ago or by this very check: through
\* answers that are cached late and out of order, lists that change, calls
\* that fail or take long, and caches that are emptied while they are filled.
LetInOnlyIfSeen ==
    \A t \in Checks : check[t].at = "allowed" =>
        \A c \in check[t].list : seen[c] <= Ttl \/ seen[c] <= check[t].age
=============================================================================
