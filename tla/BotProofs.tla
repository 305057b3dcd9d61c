------------------------------ MODULE BotProofs ------------------------------
(***************************************************************************)
(* The Telegram bot. Whoever the gate lets in was seen in every required   *)
(* channel, for every set of channels, any number of overlapping checks    *)
(* and every lifetime of the cache. And what a conversation ends with is   *)
(* the form the user filled in, once for each preview: for any choice of   *)
(* forms, any number of them and any number of taps handled at one time.   *)
(***************************************************************************)
EXTENDS AccessGate, Dialogues, TLAPS, FiniteSetTheorems

-----------------------------------------------------------------------------
(* The access gate. *)

\* A check's own record, whatever it has done so far.
CheckRecord ==
    [at : Steps, contact : BOOLEAN, list : SUBSET Channels, age : 0..MaxAge,
     todo : SUBSET Channels, missing : SUBSET Channels, phoneDue : BOOLEAN]

CheckRow == {c \in CheckRecord : c.todo \subseteq c.list /\ c.missing \subseteq c.list}

CacheRow == [left : 0..Ttl, missing : SUBSET Channels]

TypeInv ==
    /\ AccessTypeOK
    /\ cache \in [SUBSET Channels -> CacheRow]
    /\ check \in [Checks -> CheckRow]

\* An answer in the cache was true when its lifetime began.
CacheIsTrue ==
    \A list \in SUBSET Channels : cache[list].left > 0 =>
        \A c \in list \ cache[list].missing : seen[c] + cache[list].left <= Ttl

\* A check has seen the user in the channels it has asked about, unless it
\* noted them as missing.
AskedIsTrue ==
    \A t \in Checks : check[t].at = "asking" =>
        \A c \in (check[t].list \ check[t].todo) \ check[t].missing : seen[c] <= check[t].age

GateInv == CacheIsTrue /\ AskedIsTrue /\ LetInOnlyIfSeen

-----------------------------------------------------------------------------
(* Types. *)

LEMMA InitType == AccessAssumption /\ AccessInit => TypeInv
<1> SUFFICES ASSUME AccessAssumption, AccessInit PROVE TypeInv
  OBVIOUS
<1>1. /\ EmptyCache \in [SUBSET Channels -> CacheRow]
      /\ \A list \in SUBSET Channels :
            EmptyCache[list].left \in 0..Ttl /\ EmptyCache[list].missing \subseteq list
  BY DEF AccessAssumption, EmptyCache, NoEntry, CacheRow
<1>2. Idle \in CheckRow /\ Idle.at \in Steps
  BY DEF AccessAssumption, Idle, CheckRow, CheckRecord, Steps
<1>3. seen \in [Channels -> 0..LongAgo]
  BY DEF AccessAssumption, AccessInit, LongAgo
<1> QED BY <1>1, <1>2, <1>3 DEF AccessInit, TypeInv, AccessTypeOK

LEMMA EmptyCacheType ==
    AccessAssumption =>
        /\ EmptyCache \in [SUBSET Channels -> CacheRow]
        /\ \A list \in SUBSET Channels :
              EmptyCache[list].left = 0 /\ EmptyCache[list].left \in 0..Ttl
                /\ EmptyCache[list].missing = {}
BY DEF AccessAssumption, EmptyCache, NoEntry, CacheRow

LEMMA IdleType == AccessAssumption => Idle \in CheckRow /\ Idle.at = "idle"
BY DEF AccessAssumption, Idle, CheckRow, CheckRecord, Steps

LEMMA DecideType ==
    ASSUME NEW c \in CheckRow
    PROVE  /\ Decide(c) \in CheckRow
           /\ Decide(c).at \in {"refused", "allowed"}
           /\ Decide(c).at = "allowed" => c.missing = {}
           /\ Decide(c).list = c.list /\ Decide(c).age = c.age
BY DEF Decide, CheckRow, CheckRecord, Steps

LEMMA EntryType ==
    ASSUME NEW left \in 0..Ttl, NEW missing \in SUBSET Channels
    PROVE  /\ Entry(left, missing) \in CacheRow
           /\ Entry(left, missing).left = left
           /\ left > 0 => Entry(left, missing).missing = missing
           /\ Entry(left, missing).missing \subseteq missing
BY DEF Entry, NoEntry, CacheRow

LEMMA TimeLeftType ==
    ASSUME AccessAssumption, NEW c \in CheckRow
    PROVE  TimeLeft(c) \in 0..Ttl /\ (TimeLeft(c) > 0 => c.age + TimeLeft(c) <= Ttl)
BY DEF AccessAssumption, CheckRow, CheckRecord, TimeLeft

LEMMA SettingsType ==
    ASSUME AccessAssumption, TypeInv, forceJoin' \in BOOLEAN, phoneNeeded' \in BOOLEAN,
           required' \in SUBSET Channels, forceJoin' => required' # {},
           UNCHANGED <<verified, check, seen>>, cache' \in {cache, EmptyCache}
    PROVE  TypeInv'
BY EmptyCacheType DEF TypeInv, AccessTypeOK

\* What a check is once its update has been read.
Started(c, cached) ==
    \/ c.at = "asking" /\ c.todo = c.list /\ c.missing = {} /\ c.age = 0
    \/ c.at = "refused"
    \/ c.at = "allowed" /\ c.list = {}
    \/ c.at = "allowed" /\ cached[c.list].left > 0 /\ cached[c.list].missing \cap c.list = {}

LEMMA ArriveStarts ==
    ASSUME AccessAssumption, TypeInv, NEW t \in Checks, NEW kind \in UpdateKinds, Arrive(t, kind)
    PROVE  /\ \E c \in CheckRow : Started(c, cache) /\ check' = [check EXCEPT ![t] = c]
           /\ cache' \in {cache, EmptyCache}
           /\ UNCHANGED <<forceJoin, phoneNeeded, required, verified, seen>>
<1> DEFINE list == IF forceJoin THEN required ELSE {}
           entry == cache[CacheKey(list)]
           c == [Idle EXCEPT !.contact = (kind = "contact"), !.list = list,
                             !.phoneDue = phoneNeeded /\ ~verified /\ kind # "contact"]
           fromCache == [c EXCEPT !.missing = entry.missing \cap list]
           fromNow == [c EXCEPT !.at = "asking", !.todo = list]
<1>1. list \in SUBSET Channels /\ 0 \in 0..MaxAge
  BY DEF TypeInv, AccessTypeOK, AccessAssumption
<1>2. phoneNeeded \in BOOLEAN /\ verified \in BOOLEAN
  BY DEF TypeInv, AccessTypeOK
<1> HIDE DEF list
<1>3. /\ c \in CheckRow /\ fromCache \in CheckRow /\ fromNow \in CheckRow
      /\ c.list = list /\ fromCache.list = list /\ fromNow.list = list
      /\ fromCache.missing = entry.missing \cap list
      /\ fromNow.at = "asking" /\ fromNow.todo = list /\ fromNow.missing = {} /\ fromNow.age = 0
  BY <1>1, <1>2 DEF CheckRow, CheckRecord, Idle, Steps
<1>4. \/ check' = [check EXCEPT ![t] = Decide(c)] /\ list = {}
      \/ check' = [check EXCEPT ![t] = Decide(fromCache)] /\ entry.left > 0
      \/ check' = [check EXCEPT ![t] = fromNow]
  BY DEF Arrive, Proceed, list
<1>5. entry = cache[list]
  BY DEF CacheKey
<1> HIDE DEF c, fromCache, fromNow, entry
<1>6. ASSUME list = {} PROVE Started(Decide(c), cache)
  BY <1>3, <1>6, DecideType DEF Started
<1>7. ASSUME entry.left > 0 PROVE Started(Decide(fromCache), cache)
  BY <1>3, <1>5, <1>7, DecideType DEF Started
<1>8. Started(fromNow, cache)
  BY <1>3 DEF Started
<1>9. \E row \in CheckRow : Started(row, cache) /\ check' = [check EXCEPT ![t] = row]
  BY <1>3, <1>4, <1>6, <1>7, <1>8, DecideType
<1> QED BY <1>9 DEF Arrive

\* A check's record after an answer about channel ch.
NextRow(row, ch, joined) ==
    [row EXCEPT !.todo = row.todo \ {ch},
                !.missing = row.missing \cup (IF joined THEN {} ELSE {ch})]

LEMMA NextRowType ==
    ASSUME NEW row \in CheckRow, NEW ch \in row.todo, NEW joined \in BOOLEAN
    PROVE  /\ NextRow(row, ch, joined) \in CheckRow
           /\ NextRow(row, ch, joined).at = row.at
           /\ NextRow(row, ch, joined).list = row.list
           /\ NextRow(row, ch, joined).age = row.age
           /\ NextRow(row, ch, joined).todo = row.todo \ {ch}
           /\ NextRow(row, ch, joined).missing = row.missing \cup (IF joined THEN {} ELSE {ch})
<1> DEFINE missing == row.missing \cup (IF joined THEN {} ELSE {ch})
           c == [row EXCEPT !.todo = row.todo \ {ch}, !.missing = missing]
<1>1. /\ row \in CheckRecord /\ row.todo \subseteq row.list /\ row.missing \subseteq row.list
      /\ row.list \in SUBSET Channels
  BY DEF CheckRow, CheckRecord
<1>2. missing \subseteq row.list
  BY <1>1
<1>3. NextRow(row, ch, joined) = c
  BY DEF NextRow
<1> HIDE DEF missing
<1>4. /\ c.at = row.at /\ c.list = row.list /\ c.age = row.age
      /\ c.todo = row.todo \ {ch} /\ c.missing = missing
      /\ c \in CheckRecord
  BY <1>1, <1>2 DEF CheckRecord
<1> HIDE DEF c
<1> QED BY <1>1, <1>2, <1>3, <1>4 DEF CheckRow, missing

\* What one answer of Telegram does.
Asked(t, ch, joined, c) ==
    /\ check[t].at = "asking" /\ ch \in check[t].todo
    /\ c \in CheckRow
    /\ c.at = "asking" /\ c.list = check[t].list /\ c.age = check[t].age
    /\ c.todo = check[t].todo \ {ch}
    /\ c.missing = check[t].missing \cup (IF joined THEN {} ELSE {ch})
    /\ seen' = IF joined THEN [seen EXCEPT ![ch] = 0] ELSE seen
    /\ \/ /\ c.todo # {}
          /\ check' = [check EXCEPT ![t] = c]
          /\ UNCHANGED cache
       \/ /\ c.todo = {}
          /\ check' = [check EXCEPT ![t] = Decide(c)]
          /\ cache' = [cache EXCEPT ![c.list] = Entry(TimeLeft(c), c.missing)]
    /\ UNCHANGED <<forceJoin, phoneNeeded, required, verified>>

LEMMA AskAsks ==
    ASSUME AccessAssumption, TypeInv, NEW t \in Checks, NEW ch \in Channels, AskTelegram(t, ch)
    PROVE  \E joined \in BOOLEAN : \E c : Asked(t, ch, joined, c)
<1>1. PICK joined \in BOOLEAN :
        LET missing == check[t].missing \cup (IF joined THEN {} ELSE {ch})
            c == [check[t] EXCEPT !.todo = @ \ {ch}, !.missing = missing]
            last == c.todo = {}
        IN
        /\ check[t].at = "asking" /\ ch \in check[t].todo
        /\ seen' = IF joined THEN [seen EXCEPT ![ch] = 0] ELSE seen
        /\ Proceed(t, IF last THEN Decide(c) ELSE c)
        /\ cache' = IF last THEN [cache EXCEPT ![CacheKey(c.list)] = Entry(TimeLeft(c), missing)]
                    ELSE cache
        /\ UNCHANGED <<forceJoin, phoneNeeded, required, verified>>
  BY DEF AskTelegram
<1> DEFINE c == NextRow(check[t], ch, joined)
           missing == check[t].missing \cup (IF joined THEN {} ELSE {ch})
<1>2. /\ check[t].at = "asking" /\ ch \in check[t].todo
      /\ seen' = IF joined THEN [seen EXCEPT ![ch] = 0] ELSE seen
      /\ check' = [check EXCEPT ![t] = IF c.todo = {} THEN Decide(c) ELSE c]
      /\ cache' = IF c.todo = {} THEN [cache EXCEPT ![c.list] = Entry(TimeLeft(c), missing)] ELSE cache
      /\ UNCHANGED <<forceJoin, phoneNeeded, required, verified>>
  BY <1>1 DEF Proceed, CacheKey, NextRow
<1>3. check[t] \in CheckRow
  BY DEF TypeInv
<1>4. /\ c \in CheckRow
      /\ c.at = check[t].at /\ c.list = check[t].list /\ c.age = check[t].age
      /\ c.todo = check[t].todo \ {ch} /\ c.missing = missing
  BY <1>2, <1>3, NextRowType
<1> HIDE DEF c
<1>5. CASE c.todo = {}
  BY <1>2, <1>4, <1>5 DEF Asked
<1>6. CASE c.todo # {}
  BY <1>2, <1>4, <1>6 DEF Asked
<1> QED BY <1>5, <1>6

LEMMA AskedType ==
    ASSUME AccessAssumption, TypeInv, NEW t \in Checks, NEW ch \in Channels,
           NEW joined \in BOOLEAN, NEW c, Asked(t, ch, joined, c)
    PROVE  TypeInv'
<1>1. c \in CheckRow /\ c.list \in SUBSET Channels /\ c.missing \in SUBSET Channels
  BY DEF Asked, CheckRow, CheckRecord
<1>2. /\ Entry(TimeLeft(c), c.missing) \in CacheRow
      /\ Entry(TimeLeft(c), c.missing).left \in 0..Ttl
      /\ Entry(TimeLeft(c), c.missing).missing \subseteq c.list
  BY <1>1, TimeLeftType, EntryType DEF CheckRow
<1>3. seen' \in [Channels -> 0..LongAgo]
  BY DEF Asked, TypeInv, AccessTypeOK, AccessAssumption, LongAgo
<1>4. check' \in [Checks -> CheckRow] /\ \A u \in Checks : check'[u].at \in Steps
  <2>1. check' \in [Checks -> CheckRow]
    BY <1>1, DecideType DEF Asked, TypeInv
  <2> QED BY <2>1 DEF CheckRow, CheckRecord
<1>5. /\ cache' \in [SUBSET Channels -> CacheRow]
      /\ \A list \in SUBSET Channels : cache'[list].left \in 0..Ttl /\ cache'[list].missing \subseteq list
  <2>1. CASE UNCHANGED cache
    BY <2>1 DEF TypeInv, AccessTypeOK
  <2>2. CASE cache' = [cache EXCEPT ![c.list] = Entry(TimeLeft(c), c.missing)]
    <3>1. cache \in [SUBSET Channels -> CacheRow]
      BY DEF TypeInv
    <3>2. cache' \in [SUBSET Channels -> CacheRow]
      BY <1>1, <1>2, <2>2, <3>1
    <3>3. \A list \in SUBSET Channels :
             cache'[list] = IF list = c.list THEN Entry(TimeLeft(c), c.missing) ELSE cache[list]
      BY <1>1, <2>2, <3>1
    <3> QED BY <1>2, <3>2, <3>3 DEF TypeInv, AccessTypeOK
  <2> QED BY <2>1, <2>2 DEF Asked
<1> QED BY <1>3, <1>4, <1>5 DEF Asked, TypeInv, AccessTypeOK

\* A tick, row by row.
LEMMA TickRows ==
    ASSUME AccessAssumption, TypeInv, Tick
    PROVE  /\ \A t \in Checks :
                /\ check[t].at \in {"idle", "asking"}
                /\ check'[t].at = check[t].at /\ check'[t].list = check[t].list
                /\ check'[t].todo = check[t].todo /\ check'[t].missing = check[t].missing
                /\ check[t].at = "asking" =>
                     check[t].age < MaxAge /\ check'[t].age = check[t].age + 1
           /\ \A list \in SUBSET Channels : cache'[list].left > 0 =>
                /\ cache'[list].left = cache[list].left - 1
                /\ cache'[list].missing = cache[list].missing
           /\ \A c \in Channels : seen[c] # LongAgo => seen'[c] = seen[c] + 1
           /\ TypeInv'
<1>1. ASSUME NEW t \in Checks
      PROVE  /\ check[t].at \in {"idle", "asking"}
             /\ check'[t] \in CheckRow
             /\ check'[t].at = check[t].at /\ check'[t].list = check[t].list
             /\ check'[t].todo = check[t].todo /\ check'[t].missing = check[t].missing
             /\ check[t].at = "asking" =>
                  check[t].age < MaxAge /\ check'[t].age = check[t].age + 1
  <2>1. check[t] \in CheckRow
    BY DEF TypeInv
  <2>2. CASE check[t] = Idle
    BY <2>1, <2>2, IdleType DEF Tick
  <2>3. CASE check[t] # Idle
    <3>1. check[t].at = "asking" /\ check[t].age < MaxAge
      BY <2>3 DEF Tick
    <3>2. check'[t] = [check[t] EXCEPT !.age = check[t].age + 1]
      BY <2>3 DEF Tick
    <3> QED BY <2>1, <3>1, <3>2 DEF CheckRow, CheckRecord, AccessAssumption
  <2> QED BY <2>2, <2>3
<1>2. ASSUME NEW list \in SUBSET Channels
      PROVE  /\ cache'[list] \in CacheRow /\ cache'[list].missing \subseteq list
             /\ cache'[list].left > 0 =>
                  /\ cache'[list].left = cache[list].left - 1
                  /\ cache'[list].missing = cache[list].missing
  <2>1. /\ cache[list] \in CacheRow /\ cache[list].missing \in SUBSET Channels
        /\ cache[list].missing \subseteq list /\ cache[list].left \in 0..Ttl
    BY DEF TypeInv, CacheRow, AccessTypeOK
  <2>2. CASE cache[list].left = 0
    <3>1. cache'[list] = NoEntry
      BY <2>2 DEF Tick
    <3> QED BY <3>1, EmptyCacheType DEF NoEntry, CacheRow, AccessAssumption
  <2>3. CASE cache[list].left # 0
    <3> DEFINE left == cache[list].left - 1
    <3>1. left \in 0..Ttl
      BY <2>1, <2>3 DEF AccessAssumption
    <3>2. cache'[list] = Entry(left, cache[list].missing)
      BY <2>3 DEF Tick
    <3> HIDE DEF left
    <3>3. /\ cache'[list] \in CacheRow /\ cache'[list].left = left
          /\ left > 0 => cache'[list].missing = cache[list].missing
          /\ cache'[list].missing \subseteq cache[list].missing
      BY <2>1, <3>1, <3>2, EntryType
    <3> QED BY <2>1, <3>3 DEF left
  <2> QED BY <2>2, <2>3
<1>3. /\ seen' \in [Channels -> 0..LongAgo]
      /\ \A c \in Channels : seen[c] # LongAgo => seen'[c] = seen[c] + 1
  BY DEF Tick, TypeInv, AccessTypeOK, AccessAssumption, LongAgo
<1>4. check' \in [Checks -> CheckRow] /\ \A t \in Checks : check'[t].at \in Steps
  <2>1. check' \in [Checks -> CheckRow]
    BY <1>1 DEF Tick
  <2> QED BY <2>1 DEF CheckRow, CheckRecord
<1>5. /\ cache' \in [SUBSET Channels -> CacheRow]
      /\ \A list \in SUBSET Channels : cache'[list].left \in 0..Ttl /\ cache'[list].missing \subseteq list
  <2>1. cache' \in [SUBSET Channels -> CacheRow]
    BY <1>2 DEF Tick
  <2> QED BY <1>2, <2>1 DEF CacheRow
<1>6. TypeInv'
  BY <1>3, <1>4, <1>5 DEF Tick, TypeInv, AccessTypeOK
<1> QED BY <1>1, <1>2, <1>3, <1>6

\* A check ends: the handler has started or the user is prompted.
LEMMA EndType ==
    ASSUME AccessAssumption, TypeInv, NEW t \in Checks, Enter(t) \/ Prompt(t)
    PROVE  TypeInv'
<1>1. check' = [check EXCEPT ![t] = Idle] /\ verified' \in BOOLEAN
  BY DEF Enter, Prompt, Proceed, TypeInv, AccessTypeOK
<1>2. check' \in [Checks -> CheckRow]
  BY <1>1, IdleType DEF TypeInv
<1>3. \A u \in Checks : check'[u].at \in Steps
  BY <1>2 DEF CheckRow, CheckRecord
<1> QED BY <1>1, <1>2, <1>3 DEF Enter, Prompt, settingVars, TypeInv, AccessTypeOK

LEMMA StartedType ==
    ASSUME AccessAssumption, TypeInv, NEW t \in Checks, NEW c \in CheckRow,
           check' = [check EXCEPT ![t] = c], cache' \in {cache, EmptyCache},
           UNCHANGED <<forceJoin, phoneNeeded, required, verified, seen>>
    PROVE  TypeInv'
<1>1. check' \in [Checks -> CheckRow] /\ \A u \in Checks : check'[u].at \in Steps
  <2>1. check' \in [Checks -> CheckRow]
    BY DEF TypeInv
  <2> QED BY <2>1 DEF CheckRow, CheckRecord
<1> QED BY <1>1, EmptyCacheType DEF TypeInv, AccessTypeOK

(* The kinds of steps, as far as checks and cached answers see them. *)
EmptiesCache ==
    /\ UNCHANGED <<check, seen>>
    /\ cache' \in {cache, EmptyCache}

Starts(t) ==
    /\ \E c \in CheckRow : Started(c, cache) /\ check' = [check EXCEPT ![t] = c]
    /\ cache' \in {cache, EmptyCache}
    /\ UNCHANGED seen

Ends(t) == check' = [check EXCEPT ![t] = Idle] /\ UNCHANGED <<cache, seen>>

LEMMA StepsOfGate ==
    ASSUME AccessAssumption, TypeInv, [AccessNext]_accessVars
    PROVE  /\ TypeInv'
           /\ \/ EmptiesCache \/ Tick
              \/ \E t \in Checks : Starts(t) \/ Ends(t)
              \/ \E t \in Checks, ch \in Channels, joined \in BOOLEAN : \E c : Asked(t, ch, joined, c)
<1> DEFINE Goal ==
       /\ TypeInv'
       /\ \/ EmptiesCache \/ Tick
          \/ \E t \in Checks : Starts(t) \/ Ends(t)
          \/ \E t \in Checks, ch \in Channels, joined \in BOOLEAN : \E c : Asked(t, ch, joined, c)
<1>0. /\ forceJoin \in BOOLEAN /\ phoneNeeded \in BOOLEAN /\ verified \in BOOLEAN
      /\ required \in SUBSET Channels
      /\ forceJoin => required # {}
  BY DEF TypeInv, AccessTypeOK
<1>1. CASE ToggleJoin
  <2>1. forceJoin' = ~forceJoin
    BY <1>1, Zenon DEF ToggleJoin, Settle
  <2>2. /\ phoneNeeded' = phoneNeeded /\ required' = required
        /\ UNCHANGED <<verified, check, seen>> /\ cache' = EmptyCache /\ required # {}
    BY <1>0, <1>1 DEF ToggleJoin, Settle
  <2>3. /\ forceJoin' \in BOOLEAN /\ phoneNeeded' \in BOOLEAN
        /\ required' \in SUBSET Channels /\ cache' \in {cache, EmptyCache}
    BY <1>0, <2>1, <2>2
  <2>4. forceJoin' => required' # {}
    BY <1>0, <2>1, <2>2
  <2>5. TypeInv'
    BY <2>2, <2>3, <2>4, SettingsType
  <2> QED BY <2>2, <2>3, <2>5 DEF EmptiesCache
<1>2. CASE TogglePhone
  <2>1. phoneNeeded' = ~phoneNeeded
    BY <1>2, Zenon DEF TogglePhone, Settle
  <2>2. /\ forceJoin' = forceJoin /\ required' = required
        /\ UNCHANGED <<verified, check, seen>> /\ cache' = cache
    BY <1>0, <1>2 DEF TogglePhone, Settle
  <2>3. /\ forceJoin' \in BOOLEAN /\ phoneNeeded' \in BOOLEAN
        /\ required' \in SUBSET Channels /\ cache' \in {cache, EmptyCache}
    BY <1>0, <2>1, <2>2
  <2>4. forceJoin' => required' # {}
    BY <1>0, <2>1, <2>2
  <2>5. TypeInv'
    BY <2>2, <2>3, <2>4, SettingsType
  <2> QED BY <2>2, <2>3, <2>5 DEF EmptiesCache
<1>3. CASE ResetPhone
  BY <1>3 DEF ResetPhone, settingVars, EmptiesCache, TypeInv, AccessTypeOK
<1>4. CASE Tick
  BY <1>4, TickRows
<1>5. ASSUME NEW c \in Channels, AddChannel(c)
      PROVE  Goal
  <2>1. /\ forceJoin' = forceJoin /\ phoneNeeded' = phoneNeeded /\ required' = required \cup {c}
        /\ UNCHANGED <<verified, check, seen>> /\ cache' = EmptyCache
    BY <1>5 DEF AddChannel, Settle
  <2>2. /\ forceJoin' \in BOOLEAN /\ phoneNeeded' \in BOOLEAN
        /\ required' \in SUBSET Channels /\ cache' \in {cache, EmptyCache}
    BY <1>0, <2>1
  <2>3. forceJoin' => required' # {}
    BY <1>0, <2>1
  <2>4. TypeInv'
    BY <2>1, <2>2, <2>3, SettingsType
  <2> QED BY <2>1, <2>2, <2>4 DEF EmptiesCache
<1>6. ASSUME NEW c \in Channels, RemoveChannel(c)
      PROVE  Goal
  <2>1. forceJoin' = (forceJoin /\ required \ {c} # {})
    BY <1>6, Zenon DEF RemoveChannel, ForceAfterRemoval, Settle
  <2>2. /\ phoneNeeded' = phoneNeeded /\ required' = required \ {c}
        /\ UNCHANGED <<verified, check, seen>> /\ cache' = EmptyCache
    BY <1>0, <1>6 DEF RemoveChannel, ForceAfterRemoval, Settle
  <2>3. /\ forceJoin' \in BOOLEAN /\ phoneNeeded' \in BOOLEAN
        /\ required' \in SUBSET Channels /\ cache' \in {cache, EmptyCache}
    BY <1>0, <2>1, <2>2
  <2>4. forceJoin' => required' # {}
    BY <1>0, <2>1, <2>2
  <2>5. TypeInv'
    BY <2>2, <2>3, <2>4, SettingsType
  <2> QED BY <2>2, <2>3, <2>5 DEF EmptiesCache
<1>7. ASSUME NEW t \in Checks, NEW kind \in UpdateKinds, Arrive(t, kind)
      PROVE  Goal
  <2>1. Starts(t)
    BY <1>7, ArriveStarts DEF Starts
  <2> QED BY <1>7, <2>1, ArriveStarts, StartedType
<1>8. ASSUME NEW t \in Checks, Enter(t) \/ Prompt(t)
      PROVE  Goal
  <2>1. Ends(t)
    BY <1>8 DEF Enter, Prompt, Proceed, settingVars, Ends
  <2> QED BY <1>8, <2>1, EndType
<1>9. ASSUME NEW t \in Checks, NEW ch \in Channels, AskTelegram(t, ch)
      PROVE  Goal
  BY <1>9, AskAsks, AskedType
<1>10. CASE UNCHANGED accessVars
  BY <1>10 DEF accessVars, EmptiesCache, TypeInv, AccessTypeOK
<1> QED BY <1>1, <1>2, <1>3, <1>4, <1>5, <1>6, <1>7, <1>8, <1>9, <1>10 DEF AccessNext

LEMMA SpecType == AccessSpec => []TypeInv
<1>1. AccessAssumption
  BY AccessAssumption
<1>2. AccessInit => TypeInv
  BY <1>1, InitType
<1>3. TypeInv /\ [AccessNext]_accessVars => TypeInv'
  BY <1>1, StepsOfGate
<1> QED BY <1>2, <1>3, PTL DEF AccessSpec

\* The settings, the cache and the checks keep their types, and joining is
\* enforced only while there is a channel to join.
THEOREM AccessTypeCorrect == AccessSpec => []AccessTypeOK
<1>1. TypeInv => AccessTypeOK
  BY DEF TypeInv
<1> QED BY <1>1, SpecType, PTL

-----------------------------------------------------------------------------
(* The gate. What was seen and when travels with an answer: as the age of   *)
(* the check that asks, then as what is left of the lifetime of the entry.  *)

LEMMA InitGate == AccessAssumption /\ AccessInit => GateInv
<1> SUFFICES ASSUME AccessAssumption, AccessInit PROVE GateInv
  OBVIOUS
<1>1. \A list \in SUBSET Channels : cache[list].left = 0
  BY EmptyCacheType DEF AccessInit
<1>2. \A t \in Checks : check[t].at = "idle"
  BY IdleType DEF AccessInit
<1> QED BY <1>1, <1>2 DEF GateInv, CacheIsTrue, AskedIsTrue, LetInOnlyIfSeen

LEMMA EmptiedGate ==
    ASSUME AccessAssumption, CacheIsTrue, UNCHANGED seen, cache' \in {cache, EmptyCache}
    PROVE  CacheIsTrue'
<1>1. CASE cache' = cache
  BY <1>1 DEF CacheIsTrue
<1>2. CASE cache' = EmptyCache
  BY <1>2, EmptyCacheType DEF CacheIsTrue
<1> QED BY <1>1, <1>2

LEMMA StartsGate ==
    ASSUME AccessAssumption, TypeInv, GateInv, NEW t \in Checks, Starts(t)
    PROVE  GateInv'
<1>1. PICK c \in CheckRow : Started(c, cache) /\ check' = [check EXCEPT ![t] = c]
  BY DEF Starts
<1>2. c.list \in SUBSET Channels
  BY DEF CheckRow, CheckRecord
<1>3. check'[t] = c /\ \A u \in Checks : u # t => check'[u] = check[u]
  BY <1>1 DEF TypeInv
<1>4. CacheIsTrue' /\ seen' = seen
  BY EmptiedGate DEF Starts, GateInv
<1>5. AskedIsTrue'
  BY <1>1, <1>3, <1>4 DEF GateInv, AskedIsTrue, Started
<1>6. LetInOnlyIfSeen'
  <2> SUFFICES ASSUME c.at = "allowed", NEW ch \in c.list
               PROVE  seen[ch] <= Ttl
    BY <1>3, <1>4 DEF GateInv, LetInOnlyIfSeen
  <2>1. cache[c.list].left > 0 /\ cache[c.list].missing \cap c.list = {}
    BY <1>1 DEF Started
  <2>2. seen[ch] + cache[c.list].left <= Ttl
    BY <1>2, <2>1 DEF GateInv, CacheIsTrue
  <2>3. cache[c.list].left \in 0..Ttl /\ seen[ch] \in 0..LongAgo
    BY <1>2 DEF TypeInv, AccessTypeOK
  <2> QED BY <2>1, <2>2, <2>3 DEF AccessAssumption, LongAgo
<1> QED BY <1>4, <1>5, <1>6 DEF GateInv

LEMMA AskedGate ==
    ASSUME AccessAssumption, TypeInv, GateInv, NEW t \in Checks, NEW ch \in Channels,
           NEW joined \in BOOLEAN, NEW c, Asked(t, ch, joined, c)
    PROVE  GateInv'
<1>1. /\ c \in CheckRow /\ check[t] \in CheckRow /\ c.list \in SUBSET Channels
      /\ c.age \in 0..MaxAge /\ c.at = "asking" /\ check[t].at = "asking"
      /\ c.list = check[t].list /\ c.age = check[t].age
      /\ c.todo = check[t].todo \ {ch} /\ c.missing \in SUBSET Channels
      /\ c.missing = check[t].missing \cup (IF joined THEN {} ELSE {ch})
  BY DEF Asked, TypeInv, CheckRow, CheckRecord
<1>2. \A d \in Channels : seen'[d] \in Nat /\ seen'[d] <= seen[d] /\ seen[d] \in Nat
  BY DEF Asked, TypeInv, AccessTypeOK, LongAgo, AccessAssumption
<1>3. joined => seen'[ch] = 0
  BY DEF Asked, TypeInv, AccessTypeOK
<1>4. \A d \in (c.list \ c.todo) \ c.missing : seen'[d] <= c.age
  <2> SUFFICES ASSUME NEW d \in (c.list \ c.todo) \ c.missing
               PROVE  seen'[d] <= c.age
    OBVIOUS
  <2>1. CASE d = ch
    BY <1>1, <1>3, <2>1
  <2>2. CASE d # ch
    <3>1. seen[d] <= c.age
      BY <1>1, <2>2 DEF GateInv, AskedIsTrue
    <3> QED BY <1>1, <1>2, <3>1
  <2> QED BY <2>1, <2>2
<1>5. \A u \in Checks : u # t => check'[u] = check[u]
  BY DEF Asked, TypeInv
<1>6. \A u \in Checks, d \in Channels :
         (u # t /\ d \in check[u].list) => (seen[d] <= check[u].age => seen'[d] <= check'[u].age)
  <2>1. \A u \in Checks : check[u].age \in Nat
    BY DEF TypeInv, CheckRow, CheckRecord, AccessAssumption
  <2> QED BY <1>2, <1>5, <2>1
<1>7. \A u \in Checks : check[u].list \in SUBSET Channels
  BY DEF TypeInv, CheckRow, CheckRecord
<1>8. ASSUME NEW u \in Checks, u # t
      PROVE  /\ check'[u].at = "asking" =>
                   \A d \in (check'[u].list \ check'[u].todo) \ check'[u].missing :
                       seen'[d] <= check'[u].age
             /\ check'[u].at = "allowed" =>
                   \A d \in check'[u].list : seen'[d] <= Ttl \/ seen'[d] <= check'[u].age
  <2>1. check'[u] = check[u]
    BY <1>5, <1>8
  <2>2. Ttl \in Nat
    BY DEF AccessAssumption
  <2> QED BY <1>2, <1>6, <1>7, <1>8, <2>1, <2>2 DEF GateInv, AskedIsTrue, LetInOnlyIfSeen
<1>9. CASE c.todo # {} /\ check' = [check EXCEPT ![t] = c] /\ UNCHANGED cache
  <2>1. check'[t] = c
    BY <1>9 DEF TypeInv
  <2>2. AskedIsTrue' /\ LetInOnlyIfSeen'
    BY <1>1, <1>4, <1>8, <2>1 DEF AskedIsTrue, LetInOnlyIfSeen
  <2>3. CacheIsTrue'
    <3> SUFFICES ASSUME NEW list \in SUBSET Channels, cache[list].left > 0,
                        NEW d \in list \ cache[list].missing
                 PROVE  seen'[d] + cache[list].left <= Ttl
      BY <1>9 DEF CacheIsTrue
    <3>1. seen[d] + cache[list].left <= Ttl
      BY DEF GateInv, CacheIsTrue
    <3>2. cache[list].left \in Nat /\ Ttl \in Nat
      BY DEF TypeInv, AccessTypeOK, AccessAssumption
    <3> QED BY <1>2, <3>1, <3>2
  <2> QED BY <2>2, <2>3 DEF GateInv
<1>10. CASE /\ c.todo = {} /\ check' = [check EXCEPT ![t] = Decide(c)]
            /\ cache' = [cache EXCEPT ![c.list] = Entry(TimeLeft(c), c.missing)]
  <2>1. check'[t] = Decide(c)
    BY <1>10 DEF TypeInv
  <2>2. /\ check'[t].at \in {"refused", "allowed"} /\ check'[t].list = c.list
        /\ check'[t].age = c.age /\ (check'[t].at = "allowed" => c.missing = {})
    BY <1>1, <2>1, DecideType
  <2>3. AskedIsTrue' /\ LetInOnlyIfSeen'
    BY <1>4, <1>8, <1>10, <2>2 DEF AskedIsTrue, LetInOnlyIfSeen
  <2>4. CacheIsTrue'
    <3> SUFFICES ASSUME NEW list \in SUBSET Channels, cache'[list].left > 0,
                        NEW d \in list \ cache'[list].missing
                 PROVE  seen'[d] + cache'[list].left <= Ttl
      BY DEF CacheIsTrue
    <3>1. Ttl \in Nat
      BY DEF AccessAssumption
    <3>2. CASE list = c.list
      <4>1. cache'[list] = Entry(TimeLeft(c), c.missing)
        BY <1>10, <3>2 DEF TypeInv
      <4>2. TimeLeft(c) \in 0..Ttl /\ (TimeLeft(c) > 0 => c.age + TimeLeft(c) <= Ttl)
        BY <1>1, TimeLeftType
      <4>3. cache'[list].left = TimeLeft(c) /\ cache'[list].missing = c.missing
        BY <1>1, <4>1, <4>2, EntryType
      <4>4. seen'[d] <= c.age
        BY <1>4, <1>10, <3>2, <4>3
      <4> QED BY <1>1, <1>2, <3>1, <4>2, <4>3, <4>4
    <3>3. CASE list # c.list
      <4>1. cache'[list] = cache[list]
        BY <1>10, <3>3 DEF TypeInv
      <4>2. seen[d] + cache[list].left <= Ttl
        BY <4>1 DEF GateInv, CacheIsTrue
      <4>3. cache[list].left \in Nat
        BY DEF TypeInv, AccessTypeOK
      <4> QED BY <1>2, <3>1, <4>1, <4>2, <4>3
    <3> QED BY <3>2, <3>3
  <2> QED BY <2>3, <2>4 DEF GateInv
<1> QED BY <1>9, <1>10 DEF Asked

LEMMA TickGate ==
    ASSUME AccessAssumption, TypeInv, GateInv, Tick
    PROVE  GateInv'
<1>1. /\ MaxAge \in Nat /\ Ttl \in Nat /\ Ttl <= MaxAge
      /\ \A d \in Channels : seen[d] \in Nat /\ (seen[d] <= MaxAge => seen'[d] = seen[d] + 1)
  BY TickRows DEF TypeInv, AccessTypeOK, AccessAssumption, LongAgo
<1>2. CacheIsTrue'
  <2> SUFFICES ASSUME NEW list \in SUBSET Channels, cache'[list].left > 0,
                      NEW d \in list \ cache'[list].missing
               PROVE  seen'[d] + cache'[list].left <= Ttl
    BY DEF CacheIsTrue
  <2>1. /\ cache'[list].left = cache[list].left - 1 /\ cache'[list].missing = cache[list].missing
        /\ cache[list].left \in Nat
    BY TickRows DEF TypeInv, AccessTypeOK
  <2>2. seen[d] + cache[list].left <= Ttl
    BY <2>1 DEF GateInv, CacheIsTrue
  <2> QED BY <1>1, <2>1, <2>2
<1>3. AskedIsTrue'
  <2> SUFFICES ASSUME NEW t \in Checks, check'[t].at = "asking",
                      NEW d \in (check'[t].list \ check'[t].todo) \ check'[t].missing
               PROVE  seen'[d] <= check'[t].age
    BY DEF AskedIsTrue
  <2>1. /\ check[t].at = "asking" /\ d \in (check[t].list \ check[t].todo) \ check[t].missing
        /\ check[t].age < MaxAge /\ check'[t].age = check[t].age + 1
    BY TickRows
  <2>2. seen[d] <= check[t].age
    BY <2>1 DEF GateInv, AskedIsTrue
  <2>3. check[t].age \in Nat /\ d \in Channels
    BY <2>1 DEF TypeInv, CheckRow, CheckRecord, AccessAssumption
  <2> QED BY <1>1, <2>1, <2>2, <2>3
<1>4. LetInOnlyIfSeen'
  BY TickRows DEF LetInOnlyIfSeen
<1> QED BY <1>2, <1>3, <1>4 DEF GateInv

LEMMA EndsGate ==
    ASSUME AccessAssumption, TypeInv, GateInv, NEW t \in Checks, Ends(t)
    PROVE  GateInv'
<1>1. \A u \in Checks : check'[u] = check[u] \/ check'[u].at = "idle"
  BY IdleType DEF Ends, TypeInv
<1> QED BY <1>1 DEF Ends, GateInv, CacheIsTrue, AskedIsTrue, LetInOnlyIfSeen

\* Whoever is let in was seen in every channel that was required when the
\* update was read, within the lifetime of the cache or by this very check.
THEOREM LetsInOnlyWhoWasSeen == AccessSpec => []LetInOnlyIfSeen
<1>1. AccessAssumption
  BY AccessAssumption
<1>2. AccessInit => GateInv
  BY <1>1, InitGate
<1>3. TypeInv /\ GateInv /\ [AccessNext]_accessVars => GateInv'
  <2> SUFFICES ASSUME TypeInv, GateInv, [AccessNext]_accessVars PROVE GateInv'
    OBVIOUS
  <2>1. CASE EmptiesCache
    BY <1>1, <2>1, EmptiedGate DEF EmptiesCache, GateInv, AskedIsTrue, LetInOnlyIfSeen
  <2> QED BY <1>1, <2>1, StepsOfGate, TickGate, StartsGate, EndsGate, AskedGate
<1>4. GateInv => LetInOnlyIfSeen
  BY DEF GateInv
<1> QED BY <1>2, <1>3, <1>4, SpecType, PTL DEF AccessSpec

-----------------------------------------------------------------------------
(* Conversations: the forms. *)

\* The keys of an invoice form; no other form uses one of them.
FormKeys == InvoiceKeys \cup {"fee_mode"}
ReleaseKinds == {"staging", "production"}
FeeKindsOfForm == {"merchant_fee", "global_fee"}

\* The steps of a group, and what the button of a kind writes: of one
\* group, only the two fee forms begin differently.
StepsOf(g) ==
    CASE g = "WalletTopUpState" -> TopUp.steps
      [] g = "AddCardState" -> AddCard.steps
      [] g = "ManualInvoiceState" -> ManualInvoice.steps
      [] g = "StoreCreateState" -> StoreCreate.steps
      [] g = "StoreCallbackState" -> StoreCallback.steps
      [] g = "CallbackConfigState" -> CallbackConfig.steps
      [] g = "AdminWalletAdjustState" -> WalletAdjust.steps
      [] g = "AdminFeeState" -> GlobalFee.steps
      [] g = "AdminAppearanceEmojiState" -> AppearanceEmoji.steps
      [] g = "AdminRequiredChannelState" -> RequiredChannel.steps
      [] g = "AdminSmsApproveState" -> SmsApprove.steps
      [] OTHER -> Release.steps

SubjectOf(g) ==
    CASE g = "StoreCallbackState" -> {"store_id"}
      [] g = "AdminWalletAdjustState" -> {"merchant_id", "action"}
      [] g = "AdminAppearanceEmojiState" -> {"appearance_emoji"}
      [] g = "AdminSmsApproveState" -> {"sms_id"}
      [] g = "AdminReleaseState" -> {"release_target"}
      [] OTHER -> {}

-----------------------------------------------------------------------------
(* States and forms. *)

LEMMA StatesDiffer ==
    /\ \A s, r : Invoice(s) = Invoice(r) <=> s = r
    /\ \A s : Invoice(s) # NoState
    /\ \A g, s, r : <<g, s>> = Invoice(r) <=> g = "ManualInvoiceState" /\ s = r
    /\ \A g, h, s, r : <<g, s>> = <<h, r>> <=> g = h /\ s = r
    /\ \A g, s : <<g, s>> # NoState
BY DEF Invoice, NoState

LEMMA TheForms ==
    /\ FormOf["topup"].group = "WalletTopUpState" /\ FormOf["topup"].subject = {}
    /\ FormOf["topup"].steps = TopUp.steps /\ TopUp.steps = <<"amount">>
    /\ FormOf["card"].group = "AddCardState" /\ FormOf["card"].subject = {}
    /\ FormOf["card"].steps = AddCard.steps /\ AddCard.steps = <<"bank", "card_number", "holder", "source_id">>
    /\ FormOf["invoice"].group = "ManualInvoiceState" /\ FormOf["invoice"].subject = {}
    /\ FormOf["invoice"].steps = ManualInvoice.steps /\ ManualInvoice.steps = <<"amount_toman", "description", "fee_mode", "card", "confirm", "processing">>
    /\ FormOf["store"].group = "StoreCreateState" /\ FormOf["store"].subject = {}
    /\ FormOf["store"].steps = StoreCreate.steps /\ StoreCreate.steps = <<"store_name", "website">>
    /\ FormOf["store_callback"].group = "StoreCallbackState" /\ FormOf["store_callback"].subject = {"store_id"}
    /\ FormOf["store_callback"].steps = StoreCallback.steps /\ StoreCallback.steps = <<"url">>
    /\ FormOf["callback"].group = "CallbackConfigState" /\ FormOf["callback"].subject = {}
    /\ FormOf["callback"].steps = CallbackConfig.steps /\ CallbackConfig.steps = <<"url">>
    /\ FormOf["adjust"].group = "AdminWalletAdjustState" /\ FormOf["adjust"].subject = {"merchant_id", "action"}
    /\ FormOf["adjust"].steps = WalletAdjust.steps /\ WalletAdjust.steps = <<"amount">>
    /\ FormOf["merchant_fee"].group = "AdminFeeState" /\ FormOf["merchant_fee"].subject = {"scope", "merchant_id"}
    /\ FormOf["merchant_fee"].steps = MerchantFee.steps /\ MerchantFee.steps = <<"amount">>
    /\ FormOf["global_fee"].group = "AdminFeeState" /\ FormOf["global_fee"].subject = {"scope"}
    /\ FormOf["global_fee"].steps = GlobalFee.steps /\ GlobalFee.steps = <<"amount">>
    /\ FormOf["emoji"].group = "AdminAppearanceEmojiState" /\ FormOf["emoji"].subject = {"appearance_emoji"}
    /\ FormOf["emoji"].steps = AppearanceEmoji.steps /\ AppearanceEmoji.steps = <<"emoji">>
    /\ FormOf["channel"].group = "AdminRequiredChannelState" /\ FormOf["channel"].subject = {}
    /\ FormOf["channel"].steps = RequiredChannel.steps /\ RequiredChannel.steps = <<"channel">>
    /\ FormOf["sms"].group = "AdminSmsApproveState" /\ FormOf["sms"].subject = {"sms_id"}
    /\ FormOf["sms"].steps = SmsApprove.steps /\ SmsApprove.steps = <<"invoice_token">>
    /\ FormOf["staging"].group = "AdminReleaseState" /\ FormOf["staging"].subject = {"release_target"}
    /\ FormOf["staging"].steps = Release.steps /\ Release.steps = <<"waiting_zip">>
    /\ FormOf["production"].group = "AdminReleaseState" /\ FormOf["production"].subject = {"release_target"}
    /\ FormOf["production"].steps = Release.steps /\ Release.steps = <<"waiting_zip">>
<1>1. TopUp.group = "WalletTopUpState" /\ TopUp.subject = {} /\ TopUp.steps = <<"amount">>
  BY Zenon DEF Form, TopUp
<1>2. AddCard.group = "AddCardState" /\ AddCard.subject = {} /\ AddCard.steps = <<"bank", "card_number", "holder", "source_id">>
  BY Zenon DEF Form, AddCard
<1>3. ManualInvoice.group = "ManualInvoiceState" /\ ManualInvoice.subject = {} /\ ManualInvoice.steps = <<"amount_toman", "description", "fee_mode", "card", "confirm", "processing">>
  BY Zenon DEF Form, ManualInvoice
<1>4. StoreCreate.group = "StoreCreateState" /\ StoreCreate.subject = {} /\ StoreCreate.steps = <<"store_name", "website">>
  BY Zenon DEF Form, StoreCreate
<1>5. StoreCallback.group = "StoreCallbackState" /\ StoreCallback.subject = {"store_id"} /\ StoreCallback.steps = <<"url">>
  BY Zenon DEF Form, StoreCallback
<1>6. CallbackConfig.group = "CallbackConfigState" /\ CallbackConfig.subject = {} /\ CallbackConfig.steps = <<"url">>
  BY Zenon DEF Form, CallbackConfig
<1>7. WalletAdjust.group = "AdminWalletAdjustState" /\ WalletAdjust.subject = {"merchant_id", "action"} /\ WalletAdjust.steps = <<"amount">>
  BY Zenon DEF Form, WalletAdjust
<1>8. MerchantFee.group = "AdminFeeState" /\ MerchantFee.subject = {"scope", "merchant_id"} /\ MerchantFee.steps = <<"amount">>
  BY Zenon DEF Form, MerchantFee
<1>9. GlobalFee.group = "AdminFeeState" /\ GlobalFee.subject = {"scope"} /\ GlobalFee.steps = <<"amount">>
  BY Zenon DEF Form, GlobalFee
<1>10. AppearanceEmoji.group = "AdminAppearanceEmojiState" /\ AppearanceEmoji.subject = {"appearance_emoji"} /\ AppearanceEmoji.steps = <<"emoji">>
  BY Zenon DEF Form, AppearanceEmoji
<1>11. RequiredChannel.group = "AdminRequiredChannelState" /\ RequiredChannel.subject = {} /\ RequiredChannel.steps = <<"channel">>
  BY Zenon DEF Form, RequiredChannel
<1>12. SmsApprove.group = "AdminSmsApproveState" /\ SmsApprove.subject = {"sms_id"} /\ SmsApprove.steps = <<"invoice_token">>
  BY Zenon DEF Form, SmsApprove
<1>13. Release.group = "AdminReleaseState" /\ Release.subject = {"release_target"} /\ Release.steps = <<"waiting_zip">>
  BY Zenon DEF Form, Release
<1>14. Release.group = "AdminReleaseState" /\ Release.subject = {"release_target"} /\ Release.steps = <<"waiting_zip">>
  BY Zenon DEF Form, Release
<1> QED BY <1>1, <1>2, <1>3, <1>4, <1>5, <1>6, <1>7, <1>8, <1>9, <1>10, <1>11, <1>12, <1>13, <1>14 DEF FormOf

LEMMA KindsOfForm ==
    AllKinds = {"topup", "card", "invoice", "store", "store_callback", "callback", "adjust",
                "merchant_fee", "global_fee", "emoji", "channel", "sms", "staging", "production"}
BY DEF AllKinds, FormOf

LEMMA FormFacts ==
    ASSUME NEW k \in AllKinds
    PROVE  LET f == FormOf[k] IN
           /\ Len(f.steps) \in Nat \ {0} /\ DOMAIN f.steps = 1 .. Len(f.steps)
           /\ \A i, j \in 1 .. Len(f.steps) : f.steps[i] = f.steps[j] => i = j
           /\ k = "invoice" <=> f.group = "ManualInvoiceState"
           /\ k \in FeeKindsOfForm <=> f.group = "AdminFeeState"
           /\ k \in ReleaseKinds <=> f.group = "AdminReleaseState"
           /\ k \in ReleaseKinds => Len(f.steps) = 1
           /\ f.steps = StepsOf(f.group)
           /\ k \notin FeeKindsOfForm => f.subject = SubjectOf(f.group)
           /\ k # "invoice" => f.subject \cap FormKeys = {}
           /\ k # "invoice" => \A i \in 1 .. Len(f.steps) : f.steps[i] \notin FormKeys
<1> DEFINE f == FormOf[k]
<1>1. CASE k = "topup"
  <2>1. f.group = "WalletTopUpState" /\ f.subject = {}
    BY <1>1, TheForms
  <2>2. f.steps = <<"amount">> /\ f.steps = TopUp.steps
    BY <1>1, TheForms
  <2>3. Len(f.steps) = 1 /\ DOMAIN f.steps = 1 .. 1
    BY <2>2
  <2>4. \A i, j \in 1 .. Len(f.steps) : f.steps[i] = f.steps[j] => i = j
    BY <2>2, <2>3
  <2>5. k # "invoice" => \A i \in 1 .. Len(f.steps) : f.steps[i] \notin FormKeys
    BY <1>1, <2>2, <2>3 DEF FormKeys, InvoiceKeys
  <2> QED
    BY <1>1, <2>1, <2>2, <2>3, <2>4, <2>5
    DEF StepsOf, SubjectOf, FormKeys, InvoiceKeys, FeeKindsOfForm, ReleaseKinds
<1>2. CASE k = "card"
  <2>1. f.group = "AddCardState" /\ f.subject = {}
    BY <1>2, TheForms
  <2>2. f.steps = <<"bank", "card_number", "holder", "source_id">> /\ f.steps = AddCard.steps
    BY <1>2, TheForms
  <2>3. Len(f.steps) = 4 /\ DOMAIN f.steps = 1 .. 4
    BY <2>2
  <2>4. \A i, j \in 1 .. Len(f.steps) : f.steps[i] = f.steps[j] => i = j
    BY <2>2, <2>3
  <2>5. k # "invoice" => \A i \in 1 .. Len(f.steps) : f.steps[i] \notin FormKeys
    BY <1>2, <2>2, <2>3 DEF FormKeys, InvoiceKeys
  <2> QED
    BY <1>2, <2>1, <2>2, <2>3, <2>4, <2>5
    DEF StepsOf, SubjectOf, FormKeys, InvoiceKeys, FeeKindsOfForm, ReleaseKinds
<1>3. CASE k = "invoice"
  <2>1. f.group = "ManualInvoiceState" /\ f.subject = {}
    BY <1>3, TheForms
  <2>2. f.steps = <<"amount_toman", "description", "fee_mode", "card", "confirm", "processing">> /\ f.steps = ManualInvoice.steps
    BY <1>3, TheForms
  <2>3. Len(f.steps) = 6 /\ DOMAIN f.steps = 1 .. 6
    BY <2>2
  <2>4. \A i, j \in 1 .. Len(f.steps) : f.steps[i] = f.steps[j] => i = j
    BY <2>2, <2>3
  <2>5. k # "invoice" => \A i \in 1 .. Len(f.steps) : f.steps[i] \notin FormKeys
    BY <1>3, <2>2, <2>3 DEF FormKeys, InvoiceKeys
  <2> QED
    BY <1>3, <2>1, <2>2, <2>3, <2>4, <2>5
    DEF StepsOf, SubjectOf, FormKeys, InvoiceKeys, FeeKindsOfForm, ReleaseKinds
<1>4. CASE k = "store"
  <2>1. f.group = "StoreCreateState" /\ f.subject = {}
    BY <1>4, TheForms
  <2>2. f.steps = <<"store_name", "website">> /\ f.steps = StoreCreate.steps
    BY <1>4, TheForms
  <2>3. Len(f.steps) = 2 /\ DOMAIN f.steps = 1 .. 2
    BY <2>2
  <2>4. \A i, j \in 1 .. Len(f.steps) : f.steps[i] = f.steps[j] => i = j
    BY <2>2, <2>3
  <2>5. k # "invoice" => \A i \in 1 .. Len(f.steps) : f.steps[i] \notin FormKeys
    BY <1>4, <2>2, <2>3 DEF FormKeys, InvoiceKeys
  <2> QED
    BY <1>4, <2>1, <2>2, <2>3, <2>4, <2>5
    DEF StepsOf, SubjectOf, FormKeys, InvoiceKeys, FeeKindsOfForm, ReleaseKinds
<1>5. CASE k = "store_callback"
  <2>1. f.group = "StoreCallbackState" /\ f.subject = {"store_id"}
    BY <1>5, TheForms
  <2>2. f.steps = <<"url">> /\ f.steps = StoreCallback.steps
    BY <1>5, TheForms
  <2>3. Len(f.steps) = 1 /\ DOMAIN f.steps = 1 .. 1
    BY <2>2
  <2>4. \A i, j \in 1 .. Len(f.steps) : f.steps[i] = f.steps[j] => i = j
    BY <2>2, <2>3
  <2>5. k # "invoice" => \A i \in 1 .. Len(f.steps) : f.steps[i] \notin FormKeys
    BY <1>5, <2>2, <2>3 DEF FormKeys, InvoiceKeys
  <2> QED
    BY <1>5, <2>1, <2>2, <2>3, <2>4, <2>5
    DEF StepsOf, SubjectOf, FormKeys, InvoiceKeys, FeeKindsOfForm, ReleaseKinds
<1>6. CASE k = "callback"
  <2>1. f.group = "CallbackConfigState" /\ f.subject = {}
    BY <1>6, TheForms
  <2>2. f.steps = <<"url">> /\ f.steps = CallbackConfig.steps
    BY <1>6, TheForms
  <2>3. Len(f.steps) = 1 /\ DOMAIN f.steps = 1 .. 1
    BY <2>2
  <2>4. \A i, j \in 1 .. Len(f.steps) : f.steps[i] = f.steps[j] => i = j
    BY <2>2, <2>3
  <2>5. k # "invoice" => \A i \in 1 .. Len(f.steps) : f.steps[i] \notin FormKeys
    BY <1>6, <2>2, <2>3 DEF FormKeys, InvoiceKeys
  <2> QED
    BY <1>6, <2>1, <2>2, <2>3, <2>4, <2>5
    DEF StepsOf, SubjectOf, FormKeys, InvoiceKeys, FeeKindsOfForm, ReleaseKinds
<1>7. CASE k = "adjust"
  <2>1. f.group = "AdminWalletAdjustState" /\ f.subject = {"merchant_id", "action"}
    BY <1>7, TheForms
  <2>2. f.steps = <<"amount">> /\ f.steps = WalletAdjust.steps
    BY <1>7, TheForms
  <2>3. Len(f.steps) = 1 /\ DOMAIN f.steps = 1 .. 1
    BY <2>2
  <2>4. \A i, j \in 1 .. Len(f.steps) : f.steps[i] = f.steps[j] => i = j
    BY <2>2, <2>3
  <2>5. k # "invoice" => \A i \in 1 .. Len(f.steps) : f.steps[i] \notin FormKeys
    BY <1>7, <2>2, <2>3 DEF FormKeys, InvoiceKeys
  <2> QED
    BY <1>7, <2>1, <2>2, <2>3, <2>4, <2>5
    DEF StepsOf, SubjectOf, FormKeys, InvoiceKeys, FeeKindsOfForm, ReleaseKinds
<1>8. CASE k = "merchant_fee"
  <2>1. f.group = "AdminFeeState" /\ f.subject = {"scope", "merchant_id"}
    BY <1>8, TheForms
  <2>2. f.steps = <<"amount">> /\ f.steps = MerchantFee.steps
    BY <1>8, TheForms
  <2>3. Len(f.steps) = 1 /\ DOMAIN f.steps = 1 .. 1
    BY <2>2
  <2>4. \A i, j \in 1 .. Len(f.steps) : f.steps[i] = f.steps[j] => i = j
    BY <2>2, <2>3
  <2>5. k # "invoice" => \A i \in 1 .. Len(f.steps) : f.steps[i] \notin FormKeys
    BY <1>8, <2>2, <2>3 DEF FormKeys, InvoiceKeys
  <2>6. f.steps = GlobalFee.steps
    BY <2>2, TheForms
  <2> QED
    BY <1>8, <2>1, <2>2, <2>3, <2>4, <2>5, <2>6
    DEF StepsOf, SubjectOf, FormKeys, InvoiceKeys, FeeKindsOfForm, ReleaseKinds
<1>9. CASE k = "global_fee"
  <2>1. f.group = "AdminFeeState" /\ f.subject = {"scope"}
    BY <1>9, TheForms
  <2>2. f.steps = <<"amount">> /\ f.steps = GlobalFee.steps
    BY <1>9, TheForms
  <2>3. Len(f.steps) = 1 /\ DOMAIN f.steps = 1 .. 1
    BY <2>2
  <2>4. \A i, j \in 1 .. Len(f.steps) : f.steps[i] = f.steps[j] => i = j
    BY <2>2, <2>3
  <2>5. k # "invoice" => \A i \in 1 .. Len(f.steps) : f.steps[i] \notin FormKeys
    BY <1>9, <2>2, <2>3 DEF FormKeys, InvoiceKeys
  <2> QED
    BY <1>9, <2>1, <2>2, <2>3, <2>4, <2>5
    DEF StepsOf, SubjectOf, FormKeys, InvoiceKeys, FeeKindsOfForm, ReleaseKinds
<1>10. CASE k = "emoji"
  <2>1. f.group = "AdminAppearanceEmojiState" /\ f.subject = {"appearance_emoji"}
    BY <1>10, TheForms
  <2>2. f.steps = <<"emoji">> /\ f.steps = AppearanceEmoji.steps
    BY <1>10, TheForms
  <2>3. Len(f.steps) = 1 /\ DOMAIN f.steps = 1 .. 1
    BY <2>2
  <2>4. \A i, j \in 1 .. Len(f.steps) : f.steps[i] = f.steps[j] => i = j
    BY <2>2, <2>3
  <2>5. k # "invoice" => \A i \in 1 .. Len(f.steps) : f.steps[i] \notin FormKeys
    BY <1>10, <2>2, <2>3 DEF FormKeys, InvoiceKeys
  <2> QED
    BY <1>10, <2>1, <2>2, <2>3, <2>4, <2>5
    DEF StepsOf, SubjectOf, FormKeys, InvoiceKeys, FeeKindsOfForm, ReleaseKinds
<1>11. CASE k = "channel"
  <2>1. f.group = "AdminRequiredChannelState" /\ f.subject = {}
    BY <1>11, TheForms
  <2>2. f.steps = <<"channel">> /\ f.steps = RequiredChannel.steps
    BY <1>11, TheForms
  <2>3. Len(f.steps) = 1 /\ DOMAIN f.steps = 1 .. 1
    BY <2>2
  <2>4. \A i, j \in 1 .. Len(f.steps) : f.steps[i] = f.steps[j] => i = j
    BY <2>2, <2>3
  <2>5. k # "invoice" => \A i \in 1 .. Len(f.steps) : f.steps[i] \notin FormKeys
    BY <1>11, <2>2, <2>3 DEF FormKeys, InvoiceKeys
  <2> QED
    BY <1>11, <2>1, <2>2, <2>3, <2>4, <2>5
    DEF StepsOf, SubjectOf, FormKeys, InvoiceKeys, FeeKindsOfForm, ReleaseKinds
<1>12. CASE k = "sms"
  <2>1. f.group = "AdminSmsApproveState" /\ f.subject = {"sms_id"}
    BY <1>12, TheForms
  <2>2. f.steps = <<"invoice_token">> /\ f.steps = SmsApprove.steps
    BY <1>12, TheForms
  <2>3. Len(f.steps) = 1 /\ DOMAIN f.steps = 1 .. 1
    BY <2>2
  <2>4. \A i, j \in 1 .. Len(f.steps) : f.steps[i] = f.steps[j] => i = j
    BY <2>2, <2>3
  <2>5. k # "invoice" => \A i \in 1 .. Len(f.steps) : f.steps[i] \notin FormKeys
    BY <1>12, <2>2, <2>3 DEF FormKeys, InvoiceKeys
  <2> QED
    BY <1>12, <2>1, <2>2, <2>3, <2>4, <2>5
    DEF StepsOf, SubjectOf, FormKeys, InvoiceKeys, FeeKindsOfForm, ReleaseKinds
<1>13. CASE k = "staging"
  <2>1. f.group = "AdminReleaseState" /\ f.subject = {"release_target"}
    BY <1>13, TheForms
  <2>2. f.steps = <<"waiting_zip">> /\ f.steps = Release.steps
    BY <1>13, TheForms
  <2>3. Len(f.steps) = 1 /\ DOMAIN f.steps = 1 .. 1
    BY <2>2
  <2>4. \A i, j \in 1 .. Len(f.steps) : f.steps[i] = f.steps[j] => i = j
    BY <2>2, <2>3
  <2>5. k # "invoice" => \A i \in 1 .. Len(f.steps) : f.steps[i] \notin FormKeys
    BY <1>13, <2>2, <2>3 DEF FormKeys, InvoiceKeys
  <2> QED
    BY <1>13, <2>1, <2>2, <2>3, <2>4, <2>5
    DEF StepsOf, SubjectOf, FormKeys, InvoiceKeys, FeeKindsOfForm, ReleaseKinds
<1>14. CASE k = "production"
  <2>1. f.group = "AdminReleaseState" /\ f.subject = {"release_target"}
    BY <1>14, TheForms
  <2>2. f.steps = <<"waiting_zip">> /\ f.steps = Release.steps
    BY <1>14, TheForms
  <2>3. Len(f.steps) = 1 /\ DOMAIN f.steps = 1 .. 1
    BY <2>2
  <2>4. \A i, j \in 1 .. Len(f.steps) : f.steps[i] = f.steps[j] => i = j
    BY <2>2, <2>3
  <2>5. k # "invoice" => \A i \in 1 .. Len(f.steps) : f.steps[i] \notin FormKeys
    BY <1>14, <2>2, <2>3 DEF FormKeys, InvoiceKeys
  <2> QED
    BY <1>14, <2>1, <2>2, <2>3, <2>4, <2>5
    DEF StepsOf, SubjectOf, FormKeys, InvoiceKeys, FeeKindsOfForm, ReleaseKinds
<1> QED BY <1>1, <1>2, <1>3, <1>4, <1>5, <1>6, <1>7, <1>8, <1>9, <1>10, <1>11, <1>12, <1>13, <1>14, KindsOfForm

-----------------------------------------------------------------------------
(* The inductive invariant. *)

IsDict(D) == D \in [DOMAIN D -> Numbers]
IsInvoice(d) == d \in 1 .. Len(forms) /\ forms[d] = "invoice"
HasAmount(D) == "amount_toman" \in DOMAIN D
Full(D) == InvoiceKeys \subseteq DOMAIN D
Described(D) == HasAmount(D) => "description" \in DOMAIN D
BelongsTo(D, d) == HasAmount(D) => D["amount_toman"] = d

\* A dictionary with an amount is that of one invoice form.
OfOne(D) ==
    HasAmount(D) => /\ IsInvoice(D["amount_toman"])
                    /\ \A key \in DOMAIN D \cap FormKeys : D[key] = D["amount_toman"]

Typed ==
    /\ forms \in Seq(Kinds) /\ Len(forms) <= MaxForms
    /\ current \in 0 .. Len(forms) /\ asked \in 0 .. Len(forms) /\ orderly \in BOOLEAN
    /\ IsDict(data)
    /\ tap = [t \in Taps |-> tap[t]]
    /\ \A t \in Taps : /\ tap[t] = [at |-> tap[t].at, read |-> tap[t].read, tag |-> tap[t].tag]
                       /\ IsDict(tap[t].read) /\ tap[t].tag \in 0 .. Len(forms)
    /\ previews \in [Numbers -> Nat] /\ lost \in [Numbers -> Nat]
    /\ acts = [d \in Numbers |-> acts[d]]

\* The state is that of a form that is not an invoice, and what was given
\* for it so far is in the dictionary.
FillingIn ==
    /\ current \in 1 .. Len(forms) /\ forms[current] # "invoice"
    /\ \E i \in 1 .. Len(FormOf[forms[current]].steps) :
          /\ state = <<FormOf[forms[current]].group, FormOf[forms[current]].steps[i]>>
          /\ \A key \in FormOf[forms[current]].subject \cup {FormOf[forms[current]].steps[j] : j \in 1 .. i - 1} :
                key \in DOMAIN data /\ data[key] = current

InvoiceSteps == {"amount_toman", "description", "fee_mode", "card", "confirm", "processing"}

StateOK ==
    \/ state = NoState
    \/ FillingIn
    \/ "invoice" \in Kinds /\ \E s \in InvoiceSteps : state = Invoice(s)

\* The invoice form: the dictionary never holds the answers of two forms,
\* and from the preview on it is complete, or was cleared.
InvoiceForm ==
    /\ OfOne(data)
    /\ state = Invoice("amount_toman") => DOMAIN data \cap FormKeys = {}
    /\ state \in {Invoice("description"), Invoice("fee_mode")} => HasAmount(data)
    /\ (\E s \in InvoiceSteps : state = Invoice(s)) => IsInvoice(current)
    /\ state \in {Invoice("amount_toman"), Invoice("description"), Invoice("fee_mode"), Invoice("card")}
          => BelongsTo(data, current)
    /\ state \in {Invoice("fee_mode"), Invoice("card")} => Described(data)
    /\ state = Invoice("confirm") => (HasAmount(data) => Full(data))

\* What a waiting tap will do still fits the dictionary.
TapOK(x) ==
    /\ x.at \in {"cards", "preview"} => IsInvoice(x.tag) /\ BelongsTo(data, x.tag) /\ Described(data)
    /\ x.at = "preview" => OfOne(x.read) /\ BelongsTo(x.read, x.tag)
    /\ x.at \in {"create", "issued"} =>
          /\ OfOne(x.read)
          /\ HasAmount(x.read) => Full(x.read)
          /\ HasAmount(data) => Full(data) /\ HasAmount(x.read) /\ BelongsTo(x.read, data["amount_toman"])
    /\ x.at \in {"create", "issued", "answer"} => IsInvoice(x.tag)
    /\ x.at = "issued" => HasAmount(x.read)
    /\ x.at = "answer" => ~HasAmount(data)

TapsOK == \A t \in Taps : TapOK(tap[t])

Busy == state = Invoice("processing") => \E t \in Taps : tap[t].at \in {"create", "issued"}

\* What forms are acted on with.
Filled(d) ==
    {[key \in Given(forms[d]) |-> d]} \cup (IF forms[d] \in ReleaseKinds THEN {NoData} ELSE {})

ActsOK ==
    /\ \A d \in 1 .. Len(forms) : acts[d] \in Seq(Filled(d))
    /\ \A d \in Numbers : d > Len(forms) => acts[d] = <<>>

\* Invoices still to come from the previews shown: the handlers that are
\* about to issue one, and the preview that can be confirmed now.
Creating(d) == {t \in Taps : tap[t].at = "create" /\ Full(tap[t].read) /\ tap[t].read["amount_toman"] = d}
Ready(d) == state = Invoice("confirm") /\ Full(data) /\ data["amount_toman"] = d
Claims(d) == Cardinality(Creating(d)) + (IF Ready(d) THEN 1 ELSE 0)

\* A form that can still be acted on: it is being filled in, or a ZIP was or
\* will be asked for.
AsksFor(d) == asked = d \/ \E t \in Taps : tap[t].at = "prompt" /\ tap[t].tag = d
Open(d) == (current = d /\ FillingIn) \/ (forms[d] \in ReleaseKinds /\ AsksFor(d))

Counted(d) ==
    IF forms[d] = "invoice" THEN Len(acts[d]) + Claims(d) <= lost[d] + previews[d]
    ELSE Len(acts[d]) <= lost[d] + 1 /\ (Open(d) => Len(acts[d]) <= lost[d])

Counts == \A d \in 1 .. Len(forms) : Counted(d)

DialoguesInv == Typed /\ StateOK /\ InvoiceForm /\ TapsOK /\ Busy /\ ActsOK /\ Counts

\* As long as no taps overlap and no prompt fails: what is waiting belongs to
\* the state, and without a prompt on its way the last one does.
InOrder ==
    orderly =>
        /\ \A t, u \in Taps : tap[t] # NoTap /\ tap[u] # NoTap => t = u
        /\ \A t \in Taps : tap[t].at \in {"prompt", "preview"} /\ state # NoState => tap[t].tag = current
        /\ state # NoState /\ (\A t \in Taps : tap[t].at # "prompt") => asked = current

-----------------------------------------------------------------------------
(* Dictionaries and forms. *)

LEMMA NoDataFacts == IsDict(NoData) /\ DOMAIN NoData = {}
BY DEF NoData, IsDict

LEMMA RestrictFacts ==
    ASSUME NEW D, NEW S, S \subseteq DOMAIN D
    PROVE  Restrict(D, S) = [k \in S |-> D[k]]
BY DEF Restrict

LEMMA NotInvoice ==
    ASSUME DialoguesAssumption, NEW k \in Kinds, k # "invoice", NEW i
    PROVE  /\ \A s : <<FormOf[k].group, FormOf[k].steps[i]>> # Invoice(s)
           /\ <<FormOf[k].group, FormOf[k].steps[i]>> # NoState
BY FormFacts, StatesDiffer DEF DialoguesAssumption

\* Two forms of one group have the same steps; their kinds differ only in
\* what a fee is for and where a release goes.
LEMMA SameGroup ==
    ASSUME DialoguesAssumption, NEW k \in Kinds, NEW m \in Kinds, FormOf[k].group = FormOf[m].group
    PROVE  /\ FormOf[k].steps = FormOf[m].steps
           /\ k = "invoice" <=> m = "invoice"
           /\ k \in FeeKindsOfForm <=> m \in FeeKindsOfForm
           /\ k \in ReleaseKinds <=> m \in ReleaseKinds
           /\ k \notin FeeKindsOfForm => FormOf[k].subject = FormOf[m].subject
BY FormFacts DEF DialoguesAssumption

LEMMA Numbered ==
    ASSUME DialoguesAssumption, Typed
    PROVE  /\ \A d \in 1 .. Len(forms) : d \in Numbers /\ forms[d] \in Kinds
           /\ \A d \in Numbers : d \in Nat \ {0}
           /\ Len(forms) \in Nat
BY DEF DialoguesAssumption, Typed, Numbers

-----------------------------------------------------------------------------
(* What a step that clears or extends the dictionary leaves as it was. *)

Longer == forms' = forms \/ \E k \in Kinds : forms' = Append(forms, k)

\* An amount in the dictionary was there before, with all other keys.
Milder ==
    HasAmount(data') => /\ HasAmount(data) /\ data'["amount_toman"] = data["amount_toman"]
                        /\ DOMAIN data \subseteq DOMAIN data'

LEMMA FormsStay ==
    ASSUME DialoguesAssumption, Typed, Longer
    PROVE  /\ \A d \in 1 .. Len(forms) : d \in 1 .. Len(forms') /\ forms'[d] = forms[d]
           /\ \A d : IsInvoice(d) => IsInvoice(d)'
           /\ Len(forms) <= Len(forms') /\ Len(forms') \in Nat
BY DEF Typed, Longer, IsInvoice

LEMMA OfOneStays ==
    ASSUME DialoguesAssumption, Typed, Longer, NEW D, OfOne(D)
    PROVE  OfOne(D)'
BY FormsStay DEF OfOne

LEMMA TapKept ==
    ASSUME DialoguesAssumption, Typed, Longer, Milder, NEW x, TapOK(x)
    PROVE  TapOK(x)'
<1>1. OfOne(x.read) => OfOne(x.read)'
  BY OfOneStays
<1>2. IsInvoice(x.tag) => IsInvoice(x.tag)'
  BY FormsStay
<1> QED
  BY <1>1, <1>2 DEF TapOK, Milder, BelongsTo, Described, HasAmount, Full

LEMMA TapsKept ==
    ASSUME DialoguesAssumption, Typed, Longer, Milder, TapsOK, UNCHANGED tap
    PROVE  TapsOK'
BY TapKept DEF TapsOK

LEMMA NoTapOK == TapOK(NoTap) /\ TapOK(NoTap)' /\ IsDict(NoTap.read) /\ NoTap.at = "idle" /\ NoTap.tag = 0
BY NoDataFacts DEF TapOK, NoTap

\* One tap goes on.
LEMMA TapGoesOn ==
    ASSUME DialoguesAssumption, Typed, Longer,
           NEW t \in Taps, NEW at, NEW read, IsDict(read), NEW tag \in 0 .. Len(forms'),
           tap' = [tap EXCEPT ![t] = [at |-> at, read |-> read, tag |-> tag]]
    PROVE  /\ tap'[t].at = at /\ tap'[t].read = read /\ tap'[t].tag = tag
           /\ \A u \in Taps \ {t} : tap'[u] = tap[u]
           /\ tap' = [u \in Taps |-> tap'[u]]
           /\ \A u \in Taps : /\ tap'[u] = [at |-> tap'[u].at, read |-> tap'[u].read, tag |-> tap'[u].tag]
                              /\ IsDict(tap'[u].read) /\ tap'[u].tag \in 0 .. Len(forms')
<1>1. Len(forms) \in Nat /\ Len(forms') \in Nat /\ Len(forms) <= Len(forms')
  BY FormsStay, Numbered
<1>2. 0 .. Len(forms) \subseteq 0 .. Len(forms')
  BY <1>1
<1> QED BY <1>2 DEF Typed

LEMMA OtherTapsKept ==
    ASSUME DialoguesAssumption, Typed, Longer, Milder, TapsOK, NEW t \in Taps,
           \A u \in Taps \ {t} : tap'[u] = tap[u], TapOK(tap[t])'
    PROVE  TapsOK'
<1> SUFFICES ASSUME NEW u \in Taps PROVE TapOK(tap[u])'
  BY DEF TapsOK
<1>1. CASE u = t
  BY <1>1
<1>2. CASE u # t
  BY <1>2, TapKept DEF TapsOK
<1> QED BY <1>1, <1>2

\* The handler of a tap has written the state: what it shows is on its way.
LEMMA Replies ==
    ASSUME DialoguesAssumption, Typed, Longer, Milder, TapsOK,
           NEW t \in Taps, NEW d \in 0 .. Len(forms'),
           tap' = [tap EXCEPT ![t] = [at |-> "prompt", read |-> NoData, tag |-> d]]
    PROVE  /\ TapsOK' /\ tap'[t].at = "prompt" /\ tap'[t].tag = d
           /\ \A u \in Taps \ {t} : tap'[u] = tap[u]
           /\ tap' = [u \in Taps |-> tap'[u]]
           /\ \A u \in Taps : /\ tap'[u] = [at |-> tap'[u].at, read |-> tap'[u].read, tag |-> tap'[u].tag]
                              /\ IsDict(tap'[u].read) /\ tap'[u].tag \in 0 .. Len(forms')
           /\ \A e : Creating(e)' = Creating(e) \ {t}
<1>1. /\ tap'[t].at = "prompt" /\ tap'[t].tag = d
      /\ \A u \in Taps \ {t} : tap'[u] = tap[u]
      /\ tap' = [u \in Taps |-> tap'[u]]
      /\ \A u \in Taps : /\ tap'[u] = [at |-> tap'[u].at, read |-> tap'[u].read, tag |-> tap'[u].tag]
                         /\ IsDict(tap'[u].read) /\ tap'[u].tag \in 0 .. Len(forms')
  BY NoDataFacts, TapGoesOn
<1>2. TapOK(tap[t])'
  BY <1>1 DEF TapOK
<1>3. TapsOK'
  BY <1>1, <1>2, OtherTapsKept
<1>4. \A e : Creating(e)' = Creating(e) \ {t}
  BY <1>1 DEF Creating
<1> QED BY <1>1, <1>3, <1>4

\* No ZIP is asked for but where it was, or would have been.
NoNewAsks == \A d \in 1 .. Len(forms) : forms[d] \in ReleaseKinds /\ AsksFor(d)' => AsksFor(d)

LEMMA AsksLess ==
    ASSUME \A u \in Taps : tap'[u].at = "prompt" =>
               tap'[u] = tap[u] \/ tap'[u].tag = 0 \/ IsInvoice(tap'[u].tag),
           \/ asked' = asked \/ asked' = 0 \/ IsInvoice(asked')
           \/ \E u \in Taps : tap[u].at = "prompt" /\ asked' = tap[u].tag
    PROVE  NoNewAsks
BY DEF NoNewAsks, AsksFor, IsInvoice, ReleaseKinds

LEMMA OpenLess ==
    ASSUME NoNewAsks, UNCHANGED forms, FillingIn' => FillingIn /\ current' = current
    PROVE  \A d \in 1 .. Len(forms) : Open(d)' => Open(d)
BY DEF NoNewAsks, Open

LEMMA SubsetOfTaps ==
    ASSUME DialoguesAssumption, NEW S, S \subseteq Taps
    PROVE  IsFiniteSet(S) /\ Cardinality(S) \in Nat
BY FS_Subset, FS_CardinalityType DEF DialoguesAssumption

LEMMA ClaimsCounted ==
    ASSUME DialoguesAssumption, NEW d
    PROVE  /\ Claims(d) \in Nat /\ Claims(d)' \in Nat
           /\ Cardinality(Creating(d)) \in Nat /\ Cardinality(Creating(d)') \in Nat
           /\ IsFiniteSet(Creating(d)) /\ IsFiniteSet(Creating(d)')
<1>1. Creating(d) \subseteq Taps /\ Creating(d)' \subseteq Taps
  BY DEF Creating
<1>2. /\ Cardinality(Creating(d)) \in Nat /\ Cardinality(Creating(d)') \in Nat
      /\ IsFiniteSet(Creating(d)) /\ IsFiniteSet(Creating(d)')
  BY <1>1, SubsetOfTaps
<1> QED BY <1>2 DEF Claims

LEMMA ClaimsLess ==
    ASSUME DialoguesAssumption, NEW d, Creating(d)' \subseteq Creating(d), Ready(d)' => Ready(d)
    PROVE  Claims(d)' <= Claims(d)
<1>1. Cardinality(Creating(d)') <= Cardinality(Creating(d))
  BY ClaimsCounted, FS_Subset
<1> QED BY <1>1, ClaimsCounted DEF Claims

LEMMA CountsKept ==
    ASSUME DialoguesAssumption, Typed, ActsOK, Counts,
           UNCHANGED <<forms, acts, previews, lost>>,
           \A d \in 1 .. Len(forms) : Claims(d)' <= Claims(d) /\ (Open(d)' => Open(d))
    PROVE  ActsOK' /\ Counts'
<1>1. ActsOK'
  BY DEF ActsOK, Filled
<1> SUFFICES ASSUME NEW d \in 1 .. Len(forms) PROVE Counted(d)'
  BY <1>1 DEF Counts
<1>2. d \in Numbers /\ acts[d] \in Seq(Filled(d))
  BY Numbered DEF ActsOK
<1>3. Len(acts[d]) \in Nat /\ lost[d] \in Nat /\ previews[d] \in Nat
  BY <1>2 DEF Typed
<1>4. Counted(d) /\ Claims(d)' <= Claims(d) /\ (Open(d)' => Open(d))
  BY DEF Counts
<1> QED
  BY <1>3, <1>4, ClaimsCounted DEF Counted

LEMMA NotFilling ==
    ASSUME DialoguesAssumption, Typed', \/ state' = NoState
                                        \/ \E s : state' = Invoice(s)
    PROVE  ~FillingIn'
<1> SUFFICES ASSUME FillingIn' PROVE FALSE
  OBVIOUS
<1>1. forms'[current'] \in Kinds /\ forms'[current'] # "invoice"
  BY DEF FillingIn, Typed
<1> QED BY <1>1, NotInvoice DEF FillingIn

LEMMA Cleared ==
    ASSUME DialoguesAssumption, Typed', Clear
    PROVE  /\ StateOK' /\ InvoiceForm' /\ Busy' /\ Milder
           /\ ~FillingIn' /\ \A d : ~Ready(d)'
<1>1. state' = NoState /\ DOMAIN data' = {}
  BY NoDataFacts DEF Clear
<1>2. \A s : state' # Invoice(s)
  BY <1>1, StatesDiffer
<1>3. ~FillingIn'
  BY <1>1, NotFilling
<1>4. InvoiceForm'
  BY <1>1, <1>2 DEF InvoiceForm, OfOne, HasAmount
<1> QED
  BY <1>1, <1>2, <1>3, <1>4 DEF StateOK, Busy, Milder, HasAmount, Ready

LEMMA ClearedIsMilder == Clear => Milder
BY NoDataFacts DEF Clear, Milder, HasAmount

\* A form is acted on.
LEMMA ActDone ==
    ASSUME DialoguesAssumption, Typed, ActsOK, NEW d \in 1 .. Len(forms), NEW form \in Filled(d),
           Act(d, form), UNCHANGED forms
    PROVE  /\ ActsOK'
           /\ acts' = [e \in Numbers |-> acts'[e]]
           /\ Len(acts'[d]) = Len(acts[d]) + 1
           /\ \A e \in Numbers \ {d} : acts'[e] = acts[e]
<1>1. d \in Numbers /\ \A e \in 1 .. Len(forms) : e \in Numbers
  BY Numbered
<1>2. acts[d] \in Seq(Filled(d))
  BY DEF ActsOK
<1>3. /\ acts' = [e \in Numbers |-> acts'[e]]
      /\ acts'[d] = Append(acts[d], form)
      /\ \A e \in Numbers \ {d} : acts'[e] = acts[e]
  BY <1>1 DEF Act, Typed
<1>4. acts'[d] \in Seq(Filled(d)) /\ Len(acts'[d]) = Len(acts[d]) + 1
  BY <1>2, <1>3
<1>5. \A e : Filled(e)' = Filled(e)
  BY DEF Filled
<1>6. \A e \in 1 .. Len(forms) : acts'[e] \in Seq(Filled(e))
  BY <1>1, <1>3, <1>4 DEF ActsOK
<1>7. \A e \in Numbers : e > Len(forms) => acts'[e] = <<>>
  BY <1>3 DEF ActsOK
<1> QED BY <1>3, <1>4, <1>5, <1>6, <1>7 DEF ActsOK

\* If it is not an invoice, it is closed, or the commit was reported as a
\* failure.
LEMMA CountsAct ==
    ASSUME DialoguesAssumption, Typed, ActsOK, Counts, UNCHANGED <<forms, previews>>,
           NEW d \in 1 .. Len(forms), forms[d] # "invoice", Open(d),
           Len(acts'[d]) = Len(acts[d]) + 1,
           \A e \in Numbers \ {d} : acts'[e] = acts[e],
           \/ UNCHANGED lost /\ ~Open(d)'
           \/ lost' = [lost EXCEPT ![d] = @ + 1],
           \A e \in 1 .. Len(forms) : Claims(e)' <= Claims(e) /\ (Open(e)' => Open(e))
    PROVE  Counts'
<1> SUFFICES ASSUME NEW e \in 1 .. Len(forms) PROVE Counted(e)'
  BY DEF Counts
<1>1. d \in Numbers /\ e \in Numbers /\ acts[e] \in Seq(Filled(e)) /\ Counted(e) /\ Counted(d)
  BY Numbered DEF ActsOK, Counts
<1>2. Len(acts[e]) \in Nat /\ lost[e] \in Nat /\ previews[e] \in Nat
  BY <1>1 DEF Typed
<1>3. CASE e = d
  <2>1. Len(acts[d]) <= lost[d]
    BY <1>1 DEF Counted
  <2> QED BY <1>1, <1>2, <1>3, <2>1 DEF Counted, Typed
<1>4. CASE e # d
  <2>1. acts'[e] = acts[e] /\ lost'[e] = lost[e]
    BY <1>1, <1>4 DEF Typed
  <2>2. Claims(e)' <= Claims(e) /\ (Open(e)' => Open(e))
    OBVIOUS
  <2>3. Claims(e) \in Nat /\ Claims(e)' \in Nat
    BY ClaimsCounted
  <2>4. forms' = forms /\ previews' = previews
    OBVIOUS
  <2>5. CASE forms[e] = "invoice"
    BY <1>1, <1>2, <2>1, <2>2, <2>3, <2>4, <2>5 DEF Counted
  <2>6. CASE forms[e] # "invoice"
    BY <1>1, <1>2, <2>1, <2>2, <2>4, <2>6 DEF Counted
  <2> QED BY <2>5, <2>6
<1> QED BY <1>3, <1>4

\* The handler of a tap ends.
LEMMA TapEnds ==
    ASSUME DialoguesAssumption, Typed, Longer, NEW t \in Taps, tap' = [tap EXCEPT ![t] = NoTap]
    PROVE  /\ tap'[t].at = "idle" /\ \A u \in Taps \ {t} : tap'[u] = tap[u]
           /\ tap' = [u \in Taps |-> tap'[u]]
           /\ \A u \in Taps : /\ tap'[u] = [at |-> tap'[u].at, read |-> tap'[u].read, tag |-> tap'[u].tag]
                              /\ IsDict(tap'[u].read) /\ tap'[u].tag \in 0 .. Len(forms')
           /\ TapOK(tap[t])' /\ \A d : Creating(d)' = Creating(d) \ {t}
<1>1. /\ tap'[t] = NoTap /\ \A u \in Taps \ {t} : tap'[u] = tap[u]
      /\ tap' = [u \in Taps |-> tap'[u]]
  BY DEF Typed
<1>2. /\ tap'[t].at = "idle" /\ \A u \in Taps \ {t} : tap'[u] = tap[u]
      /\ tap' = [u \in Taps |-> tap'[u]]
      /\ \A u \in Taps : /\ tap'[u] = [at |-> tap'[u].at, read |-> tap'[u].read, tag |-> tap'[u].tag]
                         /\ IsDict(tap'[u].read) /\ tap'[u].tag \in 0 .. Len(forms')
  <2>1. Len(forms) \in Nat /\ Len(forms') \in Nat /\ Len(forms) <= Len(forms')
    BY FormsStay, Numbered
  <2>2. 0 .. Len(forms) \subseteq 0 .. Len(forms') /\ 0 \in 0 .. Len(forms')
    BY <2>1
  <2>3. NoTap = [at |-> NoTap.at, read |-> NoTap.read, tag |-> NoTap.tag]
    BY DEF NoTap
  <2>4. \A u \in Taps \ {t} : /\ tap'[u] = [at |-> tap'[u].at, read |-> tap'[u].read, tag |-> tap'[u].tag]
                             /\ IsDict(tap'[u].read) /\ tap'[u].tag \in 0 .. Len(forms')
    BY <1>1, <2>2 DEF Typed
  <2> QED BY <1>1, <2>2, <2>3, <2>4, NoTapOK
<1>3. TapOK(tap[t])'
  BY <1>2 DEF TapOK
<1>4. \A d : Creating(d)' = Creating(d) \ {t}
  BY <1>2 DEF Creating
<1> QED BY <1>2, <1>3, <1>4

LEMMA SameTapsCreate ==
    ASSUME UNCHANGED tap, NEW d
    PROVE  Creating(d)' = Creating(d)
BY DEF Creating

-----------------------------------------------------------------------------
(* Every step keeps the invariant. *)

LEMMA InitDialogues == DialoguesAssumption /\ DialoguesInit => DialoguesInv /\ InOrder
<1> SUFFICES ASSUME DialoguesAssumption, DialoguesInit PROVE DialoguesInv /\ InOrder
  OBVIOUS
<1>1. /\ DOMAIN data = {} /\ IsDict(data) /\ forms = <<>> /\ Len(forms) = 0
      /\ current = 0 /\ asked = 0 /\ orderly = TRUE /\ state = NoState
  BY NoDataFacts DEF DialoguesInit
<1>2. \A t \in Taps : tap[t] = NoTap
  BY DEF DialoguesInit
<1>3. Typed
  BY <1>1, <1>2, NoTapOK DEF Typed, DialoguesInit, DialoguesAssumption, NoTap
<1>4. InvoiceForm
  BY <1>1, StatesDiffer DEF InvoiceForm, OfOne, HasAmount
<1>5. TapsOK
  BY <1>2, NoTapOK DEF TapsOK
<1>6. ActsOK /\ Counts
  BY <1>1 DEF ActsOK, Counts, DialoguesInit
<1>7. InOrder
  BY <1>1, <1>2 DEF InOrder
<1> QED
  BY <1>1, <1>3, <1>4, <1>5, <1>6, <1>7, StatesDiffer DEF DialoguesInv, StateOK, Busy

LEMMA CancelStep ==
    ASSUME DialoguesAssumption, DialoguesInv, NEW t \in Taps, Cancel(t)
    PROVE  DialoguesInv'
<1>1. /\ Clear /\ tap' = [tap EXCEPT ![t] = [at |-> "prompt", read |-> NoData, tag |-> 0]]
      /\ orderly' \in BOOLEAN /\ UNCHANGED <<forms, asked, acts, previews, lost>>
  BY DEF Cancel, Reply, Wait
<1>2. Longer /\ Milder /\ 0 \in 0 .. Len(forms')
  BY <1>1, ClearedIsMilder, Numbered DEF Longer, DialoguesInv
<1>3. /\ TapsOK' /\ tap'[t].tag = 0
      /\ \A u \in Taps \ {t} : tap'[u] = tap[u]
      /\ tap' = [u \in Taps |-> tap'[u]]
      /\ \A u \in Taps : /\ tap'[u] = [at |-> tap'[u].at, read |-> tap'[u].read, tag |-> tap'[u].tag]
                         /\ IsDict(tap'[u].read) /\ tap'[u].tag \in 0 .. Len(forms')
      /\ \A e : Creating(e)' = Creating(e) \ {t}
  BY <1>1, <1>2, Replies DEF DialoguesInv
<1>4. Typed'
  BY <1>1, <1>2, <1>3, NoDataFacts DEF DialoguesInv, Typed, Clear
<1>5. StateOK' /\ InvoiceForm' /\ Busy' /\ ~FillingIn' /\ \A d : ~Ready(d)'
  BY <1>1, <1>4, Cleared
<1>6. NoNewAsks
  BY <1>1, <1>3, AsksLess
<1>7. \A d \in 1 .. Len(forms) : Claims(d)' <= Claims(d) /\ (Open(d)' => Open(d))
  BY <1>1, <1>3, <1>5, <1>6, ClaimsLess, OpenLess
<1>8. ActsOK' /\ Counts'
  BY <1>1, <1>7, CountsKept DEF DialoguesInv
<1> QED BY <1>3, <1>4, <1>5, <1>8 DEF DialoguesInv

\* What a handler shows, or would have shown.
LEMMA ShownStep ==
    ASSUME DialoguesAssumption, DialoguesInv, NEW t \in Taps, Shown(t) \/ NotShown(t)
    PROVE  DialoguesInv'
<1>1. /\ tap[t].at = "prompt" /\ tap' = [tap EXCEPT ![t] = NoTap]
      /\ asked' = asked \/ asked' = tap[t].tag
      /\ orderly' \in BOOLEAN /\ UNCHANGED <<state, data, forms, current, acts, previews, lost>>
  BY DEF Shown, NotShown, Done, DialoguesInv, Typed
<1>2. /\ \A u \in Taps \ {t} : tap'[u] = tap[u]
      /\ tap' = [u \in Taps |-> tap'[u]]
      /\ \A u \in Taps : /\ tap'[u] = [at |-> tap'[u].at, read |-> tap'[u].read, tag |-> tap'[u].tag]
                         /\ IsDict(tap'[u].read) /\ tap'[u].tag \in 0 .. Len(forms')
      /\ tap'[t].at = "idle" /\ TapOK(tap[t])' /\ \A d : Creating(d)' = Creating(d) \ {t}
  BY <1>1, TapEnds DEF Longer, DialoguesInv
<1>3. Typed'
  BY <1>1, <1>2 DEF DialoguesInv, Typed
<1>4. (FillingIn' <=> FillingIn) /\ \A d : Ready(d)' <=> Ready(d)
  BY <1>1 DEF FillingIn, Ready
<1>5. StateOK' /\ InvoiceForm' /\ Milder
  BY <1>1, <1>4 DEF DialoguesInv, StateOK, InvoiceForm, OfOne, IsInvoice, Milder
<1>6. Busy'
  BY <1>1, <1>2 DEF DialoguesInv, Busy
<1>7. TapsOK'
  BY <1>1, <1>2, <1>5, OtherTapsKept DEF DialoguesInv, Longer
<1>8. NoNewAsks
  BY <1>1, <1>2, AsksLess
<1>9. \A d \in 1 .. Len(forms) : Claims(d)' <= Claims(d) /\ (Open(d)' => Open(d))
  BY <1>1, <1>2, <1>4, <1>8, ClaimsLess, OpenLess
<1>10. ActsOK' /\ Counts'
  BY <1>1, <1>9, CountsKept DEF DialoguesInv
<1> QED BY <1>3, <1>5, <1>6, <1>7, <1>10 DEF DialoguesInv

LEMMA RestartStep ==
    ASSUME DialoguesAssumption, DialoguesInv, RestartProcess
    PROVE  DialoguesInv'
<1>1. Typed'
  BY NoDataFacts, NoTapOK, Numbered DEF DialoguesInv, Typed, RestartProcess, Clear, NoTap
<1>2. /\ StateOK' /\ InvoiceForm' /\ Busy' /\ Milder
      /\ ~FillingIn' /\ \A d : ~Ready(d)'
  BY <1>1, Cleared DEF RestartProcess
<1>3. TapsOK'
  BY NoTapOK DEF RestartProcess, TapsOK
<1>4. \A d : Creating(d)' = {}
  BY NoTapOK DEF RestartProcess, Creating
<1>5. NoNewAsks
  BY NoTapOK, AsksLess DEF RestartProcess
<1>6. \A d \in 1 .. Len(forms) : Claims(d)' <= Claims(d) /\ (Open(d)' => Open(d))
  BY <1>2, <1>4, <1>5, ClaimsLess, OpenLess DEF RestartProcess
<1>7. ActsOK' /\ Counts'
  BY <1>6, CountsKept DEF RestartProcess, DialoguesInv
<1> QED BY <1>1, <1>2, <1>3, <1>7 DEF DialoguesInv

\* A ZIP that was waited for: its branch was chosen in the same form, and
\* nothing else is read.
LEMMA ReleaseChosen ==
    ASSUME DialoguesAssumption, DialoguesInv, state = <<"AdminReleaseState", "waiting_zip">>
    PROVE  /\ FillingIn /\ current \in 1 .. Len(forms) /\ forms[current] \in ReleaseKinds
           /\ Restrict(data, {"release_target"}) \in Filled(current)
<1>1. FillingIn
  <2>1. \A s : state # Invoice(s) /\ state # NoState
    BY StatesDiffer
  <2> QED BY <2>1 DEF DialoguesInv, StateOK
<1>2. PICK i \in 1 .. Len(FormOf[forms[current]].steps) :
          /\ state = <<FormOf[forms[current]].group, FormOf[forms[current]].steps[i]>>
          /\ \A key \in FormOf[forms[current]].subject : key \in DOMAIN data /\ data[key] = current
  BY <1>1 DEF FillingIn
<1>3. forms[current] \in Kinds /\ FormOf[forms[current]].group = "AdminReleaseState"
  BY <1>1, <1>2, StatesDiffer, Numbered DEF FillingIn, DialoguesInv
<1>4. forms[current] \in ReleaseKinds /\ Len(FormOf[forms[current]].steps) = 1
  BY <1>3, FormFacts DEF DialoguesAssumption
<1>5. FormOf[forms[current]].subject = {"release_target"} /\ forms[current] # "invoice"
  BY <1>4, TheForms DEF ReleaseKinds
<1>6. "release_target" \in DOMAIN data /\ data["release_target"] = current
  BY <1>2, <1>5
<1>7. Given(forms[current]) = {"release_target"}
  BY <1>4, <1>5 DEF Given
<1>8. Restrict(data, {"release_target"}) = [key \in {"release_target"} |-> data[key]]
  BY <1>6, RestrictFacts
<1>9. Restrict(data, {"release_target"}) = [key \in {"release_target"} |-> current]
  BY <1>6, <1>8
<1> QED BY <1>1, <1>4, <1>7, <1>9 DEF Filled, FillingIn

LEMMA ReleaseStep ==
    ASSUME DialoguesAssumption, DialoguesInv, ReleaseUpload
    PROVE  DialoguesInv'
<1>1. /\ asked \in 1 .. Len(forms) /\ forms[asked] \in ReleaseKinds /\ Quiet
      /\ asked' = 0 /\ Clear /\ UNCHANGED <<tap, forms, orderly, previews, lost>>
  BY DEF ReleaseUpload, Typing, DialoguesInv, Typed, ReleaseKinds
<1>2. PICK d, chosen :
          \/ /\ Act(d, chosen) /\ d \in 1 .. Len(forms) /\ forms[d] \in ReleaseKinds
             /\ chosen \in Filled(d) /\ Open(d)
          \/ UNCHANGED acts
  <2>1. CASE state = <<"AdminReleaseState", "waiting_zip">> /\ Act(current, Restrict(data, {"release_target"}))
    BY <2>1, ReleaseChosen DEF Open
  <2>2. CASE Act(asked, NoData)
    <3>1. NoData \in Filled(asked) /\ Open(asked)
      BY <1>1 DEF Filled, Open, AsksFor
    <3> QED BY <1>1, <2>2, <3>1
  <2>3. CASE UNCHANGED acts
    BY <2>3
  <2> QED BY <2>1, <2>2, <2>3 DEF ReleaseUpload
<1>3. acts' = [e \in Numbers |-> acts'[e]]
  BY <1>1, <1>2, ActDone DEF DialoguesInv, Typed
<1>4. Typed'
  BY <1>1, <1>3, NoDataFacts, Numbered DEF DialoguesInv, Typed, Clear
<1>5. /\ StateOK' /\ InvoiceForm' /\ Busy' /\ Milder
      /\ ~FillingIn' /\ \A e : ~Ready(e)'
  BY <1>1, <1>4, Cleared
<1>6. TapsOK'
  BY <1>1, <1>5, TapsKept DEF DialoguesInv, Longer
<1>7. \A e \in 1 .. Len(forms) : Claims(e)' <= Claims(e) /\ ~Open(e)'
  <2>1. \A u \in Taps : tap'[u].at = "idle"
    BY <1>1, NoTapOK DEF Quiet
  <2>2. \A e \in 1 .. Len(forms) : ~AsksFor(e)'
    BY <1>1, <2>1 DEF AsksFor
  <2> QED BY <1>1, <1>5, <2>2, SameTapsCreate, ClaimsLess DEF Open
<1>8. ActsOK' /\ Counts'
  <2>1. CASE UNCHANGED acts
    BY <2>1, <1>1, <1>7, CountsKept DEF DialoguesInv
  <2>2. CASE /\ Act(d, chosen) /\ d \in 1 .. Len(forms) /\ forms[d] \in ReleaseKinds
             /\ chosen \in Filled(d) /\ Open(d)
    <3>1. /\ ActsOK' /\ Len(acts'[d]) = Len(acts[d]) + 1
          /\ \A e \in Numbers \ {d} : acts'[e] = acts[e]
      BY <2>2, <1>1, ActDone DEF DialoguesInv
    <3>2. forms[d] # "invoice"
      BY <2>2 DEF ReleaseKinds
    <3> QED BY <3>1, <3>2, <2>2, <1>1, <1>7, CountsAct DEF DialoguesInv
  <2> QED BY <1>2, <2>1, <2>2
<1> QED BY <1>4, <1>5, <1>6, <1>8 DEF DialoguesInv

\* The handler of a last step finds the complete form whose handler wrote
\* the state.
LEMMA LastStep ==
    ASSUME DialoguesAssumption, DialoguesInv, NEW k \in Kinds, k # "invoice", k \notin ReleaseKinds,
           state = <<FormOf[k].group, FormOf[k].steps[Len(FormOf[k].steps)]>>
    PROVE  /\ FillingIn /\ current \in 1 .. Len(forms) /\ forms[current] # "invoice" /\ Open(current)
           /\ forms[current] \notin ReleaseKinds
           /\ Restrict(data, ReadBy(k) \cap DOMAIN data) \in Filled(current)
<1> DEFINE m == forms[current]
<1>1. FillingIn /\ current \in 1 .. Len(forms) /\ m # "invoice" /\ m \in Kinds
  <2>1. \A s : state # Invoice(s) /\ state # NoState
    BY NotInvoice
  <2>2. FillingIn
    BY <2>1 DEF DialoguesInv, StateOK
  <2> QED BY <2>2, Numbered DEF FillingIn, DialoguesInv
<1>2. PICK i \in 1 .. Len(FormOf[m].steps) :
          /\ state = <<FormOf[m].group, FormOf[m].steps[i]>>
          /\ \A key \in FormOf[m].subject \cup {FormOf[m].steps[j] : j \in 1 .. i - 1} :
                key \in DOMAIN data /\ data[key] = current
  BY <1>1 DEF FillingIn
<1>3. FormOf[k].group = FormOf[m].group /\ FormOf[k].steps[Len(FormOf[k].steps)] = FormOf[m].steps[i]
  BY <1>2, StatesDiffer
<1>4. /\ FormOf[k].steps = FormOf[m].steps
      /\ k \in FeeKindsOfForm <=> m \in FeeKindsOfForm
      /\ m \notin ReleaseKinds
      /\ k \notin FeeKindsOfForm => FormOf[k].subject = FormOf[m].subject
  BY <1>1, <1>3, SameGroup
<1>5. i = Len(FormOf[m].steps)
  BY <1>1, <1>3, <1>4, FormFacts DEF DialoguesAssumption
<1>6. Given(m) = FormOf[m].subject \cup {FormOf[m].steps[j] : j \in 1 .. Len(FormOf[m].steps) - 1}
  BY <1>1 DEF Given
<1>7. \A key \in Given(m) : key \in DOMAIN data /\ data[key] = current
  BY <1>2, <1>5, <1>6
<1>8. ReadBy(k) = Given(m)
  <2>1. CASE k \notin FeeKindsOfForm
    <3>1. FormOf[k].group # "AdminFeeState"
      BY <2>1, FormFacts DEF DialoguesAssumption
    <3>2. Given(k) = Given(m)
      BY <2>1, <1>4, <1>6 DEF Given
    <3> QED BY <3>1, <3>2 DEF ReadBy
  <2>2. CASE k \in FeeKindsOfForm
    <3>1. FormOf[k].group = "AdminFeeState" /\ m \in FeeKindsOfForm
      BY <2>2, <1>4, TheForms DEF FeeKindsOfForm
    <3>2. CASE m = "merchant_fee"
      <4>1. Given(m) = {"scope", "merchant_id"}
        BY <3>2, <1>6, TheForms
      <4>2. "scope" \in DOMAIN data /\ data["scope"] = current
        BY <4>1, <1>7
      <4> QED BY <3>1, <3>2, <4>1, <4>2 DEF ReadBy
    <3>3. CASE m = "global_fee"
      <4>1. Given(m) = {"scope"}
        BY <3>3, <1>6, TheForms
      <4>2. "scope" \in DOMAIN data /\ data["scope"] = current
        BY <4>1, <1>7
      <4> QED BY <3>1, <3>3, <4>1, <4>2 DEF ReadBy
    <3> QED BY <3>1, <3>2, <3>3 DEF FeeKindsOfForm
  <2> QED BY <2>1, <2>2
<1>9. ReadBy(k) \cap DOMAIN data = Given(m)
  BY <1>7, <1>8
<1>10. Restrict(data, Given(m)) = [key \in Given(m) |-> data[key]]
  BY <1>7, RestrictFacts
<1>11. Restrict(data, Given(m)) = [key \in Given(m) |-> current]
  BY <1>7, <1>10
<1> QED BY <1>1, <1>4, <1>9, <1>11 DEF Filled, Open

LEMMA FinishStep ==
    ASSUME DialoguesAssumption, DialoguesInv, NEW k \in Kinds, Finish(k)
    PROVE  DialoguesInv'
<1>1. PICK d : d = current
  OBVIOUS
<1>2. /\ k # "invoice" /\ k \notin ReleaseKinds
      /\ state = <<FormOf[k].group, FormOf[k].steps[Len(FormOf[k].steps)]>>
      /\ UNCHANGED <<tap, forms, asked, orderly, previews>>
  BY DEF Finish, ReleaseKinds
<1>3. PICK form : /\ form = Restrict(data, ReadBy(k) \cap DOMAIN data)
                  /\ ActsOn(k) => Act(d, form)
  BY <1>1 DEF ActsOn
<1>4. /\ FillingIn /\ d \in 1 .. Len(forms) /\ forms[d] # "invoice" /\ Open(d)
      /\ forms[d] \notin ReleaseKinds /\ form \in Filled(d) /\ d \in Numbers
  BY <1>1, <1>2, <1>3, LastStep, Numbered DEF DialoguesInv
<1>5. ActsOn(k) =>
          /\ ActsOK' /\ acts' = [e \in Numbers |-> acts'[e]] /\ Len(acts'[d]) = Len(acts[d]) + 1
          /\ \A e \in Numbers \ {d} : acts'[e] = acts[e]
  BY <1>2, <1>3, <1>4, ActDone DEF DialoguesInv
<1>6. NoNewAsks
  BY <1>2, AsksLess
<1>7. Clear => TapsOK' /\ \A e : Creating(e)' = Creating(e)
  BY <1>2, TapsKept, ClearedIsMilder, SameTapsCreate DEF DialoguesInv, Longer
<1>8. CASE Clear /\ (UNCHANGED lost \/ lost' = [lost EXCEPT ![d] = @ + 1]) /\ ActsOn(k)
  <2>1. Typed'
    <3>1. lost' \in [Numbers -> Nat]
      <4>1. lost \in [Numbers -> Nat]
        BY DEF DialoguesInv, Typed
      <4> QED BY <1>4, <1>8, <4>1
    <3>2. 0 \in 0 .. Len(forms')
      BY <1>2, Numbered DEF DialoguesInv
    <3> QED BY <1>2, <1>5, <1>8, <3>1, <3>2, NoDataFacts DEF DialoguesInv, Typed, Clear
  <2>2. /\ StateOK' /\ InvoiceForm' /\ Busy'
        /\ ~FillingIn' /\ \A e : ~Ready(e)'
    BY <1>8, <2>1, Cleared
  <2>3. \A e \in 1 .. Len(forms) : Claims(e)' <= Claims(e) /\ (Open(e)' => Open(e))
    BY <1>2, <1>6, <1>7, <1>8, <2>2, ClaimsLess, OpenLess
  <2>4. ~Open(d)'
    BY <1>2, <1>4, <2>2 DEF Open
  <2>5. ActsOK' /\ Counts'
    BY <1>2, <1>4, <1>5, <1>8, <2>3, <2>4, CountsAct DEF DialoguesInv
  <2> QED BY <1>7, <1>8, <2>1, <2>2, <2>5 DEF DialoguesInv
<1>9. CASE Clear /\ UNCHANGED <<acts, lost>>
  <2>1. Typed'
    BY <1>2, <1>9, NoDataFacts DEF DialoguesInv, Typed, Clear
  <2>2. /\ StateOK' /\ InvoiceForm' /\ Busy'
        /\ ~FillingIn' /\ \A e : ~Ready(e)'
    BY <1>9, <2>1, Cleared
  <2>3. \A e \in 1 .. Len(forms) : Claims(e)' <= Claims(e) /\ (Open(e)' => Open(e))
    BY <1>2, <1>6, <1>7, <1>9, <2>2, ClaimsLess, OpenLess
  <2>4. ActsOK' /\ Counts'
    BY <1>2, <1>9, <2>3, CountsKept DEF DialoguesInv
  <2> QED BY <1>7, <1>9, <2>1, <2>2, <2>4 DEF DialoguesInv
<1>10. CASE UNCHANGED <<state, data, current>> /\ lost' = [lost EXCEPT ![d] = @ + 1] /\ ActsOn(k)
  <2>1. Typed'
    BY <1>2, <1>4, <1>5, <1>10 DEF DialoguesInv, Typed
  <2>2. (FillingIn' <=> FillingIn) /\ \A e : Ready(e)' <=> Ready(e)
    BY <1>2, <1>10 DEF FillingIn, Ready
  <2>3. StateOK' /\ InvoiceForm' /\ Busy' /\ Milder
    BY <1>2, <1>10, <2>2 DEF DialoguesInv, StateOK, InvoiceForm, OfOne, IsInvoice, Busy, Milder
  <2>4. TapsOK'
    BY <1>2, <2>3, TapsKept DEF DialoguesInv, Longer
  <2>5. \A e \in 1 .. Len(forms) : Claims(e)' <= Claims(e) /\ (Open(e)' => Open(e))
    BY <1>2, <1>6, <1>10, <2>2, SameTapsCreate, ClaimsLess, OpenLess
  <2>6. ActsOK' /\ Counts'
    BY <1>2, <1>4, <1>5, <1>10, <2>5, CountsAct DEF DialoguesInv
  <2> QED BY <2>1, <2>3, <2>4, <2>6 DEF DialoguesInv
<1> QED BY <1>1, <1>8, <1>9, <1>10 DEF Finish

\* A new form: nothing was done for it yet.
LEMMA NothingForNew ==
    ASSUME DialoguesAssumption, DialoguesInv, NEW d, d = Len(forms) + 1,
           Creating(d)' \subseteq Creating(d), ~Ready(d)'
    PROVE  Claims(d)' = 0
<1>1. \A t \in Taps : ~(tap[t].at = "create" /\ Full(tap[t].read) /\ tap[t].read["amount_toman"] = d)
  <2> SUFFICES ASSUME NEW t \in Taps, tap[t].at = "create", Full(tap[t].read), tap[t].read["amount_toman"] = d
               PROVE FALSE
    OBVIOUS
  <2>1. OfOne(tap[t].read) /\ HasAmount(tap[t].read)
    BY DEF DialoguesInv, TapsOK, TapOK, Full, HasAmount, InvoiceKeys
  <2>2. d \in 1 .. Len(forms)
    BY <2>1 DEF OfOne, IsInvoice
  <2> QED BY <2>2, Numbered DEF DialoguesInv
<1>2. Creating(d)' = {}
  BY <1>1 DEF Creating
<1>3. Cardinality(Creating(d)') = 0
  BY <1>2, ClaimsCounted, FS_EmptySet
<1> QED BY <1>3 DEF Claims

LEMMA CountsLonger ==
    ASSUME DialoguesAssumption, DialoguesInv, NEW k \in Kinds, forms' = Append(forms, k),
           NEW d, d = Len(forms) + 1, d \in Numbers, FillingIn' => current' = d,
           \A u \in Taps : tap'[u].at = "prompt" => tap'[u] = tap[u] \/ tap'[u].tag \in {0, d},
           \A e : Creating(e)' \subseteq Creating(e),
           UNCHANGED <<asked, previews, lost>>,
           acts' = [e \in Numbers |-> acts'[e]],
           \A e \in Numbers \ {d} : acts'[e] = acts[e],
           acts'[d] \in Seq(Filled(d)'), Len(acts'[d]) <= 1, k = "invoice" => acts'[d] = <<>>,
           Open(d)' => acts'[d] = <<>>,
           \A e : ~Ready(e)'
    PROVE  ActsOK' /\ Counts'
<1>1. /\ Len(forms) \in Nat /\ Len(forms') = d /\ forms'[d] = k
      /\ \A e \in 1 .. Len(forms) : forms'[e] = forms[e] /\ e \in Numbers /\ e # d
      /\ \A e \in 1 .. Len(forms') : e \in 1 .. Len(forms) \/ e = d
  BY Numbered DEF DialoguesInv, Typed
<1>2. \A e \in 1 .. Len(forms) : Filled(e)' = Filled(e)
  BY <1>1 DEF Filled
<1>3. ActsOK'
  <2>1. \A e \in 1 .. Len(forms) : acts'[e] \in Seq(Filled(e)')
    BY <1>1, <1>2 DEF ActsOK, DialoguesInv
  <2>2. \A e \in Numbers : e > Len(forms') => e > Len(forms) /\ e # d
    BY <1>1, Numbered DEF DialoguesInv
  <2>3. \A e \in Numbers : e > Len(forms') => acts'[e] = <<>>
    BY <2>2 DEF ActsOK, DialoguesInv
  <2>4. \A e \in 1 .. Len(forms') : acts'[e] \in Seq(Filled(e)')
    BY <1>1, <2>1
  <2> QED BY <2>3, <2>4 DEF ActsOK
<1> SUFFICES ASSUME NEW e \in 1 .. Len(forms') PROVE Counted(e)'
  BY <1>3 DEF Counts
<1>4. CASE e = d
  <2>1. Claims(d)' = 0 /\ lost'[d] \in Nat /\ previews'[d] \in Nat /\ Len(<<>>) = 0
    BY NothingForNew DEF DialoguesInv, Typed
  <2>2. CASE k = "invoice"
    BY <1>1, <1>4, <2>1, <2>2 DEF Counted
  <2>3. CASE k # "invoice"
    <3>1. acts'[d] = <<>> => Len(acts'[d]) = 0
      OBVIOUS
    <3>2. Len(acts'[d]) \in Nat
      OBVIOUS
    <3> QED BY <1>1, <1>4, <2>1, <2>3, <3>1, <3>2 DEF Counted
  <2> QED BY <2>2, <2>3
<1>5. CASE e \in 1 .. Len(forms)
  <2>1. e \in Numbers /\ e # d /\ acts'[e] = acts[e] /\ forms'[e] = forms[e] /\ lost'[e] = lost[e]
        /\ previews'[e] = previews[e] /\ acts[e] \in Seq(Filled(e)) /\ Counted(e)
    BY <1>1, <1>5 DEF DialoguesInv, ActsOK, Counts
  <2>2. Len(acts[e]) \in Nat /\ lost[e] \in Nat /\ previews[e] \in Nat
    BY <2>1 DEF DialoguesInv, Typed
  <2>3. Claims(e)' <= Claims(e) /\ Claims(e) \in Nat /\ Claims(e)' \in Nat
    BY ClaimsLess, ClaimsCounted
  <2>4. Open(e)' => Open(e)
    <3>1. AsksFor(e)' => AsksFor(e)
      BY <1>1, <1>5, <2>1 DEF AsksFor
    <3> QED BY <2>1, <3>1 DEF Open
  <2> QED BY <2>1, <2>2, <2>3, <2>4 DEF Counted
<1> QED BY <1>1, <1>4, <1>5

LEMMA TopUpStep ==
    ASSUME DialoguesAssumption, DialoguesInv, NEW t \in Taps, TopUpNow(t)
    PROVE  DialoguesInv'
<1>1. PICK d : d = Len(forms) + 1
  OBVIOUS
<1>2. /\ "topup" \in Kinds /\ d <= MaxForms /\ forms' = Append(forms, "topup")
      /\ Clear /\ (Act(d, NoData) \/ UNCHANGED acts)
      /\ tap' = [tap EXCEPT ![t] = [at |-> "prompt", read |-> NoData, tag |-> 0]]
      /\ orderly' \in BOOLEAN /\ UNCHANGED <<asked, previews, lost>>
  BY <1>1 DEF TopUpNow, Reply, Wait
<1>3. d \in Numbers /\ acts[d] = <<>>
  BY <1>1, <1>2, Numbered DEF DialoguesInv, ActsOK, Numbers, DialoguesAssumption
<1>4. /\ acts' = [e \in Numbers |-> acts'[e]] /\ acts'[d] \in {<<NoData>>, <<>>}
      /\ \A e \in Numbers \ {d} : acts'[e] = acts[e]
  <2>1. acts = [e \in Numbers |-> acts[e]]
    BY DEF DialoguesInv, Typed
  <2>2. CASE Act(d, NoData)
    <3>1. acts' = [acts EXCEPT ![d] = Append(acts[d], NoData)]
      BY <2>2 DEF Act
    <3>2. Append(acts[d], NoData) = <<NoData>>
      BY <1>3
    <3> QED BY <1>3, <2>1, <3>1, <3>2
  <2>3. CASE UNCHANGED acts
    BY <1>3, <2>1, <2>3
  <2> QED BY <1>2, <2>2, <2>3
<1>5. Longer /\ Milder /\ 0 \in 0 .. Len(forms')
  <2>1. Longer
    BY <1>2 DEF Longer
  <2> QED BY <1>2, <2>1, ClearedIsMilder, FormsStay DEF DialoguesInv
<1>6. /\ TapsOK' /\ tap'[t].tag = 0
      /\ \A u \in Taps \ {t} : tap'[u] = tap[u]
      /\ tap' = [u \in Taps |-> tap'[u]]
      /\ \A u \in Taps : /\ tap'[u] = [at |-> tap'[u].at, read |-> tap'[u].read, tag |-> tap'[u].tag]
                         /\ IsDict(tap'[u].read) /\ tap'[u].tag \in 0 .. Len(forms')
      /\ \A e : Creating(e)' = Creating(e) \ {t}
  BY <1>2, <1>5, Replies DEF DialoguesInv
<1>7. Typed'
  BY <1>1, <1>2, <1>3, <1>4, <1>6, NoDataFacts, Numbered DEF DialoguesInv, Typed, Clear
<1>8. /\ StateOK' /\ InvoiceForm' /\ Busy'
      /\ ~FillingIn' /\ \A e : ~Ready(e)'
  BY <1>2, <1>7, Cleared
<1>9. forms'[d] = "topup"
  BY <1>1, <1>2 DEF DialoguesInv, Typed
<1>10. Given("topup") = {}
  BY TheForms DEF Given
<1>11. NoData \in Filled(d)'
  <2>1. [key \in {} |-> d] = NoData
    BY DEF NoData
  <2> QED BY <1>9, <1>10, <2>1 DEF Filled
<1>12. acts'[d] \in Seq(Filled(d)') /\ Len(acts'[d]) <= 1
  <2>1. \A S : NoData \in S => <<NoData>> \in Seq(S) /\ <<>> \in Seq(S)
    OBVIOUS
  <2>2. acts'[d] \in Seq(Filled(d)')
    BY <1>4, <1>11, <2>1
  <2>3. Len(acts'[d]) <= 1
    <3>1. CASE acts'[d] = <<NoData>>
      BY <3>1
    <3>2. CASE acts'[d] = <<>>
      BY <3>2
    <3> QED BY <1>4, <3>1, <3>2
  <2> QED BY <2>2, <2>3
<1>13. ~Open(d)'
  BY <1>8, <1>9 DEF Open, ReleaseKinds
<1>14. ActsOK' /\ Counts'
  BY <1>1, <1>2, <1>3, <1>4, <1>6, <1>8, <1>12, <1>13, CountsLonger
<1> QED BY <1>6, <1>7, <1>8, <1>14 DEF DialoguesInv

LEMMA InvoiceStarts ==
    /\ FormOf["invoice"].fresh
    /\ FormOf["invoice"].group = "ManualInvoiceState" /\ FormOf["invoice"].steps[1] = "amount_toman"
    /\ FormOf["invoice"].steps[2] = "description" /\ FormOf["invoice"].subject = {}
    /\ "invoice" \in AllKinds
<1>1. FormOf["invoice"] = ManualInvoice
  BY DEF FormOf
<1>2. ManualInvoice.fresh
  BY Zenon DEF ManualInvoice, Form
<1> QED BY <1>1, <1>2, TheForms, KindsOfForm

LEMMA BeginStep ==
    ASSUME DialoguesAssumption, DialoguesInv, NEW t \in Taps, NEW k \in Kinds, Begin(t, k)
    PROVE  DialoguesInv'
<1> DEFINE f == FormOf[k]
<1>1. PICK d : d = Len(forms) + 1
  OBVIOUS
<1>2. PICK base : base = IF f.fresh THEN NoData ELSE data
  OBVIOUS
<1>3. /\ d <= MaxForms /\ forms' = Append(forms, k) /\ current' = d
      /\ data' = Put(f.subject, d, base) /\ state' = <<f.group, f.steps[1]>>
      /\ tap' = [tap EXCEPT ![t] = [at |-> "prompt", read |-> NoData, tag |-> d]]
      /\ orderly' \in BOOLEAN /\ UNCHANGED <<asked, acts, previews, lost>>
  BY <1>1, <1>2 DEF Begin, Reply, Wait
<1>4. base = NoData \/ base = data
  BY Zenon, <1>2
<1>5. d \in Numbers /\ acts[d] = <<>>
  BY <1>1, <1>3, Numbered DEF DialoguesInv, ActsOK, Numbers, DialoguesAssumption
<1>6. /\ IsDict(base) /\ OfOne(base)
      /\ DOMAIN base \subseteq DOMAIN data /\ \A key \in DOMAIN base : base[key] = data[key]
      /\ HasAmount(base) => base = data
  BY <1>4, NoDataFacts DEF DialoguesInv, Typed, InvoiceForm, OfOne, HasAmount
<1>7. /\ IsDict(data') /\ DOMAIN data' = f.subject \cup DOMAIN base
      /\ \A key \in f.subject : data'[key] = d
      /\ \A key \in DOMAIN base \ f.subject : data'[key] = base[key]
  <2>1. data' = [key \in f.subject \cup DOMAIN base |-> IF key \in f.subject THEN d ELSE base[key]]
    BY <1>3 DEF Put
  <2> HIDE DEF f
  <2> QED BY <1>5, <1>6, <2>1 DEF IsDict
<1>8. Longer /\ forms'[d] = k /\ d \in 1 .. Len(forms') /\ d \in 0 .. Len(forms')
  BY <1>1, <1>3 DEF DialoguesInv, Typed, Longer
<1>9. Milder => /\ TapsOK' /\ tap'[t].tag = d
                /\ \A u \in Taps \ {t} : tap'[u] = tap[u]
                /\ tap' = [u \in Taps |-> tap'[u]]
                /\ \A u \in Taps : /\ tap'[u] = [at |-> tap'[u].at, read |-> tap'[u].read, tag |-> tap'[u].tag]
                                   /\ IsDict(tap'[u].read) /\ tap'[u].tag \in 0 .. Len(forms')
                /\ \A e : Creating(e)' = Creating(e) \ {t}
  BY <1>3, <1>8, Replies DEF DialoguesInv
<1>10. /\ acts' = [e \in Numbers |-> acts'[e]] /\ acts'[d] = <<>> /\ Len(acts'[d]) <= 1
       /\ \A e \in Numbers \ {d} : acts'[e] = acts[e]
       /\ acts'[d] \in Seq(Filled(d)')
  BY <1>3, <1>5 DEF DialoguesInv, Typed
<1>11. CASE k = "invoice"
  <2>1. DOMAIN data' = {} /\ state' = Invoice("amount_toman") /\ "invoice" \in Kinds
    <3>1. base = NoData
      BY Zenon, <1>2, <1>11, InvoiceStarts
    <3> QED BY <1>3, <1>7, <1>11, <3>1, NoDataFacts, InvoiceStarts DEF Invoice
  <2>2. /\ StateOK' /\ Busy' /\ Milder /\ \A e : ~Ready(e)'
    BY <2>1, StatesDiffer DEF StateOK, InvoiceSteps, Busy, Milder, HasAmount, Ready
  <2>3. InvoiceForm'
    <3>1. IsInvoice(current)'
      BY <1>3, <1>8, <1>11 DEF IsInvoice
    <3>2. ~HasAmount(data')
      BY <2>1 DEF HasAmount
    <3> QED BY <2>1, <3>1, <3>2, StatesDiffer DEF InvoiceForm, OfOne, BelongsTo, Described
  <2>4. Typed'
    BY <1>1, <1>3, <1>7, <1>9, <2>2, Numbered DEF DialoguesInv, Typed
  <2>5. ActsOK' /\ Counts'
    BY <1>1, <1>3, <1>5, <1>9, <1>10, <2>2, CountsLonger
  <2> QED BY <1>9, <2>2, <2>3, <2>4, <2>5 DEF DialoguesInv
<1>12. CASE k # "invoice"
  <2>1. f.subject \cap FormKeys = {} /\ Len(f.steps) \in Nat \ {0}
    BY <1>12, FormFacts DEF DialoguesAssumption
  <2>2. \A s : state' # Invoice(s)
    BY <1>3, <1>12, NotInvoice
  <2>3. FillingIn'
    <3>1. 1 \in 1 .. Len(f.steps) /\ {f.steps[j] : j \in 1 .. 1 - 1} = {}
      BY <2>1
    <3>2. \A key \in f.subject \cup {f.steps[j] : j \in 1 .. 1 - 1} : key \in DOMAIN data' /\ data'[key] = current'
      BY <1>3, <1>7, <3>1
    <3> QED BY <1>3, <1>8, <1>12, <3>1, <3>2 DEF FillingIn
  <2>4. StateOK' /\ Busy' /\ \A e : ~Ready(e)'
    BY <2>2, <2>3 DEF StateOK, Busy, Ready
  <2>5. HasAmount(data') => HasAmount(base) /\ data'["amount_toman"] = base["amount_toman"]
    BY <1>7, <2>1 DEF HasAmount, FormKeys, InvoiceKeys
  <2>6. Milder
    BY <1>6, <1>7, <2>5 DEF Milder
  <2>7. OfOne(data)'
    <3>1. OfOne(base)'
      BY <1>6, <1>8, OfOneStays DEF DialoguesInv
    <3> QED BY <1>7, <2>1, <2>5, <3>1 DEF OfOne
  <2>8. InvoiceForm'
    BY <2>2, <2>7 DEF InvoiceForm
  <2>9. Typed'
    BY <1>1, <1>3, <1>7, <1>9, <2>6, Numbered DEF DialoguesInv, Typed
  <2>10. ActsOK' /\ Counts'
    BY <1>1, <1>3, <1>5, <1>9, <1>10, <2>4, <2>6, CountsLonger
  <2> QED BY <1>9, <2>4, <2>6, <2>8, <2>9, <2>10 DEF DialoguesInv
<1> QED BY <1>11, <1>12

\* The amount of an invoice: typed while nothing else is being handled.
LEMMA AmountStep ==
    ASSUME DialoguesAssumption, DialoguesInv, Typing, AskNext, "invoice" \in Kinds,
           state = Invoice("amount_toman"), state' = Invoice("description"),
           data' = Update({"amount_toman"}, current),
           UNCHANGED <<tap, forms, current, orderly, acts, previews, lost>>
    PROVE  DialoguesInv'
<1>1. IsInvoice(current) /\ DOMAIN data \cap FormKeys = {} /\ current \in Numbers
  BY Numbered, StatesDiffer DEF DialoguesInv, InvoiceForm, IsInvoice, InvoiceSteps
<1>2. /\ IsDict(data') /\ DOMAIN data' = {"amount_toman"} \cup DOMAIN data
      /\ data'["amount_toman"] = current
  <2>1. IsDict(data)
    BY DEF DialoguesInv, Typed
  <2> QED BY <1>1, <2>1 DEF Update, Put, IsDict
<1>3. Typed'
  BY <1>2 DEF DialoguesInv, Typed, AskNext
<1>4. StateOK' /\ Busy' /\ \A e : ~Ready(e)'
  BY StatesDiffer DEF StateOK, InvoiceSteps, Busy, Ready
<1>5. OfOne(data')
  BY <1>1, <1>2 DEF OfOne
<1>6. InvoiceForm'
  BY <1>1, <1>2, <1>5, StatesDiffer DEF InvoiceForm, OfOne, HasAmount, IsInvoice, BelongsTo
<1>7. TapsOK'
  BY NoTapOK DEF Typing, Quiet, TapsOK
<1>8. ~FillingIn'
  BY <1>3, NotFilling
<1>9. \A d \in 1 .. Len(forms) : Claims(d)' <= Claims(d) /\ (Open(d)' => Open(d))
  <2>1. NoNewAsks
    BY <1>1, AsksLess DEF AskNext
  <2> QED BY <1>4, <1>8, <2>1, SameTapsCreate, ClaimsLess, OpenLess
<1>10. ActsOK' /\ Counts'
  BY <1>9, CountsKept DEF DialoguesInv
<1> QED BY <1>3, <1>4, <1>6, <1>7, <1>10 DEF DialoguesInv

LEMMA StoredAnswer ==
    ASSUME DialoguesAssumption, DialoguesInv, NEW k \in Kinds, k # "invoice",
           NEW i \in 1 .. Len(FormOf[k].steps) - 1,
           state = <<FormOf[k].group, FormOf[k].steps[i]>>,
           state' = <<FormOf[k].group, FormOf[k].steps[i + 1]>>,
           data' = Update({FormOf[k].steps[i]}, current), UNCHANGED <<forms, current>>
    PROVE  /\ IsDict(data') /\ FillingIn /\ FillingIn' /\ StateOK' /\ InvoiceForm' /\ Busy' /\ Milder
           /\ \A d : ~Ready(d)'
<1> DEFINE f == FormOf[k]
           m == forms[current]
<1>1. /\ Len(f.steps) \in Nat \ {0}
      /\ \A j, l \in 1 .. Len(f.steps) : f.steps[j] = f.steps[l] => j = l
      /\ \A j \in 1 .. Len(f.steps) : f.steps[j] \notin FormKeys
  BY FormFacts DEF DialoguesAssumption
<1>2. i \in 1 .. Len(f.steps) /\ i + 1 \in 1 .. Len(f.steps)
  BY <1>1
<1>3. \A s : state # Invoice(s) /\ state # NoState /\ state' # Invoice(s)
  BY NotInvoice
<1>4. FillingIn /\ current \in 1 .. Len(forms) /\ current \in Numbers /\ m \in Kinds /\ m # "invoice"
  <2>1. FillingIn
    BY <1>3 DEF DialoguesInv, StateOK
  <2> QED BY <2>1, Numbered DEF FillingIn, DialoguesInv
<1>5. PICK n \in 1 .. Len(FormOf[m].steps) :
          /\ state = <<FormOf[m].group, FormOf[m].steps[n]>>
          /\ \A key \in FormOf[m].subject \cup {FormOf[m].steps[j] : j \in 1 .. n - 1} :
                key \in DOMAIN data /\ data[key] = current
  BY <1>4 DEF FillingIn
<1>6. f.group = FormOf[m].group /\ f.steps[i] = FormOf[m].steps[n]
  BY <1>5, StatesDiffer
<1>7. f.steps = FormOf[m].steps
  BY <1>4, <1>6, SameGroup
<1>8. n = i
  BY <1>1, <1>2, <1>5, <1>6, <1>7
<1>9. /\ IsDict(data') /\ DOMAIN data' = {f.steps[i]} \cup DOMAIN data
      /\ data'[f.steps[i]] = current
      /\ \A key \in DOMAIN data \ {f.steps[i]} : data'[key] = data[key]
  <2>1. IsDict(data)
    BY DEF DialoguesInv, Typed
  <2> QED BY <1>4, <2>1 DEF Update, Put, IsDict
<1>10. FillingIn'
  <2>1. \A key \in FormOf[m].subject \cup {FormOf[m].steps[j] : j \in 1 .. (i + 1) - 1} :
            key \in DOMAIN data' /\ data'[key] = current
    <3> SUFFICES ASSUME NEW key \in FormOf[m].subject \cup {FormOf[m].steps[j] : j \in 1 .. (i + 1) - 1}
                 PROVE  key \in DOMAIN data' /\ data'[key] = current
      OBVIOUS
    <3>1. CASE key = f.steps[i]
      BY <3>1, <1>9
    <3>2. CASE key # f.steps[i]
      <4>1. key \in FormOf[m].subject \cup {FormOf[m].steps[j] : j \in 1 .. i - 1}
        <5>1. CASE key \in FormOf[m].subject
          BY <5>1
        <5>2. CASE key \in {FormOf[m].steps[j] : j \in 1 .. (i + 1) - 1}
          <6>1. PICK j \in 1 .. (i + 1) - 1 : key = FormOf[m].steps[j]
            BY <5>2
          <6>2. j # i
            BY <6>1, <3>2, <1>7
          <6>3. j \in 1 .. i - 1
            BY <1>2, <6>2
          <6> QED BY <6>1, <6>3
        <5> QED BY <5>1, <5>2
      <4>2. key \in DOMAIN data /\ data[key] = current
        BY <4>1, <1>5, <1>8
      <4> QED BY <3>2, <4>2, <1>9
    <3> QED BY <3>1, <3>2
  <2>2. state' = <<FormOf[m].group, FormOf[m].steps[i + 1]>> /\ i + 1 \in 1 .. Len(FormOf[m].steps)
    BY <1>2, <1>6, <1>7
  <2>3. m' = m /\ current' = current
    OBVIOUS
  <2>4. state' = <<FormOf[m'].group, FormOf[m'].steps[i + 1]>> /\ i + 1 \in 1 .. Len(FormOf[m'].steps)
    BY <2>2, <2>3
  <2>5. \A key \in FormOf[m'].subject \cup {FormOf[m'].steps[j] : j \in 1 .. (i + 1) - 1} :
            key \in DOMAIN data' /\ data'[key] = current'
    BY <2>1, <2>3
  <2>6. current' \in 1 .. Len(forms') /\ m' # "invoice"
    BY <1>4, <2>3
  <2> QED BY <2>4, <2>5, <2>6 DEF FillingIn
<1>11. StateOK' /\ Busy' /\ \A e : ~Ready(e)'
  BY <1>3, <1>10 DEF StateOK, Busy, Ready
<1>12. f.steps[i] \notin FormKeys
  BY <1>1, <1>2
<1>13. Milder
  BY <1>9, <1>12 DEF Milder, HasAmount, FormKeys, InvoiceKeys
<1>14. OfOne(data')
  BY <1>9, <1>12 DEF OfOne, HasAmount, FormKeys, InvoiceKeys, DialoguesInv, InvoiceForm
<1>15. InvoiceForm'
  BY <1>3, <1>14 DEF InvoiceForm, OfOne, IsInvoice
<1> QED BY <1>4, <1>9, <1>10, <1>11, <1>13, <1>15

LEMMA AnswerStep ==
    ASSUME DialoguesAssumption, DialoguesInv, NEW k \in Kinds, Answer(k)
    PROVE  DialoguesInv'
<1> DEFINE f == FormOf[k]
<1>1. PICK i \in 1 .. Len(f.steps) - 1 :
          /\ state = <<f.group, f.steps[i]>>
          /\ state' = <<f.group, f.steps[i + 1]>>
          /\ data' = Update({f.steps[i]}, current)
  BY DEF Answer
<1>2. /\ k # "invoice" \/ state = Invoice("amount_toman")
      /\ Typing /\ AskNext
      /\ UNCHANGED <<tap, forms, current, orderly, acts, previews, lost>>
  BY DEF Answer
<1>3. CASE k = "invoice"
  <2>1. state = Invoice("amount_toman") /\ f.steps[i] = "amount_toman"
    BY <1>1, <1>2, <1>3, StatesDiffer DEF Invoice
  <2>2. 1 \in 1 .. Len(f.steps) /\ f.steps[1] = "amount_toman" /\ f.steps[2] = "description"
        /\ f.group = "ManualInvoiceState" /\ i \in 1 .. Len(f.steps)
        /\ \A j, l \in 1 .. Len(f.steps) : f.steps[j] = f.steps[l] => j = l
    BY <1>3, InvoiceStarts, FormFacts DEF DialoguesAssumption
  <2>3. i = 1
    BY <2>1, <2>2
  <2>4. state' = Invoice("description") /\ data' = Update({"amount_toman"}, current)
    BY <1>1, <2>1, <2>2, <2>3 DEF Invoice
  <2> QED BY <1>2, <1>3, <2>1, <2>4, AmountStep
<1>4. CASE k # "invoice"
  <2>1. /\ IsDict(data') /\ FillingIn /\ FillingIn' /\ StateOK' /\ InvoiceForm' /\ Busy' /\ Milder
        /\ \A d : ~Ready(d)'
    BY <1>1, <1>2, <1>4, StoredAnswer
  <2>2. Typed'
    BY <1>2, <2>1 DEF DialoguesInv, Typed, AskNext
  <2>3. TapsOK'
    BY <1>2, <2>1, TapsKept DEF DialoguesInv, Longer
  <2>4. \A d \in 1 .. Len(forms) : Open(d)' => Open(d)
    BY <1>2, <2>1 DEF Open, AsksFor, AskNext
  <2>5. \A d \in 1 .. Len(forms) : Claims(d)' <= Claims(d) /\ (Open(d)' => Open(d))
    BY <1>2, <2>1, <2>4, SameTapsCreate, ClaimsLess
  <2>6. ActsOK' /\ Counts'
    BY <1>2, <2>5, CountsKept DEF DialoguesInv
  <2> QED BY <2>1, <2>2, <2>3, <2>6 DEF DialoguesInv
<1> QED BY <1>3, <1>4

LEMMA RefuseStep ==
    ASSUME DialoguesAssumption, DialoguesInv, Refuse
    PROVE  DialoguesInv'
<1>1. /\ state # NoState /\ AskNext
      /\ UNCHANGED <<state, data, tap, forms, current, orderly, acts, previews, lost>>
  BY DEF Refuse
<1>2. Typed'
  BY <1>1 DEF DialoguesInv, Typed, AskNext
<1>3. (FillingIn' <=> FillingIn) /\ \A d : Ready(d)' <=> Ready(d)
  BY <1>1 DEF FillingIn, Ready
<1>4. StateOK' /\ InvoiceForm' /\ Busy' /\ Milder
  BY <1>1, <1>3 DEF DialoguesInv, StateOK, InvoiceForm, OfOne, IsInvoice, Busy, Milder
<1>5. TapsOK'
  BY <1>1, <1>4, TapsKept DEF DialoguesInv, Longer
<1>6. \A d \in 1 .. Len(forms) : Open(d)' => Open(d)
  <2>1. CASE FillingIn
    BY <1>1, <1>3, <2>1 DEF Open, AsksFor, AskNext
  <2>2. CASE ~FillingIn
    <3>1. IsInvoice(current)
      BY <1>1, <2>2 DEF DialoguesInv, StateOK, InvoiceForm
    <3>2. NoNewAsks
      BY <1>1, <3>1, AsksLess DEF AskNext
    <3> QED BY <1>1, <1>3, <3>2, OpenLess
  <2> QED BY <2>1, <2>2
<1>7. \A d \in 1 .. Len(forms) : Claims(d)' <= Claims(d) /\ (Open(d)' => Open(d))
  BY <1>1, <1>3, <1>6, SameTapsCreate, ClaimsLess
<1>8. ActsOK' /\ Counts'
  BY <1>1, <1>7, CountsKept DEF DialoguesInv
<1> QED BY <1>2, <1>4, <1>5, <1>8 DEF DialoguesInv

\* A bank is chosen with a button, or its name is asked for.
LEMMA BankStep ==
    ASSUME DialoguesAssumption, DialoguesInv, NEW t \in Taps, TapBank(t)
    PROVE  DialoguesInv'
<1>1. /\ state = <<"AddCardState", "bank">>
      /\ \/ state' = <<"AddCardState", "card_number">> /\ data' = Update({"bank"}, current)
         \/ UNCHANGED <<state, data>>
      /\ tap' = [tap EXCEPT ![t] = [at |-> "prompt", read |-> NoData, tag |-> current]]
      /\ orderly' \in BOOLEAN /\ UNCHANGED <<forms, current, asked, acts, previews, lost>>
  BY DEF TapBank, Reply, Wait
<1>2. FillingIn
  <2>1. \A s : state # Invoice(s) /\ state # NoState
    BY <1>1, StatesDiffer
  <2> QED BY <2>1 DEF DialoguesInv, StateOK
<1>3. PICK k : k = forms[current]
  OBVIOUS
<1>4. PICK i \in 1 .. Len(FormOf[k].steps) : state = <<FormOf[k].group, FormOf[k].steps[i]>>
  BY <1>2, <1>3 DEF FillingIn
<1>5. /\ k \in Kinds /\ k # "invoice" /\ FormOf[k].group = "AddCardState" /\ FormOf[k].steps[i] = "bank"
      /\ current \in 1 .. Len(forms)
  BY <1>1, <1>2, <1>3, <1>4, StatesDiffer, Numbered DEF FillingIn, DialoguesInv
<1>6. FormOf[k].steps = <<"bank", "card_number", "holder", "source_id">>
  BY <1>5, FormFacts, TheForms DEF StepsOf, DialoguesAssumption
<1>7. i = 1 /\ 1 \in 1 .. Len(FormOf[k].steps) - 1
  BY <1>4, <1>5, <1>6
<1>8. /\ IsDict(data') /\ StateOK' /\ InvoiceForm' /\ Busy' /\ Milder
      /\ \A d : Ready(d)' => Ready(d)
  <2>1. CASE state' = <<"AddCardState", "card_number">> /\ data' = Update({"bank"}, current)
    <3>1. /\ state = <<FormOf[k].group, FormOf[k].steps[1]>>
          /\ state' = <<FormOf[k].group, FormOf[k].steps[1 + 1]>>
          /\ data' = Update({FormOf[k].steps[1]}, current)
      BY <1>1, <1>5, <1>6, <2>1
    <3> QED BY <1>1, <1>5, <1>7, <3>1, StoredAnswer
  <2>2. CASE UNCHANGED <<state, data>>
    <3>1. (FillingIn' <=> FillingIn) /\ \A d : Ready(d)' <=> Ready(d)
      BY <1>1, <2>2 DEF FillingIn, Ready
    <3>2. state # Invoice("processing")
      <4>1. <<"AddCardState", "bank">> # Invoice("processing")
        BY StatesDiffer
      <4> QED BY <1>1, <4>1
    <3> QED BY <1>1, <2>2, <3>1, <3>2
            DEF DialoguesInv, Typed, StateOK, InvoiceForm, OfOne, IsInvoice, Busy, Milder
  <2> QED BY <1>1, <2>1, <2>2
<1>9. /\ TapsOK' /\ tap'[t].tag = current
      /\ \A u \in Taps \ {t} : tap'[u] = tap[u]
      /\ tap' = [u \in Taps |-> tap'[u]]
      /\ \A u \in Taps : /\ tap'[u] = [at |-> tap'[u].at, read |-> tap'[u].read, tag |-> tap'[u].tag]
                         /\ IsDict(tap'[u].read) /\ tap'[u].tag \in 0 .. Len(forms')
      /\ \A e : Creating(e)' = Creating(e) \ {t}
  BY <1>1, <1>8, Replies DEF DialoguesInv, Longer, Typed
<1>10. Typed'
  BY <1>1, <1>8, <1>9 DEF DialoguesInv, Typed
<1>11. \A d \in 1 .. Len(forms) : Open(d)' => Open(d)
  BY <1>1, <1>2, <1>9 DEF Open, AsksFor
<1>12. \A d \in 1 .. Len(forms) : Claims(d)' <= Claims(d) /\ (Open(d)' => Open(d))
  BY <1>8, <1>9, <1>11, ClaimsLess
<1>13. ActsOK' /\ Counts'
  BY <1>1, <1>12, CountsKept DEF DialoguesInv
<1> QED BY <1>8, <1>9, <1>10, <1>13 DEF DialoguesInv

\* What all steps of the invoice form have in common that leave no preview
\* to confirm.
LEMMA NoPreviewStep ==
    ASSUME DialoguesAssumption, DialoguesInv, Typed', StateOK', InvoiceForm', Busy', TapsOK', ~FillingIn',
           \A d : ~Ready(d)',
           UNCHANGED <<forms, acts, previews, lost>>, NoNewAsks,
           \A d : Creating(d)' \subseteq Creating(d)
    PROVE  DialoguesInv'
<1>1. \A d \in 1 .. Len(forms) : Claims(d)' <= Claims(d) /\ (Open(d)' => Open(d))
  BY ClaimsLess, OpenLess
<1>2. ActsOK' /\ Counts'
  BY <1>1, CountsKept DEF DialoguesInv
<1> QED BY <1>2 DEF DialoguesInv

\* A description or a fee mode is noted.
LEMMA InvoiceAnswer ==
    ASSUME DialoguesAssumption, DialoguesInv, state \in {Invoice("description"), Invoice("fee_mode")},
           NEW keys, keys \subseteq {"description", "fee_mode"},
           state = Invoice("fee_mode") \/ "description" \in keys,
           data' = Update(keys, current), state' \in {Invoice("fee_mode"), Invoice("card")},
           UNCHANGED <<forms, current>>
    PROVE  /\ IsDict(data)' /\ StateOK' /\ InvoiceForm' /\ Busy' /\ Milder /\ \A d : ~Ready(d)'
           /\ IsInvoice(current) /\ HasAmount(data') /\ data'["amount_toman"] = current /\ "description" \in DOMAIN data'
<1>1. /\ IsInvoice(current) /\ HasAmount(data) /\ data["amount_toman"] = current /\ OfOne(data)
      /\ "description" \in DOMAIN data \/ "description" \in keys
  BY StatesDiffer DEF DialoguesInv, InvoiceForm, InvoiceSteps, BelongsTo, Described
<1>2. current \in Numbers /\ IsDict(data) /\ "invoice" \in Kinds
  BY <1>1, Numbered DEF DialoguesInv, Typed, IsInvoice
<1>3. /\ IsDict(data') /\ DOMAIN data' = keys \cup DOMAIN data
      /\ \A key \in keys : data'[key] = current
      /\ \A key \in DOMAIN data \ keys : data'[key] = data[key]
  BY <1>2 DEF Update, Put, IsDict
<1>4. /\ HasAmount(data') /\ data'["amount_toman"] = current /\ "description" \in DOMAIN data'
      /\ DOMAIN data \subseteq DOMAIN data'
  BY <1>1, <1>3 DEF HasAmount
<1>5. OfOne(data')
  BY <1>1, <1>3, <1>4 DEF OfOne
<1>6. InvoiceForm'
  BY <1>1, <1>4, <1>5, StatesDiffer DEF InvoiceForm, OfOne, IsInvoice, BelongsTo, Described
<1>7. StateOK' /\ Busy' /\ \A d : ~Ready(d)'
  BY <1>2, StatesDiffer DEF StateOK, InvoiceSteps, Busy, Ready
<1> QED BY <1>1, <1>3, <1>4, <1>6, <1>7 DEF Milder

LEMMA InvoiceTypedStep ==
    ASSUME DialoguesAssumption, DialoguesInv, state \in {Invoice("description"), Invoice("fee_mode")},
           NEW keys, keys \subseteq {"description", "fee_mode"},
           state = Invoice("fee_mode") \/ "description" \in keys,
           \/ data' = Update(keys, current) /\ state' \in {Invoice("fee_mode"), Invoice("card")}
              /\ UNCHANGED current
           \/ Clear,
           AskNext, UNCHANGED <<tap, forms, orderly, acts, previews, lost>>
    PROVE  DialoguesInv'
<1>1. (\A d : Creating(d)' \subseteq Creating(d)) /\ NoNewAsks
  <2>1. IsInvoice(current)
    BY DEF DialoguesInv, InvoiceForm, InvoiceSteps
  <2> QED BY <2>1, SameTapsCreate, AsksLess DEF AskNext
<1>2. CASE data' = Update(keys, current) /\ state' \in {Invoice("fee_mode"), Invoice("card")} /\ UNCHANGED current
  <2>1. IsDict(data)' /\ StateOK' /\ InvoiceForm' /\ Busy' /\ Milder /\ \A d : ~Ready(d)'
    BY <1>2, InvoiceAnswer
  <2>2. Typed'
    BY <1>2, <2>1 DEF DialoguesInv, Typed, AskNext
  <2>3. ~FillingIn'
    BY <1>2, <2>2, NotFilling
  <2>4. TapsOK'
    BY <2>1, TapsKept DEF DialoguesInv, Longer
  <2> QED BY <1>1, <2>1, <2>2, <2>3, <2>4, NoPreviewStep
<1>3. CASE Clear
  <2>1. Typed'
    BY <1>3, NoDataFacts, Numbered DEF DialoguesInv, Typed, Clear, AskNext
  <2>2. StateOK' /\ InvoiceForm' /\ Busy' /\ Milder /\ ~FillingIn' /\ \A d : ~Ready(d)'
    BY <1>3, <2>1, Cleared
  <2>3. TapsOK'
    BY <2>2, TapsKept DEF DialoguesInv, Longer
  <2> QED BY <1>1, <2>1, <2>2, <2>3, NoPreviewStep
<1> QED BY <1>2, <1>3

LEMMA DescriptionStep ==
    ASSUME DialoguesAssumption, DialoguesInv, InvoiceDescription
    PROVE  DialoguesInv'
<1>1. state = Invoice("description") /\ AskNext /\ UNCHANGED <<tap, forms, orderly, acts, previews, lost>>
  BY DEF InvoiceDescription
<1>2. \/ state' = Invoice("fee_mode") /\ data' = Update({"description"}, current) /\ UNCHANGED current
      \/ state' = Invoice("card") /\ data' = Update({"description", "fee_mode"}, current) /\ UNCHANGED current
      \/ Clear
  BY DEF InvoiceDescription, CardsOrNone
<1> QED BY <1>1, <1>2, InvoiceTypedStep

LEMMA FeeModeTextStep ==
    ASSUME DialoguesAssumption, DialoguesInv, InvoiceFeeModeText
    PROVE  DialoguesInv'
<1>1. state = Invoice("fee_mode") /\ AskNext /\ UNCHANGED <<tap, forms, orderly, acts, previews, lost>>
  BY DEF InvoiceFeeModeText
<1>2. \/ state' = Invoice("card") /\ data' = Update({"fee_mode"}, current) /\ UNCHANGED current
      \/ Clear
  BY DEF InvoiceFeeModeText, CardsOrNone
<1> QED BY <1>1, <1>2, InvoiceTypedStep

LEMMA TapFeeModeStep ==
    ASSUME DialoguesAssumption, DialoguesInv, NEW t \in Taps, TapFeeMode(t)
    PROVE  DialoguesInv'
<1>1. /\ tap[t] = NoTap /\ state = Invoice("fee_mode") /\ state' = Invoice("fee_mode")
      /\ data' = Update({"fee_mode"}, current)
      /\ tap' = [tap EXCEPT ![t] = [at |-> "cards", read |-> NoData, tag |-> current]]
      /\ orderly' \in BOOLEAN /\ UNCHANGED <<forms, current, asked, acts, previews, lost>>
  BY DEF TapFeeMode, Wait
<1>2. /\ IsDict(data)' /\ StateOK' /\ InvoiceForm' /\ Busy' /\ Milder /\ \A d : ~Ready(d)'
      /\ IsInvoice(current) /\ HasAmount(data') /\ data'["amount_toman"] = current /\ "description" \in DOMAIN data'
  BY <1>1, InvoiceAnswer
<1>3. /\ tap'[t].at = "cards" /\ tap'[t].tag = current
      /\ \A u \in Taps \ {t} : tap'[u] = tap[u]
      /\ tap' = [u \in Taps |-> tap'[u]]
      /\ \A u \in Taps : /\ tap'[u] = [at |-> tap'[u].at, read |-> tap'[u].read, tag |-> tap'[u].tag]
                         /\ IsDict(tap'[u].read) /\ tap'[u].tag \in 0 .. Len(forms')
  BY <1>1, NoDataFacts, TapGoesOn DEF DialoguesInv, Typed, Longer
<1>4. Typed'
  BY <1>1, <1>2, <1>3 DEF DialoguesInv, Typed
<1>5. TapOK(tap[t])'
  BY <1>1, <1>2, <1>3 DEF TapOK, IsInvoice, BelongsTo, Described
<1>6. TapsOK'
  BY <1>1, <1>2, <1>3, <1>5, OtherTapsKept DEF DialoguesInv, Longer
<1>7. (\A d : Creating(d)' \subseteq Creating(d)) /\ NoNewAsks
  BY <1>1, <1>3, AsksLess DEF Creating
<1>8. ~FillingIn'
  BY <1>1, <1>4, NotFilling
<1> QED BY <1>1, <1>2, <1>4, <1>6, <1>7, <1>8, NoPreviewStep

LEMMA FeeModeCardsStep ==
    ASSUME DialoguesAssumption, DialoguesInv, NEW t \in Taps, FeeModeCards(t)
    PROVE  DialoguesInv'
<1>1. /\ tap[t].at = "cards"
      /\ tap' = [tap EXCEPT ![t] = [at |-> "prompt", read |-> NoData, tag |-> current']]
      /\ UNCHANGED <<forms, asked, orderly, acts, previews, lost>>
      /\ \/ state' = Invoice("card") /\ data' = data /\ current' = tap[t].tag
         \/ Clear
  BY DEF FeeModeCards, ReplyLater, CardsOrNone
<1>2. PICK d : d = tap[t].tag
  OBVIOUS
<1>3. IsInvoice(d) /\ BelongsTo(data, d) /\ Described(data) /\ "invoice" \in Kinds
  BY <1>1, <1>2, Numbered DEF DialoguesInv, TapsOK, TapOK, IsInvoice
<1>4. PICK e \in 0 .. Len(forms') : e = current' /\ (e = 0 \/ IsInvoice(e)) /\ (~Clear => e = d)
  BY <1>1, <1>2, <1>3, Numbered DEF Clear, IsInvoice, DialoguesInv
<1>5. Milder /\ Longer
  BY <1>1, ClearedIsMilder DEF Milder, Longer
<1>6. /\ TapsOK' /\ tap'[t].tag = e
      /\ \A u \in Taps \ {t} : tap'[u] = tap[u]
      /\ tap' = [u \in Taps |-> tap'[u]]
      /\ \A u \in Taps : /\ tap'[u] = [at |-> tap'[u].at, read |-> tap'[u].read, tag |-> tap'[u].tag]
                         /\ IsDict(tap'[u].read) /\ tap'[u].tag \in 0 .. Len(forms')
      /\ \A c : Creating(c)' = Creating(c) \ {t}
  BY <1>1, <1>4, <1>5, Replies DEF DialoguesInv
<1>7. Typed'
  BY <1>1, <1>4, <1>6, NoDataFacts DEF DialoguesInv, Typed, Clear
<1>8. StateOK' /\ InvoiceForm' /\ Busy' /\ ~FillingIn' /\ \A c : ~Ready(c)'
  <2>1. CASE Clear
    BY <1>7, <2>1, Cleared
  <2>2. CASE ~Clear
    <3>1. state' = Invoice("card") /\ data' = data /\ current' = d
      BY <1>1, <1>2, <2>2
    <3>2. StateOK' /\ Busy' /\ ~FillingIn' /\ \A c : ~Ready(c)'
      BY <1>3, <1>7, <3>1, NotFilling, StatesDiffer DEF StateOK, InvoiceSteps, Busy, Ready
    <3>3. InvoiceForm'
      BY <1>1, <1>3, <3>1, StatesDiffer
      DEF DialoguesInv, InvoiceForm, OfOne, IsInvoice, BelongsTo, Described
    <3> QED BY <3>2, <3>3
  <2> QED BY <2>1, <2>2
<1>9. NoNewAsks
  BY <1>1, <1>4, <1>6, AsksLess
<1>10. \A c : Creating(c)' \subseteq Creating(c)
  BY <1>6
<1> QED BY <1>1, <1>6, <1>7, <1>8, <1>9, <1>10, NoPreviewStep

LEMMA TapCardStep ==
    ASSUME DialoguesAssumption, DialoguesInv, NEW t \in Taps, TapCard(t)
    PROVE  DialoguesInv'
<1>1. /\ tap[t] = NoTap /\ state = Invoice("card")
      /\ tap' = [tap EXCEPT ![t] = [at |-> "preview", read |-> data, tag |-> current]]
      /\ orderly' \in BOOLEAN /\ UNCHANGED <<state, data, forms, current, asked, acts, previews, lost>>
  BY DEF TapCard, Wait
<1>2. IsInvoice(current) /\ BelongsTo(data, current) /\ Described(data) /\ OfOne(data) /\ IsDict(data)
  BY <1>1, StatesDiffer DEF DialoguesInv, InvoiceForm, InvoiceSteps, Typed
<1>3. /\ tap'[t].at = "preview" /\ tap'[t].read = data /\ tap'[t].tag = current
      /\ \A u \in Taps \ {t} : tap'[u] = tap[u]
      /\ tap' = [u \in Taps |-> tap'[u]]
      /\ \A u \in Taps : /\ tap'[u] = [at |-> tap'[u].at, read |-> tap'[u].read, tag |-> tap'[u].tag]
                         /\ IsDict(tap'[u].read) /\ tap'[u].tag \in 0 .. Len(forms')
  BY <1>1, <1>2, TapGoesOn DEF DialoguesInv, Typed, Longer
<1>4. Typed'
  BY <1>1, <1>3 DEF DialoguesInv, Typed
<1>5. TapOK(tap[t])'
  BY <1>1, <1>2, <1>3 DEF TapOK, IsInvoice, BelongsTo, Described, OfOne
<1>6. ~FillingIn' /\ Milder
  BY <1>1, <1>4, NotFilling DEF Milder
<1>7. TapsOK'
  BY <1>1, <1>3, <1>5, <1>6, OtherTapsKept DEF DialoguesInv, Longer
<1>8. (\A d : Creating(d)' \subseteq Creating(d)) /\ NoNewAsks
  BY <1>1, <1>3, AsksLess DEF Creating
<1>9. StateOK' /\ Busy' /\ \A d : ~Ready(d)'
  BY <1>1, <1>2, Numbered, StatesDiffer DEF StateOK, InvoiceSteps, Busy, Ready, IsInvoice, DialoguesInv
<1>10. InvoiceForm'
  BY <1>1 DEF DialoguesInv, InvoiceForm, OfOne, IsInvoice
<1> QED BY <1>1, <1>4, <1>6, <1>7, <1>8, <1>9, <1>10, NoPreviewStep

\* prepare_invoice_preview, with a dictionary read earlier in the same form.
LEMMA PreviewShown ==
    ASSUME DialoguesAssumption, DialoguesInv, NEW read, NEW tag, ShowPreview(read, tag), UNCHANGED forms,
           IsInvoice(tag), BelongsTo(data, tag), Described(data), OfOne(read), BelongsTo(read, tag)
    PROVE  /\ IsDict(data)' /\ StateOK' /\ InvoiceForm' /\ Busy' /\ Milder
           /\ tag \in Numbers /\ current' = tag /\ state' = Invoice("confirm")
           /\ previews' = [previews EXCEPT ![tag] = @ + 1]
           /\ \A d : Ready(d)' => d = tag
<1>1. HasAmount(read) /\ read["amount_toman"] = tag
  BY DEF ShowPreview, HasAmount, BelongsTo
<1>2. PICK fee : fee = IF "fee_mode" \in DOMAIN read THEN read["fee_mode"] ELSE tag
  OBVIOUS
<1>3. fee = tag
  BY <1>1, <1>2 DEF OfOne, FormKeys
<1>4. /\ state' = Invoice("confirm") /\ current' = tag
      /\ data' = Put({"resolved_fee_mode"}, tag, Update({"selected_card_id"}, tag))
      /\ previews' = [previews EXCEPT ![tag] = @ + 1]
  BY <1>1, <1>2, <1>3 DEF ShowPreview
<1>5. tag \in Numbers /\ IsDict(data) /\ "invoice" \in Kinds
  BY Numbered DEF DialoguesInv, Typed, IsInvoice
<1>6. /\ IsDict(data') /\ DOMAIN data' = {"resolved_fee_mode", "selected_card_id"} \cup DOMAIN data
      /\ \A key \in {"resolved_fee_mode", "selected_card_id"} : data'[key] = tag
      /\ \A key \in DOMAIN data \ {"resolved_fee_mode", "selected_card_id"} : data'[key] = data[key]
  BY <1>4, <1>5 DEF Put, Update, IsDict
<1>7. /\ HasAmount(data') <=> HasAmount(data)
      /\ HasAmount(data') => data'["amount_toman"] = tag /\ data["amount_toman"] = tag
      /\ DOMAIN data \subseteq DOMAIN data'
  BY <1>6 DEF HasAmount, BelongsTo
<1>8. OfOne(data')
  BY <1>6, <1>7 DEF OfOne, DialoguesInv, InvoiceForm
<1>9. HasAmount(data') => Full(data')
  BY <1>6, <1>7 DEF Full, InvoiceKeys, Described, HasAmount
<1>10. InvoiceForm'
  BY <1>4, <1>8, <1>9, StatesDiffer DEF InvoiceForm, OfOne, IsInvoice
<1>11. StateOK' /\ Busy' /\ Milder
  BY <1>4, <1>5, <1>7, StatesDiffer DEF StateOK, InvoiceSteps, Busy, Milder
<1>12. \A d : Ready(d)' => d = tag
  BY <1>7 DEF Ready, Full, InvoiceKeys, HasAmount
<1> QED BY <1>4, <1>5, <1>6, <1>10, <1>11, <1>12

LEMMA PreviewCounted ==
    ASSUME DialoguesAssumption, DialoguesInv, NEW tag, IsInvoice(tag), ~FillingIn', NoNewAsks,
           \A d : Creating(d)' \subseteq Creating(d), \A d : Ready(d)' => d = tag,
           previews' = [previews EXCEPT ![tag] = @ + 1], UNCHANGED <<forms, acts, lost>>
    PROVE  ActsOK' /\ Counts'
<1>1. ActsOK'
  BY DEF ActsOK, Filled, DialoguesInv
<1> SUFFICES ASSUME NEW d \in 1 .. Len(forms) PROVE Counted(d)'
  BY <1>1 DEF Counts
<1>2. d \in Numbers /\ tag \in Numbers /\ acts[d] \in Seq(Filled(d)) /\ Counted(d)
  BY Numbered DEF DialoguesInv, ActsOK, Counts, IsInvoice
<1>3. Len(acts[d]) \in Nat /\ lost[d] \in Nat /\ previews[d] \in Nat
  BY <1>2 DEF DialoguesInv, Typed
<1>4. previews'[d] = IF d = tag THEN previews[d] + 1 ELSE previews[d]
  BY <1>2 DEF DialoguesInv, Typed
<1>5. /\ Cardinality(Creating(d)') <= Cardinality(Creating(d))
      /\ Cardinality(Creating(d)) \in Nat /\ Cardinality(Creating(d)') \in Nat
  BY ClaimsCounted, FS_Subset
<1>6. Claims(d)' <= Claims(d) + (IF d = tag THEN 1 ELSE 0) /\ Claims(d) \in Nat /\ Claims(d)' \in Nat
  <2>1. Ready(d)' => d = tag
    OBVIOUS
  <2>2. Claims(d)' = Cardinality(Creating(d)') + (IF Ready(d)' THEN 1 ELSE 0)
    BY DEF Claims
  <2>3. Claims(d) = Cardinality(Creating(d)) + (IF Ready(d) THEN 1 ELSE 0)
    BY DEF Claims
  <2> QED BY <1>5, <2>1, <2>2, <2>3
<1>7. CASE forms[d] = "invoice"
  BY <1>2, <1>3, <1>4, <1>6, <1>7 DEF Counted
<1>8. CASE forms[d] # "invoice"
  <2>1. Open(d)' => Open(d)
    BY OpenLess
  <2> QED BY <1>2, <1>3, <1>8, <2>1 DEF Counted
<1> QED BY <1>7, <1>8

LEMMA CardTextStep ==
    ASSUME DialoguesAssumption, DialoguesInv, InvoiceCardText
    PROVE  DialoguesInv'
<1>1. state = Invoice("card") /\ ShowPreview(data, current) /\ AskNext /\ UNCHANGED <<tap, forms, orderly, acts, lost>>
  BY DEF InvoiceCardText
<1>2. IsInvoice(current) /\ BelongsTo(data, current) /\ Described(data) /\ OfOne(data)
  BY <1>1, StatesDiffer DEF DialoguesInv, InvoiceForm, InvoiceSteps
<1>3. PICK tag, read : tag = current /\ read = data
  OBVIOUS
<1>4. /\ IsDict(data)' /\ StateOK' /\ InvoiceForm' /\ Busy' /\ Milder
      /\ tag \in Numbers /\ current' = tag /\ state' = Invoice("confirm")
      /\ previews' = [previews EXCEPT ![tag] = @ + 1]
      /\ \A d : Ready(d)' => d = tag
  BY <1>1, <1>2, <1>3, PreviewShown
<1>5. Typed'
  BY <1>1, <1>3, <1>4 DEF DialoguesInv, Typed, AskNext
<1>6. TapsOK'
  BY <1>1, <1>4, TapsKept DEF DialoguesInv, Longer
<1>7. (\A d : Creating(d)' \subseteq Creating(d)) /\ NoNewAsks /\ ~FillingIn'
  BY <1>1, <1>2, <1>4, <1>5, SameTapsCreate, AsksLess, NotFilling DEF AskNext
<1>8. ActsOK' /\ Counts'
  BY <1>1, <1>2, <1>3, <1>4, <1>7, PreviewCounted
<1> QED BY <1>4, <1>5, <1>6, <1>8 DEF DialoguesInv

LEMMA CardPreviewStep ==
    ASSUME DialoguesAssumption, DialoguesInv, NEW t \in Taps, CardPreview(t)
    PROVE  DialoguesInv'
<1>1. PICK tag, read : tag = tap[t].tag /\ read = tap[t].read
  OBVIOUS
<1>2. /\ tap[t].at = "preview"
      /\ tap' = [tap EXCEPT ![t] = [at |-> "prompt", read |-> NoData, tag |-> tag]]
      /\ UNCHANGED <<forms, asked, orderly, acts, lost>>
  BY <1>1 DEF CardPreview, ReplyLater
<1>3. /\ IsInvoice(tag) /\ BelongsTo(data, tag) /\ Described(data) /\ OfOne(read) /\ BelongsTo(read, tag)
      /\ tag \in 0 .. Len(forms') /\ Longer
  BY <1>1, <1>2 DEF DialoguesInv, TapsOK, TapOK, Typed, Longer
<1>4. Milder => /\ TapsOK' /\ tap'[t].tag = tag /\ tap'[t].at = "prompt"
                /\ \A u \in Taps \ {t} : tap'[u] = tap[u]
                /\ tap' = [u \in Taps |-> tap'[u]]
                /\ \A u \in Taps : /\ tap'[u] = [at |-> tap'[u].at, read |-> tap'[u].read, tag |-> tap'[u].tag]
                                   /\ IsDict(tap'[u].read) /\ tap'[u].tag \in 0 .. Len(forms')
                /\ \A c : Creating(c)' = Creating(c) \ {t}
  BY <1>2, <1>3, Replies DEF DialoguesInv
<1>5. Milder => NoNewAsks
  BY <1>2, <1>3, <1>4, AsksLess
<1>6. CASE ShowPreview(tap[t].read, tap[t].tag)
  <2>1. /\ IsDict(data)' /\ StateOK' /\ InvoiceForm' /\ Busy' /\ Milder
        /\ tag \in Numbers /\ current' = tag /\ state' = Invoice("confirm")
        /\ previews' = [previews EXCEPT ![tag] = @ + 1]
        /\ \A d : Ready(d)' => d = tag
    BY <1>1, <1>2, <1>3, <1>6, PreviewShown
  <2>2. Typed'
    BY <1>2, <1>3, <1>4, <2>1 DEF DialoguesInv, Typed
  <2>3. (\A d : Creating(d)' \subseteq Creating(d)) /\ ~FillingIn'
    BY <1>4, <2>1, <2>2, NotFilling
  <2>4. ActsOK' /\ Counts'
    BY <1>2, <1>3, <1>5, <2>1, <2>3, PreviewCounted
  <2> QED BY <1>4, <2>1, <2>2, <2>4 DEF DialoguesInv
<1>7. CASE UNCHANGED <<state, data, current, previews>>
  <2>1. (FillingIn' <=> FillingIn) /\ \A d : Ready(d)' <=> Ready(d)
    BY <1>2, <1>7 DEF FillingIn, Ready
  <2>2. StateOK' /\ InvoiceForm' /\ Milder
    BY <1>2, <1>7, <2>1 DEF DialoguesInv, StateOK, InvoiceForm, OfOne, IsInvoice, Milder
  <2>3. Typed'
    BY <1>2, <1>4, <1>7, <2>2 DEF DialoguesInv, Typed
  <2>4. Busy'
    BY <1>2, <1>4, <1>7, <2>2 DEF DialoguesInv, Busy
  <2>5. \A d \in 1 .. Len(forms) : Claims(d)' <= Claims(d) /\ (Open(d)' => Open(d))
    BY <1>2, <1>4, <1>5, <1>7, <2>1, <2>2, ClaimsLess, OpenLess
  <2>6. ActsOK' /\ Counts'
    BY <1>2, <1>7, <2>5, CountsKept DEF DialoguesInv
  <2> QED BY <1>4, <2>2, <2>3, <2>4, <2>6 DEF DialoguesInv
<1> QED BY <1>6, <1>7 DEF CardPreview

LEMMA InvoiceState ==
    ASSUME DialoguesAssumption, DialoguesInv, NEW s, state = Invoice(s)
    PROVE  "invoice" \in Kinds /\ ~FillingIn
<1>1. ~FillingIn
  BY NotInvoice, Numbered DEF FillingIn, DialoguesInv
<1> QED BY <1>1, StatesDiffer DEF DialoguesInv, StateOK

LEMMA TapConfirmStep ==
    ASSUME DialoguesAssumption, DialoguesInv, NEW t \in Taps, TapConfirm(t)
    PROVE  DialoguesInv'
<1>1. /\ tap[t] = NoTap /\ state = Invoice("confirm") /\ state' = Invoice("processing")
      /\ tap' = [tap EXCEPT ![t] = [at |-> "create", read |-> data, tag |-> current]]
      /\ orderly' \in BOOLEAN /\ UNCHANGED <<data, forms, current, asked, acts, previews, lost>>
  BY DEF TapConfirm, WhileIssuing, Wait
<1>2. /\ OfOne(data) /\ IsDict(data) /\ (HasAmount(data) => Full(data)) /\ "invoice" \in Kinds
      /\ IsInvoice(current)
  BY <1>1, InvoiceState, StatesDiffer DEF DialoguesInv, InvoiceForm, InvoiceSteps, Typed
<1>3. /\ tap'[t].at = "create" /\ tap'[t].read = data /\ tap'[t].tag = current
      /\ \A u \in Taps \ {t} : tap'[u] = tap[u]
      /\ tap' = [u \in Taps |-> tap'[u]]
      /\ \A u \in Taps : /\ tap'[u] = [at |-> tap'[u].at, read |-> tap'[u].read, tag |-> tap'[u].tag]
                         /\ IsDict(tap'[u].read) /\ tap'[u].tag \in 0 .. Len(forms')
  BY <1>1, <1>2, TapGoesOn DEF DialoguesInv, Typed, Longer
<1>4. Typed'
  BY <1>1, <1>3 DEF DialoguesInv, Typed
<1>5. TapOK(tap[t])'
  BY <1>1, <1>2, <1>3 DEF TapOK, IsInvoice, BelongsTo, OfOne
<1>6. ~FillingIn' /\ Milder
  BY <1>1, <1>4, NotFilling DEF Milder
<1>7. TapsOK'
  BY <1>1, <1>3, <1>5, <1>6, OtherTapsKept DEF DialoguesInv, Longer
<1>8. StateOK' /\ Busy' /\ \A d : ~Ready(d)'
  BY <1>1, <1>2, <1>3, StatesDiffer DEF StateOK, InvoiceSteps, Busy, Ready
<1>9. InvoiceForm'
  BY <1>1, <1>2, StatesDiffer DEF DialoguesInv, InvoiceForm, OfOne, IsInvoice
<1>10. \A d \in 1 .. Len(forms) : Claims(d)' <= Claims(d) /\ (Open(d)' => Open(d))
  <2> SUFFICES ASSUME NEW d \in 1 .. Len(forms) PROVE Claims(d)' <= Claims(d) /\ (Open(d)' => Open(d))
    OBVIOUS
  <2>1. Open(d)' => Open(d)
    <3>1. NoNewAsks
      BY <1>1, <1>3, AsksLess
    <3> QED BY <1>1, <1>6, <3>1, OpenLess
  <2>2. Claims(d)' <= Claims(d)
    <3>1. CASE Ready(d)
      <4>1. Creating(d)' \subseteq Creating(d) \cup {t}
        BY <1>3 DEF Creating
      <4>2. /\ IsFiniteSet(Creating(d)) /\ IsFiniteSet(Creating(d)') /\ IsFiniteSet(Creating(d) \cup {t})
            /\ Cardinality(Creating(d)) \in Nat /\ Cardinality(Creating(d)') \in Nat
            /\ Cardinality(Creating(d) \cup {t}) <= Cardinality(Creating(d)) + 1
            /\ Cardinality(Creating(d) \cup {t}) \in Nat
        <5>1. /\ IsFiniteSet(Creating(d)) /\ IsFiniteSet(Creating(d)')
              /\ Cardinality(Creating(d)) \in Nat /\ Cardinality(Creating(d)') \in Nat
          BY ClaimsCounted
        <5>2. /\ IsFiniteSet(Creating(d) \cup {t})
              /\ Cardinality(Creating(d) \cup {t}) \in {Cardinality(Creating(d)), Cardinality(Creating(d)) + 1}
          BY <5>1, FS_AddElement
        <5> QED BY <5>1, <5>2
      <4>3. Cardinality(Creating(d)') <= Cardinality(Creating(d) \cup {t})
        BY <4>1, <4>2, FS_Subset
      <4>4. Claims(d) = Cardinality(Creating(d)) + 1 /\ Claims(d)' = Cardinality(Creating(d)')
        <5>1. ~Ready(d)'
          BY <1>8
        <5>2. Claims(d)' = Cardinality(Creating(d)') + (IF Ready(d)' THEN 1 ELSE 0)
          BY DEF Claims
        <5>3. Claims(d) = Cardinality(Creating(d)) + (IF Ready(d) THEN 1 ELSE 0)
          BY DEF Claims
        <5>4. Cardinality(Creating(d)') \in Nat
          BY <4>2
        <5> QED BY <3>1, <5>1, <5>2, <5>3, <5>4
      <4> QED BY <4>2, <4>3, <4>4
    <3>2. CASE ~Ready(d)
      <4>1. Creating(d)' \subseteq Creating(d)
        BY <1>1, <1>3, <3>2 DEF Creating, Ready
      <4> QED BY <4>1, <1>8, ClaimsLess
    <3> QED BY <3>1, <3>2
  <2> QED BY <2>1, <2>2
<1>11. ActsOK' /\ Counts'
  BY <1>1, <1>10, CountsKept DEF DialoguesInv
<1> QED BY <1>4, <1>7, <1>8, <1>9, <1>11 DEF DialoguesInv

LEMMA RowGoesOn ==
    ASSUME Typed, NEW t \in Taps, NEW at
    PROVE  [tap EXCEPT ![t].at = at] = [tap EXCEPT ![t] = [at |-> at, read |-> tap[t].read, tag |-> tap[t].tag]]
<1>1. PICK row : row = tap[t]
  OBVIOUS
<1>2. row = [at |-> row.at, read |-> row.read, tag |-> row.tag]
  BY <1>1 DEF Typed
<1>3. [row EXCEPT !.at = at] = [at |-> at, read |-> row.read, tag |-> row.tag]
  BY <1>2
<1>4. [tap EXCEPT ![t].at = at] = [tap EXCEPT ![t] = [row EXCEPT !.at = at]]
  BY <1>1
<1> QED BY <1>1, <1>3, <1>4

LEMMA OneLess ==
    ASSUME DialoguesAssumption, NEW d, NEW t, t \in Creating(d), Creating(d)' = Creating(d) \ {t}
    PROVE  Cardinality(Creating(d)') = Cardinality(Creating(d)) - 1
BY ClaimsCounted, FS_RemoveElement

LEMMA IssueStep ==
    ASSUME DialoguesAssumption, DialoguesInv, NEW t \in Taps, IssueInvoice(t)
    PROVE  DialoguesInv'
<1>1. PICK read, d, form : /\ read = tap[t].read /\ d = read["amount_toman"]
                           /\ form = Restrict(read, InvoiceKeys)
  OBVIOUS
<1>2. /\ tap[t].at = "create" /\ InvoiceKeys \subseteq DOMAIN read
      /\ Act(d, form) /\ tap' = [tap EXCEPT ![t].at = "issued"]
      /\ UNCHANGED <<state, data, forms, current, asked, orderly, previews, lost>>
  BY <1>1 DEF IssueInvoice
<1>3. /\ OfOne(read) /\ HasAmount(read) /\ Full(read) /\ IsInvoice(d) /\ IsDict(read)
  BY <1>1, <1>2 DEF DialoguesInv, TapsOK, TapOK, OfOne, HasAmount, InvoiceKeys, Full, Typed
<1>4. form \in Filled(d)
  <2>1. \A key \in InvoiceKeys : read[key] = d
    BY <1>1, <1>2, <1>3 DEF OfOne, FormKeys
  <2>2. form = [key \in InvoiceKeys |-> read[key]]
    BY <1>1, <1>2, RestrictFacts
  <2>3. form = [key \in InvoiceKeys |-> d]
    BY <2>1, <2>2
  <2>4. Given(forms[d]) = InvoiceKeys
    BY <1>3 DEF Given, IsInvoice
  <2> QED BY <2>3, <2>4 DEF Filled
<1>5. d \in 1 .. Len(forms) /\ forms[d] = "invoice" /\ d \in Numbers
  BY <1>3, Numbered DEF IsInvoice, DialoguesInv
<1>6. /\ ActsOK' /\ acts' = [e \in Numbers |-> acts'[e]] /\ Len(acts'[d]) = Len(acts[d]) + 1
      /\ \A e \in Numbers \ {d} : acts'[e] = acts[e]
  BY <1>2, <1>4, <1>5, ActDone DEF DialoguesInv
<1>7. tap' = [tap EXCEPT ![t] = [at |-> "issued", read |-> read, tag |-> tap[t].tag]]
  BY <1>1, <1>2, RowGoesOn DEF DialoguesInv
<1>8. /\ tap'[t].at = "issued" /\ tap'[t].read = read /\ tap'[t].tag = tap[t].tag
      /\ \A u \in Taps \ {t} : tap'[u] = tap[u]
      /\ tap' = [u \in Taps |-> tap'[u]]
      /\ \A u \in Taps : /\ tap'[u] = [at |-> tap'[u].at, read |-> tap'[u].read, tag |-> tap'[u].tag]
                         /\ IsDict(tap'[u].read) /\ tap'[u].tag \in 0 .. Len(forms')
  BY <1>2, <1>3, <1>7, TapGoesOn DEF DialoguesInv, Typed, Longer
<1>9. Typed'
  BY <1>2, <1>6, <1>8 DEF DialoguesInv, Typed
<1>10. (FillingIn' <=> FillingIn) /\ \A e : Ready(e)' <=> Ready(e)
  BY <1>2 DEF FillingIn, Ready
<1>11. StateOK' /\ InvoiceForm' /\ Milder
  BY <1>2, <1>10 DEF DialoguesInv, StateOK, InvoiceForm, OfOne, IsInvoice, Milder
<1>12. Busy'
  BY <1>8 DEF Busy
<1>13. TapOK(tap[t])'
  BY <1>1, <1>2, <1>3, <1>8 DEF DialoguesInv, TapsOK, TapOK, OfOne, IsInvoice, BelongsTo
<1>14. TapsOK'
  BY <1>2, <1>8, <1>11, <1>13, OtherTapsKept DEF DialoguesInv, Longer
<1>15. \A e : Creating(e)' = Creating(e) \ {t}
  BY <1>8 DEF Creating
<1>16. Counts'
  <2> SUFFICES ASSUME NEW e \in 1 .. Len(forms) PROVE Counted(e)'
    BY <1>2 DEF Counts
  <2>1. e \in Numbers /\ acts[e] \in Seq(Filled(e)) /\ Counted(e) /\ acts[d] \in Seq(Filled(d))
    BY <1>5, Numbered DEF DialoguesInv, ActsOK, Counts
  <2>2. /\ Len(acts[e]) \in Nat /\ lost[e] \in Nat /\ previews[e] \in Nat /\ lost' = lost
        /\ previews' = previews /\ forms' = forms
    BY <1>2, <2>1 DEF DialoguesInv, Typed
  <2>3. CASE e = d
    <3>1. t \in Creating(e)
      BY <1>1, <1>2, <1>3, <2>3 DEF Creating
    <3>2. Cardinality(Creating(e)') = Cardinality(Creating(e)) - 1
      BY <1>15, <3>1, OneLess
    <3>3. Claims(e)' = Claims(e) - 1 /\ Claims(e) \in Nat
      <4>1. Ready(e)' <=> Ready(e)
        BY <1>10
      <4> QED BY <3>2, <4>1, ClaimsCounted DEF Claims
    <3> QED BY <1>5, <1>6, <2>1, <2>2, <2>3, <3>3 DEF Counted
  <2>4. CASE e # d
    <3>1. acts'[e] = acts[e]
      BY <1>6, <2>1, <2>4
    <3>2. Claims(e)' <= Claims(e) /\ Claims(e) \in Nat /\ Claims(e)' \in Nat
      BY <1>10, <1>15, ClaimsLess, ClaimsCounted
    <3>3. Open(e)' => Open(e)
      <4>1. NoNewAsks
        BY <1>2, <1>8, AsksLess
      <4> QED BY <1>2, <1>10, <4>1, OpenLess
    <3> QED BY <2>1, <2>2, <3>1, <3>2, <3>3 DEF Counted
  <2> QED BY <2>3, <2>4
<1> QED BY <1>6, <1>9, <1>11, <1>12, <1>14, <1>16 DEF DialoguesInv

LEMMA ClearIssuedStep ==
    ASSUME DialoguesAssumption, DialoguesInv, NEW t \in Taps, ClearIssued(t)
    PROVE  DialoguesInv'
<1>1. /\ tap[t].at = "issued" /\ Clear /\ tap' = [tap EXCEPT ![t].at = "answer"]
      /\ UNCHANGED <<forms, asked, orderly, acts, previews, lost>>
  BY DEF ClearIssued
<1>2. PICK read, tag : read = tap[t].read /\ tag = tap[t].tag
  OBVIOUS
<1>3. /\ IsDict(read) /\ tag \in 0 .. Len(forms')
      /\ tap' = [tap EXCEPT ![t] = [at |-> "answer", read |-> read, tag |-> tag]]
  <2>1. IsDict(read) /\ tag \in 0 .. Len(forms')
    BY <1>1, <1>2 DEF DialoguesInv, Typed
  <2> QED BY <1>1, <1>2, <2>1, RowGoesOn DEF DialoguesInv
<1>4. /\ tap'[t].at = "answer" /\ tap'[t].read = read /\ tap'[t].tag = tag
      /\ \A u \in Taps \ {t} : tap'[u] = tap[u]
      /\ tap' = [u \in Taps |-> tap'[u]]
      /\ \A u \in Taps : /\ tap'[u] = [at |-> tap'[u].at, read |-> tap'[u].read, tag |-> tap'[u].tag]
                         /\ IsDict(tap'[u].read) /\ tap'[u].tag \in 0 .. Len(forms')
  BY <1>1, <1>3, TapGoesOn DEF DialoguesInv, Longer
<1>5. Typed'
  <2>1. 0 \in 0 .. Len(forms')
    BY <1>1, Numbered DEF DialoguesInv
  <2> QED BY <1>1, <1>4, <2>1, NoDataFacts DEF DialoguesInv, Typed, Clear
<1>6. StateOK' /\ InvoiceForm' /\ Busy' /\ Milder /\ ~FillingIn' /\ \A d : ~Ready(d)'
  BY <1>1, <1>5, Cleared
<1>7. TapOK(tap[t])'
  BY <1>1, <1>2, <1>4, NoDataFacts DEF DialoguesInv, TapsOK, TapOK, IsInvoice, Clear, HasAmount
<1>8. TapsOK'
  BY <1>1, <1>4, <1>6, <1>7, OtherTapsKept DEF DialoguesInv, Longer
<1>9. (\A d : Creating(d)' \subseteq Creating(d)) /\ NoNewAsks
  BY <1>1, <1>4, AsksLess DEF Creating
<1> QED BY <1>1, <1>5, <1>6, <1>8, <1>9, NoPreviewStep

LEMMA AnsweredStep ==
    ASSUME DialoguesAssumption, DialoguesInv, NEW t \in Taps, Answered(t)
    PROVE  DialoguesInv'
<1>1. /\ tap[t].at = "answer" /\ tap' = [tap EXCEPT ![t] = NoTap]
      /\ UNCHANGED <<state, data, forms, current, asked, orderly, acts, previews, lost>>
  BY DEF Answered, Done
<1>2. /\ \A u \in Taps \ {t} : tap'[u] = tap[u]
      /\ tap' = [u \in Taps |-> tap'[u]]
      /\ \A u \in Taps : /\ tap'[u] = [at |-> tap'[u].at, read |-> tap'[u].read, tag |-> tap'[u].tag]
                         /\ IsDict(tap'[u].read) /\ tap'[u].tag \in 0 .. Len(forms')
      /\ tap'[t].at = "idle" /\ TapOK(tap[t])' /\ \A d : Creating(d)' = Creating(d) \ {t}
  BY <1>1, TapEnds DEF DialoguesInv, Longer
<1>3. Typed'
  BY <1>1, <1>2 DEF DialoguesInv, Typed
<1>4. (FillingIn' <=> FillingIn) /\ \A d : Ready(d)' <=> Ready(d)
  BY <1>1 DEF FillingIn, Ready
<1>5. StateOK' /\ InvoiceForm' /\ Milder
  BY <1>1, <1>4 DEF DialoguesInv, StateOK, InvoiceForm, OfOne, IsInvoice, Milder
<1>6. Busy'
  BY <1>1, <1>2 DEF DialoguesInv, Busy
<1>7. TapsOK'
  BY <1>1, <1>2, <1>5, OtherTapsKept DEF DialoguesInv, Longer
<1>8. NoNewAsks
  BY <1>1, <1>2, AsksLess
<1>9. \A d \in 1 .. Len(forms) : Claims(d)' <= Claims(d) /\ (Open(d)' => Open(d))
  BY <1>1, <1>2, <1>4, <1>8, ClaimsLess, OpenLess
<1>10. ActsOK' /\ Counts'
  BY <1>1, <1>9, CountsKept DEF DialoguesInv
<1> QED BY <1>3, <1>5, <1>6, <1>7, <1>10 DEF DialoguesInv

LEMMA ConfirmFailsStep ==
    ASSUME DialoguesAssumption, DialoguesInv, NEW t \in Taps, ConfirmFails(t)
    PROVE  DialoguesInv'
<1>1. PICK read, d, tag : read = tap[t].read /\ d = read["amount_toman"] /\ tag = tap[t].tag
  OBVIOUS
<1>2. /\ tap[t].at \in {"create", "issued", "answer"}
      /\ lost' = IF tap[t].at = "issued" THEN [lost EXCEPT ![d] = @ + 1] ELSE lost
      /\ state' = Invoice("confirm") /\ current' = tag
      /\ tap' = [tap EXCEPT ![t] = [at |-> "prompt", read |-> NoData, tag |-> tag]]
      /\ UNCHANGED <<data, forms, asked, orderly, acts, previews>>
  BY <1>1 DEF ConfirmFails, AfterFailure, ReplyLater
<1>3. /\ "invoice" \in Kinds
      /\ HasAmount(data) => Full(data)
      /\ tap[t].at \in {"create", "issued"} /\ HasAmount(data) =>
             HasAmount(read) /\ Full(read) /\ d = data["amount_toman"]
      /\ tap[t].at = "issued" => IsInvoice(d) /\ d \in Numbers
      /\ tap[t].at = "answer" => ~HasAmount(data)
      /\ IsInvoice(tag) /\ tag \in 0 .. Len(forms')
  <2>1. TapOK(tap[t])
    BY DEF DialoguesInv, TapsOK
  <2>2. tap[t].at = "issued" => IsInvoice(d)
    BY <1>1, <2>1 DEF TapOK, OfOne
  <2> QED BY <1>1, <1>2, <2>1, <2>2, Numbered DEF TapOK, BelongsTo, IsInvoice, DialoguesInv
<1>4. /\ \A u \in Taps \ {t} : tap'[u] = tap[u]
      /\ tap' = [u \in Taps |-> tap'[u]]
      /\ \A u \in Taps : /\ tap'[u] = [at |-> tap'[u].at, read |-> tap'[u].read, tag |-> tap'[u].tag]
                         /\ IsDict(tap'[u].read) /\ tap'[u].tag \in 0 .. Len(forms')
      /\ TapsOK' /\ tap'[t].tag = tag /\ \A e : Creating(e)' = Creating(e) \ {t}
  BY <1>2, <1>3, Replies DEF DialoguesInv, Longer, Milder
<1>5. lost' \in [Numbers -> Nat]
  BY <1>2, <1>3 DEF DialoguesInv, Typed
<1>6. Typed'
  BY <1>2, <1>3, <1>4, <1>5 DEF DialoguesInv, Typed
<1>7. ~FillingIn' /\ NoNewAsks
  BY <1>2, <1>3, <1>4, <1>6, NotFilling, AsksLess
<1>8. StateOK' /\ Busy'
  BY <1>2, <1>3, StatesDiffer DEF StateOK, InvoiceSteps, Busy
<1>9. InvoiceForm'
  BY <1>2, <1>3, StatesDiffer DEF DialoguesInv, InvoiceForm, OfOne, IsInvoice
<1>10. ActsOK'
  BY <1>2 DEF DialoguesInv, ActsOK, Filled
<1>11. Counts'
  <2> SUFFICES ASSUME NEW e \in 1 .. Len(forms) PROVE Counted(e)'
    BY <1>2 DEF Counts
  <2>1. e \in Numbers /\ acts[e] \in Seq(Filled(e)) /\ Counted(e)
    BY Numbered DEF DialoguesInv, ActsOK, Counts
  <2>2. /\ Len(acts[e]) \in Nat /\ lost[e] \in Nat /\ previews[e] \in Nat /\ acts' = acts
        /\ previews' = previews /\ forms' = forms
    BY <1>2, <2>1 DEF DialoguesInv, Typed
  <2>3. lost'[e] = lost[e] + (IF tap[t].at = "issued" /\ e = d THEN 1 ELSE 0)
    BY <1>2, <1>3, <2>1 DEF DialoguesInv, Typed
  <2>4. Open(e)' => Open(e)
    BY <1>2, <1>7, OpenLess
  <2>5. Claims(e)' <= Claims(e) + (IF tap[t].at = "issued" /\ e = d THEN 1 ELSE 0)
    <3>1. /\ Claims(e)' = Cardinality(Creating(e)') + (IF Ready(e)' THEN 1 ELSE 0)
          /\ Claims(e) = Cardinality(Creating(e)) + (IF Ready(e) THEN 1 ELSE 0)
      BY DEF Claims
    <3>2. /\ Cardinality(Creating(e)) \in Nat /\ Cardinality(Creating(e)') \in Nat
          /\ Cardinality(Creating(e)') <= Cardinality(Creating(e))
      BY <1>4, ClaimsCounted, FS_Subset
    <3>3. CASE ~Ready(e)'
      BY <3>1, <3>2, <3>3
    <3>4. CASE Ready(e)'
      <4>1. HasAmount(data) /\ data["amount_toman"] = e
        BY <1>2, <3>4 DEF Ready, Full, HasAmount, InvoiceKeys
      <4>2. tap[t].at \in {"create", "issued"} /\ e = d /\ Full(read)
        BY <1>2, <1>3, <4>1
      <4>3. CASE tap[t].at = "issued"
        BY <3>1, <3>2, <4>2, <4>3
      <4>4. CASE tap[t].at = "create"
        <5>1. t \in Creating(e)
          BY <1>1, <4>2, <4>4 DEF Creating
        <5>2. Cardinality(Creating(e)') = Cardinality(Creating(e)) - 1
          BY <1>4, <5>1, OneLess
        <5> QED BY <3>1, <3>2, <5>2
      <4> QED BY <4>2, <4>3, <4>4
    <3> QED BY <3>3, <3>4
  <2>6. Claims(e) \in Nat /\ Claims(e)' \in Nat
    BY ClaimsCounted
  <2>7. CASE forms[e] = "invoice"
    BY <2>1, <2>2, <2>3, <2>5, <2>6, <2>7 DEF Counted
  <2>8. CASE forms[e] # "invoice"
    <3>1. lost'[e] >= lost[e]
      BY <2>2, <2>3
    <3> QED BY <1>5, <2>1, <2>2, <2>4, <2>8, <3>1 DEF Counted
  <2> QED BY <2>7, <2>8
<1> QED BY <1>4, <1>6, <1>8, <1>9, <1>10, <1>11 DEF DialoguesInv

LEMMA DialoguesUnchanged ==
    ASSUME DialoguesInv, UNCHANGED dialogueVars
    PROVE  DialoguesInv'
<1>1. Typed' /\ ActsOK'
  BY DEF dialogueVars, DialoguesInv, Typed, ActsOK, Filled
<1>2. FillingIn' <=> FillingIn
  BY DEF dialogueVars, FillingIn
<1>3. StateOK' /\ InvoiceForm' /\ Busy'
  BY <1>2 DEF dialogueVars, DialoguesInv, StateOK, InvoiceForm, OfOne, IsInvoice, Busy
<1>4. TapsOK'
  BY DEF dialogueVars, DialoguesInv, TapsOK, TapOK, OfOne, IsInvoice
<1>5. \A d : Claims(d)' = Claims(d) /\ (Open(d)' <=> Open(d))
  BY <1>2 DEF dialogueVars, Claims, Creating, Ready, Open, AsksFor
<1>6. Counts'
  BY <1>5 DEF dialogueVars, DialoguesInv, Counts, Counted
<1> QED BY <1>1, <1>3, <1>4, <1>6 DEF DialoguesInv

LEMMA StepDialogues == DialoguesAssumption /\ DialoguesInv /\ [DialoguesNext]_dialogueVars => DialoguesInv'
<1> SUFFICES ASSUME DialoguesAssumption, DialoguesInv, [DialoguesNext]_dialogueVars PROVE DialoguesInv'
  OBVIOUS
<1>1. CASE \E t \in Taps : Buttons(t)
  <2>1. PICK t \in Taps : Buttons(t)
    BY <1>1
  <2>2. CASE \E k \in Kinds : Begin(t, k)
    BY <2>2, BeginStep
  <2>3. CASE TopUpNow(t) \/ Cancel(t) \/ TapBank(t)
    BY <2>3, TopUpStep, CancelStep, BankStep
  <2>4. CASE InvoiceButtons(t)
    BY <2>4, TapFeeModeStep, FeeModeCardsStep, TapCardStep, CardPreviewStep, TapConfirmStep,
       IssueStep, ClearIssuedStep, AnsweredStep, ConfirmFailsStep DEF InvoiceButtons
  <2>5. CASE Shown(t) \/ NotShown(t)
    BY <2>5, ShownStep
  <2> QED BY <2>1, <2>2, <2>3, <2>4, <2>5 DEF Buttons
<1>2. CASE Messages
  <2>1. CASE \E k \in Kinds : Answer(k) \/ Finish(k)
    BY <2>1, AnswerStep, FinishStep
  <2>2. CASE Refuse \/ ReleaseUpload
    BY <2>2, RefuseStep, ReleaseStep
  <2>3. CASE InvoiceDescription \/ InvoiceFeeModeText \/ InvoiceCardText
    BY <2>3, DescriptionStep, FeeModeTextStep, CardTextStep
  <2> QED BY <1>2, <2>1, <2>2, <2>3 DEF Messages
<1>3. CASE RestartProcess
  BY <1>3, RestartStep
<1>4. CASE UNCHANGED dialogueVars
  BY <1>4, DialoguesUnchanged
<1> QED BY <1>1, <1>2, <1>3, <1>4 DEF DialoguesNext

-----------------------------------------------------------------------------
(* One button at a time: what is asked for is what is being filled in. *)

\* A handler starts, and what it shows belongs to the state it wrote.
LEMMA StartsInOrder ==
    ASSUME Typed, InOrder, NEW t \in Taps, NEW at, NEW read, NEW tag, Wait(t, at, read, tag),
           UNCHANGED asked,
           at \in {"prompt", "preview"} /\ state' # NoState => tag = current',
           at = "prompt" \/ (state # NoState /\ UNCHANGED current)
    PROVE  InOrder'
<1> SUFFICES ASSUME orderly'
             PROVE  /\ \A u, v \in Taps : tap'[u] # NoTap /\ tap'[v] # NoTap => u = v
                    /\ \A u \in Taps : tap'[u].at \in {"prompt", "preview"} /\ state' # NoState => tap'[u].tag = current'
                    /\ state' # NoState /\ (\A u \in Taps : tap'[u].at # "prompt") => asked' = current'
  BY DEF InOrder
<1>1. /\ orderly /\ \A u \in Taps : tap[u] = NoTap
      /\ tap' = [tap EXCEPT ![t] = [at |-> at, read |-> read, tag |-> tag]]
  BY DEF Wait, Quiet, Typed
<1>2. /\ \A u \in Taps \ {t} : tap'[u] = NoTap
      /\ tap'[t].at = at /\ tap'[t].tag = tag
  BY <1>1 DEF Typed
<1>3. \A u \in Taps : tap[u].at # "prompt"
  BY <1>1, NoTapOK
<1>4. state # NoState => asked = current
  BY <1>1, <1>3 DEF InOrder
<1> QED BY <1>2, <1>4, NoTapOK

\* The only handler that was waiting goes on.
LEMMA GoesOnInOrder ==
    ASSUME Typed, InOrder, NEW t \in Taps, tap[t].at # "idle", NEW row,
           tap' = [tap EXCEPT ![t] = row], UNCHANGED orderly,
           row.at \in {"prompt", "preview"} /\ state' # NoState => row.tag = current',
           row.at # "prompt" /\ state' # NoState => asked' = current'
    PROVE  InOrder'
<1> SUFFICES ASSUME orderly
             PROVE  /\ \A u, v \in Taps : tap'[u] # NoTap /\ tap'[v] # NoTap => u = v
                    /\ \A u \in Taps : tap'[u].at \in {"prompt", "preview"} /\ state' # NoState => tap'[u].tag = current'
                    /\ state' # NoState /\ (\A u \in Taps : tap'[u].at # "prompt") => asked' = current'
  BY DEF InOrder
<1>1. \A u \in Taps \ {t} : tap[u] = NoTap
  BY NoTapOK DEF InOrder
<1>2. tap'[t] = row /\ \A u \in Taps \ {t} : tap'[u] = NoTap
  BY <1>1 DEF Typed
<1> QED BY <1>2, NoTapOK

\* A message is answered when no handler waits.
LEMMA TypedInOrder ==
    ASSUME InOrder, Typing, UNCHANGED <<tap, orderly>>,
           \/ state' = NoState
           \/ state # NoState /\ UNCHANGED current /\ asked' \in {asked, current}
    PROVE  InOrder'
<1>1. \A u \in Taps : tap[u] = NoTap /\ tap[u].at = "idle"
  BY NoTapOK DEF Typing, Quiet
<1>2. orderly /\ state # NoState => asked = current
  BY <1>1 DEF InOrder
<1> QED BY <1>1, <1>2 DEF InOrder

LEMMA ButtonsInOrder ==
    ASSUME Typed, InOrder, NEW t \in Taps, Buttons(t)
    PROVE  InOrder'
<1>1. CASE \E k \in Kinds : Begin(t, k)
  <2>1. PICK d : Wait(t, "prompt", NoData, d) /\ d = current' /\ UNCHANGED asked
    BY <1>1 DEF Begin, Reply
  <2> QED BY <2>1, StartsInOrder
<1>2. CASE TopUpNow(t) \/ Cancel(t)
  <2>1. Wait(t, "prompt", NoData, 0) /\ state' = NoState /\ UNCHANGED asked
    BY <1>2 DEF TopUpNow, Cancel, Reply, Clear
  <2> QED BY <2>1, StartsInOrder
<1>3. CASE TapBank(t)
  <2>1. PICK d : Wait(t, "prompt", NoData, d) /\ d = current' /\ UNCHANGED asked
    BY <1>3 DEF TapBank, Reply
  <2> QED BY <2>1, StartsInOrder
<1>4. CASE TapFeeMode(t) \/ TapCard(t) \/ TapConfirm(t)
  <2>1. PICK at, read, d : /\ Wait(t, at, read, d) /\ d = current' /\ state # NoState
                           /\ UNCHANGED <<asked, current>>
    BY <1>4, StatesDiffer DEF TapFeeMode, TapCard, TapConfirm
  <2> QED BY <2>1, StartsInOrder
<1>5. CASE FeeModeCards(t)
  <2>1. PICK row : /\ row = [at |-> "prompt", read |-> NoData, tag |-> current']
                   /\ tap' = [tap EXCEPT ![t] = row]
    BY <1>5 DEF FeeModeCards, ReplyLater
  <2>2. tap[t].at # "idle" /\ UNCHANGED orderly /\ row.at = "prompt" /\ row.tag = current'
    BY <1>5, <2>1 DEF FeeModeCards
  <2> QED BY <2>1, <2>2, GoesOnInOrder
<1>6. CASE CardPreview(t)
  <2>1. PICK row : /\ row = [at |-> "prompt", read |-> NoData, tag |-> tap[t].tag]
                   /\ tap' = [tap EXCEPT ![t] = row]
    BY <1>6 DEF CardPreview, ReplyLater
  <2>2. tap[t].at = "preview" /\ UNCHANGED orderly /\ row.at = "prompt" /\ row.tag = tap[t].tag
    BY <1>6, <2>1 DEF CardPreview
  <2>3. orderly /\ state' # NoState => row.tag = current'
    BY <1>6, <2>2 DEF CardPreview, ShowPreview, InOrder
  <2>4. CASE orderly
    BY <2>1, <2>2, <2>3, <2>4, GoesOnInOrder
  <2> QED BY <2>2, <2>4 DEF InOrder
<1>7. CASE IssueInvoice(t) \/ ClearIssued(t)
  <2>1. PICK at \in {"issued", "answer"} : tap' = [tap EXCEPT ![t].at = at]
    BY <1>7 DEF IssueInvoice, ClearIssued
  <2>2. PICK row : row = [at |-> at, read |-> tap[t].read, tag |-> tap[t].tag]
    OBVIOUS
  <2>3. tap' = [tap EXCEPT ![t] = row] /\ row.at \notin {"prompt", "preview"}
    BY <2>1, <2>2, RowGoesOn
  <2>4. /\ tap[t].at \in {"create", "issued"} /\ UNCHANGED <<orderly, asked>>
        /\ state' = NoState \/ UNCHANGED <<state, current>>
    BY <1>7 DEF IssueInvoice, ClearIssued, Clear
  <2>5. orderly /\ state # NoState => asked = current
    BY <2>4, NoTapOK DEF InOrder
  <2>6. CASE orderly
    BY <2>3, <2>4, <2>5, <2>6, GoesOnInOrder
  <2> QED BY <2>4, <2>6 DEF InOrder
<1>8. CASE Answered(t) \/ Shown(t)
  <2>1. /\ tap[t].at \in {"answer", "prompt"} /\ tap' = [tap EXCEPT ![t] = NoTap]
        /\ asked' = (IF tap[t].at = "prompt" THEN tap[t].tag ELSE asked) /\ UNCHANGED <<state, current, orderly>>
    BY <1>8 DEF Answered, Shown, Done
  <2>2. orderly /\ state # NoState => asked' = current
    <3>1. CASE tap[t].at = "prompt"
      BY <2>1, <3>1 DEF InOrder
    <3>2. CASE tap[t].at = "answer"
      BY <2>1, <3>2, NoTapOK DEF InOrder
    <3> QED BY <2>1, <3>1, <3>2
  <2>3. CASE orderly
    BY <2>1, <2>2, <2>3, NoTapOK, GoesOnInOrder
  <2> QED BY <2>1, <2>3 DEF InOrder
<1>9. CASE NotShown(t)
  BY <1>9 DEF NotShown, InOrder
<1>10. CASE ConfirmFails(t)
  <2>1. PICK row : /\ row = [at |-> "prompt", read |-> NoData, tag |-> tap[t].tag]
                   /\ tap' = [tap EXCEPT ![t] = row]
    BY <1>10 DEF ConfirmFails, ReplyLater
  <2>2. tap[t].at # "idle" /\ UNCHANGED orderly /\ row.at = "prompt" /\ row.tag = current'
    BY <1>10, <2>1 DEF ConfirmFails
  <2> QED BY <2>1, <2>2, GoesOnInOrder
<1> QED
  BY <1>1, <1>2, <1>3, <1>4, <1>5, <1>6, <1>7, <1>8, <1>9, <1>10 DEF Buttons, InvoiceButtons

LEMMA StepInOrder ==
    ASSUME Typed, InOrder, [DialoguesNext]_dialogueVars
    PROVE  InOrder'
<1>1. CASE \E t \in Taps : Buttons(t)
  BY <1>1, ButtonsInOrder
<1>2. CASE Messages
  <2>1. CASE \E k \in Kinds : Answer(k) \/ Finish(k)
    <3>1. Typing /\ UNCHANGED <<tap, orderly>> /\ state # NoState
      <4>1. Typing /\ UNCHANGED <<tap, orderly>>
        BY <2>1 DEF Answer, Finish
      <4>2. \E g, s : state = <<g, s>>
        BY <2>1 DEF Answer, Finish
      <4> QED BY <4>1, <4>2, StatesDiffer
    <3>2. state' = NoState \/ (UNCHANGED current /\ asked' \in {asked, current})
      BY <2>1 DEF Answer, Finish, AskNext, Clear
    <3> QED BY <3>1, <3>2, TypedInOrder
  <2>2. CASE Refuse \/ ReleaseUpload
    BY <2>2, TypedInOrder DEF Refuse, ReleaseUpload, AskNext, Clear
  <2>3. CASE InvoiceDescription \/ InvoiceFeeModeText \/ InvoiceCardText
    <3>1. Typing /\ UNCHANGED <<tap, orderly>> /\ state # NoState
      BY <2>3, StatesDiffer DEF InvoiceDescription, InvoiceFeeModeText, InvoiceCardText
    <3>2. state' = NoState \/ (UNCHANGED current /\ asked' \in {asked, current})
      BY <2>3 DEF InvoiceDescription, InvoiceFeeModeText, InvoiceCardText, CardsOrNone, ShowPreview, AskNext, Clear
    <3> QED BY <3>1, <3>2, TypedInOrder
  <2> QED BY <1>2, <2>1, <2>2, <2>3 DEF Messages
<1>3. CASE RestartProcess
  BY <1>3, NoTapOK DEF RestartProcess, Clear, InOrder
<1>4. CASE UNCHANGED dialogueVars
  BY <1>4 DEF dialogueVars, InOrder
<1> QED BY <1>1, <1>2, <1>3, <1>4 DEF DialoguesNext

LEMMA DialoguesInductive == DialoguesSpec => [](DialoguesInv /\ InOrder)
<1>1. DialoguesInit => DialoguesInv /\ InOrder
  BY InitDialogues, DialoguesAssumption
<1>2. DialoguesInv /\ InOrder /\ [DialoguesNext]_dialogueVars => DialoguesInv' /\ InOrder'
  BY StepDialogues, StepInOrder, DialoguesAssumption DEF DialoguesInv
<1> QED BY <1>1, <1>2, PTL DEF DialoguesSpec

-----------------------------------------------------------------------------
(* The theorems. *)

\* Types; and an invoice form is in "processing", where neither a button nor
\* a message is accepted, only while the handler that set it still runs.
THEOREM DialoguesTypeCorrect == DialoguesSpec => []DialoguesTypeOK
<1>1. DialoguesInv => DialoguesTypeOK
  <2> SUFFICES ASSUME DialoguesInv PROVE DialoguesTypeOK
    OBVIOUS
  <2>1. state = NoState \/ \E k \in Kinds : /\ state[1] = FormOf[k].group
                                            /\ state[2] \in Range(FormOf[k].steps)
    <3>1. CASE FillingIn
      <4>1. /\ forms[current] \in Kinds
            /\ DOMAIN FormOf[forms[current]].steps = 1 .. Len(FormOf[forms[current]].steps)
        BY <3>1, Numbered, FormFacts, DialoguesAssumption DEF FillingIn, DialoguesInv, DialoguesAssumption
      <4>2. PICK i \in 1 .. Len(FormOf[forms[current]].steps) :
                state = <<FormOf[forms[current]].group, FormOf[forms[current]].steps[i]>>
        BY <3>1 DEF FillingIn
      <4>3. FormOf[forms[current]].steps[i] \in Range(FormOf[forms[current]].steps)
        BY <4>1, <4>2 DEF Range
      <4> QED BY <4>1, <4>2, <4>3
    <3>2. CASE "invoice" \in Kinds /\ \E s \in InvoiceSteps : state = Invoice(s)
      <4>1. \A s \in InvoiceSteps : s \in Range(FormOf["invoice"].steps)
        BY TheForms DEF Range, InvoiceSteps
      <4> QED BY <3>2, <4>1, InvoiceStarts DEF Invoice
    <3> QED BY <3>1, <3>2 DEF DialoguesInv, StateOK
  <2>2. \A D : IsDict(D) => IsForm(D)
    BY DEF IsDict, IsForm, Range
  <2> QED BY <2>1, <2>2 DEF DialoguesInv, Typed, Busy, DialoguesTypeOK
<1> QED BY <1>1, DialoguesInductive, PTL

\* Whatever was begun, left and resumed before, and however taps overlap and
\* prompts are late: what is stored, issued, credited or published is one
\* complete form and nothing of another one. It is the form the user was
\* asked for, as long as no taps overlapped and every prompt arrived.
THEOREM OwnFormOnly == DialoguesSpec => []ActsOnWhatWasFilledIn
<1>1. InOrder => (orderly /\ Typing /\ state # NoState => current = asked)
  BY NoTapOK DEF InOrder, Typing, Quiet
<1>2. DialoguesInv /\ InOrder => ActsOnWhatWasFilledIn
  <2> SUFFICES ASSUME DialoguesInv, InOrder, NEW d \in 1 .. Len(forms), NEW form \in Range(acts[d])
               PROVE  \/ form = [key \in Given(forms[d]) |-> d]
                      \/ forms[d] \in {"staging", "production"} /\ form = NoData
    BY <1>1 DEF ActsOnWhatWasFilledIn
  <2>1. acts[d] \in Seq(Filled(d))
    BY DEF DialoguesInv, ActsOK
  <2>2. form \in Filled(d)
    BY <2>1 DEF Range
  <2> QED BY <2>2 DEF Filled, ReleaseKinds
<1> QED BY <1>2, DialoguesInductive, PTL

\* A preview becomes at most one invoice and any other form is acted on at
\* most once, but for commits that were reported to the user as failures.
THEOREM OnceForEachForm == DialoguesSpec => []OneActPerForm
<1>1. DialoguesInv => OneActPerForm
  <2> SUFFICES ASSUME DialoguesInv, NEW d \in 1 .. Len(forms)
               PROVE  Len(acts[d]) <= lost[d] + (IF forms[d] = "invoice" THEN previews[d] ELSE 1)
    BY DEF OneActPerForm
  <2>1. d \in Numbers /\ acts[d] \in Seq(Filled(d)) /\ Counted(d)
    BY Numbered, DialoguesAssumption DEF DialoguesInv, ActsOK, Counts
  <2>2. Len(acts[d]) \in Nat /\ lost[d] \in Nat /\ previews[d] \in Nat
    BY <2>1 DEF DialoguesInv, Typed
  <2> QED BY <2>1, <2>2, ClaimsCounted, DialoguesAssumption DEF Counted
<1> QED BY <1>1, DialoguesInductive, PTL

=============================================================================
