--------------------------- MODULE CredentialsProofs ---------------------------
(***************************************************************************)
(* What module Credentials keeps for every set of handlers and key rows:   *)
(* the types and the constraints of the tables, and that a secret shown to *)
(* the owner is the one the server accepts.                                *)
(***************************************************************************)
EXTENDS Credentials, TLAPS, FiniteSetTheorems, WellFoundedInduction

--------------------------------------------------------------------------------
(* The inductive invariant. *)

TypeInv ==
    /\ keys \in [KeyIds -> KeyRows]
    /\ storeActive \in BOOLEAN
    /\ device \in DeviceRows
    /\ merchant \in MerchantRows
    /\ session \in [Sessions -> SessionType]
    /\ answer.kind \in {"none", "key", "device", "url"}
    /\ commits \in 0 .. MaxCommits

(* A hash is below the next fresh one, no two rows share one, at most one row
   is active, and an active row exists. *)
RowsInv ==
    /\ \A k \in KeyIds : keys[k].hash < FreshHash
    /\ \A j, k \in KeyIds : keys[j].hash # 0 /\ keys[j].hash = keys[k].hash => j = k
    /\ \A j, k \in KeyIds : keys[j].active /\ keys[k].active => j = k
    /\ \A k \in KeyIds : keys[k].active => keys[k].hash # 0

(* What an undisturbed handler has read and builds on still holds; a row it is
   asked to switch is still there. *)
ReadsOK(o) ==
    ~o.disturbed =>
        /\ o.op \in KeyOps =>
               storeActive /\ \A j \in KeyIds : o.keys[j].active => keys[j].active
        /\ o.op \in {"register", "rotateDevice"} =>
               o.merchant.token = merchant.token /\ (o.device.active => device.active)
        /\ o.op = "register" => o.device.version = device.version
        /\ o.op = "rotateToken" => o.merchant.root = merchant.root

ReadsInv == \A s \in Sessions :
    /\ ReadsOK(session[s])
    /\ session[s].op = "toggleKey" =>
           session[s].key \in KeyIds /\ keys[session[s].key].hash # 0

CInv == TypeInv /\ RowsInv /\ ReadsInv /\ AnsweredSecretWorks

--------------------------------------------------------------------------------
(* A nonempty set of ids has a lowest one. *)
LEMMA FirstExists ==
  ASSUME NEW ids, ids \subseteq Nat, ids # {}
  PROVE  FirstOf(ids) \in ids
<1>1. PICK k \in ids : \A other \in ids : ~(<<other, k>> \in OpToRel(<, Nat))
  BY WFMin, NatLessThanWellFounded, Zenon
<1>2. \A other \in ids : ~(other < k)
  BY <1>1, Zenon DEF OpToRel
<1>3. k \in ids /\ \A other \in ids : k <= other
  BY <1>2
<1> QED  BY <1>3 DEF FirstOf

LEMMA KeyIdsFacts ==
  /\ KeyIds \subseteq Nat /\ 0 \notin KeyIds
  /\ Cardinality(KeyIds) \in Nat
BY CredentialsAssumption, FS_CardinalityType

LEMMA CanonicalKeyFacts ==
  ASSUME TypeInv
  PROVE  CanonicalKey \in KeyIds \cup {0}
<1>1. Stored(keys) \subseteq KeyIds /\ Active(keys) \subseteq KeyIds
  BY DEF Stored, Active
<1>2. Stored(keys) # {} => FirstOf(Stored(keys)) \in KeyIds
  BY <1>1, KeyIdsFacts, FirstExists
<1>3. Active(keys) # {} => FirstOf(Active(keys)) \in KeyIds
  BY <1>1, KeyIdsFacts, FirstExists
<1> QED  BY <1>2, <1>3 DEF CanonicalKey

--------------------------------------------------------------------------------
(* The constraints of the rows give the table constraints of the type
   invariant. *)
LEMMA CInvGivesTypeOK == CInv => CredentialsTypeOK
<1> SUFFICES ASSUME CInv PROVE CredentialsTypeOK
  OBVIOUS
<1>1. TypeInv /\ RowsInv
  BY DEF CInv
<1>2. \A j, k \in Stored(keys) : keys[j].hash = keys[k].hash => j = k
  BY <1>1 DEF RowsInv, Stored
<1>3. Active(keys) \subseteq Stored(keys)
  BY <1>1 DEF RowsInv, Active, Stored
<1>4. Cardinality(Active(keys)) <= 1
  <2>1. CASE Active(keys) = {}
    BY <2>1, FS_EmptySet
  <2>2. CASE Active(keys) # {}
    <3>1. PICK k \in KeyIds : k \in Active(keys)
      BY <2>2 DEF Active
    <3>2. Active(keys) = {k}
      BY <3>1, <1>1 DEF RowsInv, Active
    <3> QED  BY <3>2, FS_Singleton
  <2> QED  BY <2>1, <2>2
<1> QED  BY <1>1, <1>2, <1>3, <1>4 DEF TypeInv, CredentialsTypeOK

LEMMA InitCInv == Init => CInv
<1> SUFFICES ASSUME Init PROVE CInv
  OBVIOUS
<1>1. PICK n \in 0 .. Cardinality(KeyIds), on \in BOOLEAN :
         keys = [k \in KeyIds |->
                   IF k > n THEN NoKey
                   ELSE [hash |-> k, active |-> on /\ k = FirstOf(KeyIds)]]
  BY DEF Init
<1>2. keys \in [KeyIds -> KeyRows]
  BY <1>1, KeyIdsFacts DEF KeyRows, NoKey
<1>3. TypeInv
  BY <1>2, CredentialsAssumption
     DEF Init, TypeInv, NoDevice, DeviceRows, MerchantRows, SessionType, Nothing
<1>4. \A k \in KeyIds : /\ keys[k].hash = 0 \/ keys[k].hash = k
                        /\ keys[k].hash <= n
                        /\ keys[k].active => keys[k].hash = k /\ k = FirstOf(KeyIds)
  <2> SUFFICES ASSUME NEW k \in KeyIds
               PROVE  /\ keys[k].hash = 0 \/ keys[k].hash = k
                      /\ keys[k].hash <= n
                      /\ keys[k].active => keys[k].hash = k /\ k = FirstOf(KeyIds)
    OBVIOUS
  <2>1. k \in Nat /\ n \in Nat
    BY KeyIdsFacts
  <2>2. CASE k > n
    <3>1. keys[k] = NoKey
      BY <2>2, <1>1
    <3> QED  BY <3>1, <2>1 DEF NoKey
  <2>3. CASE ~(k > n)
    <3> DEFINE first == on /\ k = FirstOf(KeyIds)
    <3>1. keys[k] = [hash |-> k, active |-> first]
      BY <2>3, <1>1
    <3>2. first => k = FirstOf(KeyIds)
      OBVIOUS
    <3> HIDE DEF first
    <3> QED  BY <3>1, <3>2, <2>1, <2>3
  <2> QED  BY <2>2, <2>3
<1>5. RowsInv
  <2>1. FreshHash = Cardinality(KeyIds) + 1
    BY KeyIdsFacts DEF Init, FreshHash
  <2>2. \A k \in KeyIds : keys[k].hash < FreshHash
    BY <2>1, <1>4, <1>2, KeyIdsFacts DEF KeyRows
  <2> QED  BY <2>2, <1>4, KeyIdsFacts DEF RowsInv
<1>6. ReadsInv
  BY DEF Init, ReadsInv, ReadsOK, Idle, KeyOps
<1>7. AnsweredSecretWorks
  BY DEF Init, AnsweredSecretWorks, Nothing
<1> QED  BY <1>3, <1>5, <1>6, <1>7 DEF CInv

--------------------------------------------------------------------------------
(* What a commit does to the handlers that go on. *)

(* The rows a commit leaves have their types, and no row is deleted. *)
RowsTyped ==
    /\ keys' \in [KeyIds -> KeyRows]
    /\ storeActive' \in BOOLEAN
    /\ device' \in DeviceRows
    /\ merchant' \in MerchantRows
    /\ \A k \in KeyIds : keys[k].hash # 0 => keys'[k].hash # 0

LEMMA CommitTypes ==
  ASSUME TypeInv, NEW s \in Sessions, NEW kind \in {"none", "key", "device", "url"},
         NEW secret, Commit(s, kind, secret), RowsTyped
  PROVE  TypeInv'
<1>1. commits' \in 0 .. MaxCommits
  BY CredentialsAssumption DEF TypeInv, Commit
<1>2. answer'.kind \in {"none", "key", "device", "url"}
  BY DEF Commit
<1>3. session' \in [Sessions -> SessionType]
  <2> SUFFICES ASSUME NEW t \in Sessions
               PROVE  (IF t = s \/ session[t].op = "idle" THEN Idle
                       ELSE [session[t] EXCEPT !.disturbed = @ \/ Disturbs(session[t])])
                      \in SessionType
    BY DEF Commit
  <2>1. CASE t = s \/ session[t].op = "idle"
    BY <2>1 DEF SessionType
  <2>2. CASE ~(t = s \/ session[t].op = "idle")
    <3>1. session[t] \in SessionType /\ session[t] # Idle
      BY <2>2 DEF TypeInv, Idle
    <3>2. [session[t] EXCEPT !.disturbed = @ \/ Disturbs(session[t])] \in SessionType
      <4> DEFINE d == session[t].disturbed \/ Disturbs(session[t])
      <4>1. d \in BOOLEAN
        OBVIOUS
      <4> HIDE DEF d
      <4>2. [session[t] EXCEPT !.disturbed = d] \in SessionType
        BY <4>1, <3>1 DEF SessionType
      <4> QED  BY <4>2 DEF d
    <3> QED  BY <2>2, <3>2
  <2> QED  BY <2>1, <2>2
<1> QED  BY <1>1, <1>2, <1>3 DEF TypeInv, RowsTyped

LEMMA CommitReads ==
  ASSUME TypeInv, ReadsInv, NEW s \in Sessions, NEW kind, NEW secret,
         Commit(s, kind, secret), RowsTyped
  PROVE  ReadsInv'
<1> SUFFICES ASSUME NEW t \in Sessions
             PROVE  /\ ReadsOK(session[t])'
                    /\ session'[t].op = "toggleKey" =>
                         session'[t].key \in KeyIds /\ keys'[session'[t].key].hash # 0
  BY DEF ReadsInv
<1>1. CASE t = s \/ session[t].op = "idle"
  <2>1. session'[t] = Idle
    BY <1>1 DEF Commit
  <2> QED  BY <2>1 DEF Idle, ReadsOK, KeyOps
<1>2. CASE ~(t = s \/ session[t].op = "idle")
  <2> DEFINE d == session[t].disturbed \/ Disturbs(session[t])
  <2>1. session'[t] = [session[t] EXCEPT !.disturbed = d]
    BY <1>2 DEF Commit
  <2>2. session[t] \in SessionType /\ session[t] # Idle
    BY <1>2 DEF TypeInv, Idle
  <2>3. /\ session'[t].op = session[t].op /\ session'[t].key = session[t].key
        /\ session'[t].keys = session[t].keys /\ session'[t].device = session[t].device
        /\ session'[t].merchant = session[t].merchant
        /\ session'[t].disturbed = d
    <3> HIDE DEF d
    <3> QED  BY <2>1, <2>2 DEF SessionType
  <2>4. ReadsOK(session[t])
    BY DEF ReadsInv
  <2>5. session'[t].op = "toggleKey" =>
            session'[t].key \in KeyIds /\ keys'[session'[t].key].hash # 0
    BY <2>3 DEF ReadsInv, RowsTyped
  <2>6. ASSUME ~session'[t].disturbed
        PROVE  /\ session[t].op \in KeyOps =>
                    storeActive' /\ \A j \in KeyIds : session[t].keys[j].active => keys'[j].active
               /\ session[t].op \in {"register", "rotateDevice"} =>
                    /\ session[t].merchant.token = merchant'.token
                    /\ session[t].device.active => device'.active
               /\ session[t].op = "register" => session[t].device.version = device'.version
               /\ session[t].op = "rotateToken" => session[t].merchant.root = merchant'.root
    <3>1. ~session[t].disturbed /\ ~Disturbs(session[t])
      BY <2>3, <2>6
    <3>2. CASE session[t].op \in KeyOps
      <4>1. ~(storeActive' # storeActive \/ \E k \in Active(keys) : ~keys'[k].active)
        BY <3>1, <3>2 DEF Disturbs, KeyOps
      <4> QED  BY <4>1, <3>1, <3>2, <2>4 DEF ReadsOK, Active, KeyOps
    <3>3. CASE session[t].op = "register"
      <4>1. /\ ~(device.active /\ ~device'.active) /\ device'.version = device.version
            /\ merchant'.token = merchant.token
        BY <3>1, <3>3 DEF Disturbs, KeyOps
      <4> QED  BY <4>1, <3>1, <3>3, <2>4 DEF ReadsOK, KeyOps
    <3>4. CASE session[t].op = "rotateDevice"
      <4>1. ~(device.active /\ ~device'.active) /\ merchant'.token = merchant.token
        BY <3>1, <3>4 DEF Disturbs, KeyOps
      <4> QED  BY <4>1, <3>1, <3>4, <2>4 DEF ReadsOK, KeyOps
    <3>5. CASE session[t].op = "rotateToken"
      <4>1. merchant'.root = merchant.root
        BY <3>1, <3>5 DEF Disturbs, KeyOps
      <4> QED  BY <4>1, <3>1, <3>5, <2>4 DEF ReadsOK, KeyOps
    <3>6. CASE session[t].op \notin KeyOps \cup {"register", "rotateDevice", "rotateToken"}
      BY <3>6
    <3> QED  BY <3>2, <3>3, <3>4, <3>5, <3>6
  <2>7. ReadsOK(session[t])'
    BY <2>3, <2>6 DEF ReadsOK
  <2> QED  BY <2>5, <2>7
<1> QED  BY <1>1, <1>2

(* A step that changes no row, shows nothing and leaves the handler s idle or
   with fitting reads. *)
LEMMA QuietStep ==
  ASSUME CInv, NEW s \in Sessions, NEW o \in SessionType,
         session' = [session EXCEPT ![s] = o],
         UNCHANGED <<keys, storeActive, device, merchant, answer, commits>>,
         ReadsOK(o),
         o.op = "toggleKey" => o.key \in KeyIds /\ keys[o.key].hash # 0
  PROVE  CInv'
<1>1. TypeInv /\ RowsInv /\ ReadsInv /\ AnsweredSecretWorks
  BY DEF CInv
<1>2. \A t \in Sessions : session'[t] = IF t = s THEN o ELSE session[t]
  BY <1>1 DEF TypeInv
<1>3. TypeInv'
  BY <1>1, <1>2 DEF TypeInv
<1>4. RowsInv'
  BY <1>1 DEF RowsInv, FreshHash
<1>5. ReadsInv'
  <2> SUFFICES ASSUME NEW t \in Sessions
               PROVE  /\ ReadsOK(session[t])'
                      /\ session'[t].op = "toggleKey" =>
                           session'[t].key \in KeyIds /\ keys'[session'[t].key].hash # 0
    BY DEF ReadsInv
  <2>1. CASE t = s
    <3>1. session'[t] = o
      BY <2>1, <1>2
    <3> QED  BY <3>1 DEF ReadsOK
  <2>2. CASE t # s
    <3>1. session'[t] = session[t]
      BY <2>2, <1>2
    <3> QED  BY <3>1, <1>1 DEF ReadsInv, ReadsOK
  <2> QED  BY <2>1, <2>2
<1>6. AnsweredSecretWorks'
  BY <1>1 DEF AnsweredSecretWorks, KeyAdmitted, MessageAdmitted, WebhookToken,
              DeviceSecret, Active
<1> QED  BY <1>3, <1>4, <1>5, <1>6 DEF CInv

LEMMA AbandonStep ==
  ASSUME CInv, NEW s \in Sessions, Abandon(s)
  PROVE  CInv'
<1>1. Idle \in SessionType /\ ReadsOK(Idle) /\ Idle.op # "toggleKey"
  BY DEF SessionType, Idle, ReadsOK, KeyOps
<1> QED  BY <1>1, QuietStep DEF Abandon

(* A step that commits keeps the invariant when the rows it leaves have their
   types and constraints and what it shows works. *)
LEMMA CommitStep ==
  ASSUME CInv, NEW s \in Sessions, NEW kind \in {"none", "key", "device", "url"},
         NEW secret, Commit(s, kind, secret), RowsTyped, RowsInv', AnsweredSecretWorks'
  PROVE  CInv'
BY CommitTypes, CommitReads DEF CInv

(* The rows of the keys keep their constraints when none changes. *)
LEMMA SameKeysStep ==
  ASSUME CInv, NEW s \in Sessions, NEW kind, NEW secret, Commit(s, kind, secret),
         UNCHANGED keys
  PROVE  RowsInv'
<1>1. TypeInv /\ RowsInv
  BY DEF CInv
<1>2. FreshHash' = FreshHash + 1 /\ FreshHash \in Nat
  BY <1>1, KeyIdsFacts DEF Commit, FreshHash, TypeInv
<1>3. \A k \in KeyIds : keys[k].hash \in Nat
  BY <1>1 DEF TypeInv, KeyRows
<1>4. \A k \in KeyIds : keys'[k].hash < FreshHash'
  BY <1>1, <1>2, <1>3 DEF RowsInv
<1> QED  BY <1>1, <1>4 DEF RowsInv

--------------------------------------------------------------------------------
(* Beginning and choosing a key. *)
LEMMA BeginStep ==
  ASSUME CInv, NEW s \in Sessions, Begin(s)
  PROVE  CInv'
<1>1. PICK op \in Ops, k \in KeyIds, signed \in BOOLEAN :
         /\ op \in KeyOps => storeActive /\ k = FirstOf(KeyIds)
         /\ op = "toggleKey" => k \in Stored(keys)
         /\ op \in {"rotateDevice", "disableDevice"} => DeviceFound
         /\ op \notin KeyOps \cup {"toggleKey"} => k = FirstOf(KeyIds)
         /\ op # "register" => signed
         /\ session' = [session EXCEPT ![s] =
                [op |-> op, key |-> k, signed |-> signed, keys |-> keys,
                 store |-> storeActive, device |-> device, merchant |-> merchant,
                 picked |-> op \notin KeyOps, disturbed |-> FALSE]]
  BY Zenon DEF Begin
<1> DEFINE p == op \notin KeyOps
           o == [op |-> op, key |-> k, signed |-> signed, keys |-> keys,
                 store |-> storeActive, device |-> device, merchant |-> merchant,
                 picked |-> p, disturbed |-> FALSE]
<1>2. o \in SessionType
  <2>1. p \in BOOLEAN
    OBVIOUS
  <2> HIDE DEF p
  <2> QED  BY <2>1 DEF CInv, TypeInv, SessionType
<1>3. ReadsOK(o)
  <2> HIDE DEF p
  <2> QED  BY <1>1 DEF ReadsOK
<1>4. o.op = "toggleKey" => o.key \in KeyIds /\ keys[o.key].hash # 0
  BY <1>1 DEF Stored
<1>5. /\ session' = [session EXCEPT ![s] = o]
      /\ UNCHANGED <<keys, storeActive, device, merchant, answer, commits>>
  BY <1>1 DEF Begin
<1> HIDE DEF o
<1> QED  BY <1>2, <1>3, <1>4, <1>5, QuietStep

LEMMA PickKeyStep ==
  ASSUME CInv, NEW s \in Sessions, PickKey(s)
  PROVE  CInv'
<1> DEFINE k == CanonicalKey
           old == session[s]
           read == IF k = 0 THEN old.keys
                   ELSE IF LoadsKeysLate(old.op) \/ old.keys[k].hash = 0
                   THEN [old.keys EXCEPT ![k] = keys[k]] ELSE old.keys
           o == [old EXCEPT !.picked = TRUE, !.key = k, !.keys = read]
<1>1. TypeInv /\ ReadsInv
  BY DEF CInv
<1>2. k \in KeyIds \cup {0}
  BY <1>1, CanonicalKeyFacts
<1>3. old.op \in KeyOps
  BY DEF PickKey
<1>4. old \in SessionType /\ old # Idle
  BY <1>1, <1>3 DEF TypeInv, Idle, KeyOps
<1> HIDE DEF k
<1>5. read \in [KeyIds -> KeyRows]
  BY <1>1, <1>2, <1>4 DEF TypeInv, SessionType
<1>6. \A j \in KeyIds : read[j].active =>
          keys[j].active \/ old.keys[j].active
  BY <1>1, <1>2, <1>4 DEF TypeInv, SessionType
<1>7. session' = [session EXCEPT ![s] = o]
  BY <1>4 DEF PickKey, k
<1> HIDE DEF read
<1>8. /\ o \in SessionType
      /\ o.op = old.op /\ o.keys = read /\ o.disturbed = old.disturbed
  BY <1>2, <1>4, <1>5 DEF SessionType
<1>9. ReadsOK(o)
  <2>1. ReadsOK(old)
    BY <1>1 DEF ReadsInv
  <2> HIDE DEF o, old
  <2> QED  BY <2>1, <1>3, <1>6, <1>8 DEF ReadsOK, KeyOps
<1>10. o.op # "toggleKey"
  BY <1>3, <1>8 DEF KeyOps
<1> HIDE DEF o
<1> QED  BY <1>7, <1>8, <1>9, <1>10, QuietStep DEF PickKey

--------------------------------------------------------------------------------
(* API keys. *)
LEMMA FreshHashFacts ==
  ASSUME CInv, NEW s \in Sessions, NEW kind, NEW secret, Commit(s, kind, secret)
  PROVE  FreshHash \in Nat \ {0} /\ FreshHash' = FreshHash + 1
BY KeyIdsFacts DEF CInv, TypeInv, Commit, FreshHash

(* One row gets a fresh hash and is active; the others keep their hashes and
   are not active. *)
LEMMA FreshKeyStep ==
  ASSUME CInv, NEW s \in Sessions, Commit(s, "key", FreshHash),
         UNCHANGED <<storeActive, device, merchant>>,
         NEW k \in KeyIds, keys' \in [KeyIds -> KeyRows],
         keys'[k].hash = FreshHash,
         \A j \in KeyIds \ {k} : keys'[j].hash = keys[j].hash /\ ~keys'[j].active,
         ~session[s].disturbed => storeActive /\ keys'[k].active
  PROVE  CInv'
<1>1. TypeInv /\ RowsInv
  BY DEF CInv
<1>2. FreshHash \in Nat \ {0} /\ FreshHash' = FreshHash + 1
  BY FreshHashFacts
<1>3. \A j \in KeyIds : keys[j].hash \in Nat /\ keys[j].hash < FreshHash
  BY <1>1 DEF TypeInv, RowsInv, KeyRows
<1>4. RowsTyped
  BY <1>1, <1>2 DEF TypeInv, RowsTyped
<1>5. RowsInv'
  <2>1. \A j \in KeyIds : keys'[j].hash < FreshHash'
    BY <1>2, <1>3
  <2>2. \A i, j \in KeyIds : keys'[i].hash # 0 /\ keys'[i].hash = keys'[j].hash => i = j
    BY <1>1, <1>2, <1>3 DEF RowsInv
  <2>3. \A i, j \in KeyIds : keys'[i].active /\ keys'[j].active => i = j
    OBVIOUS
  <2>4. \A j \in KeyIds : keys'[j].active => keys'[j].hash # 0
    BY <1>2
  <2> QED  BY <2>1, <2>2, <2>3, <2>4 DEF RowsInv
<1>6. AnsweredSecretWorks'
  <2>1. answer' = [kind |-> "key", secret |-> FreshHash, disturbed |-> session[s].disturbed]
    BY DEF Commit
  <2>2. ~answer'.disturbed => KeyAdmitted(answer.secret)'
    BY <2>1 DEF KeyAdmitted, Active
  <2> QED  BY <2>1, <2>2 DEF AnsweredSecretWorks
<1> QED  BY <1>4, <1>5, <1>6, CommitStep

LEMMA InsertKeyStep ==
  ASSUME CInv, NEW s \in Sessions, InsertKey(s)
  PROVE  CInv'
<1>1. TypeInv /\ ReadsInv
  BY DEF CInv
<1>2. Active(keys) = {} /\ Stored(keys) # KeyIds
  BY DEF InsertKey, InsertConflicts
<1> DEFINE k == FirstOf(KeyIds \ Stored(keys))
<1>3. k \in KeyIds
  BY <1>2, KeyIdsFacts, FirstExists DEF Stored
<1>4. Commit(s, "key", FreshHash) /\ UNCHANGED <<storeActive, device, merchant>>
  BY DEF InsertKey
<1>5. FreshHash \in Nat
  BY <1>4, FreshHashFacts
<1>6. keys' = [keys EXCEPT ![k] = [hash |-> FreshHash, active |-> TRUE]]
  BY DEF InsertKey
<1>7. PICK i \in KeyIds : i = k
  BY <1>3
<1> HIDE DEF k
<1>8. /\ keys' \in [KeyIds -> KeyRows]
      /\ keys'[i].hash = FreshHash /\ keys'[i].active
      /\ \A j \in KeyIds \ {i} : keys'[j].hash = keys[j].hash /\ ~keys'[j].active
  BY <1>1, <1>2, <1>5, <1>6, <1>7 DEF TypeInv, KeyRows, Active
<1>9. ~session[s].disturbed => storeActive
  BY <1>1 DEF InsertKey, Picked, ReadsInv, ReadsOK
<1> QED  BY <1>4, <1>8, <1>9, FreshKeyStep

LEMMA RotateKeyStep ==
  ASSUME CInv, NEW s \in Sessions, RotateKey(s)
  PROVE  CInv'
<1> DEFINE old == session[s]
           row == ReplacedKey(old.keys[old.key], keys[old.key])
<1>1. TypeInv /\ ReadsInv
  BY DEF CInv
<1>2. old.op \in KeyOps /\ old.key # 0
  BY DEF RotateKey, Picked
<1>3. old \in SessionType /\ old # Idle
  BY <1>1, <1>2 DEF TypeInv, Idle, KeyOps
<1>4. PICK k \in KeyIds : k = old.key
  BY <1>2, <1>3 DEF SessionType
<1>5. Commit(s, "key", FreshHash) /\ UNCHANGED <<storeActive, device, merchant>>
  BY DEF RotateKey
<1>6. FreshHash \in Nat
  BY <1>5, FreshHashFacts
<1>7. keys' = [j \in KeyIds |-> IF j = k THEN row ELSE [keys[j] EXCEPT !.active = FALSE]]
  BY <1>4 DEF RotateKey, OnlyKey
<1>8. old.keys[k] \in KeyRows /\ keys[k] \in KeyRows
  BY <1>1, <1>3 DEF TypeInv, SessionType
<1>9. row \in KeyRows /\ row.hash = FreshHash
  BY <1>4, <1>6, <1>8 DEF ReplacedKey, Assigned, KeyRows
<1>10. ~old.disturbed => storeActive /\ row.active
  <2>1. ~old.disturbed => storeActive /\ (old.keys[k].active => keys[k].active)
    BY <1>1, <1>2 DEF ReadsInv, ReadsOK
  <2> QED  BY <2>1, <1>4, <1>8 DEF ReplacedKey, Assigned, KeyRows
<1> HIDE DEF row
<1>11. /\ keys' \in [KeyIds -> KeyRows]
       /\ keys'[k].hash = FreshHash /\ keys'[k].active = row.active
       /\ \A j \in KeyIds \ {k} : keys'[j].hash = keys[j].hash /\ ~keys'[j].active
  BY <1>1, <1>7, <1>9 DEF TypeInv, KeyRows
<1> QED  BY <1>5, <1>10, <1>11, FreshKeyStep

LEMMA ToggleKeyStep ==
  ASSUME CInv, NEW s \in Sessions, ToggleKey(s)
  PROVE  CInv'
<1> DEFINE enabled == ~session[s].keys[session[s].key].active
<1>1. TypeInv /\ RowsInv /\ ReadsInv
  BY DEF CInv
<1>2. PICK k \in KeyIds : k = session[s].key /\ keys[k].hash # 0
  BY <1>1 DEF ToggleKey, ReadsInv
<1>3. Commit(s, "none", 0) /\ UNCHANGED <<storeActive, device, merchant>>
  BY DEF ToggleKey
<1>4. enabled \in BOOLEAN
  OBVIOUS
<1>5. keys' = IF enabled THEN OnlyKey(keys, k, [keys[k] EXCEPT !.active = enabled])
              ELSE [keys EXCEPT ![k] = [keys[k] EXCEPT !.active = enabled]]
  BY <1>2 DEF ToggleKey
<1> HIDE DEF enabled
<1>6. /\ keys' \in [KeyIds -> KeyRows]
      /\ \A j \in KeyIds : keys'[j].hash = keys[j].hash
      /\ enabled => \A j \in KeyIds \ {k} : ~keys'[j].active
      /\ ~enabled => \A j \in KeyIds : keys'[j].active => keys[j].active
  BY <1>1, <1>4, <1>5 DEF TypeInv, KeyRows, OnlyKey
<1>7. RowsTyped
  BY <1>1, <1>3, <1>6 DEF RowsTyped, TypeInv
<1>8. FreshHash \in Nat \ {0} /\ FreshHash' = FreshHash + 1
  BY <1>3, FreshHashFacts
<1>9. RowsInv'
  <2>1. \A j \in KeyIds : keys[j].hash \in Nat
    BY <1>1 DEF TypeInv, KeyRows
  <2>2. \A j \in KeyIds : keys'[j].hash < FreshHash'
    BY <2>1, <1>1, <1>6, <1>8 DEF RowsInv
  <2>3. \A i, j \in KeyIds : keys'[i].active /\ keys'[j].active => i = j
    BY <1>1, <1>4, <1>6 DEF RowsInv
  <2>4. \A j \in KeyIds : keys'[j].active => keys'[j].hash # 0
    BY <1>1, <1>2, <1>4, <1>6 DEF RowsInv
  <2> QED  BY <2>2, <2>3, <2>4, <1>1, <1>6 DEF RowsInv
<1>10. AnsweredSecretWorks'
  BY <1>3 DEF Commit, AnsweredSecretWorks
<1> QED  BY <1>3, <1>7, <1>9, <1>10, CommitStep

--------------------------------------------------------------------------------
(* The store, the device and the address: the keys stay as they are. *)
LEMMA OtherRowsStep ==
  ASSUME CInv, NEW s \in Sessions, NEW kind \in {"none", "key", "device", "url"},
         NEW secret, Commit(s, kind, secret), UNCHANGED keys,
         storeActive' \in BOOLEAN, device' \in DeviceRows, merchant' \in MerchantRows,
         AnsweredSecretWorks'
  PROVE  CInv'
<1>1. RowsTyped
  BY DEF RowsTyped, CInv, TypeInv
<1>2. RowsInv'
  BY SameKeysStep
<1> QED  BY <1>1, <1>2, CommitStep

LEMMA NothingShown ==
  ASSUME NEW s \in Sessions, Commit(s, "none", 0)
  PROVE  AnsweredSecretWorks'
BY DEF Commit, AnsweredSecretWorks

(* A device secret works when the device is active and its version and the
   merchant's generation are those of the secret. *)
LEMMA DeviceShown ==
  ASSUME NEW s \in Sessions, NEW version, NEW token,
         Commit(s, "device", DeviceSecret(version, token)),
         ~session[s].disturbed =>
             device'.active /\ device'.version = version /\ merchant'.token = token
  PROVE  AnsweredSecretWorks'
<1>1. answer' = [kind |-> "device", secret |-> DeviceSecret(version, token),
                 disturbed |-> session[s].disturbed]
  BY DEF Commit
<1>2. ~answer'.disturbed =>
        device'.active /\ MessageAdmitted(WebhookToken(merchant.root, merchant.token),
                                          answer.secret)'
  BY <1>1 DEF MessageAdmitted, WebhookToken, DeviceSecret
<1> QED  BY <1>1, <1>2 DEF AnsweredSecretWorks

LEMMA BusySession ==
  ASSUME CInv, NEW s \in Sessions, session[s].op # "idle"
  PROVE  /\ session[s] \in SessionType \ {Idle}
         /\ ReadsOK(session[s])
         /\ session[s].device \in DeviceRows /\ session[s].merchant \in MerchantRows
         /\ session[s].signed \in BOOLEAN /\ session[s].store \in BOOLEAN
<1>1. session[s] \in SessionType \ {Idle}
  BY DEF CInv, TypeInv, Idle
<1> QED  BY <1>1 DEF CInv, ReadsInv, SessionType

LEMMA ToggleStoreStep ==
  ASSUME CInv, NEW s \in Sessions, ToggleStore(s)
  PROVE  CInv'
<1>1. Commit(s, "none", 0) /\ UNCHANGED <<keys, device, merchant>>
  BY DEF ToggleStore
<1>2. storeActive' \in BOOLEAN
  BY DEF ToggleStore
<1>3. device' \in DeviceRows /\ merchant' \in MerchantRows
  BY <1>1 DEF CInv, TypeInv
<1> QED  BY <1>1, <1>2, <1>3, NothingShown, OtherRowsStep

LEMMA RegisterDeviceStep ==
  ASSUME CInv, NEW s \in Sessions, RegisterDevice(s)
  PROVE  CInv'
<1> DEFINE read == session[s].device
<1>1. session[s].op = "register"
  BY DEF RegisterDevice
<1>2. /\ ReadsOK(session[s]) /\ read \in DeviceRows /\ session[s].signed \in BOOLEAN
  BY <1>1, BusySession
<1>3. storeActive' \in BOOLEAN /\ merchant' \in MerchantRows /\ device \in DeviceRows
  BY DEF RegisterDevice, CInv, TypeInv
<1>4. /\ device' \in DeviceRows /\ device'.version = device.version
      /\ device'.active = Assigned(read.active, TRUE, device.active)
  BY <1>2, <1>3 DEF RegisterDevice, DeviceRows, Assigned
<1>5. Commit(s, "device", DeviceSecret(read.version, session[s].merchant.token))
      /\ UNCHANGED <<keys, merchant>>
  BY DEF RegisterDevice
<1>6. ~session[s].disturbed =>
        /\ device'.active /\ device'.version = read.version
        /\ merchant'.token = session[s].merchant.token
  BY <1>1, <1>2, <1>3, <1>4, <1>5 DEF ReadsOK, Assigned, DeviceRows
<1>7. AnsweredSecretWorks'
  BY <1>5, <1>6, DeviceShown
<1> QED  BY <1>3, <1>4, <1>5, <1>7, OtherRowsStep

LEMMA InsertDeviceStep ==
  ASSUME CInv, NEW s \in Sessions, InsertDevice(s)
  PROVE  CInv'
<1>1. session[s].op = "register"
  BY DEF InsertDevice
<1>2. ReadsOK(session[s]) /\ session[s].signed \in BOOLEAN
  BY <1>1, BusySession
<1>3. storeActive' \in BOOLEAN /\ merchant' \in MerchantRows
  BY DEF InsertDevice, CInv, TypeInv
<1>4. device' \in DeviceRows /\ device'.version = 1 /\ device'.active
  BY <1>2 DEF InsertDevice, DeviceRows
<1>5. Commit(s, "device", DeviceSecret(1, session[s].merchant.token))
      /\ UNCHANGED <<keys, merchant>>
  BY DEF InsertDevice
<1>6. ~session[s].disturbed => merchant'.token = session[s].merchant.token
  BY <1>1, <1>2, <1>5 DEF ReadsOK
<1>7. AnsweredSecretWorks'
  BY <1>4, <1>5, <1>6, DeviceShown
<1> QED  BY <1>3, <1>4, <1>5, <1>7, OtherRowsStep

LEMMA RotateDeviceStep ==
  ASSUME CInv, NEW s \in Sessions, RotateDevice(s)
  PROVE  CInv'
<1> DEFINE read == session[s].device
<1>1. session[s].op = "rotateDevice"
  BY DEF RotateDevice
<1>2. ReadsOK(session[s]) /\ read \in DeviceRows
  BY <1>1, BusySession
<1>3. storeActive' \in BOOLEAN /\ merchant' \in MerchantRows /\ device \in DeviceRows
  BY DEF RotateDevice, CInv, TypeInv
<1>4. /\ device' \in DeviceRows /\ device'.version = NextVersion(read)
      /\ device'.active = Assigned(read.active, TRUE, device.active)
  <2>1. PICK v \in Nat, a \in BOOLEAN :
           v = NextVersion(read) /\ a = Assigned(read.active, TRUE, device.active)
    <3>1. NextVersion(read) \in Nat
      BY <1>2 DEF DeviceRows, NextVersion
    <3>2. read.active \in BOOLEAN /\ device.active \in BOOLEAN
      BY <1>2, <1>3 DEF DeviceRows
    <3>3. Assigned(read.active, TRUE, device.active) \in BOOLEAN
      BY <3>2 DEF Assigned
    <3> QED  BY <3>1, <3>3
  <2>2. device' = [device EXCEPT !.version = v, !.active = a]
    BY <2>1 DEF RotateDevice
  <2> QED  BY <2>1, <2>2, <1>3 DEF DeviceRows
<1>5. Commit(s, "device", DeviceSecret(NextVersion(read), session[s].merchant.token))
      /\ UNCHANGED <<keys, merchant>>
  BY DEF RotateDevice
<1>6. ~session[s].disturbed =>
        device'.active /\ merchant'.token = session[s].merchant.token
  BY <1>1, <1>2, <1>3, <1>4, <1>5 DEF ReadsOK, Assigned, DeviceRows
<1>7. AnsweredSecretWorks'
  BY <1>4, <1>5, <1>6, DeviceShown
<1> QED  BY <1>3, <1>4, <1>5, <1>7, OtherRowsStep

LEMMA DisableDeviceStep ==
  ASSUME CInv, NEW s \in Sessions, DisableDevice(s)
  PROVE  CInv'
<1>1. session[s].op = "disableDevice"
  BY DEF DisableDevice
<1>2. session[s].device \in DeviceRows
  BY <1>1, BusySession
<1>3. storeActive' \in BOOLEAN /\ merchant' \in MerchantRows /\ device \in DeviceRows
  BY DEF DisableDevice, CInv, TypeInv
<1>4. device' \in DeviceRows
  BY <1>2, <1>3 DEF DisableDevice, DeviceRows, Assigned
<1>5. Commit(s, "none", 0) /\ UNCHANGED keys
  BY DEF DisableDevice
<1> QED  BY <1>3, <1>4, <1>5, NothingShown, OtherRowsStep

LEMMA RotateTokenStep ==
  ASSUME CInv, NEW s \in Sessions, RotateToken(s)
  PROVE  CInv'
<1> DEFINE read == session[s].merchant
<1>1. session[s].op = "rotateToken"
  BY DEF RotateToken
<1>2. ReadsOK(session[s]) /\ read \in MerchantRows
  BY <1>1, BusySession
<1>3. storeActive' \in BOOLEAN /\ device' \in DeviceRows /\ merchant \in MerchantRows
  BY DEF RotateToken, CInv, TypeInv
<1>4. /\ merchant' \in MerchantRows /\ merchant'.root = merchant.root
      /\ merchant'.token = read.token + 1
  BY <1>2, <1>3 DEF RotateToken, MerchantRows
<1>5. Commit(s, "url", WebhookToken(read.root, read.token + 1)) /\ UNCHANGED keys
  BY DEF RotateToken
<1>6. AnsweredSecretWorks'
  <2>1. ~session[s].disturbed => read.root = merchant'.root
    BY <1>1, <1>2, <1>4 DEF ReadsOK
  <2>2. answer' = [kind |-> "url", secret |-> WebhookToken(read.root, read.token + 1),
                   disturbed |-> session[s].disturbed]
    BY <1>5 DEF Commit
  <2>3. ~answer'.disturbed => answer'.secret = WebhookToken(merchant.root, merchant.token)'
    BY <2>1, <2>2, <1>4 DEF WebhookToken
  <2> QED  BY <2>2, <2>3 DEF AnsweredSecretWorks
<1> QED  BY <1>3, <1>4, <1>5, <1>6, OtherRowsStep

LEMMA RegenSecretStep ==
  ASSUME CInv, NEW s \in Sessions, RegenSecret(s)
  PROVE  CInv'
<1>1. Commit(s, "none", 0) /\ UNCHANGED <<keys, storeActive, device>>
  BY DEF RegenSecret
<1>2. storeActive' \in BOOLEAN /\ device' \in DeviceRows
  BY <1>1 DEF CInv, TypeInv
<1>3. merchant' \in MerchantRows
  BY DEF RegenSecret, CInv, TypeInv, MerchantRows, FreshRoot
<1> QED  BY <1>1, <1>2, <1>3, NothingShown, OtherRowsStep

--------------------------------------------------------------------------------
LEMMA StutterStep ==
  ASSUME CInv, UNCHANGED vars
  PROVE  CInv'
<1>1. TypeInv'
  BY DEF CInv, TypeInv, vars
<1>2. RowsInv'
  BY DEF CInv, RowsInv, FreshHash, vars
<1>3. ReadsInv'
  BY DEF CInv, ReadsInv, ReadsOK, vars
<1>4. AnsweredSecretWorks'
  BY DEF CInv, AnsweredSecretWorks, KeyAdmitted, MessageAdmitted, WebhookToken,
         DeviceSecret, Active, vars
<1> QED  BY <1>1, <1>2, <1>3, <1>4 DEF CInv

LEMMA NextCInv == CInv /\ [Next]_vars => CInv'
<1> SUFFICES ASSUME CInv, [Next]_vars PROVE CInv'
  OBVIOUS
<1>1. CASE \E s \in Sessions : Begin(s)
  BY <1>1, BeginStep
<1>2. CASE \E s \in Sessions : PickKey(s)
  BY <1>2, PickKeyStep
<1>3. CASE \E s \in Sessions : RefuseSecondKey(s) \/ FailInsertKey(s) \/ FailInsertDevice(s)
  BY <1>3, AbandonStep DEF RefuseSecondKey, FailInsertKey, FailInsertDevice
<1>4. CASE \E s \in Sessions : InsertKey(s)
  BY <1>4, InsertKeyStep
<1>5. CASE \E s \in Sessions : RotateKey(s)
  BY <1>5, RotateKeyStep
<1>6. CASE \E s \in Sessions : ToggleKey(s)
  BY <1>6, ToggleKeyStep
<1>7. CASE \E s \in Sessions : ToggleStore(s)
  BY <1>7, ToggleStoreStep
<1>8. CASE \E s \in Sessions : RegisterDevice(s)
  BY <1>8, RegisterDeviceStep
<1>9. CASE \E s \in Sessions : InsertDevice(s)
  BY <1>9, InsertDeviceStep
<1>10. CASE \E s \in Sessions : RotateDevice(s)
  BY <1>10, RotateDeviceStep
<1>11. CASE \E s \in Sessions : DisableDevice(s)
  BY <1>11, DisableDeviceStep
<1>12. CASE \E s \in Sessions : RotateToken(s)
  BY <1>12, RotateTokenStep
<1>13. CASE \E s \in Sessions : RegenSecret(s)
  BY <1>13, RegenSecretStep
<1>14. CASE UNCHANGED vars
  BY <1>14, StutterStep
<1> QED  BY <1>1, <1>2, <1>3, <1>4, <1>5, <1>6, <1>7, <1>8, <1>9, <1>10, <1>11, <1>12,
            <1>13, <1>14 DEF Next

LEMMA CInvHolds == Spec => []CInv
BY InitCInv, NextCInv, PTL DEF Spec

(* The variables have their types, the hashes of the keys are unique and at
   most one key of the store is active, whichever handlers overlap
   (store_service.py, device_service.py). *)
THEOREM CredentialsTyped == Spec => []CredentialsTypeOK
BY CInvHolds, CInvGivesTypeOK, PTL

(* A key, device secret or address shown to the owner is the one the server
   accepts once the transaction that made it has committed, unless another
   handler disturbed what this one had read. *)
THEOREM ShownSecretWorks == Spec => []AnsweredSecretWorks
<1>1. CInv => AnsweredSecretWorks
  BY DEF CInv
<1> QED  BY <1>1, CInvHolds, PTL
================================================================================
