------------------------------ MODULE Credentials ------------------------------
(***************************************************************************)
(* The secrets of one merchant: the API key of a store, the secret of a    *)
(* device that forwards bank messages, and the address those are sent to.  *)
(* The owner replaces and disables them from the bot and over the API,     *)
(* each time in a transaction of its own that reads the rows, waits, and   *)
(* writes back only the columns it changed.  A button tapped twice, or two *)
(* chats of one owner, make such transactions overlap.                     *)
(*                                                                         *)
(* The reads of a handler before its first decision are one step (Begin),  *)
(* and so are its writes and commit (the rows written stay locked, and no  *)
(* other transaction sees them, until the commit).  A secret is a number   *)
(* or a pair of them: the inputs of the hash it is derived from.           *)
(***************************************************************************)
EXTENDS Integers, FiniteSets

CONSTANTS
    Sessions,      \* handlers that may run at the same time
    KeyIds,        \* ids of the rows of store_api_keys, lowest first
    LegacyHash,    \* merchants.api_key_hash of an old installation, 0: none
    MaxCommits     \* bound on the transactions of a behaviour

ASSUME CredentialsAssumption ==
    /\ KeyIds \subseteq Nat \ {0} /\ IsFiniteSet(KeyIds)
    /\ LegacyHash \in Nat /\ MaxCommits \in Nat

VARIABLES
    keys,          \* [id -> row]: the rows of the store, hash 0 where there is none
    storeActive,   \* stores.is_active
    device,        \* the row of sms_devices, version 0 where there is none
    merchant,      \* callback_secret (root) and sms_token_version (token)
    session,       \* what each handler has read
    answer,        \* what the last handler that committed has shown its owner
    commits        \* number of transactions committed, for the bound

vars == <<keys, storeActive, device, merchant, session, answer, commits>>

KeyOps == {"issue", "rotate", "regen"}
Ops == KeyOps \cup {"toggleKey", "toggleStore", "register", "rotateDevice",
                    "disableDevice", "rotateToken", "regenSecret"}

NoKey == [hash |-> 0, active |-> FALSE]
NoDevice == [version |-> 0, active |-> FALSE, hmac |-> FALSE]
Nothing == [kind |-> "none", secret |-> 0, disturbed |-> FALSE]
Idle == [op |-> "idle"]

Stored(rows) == {k \in KeyIds : rows[k].hash # 0}
Active(rows) == {k \in KeyIds : rows[k].active}
FirstOf(ids) == CHOOSE k \in ids : \A other \in ids : k <= other

(* The row that stands for the store's key: an active one before a disabled
   one, then the oldest; 0 when the store has no key. *)
CanonicalKey ==
    IF Stored(keys) = {} THEN 0
    ELSE IF Active(keys) # {} THEN FirstOf(Active(keys)) ELSE FirstOf(Stored(keys))

DeviceSecret(version, token) == <<version, token>>
WebhookToken(root, token) == <<root, token>>

(* A request with this key passes authentication: an active key of an active
   store, or the key the merchant had before there were stores. *)
KeyAdmitted(hash) ==
    \/ storeActive /\ \E k \in Active(keys) : keys[k].hash = hash
    \/ hash = LegacyHash

(* A forwarded message passes: its address is the merchant's, and, once a
   device is registered, its signature is that of the device. *)
MessageAdmitted(url, signature) ==
    /\ url = WebhookToken(merchant.root, merchant.token)
    /\ device.active /\ device.hmac =>
           signature = DeviceSecret(device.version, merchant.token)

--------------------------------------------------------------------------------
(* Secrets that were never used before. *)
FreshHash == Cardinality(KeyIds) + commits + 1
FreshRoot == commits + 2

(* The step disables a row that the handler o has read and builds on, or
   replaces an input of the secret o is about to show. *)
Disturbs(o) ==
    LET disabled == storeActive' # storeActive \/ \E k \in Active(keys) : ~keys'[k].active
        unregistered == device.active /\ ~device'.active
    IN  CASE o.op \in KeyOps       -> disabled
          [] o.op = "register"     -> unregistered \/ device'.version # device.version
                                      \/ merchant'.token # merchant.token
          [] o.op = "rotateDevice" -> unregistered \/ merchant'.token # merchant.token
          [] o.op = "rotateToken"  -> merchant'.root # merchant.root
          [] OTHER                 -> FALSE

(* The handler s commits and shows a secret of the given kind; the others go
   on with what they have read. *)
Commit(s, kind, secret) ==
    /\ commits < MaxCommits
    /\ commits' = commits + 1
    /\ answer' = [kind |-> kind, secret |-> secret, disturbed |-> session[s].disturbed]
    /\ session' = [t \in Sessions |->
           IF t = s \/ session[t].op = "idle" THEN Idle
           ELSE [session[t] EXCEPT !.disturbed = @ \/ Disturbs(session[t])]]

(* A refusal, or an error the handler does not catch: rolled back. *)
Abandon(s) ==
    /\ session' = [session EXCEPT ![s] = Idle]
    /\ UNCHANGED <<keys, storeActive, device, merchant, answer, commits>>

(* A handler given the id of a device that is not there answers so. *)
DeviceFound == device.version # 0

(* The reads of a handler, and the conditions under which it goes on. *)
Begin(s) ==
    /\ session[s].op = "idle"
    /\ commits < MaxCommits
    /\ \E op \in Ops, k \in KeyIds, signed \in BOOLEAN :
           /\ op \in KeyOps => storeActive /\ k = FirstOf(KeyIds)
           /\ op = "toggleKey" => k \in Stored(keys)
           /\ op \in {"rotateDevice", "disableDevice"} => DeviceFound
           /\ op \notin KeyOps \cup {"toggleKey"} => k = FirstOf(KeyIds)
           /\ op # "register" => signed
           /\ session' = [session EXCEPT ![s] =
                  [op |-> op, key |-> k, signed |-> signed, keys |-> keys,
                   store |-> storeActive, device |-> device, merchant |-> merchant,
                   picked |-> op \notin KeyOps, disturbed |-> FALSE]]
    /\ UNCHANGED <<keys, storeActive, device, merchant, answer, commits>>

(* api_regen_legacy, of old keyboards, has loaded the store alone. *)
LoadsKeysLate(op) == op = "regen"

(* get_store_api_key asks the database again.  A row the handler has loaded
   before keeps the columns it was loaded with. *)
PickKey(s) ==
    LET k == CanonicalKey
        old == session[s]
    IN  /\ old.op \in KeyOps /\ ~old.picked
        /\ ~(old.op = "issue" /\ k # 0)
        /\ session' = [session EXCEPT ![s].picked = TRUE, ![s].key = k,
               ![s].keys = IF k = 0 THEN old.keys
                           ELSE IF LoadsKeysLate(old.op) \/ old.keys[k].hash = 0
                           THEN [old.keys EXCEPT ![k] = keys[k]] ELSE old.keys]
        /\ UNCHANGED <<keys, storeActive, device, merchant, answer, commits>>

(* A first key is refused when there is one. *)
RefuseSecondKey(s) ==
    /\ session[s].op = "issue" /\ ~session[s].picked /\ CanonicalKey # 0
    /\ Abandon(s)

(* The row after an assignment: a column that keeps the value the handler read
   is not written. *)
Assigned(read, value, stored) == IF read = value THEN stored ELSE value

(* The rows after one row was enabled and all others disabled. *)
OnlyKey(rows, k, row) == [j \in KeyIds |->
    IF j = k THEN row ELSE [rows[j] EXCEPT !.active = FALSE]]

--------------------------------------------------------------------------------
(* API keys. *)

Picked(s) == session[s].op \in KeyOps /\ session[s].picked

(* Mutant: the database has no unique index of active keys. *)
InsertConflicts_NoIndex == Stored(keys) = KeyIds

(* The unique index of active keys refuses a second one. *)
InsertConflicts == Active(keys) # {} \/ Stored(keys) = KeyIds

InsertKey(s) ==
    /\ Picked(s) /\ session[s].key = 0
    /\ ~InsertConflicts
    /\ keys' = [keys EXCEPT ![FirstOf(KeyIds \ Stored(keys))] =
                   [hash |-> FreshHash, active |-> TRUE]]
    /\ UNCHANGED <<storeActive, device, merchant>>
    /\ Commit(s, "key", FreshHash)

FailInsertKey(s) ==
    /\ Picked(s) /\ session[s].key = 0
    /\ InsertConflicts
    /\ Abandon(s)

(* Mutant: replacing a disabled key does not enable it. *)
ReplacedKey_StaysDisabled(read, stored) ==
    [hash |-> FreshHash, active |-> stored.active]

ReplacedKey(read, stored) ==
    [hash |-> FreshHash, active |-> Assigned(read.active, TRUE, stored.active)]

RotateKey(s) ==
    LET k == session[s].key
    IN  /\ Picked(s) /\ k # 0
        /\ keys' = OnlyKey(keys, k, ReplacedKey(session[s].keys[k], keys[k]))
        /\ UNCHANGED <<storeActive, device, merchant>>
        /\ Commit(s, "key", FreshHash)

ToggleKey(s) ==
    LET k == session[s].key
        enabled == ~session[s].keys[k].active
        row == [keys[k] EXCEPT !.active = enabled]
    IN  /\ session[s].op = "toggleKey"
        /\ keys' = IF enabled THEN OnlyKey(keys, k, row) ELSE [keys EXCEPT ![k] = row]
        /\ UNCHANGED <<storeActive, device, merchant>>
        /\ Commit(s, "none", 0)

ToggleStore(s) ==
    /\ session[s].op = "toggleStore"
    /\ storeActive' = ~session[s].store
    /\ UNCHANGED <<keys, device, merchant>>
    /\ Commit(s, "none", 0)

--------------------------------------------------------------------------------
(* Devices. *)

RegisterDevice(s) ==
    LET read == session[s].device
    IN  /\ session[s].op = "register"
        /\ read.version # 0
        /\ device' = [version |-> device.version,
                      active |-> Assigned(read.active, TRUE, device.active),
                      hmac |-> Assigned(read.hmac, session[s].signed, device.hmac)]
        /\ UNCHANGED <<keys, storeActive, merchant>>
        /\ Commit(s, "device", DeviceSecret(read.version, session[s].merchant.token))

InsertDevice(s) ==
    /\ session[s].op = "register" /\ session[s].device.version = 0
    /\ device.version = 0
    /\ device' = [version |-> 1, active |-> TRUE, hmac |-> session[s].signed]
    /\ UNCHANGED <<keys, storeActive, merchant>>
    /\ Commit(s, "device", DeviceSecret(1, session[s].merchant.token))

(* The unique constraint on (merchant_id, device_id). *)
FailInsertDevice(s) ==
    /\ session[s].op = "register" /\ session[s].device.version = 0
    /\ device.version # 0
    /\ Abandon(s)

NextVersion(read) == read.version + 1

RotateDevice(s) ==
    LET read == session[s].device
    IN  /\ session[s].op = "rotateDevice"
        /\ device' = [device EXCEPT !.version = NextVersion(read),
                                    !.active = Assigned(read.active, TRUE, @)]
        /\ UNCHANGED <<keys, storeActive, merchant>>
        /\ Commit(s, "device", DeviceSecret(NextVersion(read), session[s].merchant.token))

DisableDevice(s) ==
    /\ session[s].op = "disableDevice"
    /\ device' = [device EXCEPT !.active = Assigned(session[s].device.active, FALSE, @)]
    /\ UNCHANGED <<keys, storeActive, merchant>>
    /\ Commit(s, "none", 0)

--------------------------------------------------------------------------------
(* The address of bank messages. *)

RotateToken(s) ==
    LET read == session[s].merchant
    IN  /\ session[s].op = "rotateToken"
        /\ merchant' = [merchant EXCEPT !.token = read.token + 1]
        /\ UNCHANGED <<keys, storeActive, device>>
        /\ Commit(s, "url", WebhookToken(read.root, read.token + 1))

(* The secret callbacks are signed with is the root of the address too. *)
RegenSecret(s) ==
    /\ session[s].op = "regenSecret"
    /\ merchant' = [merchant EXCEPT !.root = FreshRoot]
    /\ UNCHANGED <<keys, storeActive, device>>
    /\ Commit(s, "none", 0)

--------------------------------------------------------------------------------
(* The rows an installation may hold: no key, one, or a disabled second one
   that the migration has left. *)
Init ==
    /\ \E n \in 0 .. Cardinality(KeyIds), on \in BOOLEAN :
           keys = [k \in KeyIds |->
                      IF k > n THEN NoKey
                      ELSE [hash |-> k, active |-> on /\ k = FirstOf(KeyIds)]]
    /\ storeActive = TRUE
    /\ device = NoDevice
    /\ merchant = [root |-> 1, token |-> 1]
    /\ session = [s \in Sessions |-> Idle]
    /\ answer = Nothing
    /\ commits = 0

Next ==
    \/ \E s \in Sessions : Begin(s)
    \/ \E s \in Sessions : PickKey(s)
    \/ \E s \in Sessions : RefuseSecondKey(s)
    \/ \E s \in Sessions : InsertKey(s)
    \/ \E s \in Sessions : FailInsertKey(s)
    \/ \E s \in Sessions : RotateKey(s)
    \/ \E s \in Sessions : ToggleKey(s)
    \/ \E s \in Sessions : ToggleStore(s)
    \/ \E s \in Sessions : RegisterDevice(s)
    \/ \E s \in Sessions : InsertDevice(s)
    \/ \E s \in Sessions : FailInsertDevice(s)
    \/ \E s \in Sessions : RotateDevice(s)
    \/ \E s \in Sessions : DisableDevice(s)
    \/ \E s \in Sessions : RotateToken(s)
    \/ \E s \in Sessions : RegenSecret(s)

Spec == Init /\ [][Next]_vars

--------------------------------------------------------------------------------
KeyRows == [hash : Nat, active : BOOLEAN]
DeviceRows == [version : Nat, active : BOOLEAN, hmac : BOOLEAN]
MerchantRows == [root : Nat, token : Nat]
SessionType == {Idle} \cup
    [op : Ops, key : KeyIds \cup {0}, signed : BOOLEAN, keys : [KeyIds -> KeyRows],
     store : BOOLEAN, device : DeviceRows, merchant : MerchantRows,
     picked : BOOLEAN, disturbed : BOOLEAN]

(* The variables have their types, and the rows keep the constraints of their
   tables: hashes are unique and, whatever handlers overlap, at most one key of
   a store is active. *)
CredentialsTypeOK ==
    /\ keys \in [KeyIds -> KeyRows]
    /\ \A j, k \in Stored(keys) : keys[j].hash = keys[k].hash => j = k
    /\ Cardinality(Active(keys)) <= 1 /\ Active(keys) \subseteq Stored(keys)
    /\ storeActive \in BOOLEAN
    /\ device \in DeviceRows
    /\ merchant \in MerchantRows
    /\ session \in [Sessions -> SessionType]
    /\ answer.kind \in {"none", "key", "device", "url"}
    /\ commits \in 0 .. MaxCommits

(* What an answer shows is what the server accepts once it has committed, also
   when other replacements of the same secret overlapped it: a key, a device
   secret or an address shown to the owner admits the next request, unless the
   secret was disabled, or another of its inputs replaced, after the handler
   had read its rows. *)
AnsweredSecretWorks ==
    ~answer.disturbed =>
        CASE answer.kind = "key"    -> KeyAdmitted(answer.secret)
          [] answer.kind = "device" ->
                 /\ device.active
                 /\ MessageAdmitted(WebhookToken(merchant.root, merchant.token), answer.secret)
          [] answer.kind = "url"    -> answer.secret = WebhookToken(merchant.root, merchant.token)
          [] OTHER                  -> TRUE
================================================================================
