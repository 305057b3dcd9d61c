-------------------------- MODULE SettlementTxProofs --------------------------
(***************************************************************************)
(* SettlementTx, for every set of sessions, merchants, invoices and        *)
(* messages: what holds although the sessions work on stale objects.       *)
(***************************************************************************)
EXTENDS SettlementTx, SettlementProofs

-----------------------------------------------------------------------------
(* The inductive invariant. *)

SessionRow ==
    [at : {"idle", "message", "invoice", "merchant", "target", "update", "commit"},
     kind : Kinds \cup {None}, todo : Seq(Invoices), done : SUBSET Invoices,
     s : Sms \cup {None}, scope : Merchants \cup {None}, a : Nat,
     fresh : BOOLEAN, base : [Merchants -> Balance \cup {None}],
     bal : [Merchants -> Balance \cup {None}], log : Seq(LedgerRow)]

Pays(x) == x.kind \in {"webhook", "approve"}
Releases(x) == x.kind \in {"cancel", "expire"}
Issues(x) == x.kind \in {"create", "topup"}

\* The changed object of a loaded merchant is a balance.
ObjectsOK(x) == \A m \in Merchants : x.base[m] # None => x.bal[m] \in Balance

\* The invoices a session works on exist.
WorkExists(x) ==
    /\ \A n \in 1..Len(x.todo) : invoice[x.todo[n]].status # "absent"
    /\ \A i \in x.done : invoice[i].status # "absent"

Logged(x, kind, i) ==
    \E n \in 1..Len(x.log) : x.log[n].kind = kind /\ x.log[n].invoice = i

\* A payment about to commit carries the ledger row whose key is unique.
LogsPayment(x) ==
    LET i == Head(x.todo) IN
    /\ invoice[i].fee > 0 => Logged(x, "verification_fee", i)
    /\ invoice[i].purpose = "wallet_topup" => Logged(x, "wallet_topup", i)

\* Where a session stands, it has what its next step uses.
StandsWell(x) ==
    /\ x.at = "message" => Pays(x)
    /\ x.at \in {"invoice", "target"} => Pays(x) /\ x.todo # <<>>
    /\ x.at = "update" => Releases(x) /\ x.todo # <<>>
    /\ x.at = "merchant" /\ (Pays(x) \/ Releases(x)) => x.todo # <<>>
    /\ x.at = "commit" /\ Pays(x) => x.todo # <<>> /\ LogsPayment(x)
    /\ x.at = "merchant" /\ Pays(x) => x.bal[invoice[Head(x.todo)].merchant] \in Balance
    /\ x.at = "target" => invoice[Head(x.todo)].purpose = "wallet_topup"
                          /\ invoice[Head(x.todo)].fee = 0
    /\ x.at # "idle" /\ Pays(x) => x.s \in Sms
    /\ x.at # "idle" /\ Issues(x) => x.scope \in Merchants /\ x.bal[x.scope] \in Balance

SessOK(x) == x \in SessionRow /\ ObjectsOK(x) /\ WorkExists(x) /\ StandsWell(x)

SessInv == DOMAIN sess = Sessions /\ sess = [p \in Sessions |-> sess[p]]
           /\ \A p \in Sessions : SessOK(sess[p])

HeldInv ==
    /\ held \in [Rows -> Sessions \cup {None}]
    /\ \A r \in Rows : held[r] # None => InTx(held[r])

Matches(s, i) == sms[s].status = "matched" /\ sms[s].invoice = i

\* A message that has paid has left its unique rows behind.
PaidLeavesKeys ==
    \A s \in Sms, i \in Invoices : Matches(s, i) =>
        /\ invoice[i].status # "absent"
        /\ invoice[i].fee > 0 => KeyTaken("verification_fee", i)
        /\ invoice[i].purpose = "wallet_topup" => KeyTaken("wallet_topup", i)
        /\ Hooked(invoice[i]) => i \in events

Keyed(row) == row.fee > 0 \/ Hooked(row) \/ row.purpose = "wallet_topup"

OneMatch ==
    \A i \in Invoices, s, t \in Sms :
        Keyed(invoice[i]) /\ Matches(s, i) /\ Matches(t, i) => s = t

EventsExist == \A i \in events : invoice[i].status # "absent"

MatchesInv == PaidLeavesKeys /\ OneMatch /\ EventsExist /\ QueuedIfPaid

TxInv == TypeInv /\ SessInv /\ HeldInv /\ MatchesInv

\* An invoice row, once there, keeps what it was issued with.
KeepsIssued ==
    \A i \in Invoices : invoice[i].status # "absent" =>
        /\ invoice'[i].status # "absent"
        /\ invoice'[i].merchant = invoice[i].merchant
        /\ invoice'[i].fee = invoice[i].fee
        /\ invoice'[i].purpose = invoice[i].purpose
        /\ invoice'[i].hook = invoice[i].hook

-----------------------------------------------------------------------------
(* The session's objects. *)

LEMMA IdleOK == ConstantsAssumption => SessOK(Idle)
<1> SUFFICES ASSUME ConstantsAssumption PROVE SessOK(Idle)
  OBVIOUS
<1>1. Idle \in SessionRow
  BY DEF Idle, SessionRow
<1> QED  BY <1>1 DEF SessOK, Idle, ObjectsOK, WorkExists, StandsWell

\* Loading fills objects that were not there and changes nothing else.
LEMMA LoadOK ==
    ASSUME acct \in [Merchants -> Balance], NEW x \in SessionRow, ObjectsOK(x),
           NEW M \in SUBSET Merchants, NEW y, y = Load(x, M)
    PROVE  /\ y \in SessionRow /\ ObjectsOK(y)
           /\ \A m \in M : y.bal[m] \in Balance
           /\ \A m \in Merchants : x.bal[m] \in Balance => y.bal[m] \in Balance
           /\ y.at = x.at /\ y.kind = x.kind /\ y.todo = x.todo /\ y.done = x.done
           /\ y.s = x.s /\ y.scope = x.scope /\ y.a = x.a /\ y.fresh = x.fresh
           /\ y.log = x.log
<1> DEFINE missing == {m \in M : x.base[m] = None}
           b1 == [m \in Merchants |-> IF m \in missing THEN acct[m] ELSE x.base[m]]
           b2 == [m \in Merchants |-> IF m \in missing THEN acct[m] ELSE x.bal[m]]
<1>1. y = [x EXCEPT !.base = b1, !.bal = b2]
  BY DEF Load
<1>2. b1 \in [Merchants -> Balance \cup {None}] /\ b2 \in [Merchants -> Balance \cup {None}]
  BY DEF SessionRow
<1>3. \A m \in Merchants : b1[m] # None => b2[m] \in Balance
  BY DEF ObjectsOK
<1>4. \A m \in M : b2[m] \in Balance
  BY DEF ObjectsOK
<1>5. \A m \in Merchants : x.bal[m] \in Balance => b2[m] \in Balance
  OBVIOUS
<1> HIDE DEF b1, b2
<1> QED  BY <1>1, <1>2, <1>3, <1>4, <1>5 DEF SessionRow, ObjectsOK

\* Posting changes one object and adds the ledger row that explains it.
LEMMA PostOK ==
    ASSUME NEW x \in SessionRow, ObjectsOK(x), NEW m \in Merchants, x.bal[m] \in Balance,
           NEW b \in Balance, NEW kind \in EntryKind, NEW i \in Invoices \cup {None},
           NEW a \in Int, NEW y, y = Post(x, m, b, kind, i, a)
    PROVE  /\ y \in SessionRow /\ ObjectsOK(y)
           /\ \A k \in Merchants : x.bal[k] \in Balance => y.bal[k] \in Balance
           /\ Logged(y, kind, i)
           /\ y.at = x.at /\ y.kind = x.kind /\ y.todo = x.todo /\ y.done = x.done
           /\ y.s = x.s /\ y.scope = x.scope /\ y.a = x.a /\ y.fresh = x.fresh
<1> DEFINE row == [merchant |-> m, kind |-> kind, invoice |-> i, amount |-> a,
                   before |-> x.bal[m], after |-> b, reverses |-> 0]
           b2 == [x.bal EXCEPT ![m] = b]
           log == Append(x.log, row)
<1>1. y = [x EXCEPT !.bal = b2, !.log = log]
  BY DEF Post, SessionRow
<1>2. row \in LedgerRow /\ row.kind = kind /\ row.invoice = i
  BY DEF LedgerRow
<1>3. log \in Seq(LedgerRow) /\ Len(log) \in 1..Len(log) /\ log[Len(log)] = row
  <2> HIDE DEF row
  <2>1. x.log \in Seq(LedgerRow)
    BY DEF SessionRow
  <2> QED  BY <2>1, <1>2
<1>4. b2 \in [Merchants -> Balance \cup {None}]
  BY DEF SessionRow
<1>5. \A k \in Merchants : (x.base[k] # None \/ x.bal[k] \in Balance) => b2[k] \in Balance
  BY DEF ObjectsOK, SessionRow
<1> HIDE DEF row, b2, log
<1>6. /\ y \in SessionRow /\ y.bal = b2 /\ y.log = log /\ y.base = x.base
      /\ y.at = x.at /\ y.kind = x.kind /\ y.todo = x.todo /\ y.done = x.done
      /\ y.s = x.s /\ y.scope = x.scope /\ y.a = x.a /\ y.fresh = x.fresh
  BY <1>1, <1>3, <1>4 DEF SessionRow
<1> QED  BY <1>2, <1>3, <1>5, <1>6 DEF ObjectsOK, Logged

\* What UPDATE merchants writes are balances.
LEMMA FlushOK ==
    ASSUME acct \in [Merchants -> Balance], NEW x \in SessionRow, ObjectsOK(x)
    PROVE  Flush(x) \in [Merchants -> Balance]
<1> SUFFICES ASSUME NEW m \in Merchants
             PROVE  LET col(c) == IF x.base[m] = None \/ x.bal[m][c] = x.base[m][c]
                                    THEN acct[m][c] ELSE x.bal[m][c]
                    IN [wallet |-> col("wallet"), reserved |-> col("reserved")] \in Balance
  BY DEF Flush
<1>1. acct[m] \in Balance /\ (x.base[m] # None => x.bal[m] \in Balance)
  BY DEF ObjectsOK
<1> QED  BY <1>1 DEF Balance

-----------------------------------------------------------------------------
(* Two kinds of steps: a session goes on, or it leaves. *)

\* The first invoice of a nonempty list of work is an invoice that exists.
LEMMA WorkHead ==
    ASSUME TypeInv, NEW x \in SessionRow, WorkExists(x), x.todo # <<>>
    PROVE  /\ Head(x.todo) \in Invoices
           /\ invoice[Head(x.todo)] \in InvoiceRow
           /\ invoice[Head(x.todo)].status # "absent"
           /\ invoice[Head(x.todo)].merchant \in Merchants
<1>1. x.todo \in Seq(Invoices)
  BY DEF SessionRow
<1>2. Head(x.todo) = x.todo[1] /\ 1 \in 1..Len(x.todo) /\ Head(x.todo) \in Invoices
  BY <1>1
<1> QED  BY <1>2 DEF WorkExists, TypeInv, TypeOK, RowsComplete

\* A session that goes on: the tables stay, its record and a lock change.
LEMMA GoesOn ==
    ASSUME TxInv, NEW p \in Sessions, NEW y, SessOK(y), y.at # "idle",
           sess' = [sess EXCEPT ![p] = y], UNCHANGED tables,
           UNCHANGED held \/ \E r \in Rows : held' = [held EXCEPT ![r] = p]
    PROVE  TxInv'
<1>1. TypeInv /\ SessInv /\ HeldInv /\ MatchesInv
  BY DEF TxInv
<1>2. TypeInv'
  BY <1>1 DEF TypeInv, TypeOK, RowsComplete, tables
<1>3. MatchesInv'
  BY <1>1 DEF MatchesInv, PaidLeavesKeys, OneMatch, EventsExist, QueuedIfPaid, Matches,
              KeyTaken, Hooked, Keyed, tables
<1>4. \A q \in Sessions : sess'[q] = IF q = p THEN y ELSE sess[q]
  BY <1>1 DEF SessInv
<1>5. SessInv'
  <2>1. \A x : SessOK(x) => SessOK(x)'
    BY DEF SessOK, ObjectsOK, WorkExists, StandsWell, LogsPayment, Logged, Pays, Releases,
           Issues, tables
  <2>2. \A q \in Sessions : SessOK(sess[q])'
    <3> SUFFICES ASSUME NEW q \in Sessions PROVE SessOK(sess[q])'
      OBVIOUS
    <3>1. PICK x : x = sess'[q] /\ SessOK(x)
      BY <1>1, <1>4 DEF SessInv
    <3> QED  BY <2>1, <3>1 DEF SessOK, ObjectsOK, WorkExists, StandsWell, LogsPayment,
                               Logged, Pays, Releases, Issues, tables
  <2> QED  BY <1>1, <2>2 DEF SessInv
<1>6. HeldInv'
  BY <1>1, <1>4 DEF HeldInv, InTx
<1> QED  BY <1>2, <1>3, <1>5, <1>6 DEF TxInv

\* A session that leaves: the tables keep what was issued, and the others go
\* on with what they have.
LEMMA Leaves ==
    ASSUME ConstantsAssumption, TxInv, NEW p \in Sessions, Leave(p),
           KeepsIssued, TypeInv', MatchesInv'
    PROVE  TxInv'
<1>1. TypeInv /\ SessInv /\ HeldInv
  BY DEF TxInv
<1>2. \A q \in Sessions : sess'[q] = IF q = p THEN Idle ELSE sess[q]
  BY <1>1 DEF SessInv, Leave
<1>3. SessInv'
  <2> SUFFICES ASSUME NEW q \in Sessions PROVE SessOK(sess[q])'
    BY <1>1 DEF SessInv, Leave
  <2>1. PICK x : x = sess'[q] /\ SessOK(x)
    BY <1>1, <1>2, IdleOK DEF SessInv
  <2>2. x \in SessionRow /\ ObjectsOK(x)
    BY <2>1 DEF SessOK
  <2>3. \A n \in 1..Len(x.todo) : x.todo[n] \in Invoices
    BY <2>2 DEF SessionRow
  <2>4. /\ \A n \in 1..Len(x.todo) : invoice'[x.todo[n]].status # "absent"
        /\ \A i \in x.done : invoice'[i].status # "absent"
    BY <2>1, <2>2, <2>3 DEF SessOK, WorkExists, KeepsIssued, SessionRow
  <2>5. x.todo # <<>> => /\ invoice'[Head(x.todo)].merchant = invoice[Head(x.todo)].merchant
                         /\ invoice'[Head(x.todo)].fee = invoice[Head(x.todo)].fee
                         /\ invoice'[Head(x.todo)].purpose = invoice[Head(x.todo)].purpose
    BY <1>1, <2>1, <2>2, WorkHead DEF SessOK, KeepsIssued
  <2>6. StandsWell(x)
    BY <2>1 DEF SessOK
  <2>7. LogsPayment(x) /\ x.todo # <<>> => LogsPayment(x)'
    BY <2>5 DEF LogsPayment, Logged
  <2>8. StandsWell(x)'
    BY <2>5, <2>6, <2>7 DEF StandsWell, Pays, Releases, Issues
  <2>9. SessOK(x)'
    BY <2>2, <2>4, <2>8 DEF SessOK, ObjectsOK, WorkExists
  <2> QED  BY <2>1, <2>9 DEF SessOK, ObjectsOK, WorkExists, StandsWell, LogsPayment,
                             Logged, Pays, Releases, Issues
<1>4. HeldInv'
  BY <1>1, <1>2, ConstantsAssumption, TxAssumption DEF HeldInv, Leave, InTx
<1> QED  BY <1>3, <1>4 DEF TxInv

\* What a step finds in its session.
LEMMA Standing ==
    ASSUME TxInv, NEW p \in Sessions
    PROVE  SessOK(sess[p]) /\ sess[p] \in SessionRow
BY DEF TxInv, SessInv, SessOK

-----------------------------------------------------------------------------
(* Requests arrive. *)

\* A request begins with the record x, filled by a load and marked by its kind.
LEMMA Begins ==
    ASSUME TxInv, NEW p \in Sessions, NEW kind, NEW x \in SessionRow, ObjectsOK(x),
           NEW M \in SUBSET Merchants, Begin(p, kind, Load(x, M)),
           x.at # "idle", WorkExists(x),
           \A y \in SessionRow :
              (/\ y.at = x.at /\ y.kind = kind /\ y.todo = x.todo /\ y.s = x.s
               /\ y.scope = x.scope /\ \A m \in M : y.bal[m] \in Balance) => StandsWell(y)
    PROVE  TxInv'
<1>1. acct \in [Merchants -> Balance]
  BY DEF TxInv, TypeInv, TypeOK
<1>2. PICK z : z = Load(x, M)
  OBVIOUS
<1>3. /\ z \in SessionRow /\ ObjectsOK(z) /\ \A m \in M : z.bal[m] \in Balance
      /\ z.at = x.at /\ z.todo = x.todo /\ z.done = x.done /\ z.s = x.s /\ z.scope = x.scope
  BY <1>1, <1>2, LoadOK
<1>4. kind \in Kinds
  BY DEF Begin
<1>5. PICK y : y = [z EXCEPT !.kind = kind]
  OBVIOUS
<1>6. /\ y \in SessionRow /\ y.base = z.base /\ y.bal = z.bal /\ y.kind = kind
      /\ y.at = x.at /\ y.todo = x.todo /\ y.done = x.done /\ y.s = x.s /\ y.scope = x.scope
  BY <1>3, <1>4, <1>5 DEF SessionRow
<1>7. SessOK(y)
  <2>1. StandsWell(y)
    BY <1>3, <1>6
  <2>2. ObjectsOK(y)
    BY <1>3, <1>6 DEF ObjectsOK
  <2>3. WorkExists(y)
    BY <1>6 DEF WorkExists
  <2> QED  BY <1>6, <2>1, <2>2, <2>3 DEF SessOK
<1>8. sess' = [sess EXCEPT ![p] = y] /\ UNCHANGED <<tables, held>>
  BY <1>2, <1>5 DEF Begin
<1> QED  BY <1>6, <1>7, <1>8, GoesOn

LEMMA IdleFields ==
    ASSUME ConstantsAssumption
    PROVE  /\ Idle \in SessionRow /\ ObjectsOK(Idle)
           /\ Idle.todo = <<>> /\ Idle.done = {} /\ Idle.at = "idle"
<1>1. Idle \in SessionRow /\ ObjectsOK(Idle)
  BY IdleOK DEF SessOK
<1> QED  BY <1>1 DEF Idle

LEMMA OneOfWork ==
    ASSUME NEW i \in Invoices
    PROVE  <<i>> \in Seq(Invoices) /\ Len(<<i>>) = 1 /\ Head(<<i>>) = i /\ <<i>>[1] = i
           /\ <<i>> # <<>>
OBVIOUS

LEMMA BeginWebhookStep ==
    ASSUME ConstantsAssumption, TxInv, NEW p \in Sessions, NEW s \in Sms,
           NEW scope \in Merchants \cup {None}, NEW a \in SmsAmounts,
           BeginWebhook(p, s, scope, a)
    PROVE  TxInv'
<1> DEFINE fresh == sms[s].status = "absent"
           x == [Idle EXCEPT !.at = "message", !.s = s, !.scope = scope, !.a = a,
                             !.fresh = fresh]
<1>1. fresh \in BOOLEAN /\ a \in Nat
  BY DEF ConstantsAssumption
<1>2. Begin(p, "webhook", Load(x, {scope} \ {None}))
  BY DEF BeginWebhook
<1> HIDE DEF fresh
<1>3. /\ x \in SessionRow /\ ObjectsOK(x) /\ x.at = "message" /\ x.todo = <<>> /\ x.done = {}
      /\ x.s = s
  BY <1>1, IdleFields DEF SessionRow, ObjectsOK
<1>4. PICK z : z = x
  OBVIOUS
<1>5. WorkExists(z)
  BY <1>3, <1>4 DEF WorkExists
<1>6. \A y \in SessionRow :
         y.at = "message" /\ y.kind = "webhook" /\ y.s = s => StandsWell(y)
  BY DEF StandsWell, Pays, Releases, Issues
<1> HIDE DEF x
<1> QED  BY <1>2, <1>3, <1>4, <1>5, <1>6, Begins

LEMMA BeginApproveStep ==
    ASSUME ConstantsAssumption, TxInv, NEW p \in Sessions, NEW s \in Sms, NEW i \in Invoices,
           NEW joined \in BOOLEAN, BeginApprove(p, s, i, joined)
    PROVE  TxInv'
<1> DEFINE x == [Idle EXCEPT !.at = "invoice", !.s = s, !.todo = <<i>>,
                             !.scope = sms[s].merchant, !.a = sms[s].amount]
           M == IF joined THEN {invoice[i].merchant} ELSE {}
<1>1. invoice[i].status = "pending" /\ invoice[i].merchant \in Merchants
  BY DEF BeginApprove, Pending, TxInv, TypeInv, RowsComplete
<1>2. Begin(p, "approve", Load(x, M))
  BY DEF BeginApprove
<1>3. sms[s].merchant \in Merchants \cup {None} /\ sms[s].amount \in Nat
  BY DEF TxInv, TypeInv, TypeOK, SmsRow
<1>4. /\ x \in SessionRow /\ ObjectsOK(x) /\ x.at = "invoice" /\ x.todo = <<i>> /\ x.done = {}
      /\ x.s = s
  BY <1>3, OneOfWork, IdleFields DEF SessionRow, ObjectsOK
<1>5. WorkExists(x)
  <2> HIDE DEF x
  <2> QED  BY <1>1, <1>4, OneOfWork DEF WorkExists
<1>6. \A y \in SessionRow :
         y.at = "invoice" /\ y.kind = "approve" /\ y.s = s /\ y.todo = <<i>> => StandsWell(y)
  BY DEF StandsWell, Pays, Releases, Issues
<1>7. M \in SUBSET Merchants
  BY <1>1
<1> HIDE DEF x, M
<1> QED  BY <1>2, <1>4, <1>5, <1>6, <1>7, Begins

\* To cancel or to expire: work, and no object that must be there.
LEMMA BeginRelease ==
    ASSUME ConstantsAssumption, TxInv, NEW p \in Sessions, NEW kind \in {"cancel", "expire"},
           NEW q \in Seq(Invoices), q # <<>>,
           \A n \in 1..Len(q) : invoice[q[n]].status # "absent",
           NEW M \in SUBSET Merchants,
           Begin(p, kind, Load([Idle EXCEPT !.at = "merchant", !.todo = q], M))
    PROVE  TxInv'
<1> DEFINE x == [Idle EXCEPT !.at = "merchant", !.todo = q]
<1>1. /\ x \in SessionRow /\ ObjectsOK(x) /\ x.at = "merchant" /\ x.todo = q /\ x.done = {}
  BY IdleFields DEF SessionRow, ObjectsOK
<1>2. Begin(p, kind, Load(x, M))
  OBVIOUS
<1> HIDE DEF x
<1>3. WorkExists(x)
  BY <1>1 DEF WorkExists
<1>4. \A y \in SessionRow :
         y.at = "merchant" /\ y.kind = kind /\ y.todo = q => StandsWell(y)
  BY DEF StandsWell, Pays, Releases, Issues
<1> QED  BY <1>1, <1>2, <1>3, <1>4, Begins

LEMMA BeginReleaseStep ==
    ASSUME ConstantsAssumption, TxInv, NEW p \in Sessions, NEW i \in Invoices,
           NEW joined \in BOOLEAN, BeginCancel(p, i, joined) \/ BeginExpire(p, i, joined)
    PROVE  TxInv'
<1> DEFINE M == IF joined THEN {invoice[i].merchant} ELSE {}
<1>1. invoice[i].status = "pending" /\ invoice[i].merchant \in Merchants
  BY DEF BeginCancel, BeginExpire, Pending, TxInv, TypeInv, RowsComplete
<1>2. M \in SUBSET Merchants
  BY <1>1
<1>3. \A n \in 1..Len(<<i>>) : invoice[<<i>>[n]].status # "absent"
  BY <1>1, OneOfWork
<1>4. PICK kind \in {"cancel", "expire"} :
         Begin(p, kind, Load([Idle EXCEPT !.at = "merchant", !.todo = <<i>>], M))
  BY Zenon DEF BeginCancel, BeginExpire
<1> HIDE DEF M
<1> QED  BY <1>2, <1>3, <1>4, OneOfWork, BeginRelease

\* The batch of an expiration pass is a sequence of pending invoices.
LEMMA BatchIsWork ==
    ASSUME ConstantsAssumption, NEW due \in SUBSET Invoices, NEW q \in SetToAllKPermutations(due)
    PROVE  q \in Seq(Invoices) /\ \A n \in 1..Len(q) : q[n] \in due
<1>1. PICK S \in SUBSET due : q \in SetToSeqs(S)
  BY DEF SetToAllKPermutations
<1>2. IsFiniteSet(S)
  BY FS_Subset DEF ConstantsAssumption
<1>3. Cardinality(S) \in Nat
  BY <1>2, FS_CardinalityType
<1>4. q \in [1..Cardinality(S) -> S]
  BY <1>1 DEF SetToSeqs
<1> QED  BY <1>3, <1>4

LEMMA LoadNothing ==
    ASSUME NEW x \in SessionRow
    PROVE  Load(x, {}) = x
BY DEF Load, SessionRow

LEMMA BeginPassStep ==
    ASSUME ConstantsAssumption, TxInv, NEW p \in Sessions, BeginPass(p)
    PROVE  TxInv'
<1> DEFINE due == {i \in overdue : Pending(i)}
<1>1. PICK q \in SetToAllKPermutations(due) :
         Len(q) > 1 /\ Begin(p, "expire", [Idle EXCEPT !.at = "merchant", !.todo = q])
  BY DEF BeginPass
<1>2. due \in SUBSET Invoices
  BY DEF TxInv, TypeInv, TypeOK
<1>3. q \in Seq(Invoices) /\ \A n \in 1..Len(q) : q[n] \in due
  BY <1>2, BatchIsWork
<1>4. \A n \in 1..Len(q) : invoice[q[n]].status # "absent"
  BY <1>3 DEF Pending
<1>5. q # <<>>
  BY <1>1, <1>3
<1>6. [Idle EXCEPT !.at = "merchant", !.todo = q] \in SessionRow
  BY <1>3, IdleFields DEF SessionRow
<1>7. Begin(p, "expire", Load([Idle EXCEPT !.at = "merchant", !.todo = q], {}))
  BY <1>1, <1>6, LoadNothing
<1>8. {} \in SUBSET Merchants /\ "expire" \in {"cancel", "expire"}
  OBVIOUS
<1> HIDE DEF due
<1> QED  BY <1>3, <1>4, <1>5, <1>7, <1>8, BeginRelease

LEMMA BeginCreateStep ==
    ASSUME ConstantsAssumption, TxInv, NEW p \in Sessions, NEW kind \in {"create", "topup"},
           NEW m \in Merchants, BeginCreate(p, kind, m)
    PROVE  TxInv'
<1> DEFINE x == [Idle EXCEPT !.at = "merchant", !.scope = m]
<1>1. /\ x \in SessionRow /\ ObjectsOK(x) /\ x.at = "merchant" /\ x.todo = <<>> /\ x.done = {}
      /\ x.scope = m
  BY IdleFields DEF SessionRow, ObjectsOK
<1>2. Begin(p, kind, Load(x, {m}))
  BY DEF BeginCreate
<1> HIDE DEF x
<1>3. WorkExists(x)
  BY <1>1 DEF WorkExists
<1>4. \A y \in SessionRow :
         y.at = "merchant" /\ y.kind = kind /\ y.scope = m /\ y.bal[m] \in Balance
         => StandsWell(y)
  BY DEF StandsWell, Pays, Releases, Issues
<1> QED  BY <1>1, <1>2, <1>3, <1>4, Begins

LEMMA BeginAdjustStep ==
    ASSUME ConstantsAssumption, TxInv, NEW p \in Sessions, NEW m \in Merchants, NEW a \in Int,
           BeginAdjust(p, m, a)
    PROVE  TxInv'
<1>1. acct \in [Merchants -> Balance]
  BY DEF TxInv, TypeInv, TypeOK
<1>2. Idle \in SessionRow /\ ObjectsOK(Idle) /\ Idle.todo = <<>> /\ Idle.done = {}
  BY IdleFields
<1>3. PICK x : x = Load(Idle, {m})
  OBVIOUS
<1>4. x \in SessionRow /\ ObjectsOK(x) /\ x.bal[m] \in Balance /\ x.todo = <<>> /\ x.done = {}
  BY <1>1, <1>2, <1>3, LoadOK
<1>5. PICK kind \in EntryKind : kind = IF a > 0 THEN "credit" ELSE "debit"
  BY DEF EntryKind
<1>6. AddToWallet(acct[m], a) \in Balance
  BY <1>1, BalanceOps
<1>7. PICK z : z = Post(x, m, AddToWallet(acct[m], a), kind, None, a)
  OBVIOUS
<1>8. z \in SessionRow /\ ObjectsOK(z) /\ z.todo = <<>> /\ z.done = {}
  BY <1>4, <1>6, <1>7, PostOK
<1>9. PICK y : y = [[z EXCEPT !.at = "commit", !.scope = m] EXCEPT !.kind = "adjust"]
  OBVIOUS
<1>10. "adjust" \in Kinds /\ sess' = [sess EXCEPT ![p] = y] /\ UNCHANGED <<tables, held>>
  BY <1>3, <1>5, <1>7, <1>9 DEF BeginAdjust, Begin
<1>11. /\ y \in SessionRow /\ y.base = z.base /\ y.bal = z.bal /\ y.todo = <<>> /\ y.done = {}
       /\ y.at = "commit" /\ y.kind = "adjust"
  BY <1>8, <1>9, <1>10 DEF SessionRow
<1>12. SessOK(y)
  BY <1>8, <1>11 DEF SessOK, ObjectsOK, WorkExists, StandsWell, Pays, Releases, Issues
<1> QED  BY <1>10, <1>11, <1>12, GoesOn

-----------------------------------------------------------------------------
(* Transactions that leave the tables as they are. *)

LEMMA RollbackStep ==
    ASSUME ConstantsAssumption, TxInv, NEW p \in Sessions, Rollback(p)
    PROVE  TxInv'
<1>1. UNCHANGED tables /\ Leave(p)
  BY DEF Rollback
<1>2. TypeInv'
  BY <1>1 DEF TxInv, TypeInv, TypeOK, RowsComplete, tables
<1>3. MatchesInv'
  BY <1>1 DEF TxInv, MatchesInv, PaidLeavesKeys, OneMatch, EventsExist, QueuedIfPaid, Matches,
              KeyTaken, Hooked, Keyed, tables
<1>4. KeepsIssued
  BY <1>1 DEF KeepsIssued, tables
<1> QED  BY <1>1, <1>2, <1>3, <1>4, Leaves

\* The message is filed, and a candidate is there or not.
LEMMA FileMessageStep ==
    ASSUME ConstantsAssumption, TxInv, NEW p \in Sessions, FileMessage(p)
    PROVE  TxInv'
<1> DEFINE x == sess[p]
<1>1. x \in SessionRow /\ ObjectsOK(x) /\ WorkExists(x) /\ StandsWell(x)
  BY Standing DEF SessOK
<1>2. x.at = "message"
  BY DEF FileMessage
<1>3. Pays(x) /\ x.s \in Sms
  BY <1>1, <1>2 DEF StandsWell
<1>4. x.scope \in Merchants \cup {None} /\ x.a \in Nat
  BY <1>1 DEF SessionRow
<1>5. CASE Rollback(p)
  BY <1>5, RollbackStep
<1>6. ASSUME NEW card \in Merchants, NEW i \in Invoices,
             Candidates(card, x.a) = {i},
             sess' = [sess EXCEPT ![p] = [Load(x, {card}) EXCEPT !.at = "invoice", !.todo = <<i>>]],
             Lock(p, x.s), UNCHANGED tables
      PROVE  TxInv'
  <2>1. invoice[i].status = "pending"
    BY <1>6 DEF Candidates, Pending
  <2>2. PICK z : z = Load(x, {card})
    OBVIOUS
  <2>3. /\ z \in SessionRow /\ ObjectsOK(z) /\ z.kind = x.kind /\ z.done = x.done /\ z.s = x.s
    BY <1>1, <2>2, LoadOK DEF TxInv, TypeInv, TypeOK
  <2>4. PICK y : y = [z EXCEPT !.at = "invoice", !.todo = <<i>>]
    OBVIOUS
  <2>5. /\ y \in SessionRow /\ y.at = "invoice" /\ y.todo = <<i>> /\ y.kind = x.kind
        /\ y.done = x.done /\ y.s = x.s /\ y.base = z.base /\ y.bal = z.bal
    BY <2>3, <2>4, OneOfWork DEF SessionRow
  <2>6. SessOK(y)
    <3>1. WorkExists(y)
      BY <1>1, <2>1, <2>5, OneOfWork DEF WorkExists
    <3>2. StandsWell(y)
      BY <1>3, <2>5, OneOfWork DEF StandsWell, Pays, Releases, Issues
    <3> QED  BY <2>3, <2>5, <3>1, <3>2 DEF SessOK, ObjectsOK
  <2>7. sess' = [sess EXCEPT ![p] = y]
    BY <1>6, <2>2, <2>4
  <2>8. \E r \in Rows : held' = [held EXCEPT ![r] = p]
    BY <1>3, <1>6 DEF Lock, Rows
  <2> QED  BY <1>6, <2>5, <2>6, <2>7, <2>8, GoesOn
<1>7. CASE /\ sms' = [sms EXCEPT ![x.s].status = "unmatched",
                                 ![x.s].merchant = x.scope, ![x.s].amount = x.a]
           /\ Leave(p)
           /\ UNCHANGED <<acct, verificationFee, invoice, overdue, reservations, ledger, events>>
  <2>1. TypeInv /\ MatchesInv
    BY DEF TxInv
  <2>2. PICK s \in Sms, scope \in Merchants \cup {None}, a \in Nat :
            s = x.s /\ scope = x.scope /\ a = x.a
    BY <1>3, <1>4
  <2> DEFINE row == [sms[s] EXCEPT !.status = "unmatched", !.merchant = scope, !.amount = a]
  <2>3. sms \in [Sms -> SmsRow]
    BY <2>1 DEF TypeInv, TypeOK
  <2>4. sms' = [sms EXCEPT ![s] = row]
    BY <1>7, <2>2, <2>3
  <2>5. row \in SmsRow /\ row.status = "unmatched"
    BY <2>3 DEF SmsRow
  <2> HIDE DEF row
  <2>6. sms' \in [Sms -> SmsRow]
        /\ \A t \in Sms : sms'[t].status = "matched" => sms'[t] = sms[t]
    BY <2>3, <2>4, <2>5
  <2>7. TypeInv'
    BY <1>7, <2>1, <2>6 DEF TypeInv, TypeOK, RowsComplete
  <2>8. \A t \in Sms, i \in Invoices : Matches(t, i)' => Matches(t, i)
    BY <2>6 DEF Matches
  <2>9. UNCHANGED <<invoice, ledger, events>>
    BY <1>7
  <2>10. MatchesInv'
    <3>1. \A kind, i : KeyTaken(kind, i)' <=> KeyTaken(kind, i)
      BY <2>9 DEF KeyTaken
    <3>2. PaidLeavesKeys'
      BY <2>1, <2>8, <2>9, <3>1 DEF MatchesInv, PaidLeavesKeys, Hooked
    <3>3. OneMatch'
      BY <2>1, <2>8, <2>9 DEF MatchesInv, OneMatch, Keyed, Hooked
    <3>4. EventsExist' /\ QueuedIfPaid'
      BY <2>1, <2>9 DEF MatchesInv, EventsExist, QueuedIfPaid, Hooked
    <3> QED  BY <3>2, <3>3, <3>4 DEF MatchesInv
  <2>11. KeepsIssued
    BY <2>9 DEF KeepsIssued
  <2> QED  BY <1>7, <2>7, <2>10, <2>11, Leaves
<1> QED  BY <1>5, <1>6, <1>7 DEF FileMessage

-----------------------------------------------------------------------------
(* Locks. *)

\* Facts of a session with work: the invoice it works on next.
LEMMA Working ==
    ASSUME ConstantsAssumption, TxInv, NEW p \in Sessions, sess[p].todo # <<>>
    PROVE  LET i == Head(sess[p].todo) IN
           /\ i \in Invoices /\ i \in Rows
           /\ invoice[i] \in InvoiceRow /\ invoice[i].status # "absent"
           /\ invoice[i].merchant \in Merchants /\ invoice[i].merchant \in Rows
           /\ invoice[i].fee \in Nat /\ invoice[i].payable \in Nat
           /\ invoice[i].purpose = "wallet_topup" =>
                 invoice[i].target \in Merchants /\ invoice[i].target \in Rows
                 /\ invoice[i].fee = 0
<1>1. SessOK(sess[p]) /\ sess[p] \in SessionRow /\ TypeInv
  BY Standing DEF TxInv
<1>2. PICK i : i = Head(sess[p].todo)
  OBVIOUS
<1>3. /\ i \in Invoices /\ invoice[i] \in InvoiceRow /\ invoice[i].status # "absent"
      /\ invoice[i].merchant \in Merchants
  BY <1>1, <1>2, WorkHead DEF SessOK
<1>4. invoice[i].fee \in Nat /\ invoice[i].payable \in Nat
  BY <1>3 DEF InvoiceRow, ConstantsAssumption
<1> QED  BY <1>1, <1>2, <1>3, <1>4 DEF TypeInv, RowsComplete, Rows

\* A session that goes on by moving to another place.
LEMMA MovesOn ==
    ASSUME TxInv, NEW p \in Sessions, NEW z \in SessionRow, ObjectsOK(z),
           z.todo = sess[p].todo, z.done = sess[p].done,
           NEW at \in {"merchant", "target", "update", "commit"},
           sess' = [sess EXCEPT ![p] = [z EXCEPT !.at = at]], UNCHANGED tables,
           NEW r \in Rows, Lock(p, r),
           \A y \in SessionRow :
              (/\ y.at = at /\ y.kind = z.kind /\ y.todo = z.todo /\ y.s = z.s
               /\ y.scope = z.scope /\ y.bal = z.bal /\ y.log = z.log) => StandsWell(y)
    PROVE  TxInv'
<1>1. PICK y : y = [z EXCEPT !.at = at]
  OBVIOUS
<1>2. /\ y \in SessionRow /\ y.at = at /\ y.kind = z.kind /\ y.todo = z.todo /\ y.s = z.s
      /\ y.scope = z.scope /\ y.bal = z.bal /\ y.base = z.base /\ y.log = z.log
      /\ y.done = z.done
  BY <1>1 DEF SessionRow
<1>3. WorkExists(sess[p])
  BY Standing DEF SessOK
<1>4. SessOK(y)
  BY <1>2, <1>3 DEF SessOK, ObjectsOK, WorkExists
<1>5. held' = [held EXCEPT ![r] = p]
  BY DEF Lock
<1> QED  BY <1>1, <1>2, <1>4, <1>5, GoesOn

LEMMA LockInvoiceStep ==
    ASSUME ConstantsAssumption, TxInv, NEW p \in Sessions, LockInvoice(p)
    PROVE  TxInv'
<1>1. PICK x : x = sess[p] /\ SessOK(x) /\ x \in SessionRow
  BY Standing
<1>2. x.at = "invoice"
  BY <1>1 DEF LockInvoice
<1>3. Pays(x) /\ x.todo # <<>> /\ x.s \in Sms
  BY <1>1, <1>2 DEF SessOK, StandsWell
<1>4. PICK i \in Invoices : i = Head(x.todo) /\ i \in Rows /\ invoice[i].merchant \in Merchants
  BY <1>1, <1>3, Working
<1>5. PICK m \in Merchants : m = invoice[i].merchant
  BY <1>4
<1>6. PICK z : z = Load(x, {m})
  OBVIOUS
<1>7. /\ z \in SessionRow /\ ObjectsOK(z) /\ z.bal[m] \in Balance
      /\ z.kind = x.kind /\ z.todo = x.todo /\ z.done = x.done /\ z.s = x.s
  BY <1>1, <1>6, LoadOK DEF SessOK, TxInv, TypeInv, TypeOK
<1>8. sess' = [sess EXCEPT ![p] = [z EXCEPT !.at = "merchant"]] /\ Lock(p, i)
      /\ UNCHANGED tables
  BY <1>1, <1>4, <1>5, <1>6 DEF LockInvoice
<1>9. \A y \in SessionRow :
         (/\ y.at = "merchant" /\ y.kind = z.kind /\ y.todo = z.todo /\ y.s = z.s
          /\ y.scope = z.scope /\ y.bal = z.bal /\ y.log = z.log) => StandsWell(y)
  BY <1>3, <1>4, <1>5, <1>7 DEF StandsWell, Pays, Releases, Issues
<1> QED  BY <1>1, <1>4, <1>7, <1>8, <1>9, MovesOn

LEMMA LockMerchantToPayStep ==
    ASSUME ConstantsAssumption, TxInv, NEW p \in Sessions, LockMerchantToPay(p)
    PROVE  TxInv'
<1>1. PICK x : x = sess[p] /\ SessOK(x) /\ x \in SessionRow
  BY Standing
<1>2. x.at = "merchant" /\ Pays(x)
  BY <1>1 DEF LockMerchantToPay, Pays
<1>3. /\ x.todo # <<>> /\ x.s \in Sms
      /\ x.bal[invoice[Head(x.todo)].merchant] \in Balance
  BY <1>1, <1>2 DEF SessOK, StandsWell
<1>4. PICK i \in Invoices :
         /\ i = Head(x.todo) /\ invoice[i].merchant \in Merchants
         /\ invoice[i].merchant \in Rows /\ invoice[i].fee \in Nat
         /\ invoice[i].purpose = "wallet_topup" => invoice[i].fee = 0
  BY <1>1, <1>3, Working
<1>5. PICK m \in Merchants : m = invoice[i].merchant /\ m \in Rows
  BY <1>4
<1>6. PICK f \in Nat : f = invoice[i].fee
  BY <1>4
<1>7. Lock(p, m) /\ UNCHANGED tables
  BY <1>1, <1>4, <1>5 DEF LockMerchantToPay
<1>8. sess' = [sess EXCEPT ![p] =
          IF invoice[i].purpose = "wallet_topup" THEN [x EXCEPT !.at = "target"]
          ELSE IF f > 0 THEN [Post(x, m, ChargeFee(x.bal[m], f), "verification_fee", i, -f)
                                EXCEPT !.at = "commit"]
          ELSE [x EXCEPT !.at = "commit"]]
  BY <1>1, <1>4, <1>5, <1>6 DEF LockMerchantToPay
<1>9. CASE invoice[i].purpose = "wallet_topup"
  <2>1. sess' = [sess EXCEPT ![p] = [x EXCEPT !.at = "target"]]
    BY <1>8, <1>9
  <2>2. \A y \in SessionRow :
           (/\ y.at = "target" /\ y.kind = x.kind /\ y.todo = x.todo /\ y.s = x.s
            /\ y.scope = x.scope /\ y.bal = x.bal /\ y.log = x.log) => StandsWell(y)
    BY <1>2, <1>3, <1>4, <1>9 DEF StandsWell, Pays, Releases, Issues
  <2> QED  BY <1>1, <1>5, <1>7, <2>1, <2>2, MovesOn DEF SessOK
<1>10. CASE invoice[i].purpose # "wallet_topup" /\ f > 0
  <2>1. PICK z : z = Post(x, m, ChargeFee(x.bal[m], f), "verification_fee", i, -f)
    OBVIOUS
  <2>2. ChargeFee(x.bal[m], f) \in Balance /\ "verification_fee" \in EntryKind /\ -f \in Int
    BY <1>3, <1>4, <1>5, BalanceOps DEF EntryKind
  <2>3. x.bal[m] \in Balance /\ ObjectsOK(x)
    BY <1>1, <1>3, <1>4, <1>5 DEF SessOK
  <2>4. /\ z \in SessionRow /\ ObjectsOK(z) /\ Logged(z, "verification_fee", i)
        /\ z.kind = x.kind /\ z.todo = x.todo /\ z.done = x.done /\ z.s = x.s
    BY <1>1, <2>1, <2>2, <2>3, PostOK
  <2>5. sess' = [sess EXCEPT ![p] = [z EXCEPT !.at = "commit"]]
    BY <1>8, <1>10, <2>1
  <2>6. \A y \in SessionRow :
           (/\ y.at = "commit" /\ y.kind = z.kind /\ y.todo = z.todo /\ y.s = z.s
            /\ y.scope = z.scope /\ y.bal = z.bal /\ y.log = z.log) => StandsWell(y)
    BY <1>2, <1>3, <1>4, <1>10, <2>4 DEF StandsWell, Pays, Releases, Issues, LogsPayment, Logged
  <2> QED  BY <1>1, <1>5, <1>7, <2>4, <2>5, <2>6, MovesOn
<1>11. CASE invoice[i].purpose # "wallet_topup" /\ ~(f > 0)
  <2>1. sess' = [sess EXCEPT ![p] = [x EXCEPT !.at = "commit"]]
    BY <1>8, <1>11
  <2>2. \A y \in SessionRow :
           (/\ y.at = "commit" /\ y.kind = x.kind /\ y.todo = x.todo /\ y.s = x.s
            /\ y.scope = x.scope /\ y.bal = x.bal /\ y.log = x.log) => StandsWell(y)
    BY <1>2, <1>3, <1>4, <1>6, <1>11 DEF StandsWell, Pays, Releases, Issues, LogsPayment
  <2> QED  BY <1>1, <1>5, <1>7, <2>1, <2>2, MovesOn DEF SessOK
<1> QED  BY <1>9, <1>10, <1>11

LEMMA LockTopupTargetStep ==
    ASSUME ConstantsAssumption, TxInv, NEW p \in Sessions, LockTopupTarget(p)
    PROVE  TxInv'
<1>1. PICK x : x = sess[p] /\ SessOK(x) /\ x \in SessionRow
  BY Standing
<1>2. x.at = "target"
  BY <1>1 DEF LockTopupTarget
<1>3. /\ Pays(x) /\ x.todo # <<>> /\ x.s \in Sms
      /\ invoice[Head(x.todo)].purpose = "wallet_topup" /\ invoice[Head(x.todo)].fee = 0
  BY <1>1, <1>2 DEF SessOK, StandsWell
<1>4. PICK i \in Invoices :
         /\ i = Head(x.todo) /\ invoice[i].payable \in Nat
         /\ invoice[i].target \in Merchants /\ invoice[i].target \in Rows
  BY <1>1, <1>3, Working
<1>5. PICK t \in Merchants : t = invoice[i].target /\ t \in Rows
  BY <1>4
<1>6. PICK a \in Nat : a = invoice[i].payable
  BY <1>4
<1>7. PICK u : u = Load(x, {t})
  OBVIOUS
<1>8. /\ u \in SessionRow /\ ObjectsOK(u) /\ u.bal[t] \in Balance
      /\ u.kind = x.kind /\ u.todo = x.todo /\ u.done = x.done /\ u.s = x.s
  BY <1>1, <1>7, LoadOK DEF SessOK, TxInv, TypeInv, TypeOK
<1>9. PICK z : z = Post(u, t, AddToWallet(u.bal[t], a), "wallet_topup", i, a)
  OBVIOUS
<1>10. AddToWallet(u.bal[t], a) \in Balance /\ "wallet_topup" \in EntryKind /\ a \in Int
  BY <1>8, BalanceOps DEF EntryKind
<1>11. /\ z \in SessionRow /\ ObjectsOK(z) /\ Logged(z, "wallet_topup", i)
       /\ z.kind = x.kind /\ z.todo = x.todo /\ z.done = x.done /\ z.s = x.s
  BY <1>8, <1>9, <1>10, PostOK
<1>12. Lock(p, t) /\ UNCHANGED tables
       /\ sess' = [sess EXCEPT ![p] = [z EXCEPT !.at = "commit"]]
  BY <1>1, <1>4, <1>5, <1>6, <1>7, <1>9 DEF LockTopupTarget
<1>13. \A y \in SessionRow :
          (/\ y.at = "commit" /\ y.kind = z.kind /\ y.todo = z.todo /\ y.s = z.s
           /\ y.scope = z.scope /\ y.bal = z.bal /\ y.log = z.log) => StandsWell(y)
  BY <1>3, <1>4, <1>11 DEF StandsWell, Pays, Releases, Issues, LogsPayment, Logged
<1> QED  BY <1>1, <1>5, <1>11, <1>12, <1>13, MovesOn

LEMMA LockMerchantToReleaseStep ==
    ASSUME ConstantsAssumption, TxInv, NEW p \in Sessions, LockMerchantToRelease(p)
    PROVE  TxInv'
<1>1. PICK x : x = sess[p] /\ SessOK(x) /\ x \in SessionRow
  BY Standing
<1>2. x.at = "merchant" /\ Releases(x)
  BY <1>1 DEF LockMerchantToRelease, Releases
<1>3. x.todo # <<>>
  BY <1>1, <1>2 DEF SessOK, StandsWell
<1>4. PICK i \in Invoices :
         /\ i = Head(x.todo) /\ invoice[i].fee \in Nat
         /\ invoice[i].merchant \in Merchants /\ invoice[i].merchant \in Rows
  BY <1>1, <1>3, Working
<1>5. PICK m \in Merchants : m = invoice[i].merchant /\ m \in Rows
  BY <1>4
<1>6. PICK f \in Nat : f = invoice[i].fee
  BY <1>4
<1>7. PICK u : u = Load(x, {m})
  OBVIOUS
<1>8. /\ u \in SessionRow /\ ObjectsOK(u) /\ u.bal[m] \in Balance
      /\ u.kind = x.kind /\ u.todo = x.todo /\ u.done = x.done
  BY <1>1, <1>7, LoadOK DEF SessOK, TxInv, TypeInv, TypeOK
<1>9. PICK z : z = IF f > 0 THEN Post(u, m, ReleaseFee(u.bal[m], f), "fee_released", i, f)
                   ELSE u
  OBVIOUS
<1>10. ReleaseFee(u.bal[m], f) \in Balance /\ "fee_released" \in EntryKind /\ f \in Int
  BY <1>8, BalanceOps DEF EntryKind
<1>11. /\ z \in SessionRow /\ ObjectsOK(z)
       /\ z.kind = x.kind /\ z.todo = x.todo /\ z.done = x.done
  <2>1. CASE f > 0
    <3>1. z = Post(u, m, ReleaseFee(u.bal[m], f), "fee_released", i, f)
      BY <1>9, <2>1
    <3> QED  BY <1>8, <1>10, <3>1, PostOK
  <2>2. CASE ~(f > 0)
    BY <1>8, <1>9, <2>2
  <2> QED  BY <2>1, <2>2
<1>12. Lock(p, m) /\ UNCHANGED tables
       /\ sess' = [sess EXCEPT ![p] = [z EXCEPT !.at = "update"]]
  BY <1>1, <1>4, <1>5, <1>6, <1>7, <1>9 DEF LockMerchantToRelease
<1>13. \A y \in SessionRow :
          (/\ y.at = "update" /\ y.kind = z.kind /\ y.todo = z.todo /\ y.s = z.s
           /\ y.scope = z.scope /\ y.bal = z.bal /\ y.log = z.log) => StandsWell(y)
  BY <1>2, <1>3, <1>11 DEF StandsWell, Pays, Releases, Issues
<1> QED  BY <1>1, <1>5, <1>11, <1>12, <1>13, MovesOn

LEMMA UpdateReleasedStep ==
    ASSUME ConstantsAssumption, TxInv, NEW p \in Sessions, UpdateReleased(p)
    PROVE  TxInv'
<1>1. PICK x : x = sess[p] /\ SessOK(x) /\ x \in SessionRow
  BY Standing
<1>2. x.at = "update"
  BY <1>1 DEF UpdateReleased
<1>3. Releases(x) /\ x.todo # <<>>
  BY <1>1, <1>2 DEF SessOK, StandsWell
<1>4. PICK i \in Invoices : i = Head(x.todo) /\ i \in Rows /\ invoice[i].status # "absent"
  BY <1>1, <1>3, Working
<1>5. PICK q : q = Tail(x.todo)
  OBVIOUS
<1>6. PICK at \in {"commit", "merchant"} :
         at = IF Len(x.todo) = 1 THEN "commit" ELSE "merchant"
  OBVIOUS
<1>7. x.todo \in Seq(Invoices)
  BY <1>1 DEF SessionRow
<1>8. q \in Seq(Invoices) /\ (at = "merchant" => q # <<>>)
      /\ \A n \in 1..Len(q) : n + 1 \in 1..Len(x.todo) /\ q[n] = x.todo[n + 1]
  <2>1. PICK w \in Seq(Invoices) : w = x.todo /\ w # <<>> /\ q = Tail(w)
    BY <1>3, <1>5, <1>7
  <2>2. Len(w) \in Nat \ {0} /\ q \in Seq(Invoices) /\ Len(q) = Len(w) - 1
    BY <2>1
  <2>3. \A n \in 1..Len(q) : q[n] = w[n + 1]
    BY <2>1, <2>2
  <2>4. \A n \in 1..Len(q) : n + 1 \in 1..Len(w)
    BY <2>2
  <2>5. at = "merchant" => Len(q) # 0
    BY <1>6, <2>1, <2>2
  <2> QED  BY <2>1, <2>2, <2>3, <2>4, <2>5
<1>9. PICK y : y = [x EXCEPT !.todo = q, !.done = @ \cup {i}, !.at = at]
  OBVIOUS
<1>10. /\ y \in SessionRow /\ y.at = at /\ y.kind = x.kind /\ y.todo = q
       /\ y.done = x.done \cup {i} /\ y.base = x.base /\ y.bal = x.bal
  BY <1>1, <1>8, <1>9 DEF SessionRow
<1>11. SessOK(y)
  <2>1. WorkExists(y)
    BY <1>1, <1>4, <1>8, <1>10 DEF SessOK, WorkExists
  <2>2. StandsWell(y)
    BY <1>3, <1>6, <1>8, <1>10 DEF StandsWell, Pays, Releases, Issues
  <2> QED  BY <1>1, <1>10, <2>1, <2>2 DEF SessOK, ObjectsOK
<1>12. UNCHANGED tables /\ sess' = [sess EXCEPT ![p] = y] /\ held' = [held EXCEPT ![i] = p]
  BY <1>1, <1>4, <1>5, <1>6, <1>9 DEF UpdateReleased, Lock
<1>13. y.at # "idle"
  BY <1>6, <1>10
<1> QED  BY <1>4, <1>11, <1>12, <1>13, GoesOn

LEMMA LockMerchantToCreateStep ==
    ASSUME ConstantsAssumption, TxInv, NEW p \in Sessions, LockMerchantToCreate(p)
    PROVE  TxInv'
<1>1. PICK x : x = sess[p] /\ SessOK(x) /\ x \in SessionRow
  BY Standing
<1>2. x.at = "merchant" /\ Issues(x)
  BY <1>1 DEF LockMerchantToCreate, Issues
<1>3. x.scope \in Merchants /\ x.bal[x.scope] \in Balance
  BY <1>1, <1>2 DEF SessOK, StandsWell
<1>4. CASE Rollback(p)
  BY <1>4, RollbackStep
<1>5. CASE Lock(p, x.scope) /\ sess' = [sess EXCEPT ![p].at = "commit"] /\ UNCHANGED tables
  <2>1. sess' = [sess EXCEPT ![p] = [x EXCEPT !.at = "commit"]]
    BY <1>1, <1>5
  <2>2. \A y \in SessionRow :
           (/\ y.at = "commit" /\ y.kind = x.kind /\ y.todo = x.todo /\ y.s = x.s
            /\ y.scope = x.scope /\ y.bal = x.bal /\ y.log = x.log) => StandsWell(y)
    BY <1>2, <1>3 DEF StandsWell, Pays, Releases, Issues
  <2>3. x.scope \in Rows
    BY <1>3 DEF Rows
  <2> QED  BY <1>1, <1>5, <2>1, <2>2, <2>3, MovesOn DEF SessOK
<1> QED  BY <1>1, <1>4, <1>5 DEF LockMerchantToCreate

-----------------------------------------------------------------------------
(* Commits. *)

\* What inserting ledger rows keeps.
LEMMA LedgerGrows ==
    ASSUME TypeInv, NEW x, x.log \in Seq(LedgerRow), ledger' = ledger \o x.log
    PROVE  /\ ledger' \in Seq(LedgerRow)
           /\ \A kind, i : KeyTaken(kind, i) => KeyTaken(kind, i)'
           /\ \A kind, i : Logged(x, kind, i) => KeyTaken(kind, i)'
<1>1. PICK old \in Seq(LedgerRow) : old = ledger
  BY DEF TypeInv, TypeOK
<1>2. PICK new \in Seq(LedgerRow) : new = x.log
  OBVIOUS
<1>3. ledger' = old \o new
  BY <1>1, <1>2
<1>4. /\ old \o new \in Seq(LedgerRow) /\ Len(old \o new) = Len(old) + Len(new)
      /\ \A n \in 1..Len(old) : n \in 1..Len(old \o new) /\ (old \o new)[n] = old[n]
  OBVIOUS
<1>5. \A n \in 1..Len(new) : /\ Len(old) + n \in 1..Len(old \o new)
                             /\ (old \o new)[Len(old) + n] = new[n]
  OBVIOUS
<1>6. \A kind, i : KeyTaken(kind, i) => KeyTaken(kind, i)'
  BY <1>1, <1>3, <1>4 DEF KeyTaken
<1>7. \A kind, i : Logged(x, kind, i) => KeyTaken(kind, i)'
  BY <1>2, <1>3, <1>5 DEF KeyTaken, Logged
<1> QED  BY <1>3, <1>4, <1>6, <1>7

\* A commit that pays nothing keeps the facts about payments.
LEMMA NothingPaid ==
    ASSUME TxInv, KeepsIssued, UNCHANGED <<sms, events>>,
           \A kind, i : KeyTaken(kind, i) => KeyTaken(kind, i)',
           \A i \in Invoices : invoice[i].status # "absent" => invoice'[i].sms = invoice[i].sms,
           \A i \in Invoices : invoice'[i].status = "paid" => invoice'[i] = invoice[i]
    PROVE  MatchesInv'
<1>1. MatchesInv /\ TypeInv
  BY DEF TxInv
<1>2. \A t \in Sms, i \in Invoices : Matches(t, i)' <=> Matches(t, i)
  BY DEF Matches
<1>3. \A i \in Invoices : invoice[i].status # "absent" =>
          /\ Hooked(invoice[i])' <=> Hooked(invoice[i])
          /\ Keyed(invoice[i])' <=> Keyed(invoice[i])
  BY DEF KeepsIssued, Hooked, Keyed
<1>4. PaidLeavesKeys'
  BY <1>1, <1>2, <1>3 DEF MatchesInv, PaidLeavesKeys, KeepsIssued
<1>5. OneMatch'
  BY <1>1, <1>2, <1>3 DEF MatchesInv, OneMatch, PaidLeavesKeys
<1>6. events \subseteq Invoices
  BY <1>1 DEF TypeInv, TypeOK
<1>7. EventsExist'
  BY <1>1, <1>6 DEF MatchesInv, EventsExist, KeepsIssued
<1>8. QueuedIfPaid'
  <2> SUFFICES ASSUME NEW i \in Invoices
               PROVE  /\ (invoice[i].status = "paid" /\ Hooked(invoice[i]))' => i \in events'
                      /\ i \in events' => invoice'[i].sms # None
    BY DEF QueuedIfPaid
  <2>1. (invoice[i].status = "paid" /\ Hooked(invoice[i]))' => i \in events'
    BY <1>1 DEF MatchesInv, QueuedIfPaid, Hooked
  <2>2. i \in events' => invoice'[i].sms # None
    BY <1>1, <1>6 DEF MatchesInv, QueuedIfPaid, EventsExist
  <2> QED  BY <2>1, <2>2
<1> QED  BY <1>4, <1>5, <1>7, <1>8 DEF MatchesInv

\* The commit of a payment finds no message that has paid the invoice before.
LEMMA CommitPaymentStep ==
    ASSUME ConstantsAssumption, TxInv, NEW p \in Sessions, CommitPayment(p)
    PROVE  TxInv'
<1>1. PICK x : x = sess[p] /\ SessOK(x) /\ x \in SessionRow
  BY Standing
<1>2. x.at = "commit" /\ Pays(x)
  BY <1>1 DEF CommitPayment, Pays
<1>3. x.todo # <<>> /\ x.s \in Sms /\ LogsPayment(x)
  BY <1>1, <1>2 DEF SessOK, StandsWell
<1>4. PICK i \in Invoices :
         /\ i = Head(x.todo) /\ invoice[i] \in InvoiceRow /\ invoice[i].status # "absent"
  BY <1>1, <1>3, Working
<1>5. PICK s \in Sms, scope \in Merchants \cup {None}, a \in Nat :
         s = x.s /\ scope = x.scope /\ a = x.a
  BY <1>1, <1>3 DEF SessionRow
<1>6. CASE Rollback(p)
  BY <1>6, RollbackStep
<1>7. CASE /\ ~(Duplicate(x) \/ Queued(i) \cap events # {})
           /\ acct' = Flush(x)
           /\ ledger' = ledger \o x.log
           /\ invoice' = [invoice EXCEPT ![i].status = "paid", ![i].sms = s]
           /\ overdue' = overdue \ {i}
           /\ reservations' = {r \in reservations : r.token # i}
           /\ events' = events \cup Queued(i)
           /\ FileSms(s, scope, a, "matched", i)
           /\ Leave(p)
           /\ UNCHANGED verificationFee
  <2>1. TypeInv /\ MatchesInv /\ ObjectsOK(x) /\ x.log \in Seq(LedgerRow)
    BY <1>1 DEF TxInv, SessOK, SessionRow
  <2>2. invoice \in [Invoices -> InvoiceRow] /\ sms \in [Sms -> SmsRow]
        /\ acct \in [Merchants -> Balance] /\ events \subseteq Invoices
    BY <2>1 DEF TypeInv, TypeOK
  <2> DEFINE row == [invoice[i] EXCEPT !.status = "paid", !.sms = s]
             msg == [status |-> "matched", merchant |-> scope, amount |-> a, invoice |-> i]
  <2>3. invoice' = [invoice EXCEPT ![i] = row]
    BY <1>7, <2>2
  <2>4. /\ row \in InvoiceRow /\ row.status = "paid" /\ row.sms = s
        /\ row.merchant = invoice[i].merchant /\ row.fee = invoice[i].fee
        /\ row.purpose = invoice[i].purpose /\ row.hook = invoice[i].hook
        /\ row.target = invoice[i].target
    BY <1>4 DEF InvoiceRow, InvoiceStatus
  <2>5. sms' = [sms EXCEPT ![s] = msg]
    BY <1>7 DEF FileSms
  <2>6. msg \in SmsRow /\ msg.status = "matched" /\ msg.invoice = i
    BY DEF SmsRow
  <2> HIDE DEF row, msg
  <2>7. /\ \A j \in Invoices : invoice'[j] = IF j = i THEN row ELSE invoice[j]
        /\ \A t \in Sms : sms'[t] = IF t = s THEN msg ELSE sms[t]
    BY <2>2, <2>3, <2>5
  <2>8. KeepsIssued
    BY <1>4, <2>4, <2>7 DEF KeepsIssued
  <2>9. /\ ledger' \in Seq(LedgerRow)
        /\ \A kind, j : KeyTaken(kind, j) => KeyTaken(kind, j)'
        /\ \A kind, j : Logged(x, kind, j) => KeyTaken(kind, j)'
    BY <1>7, <2>1, LedgerGrows
  <2>10. Queued(i) \subseteq {i} /\ (Hooked(invoice[i]) => Queued(i) = {i})
    BY DEF Queued
  <2>11. TypeInv'
    <3>1. acct' \in [Merchants -> Balance]
      BY <1>1, <1>7, <2>1, <2>2, FlushOK
    <3>2. invoice' \in [Invoices -> InvoiceRow] /\ sms' \in [Sms -> SmsRow]
      BY <2>2, <2>3, <2>4, <2>5, <2>6
    <3>3. RowsComplete'
      BY <1>4, <2>1, <2>4, <2>7 DEF TypeInv, RowsComplete
    <3>4. events' \subseteq Invoices /\ overdue' \subseteq Invoices
          /\ reservations' \subseteq ReservationRow
          /\ verificationFee' \in [Merchants -> 0..MaxFee]
      BY <1>7, <2>1, <2>10 DEF TypeInv, TypeOK
    <3> QED  BY <2>9, <3>1, <3>2, <3>3, <3>4 DEF TypeInv, TypeOK
  <2>12. ~Duplicate(x) /\ i # None
    BY <1>7 DEF ConstantsAssumption
  <2>13. \A kind : ~(Logged(x, kind, i) /\ KeyTaken(kind, i))
    BY <2>12 DEF Duplicate, Logged, KeyTaken
  <2>14. Hooked(invoice[i]) => i \notin events
    BY <1>7, <2>10
  <2>15. \A t \in Sms : Matches(t, i) => ~Keyed(invoice[i])
    <3> SUFFICES ASSUME NEW t \in Sms, Matches(t, i) PROVE ~Keyed(invoice[i])
      OBVIOUS
    <3>1. /\ invoice[i].fee > 0 => KeyTaken("verification_fee", i)
          /\ invoice[i].purpose = "wallet_topup" => KeyTaken("wallet_topup", i)
          /\ Hooked(invoice[i]) => i \in events
      BY <2>1 DEF MatchesInv, PaidLeavesKeys
    <3>2. /\ invoice[i].fee > 0 => Logged(x, "verification_fee", i)
          /\ invoice[i].purpose = "wallet_topup" => Logged(x, "wallet_topup", i)
      BY <1>3, <1>4 DEF LogsPayment
    <3> QED  BY <2>13, <2>14, <3>1, <3>2 DEF Keyed
  <2>16. \A t \in Sms, j \in Invoices :
            Matches(t, j)' => (t = s /\ j = i) \/ (t # s /\ Matches(t, j))
    BY <2>6, <2>7 DEF Matches
  <2>17. \A j \in Invoices : invoice[j].status # "absent" =>
            /\ Hooked(invoice[j])' <=> Hooked(invoice[j])
            /\ Keyed(invoice[j])' <=> Keyed(invoice[j])
    BY <2>8 DEF KeepsIssued, Hooked, Keyed
  <2>18. events \subseteq events' /\ (Hooked(invoice[i]) => i \in events')
    BY <1>7, <2>10
  <2>19. MatchesInv'
    <3>1. PaidLeavesKeys'
      <4> SUFFICES ASSUME NEW t \in Sms, NEW j \in Invoices, Matches(t, j)'
                   PROVE  /\ invoice'[j].status # "absent"
                          /\ invoice'[j].fee > 0 => KeyTaken("verification_fee", j)'
                          /\ invoice'[j].purpose = "wallet_topup" => KeyTaken("wallet_topup", j)'
                          /\ Hooked(invoice[j])' => j \in events'
        BY DEF PaidLeavesKeys
      <4>1. CASE t = s /\ j = i
        <5>1. /\ invoice[i].fee > 0 => KeyTaken("verification_fee", i)'
              /\ invoice[i].purpose = "wallet_topup" => KeyTaken("wallet_topup", i)'
          BY <1>3, <1>4, <2>9 DEF LogsPayment
        <5> QED  BY <1>4, <2>4, <2>7, <2>17, <2>18, <4>1, <5>1
      <4>2. CASE t # s /\ Matches(t, j)
        <5>1. /\ invoice[j].status # "absent"
              /\ invoice[j].fee > 0 => KeyTaken("verification_fee", j)
              /\ invoice[j].purpose = "wallet_topup" => KeyTaken("wallet_topup", j)
              /\ Hooked(invoice[j]) => j \in events
          BY <2>1, <4>2 DEF MatchesInv, PaidLeavesKeys
        <5> QED  BY <2>8, <2>9, <2>17, <2>18, <5>1 DEF KeepsIssued
      <4> QED  BY <2>16, <4>1, <4>2
    <3>2. OneMatch'
      <4> SUFFICES ASSUME NEW j \in Invoices, NEW t \in Sms, NEW u \in Sms,
                          Keyed(invoice[j])', Matches(t, j)', Matches(u, j)'
                   PROVE  t = u
        BY DEF OneMatch
      <4>1. CASE t = s /\ u = s
        BY <4>1
      <4>2. CASE j = i /\ (t # s \/ u # s)
        BY <1>4, <2>15, <2>16, <2>17, <4>2
      <4>3. CASE j # i
        <5>1. Matches(t, j) /\ Matches(u, j)
          BY <2>16, <4>3
        <5>2. invoice[j].status # "absent"
          BY <2>1, <5>1 DEF MatchesInv, PaidLeavesKeys
        <5> QED  BY <2>1, <2>17, <5>1, <5>2 DEF MatchesInv, OneMatch
      <4> QED  BY <4>1, <4>2, <4>3
    <3>3. EventsExist'
      BY <1>4, <1>7, <2>1, <2>2, <2>8, <2>10 DEF MatchesInv, EventsExist, KeepsIssued
    <3>4. QueuedIfPaid'
      <4> SUFFICES ASSUME NEW j \in Invoices
                   PROVE  /\ (invoice[j].status = "paid" /\ Hooked(invoice[j]))' => j \in events'
                          /\ j \in events' => invoice'[j].sms # None
        BY DEF QueuedIfPaid
      <4>1. CASE j = i
        <5>1. Hooked(invoice[i])' => i \in events'
          BY <1>4, <2>17, <2>18
        <5>2. invoice'[i].sms # None
          BY <2>4, <2>7 DEF ConstantsAssumption
        <5> QED  BY <4>1, <5>1, <5>2
      <4>2. CASE j # i
        <5>1. invoice'[j] = invoice[j] /\ (j \in events' <=> j \in events)
          BY <1>7, <2>7, <2>10, <2>18, <4>2
        <5> QED  BY <2>1, <5>1 DEF MatchesInv, QueuedIfPaid, Hooked
      <4> QED  BY <4>1, <4>2
    <3> QED  BY <3>1, <3>2, <3>3, <3>4 DEF MatchesInv
  <2> QED  BY <1>7, <2>8, <2>11, <2>19, Leaves
<1> QED  BY <1>1, <1>4, <1>5, <1>6, <1>7 DEF CommitPayment

LEMMA CommitReleaseStep ==
    ASSUME ConstantsAssumption, TxInv, NEW p \in Sessions, CommitRelease(p)
    PROVE  TxInv'
<1>1. PICK x : x = sess[p] /\ SessOK(x) /\ x \in SessionRow
  BY Standing
<1>2. CASE Rollback(p)
  BY <1>2, RollbackStep
<1>3. CASE /\ acct' = Flush(x)
           /\ ledger' = ledger \o x.log
           /\ invoice' = [i \in Invoices |->
                 IF i \in x.done THEN [invoice[i] EXCEPT !.status = ClosedAs(x.kind)]
                                 ELSE invoice[i]]
           /\ overdue' = overdue \ x.done
           /\ reservations' = {r \in reservations : r.token \notin x.done}
           /\ Leave(p)
           /\ UNCHANGED <<verificationFee, sms, events>>
  <2>1. TypeInv /\ ObjectsOK(x) /\ WorkExists(x) /\ x.log \in Seq(LedgerRow)
    BY <1>1 DEF TxInv, SessOK, SessionRow
  <2>2. invoice \in [Invoices -> InvoiceRow] /\ acct \in [Merchants -> Balance]
    BY <2>1 DEF TypeInv, TypeOK
  <2>3. PICK status \in {"cancelled", "expired"} : status = ClosedAs(x.kind)
    BY DEF ClosedAs
  <2>4. \A i \in Invoices :
           invoice'[i] = IF i \in x.done THEN [invoice[i] EXCEPT !.status = status]
                                         ELSE invoice[i]
    BY <1>3, <2>3
  <2>5. \A i \in Invoices :
           /\ invoice'[i] \in InvoiceRow
           /\ invoice[i].status # "absent" => invoice'[i].status # "absent"
           /\ invoice[i].status = "absent" => invoice'[i] = invoice[i]
           /\ invoice'[i].merchant = invoice[i].merchant /\ invoice'[i].fee = invoice[i].fee
           /\ invoice'[i].purpose = invoice[i].purpose /\ invoice'[i].hook = invoice[i].hook
           /\ invoice'[i].target = invoice[i].target /\ invoice'[i].sms = invoice[i].sms
           /\ invoice'[i].status = "paid" => invoice'[i] = invoice[i]
    <3> SUFFICES ASSUME NEW i \in Invoices
                 PROVE  /\ invoice'[i] \in InvoiceRow
                        /\ invoice[i].status # "absent" => invoice'[i].status # "absent"
                        /\ invoice[i].status = "absent" => invoice'[i] = invoice[i]
                        /\ invoice'[i].merchant = invoice[i].merchant
                        /\ invoice'[i].fee = invoice[i].fee
                        /\ invoice'[i].purpose = invoice[i].purpose
                        /\ invoice'[i].hook = invoice[i].hook
                        /\ invoice'[i].target = invoice[i].target
                        /\ invoice'[i].sms = invoice[i].sms
                        /\ invoice'[i].status = "paid" => invoice'[i] = invoice[i]
      OBVIOUS
    <3>1. invoice[i] \in InvoiceRow
      BY <2>2
    <3>2. CASE i \in x.done
      <4>1. invoice[i].status # "absent"
        BY <2>1, <3>2 DEF WorkExists
      <4>2. invoice'[i] = [invoice[i] EXCEPT !.status = status]
        BY <2>4, <3>2
      <4> QED  BY <3>1, <4>1, <4>2 DEF InvoiceRow, InvoiceStatus
    <3>3. CASE i \notin x.done
      BY <2>4, <3>1, <3>3
    <3> QED  BY <3>2, <3>3
  <2>6. KeepsIssued
    BY <2>5 DEF KeepsIssued
  <2>7. /\ ledger' \in Seq(LedgerRow)
        /\ \A kind, j : KeyTaken(kind, j) => KeyTaken(kind, j)'
    BY <1>3, <2>1, LedgerGrows
  <2>8. TypeInv'
    <3>1. acct' \in [Merchants -> Balance]
      BY <1>1, <1>3, <2>1, <2>2, FlushOK
    <3>2. invoice' \in [Invoices -> InvoiceRow]
      BY <1>3, <2>5
    <3>3. RowsComplete'
      BY <2>1, <2>5 DEF TypeInv, RowsComplete
    <3> QED  BY <1>3, <2>1, <2>7, <3>1, <3>2, <3>3 DEF TypeInv, TypeOK
  <2>9. MatchesInv'
    BY <1>3, <2>5, <2>6, <2>7, NothingPaid
  <2> QED  BY <1>3, <2>6, <2>8, <2>9, Leaves
<1> QED  BY <1>1, <1>2, <1>3 DEF CommitRelease

\* A row put where none was keeps what was issued and what was paid.
LEMMA NewRow ==
    ASSUME TypeInv, NEW i \in Invoices, invoice[i].status = "absent",
           NEW row \in InvoiceRow, row.status = "pending",
           invoice' = [invoice EXCEPT ![i] = row]
    PROVE  /\ KeepsIssued
           /\ \A j \in Invoices : invoice[j].status # "absent" => invoice'[j].sms = invoice[j].sms
           /\ \A j \in Invoices : invoice'[j].status = "paid" => invoice'[j] = invoice[j]
BY DEF TypeInv, TypeOK, KeepsIssued

LEMMA CommitCreateStep ==
    ASSUME ConstantsAssumption, TxInv, NEW p \in Sessions, NEW i \in Invoices,
           NEW base \in BaseAmounts, NEW mode \in FeeModes, NEW hook \in BOOLEAN,
           CommitCreate(p, i, base, mode, hook)
    PROVE  TxInv'
<1>1. PICK y : y = sess[p] /\ SessOK(y) /\ y \in SessionRow
  BY Standing
<1>2. y.at = "commit" /\ Issues(y)
  BY <1>1 DEF CommitCreate, Issues
<1>3. PICK m \in Merchants : m = y.scope /\ y.bal[m] \in Balance
  BY <1>1, <1>2 DEF SessOK, StandsWell
<1>4. TypeInv
  BY DEF TxInv
<1>5. PICK f \in 0..MaxFee : f = verificationFee[m] /\ f \in Nat
  BY <1>4 DEF TypeInv, TypeOK, ConstantsAssumption
<1>6. PICK x : x = IF f > 0 THEN Post(y, m, HoldFee(y.bal[m], f), "fee_reserved", i, -f) ELSE y
  OBVIOUS
<1>7. acct' = Flush(x) /\ ledger' = ledger \o x.log
  BY <1>1, <1>3, <1>5, <1>6 DEF CommitCreate
<1>8. PICK share \in Nat : share = CustomerFee(f, mode)
  BY <1>5, CustomerFeeType
<1>9. PICK pay \in {base + share + c : c \in Codes} :
         /\ ReserveUniquePayableAmount(m, base + share, i, pay)
         /\ invoice' = [invoice EXCEPT ![i] = PendingInvoice(m, f, pay, "payment", None, hook)]
  BY <1>1, <1>3, <1>5, <1>8 DEF CommitCreate
<1>10. pay \in Nat
  <2>1. PICK c \in Codes : pay = base + share + c
    OBVIOUS
  <2> QED  BY <2>1 DEF ConstantsAssumption
<1> DEFINE row == PendingInvoice(m, f, pay, "payment", None, hook)
<1>11. /\ row \in InvoiceRow /\ row.status = "pending" /\ row.merchant \in Merchants
       /\ row.purpose = "payment"
  BY <1>10 DEF PendingInvoice, InvoiceRow, InvoiceStatus
<1>12. invoice' = [invoice EXCEPT ![i] = row]
  BY <1>9
<1> HIDE DEF row
<1>13. /\ invoice[i].status = "absent" /\ Leave(p)
       /\ UNCHANGED <<verificationFee, overdue, sms, events>>
  BY DEF CommitCreate
<1>14. x \in SessionRow /\ ObjectsOK(x) /\ x.log \in Seq(LedgerRow)
  <2>1. f \in Int /\ -f \in Int /\ y.bal[m] \in Balance /\ "fee_reserved" \in EntryKind
    BY <1>3, <1>5 DEF EntryKind
  <2>2. HoldFee(y.bal[m], f) \in Balance
    BY <2>1, BalanceOps
  <2>3. CASE f > 0
    <3>1. x = Post(y, m, HoldFee(y.bal[m], f), "fee_reserved", i, -f)
      BY <1>6, <2>3
    <3>2. x \in SessionRow /\ ObjectsOK(x)
      BY <1>1, <1>3, <2>1, <2>2, <3>1, PostOK DEF SessOK
    <3> QED  BY <3>2 DEF SessionRow
  <2>4. CASE ~(f > 0)
    <3>1. x = y
      BY <1>6, <2>4
    <3> QED  BY <1>1, <3>1 DEF SessOK, SessionRow
  <2> QED  BY <2>3, <2>4
<1>15. /\ ledger' \in Seq(LedgerRow)
       /\ \A kind, j : KeyTaken(kind, j) => KeyTaken(kind, j)'
  BY <1>4, <1>7, <1>14, LedgerGrows
<1>16. TypeInv'
  <2>1. acct' \in [Merchants -> Balance]
    BY <1>4, <1>7, <1>14, FlushOK DEF TypeInv, TypeOK
  <2>2. invoice' \in [Invoices -> InvoiceRow] /\ RowsComplete'
    BY <1>4, <1>11, <1>12 DEF TypeInv, TypeOK, RowsComplete
  <2>3. reservations' \subseteq ReservationRow
    BY <1>4, <1>9, <1>10 DEF ReserveUniquePayableAmount, LiveReservations, ReservationRow,
                             TypeInv, TypeOK
  <2> QED  BY <1>4, <1>13, <1>15, <2>1, <2>2, <2>3 DEF TypeInv, TypeOK
<1>17. /\ KeepsIssued
       /\ \A j \in Invoices : invoice[j].status # "absent" => invoice'[j].sms = invoice[j].sms
       /\ \A j \in Invoices : invoice'[j].status = "paid" => invoice'[j] = invoice[j]
  BY <1>4, <1>11, <1>12, <1>13, NewRow
<1>18. MatchesInv'
  BY <1>13, <1>15, <1>17, NothingPaid
<1> QED  BY <1>13, <1>16, <1>17, <1>18, Leaves

LEMMA CommitTopupStep ==
    ASSUME ConstantsAssumption, TxInv, NEW p \in Sessions, NEW i \in Invoices,
           NEW base \in BaseAmounts, CommitTopup(p, i, base)
    PROVE  TxInv'
<1>1. PICK y : y = sess[p] /\ SessOK(y) /\ y \in SessionRow
  BY Standing
<1>2. y.at = "commit" /\ Issues(y)
  BY <1>1 DEF CommitTopup, Issues
<1>3. PICK t \in Merchants : t = y.scope
  BY <1>1, <1>2 DEF SessOK, StandsWell
<1>4. CreateWalletTopupInvoice(t, i, base) /\ Leave(p) /\ TypeInv
  BY <1>1, <1>3 DEF CommitTopup, TxInv
<1>5. TypeInv'
  BY <1>4, CreateTopupType
<1>6. PICK pay : invoice' = [invoice EXCEPT ![i] =
                    PendingInvoice(Owner, 0, pay, "wallet_topup", t, FALSE)]
  BY <1>4 DEF CreateWalletTopupInvoice
<1> DEFINE row == PendingInvoice(Owner, 0, pay, "wallet_topup", t, FALSE)
<1>7. row.status = "pending"
  BY DEF PendingInvoice
<1>8. invoice' = [invoice EXCEPT ![i] = row] /\ invoice[i].status = "absent"
  BY <1>4, <1>6 DEF CreateWalletTopupInvoice
<1> HIDE DEF row
<1>9. row \in InvoiceRow
  <2>1. invoice' \in [Invoices -> InvoiceRow] /\ invoice'[i] = row
    BY <1>4, <1>5, <1>8 DEF TypeInv, TypeOK
  <2> QED  BY <2>1
<1>10. /\ KeepsIssued
       /\ \A j \in Invoices : invoice[j].status # "absent" => invoice'[j].sms = invoice[j].sms
       /\ \A j \in Invoices : invoice'[j].status = "paid" => invoice'[j] = invoice[j]
  BY <1>4, <1>7, <1>8, <1>9, NewRow
<1>11. UNCHANGED <<sms, events, ledger>>
  BY <1>4 DEF CreateWalletTopupInvoice
<1>12. \A kind, j : KeyTaken(kind, j) => KeyTaken(kind, j)'
  BY <1>11 DEF KeyTaken
<1>13. MatchesInv'
  BY <1>10, <1>11, <1>12, NothingPaid
<1> QED  BY <1>4, <1>5, <1>10, <1>13, Leaves

LEMMA CommitAdjustStep ==
    ASSUME ConstantsAssumption, TxInv, NEW p \in Sessions, CommitAdjust(p)
    PROVE  TxInv'
<1>1. PICK x : x = sess[p] /\ SessOK(x) /\ x \in SessionRow
  BY Standing
<1>2. CASE Rollback(p)
  BY <1>2, RollbackStep
<1>3. CASE /\ acct' = Flush(x)
           /\ ledger' = ledger \o x.log
           /\ Leave(p)
           /\ UNCHANGED <<verificationFee, invoice, overdue, reservations, sms, events>>
  <2>1. TypeInv /\ ObjectsOK(x) /\ x.log \in Seq(LedgerRow)
    BY <1>1 DEF TxInv, SessOK, SessionRow
  <2>2. KeepsIssued
    BY <1>3 DEF KeepsIssued
  <2>3. /\ ledger' \in Seq(LedgerRow)
        /\ \A kind, j : KeyTaken(kind, j) => KeyTaken(kind, j)'
    BY <1>3, <2>1, LedgerGrows
  <2>4. acct' \in [Merchants -> Balance]
    BY <1>1, <1>3, <2>1, FlushOK DEF TypeInv, TypeOK
  <2>5. TypeInv'
    BY <1>3, <2>1, <2>3, <2>4 DEF TypeInv, TypeOK, RowsComplete
  <2>6. MatchesInv'
    BY <1>3, <2>2, <2>3, NothingPaid
  <2> QED  BY <1>3, <2>2, <2>5, <2>6, Leaves
<1> QED  BY <1>1, <1>2, <1>3 DEF CommitAdjust

LEMMA ClockStep ==
    ASSUME ConstantsAssumption, TxInv, ClockTicks
    PROVE  TxInv'
<1>1. PICK i \in Invoices : PassDeadline(i)
  BY DEF ClockTicks
<1>2. UNCHANGED <<acct, verificationFee, invoice, reservations, sms, ledger, events, sess, held>>
      /\ overdue' \subseteq Invoices
  BY <1>1 DEF PassDeadline, ClockTicks, TxInv, TypeInv, TypeOK
<1>3. TypeInv'
  BY <1>2 DEF TxInv, TypeInv, TypeOK, RowsComplete
<1>4. SessInv'
  BY <1>2 DEF TxInv, SessInv, SessOK, ObjectsOK, WorkExists, StandsWell, LogsPayment, Logged,
              Pays, Releases, Issues
<1>5. HeldInv'
  BY <1>2 DEF TxInv, HeldInv, InTx
<1>6. MatchesInv'
  BY <1>2 DEF TxInv, MatchesInv, PaidLeavesKeys, OneMatch, EventsExist, QueuedIfPaid, Matches,
              KeyTaken, Hooked, Keyed
<1> QED  BY <1>3, <1>4, <1>5, <1>6 DEF TxInv

-----------------------------------------------------------------------------
(* The theorems. *)

LEMMA InitTx == ConstantsAssumption /\ TxAssumption /\ TxInit => TxInv
<1> SUFFICES ASSUME ConstantsAssumption, TxAssumption, TxInit PROVE TxInv
  OBVIOUS
<1>1. NoInvoice \in InvoiceRow /\ NoSms \in SmsRow
  BY DEF NoInvoice, InvoiceRow, InvoiceStatus, NoSms, SmsRow, ConstantsAssumption
<1>2. acct \in [Merchants -> Balance]
  BY DEF TxInit, Balance, TxAssumption
<1>3. ledger \in Seq(LedgerRow)
  <2> DEFINE row == [merchant |-> Owner, kind |-> "credit", invoice |-> None, amount |-> Funds,
                     before |-> [wallet |-> 0, reserved |-> 0],
                     after |-> acct[Owner], reverses |-> 0]
  <2>1. row \in LedgerRow
    BY <1>2 DEF LedgerRow, EntryKind, Balance, ConstantsAssumption, TxAssumption
  <2>2. ledger = IF Funds = 0 THEN <<>> ELSE <<row>>
    BY DEF TxInit
  <2> HIDE DEF row
  <2> QED  BY <2>1, <2>2
<1>4. TypeInv
  <2>1. verificationFee \in [Merchants -> 0..MaxFee]
    BY DEF TxInit, ConstantsAssumption
  <2>2. invoice \in [Invoices -> InvoiceRow] /\ sms \in [Sms -> SmsRow]
    BY <1>1 DEF TxInit
  <2>3. RowsComplete
    BY DEF TxInit, RowsComplete, NoInvoice
  <2> QED  BY <1>2, <1>3, <2>1, <2>2, <2>3 DEF TxInit, TypeInv, TypeOK
<1>5. SessInv
  BY IdleOK DEF TxInit, SessInv
<1>6. HeldInv
  BY DEF TxInit, HeldInv
<1>7. MatchesInv
  BY DEF TxInit, MatchesInv, PaidLeavesKeys, OneMatch, EventsExist, QueuedIfPaid, Matches,
         NoSms, NoInvoice
<1> QED  BY <1>4, <1>5, <1>6, <1>7 DEF TxInv

LEMMA ArriveStep ==
    ASSUME ConstantsAssumption, TxInv, NEW p \in Sessions, Arrive(p)
    PROVE  TxInv'
<1>1. ASSUME NEW m \in Merchants, NEW a \in AdjustAmounts,
             BeginAdjust(p, m, a) \/ BeginAdjust(p, m, -a)
      PROVE  TxInv'
  <2>1. a \in Int /\ -a \in Int
    BY DEF ConstantsAssumption
  <2> QED  BY <1>1, <2>1, BeginAdjustStep
<1>2. CASE \E s \in Sms, scope \in Merchants \cup {None}, a \in SmsAmounts :
               BeginWebhook(p, s, scope, a)
  BY <1>2, BeginWebhookStep
<1>3. CASE \E s \in Sms, i \in Invoices, joined \in BOOLEAN : BeginApprove(p, s, i, joined)
  BY <1>3, BeginApproveStep
<1>4. CASE \E i \in Invoices, joined \in BOOLEAN :
               BeginCancel(p, i, joined) \/ BeginExpire(p, i, joined)
  BY <1>4, BeginReleaseStep
<1>5. CASE BeginPass(p)
  BY <1>5, BeginPassStep
<1>6. CASE \E kind \in {"create", "topup"}, m \in Merchants : BeginCreate(p, kind, m)
  BY <1>6, BeginCreateStep
<1> QED  BY <1>1, <1>2, <1>3, <1>4, <1>5, <1>6 DEF Arrive

LEMMA AdvanceStep ==
    ASSUME ConstantsAssumption, TxInv, NEW p \in Sessions, Advance(p)
    PROVE  TxInv'
<1>1. CASE FileMessage(p) \/ LockInvoice(p) \/ LockMerchantToPay(p) \/ LockTopupTarget(p)
  BY <1>1, FileMessageStep, LockInvoiceStep, LockMerchantToPayStep, LockTopupTargetStep
<1>2. CASE LockMerchantToRelease(p) \/ UpdateReleased(p) \/ LockMerchantToCreate(p)
  BY <1>2, LockMerchantToReleaseStep, UpdateReleasedStep, LockMerchantToCreateStep
<1>3. CASE CommitPayment(p) \/ CommitRelease(p) \/ CommitAdjust(p)
  BY <1>3, CommitPaymentStep, CommitReleaseStep, CommitAdjustStep
<1>4. CASE \E i \in Invoices, b \in BaseAmounts, mode \in FeeModes, hook \in BOOLEAN :
               CommitCreate(p, i, b, mode, hook)
  BY <1>4, CommitCreateStep
<1>5. CASE \E i \in Invoices, b \in BaseAmounts : CommitTopup(p, i, b)
  BY <1>5, CommitTopupStep
<1>6. CASE GiveUpCreate(p)
  BY <1>6, RollbackStep DEF GiveUpCreate
<1> QED  BY <1>1, <1>2, <1>3, <1>4, <1>5, <1>6 DEF Advance

LEMMA NextTx == ConstantsAssumption /\ TxInv /\ [TxNext]_txVars => TxInv'
<1> SUFFICES ASSUME ConstantsAssumption, TxInv, [TxNext]_txVars PROVE TxInv'
  OBVIOUS
<1>1. ASSUME NEW p \in Sessions, Arrive(p) \/ Advance(p) \/ AbortVictim(p)
      PROVE  TxInv'
  BY <1>1, ArriveStep, AdvanceStep, RollbackStep DEF AbortVictim
<1>2. CASE ClockTicks
  BY <1>2, ClockStep
<1>3. CASE UNCHANGED txVars
  <2>1. UNCHANGED <<acct, verificationFee, invoice, overdue, reservations, sms, ledger, events,
                    sess, held>>
    BY <1>3 DEF txVars, tables
  <2>2. TypeInv'
    BY <2>1 DEF TxInv, TypeInv, TypeOK, RowsComplete
  <2>3. SessInv'
    BY <2>1 DEF TxInv, SessInv, SessOK, ObjectsOK, WorkExists, StandsWell, LogsPayment,
                Logged, Pays, Releases, Issues
  <2>4. HeldInv'
    BY <2>1 DEF TxInv, HeldInv, InTx
  <2>5. MatchesInv'
    BY <2>1 DEF TxInv, MatchesInv, PaidLeavesKeys, OneMatch, EventsExist, QueuedIfPaid,
                Matches, KeyTaken, Hooked, Keyed
  <2> QED  BY <2>2, <2>3, <2>4, <2>5 DEF TxInv
<1> QED  BY <1>1, <1>2, <1>3 DEF TxNext

LEMMA TxInvHolds == TxSpec => []TxInv
<1>1. TxInit => TxInv
  BY InitTx, ConstantsAssumption, TxAssumption
<1>2. TxInv /\ [TxNext]_txVars => TxInv'
  BY NextTx, ConstantsAssumption
<1> QED  BY <1>1, <1>2, PTL DEF TxSpec

\* The tables, the sessions' objects and the row locks have their types, and a
\* lock is held by a session that is in a transaction.
THEOREM TxTyped == TxSpec => []TxTypeOK
<1>1. TxInv => TxTypeOK
  <2> SUFFICES ASSUME TxInv PROVE TxTypeOK
    OBVIOUS
  <2>1. sess \in [Sessions -> SessionRow]
    BY DEF TxInv, SessInv, SessOK
  <2> QED  BY <2>1 DEF TxInv, TypeInv, HeldInv, TxTypeOK, SessionRow
<1> QED  BY <1>1, TxInvHolds, PTL

\* An invoice that bears a fee, asks for a callback or is a top-up is never
\* paid by two messages, however many sessions pay, cancel and expire it on
\* stale objects (payment_service.py, wallet_service.py).
THEOREM KeyedInvoicesPaidOnce == TxSpec => []PaidByOneMessage
<1>1. TxInv => PaidByOneMessage
  <2> SUFFICES ASSUME TxInv, NEW i \in Invoices, Keyed(invoice[i])
               PROVE  Cardinality({s \in Sms : Matches(s, i)}) <= 1
    BY DEF PaidByOneMessage, Keyed, Matches
  <2> DEFINE S == {s \in Sms : Matches(s, i)}
  <2>1. \A s, t \in S : s = t
    BY DEF TxInv, MatchesInv, OneMatch
  <2> HIDE DEF S
  <2>2. Cardinality(S) <= 1
    <3>1. CASE S = {}
      BY <3>1, FS_EmptySet
    <3>2. CASE S # {}
      <4>1. PICK s : S = {s}
        BY <2>1, <3>2
      <4> QED  BY <4>1, FS_Singleton
    <3> QED  BY <3>1, <3>2
  <2> QED  BY <2>2 DEF S
<1> QED  BY <1>1, TxInvHolds, PTL

\* Under every interleaving a paid invoice has the callback event its merchant
\* asked for, and an event names an invoice that some message paid.
THEOREM PaymentsAreQueued == TxSpec => []QueuedIfPaid
<1>1. TxInv => QueuedIfPaid
  BY DEF TxInv, MatchesInv
<1> QED  BY <1>1, TxInvHolds, PTL

-----------------------------------------------------------------------------
(* Exact amounts. AmountInv of the serial system is kept by sessions too: a  *)
(* reservation is judged and written by one commit, and a commit on a stale  *)
(* object only closes invoices, together with their reservations.            *)

LEMMA AmountStands ==
    ASSUME AmountInv, UNCHANGED <<invoice, reservations>>, overdue \subseteq overdue'
    PROVE  AmountInv'
BY FewerPayable DEF PayableInvoice, Pending

LEMMA ArriveAmount ==
    ASSUME NEW p \in Sessions, Arrive(p)
    PROVE  UNCHANGED tables
BY Zenon DEF Arrive, BeginWebhook, BeginApprove, BeginCancel, BeginExpire, BeginPass, BeginCreate,
       BeginAdjust, Begin

LEMMA QuietAmount ==
    ASSUME NEW p \in Sessions,
           \/ FileMessage(p) \/ LockInvoice(p) \/ LockMerchantToPay(p) \/ LockTopupTarget(p)
           \/ LockMerchantToRelease(p) \/ UpdateReleased(p) \/ LockMerchantToCreate(p)
           \/ GiveUpCreate(p) \/ CommitAdjust(p) \/ AbortVictim(p)
    PROVE  UNCHANGED <<invoice, reservations, overdue>>
<1>1. CASE FileMessage(p)
  BY <1>1, Zenon DEF FileMessage, Rollback, tables
<1>2. CASE LockInvoice(p) \/ LockMerchantToPay(p) \/ LockTopupTarget(p)
  BY <1>2, Zenon DEF LockInvoice, LockMerchantToPay, LockTopupTarget, tables
<1>3. CASE LockMerchantToRelease(p) \/ UpdateReleased(p) \/ LockMerchantToCreate(p)
  BY <1>3, Zenon DEF LockMerchantToRelease, UpdateReleased, LockMerchantToCreate, Rollback, tables
<1>4. CASE GiveUpCreate(p) \/ CommitAdjust(p) \/ AbortVictim(p)
  BY <1>4, Zenon DEF GiveUpCreate, CommitAdjust, AbortVictim, Rollback, tables
<1> QED  BY <1>1, <1>2, <1>3, <1>4

LEMMA CommitPaymentAmount ==
    ASSUME ConstantsAssumption, TxInv, AmountInv, NEW p \in Sessions, CommitPayment(p)
    PROVE  AmountInv'
<1>1. PICK i : i = Head(sess[p].todo)
  OBVIOUS
<1>2. CASE Rollback(p)
  BY <1>2, AmountStands DEF Rollback, tables
<1>3. CASE /\ invoice' = [invoice EXCEPT ![i].status = "paid", ![i].sms = sess[p].s]
           /\ overdue' = overdue \ {i}
           /\ reservations' = {r \in reservations : r.token # i}
  <2>1. i \in Invoices
    <3>1. SessOK(sess[p]) /\ sess[p].at = "commit" /\ Pays(sess[p])
      BY Standing DEF CommitPayment, Pays
    <3>2. sess[p].todo # <<>>
      BY <3>1 DEF SessOK, StandsWell
    <3> QED  BY <1>1, <3>2, Working
  <2>2. /\ invoice'[i].status # "pending"
        /\ \A j \in Invoices : j # i => invoice'[j] = invoice[j]
    BY <1>3, <2>1 DEF TxInv, TypeInv, TypeOK, InvoiceRow
  <2> QED  BY <1>3, <2>1, <2>2, ClosingAmount
<1> QED  BY <1>1, <1>2, <1>3, Zenon DEF CommitPayment

LEMMA CommitReleaseAmount ==
    ASSUME TxInv, AmountInv, NEW p \in Sessions, CommitRelease(p)
    PROVE  AmountInv'
<1>1. PICK done : done = sess[p].done
  OBVIOUS
<1>2. PICK status : status = ClosedAs(sess[p].kind)
  OBVIOUS
<1>3. status # "pending"
  BY <1>2 DEF ClosedAs
<1>4. CASE Rollback(p)
  BY <1>4, AmountStands DEF Rollback, tables
<1>5. CASE /\ invoice' = [i \in Invoices |->
                  IF i \in done THEN [invoice[i] EXCEPT !.status = status] ELSE invoice[i]]
           /\ overdue' = overdue \ done
           /\ reservations' = {r \in reservations : r.token \notin done}
  <2> SUFFICES ASSUME NEW j \in Invoices, PayableInvoice(j)'
               PROVE  /\ PayableInvoice(j) /\ invoice'[j] = invoice[j]
                      /\ (ReservationOf(j) \in reservations => ReservationOf(j) \in reservations')
    BY FewerPayable
  <2>1. j \in done => invoice'[j].status = status
    BY <1>5 DEF TxInv, TypeInv, TypeOK, InvoiceRow
  <2>2. j \notin done
    BY <1>3, <2>1 DEF PayableInvoice, Pending
  <2>3. ReservationOf(j).token = j
    BY DEF ReservationOf
  <2> QED  BY <1>5, <2>2, <2>3 DEF PayableInvoice, Pending
<1> QED  BY <1>1, <1>2, <1>4, <1>5, Zenon DEF CommitRelease

\* A creation commits as it would alone, but for the balances.
LEMMA CommitCreateOpens ==
    ASSUME ConstantsAssumption, TxInv, NEW p \in Sessions, NEW i \in Invoices,
           NEW base \in BaseAmounts, NEW mode \in FeeModes, NEW hook \in BOOLEAN,
           CommitCreate(p, i, base, mode, hook)
    PROVE  Opens(i)
<1>1. PICK m : m = sess[p].scope
  OBVIOUS
<1>2. m \in Merchants
  BY <1>1, Standing DEF CommitCreate, SessOK, StandsWell, Issues
<1>3. PICK f : f = verificationFee[m]
  OBVIOUS
<1>4. f \in 0..MaxFee /\ f \in Nat
  BY <1>2, <1>3 DEF TxInv, TypeInv, TypeOK, ConstantsAssumption
<1>5. PICK nominal : nominal = base + CustomerFee(f, mode)
  OBVIOUS
<1>6. nominal \in Nat
  <2>1. CustomerFee(f, mode) \in Nat /\ base \in Nat
    BY <1>4, CustomerFeeType DEF ConstantsAssumption
  <2> QED  BY <1>5, <2>1
<1>7. PICK pay \in {nominal + c : c \in Codes} :
          /\ ReserveUniquePayableAmount(m, nominal, i, pay)
          /\ invoice' = [invoice EXCEPT ![i] = PendingInvoice(m, f, pay, "payment", None, hook)]
  BY <1>1, <1>3, <1>5, Zenon DEF CommitCreate
<1>8. pay \in Nat
  <2>1. PICK c \in Codes : pay = nominal + c
    BY <1>7
  <2> QED  BY <1>6, <2>1 DEF ConstantsAssumption
<1> DEFINE row == PendingInvoice(m, f, pay, "payment", None, hook)
<1>9. /\ row \in InvoiceRow /\ row.status = "pending"
      /\ row.merchant = m /\ row.payable = pay
  BY <1>2, <1>4, <1>8 DEF PendingInvoice, InvoiceRow, InvoiceStatus
<1>10. /\ pay \notin Payables(m)
       /\ reservations' = LiveReservations \cup {[card |-> m, payable |-> pay, token |-> i]}
  BY <1>7 DEF ReserveUniquePayableAmount
<1>11. invoice[i].status = "absent" /\ UNCHANGED <<verificationFee, overdue, sms, events>>
  BY Zenon DEF CommitCreate
<1>12. invoice' = [invoice EXCEPT ![i] = row]
  BY <1>7
<1> HIDE DEF row
<1> QED  BY <1>2, <1>9, <1>10, <1>11, <1>12 DEF Opens

LEMMA NextTxAmount == ConstantsAssumption /\ TxInv /\ AmountInv /\ [TxNext]_txVars => AmountInv'
<1> SUFFICES ASSUME ConstantsAssumption, TxInv, AmountInv, [TxNext]_txVars PROVE AmountInv'
  OBVIOUS
<1>0. TypeInv
  BY DEF TxInv
<1>1. ASSUME NEW p \in Sessions, Arrive(p) PROVE AmountInv'
  BY <1>1, ArriveAmount, AmountStands DEF tables
<1>2. ASSUME NEW p \in Sessions, Advance(p) \/ AbortVictim(p) PROVE AmountInv'
  <2>1. ASSUME NEW i \in Invoices, NEW b \in BaseAmounts, NEW mode \in FeeModes,
               NEW hook \in BOOLEAN, CommitCreate(p, i, b, mode, hook)
        PROVE  AmountInv'
    BY <1>0, <2>1, CommitCreateOpens, OpensAmount
  <2>2. ASSUME NEW i \in Invoices, NEW b \in BaseAmounts, CommitTopup(p, i, b)
        PROVE  AmountInv'
    <3>1. sess[p].scope \in Merchants
      BY <2>2, Standing DEF CommitTopup, SessOK, StandsWell, Issues
    <3>2. Opens(i)
      BY <1>0, <2>2, <3>1, TopupOpens DEF CommitTopup
    <3> QED  BY <1>0, <3>2, OpensAmount
  <2>3. CASE CommitPayment(p) \/ CommitRelease(p)
    BY <2>3, CommitPaymentAmount, CommitReleaseAmount
  <2>4. ASSUME UNCHANGED <<invoice, reservations, overdue>> PROVE AmountInv'
    BY <2>4, AmountStands
  <2> QED  BY <1>2, <2>1, <2>2, <2>3, <2>4, QuietAmount, Zenon DEF Advance
<1>3. CASE ClockTicks
  BY <1>3, AmountStands DEF ClockTicks, PassDeadline
<1>4. CASE UNCHANGED txVars
  BY <1>4, AmountStands DEF txVars, tables
<1> QED  BY <1>1, <1>2, <1>3, <1>4 DEF TxNext

\* Two invoices of one card that can still be paid never ask for the same
\* amount, with any number of sessions that create, pay, cancel and expire
\* side by side.
THEOREM SessionsKeepAmounts == TxSpec => []NoAmbiguousAmount
<1>1. TxInit => AmountInv
  BY DEF TxInit, NoInvoice, AmountInv, NoAmbiguousAmount, Reserved, PayableInvoice, Pending
<1>2. TxInv /\ AmountInv /\ [TxNext]_txVars => AmountInv'
  BY NextTxAmount, ConstantsAssumption
<1>3. AmountInv => NoAmbiguousAmount
  BY DEF AmountInv
<1> QED  BY <1>1, <1>2, <1>3, TxInvHolds, PTL DEF TxSpec
-----------------------------------------------------------------------------
(* One session at a time: SettlementTx implements Settlement.  While the     *)
(* session is in its transaction nobody else writes, so its objects are the  *)
(* committed rows and what it read before its first lock is still true.      *)

\* The overdue invoices of the serial view, from the one session's record.
View(x, late) == IF x.kind = "webhook" THEN late \ ToSet(x.todo) ELSE late

\* What the handlers of one session at a time leave in the tables.
RowsAgree ==
    /\ \A i \in Invoices : Pending(i) => invoice[i].sms = None
    /\ \A s \in Sms : sms[s].status # "matched" => sms[s].invoice = None

\* The objects loaded are the rows; so far none is changed, or one is, with
\* the ledger row that explains it.
ReadsRows(x) == \A m \in Merchants : x.base[m] \in {None, acct[m]}
Clean(x) == x.log = <<>> /\ x.bal = x.base
Wrote(x, m, b, kind, i, a) ==
    /\ m \in Merchants /\ x.base[m] = acct[m]
    /\ x.bal = [x.base EXCEPT ![m] = b]
    /\ x.log = <<[merchant |-> m, kind |-> kind, invoice |-> i, amount |-> a,
                  before |-> acct[m], after |-> b, reverses |-> 0]>>

\* The message and the invoice it is about to pay are as Settlement demands.
WaitsAlone(card, a, i) ==
    \A j \in Invoices :
        (/\ Pending(j) /\ invoice[j].payable = a /\ invoice[j].merchant = card
         /\ j \notin overdue \ {i}) <=> j = i

Chosen(x, i) ==
    /\ Pending(i) /\ x.s \in Sms
    /\ x.kind = "webhook" =>
          /\ x.scope \in Merchants \cup {None} /\ x.a \in SmsAmounts
          /\ Delivered(x.s, x.scope, x.a)
          /\ \E card \in Merchants : x.scope \in {None, card} /\ WaitsAlone(card, x.a, i)
    /\ x.kind = "approve" =>
          /\ Unmatched(x.s) /\ sms[x.s].amount = invoice[i].payable
          /\ x.scope = sms[x.s].merchant /\ x.a = sms[x.s].amount

\* The objects show the payment of i, or the release of its hold.
Charged(x, i) ==
    LET row == invoice[i] IN
    \/ /\ row.purpose = "payment" /\ row.fee > 0
       /\ Wrote(x, row.merchant, ChargeFee(acct[row.merchant], row.fee),
                "verification_fee", i, -row.fee)
    \/ row.purpose = "payment" /\ row.fee = 0 /\ Clean(x)
    \/ /\ row.purpose = "wallet_topup"
       /\ Wrote(x, row.target, AddToWallet(acct[row.target], row.payable),
                "wallet_topup", i, row.payable)

Freed(x, i) ==
    LET row == invoice[i] IN
    IF row.fee > 0 THEN Wrote(x, row.merchant, ReleaseFee(acct[row.merchant], row.fee),
                              "fee_released", i, row.fee)
                   ELSE Clean(x)

\* Where the session stands, by the kind of its handler.
AtMessage(x) ==
    /\ x.kind = "webhook" /\ x.todo = <<>> /\ Clean(x) /\ x.s \in Sms
    /\ x.scope \in Merchants \cup {None} /\ x.a \in SmsAmounts
    /\ Delivered(x.s, x.scope, x.a)

Paying(x) ==
    \E i \in Invoices :
        /\ x.todo = <<i>> /\ Chosen(x, i)
        /\ IF x.at = "commit" THEN Charged(x, i) ELSE Clean(x)
        /\ x.at = "target" => invoice[i].purpose = "wallet_topup"

Releasing(x) ==
    \E i \in Invoices :
        /\ Pending(i) /\ (x.kind = "expire" => i \in overdue)
        /\ IF x.at = "commit" THEN x.todo = <<>> /\ x.done = {i}
                              ELSE x.todo = <<i>> /\ x.done = {}
        /\ IF x.at = "merchant" THEN Clean(x) ELSE Freed(x, i)

Issuing(x) ==
    /\ x.todo = <<>> /\ Clean(x) /\ x.scope \in Merchants /\ x.base[x.scope] = acct[x.scope]
    /\ x.at = "commit" /\ x.kind = "create" /\ verificationFee[x.scope] > 0
          => Available(acct[x.scope]) >= verificationFee[x.scope]

Adjusting(x) ==
    /\ x.at = "commit" /\ x.todo = <<>>
    /\ \E m \in Merchants, a \in AdjustAmounts \cup {-b : b \in AdjustAmounts} :
          /\ a < 0 => SparesHolds(acct[m], a)
          /\ Wrote(x, m, AddToWallet(acct[m], a), IF a > 0 THEN "credit" ELSE "debit", None, a)

SerialRow(x) ==
    /\ ReadsRows(x)
    /\ x.at = "idle" => x = Idle
    /\ x.at = "message" => AtMessage(x)
    /\ x.at \notin {"idle", "message"} /\ Pays(x) => Paying(x)
    /\ x.at # "idle" /\ Releases(x) => Releasing(x)
    /\ x.at # "idle" /\ Issues(x) => Issuing(x)
    /\ x.at # "idle" /\ x.kind = "adjust" => Adjusting(x)

SerialInv == RowsAgree /\ \A p \in Sessions : SerialRow(sess[p])

SerialStep == Serial!Next \/ UNCHANGED Serial!vars

LEMMA ViewIs ==
    ASSUME NEW p, Sessions = {p}
    PROVE  /\ SerialOverdue = View(sess[p], overdue)
           /\ SerialOverdue' = View(sess'[p], overdue')
BY DEF SerialOverdue, View

LEMMA ViewOf ==
    ASSUME NEW x, NEW late
    PROVE  /\ x.kind # "webhook" => View(x, late) = late
           /\ x.todo = <<>> => View(x, late) = late
           /\ \A i : x.kind = "webhook" /\ x.todo = <<i>> => View(x, late) = late \ {i}
<1>1. x.todo = <<>> => ToSet(x.todo) = {}
  BY DEF ToSet
<1>2. \A i : x.todo = <<i>> => ToSet(x.todo) = {i}
  BY DEF ToSet
<1> QED  BY <1>1, <1>2 DEF View

\* Loading reads the rows; posting writes one object and its ledger row.
LEMMA LoadReads ==
    ASSUME acct \in [Merchants -> Balance], NEW x \in SessionRow, ReadsRows(x), Clean(x),
           NEW M \in SUBSET Merchants, NEW y, y = Load(x, M)
    PROVE  ReadsRows(y) /\ Clean(y) /\ \A m \in M : y.base[m] = acct[m]
<1> DEFINE missing == {m \in M : x.base[m] = None}
           b1 == [m \in Merchants |-> IF m \in missing THEN acct[m] ELSE x.base[m]]
           b2 == [m \in Merchants |-> IF m \in missing THEN acct[m] ELSE x.bal[m]]
<1>1. y = [x EXCEPT !.base = b1, !.bal = b2]
  BY DEF Load
<1>2. b1 = b2
  BY DEF Clean
<1>3. \A m \in Merchants : b1[m] \in {None, acct[m]}
  BY DEF ReadsRows
<1>4. \A m \in M : b1[m] = acct[m]
  BY DEF ReadsRows
<1> HIDE DEF b1, b2
<1>5. y.base = b1 /\ y.bal = b2 /\ y.log = x.log
  BY <1>1 DEF SessionRow
<1> QED  BY <1>2, <1>3, <1>4, <1>5 DEF ReadsRows, Clean

LEMMA PostWrites ==
    ASSUME NEW x \in SessionRow, ReadsRows(x), Clean(x), NEW m \in Merchants, x.base[m] = acct[m],
           NEW b, NEW kind, NEW i, NEW a, NEW y, y = Post(x, m, b, kind, i, a)
    PROVE  ReadsRows(y) /\ Wrote(y, m, b, kind, i, a)
<1> DEFINE row == [merchant |-> m, kind |-> kind, invoice |-> i, amount |-> a,
                   before |-> x.bal[m], after |-> b, reverses |-> 0]
           b2 == [x.bal EXCEPT ![m] = b]
           log == Append(x.log, row)
<1>1. y = [x EXCEPT !.bal = b2, !.log = log]
  BY DEF Post, SessionRow
<1> HIDE DEF b2, log
<1>2. y.base = x.base /\ y.bal = b2 /\ y.log = log
  BY <1>1 DEF SessionRow
<1>3. b2 = [x.base EXCEPT ![m] = b]
  BY DEF b2, Clean
<1>4. log = <<[merchant |-> m, kind |-> kind, invoice |-> i, amount |-> a,
               before |-> acct[m], after |-> b, reverses |-> 0]>>
  <2>1. x.bal[m] = acct[m] /\ x.log = <<>>
    BY DEF Clean
  <2> QED  BY <2>1 DEF log
<1> QED  BY <1>2, <1>3, <1>4 DEF ReadsRows, Wrote

\* A commit writes what the objects show.
LEMMA FlushNothing ==
    ASSUME acct \in [Merchants -> Balance], NEW x \in SessionRow, ReadsRows(x), Clean(x)
    PROVE  Flush(x) = acct
<1> SUFFICES ASSUME NEW m \in Merchants
             PROVE  LET col(c) == IF x.base[m] = None \/ x.bal[m][c] = x.base[m][c]
                                    THEN acct[m][c] ELSE x.bal[m][c]
                    IN [wallet |-> col("wallet"), reserved |-> col("reserved")] = acct[m]
  BY DEF Flush
<1>1. acct[m] \in Balance
  OBVIOUS
<1> QED  BY <1>1 DEF Clean, Balance

LEMMA FlushPosting ==
    ASSUME TypeInv, None \notin Balance, NEW x \in SessionRow, ReadsRows(x),
           NEW m, NEW b \in Balance, NEW kind, NEW i, NEW a, Wrote(x, m, b, kind, i, a),
           acct' = Flush(x), ledger' = ledger \o x.log
    PROVE  Book(m, b, kind, i, a, 0)
<1>1. acct \in [Merchants -> Balance] /\ m \in Merchants /\ acct[m] \in Balance
  BY DEF TypeInv, TypeOK, Wrote
<1>2. x.base \in [Merchants -> Balance \cup {None}]
  BY DEF SessionRow
<1>3. \A n \in Merchants : x.bal[n] = IF n = m THEN b ELSE x.base[n]
  BY <1>1, <1>2 DEF Wrote
<1>4. acct' = [acct EXCEPT ![m] = b]
  <2> SUFFICES ASSUME NEW n \in Merchants
               PROVE  LET col(c) == IF x.base[n] = None \/ x.bal[n][c] = x.base[n][c]
                                      THEN acct[n][c] ELSE x.bal[n][c]
                      IN [wallet |-> col("wallet"), reserved |-> col("reserved")]
                            = IF n = m THEN b ELSE acct[n]
    BY <1>1 DEF Flush
  <2>1. CASE n = m
    <3>1. x.base[n] = acct[n] /\ x.base[n] # None /\ x.bal[n] = b
      BY <1>1, <1>3, <2>1 DEF Wrote
    <3> QED  BY <1>1, <2>1, <3>1 DEF Balance
  <2>2. CASE n # m
    <3>1. x.bal[n] = x.base[n] /\ acct[n] \in Balance
      BY <1>1, <1>3, <2>2
    <3> QED  BY <2>2, <3>1 DEF Balance
  <2> QED  BY <2>1, <2>2
<1>5. PICK row : row = [merchant |-> m, kind |-> kind, invoice |-> i, amount |-> a,
                        before |-> acct[m], after |-> b, reverses |-> 0]
  OBVIOUS
<1>6. x.log = <<row>>
  BY <1>5 DEF Wrote
<1>7. ledger \o <<row>> = Append(ledger, row)
  <2>1. row \in {row} \cup LedgerRow /\ ledger \in Seq({row} \cup LedgerRow)
    BY DEF TypeInv, TypeOK
  <2> QED  BY <2>1
<1> QED  BY <1>4, <1>5, <1>6, <1>7 DEF Book

-----------------------------------------------------------------------------
(* A step of the one session goes on, ends the transaction or begins one. *)

\* What SerialRow says lasts while the tables stay but for deadlines that pass.
LEMMA RowStays ==
    ASSUME NEW p, NEW y, sess'[p] = y, SerialRow(y), overdue \subseteq overdue',
           UNCHANGED <<acct, verificationFee, invoice, sms>>
    PROVE  SerialRow(sess[p])'
<1>1. ReadsRows(sess[p])'
  BY DEF SerialRow, ReadsRows
<1>2. Clean(y) => Clean(sess[p])'
  BY DEF Clean
<1>3. \A i \in Invoices : Chosen(y, i) => Chosen(sess[p], i)'
  <2> SUFFICES ASSUME NEW i \in Invoices, Chosen(y, i) PROVE Chosen(sess[p], i)'
    OBVIOUS
  <2>1. /\ Pending(i) => Pending(i)'
        /\ Delivered(y.s, y.scope, y.a) => Delivered(sess[p].s, sess[p].scope, sess[p].a)'
    BY DEF Pending, Delivered, Unmatched
  <2>2. \A card : WaitsAlone(card, y.a, i) => WaitsAlone(card, sess[p].a, i)'
    BY DEF WaitsAlone, Pending
  <2>3. Unmatched(y.s) => Unmatched(sess[p].s)'
    BY DEF Unmatched
  <2> QED  BY <2>1, <2>2, <2>3 DEF Chosen
<1>4. \A i \in Invoices : Charged(y, i) => Charged(sess[p], i)'
  BY DEF Charged, Wrote, Clean
<1>5. \A i \in Invoices : Freed(y, i) => Freed(sess[p], i)'
  BY DEF Freed, Wrote, Clean
<1>6. AtMessage(y) => AtMessage(sess[p])'
  BY <1>2 DEF AtMessage, Delivered, Unmatched
<1>7. Paying(y) => Paying(sess[p])'
  BY <1>2, <1>3, <1>4 DEF Paying
<1>8. Releasing(y) => Releasing(sess[p])'
  BY <1>2, <1>5 DEF Releasing, Pending
<1>9. Issuing(y) => Issuing(sess[p])'
  BY <1>2 DEF Issuing
<1>10. Adjusting(y) => Adjusting(sess[p])'
  BY DEF Adjusting, Wrote
<1> QED  BY <1>1, <1>6, <1>7, <1>8, <1>9, <1>10 DEF SerialRow, Pays, Releases, Issues

LEMMA OneGoesOn ==
    ASSUME TxInv, SerialInv, NEW p, Sessions = {p}, NEW y,
           sess' = [sess EXCEPT ![p] = y], UNCHANGED tables,
           SerialRow(y), View(y, overdue) = View(sess[p], overdue)
    PROVE  SerialInv' /\ SerialStep
<1>1. sess'[p] = y
  BY DEF TxInv, SessInv
<1>2. UNCHANGED <<acct, verificationFee, invoice, overdue, reservations, sms, ledger, events>>
  BY DEF tables
<1>3. SerialInv'
  <2>1. RowsAgree'
    BY <1>2 DEF SerialInv, RowsAgree, Pending
  <2>3. SerialRow(sess[p])'
    BY <1>1, <1>2, RowStays
  <2> QED  BY <2>1, <2>3 DEF SerialInv
<1>4. SerialOverdue' = SerialOverdue
  BY <1>1, <1>2, ViewIs
<1> QED  BY <1>2, <1>3, <1>4 DEF SerialStep, Serial!vars

LEMMA OneLeaves ==
    ASSUME TxInv, NEW p, Sessions = {p}, Leave(p), RowsAgree'
    PROVE  SerialInv' /\ SerialOverdue' = overdue'
<1>1. sess'[p] = Idle
  BY DEF TxInv, SessInv, Leave
<1>2. ReadsRows(sess[p])' /\ sess'[p].at = "idle"
  BY <1>1 DEF ReadsRows, Idle
<1>3. SerialRow(sess[p])'
  BY <1>1, <1>2 DEF SerialRow
<1>4. View(Idle, overdue') = overdue'
  BY ViewOf DEF Idle
<1> QED  BY <1>1, <1>3, <1>4, ViewIs DEF SerialInv

\* What the serial view has not seen become overdue, the session is paying.
LEMMA OneView ==
    ASSUME SerialInv, NEW p, Sessions = {p}
    PROVE  \/ SerialOverdue = overdue
           \/ \E i \in Invoices : /\ SerialOverdue = overdue \ {i} /\ Pending(i)
                                  /\ sess[p].kind = "webhook" /\ sess[p].todo = <<i>>
<1>1. PICK x : x = sess[p]
  OBVIOUS
<1>2. SerialRow(x)
  BY <1>1 DEF SerialInv
<1>3. SerialOverdue = View(x, overdue)
  BY <1>1, ViewIs
<1>4. CASE x.todo = <<>> \/ x.kind # "webhook"
  BY <1>3, <1>4, ViewOf
<1>5. CASE x.todo # <<>> /\ x.kind = "webhook"
  <2>1. x.at \notin {"idle", "message"}
    BY <1>2, <1>5 DEF SerialRow, AtMessage, Idle
  <2>2. PICK i \in Invoices : x.todo = <<i>> /\ Pending(i)
    BY <1>2, <1>5, <2>1 DEF SerialRow, Paying, Chosen, Pays
  <2> QED  BY <1>1, <1>3, <1>5, <2>2, ViewOf
<1> QED  BY <1>4, <1>5

\* A payment given up after its invoice's deadline lets the deadline pass.
LEMMA OneRollsBack ==
    ASSUME TxInv, SerialInv, NEW p, Sessions = {p}, Rollback(p)
    PROVE  SerialInv' /\ SerialStep
<1>1. /\ UNCHANGED <<acct, verificationFee, invoice, overdue, reservations, sms, ledger, events>>
      /\ Leave(p)
  BY DEF Rollback, tables
<1>2. RowsAgree'
  BY <1>1 DEF SerialInv, RowsAgree, Pending
<1>3. SerialInv' /\ SerialOverdue' = overdue
  BY <1>1, <1>2, OneLeaves
<1>4. CASE SerialOverdue = overdue
  BY <1>1, <1>3, <1>4 DEF SerialStep, Serial!vars
<1>5. ASSUME NEW i \in Invoices, SerialOverdue = overdue \ {i}, Pending(i), SerialOverdue # overdue
      PROVE  SerialStep
  <2>1. SerialOverdue' = SerialOverdue \cup {i} /\ i \notin SerialOverdue
    BY <1>3, <1>5
  <2>2. Serial!PassDeadline(i)
    BY <1>1, <1>5, <2>1 DEF Serial!PassDeadline, Serial!Pending, Pending
  <2> QED  BY <2>2 DEF SerialStep, Serial!Next
<1> QED  BY <1>3, <1>4, <1>5, OneView

LEMMA OneBegins ==
    ASSUME ConstantsAssumption, TxInv, SerialInv, NEW p, Sessions = {p},
           NEW kind, NEW x \in SessionRow, ReadsRows(x), Clean(x),
           NEW M \in SUBSET Merchants, Begin(p, kind, Load(x, M)),
           kind = "webhook" => x.todo = <<>>,
           \A y \in SessionRow :
              (/\ y.at = x.at /\ y.kind = kind /\ y.todo = x.todo /\ y.done = x.done
               /\ y.s = x.s /\ y.scope = x.scope /\ y.a = x.a
               /\ ReadsRows(y) /\ Clean(y) /\ \A m \in M : y.base[m] = acct[m])
              => SerialRow(y)
    PROVE  SerialInv' /\ SerialStep
<1>1. acct \in [Merchants -> Balance]
  BY DEF TxInv, TypeInv, TypeOK
<1>2. PICK z : z = Load(x, M)
  OBVIOUS
<1>3. /\ z \in SessionRow /\ z.at = x.at /\ z.todo = x.todo /\ z.done = x.done /\ z.s = x.s
      /\ z.scope = x.scope /\ z.a = x.a
      /\ ReadsRows(z) /\ Clean(z) /\ \A m \in M : z.base[m] = acct[m]
  <2>1. ObjectsOK(x)
    BY <1>1 DEF ObjectsOK, ReadsRows, Clean
  <2> QED  BY <1>1, <1>2, <2>1, LoadOK, LoadReads
<1>4. kind \in Kinds /\ ~InTx(p)
  BY DEF Begin
<1>5. PICK y : y = [z EXCEPT !.kind = kind]
  OBVIOUS
<1>6. /\ y \in SessionRow /\ y.base = z.base /\ y.bal = z.bal /\ y.log = z.log /\ y.kind = kind
      /\ y.at = x.at /\ y.todo = x.todo /\ y.done = x.done /\ y.s = x.s /\ y.scope = x.scope
      /\ y.a = x.a
  BY <1>3, <1>4, <1>5 DEF SessionRow
<1>7. ReadsRows(y) /\ Clean(y) /\ \A m \in M : y.base[m] = acct[m]
  BY <1>3, <1>6 DEF ReadsRows, Clean
<1>8. SerialRow(y)
  BY <1>6, <1>7
<1>9. sess' = [sess EXCEPT ![p] = y] /\ UNCHANGED tables
  BY <1>2, <1>5 DEF Begin
<1>10. View(y, overdue) = overdue
  BY <1>6, ViewOf
<1>11. View(sess[p], overdue) = overdue
  <2>1. sess[p] = Idle
    BY <1>4 DEF SerialInv, SerialRow, InTx
  <2>2. Idle.todo = <<>>
    BY DEF Idle
  <2> QED  BY <2>1, <2>2, ViewOf
<1> QED  BY <1>8, <1>9, <1>10, <1>11, OneGoesOn

\* A new session's record, before it loads anything.
LEMMA IdleReads ==
    ASSUME ConstantsAssumption
    PROVE  /\ Idle \in SessionRow /\ ReadsRows(Idle) /\ Clean(Idle)
           /\ Idle.todo = <<>> /\ Idle.done = {}
BY IdleFields DEF ReadsRows, Clean, Idle

LEMMA OneBeginsWebhook ==
    ASSUME ConstantsAssumption, TxInv, SerialInv, NEW p, Sessions = {p}, NEW s \in Sms,
           NEW scope \in Merchants \cup {None}, NEW a \in SmsAmounts,
           BeginWebhook(p, s, scope, a)
    PROVE  SerialInv' /\ SerialStep
<1> DEFINE fresh == sms[s].status = "absent"
           x == [Idle EXCEPT !.at = "message", !.s = s, !.scope = scope, !.a = a,
                             !.fresh = fresh]
<1>1. fresh \in BOOLEAN /\ a \in Nat
  BY DEF ConstantsAssumption
<1>2. Begin(p, "webhook", Load(x, {scope} \ {None})) /\ Delivered(s, scope, a)
  BY DEF BeginWebhook
<1> HIDE DEF fresh
<1>3. /\ x \in SessionRow /\ x.at = "message" /\ x.todo = <<>> /\ x.s = s /\ x.scope = scope
      /\ x.a = a /\ ReadsRows(x) /\ Clean(x)
  BY <1>1, IdleReads DEF SessionRow, ReadsRows, Clean
<1>4. \A y \in SessionRow :
         (/\ y.at = "message" /\ y.kind = "webhook" /\ y.todo = <<>> /\ y.s = s
          /\ y.scope = scope /\ y.a = a /\ ReadsRows(y) /\ Clean(y)) => SerialRow(y)
  BY <1>2 DEF SerialRow, AtMessage, Pays, Releases, Issues
<1> HIDE DEF x
<1>5. PICK M \in SUBSET Merchants : M = {scope} \ {None}
  OBVIOUS
<1> QED  BY <1>2, <1>3, <1>4, <1>5, OneBegins

LEMMA OneBeginsApprove ==
    ASSUME ConstantsAssumption, TxInv, SerialInv, NEW p, Sessions = {p}, NEW s \in Sms,
           NEW i \in Invoices, NEW joined \in BOOLEAN, BeginApprove(p, s, i, joined)
    PROVE  SerialInv' /\ SerialStep
<1> DEFINE x == [Idle EXCEPT !.at = "invoice", !.s = s, !.todo = <<i>>,
                             !.scope = sms[s].merchant, !.a = sms[s].amount]
           M == IF joined THEN {invoice[i].merchant} ELSE {}
<1>1. invoice[i].status = "pending" /\ invoice[i].merchant \in Merchants
  BY DEF BeginApprove, Pending, TxInv, TypeInv, RowsComplete
<1>2. /\ Begin(p, "approve", Load(x, M)) /\ Unmatched(s) /\ Pending(i)
      /\ sms[s].amount = invoice[i].payable
  BY DEF BeginApprove
<1>3. sms[s].merchant \in Merchants \cup {None} /\ sms[s].amount \in Nat
  BY DEF TxInv, TypeInv, TypeOK, SmsRow
<1>4. /\ x \in SessionRow /\ x.at = "invoice" /\ x.todo = <<i>> /\ x.s = s
      /\ x.scope = sms[s].merchant /\ x.a = sms[s].amount /\ ReadsRows(x) /\ Clean(x)
  BY <1>3, OneOfWork, IdleReads DEF SessionRow, ReadsRows, Clean
<1>5. \A y \in SessionRow :
         (/\ y.at = "invoice" /\ y.kind = "approve" /\ y.todo = <<i>> /\ y.s = s
          /\ y.scope = sms[s].merchant /\ y.a = sms[s].amount /\ ReadsRows(y) /\ Clean(y))
         => SerialRow(y)
  BY <1>2 DEF SerialRow, Paying, Chosen, Pays, Releases, Issues
<1>6. M \in SUBSET Merchants
  BY <1>1
<1> HIDE DEF x, M
<1> QED  BY <1>2, <1>4, <1>5, <1>6, OneBegins

LEMMA OneBeginsRelease ==
    ASSUME ConstantsAssumption, TxInv, SerialInv, NEW p, Sessions = {p}, NEW i \in Invoices,
           NEW joined \in BOOLEAN, BeginCancel(p, i, joined) \/ BeginExpire(p, i, joined)
    PROVE  SerialInv' /\ SerialStep
<1> DEFINE x == [Idle EXCEPT !.at = "merchant", !.todo = <<i>>]
           M == IF joined THEN {invoice[i].merchant} ELSE {}
<1>1. Pending(i) /\ invoice[i].merchant \in Merchants
  BY DEF BeginCancel, BeginExpire, Pending, TxInv, TypeInv, RowsComplete
<1>2. PICK kind \in {"cancel", "expire"} :
         Begin(p, kind, Load(x, M)) /\ (kind = "expire" => i \in overdue)
  BY Zenon DEF BeginCancel, BeginExpire
<1>3. /\ x \in SessionRow /\ x.at = "merchant" /\ x.todo = <<i>> /\ x.done = {}
      /\ ReadsRows(x) /\ Clean(x)
  BY OneOfWork, IdleReads DEF SessionRow, ReadsRows, Clean
<1>4. \A y \in SessionRow :
         (/\ y.at = "merchant" /\ y.kind = kind /\ y.todo = <<i>> /\ y.done = {}
          /\ ReadsRows(y) /\ Clean(y)) => SerialRow(y)
  BY <1>1, <1>2 DEF SerialRow, Releasing, Pays, Releases, Issues
<1>5. M \in SUBSET Merchants
  BY <1>1
<1> HIDE DEF x, M
<1> QED  BY <1>2, <1>3, <1>4, <1>5, OneBegins

LEMMA OneBeginsCreate ==
    ASSUME ConstantsAssumption, TxInv, SerialInv, NEW p, Sessions = {p},
           NEW kind \in {"create", "topup"}, NEW m \in Merchants, BeginCreate(p, kind, m)
    PROVE  SerialInv' /\ SerialStep
<1> DEFINE x == [Idle EXCEPT !.at = "merchant", !.scope = m]
<1>1. Begin(p, kind, Load(x, {m}))
  BY DEF BeginCreate
<1>2. /\ x \in SessionRow /\ x.at = "merchant" /\ x.todo = <<>> /\ x.scope = m
      /\ ReadsRows(x) /\ Clean(x)
  BY IdleReads DEF SessionRow, ReadsRows, Clean
<1>3. \A y \in SessionRow :
         (/\ y.at = "merchant" /\ y.kind = kind /\ y.todo = <<>> /\ y.scope = m
          /\ ReadsRows(y) /\ Clean(y) /\ y.base[m] = acct[m]) => SerialRow(y)
  BY DEF SerialRow, Issuing, Pays, Releases, Issues
<1> HIDE DEF x
<1> QED  BY <1>1, <1>2, <1>3, OneBegins

LEMMA OneBeginsAdjust ==
    ASSUME ConstantsAssumption, TxInv, SerialInv, NEW p, Sessions = {p}, NEW m \in Merchants,
           NEW a \in AdjustAmounts \cup {-b : b \in AdjustAmounts}, BeginAdjust(p, m, a)
    PROVE  SerialInv' /\ SerialStep
<1>1. acct \in [Merchants -> Balance] /\ a \in Int
  <2>1. \A c \in AdjustAmounts : c \in Int /\ -c \in Int
    BY DEF ConstantsAssumption
  <2> QED  BY <2>1 DEF TxInv, TypeInv, TypeOK
<1>2. PICK x : x = Load(Idle, {m})
  OBVIOUS
<1>3. x \in SessionRow /\ x.todo = <<>> /\ ReadsRows(x) /\ Clean(x) /\ x.base[m] = acct[m]
      /\ ObjectsOK(x) /\ x.bal[m] \in Balance
  BY <1>1, <1>2, IdleReads, IdleFields, LoadOK, LoadReads
<1>4. PICK kind \in EntryKind : kind = IF a > 0 THEN "credit" ELSE "debit"
  BY DEF EntryKind
<1>5. PICK b : b = AddToWallet(acct[m], a) /\ b \in Balance
  BY <1>1, BalanceOps
<1>6. PICK z : z = Post(x, m, b, kind, None, a)
  OBVIOUS
<1>7. /\ z \in SessionRow /\ z.todo = <<>> /\ ReadsRows(z) /\ Wrote(z, m, b, kind, None, a)
  BY <1>1, <1>3, <1>5, <1>6, PostOK, PostWrites
<1>8. PICK y : y = [[z EXCEPT !.at = "commit", !.scope = m] EXCEPT !.kind = "adjust"]
  OBVIOUS
<1>9. /\ sess' = [sess EXCEPT ![p] = y] /\ UNCHANGED tables /\ ~InTx(p)
      /\ a < 0 => SparesHolds(acct[m], a)
  BY <1>2, <1>4, <1>5, <1>6, <1>8 DEF BeginAdjust, Begin
<1>10. /\ y.at = "commit" /\ y.kind = "adjust" /\ y.todo = <<>>
       /\ y.base = z.base /\ y.bal = z.bal /\ y.log = z.log
  BY <1>7, <1>8 DEF SessionRow
<1>11. ReadsRows(y) /\ Wrote(y, m, b, kind, None, a)
  BY <1>7, <1>10 DEF ReadsRows, Wrote
<1>12. Adjusting(y)
  <2>1. /\ a < 0 => SparesHolds(acct[m], a)
        /\ Wrote(y, m, AddToWallet(acct[m], a), IF a > 0 THEN "credit" ELSE "debit", None, a)
    BY <1>4, <1>5, <1>9, <1>11
  <2> QED  BY <1>10, <2>1 DEF Adjusting
<1>13. SerialRow(y)
  BY <1>10, <1>11, <1>12 DEF SerialRow, Pays, Releases, Issues
<1>14. View(y, overdue) = overdue /\ View(sess[p], overdue) = overdue
  <2>1. sess[p] = Idle
    BY <1>9 DEF SerialInv, SerialRow, InTx
  <2> QED  BY <1>10, <2>1, IdleReads, ViewOf
<1> QED  BY <1>9, <1>13, <1>14, OneGoesOn

-----------------------------------------------------------------------------
(* The steps of the one session between its first read and its commit. *)

\* What the session's record says of it.
LEMMA OneStands ==
    ASSUME ConstantsAssumption, TxAssumption, TxInv, SerialInv, NEW p, Sessions = {p}
    PROVE  /\ sess[p] \in SessionRow /\ SessOK(sess[p]) /\ ObjectsOK(sess[p])
           /\ SerialRow(sess[p]) /\ ReadsRows(sess[p])
           /\ acct \in [Merchants -> Balance] /\ TypeInv
<1>1. SessOK(sess[p]) /\ sess[p] \in SessionRow
  BY Standing
<1> QED  BY <1>1 DEF SessOK, SerialInv, SerialRow, TxInv, TypeInv, TypeOK

\* A record that moves to another place keeps the rest.
LEMMA Moved ==
    ASSUME NEW z \in SessionRow, ReadsRows(z),
           NEW at \in {"merchant", "target", "update", "commit"},
           NEW y, y = [z EXCEPT !.at = at]
    PROVE  /\ y \in SessionRow /\ y.at = at /\ y.kind = z.kind /\ y.todo = z.todo
           /\ y.done = z.done /\ y.s = z.s /\ y.scope = z.scope /\ y.a = z.a
           /\ y.base = z.base /\ y.bal = z.bal /\ y.log = z.log
           /\ ReadsRows(y) /\ (Clean(z) => Clean(y))
<1>1. /\ y \in SessionRow /\ y.at = at /\ y.kind = z.kind /\ y.todo = z.todo
      /\ y.done = z.done /\ y.s = z.s /\ y.scope = z.scope /\ y.a = z.a
      /\ y.base = z.base /\ y.bal = z.bal /\ y.log = z.log
  BY DEF SessionRow
<1> QED  BY <1>1 DEF ReadsRows, Clean

LEMMA OneMoves ==
    ASSUME TxInv, SerialInv, NEW p, Sessions = {p}, NEW y,
           y.kind = sess[p].kind, y.todo = sess[p].todo, SerialRow(y),
           sess' = [sess EXCEPT ![p] = y], UNCHANGED tables
    PROVE  SerialInv' /\ SerialStep
<1>1. View(y, overdue) = View(sess[p], overdue)
  BY DEF View
<1> QED  BY <1>1, OneGoesOn

LEMMA OneLocksInvoice ==
    ASSUME ConstantsAssumption, TxAssumption, TxInv, SerialInv, NEW p, Sessions = {p},
           LockInvoice(p)
    PROVE  SerialInv' /\ SerialStep
<1>1. PICK x \in SessionRow : /\ x = sess[p] /\ SessOK(x) /\ SerialRow(x) /\ ReadsRows(x)
                              /\ ObjectsOK(x)
  BY OneStands
<1>2. x.at = "invoice" /\ Pays(x)
  BY <1>1 DEF LockInvoice, SessOK, StandsWell
<1>3. PICK i \in Invoices : x.todo = <<i>> /\ Chosen(x, i) /\ Clean(x)
  BY <1>1, <1>2 DEF SerialRow, Paying
<1>4. PICK m \in Merchants : m = invoice[i].merchant
  BY <1>3, OneStands DEF TypeInv, RowsComplete, Chosen, Pending
<1>5. PICK z : z = Load(x, {m})
  OBVIOUS
<1>6. /\ z \in SessionRow /\ ReadsRows(z) /\ Clean(z) /\ z.kind = x.kind /\ z.todo = x.todo
      /\ z.s = x.s /\ z.scope = x.scope /\ z.a = x.a
  BY <1>1, <1>3, <1>5, OneStands, LoadOK, LoadReads
<1>7. sess' = [sess EXCEPT ![p] = [z EXCEPT !.at = "merchant"]] /\ UNCHANGED tables
  BY <1>1, <1>3, <1>4, <1>5 DEF LockInvoice
<1>8. PICK y : y = [z EXCEPT !.at = "merchant"]
  OBVIOUS
<1>9. /\ y.at = "merchant" /\ y.kind = x.kind /\ y.todo = x.todo /\ y.s = x.s
      /\ y.scope = x.scope /\ y.a = x.a /\ ReadsRows(y) /\ Clean(y)
  BY <1>6, <1>8, Moved
<1>10. SerialRow(y)
  BY <1>2, <1>3, <1>9 DEF SerialRow, Paying, Chosen, Pays, Releases, Issues
<1> QED  BY <1>1, <1>7, <1>8, <1>9, <1>10, OneMoves

LEMMA OneLocksToPay ==
    ASSUME ConstantsAssumption, TxAssumption, TxInv, SerialInv, NEW p, Sessions = {p},
           LockMerchantToPay(p)
    PROVE  SerialInv' /\ SerialStep
<1>1. PICK x \in SessionRow : /\ x = sess[p] /\ SessOK(x) /\ SerialRow(x) /\ ReadsRows(x)
                              /\ ObjectsOK(x)
  BY OneStands
<1>2. x.at = "merchant" /\ Pays(x)
  BY <1>1 DEF LockMerchantToPay, Pays
<1>3. PICK i \in Invoices : x.todo = <<i>> /\ Chosen(x, i) /\ Clean(x)
  BY <1>1, <1>2 DEF SerialRow, Paying
<1>4. PICK m \in Merchants, f \in Nat :
         /\ m = invoice[i].merchant /\ f = invoice[i].fee
         /\ invoice[i].purpose \in {"payment", "wallet_topup"}
  <2>1. invoice[i].merchant \in Merchants
    BY <1>3, OneStands DEF TypeInv, RowsComplete, Chosen, Pending
  <2>2. invoice[i] \in InvoiceRow
    BY OneStands DEF TypeInv, TypeOK
  <2>3. invoice[i].fee \in Nat /\ invoice[i].purpose \in {"payment", "wallet_topup"}
    BY <2>2 DEF InvoiceRow, ConstantsAssumption
  <2> QED  BY <2>1, <2>3
<1>5. x.bal[m] \in Balance /\ x.base[m] = acct[m] /\ x.bal[m] = acct[m]
  <2>1. x.bal[m] \in Balance
    BY <1>1, <1>2, <1>3, <1>4 DEF SessOK, StandsWell
  <2> QED  BY <1>1, <1>3, <2>1 DEF ReadsRows, Clean, TxAssumption
<1>6. sess' = [sess EXCEPT ![p] =
          IF invoice[i].purpose = "wallet_topup" THEN [x EXCEPT !.at = "target"]
          ELSE IF f > 0 THEN [Post(x, m, ChargeFee(x.bal[m], f), "verification_fee", i, -f)
                                EXCEPT !.at = "commit"]
          ELSE [x EXCEPT !.at = "commit"]] /\ UNCHANGED tables
  BY <1>1, <1>3, <1>4 DEF LockMerchantToPay
<1>7. CASE invoice[i].purpose = "wallet_topup"
  <2>1. PICK y : y = [x EXCEPT !.at = "target"]
    OBVIOUS
  <2>2. sess' = [sess EXCEPT ![p] = y] /\ UNCHANGED tables
    BY <1>6, <1>7, <2>1
  <2>3. /\ y.at = "target" /\ y.kind = x.kind /\ y.todo = x.todo /\ y.s = x.s
        /\ y.scope = x.scope /\ y.a = x.a /\ ReadsRows(y) /\ Clean(y)
    BY <1>1, <1>3, <2>1, Moved
  <2>4. SerialRow(y)
    BY <1>2, <1>3, <1>7, <2>3 DEF SerialRow, Paying, Chosen, Pays, Releases, Issues
  <2> QED  BY <1>1, <2>2, <2>3, <2>4, OneMoves
<1>8. CASE invoice[i].purpose # "wallet_topup" /\ f > 0
  <2>1. PICK b : b = ChargeFee(acct[m], f)
    OBVIOUS
  <2>2. b \in Balance /\ b = ChargeFee(x.bal[m], f)
        /\ "verification_fee" \in EntryKind /\ -f \in Int
    BY <1>5, <2>1, BalanceOps DEF EntryKind
  <2>3. PICK z : z = Post(x, m, b, "verification_fee", i, -f)
    OBVIOUS
  <2>4. /\ z \in SessionRow /\ ReadsRows(z) /\ Wrote(z, m, b, "verification_fee", i, -f)
        /\ z.kind = x.kind /\ z.todo = x.todo /\ z.s = x.s /\ z.scope = x.scope /\ z.a = x.a
    BY <1>1, <1>3, <1>5, <2>2, <2>3, PostOK, PostWrites
  <2>5. PICK y : y = [z EXCEPT !.at = "commit"]
    OBVIOUS
  <2>6. sess' = [sess EXCEPT ![p] = y] /\ UNCHANGED tables
    BY <1>6, <1>8, <2>2, <2>3, <2>5
  <2>7. /\ y.at = "commit" /\ y.kind = x.kind /\ y.todo = x.todo /\ y.s = x.s
        /\ y.scope = x.scope /\ y.a = x.a /\ ReadsRows(y)
        /\ y.base = z.base /\ y.bal = z.bal /\ y.log = z.log
    BY <2>4, <2>5, Moved
  <2>8. Charged(y, i)
    <3>1. Wrote(y, m, b, "verification_fee", i, -f)
      BY <2>4, <2>7 DEF Wrote
    <3> QED  BY <1>4, <1>8, <2>1, <3>1 DEF Charged
  <2>9. SerialRow(y)
    BY <1>2, <1>3, <2>7, <2>8 DEF SerialRow, Paying, Chosen, Pays, Releases, Issues
  <2> QED  BY <1>1, <2>6, <2>7, <2>9, OneMoves
<1>9. CASE invoice[i].purpose # "wallet_topup" /\ ~(f > 0)
  <2>1. PICK y : y = [x EXCEPT !.at = "commit"]
    OBVIOUS
  <2>2. sess' = [sess EXCEPT ![p] = y] /\ UNCHANGED tables
    BY <1>6, <1>9, <2>1
  <2>3. /\ y.at = "commit" /\ y.kind = x.kind /\ y.todo = x.todo /\ y.s = x.s
        /\ y.scope = x.scope /\ y.a = x.a /\ ReadsRows(y) /\ Clean(y)
    BY <1>1, <1>3, <2>1, Moved
  <2>4. Charged(y, i)
    BY <1>4, <1>9, <2>3 DEF Charged
  <2>5. SerialRow(y)
    BY <1>2, <1>3, <2>3, <2>4 DEF SerialRow, Paying, Chosen, Pays, Releases, Issues
  <2> QED  BY <1>1, <2>2, <2>3, <2>5, OneMoves
<1> QED  BY <1>7, <1>8, <1>9

LEMMA OneLocksTarget ==
    ASSUME ConstantsAssumption, TxAssumption, TxInv, SerialInv, NEW p, Sessions = {p},
           LockTopupTarget(p)
    PROVE  SerialInv' /\ SerialStep
<1>1. PICK x \in SessionRow : /\ x = sess[p] /\ SessOK(x) /\ SerialRow(x) /\ ReadsRows(x)
                              /\ ObjectsOK(x)
  BY OneStands
<1>2. x.at = "target" /\ Pays(x)
  BY <1>1 DEF LockTopupTarget, SessOK, StandsWell
<1>3. PICK i \in Invoices : /\ x.todo = <<i>> /\ Chosen(x, i) /\ Clean(x)
                            /\ invoice[i].purpose = "wallet_topup"
  BY <1>1, <1>2 DEF SerialRow, Paying
<1>4. PICK t \in Merchants, a \in Nat : t = invoice[i].target /\ a = invoice[i].payable
  <2>1. invoice[i].target \in Merchants
    BY <1>3, OneStands DEF TypeInv, RowsComplete
  <2>2. invoice[i] \in InvoiceRow
    BY OneStands DEF TypeInv, TypeOK
  <2> QED  BY <2>1, <2>2 DEF InvoiceRow
<1>5. PICK u : u = Load(x, {t})
  OBVIOUS
<1>6. /\ u \in SessionRow /\ ObjectsOK(u) /\ ReadsRows(u) /\ Clean(u) /\ u.base[t] = acct[t]
      /\ u.bal[t] \in Balance /\ u.kind = x.kind /\ u.todo = x.todo
      /\ u.s = x.s /\ u.scope = x.scope /\ u.a = x.a
  BY <1>1, <1>3, <1>5, OneStands, LoadOK, LoadReads
<1>7. PICK b : b = AddToWallet(acct[t], a)
  OBVIOUS
<1>8. b \in Balance /\ b = AddToWallet(u.bal[t], a) /\ "wallet_topup" \in EntryKind /\ a \in Int
  BY <1>6, <1>7, BalanceOps DEF EntryKind, Clean
<1>9. PICK z : z = Post(u, t, b, "wallet_topup", i, a)
  OBVIOUS
<1>10. /\ z \in SessionRow /\ ReadsRows(z) /\ Wrote(z, t, b, "wallet_topup", i, a)
       /\ z.kind = x.kind /\ z.todo = x.todo /\ z.s = x.s /\ z.scope = x.scope /\ z.a = x.a
  BY <1>6, <1>8, <1>9, PostOK, PostWrites
<1>11. PICK y : y = [z EXCEPT !.at = "commit"]
  OBVIOUS
<1>12. /\ y.at = "commit" /\ y.kind = x.kind /\ y.todo = x.todo /\ y.s = x.s
       /\ y.scope = x.scope /\ y.a = x.a /\ ReadsRows(y)
       /\ y.base = z.base /\ y.bal = z.bal /\ y.log = z.log
  BY <1>10, <1>11, Moved
<1>13. sess' = [sess EXCEPT ![p] = y] /\ UNCHANGED tables
  BY <1>1, <1>3, <1>4, <1>5, <1>8, <1>9, <1>11 DEF LockTopupTarget
<1>14. Charged(y, i)
  <2>1. Wrote(y, t, b, "wallet_topup", i, a)
    BY <1>10, <1>12 DEF Wrote
  <2> QED  BY <1>3, <1>4, <1>7, <2>1 DEF Charged
<1>15. SerialRow(y)
  BY <1>2, <1>3, <1>12, <1>14 DEF SerialRow, Paying, Chosen, Pays, Releases, Issues
<1> QED  BY <1>1, <1>12, <1>13, <1>15, OneMoves

LEMMA OneLocksToRelease ==
    ASSUME ConstantsAssumption, TxAssumption, TxInv, SerialInv, NEW p, Sessions = {p},
           LockMerchantToRelease(p)
    PROVE  SerialInv' /\ SerialStep
<1>1. PICK x \in SessionRow : /\ x = sess[p] /\ SessOK(x) /\ SerialRow(x) /\ ReadsRows(x)
                              /\ ObjectsOK(x)
  BY OneStands
<1>2. x.at = "merchant" /\ Releases(x)
  BY <1>1 DEF LockMerchantToRelease, Releases
<1>3. PICK i \in Invoices : /\ x.todo = <<i>> /\ x.done = {} /\ Clean(x) /\ Pending(i)
                            /\ x.kind = "expire" => i \in overdue
  BY <1>1, <1>2 DEF SerialRow, Releasing
<1>4. PICK m \in Merchants, f \in Nat : m = invoice[i].merchant /\ f = invoice[i].fee
  <2>1. invoice[i].merchant \in Merchants
    BY <1>3, OneStands DEF TypeInv, RowsComplete, Pending
  <2>2. invoice[i] \in InvoiceRow
    BY OneStands DEF TypeInv, TypeOK
  <2>3. invoice[i].fee \in Nat
    BY <2>2 DEF InvoiceRow, ConstantsAssumption
  <2> QED  BY <2>1, <2>3
<1>5. PICK u : u = Load(x, {m})
  OBVIOUS
<1>6. /\ u \in SessionRow /\ ObjectsOK(u) /\ ReadsRows(u) /\ Clean(u) /\ u.base[m] = acct[m]
      /\ u.bal[m] \in Balance /\ u.kind = x.kind /\ u.todo = x.todo /\ u.done = x.done
  BY <1>1, <1>3, <1>5, OneStands, LoadOK, LoadReads
<1>7. PICK b : b = ReleaseFee(acct[m], f)
  OBVIOUS
<1>8. b \in Balance /\ b = ReleaseFee(u.bal[m], f) /\ "fee_released" \in EntryKind /\ f \in Int
  BY <1>6, <1>7, BalanceOps DEF EntryKind, Clean
<1>9. PICK z : z = IF f > 0 THEN Post(u, m, b, "fee_released", i, f) ELSE u
  OBVIOUS
<1>10. /\ z \in SessionRow /\ ReadsRows(z)
       /\ IF f > 0 THEN Wrote(z, m, b, "fee_released", i, f) ELSE Clean(z)
       /\ z.kind = x.kind /\ z.todo = x.todo /\ z.done = x.done
  <2>1. CASE f > 0
    <3>1. z = Post(u, m, b, "fee_released", i, f)
      BY <1>9, <2>1
    <3>2. z \in SessionRow /\ z.kind = x.kind /\ z.todo = x.todo /\ z.done = x.done
      BY <1>6, <1>8, <3>1, PostOK
    <3>3. ReadsRows(z) /\ Wrote(z, m, b, "fee_released", i, f)
      BY <1>6, <3>1, PostWrites
    <3> QED  BY <2>1, <3>2, <3>3
  <2>2. CASE ~(f > 0)
    BY <1>6, <1>9, <2>2
  <2> QED  BY <2>1, <2>2
<1>11. PICK y : y = [z EXCEPT !.at = "update"]
  OBVIOUS
<1>12. /\ y.at = "update" /\ y.kind = x.kind /\ y.todo = x.todo /\ y.done = x.done
       /\ ReadsRows(y) /\ y.base = z.base /\ y.bal = z.bal /\ y.log = z.log
  BY <1>10, <1>11, Moved
<1>13. sess' = [sess EXCEPT ![p] = y] /\ UNCHANGED tables
  <2>1. /\ sess' = [sess EXCEPT ![p] =
               IF f > 0 THEN [Post(u, m, ReleaseFee(u.bal[m], f), "fee_released", i, f)
                                EXCEPT !.at = "update"]
                        ELSE [u EXCEPT !.at = "update"]]
        /\ UNCHANGED tables
    BY <1>1, <1>3, <1>4, <1>5 DEF LockMerchantToRelease
  <2>2. CASE f > 0
    BY <1>8, <1>9, <1>11, <2>1, <2>2
  <2>3. CASE ~(f > 0)
    BY <1>9, <1>11, <2>1, <2>3
  <2> QED  BY <2>2, <2>3
<1>14. Freed(y, i)
  BY <1>4, <1>7, <1>10, <1>12 DEF Freed, Wrote, Clean
<1>15. SerialRow(y)
  BY <1>2, <1>3, <1>12, <1>14 DEF SerialRow, Releasing, Pays, Releases, Issues
<1> QED  BY <1>1, <1>12, <1>13, <1>15, OneMoves

LEMMA OneUpdates ==
    ASSUME ConstantsAssumption, TxAssumption, TxInv, SerialInv, NEW p, Sessions = {p},
           UpdateReleased(p)
    PROVE  SerialInv' /\ SerialStep
<1>1. PICK x \in SessionRow : /\ x = sess[p] /\ SessOK(x) /\ SerialRow(x) /\ ReadsRows(x)
  BY OneStands
<1>2. x.at = "update" /\ Releases(x)
  BY <1>1 DEF UpdateReleased, SessOK, StandsWell
<1>3. PICK i \in Invoices : /\ x.todo = <<i>> /\ x.done = {} /\ Freed(x, i) /\ Pending(i)
                            /\ x.kind = "expire" => i \in overdue
  BY <1>1, <1>2 DEF SerialRow, Releasing
<1>4. Tail(<<i>>) = <<>>
  OBVIOUS
<1>5. PICK y : y = [x EXCEPT !.todo = <<>>, !.done = {i}, !.at = "commit"]
  OBVIOUS
<1>6. sess' = [sess EXCEPT ![p] = y] /\ UNCHANGED tables
  <2>1. sess' = [sess EXCEPT ![p] =
           [x EXCEPT !.todo = Tail(<<i>>), !.done = {} \cup {i},
                     !.at = IF Len(<<i>>) = 1 THEN "commit" ELSE "merchant"]] /\ UNCHANGED tables
    BY <1>1, <1>3, OneOfWork DEF UpdateReleased
  <2> QED  BY <1>4, <1>5, <2>1, OneOfWork
<1>7. /\ y.at = "commit" /\ y.kind = x.kind /\ y.todo = <<>> /\ y.done = {i}
      /\ y.base = x.base /\ y.bal = x.bal /\ y.log = x.log
  BY <1>5 DEF SessionRow
<1>8. ReadsRows(y) /\ Freed(y, i)
  BY <1>1, <1>3, <1>7 DEF ReadsRows, Freed, Wrote, Clean
<1>9. SerialRow(y)
  BY <1>2, <1>3, <1>7, <1>8 DEF SerialRow, Releasing, Pays, Releases, Issues
<1>10. View(y, overdue) = View(sess[p], overdue)
  BY <1>1, <1>2, <1>7, ViewOf DEF Releases
<1> QED  BY <1>6, <1>9, <1>10, OneGoesOn

LEMMA OneLocksToCreate ==
    ASSUME ConstantsAssumption, TxAssumption, TxInv, SerialInv, NEW p, Sessions = {p},
           LockMerchantToCreate(p)
    PROVE  SerialInv' /\ SerialStep
<1>1. PICK x \in SessionRow : /\ x = sess[p] /\ SessOK(x) /\ SerialRow(x) /\ ReadsRows(x)
  BY OneStands
<1>2. x.at = "merchant" /\ Issues(x)
  BY <1>1 DEF LockMerchantToCreate, Issues
<1>3. /\ x.todo = <<>> /\ Clean(x) /\ x.scope \in Merchants /\ x.base[x.scope] = acct[x.scope]
      /\ x.bal[x.scope] = acct[x.scope]
  BY <1>1, <1>2 DEF SerialRow, Issuing, Clean
<1>4. CASE Rollback(p)
  BY <1>4, OneRollsBack
<1>5. CASE ~Rollback(p)
  <2>1. PICK y : y = [x EXCEPT !.at = "commit"]
    OBVIOUS
  <2>2. /\ sess' = [sess EXCEPT ![p] = y] /\ UNCHANGED tables
        /\ x.kind = "create" /\ verificationFee[x.scope] > 0
              => ~(Available(acct[x.scope]) < verificationFee[x.scope])
    BY <1>1, <1>3, <1>5, <2>1 DEF LockMerchantToCreate
  <2>3. Available(acct[x.scope]) \in Int /\ verificationFee[x.scope] \in Int
    <3>1. acct[x.scope] \in Balance /\ verificationFee[x.scope] \in 0..MaxFee
      BY <1>3, OneStands DEF TypeInv, TypeOK
    <3> QED  BY <3>1 DEF Available, Balance
  <2>4. x.kind = "create" /\ verificationFee[x.scope] > 0
           => Available(acct[x.scope]) >= verificationFee[x.scope]
    BY <2>2, <2>3
  <2>5. /\ y.at = "commit" /\ y.kind = x.kind /\ y.todo = x.todo /\ y.scope = x.scope
        /\ y.base = x.base /\ ReadsRows(y) /\ Clean(y)
    BY <1>1, <1>3, <2>1, Moved
  <2>6. SerialRow(y)
    BY <1>2, <1>3, <2>4, <2>5 DEF SerialRow, Issuing, Pays, Releases, Issues
  <2> QED  BY <1>1, <2>2, <2>5, <2>6, OneMoves
<1> QED  BY <1>4, <1>5

\* The message is filed: its candidate's payment goes on, or it is stored.
LEMMA OneFiles ==
    ASSUME ConstantsAssumption, TxAssumption, TxInv, SerialInv, NEW p, Sessions = {p},
           FileMessage(p)
    PROVE  SerialInv' /\ SerialStep
<1>1. PICK x \in SessionRow : /\ x = sess[p] /\ SessOK(x) /\ SerialRow(x) /\ ReadsRows(x)
                              /\ ObjectsOK(x)
  BY OneStands
<1>2. x.at = "message"
  BY <1>1 DEF FileMessage
<1>3. /\ x.kind = "webhook" /\ x.todo = <<>> /\ Clean(x) /\ x.s \in Sms
      /\ x.scope \in Merchants \cup {None} /\ x.a \in SmsAmounts
      /\ Delivered(x.s, x.scope, x.a)
  BY <1>1, <1>2 DEF SerialRow, AtMessage
<1>4. CASE Rollback(p)
  BY <1>4, OneRollsBack
<1>5. ASSUME NEW card \in Merchants, NEW i \in Invoices, x.scope \in {None, card},
             Candidates(card, x.a) = {i},
             sess' = [sess EXCEPT ![p] = [Load(x, {card}) EXCEPT !.at = "invoice", !.todo = <<i>>]],
             UNCHANGED tables
      PROVE  SerialInv' /\ SerialStep
  <2>1. PICK z : z = Load(x, {card})
    OBVIOUS
  <2>2. /\ z \in SessionRow /\ ReadsRows(z) /\ Clean(z) /\ z.kind = x.kind
        /\ z.s = x.s /\ z.scope = x.scope /\ z.a = x.a
    BY <1>1, <1>3, <2>1, OneStands, LoadOK, LoadReads
  <2>3. PICK y : y = [z EXCEPT !.at = "invoice", !.todo = <<i>>]
    OBVIOUS
  <2>4. /\ y.at = "invoice" /\ y.todo = <<i>> /\ y.kind = "webhook"
        /\ y.s = x.s /\ y.scope = x.scope /\ y.a = x.a
        /\ y.base = z.base /\ y.bal = z.bal /\ y.log = z.log
    BY <1>3, <2>2, <2>3 DEF SessionRow
  <2>5. ReadsRows(y) /\ Clean(y)
    BY <2>2, <2>4 DEF ReadsRows, Clean
  <2>6. Pending(i) /\ i \notin overdue /\ WaitsAlone(card, x.a, i)
    BY <1>5 DEF Candidates, WaitsAlone
  <2>7. Chosen(y, i)
    BY <1>3, <1>5, <2>4, <2>6 DEF Chosen
  <2>8. SerialRow(y)
    BY <2>4, <2>5, <2>7 DEF SerialRow, Paying, Pays, Releases, Issues
  <2>9. View(y, overdue) = overdue /\ View(x, overdue) = overdue
    <3>1. View(y, overdue) = overdue \ {i}
      BY <2>4, ViewOf
    <3> QED  BY <1>3, <2>6, <3>1, ViewOf
  <2>10. sess' = [sess EXCEPT ![p] = y]
    BY <1>5, <2>1, <2>3
  <2> QED  BY <1>1, <1>5, <2>8, <2>9, <2>10, OneGoesOn
<1>6. CASE /\ sms' = [sms EXCEPT ![x.s].status = "unmatched",
                                 ![x.s].merchant = x.scope, ![x.s].amount = x.a]
           /\ Leave(p)
           /\ UNCHANGED <<acct, verificationFee, invoice, overdue, reservations, ledger, events>>
  <2>1. PICK s \in Sms, scope \in Merchants \cup {None}, a \in SmsAmounts :
            s = x.s /\ scope = x.scope /\ a = x.a
    BY <1>3
  <2>2. sms \in [Sms -> SmsRow] /\ sms[s] \in SmsRow
    BY OneStands DEF TypeInv, TypeOK
  <2>3. PICK row : row = [status |-> "unmatched", merchant |-> scope, amount |-> a,
                          invoice |-> None]
    OBVIOUS
  <2>4. sms[s].invoice = None
    BY <1>3, <2>1 DEF SerialInv, RowsAgree, Delivered, Unmatched
  <2>5. row = [sms[s] EXCEPT !.status = "unmatched", !.merchant = scope, !.amount = a]
    <3>1. PICK old \in SmsRow : old = sms[s]
      BY <2>2
    <3>2. a \in Nat /\ old.invoice = None
      BY <2>4, <3>1 DEF ConstantsAssumption
    <3>3. PICK new : new = [old EXCEPT !.status = "unmatched", !.merchant = scope, !.amount = a]
      OBVIOUS
    <3>4. /\ new.status = "unmatched" /\ new.merchant = scope /\ new.amount = a
          /\ new.invoice = None /\ new \in SmsRow
      BY <2>1, <3>1, <3>2, <3>3 DEF SmsRow
    <3>5. new = [status |-> new.status, merchant |-> new.merchant, amount |-> new.amount,
                 invoice |-> new.invoice]
      BY <3>4 DEF SmsRow
    <3> QED  BY <2>3, <3>1, <3>3, <3>4, <3>5
  <2>6. sms' = [sms EXCEPT ![s] = row]
    BY <1>6, <2>1, <2>2, <2>5
  <2>7. row.status = "unmatched" /\ row.invoice = None
    BY <2>3
  <2>8. RowsAgree'
    BY <1>6, <2>2, <2>6, <2>7 DEF SerialInv, RowsAgree, Pending
  <2>9. SerialInv' /\ SerialOverdue' = overdue'
    BY <1>6, <2>8, OneLeaves
  <2>10. SerialOverdue = overdue
    BY <1>1, <1>3, ViewIs, ViewOf
  <2>11. Serial!Delivered(s, scope, a)
    BY <1>3, <2>1 DEF Delivered, Unmatched, Serial!Delivered, Serial!Unmatched
  <2>12. Serial!FileSms(s, scope, a, "unmatched", None)
    BY <2>3, <2>6 DEF Serial!FileSms
  <2>13. Serial!IngestUnmatched(s, scope, a)
    BY <1>6, <2>9, <2>10, <2>11, <2>12 DEF Serial!IngestUnmatched
  <2> QED  BY <2>9, <2>13 DEF SerialStep, Serial!Next
<1> QED  BY <1>1, <1>4, <1>5, <1>6 DEF FileMessage

-----------------------------------------------------------------------------
(* The commits of the one session are the actions of Settlement. *)

LEMMA OneCommitsPayment ==
    ASSUME ConstantsAssumption, TxAssumption, TxInv, SerialInv, NEW p, Sessions = {p},
           CommitPayment(p)
    PROVE  SerialInv' /\ SerialStep
<1>1. PICK x \in SessionRow : /\ x = sess[p] /\ SerialRow(x) /\ ReadsRows(x)
                              /\ ObjectsOK(x)
  BY OneStands
<1>2. x.at = "commit" /\ Pays(x)
  BY <1>1 DEF CommitPayment, Pays
<1>3. PICK i \in Invoices : x.todo = <<i>> /\ i = Head(x.todo) /\ Chosen(x, i) /\ Charged(x, i)
  BY <1>1, <1>2 DEF SerialRow, Paying
<1>4. CASE Rollback(p)
  BY <1>4, OneRollsBack
<1>5. CASE /\ acct' = Flush(x)
           /\ ledger' = ledger \o x.log
           /\ invoice' = [invoice EXCEPT ![i].status = "paid", ![i].sms = x.s]
           /\ overdue' = overdue \ {i}
           /\ reservations' = {r \in reservations : r.token # i}
           /\ events' = events \cup Queued(i)
           /\ FileSms(x.s, x.scope, x.a, "matched", i)
           /\ Leave(p)
           /\ UNCHANGED verificationFee
  <2>2. PICK s \in Sms : s = x.s
    BY <1>3 DEF Chosen
  <2>3. PICK row : row = invoice[i]
    OBVIOUS
  <2>4. /\ row \in InvoiceRow /\ row.status = "pending" /\ row.sms = None
        /\ row.merchant \in Merchants
        /\ row.purpose = "wallet_topup" => row.target \in Merchants
    BY <1>3, <2>3, OneStands DEF Chosen, Pending, SerialInv, RowsAgree, TypeInv, TypeOK,
                                 RowsComplete
  <2>5. RowsAgree'
    <3>1. \A j \in Invoices : invoice'[j].status = "pending" => invoice'[j] = invoice[j]
      <4> SUFFICES ASSUME NEW j \in Invoices, invoice'[j].status = "pending"
                   PROVE  invoice'[j] = invoice[j]
        OBVIOUS
      <4>1. invoice \in [Invoices -> InvoiceRow]
        BY OneStands DEF TypeInv, TypeOK
      <4>2. invoice'[i].status = "paid"
        BY <1>5, <2>2, <4>1 DEF InvoiceRow
      <4>3. CASE j # i
        BY <1>5, <4>1, <4>3
      <4> QED  BY <4>2, <4>3
    <3>2. \A t \in Sms : sms'[t].status # "matched" => sms'[t] = sms[t]
      BY <1>5, OneStands DEF FileSms, TypeInv, TypeOK
    <3> QED  BY <3>1, <3>2 DEF RowsAgree, SerialInv, Pending
  <2>6. SerialInv' /\ SerialOverdue' = overdue \ {i}
    BY <1>5, <2>5, OneLeaves
  <2>7. SerialOverdue' = SerialOverdue \ {i}
    <3>1. SerialOverdue = overdue \/ SerialOverdue = overdue \ {i}
      BY <1>1, <1>3, ViewIs, ViewOf
    <3> QED  BY <2>6, <3>1
  <2>8. Serial!ConfirmInvoicePaid(i, s)
    <3>1. Serial!Payable(invoice[i])
      BY <2>3, <2>4 DEF Serial!Payable
    <3>2. events' = IF Serial!Hooked(invoice[i]) THEN events \cup {i} ELSE events
      BY <1>5 DEF Queued, Hooked, Serial!Hooked
    <3>3. \/ /\ row.purpose = "payment" /\ row.fee > 0
             /\ Serial!Book(row.merchant, Serial!ChargeFee(acct[row.merchant], row.fee),
                            "verification_fee", i, -row.fee, 0)
          \/ /\ row.purpose = "payment" /\ row.fee = 0
             /\ UNCHANGED <<acct, ledger>>
          \/ /\ row.purpose = "wallet_topup"
             /\ Serial!Book(row.target, Serial!AddToWallet(acct[row.target], row.payable),
                            "wallet_topup", i, row.payable, 0)
      <4>1. CASE /\ row.purpose = "payment" /\ row.fee > 0
                 /\ Wrote(x, row.merchant, ChargeFee(acct[row.merchant], row.fee),
                          "verification_fee", i, -row.fee)
        <5>1. PICK b : b = ChargeFee(acct[row.merchant], row.fee)
          OBVIOUS
        <5>2. b \in Balance
          BY <2>4, <5>1, OneStands, BalanceOps DEF InvoiceRow
        <5>3. Book(row.merchant, b, "verification_fee", i, -row.fee, 0)
          BY <1>1, <1>5, <4>1, <5>1, <5>2, OneStands, FlushPosting DEF TxAssumption
        <5> QED  BY <4>1, <5>1, <5>3 DEF Book, Serial!Book, ChargeFee, Serial!ChargeFee,
                                         NotNegative, Serial!NotNegative
      <4>2. CASE row.purpose = "payment" /\ row.fee = 0 /\ Clean(x)
        <5>1. acct' = acct
          BY <1>1, <1>5, <4>2, OneStands, FlushNothing
        <5>2. ledger' = ledger
          BY <1>5, <4>2, OneStands DEF Clean, TypeInv, TypeOK
        <5> QED  BY <4>2, <5>1, <5>2
      <4>3. CASE /\ row.purpose = "wallet_topup"
                 /\ Wrote(x, row.target, AddToWallet(acct[row.target], row.payable),
                          "wallet_topup", i, row.payable)
        <5>1. PICK b : b = AddToWallet(acct[row.target], row.payable)
          OBVIOUS
        <5>2. b \in Balance
          BY <2>4, <4>3, <5>1, OneStands, BalanceOps DEF InvoiceRow
        <5>3. Book(row.target, b, "wallet_topup", i, row.payable, 0)
          BY <1>1, <1>5, <4>3, <5>1, <5>2, OneStands, FlushPosting DEF TxAssumption
        <5> QED  BY <4>3, <5>1, <5>3 DEF Book, Serial!Book, AddToWallet, Serial!AddToWallet
      <4> QED  BY <1>3, <2>3, <4>1, <4>2, <4>3 DEF Charged
    <3> QED  BY <1>5, <2>2, <2>3, <2>7, <3>1, <3>2, <3>3 DEF Serial!ConfirmInvoicePaid
  <2>9. CASE x.kind = "webhook"
    <3>1. PICK scope \in Merchants \cup {None}, a \in SmsAmounts, card \in Merchants :
             /\ scope = x.scope /\ a = x.a /\ scope \in {None, card}
             /\ WaitsAlone(card, a, i) /\ Delivered(s, scope, a)
      BY <1>3, <2>2, <2>9 DEF Chosen
    <3>2. SerialOverdue = overdue \ {i}
      BY <1>1, <1>3, <2>9, ViewIs, ViewOf
    <3>3. Serial!Candidates(card, a) = {i}
      BY <3>1, <3>2 DEF WaitsAlone, Pending, Serial!Candidates, Serial!Pending
    <3>4. Serial!Delivered(s, scope, a) /\ Serial!FileSms(s, scope, a, "matched", i)
      BY <1>5, <2>2, <3>1 DEF Delivered, Unmatched, Serial!Delivered, Serial!Unmatched, FileSms,
                              Serial!FileSms
    <3>5. Serial!IngestMatching(s, scope, a)
      BY <1>5, <2>8, <3>1, <3>3, <3>4 DEF Serial!IngestMatching
    <3> QED  BY <2>6, <3>5 DEF SerialStep, Serial!Next
  <2>10. CASE x.kind = "approve"
    <3>1. /\ Unmatched(s) /\ sms[s].amount = invoice[i].payable
          /\ x.scope = sms[s].merchant /\ x.a = sms[s].amount /\ Pending(i)
      BY <1>3, <2>2, <2>10 DEF Chosen
    <3>2. Serial!FileSms(s, sms[s].merchant, sms[s].amount, "matched", i)
      BY <1>5, <2>2, <3>1 DEF FileSms, Serial!FileSms
    <3>3. Serial!AdminApproveSms(s, i)
      BY <1>5, <2>8, <3>1, <3>2 DEF Serial!AdminApproveSms, Serial!Unmatched, Unmatched,
                                    Serial!Pending, Pending
    <3> QED  BY <2>6, <3>3 DEF SerialStep, Serial!Next
  <2> QED  BY <1>2, <2>9, <2>10 DEF Pays
<1> QED  BY <1>1, <1>3, <1>4, <1>5 DEF CommitPayment

LEMMA OneCommitsRelease ==
    ASSUME ConstantsAssumption, TxAssumption, TxInv, SerialInv, NEW p, Sessions = {p},
           CommitRelease(p)
    PROVE  SerialInv' /\ SerialStep
<1>1. PICK x \in SessionRow : /\ x = sess[p] /\ SerialRow(x) /\ ReadsRows(x)
                              /\ ObjectsOK(x)
  BY OneStands
<1>2. x.at = "commit" /\ Releases(x)
  BY <1>1 DEF CommitRelease, Releases
<1>3. PICK i \in Invoices : /\ x.todo = <<>> /\ x.done = {i} /\ Freed(x, i) /\ Pending(i)
                            /\ x.kind = "expire" => i \in overdue
  BY <1>1, <1>2 DEF SerialRow, Releasing
<1>4. CASE Rollback(p)
  BY <1>4, OneRollsBack
<1>5. CASE /\ acct' = Flush(x)
           /\ ledger' = ledger \o x.log
           /\ invoice' = [j \in Invoices |->
                 IF j \in x.done THEN [invoice[j] EXCEPT !.status = ClosedAs(x.kind)]
                                 ELSE invoice[j]]
           /\ overdue' = overdue \ x.done
           /\ reservations' = {r \in reservations : r.token \notin x.done}
           /\ Leave(p)
           /\ UNCHANGED <<verificationFee, sms, events>>
  <2>1. PICK status \in {"cancelled", "expired"} : status = ClosedAs(x.kind)
    BY DEF ClosedAs
  <2>2. invoice \in [Invoices -> InvoiceRow]
    BY OneStands DEF TypeInv, TypeOK
  <2>3. invoice' = [invoice EXCEPT ![i].status = status]
    BY <1>3, <1>5, <2>1, <2>2
  <2>4. overdue' = overdue \ {i} /\ reservations' = {r \in reservations : r.token # i}
    BY <1>3, <1>5
  <2>5. PICK row \in InvoiceRow : row = invoice[i] /\ row.status = "pending"
                                  /\ row.merchant \in Merchants
    BY <1>3, <2>2, OneStands DEF Pending, TypeInv, RowsComplete
  <2>6. RowsAgree'
    <3>1. \A j \in Invoices : invoice'[j].status = "pending" => invoice'[j] = invoice[j]
      <4> SUFFICES ASSUME NEW j \in Invoices, invoice'[j].status = "pending"
                   PROVE  invoice'[j] = invoice[j]
        OBVIOUS
      <4>1. invoice'[i].status = status
        BY <2>2, <2>3 DEF InvoiceRow
      <4>2. CASE j # i
        BY <2>2, <2>3, <4>2
      <4> QED  BY <2>1, <4>1, <4>2
    <3> QED  BY <1>5, <3>1 DEF RowsAgree, SerialInv, Pending
  <2>7. SerialInv' /\ SerialOverdue' = overdue \ {i} /\ SerialOverdue = overdue
    BY <1>1, <1>3, <1>5, <2>4, <2>6, OneLeaves, ViewIs, ViewOf
  <2>8. IF row.fee > 0
          THEN Serial!Book(row.merchant, Serial!ReleaseFee(acct[row.merchant], row.fee),
                           "fee_released", i, row.fee, 0)
          ELSE UNCHANGED <<acct, ledger>>
    <3>1. CASE row.fee > 0
      <4>1. PICK b : b = ReleaseFee(acct[row.merchant], row.fee)
        OBVIOUS
      <4>2. b \in Balance
        <5>1. row.fee \in Int /\ acct[row.merchant] \in Balance
          BY <2>5, OneStands DEF InvoiceRow
        <5> QED  BY <4>1, <5>1, BalanceOps
      <4>3. Wrote(x, row.merchant, b, "fee_released", i, row.fee)
        BY <1>3, <2>5, <3>1, <4>1 DEF Freed
      <4>4. Book(row.merchant, b, "fee_released", i, row.fee, 0)
        BY <1>1, <1>5, <4>2, <4>3, OneStands, FlushPosting DEF TxAssumption
      <4> QED  BY <3>1, <4>1, <4>4 DEF Book, Serial!Book, ReleaseFee, Serial!ReleaseFee,
                                       NotNegative, Serial!NotNegative
    <3>2. CASE ~(row.fee > 0)
      <4>1. Clean(x)
        BY <1>3, <2>5, <3>2 DEF Freed
      <4>2. acct' = acct
        BY <1>1, <1>5, <4>1, OneStands, FlushNothing
      <4>3. ledger' = ledger
        BY <1>5, <4>1, OneStands DEF Clean, TypeInv, TypeOK
      <4> QED  BY <3>2, <4>2, <4>3
    <3> QED  BY <3>1, <3>2
  <2>9. Serial!ReleaseInvoiceReservation(i, status)
    <3>1. Serial!Releasable(invoice[i])
      BY <2>5 DEF Serial!Releasable
    <3>2. SerialOverdue' = SerialOverdue \ {i}
      BY <2>7
    <3> QED  BY <1>5, <2>3, <2>4, <2>5, <2>8, <3>1, <3>2
             DEF Serial!ReleaseInvoiceReservation
  <2>10. Serial!CancelInvoice(i) \/ Serial!ExpireInvoice(i)
    <3>1. CASE x.kind = "cancel"
      <4>1. status = "cancelled"
        BY <2>1, <3>1 DEF ClosedAs
      <4> QED  BY <2>9, <4>1 DEF Serial!CancelInvoice
    <3>2. CASE x.kind = "expire"
      <4>1. status = "expired" /\ i \in SerialOverdue
        BY <1>3, <2>1, <2>7, <3>2 DEF ClosedAs
      <4> QED  BY <2>9, <4>1 DEF Serial!ExpireInvoice
    <3> QED  BY <1>2, <3>1, <3>2 DEF Releases
  <2> QED  BY <2>7, <2>10 DEF SerialStep, Serial!Next
<1> QED  BY <1>1, <1>4, <1>5 DEF CommitRelease

LEMMA OneCommitsAdjust ==
    ASSUME ConstantsAssumption, TxAssumption, TxInv, SerialInv, NEW p, Sessions = {p},
           CommitAdjust(p)
    PROVE  SerialInv' /\ SerialStep
<1>1. PICK x \in SessionRow : /\ x = sess[p] /\ SerialRow(x) /\ ReadsRows(x)
                              /\ ObjectsOK(x)
  BY OneStands
<1>2. x.at = "commit" /\ x.kind = "adjust"
  BY <1>1 DEF CommitAdjust
<1>3. Adjusting(x)
  BY <1>1, <1>2 DEF SerialRow
<1>4. PICK m \in Merchants, a \in AdjustAmounts \cup {-c : c \in AdjustAmounts} :
         /\ x.todo = <<>> /\ (a < 0 => SparesHolds(acct[m], a))
         /\ Wrote(x, m, AddToWallet(acct[m], a), IF a > 0 THEN "credit" ELSE "debit", None, a)
  BY <1>3 DEF Adjusting
<1>5. CASE Rollback(p)
  BY <1>5, OneRollsBack
<1>6. CASE /\ Len(ledger) < MaxLedger
           /\ acct' = Flush(x)
           /\ ledger' = ledger \o x.log
           /\ Leave(p)
           /\ UNCHANGED <<verificationFee, invoice, overdue, reservations, sms, events>>
  <2>1. a \in Int
    <3>1. \A c \in AdjustAmounts : c \in Int /\ -c \in Int
      BY DEF ConstantsAssumption
    <3> QED  BY <3>1
  <2>2. RowsAgree'
    BY <1>6 DEF SerialInv, RowsAgree, Pending
  <2>3. SerialInv' /\ SerialOverdue' = overdue /\ SerialOverdue = overdue
    BY <1>1, <1>4, <1>6, <2>2, OneLeaves, ViewIs, ViewOf
  <2>4. PICK b, kind : b = AddToWallet(acct[m], a) /\ kind = IF a > 0 THEN "credit" ELSE "debit"
    OBVIOUS
  <2>5. b \in Balance
    BY <2>1, <2>4, OneStands, BalanceOps
  <2>6. Wrote(x, m, b, kind, None, a)
    BY <1>4, <2>4
  <2>7. Book(m, b, kind, None, a, 0)
    BY <1>1, <1>6, <2>5, <2>6, OneStands, FlushPosting DEF TxAssumption
  <2>8. Serial!AdminWalletAdjust(m, a)
    <3>1. a < 0 => Serial!SparesHolds(acct[m], a)
      BY <1>4 DEF SparesHolds, Serial!SparesHolds
    <3>2. Serial!Book(m, Serial!AddToWallet(acct[m], a), IF a > 0 THEN "credit" ELSE "debit",
                      None, a, 0)
      BY <2>4, <2>7 DEF Book, Serial!Book, AddToWallet, Serial!AddToWallet
    <3> QED  BY <1>6, <2>3, <3>1, <3>2 DEF Serial!AdminWalletAdjust
  <2>9. Serial!Next
    <3>1. CASE a \in AdjustAmounts
      BY <2>8, <3>1 DEF Serial!Next
    <3>2. CASE \E c \in AdjustAmounts : a = -c
      BY <2>8, <3>2 DEF Serial!Next
    <3> QED  BY <3>1, <3>2
  <2> QED  BY <2>3, <2>9 DEF SerialStep
<1> QED  BY <1>1, <1>5, <1>6 DEF CommitAdjust

\* Creating an invoice or a top-up: the view and the code's purge agree.
LEMMA SameReservations ==
    ASSUME SerialOverdue = overdue, NEW card, NEW nominal, NEW token, NEW payable,
           ReserveUniquePayableAmount(card, nominal, token, payable)
    PROVE  Serial!ReserveUniquePayableAmount(card, nominal, token, payable)
BY DEF ReserveUniquePayableAmount, Payables, LiveReservations,
       Serial!ReserveUniquePayableAmount, Serial!Payables, Serial!LiveReservations

\* A new row is pending and unpaid.
LEMMA CreatedAgrees ==
    ASSUME TypeInv, RowsAgree, NEW i \in Invoices, NEW row, row.sms = None,
           invoice' = [invoice EXCEPT ![i] = row], sms' = sms
    PROVE  RowsAgree'
<1>1. \A j \in Invoices : invoice'[j] = IF j = i THEN row ELSE invoice[j]
  BY DEF TypeInv, TypeOK
<1> QED  BY <1>1 DEF RowsAgree, Pending

LEMMA OneCommitsCreate ==
    ASSUME ConstantsAssumption, TxAssumption, TxInv, SerialInv, NEW p, Sessions = {p},
           NEW i \in Invoices, NEW base \in BaseAmounts, NEW mode \in FeeModes,
           NEW hook \in BOOLEAN, CommitCreate(p, i, base, mode, hook)
    PROVE  SerialInv' /\ SerialStep
<1>1. PICK x \in SessionRow : /\ x = sess[p] /\ SerialRow(x) /\ ReadsRows(x)
                              /\ ObjectsOK(x)
  BY OneStands
<1>2. x.at = "commit" /\ x.kind = "create"
  BY <1>1 DEF CommitCreate
<1>3. Issuing(x)
  BY <1>1, <1>2 DEF SerialRow, Issues
<1>4. PICK m \in Merchants, f \in Nat :
         /\ m = x.scope /\ f = verificationFee[m] /\ x.todo = <<>> /\ Clean(x)
         /\ x.base[m] = acct[m] /\ x.bal[m] = acct[m]
         /\ (f > 0 => Available(acct[m]) >= f)
  <2>1. x.scope \in Merchants
    BY <1>3 DEF Issuing
  <2>2. verificationFee[x.scope] \in Nat
    <3>1. verificationFee[x.scope] \in 0..MaxFee
      BY <2>1, OneStands DEF TypeInv, TypeOK
    <3> QED  BY <3>1 DEF ConstantsAssumption
  <2> QED  BY <1>2, <1>3, <2>1, <2>2 DEF Issuing, Clean
<1>5. PICK y : y = IF f > 0 THEN Post(x, m, HoldFee(x.bal[m], f), "fee_reserved", i, -f) ELSE x
  OBVIOUS
<1>6. /\ invoice[i].status = "absent"
      /\ \E pay \in {base + CustomerFee(f, mode) + c : c \in Codes} :
            /\ ReserveUniquePayableAmount(m, base + CustomerFee(f, mode), i, pay)
            /\ invoice' = [invoice EXCEPT ![i] = PendingInvoice(m, f, pay, "payment", None, hook)]
      /\ acct' = Flush(y)
      /\ ledger' = ledger \o y.log
      /\ Leave(p)
      /\ UNCHANGED <<verificationFee, overdue, sms, events>>
  <2>1. /\ sess[p].scope = m /\ verificationFee[sess[p].scope] = f
        /\ y = IF f > 0 THEN Post(sess[p], m, HoldFee(sess[p].bal[m], f), "fee_reserved", i, -f)
                        ELSE sess[p]
    BY <1>1, <1>4, <1>5
  <2> QED  BY <2>1 DEF CommitCreate
<1>7. RowsAgree'
  <2>1. PICK pay : invoice' = [invoice EXCEPT
                                 ![i] = PendingInvoice(m, f, pay, "payment", None, hook)]
    BY <1>6
  <2>2. PendingInvoice(m, f, pay, "payment", None, hook).sms = None
    BY DEF PendingInvoice
  <2> QED  BY <1>6, <2>1, <2>2, OneStands, CreatedAgrees DEF SerialInv
<1>8. SerialInv' /\ SerialOverdue' = overdue /\ SerialOverdue = overdue
  BY <1>1, <1>4, <1>6, <1>7, OneLeaves, ViewIs, ViewOf
<1>9. IF f > 0 THEN Serial!Book(m, Serial!HoldFee(acct[m], f), "fee_reserved", i, -f, 0)
               ELSE UNCHANGED <<acct, ledger>>
  <2>1. CASE f > 0
    <3>1. PICK b : b = HoldFee(acct[m], f)
      OBVIOUS
    <3>2. b \in Balance /\ x.bal[m] \in Balance /\ "fee_reserved" \in EntryKind /\ -f \in Int
      <4>1. acct[m] \in Balance /\ f \in Int /\ -f \in Int
        BY OneStands
      <4> QED  BY <1>4, <3>1, <4>1, BalanceOps DEF EntryKind
    <3>3. y = Post(x, m, b, "fee_reserved", i, -f)
      BY <1>4, <1>5, <2>1, <3>1
    <3>4. y \in SessionRow
      BY <1>1, <3>2, <3>3, PostOK
    <3>5. ReadsRows(y) /\ Wrote(y, m, b, "fee_reserved", i, -f)
      BY <1>1, <1>4, <3>3, PostWrites
    <3>6. Book(m, b, "fee_reserved", i, -f, 0)
      BY <1>6, <3>2, <3>4, <3>5, OneStands, FlushPosting DEF TxAssumption
    <3> QED  BY <2>1, <3>1, <3>6 DEF Book, Serial!Book, HoldFee, Serial!HoldFee
  <2>2. CASE ~(f > 0)
    <3>1. y = x
      BY <1>5, <2>2
    <3>2. acct' = acct
      BY <1>1, <1>4, <1>6, <3>1, OneStands, FlushNothing
    <3>3. ledger' = ledger
      <4>1. y.log = <<>> /\ ledger \in Seq(LedgerRow)
        BY <1>4, <3>1, OneStands DEF Clean, TypeInv, TypeOK
      <4> QED  BY <1>6, <4>1
    <3> QED  BY <2>2, <3>2, <3>3
  <2> QED  BY <2>1, <2>2
<1>10. Serial!CreateInvoice(m, i, base, mode, hook)
  <2>1. f > 0 => Serial!Available(acct[m]) >= f
    BY <1>4 DEF Available, Serial!Available
  <2>2. PICK pay \in {base + CustomerFee(f, mode) + c : c \in Codes} :
           /\ ReserveUniquePayableAmount(m, base + CustomerFee(f, mode), i, pay)
           /\ invoice' = [invoice EXCEPT ![i] = PendingInvoice(m, f, pay, "payment", None, hook)]
    BY <1>6
  <2>3. Serial!CustomerFee(f, mode) = CustomerFee(f, mode)
    BY DEF CustomerFee, Serial!CustomerFee
  <2>4. pay \in {base + Serial!CustomerFee(f, mode) + c : c \in Codes}
    BY <2>2, <2>3
  <2>5. Serial!ReserveUniquePayableAmount(m, base + Serial!CustomerFee(f, mode), i, pay)
    BY <1>8, <2>2, <2>3, SameReservations
  <2>6. invoice' = [invoice EXCEPT ![i] =
                       Serial!PendingInvoice(m, f, pay, "payment", None, hook)]
    BY <2>2 DEF PendingInvoice, Serial!PendingInvoice
  <2>7. \E q \in {base + Serial!CustomerFee(f, mode) + c : c \in Codes} :
           /\ Serial!ReserveUniquePayableAmount(m, base + Serial!CustomerFee(f, mode), i, q)
           /\ invoice' = [invoice EXCEPT ![i] =
                             Serial!PendingInvoice(m, f, q, "payment", None, hook)]
    BY <2>4, <2>5, <2>6
  <2>8. UNCHANGED <<verificationFee, SerialOverdue, sms, events>>
    BY <1>6, <1>8
  <2>9. f = verificationFee[m] /\ invoice[i].status = "absent"
    BY <1>4, <1>6
  <2>10. verificationFee[m] > 0 => Serial!Available(acct[m]) >= verificationFee[m]
    BY <2>1, <2>9
  <2>11. \E q \in {base + Serial!CustomerFee(verificationFee[m], mode) + c : c \in Codes} :
            /\ Serial!ReserveUniquePayableAmount(
                 m, base + Serial!CustomerFee(verificationFee[m], mode), i, q)
            /\ invoice' = [invoice EXCEPT ![i] =
                 Serial!PendingInvoice(m, verificationFee[m], q, "payment", None, hook)]
    BY <2>7, <2>9
  <2>12. IF verificationFee[m] > 0
           THEN Serial!Book(m, Serial!HoldFee(acct[m], verificationFee[m]), "fee_reserved", i,
                            -verificationFee[m], 0)
           ELSE UNCHANGED <<acct, ledger>>
    BY <1>9, <2>9
  <2> QED  BY <2>8, <2>9, <2>10, <2>11, <2>12, Zenon DEF Serial!CreateInvoice
<1>11. Serial!Next
  BY <1>10 DEF Serial!Next, FeeModes, Serial!FeeModes
<1> QED  BY <1>8, <1>11 DEF SerialStep

LEMMA OneCommitsTopup ==
    ASSUME ConstantsAssumption, TxAssumption, TxInv, SerialInv, NEW p, Sessions = {p},
           NEW i \in Invoices, NEW base \in BaseAmounts, CommitTopup(p, i, base)
    PROVE  SerialInv' /\ SerialStep
<1>1. PICK x \in SessionRow : x = sess[p] /\ SerialRow(x)
  BY OneStands
<1>2. x.at = "commit" /\ x.kind = "topup"
  BY <1>1 DEF CommitTopup
<1>3. PICK t \in Merchants : t = x.scope /\ x.todo = <<>>
  BY <1>1, <1>2 DEF SerialRow, Issues, Issuing
<1>4. CreateWalletTopupInvoice(t, i, base) /\ Leave(p)
  BY <1>1, <1>3 DEF CommitTopup
<1>5. PICK pay \in {base + c : c \in Codes} :
         /\ ReserveUniquePayableAmount(Owner, base, i, pay)
         /\ invoice' = [invoice EXCEPT ![i] =
                           PendingInvoice(Owner, 0, pay, "wallet_topup", t, FALSE)]
  BY <1>4 DEF CreateWalletTopupInvoice
<1>6. /\ UNCHANGED <<acct, verificationFee, overdue, sms, ledger, events>>
      /\ invoice[i].status = "absent"
  BY <1>4 DEF CreateWalletTopupInvoice
<1>7. RowsAgree'
  <2>1. PendingInvoice(Owner, 0, pay, "wallet_topup", t, FALSE).sms = None
    BY DEF PendingInvoice
  <2> QED  BY <1>5, <1>6, <2>1, OneStands, CreatedAgrees DEF SerialInv
<1>8. SerialInv' /\ SerialOverdue' = overdue /\ SerialOverdue = overdue
  BY <1>1, <1>3, <1>4, <1>6, <1>7, OneLeaves, ViewIs, ViewOf
<1>9. Serial!ReserveUniquePayableAmount(Owner, base, i, pay)
  BY <1>5, <1>8, SameReservations
<1>10. Serial!CreateWalletTopupInvoice(t, i, base)
  BY <1>5, <1>6, <1>8, <1>9 DEF Serial!CreateWalletTopupInvoice, PendingInvoice,
                                Serial!PendingInvoice
<1>11. Serial!Next
  BY <1>10 DEF Serial!Next
<1> QED  BY <1>8, <1>11 DEF SerialStep

LEMMA OneClock ==
    ASSUME ConstantsAssumption, TxAssumption, TxInv, SerialInv, NEW p, Sessions = {p},
           ClockTicks
    PROVE  SerialInv' /\ SerialStep
<1>1. PICK i \in Invoices : PassDeadline(i)
  BY DEF ClockTicks
<1>2. /\ Pending(i) /\ i \notin overdue /\ overdue' = overdue \cup {i}
      /\ UNCHANGED <<acct, verificationFee, invoice, reservations, sms, ledger, events, sess>>
  BY <1>1 DEF PassDeadline, ClockTicks
<1>3. PICK x : x = sess[p] /\ sess'[p] = x /\ SerialRow(x)
  BY <1>2 DEF SerialInv
<1>4. SerialInv'
  <2>1. SerialRow(sess[p])'
    BY <1>2, <1>3, RowStays
  <2>2. RowsAgree'
    BY <1>2 DEF SerialInv, RowsAgree, Pending
  <2> QED  BY <2>1, <2>2 DEF SerialInv
<1>5. SerialOverdue' = SerialOverdue \/ (i \notin SerialOverdue
                                         /\ SerialOverdue' = SerialOverdue \cup {i})
  <2>1. SerialOverdue = View(x, overdue) /\ SerialOverdue' = View(x, overdue \cup {i})
    BY <1>2, <1>3, ViewIs
  <2> QED  BY <1>2, <2>1 DEF View
<1>6. CASE SerialOverdue' = SerialOverdue
  BY <1>2, <1>4, <1>6 DEF SerialStep, Serial!vars
<1>7. CASE i \notin SerialOverdue /\ SerialOverdue' = SerialOverdue \cup {i}
  <2>1. Serial!PassDeadline(i)
    BY <1>2, <1>7 DEF Serial!PassDeadline, Serial!Pending, Pending
  <2> QED  BY <1>4, <2>1 DEF SerialStep, Serial!Next
<1> QED  BY <1>5, <1>6, <1>7

LEMMA OneInit ==
    ASSUME ConstantsAssumption, TxAssumption, NEW p, Sessions = {p}, Funds = 0, TxInit
    PROVE  SerialInv /\ Serial!Init
<1>1. sess[p] = Idle /\ overdue = {}
  BY DEF TxInit
<1>2. SerialOverdue = {}
  BY <1>1, ViewIs DEF View
<1>3. SerialRow(sess[p])
  BY <1>1 DEF SerialRow, ReadsRows, Idle
<1>4. RowsAgree
  BY DEF TxInit, RowsAgree, Pending, NoInvoice, NoSms
<1>5. acct = [m \in Merchants |-> [wallet |-> 0, reserved |-> 0]]
  BY DEF TxInit
<1>6. ledger = <<>>
  BY DEF TxInit
<1>7. Serial!Init
  BY <1>2, <1>5, <1>6 DEF TxInit, Serial!Init, NoInvoice, Serial!NoInvoice, NoSms, Serial!NoSms
<1> QED  BY <1>3, <1>4, <1>7 DEF SerialInv

LEMMA OneArrives ==
    ASSUME ConstantsAssumption, TxAssumption, TxInv, SerialInv, NEW p, Sessions = {p},
           PassLimit = 1, Arrive(p)
    PROVE  SerialInv' /\ SerialStep
<1>1. CASE \E s \in Sms, scope \in Merchants \cup {None}, a \in SmsAmounts :
               BeginWebhook(p, s, scope, a)
  BY <1>1, OneBeginsWebhook
<1>2. CASE \E s \in Sms, i \in Invoices, joined \in BOOLEAN : BeginApprove(p, s, i, joined)
  BY <1>2, OneBeginsApprove
<1>3. CASE \E i \in Invoices, joined \in BOOLEAN :
               BeginCancel(p, i, joined) \/ BeginExpire(p, i, joined)
  BY <1>3, OneBeginsRelease
<1>4. ~BeginPass(p)
  <2> SUFFICES ASSUME BeginPass(p) PROVE FALSE
    OBVIOUS
  <2>1. PICK q \in SetToAllKPermutations({i \in overdue : Pending(i)}) : Len(q) > 1 /\ Len(q) <= 1
    BY DEF BeginPass
  <2>2. {i \in overdue : Pending(i)} \in SUBSET Invoices
    BY DEF TxInv, TypeInv, TypeOK
  <2>3. Len(q) \in Nat
    BY <2>2, BatchIsWork
  <2> QED  BY <2>1, <2>3
<1>5. CASE \E kind \in {"create", "topup"}, m \in Merchants : BeginCreate(p, kind, m)
  BY <1>5, OneBeginsCreate
<1>6. ASSUME NEW m \in Merchants, NEW a \in AdjustAmounts,
             BeginAdjust(p, m, a) \/ BeginAdjust(p, m, -a)
      PROVE  SerialInv' /\ SerialStep
  BY <1>6, OneBeginsAdjust
<1> QED  BY <1>1, <1>2, <1>3, <1>4, <1>5, <1>6 DEF Arrive

LEMMA OneAdvances ==
    ASSUME ConstantsAssumption, TxAssumption, TxInv, SerialInv, NEW p, Sessions = {p},
           Advance(p)
    PROVE  SerialInv' /\ SerialStep
<1>1. CASE FileMessage(p) \/ LockInvoice(p) \/ LockMerchantToPay(p) \/ LockTopupTarget(p)
  BY <1>1, OneFiles, OneLocksInvoice, OneLocksToPay, OneLocksTarget
<1>2. CASE LockMerchantToRelease(p) \/ UpdateReleased(p) \/ LockMerchantToCreate(p)
  BY <1>2, OneLocksToRelease, OneUpdates, OneLocksToCreate
<1>3. CASE CommitPayment(p) \/ CommitRelease(p) \/ CommitAdjust(p)
  BY <1>3, OneCommitsPayment, OneCommitsRelease, OneCommitsAdjust
<1>4. CASE \E i \in Invoices, b \in BaseAmounts, mode \in FeeModes, hook \in BOOLEAN :
               CommitCreate(p, i, b, mode, hook)
  BY <1>4, OneCommitsCreate
<1>5. CASE \E i \in Invoices, b \in BaseAmounts : CommitTopup(p, i, b)
  BY <1>5, OneCommitsTopup
<1>6. CASE GiveUpCreate(p)
  BY <1>6, OneRollsBack DEF GiveUpCreate
<1> QED  BY <1>1, <1>2, <1>3, <1>4, <1>5, <1>6 DEF Advance

LEMMA OneSteps ==
    ASSUME ConstantsAssumption, TxAssumption, TxInv, SerialInv, NEW p, Sessions = {p},
           PassLimit = 1, [TxNext]_txVars
    PROVE  SerialInv' /\ SerialStep
<1>1. CASE Arrive(p)
  BY <1>1, OneArrives
<1>2. CASE Advance(p)
  BY <1>2, OneAdvances
<1>3. CASE AbortVictim(p)
  BY <1>3, OneRollsBack DEF AbortVictim
<1>4. CASE ClockTicks
  BY <1>4, OneClock
<1>5. CASE UNCHANGED txVars
  <2>1. UNCHANGED <<tables, sess>>
    BY <1>5 DEF txVars
  <2>2. PICK y : y = sess[p]
    OBVIOUS
  <2>3. sess' = [sess EXCEPT ![p] = y] /\ SerialRow(y)
    BY <2>1, <2>2 DEF SerialInv, TxInv, SessInv
  <2> QED  BY <2>1, <2>2, <2>3, OneGoesOn
<1> QED  BY <1>1, <1>2, <1>3, <1>4, <1>5 DEF TxNext

\* One session at a time, and one invoice in each pass of the expiration
\* worker, implements Settlement: read, lock and commit in pieces, every handler
\* of invoice_service, sms_service and the wallet panel has the effect of the
\* one atomic step that Settlement takes it for.
THEOREM OneSessionIsSerial ==
    ASSUME NEW p, Sessions = {p}, PassLimit = 1, Funds = 0
    PROVE  TxSpec => ImplementsSettlement
<1>1. TxInit => SerialInv /\ Serial!Init
  BY OneInit, ConstantsAssumption, TxAssumption
<1>2. TxInv /\ SerialInv /\ [TxNext]_txVars => SerialInv' /\ [Serial!Next]_(Serial!vars)
  BY OneSteps, ConstantsAssumption, TxAssumption DEF SerialStep
<1> QED  BY <1>1, <1>2, TxInvHolds, PTL DEF TxSpec, ImplementsSettlement, Serial!Spec

=============================================================================
