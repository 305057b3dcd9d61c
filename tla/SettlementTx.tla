---------------------------- MODULE SettlementTx ----------------------------
(***************************************************************************)
(* The handlers of Settlement as database sessions that run side by side.  *)
(*                                                                         *)
(* The variables of Settlement are the committed tables.  A session works  *)
(* on PostgreSQL at READ COMMITTED through SQLAlchemy:                     *)
(*  - a plain SELECT reads the committed tables and waits for nobody;      *)
(*  - SELECT ... FOR UPDATE, UPDATE and the INSERT of a unique key wait    *)
(*    for the row's lock, which is kept until commit or rollback;          *)
(*  - a row the session has loaded stays the object that it was: a later   *)
(*    SELECT of it, FOR UPDATE included, does not refresh the object       *)
(*    (no query here asks for populate_existing);                          *)
(*  - commit writes, as absolute values, the columns whose value in the    *)
(*    object differs from the value loaded.                                *)
(* An invoice is loaded only while it is pending, so the status test that  *)
(* follows its lock (Payable) or precedes the merchant's lock (Releasable) *)
(* always passes on the loaded object, and does not appear again.          *)
(***************************************************************************)
EXTENDS Settlement, SequencesExt

CONSTANTS
    Sessions,       \* concurrent database sessions
    Kinds,          \* the handlers that take part
    PassLimit,      \* LIMIT of the expiration worker's query (200 in the code)
    Funds           \* wallet of Owner at the start, from an earlier deposit

ASSUME TxAssumption ==
    /\ None \notin Sessions /\ None \notin Balance
    /\ Kinds \subseteq {"webhook", "approve", "cancel", "expire", "create", "topup", "adjust"}
    /\ PassLimit \in Nat \ {0}
    /\ Funds \in Nat

VARIABLES
    sess,           \* [Sessions -> session record]
    held            \* [Rows -> Sessions \cup {None}]: row locks

tables == <<acct, verificationFee, invoice, overdue, reservations, sms, ledger, events>>
txVars == <<tables, sess, held>>

Rows == Invoices \cup Merchants \cup Sms

\* at: the lock waited for next; todo: the loaded invoices still to close;
\* done: those closed in this transaction; s, scope, a: the message; fresh:
\* the message was not found in the table; base, bal: the merchant objects as
\* loaded and as changed; log: ledger rows to insert; amount: the adjustment.
Idle ==
    [at |-> "idle", kind |-> None, todo |-> <<>>, done |-> {}, s |-> None,
     scope |-> None, a |-> 0, fresh |-> FALSE,
     base |-> [m \in Merchants |-> None], bal |-> [m \in Merchants |-> None],
     log |-> <<>>]

InTx(p) == sess[p].at # "idle"

-----------------------------------------------------------------------------
(* The session's objects and locks *)

\* Load the merchants in M that the session does not hold yet.
Load(x, M) ==
    LET missing == {m \in M : x.base[m] = None}
        read(f) == [m \in Merchants |-> IF m \in missing THEN acct[m] ELSE f[m]]
    IN [x EXCEPT !.base = read(@), !.bal = read(@)]

\* Change merchant m's object and note the ledger row that explains it.
Post(x, m, b, kind, i, a) ==
    [x EXCEPT !.bal[m] = b,
              !.log = Append(@, [merchant |-> m, kind |-> kind, invoice |-> i, amount |-> a,
                                 before |-> x.bal[m], after |-> b, reverses |-> 0])]

Free(p, r) == held[r] \in {None, p}
Lock(p, r) == /\ Free(p, r)
              /\ held' = [held EXCEPT ![r] = p]

Begin(p, kind, x) ==
    /\ ~InTx(p) /\ kind \in Kinds
    /\ sess' = [sess EXCEPT ![p] = [x EXCEPT !.kind = kind]]
    /\ UNCHANGED <<tables, held>>

Leave_KeepsLocks(p) == sess' = [sess EXCEPT ![p] = Idle] /\ UNCHANGED held
\* End of the transaction: the locks are released, the objects forgotten.
Leave(p) ==
    /\ sess' = [sess EXCEPT ![p] = Idle]
    /\ held' = [r \in Rows |-> IF held[r] = p THEN None ELSE held[r]]

Rollback(p) == Leave(p) /\ UNCHANGED tables

Flush_WalletOnly(x) ==
    [m \in Merchants |-> IF x.base[m] = None THEN acct[m]
                         ELSE [acct[m] EXCEPT !.wallet = x.bal[m].wallet]]
\* What the UPDATE of merchants writes.
Flush(x) ==
    LET col(m, c) == IF x.base[m] = None \/ x.bal[m][c] = x.base[m][c]
                       THEN acct[m][c] ELSE x.bal[m][c]
    IN [m \in Merchants |-> [wallet |-> col(m, "wallet"), reserved |-> col(m, "reserved")]]

-----------------------------------------------------------------------------
(* Requests arrive: what a handler reads before its first lock *)

\* The merchant of the webhook is loaded by the handler.
BeginWebhook(p, s, scope, a) ==
    /\ Delivered(s, scope, a)
    /\ Begin(p, "webhook",
             Load([Idle EXCEPT !.at = "message", !.s = s, !.scope = scope, !.a = a,
                               !.fresh = (sms[s].status = "absent")],
                  {scope} \ {None}))

\* The admin panel loads the invoice with its merchant, /approve without.
BeginApprove(p, s, i, joined) ==
    /\ Unmatched(s)
    /\ Pending(i)
    /\ sms[s].amount = invoice[i].payable
    /\ Begin(p, "approve",
             Load([Idle EXCEPT !.at = "invoice", !.s = s, !.todo = <<i>>,
                               !.scope = sms[s].merchant, !.a = sms[s].amount],
                  IF joined THEN {invoice[i].merchant} ELSE {}))

\* The API and /cancel have loaded the merchant, the admin panel has not.
BeginCancel(p, i, joined) ==
    /\ Pending(i)
    /\ Begin(p, "cancel",
             Load([Idle EXCEPT !.at = "merchant", !.todo = <<i>>],
                  IF joined THEN {invoice[i].merchant} ELSE {}))

\* The payment page loads the merchant too, the status endpoint does not; the
\* worker loads a batch of invoices only.
BeginExpire(p, i, joined) ==
    /\ Pending(i) /\ i \in overdue
    /\ Begin(p, "expire",
             Load([Idle EXCEPT !.at = "merchant", !.todo = <<i>>],
                  IF joined THEN {invoice[i].merchant} ELSE {}))

BeginPass(p) ==
    LET due == {i \in overdue : Pending(i)} IN
    \E q \in SetToAllKPermutations(due) :
        /\ Len(q) > 1 /\ Len(q) <= PassLimit
        /\ Len(q) < PassLimit => ToSet(q) = due
        /\ Begin(p, "expire", [Idle EXCEPT !.at = "merchant", !.todo = q])

\* The API key's merchant, or the bot user's, who issues an invoice or wants
\* the wallet topped up.
BeginCreate(p, kind, m) ==
    Begin(p, kind, Load([Idle EXCEPT !.at = "merchant", !.scope = m], {m}))

\* /credit and the wallet panel take no lock before they write.
BeginAdjust(p, m, a) ==
    /\ a < 0 => SparesHolds(acct[m], a)
    /\ Begin(p, "adjust",
             LET x == Load(Idle, {m}) IN
             [Post(x, m, AddToWallet(acct[m], a), IF a > 0 THEN "credit" ELSE "debit", None, a)
                EXCEPT !.at = "commit", !.scope = m])

-----------------------------------------------------------------------------
(* Steps of a transaction *)

\* The message row is inserted or updated; then the candidates are read.
\* "unmatched" stands for "review" and "ignored" too: no handler here tells
\* them apart.
FileMessage(p) ==
    LET x == sess[p] IN
    /\ x.at = "message" /\ Free(p, x.s)
    /\ \/ /\ x.fresh /\ sms[x.s].status # "absent"     \* the fingerprint exists
          /\ Rollback(p)
       \/ /\ ~(x.fresh /\ sms[x.s].status # "absent")
          /\ \/ \E card \in Merchants, i \in Invoices :
                   /\ x.scope \in {None, card}
                   /\ Candidates(card, x.a) = {i}
                   /\ sess' = [sess EXCEPT ![p] =
                                 [Load(x, {card}) EXCEPT !.at = "invoice", !.todo = <<i>>]]
                   /\ Lock(p, x.s)
                   /\ UNCHANGED tables
             \/ /\ sms' = [sms EXCEPT ![x.s].status = "unmatched",
                                       ![x.s].merchant = x.scope, ![x.s].amount = x.a]
                /\ Leave(p)
                /\ UNCHANGED <<acct, verificationFee, invoice, overdue, reservations,
                               ledger, events>>

\* The invoice FOR UPDATE; selectinload then reads its merchant.
LockInvoice(p) ==
    LET i == Head(sess[p].todo) IN
    /\ sess[p].at = "invoice"
    /\ Lock(p, i)
    /\ sess' = [sess EXCEPT ![p] = [Load(@, {invoice[i].merchant}) EXCEPT !.at = "merchant"]]
    /\ UNCHANGED tables

\* confirm_invoice_paid has its merchant.
LockMerchantToPay(p) ==
    LET i == Head(sess[p].todo)
        m == invoice[i].merchant
        f == invoice[i].fee
        x == sess[p]
    IN
    /\ x.at = "merchant" /\ x.kind \in {"webhook", "approve"}
    /\ Lock(p, m)
    /\ sess' = [sess EXCEPT ![p] =
          IF invoice[i].purpose = "wallet_topup" THEN [x EXCEPT !.at = "target"]
          ELSE IF f > 0 THEN [Post(x, m, ChargeFee(x.bal[m], f), "verification_fee", i, -f)
                                EXCEPT !.at = "commit"]
          ELSE [x EXCEPT !.at = "commit"]]
    /\ UNCHANGED tables

LockTopupTarget(p) ==
    LET i == Head(sess[p].todo)
        t == invoice[i].target
        x == Load(sess[p], {t})
    IN
    /\ sess[p].at = "target"
    /\ Lock(p, t)
    /\ sess' = [sess EXCEPT ![p] =
          [Post(x, t, AddToWallet(x.bal[t], invoice[i].payable), "wallet_topup", i, invoice[i].payable)
             EXCEPT !.at = "commit"]]
    /\ UNCHANGED tables

\* release_invoice_reservation has its merchant and changes the objects.
LockMerchantToRelease(p) ==
    LET i == Head(sess[p].todo)
        m == invoice[i].merchant
        f == invoice[i].fee
        x == Load(sess[p], {m})
    IN
    /\ sess[p].at = "merchant" /\ sess[p].kind \in {"cancel", "expire"}
    /\ Lock(p, m)
    /\ sess' = [sess EXCEPT ![p] =
          IF f > 0 THEN [Post(x, m, ReleaseFee(x.bal[m], f), "fee_released", i, f)
                           EXCEPT !.at = "update"]
          ELSE [x EXCEPT !.at = "update"]]
    /\ UNCHANGED tables

\* The flush before the reservation is deleted updates the invoice row.
UpdateReleased(p) ==
    LET x == sess[p] IN
    /\ x.at = "update"
    /\ Lock(p, Head(x.todo))
    /\ sess' = [sess EXCEPT ![p] =
          [x EXCEPT !.todo = Tail(@), !.done = @ \cup {Head(x.todo)},
                    !.at = IF Len(x.todo) = 1 THEN "commit" ELSE "merchant"]]
    /\ UNCHANGED tables

\* The available balance is tested on the object; too little raises.
LockMerchantToCreate(p) ==
    LET x == sess[p] IN
    /\ x.at = "merchant" /\ x.kind \in {"create", "topup"}
    /\ Free(p, x.scope)
    /\ IF x.kind = "create" /\ verificationFee[x.scope] > 0 /\ Available(x.bal[x.scope]) < verificationFee[x.scope]
         THEN Rollback(p)
         ELSE /\ Lock(p, x.scope)
              /\ sess' = [sess EXCEPT ![p].at = "commit"]
              /\ UNCHANGED tables

-----------------------------------------------------------------------------
(* Commit *)

KeyTaken_Never(kind, i) == FALSE
\* wallet_ledger.idempotency_key is unique: reserve:, release:, paid-fee: and
\* wallet-topup: followed by the invoice id.
KeyTaken(kind, i) == \E n \in 1..Len(ledger) : ledger[n].kind = kind /\ ledger[n].invoice = i

Duplicate(x) ==
    \E n \in 1..Len(x.log) : x.log[n].invoice # None /\ KeyTaken(x.log[n].kind, x.log[n].invoice)

Queued_FeeBearing(i) == IF Hooked(invoice[i]) /\ invoice[i].fee > 0 THEN {i} ELSE {}
\* The callback events a payment of i inserts.
Queued(i) == IF Hooked(invoice[i]) THEN {i} ELSE {}

CommitPayment(p) ==
    LET x == sess[p]
        i == Head(x.todo)
    IN
    /\ x.at = "commit" /\ x.kind \in {"webhook", "approve"}
    /\ Free(p, x.s)                       \* /approve writes the message last
    /\ IF Duplicate(x) \/ Queued(i) \cap events # {}
         THEN Rollback(p)
         ELSE /\ acct' = Flush(x)
              /\ ledger' = ledger \o x.log
              /\ invoice' = [invoice EXCEPT ![i].status = "paid", ![i].sms = x.s]
              /\ overdue' = overdue \ {i}
              /\ reservations' = {r \in reservations : r.token # i}
              /\ events' = events \cup Queued(i)
              /\ FileSms(x.s, x.scope, x.a, "matched", i)
              /\ Leave(p)
              /\ UNCHANGED verificationFee

ClosedAs(kind) == IF kind = "cancel" THEN "cancelled" ELSE "expired"

CommitRelease(p) ==
    LET x == sess[p] IN
    /\ x.at = "commit" /\ x.kind \in {"cancel", "expire"}
    /\ IF Duplicate(x)
         THEN Rollback(p)
         ELSE /\ acct' = Flush(x)
              /\ ledger' = ledger \o x.log
              /\ invoice' = [i \in Invoices |->
                    IF i \in x.done THEN [invoice[i] EXCEPT !.status = ClosedAs(x.kind)]
                                    ELSE invoice[i]]
              /\ overdue' = overdue \ x.done
              /\ reservations' = {r \in reservations : r.token \notin x.done}
              /\ Leave(p)
              /\ UNCHANGED <<verificationFee, sms, events>>

\* Reservation, invoice, hold and ledger row, as in CreateInvoice, but for the
\* balances, which are the object's.
CommitCreate(p, i, base, mode, hook) ==
    /\ sess[p].at = "commit" /\ sess[p].kind = "create"
    /\ invoice[i].status = "absent"
    /\ LET m == sess[p].scope
           f == verificationFee[m]
           x == IF f > 0
                  THEN Post(sess[p], m, HoldFee(sess[p].bal[m], f), "fee_reserved", i, -f)
                  ELSE sess[p]
       IN /\ \E pay \in {base + CustomerFee(f, mode) + c : c \in Codes} :
                /\ ReserveUniquePayableAmount(m, base + CustomerFee(f, mode), i, pay)
                /\ invoice' = [invoice EXCEPT ![i] =
                                 PendingInvoice(m, f, pay, "payment", None, hook)]
          /\ acct' = Flush(x)
          /\ ledger' = ledger \o x.log
    /\ Leave(p)
    /\ UNCHANGED <<verificationFee, overdue, sms, events>>

CommitTopup(p, i, base) ==
    /\ sess[p].at = "commit" /\ sess[p].kind = "topup"
    /\ CreateWalletTopupInvoice(sess[p].scope, i, base)
    /\ Leave(p)

\* No free code, or no free id in this finite pool: the call raises.
GiveUpCreate(p) ==
    /\ sess[p].at = "commit" /\ sess[p].kind \in {"create", "topup"}
    /\ Rollback(p)

CommitAdjust(p) ==
    LET x == sess[p] IN
    /\ x.at = "commit" /\ x.kind = "adjust"
    /\ Free(p, x.scope)
    /\ IF Len(ledger) < MaxLedger
         THEN /\ acct' = Flush(x)
              /\ ledger' = ledger \o x.log
              /\ Leave(p)
              /\ UNCHANGED <<verificationFee, invoice, overdue, reservations, sms, events>>
         ELSE Rollback(p)

-----------------------------------------------------------------------------
(* Deadlock *)

\* The row whose lock the session's next step needs.
Wanted(p) ==
    LET x == sess[p] IN
    CASE x.at = "message" -> {x.s}
      [] x.at \in {"invoice", "update"} -> {Head(x.todo)}
      [] x.at = "merchant" /\ x.todo = <<>> -> {x.scope}
      [] x.at = "merchant" /\ x.todo # <<>> -> {invoice[Head(x.todo)].merchant}
      [] x.at = "target" -> {invoice[Head(x.todo)].target}
      [] x.at = "commit" /\ x.kind = "approve" -> {x.s}
      [] x.at = "commit" /\ x.kind = "adjust" -> {x.scope}
      [] OTHER -> {}

WaitsFor(p, q) == q # p /\ \E r \in Wanted(p) : held[r] = q

\* A session waits for one lock, so the waiting sessions form a cycle exactly
\* when each waits for, and is waited for by, a member of the set.
Cycle(C) ==
    \A p \in C : (\E q \in C : WaitsFor(p, q)) /\ (\E q \in C : WaitsFor(q, p))

InDeadlock_Undetected(p) == FALSE
InDeadlock(p) == \E C \in SUBSET Sessions : p \in C /\ Cycle(C)

\* PostgreSQL aborts one transaction of a cycle.
AbortVictim(p) == InDeadlock(p) /\ Rollback(p)

-----------------------------------------------------------------------------
TxInit ==
    /\ acct = [m \in Merchants |-> [wallet |-> IF m = Owner THEN Funds ELSE 0, reserved |-> 0]]
    /\ verificationFee \in [Merchants -> {0, MaxFee}]
    /\ invoice = [i \in Invoices |-> NoInvoice]
    /\ overdue = {}
    /\ reservations = {}
    /\ sms = [s \in Sms |-> NoSms]
    /\ ledger = IF Funds = 0 THEN <<>>
                ELSE <<[merchant |-> Owner, kind |-> "credit", invoice |-> None, amount |-> Funds,
                        before |-> [wallet |-> 0, reserved |-> 0],
                        after |-> acct[Owner], reverses |-> 0]>>
    /\ events = {}
    /\ sess = [p \in Sessions |-> Idle]
    /\ held = [r \in Rows |-> None]

Arrive(p) ==
    \/ \E s \in Sms, scope \in Merchants \cup {None}, a \in SmsAmounts : BeginWebhook(p, s, scope, a)
    \/ \E s \in Sms, i \in Invoices, joined \in BOOLEAN : BeginApprove(p, s, i, joined)
    \/ \E i \in Invoices, joined \in BOOLEAN : BeginCancel(p, i, joined) \/ BeginExpire(p, i, joined)
    \/ BeginPass(p)
    \/ \E kind \in {"create", "topup"}, m \in Merchants : BeginCreate(p, kind, m)
    \/ \E m \in Merchants, a \in AdjustAmounts : BeginAdjust(p, m, a) \/ BeginAdjust(p, m, -a)

Advance(p) ==
    \/ FileMessage(p)
    \/ LockInvoice(p)
    \/ LockMerchantToPay(p)
    \/ LockTopupTarget(p)
    \/ LockMerchantToRelease(p)
    \/ UpdateReleased(p)
    \/ LockMerchantToCreate(p)
    \/ CommitPayment(p)
    \/ CommitRelease(p)
    \/ \E i \in Invoices, b \in BaseAmounts, mode \in FeeModes, hook \in BOOLEAN :
          CommitCreate(p, i, b, mode, hook)
    \/ \E i \in Invoices, b \in BaseAmounts : CommitTopup(p, i, b)
    \/ GiveUpCreate(p)
    \/ CommitAdjust(p)

ClockTicks == (\E i \in Invoices : PassDeadline(i)) /\ UNCHANGED <<sess, held>>

TxNext ==
    \/ \E p \in Sessions : Arrive(p) \/ Advance(p) \/ AbortVictim(p)
    \/ ClockTicks

TxSpec == TxInit /\ [][TxNext]_txVars

\* The event loop serves every session, PostgreSQL queues the waiters of a row
\* in order and resolves deadlocks after deadlock_timeout.
TxFairSpec ==
    TxSpec /\ \A p \in Sessions : SF_txVars(Advance(p)) /\ WF_txVars(AbortVictim(p))

-----------------------------------------------------------------------------
(* Properties *)

TxTypeOK ==
    /\ TypeOK
    /\ sess \in [Sessions -> [at : {"idle", "message", "invoice", "merchant", "target", "update", "commit"},
                              kind : Kinds \cup {None}, todo : Seq(Invoices), done : SUBSET Invoices,
                              s : Sms \cup {None}, scope : Merchants \cup {None}, a : Nat,
                              fresh : BOOLEAN, base : [Merchants -> Balance \cup {None}],
                              bal : [Merchants -> Balance \cup {None}], log : Seq(LedgerRow)]]
    /\ held \in [Rows -> Sessions \cup {None}]
    /\ \A r \in Rows : held[r] # None => InTx(held[r])

\* Where the loaded status is stale, the unique keys of the ledger and of the
\* callback events are the second line: an invoice that bears a fee, asks for
\* a callback or is a top-up is never matched by two messages.
PaidByOneMessage ==
    \A i \in Invoices :
        (invoice[i].fee > 0 \/ Hooked(invoice[i]) \/ invoice[i].purpose = "wallet_topup")
        => Cardinality({s \in Sms : sms[s].status = "matched" /\ sms[s].invoice = i}) <= 1

\* A paid invoice has its callback event, and an event belongs to an invoice
\* some message paid, even if a stale cancellation has overwritten its status.
QueuedIfPaid ==
    \A i \in Invoices :
        /\ invoice[i].status = "paid" /\ Hooked(invoice[i]) => i \in events
        /\ i \in events => invoice[i].sms # None

\* Every transaction ends: waiting for locks in different orders (invoice
\* then merchant to pay, merchant then invoice to release) resolves.
SessionsFinish == \A p \in Sessions : InTx(p) ~> ~InTx(p)

\* What comments, messages and pages of the repository promise of concurrent
\* requests: two messages never pay one invoice,
OneMessagePerInvoice ==
    \A i \in Invoices :
        Cardinality({s \in Sms : sms[s].status = "matched" /\ sms[s].invoice = i}) <= 1

\* a paid invoice is not cancelled, nor expired,
ReleasedUnpaid ==
    \A i \in Invoices :
        invoice[i].status \in {"cancelled", "expired"} => invoice[i].sms = None

\* and the fee of every open invoice is held (ReservedIsHeld of Settlement).

\* One session at a time implements Settlement. A message whose candidate was
\* read before its deadline pays it at the moment of that reading: until the
\* commit the deadline has not passed for the serial view.
SerialOverdue ==
    {i \in overdue : \A p \in Sessions : ~(sess[p].kind = "webhook" /\ i \in ToSet(sess[p].todo))}

Serial == INSTANCE Settlement WITH overdue <- SerialOverdue
ImplementsSettlement == Serial!Spec
=============================================================================
