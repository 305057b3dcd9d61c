----------------------------- MODULE Settlement -----------------------------
(***************************************************************************)
(* The money core of Bluepay: invoices, the merchants' prepaid wallets,    *)
(* the fee holds, the exact-amount reservations, bank messages and the     *)
(* append-only ledger.                                                     *)
(*                                                                         *)
(* Every action is one committed database transaction run in isolation:    *)
(* a call that raises or returns early rolls back and is a stutter (an     *)
(* inactive merchant and an exhausted daily card limit are such calls).    *)
(* SettlementTx opens the transactions up and interleaves them.            *)
(*                                                                         *)
(* Operators with an underscore in their name are deliberate slips; no     *)
(* other definition uses them.                                             *)
(*                                                                         *)
(* A merchant has one destination card, so "card" and "merchant" coincide. *)
(* The row ids of invoices and messages are taken from finite pools.       *)
(* Deadlines are kept as the set of open invoices past their expires_at.   *)
(***************************************************************************)
EXTENDS Integers, FiniteSets, Sequences

CONSTANTS
    Merchants,      \* rows of table merchants
    Owner,          \* the first active administrator, who collects top-ups
    Invoices,       \* ids of table invoices
    Sms,            \* ids of table sms_transactions
    None,           \* SQL NULL
    MaxFee,         \* bound: verification_fee_rial is in 0..MaxFee
    BaseAmounts,    \* base_amount_rial values merchants ask for
    Codes,          \* matching codes added to a nominal amount (1..999 toman)
    SmsAmounts,     \* amounts bank messages carry
    AdjustAmounts,  \* amounts administrators credit or debit
    MaxLedger       \* bound: administrators post only while Len(ledger) < MaxLedger

ASSUME ConstantsAssumption ==
    /\ Owner \in Merchants
    /\ None \notin Merchants \cup Invoices \cup Sms
    /\ IsFiniteSet(Invoices)
    /\ MaxFee \in Nat
    /\ BaseAmounts \subseteq Nat
    /\ Codes \subseteq Nat \ {0}
    /\ SmsAmounts \subseteq Nat
    /\ AdjustAmounts \subseteq Nat \ {0}
    /\ MaxLedger \in Nat

VARIABLES
    acct,           \* [Merchants -> Balance]: wallet_balance_rial, reserved_balance_rial
    verificationFee,\* [Merchants -> 0..MaxFee]
    invoice,        \* [Invoices -> InvoiceRow]
    overdue,        \* the pending invoices whose expires_at has passed
    reservations,   \* table amount_reservations
    sms,            \* [Sms -> SmsRow]
    ledger,         \* table wallet_ledger, in id order
    events          \* invoices with a callback_events row live:invoice.paid:<id>

vars == <<acct, verificationFee, invoice, overdue, reservations, sms, ledger, events>>

-----------------------------------------------------------------------------
(* Rows *)

Balance == [wallet : Int, reserved : Int]

\* No code ever assigns "partially_paid", which some guards also accept.
InvoiceStatus == {"absent", "pending", "paid", "cancelled", "expired"}
Closed == {"paid", "cancelled", "expired"}

InvoiceRow ==
    [status : InvoiceStatus, merchant : Merchants \cup {None}, fee : 0..MaxFee,
     payable : Nat, purpose : {"payment", "wallet_topup"},
     target : Merchants \cup {None}, hook : BOOLEAN, sms : Sms \cup {None}]

NoInvoice ==
    [status |-> "absent", merchant |-> None, fee |-> 0, payable |-> 0,
     purpose |-> "payment", target |-> None, hook |-> FALSE, sms |-> None]

PendingInvoice(m, f, p, purpose, target, hook) ==
    [status |-> "pending", merchant |-> m, fee |-> f, payable |-> p,
     purpose |-> purpose, target |-> target, hook |-> hook, sms |-> None]

SmsRow ==
    [status : {"absent", "unmatched", "review", "ignored", "rejected", "matched"},
     merchant : Merchants \cup {None}, amount : Nat, invoice : Invoices \cup {None}]

NoSms == [status |-> "absent", merchant |-> None, amount |-> 0, invoice |-> None]

ReservationRow == [card : Merchants, payable : Nat, token : Invoices]

\* "credit" stands for deposit, admin_credit; "debit" for admin_debit.
EntryKind == {"fee_reserved", "fee_released", "verification_fee",
              "wallet_topup", "credit", "debit", "reversal"}

LedgerRow ==
    [merchant : Merchants, kind : EntryKind, invoice : Invoices \cup {None},
     amount : Int, before : Balance, after : Balance, reverses : Nat]

-----------------------------------------------------------------------------
(* Arithmetic on one merchant row *)

Available(b) == b.wallet - b.reserved
NotNegative(n) == IF n < 0 THEN 0 ELSE n

HoldFee(b, f)    == [b EXCEPT !.reserved = @ + f]
ReleaseFee_Forgotten(b, f) == b
ReleaseFee(b, f) == [b EXCEPT !.reserved = NotNegative(@ - f)]
ChargeFee(b, f)  == [wallet |-> b.wallet - f, reserved |-> NotNegative(b.reserved - f)]
AddToWallet(b, a) == [b EXCEPT !.wallet = @ + a]

\* The share of the fee the payer is asked for.
CustomerFee(f, mode) ==
    CASE mode = "customer" -> f
      [] mode = "split"    -> f \div 2
      [] mode = "merchant" -> 0

FeeModes == {"customer", "split", "merchant"}

Book_BeforeTooLate(m, b, kind, i, a, n) ==
    /\ acct' = [acct EXCEPT ![m] = b]
    /\ ledger' = Append(ledger,
          [merchant |-> m, kind |-> kind, invoice |-> i, amount |-> a,
           before |-> b, after |-> b, reverses |-> n])

\* Post balance b to merchant m, and the ledger row that explains it.
Book(m, b, kind, i, a, n) ==
    /\ acct' = [acct EXCEPT ![m] = b]
    /\ ledger' = Append(ledger,
          [merchant |-> m, kind |-> kind, invoice |-> i, amount |-> a,
           before |-> acct[m], after |-> b, reverses |-> n])

-----------------------------------------------------------------------------
(* Derived state *)

Pending(i) == invoice[i].status = "pending"
Open(m) == {i \in Invoices : Pending(i) /\ invoice[i].merchant = m}

\* The fees held for m's open invoices, counted rial by rial: u stands for
\* rial number u[2] of the fee of invoice u[1].
HeldRials(m) == {u \in Invoices \X (1..MaxFee) :
                    u[1] \in Open(m) /\ u[2] <= invoice[u[1]].fee}
HeldFees(m) == Cardinality(HeldRials(m))

LiveReservations_PurgesAll == {}
LiveReservations == {r \in reservations : r.token \notin overdue}
Payables(card) == {r.payable : r \in {x \in LiveReservations : x.card = card}}

Init ==
    /\ acct = [m \in Merchants |-> [wallet |-> 0, reserved |-> 0]]
    /\ verificationFee \in [Merchants -> {0, MaxFee}]
    /\ invoice = [i \in Invoices |-> NoInvoice]
    /\ overdue = {}
    /\ reservations = {}
    /\ sms = [s \in Sms |-> NoSms]
    /\ ledger = <<>>
    /\ events = {}

-----------------------------------------------------------------------------
(* Creation *)

\* Purge expired reservations, then take one free code for this nominal
\* amount on this card; with no free code the call raises (no step).
ReserveUniquePayableAmount(card, nominal, token, payable) ==
    /\ payable \in {nominal + c : c \in Codes} \ Payables(card)
    /\ reservations' = LiveReservations
                         \cup {[card |-> card, payable |-> payable, token |-> token]}

CreateInvoice(m, i, base, mode, hook) ==
    LET f == verificationFee[m] IN
    /\ invoice[i].status = "absent"
    /\ f > 0 => Available(acct[m]) >= f
    /\ \E p \in {base + CustomerFee(f, mode) + c : c \in Codes} :
          /\ ReserveUniquePayableAmount(m, base + CustomerFee(f, mode), i, p)
          /\ invoice' = [invoice EXCEPT ![i] = PendingInvoice(m, f, p, "payment", None, hook)]
    /\ IF f > 0 THEN Book(m, HoldFee(acct[m], f), "fee_reserved", i, -f, 0)
                ELSE UNCHANGED <<acct, ledger>>
    /\ UNCHANGED <<verificationFee, overdue, sms, events>>

CreateWalletTopupInvoice(t, i, base) ==
    /\ invoice[i].status = "absent"
    /\ \E p \in {base + c : c \in Codes} :
          /\ ReserveUniquePayableAmount(Owner, base, i, p)
          /\ invoice' = [invoice EXCEPT ![i] = PendingInvoice(Owner, 0, p, "wallet_topup", t, FALSE)]
    /\ UNCHANGED <<acct, verificationFee, overdue, sms, ledger, events>>

\* The clock passes expires_at.
PassDeadline(i) ==
    /\ Pending(i) /\ i \notin overdue
    /\ overdue' = overdue \cup {i}
    /\ UNCHANGED <<acct, verificationFee, invoice, reservations, sms, ledger, events>>

-----------------------------------------------------------------------------
(* The two ways an invoice closes *)

Hooked_Always(row) == TRUE
\* The invoice asks for a callback event when it is paid.
Hooked(row) == row.purpose = "payment" /\ row.hook

\* What confirm_invoice_paid demands of the invoice row it locked.
Payable(row) == row.status = "pending" /\ row.sms = None

\* Paid by message s: the payment's fee leaves the wallet together with its
\* hold; a top-up (always fee-free) credits the whole amount to its target.
ConfirmInvoicePaid(i, s) ==
    LET row == invoice[i] IN
    /\ Payable(row)
    /\ invoice' = [invoice EXCEPT ![i].status = "paid", ![i].sms = s]
    /\ overdue' = overdue \ {i}
    /\ reservations' = {r \in reservations : r.token # i}
    /\ events' = IF Hooked(row) THEN events \cup {i} ELSE events
    /\ \/ /\ row.purpose = "payment" /\ row.fee > 0
          /\ Book(row.merchant, ChargeFee(acct[row.merchant], row.fee),
                  "verification_fee", i, -row.fee, 0)
       \/ /\ row.purpose = "payment" /\ row.fee = 0
          /\ UNCHANGED <<acct, ledger>>
       \/ /\ row.purpose = "wallet_topup"
          /\ Book(row.target, AddToWallet(acct[row.target], row.payable),
                  "wallet_topup", i, row.payable, 0)

Releasable_Exists(row) == row.status # "absent"
Releasable(row) == row.status = "pending"

\* Cancelled or expired: the hold is given back.
ReleaseInvoiceReservation(i, status) ==
    LET row == invoice[i] IN
    /\ Releasable(row)
    /\ invoice' = [invoice EXCEPT ![i].status = status]
    /\ overdue' = overdue \ {i}
    /\ reservations' = {r \in reservations : r.token # i}
    /\ IF row.fee > 0
         THEN Book(row.merchant, ReleaseFee(acct[row.merchant], row.fee),
                   "fee_released", i, row.fee, 0)
         ELSE UNCHANGED <<acct, ledger>>
    /\ UNCHANGED <<verificationFee, sms, events>>

CancelInvoice_Misspelt(i) == ReleaseInvoiceReservation(i, "canceled")
CancelInvoice(i) == ReleaseInvoiceReservation(i, "cancelled")

ExpireInvoice_SkipsTopups(i) ==
    /\ i \in overdue /\ invoice[i].purpose = "payment"
    /\ ReleaseInvoiceReservation(i, "expired")

\* One invoice of an expiration_worker pass, or the payment page and the
\* status endpoint meeting a pending invoice past its deadline.
ExpireInvoice(i) == i \in overdue /\ ReleaseInvoiceReservation(i, "expired")

-----------------------------------------------------------------------------
(* Bank messages *)

Unmatched_AnyFiled(s) == sms[s].status # "absent"
\* A stored message that has not paid an invoice yet.
Unmatched(s) == sms[s].status \notin {"absent", "matched"}

\* A message is filed under its fingerprint, which covers the amount and the
\* scope: the merchant whose webhook received it, or None for the system-wide
\* webhook. A redelivery finds its row and, unless that row is matched,
\* processes it again.
Delivered(s, scope, a) ==
    \/ sms[s].status = "absent"
    \/ Unmatched(s) /\ sms[s].merchant = scope /\ sms[s].amount = a

Candidates(card, a) ==
    {i \in Invoices : Pending(i) /\ invoice[i].payable = a
                        /\ i \notin overdue /\ invoice[i].merchant = card}

FileSms(s, scope, a, status, i) ==
    sms' = [sms EXCEPT ![s] =
              [status |-> status, merchant |-> scope, amount |-> a, invoice |-> i]]

\* Among the cards the message's bank, last digits and source leave, exactly
\* one invoice waits for this amount: it is paid.
IngestMatching(s, scope, a) ==
    \E card \in Merchants, i \in Invoices :
        /\ Delivered(s, scope, a)
        /\ scope \in {None, card}
        /\ Candidates(card, a) = {i}
        /\ ConfirmInvoicePaid(i, s)
        /\ FileSms(s, scope, a, "matched", i)
        /\ UNCHANGED verificationFee

\* No invoice, several invoices, another bank or card, or a message the parser
\* does not trust (not a credit, no amount, low confidence).
IngestUnmatched(s, scope, a) ==
    /\ Delivered(s, scope, a)
    /\ \E status \in {"unmatched", "review", "ignored"} : FileSms(s, scope, a, status, None)
    /\ UNCHANGED <<acct, verificationFee, invoice, overdue, reservations, ledger, events>>

\* An administrator ties a message to an invoice by hand; nothing here looks
\* at the deadline or at the merchant the message was sent to.
AdminApproveSms(s, i) ==
    /\ Unmatched(s)
    /\ Pending(i)
    /\ sms[s].amount = invoice[i].payable
    /\ ConfirmInvoicePaid(i, s)
    /\ FileSms(s, sms[s].merchant, sms[s].amount, "matched", i)
    /\ UNCHANGED verificationFee

AdminRejectSms(s) ==
    /\ Unmatched(s)
    /\ sms' = [sms EXCEPT ![s].status = "rejected"]
    /\ UNCHANGED <<acct, verificationFee, invoice, overdue, reservations, ledger, events>>

-----------------------------------------------------------------------------
(* Administration of wallets *)

AdminSetFee(m, f) ==
    /\ verificationFee' = [verificationFee EXCEPT ![m] = f]
    /\ UNCHANGED <<acct, invoice, overdue, reservations, sms, ledger, events>>

SparesHolds_OnlyPositive(b, a) == b.wallet + a >= 0
\* Taking -a from the wallet leaves every held fee covered.
SparesHolds(b, a) == b.wallet + a >= b.reserved

\* /credit and the wallet panel, which also debits; the panel refuses to cut
\* into held fees.
AdminWalletAdjust(m, a) ==
    /\ Len(ledger) < MaxLedger
    /\ a < 0 => SparesHolds(acct[m], a)
    /\ Book(m, AddToWallet(acct[m], a), IF a > 0 THEN "credit" ELSE "debit", None, a, 0)
    /\ UNCHANGED <<verificationFee, invoice, overdue, reservations, sms, events>>

AlreadyReversed(n) == \E k \in 1..Len(ledger) : ledger[k].reverses = n

\* A ledger row is corrected by a new row of the opposite amount, once.
AdminReverseLedger(n) ==
    LET row == ledger[n]
        a   == -row.amount
    IN
    /\ Len(ledger) < MaxLedger
    /\ ~AlreadyReversed(n)
    /\ a < 0 => SparesHolds(acct[row.merchant], a)
    /\ Book(row.merchant, AddToWallet(acct[row.merchant], a), "reversal", row.invoice, a, n)
    /\ UNCHANGED <<verificationFee, invoice, overdue, reservations, sms, events>>

-----------------------------------------------------------------------------
Next ==
    \/ \E m \in Merchants, i \in Invoices, b \in BaseAmounts, mode \in FeeModes,
          hook \in BOOLEAN : CreateInvoice(m, i, b, mode, hook)
    \/ \E t \in Merchants, i \in Invoices, b \in BaseAmounts :
          CreateWalletTopupInvoice(t, i, b)
    \/ \E i \in Invoices : PassDeadline(i) \/ CancelInvoice(i) \/ ExpireInvoice(i)
    \/ \E s \in Sms, scope \in Merchants \cup {None}, a \in SmsAmounts :
          IngestMatching(s, scope, a) \/ IngestUnmatched(s, scope, a)
    \/ \E s \in Sms, i \in Invoices : AdminApproveSms(s, i)
    \/ \E s \in Sms : AdminRejectSms(s)
    \/ \E m \in Merchants, f \in 0..MaxFee : AdminSetFee(m, f)
    \/ \E m \in Merchants, a \in AdjustAmounts :
          AdminWalletAdjust(m, a) \/ AdminWalletAdjust(m, -a)
    \/ \E n \in 1..Len(ledger) : AdminReverseLedger(n)

Spec == Init /\ [][Next]_vars

\* The expiration worker runs every 30 s for the life of the process and
\* survives its own exceptions.
FairSpec == Spec /\ \A i \in Invoices : WF_vars(ExpireInvoice(i))

-----------------------------------------------------------------------------
(* Properties *)

TypeOK ==
    /\ acct \in [Merchants -> Balance]
    /\ verificationFee \in [Merchants -> 0..MaxFee]
    /\ invoice \in [Invoices -> InvoiceRow]
    /\ overdue \subseteq Invoices
    /\ reservations \subseteq ReservationRow
    /\ sms \in [Sms -> SmsRow]
    /\ ledger \in Seq(LedgerRow)
    /\ events \subseteq Invoices

\* reserved_balance_rial is exactly the sum of the fees of the merchant's
\* open invoices: create, confirm, cancel and expire agree on every hold, and
\* the max(0, ...) clamps of confirm and release never hide a difference.
ReservedIsHeld == \A m \in Merchants : acct[m].reserved = HeldFees(m)

\* The wallet always covers what is held, through charges, debits and ledger
\* reversals in any order: a fee promised at creation can be collected.
Solvent == \A m \in Merchants : acct[m].wallet >= acct[m].reserved

\* The ledger explains the wallet: per merchant the rows chain, each starting
\* from the balances the previous one left, and the last one shows the
\* balances in the merchants table.
Precedes(k, n) ==
    /\ k < n
    /\ ledger[k].merchant = ledger[n].merchant
    /\ \A j \in (k + 1)..(n - 1) : ledger[j].merchant # ledger[n].merchant

LedgerExplainsWallet ==
    /\ \A k, n \in 1..Len(ledger) : Precedes(k, n) => ledger[n].before = ledger[k].after
    /\ \A n \in 1..Len(ledger) :
          (\A j \in (n + 1)..Len(ledger) : ledger[j].merchant # ledger[n].merchant)
            => acct[ledger[n].merchant] = ledger[n].after

\* Each fee is booked as held once, and then either charged once (paid) or
\* released once (cancelled, expired); each top-up is credited once, if paid.
RowsOf(i, kind) ==
    Cardinality({n \in 1..Len(ledger) : ledger[n].invoice = i /\ ledger[n].kind = kind})
OneIf(b) == IF b THEN 1 ELSE 0

LedgerFollowsInvoices ==
    \A i \in Invoices :
        LET row == invoice[i] IN
        /\ RowsOf(i, "fee_reserved") = OneIf(row.fee > 0)
        /\ RowsOf(i, "verification_fee") = OneIf(row.fee > 0 /\ row.status = "paid")
        /\ RowsOf(i, "fee_released") = OneIf(row.fee > 0 /\ row.status \in {"cancelled", "expired"})
        /\ RowsOf(i, "wallet_topup") = OneIf(row.purpose = "wallet_topup" /\ row.status = "paid")

\* A bank message and the invoice it paid point at each other, for the same
\* amount: no message pays two invoices, no invoice is paid twice, and a
\* message that reprocessing, approval or rejection touches keeps its match.
MatchIsMutual ==
    \A i \in Invoices, s \in Sms :
        (sms[s].status = "matched" /\ sms[s].invoice = i)
            <=> (invoice[i].status = "paid" /\ invoice[i].sms = s)
AmountsAgree ==
    \A i \in Invoices :
        invoice[i].status = "paid" => sms[invoice[i].sms].amount = invoice[i].payable
OneMessagePerPayment == MatchIsMutual /\ AmountsAgree

\* A bank message names at most one invoice: two payable invoices of one card
\* never ask for the same amount, although expired reservations are purged by
\* whoever reserves next and an expired invoice may stay "pending" for long.
NoAmbiguousAmount ==
    \A i, j \in Invoices :
        (i # j /\ Pending(i) /\ Pending(j) /\ {i, j} \cap overdue = {}
           /\ invoice[i].merchant = invoice[j].merchant)
        => invoice[i].payable # invoice[j].payable

\* An invoice is committed as paid together with the callback event its
\* merchant asked for, and no other invoice has one.
PaidIffQueued ==
    events = {i \in Invoices : invoice[i].status = "paid"
                               /\ invoice[i].purpose = "payment" /\ invoice[i].hook}

\* A closed invoice never changes again, whatever arrives late.
ClosedIsFinal ==
    [][\A i \in Invoices :
          invoice[i].status \in Closed => invoice'[i] = invoice[i]]_vars

\* The worker clears every invoice that is past its deadline.
OverdueCloses ==
    \A i \in Invoices : (i \in overdue /\ Pending(i)) ~> (invoice[i].status \in Closed)

=============================================================================
