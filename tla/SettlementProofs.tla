-------------------------- MODULE SettlementProofs --------------------------
(***************************************************************************)
(* Settlement, for every set of merchants, invoices and messages: types,   *)
(* held fees and solvency; then messages and what they pay, events and     *)
(* exact amounts; then the append-only ledger.                             *)
(***************************************************************************)
EXTENDS Settlement, FiniteSetTheorems, TLAPS

\* An invoice row that exists names its merchant; a top-up names its target
\* and bears no fee.
RowsComplete ==
    \A i \in Invoices :
        /\ invoice[i].status # "absent" => invoice[i].merchant \in Merchants
        /\ invoice[i].purpose = "wallet_topup" =>
              invoice[i].target \in Merchants /\ invoice[i].fee = 0

TypeInv == TypeOK /\ RowsComplete

-----------------------------------------------------------------------------
(* Arithmetic on one merchant row stays in its type. *)

LEMMA BalanceOps ==
    ASSUME NEW b \in Balance, NEW f \in Int
    PROVE  /\ HoldFee(b, f) \in Balance
           /\ ReleaseFee(b, f) \in Balance
           /\ ChargeFee(b, f) \in Balance
           /\ AddToWallet(b, f) \in Balance
BY DEF Balance, HoldFee, ReleaseFee, ChargeFee, AddToWallet, NotNegative

\* The payer's share of a fee is an amount.
LEMMA CustomerFeeType ==
    ASSUME NEW f \in Nat, NEW mode \in FeeModes
    PROVE  CustomerFee(f, mode) \in Nat
BY DEF CustomerFee, FeeModes

\* Booking keeps the two tables it writes well typed.
LEMMA BookType ==
    ASSUME TypeOK,
           NEW m \in Merchants, NEW b \in Balance, NEW kind \in EntryKind,
           NEW i \in Invoices \cup {None}, NEW a \in Int, NEW n \in Nat,
           Book(m, b, kind, i, a, n)
    PROVE  acct' \in [Merchants -> Balance] /\ ledger' \in Seq(LedgerRow)
<1> DEFINE row == [merchant |-> m, kind |-> kind, invoice |-> i, amount |-> a,
                   before |-> acct[m], after |-> b, reverses |-> n]
<1>1. row \in LedgerRow
  BY DEF TypeOK, LedgerRow
<1>2. ledger' = Append(ledger, row)
  BY DEF Book
<1> HIDE DEF row
<1>3. ledger' \in Seq(LedgerRow)
  BY <1>1, <1>2 DEF TypeOK
<1>4. acct' \in [Merchants -> Balance]
  BY DEF TypeOK, Book
<1> QED BY <1>3, <1>4

-----------------------------------------------------------------------------
(* Type correctness. Each action has a lemma, so that the invariants proved  *)
(* below can reuse the case split.                                           *)

LEMMA InitType == ConstantsAssumption /\ Init => TypeInv
<1> SUFFICES ASSUME ConstantsAssumption, Init PROVE TypeInv
  OBVIOUS
<1>1. NoInvoice \in InvoiceRow /\ NoSms \in SmsRow
  BY DEF NoInvoice, InvoiceRow, InvoiceStatus, NoSms, SmsRow, ConstantsAssumption
<1>2. TypeOK
  <2>1. acct \in [Merchants -> Balance]
    BY DEF Init, Balance
  <2>2. ledger \in Seq(LedgerRow)
    BY DEF Init
  <2> QED BY <1>1, <2>1, <2>2 DEF Init, TypeOK, ConstantsAssumption
<1>3. RowsComplete
  BY DEF Init, RowsComplete, NoInvoice
<1> QED BY <1>2, <1>3 DEF TypeInv

LEMMA CreateInvoiceType ==
    ASSUME ConstantsAssumption, TypeInv,
           NEW m \in Merchants, NEW i \in Invoices, NEW base \in BaseAmounts,
           NEW mode \in FeeModes, NEW hook \in BOOLEAN,
           CreateInvoice(m, i, base, mode, hook)
    PROVE  TypeInv'
<1> DEFINE f == verificationFee[m]
<1>1. f \in 0..MaxFee /\ f \in Nat
  BY DEF TypeInv, TypeOK, ConstantsAssumption
<1> HIDE DEF f
<1>2. PICK p \in {base + CustomerFee(f, mode) + c : c \in Codes} :
          /\ ReserveUniquePayableAmount(m, base + CustomerFee(f, mode), i, p)
          /\ invoice' = [invoice EXCEPT ![i] = PendingInvoice(m, f, p, "payment", None, hook)]
  BY DEF CreateInvoice, f
<1>3. p \in Nat
  <2>1. CustomerFee(f, mode) \in Nat
    BY <1>1, CustomerFeeType
  <2> DEFINE share == CustomerFee(f, mode)
  <2>2. PICK c \in Codes : p = base + share + c
    OBVIOUS
  <2>3. base \in Nat /\ c \in Nat
    BY DEF ConstantsAssumption
  <2>4. share \in Nat
    BY <2>1
  <2> HIDE DEF share
  <2> QED BY <2>2, <2>3, <2>4
<1> DEFINE row == PendingInvoice(m, f, p, "payment", None, hook)
<1>4. row \in InvoiceRow /\ row.merchant \in Merchants /\ row.purpose = "payment"
  BY <1>1, <1>3 DEF PendingInvoice, InvoiceRow, InvoiceStatus
<1>5. invoice' = [invoice EXCEPT ![i] = row]
  BY <1>2
<1> HIDE DEF row
<1>6. invoice' \in [Invoices -> InvoiceRow] /\ RowsComplete'
  BY <1>4, <1>5 DEF TypeInv, TypeOK, RowsComplete
<1>7. reservations' \subseteq ReservationRow
  BY <1>2, <1>3 DEF ReserveUniquePayableAmount, LiveReservations, ReservationRow,
                    TypeInv, TypeOK
<1>8. acct' \in [Merchants -> Balance] /\ ledger' \in Seq(LedgerRow)
  <2>1. CASE f > 0
    <3>1. Book(m, HoldFee(acct[m], f), "fee_reserved", i, -f, 0)
      BY <2>1 DEF CreateInvoice, f
    <3>2. HoldFee(acct[m], f) \in Balance
      BY <1>1, BalanceOps DEF TypeInv, TypeOK
    <3> QED BY <1>1, <3>1, <3>2, BookType DEF TypeInv, EntryKind
  <2>2. CASE ~(f > 0)
    BY <2>2 DEF CreateInvoice, f, TypeInv, TypeOK
  <2> QED BY <2>1, <2>2
<1> QED BY <1>6, <1>7, <1>8 DEF CreateInvoice, TypeInv, TypeOK

LEMMA CreateTopupType ==
    ASSUME ConstantsAssumption, TypeInv,
           NEW t \in Merchants, NEW i \in Invoices, NEW base \in BaseAmounts,
           CreateWalletTopupInvoice(t, i, base)
    PROVE  TypeInv'
<1>1. PICK p \in {base + c : c \in Codes} :
          /\ ReserveUniquePayableAmount(Owner, base, i, p)
          /\ invoice' = [invoice EXCEPT ![i] = PendingInvoice(Owner, 0, p, "wallet_topup", t, FALSE)]
  BY DEF CreateWalletTopupInvoice
<1>2. p \in Nat
  <2>1. PICK c \in Codes : p = base + c
    OBVIOUS
  <2>2. base \in Nat /\ c \in Nat
    BY DEF ConstantsAssumption
  <2> QED BY <2>1, <2>2
<1> DEFINE row == PendingInvoice(Owner, 0, p, "wallet_topup", t, FALSE)
<1>3. /\ row \in InvoiceRow
      /\ row.merchant \in Merchants /\ row.target \in Merchants /\ row.fee = 0
  <2>1. 0 \in 0..MaxFee /\ Owner \in Merchants
    BY DEF ConstantsAssumption
  <2> QED BY <1>2, <2>1 DEF PendingInvoice, InvoiceRow, InvoiceStatus
<1>4. invoice' = [invoice EXCEPT ![i] = row]
  BY <1>1
<1> HIDE DEF row
<1>5. invoice' \in [Invoices -> InvoiceRow] /\ RowsComplete'
  BY <1>3, <1>4 DEF TypeInv, TypeOK, RowsComplete
<1>6. reservations' \subseteq ReservationRow
  BY <1>1, <1>2 DEF ReserveUniquePayableAmount, LiveReservations, ReservationRow,
                    TypeInv, TypeOK, ConstantsAssumption
<1> QED BY <1>5, <1>6 DEF CreateWalletTopupInvoice, TypeInv, TypeOK

\* What paying an invoice does to everything but the message itself.
LEMMA ConfirmType ==
    ASSUME ConstantsAssumption, TypeInv,
           NEW i \in Invoices, NEW s \in Sms, ConfirmInvoicePaid(i, s)
    PROVE  /\ acct' \in [Merchants -> Balance]
           /\ ledger' \in Seq(LedgerRow)
           /\ invoice' \in [Invoices -> InvoiceRow]
           /\ RowsComplete'
           /\ reservations' \subseteq ReservationRow
           /\ events' \subseteq Invoices
           /\ overdue' \subseteq Invoices
<1> DEFINE row == invoice[i]
<1>1. /\ row \in InvoiceRow /\ row.status = "pending" /\ row.merchant \in Merchants
      /\ row.purpose = "wallet_topup" => row.target \in Merchants
  BY DEF ConfirmInvoicePaid, Payable, TypeInv, TypeOK, RowsComplete
<1>2. /\ row.fee \in Nat /\ row.payable \in Nat /\ row.purpose \in {"payment", "wallet_topup"}
  BY <1>1 DEF InvoiceRow, ConstantsAssumption
<1>3. invoice' \in [Invoices -> InvoiceRow] /\ RowsComplete'
  BY <1>1 DEF ConfirmInvoicePaid, TypeInv, TypeOK, RowsComplete, InvoiceRow, InvoiceStatus
<1>4. /\ reservations' \subseteq ReservationRow
      /\ events' \subseteq Invoices /\ overdue' \subseteq Invoices
  BY DEF ConfirmInvoicePaid, TypeInv, TypeOK
<1>5. acct' \in [Merchants -> Balance] /\ ledger' \in Seq(LedgerRow)
  <2>1. CASE /\ row.purpose = "payment" /\ row.fee > 0
             /\ Book(row.merchant, ChargeFee(acct[row.merchant], row.fee),
                     "verification_fee", i, -row.fee, 0)
    <3>0. acct[row.merchant] \in Balance /\ row.fee \in Int
      BY <1>1, <1>2 DEF TypeInv, TypeOK
    <3>1. ChargeFee(acct[row.merchant], row.fee) \in Balance
      BY <3>0, BalanceOps
    <3> QED BY <1>1, <1>2, <2>1, <3>1, BookType DEF TypeInv, EntryKind
  <2>2. CASE UNCHANGED <<acct, ledger>>
    BY <2>2 DEF TypeInv, TypeOK
  <2>3. CASE /\ row.purpose = "wallet_topup"
             /\ Book(row.target, AddToWallet(acct[row.target], row.payable),
                     "wallet_topup", i, row.payable, 0)
    <3>0. acct[row.target] \in Balance /\ row.payable \in Int
      BY <1>1, <1>2, <2>3 DEF TypeInv, TypeOK
    <3>1. AddToWallet(acct[row.target], row.payable) \in Balance
      BY <3>0, BalanceOps
    <3> QED BY <1>1, <1>2, <2>3, <3>1, BookType DEF TypeInv, EntryKind
  <2> QED BY <2>1, <2>2, <2>3 DEF ConfirmInvoicePaid
<1> QED BY <1>3, <1>4, <1>5

LEMMA ReleaseType ==
    ASSUME ConstantsAssumption, TypeInv,
           NEW i \in Invoices, NEW status \in {"cancelled", "expired"},
           ReleaseInvoiceReservation(i, status)
    PROVE  TypeInv'
<1> DEFINE row == invoice[i]
<1>1. /\ row \in InvoiceRow /\ row.status = "pending" /\ row.merchant \in Merchants
      /\ row.fee \in Nat
  BY DEF ReleaseInvoiceReservation, Releasable, TypeInv, TypeOK, RowsComplete, InvoiceRow,
         ConstantsAssumption
<1>2. invoice' \in [Invoices -> InvoiceRow] /\ RowsComplete'
  BY <1>1 DEF ReleaseInvoiceReservation, Releasable, TypeInv, TypeOK, RowsComplete, InvoiceRow,
              InvoiceStatus
<1>3. acct' \in [Merchants -> Balance] /\ ledger' \in Seq(LedgerRow)
  <2>1. CASE row.fee > 0
    <3>0. acct[row.merchant] \in Balance /\ row.fee \in Int
      BY <1>1 DEF TypeInv, TypeOK
    <3>1. ReleaseFee(acct[row.merchant], row.fee) \in Balance
      BY <3>0, BalanceOps
    <3>2. Book(row.merchant, ReleaseFee(acct[row.merchant], row.fee), "fee_released",
               i, row.fee, 0)
      BY <2>1 DEF ReleaseInvoiceReservation
    <3> QED BY <1>1, <3>1, <3>2, BookType DEF TypeInv, EntryKind
  <2>2. CASE ~(row.fee > 0)
    BY <2>2 DEF ReleaseInvoiceReservation, Releasable, TypeInv, TypeOK
  <2> QED BY <2>1, <2>2
<1> QED BY <1>2, <1>3 DEF ReleaseInvoiceReservation, Releasable, TypeInv, TypeOK

LEMMA IngestType ==
    ASSUME ConstantsAssumption, TypeInv,
           NEW s \in Sms, NEW scope \in Merchants \cup {None}, NEW a \in SmsAmounts,
           IngestMatching(s, scope, a) \/ IngestUnmatched(s, scope, a)
    PROVE  TypeInv'
<1>1. ASSUME NEW status \in {"unmatched", "review", "ignored", "matched"},
             NEW i \in Invoices \cup {None}, FileSms(s, scope, a, status, i)
      PROVE  sms' \in [Sms -> SmsRow]
  BY <1>1 DEF FileSms, TypeInv, TypeOK, SmsRow, ConstantsAssumption
<1>2. CASE IngestMatching(s, scope, a)
  <2>1. PICK i \in Invoices :
            ConfirmInvoicePaid(i, s) /\ FileSms(s, scope, a, "matched", i)
    BY <1>2 DEF IngestMatching
  <2>2. sms' \in [Sms -> SmsRow]
    BY <1>1, <2>1
  <2>3. UNCHANGED verificationFee
    BY <1>2 DEF IngestMatching
  <2> QED BY <2>1, <2>2, <2>3, ConfirmType DEF TypeInv, TypeOK
<1>3. CASE IngestUnmatched(s, scope, a)
  <2>1. sms' \in [Sms -> SmsRow]
    BY <1>1, <1>3 DEF IngestUnmatched
  <2> QED BY <1>3, <2>1 DEF IngestUnmatched, TypeInv, TypeOK, RowsComplete
<1> QED BY <1>2, <1>3

LEMMA ApproveType ==
    ASSUME ConstantsAssumption, TypeInv, NEW s \in Sms, NEW i \in Invoices,
           AdminApproveSms(s, i)
    PROVE  TypeInv'
<1>1. sms' \in [Sms -> SmsRow]
  <2>1. sms[s] \in SmsRow
    BY DEF TypeInv, TypeOK
  <2>2. FileSms(s, sms[s].merchant, sms[s].amount, "matched", i)
    BY DEF AdminApproveSms
  <2> QED BY <2>1, <2>2 DEF FileSms, TypeInv, TypeOK, SmsRow
<1>2. ConfirmInvoicePaid(i, s) /\ UNCHANGED verificationFee
  BY DEF AdminApproveSms
<1> QED BY <1>1, <1>2, ConfirmType DEF TypeInv, TypeOK

LEMMA AdjustType ==
    ASSUME ConstantsAssumption, TypeInv, NEW m \in Merchants, NEW a \in Int,
           AdminWalletAdjust(m, a)
    PROVE  TypeInv'
<1>1. acct[m] \in Balance
  BY DEF TypeInv, TypeOK
<1>2. AddToWallet(acct[m], a) \in Balance
  BY <1>1, BalanceOps
<1> DEFINE kind == IF a > 0 THEN "credit" ELSE "debit"
<1>3. kind \in EntryKind
  BY DEF EntryKind
<1>4. Book(m, AddToWallet(acct[m], a), kind, None, a, 0)
  BY DEF AdminWalletAdjust
<1> HIDE DEF kind
<1>5. acct' \in [Merchants -> Balance] /\ ledger' \in Seq(LedgerRow)
  BY <1>2, <1>3, <1>4, BookType DEF TypeInv
<1> QED BY <1>5 DEF AdminWalletAdjust, TypeInv, TypeOK, RowsComplete

LEMMA ReverseType ==
    ASSUME ConstantsAssumption, TypeInv, NEW n \in 1..Len(ledger), AdminReverseLedger(n)
    PROVE  TypeInv'
<1> DEFINE row == ledger[n]
<1>1. row \in LedgerRow
  BY DEF TypeInv, TypeOK
<1>2. /\ row.merchant \in Merchants /\ row.invoice \in Invoices \cup {None}
      /\ -row.amount \in Int /\ n \in Nat
  BY <1>1 DEF LedgerRow
<1>3. acct[row.merchant] \in Balance
  BY <1>2 DEF TypeInv, TypeOK
<1>4. AddToWallet(acct[row.merchant], -row.amount) \in Balance
  BY <1>2, <1>3, BalanceOps
<1>5. Book(row.merchant, AddToWallet(acct[row.merchant], -row.amount), "reversal",
           row.invoice, -row.amount, n)
  BY DEF AdminReverseLedger
<1> HIDE DEF row
<1>6. acct' \in [Merchants -> Balance] /\ ledger' \in Seq(LedgerRow)
  BY <1>2, <1>4, <1>5, BookType DEF TypeInv, EntryKind
<1> QED BY <1>6 DEF AdminReverseLedger, TypeInv, TypeOK, RowsComplete

LEMMA NextType == ConstantsAssumption /\ TypeInv /\ [Next]_vars => TypeInv'
<1> SUFFICES ASSUME ConstantsAssumption, TypeInv, [Next]_vars PROVE TypeInv'
  OBVIOUS
<1>1. ASSUME NEW m \in Merchants, NEW i \in Invoices, NEW b \in BaseAmounts,
             NEW mode \in FeeModes, NEW hook \in BOOLEAN, CreateInvoice(m, i, b, mode, hook)
      PROVE  TypeInv'
  BY <1>1, CreateInvoiceType
<1>2. ASSUME NEW t \in Merchants, NEW i \in Invoices, NEW b \in BaseAmounts,
             CreateWalletTopupInvoice(t, i, b)
      PROVE  TypeInv'
  BY <1>2, CreateTopupType
<1>3. ASSUME NEW i \in Invoices, PassDeadline(i)
      PROVE  TypeInv'
  BY <1>3 DEF PassDeadline, TypeInv, TypeOK, RowsComplete
<1>4. ASSUME NEW i \in Invoices, CancelInvoice(i) \/ ExpireInvoice(i)
      PROVE  TypeInv'
  BY <1>4, ReleaseType DEF CancelInvoice, ExpireInvoice
<1>5. ASSUME NEW s \in Sms, NEW scope \in Merchants \cup {None}, NEW a \in SmsAmounts,
             IngestMatching(s, scope, a) \/ IngestUnmatched(s, scope, a)
      PROVE  TypeInv'
  BY <1>5, IngestType
<1>6. ASSUME NEW s \in Sms, NEW i \in Invoices, AdminApproveSms(s, i)
      PROVE  TypeInv'
  BY <1>6, ApproveType
<1>7. ASSUME NEW s \in Sms, AdminRejectSms(s)
      PROVE  TypeInv'
  <2>1. sms' \in [Sms -> SmsRow]
    BY <1>7 DEF AdminRejectSms, TypeInv, TypeOK, SmsRow
  <2> QED BY <1>7, <2>1 DEF AdminRejectSms, TypeInv, TypeOK, RowsComplete
<1>8. ASSUME NEW m \in Merchants, NEW f \in 0..MaxFee, AdminSetFee(m, f)
      PROVE  TypeInv'
  BY <1>8 DEF AdminSetFee, TypeInv, TypeOK, RowsComplete
<1>9. ASSUME NEW m \in Merchants, NEW a \in AdjustAmounts,
             AdminWalletAdjust(m, a) \/ AdminWalletAdjust(m, -a)
      PROVE  TypeInv'
  <2>1. a \in Int /\ -a \in Int
    BY DEF ConstantsAssumption
  <2> QED BY <1>9, <2>1, AdjustType
<1>10. ASSUME NEW n \in 1..Len(ledger), AdminReverseLedger(n)
       PROVE  TypeInv'
  BY <1>10, ReverseType
<1>11. CASE UNCHANGED vars
  BY <1>11 DEF vars, TypeInv, TypeOK, RowsComplete
<1> QED
  BY <1>1, <1>2, <1>3, <1>4, <1>5, <1>6, <1>7, <1>8, <1>9, <1>10, <1>11 DEF Next

LEMMA SpecTypeInv == Spec => []TypeInv
<1>1. ConstantsAssumption
  BY ConstantsAssumption
<1>2. Init => TypeInv
  BY <1>1, InitType
<1>3. TypeInv /\ [Next]_vars => TypeInv'
  BY <1>1, NextType
<1> QED BY <1>2, <1>3, PTL DEF Spec

\* Every variable keeps its type, whatever the pools and the amounts are.
THEOREM TypeCorrect == Spec => []TypeOK
<1>1. TypeInv => TypeOK
  BY DEF TypeInv
<1> QED BY <1>1, SpecTypeInv, PTL

-----------------------------------------------------------------------------
(* Holds. The sum of the held fees is a cardinality (HeldFees), so opening  *)
(* an invoice adds the rials of its fee to a set and closing it takes the   *)
(* same rials away. Solvency alone is not inductive: a charge keeps the     *)
(* wallet above the remaining holds only because the clamp in ChargeFee     *)
(* never bites, which is what ReservedIsHeld says.                          *)

FeeRials(i, f) == {i} \X (1..f)

LEMMA FeeRialsCount ==
    ASSUME NEW i, NEW f \in Nat
    PROVE  IsFiniteSet(FeeRials(i, f)) /\ Cardinality(FeeRials(i, f)) = f
<1>1. IsFiniteSet({i}) /\ Cardinality({i}) = 1
  BY FS_Singleton
<1>2. IsFiniteSet(1..f) /\ Cardinality(1..f) = f
  BY FS_Interval
<1>3. /\ IsFiniteSet({i} \X (1..f))
      /\ Cardinality({i} \X (1..f)) = Cardinality({i}) * Cardinality(1..f)
  BY <1>1, <1>2, FS_Product, Zenon
<1> QED BY <1>1, <1>2, <1>3 DEF FeeRials

LEMMA HeldFinite ==
    ASSUME ConstantsAssumption, NEW m
    PROVE  IsFiniteSet(HeldRials(m)) /\ HeldFees(m) \in Nat
<1>1. IsFiniteSet(1..MaxFee)
  BY FS_Interval DEF ConstantsAssumption
<1>2. IsFiniteSet(Invoices \X (1..MaxFee))
  BY <1>1, FS_Product DEF ConstantsAssumption
<1>3. IsFiniteSet(HeldRials(m))
  BY <1>2, FS_Subset DEF HeldRials
<1> QED BY <1>3, FS_CardinalityType DEF HeldFees

\* Opening an invoice adds its fee to its merchant's held fees only.
LEMMA OpenHolds ==
    ASSUME ConstantsAssumption, TypeInv,
           NEW i \in Invoices, NEW row \in InvoiceRow, NEW m \in Merchants,
           row.status = "pending", invoice[i].status = "absent",
           invoice' = [invoice EXCEPT ![i] = row]
    PROVE  HeldFees(m)' = HeldFees(m) + (IF m = row.merchant THEN row.fee ELSE 0)
<1>1. row.fee \in Nat /\ row.fee <= MaxFee
  BY DEF InvoiceRow, ConstantsAssumption
<1>2. ASSUME NEW j \in Invoices, j # i PROVE invoice'[j] = invoice[j]
  BY <1>2 DEF TypeInv, TypeOK
<1>3. invoice'[i] = row
  BY DEF TypeInv, TypeOK
<1>4. CASE m = row.merchant
  <2>1. HeldRials(m)' = HeldRials(m) \cup FeeRials(i, row.fee)
    BY <1>1, <1>2, <1>3, <1>4
       DEF HeldRials, Open, Pending, FeeRials, ConstantsAssumption
  <2>2. HeldRials(m) \cap FeeRials(i, row.fee) = {}
    BY DEF HeldRials, Open, Pending, FeeRials
  <2>3. /\ IsFiniteSet(HeldRials(m)) /\ HeldFees(m) \in Nat
        /\ IsFiniteSet(FeeRials(i, row.fee)) /\ Cardinality(FeeRials(i, row.fee)) = row.fee
    BY <1>1, HeldFinite, FeeRialsCount
  <2>4. Cardinality(HeldRials(m) \cup FeeRials(i, row.fee))
          = Cardinality(HeldRials(m)) + row.fee - Cardinality({})
    BY <2>2, <2>3, FS_Union
  <2> QED BY <1>1, <1>4, <2>1, <2>3, <2>4, FS_EmptySet DEF HeldFees
<1>5. CASE m # row.merchant
  <2>1. HeldRials(m)' = HeldRials(m)
    BY <1>2, <1>3, <1>5 DEF HeldRials, Open, Pending
  <2>2. HeldFees(m) \in Nat
    BY HeldFinite
  <2> QED BY <1>5, <2>1, <2>2 DEF HeldFees
<1> QED BY <1>4, <1>5

\* Closing an invoice takes exactly its fee from its merchant's held fees.
LEMMA CloseHolds ==
    ASSUME ConstantsAssumption, TypeInv,
           NEW i \in Invoices, NEW m \in Merchants,
           invoice[i].status = "pending", invoice'[i].status # "pending",
           \A j \in Invoices : j # i => invoice'[j] = invoice[j]
    PROVE  /\ HeldFees(m)' = HeldFees(m) - (IF m = invoice[i].merchant THEN invoice[i].fee ELSE 0)
           /\ HeldFees(m)' \in Nat
<1> DEFINE f == invoice[i].fee
<1>1. f \in Nat /\ f <= MaxFee
  BY DEF TypeInv, TypeOK, InvoiceRow, ConstantsAssumption
<1> HIDE DEF f
<1>0. f = invoice[i].fee
  BY DEF f
<1>2. IsFiniteSet(HeldRials(m)) /\ HeldFees(m) \in Nat
  BY HeldFinite
<1>3. CASE m = invoice[i].merchant
  <2>1. HeldRials(m)' = HeldRials(m) \ FeeRials(i, f)
    BY <1>0, <1>1, <1>3 DEF HeldRials, Open, Pending, FeeRials
  <2>2. HeldRials(m) \cap FeeRials(i, f) = FeeRials(i, f)
    BY <1>0, <1>1, <1>3 DEF HeldRials, Open, Pending, FeeRials, ConstantsAssumption
  <2>3. /\ IsFiniteSet(HeldRials(m) \ FeeRials(i, f))
        /\ Cardinality(HeldRials(m) \ FeeRials(i, f))
             = Cardinality(HeldRials(m)) - Cardinality(HeldRials(m) \cap FeeRials(i, f))
    BY <1>2, FS_Difference, Zenon
  <2>4. /\ IsFiniteSet(HeldRials(m) \ FeeRials(i, f))
        /\ Cardinality(HeldRials(m) \ FeeRials(i, f)) = Cardinality(HeldRials(m)) - f
    BY <1>1, <2>2, <2>3, FeeRialsCount
  <2>5. Cardinality(HeldRials(m) \ FeeRials(i, f)) \in Nat
    BY <2>4, FS_CardinalityType
  <2> QED BY <1>0, <1>3, <2>1, <2>4, <2>5 DEF HeldFees
<1>4. CASE m # invoice[i].merchant
  <2>1. HeldRials(m)' = HeldRials(m)
    BY <1>4 DEF HeldRials, Open, Pending
  <2> QED BY <1>2, <1>4, <2>1 DEF HeldFees
<1> QED BY <1>3, <1>4

HoldsInv == ReservedIsHeld /\ Solvent

LEMMA InitHolds == ConstantsAssumption /\ Init => HoldsInv
<1> SUFFICES ASSUME ConstantsAssumption, Init, NEW m \in Merchants
             PROVE  acct[m].reserved = HeldFees(m) /\ acct[m].wallet >= acct[m].reserved
  BY DEF HoldsInv, ReservedIsHeld, Solvent
<1>1. HeldRials(m) = {}
  BY DEF Init, HeldRials, Open, Pending, NoInvoice
<1> QED BY <1>1, FS_EmptySet DEF Init, HeldFees

\* A step that touches no invoice leaves the holds alone.
LEMMA SameHolds ==
    ASSUME UNCHANGED invoice, NEW q \in Merchants
    PROVE  HeldFees(q)' = HeldFees(q)
BY DEF HeldFees, HeldRials, Open, Pending

LEMMA CreateInvoiceHolds ==
    ASSUME ConstantsAssumption, TypeInv, HoldsInv,
           NEW m \in Merchants, NEW i \in Invoices, NEW base \in BaseAmounts,
           NEW mode \in FeeModes, NEW hook \in BOOLEAN, NEW q \in Merchants,
           CreateInvoice(m, i, base, mode, hook), TypeInv'
    PROVE  acct'[q].reserved = HeldFees(q)' /\ acct'[q].wallet >= acct'[q].reserved
<1> DEFINE f == verificationFee[m]
<1>1. f \in Nat
  BY DEF TypeInv, TypeOK, ConstantsAssumption
<1>2. PICK p : invoice' = [invoice EXCEPT ![i] = PendingInvoice(m, f, p, "payment", None, hook)]
  BY DEF CreateInvoice
<1> DEFINE row == PendingInvoice(m, f, p, "payment", None, hook)
<1>3. row = invoice'[i] /\ row \in InvoiceRow
  BY <1>2 DEF TypeInv, TypeOK
<1>4. row.status = "pending" /\ row.merchant = m /\ row.fee = f
  BY DEF PendingInvoice
<1>5. invoice' = [invoice EXCEPT ![i] = row] /\ invoice[i].status = "absent"
  BY <1>2 DEF CreateInvoice
<1> HIDE DEF f, row
<1>6. HeldFees(q)' = HeldFees(q) + (IF q = m THEN f ELSE 0)
  BY <1>3, <1>4, <1>5, OpenHolds
<1>7. /\ acct[q] \in Balance /\ acct[m] \in Balance
      /\ acct[q].reserved = HeldFees(q) /\ acct[q].wallet >= acct[q].reserved
  BY DEF TypeInv, TypeOK, HoldsInv, ReservedIsHeld, Solvent
<1>8. CASE f > 0
  <2>1. acct' = [acct EXCEPT ![m] = HoldFee(acct[m], f)] /\ Available(acct[m]) >= f
    BY <1>8 DEF CreateInvoice, Book, f
  <2>2. CASE q = m
    <3>1. acct'[q] = HoldFee(acct[q], f) /\ acct[q].wallet - acct[q].reserved >= f
      BY <2>1, <2>2 DEF TypeInv, TypeOK, Available
    <3>2. /\ acct'[q].wallet = acct[q].wallet
          /\ acct'[q].reserved = acct[q].reserved + f
      BY <1>7, <3>1 DEF HoldFee, Balance
    <3> QED BY <1>1, <1>6, <1>7, <2>2, <3>1, <3>2 DEF Balance
  <2>3. CASE q # m
    <3>1. acct'[q] = acct[q]
      BY <2>1, <2>3 DEF TypeInv, TypeOK
    <3> QED BY <1>6, <1>7, <2>3, <3>1 DEF Balance
  <2> QED BY <2>2, <2>3
<1>9. CASE ~(f > 0)
  <2>1. acct' = acct /\ f = 0
    BY <1>1, <1>9 DEF CreateInvoice, f
  <2> QED BY <1>6, <1>7, <2>1 DEF Balance
<1> QED BY <1>8, <1>9

LEMMA CreateTopupHolds ==
    ASSUME ConstantsAssumption, TypeInv, HoldsInv,
           NEW t \in Merchants, NEW i \in Invoices, NEW base \in BaseAmounts,
           NEW q \in Merchants, CreateWalletTopupInvoice(t, i, base), TypeInv'
    PROVE  acct'[q].reserved = HeldFees(q)' /\ acct'[q].wallet >= acct'[q].reserved
<1>1. PICK p : invoice' = [invoice EXCEPT ![i] =
                             PendingInvoice(Owner, 0, p, "wallet_topup", t, FALSE)]
  BY DEF CreateWalletTopupInvoice
<1> DEFINE row == PendingInvoice(Owner, 0, p, "wallet_topup", t, FALSE)
<1>2. row = invoice'[i] /\ row \in InvoiceRow
  BY <1>1 DEF TypeInv, TypeOK
<1>3. row.status = "pending" /\ row.fee = 0
  BY DEF PendingInvoice
<1>4. invoice' = [invoice EXCEPT ![i] = row] /\ invoice[i].status = "absent" /\ acct' = acct
  BY <1>1 DEF CreateWalletTopupInvoice
<1> HIDE DEF row
<1>5. HeldFees(q)' = HeldFees(q) + 0
  BY <1>2, <1>3, <1>4, OpenHolds
<1> QED
  BY <1>4, <1>5 DEF TypeInv, TypeOK, HoldsInv, ReservedIsHeld, Solvent, Balance

LEMMA ConfirmHolds ==
    ASSUME ConstantsAssumption, TypeInv, HoldsInv,
           NEW i \in Invoices, NEW s \in Sms, NEW q \in Merchants,
           ConfirmInvoicePaid(i, s)
    PROVE  acct'[q].reserved = HeldFees(q)' /\ acct'[q].wallet >= acct'[q].reserved
<1> DEFINE row == invoice[i]
<1>1. /\ row \in InvoiceRow /\ row.status = "pending" /\ row.merchant \in Merchants
      /\ row.purpose = "wallet_topup" => row.target \in Merchants /\ row.fee = 0
  BY DEF ConfirmInvoicePaid, Payable, TypeInv, TypeOK, RowsComplete
<1>2. row.fee \in Nat /\ row.payable \in Nat
  BY <1>1 DEF InvoiceRow, ConstantsAssumption
<1>3. invoice'[i].status # "pending" /\ \A j \in Invoices : j # i => invoice'[j] = invoice[j]
  BY DEF ConfirmInvoicePaid, TypeInv, TypeOK, InvoiceRow
<1>4. /\ HeldFees(q)' = HeldFees(q) - (IF q = row.merchant THEN row.fee ELSE 0)
      /\ HeldFees(q)' \in Nat
  BY <1>1, <1>3, CloseHolds
<1>5. /\ acct[q] \in Balance
      /\ acct[q].reserved = HeldFees(q) /\ acct[q].wallet >= acct[q].reserved
  BY DEF TypeInv, TypeOK, HoldsInv, ReservedIsHeld, Solvent
<1>6. CASE /\ row.purpose = "payment" /\ row.fee > 0
           /\ Book(row.merchant, ChargeFee(acct[row.merchant], row.fee),
                   "verification_fee", i, -row.fee, 0)
  <2>1. CASE q = row.merchant
    <3>1. acct'[q] = ChargeFee(acct[q], row.fee)
      BY <1>6, <2>1 DEF Book, TypeInv, TypeOK
    <3>2. acct[q].reserved - row.fee >= 0
      BY <1>2, <1>4, <1>5, <2>1 DEF Balance
    <3>3. /\ acct'[q].wallet = acct[q].wallet - row.fee
          /\ acct'[q].reserved = acct[q].reserved - row.fee
      BY <1>2, <1>5, <3>1, <3>2 DEF ChargeFee, NotNegative, Balance
    <3> QED BY <1>2, <1>4, <1>5, <2>1, <3>3 DEF Balance
  <2>2. CASE q # row.merchant
    <3>1. acct'[q] = acct[q]
      BY <1>6, <2>2 DEF Book, TypeInv, TypeOK
    <3> QED BY <1>4, <1>5, <2>2, <3>1 DEF Balance
  <2> QED BY <2>1, <2>2
<1>7. CASE row.purpose = "payment" /\ row.fee = 0 /\ UNCHANGED <<acct, ledger>>
  BY <1>4, <1>5, <1>7 DEF Balance
<1>8. CASE /\ row.purpose = "wallet_topup"
           /\ Book(row.target, AddToWallet(acct[row.target], row.payable),
                   "wallet_topup", i, row.payable, 0)
  <2>1. HeldFees(q)' = HeldFees(q)
    BY <1>1, <1>4, <1>5, <1>8 DEF Balance
  <2>2. CASE q = row.target
    <3>1. acct'[q] = AddToWallet(acct[q], row.payable)
      BY <1>8, <2>2 DEF Book, TypeInv, TypeOK
    <3>2. /\ acct'[q].wallet = acct[q].wallet + row.payable
          /\ acct'[q].reserved = acct[q].reserved
      BY <1>2, <1>5, <3>1 DEF AddToWallet, Balance
    <3> QED BY <1>2, <1>5, <2>1, <3>2 DEF Balance
  <2>3. CASE q # row.target
    <3>1. acct'[q] = acct[q]
      BY <1>1, <1>8, <2>3 DEF Book, TypeInv, TypeOK
    <3> QED BY <1>5, <2>1, <3>1
  <2> QED BY <2>2, <2>3
<1> QED BY <1>6, <1>7, <1>8 DEF ConfirmInvoicePaid

LEMMA ReleaseHolds ==
    ASSUME ConstantsAssumption, TypeInv, HoldsInv,
           NEW i \in Invoices, NEW status \in {"cancelled", "expired"}, NEW q \in Merchants,
           ReleaseInvoiceReservation(i, status)
    PROVE  acct'[q].reserved = HeldFees(q)' /\ acct'[q].wallet >= acct'[q].reserved
<1> DEFINE row == invoice[i]
<1>1. /\ row.status = "pending" /\ row.merchant \in Merchants /\ row.fee \in Nat
  BY DEF ReleaseInvoiceReservation, Releasable, TypeInv, TypeOK, RowsComplete, InvoiceRow,
         ConstantsAssumption
<1>2. invoice'[i].status # "pending" /\ \A j \in Invoices : j # i => invoice'[j] = invoice[j]
  BY DEF ReleaseInvoiceReservation, Releasable, TypeInv, TypeOK, InvoiceRow
<1>3. /\ HeldFees(q)' = HeldFees(q) - (IF q = row.merchant THEN row.fee ELSE 0)
      /\ HeldFees(q)' \in Nat
  BY <1>1, <1>2, CloseHolds
<1>4. /\ acct[q] \in Balance
      /\ acct[q].reserved = HeldFees(q) /\ acct[q].wallet >= acct[q].reserved
  BY DEF TypeInv, TypeOK, HoldsInv, ReservedIsHeld, Solvent
<1>5. CASE row.fee > 0
  <2>1. acct' = [acct EXCEPT ![row.merchant] = ReleaseFee(acct[row.merchant], row.fee)]
    BY <1>5 DEF ReleaseInvoiceReservation, Releasable, Book
  <2>2. CASE q = row.merchant
    <3>1. acct'[q] = ReleaseFee(acct[q], row.fee)
      BY <2>1, <2>2 DEF TypeInv, TypeOK
    <3>2. acct[q].reserved - row.fee >= 0
      BY <1>1, <1>3, <1>4, <2>2 DEF Balance
    <3>3. /\ acct'[q].wallet = acct[q].wallet
          /\ acct'[q].reserved = acct[q].reserved - row.fee
      BY <1>1, <1>4, <3>1, <3>2 DEF ReleaseFee, NotNegative, Balance
    <3> QED BY <1>1, <1>3, <1>4, <2>2, <3>3 DEF Balance
  <2>3. CASE q # row.merchant
    <3>1. acct'[q] = acct[q]
      BY <2>1, <2>3 DEF TypeInv, TypeOK
    <3> QED BY <1>3, <1>4, <2>3, <3>1 DEF Balance
  <2> QED BY <2>2, <2>3
<1>6. CASE ~(row.fee > 0)
  <2>1. acct' = acct /\ row.fee = 0
    BY <1>1, <1>6 DEF ReleaseInvoiceReservation
  <2> QED BY <1>3, <1>4, <2>1 DEF Balance
<1> QED BY <1>5, <1>6

\* A posting that an administrator makes, debit or reversal, spares the holds.
LEMMA PostingHolds ==
    ASSUME TypeInv, HoldsInv, UNCHANGED invoice,
           NEW m \in Merchants, NEW a \in Int, a < 0 => SparesHolds(acct[m], a),
           acct' = [acct EXCEPT ![m] = AddToWallet(acct[m], a)],
           NEW q \in Merchants
    PROVE  acct'[q].reserved = HeldFees(q)' /\ acct'[q].wallet >= acct'[q].reserved
<1>1. /\ acct[q] \in Balance
      /\ acct[q].reserved = HeldFees(q) /\ acct[q].wallet >= acct[q].reserved
  BY DEF TypeInv, TypeOK, HoldsInv, ReservedIsHeld, Solvent
<1>2. HeldFees(q)' = HeldFees(q)
  BY SameHolds
<1>3. CASE q = m
  <2>1. acct'[q] = AddToWallet(acct[q], a) /\ (a < 0 => SparesHolds(acct[q], a))
    BY <1>3 DEF TypeInv, TypeOK
  <2>2. acct'[q].wallet = acct[q].wallet + a /\ acct'[q].reserved = acct[q].reserved
    BY <1>1, <2>1 DEF AddToWallet, Balance
  <2> QED BY <1>1, <1>2, <2>1, <2>2 DEF SparesHolds, Balance
<1>4. CASE q # m
  <2>1. acct'[q] = acct[q]
    BY <1>4 DEF TypeInv, TypeOK
  <2> QED BY <1>1, <1>2, <2>1
<1> QED BY <1>3, <1>4

LEMMA NextHolds ==
    ConstantsAssumption /\ TypeInv /\ TypeInv' /\ HoldsInv /\ [Next]_vars => HoldsInv'
<1> SUFFICES ASSUME ConstantsAssumption, TypeInv, TypeInv', HoldsInv, [Next]_vars,
                    NEW q \in Merchants
             PROVE  acct'[q].reserved = HeldFees(q)' /\ acct'[q].wallet >= acct'[q].reserved
  BY DEF HoldsInv, ReservedIsHeld, Solvent
<1>1. ASSUME NEW m \in Merchants, NEW i \in Invoices, NEW b \in BaseAmounts,
             NEW mode \in FeeModes, NEW hook \in BOOLEAN, CreateInvoice(m, i, b, mode, hook)
      PROVE  acct'[q].reserved = HeldFees(q)' /\ acct'[q].wallet >= acct'[q].reserved
  BY <1>1, CreateInvoiceHolds
<1>2. ASSUME NEW t \in Merchants, NEW i \in Invoices, NEW b \in BaseAmounts,
             CreateWalletTopupInvoice(t, i, b)
      PROVE  acct'[q].reserved = HeldFees(q)' /\ acct'[q].wallet >= acct'[q].reserved
  BY <1>2, CreateTopupHolds
<1>3. ASSUME NEW i \in Invoices, CancelInvoice(i) \/ ExpireInvoice(i)
      PROVE  acct'[q].reserved = HeldFees(q)' /\ acct'[q].wallet >= acct'[q].reserved
  BY <1>3, ReleaseHolds DEF CancelInvoice, ExpireInvoice
<1>4. ASSUME NEW s \in Sms, NEW i \in Invoices, ConfirmInvoicePaid(i, s)
      PROVE  acct'[q].reserved = HeldFees(q)' /\ acct'[q].wallet >= acct'[q].reserved
  BY <1>4, ConfirmHolds
<1>5. ASSUME NEW m \in Merchants, NEW a \in AdjustAmounts,
             AdminWalletAdjust(m, a) \/ AdminWalletAdjust(m, -a)
      PROVE  acct'[q].reserved = HeldFees(q)' /\ acct'[q].wallet >= acct'[q].reserved
  <2>1. a \in Int /\ -a \in Int
    BY DEF ConstantsAssumption
  <2>2. ASSUME NEW c \in Int, AdminWalletAdjust(m, c)
        PROVE  acct'[q].reserved = HeldFees(q)' /\ acct'[q].wallet >= acct'[q].reserved
    BY <2>2, PostingHolds DEF AdminWalletAdjust, Book
  <2> QED BY <1>5, <2>1, <2>2
<1>6. ASSUME NEW n \in 1..Len(ledger), AdminReverseLedger(n)
      PROVE  acct'[q].reserved = HeldFees(q)' /\ acct'[q].wallet >= acct'[q].reserved
  <2>1. ledger[n] \in LedgerRow
    BY DEF TypeInv, TypeOK
  <2>2. ledger[n].merchant \in Merchants /\ -ledger[n].amount \in Int
    BY <2>1 DEF LedgerRow
  <2> QED BY <1>6, <2>2, PostingHolds DEF AdminReverseLedger, Book
<1>7. CASE UNCHANGED <<acct, invoice>>
  BY <1>7, SameHolds DEF HoldsInv, ReservedIsHeld, Solvent
<1>8. ASSUME NEW s \in Sms, NEW scope \in Merchants \cup {None}, NEW a \in SmsAmounts,
             IngestMatching(s, scope, a)
      PROVE  acct'[q].reserved = HeldFees(q)' /\ acct'[q].wallet >= acct'[q].reserved
  BY <1>4, <1>8 DEF IngestMatching
<1>9. ASSUME NEW s \in Sms, NEW i \in Invoices, AdminApproveSms(s, i)
      PROVE  acct'[q].reserved = HeldFees(q)' /\ acct'[q].wallet >= acct'[q].reserved
  BY <1>4, <1>9 DEF AdminApproveSms
<1> QED
  BY <1>1, <1>2, <1>3, <1>5, <1>6, <1>7, <1>8, <1>9
     DEF Next, vars, PassDeadline, IngestUnmatched, AdminRejectSms, AdminSetFee

LEMMA SpecHolds == Spec => []HoldsInv
<1>1. ConstantsAssumption
  BY ConstantsAssumption
<1>2. Init => HoldsInv
  BY <1>1, InitHolds
<1>3. TypeInv /\ TypeInv' /\ HoldsInv /\ [Next]_vars => HoldsInv'
  BY <1>1, NextHolds
<1> QED BY <1>2, <1>3, SpecTypeInv, PTL DEF Spec

\* reserved_balance_rial always equals the fees of the merchant's open invoices.
THEOREM HoldsAreExact == Spec => []ReservedIsHeld
<1>1. HoldsInv => ReservedIsHeld
  BY DEF HoldsInv
<1> QED BY <1>1, SpecHolds, PTL

\* A wallet always covers its holds: every fee accepted at creation can be
\* collected, whatever debits, reversals, releases and charges come between.
THEOREM WalletsStaySolvent == Spec => []Solvent
<1>1. HoldsInv => Solvent
  BY DEF HoldsInv
<1> QED BY <1>1, SpecHolds, PTL

-----------------------------------------------------------------------------
(***************************************************************************)
(* Messages and the invoices they pay, events, closed invoices and exact   *)
(* amounts.                                                                *)
(***************************************************************************)

\* A paid invoice names the message that paid it.
PaidNames == \A i \in Invoices : invoice[i].status = "paid" => invoice[i].sms \in Sms

MatchInv == OneMessagePerPayment /\ PaidNames

\* What IngestMatching and AdminApproveSms have in common: a message that has
\* paid nothing yet pays a pending invoice of its amount.
PaysWith(s, i, scope) ==
    /\ Unmatched(s) \/ sms[s].status = "absent"
    /\ ConfirmInvoicePaid(i, s)
    /\ FileSms(s, scope, invoice[i].payable, "matched", i)
    /\ UNCHANGED verificationFee

\* A message is filed again, or rejected, and pays nothing.
Files(s) ==
    /\ sms[s].status # "matched"
    /\ \E row \in SmsRow : row.status # "matched" /\ sms' = [sms EXCEPT ![s] = row]
    /\ UNCHANGED <<acct, verificationFee, invoice, overdue, reservations, ledger, events>>

LEMMA IngestPays ==
    ASSUME NEW s \in Sms, NEW scope \in Merchants \cup {None}, NEW a \in SmsAmounts,
           IngestMatching(s, scope, a)
    PROVE  \E i \in Invoices : PaysWith(s, i, scope)
<1>1. PICK card \in Merchants, i \in Invoices :
          /\ Delivered(s, scope, a) /\ Candidates(card, a) = {i}
          /\ ConfirmInvoicePaid(i, s) /\ FileSms(s, scope, a, "matched", i)
          /\ UNCHANGED verificationFee
  BY DEF IngestMatching
<1>2. invoice[i].payable = a
  BY <1>1 DEF Candidates
<1>3. PaysWith(s, i, scope)
  BY <1>1, <1>2 DEF PaysWith, Delivered
<1> QED BY <1>3

LEMMA ApprovePays ==
    ASSUME NEW s \in Sms, NEW i \in Invoices, AdminApproveSms(s, i)
    PROVE  PaysWith(s, i, sms[s].merchant)
BY DEF AdminApproveSms, PaysWith

LEMMA IngestFiles ==
    ASSUME ConstantsAssumption, NEW s \in Sms, NEW scope \in Merchants \cup {None},
           NEW a \in SmsAmounts, IngestUnmatched(s, scope, a)
    PROVE  Files(s)
<1>1. PICK status \in {"unmatched", "review", "ignored"} : FileSms(s, scope, a, status, None)
  BY DEF IngestUnmatched
<1> DEFINE row == [status |-> status, merchant |-> scope, amount |-> a, invoice |-> None]
<1>2. row \in SmsRow /\ row.status # "matched"
  BY DEF SmsRow, ConstantsAssumption
<1>3. sms' = [sms EXCEPT ![s] = row]
  BY <1>1 DEF FileSms
<1> HIDE DEF row
<1>4. sms[s].status # "matched"
  BY DEF IngestUnmatched, Delivered, Unmatched
<1> QED BY <1>2, <1>3, <1>4 DEF Files, IngestUnmatched

LEMMA RejectFiles ==
    ASSUME TypeInv, NEW s \in Sms, AdminRejectSms(s)
    PROVE  Files(s)
<1> DEFINE row == [sms[s] EXCEPT !.status = "rejected"]
<1>1. row \in SmsRow /\ row.status # "matched"
  BY DEF TypeInv, TypeOK, SmsRow
<1>2. sms' = [sms EXCEPT ![s] = row]
  BY DEF AdminRejectSms
<1> HIDE DEF row
<1> QED BY <1>1, <1>2 DEF Files, AdminRejectSms, Unmatched

\* A new row of table invoices, its reservation, and nothing about messages.
Opens(i) ==
    /\ invoice[i].status = "absent"
    /\ \E row \in InvoiceRow, card \in Merchants :
          /\ row.status = "pending" /\ row.merchant = card
          /\ invoice' = [invoice EXCEPT ![i] = row]
          /\ row.payable \notin Payables(card)
          /\ reservations' = LiveReservations
                \cup {[card |-> card, payable |-> row.payable, token |-> i]}
    /\ UNCHANGED <<verificationFee, overdue, sms, events>>

LEMMA CreateOpens ==
    ASSUME ConstantsAssumption, TypeInv,
           NEW m \in Merchants, NEW i \in Invoices, NEW base \in BaseAmounts,
           NEW mode \in FeeModes, NEW hook \in BOOLEAN,
           CreateInvoice(m, i, base, mode, hook)
    PROVE  Opens(i)
<1> DEFINE f == verificationFee[m]
           nominal == base + CustomerFee(f, mode)
<1>1. f \in 0..MaxFee /\ f \in Nat
  BY DEF TypeInv, TypeOK, ConstantsAssumption
<1>2. nominal \in Nat
  <2>1. CustomerFee(f, mode) \in Nat
    <3> HIDE DEF f
    <3> QED BY <1>1, CustomerFeeType
  <2>2. base \in Nat
    BY DEF ConstantsAssumption
  <2> QED BY <2>1, <2>2
<1>3. PICK p \in {nominal + c : c \in Codes} :
          /\ ReserveUniquePayableAmount(m, nominal, i, p)
          /\ invoice' = [invoice EXCEPT ![i] = PendingInvoice(m, f, p, "payment", None, hook)]
  BY DEF CreateInvoice
<1>4. p \in Nat
  <2>1. PICK c \in Codes : p = nominal + c
    BY <1>3
  <2>2. c \in Nat
    BY DEF ConstantsAssumption
  <2> HIDE DEF nominal
  <2> QED BY <1>2, <2>1, <2>2
<1> DEFINE row == PendingInvoice(m, f, p, "payment", None, hook)
<1>5. /\ row \in InvoiceRow /\ row.status = "pending"
      /\ row.merchant = m /\ row.payable = p
  BY <1>1, <1>4 DEF PendingInvoice, InvoiceRow, InvoiceStatus
<1>6. /\ p \notin Payables(m)
      /\ reservations' = LiveReservations \cup {[card |-> m, payable |-> p, token |-> i]}
  BY <1>3 DEF ReserveUniquePayableAmount
<1> HIDE DEF row
<1> QED BY <1>3, <1>5, <1>6 DEF Opens, CreateInvoice, row

LEMMA TopupOpens ==
    ASSUME ConstantsAssumption, TypeInv,
           NEW t \in Merchants, NEW i \in Invoices, NEW base \in BaseAmounts,
           CreateWalletTopupInvoice(t, i, base)
    PROVE  Opens(i)
<1>1. PICK p \in {base + c : c \in Codes} :
          /\ ReserveUniquePayableAmount(Owner, base, i, p)
          /\ invoice' = [invoice EXCEPT ![i] = PendingInvoice(Owner, 0, p, "wallet_topup", t, FALSE)]
  BY DEF CreateWalletTopupInvoice
<1>2. p \in Nat /\ Owner \in Merchants
  BY <1>1 DEF ConstantsAssumption
<1> DEFINE row == PendingInvoice(Owner, 0, p, "wallet_topup", t, FALSE)
<1>3. /\ row \in InvoiceRow /\ row.status = "pending"
      /\ row.merchant = Owner /\ row.payable = p
  BY <1>2 DEF PendingInvoice, InvoiceRow, InvoiceStatus, ConstantsAssumption
<1>4. /\ p \notin Payables(Owner)
      /\ reservations' = LiveReservations \cup {[card |-> Owner, payable |-> p, token |-> i]}
  BY <1>1 DEF ReserveUniquePayableAmount
<1> HIDE DEF row
<1> QED BY <1>1, <1>2, <1>3, <1>4 DEF Opens, CreateWalletTopupInvoice, row

\* An invoice is cancelled or expires.
Closes(i) == \E status \in {"cancelled", "expired"} : ReleaseInvoiceReservation(i, status)

\* Only money, fees or the clock move.
Bystands ==
    /\ UNCHANGED <<invoice, reservations, sms, events>>
    /\ overdue \subseteq overdue'

(* The kinds of steps, as far as invoices and messages see them. *)
LEMMA KindsOfSteps ==
    ASSUME ConstantsAssumption, TypeInv, [Next]_vars
    PROVE  \/ \E i \in Invoices : Opens(i) \/ Closes(i)
           \/ \E s \in Sms, i \in Invoices, scope \in Merchants \cup {None} : PaysWith(s, i, scope)
           \/ \E s \in Sms : Files(s)
           \/ Bystands
<1> DEFINE Goal == \/ \E i \in Invoices : Opens(i) \/ Closes(i)
                   \/ \E s \in Sms, i \in Invoices, scope \in Merchants \cup {None} : PaysWith(s, i, scope)
                   \/ \E s \in Sms : Files(s)
                   \/ Bystands
<1>1. ASSUME NEW m \in Merchants, NEW i \in Invoices, NEW b \in BaseAmounts,
             NEW mode \in FeeModes, NEW hook \in BOOLEAN, CreateInvoice(m, i, b, mode, hook)
      PROVE  Goal
  BY <1>1, CreateOpens
<1>2. ASSUME NEW t \in Merchants, NEW i \in Invoices, NEW b \in BaseAmounts,
             CreateWalletTopupInvoice(t, i, b)
      PROVE  Goal
  BY <1>2, TopupOpens
<1>3. ASSUME NEW i \in Invoices, PassDeadline(i)
      PROVE  Goal
  BY <1>3 DEF PassDeadline, Bystands
<1>4. ASSUME NEW i \in Invoices, CancelInvoice(i) \/ ExpireInvoice(i)
      PROVE  Goal
  BY <1>4 DEF CancelInvoice, ExpireInvoice, Closes
<1>5. ASSUME NEW s \in Sms, NEW scope \in Merchants \cup {None}, NEW a \in SmsAmounts,
             IngestMatching(s, scope, a) \/ IngestUnmatched(s, scope, a)
      PROVE  Goal
  BY <1>5, IngestPays, IngestFiles
<1>6. ASSUME NEW s \in Sms, NEW i \in Invoices, AdminApproveSms(s, i)
      PROVE  Goal
  <2>1. sms[s].merchant \in Merchants \cup {None}
    BY DEF TypeInv, TypeOK, SmsRow
  <2> QED BY <1>6, <2>1, ApprovePays
<1>7. ASSUME NEW s \in Sms, AdminRejectSms(s)
      PROVE  Goal
  BY <1>7, RejectFiles
<1>8. ASSUME NEW m \in Merchants, NEW f \in 0..MaxFee, AdminSetFee(m, f)
      PROVE  Goal
  BY <1>8 DEF AdminSetFee, Bystands
<1>9. ASSUME NEW m \in Merchants, NEW a \in AdjustAmounts,
             AdminWalletAdjust(m, a) \/ AdminWalletAdjust(m, -a)
      PROVE  Goal
  BY <1>9 DEF AdminWalletAdjust, Bystands
<1>10. ASSUME NEW n \in 1..Len(ledger), AdminReverseLedger(n)
       PROVE  Goal
  BY <1>10 DEF AdminReverseLedger, Bystands
<1>11. CASE UNCHANGED vars
  BY <1>11 DEF vars, Bystands
<1> QED
  BY <1>1, <1>2, <1>3, <1>4, <1>5, <1>6, <1>7, <1>8, <1>9, <1>10, <1>11 DEF Next
-----------------------------------------------------------------------------
(* Messages and the invoices they pay. *)

LEMMA InitMatch == ConstantsAssumption /\ Init => MatchInv
BY DEF ConstantsAssumption, Init, NoInvoice, NoSms, MatchInv, OneMessagePerPayment,
       MatchIsMutual, AmountsAgree, PaidNames

\* A message that is free pays for an invoice that is not paid: by mutuality
\* no invoice named it before, so no other match is disturbed.
LEMMA PaysMatch ==
    ASSUME ConstantsAssumption, TypeInv, MatchInv,
           NEW s \in Sms, NEW i \in Invoices, NEW scope, PaysWith(s, i, scope)
    PROVE  MatchInv'
<1>1. sms[s].status # "matched" /\ invoice[i].status # "paid"
  BY DEF PaysWith, Unmatched, ConfirmInvoicePaid, Payable
<1>2. /\ sms'[s].status = "matched" /\ sms'[s].invoice = i
      /\ sms'[s].amount = invoice[i].payable
      /\ \A t \in Sms : t # s => sms'[t] = sms[t]
  BY DEF PaysWith, FileSms, TypeInv, TypeOK
<1>3. /\ invoice'[i].status = "paid" /\ invoice'[i].sms = s
      /\ invoice'[i].payable = invoice[i].payable
      /\ \A j \in Invoices : j # i => invoice'[j] = invoice[j]
  BY DEF PaysWith, ConfirmInvoicePaid, TypeInv, TypeOK, InvoiceRow
<1>4. \A j \in Invoices : ~(invoice[j].status = "paid" /\ invoice[j].sms = s)
  BY <1>1 DEF MatchInv, OneMessagePerPayment, MatchIsMutual
<1>5. MatchIsMutual'
  BY <1>1, <1>2, <1>3, <1>4 DEF MatchInv, OneMessagePerPayment, MatchIsMutual
<1>6. PaidNames'
  BY <1>3 DEF MatchInv, PaidNames
<1>7. AmountsAgree'
  BY <1>2, <1>3, <1>4 DEF MatchInv, OneMessagePerPayment, AmountsAgree, PaidNames
<1> QED BY <1>5, <1>6, <1>7 DEF MatchInv, OneMessagePerPayment

LEMMA FilesMatch ==
    ASSUME TypeInv, MatchInv, NEW s \in Sms, Files(s)
    PROVE  MatchInv'
<1>1. /\ sms[s].status # "matched" /\ sms'[s].status # "matched"
      /\ \A t \in Sms : t # s => sms'[t] = sms[t]
      /\ invoice' = invoice
  BY DEF Files, TypeInv, TypeOK
<1>2. \A j \in Invoices : ~(invoice[j].status = "paid" /\ invoice[j].sms = s)
  BY <1>1 DEF MatchInv, OneMessagePerPayment, MatchIsMutual
<1> QED BY <1>1, <1>2 DEF MatchInv, OneMessagePerPayment, MatchIsMutual, AmountsAgree, PaidNames

\* An invoice that is not paid stays unpaid, and the messages are left alone.
LEMMA UnpaidMatch ==
    ASSUME MatchInv, UNCHANGED sms, NEW i \in Invoices,
           invoice[i].status # "paid", invoice'[i].status # "paid",
           \A j \in Invoices : j # i => invoice'[j] = invoice[j]
    PROVE  MatchInv'
BY DEF MatchInv, OneMessagePerPayment, MatchIsMutual, AmountsAgree, PaidNames

LEMMA OpensRow ==
    ASSUME TypeInv, NEW i \in Invoices, Opens(i)
    PROVE  /\ invoice[i].status = "absent" /\ invoice'[i].status = "pending"
           /\ \A j \in Invoices : j # i => invoice'[j] = invoice[j]
           /\ UNCHANGED <<sms, events, overdue>>
BY DEF Opens, TypeInv, TypeOK

LEMMA ClosesRow ==
    ASSUME TypeInv, NEW i \in Invoices, Closes(i)
    PROVE  /\ invoice[i].status = "pending" /\ invoice'[i].status \in {"cancelled", "expired"}
           /\ \A j \in Invoices : j # i => invoice'[j] = invoice[j]
           /\ reservations' = {r \in reservations : r.token # i}
           /\ overdue' = overdue \ {i}
           /\ UNCHANGED <<sms, events>>
BY DEF Closes, ReleaseInvoiceReservation, Releasable, TypeInv, TypeOK, InvoiceRow

LEMMA NextMatch == ConstantsAssumption /\ TypeInv /\ MatchInv /\ [Next]_vars => MatchInv'
<1> SUFFICES ASSUME ConstantsAssumption, TypeInv, MatchInv, [Next]_vars PROVE MatchInv'
  OBVIOUS
<1>1. ASSUME NEW i \in Invoices, Opens(i) PROVE MatchInv'
  BY <1>1, OpensRow, UnpaidMatch
<1>2. ASSUME NEW i \in Invoices, Closes(i) PROVE MatchInv'
  BY <1>2, ClosesRow, UnpaidMatch
<1>3. CASE Bystands
  BY <1>3 DEF Bystands, MatchInv, OneMessagePerPayment, MatchIsMutual, AmountsAgree, PaidNames
<1> QED BY <1>1, <1>2, <1>3, PaysMatch, FilesMatch, KindsOfSteps

\* A bank message pays at most one invoice, and an invoice is paid by one
\* message of its own amount, whatever is redelivered, approved or rejected
\* in whatever order.
THEOREM PaymentsMatch == Spec => []OneMessagePerPayment
<1>1. ConstantsAssumption
  BY ConstantsAssumption
<1>2. Init => MatchInv
  BY <1>1, InitMatch
<1>3. TypeInv /\ MatchInv /\ [Next]_vars => MatchInv'
  BY <1>1, NextMatch
<1>4. MatchInv => OneMessagePerPayment
  BY DEF MatchInv
<1> QED BY <1>2, <1>3, <1>4, SpecTypeInv, PTL DEF Spec

-----------------------------------------------------------------------------
(* Exact amounts. An invoice that can still be paid has its reservation:    *)
(* the purge takes only those of invoices past their deadline, so the next  *)
(* invoice of the card is given an amount no payable invoice asks for.      *)

PayableInvoice(i) == Pending(i) /\ i \notin overdue
ReservationOf(i) == [card |-> invoice[i].merchant, payable |-> invoice[i].payable, token |-> i]
Reserved == \A i \in Invoices : PayableInvoice(i) => ReservationOf(i) \in reservations
AmountInv == NoAmbiguousAmount /\ Reserved

LEMMA InitAmount == Init => AmountInv
BY DEF Init, NoInvoice, AmountInv, NoAmbiguousAmount, Reserved, PayableInvoice, Pending

\* An invoice that stops being payable takes only its own reservation along.
LEMMA FewerPayable ==
    ASSUME AmountInv,
           \A j \in Invoices : PayableInvoice(j)' =>
               /\ PayableInvoice(j) /\ invoice'[j] = invoice[j]
               /\ (ReservationOf(j) \in reservations => ReservationOf(j) \in reservations')
    PROVE  AmountInv'
<1>1. \A j \in Invoices : PayableInvoice(j)' => ReservationOf(j)' = ReservationOf(j)
  BY DEF ReservationOf
<1>2. Reserved'
  BY <1>1 DEF AmountInv, Reserved
<1>3. NoAmbiguousAmount'
  BY DEF AmountInv, NoAmbiguousAmount, PayableInvoice, Pending
<1> QED BY <1>2, <1>3 DEF AmountInv

LEMMA ClosingAmount ==
    ASSUME AmountInv, NEW i \in Invoices, invoice'[i].status # "pending",
           \A j \in Invoices : j # i => invoice'[j] = invoice[j],
           reservations' = {r \in reservations : r.token # i},
           overdue' = overdue \ {i}
    PROVE  AmountInv'
<1> SUFFICES ASSUME NEW j \in Invoices, PayableInvoice(j)'
             PROVE  /\ PayableInvoice(j) /\ invoice'[j] = invoice[j]
                    /\ (ReservationOf(j) \in reservations => ReservationOf(j) \in reservations')
  BY FewerPayable
<1>1. j # i
  BY DEF PayableInvoice, Pending
<1>2. ReservationOf(j).token = j
  BY DEF ReservationOf
<1> QED BY <1>1, <1>2 DEF PayableInvoice, Pending

LEMMA OpensAmount ==
    ASSUME TypeInv, AmountInv, NEW i \in Invoices, Opens(i)
    PROVE  AmountInv'
<1>1. PICK row \in InvoiceRow, card \in Merchants :
          /\ row.status = "pending" /\ row.merchant = card
          /\ invoice' = [invoice EXCEPT ![i] = row]
          /\ row.payable \notin Payables(card)
          /\ reservations' = LiveReservations
                \cup {[card |-> card, payable |-> row.payable, token |-> i]}
  BY DEF Opens
<1>2. /\ invoice'[i] = row /\ overdue' = overdue
      /\ \A j \in Invoices : j # i => invoice'[j] = invoice[j]
  BY <1>1 DEF Opens, TypeInv, TypeOK
<1>3. ASSUME NEW j \in Invoices, PayableInvoice(j)
      PROVE  /\ ReservationOf(j) \in LiveReservations
             /\ invoice[j].merchant = card => invoice[j].payable # row.payable
  <2>1. ReservationOf(j) \in reservations /\ ReservationOf(j).token = j
    BY <1>3 DEF AmountInv, Reserved, ReservationOf
  <2>2. ReservationOf(j) \in LiveReservations
    BY <1>3, <2>1 DEF LiveReservations, PayableInvoice
  <2>3. /\ ReservationOf(j).card = invoice[j].merchant
        /\ ReservationOf(j).payable = invoice[j].payable
    BY DEF ReservationOf
  <2>4. invoice[j].merchant = card => invoice[j].payable \in Payables(card)
    BY <2>2, <2>3 DEF Payables
  <2> QED BY <1>1, <2>2, <2>4
<1>4. \A j \in Invoices : j # i => (PayableInvoice(j)' <=> PayableInvoice(j))
  BY <1>2 DEF PayableInvoice, Pending
<1>5. Reserved'
  <2> SUFFICES ASSUME NEW j \in Invoices, PayableInvoice(j)'
               PROVE  ReservationOf(j)' \in reservations'
    BY DEF Reserved
  <2>1. CASE j = i
    BY <1>1, <1>2, <2>1 DEF ReservationOf
  <2>2. CASE j # i
    BY <1>1, <1>2, <1>3, <1>4, <2>2 DEF ReservationOf
  <2> QED BY <2>1, <2>2
<1>6. NoAmbiguousAmount'
  <2> SUFFICES ASSUME NEW j \in Invoices, NEW k \in Invoices, j # k,
                      PayableInvoice(j)', PayableInvoice(k)',
                      invoice'[j].merchant = invoice'[k].merchant
               PROVE  invoice'[j].payable # invoice'[k].payable
    BY DEF NoAmbiguousAmount, PayableInvoice
  <2>1. CASE j # i /\ k # i
    BY <1>2, <1>4, <2>1 DEF AmountInv, NoAmbiguousAmount, PayableInvoice
  <2>2. CASE j = i
    BY <1>1, <1>2, <1>3, <1>4, <2>2
  <2>3. CASE k = i
    BY <1>1, <1>2, <1>3, <1>4, <2>3
  <2> QED BY <2>1, <2>2, <2>3
<1> QED BY <1>5, <1>6 DEF AmountInv

LEMMA PaysRow ==
    ASSUME TypeInv, NEW s \in Sms, NEW i \in Invoices, NEW scope, PaysWith(s, i, scope)
    PROVE  /\ invoice[i].status = "pending" /\ invoice'[i].status = "paid"
           /\ invoice'[i].purpose = invoice[i].purpose /\ invoice'[i].hook = invoice[i].hook
           /\ \A j \in Invoices : j # i => invoice'[j] = invoice[j]
           /\ reservations' = {r \in reservations : r.token # i}
           /\ overdue' = overdue \ {i}
           /\ events' = IF Hooked(invoice[i]) THEN events \cup {i} ELSE events
BY DEF PaysWith, ConfirmInvoicePaid, Payable, TypeInv, TypeOK, InvoiceRow

LEMMA NextAmount == ConstantsAssumption /\ TypeInv /\ AmountInv /\ [Next]_vars => AmountInv'
<1> SUFFICES ASSUME ConstantsAssumption, TypeInv, AmountInv, [Next]_vars PROVE AmountInv'
  OBVIOUS
<1>1. ASSUME NEW i \in Invoices, Closes(i) PROVE AmountInv'
  BY <1>1, ClosesRow, ClosingAmount
<1>2. ASSUME NEW s \in Sms, NEW i \in Invoices, NEW scope, PaysWith(s, i, scope) PROVE AmountInv'
  BY <1>2, PaysRow, ClosingAmount
<1>3. ASSUME UNCHANGED <<invoice, reservations>>, overdue \subseteq overdue' PROVE AmountInv'
  BY <1>3, FewerPayable DEF PayableInvoice, Pending
<1> QED BY <1>1, <1>2, <1>3, OpensAmount, KindsOfSteps DEF Files, Bystands

\* Two invoices of one card that can still be paid never ask for the same
\* amount, although reservations are purged by whoever reserves next and an
\* expired invoice stays open until the worker, a page or a query meets it.
THEOREM AmountsUnambiguous == Spec => []NoAmbiguousAmount
<1>1. ConstantsAssumption
  BY ConstantsAssumption
<1>2. Init => AmountInv
  BY InitAmount
<1>3. TypeInv /\ AmountInv /\ [Next]_vars => AmountInv'
  BY <1>1, NextAmount
<1>4. AmountInv => NoAmbiguousAmount
  BY DEF AmountInv
<1> QED BY <1>2, <1>3, <1>4, SpecTypeInv, PTL DEF Spec

-----------------------------------------------------------------------------
(* Closed invoices and callback events. *)

\* No step changes a paid, cancelled or expired invoice.
LEMMA NextClosed ==
    ASSUME ConstantsAssumption, TypeInv, [Next]_vars, NEW j \in Invoices,
           invoice[j].status \in Closed
    PROVE  invoice'[j] = invoice[j]
<1>1. ASSUME NEW i \in Invoices, Opens(i) PROVE invoice'[j] = invoice[j]
  BY <1>1, OpensRow DEF Closed
<1>2. ASSUME NEW i \in Invoices, Closes(i) PROVE invoice'[j] = invoice[j]
  BY <1>2, ClosesRow DEF Closed
<1>3. ASSUME NEW s \in Sms, NEW i \in Invoices, NEW scope, PaysWith(s, i, scope)
      PROVE  invoice'[j] = invoice[j]
  BY <1>3, PaysRow DEF Closed
<1> QED BY <1>1, <1>2, <1>3, KindsOfSteps DEF Files, Bystands

\* A paid, cancelled or expired invoice stays as it is, whatever late message,
\* approval, cancellation or expiration meets it.
THEOREM ClosedStaysClosed == Spec => ClosedIsFinal
<1>1. ConstantsAssumption
  BY ConstantsAssumption
<1>2. TypeInv /\ [Next]_vars =>
          [\A i \in Invoices : invoice[i].status \in Closed => invoice'[i] = invoice[i]]_vars
  BY <1>1, NextClosed
<1> QED BY <1>2, SpecTypeInv, PTL DEF Spec, ClosedIsFinal

LEMMA NextQueued ==
    ASSUME ConstantsAssumption, TypeInv, PaidIffQueued, [Next]_vars
    PROVE  PaidIffQueued'
<1>1. ASSUME NEW i \in Invoices, Opens(i) PROVE PaidIffQueued'
  BY <1>1, OpensRow DEF PaidIffQueued
<1>2. ASSUME NEW i \in Invoices, Closes(i) PROVE PaidIffQueued'
  BY <1>2, ClosesRow DEF PaidIffQueued
<1>3. ASSUME NEW s \in Sms, NEW i \in Invoices, NEW scope, PaysWith(s, i, scope)
      PROVE  PaidIffQueued'
  BY <1>3, PaysRow DEF PaidIffQueued, Hooked
<1> QED BY <1>1, <1>2, <1>3, KindsOfSteps DEF Files, Bystands, PaidIffQueued

\* An invoice is paid in the same commit that files the callback event its
\* merchant asked for: there is no paid invoice without its event, and no
\* event of an invoice that is not paid.
THEOREM EventsFollowPayments == Spec => []PaidIffQueued
<1>1. ConstantsAssumption
  BY ConstantsAssumption
<1>2. Init => PaidIffQueued
  BY DEF Init, NoInvoice, PaidIffQueued
<1>3. TypeInv /\ PaidIffQueued /\ [Next]_vars => PaidIffQueued'
  BY <1>1, NextQueued
<1> QED BY <1>2, <1>3, SpecTypeInv, PTL DEF Spec

-----------------------------------------------------------------------------
(***************************************************************************)
(* The append-only ledger tells every posting, once and in order.          *)
(***************************************************************************)

\* One ledger row and the balance it explains are written together.
Booked == \E m \in Merchants, b \in Balance, kind \in EntryKind, i \in Invoices \cup {None},
             a \in Int, n \in Nat : Book(m, b, kind, i, a, n)

-----------------------------------------------------------------------------
(* The chain of balances. *)

LEMMA ReleaseBooks ==
    ASSUME ConstantsAssumption, TypeInv, NEW i \in Invoices, NEW status,
           ReleaseInvoiceReservation(i, status)
    PROVE  Booked \/ UNCHANGED <<acct, ledger>>
<1> DEFINE row == invoice[i]
<1>1. row.merchant \in Merchants /\ row.fee \in Int
  BY DEF ReleaseInvoiceReservation, Releasable, TypeInv, TypeOK, RowsComplete, InvoiceRow,
         ConstantsAssumption
<1>2. acct[row.merchant] \in Balance
  BY <1>1 DEF TypeInv, TypeOK
<1>3. ReleaseFee(acct[row.merchant], row.fee) \in Balance
  BY <1>1, <1>2, BalanceOps
<1>4. \/ Book(row.merchant, ReleaseFee(acct[row.merchant], row.fee), "fee_released", i, row.fee, 0)
      \/ UNCHANGED <<acct, ledger>>
  BY DEF ReleaseInvoiceReservation
<1> HIDE DEF row
<1> QED BY <1>1, <1>3, <1>4 DEF Booked, EntryKind

LEMMA ConfirmBooks ==
    ASSUME ConstantsAssumption, TypeInv, NEW i \in Invoices, NEW s, ConfirmInvoicePaid(i, s)
    PROVE  Booked \/ UNCHANGED <<acct, ledger>>
<1> DEFINE row == invoice[i]
<1>1. /\ row.merchant \in Merchants /\ row.fee \in Int /\ -row.fee \in Int
      /\ row.payable \in Int
      /\ row.purpose = "wallet_topup" => row.target \in Merchants
  BY DEF ConfirmInvoicePaid, Payable, TypeInv, TypeOK, RowsComplete, InvoiceRow,
         ConstantsAssumption
<1>2. acct \in [Merchants -> Balance]
  BY DEF TypeInv, TypeOK
<1>3. ChargeFee(acct[row.merchant], row.fee) \in Balance
  BY <1>1, <1>2, BalanceOps
<1>4. row.purpose = "wallet_topup" => AddToWallet(acct[row.target], row.payable) \in Balance
  BY <1>1, <1>2, BalanceOps
<1>5. \/ Book(row.merchant, ChargeFee(acct[row.merchant], row.fee), "verification_fee", i, -row.fee, 0)
      \/ UNCHANGED <<acct, ledger>>
      \/ /\ row.purpose = "wallet_topup"
         /\ Book(row.target, AddToWallet(acct[row.target], row.payable), "wallet_topup", i, row.payable, 0)
  BY DEF ConfirmInvoicePaid
<1> HIDE DEF row
<1> QED BY <1>1, <1>3, <1>4, <1>5 DEF Booked, EntryKind

LEMMA StepsBook ==
    ASSUME ConstantsAssumption, TypeInv, [Next]_vars
    PROVE  Booked \/ UNCHANGED <<acct, ledger>>
<1> DEFINE Goal == Booked \/ UNCHANGED <<acct, ledger>>
<1>1. ASSUME NEW m \in Merchants, NEW i \in Invoices, NEW b \in BaseAmounts,
             NEW mode \in FeeModes, NEW hook \in BOOLEAN, CreateInvoice(m, i, b, mode, hook)
      PROVE  Goal
  <2>1. verificationFee[m] \in Int /\ -verificationFee[m] \in Int
    BY DEF TypeInv, TypeOK, ConstantsAssumption
  <2>2. HoldFee(acct[m], verificationFee[m]) \in Balance
    BY <2>1, BalanceOps DEF TypeInv, TypeOK
  <2> QED BY <1>1, <2>1, <2>2 DEF CreateInvoice, Booked, EntryKind
<1>2. ASSUME NEW m \in Merchants, NEW a \in Int, AdminWalletAdjust(m, a)
      PROVE  Goal
  <2>1. AddToWallet(acct[m], a) \in Balance
    BY BalanceOps DEF TypeInv, TypeOK
  <2> QED BY <1>2, <2>1 DEF AdminWalletAdjust, Booked, EntryKind
<1>3. ASSUME NEW n \in 1..Len(ledger), AdminReverseLedger(n)
      PROVE  Goal
  <2>1. ledger[n] \in LedgerRow
    BY DEF TypeInv, TypeOK
  <2>2. /\ ledger[n].merchant \in Merchants /\ -ledger[n].amount \in Int
        /\ ledger[n].invoice \in Invoices \cup {None}
    BY <2>1 DEF LedgerRow
  <2>3. AddToWallet(acct[ledger[n].merchant], -ledger[n].amount) \in Balance
    BY <2>2, BalanceOps DEF TypeInv, TypeOK
  <2> QED BY <1>3, <2>2, <2>3 DEF AdminReverseLedger, Booked, EntryKind
<1>4. \A a \in AdjustAmounts : a \in Int /\ -a \in Int
  BY DEF ConstantsAssumption
<1>5. ASSUME NEW i \in Invoices, CancelInvoice(i) \/ ExpireInvoice(i)
      PROVE  Goal
  BY <1>5, ReleaseBooks DEF CancelInvoice, ExpireInvoice
<1>6. ASSUME NEW s \in Sms, NEW i \in Invoices, ConfirmInvoicePaid(i, s)
      PROVE  Goal
  BY <1>6, ConfirmBooks
<1>7. ASSUME NEW s \in Sms, NEW scope \in Merchants \cup {None}, NEW a \in SmsAmounts,
             IngestMatching(s, scope, a) \/ IngestUnmatched(s, scope, a)
      PROVE  Goal
  BY <1>6, <1>7 DEF IngestMatching, IngestUnmatched
<1>8. ASSUME NEW s \in Sms, NEW i \in Invoices, AdminApproveSms(s, i)
      PROVE  Goal
  BY <1>6, <1>8 DEF AdminApproveSms
<1>9. ASSUME NEW m \in Merchants, NEW a \in AdjustAmounts,
             AdminWalletAdjust(m, a) \/ AdminWalletAdjust(m, -a)
      PROVE  Goal
  BY <1>2, <1>4, <1>9
<1>10. ASSUME NEW t \in Merchants, NEW i \in Invoices, NEW b \in BaseAmounts,
              CreateWalletTopupInvoice(t, i, b)
       PROVE  Goal
  BY <1>10 DEF CreateWalletTopupInvoice
<1>11. ASSUME NEW i \in Invoices, PassDeadline(i)
       PROVE  Goal
  BY <1>11 DEF PassDeadline
<1>12. ASSUME NEW s \in Sms, AdminRejectSms(s)
       PROVE  Goal
  BY <1>12 DEF AdminRejectSms
<1>13. ASSUME NEW m \in Merchants, NEW f \in 0..MaxFee, AdminSetFee(m, f)
       PROVE  Goal
  BY <1>13 DEF AdminSetFee
<1>14. CASE UNCHANGED vars
  BY <1>14 DEF vars
<1> QED
  BY <1>1, <1>3, <1>5, <1>7, <1>8, <1>9, <1>10, <1>11, <1>12, <1>13, <1>14 DEF Next

\* A row that starts from the merchant's present balances continues the chain.
LEMMA BookedExplains ==
    ASSUME TypeInv, LedgerExplainsWallet, Booked
    PROVE  LedgerExplainsWallet'
<1>1. PICK m \in Merchants, b \in Balance, kind \in EntryKind, i \in Invoices \cup {None},
           a \in Int, n \in Nat : Book(m, b, kind, i, a, n)
  BY DEF Booked
<1> DEFINE L == Len(ledger)
           row == [merchant |-> m, kind |-> kind, invoice |-> i, amount |-> a,
                   before |-> acct[m], after |-> b, reverses |-> n]
<1>2. /\ L \in Nat /\ Len(ledger') = L + 1 /\ ledger'[L + 1] = row
      /\ \A k \in 1..L : ledger'[k] = ledger[k] /\ ledger[k].merchant \in Merchants
  <2>1. ledger \in Seq(LedgerRow) /\ ledger' = Append(ledger, row)
    BY <1>1 DEF Book, TypeInv, TypeOK
  <2>2. \A k \in 1..L : ledger[k] \in LedgerRow
    BY <2>1
  <2>3. \A k \in 1..L : ledger[k].merchant \in Merchants
    BY <2>2 DEF LedgerRow
  <2> HIDE DEF row
  <2> QED BY <2>1, <2>3
<1>3. acct'[m] = b /\ \A q \in Merchants : q # m => acct'[q] = acct[q]
  BY <1>1 DEF Book, TypeInv, TypeOK
<1>4. row.merchant = m /\ row.before = acct[m] /\ row.after = b
  OBVIOUS
<1> HIDE DEF row
<1>5. ASSUME NEW k \in 1..(L + 1), NEW l \in 1..(L + 1), Precedes(k, l)'
      PROVE  ledger'[l].before = ledger'[k].after
  <2>1. k < l /\ k \in 1..L
    BY <1>2, <1>5 DEF Precedes
  <2>2. CASE l = L + 1
    <3>1. ledger[k].merchant = m
      BY <1>2, <1>4, <1>5, <2>1, <2>2 DEF Precedes
    <3>2. \A j \in (k + 1)..L : ledger[j].merchant # m
      BY <1>2, <1>4, <1>5, <2>1, <2>2 DEF Precedes
    <3>3. acct[m] = ledger[k].after
      BY <2>1, <3>1, <3>2 DEF LedgerExplainsWallet
    <3> QED BY <1>2, <1>4, <2>1, <2>2, <3>3
  <2>3. CASE l # L + 1
    <3>1. l \in 1..L
      BY <1>2, <2>3
    <3>2. Precedes(k, l)
      BY <1>2, <1>5, <2>1, <3>1 DEF Precedes
    <3> QED BY <1>2, <2>1, <3>1, <3>2 DEF LedgerExplainsWallet
  <2> QED BY <2>2, <2>3
<1>6. ASSUME NEW l \in 1..(L + 1),
             \A j \in (l + 1)..(L + 1) : ledger'[j].merchant # ledger'[l].merchant
      PROVE  acct'[ledger'[l].merchant] = ledger'[l].after
  <2>1. CASE l = L + 1
    BY <1>2, <1>3, <1>4, <2>1
  <2>2. CASE l # L + 1
    <3>1. l \in 1..L /\ L + 1 \in (l + 1)..(L + 1)
      BY <1>2, <2>2
    <3>2. ledger[l].merchant # m /\ ledger[l].merchant \in Merchants
      BY <1>2, <1>4, <1>6, <3>1
    <3>3. \A j \in (l + 1)..L : ledger[j].merchant # ledger[l].merchant
      BY <1>2, <1>6, <3>1
    <3>4. acct[ledger[l].merchant] = ledger[l].after
      BY <3>1, <3>3 DEF LedgerExplainsWallet
    <3> QED BY <1>2, <1>3, <3>1, <3>2, <3>4
  <2> QED BY <2>1, <2>2
<1> QED BY <1>2, <1>5, <1>6 DEF LedgerExplainsWallet

\* Every change of a wallet is a row of the ledger that starts from the
\* balances the merchant's previous row left: nothing is posted beside the
\* ledger, and no row is written from balances read too late.
THEOREM LedgerExplains == Spec => []LedgerExplainsWallet
<1>1. ConstantsAssumption
  BY ConstantsAssumption
<1>2. Init => LedgerExplainsWallet
  BY DEF Init, LedgerExplainsWallet
<1>3. TypeInv /\ LedgerExplainsWallet /\ [Next]_vars => LedgerExplainsWallet'
  <2> SUFFICES ASSUME TypeInv, LedgerExplainsWallet, [Next]_vars
               PROVE  LedgerExplainsWallet'
    OBVIOUS
  <2>1. CASE UNCHANGED <<acct, ledger>>
    BY <2>1 DEF LedgerExplainsWallet, Precedes
  <2> QED BY <1>1, <2>1, StepsBook, BookedExplains
<1> QED BY <1>2, <1>3, SpecTypeInv, PTL DEF Spec
-----------------------------------------------------------------------------
(* One row per event of an invoice's life. Due(row, kind) says which rows   *)
(* the invoice as it stands must have; each step that makes one due writes  *)
(* exactly that one.                                                        *)

FeeKinds == {"fee_reserved", "verification_fee", "fee_released", "wallet_topup"}

Due(row, kind) ==
    \/ kind = "fee_reserved" /\ row.fee > 0
    \/ kind = "verification_fee" /\ row.fee > 0 /\ row.status = "paid"
    \/ kind = "fee_released" /\ row.fee > 0 /\ row.status \in {"cancelled", "expired"}
    \/ kind = "wallet_topup" /\ row.purpose = "wallet_topup" /\ row.status = "paid"

RowsDue == \A i \in Invoices, kind \in FeeKinds : RowsOf(i, kind) = OneIf(Due(invoice[i], kind))

\* An absent row is blank: it bears no fee and is no top-up.
AbsentBlank == \A i \in Invoices : invoice[i].status = "absent" => invoice[i] = NoInvoice

LEMMA DueSaysIt == RowsDue <=> LedgerFollowsInvoices
<1>1. ASSUME NEW i \in Invoices
      PROVE  /\ Due(invoice[i], "fee_reserved") <=> invoice[i].fee > 0
             /\ Due(invoice[i], "verification_fee") <=> invoice[i].fee > 0 /\ invoice[i].status = "paid"
             /\ Due(invoice[i], "fee_released") <=>
                   invoice[i].fee > 0 /\ invoice[i].status \in {"cancelled", "expired"}
             /\ Due(invoice[i], "wallet_topup") <=>
                   invoice[i].purpose = "wallet_topup" /\ invoice[i].status = "paid"
  BY DEF Due
<1> QED BY <1>1 DEF RowsDue, LedgerFollowsInvoices, FeeKinds, OneIf

LEMMA RowsCount ==
    ASSUME ledger \in Seq(LedgerRow), NEW i, NEW kind
    PROVE  /\ IsFiniteSet({n \in 1..Len(ledger) : ledger[n].invoice = i /\ ledger[n].kind = kind})
           /\ RowsOf(i, kind) \in Nat
<1>1. IsFiniteSet(1..Len(ledger))
  BY FS_Interval
<1>2. IsFiniteSet({n \in 1..Len(ledger) : ledger[n].invoice = i /\ ledger[n].kind = kind})
  BY <1>1, FS_Subset
<1> QED BY <1>2, FS_CardinalityType DEF RowsOf

\* A posting adds one to the count of its own kind and invoice only.
LEMMA BookCounts ==
    ASSUME ledger \in Seq(LedgerRow), NEW m, NEW b, NEW k, NEW i, NEW a, NEW n,
           Book(m, b, k, i, a, n), NEW j, NEW kind
    PROVE  RowsOf(j, kind)' = RowsOf(j, kind) + OneIf(j = i /\ kind = k)
<1> DEFINE L == Len(ledger)
           row == [merchant |-> m, kind |-> k, invoice |-> i, amount |-> a,
                   before |-> acct[m], after |-> b, reverses |-> n]
           S == {x \in 1..L : ledger[x].invoice = j /\ ledger[x].kind = kind}
<1>1. row.invoice = i /\ row.kind = k /\ ledger' = Append(ledger, row)
  BY DEF Book
<1> HIDE DEF row
<1>2. /\ L \in Nat /\ Len(ledger') = L + 1 /\ ledger'[L + 1] = row
      /\ \A x \in 1..L : ledger'[x] = ledger[x]
  BY <1>1
<1>3. IsFiniteSet(S) /\ Cardinality(S) \in Nat /\ Cardinality(S) = RowsOf(j, kind)
  <2>1. Cardinality(S) = RowsOf(j, kind)
    BY Zenon DEF RowsOf
  <2>2. IsFiniteSet(S)
    BY RowsCount, Zenon
  <2> HIDE DEF S
  <2> QED BY <2>1, <2>2, FS_CardinalityType
<1>4. RowsOf(j, kind)' = Cardinality({x \in 1..(L + 1) : ledger'[x].invoice = j /\ ledger'[x].kind = kind})
  <2>1. 1..Len(ledger)' = 1..(L + 1)
    BY <1>2
  <2> QED BY <2>1, Zenon DEF RowsOf
<1> HIDE DEF S
<1>5. CASE j = i /\ kind = k
  <2>1. {x \in 1..(L + 1) : ledger'[x].invoice = j /\ ledger'[x].kind = kind} = S \cup {L + 1}
    BY <1>1, <1>2, <1>5 DEF S
  <2>2. L + 1 \notin S
    BY <1>2 DEF S
  <2>3. Cardinality(S \cup {L + 1}) = Cardinality(S) + 1
    BY <1>3, <2>2, FS_AddElement
  <2> QED BY <1>3, <1>4, <1>5, <2>1, <2>3 DEF OneIf
<1>6. CASE ~(j = i /\ kind = k)
  <2>1. {x \in 1..(L + 1) : ledger'[x].invoice = j /\ ledger'[x].kind = kind} = S
    BY <1>1, <1>2, <1>6 DEF S
  <2>2. RowsOf(j, kind)' = Cardinality(S)
    BY <1>4, <2>1, Zenon
  <2>3. OneIf(j = i /\ kind = k) = 0
    BY <1>6 DEF OneIf
  <2> QED BY <1>3, <2>2, <2>3
<1> QED BY <1>5, <1>6

RowsInv == RowsDue /\ AbsentBlank

\* No invoice changes and nothing of an invoice's life is posted.
LEMMA SameRows ==
    ASSUME RowsInv, UNCHANGED invoice,
           \A i \in Invoices, kind \in FeeKinds : RowsOf(i, kind)' = RowsOf(i, kind)
    PROVE  RowsInv'
<1>1. ASSUME NEW i \in Invoices, NEW kind \in FeeKinds
      PROVE  RowsOf(i, kind)' = OneIf(Due(invoice'[i], kind))
  BY DEF RowsInv, RowsDue
<1> QED BY <1>1 DEF RowsInv, RowsDue, AbsentBlank

LEMMA PostingRows ==
    ASSUME TypeInv, RowsInv, UNCHANGED invoice, NEW m, NEW b, NEW i, NEW a, NEW n,
           NEW k \in {"credit", "debit", "reversal"}, Book(m, b, k, i, a, n)
    PROVE  RowsInv'
<1>1. ASSUME NEW j \in Invoices, NEW kind \in FeeKinds PROVE RowsOf(j, kind)' = RowsOf(j, kind)
  <2>1. RowsOf(j, kind)' = RowsOf(j, kind) + OneIf(j = i /\ kind = k)
    BY BookCounts DEF TypeInv, TypeOK
  <2>2. kind # k /\ RowsOf(j, kind) \in Nat
    BY RowsCount DEF FeeKinds, TypeInv, TypeOK
  <2> QED BY <2>1, <2>2 DEF OneIf
<1> QED BY <1>1, SameRows

\* Invoice i gets a new row that makes one more ledger row due, which is
\* written, or none, when nothing is.
LEMMA InvoiceRows ==
    ASSUME TypeInv, RowsInv, NEW i \in Invoices, NEW k,
           \A j \in Invoices : j # i => invoice'[j] = invoice[j],
           invoice'[i].status # "absent",
           \A kind \in FeeKinds : ~(kind = k /\ Due(invoice[i], kind)),
           \A kind \in FeeKinds : Due(invoice'[i], kind) <=> Due(invoice[i], kind) \/ kind = k,
           \/ k \in FeeKinds /\ \E m, b, a, n : Book(m, b, k, i, a, n)
           \/ k \notin FeeKinds /\ UNCHANGED ledger
    PROVE  RowsInv'
<1>1. ASSUME NEW j \in Invoices, NEW kind \in FeeKinds
      PROVE  RowsOf(j, kind)' = RowsOf(j, kind) + OneIf(j = i /\ kind = k)
  <2>1. RowsOf(j, kind) \in Nat
    BY RowsCount DEF TypeInv, TypeOK
  <2>2. CASE k \in FeeKinds
    BY <2>2, BookCounts DEF TypeInv, TypeOK
  <2>3. CASE k \notin FeeKinds
    <3>1. RowsOf(j, kind)' = RowsOf(j, kind)
      BY <2>3, Zenon DEF RowsOf
    <3> QED BY <2>1, <2>3, <3>1 DEF OneIf
  <2> QED BY <2>2, <2>3
<1>2. ASSUME NEW j \in Invoices, NEW kind \in FeeKinds
      PROVE  RowsOf(j, kind)' = OneIf(Due(invoice'[j], kind))
  <2>1. RowsOf(j, kind) = OneIf(Due(invoice[j], kind))
    BY DEF RowsInv, RowsDue
  <2> QED BY <1>1, <2>1 DEF OneIf
<1>3. RowsDue'
  BY <1>2 DEF RowsDue
<1>4. AbsentBlank'
  BY DEF RowsInv, AbsentBlank
<1> QED BY <1>3, <1>4 DEF RowsInv
\* What creation, release and confirmation do to an invoice row.
LEMMA CreateRows ==
    ASSUME ConstantsAssumption, TypeInv, RowsInv,
           NEW m \in Merchants, NEW i \in Invoices, NEW base \in BaseAmounts,
           NEW mode \in FeeModes, NEW hook \in BOOLEAN,
           CreateInvoice(m, i, base, mode, hook)
    PROVE  RowsInv'
<1> DEFINE f == verificationFee[m]
           k == IF f > 0 THEN "fee_reserved" ELSE "none"
<1>1. f \in Nat
  BY DEF TypeInv, TypeOK, ConstantsAssumption
<1>2. PICK p : invoice' = [invoice EXCEPT ![i] = PendingInvoice(m, f, p, "payment", None, hook)]
  BY DEF CreateInvoice
<1>3. /\ invoice'[i].status = "pending" /\ invoice'[i].fee = f /\ invoice'[i].purpose = "payment"
      /\ \A j \in Invoices : j # i => invoice'[j] = invoice[j]
  BY <1>2 DEF PendingInvoice, TypeInv, TypeOK
<1>4. invoice[i].fee = 0 /\ invoice[i].status = "absent"
  BY DEF CreateInvoice, RowsInv, AbsentBlank, NoInvoice
<1>5. IF f > 0 THEN Book(m, HoldFee(acct[m], f), "fee_reserved", i, -f, 0) ELSE UNCHANGED <<acct, ledger>>
  BY DEF CreateInvoice
<1> HIDE DEF f
<1>6. \/ k \in FeeKinds /\ \E q, b, a, n : Book(q, b, k, i, a, n)
      \/ k \notin FeeKinds /\ UNCHANGED ledger
  BY <1>5 DEF FeeKinds
<1>7. \A kind \in FeeKinds : ~(kind = k /\ Due(invoice[i], kind))
  BY <1>4 DEF Due, FeeKinds
<1>8. \A kind \in FeeKinds : Due(invoice'[i], kind) <=> Due(invoice[i], kind) \/ kind = k
  BY <1>1, <1>3, <1>4 DEF Due, FeeKinds, InvoiceStatus
<1> HIDE DEF k
<1> QED BY <1>3, <1>6, <1>7, <1>8, InvoiceRows

LEMMA TopupRows ==
    ASSUME TypeInv, RowsInv, NEW t, NEW i \in Invoices, NEW base,
           CreateWalletTopupInvoice(t, i, base)
    PROVE  RowsInv'
<1>1. PICK p : invoice' = [invoice EXCEPT ![i] = PendingInvoice(Owner, 0, p, "wallet_topup", t, FALSE)]
  BY DEF CreateWalletTopupInvoice
<1>2. /\ invoice'[i].status = "pending" /\ invoice'[i].fee = 0
      /\ \A j \in Invoices : j # i => invoice'[j] = invoice[j]
  BY <1>1 DEF PendingInvoice, TypeInv, TypeOK
<1>3. invoice[i].fee = 0 /\ invoice[i].status = "absent"
  BY DEF CreateWalletTopupInvoice, RowsInv, AbsentBlank, NoInvoice
<1>4. UNCHANGED ledger /\ "none" \notin FeeKinds
  BY DEF CreateWalletTopupInvoice, FeeKinds
<1>5. \A kind \in FeeKinds : ~Due(invoice[i], kind) /\ ~Due(invoice'[i], kind)
  BY <1>2, <1>3 DEF Due, FeeKinds
<1> QED BY <1>2, <1>4, <1>5, InvoiceRows

LEMMA ReleaseRows ==
    ASSUME ConstantsAssumption, TypeInv, RowsInv, NEW i \in Invoices,
           NEW status \in {"cancelled", "expired"}, ReleaseInvoiceReservation(i, status)
    PROVE  RowsInv'
<1> DEFINE f == invoice[i].fee
           k == IF f > 0 THEN "fee_released" ELSE "none"
<1>1. f \in Nat
  BY DEF TypeInv, TypeOK, InvoiceRow, ConstantsAssumption
<1>2. /\ invoice[i].status = "pending" /\ invoice'[i].status = status
      /\ invoice'[i].fee = f /\ invoice'[i].purpose = invoice[i].purpose
      /\ \A j \in Invoices : j # i => invoice'[j] = invoice[j]
  BY DEF ReleaseInvoiceReservation, Releasable, TypeInv, TypeOK, InvoiceRow
<1>3. \/ f > 0 /\ \E q, b, a, n : Book(q, b, "fee_released", i, a, n)
      \/ ~(f > 0) /\ UNCHANGED ledger
  BY DEF ReleaseInvoiceReservation
<1>4. \/ k \in FeeKinds /\ \E q, b, a, n : Book(q, b, k, i, a, n)
      \/ k \notin FeeKinds /\ UNCHANGED ledger
  BY <1>3 DEF FeeKinds
<1>5. \A kind \in FeeKinds : ~(kind = k /\ Due(invoice[i], kind))
  BY <1>2 DEF Due, FeeKinds
<1>6. \A kind \in FeeKinds : Due(invoice'[i], kind) <=> Due(invoice[i], kind) \/ kind = k
  BY <1>1, <1>2 DEF Due, FeeKinds
<1> HIDE DEF k, f
<1> QED BY <1>2, <1>4, <1>5, <1>6, InvoiceRows

LEMMA ConfirmRows ==
    ASSUME ConstantsAssumption, TypeInv, RowsInv, NEW i \in Invoices, NEW s,
           ConfirmInvoicePaid(i, s)
    PROVE  RowsInv'
<1> DEFINE f == invoice[i].fee
           topup == invoice[i].purpose = "wallet_topup"
           k == IF topup THEN "wallet_topup" ELSE IF f > 0 THEN "verification_fee" ELSE "none"
<1>1. f \in Nat /\ (topup => f = 0)
  BY DEF TypeInv, TypeOK, RowsComplete, InvoiceRow, ConstantsAssumption
<1>2. /\ invoice[i].status = "pending" /\ invoice'[i].status = "paid"
      /\ invoice'[i].fee = f /\ invoice'[i].purpose = invoice[i].purpose
      /\ \A j \in Invoices : j # i => invoice'[j] = invoice[j]
  BY DEF ConfirmInvoicePaid, Payable, TypeInv, TypeOK, InvoiceRow
<1>3. \/ ~topup /\ f > 0 /\ \E q, b, a, n : Book(q, b, "verification_fee", i, a, n)
      \/ ~topup /\ f = 0 /\ UNCHANGED ledger
      \/ topup /\ \E q, b, a, n : Book(q, b, "wallet_topup", i, a, n)
  BY DEF ConfirmInvoicePaid
<1>4. \/ k \in FeeKinds /\ \E q, b, a, n : Book(q, b, k, i, a, n)
      \/ k \notin FeeKinds /\ UNCHANGED ledger
  BY <1>3 DEF FeeKinds
<1>5. \A kind \in FeeKinds : ~(kind = k /\ Due(invoice[i], kind))
  BY <1>2 DEF Due, FeeKinds
<1>6. \A kind \in FeeKinds : Due(invoice'[i], kind) <=> Due(invoice[i], kind) \/ kind = k
  BY <1>1, <1>2 DEF Due, FeeKinds
<1> HIDE DEF k, f, topup
<1> QED BY <1>2, <1>4, <1>5, <1>6, InvoiceRows

LEMMA NextRows ==
    ASSUME ConstantsAssumption, TypeInv, RowsInv, [Next]_vars
    PROVE  RowsInv'
<1>1. ASSUME NEW m \in Merchants, NEW i \in Invoices, NEW b \in BaseAmounts,
             NEW mode \in FeeModes, NEW hook \in BOOLEAN, CreateInvoice(m, i, b, mode, hook)
      PROVE  RowsInv'
  BY <1>1, CreateRows
<1>2. ASSUME NEW t \in Merchants, NEW i \in Invoices, NEW b \in BaseAmounts,
             CreateWalletTopupInvoice(t, i, b)
      PROVE  RowsInv'
  BY <1>2, TopupRows
<1>3. ASSUME NEW i \in Invoices, CancelInvoice(i) \/ ExpireInvoice(i)
      PROVE  RowsInv'
  BY <1>3, ReleaseRows DEF CancelInvoice, ExpireInvoice
<1>4. ASSUME NEW s \in Sms, NEW scope \in Merchants \cup {None}, NEW a \in SmsAmounts,
             IngestMatching(s, scope, a)
      PROVE  RowsInv'
  BY <1>4, ConfirmRows DEF IngestMatching
<1>5. ASSUME NEW s \in Sms, NEW i \in Invoices, AdminApproveSms(s, i)
      PROVE  RowsInv'
  BY <1>5, ConfirmRows DEF AdminApproveSms
<1>6. ASSUME NEW m \in Merchants, NEW a \in Int, AdminWalletAdjust(m, a)
      PROVE  RowsInv'
  <2>1. PICK k \in {"credit", "debit"} : Book(m, AddToWallet(acct[m], a), k, None, a, 0)
    BY <1>6 DEF AdminWalletAdjust
  <2> QED BY <1>6, <2>1, PostingRows DEF AdminWalletAdjust
<1>7. ASSUME NEW n \in 1..Len(ledger), AdminReverseLedger(n)
      PROVE  RowsInv'
  <2> DEFINE row == ledger[n]
  <2>1. Book(row.merchant, AddToWallet(acct[row.merchant], -row.amount), "reversal", row.invoice, -row.amount, n)
    BY <1>7 DEF AdminReverseLedger
  <2> HIDE DEF row
  <2> QED BY <1>7, <2>1, PostingRows DEF AdminReverseLedger
<1>8. CASE UNCHANGED <<invoice, ledger>>
  <2>1. ASSUME NEW i, NEW kind PROVE RowsOf(i, kind)' = RowsOf(i, kind)
    BY <1>8, Zenon DEF RowsOf
  <2> QED BY <1>8, <2>1, SameRows
<1>9. ASSUME NEW m \in Merchants, NEW a \in AdjustAmounts,
             AdminWalletAdjust(m, a) \/ AdminWalletAdjust(m, -a)
      PROVE  RowsInv'
  <2>1. a \in Int /\ -a \in Int
    BY DEF ConstantsAssumption
  <2> QED BY <1>6, <1>9, <2>1
<1>10. ASSUME NEW i \in Invoices, PassDeadline(i)
       PROVE  RowsInv'
  BY <1>8, <1>10 DEF PassDeadline
<1>11. ASSUME NEW s \in Sms, NEW scope \in Merchants \cup {None}, NEW a \in SmsAmounts,
              IngestUnmatched(s, scope, a)
       PROVE  RowsInv'
  BY <1>8, <1>11 DEF IngestUnmatched
<1>12. ASSUME NEW s \in Sms, AdminRejectSms(s)
       PROVE  RowsInv'
  BY <1>8, <1>12 DEF AdminRejectSms
<1>13. ASSUME NEW m \in Merchants, NEW f \in 0..MaxFee, AdminSetFee(m, f)
       PROVE  RowsInv'
  BY <1>8, <1>13 DEF AdminSetFee
<1>14. CASE UNCHANGED vars
  BY <1>8, <1>14 DEF vars
<1> QED
  BY <1>1, <1>2, <1>3, <1>4, <1>5, <1>7, <1>9, <1>10, <1>11, <1>12, <1>13, <1>14 DEF Next

\* A fee is booked as held once and then, when the invoice closes, as charged
\* or as released, once and never both; a paid top-up is credited once.
THEOREM LedgerFollows == Spec => []LedgerFollowsInvoices
<1>1. ConstantsAssumption
  BY ConstantsAssumption
<1>2. Init => RowsInv
  <2> SUFFICES ASSUME Init PROVE RowsInv
    OBVIOUS
  <2>1. ASSUME NEW i, NEW kind PROVE RowsOf(i, kind) = 0
    <3>1. {n \in 1..Len(ledger) : ledger[n].invoice = i /\ ledger[n].kind = kind} = {}
      BY DEF Init
    <3> QED BY <3>1, FS_EmptySet, Zenon DEF RowsOf
  <2>2. \A i \in Invoices : invoice[i] = NoInvoice
    BY DEF Init
  <2>3. \A i \in Invoices, kind \in FeeKinds : ~Due(invoice[i], kind)
    BY <2>2 DEF NoInvoice, Due
  <2>4. RowsDue
    BY <2>1, <2>3, Zenon DEF RowsDue, OneIf
  <2> QED BY <2>2, <2>4 DEF RowsInv, AbsentBlank
<1>3. TypeInv /\ RowsInv /\ [Next]_vars => RowsInv'
  BY <1>1, NextRows
<1>4. RowsInv => LedgerFollowsInvoices
  BY DueSaysIt DEF RowsInv
<1> QED BY <1>2, <1>3, <1>4, SpecTypeInv, PTL DEF Spec

=============================================================================
