\* Fees, matching and the ledger: two invoices, a message, one merchant.
SPECIFICATION FairSpec
CONSTANTS
  Owner = o
  Merchants = {o}
  Invoices = {i1, i2}
  Sms = {s1}
  None = None
  MaxFee = 1
  BaseAmounts = {1}
  Codes = {1}
  SmsAmounts = {2}
  AdjustAmounts = {1}
  MaxLedger = 3
INVARIANTS TypeOK ReservedIsHeld Solvent LedgerExplainsWallet LedgerFollowsInvoices OneMessagePerPayment
PROPERTIES ClosedIsFinal OverdueCloses
