\* Two sessions lock rows in different orders.
SPECIFICATION TxFairSpec
CONSTANTS
  Owner = o
  None = None
  Merchants = {o}
  Invoices = {i1, i2}
  Sms = {s1}
  MaxFee = 0
  BaseAmounts = {1}
  Codes = {1}
  SmsAmounts = {2}
  AdjustAmounts = {}
  MaxLedger = 0
  Sessions = {p1, p2}
  Kinds = {"webhook", "cancel", "expire", "create"}
  PassLimit = 2
  Funds = 0
CHECK_DEADLOCK FALSE
INVARIANTS NoAmbiguousAmount
PROPERTIES SessionsFinish
