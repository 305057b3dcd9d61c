\* Do two messages pay one invoice?
SPECIFICATION TxSpec
CONSTANTS
  Owner = o
  None = None
  Merchants = {o}
  Invoices = {i1}
  Sms = {s1, s2}
  MaxFee = 0
  BaseAmounts = {1}
  Codes = {1}
  SmsAmounts = {2}
  AdjustAmounts = {}
  MaxLedger = 0
  Sessions = {p1, p2}
  Kinds = {"webhook", "create"}
  PassLimit = 1
  Funds = 0
CHECK_DEADLOCK FALSE
INVARIANTS OneMessagePerInvoice
