\* Two sessions race for one invoice.
SPECIFICATION TxSpec
CONSTANTS
  Owner = o
  None = None
  Merchants = {o}
  Invoices = {i1}
  Sms = {s1, s2}
  MaxFee = 1
  BaseAmounts = {1}
  Codes = {1}
  SmsAmounts = {2}
  AdjustAmounts = {}
  MaxLedger = 0
  Sessions = {p1, p2}
  Kinds = {"webhook", "approve", "cancel", "expire", "create", "topup"}
  PassLimit = 1
  Funds = 1
CHECK_DEADLOCK FALSE
SYMMETRY Ids
INVARIANTS TxTypeOK PaidByOneMessage QueuedIfPaid
