\* One session: the serial system.
SPECIFICATION TxSpec
CONSTANTS
  Owner = o
  None = None
  Merchants = {o}
  Invoices = {i1, i2}
  Sms = {s1}
  MaxFee = 1
  BaseAmounts = {1}
  Codes = {1}
  SmsAmounts = {2}
  AdjustAmounts = {1}
  MaxLedger = 3
  Sessions = {p1}
  Kinds = {"webhook", "approve", "cancel", "expire", "create", "topup", "adjust"}
  PassLimit = 1
  Funds = 0
CHECK_DEADLOCK FALSE
PROPERTIES ImplementsSettlement
