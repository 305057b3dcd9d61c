\* Two requests of a store at a time, two days.
SPECIFICATION Spec
CONSTANTS
  Sessions = {s1, s2}
  IdemKeys = {k1}
  Orders = {o1}
  Amounts = {1}
  None = None
  MinuteLimit = 2
  DailyLimit = 1
  MaxInvoices = 2
  MaxDays = 1
INVARIANTS ApiTypeOK OneInvoicePerKey AnswerIsOwn StopsLeaveNoRecord WithinDailyLimit
SYMMETRY Symmetry
