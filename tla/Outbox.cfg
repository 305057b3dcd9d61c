\* Two overlapping processes, one failure, one retry by hand.
SPECIFICATION FairSpec
CONSTANTS
  Events = {e1, e2}
  Workers = {w1, w2}
  None = None
  MaxAttempts = 2
  MaxFaults = 1
  MaxManual = 1
INVARIANTS OutboxTypeOK ClaimIsExclusive DeliveredWasReceived InvoiceMirrorsEvent
PROPERTIES KeepsPromise SettlesUnlessOrphaned
CHECK_DEADLOCK FALSE
