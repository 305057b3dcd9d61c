\* Two requests of one address and one key, cleanup in every window.
SPECIFICATION LimiterSpec
CONSTANTS
  Requests = {r1, r2}
  Ips = {ip}
  ApiKeys = {k}
  IpLimit = 2
  KeyLimit = 1
  CreateLimit = 1
  KeepWindows = 1
  CleanEvery = 1
  MaxWindow = 2
  MaxHits = 4
CHECK_DEADLOCK FALSE
INVARIANTS LimiterTypeOK RetrySucceeds
PROPERTIES KeepsQuota
