\* Two channels, two updates checked at one time, a check may outlast the cache.
SPECIFICATION AccessSpec
CONSTANTS
  Channels = {c1, c2}
  Checks = {t1, t2}
  Ttl = 1
  MaxAge = 2
SYMMETRY AccessIds
CHECK_DEADLOCK FALSE
INVARIANTS AccessTypeOK LetInOnlyIfSeen
