SPECIFICATION Spec
CONSTANTS
  c1 = c1
  c2 = c2
  c3 = c3
  k1 = k1
  Collector = {c1, c2, c3}
  Key = {k1}
  Orderly = {TRUE, FALSE}
  MaxSent = 6
INVARIANTS TypeOK SettledIsTrue OpenWhileHeld
PROPERTIES MergeKept
CHECK_DEADLOCK FALSE
