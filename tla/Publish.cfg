SPECIFICATION Spec
CHECK_DEADLOCK FALSE
CONSTANTS
  None = None
  a = a
  b = b
  s0 = s0
  s1 = s1
  s2 = s2
  r1 = r1
  r2 = r2
  x = x
  y = y
  Producer = {a, b}
  Snapshot = {s0, s1, s2}
  Record = {r1, r2}
  Variant = {x, y}
  Body = {x, y}
  Feed <- MCFeed
  KeepLast = 1
  Lfs = TRUE
  MaxPush = 3
INVARIANTS
  RetentionCareful
PROPERTIES
  PushesCareful
  EveryPushReturns
