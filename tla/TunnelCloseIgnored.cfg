CONSTANTS
  c1 = c1  c2 = c2
  t1 = t1
  NoTarget = NoTarget
  ConnIds <- OneConn
  Targets <- OneTarget
  InCap = 2
  MaxData = 3
  StallTargets = {}
  Closable <- OneConn
SPECIFICATION Spec
INVARIANT CloseStopsRelay
CHECK_DEADLOCK FALSE
