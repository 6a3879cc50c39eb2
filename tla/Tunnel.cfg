CONSTANTS
  c1 = c1  c2 = c2
  t1 = t1
  NoTarget = NoTarget
  ConnIds <- TwoConns
  Targets <- OneTarget
  InCap = 1
  MaxData = 3
  StallTargets <- SecondConn
  Closable <- OneConn
SPECIFICATION Spec
INVARIANTS TypeOK StreamIntact NothingDropped
PROPERTIES HelloOnce ImplementsPipe Relayed
CHECK_DEADLOCK FALSE
