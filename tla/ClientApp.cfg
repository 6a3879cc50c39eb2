CONSTANTS
  p1 = p1  p2 = p2
  NoProc = NoProc
  Procs <- TwoProcs
  MaxStarts = 2
  MaxConns = 1
  MayFail <- Everything
SPECIFICATION Spec
INVARIANTS TypeOK RuleHasOwner TransparentAlone
PROPERTIES InterruptEnds
CHECK_DEADLOCK FALSE
