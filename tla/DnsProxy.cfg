CONSTANTS
  Buffers <- MCBuffers
  Messages <- MCMessages
  Raw = Raw
  Table <- MCTable
  MaxQuest = 8
  Fills <- MCFills
  Times <- MCTimes
  W = 8
SPECIFICATION ProxySpec
INVARIANTS TypeOK NoOverrun BackInPlace Faithful RightAnswer NeverOutlives
PROPERTIES Forward Returns ComesBackBothWays
CHECK_DEADLOCK FALSE
