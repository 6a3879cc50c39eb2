CONSTANTS
  c1 = c1  c2 = c2  k1 = k1  right = right  wrong = wrong
  Absent = Absent  NoRequest = NoRequest
  AuthToken = right
  Conns <- TwoConns
  Keys <- OneKey
  Tokens <- TwoTokens
  Requests <- MCRequests
  Cuts <- MCCuts
SPECIFICATION Spec
INVARIANTS TypeOK Agreement
PROPERTIES TunnelStays Answered Stops
CHECK_DEADLOCK FALSE
