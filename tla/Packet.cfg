\* Payloads of up to two bytes for PutData, all of PutHello, PutClose and PutJunk
\* with every pair of junk lengths; foreign buffers around both length checks.
CONSTANTS
  DataSizes = {0, 3}
  JunkSizes = {1, 64}
  AlienSizes <- MCAlienSizes
  Types = {1, 2, 3, 15}
SPECIFICATION Spec
INVARIANTS TypeOK NoOverrun WholeBuffer RoundTrip
CHECK_DEADLOCK FALSE
