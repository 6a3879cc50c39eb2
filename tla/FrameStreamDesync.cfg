CONSTANTS
  Small = 1
  Medium = 2
  Chunk = 4
  BufCap = 4
  Frames <- MCMasked
  MaxFrames = 2
SPECIFICATION Spec
INVARIANT RoundTrip
CHECK_DEADLOCK FALSE
