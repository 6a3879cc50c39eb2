CONSTANTS
  Small = 1
  Medium = 2
  Chunk = 4
  BufCap = 4
  Frames <- MCFrames
  MaxFrames = 2
SPECIFICATION Spec
INVARIANTS TypeOK FaithfulUntilError
PROPERTIES ImplementsChannel Decoded
CHECK_DEADLOCK FALSE
