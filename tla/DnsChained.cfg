\* The same messages; a pointer may lead to a name that ends in a pointer.
CONSTANTS
  Buffers <- MCBuffersUnused
  Messages <- MCMessages
SPECIFICATION MsgSpec
INVARIANT RoundTrip
CHECK_DEADLOCK FALSE
