CONSTANTS
  Frames <- MCFrames
  MaxFrames = 3

SPECIFICATION Spec
\* the socket stops reading at the end of the stream or once it is closed
CHECK_DEADLOCK FALSE
INVARIANTS
  TypeOK
  FramesInOrder
  ClosesOnlyOnFault
  StreamFullyDecoded
