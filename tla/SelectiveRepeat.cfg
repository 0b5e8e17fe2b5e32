SPECIFICATION Spec
CONSTANTS
  WINDOW_SIZE <- MCWindow
  SEQUENCE_RANGE <- MCRange
  BUFFER_LENGTH <- MCLength
  payloadSize <- MCPayload
  sequenceSeed <- MCSeed
INVARIANTS
  TypeOK
  IInv
  AckedIsHeld
  NoOrphanThread
  WindowsOverlap
  EofAcceptable
  FinalSequenceAgrees
  StartedOnce
PROPERTY ImplementsFileTransfer
\* The transfer ends, and sendto failures may stop it for good.
CHECK_DEADLOCK FALSE
