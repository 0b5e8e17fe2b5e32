SPECIFICATION PromptSpec
CONSTANTS
  WINDOW_SIZE = 2
  SEQUENCE_RANGE = 6
  BUFFER_LENGTH = 2
  payloadSize = 13
  sequenceSeed = 4
  Delays = TRUE
  MaxInFlight = 2
CONSTRAINT FewOnNetwork
INVARIANTS
  TypeOK
  AckedIsHeld
  DeliveredPrefix
  EofAcceptable
  FinalSequenceAgrees
\* The transfer ends.
CHECK_DEADLOCK FALSE
