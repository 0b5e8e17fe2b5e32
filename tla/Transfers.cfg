SPECIFICATION TransfersFairSpec
CONSTANTS
  WINDOW_SIZE = 1
  SEQUENCE_RANGE = 3
  BUFFER_LENGTH = 2
  payloadSize = 7
  sequenceSeed = 2
  Delays = FALSE
  MaxInFlight = 1
INVARIANTS
  OperationTypeOK
PROPERTIES
  ImplementsFileTransfer
  OperationReturns
  SenderThreadsEnd
\* The operation ends.
CHECK_DEADLOCK FALSE
