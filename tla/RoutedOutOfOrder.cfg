SPECIFICATION Spec
CONSTANTS
  WINDOW_SIZE = 2
  SEQUENCE_RANGE = 5
  BUFFER_LENGTH = 2
  payloadSize = 11
  sequenceSeed = 1
  Delays = FALSE
  MaxInFlight = 2
INVARIANT CountWithinPayload
\* The transfer ends.
CHECK_DEADLOCK FALSE
