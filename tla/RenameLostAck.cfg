SPECIFICATION Spec
CONSTANTS
  Clients = {1}
  Names = {"a", "b", "c"}
  InitialFiles = {"a"}
  SEQUENCE_RANGE = 7
  firstSequenceNumber = 1
  handshakeNumbers = {}
  MaxPrompts = 3
INVARIANT SuccessIsTrue
\* The operation ends.
CHECK_DEADLOCK FALSE
