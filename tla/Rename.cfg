SPECIFICATION Spec
CONSTANTS
  Clients = {1, 2}
  Names = {"a", "b", "c"}
  InitialFiles = {"a", "b"}
  SEQUENCE_RANGE = 7
  firstSequenceNumber = 1
  handshakeNumbers = {2}
  MaxPrompts = 3
INVARIANTS
  TypeOK
  RenamesAsAsked
\* The operation ends.
CHECK_DEADLOCK FALSE
