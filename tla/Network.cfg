SPECIFICATION NetworkSpec
CONSTANTS
  Packets = 3
  WAIT = 3
  Clients = {c1, c2}
  Ids = {7, 8}
  NULL_CLIENT_ID = NULL_CLIENT_ID
INVARIANTS NetworkTypeOK OwnersInv OvertakenOnce
PROPERTIES ToServer ToClient OwnToServer OwnToClient DelayedIsReleased
\* Hosts stop sending after Packets packets each.
CHECK_DEADLOCK FALSE
