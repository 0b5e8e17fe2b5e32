SPECIFICATION Spec
CONSTANTS
  ClientIds = {1}
  ServerIds = {s1, s2}
  NULL_SERVER_ID = NULL_SERVER_ID
  Threads <- MCThreeThreads
  Locks <- MCThreeThreads
  Users <- MCUsersOfThree
  MaxMessages = 5
SYMMETRY MCSymmetry
INVARIANT ReusedIdsServe
\* Messages stop coming; a lost wakeup stops the server.
CHECK_DEADLOCK FALSE
