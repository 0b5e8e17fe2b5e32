SPECIFICATION FairSpec
CONSTANTS
  ClientIds = {1}
  ServerIds = {s1, s2}
  NULL_SERVER_ID = NULL_SERVER_ID
  Threads <- MCTwoThreads
  Locks <- MCTwoThreads
  Users <- MCUsersOfTwo
  MaxMessages = 2
PROPERTY RunsForever
\* Messages stop coming; a lost wakeup stops the server.
CHECK_DEADLOCK FALSE
