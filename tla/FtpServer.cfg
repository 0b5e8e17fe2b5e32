SPECIFICATION Spec
CONSTANTS
  ClientIds = {1, 2}
  ServerIds = {s1, s2, s3}
  NULL_SERVER_ID = NULL_SERVER_ID
  Threads <- MCThreeThreads
  Locks <- MCThreeThreads
  Users <- MCUsersOfThree
  MaxMessages = 4
SYMMETRY MCSymmetry
INVARIANTS
  TypeOK
  HandledInOrder
  MailboxExclusive
  CurrentThreadServes
  UniqueIdsServe
\* Messages stop coming; a lost wakeup stops the server.
CHECK_DEADLOCK FALSE
