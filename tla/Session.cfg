SPECIFICATION FairSpec
CONSTANTS
  ClientIds = {1}
  ServerIds = {s1, s2, s3}
  NULL_SERVER_ID = NULL_SERVER_ID
  MaxSyncs = 3
INVARIANTS
  TypeOK
  SyncedWithCurrent
  OperatesForItsClient
  OneActiveThread
  OneThreadPerSync
PROPERTY SyncCompletes
\* Clients stop starting operations.
CHECK_DEADLOCK FALSE
