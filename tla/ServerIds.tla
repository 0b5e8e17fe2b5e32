------------------------------ MODULE ServerIds ------------------------------
(***************************************************************************)
(* The tables by which FtpServer::getServerId finds the ServerThread that  *)
(* a message is for.  A client gets a new thread, under a new server id,   *)
(* each time it sends a HANDSHAKE that names its current one; the id before*)
(* is remembered, for retransmissions of that HANDSHAKE.                   *)
(***************************************************************************)
EXTENDS Integers

CONSTANTS
  ClientIds,       \* ids given to clients by the multiplexer
  ServerIds,       \* ids of server threads (0 .. 255 in the code)
  NULL_SERVER_ID   \* "no server thread": -1 in the code

ASSUME ServerIdsAssumption == NULL_SERVER_ID \notin ServerIds

VARIABLES
  clientIds,       \* client -> id of its current thread, NULL_SERVER_ID if none
  pastServerIds    \* client -> the id remembered, NULL_SERVER_ID if none

idVars == <<clientIds, pastServerIds>>

Requests == [type : {"HANDSHAKE", "REQUEST"}, clientId : ClientIds,
             serverId : ServerIds \union {NULL_SERVER_ID}]

IdsInit ==
  /\ clientIds = [c \in ClientIds |-> NULL_SERVER_ID]
  /\ pastServerIds = [c \in ClientIds |-> NULL_SERVER_ID]

IdsTypeOK ==
  /\ clientIds \in [ClientIds -> ServerIds \union {NULL_SERVER_ID}]
  /\ pastServerIds \in [ClientIds -> ServerIds \union {NULL_SERVER_ID}]

Known(c) == clientIds[c] # NULL_SERVER_ID

(* Mutant of Retires: every HANDSHAKE of a known client replaces its thread*)
RetiresAlways(m) == Known(m.clientId) /\ m.type = "HANDSHAKE"

(* A HANDSHAKE naming the client's current thread replaces that thread.    *)
Retires(m) ==
  /\ Known(m.clientId)
  /\ m.type = "HANDSHAKE"
  /\ m.serverId = clientIds[m.clientId]

(* First contact, or the replacement of a thread: both create one.         *)
NeedsThread(m) == ~Known(m.clientId) \/ Retires(m)

(* Mutant of Resolved: the remembered id is good for every message.        *)
ResolvedByPast(m) ==
  IF m.serverId \in {NULL_SERVER_ID, clientIds[m.clientId], pastServerIds[m.clientId]}
  THEN clientIds[m.clientId]
  ELSE NULL_SERVER_ID

(* The id a message is dispatched to when it creates no thread.            *)
Resolved(m) ==
  IF \/ m.serverId \in {NULL_SERVER_ID, clientIds[m.clientId]}
     \/ m.type = "HANDSHAKE" /\ m.serverId = pastServerIds[m.clientId]
  THEN clientIds[m.clientId]
  ELSE NULL_SERVER_ID

(* The id a message is dispatched to when it created the thread id.  A     *)
(* HANDSHAKE that replaced a thread names the old one and is discarded.    *)
ResolvedByCreator(m, id) ==
  IF m.serverId \in {NULL_SERVER_ID, id} THEN id ELSE NULL_SERVER_ID

(* Mutant of EnterId: the client is entered in place of the server id.     *)
EnterClientId(c, id) ==
  /\ clientIds' = [clientIds EXCEPT ![c] = id]
  /\ pastServerIds' = [pastServerIds EXCEPT ![c] = IF Known(c) THEN @ ELSE c]

(* createServerThread's result is entered for the client.                  *)
EnterId(c, id) ==
  /\ clientIds' = [clientIds EXCEPT ![c] = id]
  /\ pastServerIds' = [pastServerIds EXCEPT ![c] = IF Known(c) THEN @ ELSE id]

(* Mutant of RememberId: the id of the retired thread is not remembered.   *)
ForgetId(m) == UNCHANGED pastServerIds

RememberId(m) ==
  pastServerIds' = [pastServerIds EXCEPT ![m.clientId] = m.serverId]

=============================================================================
