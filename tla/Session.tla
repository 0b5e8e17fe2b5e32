------------------------------- MODULE Session -------------------------------
(***************************************************************************)
(* How a client gets a server thread of its own before every operation:    *)
(* FtpClient::syncServer against FtpServer::getServerId and the handshake  *)
(* states of ServerThread.                                                 *)
(*                                                                         *)
(* The network is the set of messages ever sent, each of which may arrive  *)
(* at any time, any number of times or never: retransmissions, losses and  *)
(* delays included.  A message is dispatched and handled in one step; the  *)
(* hand-over between main thread and server thread is module FtpServer.    *)
(* Server ids are not reused and the server does not restart.              *)
(*                                                                         *)
(* A new thread answers the first message it gets with a HANDSHAKE that    *)
(* carries the first bytes of that message, whatever message it was.       *)
(***************************************************************************)
EXTENDS ServerIds, FiniteSets

CONSTANTS
  MaxSyncs    \* bound: operations a client starts

ASSUME SessionAssumption == ClientIds # {} /\ MaxSyncs \in Nat

VARIABLES
  threadState,       \* server id -> currentState of its thread
  owner,             \* server id -> client it was created for
  serverIdentifier,  \* client -> FtpClient::serverIdentifier
  syncCount,         \* client -> FtpClient::syncCount
  phase,             \* client -> where FtpClient::showMenu is
  requests,          \* messages clients sent
  replies,           \* handshake replies server threads sent
  misled             \* history: client -> whether it ever took for the answer to
                     \* its HANDSHAKE one that echoes the bytes of other traffic

serverVars == <<idVars, threadState, owner>>
clientVars == <<serverIdentifier, syncCount, phase, misled>>
vars == <<serverVars, clientVars, requests, replies>>

(* "BUSY" stands for SENDING, RECEIVING and RENAMING; "stopped" is a       *)
(* thread told to end.                                                     *)
ThreadStates ==
  {"absent", "STARTING_HANDSHAKE", "WAITING_FOR_REQUEST", "BUSY", "stopped"}

Phases   == {"menu", "draining", "syncing", "synced", "operating"}
Counts   == 0 .. MaxSyncs
Types    == {"HANDSHAKE", "REQUEST", "DATA"}
Messages == [type : Types, clientId : ClientIds,
             serverId : ServerIds \union {NULL_SERVER_ID}, buffer : Counts]

(* "echo" is the type of the message a reply answers: the client does not  *)
(* see it, only misled is kept by it.                                      *)
Replies == [clientId : ClientIds, serverId : ServerIds, buffer : Counts, echo : Types]

Init ==
  /\ IdsInit
  /\ threadState = [i \in ServerIds |-> "absent"]
  /\ owner = [i \in ServerIds |-> CHOOSE c \in ClientIds : TRUE]
  /\ serverIdentifier = [c \in ClientIds |-> NULL_SERVER_ID]
  /\ syncCount = [c \in ClientIds |-> 0]
  /\ phase = [c \in ClientIds |-> "menu"]
  /\ requests = {}
  /\ replies = {}
  /\ misled = [c \in ClientIds |-> FALSE]

-----------------------------------------------------------------------------
(* The client.                                                             *)

Send(c, type, id, buffer) ==
  requests' = requests \union
    {[type |-> type, clientId |-> c, serverId |-> id, buffer |-> buffer]}

(* syncServer first reads and drops messages until the socket falls        *)
(* silent.                                                                 *)
StartSync(c) ==
  /\ phase[c] = "menu"
  /\ syncCount[c] < MaxSyncs
  /\ phase' = [phase EXCEPT ![c] = "draining"]
  /\ UNCHANGED <<serverVars, serverIdentifier, syncCount, misled, requests, replies>>

(* The socket was silent, which it may never be: the thread that repeats   *)
(* the HANDSHAKE starts.                                                   *)
Drained(c) ==
  /\ phase[c] = "draining"
  /\ syncCount' = [syncCount EXCEPT ![c] = @ + 1]
  /\ Send(c, "HANDSHAKE", serverIdentifier[c], syncCount[c] + 1)
  /\ phase' = [phase EXCEPT ![c] = "syncing"]
  /\ UNCHANGED <<serverVars, serverIdentifier, misled, replies>>

(* Mutant of IsAwaited: syncServer does not compare the counts.            *)
IsNew(r) == r.serverId # serverIdentifier[r.clientId]

(* Only a reply to this HANDSHAKE, from a thread other than the last, ends *)
(* syncServer's loop.                                                      *)
IsAwaited(r) ==
  /\ r.serverId # serverIdentifier[r.clientId]
  /\ r.buffer = syncCount[r.clientId]

ReceiveReply(r) ==
  /\ r \in replies
  /\ phase[r.clientId] = "syncing"
  /\ IsAwaited(r)
  /\ serverIdentifier' = [serverIdentifier EXCEPT ![r.clientId] = r.serverId]
  /\ phase' = [phase EXCEPT ![r.clientId] = "synced"]
  /\ misled' = [misled EXCEPT ![r.clientId] = @ \/ r.echo # "HANDSHAKE"]
  /\ UNCHANGED <<serverVars, syncCount, requests, replies>>

(* The chosen operation sends its request, under the new id.  The thread   *)
(* of that id has answered, so no thread echoes the request: its bytes are *)
(* left out.                                                               *)
StartOperation(c) ==
  /\ phase[c] = "synced"
  /\ Send(c, "REQUEST", serverIdentifier[c], 0)
  /\ phase' = [phase EXCEPT ![c] = "operating"]
  /\ UNCHANGED <<serverVars, serverIdentifier, syncCount, misled, replies>>

(* The packets and ACKs of the operation come from the client's Sender and *)
(* Receiver, which were created before the first syncServer and keep the   *)
(* NULL_SERVER_ID of that time.  Their bytes may read as any count.        *)
SendData(c, buffer) ==
  /\ phase[c] = "operating"
  /\ Send(c, "DATA", NULL_SERVER_ID, buffer)
  /\ UNCHANGED <<serverVars, clientVars, replies>>

(* The operation ends, or the choice was none of the operations.           *)
ReturnToMenu(c) ==
  /\ phase[c] \in {"synced", "operating"}
  /\ phase' = [phase EXCEPT ![c] = "menu"]
  /\ UNCHANGED <<serverVars, serverIdentifier, syncCount, misled, requests, replies>>

-----------------------------------------------------------------------------
(* The server.                                                             *)

Answers(states, id, m) ==
  \/ states[id] = "STARTING_HANDSHAKE"
  \/ states[id] = "WAITING_FOR_REQUEST" /\ m.type = "HANDSHAKE"

(* One message handled by ServerThread::run of thread id, if there is one. *)
ThreadHandles(states, id, m) ==
  IF id = NULL_SERVER_ID
  THEN /\ threadState' = states
       /\ UNCHANGED replies
  ELSE /\ threadState' = [states EXCEPT ![id] =
            CASE @ = "STARTING_HANDSHAKE" -> "WAITING_FOR_REQUEST"
              [] @ = "WAITING_FOR_REQUEST" /\ m.type = "REQUEST" -> "BUSY"
              [] OTHER -> @]
       /\ replies' = IF Answers(states, id, m)
                     THEN replies \union {[clientId |-> m.clientId, serverId |-> id,
                                           buffer |-> m.buffer, echo |-> m.type]}
                     ELSE replies

(* Mutant of Replaced: the old thread is not told to stop.                 *)
Added(m, id) == [threadState EXCEPT ![id] = "STARTING_HANDSHAKE"]

(* threadState with the client's thread stopped, if m retires it, and the  *)
(* new thread id created.                                                  *)
Replaced(m, id) ==
  [i \in ServerIds |->
     IF i = id THEN "STARTING_HANDSHAKE"
     ELSE IF Retires(m) /\ i = clientIds[m.clientId] THEN "stopped"
     ELSE threadState[i]]

HandleByNewThread(m, id) ==
  /\ m \in requests
  /\ NeedsThread(m)
  /\ threadState[id] = "absent"
  /\ clientIds' = [clientIds EXCEPT ![m.clientId] = id]
  /\ IF Retires(m) THEN RememberId(m) ELSE EnterId(m.clientId, id)
  /\ owner' = [owner EXCEPT ![id] = m.clientId]
  /\ ThreadHandles(Replaced(m, id), ResolvedByCreator(m, id), m)
  /\ UNCHANGED <<clientVars, requests>>

HandleByThread(m) ==
  /\ m \in requests
  /\ ~NeedsThread(m)
  /\ ThreadHandles(threadState, Resolved(m), m)
  /\ UNCHANGED <<clientVars, idVars, owner, requests>>

Handle(m) == HandleByThread(m) \/ \E id \in ServerIds : HandleByNewThread(m, id)

(* A transfer ends on the server's side.                                   *)
FinishOperation(id) ==
  /\ threadState[id] = "BUSY"
  /\ threadState' = [threadState EXCEPT ![id] = "WAITING_FOR_REQUEST"]
  /\ UNCHANGED <<clientVars, idVars, owner, requests, replies>>

Next ==
  \/ \E c \in ClientIds : StartSync(c) \/ Drained(c) \/ StartOperation(c) \/ ReturnToMenu(c)
  \/ \E c \in ClientIds, buffer \in Counts : SendData(c, buffer)
  \/ \E r \in replies : ReceiveReply(r)
  \/ \E m \in requests : Handle(m)
  \/ \E id \in ServerIds : FinishOperation(id)

Spec == Init /\ [][Next]_vars

(* A HANDSHAKE that is repeated until it is answered gets through again    *)
(* and again, and so does its answer.  Nothing makes Drained happen.       *)
Fairness ==
  \A c \in ClientIds :
    /\ SF_vars(\E m \in requests :
                 m.type = "HANDSHAKE" /\ m.clientId = c /\ m.buffer = syncCount[c]
                 /\ phase[c] = "syncing" /\ Handle(m))
    /\ WF_vars(\E r \in replies : r.clientId = c /\ ReceiveReply(r))

FairSpec == Spec /\ Fairness

-----------------------------------------------------------------------------
(* Types of both sides and of the network.                                 *)
TypeOK ==
  /\ IdsTypeOK
  /\ threadState \in [ServerIds -> ThreadStates]
  /\ owner \in [ServerIds -> ClientIds]
  /\ serverIdentifier \in [ClientIds -> ServerIds \union {NULL_SERVER_ID}]
  /\ syncCount \in [ClientIds -> Counts]
  /\ phase \in [ClientIds -> Phases]
  /\ requests \in SUBSET Messages
  /\ replies \in SUBSET Replies
  /\ misled \in [ClientIds -> BOOLEAN]

Created == {i \in ServerIds : threadState[i] # "absent"}

(* syncServer leaves the client with the id of the thread the server has   *)
(* for it, however many copies of its HANDSHAKEs are still under way,      *)
(* unless the client ever took the bytes of other traffic, echoed by a new *)
(* thread, for the answer to its HANDSHAKE: the code does not prevent that.*)
SyncedWithCurrent ==
  \A c \in ClientIds :
    ~misled[c] /\ phase[c] \in {"synced", "operating"} => serverIdentifier[c] = clientIds[c]

(* A request left over from an earlier operation never starts an operation *)
(* in a later thread: the current thread is busy only for a client that    *)
(* uses it, with the same exception.                                       *)
OperatesForItsClient ==
  \A i \in Created :
    ~misled[owner[i]] /\ threadState[i] = "BUSY" => serverIdentifier[owner[i]] = i

(* A client has one thread at work at a time: every other one was stopped. *)
OneActiveThread ==
  \A i \in Created : threadState[i] # "stopped" => clientIds[owner[i]] = i

(* The retransmissions of one HANDSHAKE create one thread between them.    *)
OneThreadPerSync ==
  \A c \in ClientIds : Cardinality({i \in Created : owner[i] = c}) <= syncCount[c]

(* Once its drain loop has ended, syncServer comes to an end, for a client *)
(* that was not misled before.                                             *)
SyncCompletes ==
  \A c \in ClientIds : phase[c] = "syncing" /\ ~misled[c] ~> phase[c] # "syncing"

=============================================================================
