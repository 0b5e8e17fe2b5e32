--------------------------- MODULE Session_proofs ---------------------------
(***************************************************************************)
(* Proofs about Session: for every number of clients, server ids and       *)
(* operations, however messages are repeated, reordered or lost, syncServer*)
(* leaves a client with the thread the server has for it, as long as it has*)
(* taken no other bytes for the echo of its HANDSHAKE; and each client has *)
(* one thread at work, and one thread for each synchronisation, always.    *)
(*                                                                         *)
(* The argument: only a HANDSHAKE that names the client's current thread   *)
(* replaces it.  Such a HANDSHAKE is on its way only while a client that   *)
(* was never misled waits for the replacement, and the thread it creates   *)
(* has an id that nobody named before.  As every thread but the last was   *)
(* named by a HANDSHAKE, and so was NULL_SERVER_ID, there are no more      *)
(* threads than HANDSHAKEs.                                                *)
(***************************************************************************)
EXTENDS Session, FiniteSetTheorems, TLAPS

(* What a client knows.  One that was not misled holds the id of its       *)
(* current thread whenever it is not syncing.                              *)
ClientFacts(c) ==
  /\ ~misled[c] /\ phase[c] # "syncing" => serverIdentifier[c] = clientIds[c]
  /\ phase[c] \in {"synced", "operating"} => serverIdentifier[c] # NULL_SERVER_ID
  /\ phase[c] = "draining" => syncCount[c] < MaxSyncs
  /\ {serverIdentifier[c], clientIds[c]} \subseteq Created \union {NULL_SERVER_ID}
  /\ ~Known(c) => serverIdentifier[c] = NULL_SERVER_ID
  /\ Known(c) => owner[clientIds[c]] = c

(* Requests name threads that exist, HANDSHAKEs carry counts that were     *)
(* reached.                                                                *)
RequestFacts(m) ==
  /\ m.serverId \in Created \union {NULL_SERVER_ID}
  /\ m.type = "HANDSHAKE" => m.buffer <= syncCount[m.clientId]
  /\ m.type = "REQUEST" => m.serverId # NULL_SERVER_ID
  /\ ~Known(m.clientId) => m.type = "HANDSHAKE" /\ m.serverId = NULL_SERVER_ID

(* Unless its client was misled, a HANDSHAKE that would replace the current*)
(* thread is the one its client is waiting on, and a REQUEST that would    *)
(* start an operation in the current thread comes from a client that uses  *)
(* this thread.                                                            *)
NamesCurrent(m) ==
  ~misled[m.clientId] /\ m.serverId = clientIds[m.clientId] =>
    /\ m.type = "HANDSHAKE" =>
         /\ phase[m.clientId] = "syncing"
         /\ serverIdentifier[m.clientId] = clientIds[m.clientId]
    /\ m.type = "REQUEST" => serverIdentifier[m.clientId] = clientIds[m.clientId]

(* Unless its client was misled, the echo of a HANDSHAKE that the client   *)
(* would accept comes from the current thread.                             *)
ReplyFacts(r) ==
  /\ r.serverId \in Created
  /\ Known(r.clientId)
  /\ r.echo = "HANDSHAKE" => r.buffer <= syncCount[r.clientId]
  /\ r.echo = "HANDSHAKE" /\ ~misled[r.clientId] /\ phase[r.clientId] = "syncing" /\ IsAwaited(r)
       => r.serverId = clientIds[r.clientId]

SessionInv ==
  /\ TypeOK
  /\ OneActiveThread
  /\ OperatesForItsClient
  /\ \A c \in ClientIds : ClientFacts(c)
  /\ \A m \in requests : RequestFacts(m) /\ NamesCurrent(m)
  /\ \A r \in replies : ReplyFacts(r)

SessionFacts == ServerIdsAssumption /\ SessionAssumption

-----------------------------------------------------------------------------
LEMMA SessionInit == ASSUME SessionFacts, Init PROVE SessionInv
<1>1. TypeOK
  <2>. DEFINE first == CHOOSE c \in ClientIds : TRUE
  <2>1. ClientIds # {} /\ 0 \in Counts
    BY DEF SessionFacts, SessionAssumption, Counts
  <2>2. first \in ClientIds
    BY <2>1
  <2>6. owner = [i \in ServerIds |-> first]
    BY DEF Init
  <2>. HIDE DEF first
  <2>7. owner \in [ServerIds -> ClientIds]
    BY <2>2, <2>6
  <2>3. /\ clientIds = [c \in ClientIds |-> NULL_SERVER_ID]
        /\ pastServerIds = [c \in ClientIds |-> NULL_SERVER_ID]
        /\ threadState = [i \in ServerIds |-> "absent"]
        /\ serverIdentifier = [c \in ClientIds |-> NULL_SERVER_ID]
        /\ syncCount = [c \in ClientIds |-> 0]
        /\ phase = [c \in ClientIds |-> "menu"]
        /\ requests = {} /\ replies = {}
        /\ misled = [c \in ClientIds |-> FALSE]
    BY DEF Init, IdsInit
  <2>4. IdsTypeOK
    BY <2>3 DEF IdsTypeOK
  <2>5. requests \in SUBSET Messages /\ replies \in SUBSET Replies
    BY <2>3
  <2>. QED
    BY <2>1, <2>3, <2>4, <2>5, <2>7 DEF TypeOK, ThreadStates, Phases
<1>2. Created = {}
  BY DEF Init, Created
<1>3. \A c \in ClientIds : clientIds[c] = NULL_SERVER_ID /\ serverIdentifier[c] = NULL_SERVER_ID
                           /\ phase[c] = "menu"
  BY DEF Init, IdsInit
<1>. QED
  BY <1>1, <1>2, <1>3 DEF SessionInv, OneActiveThread, OperatesForItsClient, ClientFacts,
                          Init, Known

(* What a step of a client leaves alone.                                   *)
LEMMA ClientKeepsTypes ==
  ASSUME SessionFacts, SessionInv, NEW c \in ClientIds, NEW buffer \in Counts,
         \/ StartSync(c) \/ Drained(c) \/ StartOperation(c) \/ ReturnToMenu(c)
         \/ SendData(c, buffer)
  PROVE  TypeOK'
<1>. USE DEF SessionInv, TypeOK, IdsTypeOK, SessionFacts, SessionAssumption, Counts, Phases
<1>1. \A n \in Counts : n + 1 \in Nat
  OBVIOUS
<1>2. ASSUME NEW type \in Types,
             NEW id \in ServerIds \union {NULL_SERVER_ID}, NEW n \in Counts,
             Send(c, type, id, n)
      PROVE  requests' \in SUBSET Messages
  BY <1>2 DEF Send, Messages, Types
<1>3. CASE StartSync(c)
  BY <1>3 DEF StartSync, serverVars, idVars
<1>4. CASE Drained(c)
  <2>1. syncCount[c] + 1 \in Counts
    BY <1>4 DEF Drained, ClientFacts
  <2>. QED
    BY <1>2, <1>4, <2>1 DEF Drained, serverVars, idVars, Types
<1>5. CASE StartOperation(c)
  BY <1>2, <1>5 DEF StartOperation, serverVars, idVars, Types
<1>6. CASE ReturnToMenu(c)
  BY <1>6 DEF ReturnToMenu, serverVars, idVars
<1>7. CASE SendData(c, buffer)
  BY <1>2, <1>7 DEF SendData, serverVars, clientVars, idVars, Types
<1>. QED
  BY <1>3, <1>4, <1>5, <1>6, <1>7

LEMMA StartSyncStep ==
  ASSUME SessionFacts, SessionInv, NEW c \in ClientIds, StartSync(c)
  PROVE  SessionInv'
<1>. USE DEF SessionInv
<1>1. TypeOK'
  BY ClientKeepsTypes DEF SessionFacts, SessionAssumption, Counts
<1>2. /\ phase' = [phase EXCEPT ![c] = "draining"] /\ phase[c] = "menu"
      /\ syncCount[c] < MaxSyncs
      /\ UNCHANGED <<clientIds, pastServerIds, threadState, owner, serverIdentifier,
                     syncCount, misled, requests, replies>>
  BY DEF StartSync, serverVars, idVars
<1>3. Created' = Created /\ \A d \in ClientIds : Known(d)' = Known(d)
  BY <1>2 DEF Created, Known
<1>4. OneActiveThread' /\ OperatesForItsClient'
  BY <1>2, <1>3 DEF OneActiveThread, OperatesForItsClient
<1>5. ASSUME NEW d \in ClientIds
      PROVE  ClientFacts(d)'
  BY <1>2, <1>3 DEF ClientFacts, TypeOK
<1>6. ASSUME NEW m \in requests' PROVE (RequestFacts(m) /\ NamesCurrent(m))'
  BY <1>2, <1>3 DEF RequestFacts, NamesCurrent, TypeOK, Messages
<1>7. ASSUME NEW r \in replies' PROVE ReplyFacts(r)'
  BY <1>2, <1>3 DEF ReplyFacts, IsAwaited, TypeOK, Replies
<1>. QED
  BY <1>1, <1>4, <1>5, <1>6, <1>7

LEMMA DrainedStep ==
  ASSUME SessionFacts, SessionInv, NEW c \in ClientIds, Drained(c)
  PROVE  SessionInv'
<1>. USE DEF SessionInv
<1>1. TypeOK'
  BY ClientKeepsTypes DEF SessionFacts, SessionAssumption, Counts
<1>2. /\ phase' = [phase EXCEPT ![c] = "syncing"] /\ phase[c] = "draining"
      /\ syncCount' = [syncCount EXCEPT ![c] = syncCount[c] + 1]
      /\ UNCHANGED <<clientIds, pastServerIds, threadState, owner, serverIdentifier, misled,
                     replies>>
      /\ requests' = requests \union
           {[type |-> "HANDSHAKE", clientId |-> c, serverId |-> serverIdentifier[c],
             buffer |-> syncCount[c] + 1]}
  BY DEF Drained, Send, serverVars, idVars
<1>3. /\ Created' = Created /\ \A d \in ClientIds : Known(d)' = Known(d)
      /\ ~misled[c] => serverIdentifier[c] = clientIds[c]
  BY <1>2 DEF Created, Known, ClientFacts
<1>4. OneActiveThread' /\ OperatesForItsClient'
  BY <1>2, <1>3 DEF OneActiveThread, OperatesForItsClient
<1>5. \A d \in ClientIds : syncCount[d] \in Nat /\ syncCount[d] <= syncCount'[d]
                           /\ syncCount'[c] = syncCount[c] + 1
  BY <1>2 DEF TypeOK, Counts, SessionFacts, SessionAssumption
<1>6. ASSUME NEW d \in ClientIds
      PROVE  ClientFacts(d)'
  BY <1>2, <1>3, <1>5 DEF ClientFacts, TypeOK
<1>7. ASSUME NEW m \in requests' PROVE (RequestFacts(m) /\ NamesCurrent(m))'
  <2>1. CASE m \in requests
    <3>1. m.clientId \in ClientIds /\ m.buffer \in Nat
      BY <2>1 DEF TypeOK, Messages, Counts
    <3>2. RequestFacts(m) /\ NamesCurrent(m)
      BY <2>1
    <3>. QED
      BY <1>2, <1>3, <1>5, <3>1, <3>2 DEF RequestFacts, NamesCurrent, TypeOK
  <2>2. CASE m = [type |-> "HANDSHAKE", clientId |-> c, serverId |-> serverIdentifier[c],
                  buffer |-> syncCount[c] + 1]
    BY <1>2, <1>3, <1>5, <2>2 DEF RequestFacts, NamesCurrent, ClientFacts, TypeOK
  <2>. QED
    BY <1>2, <2>1, <2>2
<1>8. ASSUME NEW r \in replies' PROVE ReplyFacts(r)'
  <2>1. r \in replies /\ ReplyFacts(r) /\ r.clientId \in ClientIds /\ r.buffer \in Nat
    BY <1>2 DEF TypeOK, Replies, Counts
  <2>. QED
    BY <1>2, <1>3, <1>5, <2>1 DEF ReplyFacts, IsAwaited, TypeOK
<1>. QED
  BY <1>1, <1>4, <1>6, <1>7, <1>8

LEMMA StartOperationStep ==
  ASSUME SessionFacts, SessionInv, NEW c \in ClientIds, StartOperation(c)
  PROVE  SessionInv'
<1>. USE DEF SessionInv
<1>1. TypeOK'
  BY ClientKeepsTypes DEF SessionFacts, SessionAssumption, Counts
<1>2. /\ phase' = [phase EXCEPT ![c] = "operating"] /\ phase[c] = "synced"
      /\ UNCHANGED <<clientIds, pastServerIds, threadState, owner, serverIdentifier,
                     syncCount, misled, replies>>
      /\ requests' = requests \union
           {[type |-> "REQUEST", clientId |-> c, serverId |-> serverIdentifier[c],
             buffer |-> 0]}
  BY DEF StartOperation, Send, serverVars, idVars
<1>3. /\ Created' = Created /\ \A d \in ClientIds : Known(d)' = Known(d)
      /\ ~misled[c] => serverIdentifier[c] = clientIds[c]
      /\ Known(c) /\ serverIdentifier[c] # NULL_SERVER_ID
  BY <1>2 DEF Created, Known, ClientFacts
<1>4. OneActiveThread' /\ OperatesForItsClient'
  BY <1>2, <1>3 DEF OneActiveThread, OperatesForItsClient
<1>5. ASSUME NEW d \in ClientIds
      PROVE  ClientFacts(d)'
  BY <1>2, <1>3 DEF ClientFacts, TypeOK
<1>6. ASSUME NEW m \in requests' PROVE (RequestFacts(m) /\ NamesCurrent(m))'
  <2>1. CASE m \in requests
    <3>1. m.clientId \in ClientIds /\ RequestFacts(m) /\ NamesCurrent(m)
      BY <2>1 DEF TypeOK, Messages
    <3>2. ~( /\ m.type = "HANDSHAKE" /\ m.serverId = clientIds[m.clientId]
             /\ m.clientId = c /\ ~misled[c])
      BY <1>2, <3>1 DEF NamesCurrent
    <3>. QED
      BY <1>2, <1>3, <3>1, <3>2 DEF RequestFacts, NamesCurrent, TypeOK
  <2>2. CASE m = [type |-> "REQUEST", clientId |-> c, serverId |-> serverIdentifier[c],
                  buffer |-> 0]
    BY <1>2, <1>3, <2>2 DEF RequestFacts, NamesCurrent, ClientFacts, TypeOK
  <2>. QED
    BY <1>2, <2>1, <2>2
<1>7. ASSUME NEW r \in replies' PROVE ReplyFacts(r)'
  BY <1>2, <1>3 DEF ReplyFacts, IsAwaited, TypeOK, Replies
<1>. QED
  BY <1>1, <1>4, <1>5, <1>6, <1>7

LEMMA ReturnToMenuStep ==
  ASSUME SessionFacts, SessionInv, NEW c \in ClientIds, ReturnToMenu(c)
  PROVE  SessionInv'
<1>. USE DEF SessionInv
<1>1. TypeOK'
  BY ClientKeepsTypes DEF SessionFacts, SessionAssumption, Counts
<1>2. /\ phase' = [phase EXCEPT ![c] = "menu"] /\ phase[c] \in {"synced", "operating"}
      /\ UNCHANGED <<clientIds, pastServerIds, threadState, owner, serverIdentifier,
                     syncCount, misled, requests, replies>>
  BY DEF ReturnToMenu, serverVars, idVars
<1>3. Created' = Created /\ \A d \in ClientIds : Known(d)' = Known(d)
  BY <1>2 DEF Created, Known
<1>4. OneActiveThread' /\ OperatesForItsClient'
  BY <1>2, <1>3 DEF OneActiveThread, OperatesForItsClient
<1>5. ASSUME NEW d \in ClientIds
      PROVE  ClientFacts(d)'
  BY <1>2, <1>3 DEF ClientFacts, TypeOK
<1>6. ASSUME NEW m \in requests' PROVE (RequestFacts(m) /\ NamesCurrent(m))'
  BY <1>2, <1>3 DEF RequestFacts, NamesCurrent, TypeOK, Messages
<1>7. ASSUME NEW r \in replies' PROVE ReplyFacts(r)'
  BY <1>2, <1>3 DEF ReplyFacts, IsAwaited, TypeOK, Replies
<1>. QED
  BY <1>1, <1>4, <1>5, <1>6, <1>7

LEMMA SendDataStep ==
  ASSUME SessionFacts, SessionInv, NEW c \in ClientIds, NEW buffer \in Counts,
         SendData(c, buffer)
  PROVE  SessionInv'
<1>. USE DEF SessionInv
<1>1. TypeOK'
  BY ClientKeepsTypes
<1>2. /\ phase[c] = "operating"
      /\ UNCHANGED <<clientIds, pastServerIds, threadState, owner, serverIdentifier,
                     syncCount, phase, misled, replies>>
      /\ requests' = requests \union
           {[type |-> "DATA", clientId |-> c, serverId |-> NULL_SERVER_ID,
             buffer |-> buffer]}
  BY DEF SendData, Send, serverVars, clientVars, idVars
<1>3. /\ Created' = Created /\ \A d \in ClientIds : Known(d)' = Known(d)
      /\ Known(c)
  BY <1>2 DEF Created, Known, ClientFacts
<1>4. OneActiveThread' /\ OperatesForItsClient'
  BY <1>2, <1>3 DEF OneActiveThread, OperatesForItsClient
<1>5. ASSUME NEW d \in ClientIds
      PROVE  ClientFacts(d)'
  BY <1>2, <1>3 DEF ClientFacts, TypeOK
<1>6. ASSUME NEW m \in requests' PROVE (RequestFacts(m) /\ NamesCurrent(m))'
  <2>1. CASE m \in requests
    BY <1>2, <1>3, <2>1 DEF RequestFacts, NamesCurrent, TypeOK, Messages
  <2>2. CASE m = [type |-> "DATA", clientId |-> c, serverId |-> NULL_SERVER_ID,
                  buffer |-> buffer]
    BY <1>2, <1>3, <2>2 DEF RequestFacts, NamesCurrent, TypeOK
  <2>. QED
    BY <1>2, <2>1, <2>2
<1>7. ASSUME NEW r \in replies' PROVE ReplyFacts(r)'
  BY <1>2, <1>3 DEF ReplyFacts, IsAwaited, TypeOK, Replies
<1>. QED
  BY <1>1, <1>4, <1>5, <1>6, <1>7

(* The client takes over the id of its current thread.                     *)
LEMMA ReceiveReplyStep ==
  ASSUME SessionFacts, SessionInv, NEW r \in replies, ReceiveReply(r)
  PROVE  SessionInv'
<1>. USE DEF SessionInv
<1>. DEFINE c == r.clientId
<1>1. c \in ClientIds /\ r.serverId \in ServerIds
  BY DEF TypeOK, Replies
<1>2. /\ phase[c] = "syncing" /\ phase' = [phase EXCEPT ![c] = "synced"] /\ IsAwaited(r)
      /\ serverIdentifier' = [serverIdentifier EXCEPT ![c] = r.serverId]
      /\ misled' = [misled EXCEPT ![c] = misled[c] \/ r.echo # "HANDSHAKE"]
      /\ UNCHANGED <<clientIds, pastServerIds, threadState, owner, syncCount, requests, replies>>
  BY DEF ReceiveReply, serverVars, idVars
<1>3. /\ Known(c) /\ r.serverId \in Created /\ r.serverId # NULL_SERVER_ID
      /\ ~misled'[c] => ~misled[c] /\ r.serverId = clientIds[c]
                        /\ serverIdentifier[c] # clientIds[c]
  <2>1. ~misled'[c] => ~misled[c] /\ r.echo = "HANDSHAKE"
    BY <1>1, <1>2 DEF TypeOK
  <2>. QED
    BY <1>1, <1>2, <2>1 DEF ReplyFacts, IsAwaited, SessionFacts, ServerIdsAssumption
<1>4. Created' = Created /\ \A d \in ClientIds : Known(d)' = Known(d)
  BY <1>2 DEF Created, Known
<1>. HIDE DEF c
<1>5. TypeOK'
  BY <1>1, <1>2 DEF TypeOK, IdsTypeOK, Phases
<1>6. \A d \in ClientIds :
        /\ serverIdentifier'[d] = IF d = c THEN r.serverId ELSE serverIdentifier[d]
        /\ d # c => misled'[d] = misled[d]
        /\ d # c => phase'[d] = phase[d]
  BY <1>1, <1>2 DEF TypeOK
<1>7. OneActiveThread'
  BY <1>2, <1>4 DEF OneActiveThread
<1>8. OperatesForItsClient'
  <2>. SUFFICES ASSUME NEW i \in Created, threadState[i] = "BUSY", ~misled'[owner[i]]
                PROVE  serverIdentifier'[owner[i]] = i
    BY <1>2, <1>4 DEF OperatesForItsClient
  <2>1. owner[i] \in ClientIds /\ clientIds[owner[i]] = i
    BY DEF OneActiveThread, Created, TypeOK
  <2>2. ~misled[owner[i]]
    BY <1>3, <1>6, <2>1
  <2>3. serverIdentifier[owner[i]] = i
    BY <2>2 DEF OperatesForItsClient
  <2>. QED
    BY <1>3, <1>6, <2>1, <2>3
<1>9. ASSUME NEW d \in ClientIds
      PROVE  ClientFacts(d)'
  BY <1>1, <1>2, <1>3, <1>4, <1>6 DEF ClientFacts, TypeOK
<1>10. ASSUME NEW m \in requests' PROVE (RequestFacts(m) /\ NamesCurrent(m))'
  <2>1. m.clientId \in ClientIds /\ RequestFacts(m) /\ NamesCurrent(m)
    BY <1>2 DEF TypeOK, Messages
  <2>2. RequestFacts(m)'
    BY <1>2, <1>4, <2>1 DEF RequestFacts
  <2>3. NamesCurrent(m)'
    BY <1>2, <1>3, <1>6, <2>1 DEF NamesCurrent
  <2>. QED
    BY <2>2, <2>3
<1>11. ASSUME NEW q \in replies' PROVE ReplyFacts(q)'
  BY <1>1, <1>2, <1>4, <1>6 DEF ReplyFacts, IsAwaited, TypeOK, Replies
<1>. QED
  BY <1>5, <1>7, <1>8, <1>9, <1>10, <1>11

-----------------------------------------------------------------------------
(* A thread handles a message: at most its own state changes, and at most  *)
(* one reply is sent, by a thread that exists and was not stopped.         *)
LEMMA ThreadHandlesFacts ==
  ASSUME NEW states \in [ServerIds -> ThreadStates], NEW m, m.clientId \in ClientIds,
         NEW id \in ServerIds \union {NULL_SERVER_ID}, SessionFacts,
         ThreadHandles(states, id, m)
  PROVE  /\ threadState' \in [ServerIds -> ThreadStates]
         /\ \A i \in ServerIds :
              \/ threadState'[i] = states[i]
              \/ /\ i = id
                 /\ states[i] \in {"STARTING_HANDSHAKE", "WAITING_FOR_REQUEST"}
                 /\ threadState'[i] \in {"WAITING_FOR_REQUEST", "BUSY"}
                 /\ threadState'[i] = "BUSY" =>
                      m.type = "REQUEST" /\ states[i] = "WAITING_FOR_REQUEST"
         /\ \/ replies' = replies
            \/ /\ id \in ServerIds
               /\ states[id] \in {"STARTING_HANDSHAKE", "WAITING_FOR_REQUEST"}
               /\ replies' = replies \union
                    {[clientId |-> m.clientId, serverId |-> id, buffer |-> m.buffer, echo |-> m.type]}
<1>1. CASE id = NULL_SERVER_ID
  BY <1>1 DEF ThreadHandles
<1>2. CASE id \in ServerIds
  <2>1. id # NULL_SERVER_ID
    BY <1>2 DEF SessionFacts, ServerIdsAssumption
  <2>. DEFINE next == CASE states[id] = "STARTING_HANDSHAKE" -> "WAITING_FOR_REQUEST"
                        [] states[id] = "WAITING_FOR_REQUEST" /\ m.type = "REQUEST" -> "BUSY"
                        [] OTHER -> states[id]
  <2>2. threadState' = [states EXCEPT ![id] = next]
    BY <2>1 DEF ThreadHandles
  <2>3. \/ next = states[id]
        \/ /\ states[id] \in {"STARTING_HANDSHAKE", "WAITING_FOR_REQUEST"}
           /\ next \in {"WAITING_FOR_REQUEST", "BUSY"}
           /\ next = "BUSY" => m.type = "REQUEST" /\ states[id] = "WAITING_FOR_REQUEST"
    OBVIOUS
  <2>4. \/ replies' = replies
        \/ /\ states[id] \in {"STARTING_HANDSHAKE", "WAITING_FOR_REQUEST"}
           /\ replies' = replies \union
                {[clientId |-> m.clientId, serverId |-> id, buffer |-> m.buffer, echo |-> m.type]}
    BY <2>1 DEF ThreadHandles, Answers
  <2>5. next \in ThreadStates
    BY <1>2 DEF ThreadStates
  <2>. HIDE DEF next
  <2>. QED
    BY <1>2, <2>2, <2>3, <2>4, <2>5
<1>. QED
  BY <1>1, <1>2

(* What a message is resolved to: the client's current thread or none.     *)
LEMMA ResolvedFacts ==
  ASSUME NEW m, m.clientId \in ClientIds, TypeOK
  PROVE  /\ Resolved(m) \in {clientIds[m.clientId], NULL_SERVER_ID}
         /\ Resolved(m) \in ServerIds \union {NULL_SERVER_ID}
         /\ m.type = "REQUEST" /\ Resolved(m) # NULL_SERVER_ID
              => m.serverId \in {NULL_SERVER_ID, clientIds[m.clientId]}
BY DEF Resolved, TypeOK, IdsTypeOK

LEMMA HandleByThreadStep ==
  ASSUME SessionFacts, SessionInv, NEW m \in requests, HandleByThread(m)
  PROVE  SessionInv' /\ Created' = Created
<1>. USE DEF SessionInv
<1>. DEFINE c == m.clientId
            k == clientIds[c]
<1>1. /\ c \in ClientIds /\ m.buffer \in Counts /\ m.type \in Types
      /\ m.type = "HANDSHAKE" => m.buffer <= syncCount[c]
      /\ RequestFacts(m) /\ NamesCurrent(m) /\ k \in ServerIds /\ Known(c)
  BY DEF TypeOK, IdsTypeOK, Messages, RequestFacts, HandleByThread, NeedsThread, Known
<1>2. /\ UNCHANGED <<clientIds, pastServerIds, owner, serverIdentifier, syncCount, phase,
                     misled, requests>>
      /\ ThreadHandles(threadState, Resolved(m), m)
  BY DEF HandleByThread, clientVars, idVars
<1>. HIDE DEF c
<1>3. /\ threadState' \in [ServerIds -> ThreadStates]
      /\ \A i \in ServerIds :
           \/ threadState'[i] = threadState[i]
           \/ /\ i = k /\ threadState[i] \in {"STARTING_HANDSHAKE", "WAITING_FOR_REQUEST"}
              /\ threadState'[i] \in {"WAITING_FOR_REQUEST", "BUSY"}
              /\ threadState'[i] = "BUSY" => m.type = "REQUEST" /\ m.serverId = k
      /\ \/ replies' = replies
         \/ /\ threadState[k] \in {"STARTING_HANDSHAKE", "WAITING_FOR_REQUEST"}
            /\ replies' = replies \union {[clientId |-> c, serverId |-> k,
                                           buffer |-> m.buffer, echo |-> m.type]}
  <2>1. PICK states : states = threadState
    OBVIOUS
  <2>2. PICK id : id = Resolved(m)
    OBVIOUS
  <2>3. states \in [ServerIds -> ThreadStates] /\ ThreadHandles(states, id, m)
    BY <1>2, <2>1, <2>2 DEF TypeOK
  <2>4. /\ id \in {k, NULL_SERVER_ID} /\ NULL_SERVER_ID \notin ServerIds
        /\ m.type = "REQUEST" /\ id # NULL_SERVER_ID => m.serverId = k
    BY <1>1, <2>2, ResolvedFacts DEF c, RequestFacts, SessionFacts, ServerIdsAssumption
  <2>. QED
    BY <1>1, <2>1, <2>3, <2>4, ThreadHandlesFacts DEF c
<1>4. Created' = Created /\ \A d \in ClientIds : Known(d)' = Known(d)
  BY <1>2, <1>3 DEF Created, Known
<1>5. k \in Created /\ owner[k] = c
  BY <1>1 DEF Known, SessionFacts, ServerIdsAssumption, ClientFacts, c
<1>6. TypeOK'
  <2>1. replies' \in SUBSET Replies
    BY <1>1, <1>3 DEF TypeOK, Replies
  <2>. QED
    BY <1>2, <1>3, <2>1 DEF TypeOK, IdsTypeOK
<1>7. OneActiveThread'
  BY <1>2, <1>3, <1>4 DEF OneActiveThread, Created
<1>8. OperatesForItsClient'
  <2>1. m.type = "REQUEST" /\ m.serverId = k /\ ~misled[c] => serverIdentifier[c] = k
    BY <1>1 DEF NamesCurrent, c
  <2>. QED
    BY <1>2, <1>3, <1>4, <1>5, <2>1 DEF OperatesForItsClient, Created
<1>9. ASSUME NEW d \in ClientIds
      PROVE  ClientFacts(d)'
  BY <1>2, <1>4 DEF ClientFacts
<1>10. ASSUME NEW n \in requests' PROVE (RequestFacts(n) /\ NamesCurrent(n))'
  BY <1>2, <1>4 DEF RequestFacts, NamesCurrent, TypeOK, Messages
<1>11. ASSUME NEW r \in replies' PROVE ReplyFacts(r)'
  <2>1. CASE r \in replies
    BY <1>2, <1>4, <2>1 DEF ReplyFacts, IsAwaited, TypeOK, Replies
  <2>2. CASE r = [clientId |-> c, serverId |-> k, buffer |-> m.buffer, echo |-> m.type]
    BY <1>1, <1>2, <1>4, <1>5, <2>2 DEF ReplyFacts, IsAwaited
  <2>. QED
    BY <1>3, <2>1, <2>2
<1>. QED
  BY <1>4, <1>6, <1>7, <1>8, <1>9, <1>10, <1>11

LEMMA FinishOperationStep ==
  ASSUME SessionFacts, SessionInv, NEW id \in ServerIds, FinishOperation(id)
  PROVE  SessionInv'
<1>. USE DEF SessionInv
<1>1. /\ threadState[id] = "BUSY"
      /\ threadState' = [threadState EXCEPT ![id] = "WAITING_FOR_REQUEST"]
      /\ UNCHANGED <<clientIds, pastServerIds, owner, serverIdentifier, syncCount, phase,
                     misled, requests, replies>>
  BY DEF FinishOperation, clientVars, idVars
<1>2. Created' = Created /\ \A d \in ClientIds : Known(d)' = Known(d)
  BY <1>1 DEF Created, Known, TypeOK
<1>3. TypeOK'
  BY <1>1 DEF TypeOK, IdsTypeOK, ThreadStates
<1>4. OneActiveThread' /\ OperatesForItsClient'
  BY <1>1, <1>2 DEF OneActiveThread, OperatesForItsClient, TypeOK, Created
<1>5. ASSUME NEW d \in ClientIds
      PROVE  ClientFacts(d)'
  BY <1>1, <1>2 DEF ClientFacts
<1>6. ASSUME NEW n \in requests' PROVE (RequestFacts(n) /\ NamesCurrent(n))'
  BY <1>1, <1>2 DEF RequestFacts, NamesCurrent, TypeOK, Messages
<1>7. ASSUME NEW r \in replies' PROVE ReplyFacts(r)'
  BY <1>1, <1>2 DEF ReplyFacts, IsAwaited, TypeOK, Replies
<1>. QED
  BY <1>3, <1>4, <1>5, <1>6, <1>7

(* A new thread: its client, unless misled, is waiting for it, and nobody  *)
(* names it yet.                                                           *)
LEMMA HandleByNewThreadStep ==
  ASSUME SessionFacts, SessionInv, NEW m \in requests, NEW id \in ServerIds,
         HandleByNewThread(m, id)
  PROVE  /\ SessionInv'
         /\ LET c == m.clientId
            IN  /\ m.type = "HANDSHAKE" /\ m.serverId = clientIds[c]
                /\ clientIds' = [clientIds EXCEPT ![c] = id]
                /\ owner' = [owner EXCEPT ![id] = c]
                /\ id \notin Created /\ Created' = Created \union {id}
                /\ UNCHANGED <<syncCount, requests>>
<1>. USE DEF SessionInv
<1>. DEFINE c == m.clientId
<1>1. /\ c \in ClientIds /\ m.buffer \in Counts /\ m.type \in Types /\ RequestFacts(m) /\ NamesCurrent(m)
      /\ m.serverId \in ServerIds \union {NULL_SERVER_ID}
      /\ id # NULL_SERVER_ID /\ NULL_SERVER_ID \notin ServerIds
  BY DEF TypeOK, Messages, SessionFacts, ServerIdsAssumption
<1>2. /\ threadState[id] = "absent" /\ id \notin Created
      /\ clientIds' = [clientIds EXCEPT ![c] = id]
      /\ owner' = [owner EXCEPT ![id] = c]
      /\ UNCHANGED <<serverIdentifier, syncCount, phase, misled, requests>>
      /\ ThreadHandles(Replaced(m, id), ResolvedByCreator(m, id), m)
  BY DEF HandleByNewThread, clientVars, Created
<1>3. pastServerIds' \in [ClientIds -> ServerIds \union {NULL_SERVER_ID}]
  BY <1>1 DEF HandleByNewThread, RememberId, EnterId, TypeOK, IdsTypeOK
<1>4. /\ m.type = "HANDSHAKE" /\ m.serverId = clientIds[c]
      /\ ~misled[c] => phase[c] = "syncing" /\ serverIdentifier[c] = clientIds[c]
  BY <1>1 DEF HandleByNewThread, NeedsThread, Retires, RequestFacts, NamesCurrent, Known
<1>5. Retires(m) <=> Known(c)
  BY <1>4 DEF Retires
<1>. HIDE DEF c
<1>6. \A d \in ClientIds : clientIds'[d] = IF d = c THEN id ELSE clientIds[d]
  BY <1>1, <1>2 DEF TypeOK, IdsTypeOK
<1>7. \A i \in ServerIds : owner'[i] = IF i = id THEN c ELSE owner[i]
  BY <1>2 DEF TypeOK
<1>8. PICK states : states = Replaced(m, id)
  OBVIOUS
<1>9. /\ states \in [ServerIds -> ThreadStates]
      /\ \A i \in ServerIds :
           states[i] = IF i = id THEN "STARTING_HANDSHAKE"
                       ELSE IF i = clientIds[c] THEN "stopped" ELSE threadState[i]
  BY <1>1, <1>5, <1>8 DEF Replaced, TypeOK, ThreadStates, Known, c
<1>10. /\ threadState' \in [ServerIds -> ThreadStates]
       /\ \A i \in ServerIds :
            \/ threadState'[i] = states[i]
            \/ i = id /\ threadState'[i] \in {"WAITING_FOR_REQUEST", "BUSY"}
       /\ threadState'[id] # "BUSY"
       /\ \/ replies' = replies
          \/ replies' = replies \union {[clientId |-> c, serverId |-> id,
                                          buffer |-> m.buffer, echo |-> m.type]}
  <2>1. PICK to : to = ResolvedByCreator(m, id)
    OBVIOUS
  <2>2. to \in {id, NULL_SERVER_ID} /\ ThreadHandles(states, to, m)
    BY <1>2, <1>8, <2>1 DEF ResolvedByCreator
  <2>. QED
    BY <1>1, <1>4, <1>9, <2>2, ThreadHandlesFacts DEF c
<1>11. /\ Created' = Created \union {id}
       /\ \A d \in ClientIds : Known(d)' = (d = c \/ Known(d))
  <2>1. clientIds[c] \in Created \union {NULL_SERVER_ID}
    BY <1>1 DEF ClientFacts, c
  <2>2. \A i \in ServerIds : threadState'[i] # "absent" <=> i = id \/ threadState[i] # "absent"
    BY <1>1, <1>9, <1>10, <2>1 DEF Created
  <2>. QED
    BY <1>1, <1>6, <2>2 DEF Created, Known
<1>12. TypeOK'
  <2>1. replies' \in SUBSET Replies
    BY <1>1, <1>10 DEF TypeOK, Replies
  <2>2. clientIds' \in [ClientIds -> ServerIds \union {NULL_SERVER_ID}]
        /\ owner' \in [ServerIds -> ClientIds]
    BY <1>1, <1>2 DEF TypeOK, IdsTypeOK, c
  <2>. QED
    BY <1>2, <1>3, <1>10, <2>1, <2>2 DEF TypeOK, IdsTypeOK
<1>13. OneActiveThread'
  <2>. SUFFICES ASSUME NEW i \in Created', threadState'[i] # "stopped"
                PROVE  clientIds'[owner'[i]] = i
    BY DEF OneActiveThread
  <2>1. CASE i = id
    BY <1>1, <1>6, <1>7, <2>1 DEF c
  <2>2. CASE i # id
    <3>1. i \in Created /\ i # clientIds[c] /\ threadState[i] # "stopped"
      BY <1>9, <1>10, <1>11, <2>2 DEF Created
    <3>2. clientIds[owner[i]] = i /\ owner[i] \in ClientIds
      BY <3>1 DEF OneActiveThread, Created, TypeOK
    <3>. QED
      BY <1>6, <1>7, <2>2, <3>1, <3>2 DEF Created
  <2>. QED
    BY <2>1, <2>2
<1>14. OperatesForItsClient'
  <2>. SUFFICES ASSUME NEW i \in Created', threadState'[i] = "BUSY", ~misled'[owner'[i]]
                PROVE  serverIdentifier'[owner'[i]] = i
    BY DEF OperatesForItsClient
  <2>1. i # id /\ i \in ServerIds
    BY <1>10 DEF Created
  <2>2. i \in Created /\ threadState[i] = "BUSY"
    BY <1>9, <1>10, <2>1 DEF Created
  <2>3. ~misled[owner[i]]
    BY <1>2, <1>7, <2>1
  <2>. QED
    BY <1>2, <1>7, <2>1, <2>2, <2>3 DEF OperatesForItsClient
<1>15. ASSUME NEW d \in ClientIds
       PROVE  ClientFacts(d)'
  <2>0. ClientFacts(d)
    OBVIOUS
  <2>1. CASE d = c
    <3>1. ~(misled[c]) => phase'[d] = "syncing"
      BY <1>2, <1>4, <2>1
    <3>2. /\ clientIds'[d] = id /\ Known(d)' /\ owner'[clientIds'[d]] = d
          /\ serverIdentifier' = serverIdentifier /\ syncCount' = syncCount
          /\ phase' = phase /\ misled' = misled
      BY <1>1, <1>2, <1>6, <1>7, <1>11, <2>1
    <3>. QED
      BY <1>11, <2>0, <2>1, <3>1, <3>2 DEF ClientFacts
  <2>2. CASE d # c
    <3>1. Known(d) => clientIds[d] \in ServerIds /\ clientIds[d] # id
      BY <1>2, <2>0 DEF ClientFacts, Known, Created
    <3>2. clientIds'[d] = clientIds[d] /\ (Known(d)' <=> Known(d))
      BY <1>6, <1>11, <2>2
    <3>. QED
      BY <1>2, <1>7, <1>11, <2>0, <2>2, <3>1, <3>2 DEF ClientFacts
  <2>. QED
    BY <2>1, <2>2
<1>16. ASSUME NEW n \in requests' PROVE (RequestFacts(n) /\ NamesCurrent(n))'
  <2>1. n \in requests /\ n.clientId \in ClientIds /\ RequestFacts(n) /\ NamesCurrent(n)
    BY <1>2 DEF TypeOK, Messages
  <2>2. n.serverId # id
    BY <1>1, <1>2, <2>1 DEF RequestFacts
  <2>3. RequestFacts(n)'
    BY <1>2, <1>11, <2>1 DEF RequestFacts
  <2>4. NamesCurrent(n)'
    BY <1>2, <1>6, <2>1, <2>2 DEF NamesCurrent
  <2>. QED
    BY <2>3, <2>4
<1>17. ASSUME NEW r \in replies' PROVE ReplyFacts(r)'
  <2>1. CASE r \in replies
    <3>1. r.clientId \in ClientIds /\ ReplyFacts(r)
      BY <2>1 DEF TypeOK, Replies
    <3>2. ~( /\ r.clientId = c /\ IsAwaited(r) /\ r.echo = "HANDSHAKE" /\ ~misled[c])
      BY <1>4, <3>1 DEF ReplyFacts, IsAwaited, c
    <3>. QED
      BY <1>2, <1>6, <1>11, <3>1, <3>2 DEF ReplyFacts, IsAwaited, TypeOK
  <2>2. CASE r = [clientId |-> c, serverId |-> id, buffer |-> m.buffer, echo |-> m.type]
    <3>1. m.buffer <= syncCount[c] /\ c \in ClientIds
      BY <1>1, <1>4 DEF RequestFacts, c
    <3>. QED
      BY <1>2, <1>6, <1>11, <2>2, <3>1 DEF ReplyFacts
  <2>. QED
    BY <1>10, <2>1, <2>2
<1>. QED
  BY <1>2, <1>4, <1>11, <1>12, <1>13, <1>14, <1>15, <1>16, <1>17 DEF c

-----------------------------------------------------------------------------
LEMMA SessionStep == ASSUME SessionFacts, SessionInv, [Next]_vars PROVE SessionInv'
<1>1. CASE UNCHANGED vars
  BY <1>1 DEF vars, serverVars, clientVars, idVars, SessionInv, TypeOK, IdsTypeOK,
     OneActiveThread, OperatesForItsClient, ClientFacts, Known, RequestFacts, NamesCurrent,
     ReplyFacts, IsAwaited, Created
<1>2. ASSUME NEW c \in ClientIds,
             StartSync(c) \/ Drained(c) \/ StartOperation(c) \/ ReturnToMenu(c)
      PROVE  SessionInv'
  BY <1>2, StartSyncStep, DrainedStep, StartOperationStep, ReturnToMenuStep
<1>3. ASSUME NEW c \in ClientIds, NEW buffer \in Counts, SendData(c, buffer)
      PROVE  SessionInv'
  BY <1>3, SendDataStep
<1>4. ASSUME NEW r \in replies, ReceiveReply(r) PROVE SessionInv'
  BY <1>4, ReceiveReplyStep
<1>5. ASSUME NEW m \in requests, Handle(m) PROVE SessionInv'
  BY <1>5, HandleByThreadStep, HandleByNewThreadStep DEF Handle
<1>6. ASSUME NEW id \in ServerIds, FinishOperation(id) PROVE SessionInv'
  BY <1>6, FinishOperationStep
<1>. QED
  BY <1>1, <1>2, <1>3, <1>4, <1>5, <1>6 DEF Next

LEMMA Assumptions == SessionFacts
BY ServerIdsAssumption, SessionAssumption DEF SessionFacts

LEMMA SessionInvariant == Spec => []SessionInv
<1>. SessionFacts
  BY Assumptions
<1>1. Init => SessionInv
  BY SessionInit
<1>2. SessionInv /\ [Next]_vars => SessionInv'
  BY SessionStep
<1>. QED
  BY <1>1, <1>2, PTL DEF Spec

-----------------------------------------------------------------------------
(* Types of clients, threads and messages: client ids are never taken for  *)
(* server ids, nor counts for more than the operations started.            *)
THEOREM SessionTypeCorrect == Spec => []TypeOK
<1>1. SessionInv => TypeOK
  BY DEF SessionInv
<1>. QED
  BY <1>1, SessionInvariant, PTL

(* syncServer (FtpClient.cpp:407) leaves a client that was never misled    *)
(* with the id of the thread that FtpServer::getServerId finds for it.     *)
THEOREM SyncedWithCurrentTheorem == Spec => []SyncedWithCurrent
<1>1. SessionInv => SyncedWithCurrent
  BY DEF SessionInv, SyncedWithCurrent, ClientFacts
<1>. QED
  BY <1>1, SessionInvariant, PTL

(* A left-over request never starts an operation in a later thread of a    *)
(* client that was never misled.                                           *)
THEOREM OperatesForItsClientTheorem == Spec => []OperatesForItsClient
<1>1. SessionInv => OperatesForItsClient
  BY DEF SessionInv
<1>. QED
  BY <1>1, SessionInvariant, PTL

(* getServerId stops a client's thread before it creates another.          *)
THEOREM OneActiveThreadTheorem == Spec => []OneActiveThread
<1>1. SessionInv => OneActiveThread
  BY DEF SessionInv
<1>. QED
  BY <1>1, SessionInvariant, PTL

-----------------------------------------------------------------------------
(* The number of threads, whatever the client was told: every thread but   *)
(* the current one was named by a HANDSHAKE that replaced it, as was       *)
(* NULL_SERVER_ID by the first, and each synchronisation names one id.     *)
ThreadsOf(c)   == {i \in Created : owner[i] = c}
HandshakesOf(c) == {m \in requests : m.type = "HANDSHAKE" /\ m.clientId = c}
NamedBy(c)     == {m.serverId : m \in HandshakesOf(c)}

ThreadCount(c) ==
  /\ IsFiniteSet(NamedBy(c)) /\ Cardinality(NamedBy(c)) <= syncCount[c]
  /\ ThreadsOf(c) \ {clientIds[c]} \subseteq NamedBy(c)
  /\ Known(c) => NULL_SERVER_ID \in NamedBy(c)
  /\ ThreadsOf(c) # {} => Known(c)

CountInv == \A c \in ClientIds : ThreadCount(c)

LEMMA CountInit == ASSUME SessionFacts, Init PROVE CountInv
<1>1. IsFiniteSet({}) /\ Cardinality({}) = 0
  BY FS_EmptySet
<1>2. ASSUME NEW c \in ClientIds PROVE ThreadCount(c)
  <2>1. ThreadsOf(c) = {} /\ NamedBy(c) = {} /\ ~Known(c) /\ syncCount[c] = 0
    BY DEF Init, IdsInit, Known, ThreadsOf, Created, NamedBy, HandshakesOf
  <2>2. IsFiniteSet(NamedBy(c)) /\ Cardinality(NamedBy(c)) = 0
    BY <1>1, <2>1
  <2>. QED
    BY <2>1, <2>2 DEF ThreadCount
<1>. QED
  BY <1>2 DEF CountInv

LEMMA CountUnchanged ==
  ASSUME CountInv, NEW c \in ClientIds, ThreadsOf(c)' = ThreadsOf(c),
         NamedBy(c)' = NamedBy(c), syncCount'[c] = syncCount[c], clientIds'[c] = clientIds[c]
  PROVE  ThreadCount(c)'
<1>1. ThreadCount(c)
  BY DEF CountInv
<1>2. Cardinality(NamedBy(c))' = Cardinality(NamedBy(c))
  OBVIOUS
<1>. QED
  BY <1>1, <1>2 DEF ThreadCount, Known

LEMMA CountDrained ==
  ASSUME SessionFacts, SessionInv, CountInv, NEW c \in ClientIds, Drained(c)
  PROVE  ThreadCount(c)'
<1>1. ThreadCount(c) /\ syncCount[c] \in Nat /\ syncCount'[c] = syncCount[c] + 1
  BY DEF CountInv, SessionInv, TypeOK, Counts, Drained, SessionFacts, SessionAssumption
<1>2. PICK m : /\ m = [type |-> "HANDSHAKE", clientId |-> c, serverId |-> serverIdentifier[c],
                       buffer |-> syncCount[c] + 1]
               /\ requests' = requests \union {m}
  BY DEF Drained, Send
<1>3. HandshakesOf(c)' = HandshakesOf(c) \union {m}
  BY <1>2 DEF HandshakesOf
<1>4. NamedBy(c)' = NamedBy(c) \union {serverIdentifier[c]}
  BY <1>2, <1>3 DEF NamedBy
<1>5. /\ IsFiniteSet(NamedBy(c))' /\ Cardinality(NamedBy(c)) \in Nat
      /\ Cardinality(NamedBy(c))' \in {Cardinality(NamedBy(c)), Cardinality(NamedBy(c)) + 1}
  <2>1. PICK S : S = NamedBy(c)
    OBVIOUS
  <2>2. PICK T : T = NamedBy(c)'
    OBVIOUS
  <2>3. IsFiniteSet(S) /\ T = S \union {serverIdentifier[c]}
    BY <1>1, <1>4, <2>1, <2>2 DEF ThreadCount
  <2>4. IsFiniteSet(T) /\ Cardinality(S) \in Nat
    BY <2>3, FS_AddElement, FS_CardinalityType
  <2>5. CASE serverIdentifier[c] \in S
    <3>1. T = S
      BY <2>3, <2>5
    <3>. QED
      BY <2>1, <2>2, <2>4, <3>1
  <2>6. CASE serverIdentifier[c] \notin S
    <3>1. Cardinality(T) = Cardinality(S) + 1
      BY <2>3, <2>6, FS_AddElement
    <3>. QED
      BY <2>1, <2>2, <2>4, <3>1
  <2>. QED
    BY <2>5, <2>6
<1>6. Cardinality(NamedBy(c))' <= syncCount'[c]
  BY <1>1, <1>5 DEF ThreadCount
<1>7. ThreadsOf(c)' = ThreadsOf(c) /\ Known(c)' = Known(c) /\ clientIds'[c] = clientIds[c]
  BY DEF Drained, serverVars, idVars, ThreadsOf, Created, Known
<1>. QED
  BY <1>1, <1>4, <1>5, <1>6, <1>7 DEF ThreadCount

LEMMA CountNewThread ==
  ASSUME SessionFacts, SessionInv, CountInv, NEW c \in ClientIds, NEW m \in requests,
         NEW id \in ServerIds, HandleByNewThread(m, id)
  PROVE  ThreadCount(c)'
<1>1. /\ m.type = "HANDSHAKE" /\ m.serverId = clientIds[m.clientId]
      /\ clientIds' = [clientIds EXCEPT ![m.clientId] = id]
      /\ owner' = [owner EXCEPT ![id] = m.clientId]
      /\ id \notin Created /\ Created' = Created \union {id}
      /\ UNCHANGED <<syncCount, requests>>
  BY HandleByNewThreadStep
<1>2. /\ m.clientId \in ClientIds /\ owner \in [ServerIds -> ClientIds]
      /\ clientIds \in [ClientIds -> ServerIds \union {NULL_SERVER_ID}]
      /\ id # NULL_SERVER_ID
  BY DEF SessionInv, TypeOK, IdsTypeOK, Messages, SessionFacts, ServerIdsAssumption
<1>3. Created \subseteq ServerIds /\ ThreadCount(c)
  BY DEF Created, CountInv
<1>4. NamedBy(c)' = NamedBy(c)
  BY <1>1 DEF NamedBy, HandshakesOf
<1>5. CASE c # m.clientId
  <2>1. ThreadsOf(c)' = ThreadsOf(c)
    BY <1>1, <1>2, <1>3, <1>5 DEF ThreadsOf
  <2>. QED
    BY <1>1, <1>2, <1>4, <1>5, <2>1, CountUnchanged
<1>6. CASE c = m.clientId
  <2>1. ThreadsOf(c)' = ThreadsOf(c) \union {id} /\ clientIds'[c] = id
    BY <1>1, <1>2, <1>3, <1>6 DEF ThreadsOf
  <2>2. clientIds[c] \in NamedBy(c)
    BY <1>1, <1>6 DEF NamedBy, HandshakesOf
  <2>3. Known(c)' /\ NULL_SERVER_ID \in NamedBy(c)
    BY <1>2, <1>3, <2>1, <2>2 DEF ThreadCount, Known
  <2>4. ThreadsOf(c)' \ {id} \subseteq NamedBy(c)
    BY <1>3, <2>1, <2>2 DEF ThreadCount
  <2>5. Cardinality(NamedBy(c))' = Cardinality(NamedBy(c))
    BY <1>4
  <2>. QED
    BY <1>1, <1>3, <1>4, <2>1, <2>3, <2>4, <2>5 DEF ThreadCount
<1>. QED
  BY <1>5, <1>6

LEMMA CountStep == ASSUME SessionFacts, SessionInv, CountInv, [Next]_vars PROVE CountInv'
<1>. SUFFICES ASSUME NEW c \in ClientIds PROVE ThreadCount(c)'
  BY DEF CountInv
<1>1. ASSUME UNCHANGED <<threadState, owner, clientIds, requests, syncCount>>
      PROVE  ThreadCount(c)'
  BY <1>1, CountUnchanged DEF ThreadsOf, Created, NamedBy, HandshakesOf
<1>2. CASE UNCHANGED vars
  BY <1>1, <1>2 DEF vars, serverVars, clientVars, idVars
<1>3. ASSUME NEW d \in ClientIds, StartSync(d) \/ ReturnToMenu(d) PROVE ThreadCount(c)'
  BY <1>1, <1>3 DEF StartSync, ReturnToMenu, serverVars, idVars
<1>4. ASSUME NEW d \in ClientIds, Drained(d) PROVE ThreadCount(c)'
  <2>1. CASE d = c
    BY <1>4, <2>1, CountDrained
  <2>2. CASE d # c
    <3>1. ThreadsOf(c)' = ThreadsOf(c) /\ clientIds' = clientIds
      BY <1>4 DEF Drained, serverVars, idVars, ThreadsOf, Created
    <3>2. HandshakesOf(c)' = HandshakesOf(c)
      BY <1>4, <2>2 DEF Drained, Send, HandshakesOf
    <3>3. NamedBy(c)' = NamedBy(c)
      BY <3>2 DEF NamedBy
    <3>4. syncCount'[c] = syncCount[c]
      BY <1>4, <2>2 DEF Drained, SessionInv, TypeOK
    <3>. QED
      BY <3>1, <3>3, <3>4, CountUnchanged
  <2>. QED
    BY <2>1, <2>2
<1>5. ASSUME NEW d \in ClientIds, StartOperation(d) \/ \E buffer \in Counts : SendData(d, buffer)
      PROVE  ThreadCount(c)'
  <2>1. ThreadsOf(c)' = ThreadsOf(c) /\ clientIds' = clientIds /\ syncCount' = syncCount
    BY <1>5 DEF StartOperation, SendData, serverVars, clientVars, idVars, ThreadsOf, Created
  <2>2. HandshakesOf(c)' = HandshakesOf(c)
    BY <1>5 DEF StartOperation, SendData, Send, HandshakesOf
  <2>3. NamedBy(c)' = NamedBy(c)
    BY <2>2 DEF NamedBy
  <2>. QED
    BY <2>1, <2>3, CountUnchanged
<1>6. ASSUME NEW r \in replies, ReceiveReply(r) PROVE ThreadCount(c)'
  BY <1>1, <1>6 DEF ReceiveReply, serverVars, idVars
<1>7. ASSUME NEW m \in requests, HandleByThread(m) PROVE ThreadCount(c)'
  <2>1. ThreadsOf(c)' = ThreadsOf(c)
    BY <1>7, HandleByThreadStep DEF ThreadsOf, HandleByThread
  <2>. QED
    BY <1>7, <2>1, CountUnchanged DEF HandleByThread, clientVars, idVars, NamedBy, HandshakesOf
<1>8. ASSUME NEW id \in ServerIds, FinishOperation(id) PROVE ThreadCount(c)'
  <2>1. ThreadsOf(c)' = ThreadsOf(c)
    BY <1>8 DEF ThreadsOf, Created, FinishOperation, SessionInv, TypeOK
  <2>. QED
    BY <1>8, <2>1, CountUnchanged DEF FinishOperation, clientVars, idVars, NamedBy, HandshakesOf
<1>9. ASSUME NEW m \in requests, NEW id \in ServerIds, HandleByNewThread(m, id)
      PROVE  ThreadCount(c)'
  BY <1>9, CountNewThread
<1>. QED
  BY <1>2, <1>3, <1>4, <1>5, <1>6, <1>7, <1>8, <1>9 DEF Next, Handle

(* No more threads than names: the current one takes NULL_SERVER_ID's.     *)
LEMMA CountBounds == ASSUME SessionFacts, SessionInv, CountInv PROVE OneThreadPerSync
<1>. SUFFICES ASSUME NEW c \in ClientIds PROVE Cardinality(ThreadsOf(c)) <= syncCount[c]
  BY DEF OneThreadPerSync, ThreadsOf
<1>1. ThreadCount(c) /\ syncCount[c] \in Nat
  BY DEF CountInv, SessionInv, TypeOK, Counts, SessionFacts, SessionAssumption
<1>2. CASE ThreadsOf(c) = {}
  BY <1>1, <1>2, FS_EmptySet
<1>3. CASE ThreadsOf(c) # {}
  <2>. DEFINE past == ThreadsOf(c) \ {clientIds[c]}
  <2>1. past \subseteq NamedBy(c) \ {NULL_SERVER_ID} /\ NULL_SERVER_ID \in NamedBy(c)
    BY <1>1, <1>3 DEF ThreadCount, ThreadsOf, Created, SessionFacts, ServerIdsAssumption
  <2>2. /\ IsFiniteSet(NamedBy(c) \ {NULL_SERVER_ID})
        /\ Cardinality(NamedBy(c) \ {NULL_SERVER_ID}) = Cardinality(NamedBy(c)) - 1
    BY <1>1, <2>1, FS_RemoveElement DEF ThreadCount
  <2>3. IsFiniteSet(past) /\ Cardinality(past) <= Cardinality(NamedBy(c)) - 1
    BY <2>1, <2>2, FS_Subset
  <2>4. /\ IsFiniteSet(past \union {clientIds[c]})
        /\ Cardinality(past \union {clientIds[c]}) <= Cardinality(past) + 1
    <3>1. Cardinality(past) \in Nat
      BY <2>3, FS_CardinalityType
    <3>2. /\ IsFiniteSet(past \union {clientIds[c]})
          /\ Cardinality(past \union {clientIds[c]}) = Cardinality(past) + 1
      <4>1. clientIds[c] \notin past
        OBVIOUS
      <4>. HIDE DEF past
      <4>. QED
        BY <2>3, <4>1, FS_AddElement
    <3>. QED
      BY <3>1, <3>2
  <2>5. ThreadsOf(c) \subseteq past \union {clientIds[c]}
    OBVIOUS
  <2>6. /\ Cardinality(ThreadsOf(c)) <= Cardinality(past \union {clientIds[c]})
        /\ Cardinality(ThreadsOf(c)) \in Nat /\ Cardinality(past \union {clientIds[c]}) \in Nat
        /\ Cardinality(past) \in Nat /\ Cardinality(NamedBy(c)) \in Nat
    BY <1>1, <2>3, <2>4, <2>5, FS_Subset, FS_CardinalityType DEF ThreadCount
  <2>. HIDE DEF past
  <2>. QED
    BY <1>1, <2>3, <2>4, <2>6 DEF ThreadCount
<1>. QED
  BY <1>2, <1>3

(* However often a HANDSHAKE is repeated, it creates one thread at most.   *)
THEOREM OneThreadPerSyncTheorem == Spec => []OneThreadPerSync
<1>. SessionFacts
  BY Assumptions
<1>1. Init => CountInv
  BY CountInit
<1>2. SessionInv /\ CountInv /\ [Next]_vars => CountInv'
  BY CountStep
<1>3. SessionInv /\ CountInv => OneThreadPerSync
  BY CountBounds
<1>. QED
  BY <1>1, <1>2, <1>3, SessionInvariant, PTL DEF Spec

=============================================================================
