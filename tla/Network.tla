------------------------------ MODULE Network ------------------------------
(***************************************************************************)
(* UdpClientMuxer and Router together: what lies between the clients and   *)
(* the server.  The multiplexer gives each client an id on request; its    *)
(* ClientListener forwards every other datagram of a client to the router, *)
(* and its RouterListener every datagram of the router to the client whose *)
(* id is in it.                                                            *)
(*                                                                         *)
(* A datagram from a client is sent and handled by ClientListener in one   *)
(* step: its socket is a queue in front of the router's.  The two          *)
(* listeners share the map of clients, and only one of them locks it.      *)
(***************************************************************************)
EXTENDS Router, SequencesExt

CONSTANTS
  Clients,         \* client processes, which are also their addresses
  Ids,             \* client ids (0 .. 255 in the code)
  NULL_CLIENT_ID   \* not an id

ASSUME NetworkAssumption == NULL_CLIENT_ID \notin Ids /\ NULL_CLIENT_ID \notin Clients

VARIABLES
  clientId,          \* host -> ids in the packets it sent, in that order
  clientMap,         \* id -> address of its client, or NULL_CLIENT_ID
  inserting,         \* id that ClientListener is entering into clientMap
  asked,             \* client -> address ClientListener works for: its id
  clientIdentifier,  \* client -> the id it was told
  forwarded,         \* packets of the router that RouterListener has taken
  inbox,             \* client -> packets RouterListener sent to it
  exited             \* the multiplexer called exit(1)

clientVars == <<clientId, asked, clientIdentifier>>
muxerVars  == <<clientMap, inserting, forwarded, inbox, exited>>
netVars    == <<vars, clientVars, muxerVars>>

NetworkInit ==
  /\ Init
  /\ clientId = [h \in Hosts |-> <<>>]
  /\ clientMap = [i \in Ids |-> NULL_CLIENT_ID]
  /\ inserting = NULL_CLIENT_ID
  /\ asked = [c \in Clients |-> NULL_CLIENT_ID]
  /\ clientIdentifier = [c \in Clients |-> NULL_CLIENT_ID]
  /\ forwarded = 0
  /\ inbox = [c \in Clients |-> <<>>]
  /\ exited = FALSE

SendAs(h, i) == Arrive(h) /\ clientId' = [clientId EXCEPT ![h] = Append(@, i)]

Listening == ~exited /\ inserting = NULL_CLIENT_ID

(* Mutant of FreeIds: ClientListener does not look for the id in its map.  *)
AnyIds == Ids

(* rand() is repeated until it gives an id that is not in the map.         *)
FreeIds == {i \in Ids : clientMap[i] = NULL_CLIENT_ID}

(* performMuxerHandshake sends one request and waits for one answer.       *)
RequestId(c) ==
  /\ Listening
  /\ asked[c] = NULL_CLIENT_ID
  /\ \E i \in FreeIds :
       /\ asked' = [asked EXCEPT ![c] = i]
       /\ inserting' = i
  /\ UNCHANGED <<vars, clientId, clientMap, clientIdentifier, forwarded, inbox, exited>>

(* insert is done and the id is sent to the client, which may not get it.  *)
AssignId(c) ==
  /\ ~exited
  /\ inserting # NULL_CLIENT_ID
  /\ asked[c] = inserting
  /\ clientIdentifier[c] = NULL_CLIENT_ID
  /\ clientMap' = [clientMap EXCEPT ![inserting] = c]
  /\ inserting' = NULL_CLIENT_ID
  /\ clientIdentifier' \in {clientIdentifier, [clientIdentifier EXCEPT ![c] = inserting]}
  /\ UNCHANGED <<vars, clientId, asked, forwarded, inbox, exited>>

(* ClientListener forwards a client's message.                             *)
ClientSends(c) ==
  /\ Listening
  /\ clientIdentifier[c] # NULL_CLIENT_ID
  /\ SendAs(2, clientIdentifier[c])
  /\ UNCHANGED <<asked, clientIdentifier, muxerVars>>

(* The server sends to clients it has heard of.                            *)
ServerSends ==
  /\ \E n \in ToSet(delivered[1]) : SendAs(1, clientId[2][n])
  /\ UNCHANGED <<asked, clientIdentifier, muxerVars>>

NextPacket == delivered[2][forwarded + 1]

(* RouterListener looks up the address without the lock.                   *)
RouterListener ==
  /\ ~exited
  /\ forwarded < Len(delivered[2])
  /\ forwarded' = forwarded + 1
  /\ inbox' = [inbox EXCEPT ![clientMap[clientId[1][NextPacket]]] = Append(@, NextPacket)]
  /\ UNCHANGED <<vars, clientVars, clientMap, inserting, exited>>

(* While ClientListener changes the map, the lookup may miss the entry:    *)
(* operator[] then makes an empty one, to which sendto fails.              *)
RouterListenerMisses ==
  /\ ~exited
  /\ forwarded < Len(delivered[2])
  /\ inserting # NULL_CLIENT_ID
  /\ exited' = TRUE
  /\ UNCHANGED <<vars, clientVars, clientMap, inserting, forwarded, inbox>>

Route == Run /\ UNCHANGED <<clientVars, muxerVars>>

NetworkNext ==
  \/ \E c \in Clients : RequestId(c) \/ AssignId(c) \/ ClientSends(c)
  \/ ServerSends
  \/ RouterListener
  \/ RouterListenerMisses
  \/ Route

NetworkSpec == NetworkInit /\ [][NetworkNext]_netVars /\ WF_netVars(Route)

-----------------------------------------------------------------------------
(* Types of the multiplexer's state.                                       *)
NetworkTypeOK ==
  /\ TypeOK
  /\ clientId \in [Hosts -> Seq(Ids)]
  /\ clientMap \in [Ids -> Clients \union {NULL_CLIENT_ID}]
  /\ inserting \in Ids \union {NULL_CLIENT_ID}
  /\ asked \in [Clients -> Ids \union {NULL_CLIENT_ID}]
  /\ clientIdentifier \in [Clients -> Ids \union {NULL_CLIENT_ID}]
  /\ forwarded \in 0 .. Len(delivered[2])
  /\ inbox \in [Clients -> Seq(1 .. Packets)]
  /\ exited \in BOOLEAN

(* Every id in a packet is in the map; the map has each client under the   *)
(* id it was told, and under no other id than the one it was given; an id  *)
(* that was given is in the map, or is being entered and not in it yet;    *)
(* and no id was given twice.                                              *)
OwnersInv ==
  /\ \A h \in Hosts : \A n \in 1 .. Len(clientId[h]) :
       clientMap[clientId[h][n]] \in Clients
  /\ \A c \in Clients :
       clientIdentifier[c] # NULL_CLIENT_ID => clientMap[clientIdentifier[c]] = c
  /\ \A i \in Ids : clientMap[i] \in Clients => asked[clientMap[i]] = i
  /\ inserting # NULL_CLIENT_ID => clientMap[inserting] = NULL_CLIENT_ID
  /\ \A c \in Clients : asked[c] # NULL_CLIENT_ID =>
       inserting = asked[c] \/ clientMap[asked[c]] = c
  /\ \A c, d \in Clients : asked[c] = asked[d] /\ asked[c] # NULL_CLIENT_ID => c = d

(* The members of S in s, in the order of s.                               *)
Chosen(s, S) ==
  LET upTo[n \in 0 .. Len(s)] ==
        IF n = 0 THEN <<>>
        ELSE IF s[n] \in S THEN Append(upTo[n - 1], s[n]) ELSE upTo[n - 1]
  IN  upTo[Len(s)]

(* Packets of host h that belong to client c, and those of them in s.      *)
OwnPackets(h, c) == {n \in 1 .. Len(clientId[h]) : clientId[h][n] = asked[c]}
Of(h, c, s) == Chosen(s, OwnPackets(h, c))

OwnServerChannel(c) == INSTANCE DelayChannel WITH
  Messages <- 1 .. Packets,
  held     <- Of(2, c, HeldFor(1)),
  leaving  <- Of(2, c, delivered[1])

OwnClientChannel(c) == INSTANCE DelayChannel WITH
  Messages <- 1 .. Packets,
  held     <- Of(1, c, HeldFor(2)),
  leaving  <- inbox[c] \o
                Of(1, c, SubSeq(delivered[2], forwarded + 1, Len(delivered[2])))

(* Each client has a DelayChannel to the server to itself, although all    *)
(* share the router and its one buffer ...                                 *)
OwnToServer ==
  /\ \A c \in Clients : OwnServerChannel(c)!Init
  /\ [][\A c \in Clients : \/ UNCHANGED OwnServerChannel(c)!dcVars
                           \/ OwnServerChannel(c)!Next]_netVars

(* ... and one from the server: nothing reaches another client's socket,   *)
(* and nothing is lost, repeated or reordered beyond what the router does, *)
(* even when the multiplexer exits.                                        *)
OwnToClient ==
  /\ \A c \in Clients : OwnClientChannel(c)!Init
  /\ [][\A c \in Clients : \/ UNCHANGED OwnClientChannel(c)!dcVars
                           \/ OwnClientChannel(c)!Next]_netVars

=============================================================================
