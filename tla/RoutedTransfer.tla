--------------------------- MODULE RoutedTransfer ---------------------------
(***************************************************************************)
(* The data phase of a transfer over the emulated network.  Data packets   *)
(* and acknowledgements each travel through a DelayChannel, the promise    *)
(* the router keeps for one direction: a message may be lost, or overtaken *)
(* by one later message, but is never duplicated.                          *)
(*                                                                         *)
(* Unlike in SelectiveRepeat, the payload may be longer than the sequence  *)
(* range: sequence numbers are reused, and what keeps the transfer right   *)
(* is the order in which the network delivers, and how late a SenderThread *)
(* may send: between its test of the flag and its sendto other threads     *)
(* process ACKs and send packets of the next round.  The code sets no limit*)
(* to that.  Spec has none either; PromptSpec has the one that is needed.  *)
(* A sendto that fails, which ends its thread, is in SelectiveRepeat.      *)
(*                                                                         *)
(* Init is the moment after the request was answered; modules Upload and   *)
(* Download add the request, and use the actions of this one.              *)
(***************************************************************************)
EXTENDS Sender, Receiver

CONSTANTS
  Delays,       \* the router's delay rate is not zero
  MaxInFlight   \* bound: messages that fit in a direction of the network

ASSUME RoutedAssumption ==
  /\ Delays \in BOOLEAN
  /\ MaxInFlight \in Nat \ {0}

VARIABLES dataHeld, dataLeaving, ackHeld, ackLeaving

dataNetwork == <<dataHeld, dataLeaving>>
ackNetwork  == <<ackHeld, ackLeaving>>
vars == <<senderVars, receiverVars, dataNetwork, ackNetwork>>

Data == INSTANCE DelayChannel WITH
          Messages <- Packets, held <- dataHeld, leaving <- dataLeaving
Acks == INSTANCE DelayChannel WITH
          Messages <- Slots, held <- ackHeld, leaving <- ackLeaving

Payload == [i \in 1 .. numberOfPackets |-> i - 1]

Init ==
  /\ SenderInit
  /\ ReceiverInit
  /\ Data!Init
  /\ Acks!Init

(* One sendto.  A full receive buffer drops what arrives.  The channel's   *)
(* PassAndLose and LoseHeld are left out: for both ends they are the loss  *)
(* of the held message when it was sent.                                   *)
Transmit(p) ==
  \/ Data!Lose
  \/ Delays /\ Data!Hold(p)
  \/ Data!Pass(p) /\ Len(dataLeaving') <= MaxInFlight

Acknowledge(s) ==
  \/ Acks!Lose
  \/ Delays /\ Acks!Hold(s)
  \/ Acks!Pass(s) /\ Len(ackLeaving') <= MaxInFlight

ReleaseData ==
  /\ Data!Release
  /\ Len(dataLeaving') <= MaxInFlight
  /\ UNCHANGED <<senderVars, receiverVars, ackNetwork>>

ReleaseAck ==
  /\ Acks!Release
  /\ Len(ackLeaving') <= MaxInFlight
  /\ UNCHANGED <<senderVars, receiverVars, dataNetwork>>

(* performUpload: the next message of the server's socket is an ACK.       *)
ReceiveAck ==
  /\ ackLeaving # <<>>
  /\ ProcessAck(Head(ackLeaving))
  /\ ackLeaving' = Tail(ackLeaving)
  /\ UNCHANGED <<receiverVars, dataNetwork, ackHeld>>

ExitThread(p) ==
  /\ ThreadExit(p)
  /\ UNCHANGED <<receiverVars, dataNetwork, ackNetwork>>

CommitThread(p) ==
  /\ ThreadCommit(p)
  /\ UNCHANGED <<receiverVars, dataNetwork, ackNetwork>>

SendPacket(p) ==
  /\ ThreadSend(p)
  /\ Transmit(p)
  /\ UNCHANGED <<receiverVars, ackNetwork>>

(* Mutant of ReceiveData: an EOF is taken for data.                        *)
ReceiveEofAsData(p) ==
  /\ ~isPayloadComplete
  /\ HandleData(p)
  /\ Acknowledge(Slot(p))

(* dispatchToReceiver, or in state WAITING_FOR_REQUEST, sendAck.           *)
ReceiveData(p) ==
  /\ p # Eof
  /\ ~isPayloadComplete
  /\ HandleData(p)
  /\ Acknowledge(Slot(p))

ReceiveEof(p) ==
  /\ p = Eof
  /\ ~isPayloadComplete
  /\ \/ AcceptEof /\ Acknowledge(Slot(Eof))
     \/ IgnoreEof /\ UNCHANGED ackNetwork

(* Mutant of ReAcknowledge: a thread that waits for a request ignores RESP *)
(* and RESP_ERR.                                                           *)
IgnoreRetransmission(p) == isPayloadComplete /\ UNCHANGED <<receiverVars, ackNetwork>>

ReAcknowledge(p) ==
  /\ isPayloadComplete
  /\ Acknowledge(Slot(p))
  /\ UNCHANGED receiverVars

ReceiveMessage ==
  /\ dataLeaving # <<>>
  /\ \/ ReceiveData(Head(dataLeaving))
     \/ ReceiveEof(Head(dataLeaving))
     \/ ReAcknowledge(Head(dataLeaving))
  /\ dataLeaving' = Tail(dataLeaving)
  /\ UNCHANGED <<senderVars, dataHeld>>

Next ==
  \/ ReceiveAck
  \/ \E p \in Packets : ExitThread(p) \/ CommitThread(p) \/ SendPacket(p)
  \/ ReceiveMessage
  \/ ReleaseData
  \/ ReleaseAck

Spec == Init /\ [][Next]_vars

(* How many sequence numbers there are beyond two windows, and one more    *)
(* for each direction in which a message may be overtaken.                 *)
Slack == SEQUENCE_RANGE - (2 * WINDOW_SIZE + (IF Delays THEN 2 ELSE 0))

(* No thread that has found its flag false is overtaken by much before its *)
(* sendto: meanwhile the window moves at most Slack packets past its own.  *)
Prompt ==
  \A p \in Packets : thread[p] = "committed" => currentWindowOrigin <= p + Slack

(* An assumption about timing: the steps after which Prompt is false are   *)
(* left out.                                                               *)
PromptSpec == Init /\ [][Next /\ Prompt']_vars

-----------------------------------------------------------------------------
(* Types of both ends and of the two directions of the network.            *)
SenderTypeOK ==
  /\ currentWindowOrigin \in Packets
  /\ windowState \in [Slots -> Packets \union {NULL}]
  /\ currentWindow \in [Slots -> Packets \union {NULL}]
  /\ isAcked \in [Packets -> BOOLEAN]
  /\ thread \in [Packets -> ThreadStates]
  /\ isPayloadSent \in BOOLEAN

ReceiverTypeOK ==
  /\ windowOrigin \in Nat
  /\ receivedWindow \in [Slots -> DataPackets \union {NULL}]
  /\ completedSet \in Seq(DataPackets)
  /\ totalPayloadSize \in Nat
  /\ isPayloadComplete \in BOOLEAN

EndsTypeOK == SenderTypeOK /\ ReceiverTypeOK

TypeOK ==
  /\ EndsTypeOK
  /\ dataHeld \in Seq(Packets) /\ Len(dataHeld) <= 1
  /\ dataLeaving \in Seq(Packets) /\ Len(dataLeaving) <= MaxInFlight
  /\ ackHeld \in Seq(Slots) /\ Len(ackHeld) <= 1
  /\ ackLeaving \in Seq(Slots) /\ Len(ackLeaving) <= MaxInFlight

(* What the receiver has of the payload: used by the properties only.      *)
Holds(p) ==
  IF p = Eof THEN isPayloadComplete
             ELSE p < windowOrigin \/ receivedWindow[Slot(p)] = p

(* An ACK stops exactly the retransmission it is about, although its       *)
(* sequence number is that of other packets too.                           *)
AckedIsHeld == \A p \in Packets : isAcked[p] => Holds(p)

(* What the receiver delivers is always a prefix of the payload.           *)
DeliveredPrefix ==
  completedSet = SubSeq(Payload, 1, Len(completedSet))

(* The first EOF to arrive is accepted: the bytes counted, in whatever     *)
(* order they came, are those of the payload.                              *)
EofAcceptable ==
  Eof \in {dataLeaving[i] : i \in 1 .. Len(dataLeaving)}
    => isPayloadComplete \/ totalPayloadSize = payloadSize

(* Receiver.cpp:64 adds a packet's length to the bytes counted when it is  *)
(* registered: "It doesn't matter if it's out of order."  In whatever order*)
(* packets come, no more is counted than the payload has.                  *)
CountWithinPayload == totalPayloadSize <= payloadSize

(* Both ends agree on the sequence number that follows the transfer.       *)
FinalSequenceAgrees ==
  isPayloadSent =>
    isPayloadComplete /\ SenderFinalSequenceNumber = ReceiverFinalSequenceNumber

-----------------------------------------------------------------------------
(* The inductive invariant behind the properties above, for payloads of    *)
(* any length, in behaviours in which Prompt always does.                  *)
RangeSuffices == Slack >= 0

Launched(p) ==
  IF p = Eof THEN currentWindowOrigin = numberOfPackets /\ numberOfPackets > 0
             ELSE p < currentWindowOrigin + WINDOW_SIZE

Pending(p) == Launched(p) /\ currentWindowOrigin <= p

LaunchedPackets == {p \in Packets : Launched(p)}

(* The slots of the launched packets not slid over point to them, every    *)
(* other slot is empty; only threads not acknowledged are pointed to.      *)
SenderInv ==
  /\ \A p \in Packets : thread[p] # "idle" => Launched(p)
  /\ \A p \in Packets : Pending(p) => windowState[Slot(p)] = p
  /\ \A s \in Slots :
       windowState[s] # NULL => Pending(windowState[s]) /\ Slot(windowState[s]) = s
  /\ \A s \in Slots :
       currentWindow[s] = IF windowState[s] # NULL /\ ~isAcked[windowState[s]]
                          THEN windowState[s] ELSE NULL
  /\ \A p \in DataPackets : p < currentWindowOrigin => isAcked[p]

(* The receiver's queue is a prefix of the payload, and its window holds   *)
(* packets less than WINDOW_SIZE after the first one missing.              *)
ReceiverInv ==
  /\ windowOrigin = IF isPayloadComplete THEN numberOfPackets + 1 ELSE Len(completedSet)
  /\ completedSet = [i \in 1 .. Len(completedSet) |-> i - 1]
  /\ Len(completedSet) \in 0 .. numberOfPackets
  /\ isPayloadComplete => Len(completedSet) = numberOfPackets
  /\ \A s \in Slots : receivedWindow[s] # NULL =>
       /\ Slot(receivedWindow[s]) = s
       /\ windowOrigin < receivedWindow[s]
       /\ receivedWindow[s] < windowOrigin + WINDOW_SIZE

(* What the receiver has was launched, and what is acknowledged it has.    *)
Custody ==
  /\ \A p \in Packets : Holds(p) => Launched(p)
  /\ \A p \in Packets : isAcked[p] => Holds(p)
  /\ isPayloadSent => isPayloadComplete

(* What is on the network was launched.                                    *)
NetworkInv ==
  /\ \A i \in 1 .. Len(dataLeaving) : Launched(dataLeaving[i])
  /\ \A i \in 1 .. Len(dataHeld) : Launched(dataHeld[i])
  /\ ~Delays => dataHeld = <<>> /\ ackHeld = <<>>

(* A pair of packets of which the second is not launched while the first   *)
(* may still be sent.                                                      *)
Beyond == {r \in Packets \X Packets : r[1] + WINDOW_SIZE + Slack <= r[2]}

(* The packets of P that a relation R has ahead of message m.              *)
Ahead(R, m, P) == {q \in P \intersect Packets : <<m, q>> \in R}

(* The sets of packets by which a message may have been overtaken on one   *)
(* direction of the network, and on the way there and back.                *)
Never == {{}}
Once  == Never \union (IF Delays THEN {{q} : q \in Packets} ELSE {})
Twice == {X \union Y : X \in Once, Y \in Once}

(* The order a direction keeps: of the packets P that have arrived, and of *)
(* those that leave before message m, a member of F is ahead of m; while m *)
(* is held back, a member of E.                                            *)
InOrder(R, P, held, leaving, E, F) ==
  /\ \A i \in 1 .. Len(leaving) :
       Ahead(R, leaving[i], P \union {leaving[j] : j \in 1 .. (i - 1)}) \in F
  /\ \A i \in 1 .. Len(held) :
       Ahead(R, held[i], P \union {leaving[j] : j \in 1 .. Len(leaving)}) \in E

HeldPackets  == {p \in Packets : Holds(p)}
AckedPackets == {p \in Packets : isAcked[p]}

DataOrder == InOrder(Beyond, HeldPackets, dataHeld, dataLeaving, Never, Once)

(* The number a message travels under.  A request is no packet and has a   *)
(* name that is no sequence number.                                        *)
Number(m) == IF m \in Packets THEN Slot(m) ELSE m

(* The members of S that the messages of a sequence may be.                *)
Traces(S, messages) ==
  {t \in [1 .. Len(messages) -> S] :
     messages = [i \in 1 .. Len(messages) |-> Number(t[i])]}

(* The ACKs on the network are those of packets the receiver has.          *)
AckOrder ==
  \E h \in Traces(HeldPackets, ackHeld) :
    \E l \in Traces(HeldPackets, ackLeaving) :
      InOrder(Beyond, AckedPackets, h, l, Once, Twice)

RoutedInv ==
  /\ TypeOK
  /\ SenderInv /\ ReceiverInv /\ Custody
  /\ NetworkInv /\ DataOrder /\ AckOrder

=============================================================================
