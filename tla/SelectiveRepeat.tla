--------------------------- MODULE SelectiveRepeat ---------------------------
(***************************************************************************)
(* The data phase of a transfer, a Sender and a Receiver over the least    *)
(* reliable network UDP allows.  A datagram once sent may arrive at any    *)
(* later time, any number of times, in any order, or never; a sendto may   *)
(* fail.                                                                   *)
(*                                                                         *)
(* In a download the Sender is a ServerThread's and the Receiver that of   *)
(* FtpClient::performGet; in an upload they are performUpload's and a      *)
(* ServerThread's, and those are named below.  A download's receiver,      *)
(* once complete, acknowledges nothing but the EOF again: fewer behaviours.*)
(* An upload whose POST was repeated has one more ACK on the network,      *)
(* which is not in this model: the answer to the repetition has the number *)
(* of packet 0.                                                            *)
(*                                                                         *)
(* The network is the set of data packets and the set of acknowledgement   *)
(* numbers ever sent.  A data message is named by its packet, which fixes  *)
(* its type, its sequence number Slot(p) and its bytes.                    *)
(***************************************************************************)
EXTENDS Sender, Receiver

VARIABLES
  sentData,   \* packets that were on the network at some time
  sentAcks    \* sequence numbers of the ACKs that were on the network

vars == <<senderVars, receiverVars, sentData, sentAcks>>

Payload == [i \in 1 .. numberOfPackets |-> i - 1]

Init ==
  /\ SenderInit
  /\ ReceiverInit
  /\ sentData = {}
  /\ sentAcks = {}

(* FtpClient::performUpload: an ACK of the session reaches processAck.     *)
ReceiveAck(s) ==
  /\ s \in sentAcks
  /\ ProcessAck(s)
  /\ UNCHANGED <<receiverVars, sentData, sentAcks>>

ExitThread(p) ==
  /\ ThreadExit(p)
  /\ UNCHANGED <<receiverVars, sentData, sentAcks>>

CommitThread(p) ==
  /\ ThreadCommit(p)
  /\ UNCHANGED <<receiverVars, sentData, sentAcks>>

SendPacket(p) ==
  /\ ThreadSend(p)
  /\ sentData' = sentData \union {p}
  /\ UNCHANGED <<receiverVars, sentAcks>>

FailThread(p) ==
  /\ ThreadFail(p)
  /\ UNCHANGED <<receiverVars, sentData, sentAcks>>

Acknowledge(p) == sentAcks' = sentAcks \union {Slot(p)}

(* Mutant of ReceiveData: an EOF is taken for data.                        *)
ReceiveEofAsData(p) ==
  /\ p \in sentData
  /\ ~isPayloadComplete
  /\ HandleData(p)
  /\ Acknowledge(p)
  /\ UNCHANGED <<senderVars, sentData>>

(* ServerThread in state RECEIVING: dispatchToReceiver.                    *)
ReceiveData(p) ==
  /\ p \in sentData
  /\ p # Eof
  /\ ~isPayloadComplete
  /\ HandleData(p)
  /\ Acknowledge(p)
  /\ UNCHANGED <<senderVars, sentData>>

ReceiveEof ==
  /\ Eof \in sentData
  /\ ~isPayloadComplete
  /\ \/ AcceptEof /\ Acknowledge(Eof)
     \/ IgnoreEof /\ UNCHANGED sentAcks
  /\ UNCHANGED <<senderVars, sentData>>

(* ServerThread back in WAITING_FOR_REQUEST: sendAck for any RESP or       *)
(* RESP_ERR, which answers retransmissions whose ACK was lost.             *)
ReAcknowledge(p) ==
  /\ p \in sentData
  /\ isPayloadComplete
  /\ Acknowledge(p)
  /\ UNCHANGED <<senderVars, receiverVars, sentData>>

Next ==
  \/ \E s \in Slots : ReceiveAck(s)
  \/ \E p \in Packets :
       \/ ExitThread(p) \/ CommitThread(p) \/ SendPacket(p) \/ FailThread(p)
       \/ ReceiveData(p) \/ ReAcknowledge(p)
  \/ ReceiveEof

Spec == Init /\ [][Next]_vars

-----------------------------------------------------------------------------
(* Types of every variable of both ends and of the network.                *)
TypeOK ==
  /\ currentWindowOrigin \in Packets
  /\ windowState \in [Slots -> Packets \union {NULL}]
  /\ currentWindow \in [Slots -> Packets \union {NULL}]
  /\ isAcked \in [Packets -> BOOLEAN]
  /\ thread \in [Packets -> ThreadStates]
  /\ isPayloadSent \in BOOLEAN
  /\ windowOrigin \in Nat
  /\ receivedWindow \in [Slots -> DataPackets \union {NULL}]
  /\ completedSet \in Seq(DataPackets)
  /\ totalPayloadSize \in Nat
  /\ isPayloadComplete \in BOOLEAN
  /\ sentData \in SUBSET Packets
  /\ sentAcks \in SUBSET Slots

(* What the receiver has of the payload: used by the properties only.      *)
Holds(p) ==
  IF p = Eof THEN isPayloadComplete
             ELSE p < windowOrigin \/ receivedWindow[Slot(p)] = p

(* The file the server saves is the payload: nothing missing, repeated,    *)
(* reordered or taken from another round of the sequence numbers.          *)
DeliveredIntact == isPayloadComplete => completedSet = Payload

(* An ACK stops exactly the retransmission it is about: no packet is       *)
(* counted as acknowledged that the receiver does not have.                *)
AckedIsHeld == \A p \in Packets : isAcked[p] => Holds(p)

(* performUpload returns only after the server has the whole file.         *)
SentIsDelivered == isPayloadSent => isPayloadComplete

(* The sender can stop every thread that still retransmits: the thread's   *)
(* flag is in the window at its slot, so the ACK of its packet finds it.   *)
NoOrphanThread ==
  \A p \in Packets :
    thread[p] \in {"running", "committed"} /\ ~isAcked[p]
      => windowState[Slot(p)] = p /\ currentWindow[Slot(p)] = p

(* The two windows never drift apart by more than the window size.         *)
WindowsOverlap ==
  /\ currentWindowOrigin <= windowOrigin
  /\ ~isPayloadComplete => windowOrigin <= currentWindowOrigin + WINDOW_SIZE

(* An EOF on the network can be accepted: the bytes the receiver counted   *)
(* are the bytes of the payload.  A packet registered twice would make the *)
(* count overshoot, and the receiver would ignore every EOF for ever.      *)
EofAcceptable ==
  Eof \in sentData => isPayloadComplete \/ totalPayloadSize = payloadSize

(* Both ends derive the session's next sequence number on their own, from  *)
(* numberOfPackets and from windowOrigin, and agree on it.                 *)
FinalSequenceAgrees ==
  isPayloadSent => SenderFinalSequenceNumber = ReceiverFinalSequenceNumber

(* A packet is given one SenderThread and no second one is ever created,   *)
(* neither while the first is alive nor after it has ended.                *)
StartedOnce == \A p \in Packets : thread[p] # "twice"

(* The transfer implements its abstract promise.                           *)
Promise == INSTANCE FileTransfer WITH
             file <- IF isPayloadComplete THEN completedSet ELSE <<>>,
             received <- isPayloadComplete,
             reported <- isPayloadSent
ImplementsFileTransfer == Promise!Spec

-----------------------------------------------------------------------------
(* The inductive invariant behind the properties above.  It holds when no  *)
(* sequence number is used twice while a window can still reach it.        *)
SingleRound == numberOfPackets + WINDOW_SIZE <= SEQUENCE_RANGE

Launched(p) ==
  IF p = Eof THEN currentWindowOrigin = numberOfPackets /\ numberOfPackets > 0
             ELSE p < currentWindowOrigin + WINDOW_SIZE

Pending(p) == Launched(p) /\ currentWindowOrigin <= p

(* The window arrays point to the launched packets not slid over, and the  *)
(* thread pointers to those among them that are not acknowledged.          *)
SenderInv ==
  /\ \A p \in Packets : thread[p] # "idle" => Launched(p)
  /\ \A p \in Packets : windowState[Slot(p)] = IF Pending(p) THEN p ELSE NULL
  /\ \A p \in Packets :
       currentWindow[Slot(p)] = IF Pending(p) /\ ~isAcked[p] THEN p ELSE NULL
  /\ \A p \in DataPackets : p < currentWindowOrigin => isAcked[p]

(* The receiver's queue is a prefix of the payload, its window holds later *)
(* packets only, each in its own slot, and starts at a gap.                *)
ReceiverInv ==
  /\ windowOrigin = IF isPayloadComplete THEN numberOfPackets + 1 ELSE Len(completedSet)
  /\ completedSet = [i \in 1 .. Len(completedSet) |-> i - 1]
  /\ Len(completedSet) \in 0 .. numberOfPackets
  /\ isPayloadComplete => Len(completedSet) = numberOfPackets
  /\ \A s \in Slots : receivedWindow[s] # NULL =>
       Slot(receivedWindow[s]) = s /\ windowOrigin < receivedWindow[s]

(* What was sent was launched, what is held was sent, what was             *)
(* acknowledged is held, and flags are raised by acknowledgements only.    *)
NetworkInv ==
  /\ \A p \in sentData : Launched(p)
  /\ \A p \in Packets : Holds(p) => p \in sentData
  /\ \A s \in sentAcks : \E p \in Packets : Slot(p) = s /\ Holds(p)
  /\ \A p \in Packets : isAcked[p] => Slot(p) \in sentAcks
  /\ isPayloadSent => Slot(Eof) \in sentAcks

IInv == TypeOK /\ SenderInv /\ ReceiverInv /\ NetworkInv

=============================================================================
