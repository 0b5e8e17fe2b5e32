------------------------------ MODULE Receiver ------------------------------
(***************************************************************************)
(* Common/Receiver.{h,cpp}: the receiving half of the transfer.  Its owner *)
(* (a ServerThread in state RECEIVING, or FtpClient::performGet and        *)
(* performList) calls startNewPayload and then handleMsg for each message  *)
(* until isPayloadComplete().                                              *)
(*                                                                         *)
(* The operators below are the branches of handleMsg; a module that        *)
(* composes a Receiver adds the acknowledgement the branch sends.          *)
(***************************************************************************)
EXTENDS Common, Sequences

VARIABLES
  windowOrigin,       \* position of the first packet not yet in completedSet
  receivedWindow,     \* Receiver::currentWindow, slot -> packet or NULL
  completedSet,       \* packets delivered in order
  totalPayloadSize,   \* bytes registered, in order or not
  isPayloadComplete   \* Receiver::isComplete

receiverVars == <<windowOrigin, receivedWindow, completedSet,
                  totalPayloadSize, isPayloadComplete>>

(* startNewPayload                                                         *)
ReceiverInit ==
  /\ windowOrigin = 0
  /\ receivedWindow = EmptyWindow
  /\ completedSet = <<>>
  /\ totalPayloadSize = 0
  /\ isPayloadComplete = FALSE

(* The same as a step.                                                     *)
StartNewPayload ==
  /\ windowOrigin' = 0
  /\ receivedWindow' = EmptyWindow
  /\ completedSet' = <<>>
  /\ totalPayloadSize' = 0
  /\ isPayloadComplete' = FALSE

(* Mutant of IsSequenceNumberInWindow: a window one packet too short.      *)
IsInShortWindow(s) ==
  LET head == Slot(windowOrigin)
      unwrapped == IF s < head THEN s + SEQUENCE_RANGE ELSE s
  IN  head <= unwrapped /\ unwrapped < head + WINDOW_SIZE - 1

IsSequenceNumberInWindow(s) ==
  LET head == Slot(windowOrigin)
      unwrapped == IF s < head THEN s + SEQUENCE_RANGE ELSE s
  IN  head <= unwrapped /\ unwrapped <= head + WINDOW_SIZE - 1

(* Mutant of Registers: handleMsg does not test for a packet it has.       *)
RegistersAgain(p) == IsSequenceNumberInWindow(Slot(p))

Registers(p) ==
  /\ IsSequenceNumberInWindow(Slot(p))
  /\ receivedWindow[Slot(p)] = NULL

(* Mutant of FirstGap: the loop tests at its end, not at its start.        *)
GapAfterFirst(w, origin) ==
  /\ origin \in (windowOrigin + 1) .. (windowOrigin + SEQUENCE_RANGE)
  /\ \A q \in (windowOrigin + 1) .. (origin - 1) : w[Slot(q)] # NULL
  /\ w[Slot(origin)] = NULL

(* The "Normalize buffer" loop over window w moves the filled slots from   *)
(* the origin on to completedSet and stops at the first empty slot.        *)
FirstGap(w, origin) ==
  /\ origin \in windowOrigin .. (windowOrigin + SEQUENCE_RANGE)
  /\ \A q \in windowOrigin .. (origin - 1) : w[Slot(q)] # NULL
  /\ w[Slot(origin)] = NULL

(* A RESP inside the window and not yet held.                              *)
RegisterPacket(p) ==
  LET w == [receivedWindow EXCEPT ![Slot(p)] = p] IN
  /\ Registers(p)
  /\ totalPayloadSize' = totalPayloadSize + PacketLength(p)
  /\ \E origin \in windowOrigin .. (windowOrigin + SEQUENCE_RANGE) :
       /\ FirstGap(w, origin)
       /\ windowOrigin' = origin
       /\ completedSet' = completedSet \o
            [i \in 1 .. (origin - windowOrigin) |-> w[Slot(windowOrigin + i - 1)]]
       /\ receivedWindow' =
            [s \in Slots |-> IF \E q \in windowOrigin .. (origin - 1) : Slot(q) = s
                             THEN NULL ELSE w[s]]
  /\ UNCHANGED isPayloadComplete

(* A RESP outside the window or already held changes nothing, but is       *)
(* acknowledged all the same.                                              *)
DiscardPacket(p) == ~Registers(p) /\ UNCHANGED receiverVars

HandleData(p) == RegisterPacket(p) \/ DiscardPacket(p)

(* Mutant of AcceptEof: handleMsg does not count the EOF.                  *)
AcceptEofUncounted ==
  /\ totalPayloadSize = payloadSize
  /\ isPayloadComplete' = TRUE
  /\ UNCHANGED <<windowOrigin, receivedWindow, completedSet, totalPayloadSize>>

(* An EOF is recognised by its text alone, whatever its sequence number,   *)
(* and accepted, and acknowledged, only when every byte has arrived.       *)
AcceptEof ==
  /\ totalPayloadSize = payloadSize
  /\ windowOrigin' = windowOrigin + 1
  /\ isPayloadComplete' = TRUE
  /\ UNCHANGED <<receivedWindow, completedSet, totalPayloadSize>>

IgnoreEof == totalPayloadSize # payloadSize /\ UNCHANGED receiverVars

ReceiverFinalSequenceNumber == (sequenceSeed + windowOrigin) % SEQUENCE_RANGE

=============================================================================
