----------------------- MODULE SelectiveRepeat_proofs -----------------------
(***************************************************************************)
(* Proofs about SelectiveRepeat, for every window size, sequence range,    *)
(* packet length, payload and first sequence number.                       *)
(*                                                                         *)
(* Types need no assumption.  Everything else assumes SingleRound: no      *)
(* sequence number is used again while a window can still reach its        *)
(* previous use, which is what an arbitrary network needs (with the code's *)
(* window of 3 and range of 7, a payload of at most 4 packets).            *)
(*                                                                         *)
(* The argument: TypeOK, then the inductive invariant IInv, whose parts    *)
(* say what the window arrays of either end hold (SenderInv, ReceiverInv)  *)
(* and how the two ends are tied together by what has been on the network  *)
(* (NetworkInv); each property follows from IInv, except EofAcceptable,    *)
(* which needs in addition that the byte count is the sum of the lengths   *)
(* of the packets held (CountInv).                                         *)
(***************************************************************************)
EXTENDS SelectiveRepeat, FiniteSetTheorems, SequenceTheorems, TLAPS

-----------------------------------------------------------------------------
(* Arithmetic of packets and slots.                                        *)

(* A payload has a natural number of packets.                              *)
LEMMA PacketCount == numberOfPackets \in Nat
<1>1. payloadSize \div BUFFER_LENGTH \in Nat
  BY CommonAssumption
<1>. QED
  BY <1>1 DEF numberOfPackets

(* The remainder modulo SEQUENCE_RANGE in the first two rounds.            *)
LEMMA ModuloRange ==
  ASSUME NEW x \in 0 .. (2 * SEQUENCE_RANGE - 1)
  PROVE  x % SEQUENCE_RANGE = IF x < SEQUENCE_RANGE THEN x ELSE x - SEQUENCE_RANGE
<1>. SEQUENCE_RANGE \in Nat /\ SEQUENCE_RANGE > 0
  BY CommonAssumption
<1>1. CASE x < SEQUENCE_RANGE
  BY <1>1
<1>2. CASE x >= SEQUENCE_RANGE
  BY <1>2
<1>. QED
  BY <1>1, <1>2

(* The slot of a packet of the first two rounds, without the modulus.      *)
LEMMA SlotValue ==
  ASSUME NEW p \in 0 .. SEQUENCE_RANGE
  PROVE  /\ p + sequenceSeed < SEQUENCE_RANGE => Slot(p) = p + sequenceSeed
         /\ p + sequenceSeed >= SEQUENCE_RANGE =>
              Slot(p) = p + sequenceSeed - SEQUENCE_RANGE
  BY CommonAssumption, ModuloRange DEF Slot

(* Every packet has a slot, whatever the length of the payload.            *)
LEMMA SlotType == ASSUME NEW p \in Nat PROVE Slot(p) \in Slots
  BY CommonAssumption DEF Slot, Slots

(* Packets have lengths, the last one included.                            *)
LEMMA LengthType == ASSUME NEW p \in DataPackets PROVE PacketLength(p) \in Nat
<1>. DEFINE q == payloadSize \div BUFFER_LENGTH
            r == payloadSize % BUFFER_LENGTH
<1>1. q \in Nat /\ r \in 0 .. (BUFFER_LENGTH - 1) /\ payloadSize = q * BUFFER_LENGTH + r
  BY CommonAssumption
<1>2. numberOfPackets = q + (IF r > 0 THEN 1 ELSE 0)
  BY DEF numberOfPackets
<1>. HIDE DEF q, r
<1>. SUFFICES ASSUME p = numberOfPackets - 1
              PROVE  payloadSize - p * BUFFER_LENGTH \in Nat
  BY CommonAssumption DEF PacketLength
<1>3. CASE r > 0
  <2>1. p = q
    BY <1>1, <1>2, <1>3
  <2>. QED
    BY <1>1, <2>1, CommonAssumption
<1>4. CASE r = 0
  <2>1. p = q - 1
    BY <1>1, <1>2, <1>4
  <2>2. p * BUFFER_LENGTH = q * BUFFER_LENGTH - BUFFER_LENGTH
    BY <1>1, <2>1, CommonAssumption
  <2>. QED
    BY <1>1, <1>4, <2>2, CommonAssumption
<1>. QED
  BY <1>1, <1>3, <1>4, CommonAssumption

-----------------------------------------------------------------------------
(* Type correctness.                                                       *)

(* Filling a window array keeps its type.                                  *)
LEMMA LaunchType ==
  ASSUME NEW w \in [Slots -> Packets \union {NULL}], NEW S \in SUBSET Packets
  PROVE  Launch(w, S) \in [Slots -> Packets \union {NULL}]
  BY DEF Launch

(* initializePayload, send and startNewPayload establish the types.        *)
LEMMA InitType == Init => TypeOK
<1>. SUFFICES ASSUME Init PROVE TypeOK
  OBVIOUS
<1>. DEFINE first == Missing(EmptyWindow, 0)
<1>1. first \in SUBSET Packets
  BY PacketCount DEF Missing, DataPackets, Packets
<1>2. EmptyWindow \in [Slots -> DataPackets \union {NULL}]
  BY DEF EmptyWindow
<1>3. EmptyWindow \in [Slots -> Packets \union {NULL}]
  BY DEF EmptyWindow
<1>4. /\ currentWindowOrigin \in Packets
      /\ windowState \in [Slots -> Packets \union {NULL}]
      /\ currentWindow \in [Slots -> Packets \union {NULL}]
      /\ isAcked \in [Packets -> BOOLEAN]
      /\ thread \in [Packets -> ThreadStates]
      /\ isPayloadSent \in BOOLEAN
  <2>. HIDE DEF first
  <2>1. Init => SenderInit
    BY DEF Init
  <2>2. windowState = Launch(EmptyWindow, first) /\ currentWindow = Launch(EmptyWindow, first)
    BY <2>1 DEF SenderInit, first
  <2>3. thread = [p \in Packets |-> IF p \in first THEN "running" ELSE "idle"]
    BY <2>1 DEF SenderInit, first
  <2>4. windowState \in [Slots -> Packets \union {NULL}]
    BY <1>1, <1>3, <2>2, LaunchType
  <2>5. currentWindowOrigin \in Packets
    BY <2>1, PacketCount DEF SenderInit, Packets
  <2>6. isAcked \in [Packets -> BOOLEAN] /\ isPayloadSent \in BOOLEAN
    BY <2>1 DEF SenderInit
  <2>7. thread \in [Packets -> ThreadStates]
    BY <2>3 DEF ThreadStates
  <2>. QED
    BY <2>2, <2>4, <2>5, <2>6, <2>7
<1>5. /\ windowOrigin \in Nat
      /\ receivedWindow \in [Slots -> DataPackets \union {NULL}]
      /\ completedSet \in Seq(DataPackets)
      /\ totalPayloadSize \in Nat
      /\ isPayloadComplete \in BOOLEAN
      /\ sentData \in SUBSET Packets
      /\ sentAcks \in SUBSET Slots
  <2>1. ReceiverInit /\ sentData = {} /\ sentAcks = {}
    BY DEF Init
  <2>2. <<>> \in Seq(DataPackets)
    OBVIOUS
  <2>. QED
    BY <1>2, <2>1, <2>2 DEF ReceiverInit
<1>. QED
  BY <1>4, <1>5 DEF TypeOK

(* processAck keeps the types of the Sender, whatever the number it gets.  *)
LEMMA ProcessAckType ==
  ASSUME TypeOK, NEW s \in Slots, ProcessAck(s)
  PROVE  /\ currentWindowOrigin' \in Packets
         /\ windowState' \in [Slots -> Packets \union {NULL}]
         /\ currentWindow' \in [Slots -> Packets \union {NULL}]
         /\ isAcked' \in [Packets -> BOOLEAN]
         /\ thread' \in [Packets -> ThreadStates]
         /\ isPayloadSent' \in BOOLEAN
<1>1. isAcked' \in [Packets -> BOOLEAN]
  BY DEF ProcessAck, ProcessDataAck, ProcessEofAck, RaiseFlag
<1>2. ClearedSlot(s) \in [Slots -> Packets \union {NULL}]
  BY DEF ClearedSlot, TypeOK
<1>3. CASE ProcessEofAck(s)
  BY <1>1, <1>2, <1>3 DEF ProcessEofAck, TypeOK
<1>4. CASE ProcessDataAck(s)
  <2>. DEFINE new(o) == IF o = numberOfPackets THEN {Eof} ELSE Missing(Passed(o), o)
  <2>1. PICK origin \in Packets :
          /\ currentWindowOrigin' = origin
          /\ windowState' = Launch(Passed(origin), new(origin))
          /\ currentWindow' = Launch(ClearedSlot(s), new(origin))
          /\ thread' = Started(new(origin))
    BY <1>4 DEF ProcessDataAck
  <2>2. new(origin) \in SUBSET Packets
    BY PacketCount DEF Missing, DataPackets, Packets, Eof
  <2>. HIDE DEF new
  <2>3. Passed(origin) \in [Slots -> Packets \union {NULL}]
    BY DEF Passed, TypeOK
  <2>4. isPayloadSent' = isPayloadSent
    BY <1>4 DEF ProcessDataAck
  <2>. QED
    BY <1>1, <1>2, <2>1, <2>2, <2>3, <2>4, LaunchType DEF Started, ThreadStates, TypeOK
<1>. QED
  BY <1>3, <1>4 DEF ProcessAck

(* handleMsg keeps the types of the Receiver, whatever the packet.         *)
LEMMA RegisterPacketType ==
  ASSUME TypeOK, NEW p \in DataPackets, RegisterPacket(p)
  PROVE  /\ windowOrigin' \in Nat
         /\ receivedWindow' \in [Slots -> DataPackets \union {NULL}]
         /\ completedSet' \in Seq(DataPackets)
         /\ totalPayloadSize' \in Nat
         /\ isPayloadComplete' \in BOOLEAN
<1>. DEFINE w == [receivedWindow EXCEPT ![Slot(p)] = p]
<1>1. w \in [Slots -> DataPackets \union {NULL}]
  BY DEF TypeOK
<1>2. PICK origin \in windowOrigin .. (windowOrigin + SEQUENCE_RANGE) :
        /\ FirstGap(w, origin)
        /\ windowOrigin' = origin
        /\ completedSet' = completedSet \o
             [i \in 1 .. (origin - windowOrigin) |-> w[Slot(windowOrigin + i - 1)]]
        /\ receivedWindow' =
             [s \in Slots |-> IF \E q \in windowOrigin .. (origin - 1) : Slot(q) = s
                              THEN NULL ELSE w[s]]
  BY DEF RegisterPacket
<1>. HIDE DEF w
<1>3. windowOrigin \in Nat /\ origin \in Nat /\ origin >= windowOrigin
  BY <1>2, CommonAssumption DEF TypeOK
<1>4. receivedWindow' \in [Slots -> DataPackets \union {NULL}]
  BY <1>1, <1>2
<1>5. ASSUME NEW i \in 1 .. (origin - windowOrigin)
      PROVE  w[Slot(windowOrigin + i - 1)] \in DataPackets
  <2>1. windowOrigin + i - 1 \in windowOrigin .. (origin - 1) /\ windowOrigin + i - 1 \in Nat
    BY <1>3
  <2>2. Slot(windowOrigin + i - 1) \in Slots
    BY <2>1, SlotType
  <2>. QED
    BY <1>1, <1>2, <2>1, <2>2 DEF FirstGap
<1>6. completedSet' \in Seq(DataPackets)
  <2>. DEFINE t == [i \in 1 .. (origin - windowOrigin) |-> w[Slot(windowOrigin + i - 1)]]
  <2>1. t \in Seq(DataPackets)
    BY <1>3, <1>5
  <2>. QED
    BY <1>2, <2>1 DEF TypeOK
<1>7. totalPayloadSize' \in Nat
  BY LengthType DEF RegisterPacket, TypeOK
<1>. QED
  BY <1>2, <1>3, <1>4, <1>6, <1>7 DEF RegisterPacket, TypeOK

(* Every step keeps the types.                                             *)
LEMMA NextType == TypeOK /\ [Next]_vars => TypeOK'
<1>. SUFFICES ASSUME TypeOK, [Next]_vars PROVE TypeOK'
  OBVIOUS
<1>. USE DEF TypeOK
<1>1. ASSUME NEW s \in Slots, ReceiveAck(s) PROVE TypeOK'
  BY <1>1, ProcessAckType DEF ReceiveAck, receiverVars
<1>2. ASSUME NEW p \in Packets, NEW from \in ThreadStates, NEW to \in ThreadStates,
             Transition(p, from, to), UNCHANGED receiverVars,
             sentData' \in SUBSET Packets, sentAcks' = sentAcks
      PROVE  TypeOK'
  BY <1>2 DEF Transition, receiverVars
<1>3. ASSUME NEW p \in Packets, ExitThread(p) PROVE TypeOK'
  BY <1>2, <1>3 DEF ExitThread, ThreadExit, ThreadStates
<1>4. ASSUME NEW p \in Packets, CommitThread(p) PROVE TypeOK'
  BY <1>2, <1>4 DEF CommitThread, ThreadCommit, ThreadStates
<1>5. ASSUME NEW p \in Packets, SendPacket(p) PROVE TypeOK'
  BY <1>2, <1>5 DEF SendPacket, ThreadSend, ThreadStates
<1>6. ASSUME NEW p \in Packets, FailThread(p) PROVE TypeOK'
  BY <1>2, <1>6 DEF FailThread, ThreadFail, ThreadStates
<1>7. ASSUME NEW p \in Packets, Acknowledge(p) PROVE sentAcks' \in SUBSET Slots
  <2>1. Slot(p) \in Slots
    BY SlotType, PacketCount DEF Packets
  <2>. QED
    BY <1>7, <2>1 DEF Acknowledge
<1>8. ASSUME NEW p \in Packets, ReceiveData(p) PROVE TypeOK'
  <2>1. p \in DataPackets
    BY <1>8, PacketCount DEF ReceiveData, Packets, DataPackets, Eof
  <2>2. sentAcks' \in SUBSET Slots
    BY <1>7, <1>8 DEF ReceiveData
  <2>3. CASE RegisterPacket(p)
    BY <1>8, <2>1, <2>2, <2>3, RegisterPacketType DEF ReceiveData, senderVars
  <2>4. CASE DiscardPacket(p)
    BY <1>8, <2>2, <2>4 DEF ReceiveData, DiscardPacket, senderVars, receiverVars
  <2>. QED
    BY <1>8, <2>3, <2>4 DEF ReceiveData, HandleData
<1>9. ASSUME ReceiveEof PROVE TypeOK'
  <2>1. Eof \in Packets
    BY PacketCount DEF Eof, Packets
  <2>2. CASE AcceptEof /\ Acknowledge(Eof)
    BY <1>7, <1>9, <2>1, <2>2 DEF ReceiveEof, AcceptEof, senderVars
  <2>3. CASE IgnoreEof /\ UNCHANGED sentAcks
    BY <1>9, <2>3 DEF ReceiveEof, IgnoreEof, senderVars, receiverVars
  <2>. QED
    BY <1>9, <2>2, <2>3 DEF ReceiveEof
<1>10. ASSUME NEW p \in Packets, ReAcknowledge(p) PROVE TypeOK'
  BY <1>7, <1>10 DEF ReAcknowledge, senderVars, receiverVars
<1>11. CASE UNCHANGED vars
  BY <1>11 DEF vars, senderVars, receiverVars
<1>. QED
  BY <1>1, <1>3, <1>4, <1>5, <1>6, <1>8, <1>9, <1>10, <1>11 DEF Next

(* Every variable keeps its type, for every window, sequence range,        *)
(* payload and seed.                                                       *)
THEOREM TypeCorrect == Spec => []TypeOK
  BY InitType, NextType, PTL DEF Spec

-----------------------------------------------------------------------------
(* Slots are unambiguous within a round.                                   *)

(* Two packets less than a round apart never share a sequence number.      *)
LEMMA SlotInjective ==
  ASSUME NEW p \in 0 .. (SEQUENCE_RANGE - 1), NEW q \in 0 .. (SEQUENCE_RANGE - 1),
         Slot(p) = Slot(q)
  PROVE  p = q
<1>1. p \in 0 .. SEQUENCE_RANGE /\ q \in 0 .. SEQUENCE_RANGE
  BY CommonAssumption
<1>2. /\ p \in Nat /\ q \in Nat /\ p < SEQUENCE_RANGE /\ q < SEQUENCE_RANGE
      /\ sequenceSeed \in Nat /\ SEQUENCE_RANGE \in Nat
  BY CommonAssumption
<1>3. /\ p + sequenceSeed < SEQUENCE_RANGE => Slot(p) = p + sequenceSeed
      /\ p + sequenceSeed >= SEQUENCE_RANGE =>
           Slot(p) = p + sequenceSeed - SEQUENCE_RANGE
      /\ q + sequenceSeed < SEQUENCE_RANGE => Slot(q) = q + sequenceSeed
      /\ q + sequenceSeed >= SEQUENCE_RANGE =>
           Slot(q) = q + sequenceSeed - SEQUENCE_RANGE
  BY <1>1, SlotValue
<1>. QED
  BY <1>2, <1>3

(* In a single round the packets, the EOF included, have distinct slots.   *)
LEMMA PacketSlots ==
  ASSUME SingleRound
  PROVE  /\ Packets \subseteq 0 .. (SEQUENCE_RANGE - 1)
         /\ \A p, q \in Packets : Slot(p) = Slot(q) => p = q
         /\ \A p \in Packets : Slot(p) \in Slots
         /\ Packets = DataPackets \union {Eof}
         /\ Eof \notin DataPackets
         /\ \A p \in Packets : p # NULL
<1>1. Packets \subseteq 0 .. (SEQUENCE_RANGE - 1)
  BY PacketCount, CommonAssumption DEF SingleRound, Packets
<1>2. \A p, q \in Packets : Slot(p) = Slot(q) => p = q
  BY <1>1, SlotInjective
<1>3. \A p \in Packets : Slot(p) \in Slots
  BY SlotType, PacketCount DEF Packets
<1>. QED
  BY <1>1, <1>2, <1>3, PacketCount DEF Packets, DataPackets, Eof, NULL

(* The receiver's test on sequence numbers decides membership of the       *)
(* packet in the receive window.                                           *)
LEMMA WindowTest ==
  ASSUME SingleRound, NEW p \in DataPackets, windowOrigin \in 0 .. numberOfPackets
  PROVE  IsSequenceNumberInWindow(Slot(p))
           <=> windowOrigin <= p /\ p < windowOrigin + WINDOW_SIZE
<1>1. p \in 0 .. SEQUENCE_RANGE /\ windowOrigin \in 0 .. SEQUENCE_RANGE
  BY PacketCount, CommonAssumption DEF SingleRound, DataPackets
<1>2. /\ p + sequenceSeed < SEQUENCE_RANGE => Slot(p) = p + sequenceSeed
      /\ p + sequenceSeed >= SEQUENCE_RANGE =>
           Slot(p) = p + sequenceSeed - SEQUENCE_RANGE
      /\ windowOrigin + sequenceSeed < SEQUENCE_RANGE =>
           Slot(windowOrigin) = windowOrigin + sequenceSeed
      /\ windowOrigin + sequenceSeed >= SEQUENCE_RANGE =>
           Slot(windowOrigin) = windowOrigin + sequenceSeed - SEQUENCE_RANGE
  BY <1>1, SlotValue
<1>3. /\ p \in Nat /\ windowOrigin \in Nat /\ p < numberOfPackets
      /\ windowOrigin <= numberOfPackets
      /\ numberOfPackets + WINDOW_SIZE <= SEQUENCE_RANGE
  BY PacketCount DEF DataPackets, SingleRound
<1>. QED
  BY <1>2, <1>3, PacketCount, CommonAssumption DEF IsSequenceNumberInWindow

(* Filling a window array touches the slots of the filled packets only.    *)
LEMMA LaunchValue ==
  ASSUME SingleRound, NEW w \in [Slots -> Packets \union {NULL}],
         NEW S \in SUBSET Packets, NEW p \in Packets
  PROVE  Launch(w, S)[Slot(p)] = IF p \in S THEN p ELSE w[Slot(p)]
<1>1. CASE p \in S
  <2>1. (CHOOSE q \in S : Slot(q) = Slot(p)) = p
    BY <1>1, PacketSlots
  <2>. QED
    BY <1>1, <2>1, PacketSlots DEF Launch
<1>2. CASE p \notin S
  <2>1. ~ \E q \in S : Slot(q) = Slot(p)
    BY <1>2, PacketSlots
  <2>. QED
    BY <1>2, <2>1, PacketSlots DEF Launch
<1>. QED
  BY <1>1, <1>2

(* Sliding the window clears the slots of the packets slid over only.      *)
LEMMA PassedValue ==
  ASSUME SingleRound, TypeOK, NEW origin \in Packets, NEW p \in Packets
  PROVE  Passed(origin)[Slot(p)] =
           IF currentWindowOrigin <= p /\ p < origin THEN NULL ELSE windowState[Slot(p)]
<1>1. currentWindowOrigin .. (origin - 1) \subseteq Packets
  BY PacketCount DEF TypeOK, Packets
<1>2. (\E q \in currentWindowOrigin .. (origin - 1) : Slot(q) = Slot(p))
        <=> currentWindowOrigin <= p /\ p < origin
  <2>1. /\ currentWindowOrigin \in Nat /\ origin \in Nat /\ p \in Nat
    BY PacketCount DEF TypeOK, Packets
  <2>2. \A q \in currentWindowOrigin .. (origin - 1) : Slot(q) = Slot(p) => q = p
    BY <1>1, PacketSlots
  <2>. QED
    BY <2>1, <2>2
<1>. QED
  BY <1>2, PacketSlots DEF Passed

(* An acknowledged slot is the slot of one packet, which the receiver has. *)
LEMMA AckedSlot ==
  ASSUME SingleRound, IInv, NEW p \in Packets, Slot(p) \in sentAcks
  PROVE  Holds(p) /\ p \in sentData /\ Launched(p)
  BY PacketSlots DEF IInv, NetworkInv

-----------------------------------------------------------------------------
(* The inductive invariant: one lemma per kind of step.                    *)

(* The first window of threads satisfies the inductive invariant.          *)
LEMMA InitInv == SingleRound /\ Init => IInv
<1>. SUFFICES ASSUME SingleRound, Init PROVE IInv
  OBVIOUS
<1>. DEFINE first == Missing(EmptyWindow, 0)
<1>1. TypeOK
  BY InitType
<1>2. SenderInit /\ ReceiverInit /\ sentData = {} /\ sentAcks = {}
  BY DEF Init
<1>3. first = {p \in DataPackets : p < WINDOW_SIZE}
  BY PacketSlots, PacketCount, CommonAssumption
     DEF Missing, EmptyWindow, DataPackets
<1>4. /\ windowState = Launch(EmptyWindow, first)
      /\ currentWindow = Launch(EmptyWindow, first)
      /\ thread = [p \in Packets |-> IF p \in first THEN "running" ELSE "idle"]
  BY <1>2 DEF SenderInit
<1>. HIDE DEF first
<1>5. currentWindowOrigin = 0 /\ isAcked = [p \in Packets |-> FALSE] /\ ~isPayloadSent
  BY <1>2 DEF SenderInit
<1>6. \A p \in Packets : Pending(p) <=> p \in first
  BY <1>3, <1>5, PacketCount, CommonAssumption DEF Pending, Launched, Packets, DataPackets, Eof
<1>7. SenderInv
  <2>1. first \in SUBSET Packets
    BY <1>3, PacketSlots
  <2>2. EmptyWindow \in [Slots -> Packets \union {NULL}]
    BY DEF EmptyWindow
  <2>3. \A p \in Packets : EmptyWindow[Slot(p)] = NULL
    BY PacketSlots DEF EmptyWindow
  <2>4. \A p \in Packets : Launch(EmptyWindow, first)[Slot(p)] = IF p \in first THEN p ELSE NULL
    BY <2>1, <2>2, <2>3, LaunchValue
  <2>5. \A p \in Packets : thread[p] # "idle" => Launched(p)
    BY <1>4, <1>6 DEF Pending
  <2>6. \A p \in DataPackets : ~(p < currentWindowOrigin)
    BY <1>5, PacketCount DEF DataPackets
  <2>. QED
    BY <1>4, <1>5, <1>6, <2>4, <2>5, <2>6 DEF SenderInv
<1>8. ReceiverInv
  BY <1>2, PacketCount DEF ReceiverInit, ReceiverInv, EmptyWindow
<1>9. NetworkInv
  <2>1. \A p \in Packets : ~Holds(p)
    BY <1>2, PacketSlots, PacketCount
       DEF ReceiverInit, Holds, EmptyWindow, Packets, NULL
  <2>. QED
    BY <1>2, <1>5, <2>1 DEF NetworkInv
<1>. QED
  BY <1>1, <1>7, <1>8, <1>9 DEF IInv

(* processAck raises the flag of the packet the acknowledgement is for.    *)
LEMMA RaisedFlag ==
  ASSUME SingleRound, IInv, NEW a \in Packets, Slot(a) \in sentAcks,
         RaiseFlag(Slot(a))
  PROVE  \A p \in Packets : isAcked'[p] <=> isAcked[p] \/ p = a
<1>1. Launched(a)
  BY AckedSlot
<1>2. windowState[Slot(a)] = IF Pending(a) THEN a ELSE NULL
  BY DEF IInv, SenderInv
<1>3. CASE Pending(a)
  BY <1>2, <1>3, PacketSlots DEF RaiseFlag, IInv, TypeOK
<1>4. CASE ~Pending(a)
  <2>1. a < currentWindowOrigin
    BY <1>1, <1>4, PacketCount DEF Pending, Packets, IInv, TypeOK
  <2>2. a \in DataPackets
    BY <2>1, PacketCount DEF Packets, DataPackets, IInv, TypeOK
  <2>3. isAcked[a]
    BY <2>1, <2>2 DEF IInv, SenderInv
  <2>. QED
    BY <1>2, <1>4, <2>3, PacketSlots DEF RaiseFlag, IInv, TypeOK
<1>. QED
  BY <1>3, <1>4

(* processAck clears the thread pointer of the acknowledged packet only.   *)
LEMMA ClearedValue ==
  ASSUME SingleRound, TypeOK, NEW a \in Packets, NEW p \in Packets
  PROVE  ClearedSlot(Slot(a))[Slot(p)] = IF p = a THEN NULL ELSE currentWindow[Slot(p)]
  BY PacketSlots DEF ClearedSlot, TypeOK

(* processAck once all data is acknowledged: only the EOF is outstanding.  *)
LEMMA ProcessEofAckInv ==
  ASSUME SingleRound, IInv, NEW a \in Packets, Slot(a) \in sentAcks,
         ProcessEofAck(Slot(a)), UNCHANGED <<receiverVars, sentData, sentAcks>>
  PROVE  SenderInv' /\ ReceiverInv' /\ NetworkInv'
<1>1. /\ UNCHANGED <<currentWindowOrigin, windowState, thread>>
      /\ currentWindow' = ClearedSlot(Slot(a))
      /\ isPayloadSent' = (Slot(a) = Slot(Eof))
      /\ RaiseFlag(Slot(a))
  BY DEF ProcessEofAck
<1>2. \A p \in Packets : isAcked'[p] <=> isAcked[p] \/ p = a
  BY <1>1, RaisedFlag
<1>3. \A p : (Launched(p) <=> Launched(p)') /\ (Pending(p) <=> Pending(p)')
  BY <1>1 DEF Launched, Pending
<1>4. SenderInv'
  <2>1. TypeOK
    BY DEF IInv
  <2>2. \A p \in Packets :
          currentWindow'[Slot(p)] = IF Pending(p)' /\ ~isAcked'[p] THEN p ELSE NULL
    BY <1>1, <1>2, <1>3, <2>1, ClearedValue DEF IInv, SenderInv
  <2>3. DataPackets \subseteq Packets
    BY PacketSlots
  <2>. QED
    BY <1>1, <1>2, <1>3, <2>2, <2>3 DEF IInv, SenderInv
<1>5. ReceiverInv'
  BY DEF IInv, ReceiverInv, receiverVars
<1>6. \A p \in Packets : Holds(p)' <=> Holds(p)
  BY DEF Holds, receiverVars
<1>7. NetworkInv'
  BY <1>1, <1>2, <1>3, <1>6 DEF IInv, NetworkInv
<1>. QED
  BY <1>4, <1>5, <1>7

(* processAck while data is outstanding: the packets slid over are all     *)
(* acknowledged, and exactly the packets entering the window are launched. *)
LEMMA ProcessDataAckInv ==
  ASSUME SingleRound, IInv, NEW a \in Packets, Slot(a) \in sentAcks,
         ProcessDataAck(Slot(a)), UNCHANGED <<receiverVars, sentData, sentAcks>>
  PROVE  SenderInv' /\ ReceiverInv' /\ NetworkInv'
<1>. DEFINE new(o) == IF o = numberOfPackets THEN {Eof} ELSE Missing(Passed(o), o)
<1>1. PICK origin \in Packets :
        /\ IsNextOrigin(ClearedSlot(Slot(a)), origin)
        /\ currentWindowOrigin' = origin
        /\ windowState' = Launch(Passed(origin), new(origin))
        /\ currentWindow' = Launch(ClearedSlot(Slot(a)), new(origin))
        /\ thread' = Started(new(origin))
  BY DEF ProcessDataAck
<1>2. /\ TypeOK /\ SenderInv
      /\ RaiseFlag(Slot(a)) /\ isPayloadSent' = isPayloadSent
      /\ currentWindowOrigin # numberOfPackets
  BY DEF IInv, ProcessDataAck
<1>3. /\ currentWindowOrigin \in Nat /\ origin \in Nat /\ numberOfPackets \in Nat
      /\ WINDOW_SIZE \in Nat
      /\ currentWindowOrigin < numberOfPackets /\ origin <= numberOfPackets
      /\ currentWindowOrigin <= origin /\ origin <= currentWindowOrigin + WINDOW_SIZE
  BY <1>1, <1>2, PacketCount, CommonAssumption DEF TypeOK, Packets, IsNextOrigin
<1>4. \A p \in Packets : isAcked'[p] <=> isAcked[p] \/ p = a
  BY <1>2, RaisedFlag
<1>5. ASSUME NEW p \in DataPackets
      PROVE  p \in Packets /\ p \in Nat /\ p < numberOfPackets /\ p # Eof
  BY PacketSlots, PacketCount DEF DataPackets, Eof
<1>6. ASSUME NEW p \in DataPackets, p < origin PROVE isAcked'[p]
  <2>1. CASE p < currentWindowOrigin
    BY <1>2, <1>4, <1>5, <2>1 DEF SenderInv
  <2>2. CASE currentWindowOrigin <= p
    <3>1. Pending(p)
      BY <1>3, <1>5, <1>6, <2>2 DEF Pending, Launched
    <3>2. p \in currentWindowOrigin .. (origin - 1)
      BY <1>3, <1>5, <1>6, <2>2
    <3>3. ClearedSlot(Slot(a))[Slot(p)] = NULL
      BY <1>1, <3>2 DEF IsNextOrigin
    <3>4. CASE p = a
      BY <1>4, <1>5, <3>4
    <3>5. CASE p # a
      <4>1. currentWindow[Slot(p)] = NULL
        BY <1>2, <1>5, <3>3, <3>5, ClearedValue
      <4>2. isAcked[p]
        BY <1>2, <1>5, <3>1, <4>1, PacketSlots DEF SenderInv
      <4>. QED
        BY <1>4, <1>5, <4>2
    <3>. QED
      BY <3>4, <3>5
  <2>. QED
    BY <1>3, <1>5, <2>1, <2>2
<1>7. ASSUME NEW p \in Packets
      PROVE  p \in new(origin) <=> Launched(p)' /\ ~Launched(p)
  <2>1. CASE p = Eof
    BY <1>1, <1>2, <1>3, <2>1, PacketSlots DEF Launched, Missing, Eof
  <2>2. CASE p # Eof /\ origin = numberOfPackets
    <3>1. p \in Nat /\ p < numberOfPackets
      BY <2>2, PacketCount DEF Packets, Eof
    <3>. QED
      BY <1>1, <1>3, <2>2, <3>1 DEF Launched
  <2>3. CASE p # Eof /\ origin # numberOfPackets
    <3>1. p \in DataPackets /\ p \in Nat
      BY <2>3, <1>5, PacketSlots
    <3>2. Passed(origin)[Slot(p)] =
            IF currentWindowOrigin <= p /\ p < origin THEN NULL ELSE windowState[Slot(p)]
      BY <1>2, PassedValue
    <3>3. windowState[Slot(p)] = IF Pending(p) THEN p ELSE NULL
      BY <1>2 DEF SenderInv
    <3>4. p # NULL
      BY PacketSlots
    <3>5. p \in new(origin) <=> /\ origin <= p
                                /\ p < origin + WINDOW_SIZE
                                /\ Passed(origin)[Slot(p)] = NULL
      BY <2>3, <3>1 DEF Missing
    <3>. HIDE DEF new
    <3>6. Pending(p) <=> p < currentWindowOrigin + WINDOW_SIZE /\ currentWindowOrigin <= p
      BY <2>3 DEF Pending, Launched
    <3>7. Launched(p)' /\ ~Launched(p) <=>
            p < origin + WINDOW_SIZE /\ ~(p < currentWindowOrigin + WINDOW_SIZE)
      BY <1>1, <2>3 DEF Launched
    <3>. QED
      BY <1>3, <3>1, <3>2, <3>3, <3>4, <3>5, <3>6, <3>7
  <2>. QED
    BY <2>1, <2>2, <2>3
<1>8. ASSUME NEW p \in Packets, Launched(p) PROVE Launched(p)'
  <2>1. CASE p = Eof
    BY <1>2, <1>8, <2>1 DEF Launched
  <2>2. CASE p # Eof
    <3>1. p \in Nat
      BY PacketCount DEF Packets
    <3>. QED
      BY <1>1, <1>3, <1>8, <2>2, <3>1 DEF Launched
  <2>. QED
    BY <2>1, <2>2
<1>9. new(origin) \in SUBSET Packets
  BY PacketSlots DEF Missing
<1>. HIDE DEF new
<1>10. Passed(origin) \in [Slots -> Packets \union {NULL}]
  BY <1>2 DEF Passed, TypeOK
<1>11. ClearedSlot(Slot(a)) \in [Slots -> Packets \union {NULL}]
  BY <1>2 DEF ClearedSlot, TypeOK
<1>12. ASSUME NEW p \in Packets, p \in new(origin) PROVE Pending(p)' /\ ~isAcked'[p]
  <2>1. Launched(p)' /\ ~Launched(p)
    BY <1>7, <1>12
  <2>2. ~isAcked[p]
    BY <2>1, AckedSlot DEF IInv, NetworkInv
  <2>3. p # a
    BY <2>1, AckedSlot
  <2>4. origin <= p
    <3>1. CASE p = Eof
      BY <1>3, <3>1 DEF Eof
    <3>2. CASE p # Eof
      <4>1. p \in Nat
        BY PacketCount DEF Packets
      <4>. QED
        BY <1>3, <2>1, <3>2, <4>1 DEF Launched
    <3>. QED
      BY <3>1, <3>2
  <2>. QED
    BY <1>1, <1>4, <2>1, <2>2, <2>3, <2>4 DEF Pending
<1>13. ASSUME NEW p \in Packets, p \notin new(origin)
       PROVE  Pending(p)' <=> Pending(p) /\ ~(p < origin)
  <2>1. Launched(p)' <=> Launched(p)
    BY <1>7, <1>8, <1>13
  <2>2. p \in Nat
    BY PacketCount DEF Packets
  <2>. QED
    BY <1>1, <1>3, <2>1, <2>2 DEF Pending
<1>14. SenderInv'
  <2>1. ASSUME NEW p \in Packets, thread'[p] # "idle" PROVE Launched(p)'
    BY <1>1, <1>2, <1>7, <1>8, <2>1 DEF Started, SenderInv
  <2>2. ASSUME NEW p \in Packets
        PROVE  windowState'[Slot(p)] = IF Pending(p)' THEN p ELSE NULL
    <3>1. windowState'[Slot(p)] = IF p \in new(origin) THEN p ELSE Passed(origin)[Slot(p)]
      BY <1>1, <1>9, <1>10, LaunchValue
    <3>2. Passed(origin)[Slot(p)] =
            IF currentWindowOrigin <= p /\ p < origin THEN NULL ELSE windowState[Slot(p)]
      BY <1>2, PassedValue
    <3>3. windowState[Slot(p)] = IF Pending(p) THEN p ELSE NULL
      BY <1>2 DEF SenderInv
    <3>4. Pending(p) => currentWindowOrigin <= p
      BY DEF Pending
    <3>. QED
      BY <1>12, <1>13, <3>1, <3>2, <3>3, <3>4
  <2>3. ASSUME NEW p \in Packets
        PROVE  currentWindow'[Slot(p)] = IF Pending(p)' /\ ~isAcked'[p] THEN p ELSE NULL
    <3>1. currentWindow'[Slot(p)] =
            IF p \in new(origin) THEN p ELSE ClearedSlot(Slot(a))[Slot(p)]
      BY <1>1, <1>9, <1>11, LaunchValue
    <3>2. ClearedSlot(Slot(a))[Slot(p)] = IF p = a THEN NULL ELSE currentWindow[Slot(p)]
      BY <1>2, ClearedValue
    <3>3. currentWindow[Slot(p)] = IF Pending(p) /\ ~isAcked[p] THEN p ELSE NULL
      BY <1>2 DEF SenderInv
    <3>4. p < origin => isAcked'[p]
      <4>1. p \in DataPackets \/ ~(p < origin)
        BY <1>3, PacketSlots DEF Eof
      <4>. QED
        BY <1>6, <4>1
    <3>5. isAcked'[p] <=> isAcked[p] \/ p = a
      BY <1>4
    <3>. QED
      BY <1>12, <1>13, <3>1, <3>2, <3>3, <3>4, <3>5
  <2>. QED
    BY <1>1, <1>6, <2>1, <2>2, <2>3 DEF SenderInv
<1>15. ReceiverInv'
  BY DEF IInv, ReceiverInv, receiverVars
<1>16. \A p \in Packets : Holds(p)' <=> Holds(p)
  BY DEF Holds, receiverVars
<1>17. NetworkInv'
  <2>1. sentData \subseteq Packets
    BY <1>2 DEF TypeOK
  <2>. QED
    BY <1>2, <1>4, <1>8, <1>16, <2>1 DEF IInv, NetworkInv
<1>. QED
  BY <1>14, <1>15, <1>17

(* The steps of a SenderThread.                                            *)
LEMMA ThreadInv ==
  ASSUME SingleRound, IInv, NEW p \in Packets, NEW from \in ThreadStates \ {"idle"},
         NEW to, Transition(p, from, to), UNCHANGED <<receiverVars, sentAcks>>,
         sentData' \in {sentData, sentData \union {p}}
  PROVE  SenderInv' /\ ReceiverInv' /\ NetworkInv'
<1>1. /\ thread[p] = from /\ thread' = [thread EXCEPT ![p] = to]
      /\ UNCHANGED <<currentWindowOrigin, windowState, currentWindow, isAcked,
                     isPayloadSent>>
  BY DEF Transition
<1>2. Launched(p)
  BY <1>1 DEF IInv, SenderInv
<1>3. \A q : (Launched(q) <=> Launched(q)') /\ (Pending(q) <=> Pending(q)')
  BY <1>1 DEF Launched, Pending
<1>4. SenderInv'
  BY <1>1, <1>2, <1>3 DEF IInv, SenderInv, TypeOK
<1>5. ReceiverInv'
  BY DEF IInv, ReceiverInv, receiverVars
<1>6. \A q \in Packets : Holds(q)' <=> Holds(q)
  BY DEF Holds, receiverVars
<1>7. NetworkInv'
  BY <1>1, <1>2, <1>3, <1>6 DEF IInv, NetworkInv
<1>. QED
  BY <1>4, <1>5, <1>7

(* A position that the receive window holds is held by the packet of that  *)
(* position.                                                               *)
LEMMA HeldSlot ==
  ASSUME SingleRound, TypeOK, ReceiverInv, NEW p \in Packets,
         receivedWindow[Slot(p)] # NULL
  PROVE  receivedWindow[Slot(p)] = p /\ windowOrigin < p
<1>1. Slot(p) \in Slots
  BY PacketSlots
<1>2. receivedWindow[Slot(p)] \in Packets
  BY <1>1, PacketSlots DEF TypeOK
<1>3. Slot(receivedWindow[Slot(p)]) = Slot(p) /\ windowOrigin < receivedWindow[Slot(p)]
  BY <1>1 DEF ReceiverInv
<1>. QED
  BY <1>2, <1>3, PacketSlots

(* Every data packet acknowledged to the sender is in the receiver.        *)
LEMMA AckedHeld ==
  ASSUME SingleRound, IInv, NEW p \in Packets, isAcked[p]
  PROVE  Holds(p)
  BY AckedSlot DEF IInv, NetworkInv

(* The send window never runs ahead of what the receiver delivered.        *)
LEMMA OriginBehind ==
  ASSUME SingleRound, IInv
  PROVE  currentWindowOrigin <= windowOrigin
<1>1. /\ currentWindowOrigin \in Nat /\ currentWindowOrigin <= numberOfPackets
      /\ windowOrigin \in Nat /\ numberOfPackets \in Nat
  BY PacketCount DEF IInv, TypeOK, Packets
<1>2. SUFFICES ASSUME windowOrigin < currentWindowOrigin PROVE FALSE
  BY <1>1
<1>3. windowOrigin \in DataPackets /\ windowOrigin \in Packets /\ windowOrigin # Eof
  BY <1>1, <1>2, PacketSlots DEF DataPackets, Eof
<1>4. Holds(windowOrigin)
  BY <1>2, <1>3, AckedHeld DEF IInv, SenderInv
<1>5. receivedWindow[Slot(windowOrigin)] = windowOrigin
  BY <1>1, <1>3, <1>4 DEF Holds
<1>6. windowOrigin # NULL
  BY <1>3, PacketSlots
<1>. QED
  BY <1>1, <1>3, <1>5, <1>6, HeldSlot DEF IInv

(* A launched packet is at most a window ahead of the receiver.            *)
LEMMA LaunchedReach ==
  ASSUME SingleRound, IInv, NEW p \in DataPackets, Launched(p)
  PROVE  p < windowOrigin + WINDOW_SIZE
<1>1. /\ currentWindowOrigin \in Nat /\ windowOrigin \in Nat /\ WINDOW_SIZE \in Nat
      /\ p \in Nat /\ p # Eof
  BY PacketCount, CommonAssumption DEF IInv, TypeOK, Packets, DataPackets, Eof
<1>. QED
  BY <1>1, OriginBehind DEF Launched

(* A message the receiver drops is one it has.                             *)
LEMMA DiscardedHeld ==
  ASSUME SingleRound, IInv, NEW p \in sentData, p # Eof, ~isPayloadComplete, ~Registers(p)
  PROVE  Holds(p)
<1>1. p \in DataPackets /\ p \in Packets /\ p \in Nat
  BY PacketSlots, PacketCount DEF IInv, TypeOK, DataPackets
<1>2. windowOrigin \in 0 .. numberOfPackets
  BY DEF IInv, ReceiverInv
<1>3. CASE receivedWindow[Slot(p)] # NULL
  BY <1>1, <1>3, HeldSlot DEF IInv, Holds
<1>4. CASE ~IsSequenceNumberInWindow(Slot(p))
  <2>1. Launched(p)
    BY DEF IInv, NetworkInv
  <2>2. p < windowOrigin + WINDOW_SIZE
    BY <1>1, <2>1, LaunchedReach
  <2>3. p < windowOrigin
    BY <1>1, <1>2, <1>4, <2>2, PacketCount, WindowTest
  <2>. QED
    BY <2>3 DEF Holds
<1>. QED
  BY <1>3, <1>4 DEF Registers

(* Acknowledging a packet that is held after the step.                     *)
LEMMA AcknowledgeInv ==
  ASSUME IInv, NEW p \in Packets, Acknowledge(p), UNCHANGED <<senderVars, sentData>>,
         Holds(p)', \A q \in Packets : Holds(q) => Holds(q)',
         \A q \in Packets : Holds(q)' => q \in sentData
  PROVE  SenderInv' /\ NetworkInv'
<1>1. \A q : (Launched(q) <=> Launched(q)') /\ (Pending(q) <=> Pending(q)')
  BY DEF Launched, Pending, senderVars
<1>2. SenderInv'
  BY <1>1 DEF IInv, SenderInv, senderVars
<1>3. \A s \in sentAcks' : \E q \in Packets : Slot(q) = s /\ Holds(q)'
  BY DEF IInv, NetworkInv, Acknowledge
<1>4. NetworkInv'
  BY <1>1, <1>3 DEF IInv, NetworkInv, Acknowledge, senderVars
<1>. QED
  BY <1>2, <1>4

(* Two runs of consecutive packets concatenate to one.                     *)
LEMMA AppendConsecutive ==
  ASSUME NEW m \in Nat, NEW n \in Nat
  PROVE  [i \in 1 .. m |-> i - 1] \o [i \in 1 .. n |-> m + i - 1]
           = [i \in 1 .. m + n |-> i - 1]
<1>. DEFINE s == [i \in 1 .. m |-> i - 1]
            t == [i \in 1 .. n |-> m + i - 1]
            u == [i \in 1 .. m + n |-> i - 1]
<1>1. s \in Seq(Nat) /\ Len(s) = m /\ t \in Seq(Nat) /\ Len(t) = n
  OBVIOUS
<1>2. u \in Seq(Nat) /\ Len(u) = m + n
  OBVIOUS
<1>3. \A i \in 1 .. m : s[i] = i - 1
  OBVIOUS
<1>4. \A i \in 1 .. n : t[i] = m + i - 1
  OBVIOUS
<1>5. \A i \in 1 .. m + n : u[i] = i - 1
  OBVIOUS
<1>. HIDE DEF s, t, u
<1>6. /\ s \o t \in Seq(Nat)
      /\ Len(s \o t) = m + n
      /\ \A i \in 1 .. m + n : (s \o t)[i] = IF i <= m THEN s[i] ELSE t[i - m]
  BY <1>1, ConcatProperties
<1>7. ASSUME NEW i \in 1 .. m + n PROVE (s \o t)[i] = u[i]
  <2>. i \in Nat
    OBVIOUS
  <2>1. CASE i <= m
    BY <1>3, <1>5, <1>6, <2>1
  <2>2. CASE i > m
    <3>1. i - m \in 1 .. n
      BY <2>2
    <3>2. t[i - m] = m + (i - m) - 1
      BY <1>4, <3>1
    <3>. QED
      BY <1>5, <1>6, <2>2, <3>2
  <2>3. i <= m \/ i > m
    OBVIOUS
  <2>. QED
    BY <2>1, <2>2, <2>3, Zenon
<1>8. s \o t = u
  BY <1>2, <1>6, <1>7, SeqEqual
<1>. QED
  BY <1>8 DEF s, t, u

(* handleMsg on a packet it does not have: the queue grows by consecutive  *)
(* packets and nothing held is lost.                                       *)
LEMMA RegisterPacketInv ==
  ASSUME SingleRound, IInv, NEW p \in sentData, p # Eof, ~isPayloadComplete,
         RegisterPacket(p)
  PROVE  /\ ReceiverInv'
         /\ \A q \in Packets : Holds(q)' <=> Holds(q) \/ q = p
         /\ ~Holds(p)
<1>. DEFINE w == [receivedWindow EXCEPT ![Slot(p)] = p]
<1>1. PICK origin \in windowOrigin .. (windowOrigin + SEQUENCE_RANGE) :
        /\ FirstGap(w, origin)
        /\ windowOrigin' = origin
        /\ completedSet' = completedSet \o
             [i \in 1 .. (origin - windowOrigin) |-> w[Slot(windowOrigin + i - 1)]]
        /\ receivedWindow' =
             [s \in Slots |-> IF \E q \in windowOrigin .. (origin - 1) : Slot(q) = s
                              THEN NULL ELSE w[s]]
  BY DEF RegisterPacket
<1>2. /\ TypeOK /\ ReceiverInv /\ Registers(p) /\ isPayloadComplete' = isPayloadComplete
  BY DEF IInv, RegisterPacket
<1>3. /\ p \in DataPackets /\ p \in Packets /\ p \in Nat /\ p < numberOfPackets
      /\ numberOfPackets \in Nat /\ Eof = numberOfPackets /\ Eof \in Packets
  BY <1>2, PacketSlots, PacketCount DEF TypeOK, DataPackets, Eof, Packets
<1>4. /\ windowOrigin = Len(completedSet) /\ windowOrigin \in Nat
      /\ windowOrigin <= numberOfPackets
      /\ origin \in Nat /\ windowOrigin <= origin
  BY <1>1, <1>2, CommonAssumption DEF ReceiverInv, TypeOK
<1>5. windowOrigin <= p /\ receivedWindow[Slot(p)] = NULL
  BY <1>2, <1>3, <1>4, WindowTest DEF Registers
<1>6. ~Holds(p)
  BY <1>3, <1>4, <1>5, PacketSlots DEF Holds
<1>7. ASSUME NEW q \in Packets
      PROVE  w[Slot(q)] = IF q = p THEN p ELSE receivedWindow[Slot(q)]
  BY <1>2, <1>3, PacketSlots DEF TypeOK
<1>8. ASSUME NEW q \in Packets, w[Slot(q)] # NULL
      PROVE  w[Slot(q)] = q /\ windowOrigin <= q /\ q # Eof
  <2>1. CASE q = p
    BY <1>3, <1>5, <1>7, <2>1
  <2>2. CASE q # p
    <3>1. receivedWindow[Slot(q)] = q /\ windowOrigin < q
      BY <1>2, <1>7, <1>8, <2>2, HeldSlot
    <3>2. q \in DataPackets
      BY <1>2, <3>1, PacketSlots DEF TypeOK
    <3>. QED
      BY <1>4, <1>7, <2>2, <3>1, <3>2, PacketSlots, PacketCount DEF DataPackets
  <2>. QED
    BY <2>1, <2>2
<1>9. \A q \in windowOrigin .. (origin - 1) : w[Slot(q)] # NULL
  BY <1>1 DEF FirstGap
<1>10. w[Slot(origin)] = NULL
  BY <1>1 DEF FirstGap
<1>11. w \in [Slots -> DataPackets \union {NULL}]
  BY <1>2, <1>3 DEF TypeOK
<1>. HIDE DEF w
<1>12. origin <= numberOfPackets
  <2>1. SUFFICES ASSUME numberOfPackets < origin PROVE FALSE
    BY <1>3, <1>4
  <2>2. Eof \in windowOrigin .. (origin - 1)
    BY <1>3, <1>4, <2>1
  <2>. QED
    BY <1>3, <1>8, <1>9, <2>2
<1>13. \A q \in windowOrigin .. (origin - 1) : q \in Packets /\ q \in Nat
  BY <1>3, <1>4, <1>12 DEF Packets
<1>14. origin \in Packets
  BY <1>3, <1>4, <1>12 DEF Packets
<1>15. ASSUME NEW q \in Packets
       PROVE  receivedWindow'[Slot(q)] =
                IF windowOrigin <= q /\ q < origin THEN NULL ELSE w[Slot(q)]
  <2>1. q \in Nat
    BY PacketCount DEF Packets
  <2>2. (\E r \in windowOrigin .. (origin - 1) : Slot(r) = Slot(q))
          <=> windowOrigin <= q /\ q < origin
    BY <1>4, <1>13, <2>1, PacketSlots
  <2>. QED
    BY <1>1, <2>2, PacketSlots
<1>16. /\ completedSet' = [i \in 1 .. origin |-> i - 1]
       /\ Len(completedSet') = origin
  <2>. DEFINE t == [i \in 1 .. (origin - windowOrigin) |-> w[Slot(windowOrigin + i - 1)]]
  <2>1. ASSUME NEW i \in 1 .. (origin - windowOrigin)
        PROVE  w[Slot(windowOrigin + i - 1)] = windowOrigin + i - 1
    <3>1. windowOrigin + i - 1 \in windowOrigin .. (origin - 1)
      BY <1>4
    <3>. QED
      BY <1>8, <1>9, <1>13, <3>1
  <2>2. t = [i \in 1 .. (origin - windowOrigin) |-> windowOrigin + i - 1]
    BY <2>1
  <2>. HIDE DEF t
  <2>3. completedSet' = completedSet \o t
    BY <1>1 DEF t
  <2>6. completedSet = [i \in 1 .. windowOrigin |-> i - 1]
    BY <1>2, <1>4 DEF ReceiverInv
  <2>7. completedSet \o t = [i \in 1 .. windowOrigin + (origin - windowOrigin) |-> i - 1]
    <3>1. windowOrigin \in Nat /\ origin - windowOrigin \in Nat
      BY <1>4
    <3>2. [i \in 1 .. windowOrigin |-> i - 1]
             \o [i \in 1 .. (origin - windowOrigin) |-> windowOrigin + i - 1]
           = [i \in 1 .. windowOrigin + (origin - windowOrigin) |-> i - 1]
      BY <3>1, AppendConsecutive
    <3>. QED
      BY <2>2, <2>6, <3>2
  <2>8. windowOrigin + (origin - windowOrigin) = origin
    BY <1>4
  <2>. QED
    BY <1>4, <2>3, <2>7, <2>8
<1>17. ASSUME NEW s \in Slots, receivedWindow'[s] # NULL
       PROVE  Slot(receivedWindow'[s]) = s /\ origin < receivedWindow'[s]
  <2>1. receivedWindow'[s] = w[s] /\ w[s] # NULL
    BY <1>1, <1>17
  <2>2. w[s] \in DataPackets /\ w[s] \in Packets /\ w[s] \in Nat
    BY <1>11, <2>1, PacketSlots, PacketCount DEF DataPackets
  <2>3. Slot(w[s]) = s
    <3>1. CASE s = Slot(p)
      BY <1>2, <1>3, <3>1, PacketSlots DEF w, TypeOK
    <3>2. CASE s # Slot(p)
      <4>1. w[s] = receivedWindow[s]
        BY <1>2, <3>2 DEF w, TypeOK
      <4>. QED
        BY <1>2, <2>1, <4>1 DEF ReceiverInv
    <3>. QED
      BY <3>1, <3>2
  <2>4. windowOrigin <= w[s]
    BY <1>8, <2>1, <2>2, <2>3
  <2>5. ~(w[s] < origin)
    BY <1>15, <2>1, <2>2, <2>3, <2>4
  <2>6. w[s] # origin
    BY <1>10, <2>1, <2>3
  <2>. QED
    BY <1>4, <2>1, <2>2, <2>3, <2>5, <2>6
<1>18. ReceiverInv'
  <2>1. ~isPayloadComplete' /\ windowOrigin' = origin /\ Len(completedSet') = origin
    BY <1>1, <1>2, <1>16
  <2>2. origin \in 0 .. numberOfPackets
    BY <1>3, <1>4, <1>12
  <2>. QED
    BY <1>16, <1>17, <2>1, <2>2 DEF ReceiverInv
<1>19. ASSUME NEW q \in Packets PROVE Holds(q)' <=> Holds(q) \/ q = p
  <2>1. q \in Nat /\ q # NULL
    BY PacketCount, PacketSlots DEF Packets
  <2>2. CASE q = Eof
    BY <1>2, <1>3, <2>2 DEF Holds
  <2>3. CASE q # Eof
    <3>1. Holds(q)' <=> q < origin \/ receivedWindow'[Slot(q)] = q
      BY <1>1, <2>3 DEF Holds
    <3>2. Holds(q) <=> q < windowOrigin \/ receivedWindow[Slot(q)] = q
      BY <2>3 DEF Holds
    <3>3. windowOrigin <= q /\ q < origin => w[Slot(q)] = q
      BY <1>4, <1>8, <1>9, <2>1
    <3>. QED
      BY <1>3, <1>4, <1>7, <1>15, <2>1, <3>1, <3>2, <3>3
  <2>. QED
    BY <2>2, <2>3
<1>. QED
  BY <1>6, <1>18, <1>19

(* An EOF reaches a receiver only when the receiver has every data packet. *)
LEMMA EofAfterData ==
  ASSUME SingleRound, IInv, Eof \in sentData
  PROVE  /\ \A p \in DataPackets : Holds(p)
         /\ ~isPayloadComplete => Len(completedSet) = numberOfPackets
<1>1. currentWindowOrigin = numberOfPackets
  BY DEF IInv, NetworkInv, Launched
<1>2. \A p \in DataPackets : p \in Packets /\ p < numberOfPackets /\ p # Eof
  BY PacketSlots, PacketCount DEF DataPackets, Eof
<1>3. \A p \in DataPackets : Holds(p)
  BY <1>1, <1>2, AckedHeld DEF IInv, SenderInv
<1>4. ASSUME ~isPayloadComplete PROVE Len(completedSet) = numberOfPackets
  BY <1>1, <1>4, OriginBehind, PacketCount DEF IInv, ReceiverInv
<1>. QED
  BY <1>3, <1>4

(* Accepting the EOF leaves a receiver that holds every packet.            *)
LEMMA AcceptEofInv ==
  ASSUME SingleRound, IInv, Eof \in sentData, ~isPayloadComplete, AcceptEof
  PROVE  ReceiverInv' /\ \A q \in Packets : Holds(q)' /\ q \in sentData
<1>1. /\ windowOrigin = numberOfPackets /\ Len(completedSet) = numberOfPackets
      /\ \A p \in DataPackets : Holds(p)
  BY EofAfterData DEF IInv, ReceiverInv
<1>2. /\ windowOrigin' = numberOfPackets + 1 /\ isPayloadComplete'
      /\ UNCHANGED <<receivedWindow, completedSet>>
  BY <1>1 DEF AcceptEof
<1>3. ASSUME NEW s \in Slots PROVE receivedWindow[s] = NULL
  <2>1. SUFFICES ASSUME receivedWindow[s] # NULL PROVE FALSE
    OBVIOUS
  <2>2. receivedWindow[s] \in DataPackets /\ numberOfPackets < receivedWindow[s]
    BY <1>1, <2>1 DEF IInv, TypeOK, ReceiverInv
  <2>. QED
    BY <2>2, PacketCount DEF DataPackets
<1>4. ReceiverInv'
  BY <1>1, <1>2, <1>3, PacketCount DEF IInv, ReceiverInv
<1>5. ASSUME NEW q \in Packets PROVE Holds(q)' /\ q \in sentData
  <2>1. CASE q = Eof
    BY <1>2, <2>1 DEF Holds
  <2>2. CASE q # Eof
    <3>1. q \in DataPackets /\ q < numberOfPackets + 1
      BY <2>2, PacketSlots, PacketCount DEF DataPackets
    <3>2. q \in sentData
      BY <1>1, <3>1 DEF IInv, NetworkInv
    <3>. QED
      BY <1>2, <2>2, <3>1, <3>2 DEF Holds
  <2>. QED
    BY <2>1, <2>2
<1>. QED
  BY <1>4, <1>5

(* A receiver that has the whole payload has every packet.                 *)
LEMMA CompleteHolds ==
  ASSUME SingleRound, IInv, isPayloadComplete, NEW p \in Packets
  PROVE  Holds(p)
<1>1. windowOrigin = numberOfPackets + 1
  BY DEF IInv, ReceiverInv
<1>. QED
  BY <1>1, PacketCount DEF Holds, Packets

(* The invariant is inductive: one step per action of Next.                *)
LEMMA NextInv == SingleRound /\ IInv /\ [Next]_vars => IInv'
<1>. SUFFICES ASSUME SingleRound, IInv, [Next]_vars
              PROVE  SenderInv' /\ ReceiverInv' /\ NetworkInv'
  BY NextType DEF IInv
<1>1. ASSUME NEW s \in Slots, ReceiveAck(s) PROVE SenderInv' /\ ReceiverInv' /\ NetworkInv'
  <2>1. PICK a \in Packets : Slot(a) = s
    BY <1>1 DEF ReceiveAck, IInv, NetworkInv
  <2>2. ProcessDataAck(Slot(a)) \/ ProcessEofAck(Slot(a))
    BY <1>1, <2>1 DEF ReceiveAck, ProcessAck
  <2>3. Slot(a) \in sentAcks /\ UNCHANGED <<receiverVars, sentData, sentAcks>>
    BY <1>1, <2>1 DEF ReceiveAck
  <2>. QED
    BY <2>2, <2>3, ProcessDataAckInv, ProcessEofAckInv
<1>2. ASSUME NEW p \in Packets, ExitThread(p) PROVE SenderInv' /\ ReceiverInv' /\ NetworkInv'
  BY <1>2, ThreadInv DEF ExitThread, ThreadExit, ThreadStates
<1>3. ASSUME NEW p \in Packets, CommitThread(p) PROVE SenderInv' /\ ReceiverInv' /\ NetworkInv'
  BY <1>3, ThreadInv DEF CommitThread, ThreadCommit, ThreadStates
<1>4. ASSUME NEW p \in Packets, SendPacket(p) PROVE SenderInv' /\ ReceiverInv' /\ NetworkInv'
  BY <1>4, ThreadInv DEF SendPacket, ThreadSend, ThreadStates
<1>5. ASSUME NEW p \in Packets, FailThread(p) PROVE SenderInv' /\ ReceiverInv' /\ NetworkInv'
  BY <1>5, ThreadInv DEF FailThread, ThreadFail, ThreadStates
<1>6. ASSUME NEW p \in Packets, ReceiveData(p) PROVE SenderInv' /\ ReceiverInv' /\ NetworkInv'
  <2>1. /\ p \in sentData /\ p # Eof /\ ~isPayloadComplete
        /\ Acknowledge(p) /\ UNCHANGED <<senderVars, sentData>>
    BY <1>6 DEF ReceiveData
  <2>2. \A q \in Packets : Holds(q) => q \in sentData
    BY DEF IInv, NetworkInv
  <2>3. CASE RegisterPacket(p)
    <3>1. ReceiverInv' /\ \A q \in Packets : Holds(q)' <=> Holds(q) \/ q = p
      BY <2>1, <2>3, RegisterPacketInv
    <3>. QED
      BY <2>1, <2>2, <3>1, AcknowledgeInv
  <2>4. CASE DiscardPacket(p)
    <3>1. ~Registers(p) /\ UNCHANGED receiverVars
      BY <2>4 DEF DiscardPacket
    <3>2. \A q \in Packets : Holds(q)' <=> Holds(q)
      BY <3>1 DEF Holds, receiverVars
    <3>3. Holds(p)
      BY <2>1, <3>1, DiscardedHeld
    <3>4. ReceiverInv'
      BY <3>1 DEF IInv, ReceiverInv, receiverVars
    <3>. QED
      BY <2>1, <2>2, <3>2, <3>3, <3>4, AcknowledgeInv
  <2>. QED
    BY <1>6, <2>3, <2>4 DEF ReceiveData, HandleData
<1>7. ASSUME ReceiveEof PROVE SenderInv' /\ ReceiverInv' /\ NetworkInv'
  <2>1. Eof \in sentData /\ ~isPayloadComplete /\ UNCHANGED <<senderVars, sentData>>
    BY <1>7 DEF ReceiveEof
  <2>2. Eof \in Packets
    BY PacketSlots
  <2>3. CASE AcceptEof /\ Acknowledge(Eof)
    BY <2>1, <2>2, <2>3, AcceptEofInv, AcknowledgeInv
  <2>4. CASE IgnoreEof /\ UNCHANGED sentAcks
    <3>1. UNCHANGED vars
      BY <2>1, <2>4 DEF IgnoreEof, vars
    <3>. QED
      BY <3>1 DEF IInv, SenderInv, ReceiverInv, NetworkInv, Launched, Pending, Holds,
                  vars, senderVars, receiverVars
  <2>. QED
    BY <1>7, <2>3, <2>4 DEF ReceiveEof
<1>8. ASSUME NEW p \in Packets, ReAcknowledge(p) PROVE SenderInv' /\ ReceiverInv' /\ NetworkInv'
  <2>1. /\ isPayloadComplete /\ Acknowledge(p)
        /\ UNCHANGED <<senderVars, sentData>> /\ UNCHANGED receiverVars
    BY <1>8 DEF ReAcknowledge
  <2>2. \A q \in Packets : Holds(q) /\ Holds(q)'
    BY <2>1, CompleteHolds DEF Holds, receiverVars
  <2>3. ReceiverInv'
    BY <2>1 DEF IInv, ReceiverInv, receiverVars
  <2>. QED
    BY <2>1, <2>2, <2>3, AcknowledgeInv DEF IInv, NetworkInv
<1>9. CASE UNCHANGED vars
  BY <1>9 DEF IInv, SenderInv, ReceiverInv, NetworkInv, Launched, Pending, Holds,
              vars, senderVars, receiverVars
<1>. QED
  BY <1>1, <1>2, <1>3, <1>4, <1>5, <1>6, <1>7, <1>8, <1>9 DEF Next

(* The conjunction of the four parts is an invariant of the transfer.      *)
THEOREM Inductive ==
  ASSUME SingleRound
  PROVE  Spec => []IInv
<1>1. Init => IInv
  BY InitInv
<1>2. IInv /\ [Next]_vars => IInv'
  BY NextInv
<1>. QED
  BY <1>1, <1>2, PTL DEF Spec

-----------------------------------------------------------------------------
(* The properties of the transfer.                                         *)

(* No packet's retransmission stops before the receiver has the packet.    *)
THEOREM AckedIsHeldTheorem ==
  ASSUME SingleRound
  PROVE  Spec => []AckedIsHeld
<1>1. IInv => AckedIsHeld
  BY AckedHeld DEF AckedIsHeld
<1>. QED
  BY <1>1, Inductive, PTL

(* The sender reports success only when the receiver has the payload.      *)
THEOREM SentIsDeliveredTheorem ==
  ASSUME SingleRound
  PROVE  Spec => []SentIsDelivered
<1>1. IInv => SentIsDelivered
  <2>. SUFFICES ASSUME IInv, isPayloadSent PROVE isPayloadComplete
    BY DEF SentIsDelivered
  <2>1. Holds(Eof)
    BY AckedSlot, PacketSlots DEF IInv, NetworkInv
  <2>. QED
    BY <2>1 DEF Holds
<1>. QED
  BY <1>1, Inductive, PTL

(* A completed receiver has exactly the payload, in order.                 *)
THEOREM DeliveredIntactTheorem ==
  ASSUME SingleRound
  PROVE  Spec => []DeliveredIntact
<1>1. IInv => DeliveredIntact
  BY DEF IInv, ReceiverInv, DeliveredIntact, Payload
<1>. QED
  BY <1>1, Inductive, PTL

(* Every thread that still retransmits can be stopped through the window.  *)
THEOREM NoOrphanThreadTheorem ==
  ASSUME SingleRound
  PROVE  Spec => []NoOrphanThread
<1>1. IInv => NoOrphanThread
  <2>. SUFFICES ASSUME IInv, NEW p \in Packets,
                       thread[p] \in {"running", "committed"}, ~isAcked[p]
                PROVE  windowState[Slot(p)] = p /\ currentWindow[Slot(p)] = p
    BY DEF NoOrphanThread
  <2>1. Launched(p)
    BY DEF IInv, SenderInv
  <2>2. currentWindowOrigin <= p
    <3>1. p \in Nat /\ currentWindowOrigin \in Nat /\ currentWindowOrigin <= numberOfPackets
      BY PacketCount DEF IInv, TypeOK, Packets
    <3>2. CASE p = Eof
      BY <3>1, <3>2 DEF Eof
    <3>3. CASE p # Eof
      <4>1. p \in DataPackets
        BY <3>3, PacketSlots
      <4>. QED
        BY <3>1, <4>1 DEF IInv, SenderInv
    <3>. QED
      BY <3>2, <3>3
  <2>. QED
    BY <2>1, <2>2 DEF IInv, SenderInv, Pending
<1>. QED
  BY <1>1, Inductive, PTL

(* The two windows stay within WINDOW_SIZE of each other.                  *)
THEOREM WindowsOverlapTheorem ==
  ASSUME SingleRound
  PROVE  Spec => []WindowsOverlap
<1>1. IInv => WindowsOverlap
  <2>. SUFFICES ASSUME IInv PROVE WindowsOverlap
    OBVIOUS
  <2>1. ASSUME ~isPayloadComplete, ~(windowOrigin <= currentWindowOrigin + WINDOW_SIZE)
        PROVE  FALSE
    <3>. DEFINE p == windowOrigin - 1
    <3>1. /\ windowOrigin \in Nat /\ windowOrigin <= numberOfPackets
          /\ currentWindowOrigin \in Nat /\ WINDOW_SIZE \in Nat
      BY <2>1, PacketCount, CommonAssumption DEF IInv, TypeOK, ReceiverInv, Packets
    <3>2. p \in DataPackets /\ p < windowOrigin /\ p # Eof /\ p \in Packets
      BY <2>1, <3>1, PacketCount, PacketSlots DEF DataPackets, Eof
    <3>3. Launched(p)
      BY <3>2 DEF IInv, NetworkInv, Holds
    <3>. QED
      BY <2>1, <3>1, <3>2, <3>3 DEF Launched
  <2>. QED
    BY <2>1, OriginBehind DEF WindowsOverlap
<1>. QED
  BY <1>1, Inductive, PTL

(* Both ends compute the same next sequence number for the session.        *)
THEOREM FinalSequenceAgreesTheorem ==
  ASSUME SingleRound
  PROVE  Spec => []FinalSequenceAgrees
<1>1. IInv /\ SentIsDelivered => FinalSequenceAgrees
  <2>. SUFFICES ASSUME IInv, isPayloadComplete
                PROVE  SenderFinalSequenceNumber = ReceiverFinalSequenceNumber
    BY DEF SentIsDelivered, FinalSequenceAgrees
  <2>1. windowOrigin = numberOfPackets + 1
    BY DEF IInv, ReceiverInv
  <2>2. sequenceSeed + numberOfPackets + 1 = sequenceSeed + windowOrigin
    BY <2>1, PacketCount, CommonAssumption
  <2>. QED
    BY <2>2 DEF SenderFinalSequenceNumber, ReceiverFinalSequenceNumber
<1>. QED
  BY <1>1, Inductive, SentIsDeliveredTheorem, PTL

(* processAck starts no thread for a packet that has, or had, one.         *)
LEMMA ProcessAckStarts ==
  ASSUME SingleRound, IInv, NEW s \in Slots, ProcessAck(s), NEW p \in Packets,
         thread[p] # "idle"
  PROVE  thread'[p] = thread[p]
<1>1. CASE ProcessEofAck(s)
  BY <1>1 DEF ProcessEofAck
<1>2. CASE ProcessDataAck(s)
  <2>1. PICK origin \in Packets :
          /\ IsNextOrigin(ClearedSlot(s), origin)
          /\ thread' = Started(IF origin = numberOfPackets THEN {Eof}
                               ELSE Missing(Passed(origin), origin))
    BY <1>2 DEF ProcessDataAck
  <2>2. /\ TypeOK /\ Launched(p) /\ currentWindowOrigin # numberOfPackets
        /\ currentWindowOrigin <= origin
    BY <1>2, <2>1, PacketCount
       DEF IInv, SenderInv, ProcessDataAck, IsNextOrigin, TypeOK, Packets
  <2>3. p # Eof
    BY <2>2 DEF Launched
  <2>4. p \notin Missing(Passed(origin), origin)
    <3>1. /\ p \in Nat /\ currentWindowOrigin \in Nat /\ origin \in Nat /\ p # NULL
      BY <2>2, PacketCount, PacketSlots DEF TypeOK, Packets
    <3>2. origin <= p => windowState[Slot(p)] = p
      BY <2>2, <3>1 DEF IInv, SenderInv, Pending
    <3>. QED
      BY <2>2, <3>1, <3>2, PassedValue DEF Missing
  <2>. QED
    BY <2>1, <2>3, <2>4 DEF Started
<1>. QED
  BY <1>1, <1>2 DEF ProcessAck

(* No packet is given a second SenderThread, while the first is alive or   *)
(* after it has ended (normalizeCurrentWindow, Sender.cpp:53).             *)
THEOREM StartedOnceTheorem ==
  ASSUME SingleRound
  PROVE  Spec => []StartedOnce
<1>1. Init => StartedOnce
  BY DEF Init, SenderInit, StartedOnce
<1>2. ASSUME IInv, StartedOnce, [Next]_vars, NEW p \in Packets
      PROVE  thread'[p] # "twice"
  <2>1. thread[p] # "twice" /\ thread \in [Packets -> ThreadStates]
    BY <1>2 DEF StartedOnce, IInv, TypeOK
  <2>2. ASSUME NEW q \in Packets, NEW from, NEW to \in {"running", "committed", "done", "failed"},
               Transition(q, from, to)
        PROVE  thread'[p] # "twice"
    BY <2>1, <2>2 DEF Transition
  <2>3. ASSUME NEW s \in Slots, ReceiveAck(s) PROVE thread'[p] # "twice"
    <3>1. ProcessAck(s)
      BY <2>3 DEF ReceiveAck
    <3>2. CASE thread[p] # "idle"
      BY <1>2, <2>1, <3>1, <3>2, ProcessAckStarts
    <3>3. CASE thread[p] = "idle"
      <4>1. CASE ProcessEofAck(s)
        BY <2>1, <4>1 DEF ProcessEofAck
      <4>2. CASE ProcessDataAck(s)
        <5>1. PICK S : thread' = Started(S)
          BY <4>2 DEF ProcessDataAck
        <5>. QED
          BY <3>3, <5>1 DEF Started
      <4>. QED
        BY <3>1, <4>1, <4>2 DEF ProcessAck
    <3>. QED
      BY <3>2, <3>3
  <2>4. ASSUME NEW q \in Packets,
               ExitThread(q) \/ CommitThread(q) \/ SendPacket(q) \/ FailThread(q)
        PROVE  thread'[p] # "twice"
    BY <2>2, <2>4 DEF ExitThread, CommitThread, SendPacket, FailThread,
                      ThreadExit, ThreadCommit, ThreadSend, ThreadFail
  <2>5. ASSUME UNCHANGED senderVars PROVE thread'[p] # "twice"
    BY <2>1, <2>5 DEF senderVars
  <2>. QED
    BY <1>2, <2>3, <2>4, <2>5
       DEF Next, ReceiveData, ReceiveEof, ReAcknowledge, vars
<1>3. IInv /\ StartedOnce /\ [Next]_vars => StartedOnce'
  BY <1>2 DEF StartedOnce
<1>. QED
  BY <1>1, <1>3, Inductive, PTL DEF Spec

-----------------------------------------------------------------------------
(* Refinement of the abstract transfer.                                    *)

(* The transfer keeps the abstract promise: the receiver hands over        *)
(* exactly the payload, once, and the sender reports success only after    *)
(* that.                                                                   *)
THEOREM Refinement ==
  ASSUME SingleRound
  PROVE  Spec => ImplementsFileTransfer
<1>. USE DEF Promise!ftVars
<1>1. Init => Promise!Init
  BY DEF Init, SenderInit, ReceiverInit, Promise!Init
<1>2. ASSUME IInv, IInv', [Next]_vars
      PROVE  [Promise!Next]_(Promise!ftVars)
  <2>1. ASSUME NEW s \in Slots, ReceiveAck(s) PROVE [Promise!Next]_(Promise!ftVars)
    <3>1. UNCHANGED <<completedSet, isPayloadComplete>> /\ ~isPayloadSent
      BY <2>1 DEF ReceiveAck, ProcessAck, receiverVars
    <3>2. isPayloadSent' => isPayloadComplete
      <4>1. SUFFICES ASSUME isPayloadSent' PROVE isPayloadComplete
        OBVIOUS
      <4>2. Slot(Eof) \in sentAcks
        BY <1>2, <2>1, <4>1 DEF IInv, NetworkInv, ReceiveAck
      <4>. QED
        BY <1>2, <4>2, AckedSlot, PacketSlots DEF Holds
    <3>3. isPayloadSent \in BOOLEAN /\ isPayloadSent' \in BOOLEAN
      BY <1>2 DEF IInv, TypeOK
    <3>4. CASE isPayloadSent'
      <4>1. isPayloadComplete /\ isPayloadSent' = TRUE
        BY <3>2, <3>3, <3>4
      <4>. QED
        BY <3>1, <4>1 DEF Promise!Next, Promise!Report
    <3>5. CASE ~isPayloadSent'
      <4>1. isPayloadSent' = isPayloadSent
        BY <3>1, <3>3, <3>5
      <4>. QED
        BY <3>1, <4>1
    <3>. QED
      BY <3>4, <3>5
  <2>2. ASSUME UNCHANGED <<completedSet, isPayloadComplete, isPayloadSent>>
        PROVE  [Promise!Next]_(Promise!ftVars)
    BY <2>2
  <2>3. ASSUME NEW p \in Packets,
               ExitThread(p) \/ CommitThread(p) \/ SendPacket(p) \/ FailThread(p)
        PROVE  UNCHANGED <<completedSet, isPayloadComplete, isPayloadSent>>
    BY <2>3 DEF ExitThread, CommitThread, SendPacket, FailThread, ThreadExit,
                ThreadCommit, ThreadSend, ThreadFail, Transition, receiverVars
  <2>4. ASSUME NEW p \in Packets, ReceiveData(p) PROVE [Promise!Next]_(Promise!ftVars)
    <3>1. /\ ~isPayloadComplete /\ isPayloadComplete' = isPayloadComplete
          /\ isPayloadSent' = isPayloadSent
      BY <2>4 DEF ReceiveData, HandleData, RegisterPacket, DiscardPacket, senderVars,
                  receiverVars
    <3>2. UNCHANGED (IF isPayloadComplete THEN completedSet ELSE <<>>)
      BY <3>1
    <3>. QED
      BY <3>1, <3>2
  <2>5. ASSUME ReceiveEof PROVE [Promise!Next]_(Promise!ftVars)
    <3>1. isPayloadSent' = isPayloadSent /\ ~isPayloadComplete
      BY <2>5 DEF ReceiveEof, senderVars
    <3>2. CASE AcceptEof
      <4>1. isPayloadComplete' /\ completedSet' = Payload
        BY <1>2, <3>2 DEF AcceptEof, IInv, ReceiverInv, Payload
      <4>. QED
        BY <3>1, <4>1 DEF Promise!Next, Promise!Deliver
    <3>3. CASE IgnoreEof
      BY <2>2, <3>1, <3>3 DEF IgnoreEof, receiverVars
    <3>. QED
      BY <2>5, <3>2, <3>3 DEF ReceiveEof
  <2>6. ASSUME NEW p \in Packets, ReAcknowledge(p) PROVE [Promise!Next]_(Promise!ftVars)
    BY <2>2, <2>6 DEF ReAcknowledge, senderVars, receiverVars
  <2>7. CASE UNCHANGED vars
    BY <2>2, <2>7 DEF vars, senderVars, receiverVars
  <2>. QED
    BY <1>2, <2>1, <2>2, <2>3, <2>4, <2>5, <2>6, <2>7 DEF Next
<1>3. IInv /\ IInv' /\ [Next]_vars => [Promise!Next]_(Promise!ftVars)
  BY <1>2
<1>. HIDE DEF Promise!ftVars
<1>. QED
  BY <1>1, <1>3, Inductive, PTL DEF Spec, Promise!Spec, ImplementsFileTransfer

-----------------------------------------------------------------------------
(* The byte count.                                                         *)

Received == {p \in DataPackets : Holds(p)}

(* Every received packet is full but the last packet of the payload.       *)
CountInv ==
  totalPayloadSize =
    BUFFER_LENGTH * Cardinality(Received)
      - (IF numberOfPackets - 1 \in Received
         THEN BUFFER_LENGTH - PacketLength(numberOfPackets - 1) ELSE 0)

(* Before the first packet nothing is counted.                             *)
LEMMA CountInit == SingleRound /\ Init => CountInv
<1>. SUFFICES ASSUME SingleRound, Init PROVE CountInv
  OBVIOUS
<1>1. Received = {}
  BY PacketSlots, PacketCount
     DEF Init, ReceiverInit, Received, Holds, EmptyWindow, DataPackets, NULL, Eof
<1>2. totalPayloadSize = 0
  BY DEF Init, ReceiverInit
<1>. QED
  BY <1>1, <1>2, FS_EmptySet, CommonAssumption DEF CountInv

(* The count grows by the length of the one packet registered.             *)
LEMMA CountNext == SingleRound /\ IInv /\ CountInv /\ [Next]_vars => CountInv'
<1>. SUFFICES ASSUME SingleRound, IInv, CountInv, [Next]_vars PROVE CountInv'
  OBVIOUS
<1>1. ASSUME totalPayloadSize' = totalPayloadSize, Received' = Received PROVE CountInv'
  BY <1>1 DEF CountInv
<1>2. ASSUME UNCHANGED receiverVars PROVE CountInv'
  BY <1>1, <1>2 DEF receiverVars, Received, Holds
<1>3. ASSUME NEW p \in Packets, ReceiveData(p), RegisterPacket(p) PROVE CountInv'
  <2>1. p \in sentData /\ p # Eof /\ ~isPayloadComplete /\ p \in DataPackets
    BY <1>3, PacketSlots DEF ReceiveData
  <2>2. p \notin Received /\ Received' = Received \union {p}
    BY <1>3, <2>1, PacketSlots, RegisterPacketInv DEF Received
  <2>3. IsFiniteSet(Received) /\ Cardinality(Received) \in Nat
    <3>1. IsFiniteSet(DataPackets)
      BY FS_Interval, PacketCount DEF DataPackets
    <3>. QED
      BY <3>1, FS_Subset, FS_CardinalityType DEF Received
  <2>4. Cardinality(Received') = Cardinality(Received) + 1
    BY <2>2, <2>3, FS_AddElement
  <2>5. totalPayloadSize' = totalPayloadSize + PacketLength(p)
    BY <1>3 DEF RegisterPacket
  <2>. DEFINE c == Cardinality(Received)
              last == numberOfPackets - 1
  <2>6. BUFFER_LENGTH * (c + 1) = BUFFER_LENGTH * c + BUFFER_LENGTH /\ BUFFER_LENGTH * c \in Nat
    BY <2>3, CommonAssumption
  <2>7. BUFFER_LENGTH \in Nat /\ totalPayloadSize \in Nat
    BY CommonAssumption DEF IInv, TypeOK
  <2>8. CASE p = last
    <3>1. last \in Received' /\ last \notin Received
      BY <2>2, <2>8
    <3>2. PacketLength(last) \in Nat
      BY <2>1, <2>8, LengthType
    <3>. QED
      BY <2>4, <2>5, <2>6, <2>7, <2>8, <3>1, <3>2 DEF CountInv
  <2>9. CASE p # last
    <3>1. last \in Received' <=> last \in Received
      BY <2>2, <2>9
    <3>2. PacketLength(p) = BUFFER_LENGTH
      BY <2>9 DEF PacketLength
    <3>3. last \in Received => PacketLength(last) \in Nat
      BY LengthType DEF Received
    <3>. QED
      BY <2>4, <2>5, <2>6, <2>7, <3>1, <3>2, <3>3 DEF CountInv
  <2>. QED
    BY <2>8, <2>9
<1>4. ASSUME ReceiveEof PROVE CountInv'
  <2>1. CASE AcceptEof
    <3>1. \A p \in DataPackets : Holds(p) /\ Holds(p)' /\ p \in Packets
      BY <1>4, <2>1, EofAfterData, AcceptEofInv, PacketSlots DEF ReceiveEof
    <3>2. Received' = Received
      BY <3>1 DEF Received
    <3>. QED
      BY <1>1, <2>1, <3>2 DEF AcceptEof
  <2>2. CASE IgnoreEof
    BY <1>2, <2>2 DEF IgnoreEof
  <2>. QED
    BY <1>4, <2>1, <2>2 DEF ReceiveEof
<1>. QED
  BY <1>2, <1>3, <1>4
     DEF Next, ReceiveAck, ExitThread, CommitThread, SendPacket, FailThread,
         ReceiveData, HandleData, DiscardPacket, ReAcknowledge, vars

(* The receiver accepts the first EOF that reaches it.                     *)
THEOREM EofAcceptableTheorem ==
  ASSUME SingleRound
  PROVE  Spec => []EofAcceptable
<1>1. IInv /\ CountInv => EofAcceptable
  <2>. SUFFICES ASSUME IInv, CountInv, Eof \in sentData
                PROVE  totalPayloadSize = payloadSize
    BY DEF EofAcceptable
  <2>1. Received = DataPackets
    BY EofAfterData DEF Received
  <2>2. numberOfPackets \in Nat /\ numberOfPackets > 0
    BY PacketCount DEF IInv, NetworkInv, Launched
  <2>3. Cardinality(Received) = numberOfPackets /\ numberOfPackets - 1 \in Received
    BY <2>1, <2>2, FS_Interval DEF DataPackets
  <2>4. totalPayloadSize = BUFFER_LENGTH * numberOfPackets
          - (BUFFER_LENGTH - (payloadSize - (numberOfPackets - 1) * BUFFER_LENGTH))
    BY <2>3 DEF CountInv, PacketLength
  <2>5. (numberOfPackets - 1) * BUFFER_LENGTH = BUFFER_LENGTH * numberOfPackets - BUFFER_LENGTH
    BY <2>2, CommonAssumption
  <2>. QED
    BY <2>2, <2>4, <2>5, CommonAssumption
<1>2. Init => CountInv
  BY CountInit
<1>3. IInv /\ CountInv /\ [Next]_vars => CountInv'
  BY CountNext
<1>. QED
  BY <1>1, <1>2, <1>3, Inductive, PTL DEF Spec

=============================================================================
