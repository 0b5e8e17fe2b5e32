----------------------- MODULE RoutedTransfer_proofs -----------------------
(***************************************************************************)
(* Proofs about RoutedTransfer, for every window size, sequence range,     *)
(* payload and first sequence number, with or without delays.              *)
(*                                                                         *)
(* Types need no assumption.  Everything else assumes RangeSuffices, and   *)
(* Prompt throughout the behaviour.  The code's window of 3 and range of 7 *)
(* satisfy RangeSuffices without delays, with Slack = 1; with delays the   *)
(* range has to be larger by one, or by two for that Slack.  Prompt is not *)
(* the code's doing: it is what the code leaves to the scheduler.          *)
(*                                                                         *)
(* The argument: numbers are reused, so what a number says of a packet     *)
(* depends on which packets can still arrive.  By Prompt a thread sends    *)
(* its packet while nothing Beyond it is on the network or has arrived,    *)
(* and a message is overtaken by at most one other in each direction.      *)
(* Hence of the packets sent or received before a data packet arrives at   *)
(* most one is Beyond it (DataOrder, Once), and at most two before an ACK  *)
(* does (AckOrder, Twice); without delays, none.  So a packet that arrives *)
(* is at most a window, Slack and one packet behind the receiver's window, *)
(* and an ACK at most a window, Slack and two packets behind the sender's: *)
(* near enough for the number to decide which packet it is about           *)
(* (WindowTest, AckedSlot).                                                *)
(***************************************************************************)
EXTENDS RoutedTransfer, FiniteSetTheorems, SequenceTheorems, TLAPS

-----------------------------------------------------------------------------
(* Packets and sequence numbers.                                           *)

(* A payload has a natural number of packets.                              *)
LEMMA PacketCount == numberOfPackets \in Nat
<1>1. payloadSize \div BUFFER_LENGTH \in Nat
  BY CommonAssumption
<1>. QED
  BY <1>1 DEF numberOfPackets

(* The packets of a transfer are its data packets and the EOF.             *)
LEMMA PacketKinds ==
  /\ Packets = DataPackets \union {Eof}
  /\ Eof \in Packets /\ Eof \notin DataPackets
  /\ \A p \in Packets : p \in Nat /\ p <= numberOfPackets /\ p # NULL
  /\ \A p \in DataPackets : p \in Packets /\ p \in Nat /\ p < numberOfPackets /\ p # Eof
  BY PacketCount DEF Packets, DataPackets, Eof, NULL

(* Packets have lengths, the last one included.                            *)
LEMMA LengthType == ASSUME NEW p \in DataPackets PROVE PacketLength(p) \in Nat
<1>. DEFINE q == payloadSize \div BUFFER_LENGTH
            r == payloadSize % BUFFER_LENGTH
<1>1. q \in Nat /\ r \in 0 .. (BUFFER_LENGTH - 1) /\ payloadSize = q * BUFFER_LENGTH + r
  BY CommonAssumption
<1>2. numberOfPackets = q + (IF r > 0 THEN 1 ELSE 0)
  BY DEF numberOfPackets
<1>. HIDE DEF q, r
<1>. SUFFICES ASSUME p = numberOfPackets - 1
              PROVE  payloadSize - p * BUFFER_LENGTH \in Nat
  BY CommonAssumption DEF PacketLength
<1>3. CASE r > 0
  <2>1. p = q
    BY <1>1, <1>2, <1>3
  <2>. QED
    BY <1>1, <2>1, CommonAssumption
<1>4. CASE r = 0
  <2>1. p = q - 1
    BY <1>1, <1>2, <1>4
  <2>2. p * BUFFER_LENGTH = q * BUFFER_LENGTH - BUFFER_LENGTH
    BY <1>1, <2>1, CommonAssumption
  <2>. QED
    BY <1>1, <1>4, <2>2, CommonAssumption
<1>. QED
  BY <1>1, <1>3, <1>4, CommonAssumption

(* Every packet has a slot, whatever the length of the payload.            *)
LEMMA SlotType == ASSUME NEW p \in Nat PROVE Slot(p) \in Slots
  BY CommonAssumption DEF Slot, Slots

(* A slot and the number of rounds before it name a position.              *)
LEMMA SlotRound ==
  ASSUME NEW p \in Nat
  PROVE  \E n \in Int : p + sequenceSeed = SEQUENCE_RANGE * n + Slot(p)
<1>. DEFINE x == p + sequenceSeed
            n == x \div SEQUENCE_RANGE
            r == x % SEQUENCE_RANGE
<1>1. x \in Nat /\ SEQUENCE_RANGE \in Nat /\ SEQUENCE_RANGE > 0
  BY CommonAssumption
<1>2. n \in Int /\ r \in Int /\ x = n * SEQUENCE_RANGE + r
  <2>. HIDE DEF x
  <2>. QED
    BY <1>1
<1>3. Slot(p) = r
  BY DEF Slot
<1>4. x = p + sequenceSeed
  OBVIOUS
<1>. HIDE DEF x, n, r
<1>5. x = SEQUENCE_RANGE * n + Slot(p)
  BY <1>1, <1>2, <1>3
<1>. QED
  BY <1>2, <1>4, <1>5

(* A multiple of the range that is smaller than the range is zero.         *)
LEMMA SmallMultiple ==
  ASSUME NEW n \in Int, - SEQUENCE_RANGE < SEQUENCE_RANGE * n,
         SEQUENCE_RANGE * n < SEQUENCE_RANGE
  PROVE  n = 0
<1>1. SEQUENCE_RANGE \in Nat /\ SEQUENCE_RANGE > 0
  BY CommonAssumption
<1>2. ASSUME n >= 1 PROVE FALSE
  <2>1. SEQUENCE_RANGE * n = SEQUENCE_RANGE * (n - 1) + SEQUENCE_RANGE
    BY <1>1
  <2>2. SEQUENCE_RANGE * (n - 1) >= 0
    BY <1>1, <1>2
  <2>. QED
    BY <1>1, <2>1, <2>2
<1>3. ASSUME n <= -1 PROVE FALSE
  <2>1. SEQUENCE_RANGE * n = SEQUENCE_RANGE * (n + 1) - SEQUENCE_RANGE
    BY <1>1
  <2>2. SEQUENCE_RANGE * (n + 1) <= 0
    BY <1>1, <1>3
  <2>. QED
    BY <1>1, <2>1, <2>2
<1>. QED
  BY <1>2, <1>3

(* Positions less than a round apart have distinct sequence numbers.       *)
LEMMA SlotInjective ==
  ASSUME NEW p \in Nat, NEW q \in Nat, Slot(p) = Slot(q),
         p < q + SEQUENCE_RANGE, q < p + SEQUENCE_RANGE
  PROVE  p = q
<1>1. PICK m \in Int : p + sequenceSeed = SEQUENCE_RANGE * m + Slot(p)
  BY SlotRound
<1>2. PICK n \in Int : q + sequenceSeed = SEQUENCE_RANGE * n + Slot(q)
  BY SlotRound
<1>3. /\ SEQUENCE_RANGE \in Nat /\ sequenceSeed \in Nat /\ Slot(p) \in Nat
      /\ SEQUENCE_RANGE * (m - n) = SEQUENCE_RANGE * m - SEQUENCE_RANGE * n
      /\ SEQUENCE_RANGE * m \in Int /\ SEQUENCE_RANGE * n \in Int
  BY SlotType, CommonAssumption DEF Slots
<1>4. p - q = SEQUENCE_RANGE * (m - n)
  BY <1>1, <1>2, <1>3
<1>5. m - n = 0
  BY <1>3, <1>4, SmallMultiple
<1>6. m = n
  BY <1>5
<1>. QED
  BY <1>1, <1>2, <1>3, <1>6

(* The sequence number of a position less than a round after another.      *)
LEMMA SlotShift ==
  ASSUME NEW p \in Nat, NEW k \in 0 .. (SEQUENCE_RANGE - 1)
  PROVE  Slot(p + k) = IF Slot(p) + k < SEQUENCE_RANGE THEN Slot(p) + k
                                                    ELSE Slot(p) + k - SEQUENCE_RANGE
<1>. DEFINE s == IF Slot(p) + k < SEQUENCE_RANGE THEN Slot(p) + k
                                                 ELSE Slot(p) + k - SEQUENCE_RANGE
<1>1. /\ SEQUENCE_RANGE \in Nat /\ sequenceSeed \in Nat /\ k \in Nat /\ k < SEQUENCE_RANGE
      /\ Slot(p) \in 0 .. (SEQUENCE_RANGE - 1)
      /\ Slot(p + k) \in 0 .. (SEQUENCE_RANGE - 1)
  BY SlotType, CommonAssumption DEF Slots
<1>2. PICK m \in Int : p + sequenceSeed = SEQUENCE_RANGE * m + Slot(p)
  BY SlotRound
<1>3. PICK n \in Int : p + k + sequenceSeed = SEQUENCE_RANGE * n + Slot(p + k)
  <2>1. p + k \in Nat
    BY <1>1
  <2>. QED
    BY <2>1, SlotRound
<1>4. /\ SEQUENCE_RANGE * (n - m) = SEQUENCE_RANGE * n - SEQUENCE_RANGE * m
      /\ SEQUENCE_RANGE * (n - m - 1) = SEQUENCE_RANGE * n - SEQUENCE_RANGE * m - SEQUENCE_RANGE
      /\ SEQUENCE_RANGE * m \in Int /\ SEQUENCE_RANGE * n \in Int
  BY <1>1
<1>5. SEQUENCE_RANGE * n - SEQUENCE_RANGE * m = Slot(p) + k - Slot(p + k)
  <2>. DEFINE a == SEQUENCE_RANGE * n
              b == SEQUENCE_RANGE * m
              r == Slot(p)
              t == Slot(p + k)
  <2>1. /\ a \in Int /\ b \in Int /\ r \in Int /\ t \in Int /\ k \in Int
        /\ p + sequenceSeed = b + r /\ p + k + sequenceSeed = a + t
        /\ sequenceSeed \in Int
    BY <1>1, <1>2, <1>3, <1>4
  <2>. HIDE DEF a, b, r, t
  <2>2. a - b = r + k - t
    BY <2>1
  <2>. QED
    BY <2>2 DEF a, b, r, t
<1>6. CASE Slot(p) + k < SEQUENCE_RANGE
  <2>1. n - m = 0
    BY <1>1, <1>4, <1>5, <1>6, SmallMultiple
  <2>2. n = m
    BY <2>1
  <2>. QED
    BY <1>1, <1>4, <1>5, <1>6, <2>2
<1>7. CASE ~(Slot(p) + k < SEQUENCE_RANGE)
  <2>1. n - m - 1 = 0
    BY <1>1, <1>4, <1>5, <1>7, SmallMultiple
  <2>2. n = m + 1
    BY <2>1
  <2>3. SEQUENCE_RANGE * n = SEQUENCE_RANGE * m + SEQUENCE_RANGE
    BY <1>1, <2>2
  <2>. QED
    BY <1>1, <1>4, <1>5, <1>7, <2>3
<1>. QED
  BY <1>6, <1>7

(* The receiver's test on sequence numbers decides membership of the       *)
(* packet in the receive window, for packets less than a round from it.    *)
LEMMA WindowTest ==
  ASSUME windowOrigin \in Nat, NEW p \in Nat, p < windowOrigin + WINDOW_SIZE,
         windowOrigin + WINDOW_SIZE <= p + SEQUENCE_RANGE
  PROVE  IsSequenceNumberInWindow(Slot(p)) <=> windowOrigin <= p
<1>1. /\ SEQUENCE_RANGE \in Nat /\ WINDOW_SIZE \in Nat /\ WINDOW_SIZE < SEQUENCE_RANGE
      /\ Slot(p) \in 0 .. (SEQUENCE_RANGE - 1)
      /\ Slot(windowOrigin) \in 0 .. (SEQUENCE_RANGE - 1)
  BY SlotType, CommonAssumption DEF Slots
<1>2. CASE windowOrigin <= p
  <2>. DEFINE k == p - windowOrigin
  <2>1. k \in 0 .. (SEQUENCE_RANGE - 1) /\ k < WINDOW_SIZE /\ p = windowOrigin + k
    BY <1>1, <1>2
  <2>. HIDE DEF k
  <2>2. Slot(p) = IF Slot(windowOrigin) + k < SEQUENCE_RANGE
                  THEN Slot(windowOrigin) + k ELSE Slot(windowOrigin) + k - SEQUENCE_RANGE
    BY <2>1, SlotShift
  <2>. QED
    BY <1>1, <1>2, <2>1, <2>2 DEF IsSequenceNumberInWindow
<1>3. CASE p < windowOrigin
  <2>. DEFINE k == windowOrigin - p
  <2>1. /\ k \in 0 .. (SEQUENCE_RANGE - 1) /\ k > 0 /\ k + WINDOW_SIZE <= SEQUENCE_RANGE
        /\ windowOrigin = p + k
    BY <1>1, <1>3, CommonAssumption
  <2>. HIDE DEF k
  <2>2. Slot(windowOrigin) = IF Slot(p) + k < SEQUENCE_RANGE
                  THEN Slot(p) + k ELSE Slot(p) + k - SEQUENCE_RANGE
    BY <2>1, SlotShift
  <2>3. ~IsSequenceNumberInWindow(Slot(p))
    BY <1>1, <2>1, <2>2 DEF IsSequenceNumberInWindow
  <2>. QED
    BY <1>3, <2>3
<1>. QED
  BY <1>1, <1>2, <1>3

-----------------------------------------------------------------------------
(* The order in which a direction of the network delivers.                 *)

(* A set of sets with all the subsets of its members.                      *)
Closed(F) == \A X \in F : \A Y \in SUBSET X : Y \in F

(* F allows for what E does and, where messages are held, one packet more. *)
Widens(E, F) ==
  \A X \in E : X \in F /\ \A q \in Packets : Delays => X \union {q} \in F

(* One message more may be overtaken on each direction.                    *)
LEMMA Widening ==
  /\ Closed(Never) /\ Closed(Once) /\ Closed(Twice)
  /\ Widens(Never, Once) /\ Widens(Once, Twice)
<1>1. Closed(Never) /\ Closed(Once)
  BY DEF Closed, Never, Once
<1>2. Closed(Twice)
  <2>1. SUFFICES ASSUME NEW V \in Twice, NEW Z \in SUBSET V PROVE Z \in Twice
    BY DEF Closed
  <2>2. PICK X \in Once, Y \in Once : V = X \union Y
    BY DEF Twice
  <2>3. Z \intersect X \in Once /\ Z \intersect Y \in Once
    BY <1>1 DEF Closed
  <2>4. Z = (Z \intersect X) \union (Z \intersect Y)
    BY <2>2
  <2>. QED
    BY <2>3, <2>4 DEF Twice
<1>3. Widens(Never, Once)
  BY DEF Widens, Never, Once
<1>4. Widens(Once, Twice)
  <2>1. SUFFICES ASSUME NEW X \in Once
                 PROVE  /\ X \in Twice
                        /\ \A q \in Packets : Delays => X \union {q} \in Twice
    BY DEF Widens
  <2>2. {} \in Once /\ \A q \in Packets : Delays => {q} \in Once
    BY DEF Never, Once
  <2>3. X = X \union {}
    OBVIOUS
  <2>4. X \in Twice
    BY <2>1, <2>2, <2>3 DEF Twice
  <2>5. ASSUME NEW q \in Packets, Delays PROVE X \union {q} \in Twice
    <3>1. {q} \in Once
      BY <2>2, <2>5
    <3>. QED
      BY <2>1, <3>1 DEF Twice
  <2>. QED
    BY <2>4, <2>5
<1>. QED
  BY <1>1, <1>2, <1>3, <1>4

(* Fewer packets to compare with leave fewer ahead.                        *)
LEMMA AheadSubset ==
  ASSUME NEW F, Closed(F), NEW R, NEW p, NEW P, NEW Q, Q \subseteq P, Ahead(R, p, P) \in F
  PROVE  Ahead(R, p, Q) \in F
<1>1. Ahead(R, p, Q) \subseteq Ahead(R, p, P)
  BY DEF Ahead
<1>. QED
  BY <1>1 DEF Closed

(* A sequence of members of a set is one of those of a larger set.         *)
LEMMA SubsetSequence ==
  ASSUME NEW S, NEW M, S \subseteq M
  PROVE  Seq(S) \subseteq Seq(M)
<1>1. ASSUME NEW s \in Seq(S) PROVE s \in Seq(M)
  <2>1. Len(s) \in Nat /\ \A i \in 1 .. Len(s) : s[i] \in S
    OBVIOUS
  <2>2. s = [i \in 1 .. Len(s) |-> s[i]]
    OBVIOUS
  <2>. DEFINE n == Len(s)
  <2>3. [i \in 1 .. n |-> s[i]] \in Seq(M)
    BY <2>1
  <2>. QED
    BY <2>2, <2>3
<1>. QED
  BY <1>1

(* A message behind all the others keeps the order.                        *)
LEMMA AppendInOrder ==
  ASSUME NEW R, NEW P, NEW L \in Seq(Int), NEW m \in Int, NEW E, NEW F,
         InOrder(R, P, <<>>, L, E, F),
         Ahead(R, m, P \union {L[j] : j \in 1 .. Len(L)}) \in F
  PROVE  InOrder(R, P, <<>>, Append(L, m), E, F)
<1>. DEFINE K == Append(L, m)
<1>1. K \in Seq(Int) /\ Len(K) = Len(L) + 1 /\ Len(L) \in Nat
  OBVIOUS
<1>2. K[Len(L) + 1] = m /\ \A i \in 1 .. Len(L) : K[i] = L[i]
  OBVIOUS
<1>. HIDE DEF K
<1>3. ASSUME NEW i \in 1 .. Len(K)
      PROVE  Ahead(R, K[i], P \union {K[j] : j \in 1 .. (i - 1)}) \in F
  <2>1. i \in Nat /\ i <= Len(L) + 1
    BY <1>1
  <2>2. {K[j] : j \in 1 .. (i - 1)} = {L[j] : j \in 1 .. (i - 1)}
    <3>1. \A j \in 1 .. (i - 1) : j \in 1 .. Len(L)
      BY <1>1, <2>1
    <3>2. \A j \in 1 .. (i - 1) : K[j] = L[j]
      BY <1>2, <3>1
    <3>. QED
      BY <3>2
  <2>3. CASE i \in 1 .. Len(L)
    <3>1. K[i] = L[i]
      BY <1>2, <2>3
    <3>2. Ahead(R, L[i], P \union {L[j] : j \in 1 .. (i - 1)}) \in F
      BY <2>3 DEF InOrder
    <3>. QED
      BY <2>2, <3>1, <3>2
  <2>4. CASE i = Len(L) + 1
    <3>1. i - 1 = Len(L) /\ K[i] = m
      BY <1>1, <1>2, <2>4
    <3>. DEFINE A == {L[j] : j \in 1 .. Len(L)}
    <3>2. {K[j] : j \in 1 .. (i - 1)} = A
      BY <2>2, <3>1
    <3>3. Ahead(R, m, P \union A) \in F
      OBVIOUS
    <3>. HIDE DEF A
    <3>. QED
      BY <3>1, <3>2, <3>3
  <2>5. i \in 1 .. Len(L) \/ i = Len(L) + 1
    BY <1>1
  <2>. QED
    BY <2>3, <2>4, <2>5, Zenon
<1>4. InOrder(R, P, <<>>, K, E, F)
  <2>1. \A i \in 1 .. Len(<<>>) : FALSE
    OBVIOUS
  <2>2. \A i \in 1 .. Len(<<>>) :
          Ahead(R, <<>>[i], P \union {K[j] : j \in 1 .. Len(K)}) \in E
    BY <2>1
  <2>. QED
    BY <1>3, <2>2, Zenon DEF InOrder
<1>. QED
  BY <1>4 DEF K

(* The last packet of a sequence to which one is appended.                 *)
LEMMA AppendElements ==
  ASSUME NEW M, NEW L \in Seq(M), NEW m \in M
  PROVE  /\ Append(L, m) \in Seq(M)
         /\ {Append(L, m)[j] : j \in 1 .. Len(Append(L, m))}
              = {L[j] : j \in 1 .. Len(L)} \union {m}
<1>. DEFINE K == Append(L, m)
<1>1. K \in Seq(M) /\ Len(K) = Len(L) + 1 /\ Len(L) \in Nat
  OBVIOUS
<1>2. K[Len(L) + 1] = m /\ \A i \in 1 .. Len(L) : K[i] = L[i]
  OBVIOUS
<1>. HIDE DEF K
<1>3. 1 .. Len(K) = (1 .. Len(L)) \union {Len(L) + 1}
  BY <1>1
<1>4. {K[j] : j \in 1 .. Len(K)} = {L[j] : j \in 1 .. Len(L)} \union {m}
  BY <1>2, <1>3
<1>. QED
  BY <1>1, <1>4 DEF K

(* A message that is held back keeps the order.                            *)
LEMMA HoldInOrder ==
  ASSUME NEW R, NEW P, NEW L \in Seq(Int), NEW m \in Int, NEW E, NEW F,
         InOrder(R, P, <<>>, L, E, F),
         Ahead(R, m, P \union {L[j] : j \in 1 .. Len(L)}) \in E
  PROVE  InOrder(R, P, <<m>>, L, E, F)
<1>1. \A i \in 1 .. Len(<<m>>) : <<m>>[i] = m
  OBVIOUS
<1>. QED
  BY <1>1 DEF InOrder

(* What is held may be forgotten.                                          *)
LEMMA NoneHeldInOrder ==
  ASSUME NEW R, NEW P, NEW H, NEW L, NEW E, NEW F, InOrder(R, P, H, L, E, F)
  PROVE  InOrder(R, P, <<>>, L, E, F)
<1>1. \A i \in 1 .. Len(<<>>) : FALSE
  OBVIOUS
<1>. QED
  BY <1>1 DEF InOrder

(* Who holds at most one message holds none or one.                        *)
LEMMA AtMostOne ==
  ASSUME NEW M, NEW H \in Seq(M), Len(H) <= 1, H # <<>>
  PROVE  Len(H) = 1
<1>. DEFINE n == Len(H)
<1>1. n \in Nat \ {0} /\ n <= 1
  BY EmptySeq
<1>. HIDE DEF n
<1>2. n = 1
  BY <1>1
<1>. QED
  BY <1>2 DEF n

(* A sequence of one message, and what appending it does.                  *)
LEMMA SingleMessage ==
  ASSUME NEW M, NEW H \in Seq(M), Len(H) = 1
  PROVE  /\ H[1] \in M /\ 1 \in 1 .. Len(H) /\ H = <<H[1]>>
         /\ \A L \in Seq(M) : L \o H = Append(L, H[1])
<1>1. H[1] \in M /\ 1 \in 1 .. Len(H)
  OBVIOUS
<1>2. H = <<H[1]>>
  <2>. DEFINE x == H[1]
  <2>1. <<x>> \in Seq(M) /\ Len(<<x>>) = 1 /\ <<x>>[1] = x
    BY <1>1
  <2>2. \A i \in 1 .. Len(H) : H[i] = <<x>>[i]
    BY <2>1
  <2>. HIDE DEF x
  <2>3. H = <<x>>
    BY <2>1, <2>2, SeqEqual
  <2>. QED
    BY <2>3 DEF x
<1>3. \A L \in Seq(M) : L \o <<H[1]>> = Append(L, H[1])
  BY <1>1
<1>. QED
  BY <1>1, <1>2, <1>3

(* A message that passes, and takes the held one with it, keeps the order. *)
LEMMA PassInOrder ==
  ASSUME NEW R, NEW P, NEW H \in Seq(Int), NEW L \in Seq(Int), NEW m \in Int,
         NEW E, NEW F, Closed(F), Widens(E, F), Len(H) <= 1, ~Delays => H = <<>>,
         InOrder(R, P, H, L, E, F),
         Ahead(R, m, P \union {L[j] : j \in 1 .. Len(L)}) \in E
  PROVE  InOrder(R, P, <<>>, L \o <<m>> \o H, E, F)
<1>. DEFINE K == Append(L, m)
<1>1. /\ K \in Seq(Int)
      /\ {K[j] : j \in 1 .. Len(K)} = {L[j] : j \in 1 .. Len(L)} \union {m}
  BY AppendElements
<1>2. L \o <<m>> = K
  OBVIOUS
<1>3. InOrder(R, P, <<>>, K, E, F)
  BY NoneHeldInOrder, AppendInOrder DEF Widens
<1>. HIDE DEF K
<1>4. CASE H = <<>>
  <2>1. K \o H = K
    BY <1>1, <1>4
  <2>. QED
    BY <1>2, <1>3, <2>1
<1>5. CASE H # <<>>
  <2>1. Len(H) = 1 /\ Delays
    BY <1>5, AtMostOne
  <2>2. H[1] \in Int /\ 1 \in 1 .. Len(H) /\ K \o H = Append(K, H[1])
    BY <1>1, <2>1, SingleMessage
  <2>3. Ahead(R, H[1], P \union {L[j] : j \in 1 .. Len(L)}) \in E
    BY <2>2 DEF InOrder
  <2>. DEFINE X == Ahead(R, H[1], P \union {L[j] : j \in 1 .. Len(L)})
              Y == Ahead(R, H[1], P \union {K[j] : j \in 1 .. Len(K)})
              Z == X \union ({m} \intersect Packets)
  <2>4. X \in E
    BY <2>3
  <2>5. Y \subseteq Z
    BY <1>1 DEF Ahead
  <2>6. Y \in F
    <3>. HIDE DEF X, Y
    <3>1. Z \in F
      <4>1. CASE m \in Packets
        <5>1. Z = X \union {m}
          BY <4>1
        <5>. QED
          BY <2>1, <2>4, <4>1, <5>1 DEF Widens
      <4>2. CASE m \notin Packets
        <5>1. Z = X
          BY <4>2
        <5>. QED
          BY <2>4, <5>1 DEF Widens
      <4>. QED
        BY <4>1, <4>2
    <3>2. Y \in SUBSET Z
      BY <2>5
    <3>. HIDE DEF Z
    <3>. QED
      BY <3>1, <3>2 DEF Closed
  <2>7. InOrder(R, P, <<>>, Append(K, H[1]), E, F)
    BY <1>1, <1>3, <2>2, <2>6, AppendInOrder
  <2>. QED
    BY <1>2, <2>2, <2>7
<1>. QED
  BY <1>4, <1>5

(* So does the held message that leaves on its own.                        *)
LEMMA ReleaseInOrder ==
  ASSUME NEW R, NEW P, NEW H \in Seq(Int), NEW L \in Seq(Int),
         NEW E, NEW F, Widens(E, F), Len(H) = 1, InOrder(R, P, H, L, E, F)
  PROVE  InOrder(R, P, <<>>, L \o H, E, F)
<1>1. H[1] \in Int /\ 1 \in 1 .. Len(H)
  BY SingleMessage
<1>2. L \o H = Append(L, H[1])
  BY SingleMessage
<1>3. Ahead(R, H[1], P \union {L[j] : j \in 1 .. Len(L)}) \in F
  BY <1>1 DEF InOrder, Widens
<1>4. InOrder(R, P, <<>>, Append(L, H[1]), E, F)
  BY <1>1, <1>3, NoneHeldInOrder, AppendInOrder
<1>. QED
  BY <1>2, <1>4

(* The arrival of the first message keeps the order of the others.         *)
LEMMA ArriveInOrder ==
  ASSUME NEW R, NEW P, NEW Q, NEW H \in Seq(Int), NEW L \in Seq(Int), L # <<>>,
         NEW E, NEW F, Closed(E), Closed(F), InOrder(R, P, H, L, E, F),
         Q \subseteq P \union {Head(L)}
  PROVE  InOrder(R, Q, H, Tail(L), E, F)
<1>. DEFINE K == Tail(L)
<1>1. /\ K \in Seq(Int) /\ Len(K) = Len(L) - 1 /\ Len(L) \in Nat /\ Len(L) > 0
      /\ Head(L) = L[1]
  OBVIOUS
<1>2. \A i \in 1 .. Len(K) : K[i] = L[i + 1]
  OBVIOUS
<1>. HIDE DEF K
<1>3. ASSUME NEW n \in 0 .. Len(K)
      PROVE  Q \union {K[j] : j \in 1 .. n} \subseteq P \union {L[j] : j \in 1 .. (n + 1)}
  <2>1. L[1] \in {L[j] : j \in 1 .. (n + 1)}
    BY <1>1
  <2>2. ASSUME NEW j \in 1 .. n PROVE K[j] \in {L[k] : k \in 1 .. (n + 1)}
    <3>1. j \in 1 .. Len(K) /\ j + 1 \in 1 .. (n + 1)
      BY <1>1
    <3>. QED
      BY <1>2, <3>1
  <2>. QED
    BY <1>1, <2>1, <2>2
<1>4. ASSUME NEW i \in 1 .. Len(K)
      PROVE  Ahead(R, K[i], Q \union {K[j] : j \in 1 .. (i - 1)}) \in F
  <2>1. i + 1 \in 1 .. Len(L) /\ i - 1 \in 0 .. Len(K) /\ (i + 1) - 1 = i /\ (i - 1) + 1 = i
    BY <1>1
  <2>2. Ahead(R, L[i + 1], P \union {L[j] : j \in 1 .. i}) \in F
    BY <2>1 DEF InOrder
  <2>3. Q \union {K[j] : j \in 1 .. (i - 1)} \subseteq P \union {L[j] : j \in 1 .. i}
    BY <1>3, <2>1
  <2>. DEFINE X == Q \union {K[j] : j \in 1 .. (i - 1)}
              Y == P \union {L[j] : j \in 1 .. i}
              m == L[i + 1]
  <2>4. Ahead(R, m, Y) \in F /\ X \subseteq Y /\ K[i] = m
    BY <1>2, <2>2, <2>3
  <2>. HIDE DEF X, Y, m
  <2>5. Ahead(R, m, X) \in F
    BY <2>4, AheadSubset
  <2>. QED
    BY <2>4, <2>5 DEF X
<1>5. ASSUME NEW i \in 1 .. Len(H)
      PROVE  Ahead(R, H[i], Q \union {K[j] : j \in 1 .. Len(K)}) \in E
  <2>1. Len(K) \in 0 .. Len(K) /\ Len(K) + 1 = Len(L)
    BY <1>1
  <2>2. Ahead(R, H[i], P \union {L[j] : j \in 1 .. Len(L)}) \in E
    BY DEF InOrder
  <2>3. Q \union {K[j] : j \in 1 .. Len(K)} \subseteq P \union {L[j] : j \in 1 .. Len(L)}
    BY <1>3, <2>1
  <2>. QED
    BY <2>2, <2>3, AheadSubset
<1>6. InOrder(R, Q, H, K, E, F)
  BY <1>4, <1>5 DEF InOrder
<1>. QED
  BY <1>6 DEF K

-----------------------------------------------------------------------------
(* Type correctness.                                                       *)

(* Filling a window array keeps its type.                                  *)
LEMMA LaunchType ==
  ASSUME NEW w \in [Slots -> Packets \union {NULL}], NEW S \in SUBSET Packets
  PROVE  Launch(w, S) \in [Slots -> Packets \union {NULL}]
  BY DEF Launch

(* initializePayload and send establish the types of the Sender.           *)
LEMMA SenderInitType == SenderInit => SenderTypeOK
<1>. SUFFICES ASSUME SenderInit PROVE SenderTypeOK
  OBVIOUS
<1>. DEFINE first == Missing(EmptyWindow, 0)
<1>1. first \in SUBSET Packets
  BY PacketKinds DEF Missing
<1>2. EmptyWindow \in [Slots -> Packets \union {NULL}]
  BY DEF EmptyWindow
<1>3. windowState = Launch(EmptyWindow, first) /\ currentWindow = Launch(EmptyWindow, first)
  BY DEF SenderInit
<1>4. thread = [p \in Packets |-> IF p \in first THEN "running" ELSE "idle"]
  BY DEF SenderInit
<1>. HIDE DEF first
<1>5. windowState \in [Slots -> Packets \union {NULL}]
  BY <1>1, <1>2, <1>3, LaunchType
<1>6. currentWindowOrigin \in Packets
  BY PacketCount DEF SenderInit, Packets
<1>7. isAcked \in [Packets -> BOOLEAN] /\ isPayloadSent \in BOOLEAN
  BY DEF SenderInit
<1>8. thread \in [Packets -> ThreadStates]
  BY <1>4 DEF ThreadStates
<1>. QED
  BY <1>3, <1>5, <1>6, <1>7, <1>8 DEF SenderTypeOK

(* startNewPayload establishes the types of the Receiver.                  *)
LEMMA ReceiverInitType == ReceiverInit => ReceiverTypeOK
<1>1. <<>> \in Seq(DataPackets)
  OBVIOUS
<1>2. EmptyWindow \in [Slots -> DataPackets \union {NULL}]
  BY DEF EmptyWindow
<1>3. ASSUME ReceiverInit PROVE ReceiverTypeOK
  <2>1. windowOrigin \in Nat /\ totalPayloadSize \in Nat /\ isPayloadComplete \in BOOLEAN
    BY <1>3 DEF ReceiverInit
  <2>2. /\ receivedWindow \in [Slots -> DataPackets \union {NULL}]
        /\ completedSet \in Seq(DataPackets)
    BY <1>1, <1>2, <1>3 DEF ReceiverInit
  <2>. QED
    BY <2>1, <2>2 DEF ReceiverTypeOK
<1>. QED
  BY <1>3

(* The transfer starts with an empty network.                              *)
LEMMA InitType == Init => TypeOK
<1>. SUFFICES ASSUME Init PROVE TypeOK
  OBVIOUS
<1>1. EndsTypeOK
  BY SenderInitType, ReceiverInitType DEF Init, EndsTypeOK
<1>2. /\ dataHeld = <<>> /\ dataLeaving = <<>>
      /\ ackHeld = <<>> /\ ackLeaving = <<>>
  BY DEF Init, Data!Init, Acks!Init
<1>3. Len(<<>>) = 0 /\ <<>> \in Seq(Packets) /\ <<>> \in Seq(Slots)
  OBVIOUS
<1>. QED
  BY <1>1, <1>2, <1>3, RoutedAssumption DEF TypeOK

(* A message and the held one behind it.                                   *)
LEMMA PassType ==
  ASSUME NEW M, NEW H \in Seq(M), NEW L \in Seq(M), NEW m \in M
  PROVE  L \o <<m>> \o H \in Seq(M) /\ L \o H \in Seq(M)
  OBVIOUS

(* What a sendto does to the types of its direction.                       *)
LEMMA TransmitType ==
  ASSUME TypeOK, NEW p \in Packets, Transmit(p)
  PROVE  /\ dataHeld' \in Seq(Packets) /\ Len(dataHeld') <= 1
         /\ dataLeaving' \in Seq(Packets) /\ Len(dataLeaving') <= MaxInFlight
<1>1. Len(<<>>) = 0 /\ <<>> \in Seq(Packets) /\ Len(<<p>>) = 1 /\ <<p>> \in Seq(Packets)
  OBVIOUS
<1>2. CASE Data!Lose
  BY <1>2 DEF Data!Lose, Data!dcVars, TypeOK
<1>3. CASE Data!Hold(p)
  BY <1>1, <1>3 DEF Data!Hold, TypeOK
<1>4. CASE Data!Pass(p) /\ Len(dataLeaving') <= MaxInFlight
  BY <1>1, <1>4, PassType DEF Data!Pass, TypeOK
<1>. QED
  BY <1>2, <1>3, <1>4 DEF Transmit

(* The same for the ACKs.                                                  *)
LEMMA AcknowledgeType ==
  ASSUME TypeOK, NEW s \in Slots, Acknowledge(s)
  PROVE  /\ ackHeld' \in Seq(Slots) /\ Len(ackHeld') <= 1
         /\ ackLeaving' \in Seq(Slots) /\ Len(ackLeaving') <= MaxInFlight
<1>1. Len(<<>>) = 0 /\ <<>> \in Seq(Slots) /\ Len(<<s>>) = 1 /\ <<s>> \in Seq(Slots)
  OBVIOUS
<1>2. CASE Acks!Lose
  BY <1>2 DEF Acks!Lose, Acks!dcVars, TypeOK
<1>3. CASE Acks!Hold(s)
  BY <1>1, <1>3 DEF Acks!Hold, TypeOK
<1>4. CASE Acks!Pass(s) /\ Len(ackLeaving') <= MaxInFlight
  BY <1>1, <1>4, PassType DEF Acks!Pass, TypeOK
<1>. QED
  BY <1>2, <1>3, <1>4 DEF Acknowledge

(* The first message of a direction and the others.                        *)
LEMMA TailType ==
  ASSUME NEW M, NEW L \in Seq(M), L # <<>>
  PROVE  Head(L) \in M /\ Tail(L) \in Seq(M) /\ Len(Tail(L)) = Len(L) - 1 /\ Len(L) \in Nat
  OBVIOUS

(* processAck keeps the types of the Sender, whatever the number it gets.  *)
LEMMA ProcessAckType ==
  ASSUME SenderTypeOK, NEW s \in Slots, ProcessAck(s)
  PROVE  SenderTypeOK'
<1>1. isAcked' \in [Packets -> BOOLEAN]
  BY DEF ProcessAck, ProcessDataAck, ProcessEofAck, RaiseFlag
<1>2. ClearedSlot(s) \in [Slots -> Packets \union {NULL}]
  BY DEF ClearedSlot, SenderTypeOK
<1>3. CASE ProcessEofAck(s)
  BY <1>1, <1>2, <1>3 DEF ProcessEofAck, SenderTypeOK
<1>4. CASE ProcessDataAck(s)
  <2>. DEFINE new(o) == IF o = numberOfPackets THEN {Eof} ELSE Missing(Passed(o), o)
  <2>1. PICK origin \in Packets :
          /\ currentWindowOrigin' = origin
          /\ windowState' = Launch(Passed(origin), new(origin))
          /\ currentWindow' = Launch(ClearedSlot(s), new(origin))
          /\ thread' = Started(new(origin))
    BY <1>4 DEF ProcessDataAck
  <2>2. new(origin) \in SUBSET Packets
    BY PacketCount DEF Missing, DataPackets, Packets, Eof
  <2>. HIDE DEF new
  <2>3. Passed(origin) \in [Slots -> Packets \union {NULL}]
    BY DEF Passed, SenderTypeOK
  <2>4. isPayloadSent' = isPayloadSent
    BY <1>4 DEF ProcessDataAck
  <2>. QED
    BY <1>1, <1>2, <2>1, <2>2, <2>3, <2>4, LaunchType DEF Started, ThreadStates, SenderTypeOK
<1>. QED
  BY <1>3, <1>4 DEF ProcessAck

(* handleMsg keeps the types of the Receiver, whatever the packet.         *)
LEMMA RegisterPacketType ==
  ASSUME ReceiverTypeOK, NEW p \in DataPackets, RegisterPacket(p)
  PROVE  ReceiverTypeOK'
<1>. DEFINE w == [receivedWindow EXCEPT ![Slot(p)] = p]
<1>1. w \in [Slots -> DataPackets \union {NULL}]
  BY DEF ReceiverTypeOK
<1>2. PICK origin \in windowOrigin .. (windowOrigin + SEQUENCE_RANGE) :
        /\ FirstGap(w, origin)
        /\ windowOrigin' = origin
        /\ completedSet' = completedSet \o
             [i \in 1 .. (origin - windowOrigin) |-> w[Slot(windowOrigin + i - 1)]]
        /\ receivedWindow' =
             [s \in Slots |-> IF \E q \in windowOrigin .. (origin - 1) : Slot(q) = s
                              THEN NULL ELSE w[s]]
  BY DEF RegisterPacket
<1>. HIDE DEF w
<1>3. windowOrigin \in Nat /\ origin \in Nat /\ origin >= windowOrigin
  BY <1>2, CommonAssumption DEF ReceiverTypeOK
<1>4. receivedWindow' \in [Slots -> DataPackets \union {NULL}]
  BY <1>1, <1>2
<1>5. ASSUME NEW i \in 1 .. (origin - windowOrigin)
      PROVE  w[Slot(windowOrigin + i - 1)] \in DataPackets
  <2>1. windowOrigin + i - 1 \in windowOrigin .. (origin - 1) /\ windowOrigin + i - 1 \in Nat
    BY <1>3
  <2>2. Slot(windowOrigin + i - 1) \in Slots
    BY <2>1, SlotType
  <2>. QED
    BY <1>1, <1>2, <2>1, <2>2 DEF FirstGap
<1>6. completedSet' \in Seq(DataPackets)
  <2>. DEFINE t == [i \in 1 .. (origin - windowOrigin) |-> w[Slot(windowOrigin + i - 1)]]
  <2>1. t \in Seq(DataPackets)
    BY <1>3, <1>5
  <2>. QED
    BY <1>2, <2>1 DEF ReceiverTypeOK
<1>7. totalPayloadSize' \in Nat
  BY LengthType DEF RegisterPacket, ReceiverTypeOK
<1>. QED
  BY <1>2, <1>3, <1>4, <1>6, <1>7 DEF RegisterPacket, ReceiverTypeOK

(* handleMsg keeps the types of the Receiver.                              *)
LEMMA HandleMsgType ==
  ASSUME ReceiverTypeOK, NEW p \in Packets,
         ReceiveData(p) \/ ReceiveEof(p) \/ ReAcknowledge(p)
  PROVE  ReceiverTypeOK'
<1>1. ASSUME UNCHANGED receiverVars PROVE ReceiverTypeOK'
  BY <1>1 DEF ReceiverTypeOK, receiverVars
<1>2. ASSUME RegisterPacket(p), p # Eof PROVE ReceiverTypeOK'
  <2>1. p \in DataPackets
    BY <1>2, PacketKinds
  <2>. QED
    BY <1>2, <2>1, RegisterPacketType
<1>3. ASSUME AcceptEof PROVE ReceiverTypeOK'
  BY <1>3 DEF AcceptEof, ReceiverTypeOK
<1>. QED
  BY <1>1, <1>2, <1>3
     DEF ReceiveData, HandleData, DiscardPacket, ReceiveEof, IgnoreEof, ReAcknowledge

(* What the receiver does with a message keeps the types.                  *)
LEMMA ReceiveMessageType ==
  ASSUME TypeOK, ReceiveMessage
  PROVE  TypeOK'
<1>. DEFINE p == Head(dataLeaving)
<1>1. /\ dataLeaving # <<>> /\ dataLeaving' = Tail(dataLeaving)
      /\ UNCHANGED <<senderVars, dataHeld>>
      /\ ReceiveData(p) \/ ReceiveEof(p) \/ ReAcknowledge(p)
  BY DEF ReceiveMessage
<1>2. /\ p \in Packets /\ dataLeaving' \in Seq(Packets)
      /\ Len(dataLeaving') = Len(dataLeaving) - 1 /\ Len(dataLeaving) \in Nat
  BY <1>1, TailType DEF TypeOK
<1>. HIDE DEF p
<1>3. Slot(p) \in Slots /\ Slot(Eof) \in Slots
  BY <1>2, SlotType, PacketKinds
<1>4. Len(dataLeaving') <= MaxInFlight
  BY <1>2, RoutedAssumption DEF TypeOK
<1>5. EndsTypeOK'
  <2>1. SenderTypeOK'
    BY <1>1 DEF TypeOK, EndsTypeOK, SenderTypeOK, senderVars
  <2>2. ReceiverTypeOK'
    BY <1>1, <1>2, HandleMsgType DEF TypeOK, EndsTypeOK
  <2>. QED
    BY <2>1, <2>2 DEF EndsTypeOK
<1>6. /\ ackHeld' \in Seq(Slots) /\ Len(ackHeld') <= 1
      /\ ackLeaving' \in Seq(Slots) /\ Len(ackLeaving') <= MaxInFlight
  <2>1. CASE UNCHANGED ackNetwork
    BY <2>1 DEF ackNetwork, TypeOK
  <2>2. CASE Acknowledge(Slot(p)) \/ Acknowledge(Slot(Eof))
    BY <1>3, <2>2, AcknowledgeType
  <2>. QED
    BY <1>1, <2>1, <2>2 DEF ReceiveData, ReceiveEof, ReAcknowledge
<1>. QED
  BY <1>1, <1>2, <1>4, <1>5, <1>6 DEF TypeOK, senderVars

(* Who leaves both ends alone, but for a SenderThread, keeps their types.  *)
LEMMA SameEndsType ==
  /\ EndsTypeOK /\ UNCHANGED <<senderVars, receiverVars>> => EndsTypeOK'
  /\ \A p \in Packets :
       SenderTypeOK /\ (ThreadExit(p) \/ ThreadCommit(p) \/ ThreadSend(p)) => SenderTypeOK'
  BY DEF EndsTypeOK, SenderTypeOK, ReceiverTypeOK, senderVars, receiverVars,
         ThreadExit, ThreadCommit, ThreadSend, Transition, ThreadStates

(* Every step keeps the types.                                             *)
LEMMA NextType == TypeOK /\ [Next]_vars => TypeOK'
<1>. SUFFICES ASSUME TypeOK, [Next]_vars PROVE TypeOK'
  OBVIOUS
<1>1. ASSUME ReceiveAck PROVE TypeOK'
  <2>1. /\ ackLeaving # <<>> /\ ProcessAck(Head(ackLeaving))
        /\ ackLeaving' = Tail(ackLeaving)
        /\ UNCHANGED <<receiverVars, dataNetwork, ackHeld>>
    BY <1>1 DEF ReceiveAck
  <2>2. /\ Head(ackLeaving) \in Slots /\ ackLeaving' \in Seq(Slots)
        /\ Len(ackLeaving') = Len(ackLeaving) - 1 /\ Len(ackLeaving) \in Nat
    BY <2>1, TailType DEF TypeOK
  <2>3. Len(ackLeaving') <= MaxInFlight
    BY <2>2, RoutedAssumption DEF TypeOK
  <2>4. SenderTypeOK'
    BY <2>1, <2>2, ProcessAckType DEF TypeOK, EndsTypeOK
  <2>5. ReceiverTypeOK'
    BY <2>1 DEF TypeOK, EndsTypeOK, ReceiverTypeOK, receiverVars
  <2>. QED
    BY <2>1, <2>2, <2>3, <2>4, <2>5 DEF TypeOK, EndsTypeOK, dataNetwork
<1>2. ASSUME NEW p \in Packets, ExitThread(p) \/ CommitThread(p) PROVE TypeOK'
  <2>1. /\ ThreadExit(p) \/ ThreadCommit(p)
        /\ UNCHANGED <<receiverVars, dataNetwork, ackNetwork>>
    BY <1>2 DEF ExitThread, CommitThread
  <2>2. SenderTypeOK'
    BY <2>1, SameEndsType DEF TypeOK, EndsTypeOK
  <2>3. ReceiverTypeOK'
    BY <2>1 DEF TypeOK, EndsTypeOK, ReceiverTypeOK, receiverVars
  <2>. QED
    BY <2>1, <2>2, <2>3 DEF TypeOK, EndsTypeOK, dataNetwork, ackNetwork
<1>3. ASSUME NEW p \in Packets, SendPacket(p) PROVE TypeOK'
  <2>1. ThreadSend(p) /\ Transmit(p) /\ UNCHANGED <<receiverVars, ackNetwork>>
    BY <1>3 DEF SendPacket
  <2>2. SenderTypeOK'
    BY <2>1, SameEndsType DEF TypeOK, EndsTypeOK
  <2>3. ReceiverTypeOK'
    BY <2>1 DEF TypeOK, EndsTypeOK, ReceiverTypeOK, receiverVars
  <2>. QED
    BY <2>1, <2>2, <2>3, TransmitType DEF TypeOK, EndsTypeOK, ackNetwork
<1>4. ASSUME ReceiveMessage PROVE TypeOK'
  BY <1>4, ReceiveMessageType
<1>5. Len(<<>>) = 0 /\ <<>> \in Seq(Packets) /\ <<>> \in Seq(Slots)
  OBVIOUS
<1>6. ASSUME ReleaseData PROVE TypeOK'
  <2>1. /\ dataHeld' = <<>> /\ dataLeaving' = dataLeaving \o dataHeld
        /\ Len(dataLeaving') <= MaxInFlight
        /\ UNCHANGED <<senderVars, receiverVars, ackNetwork>>
    BY <1>6 DEF ReleaseData, Data!Release
  <2>2. dataLeaving' \in Seq(Packets)
    BY <2>1 DEF TypeOK
  <2>. QED
    BY <1>5, <2>1, <2>2, SameEndsType DEF TypeOK, ackNetwork
<1>7. ASSUME ReleaseAck PROVE TypeOK'
  <2>1. /\ ackHeld' = <<>> /\ ackLeaving' = ackLeaving \o ackHeld
        /\ Len(ackLeaving') <= MaxInFlight
        /\ UNCHANGED <<senderVars, receiverVars, dataNetwork>>
    BY <1>7 DEF ReleaseAck, Acks!Release
  <2>2. ackLeaving' \in Seq(Slots)
    BY <2>1 DEF TypeOK
  <2>. QED
    BY <1>5, <2>1, <2>2, SameEndsType DEF TypeOK, dataNetwork
<1>8. CASE UNCHANGED vars
  BY <1>8, SameEndsType DEF TypeOK, vars, dataNetwork, ackNetwork
<1>. QED
  BY <1>1, <1>2, <1>3, <1>4, <1>6, <1>7, <1>8 DEF Next

(* Every variable keeps its type, for every window, sequence range,        *)
(* payload and seed, and however many messages the network holds.          *)
THEOREM RoutedTypeCorrect == Spec => []TypeOK
  BY InitType, NextType, PTL DEF Spec

-----------------------------------------------------------------------------
(* The Sender.                                                             *)

(* Constants and variables that count packets.                             *)
LEMMA RangeFacts ==
  ASSUME RangeSuffices
  PROVE  /\ WINDOW_SIZE \in Nat /\ WINDOW_SIZE > 0 /\ SEQUENCE_RANGE \in Nat
         /\ Slack \in Nat
         /\ SEQUENCE_RANGE = 2 * WINDOW_SIZE + Slack + (IF Delays THEN 2 ELSE 0)
         /\ WINDOW_SIZE < SEQUENCE_RANGE
  BY CommonAssumption DEF RangeSuffices, Slack

(* The origins of both windows are natural numbers.                        *)
LEMMA OriginType ==
  ASSUME EndsTypeOK
  PROVE  /\ currentWindowOrigin \in Nat /\ currentWindowOrigin <= numberOfPackets
         /\ numberOfPackets \in Nat /\ windowOrigin \in Nat
  BY PacketCount, PacketKinds DEF EndsTypeOK, SenderTypeOK, ReceiverTypeOK

(* A launched packet is not beyond the window, a pending one is in it.     *)
LEMMA LaunchedRange ==
  ASSUME EndsTypeOK, NEW p \in Packets, Launched(p)
  PROVE  p < currentWindowOrigin + WINDOW_SIZE
  BY OriginType, PacketKinds, CommonAssumption DEF Launched, Eof

(* Packets of one window have distinct sequence numbers.                   *)
LEMMA WindowSlots ==
  ASSUME NEW o \in Nat, NEW p \in Nat, NEW q \in Nat, Slot(p) = Slot(q),
         o <= p, p < o + WINDOW_SIZE, o <= q, q < o + WINDOW_SIZE
  PROVE  p = q
<1>1. /\ WINDOW_SIZE \in Nat /\ SEQUENCE_RANGE \in Nat /\ WINDOW_SIZE < SEQUENCE_RANGE
  BY CommonAssumption
<1>2. p < q + SEQUENCE_RANGE /\ q < p + SEQUENCE_RANGE
  BY <1>1
<1>. QED
  BY <1>2, SlotInjective

(* A slot that is not empty is the slot of the packet it points to.        *)
LEMMA PointedTo ==
  ASSUME EndsTypeOK, SenderInv, NEW s \in Slots, windowState[s] # NULL
  PROVE  /\ windowState[s] \in Packets /\ windowState[s] \in Nat
         /\ Pending(windowState[s]) /\ Slot(windowState[s]) = s
         /\ currentWindowOrigin <= windowState[s]
         /\ windowState[s] < currentWindowOrigin + WINDOW_SIZE
<1>1. windowState[s] \in Packets /\ Pending(windowState[s]) /\ Slot(windowState[s]) = s
  BY DEF EndsTypeOK, SenderTypeOK, ReceiverTypeOK, SenderInv
<1>. QED
  BY <1>1, LaunchedRange, PacketKinds DEF Pending

(* What of the windows an acknowledgement finds at its index: the flag of  *)
(* the packet it is for, or that packet was acknowledged before.           *)
LEMMA AckedSlot ==
  ASSUME RangeSuffices, EndsTypeOK, SenderInv, NEW a \in Packets, Launched(a),
         currentWindowOrigin <= a + WINDOW_SIZE + Slack + (IF Delays THEN 2 ELSE 0)
  PROVE  /\ windowState[Slot(a)] = IF Pending(a) THEN a ELSE NULL
         /\ ~Pending(a) => isAcked[a]
<1>1. a \in Nat /\ Slot(a) \in Slots
  BY PacketKinds, SlotType
<1>2. CASE Pending(a)
  BY <1>2 DEF SenderInv
<1>3. CASE ~Pending(a)
  <2>1. a < currentWindowOrigin
    BY <1>1, <1>3, OriginType DEF Pending
  <2>2. isAcked[a]
    <3>1. a \in DataPackets
      BY <1>1, <2>1, OriginType DEF DataPackets
    <3>. QED
      BY <2>1, <3>1 DEF SenderInv
  <2>3. ASSUME windowState[Slot(a)] # NULL PROVE FALSE
    <3>. DEFINE q == windowState[Slot(a)]
    <3>1. /\ q \in Nat /\ Slot(q) = Slot(a)
          /\ currentWindowOrigin <= q /\ q < currentWindowOrigin + WINDOW_SIZE
      BY <1>1, <2>3, PointedTo
    <3>. HIDE DEF q
    <3>2. a < q /\ q < a + SEQUENCE_RANGE
      BY <1>1, <2>1, <3>1, OriginType, RangeFacts
    <3>3. a < q + SEQUENCE_RANGE
      BY <1>1, <3>1, <3>2, RangeFacts
    <3>4. q = a
      BY <1>1, <3>1, <3>2, <3>3, SlotInjective
    <3>. QED
      BY <1>1, <3>1, <3>2, <3>4
  <2>. QED
    BY <1>3, <2>2, <2>3
<1>. QED
  BY <1>2, <1>3

(* processAck raises the flag of the packet the acknowledgement is for.    *)
LEMMA RaisedFlag ==
  ASSUME EndsTypeOK, NEW a \in Packets,
         windowState[Slot(a)] = IF Pending(a) THEN a ELSE NULL,
         ~Pending(a) => isAcked[a], RaiseFlag(Slot(a))
  PROVE  \A p \in Packets : isAcked'[p] <=> isAcked[p] \/ p = a
<1>1. \A p \in Packets : isAcked'[p] <=> isAcked[p] \/ windowState[Slot(a)] = p
  BY DEF RaiseFlag, EndsTypeOK, SenderTypeOK
<1>2. \A p \in Packets : p # NULL
  BY PacketKinds
<1>. QED
  BY <1>1, <1>2

(* Filling a window array touches the slots of the filled packets only.    *)
LEMMA LaunchValue ==
  ASSUME NEW w, NEW S \in SUBSET Packets, NEW s \in Slots
  PROVE  \/ /\ \A p \in S : Slot(p) # s
            /\ Launch(w, S)[s] = w[s]
         \/ /\ Launch(w, S)[s] \in S
            /\ Slot(Launch(w, S)[s]) = s
<1>1. CASE \E p \in S : Slot(p) = s
  <2>. DEFINE c == CHOOSE p \in S : Slot(p) = s
  <2>1. c \in S /\ Slot(c) = s
    BY <1>1
  <2>2. Launch(w, S)[s] = c
    BY <1>1 DEF Launch
  <2>. QED
    BY <2>1, <2>2
<1>2. CASE ~ \E p \in S : Slot(p) = s
  BY <1>2 DEF Launch
<1>. QED
  BY <1>1, <1>2

(* Two arrays filled with the same packets agree where they were filled.   *)
LEMMA LaunchSame ==
  ASSUME NEW w, NEW v, NEW S \in SUBSET Packets, NEW s \in Slots,
         NEW p \in S, Slot(p) = s
  PROVE  Launch(w, S)[s] = Launch(v, S)[s]
  BY DEF Launch

(* Sliding the window clears the slots of the packets slid over only.      *)
LEMMA PassedValue ==
  ASSUME EndsTypeOK, SenderInv, NEW origin \in Packets, NEW s \in Slots,
         origin <= currentWindowOrigin + WINDOW_SIZE
  PROVE  Passed(origin)[s] =
           IF windowState[s] # NULL /\ windowState[s] < origin THEN NULL ELSE windowState[s]
<1>1. Passed(origin)[s] = IF \E q \in currentWindowOrigin .. (origin - 1) : Slot(q) = s
                          THEN NULL ELSE windowState[s]
  BY DEF Passed
<1>2. CASE windowState[s] = NULL
  BY <1>1, <1>2
<1>3. CASE windowState[s] # NULL
  <2>. DEFINE r == windowState[s]
  <2>1. /\ r \in Nat /\ Slot(r) = s /\ currentWindowOrigin <= r
        /\ r < currentWindowOrigin + WINDOW_SIZE
    BY <1>3, PointedTo
  <2>. HIDE DEF r
  <2>2. origin \in Nat /\ currentWindowOrigin \in Nat /\ WINDOW_SIZE \in Nat
    BY OriginType, PacketKinds, CommonAssumption
  <2>3. CASE r < origin
    <3>1. r \in currentWindowOrigin .. (origin - 1)
      BY <2>1, <2>2, <2>3
    <3>. QED
      BY <1>1, <1>3, <2>1, <2>3, <3>1 DEF r
  <2>4. CASE ~(r < origin)
    <3>1. ASSUME NEW q \in currentWindowOrigin .. (origin - 1), Slot(q) = s PROVE FALSE
      <4>1. q \in Nat /\ currentWindowOrigin <= q /\ q < origin
        BY <2>2
      <4>2. q < currentWindowOrigin + WINDOW_SIZE
        BY <2>2, <4>1
      <4>3. q = r
        BY <2>1, <2>2, <3>1, <4>1, <4>2, WindowSlots
      <4>. QED
        BY <2>1, <2>2, <2>4, <4>1, <4>3
    <3>. QED
      BY <1>1, <2>4, <3>1 DEF r
  <2>. QED
    BY <2>3, <2>4
<1>. QED
  BY <1>2, <1>3

(* processAck while data is outstanding: the packets slid over are all     *)
(* acknowledged, and exactly the packets entering the window are started.  *)
LEMMA SlideSenderInv ==
  ASSUME RangeSuffices, EndsTypeOK, SenderInv, NEW a \in Packets, ProcessDataAck(Slot(a)),
         windowState[Slot(a)] = IF Pending(a) THEN a ELSE NULL,
         \A p \in Packets : isAcked'[p] <=> isAcked[p] \/ p = a,
         Launched(a), \A p \in Packets : isAcked[p] => Launched(p)
  PROVE  SenderInv' /\ \A p \in Packets : Launched(p) => Launched(p)'
<1>. DEFINE new(o) == IF o = numberOfPackets THEN {Eof} ELSE Missing(Passed(o), o)
<1>1. PICK origin \in Packets :
        /\ IsNextOrigin(ClearedSlot(Slot(a)), origin)
        /\ currentWindowOrigin' = origin
        /\ windowState' = Launch(Passed(origin), new(origin))
        /\ currentWindow' = Launch(ClearedSlot(Slot(a)), new(origin))
        /\ thread' = Started(new(origin))
  BY DEF ProcessDataAck
<1>2. currentWindowOrigin # numberOfPackets
  BY DEF ProcessDataAck
<1>3. /\ currentWindowOrigin \in Nat /\ origin \in Nat /\ numberOfPackets \in Nat
      /\ WINDOW_SIZE \in Nat /\ WINDOW_SIZE > 0
      /\ currentWindowOrigin < numberOfPackets /\ origin <= numberOfPackets
      /\ currentWindowOrigin <= origin /\ origin <= currentWindowOrigin + WINDOW_SIZE
  BY <1>1, <1>2, OriginType, PacketKinds, RangeFacts DEF IsNextOrigin
<1>4. Slot(a) \in Slots /\ \A p \in Packets : Slot(p) \in Slots
  BY SlotType, PacketKinds
<1>5. \A s \in Slots : ClearedSlot(Slot(a))[s] = IF s = Slot(a) THEN NULL ELSE currentWindow[s]
  BY DEF ClearedSlot, EndsTypeOK, SenderTypeOK
<1>6. \A s \in Slots :
        currentWindow[s] = IF windowState[s] # NULL /\ ~isAcked[windowState[s]]
                           THEN windowState[s] ELSE NULL
  BY DEF SenderInv
<1>7. \A s \in Slots :
        Passed(origin)[s] =
          IF windowState[s] # NULL /\ windowState[s] < origin THEN NULL ELSE windowState[s]
  BY <1>3, PassedValue
<1>8. ASSUME NEW p \in Packets, Pending(p), p < origin PROVE isAcked'[p]
  <2>1. windowState[Slot(p)] = p /\ p # NULL /\ p \in Nat
    BY <1>8, PacketKinds DEF SenderInv
  <2>2. p \in currentWindowOrigin .. (origin - 1)
    BY <1>3, <1>8, <2>1 DEF Pending
  <2>3. ClearedSlot(Slot(a))[Slot(p)] = NULL
    BY <1>1, <2>2 DEF IsNextOrigin
  <2>4. CASE Slot(p) = Slot(a)
    BY <2>1, <2>4
  <2>5. CASE Slot(p) # Slot(a)
    BY <1>4, <1>5, <1>6, <2>1, <2>3, <2>5
  <2>. QED
    BY <2>4, <2>5
<1>9. ASSUME NEW p \in DataPackets, p < origin PROVE isAcked'[p]
  <2>1. p \in Packets /\ p \in Nat /\ p # Eof
    BY PacketKinds
  <2>2. CASE p < currentWindowOrigin
    BY <2>1, <2>2 DEF SenderInv
  <2>3. CASE ~(p < currentWindowOrigin)
    <3>1. Pending(p)
      BY <1>3, <1>9, <2>1, <2>3 DEF Pending, Launched
    <3>. QED
      BY <1>8, <1>9, <2>1, <3>1
  <2>. QED
    BY <2>2, <2>3
<1>10. ASSUME NEW p \in Packets
       PROVE  p \in new(origin) <=> Launched(p)' /\ ~Launched(p)
  <2>1. CASE p = Eof
    BY <1>1, <1>2, <1>3, <2>1, PacketKinds DEF Launched, Missing, Eof
  <2>2. CASE p # Eof /\ origin = numberOfPackets
    <3>1. p \in Nat /\ p < numberOfPackets
      BY <2>2, PacketKinds
    <3>. QED
      BY <1>1, <1>3, <2>2, <3>1 DEF Launched
  <2>3. CASE p # Eof /\ origin # numberOfPackets
    <3>1. p \in DataPackets /\ p \in Nat /\ p # NULL /\ Slot(p) \in Slots
      BY <1>4, <2>3, PacketKinds
    <3>2. p \in new(origin) <=> /\ origin <= p
                                /\ p < origin + WINDOW_SIZE
                                /\ Passed(origin)[Slot(p)] = NULL
      BY <2>3, <3>1 DEF Missing
    <3>3. Launched(p)' <=> p < origin + WINDOW_SIZE
      BY <1>1, <2>3 DEF Launched
    <3>4. Launched(p) <=> p < currentWindowOrigin + WINDOW_SIZE
      BY <2>3 DEF Launched
    <3>. HIDE DEF new
    <3>5. ASSUME p \in new(origin) PROVE ~Launched(p)
      <4>1. SUFFICES ASSUME Launched(p) PROVE FALSE
        OBVIOUS
      <4>2. windowState[Slot(p)] = p
        BY <1>3, <3>1, <3>2, <3>5, <4>1 DEF SenderInv, Pending
      <4>. QED
        BY <1>3, <1>7, <3>1, <3>2, <3>5, <4>2
    <3>6. ASSUME Launched(p)', ~Launched(p) PROVE p \in new(origin)
      <4>1. origin <= p /\ p < origin + WINDOW_SIZE
        BY <1>3, <3>1, <3>3, <3>4, <3>6
      <4>2. SUFFICES ASSUME Passed(origin)[Slot(p)] # NULL PROVE FALSE
        BY <3>2, <4>1
      <4>. DEFINE r == windowState[Slot(p)]
      <4>3. r # NULL /\ ~(r < origin)
        BY <1>7, <3>1, <4>2
      <4>4. r \in Nat /\ Slot(r) = Slot(p) /\ r < currentWindowOrigin + WINDOW_SIZE
        BY <3>1, <4>3, PointedTo
      <4>. HIDE DEF r
      <4>5. r < origin + WINDOW_SIZE /\ origin <= r
        BY <1>3, <4>3, <4>4
      <4>6. r = p
        BY <1>3, <3>1, <4>1, <4>4, <4>5, WindowSlots
      <4>. QED
        BY <3>4, <3>6, <4>4, <4>6
    <3>. QED
      BY <3>2, <3>3, <3>5, <3>6
  <2>. QED
    BY <2>1, <2>2, <2>3
<1>11. ASSUME NEW p \in Packets, Launched(p) PROVE Launched(p)'
  <2>1. CASE p = Eof
    BY <1>2, <1>11, <2>1 DEF Launched
  <2>2. CASE p # Eof
    <3>1. p \in Nat
      BY PacketKinds
    <3>. QED
      BY <1>1, <1>3, <1>11, <2>2, <3>1 DEF Launched
  <2>. QED
    BY <2>1, <2>2
<1>12. new(origin) \in SUBSET Packets
  BY PacketKinds DEF Missing
<1>. HIDE DEF new
<1>13. ASSUME NEW p \in Packets, p \in new(origin)
       PROVE  Pending(p)' /\ ~isAcked'[p] /\ ~Launched(p)
  <2>1. Launched(p)' /\ ~Launched(p)
    BY <1>10, <1>13
  <2>2. ~isAcked'[p]
    BY <2>1
  <2>3. origin <= p
    <3>1. CASE p = Eof
      BY <1>3, <3>1 DEF Eof
    <3>2. CASE p # Eof
      <4>1. p \in Nat
        BY PacketKinds
      <4>. QED
        BY <1>3, <2>1, <3>2, <4>1 DEF Launched
    <3>. QED
      BY <3>1, <3>2
  <2>. QED
    BY <1>1, <2>1, <2>2, <2>3 DEF Pending
<1>14. ASSUME NEW p \in Packets, p \notin new(origin)
       PROVE  Pending(p)' <=> Pending(p) /\ ~(p < origin)
  <2>1. Launched(p)' <=> Launched(p)
    BY <1>10, <1>11, <1>14
  <2>2. p \in Nat
    BY PacketKinds
  <2>. QED
    BY <1>1, <1>3, <2>1, <2>2 DEF Pending
<1>15. ASSUME NEW p \in Packets, Pending(p)'
       PROVE  p \in Nat /\ origin <= p /\ p < origin + WINDOW_SIZE
  BY <1>1, <1>3, <1>15, PacketKinds DEF Pending, Launched, Eof
<1>16. ASSUME NEW s \in Slots, \A p \in new(origin) : Slot(p) # s
       PROVE  windowState'[s] = Passed(origin)[s]
              /\ currentWindow'[s] = ClearedSlot(Slot(a))[s]
  BY <1>1, <1>12, <1>16, LaunchValue
<1>17. ASSUME NEW s \in Slots, NEW p \in new(origin), Slot(p) = s
       PROVE  windowState'[s] = p /\ currentWindow'[s] = p
  <2>1. windowState'[s] \in new(origin) /\ Slot(windowState'[s]) = s
    BY <1>1, <1>12, <1>17, LaunchValue
  <2>2. currentWindow'[s] = windowState'[s]
    BY <1>1, <1>12, <1>17, LaunchSame
  <2>3. windowState'[s] = p
    <3>. PICK q \in new(origin) : q = windowState'[s]
      BY <2>1
    <3>1. q \in Packets /\ Pending(q)' /\ p \in Packets /\ Pending(p)'
      BY <1>12, <1>13
    <3>2. /\ p \in Nat /\ origin <= p /\ p < origin + WINDOW_SIZE
          /\ q \in Nat /\ origin <= q /\ q < origin + WINDOW_SIZE
      BY <1>15, <3>1
    <3>3. Slot(q) = Slot(p)
      BY <1>17, <2>1
    <3>4. q = p
      BY <1>3, <3>2, <3>3, WindowSlots
    <3>. QED
      BY <3>4
  <2>. QED
    BY <2>2, <2>3
<1>18. ASSUME NEW p \in Packets, thread'[p] # "idle" PROVE Launched(p)'
  BY <1>1, <1>10, <1>11, <1>18 DEF Started, SenderInv
<1>19. ASSUME NEW p \in Packets, Pending(p)' PROVE windowState'[Slot(p)] = p
  <2>1. CASE p \in new(origin)
    BY <1>4, <1>17, <2>1
  <2>2. CASE p \notin new(origin)
    <3>1. Pending(p) /\ ~(p < origin) /\ windowState[Slot(p)] = p
      BY <1>14, <1>19, <2>2 DEF SenderInv
    <3>2. ASSUME NEW q \in new(origin), Slot(q) = Slot(p) PROVE FALSE
      <4>1. /\ q \in Nat /\ origin <= q /\ q < origin + WINDOW_SIZE
            /\ p \in Nat /\ origin <= p /\ p < origin + WINDOW_SIZE
        BY <1>12, <1>13, <1>15, <1>19
      <4>2. q = p
        BY <1>3, <3>2, <4>1, WindowSlots
      <4>. QED
        BY <2>2, <4>2
    <3>3. windowState'[Slot(p)] = Passed(origin)[Slot(p)]
      BY <1>4, <1>16, <3>2
    <3>. QED
      BY <1>4, <1>7, <3>1, <3>3
  <2>. QED
    BY <2>1, <2>2
<1>20. ASSUME NEW s \in Slots
       PROVE  /\ windowState'[s] = NULL \/ \E r \in Packets :
                   windowState'[s] = r /\ Pending(r)' /\ Slot(r) = s
              /\ currentWindow'[s] = IF windowState'[s] # NULL /\ ~isAcked'[windowState'[s]]
                                     THEN windowState'[s] ELSE NULL
  <2>1. CASE \E p \in new(origin) : Slot(p) = s
    <3>1. PICK p \in new(origin) : Slot(p) = s
      BY <2>1
    <3>2. windowState'[s] = p /\ currentWindow'[s] = p
      BY <1>17, <3>1
    <3>3. p \in Packets /\ Pending(p)' /\ ~isAcked'[p] /\ p # NULL
      BY <1>12, <1>13, PacketKinds
    <3>. QED
      BY <3>1, <3>2, <3>3
  <2>2. CASE \A p \in new(origin) : Slot(p) # s
    <3>1. windowState'[s] = Passed(origin)[s] /\ currentWindow'[s] = ClearedSlot(Slot(a))[s]
      BY <1>16, <2>2
    <3>2. CASE windowState[s] = NULL
      BY <1>5, <1>6, <1>7, <3>1, <3>2
    <3>3. CASE windowState[s] # NULL
      <4>. PICK r \in Packets : r = windowState[s]
        BY <3>3, PointedTo
      <4>1. r \in Packets /\ Pending(r) /\ Slot(r) = s
        BY <3>3, PointedTo
      <4>2. isAcked'[r] <=> isAcked[r] \/ r = a
        BY <4>1
      <4>3. s = Slot(a) => r = a
        BY <3>3
      <4>4. CASE r < origin
        <5>1. isAcked'[r]
          BY <1>8, <4>1, <4>4
        <5>2. Passed(origin)[s] = NULL
          BY <1>7, <3>3, <4>4
        <5>3. ClearedSlot(Slot(a))[s] = NULL
          BY <1>5, <1>6, <4>1, <4>2, <5>1
        <5>. QED
          BY <3>1, <5>2, <5>3
      <4>5. CASE ~(r < origin)
        <5>1. Passed(origin)[s] = r
          BY <1>7, <4>5
        <5>2. r \notin new(origin)
          BY <2>2, <4>1
        <5>3. Pending(r)'
          BY <1>14, <4>1, <4>5, <5>2
        <5>4. ClearedSlot(Slot(a))[s] = IF ~isAcked'[r] THEN r ELSE NULL
          BY <1>5, <1>6, <3>3, <4>1, <4>2, <4>3
        <5>. QED
          BY <3>1, <3>3, <4>1, <5>1, <5>3, <5>4
      <4>. QED
        BY <4>4, <4>5
    <3>. QED
      BY <3>2, <3>3
  <2>. QED
    BY <2>1, <2>2
<1>21. ASSUME NEW s \in Slots, windowState'[s] # NULL
       PROVE  Pending(windowState[s])' /\ Slot(windowState[s])' = s
  BY <1>20, <1>21 DEF Pending, Launched, Slot
<1>. QED
  BY <1>1, <1>9, <1>11, <1>18, <1>19, <1>20, <1>21 DEF SenderInv

(* processAck once all data is acknowledged: only the EOF is outstanding.  *)
LEMMA EofSenderInv ==
  ASSUME EndsTypeOK, SenderInv, NEW a \in Packets, ProcessEofAck(Slot(a)),
         windowState[Slot(a)] = IF Pending(a) THEN a ELSE NULL,
         \A p \in Packets : isAcked'[p] <=> isAcked[p] \/ p = a
  PROVE  SenderInv' /\ \A p \in Packets : Launched(p) => Launched(p)'
<1>1. /\ UNCHANGED <<currentWindowOrigin, windowState, thread>>
      /\ currentWindow' = ClearedSlot(Slot(a))
  BY DEF ProcessEofAck
<1>2. \A p : (Launched(p) <=> Launched(p)') /\ (Pending(p) <=> Pending(p)')
  BY <1>1 DEF Launched, Pending
<1>3. \A s \in Slots : ClearedSlot(Slot(a))[s] = IF s = Slot(a) THEN NULL ELSE currentWindow[s]
  BY DEF ClearedSlot, EndsTypeOK, SenderTypeOK
<1>4. ASSUME NEW s \in Slots
      PROVE  currentWindow'[s] = IF windowState'[s] # NULL /\ ~isAcked'[windowState'[s]]
                                 THEN windowState'[s] ELSE NULL
  <2>1. currentWindow[s] = IF windowState[s] # NULL /\ ~isAcked[windowState[s]]
                           THEN windowState[s] ELSE NULL
    BY DEF SenderInv
  <2>2. CASE windowState[s] = NULL
    BY <1>1, <1>3, <2>1, <2>2
  <2>3. CASE windowState[s] # NULL
    <3>1. windowState[s] \in Packets /\ Slot(windowState[s]) = s
      BY <2>3, PointedTo
    <3>2. s = Slot(a) => windowState[s] = a
      BY <2>3
    <3>3. isAcked'[windowState[s]] <=> isAcked[windowState[s]] \/ windowState[s] = a
      BY <3>1
    <3>. QED
      BY <1>1, <1>3, <2>1, <2>3, <3>1, <3>2, <3>3
  <2>. QED
    BY <2>2, <2>3
<1>5. DataPackets \subseteq Packets
  BY PacketKinds
<1>6. \A p \in DataPackets : p < currentWindowOrigin' => isAcked'[p]
  BY <1>1, <1>5 DEF SenderInv
<1>. QED
  BY <1>1, <1>2, <1>4, <1>6 DEF SenderInv

-----------------------------------------------------------------------------
(* The Receiver.                                                           *)

(* Where the receiver is before it is complete.                            *)
LEMMA ReceiverRange ==
  ASSUME EndsTypeOK, ReceiverInv, ~isPayloadComplete
  PROVE  /\ windowOrigin \in Nat /\ windowOrigin = Len(completedSet)
         /\ windowOrigin <= numberOfPackets /\ numberOfPackets \in Nat
  BY OriginType DEF ReceiverInv

(* A packet in the receiver's window.                                      *)
LEMMA WindowPacket ==
  ASSUME EndsTypeOK, ReceiverInv, NEW s \in Slots, receivedWindow[s] # NULL
  PROVE  /\ receivedWindow[s] \in DataPackets /\ receivedWindow[s] \in Nat
         /\ Slot(receivedWindow[s]) = s /\ windowOrigin < receivedWindow[s]
         /\ receivedWindow[s] < windowOrigin + WINDOW_SIZE
<1>1. receivedWindow[s] \in DataPackets
  BY DEF EndsTypeOK, SenderTypeOK, ReceiverTypeOK
<1>. QED
  BY <1>1, PacketKinds DEF ReceiverInv

(* A packet that is held lies below the end of the window.                 *)
LEMMA HeldRange ==
  ASSUME EndsTypeOK, ReceiverInv, NEW p \in DataPackets, Holds(p)
  PROVE  p < windowOrigin + WINDOW_SIZE
<1>1. /\ p \in Nat /\ p # Eof /\ p # NULL /\ Slot(p) \in Slots
      /\ windowOrigin \in Nat /\ WINDOW_SIZE \in Nat
  BY PacketKinds, SlotType, OriginType, CommonAssumption
<1>2. CASE p < windowOrigin
  BY <1>1, <1>2
<1>3. CASE receivedWindow[Slot(p)] = p
  BY <1>1, <1>3, WindowPacket
<1>. QED
  BY <1>1, <1>2, <1>3 DEF Holds

(* Two runs of consecutive packets concatenate to one.                     *)
LEMMA AppendConsecutive ==
  ASSUME NEW m \in Nat, NEW n \in Nat
  PROVE  [i \in 1 .. m |-> i - 1] \o [i \in 1 .. n |-> m + i - 1]
           = [i \in 1 .. m + n |-> i - 1]
<1>. DEFINE s == [i \in 1 .. m |-> i - 1]
            t == [i \in 1 .. n |-> m + i - 1]
            u == [i \in 1 .. m + n |-> i - 1]
<1>1. s \in Seq(Nat) /\ Len(s) = m /\ t \in Seq(Nat) /\ Len(t) = n
  OBVIOUS
<1>2. u \in Seq(Nat) /\ Len(u) = m + n
  OBVIOUS
<1>3. \A i \in 1 .. m : s[i] = i - 1
  OBVIOUS
<1>4. \A i \in 1 .. n : t[i] = m + i - 1
  OBVIOUS
<1>5. \A i \in 1 .. m + n : u[i] = i - 1
  OBVIOUS
<1>. HIDE DEF s, t, u
<1>6. /\ s \o t \in Seq(Nat)
      /\ Len(s \o t) = m + n
      /\ \A i \in 1 .. m + n : (s \o t)[i] = IF i <= m THEN s[i] ELSE t[i - m]
  BY <1>1, ConcatProperties
<1>7. ASSUME NEW i \in 1 .. m + n PROVE (s \o t)[i] = u[i]
  <2>. i \in Nat
    OBVIOUS
  <2>1. CASE i <= m
    BY <1>3, <1>5, <1>6, <2>1
  <2>2. CASE i > m
    <3>1. i - m \in 1 .. n
      BY <2>2
    <3>2. t[i - m] = m + (i - m) - 1
      BY <1>4, <3>1
    <3>. QED
      BY <1>5, <1>6, <2>2, <3>2
  <2>3. i <= m \/ i > m
    OBVIOUS
  <2>. QED
    BY <2>1, <2>2, <2>3, Zenon
<1>8. s \o t = u
  BY <1>2, <1>6, <1>7, SeqEqual
<1>. QED
  BY <1>8 DEF s, t, u

(* handleMsg on a packet it does not have: the queue grows by consecutive  *)
(* packets and nothing held is lost.                                       *)
LEMMA RegisterPacketInv ==
  ASSUME EndsTypeOK, ReceiverInv, NEW p \in DataPackets, ~isPayloadComplete,
         RegisterPacket(p), windowOrigin <= p, p < windowOrigin + WINDOW_SIZE
  PROVE  /\ ReceiverInv'
         /\ \A q \in Packets : Holds(q)' <=> Holds(q) \/ q = p
         /\ ~Holds(p)
<1>. DEFINE w == [receivedWindow EXCEPT ![Slot(p)] = p]
<1>1. PICK origin \in windowOrigin .. (windowOrigin + SEQUENCE_RANGE) :
        /\ FirstGap(w, origin)
        /\ windowOrigin' = origin
        /\ completedSet' = completedSet \o
             [i \in 1 .. (origin - windowOrigin) |-> w[Slot(windowOrigin + i - 1)]]
        /\ receivedWindow' =
             [s \in Slots |-> IF \E q \in windowOrigin .. (origin - 1) : Slot(q) = s
                              THEN NULL ELSE w[s]]
  BY DEF RegisterPacket
<1>2. receivedWindow[Slot(p)] = NULL /\ isPayloadComplete' = isPayloadComplete
  BY DEF RegisterPacket, Registers
<1>3. /\ p \in Packets /\ p \in Nat /\ p < numberOfPackets /\ p # Eof /\ p # NULL
      /\ Slot(p) \in Slots
  BY PacketKinds, SlotType
<1>4. /\ windowOrigin = Len(completedSet) /\ windowOrigin \in Nat
      /\ windowOrigin <= numberOfPackets /\ numberOfPackets \in Nat
      /\ WINDOW_SIZE \in Nat /\ SEQUENCE_RANGE \in Nat /\ WINDOW_SIZE < SEQUENCE_RANGE
  BY ReceiverRange, CommonAssumption
<1>5. origin \in Nat /\ windowOrigin <= origin
  BY <1>1, <1>4
<1>6. ~Holds(p)
  BY <1>2, <1>3, <1>4 DEF Holds
<1>7. w \in [Slots -> DataPackets \union {NULL}]
  BY <1>3 DEF EndsTypeOK, SenderTypeOK, ReceiverTypeOK
<1>8. \A s \in Slots : w[s] = IF s = Slot(p) THEN p ELSE receivedWindow[s]
  BY <1>3 DEF EndsTypeOK, SenderTypeOK, ReceiverTypeOK
<1>9. /\ \A q \in windowOrigin .. (origin - 1) : w[Slot(q)] # NULL
      /\ w[Slot(origin)] = NULL
  BY <1>1 DEF FirstGap
<1>. HIDE DEF w
<1>10. ASSUME NEW s \in Slots, w[s] # NULL
       PROVE  /\ w[s] \in DataPackets /\ w[s] \in Nat /\ Slot(w[s]) = s
              /\ windowOrigin <= w[s] /\ w[s] < windowOrigin + WINDOW_SIZE
  <2>1. CASE s = Slot(p)
    BY <1>3, <1>8, <2>1
  <2>2. CASE s # Slot(p)
    <3>1. w[s] = receivedWindow[s]
      BY <1>8, <2>2
    <3>2. /\ receivedWindow[s] \in DataPackets /\ receivedWindow[s] \in Nat
          /\ Slot(receivedWindow[s]) = s /\ windowOrigin < receivedWindow[s]
          /\ receivedWindow[s] < windowOrigin + WINDOW_SIZE
      BY <1>10, <3>1, WindowPacket
    <3>. QED
      BY <1>4, <3>1, <3>2
  <2>. QED
    BY <2>1, <2>2
<1>11. ASSUME NEW q \in Nat, windowOrigin <= q, q <= windowOrigin + WINDOW_SIZE,
              w[Slot(q)] # NULL
       PROVE  w[Slot(q)] = q
  <2>. DEFINE r == w[Slot(q)]
  <2>1. /\ r \in Nat /\ Slot(r) = Slot(q)
        /\ windowOrigin <= r /\ r < windowOrigin + WINDOW_SIZE
    BY <1>10, <1>11, SlotType
  <2>. HIDE DEF r
  <2>2. r < q + SEQUENCE_RANGE /\ q < r + SEQUENCE_RANGE
    BY <1>4, <1>11, <2>1
  <2>3. r = q
    BY <2>1, <2>2, SlotInjective
  <2>. QED
    BY <2>3 DEF r
<1>12. origin <= windowOrigin + WINDOW_SIZE
  <2>. DEFINE q == windowOrigin + WINDOW_SIZE
  <2>1. SUFFICES ASSUME q < origin PROVE FALSE
    BY <1>4, <1>5
  <2>2. q \in windowOrigin .. (origin - 1) /\ q \in Nat /\ windowOrigin <= q /\ q <= q
    BY <1>4, <1>5, <2>1
  <2>3. w[Slot(q)] # NULL
    BY <1>9, <2>2
  <2>4. w[Slot(q)] = q
    BY <1>11, <2>2, <2>3
  <2>5. w[Slot(q)] < windowOrigin + WINDOW_SIZE
    BY <1>10, <2>2, <2>3, SlotType
  <2>. QED
    BY <1>4, <2>2, <2>4, <2>5
<1>13. ASSUME NEW q \in windowOrigin .. (origin - 1)
       PROVE  q \in Nat /\ windowOrigin <= q /\ q < origin /\ w[Slot(q)] = q /\ q \in DataPackets
  <2>1. q \in Nat /\ windowOrigin <= q /\ q < origin /\ q <= windowOrigin + WINDOW_SIZE
    BY <1>4, <1>5, <1>12
  <2>2. w[Slot(q)] # NULL
    BY <1>9
  <2>3. w[Slot(q)] = q
    BY <1>11, <2>1, <2>2
  <2>4. w[Slot(q)] \in DataPackets
    BY <1>10, <2>1, <2>2, SlotType
  <2>. QED
    BY <2>1, <2>3, <2>4
<1>14. origin <= numberOfPackets
  <2>1. SUFFICES ASSUME numberOfPackets < origin PROVE FALSE
    BY <1>4, <1>5
  <2>2. numberOfPackets \in windowOrigin .. (origin - 1)
    BY <1>4, <1>5, <2>1
  <2>3. numberOfPackets \in DataPackets
    BY <1>13, <2>2
  <2>. QED
    BY <1>4, <2>3, PacketKinds
<1>15. /\ completedSet' = [i \in 1 .. origin |-> i - 1]
       /\ Len(completedSet') = origin
  <2>. DEFINE t == [i \in 1 .. (origin - windowOrigin) |-> w[Slot(windowOrigin + i - 1)]]
  <2>1. ASSUME NEW i \in 1 .. (origin - windowOrigin)
        PROVE  w[Slot(windowOrigin + i - 1)] = windowOrigin + i - 1
    <3>1. windowOrigin + i - 1 \in windowOrigin .. (origin - 1)
      BY <1>4, <1>5
    <3>. QED
      BY <1>13, <3>1
  <2>2. t = [i \in 1 .. (origin - windowOrigin) |-> windowOrigin + i - 1]
    BY <2>1
  <2>. HIDE DEF t
  <2>3. completedSet' = completedSet \o t
    BY <1>1 DEF t
  <2>4. completedSet = [i \in 1 .. windowOrigin |-> i - 1]
    BY <1>4 DEF ReceiverInv
  <2>5. completedSet \o t = [i \in 1 .. windowOrigin + (origin - windowOrigin) |-> i - 1]
    <3>1. windowOrigin \in Nat /\ origin - windowOrigin \in Nat
      BY <1>4, <1>5
    <3>2. [i \in 1 .. windowOrigin |-> i - 1]
             \o [i \in 1 .. (origin - windowOrigin) |-> windowOrigin + i - 1]
           = [i \in 1 .. windowOrigin + (origin - windowOrigin) |-> i - 1]
      BY <3>1, AppendConsecutive
    <3>. QED
      BY <2>2, <2>4, <3>2
  <2>6. windowOrigin + (origin - windowOrigin) = origin
    BY <1>4, <1>5
  <2>. QED
    BY <1>5, <2>3, <2>5, <2>6
<1>16. \A s \in Slots :
         receivedWindow'[s] = IF \E q \in windowOrigin .. (origin - 1) : Slot(q) = s
                              THEN NULL ELSE w[s]
  BY <1>1
<1>17. ASSUME NEW s \in Slots, receivedWindow'[s] # NULL
       PROVE  /\ Slot(receivedWindow'[s]) = s /\ origin < receivedWindow'[s]
              /\ receivedWindow'[s] < origin + WINDOW_SIZE
  <2>1. /\ receivedWindow'[s] = w[s] /\ w[s] # NULL
        /\ ~ \E q \in windowOrigin .. (origin - 1) : Slot(q) = s
    BY <1>16, <1>17
  <2>2. /\ w[s] \in Nat /\ Slot(w[s]) = s /\ windowOrigin <= w[s]
        /\ w[s] < windowOrigin + WINDOW_SIZE
    BY <1>10, <2>1
  <2>3. ~(w[s] < origin)
    <3>1. SUFFICES ASSUME w[s] < origin PROVE FALSE
      OBVIOUS
    <3>2. w[s] \in windowOrigin .. (origin - 1)
      BY <1>4, <1>5, <2>2, <3>1
    <3>. QED
      BY <2>1, <2>2, <3>2
  <2>4. w[s] # origin
    BY <1>9, <2>1, <2>2
  <2>. QED
    BY <1>4, <1>5, <2>1, <2>2, <2>3, <2>4
<1>18. ReceiverInv'
  <2>1. ~isPayloadComplete' /\ windowOrigin' = origin /\ Len(completedSet') = origin
    BY <1>1, <1>2, <1>15
  <2>2. origin \in 0 .. numberOfPackets
    BY <1>4, <1>5, <1>14
  <2>3. \A s \in Slots : receivedWindow'[s] # NULL =>
          /\ (Slot(receivedWindow[s]))' = s
          /\ windowOrigin' < receivedWindow'[s]
          /\ receivedWindow'[s] < windowOrigin' + WINDOW_SIZE
    BY <1>17, <2>1 DEF Slot
  <2>. QED
    BY <1>15, <2>1, <2>2, <2>3 DEF ReceiverInv
<1>19. ASSUME NEW q \in Packets PROVE Holds(q)' <=> Holds(q) \/ q = p
  <2>1. q \in Nat /\ q # NULL /\ Slot(q) \in Slots
    BY PacketKinds, SlotType
  <2>2. CASE q = Eof
    BY <1>2, <1>3, <2>2 DEF Holds
  <2>3. CASE q # Eof
    <3>1. Holds(q)' <=> q < origin \/ receivedWindow'[Slot(q)] = q
      BY <1>1, <2>3 DEF Holds, Slot
    <3>2. Holds(q) <=> q < windowOrigin \/ receivedWindow[Slot(q)] = q
      BY <2>3 DEF Holds
    <3>3. w[Slot(q)] = q <=> receivedWindow[Slot(q)] = q \/ q = p
      BY <1>2, <1>8, <2>1
    <3>4. windowOrigin <= q /\ q < origin => w[Slot(q)] = q
      BY <1>4, <1>5, <1>13, <2>1
    <3>5. receivedWindow'[Slot(q)] = q => w[Slot(q)] = q
      BY <1>16, <2>1
    <3>6. ASSUME w[Slot(q)] = q, ~(q < origin) PROVE receivedWindow'[Slot(q)] = q
      <4>1. ASSUME NEW r \in windowOrigin .. (origin - 1), Slot(r) = Slot(q) PROVE FALSE
        <5>1. w[Slot(r)] = r /\ r < origin
          BY <1>13
        <5>2. r = q
          BY <3>6, <4>1, <5>1
        <5>. QED
          BY <3>6, <5>1, <5>2
      <4>. QED
        BY <1>16, <2>1, <3>6, <4>1
    <3>. QED
      BY <1>4, <1>5, <2>1, <3>1, <3>2, <3>3, <3>4, <3>5, <3>6
  <2>. QED
    BY <2>2, <2>3
<1>. QED
  BY <1>6, <1>18, <1>19

-----------------------------------------------------------------------------
(* The network.                                                            *)

(* One packet can overtake on one direction, two there and back.           *)
LEMMA FewAhead ==
  /\ \A X \in Once : \A x, y \in X : Delays /\ x = y
  /\ \A X \in Twice : \A x, y, z \in X : Delays /\ (x = y \/ y = z \/ x = z)
  BY DEF Never, Once, Twice

(* Where everything below o has arrived, o is near every packet that comes.*)
LEMMA Near ==
  ASSUME RangeSuffices, NEW o \in Nat, o <= numberOfPackets, NEW p \in Packets, NEW P,
         \A q \in Nat : q < o => q \in P
  PROVE  /\ Ahead(Beyond, p, P) \in Once => o <= p + WINDOW_SIZE + Slack + (IF Delays THEN 1 ELSE 0)
         /\ Ahead(Beyond, p, P) \in Twice => o <= p + WINDOW_SIZE + Slack + (IF Delays THEN 2 ELSE 0)
<1>. DEFINE r == p + WINDOW_SIZE + Slack
<1>1. /\ r \in Nat /\ r + 1 \in Nat /\ r + 2 \in Nat
      /\ r <= r /\ r <= r + 1 /\ r <= r + 2
      /\ r # r + 1 /\ r # r + 2 /\ r + 1 # r + 2
  BY PacketKinds, RangeFacts
<1>2. \A q \in Nat : q < o /\ r <= q => q \in Ahead(Beyond, p, P)
  <2>. HIDE DEF r
  <2>1. ASSUME NEW q \in Nat, q < o, r <= q PROVE q \in Ahead(Beyond, p, P)
    <3>1. q \in Packets
      BY <2>1, PacketCount DEF Packets
    <3>2. <<p, q>> \in Beyond
      BY <2>1, <3>1 DEF Beyond, r
    <3>. QED
      BY <2>1, <3>1, <3>2 DEF Ahead
  <2>. QED
    BY <2>1
<1>. HIDE DEF r
<1>3. ASSUME Ahead(Beyond, p, P) \in Once PROVE o <= r + (IF Delays THEN 1 ELSE 0)
  <2>1. r \in Ahead(Beyond, p, P) => Delays
    BY <1>3, FewAhead
  <2>2. ~(r \in Ahead(Beyond, p, P) /\ r + 1 \in Ahead(Beyond, p, P))
    BY <1>1, <1>3, FewAhead
  <2>3. (~Delays => ~(r < o)) /\ (~(r < o) \/ ~(r + 1 < o))
    BY <1>1, <1>2, <2>1, <2>2
  <2>. QED
    BY <1>1, <2>3
<1>4. ASSUME Ahead(Beyond, p, P) \in Twice PROVE o <= r + (IF Delays THEN 2 ELSE 0)
  <2>1. r \in Ahead(Beyond, p, P) => Delays
    BY <1>4, FewAhead
  <2>2. ~(r \in Ahead(Beyond, p, P) /\ r + 1 \in Ahead(Beyond, p, P) /\ r + 2 \in Ahead(Beyond, p, P))
    BY <1>1, <1>4, FewAhead
  <2>3. (~Delays => ~(r < o)) /\ (~(r < o) \/ ~(r + 1 < o) \/ ~(r + 2 < o))
    BY <1>1, <1>2, <2>1, <2>2
  <2>. QED
    BY <1>1, <2>3
<1>. QED
  BY <1>3, <1>4 DEF r

(* The packets of a sequence, and the sequence numbers they travel under.  *)
Elements(s) == {s[i] : i \in 1 .. Len(s)}
Numbers(s)  == [i \in 1 .. Len(s) |-> Number(s[i])]

(* Numbers are integers, and those of packets are sequence numbers.        *)
LEMMA NumberType ==
  ASSUME NEW m \in Int
  PROVE  /\ Number(m) \in Int
         /\ m \in Packets => Number(m) = Slot(m) /\ Number(m) \in Slots
  BY SlotType, PacketKinds DEF Number, Slots

(* What a sendto of m may do to the held and the leaving messages.         *)
Sends(m, H, L, K, M) ==
  \/ K = H /\ M = L
  \/ Delays /\ H = <<>> /\ K = <<m>> /\ M = L
  \/ K = <<>> /\ M = L \o <<m>> \o H

(* A sendto keeps the order when m is not late.                            *)
LEMMA SendInOrder ==
  ASSUME NEW R, NEW P, NEW H \in Seq(Int), NEW L \in Seq(Int), NEW K, NEW M,
         NEW m \in Int, NEW E, NEW F, Closed(F), Widens(E, F), Len(H) <= 1,
         ~Delays => H = <<>>, InOrder(R, P, H, L, E, F),
         Ahead(R, m, P \union Elements(L)) \in E, Sends(m, H, L, K, M)
  PROVE  InOrder(R, P, K, M, E, F) /\ (~Delays => K = <<>>)
<1>1. Ahead(R, m, P \union {L[j] : j \in 1 .. Len(L)}) \in E
  BY DEF Elements
<1>2. CASE K = H /\ M = L
  BY <1>2
<1>3. CASE Delays /\ H = <<>> /\ K = <<m>> /\ M = L
  BY <1>1, <1>3, HoldInOrder
<1>4. CASE K = <<>> /\ M = L \o <<m>> \o H
  BY <1>1, <1>4, PassInOrder
<1>. QED
  BY <1>2, <1>3, <1>4 DEF Sends

(* A sendto puts nothing but m on the network.                             *)
LEMMA SendElements ==
  ASSUME NEW S, NEW m \in S, NEW H \in Seq(S), NEW L \in Seq(S), NEW K, NEW M,
         Len(H) <= 1, Sends(m, H, L, K, M)
  PROVE  K \in Seq(S) /\ M \in Seq(S) /\ Len(K) <= 1
<1>1. <<>> \in Seq(S) /\ <<m>> \in Seq(S) /\ Len(<<>>) = 0 /\ Len(<<m>>) = 1
  OBVIOUS
<1>2. L \o <<m>> \o H \in Seq(S)
  BY PassType
<1>3. CASE K = H /\ M = L
  BY <1>3
<1>4. CASE K = <<m>> /\ M = L
  BY <1>1, <1>4
<1>5. CASE K = <<>> /\ M = L \o <<m>> \o H
  BY <1>1, <1>2, <1>5
<1>. QED
  BY <1>3, <1>4, <1>5 DEF Sends

(* The numbers of a sequence of packets, element by element.               *)
LEMMA NumbersType ==
  ASSUME NEW s \in Seq(Int)
  PROVE  /\ Numbers(s) \in Seq(Int) /\ Len(Numbers(s)) = Len(s)
         /\ \A i \in 1 .. Len(s) : Numbers(s)[i] = Number(s[i])
<1>1. \A i \in 1 .. Len(s) : Number(s[i]) \in Int
  BY NumberType
<1>2. Len(s) \in Nat
  OBVIOUS
<1>. QED
  BY <1>1, <1>2 DEF Numbers

(* Appending, before numbering or after it.                                *)
LEMMA NumbersAppend ==
  ASSUME NEW s \in Seq(Int), NEW m \in Int
  PROVE  Numbers(Append(s, m)) = Append(Numbers(s), Number(m))
<1>. DEFINE t == Append(s, m)
            u == Append(Numbers(s), Number(m))
<1>1. /\ t \in Seq(Int) /\ Len(t) = Len(s) + 1 /\ Len(s) \in Nat
      /\ t[Len(s) + 1] = m /\ \A i \in 1 .. Len(s) : t[i] = s[i]
  OBVIOUS
<1>2. Numbers(s) \in Seq(Int) /\ Len(Numbers(s)) = Len(s) /\ Number(m) \in Int
  BY NumbersType, NumberType
<1>3. /\ u \in Seq(Int) /\ Len(u) = Len(s) + 1
      /\ u[Len(s) + 1] = Number(m) /\ \A i \in 1 .. Len(s) : u[i] = Numbers(s)[i]
  BY <1>2
<1>. HIDE DEF t, u
<1>4. Numbers(t) \in Seq(Int) /\ Len(Numbers(t)) = Len(t)
  BY <1>1, NumbersType
<1>5. ASSUME NEW i \in 1 .. Len(s) + 1 PROVE Numbers(t)[i] = u[i]
  <2>1. Numbers(t)[i] = Number(t[i])
    BY <1>1, NumbersType
  <2>2. CASE i = Len(s) + 1
    BY <1>1, <1>3, <2>1, <2>2
  <2>3. CASE i # Len(s) + 1
    <3>1. i \in 1 .. Len(s)
      BY <1>1, <2>3
    <3>. QED
      BY <1>1, <1>3, <2>1, <3>1, NumbersType
  <2>. QED
    BY <2>2, <2>3
<1>6. Numbers(t) = u
  BY <1>1, <1>3, <1>4, <1>5, SeqEqual
<1>. QED
  BY <1>6 DEF t, u

(* Taking the first, before numbering or after it.                         *)
LEMMA NumbersTail ==
  ASSUME NEW s \in Seq(Int), s # <<>>
  PROVE  Head(Numbers(s)) = Number(Head(s)) /\ Tail(Numbers(s)) = Numbers(Tail(s))
<1>. DEFINE n == Numbers(s)
            t == Tail(s)
<1>1. /\ t \in Seq(Int) /\ Len(t) = Len(s) - 1 /\ Len(s) \in Nat /\ Len(s) > 0
      /\ Head(s) = s[1] /\ \A i \in 1 .. Len(t) : t[i] = s[i + 1]
  OBVIOUS
<1>2. n \in Seq(Int) /\ Len(n) = Len(s) /\ \A i \in 1 .. Len(s) : n[i] = Number(s[i])
  BY NumbersType
<1>3. /\ Numbers(t) \in Seq(Int) /\ Len(Numbers(t)) = Len(t)
      /\ \A i \in 1 .. Len(t) : Numbers(t)[i] = Number(t[i])
  BY <1>1, NumbersType
<1>. HIDE DEF n, t
<1>4. n # <<>>
  BY <1>1, <1>2
<1>5. /\ Tail(n) \in Seq(Int) /\ Len(Tail(n)) = Len(n) - 1 /\ Head(n) = n[1]
      /\ \A i \in 1 .. Len(n) - 1 : Tail(n)[i] = n[i + 1]
  BY <1>2, <1>4
<1>6. ASSUME NEW i \in 1 .. Len(t) PROVE Tail(n)[i] = Numbers(t)[i]
  <2>1. i + 1 \in 1 .. Len(s) /\ i \in 1 .. Len(n) - 1
    BY <1>1, <1>2
  <2>. QED
    BY <1>1, <1>2, <1>3, <1>5, <2>1
<1>7. Tail(n) = Numbers(t)
  BY <1>1, <1>2, <1>3, <1>5, <1>6, SeqEqual
<1>8. Head(n) = Number(Head(s))
  BY <1>1, <1>2, <1>5
<1>. QED
  BY <1>7, <1>8 DEF n, t

(* No packets have no numbers, and one packet has one.                     *)
LEMMA NumbersOne ==
  ASSUME NEW m \in Int
  PROVE  Numbers(<<>>) = <<>> /\ Numbers(<<m>>) = <<Number(m)>>
<1>1. Numbers(<<>>) = <<>>
  BY DEF Numbers
<1>. DEFINE s == <<m>>
            n == Numbers(s)
<1>2. s \in Seq(Int) /\ Len(s) = 1 /\ s[1] = m /\ 1 \in 1 .. Len(s)
  OBVIOUS
<1>. HIDE DEF s
<1>3. n \in Seq(Int) /\ Len(n) = 1 /\ n[1] = Number(m)
  BY <1>2, NumbersType
<1>. HIDE DEF n
<1>4. n = <<n[1]>>
  BY <1>3, SingleMessage
<1>5. n = <<Number(m)>>
  BY <1>3, <1>4
<1>. QED
  BY <1>1, <1>5 DEF n, s

(* A sendto of a packet's number is that of the packet.                    *)
LEMMA SendNumbers ==
  ASSUME NEW m \in Int, NEW H \in Seq(Int), NEW L \in Seq(Int), NEW K, NEW M,
         Len(H) <= 1, Sends(Number(m), Numbers(H), Numbers(L), K, M)
  PROVE  \E k, n \in Seq(Int) :
           K = Numbers(k) /\ M = Numbers(n) /\ Sends(m, H, L, k, n)
<1>1. CASE K = Numbers(H) /\ M = Numbers(L)
  BY <1>1 DEF Sends
<1>2. CASE Delays /\ Numbers(H) = <<>> /\ K = <<Number(m)>> /\ M = Numbers(L)
  <2>1. H = <<>>
    <3>1. Len(Numbers(H)) = Len(H) /\ Len(<<>>) = 0
      BY NumbersType
    <3>. QED
      BY <1>2, <3>1
  <2>2. <<m>> \in Seq(Int) /\ K = Numbers(<<m>>)
    BY <1>2, NumbersOne
  <2>. QED
    BY <1>2, <2>1, <2>2 DEF Sends
<1>3. CASE K = <<>> /\ M = Numbers(L) \o <<Number(m)>> \o Numbers(H)
  <2>. DEFINE n == L \o <<m>> \o H
  <2>1. n \in Seq(Int) /\ <<>> \in Seq(Int) /\ Numbers(<<>>) = <<>>
    <3>1. n \in Seq(Int)
      BY PassType
    <3>2. Numbers(<<>>) = <<>>
      BY NumbersOne
    <3>. HIDE DEF n
    <3>. QED
      BY <3>1, <3>2
  <2>2. /\ Append(L, m) \in Seq(Int) /\ L \o <<m>> = Append(L, m)
        /\ Numbers(L) \in Seq(Int) /\ Number(m) \in Int
        /\ Numbers(L) \o <<Number(m)>> = Append(Numbers(L), Number(m))
        /\ Append(Numbers(L), Number(m)) = Numbers(Append(L, m))
    <3>1. Numbers(L) \in Seq(Int) /\ Number(m) \in Int
      BY NumbersType, NumberType
    <3>2. Append(Numbers(L), Number(m)) = Numbers(Append(L, m))
      BY NumbersAppend
    <3>3. ASSUME NEW N \in Seq(Int), NEW i \in Int
          PROVE  Append(N, i) \in Seq(Int) /\ N \o <<i>> = Append(N, i)
      OBVIOUS
    <3>4. Append(L, m) \in Seq(Int) /\ L \o <<m>> = Append(L, m)
      BY <3>3
    <3>5. Numbers(L) \o <<Number(m)>> = Append(Numbers(L), Number(m))
      BY <3>1, <3>3
    <3>. QED
      BY <3>1, <3>2, <3>4, <3>5
  <2>3. M = Numbers(n)
    <3>1. CASE H = <<>>
      <4>1. n = Append(L, m)
        BY <2>2, <3>1
      <4>2. Numbers(Append(L, m)) \o <<>> = Numbers(Append(L, m))
        BY <2>2, NumbersType
      <4>. QED
        BY <1>3, <2>1, <2>2, <3>1, <4>1, <4>2
    <3>2. CASE H # <<>>
      <4>. DEFINE N == Numbers(H)
                  A == Append(L, m)
      <4>1. Len(H) = 1
        BY <3>2, AtMostOne
      <4>2. /\ N \in Seq(Int) /\ Len(N) = 1 /\ N[1] = Number(H[1]) /\ H[1] \in Int
            /\ A \in Seq(Int) /\ Numbers(A) \in Seq(Int)
        BY <2>2, <4>1, NumbersType, SingleMessage
      <4>. HIDE DEF N, A
      <4>3. A \o H = Append(A, H[1])
        BY <4>1, <4>2, SingleMessage
      <4>4. Numbers(A) \o N = Append(Numbers(A), N[1])
        BY <4>2, SingleMessage
      <4>5. Append(Numbers(A), Number(H[1])) = Numbers(Append(A, H[1]))
        BY <4>2, NumbersAppend
      <4>6. M = Numbers(A) \o N
        BY <1>3, <2>2 DEF A, N
      <4>7. n = A \o H
        BY <2>2 DEF A
      <4>. QED
        BY <4>2, <4>3, <4>4, <4>5, <4>6, <4>7
    <3>. QED
      BY <3>1, <3>2
  <2>4. Sends(m, H, L, <<>>, n)
    BY DEF Sends
  <2>. QED
    BY <1>3, <2>1, <2>3, <2>4
<1>. QED
  BY <1>1, <1>2, <1>3 DEF Sends

(* The number of the held message leaves behind the others.                *)
LEMMA NumbersRelease ==
  ASSUME NEW h \in Seq(Int), NEW l \in Seq(Int), Len(h) = 1
  PROVE  <<>> = Numbers(<<>>) /\ Numbers(l) \o Numbers(h) = Numbers(l \o h)
<1>1. /\ Numbers(h) \in Seq(Int) /\ Len(Numbers(h)) = 1 /\ Numbers(h)[1] = Number(h[1])
      /\ Numbers(l) \in Seq(Int) /\ h[1] \in Int
  <2>1. 1 \in 1 .. Len(h) /\ h[1] \in Int
    OBVIOUS
  <2>2. \A s \in Seq(Int) : Numbers(s) \in Seq(Int) /\ Len(Numbers(s)) = Len(s)
    BY NumbersType
  <2>3. Numbers(h)[1] = Number(h[1])
    BY <2>1, NumbersType
  <2>. QED
    BY <2>1, <2>2, <2>3
<1>. DEFINE H == Numbers(h)
            L == Numbers(l)
<1>2. H \in Seq(Int) /\ Len(H) = 1 /\ H[1] = Number(h[1]) /\ L \in Seq(Int)
  BY <1>1
<1>3. L = Numbers(l)
  OBVIOUS
<1>. HIDE DEF H, L
<1>4. L \o H = Append(L, Number(h[1])) /\ l \o h = Append(l, h[1])
  BY <1>2, SingleMessage
<1>5. Append(L, Number(h[1])) = Numbers(Append(l, h[1]))
  BY <1>1, <1>3, NumbersAppend
<1>6. L \o H = Numbers(l \o h)
  BY <1>4, <1>5
<1>7. <<>> = Numbers(<<>>)
  BY DEF Numbers
<1>. QED
  BY <1>6, <1>7 DEF H, L

-----------------------------------------------------------------------------
(* The inductive invariant: one lemma per kind of step.                    *)

(* A sequence whose elements are all of a set.                             *)
LEMMA SequenceOf ==
  ASSUME NEW M, NEW S, NEW s \in Seq(M)
  PROVE  (\A i \in 1 .. Len(s) : s[i] \in S) <=> s \in Seq(S)
<1>1. ASSUME \A i \in 1 .. Len(s) : s[i] \in S PROVE s \in Seq(S)
  BY <1>1
<1>2. ASSUME s \in Seq(S) PROVE \A i \in 1 .. Len(s) : s[i] \in S
  BY <1>2
<1>. QED
  BY <1>1, <1>2

(* What the messages of a sequence may be, in terms of Seq.                *)
LEMMA TracesSequences ==
  ASSUME NEW S \in SUBSET Int, NEW H \in Seq(Int)
  PROVE  Traces(S, H) = {t \in Seq(S) : H = Numbers(t)}
<1>1. Len(H) \in Nat
  OBVIOUS
<1>2. ASSUME NEW n \in Nat, NEW t \in [1 .. n -> S]
      PROVE  t \in Seq(S) /\ Len(t) = n
  OBVIOUS
<1>3. ASSUME NEW t \in Seq(S)
      PROVE  t \in [1 .. Len(t) -> S] /\ Len(Numbers(t)) = Len(t)
  <2>1. t \in Seq(Int)
    BY SubsetSequence
  <2>2. Len(Numbers(t)) = Len(t)
    BY <2>1, NumbersType
  <2>. QED
    BY <2>2
<1>4. ASSUME NEW t \in Traces(S, H) PROVE t \in Seq(S) /\ H = Numbers(t)
  <2>1. t \in [1 .. Len(H) -> S] /\ H = [i \in 1 .. Len(H) |-> Number(t[i])]
    BY DEF Traces
  <2>2. t \in Seq(S) /\ Len(t) = Len(H)
    BY <1>1, <1>2, <2>1
  <2>. QED
    BY <2>1, <2>2 DEF Numbers
<1>5. ASSUME NEW t \in Seq(S), H = Numbers(t) PROVE t \in Traces(S, H)
  <2>1. t \in [1 .. Len(H) -> S] /\ Len(H) = Len(t)
    BY <1>3, <1>5
  <2>. QED
    BY <1>5, <2>1 DEF Numbers, Traces
<1>. QED
  BY <1>4, <1>5

(* Messages H held and L leaving, on a direction whose messages M of the   *)
(* set S can be, in the order of AckOrder.                                 *)
AcksTravel(S, H, L, P) ==
  \E h, l \in Seq(S) :
    H = Numbers(h) /\ L = Numbers(l) /\ InOrder(Beyond, P, h, l, Once, Twice)

(* AckOrder is about the packets and messages of the state.                *)
LEMMA AckOrderTravel ==
  /\ ackHeld \in Seq(Slots) /\ ackLeaving \in Seq(Slots) =>
       (AckOrder <=> AcksTravel(HeldPackets, ackHeld, ackLeaving, AckedPackets))
  /\ ackHeld' \in Seq(Slots) /\ ackLeaving' \in Seq(Slots) =>
       (AckOrder' <=> AcksTravel(HeldPackets', ackHeld', ackLeaving', AckedPackets'))
<1>1. ASSUME NEW S \in SUBSET Int, NEW P, NEW H \in Seq(Slots), NEW L \in Seq(Slots)
      PROVE  AcksTravel(S, H, L, P)
             <=> \E h \in Traces(S, H) : \E l \in Traces(S, L) :
                   InOrder(Beyond, P, h, l, Once, Twice)
  <2>1. H \in Seq(Int) /\ L \in Seq(Int)
    <3>1. Slots \subseteq Int
      BY CommonAssumption DEF Slots
    <3>. QED
      BY <3>1, SubsetSequence
  <2>2. /\ Traces(S, H) = {t \in Seq(S) : H = Numbers(t)}
        /\ Traces(S, L) = {t \in Seq(S) : L = Numbers(t)}
    BY <2>1, TracesSequences
  <2>. QED
    BY <2>2 DEF AcksTravel
<1>2. HeldPackets \in SUBSET Int /\ HeldPackets' \in SUBSET Int
  BY PacketKinds DEF HeldPackets
<1>3. AckOrder <=> \E h \in Traces(HeldPackets, ackHeld) :
                     \E l \in Traces(HeldPackets, ackLeaving) :
                       InOrder(Beyond, AckedPackets, h, l, Once, Twice)
  BY DEF AckOrder
<1>4. AckOrder' <=> \E h \in Traces(HeldPackets', ackHeld') :
                      \E l \in Traces(HeldPackets', ackLeaving') :
                        InOrder(Beyond, AckedPackets', h, l, Once, Twice)
  BY DEF AckOrder
<1>. QED
  BY <1>1, <1>2, <1>3, <1>4

(* The packets the ACKs on the network are about.                          *)
LEMMA AckPackets ==
  ASSUME TypeOK, AckOrder
  PROVE  \E h, l \in Seq(HeldPackets) :
           /\ ackHeld = Numbers(h) /\ ackLeaving = Numbers(l)
           /\ InOrder(Beyond, AckedPackets, h, l, Once, Twice)
  BY AckOrderTravel DEF TypeOK, AcksTravel

(* The send window never runs ahead of what the receiver delivered.        *)
LEMMA OriginBehind ==
  ASSUME EndsTypeOK, SenderInv, ReceiverInv, Custody
  PROVE  currentWindowOrigin <= windowOrigin
<1>1. SUFFICES ASSUME windowOrigin < currentWindowOrigin PROVE FALSE
  BY OriginType
<1>2. /\ windowOrigin \in DataPackets /\ windowOrigin \in Packets /\ windowOrigin \in Nat
      /\ windowOrigin # NULL /\ windowOrigin # Eof /\ Slot(windowOrigin) \in Slots
  BY <1>1, OriginType, PacketKinds, SlotType DEF DataPackets
<1>3. Holds(windowOrigin)
  BY <1>1, <1>2 DEF SenderInv, Custody
<1>4. receivedWindow[Slot(windowOrigin)] = windowOrigin
  BY <1>2, <1>3 DEF Holds
<1>. QED
  BY <1>2, <1>4, WindowPacket

(* The first message in order compares with what has arrived.              *)
LEMMA FirstInOrder ==
  ASSUME NEW R, NEW P, NEW H, NEW L \in Seq(Int), L # <<>>, NEW E, NEW F, Closed(F),
         InOrder(R, P, H, L, E, F)
  PROVE  Ahead(R, Head(L), P) \in F
<1>. DEFINE m == L[1]
<1>1. 1 \in 1 .. Len(L) /\ Head(L) = m
  OBVIOUS
<1>2. Ahead(R, m, P \union {L[j] : j \in 1 .. (1 - 1)}) \in F
  BY <1>1 DEF InOrder
<1>. HIDE DEF m
<1>. QED
  BY <1>1, <1>2, AheadSubset

(* What an arriving packet says about the receiver.                        *)
LEMMA NearReceiver ==
  ASSUME RangeSuffices, EndsTypeOK, SenderInv, ReceiverInv, Custody, NEW p \in Packets, Launched(p),
         Ahead(Beyond, p, HeldPackets) \in Once
  PROVE  /\ p < windowOrigin + WINDOW_SIZE
         /\ ~isPayloadComplete =>
              windowOrigin <= p + WINDOW_SIZE + Slack + (IF Delays THEN 1 ELSE 0)
<1>1. p \in Nat
  BY PacketKinds
<1>2. p < windowOrigin + WINDOW_SIZE
  BY <1>1, LaunchedRange, OriginBehind, OriginType, CommonAssumption
<1>3. ASSUME ~isPayloadComplete
      PROVE  windowOrigin <= p + WINDOW_SIZE + Slack + (IF Delays THEN 1 ELSE 0)
  <2>1. ASSUME NEW q \in Nat, q < windowOrigin PROVE q \in HeldPackets
    <3>1. q \in DataPackets
      BY <1>3, <2>1, ReceiverRange DEF DataPackets
    <3>. QED
      BY <2>1, <3>1, PacketKinds DEF HeldPackets, Holds
  <2>2. windowOrigin \in Nat /\ windowOrigin <= numberOfPackets
    BY <1>3, ReceiverRange
  <2>. QED
    BY <2>1, <2>2, Near
<1>. QED
  BY <1>2, <1>3

(* The first message that leaves arrives near the receiver's window.       *)
LEMMA DataNear ==
  ASSUME RangeSuffices, TypeOK, SenderInv, ReceiverInv, Custody, NetworkInv, DataOrder,
         dataLeaving # <<>>
  PROVE  /\ Head(dataLeaving) \in Packets /\ Launched(Head(dataLeaving))
         /\ Ahead(Beyond, Head(dataLeaving), HeldPackets) \in Once
         /\ Head(dataLeaving) < windowOrigin + WINDOW_SIZE
         /\ ~isPayloadComplete =>
              windowOrigin <= Head(dataLeaving) + WINDOW_SIZE + Slack + (IF Delays THEN 1 ELSE 0)
<1>1. /\ dataLeaving \in Seq(Packets) /\ 1 \in 1 .. Len(dataLeaving)
      /\ Head(dataLeaving) = dataLeaving[1] /\ EndsTypeOK
  BY DEF TypeOK
<1>2. PICK p : p = Head(dataLeaving)
  OBVIOUS
<1>3. p \in Packets /\ Launched(p)
  BY <1>1, <1>2 DEF NetworkInv
<1>4. Ahead(Beyond, p, HeldPackets) \in Once
  <2>1. dataLeaving \in Seq(Int)
    BY <1>1, PacketKinds, SubsetSequence
  <2>. QED
    BY <1>2, <2>1, Widening, FirstInOrder DEF DataOrder
<1>. QED
  BY <1>1, <1>2, <1>3, <1>4, NearReceiver

(* What an arriving ACK says about the sender.                             *)
LEMMA AckNear ==
  ASSUME RangeSuffices, EndsTypeOK, SenderInv, NEW a \in Packets,
         Ahead(Beyond, a, AckedPackets) \in Twice
  PROVE  currentWindowOrigin <= a + WINDOW_SIZE + Slack + (IF Delays THEN 2 ELSE 0)
<1>1. ASSUME NEW q \in Nat, q < currentWindowOrigin PROVE q \in AckedPackets
  <2>1. q \in DataPackets
    BY <1>1, OriginType DEF DataPackets
  <2>. QED
    BY <1>1, <2>1, PacketKinds DEF AckedPackets, SenderInv
<1>. QED
  BY <1>1, OriginType, PacketKinds, Near

(* processAck gets the number of a packet that the receiver has.           *)
LEMMA ProcessAckInv ==
  ASSUME RangeSuffices, EndsTypeOK, SenderInv, ReceiverInv, Custody,
         NEW a \in HeldPackets, ProcessAck(Slot(a)), UNCHANGED receiverVars,
         Ahead(Beyond, a, AckedPackets) \in Twice
  PROVE  /\ SenderInv' /\ ReceiverInv' /\ Custody'
         /\ AckedPackets' = AckedPackets \union {a}
         /\ HeldPackets' = HeldPackets
         /\ \A p \in Packets : Launched(p) => Launched(p)'
<1>1. a \in Packets /\ Holds(a) /\ Launched(a)
  BY DEF HeldPackets, Custody
<1>2. currentWindowOrigin <= a + WINDOW_SIZE + Slack + (IF Delays THEN 2 ELSE 0)
  BY <1>1, AckNear
<1>3. ProcessDataAck(Slot(a)) \/ ProcessEofAck(Slot(a))
  BY DEF ProcessAck
<1>4. /\ windowState[Slot(a)] = IF Pending(a) THEN a ELSE NULL
      /\ ~Pending(a) => isAcked[a]
  BY <1>1, <1>2, AckedSlot
<1>5. \A p \in Packets : isAcked'[p] <=> isAcked[p] \/ p = a
  <2>1. RaiseFlag(Slot(a))
    BY <1>3 DEF ProcessDataAck, ProcessEofAck
  <2>. QED
    BY <1>1, <1>4, <2>1, RaisedFlag
<1>6. SenderInv' /\ \A p \in Packets : Launched(p) => Launched(p)'
  <2>1. \A p \in Packets : isAcked[p] => Launched(p)
    BY DEF Custody
  <2>. QED
    BY <1>1, <1>3, <1>4, <1>5, <2>1, SlideSenderInv, EofSenderInv
<1>7. ASSUME isPayloadSent' PROVE isPayloadComplete
  <2>1. CASE isPayloadSent
    BY <2>1 DEF Custody
  <2>2. CASE ~isPayloadSent
    <3>1. Slot(a) = Slot(Eof) /\ currentWindowOrigin = numberOfPackets
      BY <1>3, <1>7, <2>2 DEF ProcessDataAck, ProcessEofAck
    <3>2. a \in Nat /\ Eof \in Nat /\ a <= Eof /\ Eof < a + SEQUENCE_RANGE
          /\ a < Eof + SEQUENCE_RANGE
      BY <1>1, <1>2, <3>1, PacketKinds, PacketCount, RangeFacts DEF Eof
    <3>3. a = Eof
      BY <3>1, <3>2, SlotInjective
    <3>. QED
      BY <1>1, <3>3 DEF Holds
  <2>. QED
    BY <2>1, <2>2
<1>8. ReceiverInv'
  BY DEF ReceiverInv, receiverVars
<1>9. (\A p \in Packets : Holds(p)' <=> Holds(p)) /\ HeldPackets' = HeldPackets
  BY DEF Holds, HeldPackets, receiverVars
<1>10. Custody'
  <2>1. \A p \in Packets : (Holds(p)' => Launched(p)') /\ (isAcked'[p] => Holds(p)')
    BY <1>1, <1>5, <1>6, <1>9 DEF Custody
  <2>2. isPayloadComplete' = isPayloadComplete
    BY DEF receiverVars
  <2>. QED
    BY <1>7, <2>1, <2>2 DEF Custody
<1>11. AckedPackets' = AckedPackets \union {a}
  BY <1>1, <1>5 DEF AckedPackets
<1>. QED
  BY <1>6, <1>8, <1>9, <1>10, <1>11

(* An ACK arrives at the sender.                                           *)
LEMMA ReceiveAckInv ==
  ASSUME RangeSuffices, RoutedInv, TypeOK', ReceiveAck
  PROVE  RoutedInv'
<1>1. /\ ackLeaving # <<>> /\ ProcessAck(Head(ackLeaving))
      /\ ackLeaving' = Tail(ackLeaving)
      /\ UNCHANGED <<receiverVars, dataNetwork, ackHeld>>
  BY DEF ReceiveAck
<1>2. /\ TypeOK /\ EndsTypeOK /\ SenderInv /\ ReceiverInv /\ Custody
      /\ NetworkInv /\ DataOrder /\ AckOrder
  BY DEF RoutedInv, TypeOK
<1>3. HeldPackets \in SUBSET Packets
  BY DEF HeldPackets
<1>4. PICK h \in Seq(HeldPackets), l \in Seq(HeldPackets) :
        /\ ackHeld = Numbers(h) /\ ackLeaving = Numbers(l)
        /\ InOrder(Beyond, AckedPackets, h, l, Once, Twice)
  BY <1>2, AckPackets
<1>5. h \in Seq(Int) /\ l \in Seq(Int)
  BY <1>3, PacketKinds
<1>6. l # <<>>
  <2>1. SUFFICES ASSUME l = <<>> PROVE FALSE
    OBVIOUS
  <2>. QED
    BY <1>1, <1>4, <2>1 DEF Numbers
<1>7. PICK a : a = Head(l)
  OBVIOUS
<1>8. /\ a \in HeldPackets /\ Tail(l) \in Seq(HeldPackets)
      /\ Head(ackLeaving) = Slot(a) /\ ackLeaving' = Numbers(Tail(l))
  <2>1. a \in HeldPackets /\ Tail(l) \in Seq(HeldPackets)
    BY <1>6, <1>7, TailType
  <2>2. Head(ackLeaving) = Number(a) /\ ackLeaving' = Numbers(Tail(l))
    BY <1>1, <1>4, <1>5, <1>6, <1>7, NumbersTail
  <2>. QED
    BY <1>3, <2>1, <2>2 DEF Number
<1>9. Ahead(Beyond, a, AckedPackets) \in Twice
  BY <1>4, <1>5, <1>6, <1>7, Widening, FirstInOrder
<1>10. /\ SenderInv' /\ ReceiverInv' /\ Custody'
       /\ AckedPackets' = AckedPackets \union {a}
       /\ HeldPackets' = HeldPackets
       /\ \A p \in Packets : Launched(p) => Launched(p)'
  BY <1>1, <1>2, <1>8, <1>9, ProcessAckInv
<1>11. NetworkInv'
  <2>1. UNCHANGED <<dataHeld, dataLeaving, ackHeld>>
    BY <1>1 DEF dataNetwork
  <2>2. /\ \A i \in 1 .. Len(dataLeaving) : dataLeaving[i] \in Packets
        /\ \A i \in 1 .. Len(dataHeld) : dataHeld[i] \in Packets
    BY <1>2 DEF TypeOK
  <2>3. \A i \in 1 .. Len(dataLeaving') : Launched(dataLeaving[i])'
    BY <1>2, <1>10, <2>1, <2>2 DEF NetworkInv, Launched
  <2>4. \A i \in 1 .. Len(dataHeld') : Launched(dataHeld[i])'
    BY <1>2, <1>10, <2>1, <2>2 DEF NetworkInv, Launched
  <2>5. ~Delays => dataHeld' = <<>> /\ ackHeld' = <<>>
    BY <1>2, <2>1 DEF NetworkInv
  <2>. QED
    BY <2>1, <2>3, <2>4, <2>5 DEF NetworkInv
<1>12. DataOrder'
  BY <1>1, <1>2, <1>10 DEF DataOrder, dataNetwork
<1>13. AckOrder'
  <2>1. InOrder(Beyond, AckedPackets', h, Tail(l), Once, Twice)
    BY <1>4, <1>5, <1>6, <1>7, <1>10, Widening, ArriveInOrder
  <2>2. ackHeld' = Numbers(h)
    BY <1>1, <1>4
  <2>3. ackHeld' \in Seq(Slots) /\ ackLeaving' \in Seq(Slots)
    BY DEF TypeOK
  <2>. QED
    BY <1>8, <1>10, <2>1, <2>2, <2>3, AckOrderTravel DEF AcksTravel
<1>. QED
  BY <1>10, <1>11, <1>12, <1>13 DEF RoutedInv

(* An empty direction is in order.                                         *)
LEMMA EmptyInOrder ==
  ASSUME NEW R, NEW P, NEW E, NEW F
  PROVE  InOrder(R, P, <<>>, <<>>, E, F)
<1>1. 1 .. Len(<<>>) = {}
  OBVIOUS
<1>. QED
  BY <1>1 DEF InOrder

(* initializePayload and send fill the window with the first packets.      *)
LEMMA InitSenderInv == SenderInit => SenderInv /\ AckedPackets = {} /\ ~isPayloadSent
<1>. SUFFICES ASSUME SenderInit PROVE SenderInv /\ AckedPackets = {} /\ ~isPayloadSent
  OBVIOUS
<1>. DEFINE first == Missing(EmptyWindow, 0)
<1>1. /\ currentWindowOrigin = 0
      /\ windowState = Launch(EmptyWindow, first)
      /\ currentWindow = Launch(EmptyWindow, first)
      /\ isAcked = [p \in Packets |-> FALSE]
      /\ thread = [p \in Packets |-> IF p \in first THEN "running" ELSE "idle"]
      /\ ~isPayloadSent
  BY DEF SenderInit
<1>2. first = {p \in DataPackets : p < WINDOW_SIZE}
  BY SlotType, PacketKinds, CommonAssumption DEF Missing, EmptyWindow
<1>. HIDE DEF first
<1>3. \A p \in Packets : (Launched(p) <=> p \in first) /\ (Pending(p) <=> p \in first)
  BY <1>1, <1>2, PacketKinds, PacketCount, CommonAssumption DEF Launched, Pending, Eof
<1>4. first \in SUBSET Packets
  BY <1>2, PacketKinds
<1>5. ASSUME NEW s \in Slots
      PROVE  \/ windowState[s] = NULL /\ \A p \in first : Slot(p) # s
             \/ windowState[s] \in first /\ Slot(windowState[s]) = s
  <2>1. EmptyWindow[s] = NULL
    BY DEF EmptyWindow
  <2>. QED
    BY <1>1, <1>4, <2>1, LaunchValue
<1>6. ASSUME NEW p \in Packets, Pending(p) PROVE windowState[Slot(p)] = p
  <2>1. p \in first /\ p \in Nat /\ Slot(p) \in Slots
    BY <1>3, <1>6, PacketKinds, SlotType
  <2>2. PICK q : q = windowState[Slot(p)]
    OBVIOUS
  <2>3. q \in first /\ q \in Nat /\ Slot(q) = Slot(p)
    BY <1>4, <1>5, <2>1, <2>2, PacketKinds
  <2>4. p < WINDOW_SIZE /\ q < WINDOW_SIZE
    BY <1>2, <2>1, <2>3
  <2>. QED
    BY <2>1, <2>2, <2>3, <2>4, WindowSlots, CommonAssumption
<1>7. ASSUME NEW s \in Slots, windowState[s] # NULL
      PROVE  Pending(windowState[s]) /\ Slot(windowState[s]) = s
  BY <1>3, <1>4, <1>5, <1>7
<1>8. ASSUME NEW s \in Slots
      PROVE  currentWindow[s] = IF windowState[s] # NULL /\ ~isAcked[windowState[s]]
                                THEN windowState[s] ELSE NULL
  <2>1. windowState[s] # NULL => windowState[s] \in Packets
    BY <1>4, <1>5
  <2>. QED
    BY <1>1, <2>1
<1>9. \A p \in Packets : thread[p] # "idle" => Launched(p)
  BY <1>1, <1>3
<1>10. \A p \in DataPackets : p < currentWindowOrigin => isAcked[p]
  BY <1>1, PacketKinds
<1>11. AckedPackets = {}
  BY <1>1 DEF AckedPackets
<1>. QED
  BY <1>1, <1>6, <1>7, <1>8, <1>9, <1>10, <1>11 DEF SenderInv

(* startNewPayload empties queue and window.                               *)
LEMMA InitReceiverInv == ReceiverInit => ReceiverInv /\ HeldPackets = {}
<1>. SUFFICES ASSUME ReceiverInit PROVE ReceiverInv /\ HeldPackets = {}
  OBVIOUS
<1>1. /\ windowOrigin = 0 /\ receivedWindow = EmptyWindow /\ completedSet = <<>>
      /\ ~isPayloadComplete
  BY DEF ReceiverInit
<1>2. Len(<<>>) = 0 /\ <<>> = [i \in 1 .. 0 |-> i - 1]
  OBVIOUS
<1>3. \A s \in Slots : receivedWindow[s] = NULL
  BY <1>1 DEF EmptyWindow
<1>4. 0 \in 0 .. numberOfPackets
  BY PacketCount
<1>5. \A p \in Packets : ~Holds(p)
  BY <1>1, PacketKinds, SlotType DEF Holds, EmptyWindow, NULL
<1>. QED
  BY <1>1, <1>2, <1>3, <1>4, <1>5 DEF ReceiverInv, HeldPackets

(* The network is empty when the transfer starts.                          *)
LEMMA InitInv == Init => RoutedInv
<1>. SUFFICES ASSUME Init PROVE RoutedInv
  OBVIOUS
<1>1. /\ SenderInv /\ AckedPackets = {} /\ ~isPayloadSent
      /\ ReceiverInv /\ HeldPackets = {}
  BY InitSenderInv, InitReceiverInv DEF Init
<1>2. dataHeld = <<>> /\ dataLeaving = <<>> /\ ackHeld = <<>> /\ ackLeaving = <<>>
  BY DEF Init, Data!Init, Acks!Init
<1>3. Custody
  BY <1>1 DEF Custody, AckedPackets, HeldPackets
<1>4. NetworkInv
  BY <1>2 DEF NetworkInv
<1>5. DataOrder
  BY <1>2, EmptyInOrder DEF DataOrder
<1>6. AckOrder
  <2>1. <<>> \in Seq(HeldPackets) /\ <<>> \in Seq(Slots) /\ <<>> = Numbers(<<>>)
    BY DEF Numbers
  <2>2. AcksTravel(HeldPackets, <<>>, <<>>, AckedPackets)
    BY <2>1, EmptyInOrder DEF AcksTravel
  <2>. QED
    BY <1>2, <2>1, <2>2, AckOrderTravel
<1>. QED
  BY <1>1, <1>3, <1>4, <1>5, <1>6, InitType DEF RoutedInv

(* Where the Sender stays the same, so does what is said of it.            *)
LEMMA SameSender ==
  ASSUME UNCHANGED senderVars
  PROVE  /\ SenderInv => SenderInv'
         /\ AckedPackets' = AckedPackets
         /\ \A p : (Launched(p) <=> Launched(p)') /\ (Pending(p) <=> Pending(p)')
  BY DEF SenderInv, Launched, Pending, AckedPackets, senderVars

(* The same for the Receiver.                                              *)
LEMMA SameReceiver ==
  ASSUME UNCHANGED receiverVars
  PROVE  /\ ReceiverInv => ReceiverInv'
         /\ HeldPackets' = HeldPackets
         /\ \A p : Holds(p) <=> Holds(p)'
  BY DEF ReceiverInv, HeldPackets, Holds, receiverVars

(* Where both stay the same.                                               *)
LEMMA SameEnds ==
  ASSUME UNCHANGED <<senderVars, receiverVars>>
  PROVE  Custody => Custody'
<1>1. \A p : (Launched(p) <=> Launched(p)') /\ (Holds(p) <=> Holds(p)')
  BY SameSender, SameReceiver
<1>2. UNCHANGED <<isAcked, isPayloadSent, isPayloadComplete>>
  BY DEF senderVars, receiverVars
<1>. QED
  BY <1>1, <1>2 DEF Custody

(* A SenderThread that goes on changes nothing of that either.             *)
LEMMA TransitionInv ==
  ASSUME SenderTypeOK, NEW p \in Packets, NEW from, NEW to, from # "idle",
         Transition(p, from, to), UNCHANGED receiverVars
  PROVE  /\ SenderInv => SenderInv'
         /\ Custody => Custody'
         /\ AckedPackets' = AckedPackets
         /\ UNCHANGED <<currentWindowOrigin, isPayloadSent>>
         /\ \A q : Launched(q) <=> Launched(q)'
<1>1. /\ thread[p] = from /\ thread' = [thread EXCEPT ![p] = to]
      /\ UNCHANGED <<currentWindowOrigin, windowState, currentWindow, isAcked, isPayloadSent>>
  BY DEF Transition
<1>2. \A q : (Launched(q) <=> Launched(q)') /\ (Pending(q) <=> Pending(q)')
  BY <1>1 DEF Launched, Pending
<1>3. SenderInv => SenderInv'
  <2>1. \A q \in Packets : thread'[q] # "idle" => thread[q] # "idle"
    BY <1>1 DEF SenderTypeOK
  <2>. QED
    BY <1>1, <2>1 DEF SenderInv, Launched, Pending
<1>4. Custody => Custody'
  BY <1>1, <1>2, SameReceiver DEF Custody, receiverVars
<1>5. AckedPackets' = AckedPackets
  BY <1>1 DEF AckedPackets
<1>. QED
  BY <1>1, <1>2, <1>3, <1>4, <1>5

(* The same of the steps of SenderThread::run.                             *)
LEMMA ThreadInv ==
  ASSUME SenderTypeOK, NEW p \in Packets, UNCHANGED receiverVars,
         ThreadExit(p) \/ ThreadCommit(p) \/ ThreadSend(p)
  PROVE  /\ SenderInv => SenderInv'
         /\ Custody => Custody'
         /\ AckedPackets' = AckedPackets
         /\ UNCHANGED <<currentWindowOrigin, isPayloadSent>>
         /\ \A q : Launched(q) <=> Launched(q)'
<1>1. CASE Transition(p, "running", "done")
  BY <1>1, TransitionInv
<1>2. CASE Transition(p, "running", "committed")
  BY <1>2, TransitionInv
<1>3. CASE Transition(p, "committed", "running")
  BY <1>3, TransitionInv
<1>. QED
  BY <1>1, <1>2, <1>3 DEF ThreadExit, ThreadCommit, ThreadSend

(* A SenderThread tests its flag.                                          *)
LEMMA TestFlagInv ==
  ASSUME RoutedInv, TypeOK', NEW p \in Packets, ExitThread(p) \/ CommitThread(p)
  PROVE  RoutedInv'
<1>1. /\ SenderTypeOK /\ SenderInv /\ ReceiverInv /\ Custody
      /\ NetworkInv /\ DataOrder /\ AckOrder
  BY DEF RoutedInv, TypeOK, EndsTypeOK
<1>2. /\ ThreadExit(p) \/ ThreadCommit(p)
      /\ UNCHANGED <<receiverVars, dataNetwork, ackNetwork>>
  BY DEF ExitThread, CommitThread
<1>3. /\ SenderInv' /\ Custody' /\ AckedPackets' = AckedPackets
      /\ UNCHANGED currentWindowOrigin
  BY <1>1, <1>2, ThreadInv
<1>4. ReceiverInv' /\ HeldPackets' = HeldPackets
  BY <1>1, <1>2, SameReceiver
<1>5. UNCHANGED <<dataHeld, dataLeaving, ackHeld, ackLeaving>>
  BY <1>2 DEF dataNetwork, ackNetwork
<1>6. NetworkInv'
  BY <1>1, <1>3, <1>5 DEF NetworkInv, Launched
<1>7. DataOrder' /\ AckOrder'
  BY <1>1, <1>3, <1>4, <1>5 DEF DataOrder, AckOrder
<1>. QED
  BY <1>3, <1>4, <1>6, <1>7 DEF RoutedInv

(* A step of the network that carries data.                                *)
LEMMA DataStep ==
  ASSUME RoutedInv, TypeOK', UNCHANGED <<receiverVars, ackNetwork, currentWindowOrigin>>,
         SenderInv', Custody', AckedPackets' = AckedPackets,
         dataHeld' \in Seq(LaunchedPackets), dataLeaving' \in Seq(LaunchedPackets),
         InOrder(Beyond, HeldPackets, dataHeld', dataLeaving', Never, Once),
         ~Delays => dataHeld' = <<>>
  PROVE  RoutedInv'
<1>1. TypeOK /\ ReceiverInv /\ NetworkInv /\ AckOrder
  BY DEF RoutedInv
<1>2. ReceiverInv' /\ HeldPackets' = HeldPackets
  BY <1>1, SameReceiver
<1>3. DataOrder'
  BY <1>2 DEF DataOrder
<1>4. AckOrder'
  BY <1>1, <1>2 DEF AckOrder, ackNetwork
<1>5. /\ \A i \in 1 .. Len(dataLeaving') : dataLeaving'[i] \in LaunchedPackets
      /\ \A i \in 1 .. Len(dataHeld') : dataHeld'[i] \in LaunchedPackets
  OBVIOUS
<1>6. NetworkInv'
  BY <1>1, <1>5 DEF NetworkInv, LaunchedPackets, Launched, ackNetwork
<1>. QED
  BY <1>2, <1>3, <1>4, <1>6 DEF RoutedInv

(* What is on the network, as sequences of launched packets.               *)
LEMMA DataSequences ==
  ASSUME TypeOK, NetworkInv
  PROVE  /\ dataHeld \in Seq(LaunchedPackets) /\ dataLeaving \in Seq(LaunchedPackets)
         /\ dataHeld \in Seq(Int) /\ dataLeaving \in Seq(Int)
         /\ Len(dataHeld) <= 1 /\ (~Delays => dataHeld = <<>>)
<1>1. /\ dataHeld \in Seq(Packets) /\ dataLeaving \in Seq(Packets) /\ Len(dataHeld) <= 1
      /\ ~Delays => dataHeld = <<>>
  BY DEF TypeOK, NetworkInv
<1>2. /\ \A i \in 1 .. Len(dataLeaving) : dataLeaving[i] \in LaunchedPackets
      /\ \A i \in 1 .. Len(dataHeld) : dataHeld[i] \in LaunchedPackets
  BY <1>1 DEF NetworkInv, LaunchedPackets
<1>3. dataHeld \in Seq(LaunchedPackets) /\ dataLeaving \in Seq(LaunchedPackets)
  BY <1>1, <1>2, SequenceOf
<1>4. dataHeld \in Seq(Int) /\ dataLeaving \in Seq(Int)
  BY <1>1, PacketKinds, SubsetSequence
<1>. QED
  BY <1>1, <1>3, <1>4

(* A thread that is about to send is not late: nothing launched is beyond  *)
(* its packet.                                                             *)
LEMMA NotLate ==
  ASSUME EndsTypeOK, Prompt, NEW p \in Packets, thread[p] = "committed",
         NEW P, \A q \in P \intersect Packets : Launched(q)
  PROVE  Ahead(Beyond, p, P) \in Never
<1>1. Slack \in Int /\ WINDOW_SIZE \in Nat /\ currentWindowOrigin <= p + Slack
  BY CommonAssumption DEF Prompt, Slack
<1>2. ASSUME NEW q \in P \intersect Packets PROVE ~(p + WINDOW_SIZE + Slack <= q)
  <2>1. q \in Packets /\ q \in Nat /\ q < currentWindowOrigin + WINDOW_SIZE
    BY LaunchedRange, PacketKinds
  <2>. QED
    BY <1>1, <2>1, PacketKinds, OriginType
<1>3. Ahead(Beyond, p, P) = {}
  BY <1>2 DEF Ahead, Beyond
<1>. QED
  BY <1>3 DEF Never

(* A SenderThread calls sendto.                                            *)
LEMMA SendPacketInv ==
  ASSUME RoutedInv, Prompt, TypeOK', NEW p \in Packets, SendPacket(p)
  PROVE  RoutedInv'
<1>1. TypeOK /\ EndsTypeOK /\ SenderTypeOK /\ SenderInv /\ Custody /\ NetworkInv /\ DataOrder
  BY DEF RoutedInv, TypeOK, EndsTypeOK
<1>2. /\ ThreadSend(p) /\ thread[p] = "committed" /\ Transmit(p)
      /\ UNCHANGED <<receiverVars, ackNetwork>>
  BY DEF SendPacket, ThreadSend, Transition
<1>3. Sends(p, dataHeld, dataLeaving, dataHeld', dataLeaving')
  BY <1>2 DEF Sends, Transmit, Data!Lose, Data!dcVars, Data!Hold, Data!Pass
<1>4. p \in LaunchedPackets /\ p \in Int
  BY <1>1, <1>2, PacketKinds DEF LaunchedPackets, SenderInv
<1>5. /\ dataHeld \in Seq(LaunchedPackets) /\ dataLeaving \in Seq(LaunchedPackets)
      /\ dataHeld \in Seq(Int) /\ dataLeaving \in Seq(Int)
      /\ Len(dataHeld) <= 1 /\ (~Delays => dataHeld = <<>>)
  BY <1>1, DataSequences
<1>6. dataHeld' \in Seq(LaunchedPackets) /\ dataLeaving' \in Seq(LaunchedPackets)
  BY <1>3, <1>4, <1>5, SendElements
<1>7. Ahead(Beyond, p, HeldPackets \union Elements(dataLeaving)) \in Never
  <2>1. \A q \in HeldPackets : Launched(q)
    BY <1>1 DEF HeldPackets, Custody
  <2>2. \A i \in 1 .. Len(dataLeaving) : dataLeaving[i] \in LaunchedPackets
    BY <1>5
  <2>. QED
    BY <1>1, <1>2, <2>1, <2>2, NotLate DEF LaunchedPackets, Elements
<1>8. /\ InOrder(Beyond, HeldPackets, dataHeld', dataLeaving', Never, Once)
      /\ ~Delays => dataHeld' = <<>>
  <2>1. InOrder(Beyond, HeldPackets, dataHeld, dataLeaving, Never, Once)
    BY <1>1 DEF DataOrder
  <2>. QED
    BY <1>3, <1>4, <1>5, <1>7, <2>1, Widening, SendInOrder
<1>9. /\ SenderInv' /\ Custody' /\ AckedPackets' = AckedPackets
      /\ UNCHANGED currentWindowOrigin
  BY <1>1, <1>2, ThreadInv
<1>. QED
  BY <1>2, <1>6, <1>8, <1>9, DataStep

(* The router lets go of the data it holds back.                           *)
LEMMA ReleaseDataInv ==
  ASSUME RoutedInv, TypeOK', ReleaseData
  PROVE  RoutedInv'
<1>1. TypeOK /\ NetworkInv /\ DataOrder
  BY DEF RoutedInv
<1>2. /\ dataHeld # <<>> /\ dataLeaving' = dataLeaving \o dataHeld /\ dataHeld' = <<>>
      /\ UNCHANGED <<senderVars, receiverVars, ackNetwork>>
  BY DEF ReleaseData, Data!Release
<1>3. /\ dataHeld \in Seq(LaunchedPackets) /\ dataLeaving \in Seq(LaunchedPackets)
      /\ dataHeld \in Seq(Int) /\ dataLeaving \in Seq(Int)
      /\ Len(dataHeld) <= 1
  BY <1>1, DataSequences
<1>4. Len(dataHeld) = 1
  BY <1>2, <1>3, AtMostOne
<1>5. <<>> \in Seq(LaunchedPackets) /\ dataLeaving \o dataHeld \in Seq(LaunchedPackets)
  BY <1>3
<1>6. InOrder(Beyond, HeldPackets, <<>>, dataLeaving \o dataHeld, Never, Once)
  BY <1>1, <1>3, <1>4, Widening, ReleaseInOrder DEF DataOrder
<1>7. /\ SenderInv' /\ Custody' /\ AckedPackets' = AckedPackets
      /\ UNCHANGED currentWindowOrigin
  BY <1>2, SameSender, SameEnds DEF RoutedInv, senderVars
<1>. QED
  BY <1>2, <1>5, <1>6, <1>7, DataStep

(* The router lets go of the ACK it holds back.                            *)
LEMMA ReleaseAckInv ==
  ASSUME RoutedInv, TypeOK', ReleaseAck
  PROVE  RoutedInv'
<1>1. TypeOK /\ SenderInv /\ ReceiverInv /\ Custody /\ NetworkInv /\ DataOrder /\ AckOrder
  BY DEF RoutedInv
<1>2. /\ ackHeld # <<>> /\ ackLeaving' = ackLeaving \o ackHeld /\ ackHeld' = <<>>
      /\ UNCHANGED <<senderVars, receiverVars, dataNetwork>>
  BY DEF ReleaseAck, Acks!Release
<1>3. PICK h \in Seq(HeldPackets), l \in Seq(HeldPackets) :
        /\ ackHeld = Numbers(h) /\ ackLeaving = Numbers(l)
        /\ InOrder(Beyond, AckedPackets, h, l, Once, Twice)
  BY <1>1, AckPackets
<1>4. h \in Seq(Int) /\ l \in Seq(Int)
  BY PacketKinds DEF HeldPackets
<1>5. Len(h) = 1
  <2>1. ackHeld \in Seq(Slots) /\ Len(ackHeld) <= 1
    BY <1>1 DEF TypeOK
  <2>2. Len(ackHeld) = 1
    BY <1>2, <2>1, AtMostOne
  <2>. QED
    BY <1>3, <1>4, <2>2, NumbersType
<1>6. <<>> = Numbers(<<>>) /\ ackLeaving' = Numbers(l \o h)
  BY <1>2, <1>3, <1>4, <1>5, NumbersRelease
<1>7. InOrder(Beyond, AckedPackets, <<>>, l \o h, Once, Twice)
  BY <1>3, <1>4, <1>5, Widening, ReleaseInOrder
<1>8. HeldPackets' = HeldPackets /\ AckedPackets' = AckedPackets
  BY <1>2, SameSender, SameReceiver
<1>9. AckOrder'
  <2>1. <<>> \in Seq(HeldPackets) /\ l \o h \in Seq(HeldPackets)
    OBVIOUS
  <2>2. ackHeld' \in Seq(Slots) /\ ackLeaving' \in Seq(Slots)
    BY DEF TypeOK
  <2>. QED
    BY <1>2, <1>6, <1>7, <1>8, <2>1, <2>2, AckOrderTravel DEF AcksTravel
<1>10. SenderInv' /\ ReceiverInv' /\ Custody'
  BY <1>1, <1>2, SameSender, SameReceiver, SameEnds
<1>11. NetworkInv'
  BY <1>1, <1>2 DEF NetworkInv, Launched, senderVars, dataNetwork
<1>12. DataOrder'
  BY <1>1, <1>2, <1>8 DEF DataOrder, dataNetwork
<1>. QED
  BY <1>9, <1>10, <1>11, <1>12 DEF RoutedInv

(* An ACK for packet p is sent, where p is not late.                       *)
LEMMA AcknowledgeInOrder ==
  ASSUME TypeOK, Custody, NetworkInv, AckOrder, NEW p \in Packets, Acknowledge(Slot(p)),
         Ahead(Beyond, p, HeldPackets) \in Once, NEW S \in SUBSET Packets,
         HeldPackets \subseteq S, p \in S
  PROVE  /\ AcksTravel(S, ackHeld', ackLeaving', AckedPackets)
         /\ ~Delays => ackHeld' = <<>>
<1>1. PICK h \in Seq(HeldPackets), l \in Seq(HeldPackets) :
        /\ ackHeld = Numbers(h) /\ ackLeaving = Numbers(l)
        /\ InOrder(Beyond, AckedPackets, h, l, Once, Twice)
  BY AckPackets
<1>2. /\ h \in Seq(Int) /\ l \in Seq(Int) /\ p \in Int
      /\ h \in Seq(S) /\ l \in Seq(S)
  BY PacketKinds DEF HeldPackets
<1>3. Len(h) <= 1 /\ (~Delays => h = <<>>)
  <2>1. Len(ackHeld) <= 1 /\ (~Delays => ackHeld = <<>>)
    BY DEF TypeOK, NetworkInv
  <2>2. Len(ackHeld) = Len(h) /\ (ackHeld = <<>> => Len(h) = 0)
    BY <1>1, <1>2, NumbersType
  <2>. QED
    BY <1>2, <2>1, <2>2
<1>4. Sends(Number(p), Numbers(h), Numbers(l), ackHeld', ackLeaving')
  <2>1. Sends(Slot(p), ackHeld, ackLeaving, ackHeld', ackLeaving')
    BY DEF Acknowledge, Sends, Acks!Lose, Acks!dcVars, Acks!Hold, Acks!Pass
  <2>2. Slot(p) = Number(p)
    BY DEF Number
  <2>. QED
    BY <1>1, <2>1, <2>2
<1>5. PICK k \in Seq(Int), n \in Seq(Int) :
        ackHeld' = Numbers(k) /\ ackLeaving' = Numbers(n) /\ Sends(p, h, l, k, n)
  BY <1>2, <1>3, <1>4, SendNumbers
<1>6. k \in Seq(S) /\ n \in Seq(S)
  BY <1>2, <1>3, <1>5, SendElements
<1>7. Ahead(Beyond, p, AckedPackets \union Elements(l)) \in Once
  <2>1. AckedPackets \subseteq HeldPackets
    BY DEF AckedPackets, HeldPackets, Custody
  <2>2. Elements(l) \subseteq HeldPackets
    BY DEF Elements
  <2>3. AckedPackets \union Elements(l) \subseteq HeldPackets
    BY <2>1, <2>2
  <2>. QED
    BY <2>3, Widening, AheadSubset
<1>8. InOrder(Beyond, AckedPackets, k, n, Once, Twice) /\ (~Delays => k = <<>>)
  BY <1>1, <1>2, <1>3, <1>5, <1>7, Widening, SendInOrder
<1>9. AcksTravel(S, ackHeld', ackLeaving', AckedPackets)
  BY <1>5, <1>6, <1>8 DEF AcksTravel
<1>10. ~Delays => ackHeld' = <<>>
  <2>1. Numbers(<<>>) = <<>>
    BY DEF Numbers
  <2>. QED
    BY <1>5, <1>8, <2>1
<1>. QED
  BY <1>9, <1>10

(* What the receiver's branches have in common: it has of the payload what *)
(* it had, and at most the packet that came; the packet it acknowledges.   *)
Takes(p) ==
  /\ ReceiverInv'
  /\ HeldPackets \subseteq HeldPackets'
  /\ HeldPackets' \subseteq HeldPackets \union {p}
  /\ isPayloadComplete => isPayloadComplete'
  /\ \/ Acknowledge(Slot(p)) /\ p \in HeldPackets'
     \/ UNCHANGED ackNetwork

(* What it gets was launched.                                              *)
LEMMA TakesCustody ==
  ASSUME Custody, UNCHANGED senderVars, NEW p \in Packets, Takes(p), Launched(p)
  PROVE  Custody'
<1>1. \A q \in Packets : (Holds(q) <=> q \in HeldPackets) /\ (Holds(q)' <=> q \in HeldPackets')
  BY DEF HeldPackets
<1>2. \A q \in Packets : Launched(q)' <=> Launched(q)
  BY SameSender
<1>3. UNCHANGED <<isAcked, isPayloadSent>>
  BY DEF senderVars
<1>4. \A q \in Packets : Holds(q)' => Launched(q)'
  BY <1>1, <1>2 DEF Custody, Takes
<1>5. \A q \in Packets : isAcked'[q] => Holds(q)'
  BY <1>1, <1>3 DEF Custody, Takes
<1>6. isPayloadSent' => isPayloadComplete'
  BY <1>3 DEF Custody, Takes
<1>. QED
  BY <1>4, <1>5, <1>6 DEF Custody

(* A message that the receiver takes keeps the invariant.                  *)
LEMMA TakesInv ==
  ASSUME RoutedInv, TypeOK', dataLeaving # <<>>, dataLeaving' = Tail(dataLeaving),
         UNCHANGED <<senderVars, dataHeld>>, NEW p \in Packets, p = Head(dataLeaving),
         Takes(p), Launched(p), Ahead(Beyond, p, HeldPackets) \in Once
  PROVE  RoutedInv'
<1>1. TypeOK /\ SenderInv /\ ReceiverInv /\ Custody /\ NetworkInv /\ DataOrder /\ AckOrder
  BY DEF RoutedInv
<1>2. SenderInv' /\ AckedPackets' = AckedPackets
  BY <1>1, SameSender
<1>3. /\ dataHeld \in Seq(LaunchedPackets) /\ dataLeaving \in Seq(LaunchedPackets)
      /\ dataHeld \in Seq(Int) /\ dataLeaving \in Seq(Int)
  BY <1>1, DataSequences
<1>4. PICK S : S = HeldPackets'
  OBVIOUS
<1>5. S \in SUBSET Packets /\ HeldPackets \subseteq S /\ S \subseteq HeldPackets \union {p}
  BY <1>4 DEF Takes, HeldPackets
<1>6. DataOrder'
  <2>1. InOrder(Beyond, HeldPackets, dataHeld, dataLeaving, Never, Once)
    BY <1>1 DEF DataOrder
  <2>2. InOrder(Beyond, S, dataHeld, Tail(dataLeaving), Never, Once)
    BY <1>3, <1>5, <2>1, Widening, ArriveInOrder
  <2>. QED
    BY <1>4, <2>2 DEF DataOrder
<1>7. /\ AcksTravel(S, ackHeld', ackLeaving', AckedPackets)
      /\ ~Delays => ackHeld' = <<>>
  <2>1. CASE Acknowledge(Slot(p)) /\ p \in HeldPackets'
    BY <1>1, <1>4, <1>5, <2>1, AcknowledgeInOrder
  <2>2. CASE UNCHANGED ackNetwork
    <3>1. PICK h \in Seq(HeldPackets), l \in Seq(HeldPackets) :
            /\ ackHeld = Numbers(h) /\ ackLeaving = Numbers(l)
            /\ InOrder(Beyond, AckedPackets, h, l, Once, Twice)
      BY <1>1, AckPackets
    <3>2. h \in Seq(S) /\ l \in Seq(S)
      BY <1>5
    <3>3. ackHeld' = ackHeld /\ ackLeaving' = ackLeaving
      BY <2>2 DEF ackNetwork
    <3>4. AcksTravel(S, ackHeld', ackLeaving', AckedPackets)
      BY <3>1, <3>2, <3>3 DEF AcksTravel
    <3>5. ~Delays => ackHeld = <<>>
      BY <1>1 DEF NetworkInv
    <3>. QED
      BY <3>3, <3>4, <3>5
  <2>. QED
    BY <2>1, <2>2 DEF Takes
<1>8. AckOrder'
  BY <1>2, <1>4, <1>7, AckOrderTravel DEF TypeOK
<1>9. Custody'
  BY <1>1, TakesCustody
<1>10. NetworkInv'
  <2>1. Tail(dataLeaving) \in Seq(LaunchedPackets)
    BY <1>3, TailType
  <2>2. /\ \A i \in 1 .. Len(dataLeaving') : dataLeaving'[i] \in LaunchedPackets
        /\ \A i \in 1 .. Len(dataHeld') : dataHeld'[i] \in LaunchedPackets
    BY <1>3, <2>1
  <2>3. /\ \A i \in 1 .. Len(dataLeaving') : Launched(dataLeaving[i])'
        /\ \A i \in 1 .. Len(dataHeld') : Launched(dataHeld[i])'
    BY <2>2 DEF Launched, LaunchedPackets, senderVars
  <2>4. ~Delays => dataHeld' = <<>>
    BY <1>1 DEF NetworkInv
  <2>. QED
    BY <1>7, <2>3, <2>4 DEF NetworkInv
<1>. QED
  BY <1>2, <1>6, <1>8, <1>9, <1>10 DEF RoutedInv, Takes

(* A packet not registered is one the receiver has: it is behind the       *)
(* window, or in it, and then its slot holds it and not another packet.    *)
LEMMA DiscardedIsHeld ==
  ASSUME EndsTypeOK, ReceiverInv, NEW p \in DataPackets, ~Registers(p),
         p < windowOrigin + WINDOW_SIZE, windowOrigin + WINDOW_SIZE <= p + SEQUENCE_RANGE
  PROVE  Holds(p)
<1>1. p \in Nat /\ p # Eof /\ Slot(p) \in Slots /\ windowOrigin \in Nat
  BY PacketKinds, SlotType, OriginType
<1>2. CASE ~IsSequenceNumberInWindow(Slot(p))
  BY <1>1, <1>2, WindowTest DEF Holds
<1>3. CASE IsSequenceNumberInWindow(Slot(p))
  <2>1. windowOrigin <= p
    BY <1>1, <1>3, WindowTest
  <2>2. receivedWindow[Slot(p)] # NULL
    BY <1>3 DEF Registers
  <2>3. PICK v : v = receivedWindow[Slot(p)]
    OBVIOUS
  <2>4. /\ v \in Nat /\ Slot(v) = Slot(p)
        /\ windowOrigin < v /\ v < windowOrigin + WINDOW_SIZE
    BY <1>1, <2>2, <2>3, WindowPacket
  <2>5. windowOrigin <= v
    BY <1>1, <2>4
  <2>6. v = p
    BY <1>1, <2>1, <2>4, <2>5, WindowSlots
  <2>. QED
    BY <1>1, <2>3, <2>6 DEF Holds
<1>. QED
  BY <1>2, <1>3

(* Nothing the receiver has changes.                                       *)
LEMMA SameTakes ==
  ASSUME ReceiverInv, UNCHANGED receiverVars, NEW p \in Packets,
         (Acknowledge(Slot(p)) /\ Holds(p)) \/ UNCHANGED ackNetwork
  PROVE  Takes(p)
<1>1. ReceiverInv' /\ isPayloadComplete' = isPayloadComplete
  BY DEF ReceiverInv, receiverVars
<1>2. HeldPackets' = HeldPackets
  BY DEF HeldPackets, Holds, receiverVars
<1>3. Holds(p) => p \in HeldPackets
  BY DEF HeldPackets
<1>. QED
  BY <1>1, <1>2, <1>3 DEF Takes

(* A data packet arrives before the payload is complete.                   *)
LEMMA ReceiveDataTakes ==
  ASSUME RangeSuffices, EndsTypeOK, ReceiverInv, NEW p \in Packets, ReceiveData(p),
         p < windowOrigin + WINDOW_SIZE,
         windowOrigin <= p + WINDOW_SIZE + Slack + (IF Delays THEN 1 ELSE 0)
  PROVE  Takes(p)
<1>1. /\ p \in DataPackets /\ p \in Nat /\ ~isPayloadComplete
      /\ Acknowledge(Slot(p)) /\ HandleData(p)
  BY PacketKinds DEF ReceiveData
<1>2. windowOrigin + WINDOW_SIZE <= p + SEQUENCE_RANGE
  BY <1>1, OriginType, RangeFacts
<1>3. CASE RegisterPacket(p)
  <2>1. IsSequenceNumberInWindow(Slot(p))
    BY <1>3 DEF RegisterPacket, Registers
  <2>2. windowOrigin <= p
    BY <1>1, <1>2, <2>1, OriginType, WindowTest
  <2>3. ReceiverInv' /\ \A q \in Packets : Holds(q)' <=> Holds(q) \/ q = p
    BY <1>1, <1>3, <2>2, RegisterPacketInv
  <2>4. \A q \in Packets : q \in HeldPackets' <=> q \in HeldPackets \/ q = p
    BY <2>3 DEF HeldPackets
  <2>5. HeldPackets \subseteq Packets /\ HeldPackets' \subseteq Packets
    BY DEF HeldPackets
  <2>. QED
    BY <1>1, <2>3, <2>4, <2>5 DEF Takes
<1>4. CASE DiscardPacket(p)
  <2>1. ~Registers(p) /\ UNCHANGED receiverVars
    BY <1>4 DEF DiscardPacket
  <2>2. Holds(p)
    BY <1>1, <1>2, <2>1, DiscardedIsHeld
  <2>. QED
    BY <1>1, <2>1, <2>2, SameTakes
<1>. QED
  BY <1>1, <1>3, <1>4 DEF HandleData

(* The EOF was launched, so every data packet was acknowledged, and the    *)
(* receiver has them all when it arrives.                                  *)
LEMMA AcceptEofTakes ==
  ASSUME EndsTypeOK, SenderInv, ReceiverInv, Custody, ~isPayloadComplete, AcceptEof,
         Launched(Eof), Acknowledge(Slot(Eof))
  PROVE  Takes(Eof)
<1>1. currentWindowOrigin = numberOfPackets
  BY DEF Launched
<1>2. /\ windowOrigin = numberOfPackets /\ windowOrigin = Len(completedSet)
      /\ numberOfPackets \in Nat
  BY <1>1, OriginBehind, OriginType, ReceiverRange
<1>3. /\ windowOrigin' = numberOfPackets + 1 /\ isPayloadComplete' = TRUE
      /\ UNCHANGED <<receivedWindow, completedSet>>
  BY <1>2 DEF AcceptEof
<1>4. ASSUME NEW s \in Slots PROVE receivedWindow[s] = NULL
  <2>1. SUFFICES ASSUME receivedWindow[s] # NULL PROVE FALSE
    OBVIOUS
  <2>2. PICK v : v = receivedWindow[s]
    OBVIOUS
  <2>3. v \in DataPackets /\ v \in Nat /\ windowOrigin < v
    BY <2>1, <2>2, WindowPacket
  <2>. QED
    BY <1>2, <2>3 DEF DataPackets
<1>5. ReceiverInv'
  BY <1>2, <1>3, <1>4 DEF ReceiverInv
<1>6. \A q \in Packets : Holds(q)' /\ (Holds(q) \/ q = Eof)
  BY <1>2, <1>3, PacketKinds DEF Holds, DataPackets
<1>7. /\ HeldPackets' = Packets /\ HeldPackets \subseteq Packets
      /\ Packets \subseteq HeldPackets \union {Eof} /\ Eof \in Packets
  BY <1>6, PacketKinds DEF HeldPackets
<1>. QED
  BY <1>3, <1>5, <1>7 DEF Takes

(* The complete payload has every packet.                                  *)
LEMMA CompleteHolds ==
  ASSUME ReceiverInv, isPayloadComplete, NEW p \in Packets
  PROVE  Holds(p)
<1>1. windowOrigin = numberOfPackets + 1
  BY DEF ReceiverInv
<1>. QED
  BY <1>1, PacketCount DEF Holds, Packets

(* Whatever handleMsg, or sendAck in place of it, does with a packet.      *)
LEMMA MessageTakes ==
  ASSUME RangeSuffices, EndsTypeOK, SenderInv, ReceiverInv, Custody,
         NEW p \in Packets, Launched(p), p < windowOrigin + WINDOW_SIZE,
         ~isPayloadComplete => windowOrigin <= p + WINDOW_SIZE + Slack + (IF Delays THEN 1 ELSE 0),
         ReceiveData(p) \/ ReceiveEof(p) \/ ReAcknowledge(p)
  PROVE  Takes(p)
<1>1. CASE ReceiveData(p)
  <2>1. ~isPayloadComplete
    BY <1>1 DEF ReceiveData
  <2>. QED
    BY <1>1, <2>1, ReceiveDataTakes
<1>2. CASE ReceiveEof(p)
  <2>1. p = Eof /\ ~isPayloadComplete
    BY <1>2 DEF ReceiveEof
  <2>2. CASE AcceptEof /\ Acknowledge(Slot(Eof))
    BY <2>1, <2>2, AcceptEofTakes
  <2>3. CASE IgnoreEof /\ UNCHANGED ackNetwork
    BY <2>3, SameTakes DEF IgnoreEof
  <2>. QED
    BY <1>2, <2>2, <2>3 DEF ReceiveEof
<1>3. CASE ReAcknowledge(p)
  <2>1. isPayloadComplete /\ Acknowledge(Slot(p)) /\ UNCHANGED receiverVars
    BY <1>3 DEF ReAcknowledge
  <2>2. Holds(p)
    BY <2>1, CompleteHolds
  <2>. QED
    BY <2>1, <2>2, SameTakes
<1>. QED
  BY <1>1, <1>2, <1>3

(* A message arrives at the receiver.                                      *)
LEMMA ReceiveMessageInv ==
  ASSUME RangeSuffices, RoutedInv, TypeOK', ReceiveMessage
  PROVE  RoutedInv'
<1>1. /\ TypeOK /\ EndsTypeOK /\ SenderInv /\ ReceiverInv /\ Custody
      /\ NetworkInv /\ DataOrder
  BY DEF RoutedInv, TypeOK
<1>2. PICK p : p = Head(dataLeaving)
  OBVIOUS
<1>3. /\ dataLeaving # <<>> /\ dataLeaving' = Tail(dataLeaving)
      /\ UNCHANGED <<senderVars, dataHeld>>
      /\ ReceiveData(p) \/ ReceiveEof(p) \/ ReAcknowledge(p)
  BY <1>2 DEF ReceiveMessage
<1>4. /\ p \in Packets /\ Launched(p) /\ Ahead(Beyond, p, HeldPackets) \in Once
      /\ p < windowOrigin + WINDOW_SIZE
      /\ ~isPayloadComplete =>
           windowOrigin <= p + WINDOW_SIZE + Slack + (IF Delays THEN 1 ELSE 0)
  BY <1>1, <1>2, <1>3, DataNear
<1>5. Takes(p)
  BY <1>1, <1>3, <1>4, MessageTakes
<1>. QED
  BY <1>2, <1>3, <1>4, <1>5, TakesInv

(* Every step keeps the invariant.                                         *)
LEMMA NextInv ==
  ASSUME RangeSuffices, RoutedInv, Prompt, [Next]_vars
  PROVE  RoutedInv'
<1>1. TypeOK'
  BY NextType DEF RoutedInv
<1>2. CASE ReceiveAck
  BY <1>1, <1>2, ReceiveAckInv
<1>3. ASSUME NEW p \in Packets, ExitThread(p) \/ CommitThread(p)
      PROVE  RoutedInv'
  BY <1>1, <1>3, TestFlagInv
<1>4. ASSUME NEW p \in Packets, SendPacket(p)
      PROVE  RoutedInv'
  BY <1>1, <1>4, SendPacketInv
<1>5. CASE ReceiveMessage
  BY <1>1, <1>5, ReceiveMessageInv
<1>6. CASE ReleaseData
  BY <1>1, <1>6, ReleaseDataInv
<1>7. CASE ReleaseAck
  BY <1>1, <1>7, ReleaseAckInv
<1>8. CASE UNCHANGED vars
  <2>1. UNCHANGED <<senderVars, receiverVars, dataNetwork, ackNetwork>>
    BY <1>8 DEF vars
  <2>2. /\ SenderInv' /\ ReceiverInv' /\ Custody'
        /\ HeldPackets' = HeldPackets /\ AckedPackets' = AckedPackets
    BY <2>1, SameSender, SameReceiver, SameEnds DEF RoutedInv
  <2>3. NetworkInv'
    BY <2>1 DEF RoutedInv, NetworkInv, Launched, senderVars, dataNetwork, ackNetwork
  <2>4. DataOrder' /\ AckOrder'
    BY <2>1, <2>2 DEF RoutedInv, DataOrder, AckOrder, dataNetwork, ackNetwork
  <2>. QED
    BY <1>1, <2>2, <2>3, <2>4 DEF RoutedInv
<1>. QED
  BY <1>2, <1>3, <1>4, <1>5, <1>6, <1>7, <1>8 DEF Next

(* The specification that TLC runs is one of those the theorems are about: *)
(* leaving out the steps that end Prompt keeps it true.                    *)
THEOREM PromptThroughout == PromptSpec => Spec /\ []Prompt
<1>1. Init => Prompt
  BY DEF Init, SenderInit, Prompt
<1>2. Prompt /\ [Next /\ Prompt']_vars => Prompt'
  BY DEF Prompt, vars, senderVars
<1>3. [Next /\ Prompt']_vars => [Next]_vars
  OBVIOUS
<1>. QED
  BY <1>1, <1>2, <1>3, PTL DEF PromptSpec, Spec

(* Where the sequence range suffices for the window, for the delays of the *)
(* router and for those of the threads between test and sendto (Prompt),   *)
(* what processAck and handleMsg know of a packet by its sequence number   *)
(* is true of that packet, however often numbers are reused.               *)
THEOREM RoutedInductive ==
  ASSUME RangeSuffices
  PROVE  Spec /\ []Prompt => []RoutedInv
<1>1. Init => RoutedInv
  BY InitInv
<1>2. RoutedInv /\ Prompt /\ [Next]_vars => RoutedInv'
  BY NextInv
<1>. QED
  BY <1>1, <1>2, PTL DEF Spec

(* No retransmission is stopped by the ACK of another packet with the same *)
(* number: what the sender takes for acknowledged the receiver has.        *)
THEOREM RoutedAckedIsHeld ==
  ASSUME RangeSuffices
  PROVE  Spec /\ []Prompt => []AckedIsHeld
<1>1. RoutedInv => AckedIsHeld
  BY DEF RoutedInv, Custody, AckedIsHeld
<1>. QED
  BY <1>1, RoutedInductive, PTL

(* What has been delivered is a prefix of the payload, in order.           *)
THEOREM RoutedDeliveredPrefix ==
  ASSUME RangeSuffices
  PROVE  Spec /\ []Prompt => []DeliveredPrefix
<1>1. RoutedInv => DeliveredPrefix
  <2>. SUFFICES ASSUME RoutedInv PROVE DeliveredPrefix
    OBVIOUS
  <2>1. PICK n : n = Len(completedSet)
    OBVIOUS
  <2>2. /\ completedSet = [i \in 1 .. n |-> i - 1] /\ n \in 0 .. numberOfPackets
        /\ numberOfPackets \in Nat
    BY <2>1, PacketCount DEF RoutedInv, ReceiverInv
  <2>3. SubSeq(Payload, 1, n) = [i \in 1 .. n |-> Payload[i]]
    BY <2>2 DEF Payload
  <2>4. \A i \in 1 .. n : Payload[i] = i - 1
    BY <2>2 DEF Payload
  <2>. QED
    BY <2>1, <2>2, <2>3, <2>4 DEF DeliveredPrefix
<1>. QED
  BY <1>1, RoutedInductive, PTL

(* Both ends compute the same next sequence number for the session.        *)
THEOREM RoutedFinalSequenceAgrees ==
  ASSUME RangeSuffices
  PROVE  Spec /\ []Prompt => []FinalSequenceAgrees
<1>1. RoutedInv => FinalSequenceAgrees
  <2>. SUFFICES ASSUME RoutedInv, isPayloadSent PROVE FinalSequenceAgrees
    BY DEF FinalSequenceAgrees
  <2>1. isPayloadComplete /\ windowOrigin = numberOfPackets + 1
    BY DEF RoutedInv, Custody, ReceiverInv
  <2>2. sequenceSeed + numberOfPackets + 1 = sequenceSeed + windowOrigin
    BY <2>1, PacketCount, CommonAssumption
  <2>. QED
    BY <2>1, <2>2 DEF FinalSequenceAgrees, SenderFinalSequenceNumber,
                      ReceiverFinalSequenceNumber
<1>. QED
  BY <1>1, RoutedInductive, PTL

(* Every thread that still retransmits is the one its slot points to, and  *)
(* an ACK can stop it: normalizeCurrentWindow never reuses a busy slot.    *)
THEOREM RoutedNoOrphanThread ==
  ASSUME RangeSuffices
  PROVE  Spec /\ []Prompt =>
           [](\A p \in Packets : thread[p] # "idle" /\ ~isAcked[p] =>
                windowState[Slot(p)] = p /\ currentWindow[Slot(p)] = p)
<1>1. ASSUME RoutedInv, NEW p \in Packets, thread[p] # "idle", ~isAcked[p]
      PROVE  windowState[Slot(p)] = p /\ currentWindow[Slot(p)] = p
  <2>1. Launched(p) /\ p \in Nat /\ p # NULL /\ Slot(p) \in Slots /\ EndsTypeOK
    BY <1>1, PacketKinds, SlotType DEF RoutedInv, SenderInv, TypeOK, NULL
  <2>2. currentWindowOrigin <= p
    <3>1. CASE p = Eof
      BY <2>1, <3>1, OriginType DEF Eof
    <3>2. CASE p # Eof
      BY <1>1, <2>1, <3>2, PacketKinds, OriginType DEF RoutedInv, SenderInv
    <3>. QED
      BY <3>1, <3>2
  <2>3. windowState[Slot(p)] = p
    BY <1>1, <2>1, <2>2 DEF RoutedInv, SenderInv, Pending
  <2>. QED
    BY <1>1, <2>1, <2>3 DEF RoutedInv, SenderInv
<1>2. RoutedInv => \A p \in Packets : thread[p] # "idle" /\ ~isAcked[p] =>
                     windowState[Slot(p)] = p /\ currentWindow[Slot(p)] = p
  BY <1>1
<1>. QED
  BY <1>2, RoutedInductive, PTL

-----------------------------------------------------------------------------
(* Refinement of the abstract transfer.                                    *)

Delivery == INSTANCE FileTransfer WITH
              file <- IF isPayloadComplete THEN completedSet ELSE <<>>,
              received <- isPayloadComplete,
              reported <- isPayloadSent

(* The protocol promises over the emulated network what it promises over   *)
(* one that only loses messages: the receiver hands over exactly the       *)
(* payload, once, and the sender reports success only after that.          *)
THEOREM RoutedRefinement ==
  ASSUME RangeSuffices
  PROVE  Spec /\ []Prompt => Delivery!Spec
<1>. USE DEF Delivery!ftVars
<1>1. Init => Delivery!Init
  BY DEF Init, SenderInit, ReceiverInit, Delivery!Init
<1>2. ASSUME RoutedInv, RoutedInv', [Next]_vars
      PROVE  [Delivery!Next]_(Delivery!ftVars)
  <2>1. ASSUME UNCHANGED <<completedSet, isPayloadComplete, isPayloadSent>>
        PROVE  [Delivery!Next]_(Delivery!ftVars)
    BY <2>1
  <2>2. CASE ReceiveAck
    <3>1. UNCHANGED <<completedSet, isPayloadComplete>> /\ ~isPayloadSent
      BY <2>2 DEF ReceiveAck, ProcessAck, receiverVars
    <3>2. isPayloadSent \in BOOLEAN /\ isPayloadSent' \in BOOLEAN
      BY <1>2 DEF RoutedInv, TypeOK, EndsTypeOK, SenderTypeOK
    <3>3. CASE isPayloadSent'
      <4>1. isPayloadComplete /\ isPayloadSent' = TRUE
        BY <1>2, <3>1, <3>2, <3>3 DEF RoutedInv, Custody
      <4>. QED
        BY <3>1, <4>1 DEF Delivery!Next, Delivery!Report
    <3>4. CASE ~isPayloadSent'
      <4>1. isPayloadSent' = isPayloadSent
        BY <3>1, <3>2, <3>4
      <4>. QED
        BY <3>1, <4>1
    <3>. QED
      BY <3>3, <3>4
  <2>3. CASE ReceiveMessage
    <3>1. PICK p : p = Head(dataLeaving)
      OBVIOUS
    <3>2. /\ isPayloadSent' = isPayloadSent
          /\ ReceiveData(p) \/ ReceiveEof(p) \/ ReAcknowledge(p)
      BY <2>3, <3>1 DEF ReceiveMessage, senderVars
    <3>3. CASE ReceiveData(p)
      <4>1. ~isPayloadComplete /\ isPayloadComplete' = isPayloadComplete
        BY <3>3 DEF ReceiveData, HandleData, RegisterPacket, DiscardPacket, receiverVars
      <4>2. UNCHANGED (IF isPayloadComplete THEN completedSet ELSE <<>>)
        BY <4>1
      <4>. QED
        BY <3>2, <4>1, <4>2
    <3>4. CASE ReceiveEof(p) /\ AcceptEof
      <4>1. ~isPayloadComplete /\ isPayloadComplete' = TRUE
        BY <3>4 DEF ReceiveEof, AcceptEof
      <4>2. completedSet' = Payload
        BY <1>2, <4>1 DEF RoutedInv, ReceiverInv, Payload
      <4>. QED
        BY <3>2, <4>1, <4>2 DEF Delivery!Next, Delivery!Deliver
    <3>5. CASE UNCHANGED receiverVars
      BY <2>1, <3>2, <3>5 DEF receiverVars
    <3>. QED
      BY <3>2, <3>3, <3>4, <3>5 DEF ReceiveEof, IgnoreEof, ReAcknowledge
  <2>4. ASSUME NEW p \in Packets, ExitThread(p) \/ CommitThread(p) \/ SendPacket(p)
        PROVE  UNCHANGED <<completedSet, isPayloadComplete, isPayloadSent>>
    BY <2>4 DEF ExitThread, CommitThread, SendPacket, ThreadExit, ThreadCommit, ThreadSend,
                Transition, receiverVars
  <2>5. ReleaseData \/ ReleaseAck \/ UNCHANGED vars =>
          UNCHANGED <<completedSet, isPayloadComplete, isPayloadSent>>
    BY DEF ReleaseData, ReleaseAck, vars, senderVars, receiverVars
  <2>. QED
    BY <1>2, <2>1, <2>2, <2>3, <2>4, <2>5 DEF Next
<1>3. RoutedInv /\ RoutedInv' /\ [Next]_vars => [Delivery!Next]_(Delivery!ftVars)
  BY <1>2
<1>. HIDE DEF Delivery!ftVars
<1>. QED
  BY <1>1, <1>3, RoutedInductive, PTL DEF Spec, Delivery!Spec

-----------------------------------------------------------------------------
(* The byte count.                                                         *)

Received == {p \in DataPackets : Holds(p)}

(* Every received packet is full but the last packet of the payload.       *)
CountInv ==
  totalPayloadSize =
    BUFFER_LENGTH * Cardinality(Received)
      - (IF numberOfPackets - 1 \in Received
         THEN BUFFER_LENGTH - PacketLength(numberOfPackets - 1) ELSE 0)

(* Before the first packet nothing is counted.                             *)
LEMMA CountInit == Init => CountInv
<1>. SUFFICES ASSUME Init PROVE CountInv
  OBVIOUS
<1>1. receivedWindow = EmptyWindow /\ windowOrigin = 0 /\ totalPayloadSize = 0
  BY DEF Init, ReceiverInit
<1>2. \A p \in DataPackets : ~Holds(p)
  BY <1>1, PacketKinds, SlotType DEF Holds, EmptyWindow, NULL
<1>3. Received = {}
  BY <1>2 DEF Received
<1>. QED
  BY <1>1, <1>3, FS_EmptySet, CommonAssumption DEF CountInv

(* Registering a packet adds its length.                                   *)
LEMMA CountRegister ==
  ASSUME EndsTypeOK, CountInv, NEW p \in DataPackets, p \notin Received,
         Received' = Received \union {p}, totalPayloadSize' = totalPayloadSize + PacketLength(p)
  PROVE  CountInv'
<1>1. IsFiniteSet(Received) /\ Cardinality(Received) \in Nat
  <2>1. IsFiniteSet(DataPackets)
    BY FS_Interval, PacketCount DEF DataPackets
  <2>2. Received \subseteq DataPackets
    BY DEF Received
  <2>. QED
    BY <2>1, <2>2, FS_Subset, FS_CardinalityType
<1>2. Cardinality(Received') = Cardinality(Received) + 1
  BY <1>1, FS_AddElement
<1>. DEFINE c == Cardinality(Received)
            last == numberOfPackets - 1
<1>3. BUFFER_LENGTH * (c + 1) = BUFFER_LENGTH * c + BUFFER_LENGTH /\ BUFFER_LENGTH * c \in Nat
  BY <1>1, CommonAssumption
<1>4. BUFFER_LENGTH \in Nat /\ totalPayloadSize \in Nat
  BY CommonAssumption DEF EndsTypeOK, SenderTypeOK, ReceiverTypeOK
<1>5. CASE p = last
  <2>1. last \in Received' /\ last \notin Received
    BY <1>5
  <2>2. PacketLength(last) \in Nat
    BY <1>5, LengthType
  <2>. QED
    BY <1>2, <1>3, <1>4, <1>5, <2>1, <2>2 DEF CountInv
<1>6. CASE p # last
  <2>1. last \in Received' <=> last \in Received
    BY <1>6
  <2>2. PacketLength(p) = BUFFER_LENGTH
    BY <1>6 DEF PacketLength
  <2>3. last \in Received => PacketLength(last) \in Nat
    BY LengthType DEF Received
  <2>. QED
    BY <1>2, <1>3, <1>4, <2>1, <2>2, <2>3 DEF CountInv
<1>. QED
  BY <1>5, <1>6

(* An EOF that was launched finds every data packet at the receiver.       *)
LEMMA EofAfterData ==
  ASSUME EndsTypeOK, SenderInv, Custody, Launched(Eof)
  PROVE  Received = DataPackets
<1>1. \A p \in DataPackets : p < currentWindowOrigin /\ p \in Packets
  BY PacketKinds DEF Launched, DataPackets
<1>2. \A p \in DataPackets : Holds(p)
  BY <1>1 DEF SenderInv, Custody
<1>. QED
  BY <1>2 DEF Received

(* The count is right after every step.                                    *)
LEMMA CountNext ==
  ASSUME RangeSuffices, RoutedInv, RoutedInv', CountInv, [Next]_vars
  PROVE  CountInv'
<1>1. /\ TypeOK /\ EndsTypeOK /\ SenderInv /\ ReceiverInv /\ Custody
      /\ NetworkInv /\ DataOrder
  BY DEF RoutedInv, TypeOK
<1>2. ASSUME UNCHANGED receiverVars PROVE CountInv'
  <2>1. Received' = Received
    BY <1>2 DEF receiverVars, Received, Holds
  <2>. QED
    BY <1>2, <2>1 DEF CountInv, receiverVars
<1>3. CASE ReceiveMessage
  <2>1. PICK p : p = Head(dataLeaving)
    OBVIOUS
  <2>2. /\ dataLeaving # <<>> /\ UNCHANGED senderVars
        /\ ReceiveData(p) \/ ReceiveEof(p) \/ ReAcknowledge(p)
    BY <1>3, <2>1 DEF ReceiveMessage
  <2>3. /\ p \in Packets /\ Launched(p) /\ p < windowOrigin + WINDOW_SIZE
        /\ ~isPayloadComplete =>
             windowOrigin <= p + WINDOW_SIZE + Slack + (IF Delays THEN 1 ELSE 0)
    BY <1>1, <2>1, <2>2, DataNear
  <2>4. CASE ReceiveData(p) /\ RegisterPacket(p)
    <3>1. p \in DataPackets /\ p \in Nat /\ ~isPayloadComplete
      BY <2>3, <2>4, PacketKinds DEF ReceiveData
    <3>2. windowOrigin <= p
      <4>1. windowOrigin + WINDOW_SIZE <= p + SEQUENCE_RANGE
        BY <1>1, <2>3, <3>1, OriginType, RangeFacts
      <4>2. IsSequenceNumberInWindow(Slot(p))
        BY <2>4 DEF RegisterPacket, Registers
      <4>. QED
        BY <1>1, <2>3, <3>1, <4>1, <4>2, OriginType, WindowTest
    <3>3. (\A q \in Packets : Holds(q)' <=> Holds(q) \/ q = p) /\ ~Holds(p)
      BY <1>1, <2>3, <2>4, <3>1, <3>2, RegisterPacketInv
    <3>4. p \notin Received /\ Received' = Received \union {p}
      BY <3>1, <3>3, PacketKinds DEF Received
    <3>5. totalPayloadSize' = totalPayloadSize + PacketLength(p)
      BY <2>4 DEF RegisterPacket
    <3>. QED
      BY <1>1, <3>1, <3>4, <3>5, CountRegister
  <2>5. CASE ReceiveEof(p) /\ AcceptEof
    <3>1. Launched(Eof) /\ Launched(Eof)'
      BY <2>2, <2>3, <2>5 DEF ReceiveEof, Launched, senderVars
    <3>2. Received = DataPackets
      BY <1>1, <3>1, EofAfterData
    <3>3. Received' = DataPackets
      <4>1. windowOrigin' = numberOfPackets + 1
        BY <2>5 DEF RoutedInv, ReceiverInv, AcceptEof
      <4>2. \A q \in DataPackets : Holds(q)'
        BY <4>1, PacketKinds, PacketCount DEF Holds
      <4>. QED
        BY <4>2 DEF Received
    <3>4. totalPayloadSize' = totalPayloadSize
      BY <2>5 DEF AcceptEof
    <3>. QED
      BY <3>2, <3>3, <3>4 DEF CountInv
  <2>6. CASE UNCHANGED receiverVars
    BY <1>2, <2>6
  <2>. QED
    BY <2>2, <2>4, <2>5, <2>6 DEF ReceiveData, HandleData, DiscardPacket, ReceiveEof,
                                  IgnoreEof, ReAcknowledge
<1>. QED
  BY <1>2, <1>3
     DEF Next, ReceiveAck, ExitThread, CommitThread, SendPacket, ReleaseData, ReleaseAck, vars

(* The receiver accepts the first EOF that reaches it.                     *)
THEOREM RoutedEofAcceptable ==
  ASSUME RangeSuffices
  PROVE  Spec /\ []Prompt => []EofAcceptable
<1>1. RoutedInv /\ CountInv => EofAcceptable
  <2>. SUFFICES ASSUME RoutedInv, CountInv, NEW i \in 1 .. Len(dataLeaving),
                       dataLeaving[i] = Eof
                PROVE  totalPayloadSize = payloadSize
    BY DEF EofAcceptable
  <2>1. Launched(Eof)
    BY DEF RoutedInv, NetworkInv
  <2>2. Received = DataPackets
    BY <2>1, EofAfterData DEF RoutedInv, TypeOK
  <2>3. numberOfPackets \in Nat /\ numberOfPackets > 0
    BY <2>1, PacketCount DEF Launched
  <2>4. Cardinality(Received) = numberOfPackets /\ numberOfPackets - 1 \in Received
    BY <2>2, <2>3, FS_Interval DEF DataPackets
  <2>5. totalPayloadSize = BUFFER_LENGTH * numberOfPackets
          - (BUFFER_LENGTH - (payloadSize - (numberOfPackets - 1) * BUFFER_LENGTH))
    BY <2>4 DEF CountInv, PacketLength
  <2>6. (numberOfPackets - 1) * BUFFER_LENGTH = BUFFER_LENGTH * numberOfPackets - BUFFER_LENGTH
    BY <2>3, CommonAssumption
  <2>. QED
    BY <2>3, <2>5, <2>6, CommonAssumption
<1>2. Init => CountInv
  BY CountInit
<1>3. RoutedInv /\ RoutedInv' /\ CountInv /\ [Next]_vars => CountInv'
  BY CountNext
<1>. QED
  BY <1>1, <1>2, <1>3, RoutedInductive, PTL DEF Spec

=============================================================================
