--------------------------- MODULE Router_proofs ---------------------------
(***************************************************************************)
(* Proofs about the steps of Router, for every number of packets and every *)
(* WAIT.  They are stated of steps, not of Spec, so that Network_proofs    *)
(* can use them for the specification in which the router runs.            *)
(*                                                                         *)
(* Whatever the router still has to deliver to a host is newer than what   *)
(* it delivered, and a packet is held only until the next one of its       *)
(* direction leaves: RouterInv, on which OvertakenOnce rests.              *)
(***************************************************************************)
EXTENDS Router, SequenceTheorems, TLAPS

(* Packets of host h that the router has taken from its socket.            *)
Taken(h) == sent[h] - Len(socket[h])

(* A socket holds the last packets its host sent, in order.                *)
SocketInv ==
  \A h \in Hosts :
    /\ Taken(h) \in Nat
    /\ \A i \in 1 .. Len(socket[h]) : socket[h][i] = Taken(h) + i

(* What was delivered to h, and what is held for it, was taken from the    *)
(* other host; what is held was taken after all that was delivered.        *)
DeliveredInv ==
  \A h \in Hosts : \A i \in 1 .. Len(delivered[h]) :
    /\ delivered[h][i] <= Taken(Other(h))
    /\ HoldsFor(h) => delivered[h][i] < FileBuf.count

HeldInv ==
  ~FileBuf.empty => FileBuf.count \in 1 .. Taken(Other(FileBuf.destination))

RouterInv ==
  /\ TypeOK
  /\ SocketInv
  /\ DeliveredInv
  /\ HeldInv
  /\ OvertakenOnce

-----------------------------------------------------------------------------
(* The two hosts.                                                          *)
LEMMA HostFacts ==
  /\ 1 \in Hosts /\ 2 \in Hosts
  /\ \A h \in Hosts : Other(h) \in Hosts /\ Other(h) # h /\ Other(Other(h)) = h
<1>1. Other(1) = 2 /\ Other(2) = 1
  BY DEF Other
<1>2. \A h \in Hosts : h = 1 \/ h = 2
  BY DEF Hosts
<1>3. 1 \in Hosts /\ 2 \in Hosts
  BY DEF Hosts
<1>. QED
  BY <1>1, <1>2, <1>3

(* What an iteration that takes a packet of h has in hand.                 *)
LEMMA Takes ==
  ASSUME RouterInv, NEW h \in Hosts, Take(h)
  PROVE  /\ Head(socket[h]) \in 1 .. Packets
         /\ Head(socket[h]) = Taken(h) + 1
         /\ UNCHANGED sent
         /\ socket' \in [Hosts -> Seq(1 .. Packets)]
         /\ Taken(h) \in Nat
         /\ Taken(h)' = Taken(h) + 1
         /\ \A g \in Hosts \ {h} : Taken(g)' = Taken(g)
         /\ SocketInv'
<1>. TypeOK /\ SocketInv
  BY DEF RouterInv
<1>1. socket[h] \in Seq(1 .. Packets) /\ socket[h] # <<>>
  BY DEF TypeOK, Take
<1>2. /\ Head(socket[h]) = socket[h][1]
      /\ Head(socket[h]) \in 1 .. Packets
      /\ Tail(socket[h]) \in Seq(1 .. Packets)
      /\ Len(socket[h]) \in Nat \ {0}
      /\ Len(Tail(socket[h])) = Len(socket[h]) - 1
      /\ \A i \in 1 .. Len(Tail(socket[h])) : Tail(socket[h])[i] = socket[h][i+1]
  <2>1. Len(socket[h]) \in Nat \ {0}
    BY <1>1, EmptySeq
  <2>2. Head(socket[h]) = socket[h][1]
    BY <1>1
  <2>. QED
    BY <1>1, <2>1, <2>2, HeadTailProperties
<1>3. /\ socket' = [socket EXCEPT ![h] = Tail(socket[h])]
      /\ UNCHANGED sent
  BY DEF Take
<1>4. /\ socket' \in [Hosts -> Seq(1 .. Packets)]
      /\ socket'[h] = Tail(socket[h])
      /\ \A g \in Hosts \ {h} : socket'[g] = socket[g]
  BY <1>2, <1>3 DEF TypeOK
<1>5. sent[h] \in Int /\ Taken(h) \in Nat
  BY DEF TypeOK, SocketInv
<1>6. Taken(h)' = Taken(h) + 1 /\ \A g \in Hosts \ {h} : Taken(g)' = Taken(g)
  <2>1. Taken(h)' = sent[h] - (Len(socket[h]) - 1)
    BY <1>2, <1>3, <1>4 DEF Taken
  <2>2. Taken(h)' = Taken(h) + 1
    BY <1>2, <1>5, <2>1 DEF Taken
  <2>3. \A g \in Hosts \ {h} : Taken(g)' = Taken(g)
    BY <1>3, <1>4 DEF Taken
  <2>. QED
    BY <2>2, <2>3
<1>7. Head(socket[h]) = Taken(h) + 1
  BY <1>2 DEF SocketInv
<1>8. SocketInv'
  <2>. SUFFICES ASSUME NEW g \in Hosts
                PROVE  /\ Taken(g)' \in Nat
                       /\ \A i \in 1 .. Len(socket'[g]) : socket'[g][i] = Taken(g)' + i
    BY DEF SocketInv
  <2>1. CASE g = h
    <3>1. ASSUME NEW i \in 1 .. Len(Tail(socket[h]))
          PROVE  Tail(socket[h])[i] = Taken(h) + 1 + i
      <4>1. i + 1 \in 1 .. Len(socket[h])
        BY <1>2
      <4>2. socket[h][i + 1] = Taken(h) + (i + 1)
        BY <4>1 DEF SocketInv
      <4>. QED
        BY <1>2, <1>5, <4>2
    <3>2. socket'[g] = Tail(socket[h]) /\ Taken(g)' = Taken(h) + 1
      BY <1>4, <1>6, <2>1
    <3>. QED
      BY <1>5, <3>1, <3>2
  <2>2. CASE g # h
    BY <1>4, <1>6, <2>2 DEF SocketInv
  <2>. QED
    BY <2>1, <2>2
<1>. QED
  BY <1>2, <1>3, <1>4, <1>5, <1>6, <1>7, <1>8

(* Delivering to h what is newer than all that was delivered to it.        *)
LEMMA Delivers ==
  ASSUME RouterInv, NEW h \in Hosts, NEW s \in Seq(1 .. Packets), Deliver(h, s),
         Len(s) \in 0 .. 2,
         \A i \in 1 .. Len(delivered[h]), j \in 1 .. Len(s) : delivered[h][i] < s[j],
         Len(s) = 2 => s[1] # s[2]
  PROVE  /\ delivered' \in [Hosts -> Seq(1 .. Packets)]
         /\ \A g \in Hosts \ {h} : delivered'[g] = delivered[g]
         /\ delivered'[h] = delivered[h] \o s
         /\ \A i \in 1 .. Len(delivered'[h]) :
              \/ i <= Len(delivered[h]) /\ delivered'[h][i] = delivered[h][i]
              \/ \E j \in 1 .. Len(s) : delivered'[h][i] = s[j]
         /\ OvertakenOnce'
<1>. TypeOK /\ OvertakenOnce
  BY DEF RouterInv
<1>. DEFINE d == delivered[h]
            n == Len(delivered[h])
<1>1. d \in Seq(1 .. Packets)
  BY DEF TypeOK
<1>2. /\ d \o s \in Seq(1 .. Packets)
      /\ Len(d \o s) = n + Len(s)
      /\ \A i \in 1 .. n : (d \o s)[i] = d[i]
      /\ \A i \in 1 .. Len(s) : (d \o s)[n + i] = s[i]
  BY <1>1, ConcatProperties
<1>3. n \in Nat /\ Len(s) \in 0 .. 2
  BY <1>1, LenProperties
<1>4. /\ delivered' \in [Hosts -> Seq(1 .. Packets)]
      /\ delivered'[h] = d \o s
      /\ \A g \in Hosts \ {h} : delivered'[g] = delivered[g]
  BY <1>2 DEF TypeOK, Deliver
<1>5. ASSUME NEW i \in 1 .. (n + Len(s))
      PROVE  \/ i <= n /\ (d \o s)[i] = d[i]
             \/ i > n /\ i - n \in 1 .. Len(s) /\ (d \o s)[i] = s[i - n]
  <2>1. CASE i <= n
    BY <1>2, <1>3, <2>1
  <2>2. CASE i > n
    <3>1. i - n \in 1 .. Len(s) /\ n + (i - n) = i
      BY <1>3, <2>2
    <3>. QED
      BY <1>2, <2>2, <3>1
  <2>. QED
    BY <1>3, <2>1, <2>2
<1>6. ASSUME NEW i \in 1 .. (n + Len(s)), NEW j \in 1 .. (n + Len(s)), i < j
      PROVE  /\ (d \o s)[i] # (d \o s)[j]
             /\ (d \o s)[i] > (d \o s)[j] => j = i + 1
  <2>1. (d \o s)[i] \in Int /\ (d \o s)[j] \in Int
    <3>1. i \in 1 .. Len(d \o s) /\ j \in 1 .. Len(d \o s)
      BY <1>2, <1>6
    <3>2. (d \o s)[i] \in 1 .. Packets /\ (d \o s)[j] \in 1 .. Packets
      BY <1>2, <3>1, ElementOfSeq
    <3>. QED
      BY <3>2
  <2>2. CASE j <= n
    <3>1. i \in 1 .. n /\ j \in 1 .. n
      BY <1>3, <1>6, <2>2
    <3>. QED
      BY <1>2, <1>6, <3>1 DEF OvertakenOnce
  <2>3. CASE i <= n /\ j > n
    <3>1. i \in 1 .. n /\ j - n \in 1 .. Len(s) /\ (d \o s)[j] = s[j - n]
      BY <1>3, <1>5, <2>3
    <3>2. d[i] < s[j - n] /\ (d \o s)[i] = d[i]
      BY <1>2, <3>1
    <3>. QED
      BY <2>1, <3>1, <3>2
  <2>4. CASE i > n
    <3>1. i = n + 1 /\ j = n + 2 /\ Len(s) = 2
      <4>. DEFINE l == Len(s)
      <4>1. l \in 0 .. 2 /\ i \in 1 .. (n + l) /\ j \in 1 .. (n + l)
        BY <1>3
      <4>. HIDE DEF l, n
      <4>2. i = n + 1 /\ j = n + 2 /\ l = 2
        BY <1>3, <1>6, <2>4, <4>1
      <4>. QED
        BY <4>2 DEF l
    <3>2. i - n = 1 /\ j - n = 2 /\ i > n /\ j > n
      BY <1>3, <3>1
    <3>3. (d \o s)[i] = s[1] /\ (d \o s)[j] = s[2]
      BY <1>3, <1>5, <3>2
    <3>4. j = i + 1
      BY <1>3, <3>1
    <3>5. s[1] # s[2]
      BY <3>1
    <3>. QED
      BY <3>3, <3>4, <3>5
  <2>. QED
    BY <1>3, <2>2, <2>3, <2>4
<1>7. OvertakenOnce'
  <2>. SUFFICES ASSUME NEW g \in Hosts,
                       NEW i \in 1 .. Len(delivered'[g]), NEW j \in 1 .. Len(delivered'[g])
                PROVE
    /\ i < j => delivered'[g][i] # delivered'[g][j]
    /\ i < j /\ delivered'[g][i] > delivered'[g][j] => j = i + 1
    BY DEF OvertakenOnce
  <2>1. CASE g = h
    <3>1. delivered'[g] = d \o s /\ Len(delivered'[g]) = n + Len(s)
      BY <1>2, <1>4, <2>1
    <3>2. i \in 1 .. (n + Len(s)) /\ j \in 1 .. (n + Len(s))
      BY <3>1
    <3>. QED
      BY <1>6, <3>1, <3>2
  <2>2. CASE g # h
    <3>1. delivered'[g] = delivered[g]
      BY <1>4, <2>2
    <3>. QED
      BY <3>1 DEF OvertakenOnce
  <2>. QED
    BY <2>1, <2>2
<1>8. ASSUME NEW i \in 1 .. Len(delivered'[h])
      PROVE  \/ i <= Len(delivered[h]) /\ delivered'[h][i] = delivered[h][i]
             \/ \E j \in 1 .. Len(s) : delivered'[h][i] = s[j]
  BY <1>2, <1>4, <1>5
<1>. QED
  BY <1>4, <1>7, <1>8

-----------------------------------------------------------------------------
(* Each step keeps RouterInv.                                              *)
FileBufs == [empty : BOOLEAN, count : 0 .. Packets, destination : Hosts]

(* Delivered packets are numbers.                                          *)
LEMMA DeliveredNumbers ==
  ASSUME RouterInv, NEW h \in Hosts, NEW i \in 1 .. Len(delivered[h])
  PROVE  delivered[h][i] \in 1 .. Packets
<1>1. delivered[h] \in Seq(1 .. Packets)
  BY DEF RouterInv, TypeOK
<1>. QED
  BY <1>1, ElementOfSeq

(* An untouched buffer and an untouched direction keep what they have.     *)
LEMMA KeepsDelivered ==
  ASSUME RouterInv, UNCHANGED <<FileBuf, delivered>>, TypeOK',
         \A h \in Hosts : Taken(h) \in Nat /\ Taken(h)' \in Nat /\ Taken(h) <= Taken(h)',
         SocketInv'
  PROVE  RouterInv'
<1>1. OvertakenOnce'
  BY DEF RouterInv, OvertakenOnce
<1>2. DeliveredInv'
  <2>. SUFFICES ASSUME NEW h \in Hosts, NEW i \in 1 .. Len(delivered[h])
                PROVE  /\ delivered[h][i] <= Taken(Other(h))'
                       /\ HoldsFor(h) => delivered[h][i] < FileBuf.count
    BY DEF DeliveredInv, HoldsFor
  <2>1. /\ delivered[h][i] \in Int
        /\ delivered[h][i] <= Taken(Other(h))
        /\ HoldsFor(h) => delivered[h][i] < FileBuf.count
    BY DeliveredNumbers DEF RouterInv, DeliveredInv
  <2>2. /\ Taken(Other(h)) \in Nat /\ Taken(Other(h))' \in Nat
        /\ Taken(Other(h)) <= Taken(Other(h))'
    BY HostFacts
  <2>. QED
    BY <2>1, <2>2
<1>3. HeldInv'
  <2>. SUFFICES ASSUME ~FileBuf.empty
                PROVE  FileBuf.count \in 1 .. Taken(Other(FileBuf.destination))'
    BY DEF HeldInv
  <2>. DEFINE o == Other(FileBuf.destination)
  <2>1. o \in Hosts
    BY HostFacts DEF RouterInv, TypeOK
  <2>2. FileBuf.count \in 1 .. Taken(o)
    BY DEF RouterInv, HeldInv
  <2>3. Taken(o) \in Nat /\ Taken(o)' \in Nat /\ Taken(o) <= Taken(o)'
    BY <2>1
  <2>. QED
    BY <2>2, <2>3
<1>. QED
  BY <1>1, <1>2, <1>3 DEF RouterInv

(* A host sends a packet.                                                  *)
LEMMA ArriveStep == ASSUME RouterInv, NEW h \in Hosts, Arrive(h) PROVE RouterInv'
<1>. TypeOK /\ SocketInv
  BY DEF RouterInv
<1>1. /\ sent[h] + 1 \in 1 .. Packets
      /\ sent[h] + 1 \in 0 .. Packets
      /\ sent[h] \in Nat
      /\ socket[h] \in Seq(1 .. Packets)
      /\ Len(socket[h]) \in Nat
  BY RouterAssumption, LenProperties DEF TypeOK, Arrive
<1>2. /\ Append(socket[h], sent[h] + 1) \in Seq(1 .. Packets)
      /\ Len(Append(socket[h], sent[h] + 1)) = Len(socket[h]) + 1
      /\ \A i \in 1 .. Len(socket[h]) :
           Append(socket[h], sent[h] + 1)[i] = socket[h][i]
      /\ Append(socket[h], sent[h] + 1)[Len(socket[h]) + 1] = sent[h] + 1
  BY <1>1, AppendProperties
<1>3. /\ sent' = [sent EXCEPT ![h] = sent[h] + 1]
      /\ socket' = [socket EXCEPT ![h] = Append(socket[h], sent[h] + 1)]
      /\ UNCHANGED <<FileBuf, wait_count, delivered>>
  BY DEF Arrive
<1>4. TypeOK'
  BY <1>1, <1>2, <1>3 DEF TypeOK
<1>5. /\ sent'[h] = sent[h] + 1
      /\ socket'[h] = Append(socket[h], sent[h] + 1)
      /\ \A g \in Hosts \ {h} : sent'[g] = sent[g] /\ socket'[g] = socket[g]
  BY <1>3 DEF TypeOK
<1>6. \A g \in Hosts : Taken(g)' = Taken(g) /\ Taken(g) \in Nat
  <2>1. Taken(h)' = (sent[h] + 1) - (Len(socket[h]) + 1)
    BY <1>2, <1>5 DEF Taken
  <2>2. \A g \in Hosts \ {h} : Taken(g)' = Taken(g)
    BY <1>5 DEF Taken
  <2>3. Taken(h)' = Taken(h)
    <3>1. PICK n \in Nat, k \in Nat : n = sent[h] /\ k = Len(socket[h])
      BY <1>1
    <3>2. (n + 1) - (k + 1) = n - k
      BY <3>1
    <3>. QED
      BY <2>1, <3>1, <3>2 DEF Taken
  <2>4. \A g \in Hosts : Taken(g) \in Nat
    BY DEF SocketInv
  <2>. QED
    BY <2>2, <2>3, <2>4
<1>7. SocketInv'
  <2>. SUFFICES ASSUME NEW g \in Hosts, NEW i \in 1 .. Len(socket'[g])
                PROVE  socket'[g][i] = Taken(g) + i
    BY <1>6 DEF SocketInv
  <2>1. CASE g # h
    BY <1>5, <2>1 DEF SocketInv
  <2>2. CASE g = h /\ i <= Len(socket[h])
    <3>1. i \in 1 .. Len(socket[h])
      BY <1>1, <1>2, <1>5, <2>2
    <3>. QED
      BY <1>2, <1>5, <2>2, <3>1 DEF SocketInv
  <2>3. CASE g = h /\ i > Len(socket[h])
    <3>1. i = Len(socket[h]) + 1
      BY <1>1, <1>2, <1>5, <2>3
    <3>2. socket'[g][i] = sent[h] + 1
      BY <1>2, <1>5, <2>3, <3>1
    <3>. QED
      BY <1>1, <2>3, <3>1, <3>2 DEF Taken
  <2>. QED
    BY <1>1, <1>2, <1>5, <2>1, <2>2, <2>3
<1>. QED
  BY <1>3, <1>4, <1>6, <1>7, KeepsDelivered

(* An iteration that delivers nothing and leaves FileBuf alone.            *)
LEMMA DropStep == ASSUME RouterInv, NEW h \in Hosts, Drop(h) PROVE RouterInv'
<1>1. Take(h) /\ wait_count' = CountCycle /\ UNCHANGED <<FileBuf, delivered>>
  BY DEF Drop
<1>2. CountCycle \in Nat
  BY DEF RouterInv, TypeOK, CountCycle
<1>3. TypeOK'
  BY <1>1, <1>2, Takes DEF RouterInv, TypeOK
<1>4. \A g \in Hosts : Taken(g) \in Nat /\ Taken(g)' \in Nat /\ Taken(g) <= Taken(g)'
  <2>1. \A g \in Hosts : Taken(g) \in Nat /\ (Taken(g)' = Taken(g) \/ Taken(g)' = Taken(g) + 1)
    BY <1>1, Takes DEF RouterInv, SocketInv
  <2>. QED
    BY <2>1
<1>. QED
  BY <1>1, <1>3, <1>4, Takes, KeepsDelivered

(* A packet is held back.                                                  *)
LEMMA DelayStep == ASSUME RouterInv, NEW h \in Hosts, Delay(h) PROVE RouterInv'
<1>1. /\ Take(h) /\ wait_count' = CountCycle /\ FileBuf.empty /\ UNCHANGED delivered
      /\ FileBuf' = [empty |-> FALSE, count |-> Head(socket[h]), destination |-> Other(h)]
  BY DEF Delay
<1>2. CountCycle \in Nat
  BY DEF RouterInv, TypeOK, CountCycle
<1>3. FileBuf' \in FileBufs
  BY <1>1, Takes, HostFacts DEF FileBufs
<1>4. TypeOK'
  BY <1>1, <1>2, <1>3, Takes DEF RouterInv, TypeOK, FileBufs
<1>5. OvertakenOnce'
  BY <1>1 DEF RouterInv, OvertakenOnce
<1>6. /\ Taken(h) \in Nat /\ Taken(h)' = Taken(h) + 1
      /\ Head(socket[h]) = Taken(h) + 1
      /\ \A g \in Hosts \ {h} : Taken(g)' = Taken(g)
  BY <1>1, Takes
<1>7. HeldInv'
  <2>1. FileBuf'.count = Taken(h) + 1 /\ Other(FileBuf'.destination) = h
    BY <1>1, <1>6, HostFacts
  <2>. QED
    BY <1>6, <2>1 DEF HeldInv
<1>8. DeliveredInv'
  <2>. SUFFICES ASSUME NEW g \in Hosts, NEW i \in 1 .. Len(delivered[g])
                PROVE  /\ delivered[g][i] <= Taken(Other(g))'
                       /\ HoldsFor(g)' => delivered[g][i] < FileBuf'.count
    BY <1>1 DEF DeliveredInv
  <2>1. delivered[g][i] \in Int /\ delivered[g][i] <= Taken(Other(g))
    BY DeliveredNumbers DEF RouterInv, DeliveredInv
  <2>2. CASE Other(g) = h
    <3>1. FileBuf'.count = Taken(h) + 1
      BY <1>1, <1>6
    <3>. QED
      BY <1>6, <2>1, <2>2, <3>1
  <2>3. CASE Other(g) # h
    <3>1. Taken(Other(g))' = Taken(Other(g))
      BY <1>6, <2>3, HostFacts
    <3>2. ~HoldsFor(g)'
      BY <1>1, <2>3, HostFacts DEF HoldsFor
    <3>. QED
      BY <2>1, <3>1, <3>2
  <2>. QED
    BY <2>2, <2>3
<1>. QED
  BY <1>1, <1>4, <1>5, <1>7, <1>8, Takes DEF RouterInv

(* An iteration that empties FileBuf or leaves a packet for the other host *)
(* in it, and delivers newer packets.                                      *)
LEMMA DeliverStep ==
  ASSUME RouterInv, NEW h \in Hosts, NEW s \in Seq(1 .. Packets), Deliver(h, s),
         Len(s) \in 0 .. 2,
         \A i \in 1 .. Len(delivered[h]), j \in 1 .. Len(s) : delivered[h][i] < s[j],
         Len(s) = 2 => s[1] # s[2],
         \A j \in 1 .. Len(s) : s[j] <= Taken(Other(h))',
         \A g \in Hosts : Taken(g) \in Nat /\ Taken(g)' \in Nat /\ Taken(g) <= Taken(g)',
         sent' = sent, socket' \in [Hosts -> Seq(1 .. Packets)], wait_count' \in Nat,
         SocketInv', FileBuf' \in FileBufs,
         FileBuf'.empty \/ FileBuf' = FileBuf, ~HoldsFor(h)'
  PROVE  RouterInv'
<1>1. /\ delivered' \in [Hosts -> Seq(1 .. Packets)]
      /\ \A g \in Hosts \ {h} : delivered'[g] = delivered[g]
      /\ \A i \in 1 .. Len(delivered'[h]) :
           \/ i <= Len(delivered[h]) /\ delivered'[h][i] = delivered[h][i]
           \/ \E j \in 1 .. Len(s) : delivered'[h][i] = s[j]
      /\ OvertakenOnce'
  BY Delivers
<1>2. TypeOK'
  BY <1>1 DEF RouterInv, TypeOK, FileBufs
<1>3. HeldInv'
  <2>. SUFFICES ASSUME ~FileBuf'.empty
                PROVE  (FileBuf.count \in 1 .. Taken(Other(FileBuf.destination)))'
    BY DEF HeldInv
  <2>. DEFINE o == Other(FileBuf.destination)
  <2>1. FileBuf' = FileBuf
    OBVIOUS
  <2>2. o \in Hosts
    BY HostFacts DEF RouterInv, TypeOK
  <2>3. FileBuf.count \in 1 .. Taken(o)
    BY <2>1 DEF RouterInv, HeldInv
  <2>4. Taken(o) \in Nat /\ Taken(o)' \in Nat /\ Taken(o) <= Taken(o)'
    BY <2>2
  <2>5. FileBuf.count \in 1 .. Taken(o)'
    BY <2>3, <2>4
  <2>. QED
    BY <2>1, <2>5 DEF Taken
<1>4. DeliveredInv'
  <2>. SUFFICES ASSUME NEW g \in Hosts, NEW i \in 1 .. Len(delivered'[g])
                PROVE  /\ delivered'[g][i] <= Taken(Other(g))'
                       /\ HoldsFor(g)' => delivered'[g][i] < FileBuf'.count
    BY DEF DeliveredInv
  <2>1. Taken(Other(g)) \in Nat /\ Taken(Other(g))' \in Nat /\ Taken(Other(g)) <= Taken(Other(g))'
    BY HostFacts
  <2>2. ASSUME i \in 1 .. Len(delivered[g])
        PROVE  /\ delivered[g][i] <= Taken(Other(g))'
               /\ HoldsFor(g)' => delivered[g][i] < FileBuf'.count
    <3>1. /\ delivered[g][i] \in Int
          /\ delivered[g][i] <= Taken(Other(g))
          /\ HoldsFor(g) => delivered[g][i] < FileBuf.count
      <4>1. delivered[g][i] \in Int
        BY <2>2, DeliveredNumbers DEF RouterInv
      <4>2. DeliveredInv
        BY DEF RouterInv
      <4>. QED
        BY <2>2, <4>1, <4>2 DEF DeliveredInv
    <3>2. HoldsFor(g)' => FileBuf' = FileBuf /\ HoldsFor(g)
      BY DEF HoldsFor
    <3>. QED
      BY <2>1, <3>1, <3>2
  <2>3. CASE g # h
    BY <1>1, <2>2, <2>3
  <2>4. CASE g = h
    <3>1. CASE i <= Len(delivered[h]) /\ delivered'[h][i] = delivered[h][i]
      <4>1. i \in 1 .. Len(delivered[g])
        <5>1. Len(delivered[h]) \in Nat
          BY LenProperties DEF RouterInv, TypeOK
        <5>. QED
          BY <2>4, <3>1, <5>1
      <4>. QED
        BY <2>2, <2>4, <3>1, <4>1
    <3>2. CASE \E j \in 1 .. Len(s) : delivered'[h][i] = s[j]
      BY <2>4, <3>2
    <3>. QED
      BY <1>1, <2>4, <3>1, <3>2
  <2>. QED
    BY <2>3, <2>4
<1>. QED
  BY <1>1, <1>2, <1>3, <1>4 DEF RouterInv

(* FileBuf, emptied.                                                       *)
LEMMA Emptied ==
  ASSUME RouterInv, FileBuf' = [FileBuf EXCEPT !.empty = TRUE]
  PROVE  FileBuf' \in FileBufs /\ FileBuf'.empty
  BY DEF RouterInv, TypeOK, FileBufs

(* A packet passes, alone or with the one held for its direction.          *)
LEMMA ForwardStep == ASSUME RouterInv, NEW h \in Hosts, Forward(h) PROVE RouterInv'
<1>. DEFINE o == Other(h)
            m == Head(socket[h])
<1>1. Take(h) /\ o \in Hosts /\ Other(o) = h
  BY HostFacts DEF Forward
<1>2. /\ m \in 1 .. Packets
      /\ m = Taken(h) + 1
      /\ sent' = sent
      /\ socket' \in [Hosts -> Seq(1 .. Packets)]
      /\ Taken(h) \in Nat
      /\ Taken(h)' = Taken(h) + 1
      /\ \A g \in Hosts \ {h} : Taken(g)' = Taken(g)
      /\ SocketInv'
  BY <1>1, Takes
<1>3. \A g \in Hosts : Taken(g) \in Nat /\ Taken(g)' \in Nat /\ Taken(g) <= Taken(g)'
  <2>1. \A g \in Hosts : Taken(g) \in Nat /\ (Taken(g)' = Taken(g) \/ Taken(g)' = Taken(g) + 1)
    BY <1>2 DEF RouterInv, SocketInv
  <2>. QED
    BY <2>1
<1>4. \A i \in 1 .. Len(delivered[o]) :
        /\ delivered[o][i] \in Int
        /\ delivered[o][i] < m
        /\ HoldsFor(o) => delivered[o][i] < FileBuf.count
  <2>. SUFFICES ASSUME NEW i \in 1 .. Len(delivered[o])
                PROVE  /\ delivered[o][i] \in Int
                       /\ delivered[o][i] < m
                       /\ HoldsFor(o) => delivered[o][i] < FileBuf.count
    OBVIOUS
  <2>1. /\ delivered[o][i] \in Int /\ delivered[o][i] <= Taken(h)
        /\ HoldsFor(o) => delivered[o][i] < FileBuf.count
    BY <1>1, DeliveredNumbers DEF RouterInv, DeliveredInv
  <2>. QED
    BY <1>2, <2>1
<1>5. FileBuf \in FileBufs /\ CountCycle \in Nat
  BY DEF RouterInv, TypeOK, CountCycle, FileBufs
<1>. HIDE DEF o, m
<1>6. CASE HoldsFor(o)
  <2>1. PICK tail \in {<<FileBuf.count>>, <<>>} : Deliver(o, <<m>> \o tail)
    BY <1>6 DEF Forward, o, m
  <2>2. wait_count' = 0 /\ FileBuf' = [FileBuf EXCEPT !.empty = TRUE]
    BY <1>6 DEF Forward, o
  <2>3. FileBuf' \in FileBufs /\ FileBuf'.empty /\ ~HoldsFor(o)'
    BY <2>2, Emptied DEF HoldsFor
  <2>4. FileBuf.count \in 1 .. Taken(h) /\ FileBuf.count \in 1 .. Packets
    <3>1. FileBuf.count \in 1 .. Taken(h)
      BY <1>1, <1>6 DEF RouterInv, HeldInv, HoldsFor
    <3>. QED
      BY <1>2, <3>1, RouterAssumption
  <2>5. CASE tail = <<FileBuf.count>>
    <3>. DEFINE s == <<m>> \o <<FileBuf.count>>
    <3>1. Deliver(o, s)
      BY <2>1, <2>5
    <3>2. /\ s \in Seq(1 .. Packets) /\ Len(s) = 2
          /\ s[1] = m /\ s[2] = FileBuf.count
          /\ \A j \in 1 .. 2 : s[j] = m \/ s[j] = FileBuf.count
      <4>1. <<m>> \in Seq(1 .. Packets) /\ <<FileBuf.count>> \in Seq(1 .. Packets)
        BY <1>2, <2>4
      <4>2. /\ s \in Seq(1 .. Packets)
            /\ Len(s) = Len(<<m>>) + Len(<<FileBuf.count>>)
            /\ \A i \in 1 .. Len(<<m>>) + Len(<<FileBuf.count>>) :
                 s[i] = IF i <= Len(<<m>>) THEN <<m>>[i] ELSE <<FileBuf.count>>[i - Len(<<m>>)]
        BY <4>1, ConcatProperties
      <4>. HIDE DEF s
      <4>. QED
        BY <4>2
    <3>. HIDE DEF s
    <3>3. \A i \in 1 .. Len(delivered[o]), j \in 1 .. Len(s) : delivered[o][i] < s[j]
      BY <1>4, <1>6, <3>2
    <3>4. s[1] # s[2] /\ \A j \in 1 .. Len(s) : s[j] <= Taken(h)'
      BY <1>2, <2>4, <3>2
    <3>5. Len(s) \in 0 .. 2 /\ wait_count' \in Nat
      BY <2>2, <3>2
    <3>. QED
      BY <1>1, <1>2, <1>3, <2>3, <3>1, <3>2, <3>3, <3>4, <3>5, DeliverStep
  <2>6. CASE tail = <<>>
    <3>. DEFINE s == <<m>>
    <3>1. Deliver(o, s)
      BY <2>1, <2>6
    <3>2. s \in Seq(1 .. Packets) /\ Len(s) = 1 /\ s[1] = m
      BY <1>2
    <3>. HIDE DEF s
    <3>3. \A i \in 1 .. Len(delivered[o]), j \in 1 .. Len(s) : delivered[o][i] < s[j]
      BY <1>4, <3>2
    <3>4. Len(s) # 2 /\ \A j \in 1 .. Len(s) : s[j] <= Taken(h)'
      BY <1>2, <3>2
    <3>5. Len(s) \in 0 .. 2 /\ wait_count' \in Nat
      BY <2>2, <3>2
    <3>. QED
      BY <1>1, <1>2, <1>3, <2>3, <3>1, <3>2, <3>3, <3>4, <3>5, DeliverStep
  <2>. QED
    BY <2>1, <2>5, <2>6
<1>7. CASE ~HoldsFor(o)
  <2>. DEFINE s == <<m>>
  <2>1. Deliver(o, s) /\ wait_count' = CountCycle /\ FileBuf' = FileBuf
    BY <1>7 DEF Forward, o, m
  <2>2. s \in Seq(1 .. Packets) /\ Len(s) = 1 /\ s[1] = m
    BY <1>2
  <2>. HIDE DEF s
  <2>3. \A i \in 1 .. Len(delivered[o]), j \in 1 .. Len(s) : delivered[o][i] < s[j]
    BY <1>4, <2>2
  <2>4. Len(s) # 2 /\ \A j \in 1 .. Len(s) : s[j] <= Taken(h)'
    BY <1>2, <2>2
  <2>5. Len(s) \in 0 .. 2 /\ wait_count' \in Nat
    BY <1>5, <2>1, <2>2
  <2>6. ~HoldsFor(o)' /\ FileBuf' \in FileBufs
    BY <1>5, <1>7, <2>1 DEF HoldsFor
  <2>. QED
    BY <1>1, <1>2, <1>3, <2>1, <2>2, <2>3, <2>4, <2>5, <2>6, DeliverStep
<1>. QED
  BY <1>6, <1>7

(* The timeout, with or without the release of the held packet.            *)
LEMMA IdleStep == ASSUME RouterInv, Idle PROVE RouterInv'
<1>1. ~FileBuf.empty /\ UNCHANGED <<sent, socket>>
  BY DEF Idle
<1>2. /\ \A g \in Hosts : Taken(g) \in Nat /\ Taken(g)' = Taken(g) /\ Taken(g)' \in Nat
      /\ SocketInv'
  BY <1>1 DEF RouterInv, SocketInv, Taken
<1>3. \A g \in Hosts : Taken(g) \in Nat /\ Taken(g)' \in Nat /\ Taken(g) <= Taken(g)'
  BY <1>2
<1>4. CASE wait_count + 1 >= WAIT
  <2>. PICK h \in Hosts : h = FileBuf.destination
    BY DEF RouterInv, TypeOK
  <2>1. HoldsFor(h)
    BY <1>1 DEF HoldsFor
  <2>2. PICK s \in {<<FileBuf.count>>, <<>>} : Deliver(h, s)
    BY <1>4 DEF Idle
  <2>3. wait_count' = 0 /\ FileBuf' = [FileBuf EXCEPT !.empty = TRUE]
    BY <1>4 DEF Idle
  <2>4. FileBuf' \in FileBufs /\ FileBuf'.empty /\ \A g \in Hosts : ~HoldsFor(g)'
    BY <2>3, Emptied DEF HoldsFor
  <2>5. FileBuf.count \in 1 .. Taken(Other(h)) /\ FileBuf.count \in 1 .. Packets
    <3>1. FileBuf.count \in 1 .. Taken(Other(h))
      BY <1>1 DEF RouterInv, HeldInv
    <3>2. FileBuf.count \in 0 .. Packets
      BY DEF RouterInv, TypeOK
    <3>. QED
      BY <3>1, <3>2
  <2>6. \A i \in 1 .. Len(delivered[h]) : delivered[h][i] < FileBuf.count
    BY <2>1 DEF RouterInv, DeliveredInv
  <2>7. /\ s \in Seq(1 .. Packets) /\ (Len(s) = 0 \/ Len(s) = 1)
        /\ \A j \in 1 .. Len(s) : s[j] = FileBuf.count
    <3>1. CASE s = <<FileBuf.count>>
      BY <2>5, <3>1
    <3>2. CASE s = <<>>
      BY <3>2
    <3>. QED
      BY <2>2, <3>1, <3>2
  <2>8. \A i \in 1 .. Len(delivered[h]), j \in 1 .. Len(s) : delivered[h][i] < s[j]
    BY <2>6, <2>7
  <2>9. \A j \in 1 .. Len(s) : s[j] <= Taken(Other(h))'
    <3>1. FileBuf.count <= Taken(Other(h))'
      BY <1>2, <2>1, <2>5, HostFacts
    <3>. QED
      BY <2>7, <3>1
  <2>10. Len(s) \in 0 .. 2 /\ Len(s) # 2 /\ wait_count' \in Nat
    <3>1. Len(s) = 0 \/ Len(s) = 1
      BY <2>7
    <3>2. wait_count' \in Nat
      BY <2>3
    <3>. QED
      BY <3>1, <3>2
  <2>11. sent' = sent /\ socket' \in [Hosts -> Seq(1 .. Packets)]
    BY <1>1 DEF RouterInv, TypeOK
  <2>. QED
    BY <1>2, <1>3, <2>1, <2>2, <2>4, <2>7, <2>8, <2>9, <2>10, <2>11, DeliverStep
<1>5. CASE ~(wait_count + 1 >= WAIT)
  <2>1. wait_count' = wait_count + 1 /\ UNCHANGED <<FileBuf, delivered>>
    BY <1>5 DEF Idle
  <2>2. TypeOK'
    BY <1>1, <2>1 DEF RouterInv, TypeOK
  <2>. QED
    BY <1>2, <1>3, <2>1, <2>2, KeepsDelivered
<1>. QED
  BY <1>4, <1>5

-----------------------------------------------------------------------------
(* Set-up of sockets and buffer.                                           *)
LEMMA RouterInit == Init => RouterInv
<1>. SUFFICES ASSUME Init PROVE RouterInv
  OBVIOUS
<1>1. <<>> \in Seq(1 .. Packets) /\ 0 \in 0 .. Packets /\ 1 \in Hosts
  BY RouterAssumption DEF Hosts
<1>2. TypeOK
  BY <1>1 DEF Init, TypeOK, NoPacket
<1>3. \A h \in Hosts : Len(socket[h]) = 0 /\ Len(delivered[h]) = 0 /\ sent[h] = 0
  BY DEF Init
<1>4. SocketInv /\ DeliveredInv /\ OvertakenOnce
  BY <1>3 DEF SocketInv, DeliveredInv, OvertakenOnce, Taken
<1>5. HeldInv
  BY DEF Init, HeldInv, NoPacket
<1>. QED
  BY <1>2, <1>4, <1>5 DEF RouterInv

(* Every step of the router or of a host keeps RouterInv.                  *)
LEMMA RouterStep == RouterInv /\ [Next]_vars => RouterInv'
<1>. SUFFICES ASSUME RouterInv, [Next]_vars PROVE RouterInv'
  OBVIOUS
<1>1. CASE UNCHANGED vars
  BY <1>1 DEF vars, RouterInv, TypeOK, SocketInv, DeliveredInv, HeldInv, OvertakenOnce,
              Taken, HoldsFor
<1>2. CASE Next
  BY <1>2, ArriveStep, DropStep, DelayStep, ForwardStep, IdleStep DEF Next, Run
<1>. QED
  BY <1>1, <1>2

-----------------------------------------------------------------------------
(* A step of a DelayChannel, in terms of the direction to host h.          *)
ChannelStep(h) ==
  \/ HeldFor(h)' = HeldFor(h) /\ delivered'[h] = delivered[h]
  \/ \E m \in 1 .. Packets :
       \/ /\ HeldFor(h) = <<>>
          /\ HeldFor(h)' = <<m>>
          /\ delivered'[h] = delivered[h]
       \/ /\ delivered'[h] = delivered[h] \o <<m>> \o HeldFor(h)
          /\ HeldFor(h)' = <<>>
       \/ /\ delivered'[h] = Append(delivered[h], m)
          /\ HeldFor(h)' = <<>>
  \/ /\ HeldFor(h) # <<>>
     /\ delivered'[h] \in {delivered[h] \o HeldFor(h), delivered[h]}
     /\ HeldFor(h)' = <<>>

(* What is delivered to one host is not delivered to the other.            *)
LEMMA OneDirection ==
  ASSUME RouterInv, NEW h \in Hosts, NEW g \in Hosts, NEW s, Deliver(g, s)
  PROVE  delivered'[h] = IF h = g THEN delivered[h] \o s ELSE delivered[h]
  BY DEF RouterInv, TypeOK, Deliver

(* Emptying the buffer changes only the direction it was filled for.       *)
LEMMA EmptiedFor ==
  ASSUME RouterInv, NEW h \in Hosts, FileBuf' = [FileBuf EXCEPT !.empty = TRUE]
  PROVE  HeldFor(h)' = <<>>
<1>1. FileBuf'.empty
  BY Emptied
<1>. QED
  BY <1>1 DEF HeldFor, HoldsFor

(* Forwarding passes a packet, and what is held for the same host behind it*)
LEMMA ForwardChannel ==
  ASSUME RouterInv, NEW h \in Hosts, NEW g \in Hosts, Forward(g)
  PROVE  ChannelStep(h)
<1>. DEFINE o == Other(g)
            m == Head(socket[g])
<1>1. Take(g) /\ o \in Hosts
  BY HostFacts DEF Forward
<1>2. m \in 1 .. Packets /\ delivered[h] \in Seq(1 .. Packets)
  BY <1>1, Takes DEF RouterInv, TypeOK
<1>3. <<m>> \in Seq(1 .. Packets) /\ Append(delivered[h], m) = delivered[h] \o <<m>>
  BY <1>2, AppendIsConcat
<1>. HIDE DEF o, m
<1>4. CASE HoldsFor(o)
  <2>1. PICK tail \in {<<FileBuf.count>>, <<>>} : Deliver(o, <<m>> \o tail)
    BY <1>4 DEF Forward, o, m
  <2>2. HeldFor(h)' = <<>>
    BY <1>4, EmptiedFor DEF Forward, o
  <2>3. CASE h # o
    <3>1. HeldFor(h) = <<>>
      BY <1>4, <2>3 DEF HeldFor, HoldsFor
    <3>2. delivered'[h] = delivered[h]
      BY <1>1, <2>1, <2>3, OneDirection
    <3>. QED
      BY <2>2, <3>1, <3>2 DEF ChannelStep
  <2>4. CASE h = o
    <3>1. HeldFor(h) = <<FileBuf.count>>
      BY <1>4, <2>4 DEF HeldFor
    <3>2. delivered'[h] = delivered[h] \o (<<m>> \o tail)
      BY <1>1, <2>1, <2>4, OneDirection
    <3>3. <<FileBuf.count>> \in Seq(Int) /\ <<>> \in Seq(Int) /\ <<m>> \in Seq(Int)
          /\ delivered[h] \in Seq(Int)
      <4>1. FileBuf.count \in Int /\ m \in Int
        BY <1>2 DEF RouterInv, TypeOK
      <4>2. 1 .. Packets \subseteq Int
        OBVIOUS
      <4>3. delivered[h] \in Seq(Int)
        BY <1>2, <4>2, SeqMonotonic
      <4>. QED
        BY <4>1, <4>3
    <3>4. CASE tail = <<FileBuf.count>>
      <4>1. delivered'[h] = delivered[h] \o <<m>> \o HeldFor(h)
        BY <3>1, <3>2, <3>3, <3>4, ConcatAssociative
      <4>. QED
        BY <1>2, <2>2, <4>1 DEF ChannelStep
    <3>5. CASE tail = <<>>
      <4>1. <<m>> \o tail = <<m>>
        BY <3>3, <3>5, ConcatEmptySeq
      <4>2. delivered'[h] = Append(delivered[h], m)
        BY <1>3, <3>2, <4>1
      <4>. QED
        BY <1>2, <2>2, <4>2 DEF ChannelStep
    <3>. QED
      BY <2>1, <3>4, <3>5
  <2>. QED
    BY <2>3, <2>4
<1>5. CASE ~HoldsFor(o)
  <2>1. Deliver(o, <<m>>) /\ FileBuf' = FileBuf
    BY <1>5 DEF Forward, o, m
  <2>2. HeldFor(h)' = HeldFor(h)
    BY <2>1 DEF HeldFor, HoldsFor
  <2>3. CASE h # o
    BY <1>1, <2>1, <2>2, <2>3, OneDirection DEF ChannelStep
  <2>4. CASE h = o
    <3>1. delivered'[h] = Append(delivered[h], m)
      BY <1>1, <1>3, <2>1, <2>4, OneDirection
    <3>2. HeldFor(h)' = <<>>
      BY <1>5, <2>2, <2>4 DEF HeldFor
    <3>. QED
      BY <1>2, <3>1, <3>2 DEF ChannelStep
  <2>. QED
    BY <2>3, <2>4
<1>. QED
  BY <1>4, <1>5

(* The timeout releases what is held, if it is for this host.              *)
LEMMA IdleChannel == ASSUME RouterInv, NEW h \in Hosts, Idle PROVE ChannelStep(h)
<1>1. CASE wait_count + 1 >= WAIT
  <2>. PICK g \in Hosts : g = FileBuf.destination
    BY DEF RouterInv, TypeOK
  <2>1. PICK s \in {<<FileBuf.count>>, <<>>} : Deliver(g, s)
    BY <1>1 DEF Idle
  <2>2. HeldFor(h)' = <<>> /\ ~FileBuf.empty
    BY <1>1, EmptiedFor DEF Idle
  <2>3. CASE h = g
    <3>1. HeldFor(h) = <<FileBuf.count>>
      BY <2>2, <2>3 DEF HeldFor, HoldsFor
    <3>2. delivered'[h] = delivered[h] \o s
      BY <2>1, <2>3, OneDirection
    <3>3. delivered[h] \o <<>> = delivered[h]
      BY ConcatEmptySeq DEF RouterInv, TypeOK
    <3>. QED
      BY <2>1, <2>2, <3>1, <3>2, <3>3 DEF ChannelStep
  <2>4. CASE h # g
    <3>1. HeldFor(h) = <<>>
      BY <2>4 DEF HeldFor, HoldsFor
    <3>2. delivered'[h] = delivered[h]
      BY <2>1, <2>4, OneDirection
    <3>. QED
      BY <2>2, <3>1, <3>2 DEF ChannelStep
  <2>. QED
    BY <2>3, <2>4
<1>2. CASE ~(wait_count + 1 >= WAIT)
  BY <1>2 DEF Idle, ChannelStep, HeldFor, HoldsFor
<1>. QED
  BY <1>1, <1>2

(* Every step of the system is a step of each direction.                   *)
LEMMA EveryChannelStep ==
  ASSUME RouterInv, [Next]_vars, NEW h \in Hosts PROVE ChannelStep(h)
<1>1. CASE UNCHANGED <<FileBuf, delivered>>
  BY <1>1 DEF ChannelStep, HeldFor, HoldsFor
<1>2. ASSUME NEW g \in Hosts, Delay(g) PROVE ChannelStep(h)
  <2>1. /\ Take(g) /\ FileBuf.empty /\ UNCHANGED delivered
        /\ FileBuf' = [empty |-> FALSE, count |-> Head(socket[g]), destination |-> Other(g)]
    BY <1>2 DEF Delay
  <2>2. Head(socket[g]) \in 1 .. Packets
    BY <2>1, Takes
  <2>3. HeldFor(h) = <<>> /\ HeldFor(h)' \in {<<>>, <<Head(socket[g])>>}
    BY <2>1 DEF HeldFor, HoldsFor
  <2>. QED
    BY <2>1, <2>2, <2>3 DEF ChannelStep
<1>3. CASE UNCHANGED vars
  BY <1>1, <1>3 DEF vars
<1>. QED
  BY <1>1, <1>2, <1>3, ForwardChannel, IdleChannel DEF Next, Run, Arrive, Drop

=============================================================================
