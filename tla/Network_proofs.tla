--------------------------- MODULE Network_proofs ---------------------------
(***************************************************************************)
(* Proofs about Network, for every number of packets, clients and ids and  *)
(* every WAIT: types; that the router keeps its promises when multiplexer, *)
(* clients and server use it; that no two clients share an id; and that    *)
(* each client has a DelayChannel of its own in each direction.            *)
(*                                                                         *)
(* The last is the step from all traffic to a client's part of it.  What   *)
(* Chosen picks from a sequence is shown by induction over the sequence;   *)
(* from that, a channel seen through Chosen is a channel (MovesChosen),    *)
(* and so is one whose first packets are set aside (MovesRest).  OwnersInv *)
(* says that a packet keeps its owner (OwnPacketsStep) and that            *)
(* RouterListener finds it (RouterListenerMoves).                          *)
(***************************************************************************)
EXTENDS Network, Router_proofs, WellFoundedInduction

(* What ties the traffic to the router's state.                            *)
NetworkInv ==
  /\ RouterInv
  /\ NetworkTypeOK
  /\ \A h \in Hosts : Len(clientId[h]) = sent[h]

-----------------------------------------------------------------------------
(* The router is not disturbed: every step is one of its own or none.      *)
LEMMA NetworkStepsOfRouter == [NetworkNext]_netVars => [Next]_vars
<1>. SUFFICES ASSUME [NetworkNext]_netVars PROVE [Next]_vars
  OBVIOUS
<1>1. 1 \in Hosts /\ 2 \in Hosts
  BY HostFacts
<1>. QED
  BY <1>1 DEF NetworkNext, netVars, RequestId, AssignId, ClientSends, ServerSends, SendAs,
              RouterListener, RouterListenerMisses, Route, Next, vars

(* A sent packet gets an id with it.                                       *)
LEMMA SendAsStep ==
  ASSUME NetworkInv, NEW h \in Hosts, NEW i \in Ids, SendAs(h, i)
  PROVE  /\ clientId' \in [Hosts -> Seq(Ids)]
         /\ \A g \in Hosts : Len(clientId'[g]) = sent'[g]
         /\ UNCHANGED delivered
<1>1. clientId[h] \in Seq(Ids)
  BY DEF NetworkInv, NetworkTypeOK
<1>2. /\ Append(clientId[h], i) \in Seq(Ids)
      /\ Len(Append(clientId[h], i)) = Len(clientId[h]) + 1
  BY <1>1, AppendProperties
<1>3. sent' = [sent EXCEPT ![h] = sent[h] + 1] /\ UNCHANGED delivered
  BY DEF SendAs, Arrive
<1>4. clientId' = [clientId EXCEPT ![h] = Append(clientId[h], i)]
  BY DEF SendAs
<1>5. clientId \in [Hosts -> Seq(Ids)] /\ sent \in [Hosts -> 0 .. Packets]
      /\ \A g \in Hosts : Len(clientId[g]) = sent[g]
  BY DEF NetworkInv, NetworkTypeOK, TypeOK
<1>. QED
  BY <1>2, <1>3, <1>4, <1>5

(* What the router has delivered stays delivered.                          *)
LEMMA DeliveredGrows ==
  ASSUME RouterInv, NEW h \in Hosts, ChannelStep(h)
  PROVE  /\ Len(delivered[h]) \in Nat /\ Len(delivered'[h]) \in Nat
         /\ Len(delivered[h]) <= Len(delivered'[h])
<1>. DEFINE d == delivered[h]
            f == HeldFor(h)
<1>1. 1 .. Packets \subseteq Int /\ d \in Seq(1 .. Packets)
  BY DEF RouterInv, TypeOK
<1>2. d \in Seq(Int)
  BY <1>1, SeqMonotonic
<1>3. f \in Seq(Int)
  <2>1. FileBuf.count \in Int
    BY DEF RouterInv, TypeOK
  <2>. QED
    BY <2>1 DEF HeldFor
<1>4. Len(d) \in Nat /\ Len(f) \in Nat
  BY <1>2, <1>3, LenProperties
<1>. HIDE DEF d, f
<1>5. Len(d \o f) = Len(d) + Len(f)
  BY <1>2, <1>3, ConcatProperties
<1>6. ASSUME NEW m \in 1 .. Packets
      PROVE  /\ Len(d \o <<m>> \o f) = Len(d) + 1 + Len(f)
             /\ Len(Append(d, m)) = Len(d) + 1
  <2>1. <<m>> \in Seq(Int) /\ Len(<<m>>) = 1 /\ m \in Int
    OBVIOUS
  <2>2. d \o <<m>> \in Seq(Int) /\ Len(d \o <<m>>) = Len(d) + 1
    BY <1>2, <2>1, ConcatProperties
  <2>3. Len(d \o <<m>> \o f) = Len(d \o <<m>>) + Len(f)
    BY <1>3, <2>2, ConcatProperties
  <2>4. Len(Append(d, m)) = Len(d) + 1
    BY <1>2, <2>1, AppendProperties
  <2>. QED
    BY <2>2, <2>3, <2>4
<1>7. \/ delivered'[h] = d \/ delivered'[h] = d \o f
      \/ \E m \in 1 .. Packets :
           delivered'[h] = d \o <<m>> \o f \/ delivered'[h] = Append(d, m)
  BY DEF ChannelStep, d, f
<1>8. Len(delivered'[h]) \in Nat /\ Len(d) <= Len(delivered'[h])
  <2>1. CASE delivered'[h] = d
    BY <1>4, <2>1
  <2>2. CASE delivered'[h] = d \o f
    BY <1>4, <1>5, <2>2
  <2>3. ASSUME NEW m \in 1 .. Packets, delivered'[h] = d \o <<m>> \o f
        PROVE  Len(delivered'[h]) \in Nat /\ Len(d) <= Len(delivered'[h])
    BY <1>4, <1>6, <2>3
  <2>4. ASSUME NEW m \in 1 .. Packets, delivered'[h] = Append(d, m)
        PROVE  Len(delivered'[h]) \in Nat /\ Len(d) <= Len(delivered'[h])
    <3>1. Len(delivered'[h]) = Len(d) + 1
      BY <1>6, <2>4
    <3>. QED
      BY <1>4, <3>1
  <2>. QED
    BY <1>7, <2>1, <2>2, <2>3, <2>4
<1>. QED
  BY <1>4, <1>8 DEF d

(* What was delivered to a host was delivered at some time.                *)
LEMMA DeliveredIndex ==
  ASSUME NetworkInv, NEW h \in Hosts, NEW n \in ToSet(delivered[h])
  PROVE  \E i \in 1 .. Len(delivered[h]) : n = delivered[h][i]
<1>1. delivered[h] \in Seq(1 .. Packets)
  BY DEF NetworkInv, NetworkTypeOK, TypeOK
<1>2. DOMAIN delivered[h] = 1 .. Len(delivered[h])
  BY <1>1, LenProperties
<1>. QED
  BY <1>2 DEF ToSet

(* The multiplexer and the network start empty.                            *)
LEMMA NetworkInitInv == NetworkInit => NetworkInv
<1>. SUFFICES ASSUME NetworkInit PROVE NetworkInv
  OBVIOUS
<1>1. RouterInv /\ TypeOK
  BY RouterInit DEF NetworkInit, RouterInv
<1>2. <<>> \in Seq(Ids) /\ <<>> \in Seq(1 .. Packets) /\ Len(<<>>) = 0
  OBVIOUS
<1>3. delivered[2] = <<>> /\ sent = [h \in Hosts |-> 0]
  BY HostFacts DEF NetworkInit, Init
<1>4. clientId \in [Hosts -> Seq(Ids)] /\ \A h \in Hosts : Len(clientId[h]) = sent[h]
  BY <1>2, <1>3 DEF NetworkInit
<1>5. inbox \in [Clients -> Seq(1 .. Packets)] /\ forwarded \in 0 .. Len(delivered[2])
  BY <1>2, <1>3 DEF NetworkInit
<1>6. /\ clientMap \in [Ids -> Clients \union {NULL_CLIENT_ID}]
      /\ inserting \in Ids \union {NULL_CLIENT_ID}
      /\ asked \in [Clients -> Ids \union {NULL_CLIENT_ID}]
      /\ clientIdentifier \in [Clients -> Ids \union {NULL_CLIENT_ID}]
      /\ exited \in BOOLEAN
  BY DEF NetworkInit
<1>. QED
  BY <1>1, <1>4, <1>5, <1>6 DEF NetworkInv, NetworkTypeOK

(* Every step keeps NetworkInv.                                            *)
LEMMA NetworkInvStep == NetworkInv /\ [NetworkNext]_netVars => NetworkInv'
<1>. SUFFICES ASSUME NetworkInv, [NetworkNext]_netVars PROVE NetworkInv'
  OBVIOUS
<1>. USE DEF NetworkInv, NetworkTypeOK
<1>1. RouterInv' /\ TypeOK'
  BY NetworkStepsOfRouter, RouterStep DEF RouterInv
<1>2. 1 \in Hosts /\ 2 \in Hosts
  BY HostFacts
<1>3. CASE UNCHANGED netVars
  BY <1>1, <1>3 DEF netVars, vars, clientVars, muxerVars
<1>4. ASSUME NEW c \in Clients, RequestId(c) PROVE NetworkInv'
  BY <1>1, <1>4 DEF RequestId, FreeIds, vars
<1>5. ASSUME NEW c \in Clients, AssignId(c) PROVE NetworkInv'
  BY <1>1, <1>5 DEF AssignId, vars
<1>6. ASSUME NEW c \in Clients, ClientSends(c) PROVE NetworkInv'
  BY <1>1, <1>2, <1>6, SendAsStep DEF ClientSends, muxerVars
<1>7. CASE ServerSends
  <2>1. PICK n \in ToSet(delivered[1]) : SendAs(1, clientId[2][n])
    BY <1>7 DEF ServerSends
  <2>2. PICK i \in 1 .. Len(delivered[1]) : n = delivered[1][i]
    BY <1>2, DeliveredIndex
  <2>3. n \in 1 .. Len(clientId[2])
    <3>1. n \in 1 .. Packets /\ n <= Taken(2)
      BY <1>2, <2>2, DeliveredNumbers DEF RouterInv, DeliveredInv, Other
    <3>2. Len(socket[2]) \in Nat /\ sent[2] \in Nat /\ Len(clientId[2]) = sent[2]
      BY <1>2, LenProperties DEF TypeOK
    <3>. QED
      BY <3>1, <3>2 DEF Taken
  <2>4. clientId[2][n] \in Ids
    BY <1>2, <2>3, ElementOfSeq
  <2>. QED
    BY <1>1, <1>2, <1>7, <2>1, <2>4, SendAsStep DEF ServerSends, muxerVars
<1>8. CASE RouterListener
  <2>1. delivered[2] \in Seq(1 .. Packets) /\ Len(delivered[2]) \in Nat
    BY <1>2, LenProperties DEF TypeOK
  <2>2. forwarded + 1 \in 1 .. Len(delivered[2]) /\ forwarded' = forwarded + 1
    BY <1>8, <2>1 DEF RouterListener
  <2>3. NextPacket \in 1 .. Packets
    BY <2>1, <2>2, ElementOfSeq DEF NextPacket
  <2>4. \A c \in Clients : Append(inbox[c], NextPacket) \in Seq(1 .. Packets)
    BY <2>3, AppendProperties
  <2>5. inbox' \in [Clients -> Seq(1 .. Packets)]
    BY <1>8, <2>4 DEF RouterListener
  <2>. QED
    BY <1>1, <1>8, <2>1, <2>2, <2>5 DEF RouterListener, vars, clientVars
<1>9. CASE RouterListenerMisses
  BY <1>1, <1>9 DEF RouterListenerMisses, vars, clientVars
<1>10. CASE Route
  <2>1. Run /\ UNCHANGED <<clientVars, muxerVars>>
    BY <1>10 DEF Route
  <2>2. sent' = sent
    BY <2>1 DEF Run, Idle, Delay, Drop, Forward, Take
  <2>3. /\ Len(delivered[2]) \in Nat /\ Len(delivered'[2]) \in Nat
        /\ Len(delivered[2]) <= Len(delivered'[2])
    BY <1>2, NetworkStepsOfRouter, EveryChannelStep, DeliveredGrows
  <2>4. forwarded' \in 0 .. Len(delivered'[2])
    BY <2>1, <2>3 DEF muxerVars
  <2>. QED
    BY <1>1, <2>1, <2>2, <2>4 DEF clientVars, muxerVars
<1>. QED
  BY <1>3, <1>4, <1>5, <1>6, <1>7, <1>8, <1>9, <1>10 DEF NetworkNext

-----------------------------------------------------------------------------
(* Induction.  The library states it of an operator; these lemmas state it *)
(* of a set, from the fact that < is well-founded on Nat.                  *)
Less == {r \in Nat \X Nat : r[1] < r[2]}

(* < on the natural numbers.                                               *)
LEMMA LessWellFounded == IsWellFoundedOn(Less, Nat)
BY NatLessThanWellFounded DEF OpToRel, Less

(* A set that has 0 and every successor of its members is Nat.             *)
LEMMA NumberInduction ==
  ASSUME NEW S \in SUBSET Nat, 0 \in S, \A n \in S : n + 1 \in S
  PROVE  S = Nat
<1>1. SUFFICES ASSUME S # Nat PROVE FALSE
  OBVIOUS
<1>2. PICK T : T = Nat \ S
  OBVIOUS
<1>3. T \subseteq Nat /\ T # {}
  BY <1>1, <1>2
<1>4. PICK x \in T : \A y \in T : <<y, x>> \notin Less
  BY <1>3, LessWellFounded, WFMin
<1>5. x \in Nat /\ x # 0 /\ x - 1 \in Nat
  BY <1>2, <1>3
<1>6. x - 1 \in T
  <2>1. x - 1 \notin S
    BY <1>2, <1>5
  <2>. QED
    BY <1>2, <1>5, <2>1
<1>7. <<x - 1, x>> \in Less
  BY <1>5 DEF Less
<1>. QED
  BY <1>4, <1>6, <1>7

(* A set of sequences that has the empty one, and each of its members with *)
(* one more element, has them all.                                         *)
LEMMA SequenceInduction ==
  ASSUME NEW X, NEW T \in SUBSET Seq(X), <<>> \in T,
         \A s \in T : \A x \in X : Append(s, x) \in T
  PROVE  T = Seq(X)
<1>. DEFINE N == {n \in Nat : \A s \in Seq(X) : Len(s) = n => s \in T}
<1>1. 0 \in N
  <2>1. \A s \in Seq(X) : Len(s) = 0 => s = <<>>
    BY EmptySeq
  <2>. QED
    BY <2>1
<1>2. ASSUME NEW n \in N PROVE n + 1 \in N
  <2>1. n \in Nat /\ \A s \in Seq(X) : Len(s) = n => s \in T
    OBVIOUS
  <2>2. ASSUME NEW s \in Seq(X), Len(s) = n + 1 PROVE s \in T
    <3>. HIDE DEF N
    <3>1. s # <<>>
      BY <2>1, <2>2, EmptySeq
    <3>2. PICK t \in Seq(X), x \in X : s = Append(t, x)
      BY <3>1, SequenceEmptyOrAppend
    <3>3. Len(s) = Len(t) + 1 /\ Len(t) \in Nat
      BY <3>2, AppendProperties, LenProperties
    <3>4. Len(t) = n
      BY <2>1, <2>2, <3>3
    <3>. QED
      BY <2>1, <3>2, <3>4
  <2>. QED
    BY <2>1, <2>2
<1>. HIDE DEF N
<1>3. N \subseteq Nat
  BY DEF N
<1>4. N = Nat
  BY <1>1, <1>2, <1>3, NumberInduction
<1>5. ASSUME NEW s \in Seq(X) PROVE s \in T
  <2>1. Len(s) \in Nat
    OBVIOUS
  <2>. QED
    BY <1>4, <2>1 DEF N
<1>. QED
  BY <1>5

(* The last element of a concatenation is that of its second part.         *)
LEMMA AppendToConcat ==
  ASSUME NEW X, NEW s \in Seq(X), NEW t \in Seq(X), NEW x \in X
  PROVE  s \o Append(t, x) = Append(s \o t, x)
<1>1. <<x>> \in Seq(X) /\ s \o t \in Seq(X)
  BY ConcatProperties
<1>2. Append(t, x) = t \o <<x>> /\ Append(s \o t, x) = (s \o t) \o <<x>>
  BY <1>1, AppendIsConcat
<1>. QED
  BY <1>1, <1>2, ConcatAssociative

-----------------------------------------------------------------------------
(* What Chosen returns.                                                    *)

(* f is the function that Chosen(s, S) applies to the length of s.         *)
Selects(s, S, f) ==
  f = [n \in 0 .. Len(s) |->
         IF n = 0 THEN <<>>
         ELSE IF s[n] \in S THEN Append(f[n - 1], s[n]) ELSE f[n - 1]]

(* There is such a function.                                               *)
LEMMA SelectsExists ==
  ASSUME NEW X, NEW S, NEW s \in Seq(X)
  PROVE  \E f : Selects(s, S, f)
<1>. DEFINE T == {t \in Seq(X) : \E f : Selects(t, S, f)}
<1>1. <<>> \in T
  <2>. DEFINE f == [n \in 0 .. 0 |-> <<>>]
  <2>1. Selects(<<>>, S, f)
    BY DEF Selects
  <2>. QED
    BY <2>1
<1>2. ASSUME NEW t \in T, NEW x \in X PROVE Append(t, x) \in T
  <2>1. PICK f : Selects(t, S, f)
    OBVIOUS
  <2>2. PICK k \in Nat : k = Len(t)
    OBVIOUS
  <2>3. PICK u : u = Append(t, x)
    OBVIOUS
  <2>4. /\ u \in Seq(X) /\ Len(u) = k + 1 /\ u[k + 1] = x
        /\ \A i \in 1 .. k : u[i] = t[i]
    BY <2>2, <2>3, AppendProperties
  <2>5. PICK g : g = [n \in 0 .. (k + 1) |->
                       IF n = k + 1 THEN (IF x \in S THEN Append(f[k], x) ELSE f[k])
                       ELSE f[n]]
    OBVIOUS
  <2>6. ASSUME NEW n \in 0 .. (k + 1)
        PROVE  g[n] = IF n = 0 THEN <<>>
                      ELSE IF u[n] \in S THEN Append(g[n - 1], u[n]) ELSE g[n - 1]
    <3>1. CASE n = k + 1
      <4>1. g[n - 1] = f[k] /\ n # 0 /\ u[n] = x
        BY <2>2, <2>4, <2>5, <3>1
      <4>2. g[n] = IF x \in S THEN Append(f[k], x) ELSE f[k]
        BY <2>5, <3>1
      <4>. QED
        BY <4>1, <4>2
    <3>2. CASE n \in 0 .. k
      <4>1. g[n] = f[n] /\ (n # 0 => g[n - 1] = f[n - 1] /\ u[n] = t[n])
        BY <2>4, <2>5, <3>2
      <4>2. f[n] = IF n = 0 THEN <<>>
                   ELSE IF t[n] \in S THEN Append(f[n - 1], t[n]) ELSE f[n - 1]
        BY <2>1, <2>2, <3>2 DEF Selects
      <4>. QED
        BY <4>1, <4>2
    <3>. QED
      BY <2>2, <3>1, <3>2
  <2>7. Selects(u, S, g)
    BY <2>4, <2>5, <2>6 DEF Selects
  <2>. QED
    BY <2>3, <2>4, <2>7
<1>. HIDE DEF T
<1>3. T \subseteq Seq(X)
  BY DEF T
<1>4. T = Seq(X)
  BY <1>1, <1>2, <1>3, SequenceInduction
<1>. QED
  BY <1>4 DEF T

(* Chosen applies one of them.                                             *)
LEMMA ChosenSelects ==
  ASSUME NEW X, NEW S, NEW s \in Seq(X)
  PROVE  \E f : Selects(s, S, f) /\ Chosen(s, S) = f[Len(s)]
<1>1. PICK f : f = CHOOSE g : Selects(s, S, g)
  OBVIOUS
<1>2. Selects(s, S, f)
  BY <1>1, SelectsExists
<1>3. Chosen(s, S) = f[Len(s)]
  BY <1>1 DEF Chosen, Selects
<1>. QED
  BY <1>2, <1>3

(* Nothing is chosen from nothing ...                                      *)
LEMMA ChosenEmpty == ASSUME NEW S PROVE Chosen(<<>>, S) = <<>>
<1>1. <<>> \in Seq({}) /\ Len(<<>>) = 0
  OBVIOUS
<1>2. PICK f : Selects(<<>>, S, f) /\ Chosen(<<>>, S) = f[0]
  BY <1>1, ChosenSelects
<1>3. f[0] = <<>>
  BY <1>1, <1>2 DEF Selects
<1>. QED
  BY <1>2, <1>3

(* ... and one more element is chosen or not.                              *)
LEMMA ChosenAppend ==
  ASSUME NEW X, NEW S, NEW s \in Seq(X), NEW x \in X
  PROVE  Chosen(Append(s, x), S) =
           IF x \in S THEN Append(Chosen(s, S), x) ELSE Chosen(s, S)
<1>1. PICK u : u = Append(s, x)
  OBVIOUS
<1>2. PICK k \in Nat : k = Len(s)
  OBVIOUS
<1>3. /\ u \in Seq(X) /\ Len(u) = k + 1 /\ u[k + 1] = x
      /\ \A i \in 1 .. k : u[i] = s[i]
  BY <1>1, <1>2, AppendProperties
<1>4. PICK f : Selects(s, S, f) /\ Chosen(s, S) = f[k]
  BY <1>2, ChosenSelects
<1>5. PICK g : Selects(u, S, g) /\ Chosen(u, S) = g[k + 1]
  BY <1>3, ChosenSelects
<1>6. \A n \in 0 .. k :
        f[n] = IF n = 0 THEN <<>>
               ELSE IF s[n] \in S THEN Append(f[n - 1], s[n]) ELSE f[n - 1]
  BY <1>2, <1>4 DEF Selects
<1>7. \A n \in 0 .. (k + 1) :
        g[n] = IF n = 0 THEN <<>>
               ELSE IF u[n] \in S THEN Append(g[n - 1], u[n]) ELSE g[n - 1]
  BY <1>3, <1>5 DEF Selects
<1>. DEFINE N == {n \in Nat : n <= k => f[n] = g[n]}
<1>8. 0 \in N
  BY <1>2, <1>6, <1>7
<1>9. ASSUME NEW n \in N PROVE n + 1 \in N
  <2>1. n \in Nat /\ (n <= k => f[n] = g[n])
    OBVIOUS
  <2>. HIDE DEF N
  <2>2. ASSUME n + 1 <= k PROVE f[n + 1] = g[n + 1]
    <3>1. n + 1 \in 0 .. k /\ n + 1 \in 0 .. (k + 1) /\ n + 1 # 0 /\ (n + 1) - 1 = n
          /\ n + 1 \in 1 .. k
      BY <1>2, <2>1, <2>2
    <3>2. f[n + 1] = IF s[n + 1] \in S THEN Append(f[n], s[n + 1]) ELSE f[n]
      BY <1>6, <3>1
    <3>3. g[n + 1] = IF u[n + 1] \in S THEN Append(g[n], u[n + 1]) ELSE g[n]
      BY <1>7, <3>1
    <3>4. u[n + 1] = s[n + 1] /\ f[n] = g[n]
      BY <1>2, <1>3, <2>1, <2>2, <3>1
    <3>. QED
      BY <3>2, <3>3, <3>4
  <2>. QED
    BY <2>1, <2>2 DEF N
<1>. HIDE DEF N
<1>10. N \subseteq Nat
  BY DEF N
<1>11. N = Nat
  BY <1>8, <1>9, <1>10, NumberInduction
<1>12. f[k] = g[k]
  BY <1>2, <1>11 DEF N
<1>13. g[k + 1] = IF u[k + 1] \in S THEN Append(g[k], u[k + 1]) ELSE g[k]
  <2>1. k + 1 \in 0 .. (k + 1) /\ k + 1 # 0 /\ (k + 1) - 1 = k
    BY <1>2
  <2>. QED
    BY <1>7, <2>1
<1>. QED
  BY <1>1, <1>3, <1>4, <1>5, <1>12, <1>13

(* What is chosen from elements of X is of X.                              *)
LEMMA ChosenType ==
  ASSUME NEW X, NEW S, NEW s \in Seq(X)
  PROVE  Chosen(s, S) \in Seq(X)
<1>. DEFINE T == {t \in Seq(X) : Chosen(t, S) \in Seq(X)}
<1>1. <<>> \in T
  <2>1. <<>> \in Seq(X) /\ Chosen(<<>>, S) = <<>>
    BY ChosenEmpty
  <2>. QED
    BY <2>1
<1>2. ASSUME NEW t \in T, NEW x \in X PROVE Append(t, x) \in T
  <2>1. t \in Seq(X) /\ Chosen(t, S) \in Seq(X)
    OBVIOUS
  <2>2. Append(t, x) \in Seq(X) /\ Append(Chosen(t, S), x) \in Seq(X)
    BY <2>1, AppendProperties
  <2>3. Chosen(Append(t, x), S) \in {Append(Chosen(t, S), x), Chosen(t, S)}
    <3>. HIDE DEF T
    <3>1. Chosen(Append(t, x), S) =
            IF x \in S THEN Append(Chosen(t, S), x) ELSE Chosen(t, S)
      BY <2>1, ChosenAppend
    <3>. QED
      BY <3>1
  <2>4. Chosen(Append(t, x), S) \in Seq(X)
    BY <2>1, <2>2, <2>3
  <2>. QED
    BY <2>2, <2>4
<1>. HIDE DEF T
<1>3. T \subseteq Seq(X)
  BY DEF T
<1>4. T = Seq(X)
  BY <1>1, <1>2, <1>3, SequenceInduction
<1>. QED
  BY <1>4 DEF T

(* Chosen goes through a concatenation piece by piece.                     *)
LEMMA ChosenConcat ==
  ASSUME NEW X, NEW S, NEW s \in Seq(X), NEW t \in Seq(X)
  PROVE  Chosen(s \o t, S) = Chosen(s, S) \o Chosen(t, S)
<1>. DEFINE T == {u \in Seq(X) : Chosen(s \o u, S) = Chosen(s, S) \o Chosen(u, S)}
<1>1. <<>> \in T
  <2>1. Chosen(s, S) \in Seq(X)
    BY ChosenType
  <2>2. s \o <<>> = s /\ Chosen(s, S) \o <<>> = Chosen(s, S)
    BY <2>1, ConcatEmptySeq
  <2>3. <<>> \in Seq(X) /\ Chosen(<<>>, S) = <<>>
    BY ChosenEmpty
  <2>. QED
    BY <2>2, <2>3
<1>2. ASSUME NEW u \in T, NEW x \in X PROVE Append(u, x) \in T
  <2>1. u \in Seq(X) /\ Chosen(s \o u, S) = Chosen(s, S) \o Chosen(u, S)
    OBVIOUS
  <2>. HIDE DEF T
  <2>2. s \o u \in Seq(X) /\ Append(u, x) \in Seq(X)
    BY <2>1, ConcatProperties, AppendProperties
  <2>3. s \o Append(u, x) = Append(s \o u, x)
    BY <2>1, AppendToConcat
  <2>4. /\ Chosen(Append(s \o u, x), S) =
             IF x \in S THEN Append(Chosen(s \o u, S), x) ELSE Chosen(s \o u, S)
        /\ Chosen(Append(u, x), S) =
             IF x \in S THEN Append(Chosen(u, S), x) ELSE Chosen(u, S)
    <3>1. \A v \in Seq(X) :
            Chosen(Append(v, x), S) = IF x \in S THEN Append(Chosen(v, S), x) ELSE Chosen(v, S)
      BY ChosenAppend
    <3>. QED
      BY <2>1, <2>2, <3>1
  <2>5. Chosen(s, S) \in Seq(X) /\ Chosen(u, S) \in Seq(X)
    BY <2>1, ChosenType
  <2>6. Chosen(s, S) \o Append(Chosen(u, S), x) = Append(Chosen(s, S) \o Chosen(u, S), x)
    BY <2>5, AppendToConcat
  <2>7. Chosen(s \o Append(u, x), S) = Chosen(s, S) \o Chosen(Append(u, x), S)
    <3>1. CASE x \in S
      BY <2>1, <2>3, <2>4, <2>6, <3>1
    <3>2. CASE x \notin S
      BY <2>1, <2>3, <2>4, <3>2
    <3>. QED
      BY <3>1, <3>2
  <2>. QED
    BY <2>2, <2>7 DEF T
<1>. HIDE DEF T
<1>3. T \subseteq Seq(X)
  BY DEF T
<1>4. T = Seq(X)
  BY <1>1, <1>2, <1>3, SequenceInduction
<1>. QED
  BY <1>4 DEF T

(* What Chosen returns depends on the elements of the sequence only.       *)
LEMMA ChosenSame ==
  ASSUME NEW X, NEW S, NEW R, NEW s \in Seq(X),
         \A i \in 1 .. Len(s) : s[i] \in S <=> s[i] \in R
  PROVE  Chosen(s, S) = Chosen(s, R)
<1>. DEFINE Agree(t) == \A i \in 1 .. Len(t) : t[i] \in S <=> t[i] \in R
            T == {t \in Seq(X) : Agree(t) => Chosen(t, S) = Chosen(t, R)}
<1>1. <<>> \in T
  BY ChosenEmpty
<1>2. ASSUME NEW t \in T, NEW x \in X PROVE Append(t, x) \in T
  <2>1. t \in Seq(X) /\ (Agree(t) => Chosen(t, S) = Chosen(t, R))
    OBVIOUS
  <2>2. PICK u : u = Append(t, x)
    OBVIOUS
  <2>3. PICK k \in Nat : k = Len(t)
    BY <2>1
  <2>4. /\ u \in Seq(X) /\ Len(u) = k + 1 /\ u[k + 1] = x
        /\ \A i \in 1 .. k : u[i] = t[i]
    BY <2>1, <2>2, <2>3, AppendProperties
  <2>5. ASSUME Agree(u) PROVE Chosen(u, S) = Chosen(u, R)
    <3>1. x \in S <=> x \in R
      <4>1. k + 1 \in 1 .. Len(u)
        BY <2>3, <2>4
      <4>. QED
        BY <2>4, <2>5, <4>1
    <3>2. Agree(t)
      <4>1. \A i \in 1 .. k : i \in 1 .. Len(u)
        BY <2>3, <2>4
      <4>. QED
        BY <2>3, <2>4, <2>5, <4>1
    <3>3. Chosen(t, S) = Chosen(t, R)
      BY <2>1, <3>2
    <3>. HIDE DEF T, Agree
    <3>4. /\ Chosen(u, S) = IF x \in S THEN Append(Chosen(t, S), x) ELSE Chosen(t, S)
          /\ Chosen(u, R) = IF x \in R THEN Append(Chosen(t, R), x) ELSE Chosen(t, R)
      BY <2>1, <2>2, ChosenAppend
    <3>. QED
      BY <3>1, <3>3, <3>4
  <2>6. u \in T
    BY <2>4, <2>5
  <2>. QED
    BY <2>2, <2>6
<1>. HIDE DEF T
<1>3. T \subseteq Seq(X)
  BY DEF T
<1>4. T = Seq(X)
  BY <1>1, <1>2, <1>3, SequenceInduction
<1>. QED
  BY <1>4 DEF T

(* One element is chosen or not.                                           *)
LEMMA ChosenOne ==
  ASSUME NEW S, NEW x
  PROVE  Chosen(<<x>>, S) = IF x \in S THEN <<x>> ELSE <<>>
<1>1. <<>> \in Seq({x}) /\ Append(<<>>, x) = <<x>>
  OBVIOUS
<1>2. Chosen(<<x>>, S) = IF x \in S THEN Append(<<>>, x) ELSE <<>>
  <2>1. PICK X : x \in X /\ <<>> \in Seq(X)
    BY <1>1
  <2>2. PICK s \in Seq(X) : s = <<>>
    BY <2>1
  <2>3. Chosen(Append(s, x), S) = IF x \in S THEN Append(Chosen(s, S), x) ELSE Chosen(s, S)
    BY <2>1, ChosenAppend
  <2>4. Chosen(s, S) = <<>>
    BY <2>2, ChosenEmpty
  <2>. QED
    BY <1>1, <2>2, <2>3, <2>4
<1>. QED
  BY <1>1, <1>2

-----------------------------------------------------------------------------
(* Part of the traffic of a direction.                                     *)

(* A step of a DelayChannel with messages X, or no step: h and l are what  *)
(* it holds and what leaves it, h2 and l2 the same afterwards.             *)
Moves(X, h, l, h2, l2) ==
  \/ h2 = h /\ l2 = l
  \/ \E m \in X : h = <<>> /\ h2 = <<m>> /\ l2 = l
  \/ \E m \in X : h2 = <<>> /\ l2 = l \o <<m>> \o h
  \/ \E m \in X : h2 = <<>> /\ l2 = Append(l, m)
  \/ h2 = <<>> /\ l2 = l \o h
  \/ h2 = <<>> /\ l2 = l

(* Concatenation of sequences over X is associative.                       *)
Associative(X) == \A s, t, u \in Seq(X) : (s \o t) \o u = s \o (t \o u)

(* So it is.                                                               *)
LEMMA ConcatIsAssociative == ASSUME NEW X PROVE Associative(X)
BY ConcatAssociative DEF Associative

(* What is chosen of a longer sequence, behind p.                          *)
Behind(X, S) ==
  \A p, l, e : p \in Seq(X) /\ l \in Seq(X) /\ e \in Seq(X) =>
                p \o Chosen(l \o e, S) = (p \o Chosen(l, S)) \o Chosen(e, S)

(* It is what is chosen of its two parts, behind p.                        *)
LEMMA ChosenBehind == ASSUME NEW X, NEW S PROVE Behind(X, S)
<1>. SUFFICES ASSUME NEW p, NEW l, NEW e, p \in Seq(X) /\ l \in Seq(X) /\ e \in Seq(X)
              PROVE  p \o Chosen(l \o e, S) = (p \o Chosen(l, S)) \o Chosen(e, S)
  BY DEF Behind
<1>1. PICK a, b : a = Chosen(l, S) /\ b = Chosen(e, S)
  OBVIOUS
<1>2. a \in Seq(X) /\ b \in Seq(X)
  BY <1>1, ChosenType
<1>3. Chosen(l \o e, S) = a \o b
  BY <1>1, ChosenConcat
<1>4. (p \o a) \o b = p \o (a \o b)
  <2>1. Associative(X)
    BY ConcatIsAssociative
  <2>2. p \in Seq(X)
    OBVIOUS
  <2>. QED
    BY ONLY <1>2, <2>1, <2>2 DEF Associative
<1>. QED
  BY <1>1, <1>3, <1>4

(* A channel that is seen through S, behind p, is a channel.               *)
LEMMA MovesChosen ==
  ASSUME NEW X, NEW S, NEW p, NEW h, NEW l, NEW h2, NEW l2,
         p \in Seq(X) /\ h \in Seq(X) /\ l \in Seq(X),
         Moves(X, h, l, h2, l2)
  PROVE  Moves(X, Chosen(h, S), p \o Chosen(l, S), Chosen(h2, S), p \o Chosen(l2, S))
<1>1. PICK ch, cl, ch2, cl2 :
        /\ ch = Chosen(h, S) /\ cl = p \o Chosen(l, S)
        /\ ch2 = Chosen(h2, S) /\ cl2 = p \o Chosen(l2, S)
  OBVIOUS
<1>2. ch \in Seq(X) /\ cl \in Seq(X)
  <2>1. ch \in Seq(X) /\ Chosen(l, S) \in Seq(X)
    BY <1>1, ChosenType
  <2>. QED
    BY <1>1, <2>1, ConcatProperties
<1>3. ASSUME NEW k, NEW e, k \in Seq(X) /\ e \in Seq(X)
      PROVE  p \o Chosen(k \o e, S) = (p \o Chosen(k, S)) \o Chosen(e, S)
  <2>1. Behind(X, S)
    BY ChosenBehind
  <2>2. p \in Seq(X)
    OBVIOUS
  <2>. QED
    BY ONLY <1>3, <2>1, <2>2 DEF Behind
<1>4. h2 = <<>> => ch2 = <<>>
  BY <1>1, ChosenEmpty
<1>5. ASSUME NEW m \in X
      PROVE  /\ <<m>> \in Seq(X)
             /\ Chosen(<<m>>, S) \in {<<m>>, <<>>}
             /\ p \o Chosen(l \o <<m>>, S) = cl \o Chosen(<<m>>, S)
             /\ cl \o <<m>> = Append(cl, m)
  <2>1. <<m>> \in Seq(X)
    OBVIOUS
  <2>2. Chosen(<<m>>, S) \in {<<m>>, <<>>}
    BY ChosenOne
  <2>3. p \o Chosen(l \o <<m>>, S) = cl \o Chosen(<<m>>, S)
    BY <1>1, <1>3, <2>1
  <2>4. cl \o <<m>> = Append(cl, m)
    BY <1>2, AppendIsConcat
  <2>. QED
    BY <2>1, <2>2, <2>3, <2>4
<1>6. cl \o <<>> = cl
  BY <1>2, ConcatEmptySeq
<1>7. SUFFICES Moves(X, ch, cl, ch2, cl2)
  BY <1>1
<1>8. CASE h2 = h /\ l2 = l
  <2>1. ch2 = ch /\ cl2 = cl
    BY <1>1, <1>8
  <2>. QED
    BY <2>1 DEF Moves
<1>9. ASSUME NEW m \in X, h = <<>>, h2 = <<m>>, l2 = l
       PROVE  Moves(X, ch, cl, ch2, cl2)
  <2>1. ch = <<>> /\ cl2 = cl /\ ch2 \in {<<m>>, <<>>}
    BY <1>1, <1>5, <1>9, ChosenEmpty
  <2>. QED
    BY <2>1 DEF Moves
<1>10. ASSUME NEW m \in X, h2 = <<>>, l2 = l \o <<m>> \o h
       PROVE  Moves(X, ch, cl, ch2, cl2)
  <2>1. l \o <<m>> \in Seq(X)
    BY <1>5, ConcatProperties
  <2>2. cl2 = (p \o Chosen(l \o <<m>>, S)) \o ch
    BY <1>1, <1>10, <1>3, <2>1
  <2>3. cl2 = (cl \o Chosen(<<m>>, S)) \o ch
    BY <1>5, <2>2
  <2>4. CASE Chosen(<<m>>, S) = <<m>>
    <3>1. cl2 = cl \o <<m>> \o ch
      BY <2>3, <2>4
    <3>. QED
      BY <1>4, <1>10, <3>1 DEF Moves
  <2>5. CASE Chosen(<<m>>, S) = <<>>
    <3>1. cl2 = cl \o ch
      BY <1>6, <2>3, <2>5
    <3>. QED
      BY <1>4, <1>10, <3>1 DEF Moves
  <2>. QED
    BY <1>5, <2>4, <2>5
<1>11. ASSUME NEW m \in X, h2 = <<>>, l2 = Append(l, m)
       PROVE  Moves(X, ch, cl, ch2, cl2)
  <2>1. l2 = l \o <<m>>
    BY <1>11, AppendIsConcat
  <2>2. cl2 = cl \o Chosen(<<m>>, S)
    BY <1>1, <1>5, <2>1
  <2>3. CASE Chosen(<<m>>, S) = <<m>>
    <3>1. cl2 = Append(cl, m)
      BY <1>5, <2>2, <2>3
    <3>. QED
      BY <1>4, <1>11, <3>1 DEF Moves
  <2>4. CASE Chosen(<<m>>, S) = <<>>
    <3>1. cl2 = cl
      BY <1>6, <2>2, <2>4
    <3>. QED
      BY <1>4, <1>11, <3>1 DEF Moves
  <2>. QED
    BY <1>5, <2>3, <2>4
<1>12. CASE h2 = <<>> /\ l2 = l \o h
  <2>1. cl2 = cl \o ch
    BY <1>1, <1>12, <1>3
  <2>. QED
    BY <1>4, <1>12, <2>1 DEF Moves
<1>13. CASE h2 = <<>> /\ l2 = l
  <2>1. cl2 = cl
    BY <1>1, <1>13
  <2>. QED
    BY <1>4, <1>13, <2>1 DEF Moves
<1>. QED
  BY <1>8, <1>9, <1>10, <1>11, <1>12, <1>13 DEF Moves

(* What is left of a longer sequence behind its first k elements.          *)
LEMMA RestOfConcat ==
  ASSUME NEW X, NEW d \in Seq(X), NEW e \in Seq(X), NEW k \in 0 .. Len(d)
  PROVE  SubSeq(d \o e, k + 1, Len(d \o e)) = SubSeq(d, k + 1, Len(d)) \o e
<1>1. PICK n \in Nat, j \in Nat : n = Len(d) /\ j = Len(e)
  BY LenProperties
<1>2. PICK u : u = d \o e
  OBVIOUS
<1>3. /\ u \in Seq(X) /\ Len(u) = n + j
      /\ \A i \in 1 .. n + j : u[i] = IF i <= n THEN d[i] ELSE e[i - n]
  BY <1>1, <1>2, ConcatProperties
<1>4. PICK r : r = SubSeq(d, k + 1, n)
  OBVIOUS
<1>5. PICK v : v = SubSeq(u, k + 1, n + j)
  OBVIOUS
<1>6. k \in 0 .. n /\ k + 1 \in Int /\ n + j \in Int
  BY <1>1
<1>7. /\ r \in Seq(X) /\ Len(r) = n - k
      /\ \A i \in 1 .. n - k : r[i] = d[k + i]
  <2>1. \A i \in k + 1 .. n : d[i] \in X
    BY <1>1, <1>6, ElementOfSeq
  <2>2. /\ SubSeq(d, k + 1, n) \in Seq(X)
        /\ Len(SubSeq(d, k + 1, n)) = IF k + 1 <= n THEN n - (k + 1) + 1 ELSE 0
        /\ \A i \in 1 .. n - (k + 1) + 1 : SubSeq(d, k + 1, n)[i] = d[k + 1 + i - 1]
    BY <1>1, <1>6, <2>1, SubSeqProperties
  <2>3. n - (k + 1) + 1 = n - k /\ \A i \in Int : k + 1 + i - 1 = k + i
    BY <1>6
  <2>. QED
    BY <1>4, <1>6, <2>2, <2>3
<1>8. /\ v \in Seq(X) /\ Len(v) = n + j - k
      /\ \A i \in 1 .. n + j - k : v[i] = u[k + i]
  <2>1. \A i \in k + 1 .. n + j : u[i] \in X
    BY <1>3, <1>6, ElementOfSeq
  <2>2. /\ SubSeq(u, k + 1, n + j) \in Seq(X)
        /\ Len(SubSeq(u, k + 1, n + j)) = IF k + 1 <= n + j THEN n + j - (k + 1) + 1 ELSE 0
        /\ \A i \in 1 .. n + j - (k + 1) + 1 :
             SubSeq(u, k + 1, n + j)[i] = u[k + 1 + i - 1]
    BY <1>6, <2>1, SubSeqProperties
  <2>3. n + j - (k + 1) + 1 = n + j - k /\ \A i \in Int : k + 1 + i - 1 = k + i
    BY <1>1, <1>6
  <2>. QED
    BY <1>1, <1>5, <1>6, <2>2, <2>3
<1>9. /\ r \o e \in Seq(X) /\ Len(r \o e) = (n - k) + j
      /\ \A i \in 1 .. (n - k) + j :
           (r \o e)[i] = IF i <= n - k THEN r[i] ELSE e[i - (n - k)]
  BY <1>1, <1>7, ConcatProperties
<1>10. ASSUME NEW i \in 1 .. n + j - k PROVE v[i] = (r \o e)[i]
  <2>1. k + i \in 1 .. n + j /\ i \in 1 .. (n - k) + j
    BY <1>1, <1>6
  <2>2. v[i] = IF k + i <= n THEN d[k + i] ELSE e[k + i - n]
    BY <1>3, <1>8, <2>1
  <2>3. (r \o e)[i] = IF i <= n - k THEN r[i] ELSE e[i - (n - k)]
    BY <1>9, <2>1
  <2>4. CASE i <= n - k
    <3>1. i \in 1 .. n - k /\ k + i <= n
      BY <1>6, <2>4
    <3>. QED
      BY <1>7, <2>2, <2>3, <2>4, <3>1
  <2>5. CASE ~(i <= n - k)
    <3>1. ~(k + i <= n) /\ k + i - n = i - (n - k)
      BY <1>6, <2>5
    <3>. QED
      BY <2>2, <2>3, <2>5, <3>1
  <2>. QED
    BY <2>4, <2>5
<1>11. v = r \o e
  <2>1. Len(v) = Len(r \o e)
    BY <1>1, <1>6, <1>8, <1>9
  <2>2. \A i \in 1 .. Len(v) : v[i] = (r \o e)[i]
    BY <1>8, <1>10
  <2>3. v \in Seq(X) /\ r \o e \in Seq(X)
    BY <1>8, <1>9
  <2>. QED
    BY <2>1, <2>2, <2>3, SeqEqual
<1>. QED
  BY <1>1, <1>2, <1>3, <1>4, <1>5, <1>11

(* A channel whose first k leaving packets are set aside is a channel.     *)
LEMMA MovesRest ==
  ASSUME NEW X, NEW h \in Seq(X), NEW d \in Seq(X), NEW h2, NEW d2, NEW k \in 0 .. Len(d), Moves(X, h, d, h2, d2)
  PROVE  Moves(X, h, SubSeq(d, k + 1, Len(d)), h2, SubSeq(d2, k + 1, Len(d2)))
<1>1. PICK r, r2 : r = SubSeq(d, k + 1, Len(d)) /\ r2 = SubSeq(d2, k + 1, Len(d2))
  OBVIOUS
<1>2. \A e \in Seq(X) : d2 = d \o e => r2 = r \o e
  BY <1>1, RestOfConcat
<1>3. r \in Seq(X)
  <2>1. Len(d) \in Int /\ k + 1 \in Int
    BY LenProperties
  <2>2. \A i \in k + 1 .. Len(d) : d[i] \in X
    BY <2>1, ElementOfSeq
  <2>. QED
    BY <1>1, <2>1, <2>2, SubSeqProperties
<1>4. SUFFICES Moves(X, h, r, h2, r2)
  BY <1>1
<1>5. d2 = d => r2 = r
  BY <1>1
<1>6. ASSUME NEW m \in X
      PROVE  /\ <<m>> \in Seq(X)
             /\ d2 = d \o <<m>> \o h => r2 = r \o <<m>> \o h
             /\ d2 = Append(d, m) => r2 = Append(r, m)
  <2>1. <<m>> \in Seq(X)
    OBVIOUS
  <2>2. <<m>> \o h \in Seq(X)
    BY <2>1, ConcatProperties
  <2>3. (d \o <<m>>) \o h = d \o (<<m>> \o h) /\ (r \o <<m>>) \o h = r \o (<<m>> \o h)
    <3>1. Associative(X)
      BY ConcatIsAssociative
    <3>2. (d \o <<m>>) \o h = d \o (<<m>> \o h)
      BY <2>1, <3>1 DEF Associative
    <3>3. (r \o <<m>>) \o h = r \o (<<m>> \o h)
      BY <1>3, <2>1, <3>1 DEF Associative
    <3>. QED
      BY <3>2, <3>3
  <2>4. Append(d, m) = d \o <<m>> /\ Append(r, m) = r \o <<m>>
    BY <1>3, AppendIsConcat
  <2>5. d2 = d \o (<<m>> \o h) => r2 = r \o (<<m>> \o h)
    BY <1>2, <2>2
  <2>6. d2 = d \o <<m>> => r2 = r \o <<m>>
    BY <1>2, <2>1
  <2>. QED
    BY <2>1, <2>3, <2>4, <2>5, <2>6
<1>7. d2 = d \o h => r2 = r \o h
  BY <1>2
<1>8. CASE \E m \in X : h2 = <<>> /\ d2 = d \o <<m>> \o h
  BY <1>6, <1>8 DEF Moves
<1>9. CASE \E m \in X : h2 = <<>> /\ d2 = Append(d, m)
  BY <1>6, <1>9 DEF Moves
<1>10. CASE d2 = d \/ (h2 = <<>> /\ d2 = d \o h)
  BY <1>5, <1>7, <1>10 DEF Moves
<1>. QED
  BY <1>8, <1>9, <1>10 DEF Moves

-----------------------------------------------------------------------------
(* Whose packets are whose.                                                *)

(* A packet sent under an id of the map leaves all packets with an owner.  *)
LEMMA SendAsOwners ==
  ASSUME NetworkInv, OwnersInv, NEW g \in Hosts, NEW i \in Ids, SendAs(g, i),
         clientMap[i] \in Clients, UNCHANGED <<clientMap, inserting, asked, clientIdentifier>>
  PROVE  OwnersInv'
<1>1. clientId \in [Hosts -> Seq(Ids)]
  BY DEF NetworkInv, NetworkTypeOK
<1>2. PICK u : u = Append(clientId[g], i)
  OBVIOUS
<1>3. PICK k \in Nat : k = Len(clientId[g])
  BY <1>1, LenProperties
<1>4. /\ Len(u) = k + 1 /\ u[k + 1] = i
      /\ \A n \in 1 .. k : u[n] = clientId[g][n]
  BY <1>1, <1>2, <1>3, AppendProperties
<1>5. clientId' = [clientId EXCEPT ![g] = u]
  BY <1>2 DEF SendAs
<1>6. ASSUME NEW h \in Hosts, NEW n \in 1 .. Len(clientId'[h])
      PROVE  clientMap[clientId'[h][n]] \in Clients
  <2>1. CASE h = g
    <3>1. clientId'[h] = u /\ n \in 1 .. (k + 1)
      BY <1>1, <1>4, <1>5, <1>6, <2>1
    <3>2. CASE n = k + 1
      BY <1>4, <3>1, <3>2
    <3>3. CASE n \in 1 .. k
      <4>1. clientMap[clientId[g][n]] \in Clients
        BY <1>3, <3>3 DEF OwnersInv
      <4>. QED
        BY <1>4, <3>1, <3>3, <4>1
    <3>. QED
      BY <1>3, <3>1, <3>2, <3>3
  <2>2. CASE h # g
    <3>1. clientId'[h] = clientId[h]
      BY <1>1, <1>5, <2>2
    <3>. QED
      BY <1>6, <3>1 DEF OwnersInv
  <2>. QED
    BY <2>1, <2>2
<1>. QED
  BY <1>6 DEF OwnersInv

(* A packet the router has delivered was sent under an id.                 *)
LEMMA DeliveredWasSent ==
  ASSUME NetworkInv, NEW h \in Hosts, NEW n \in 1 .. Len(delivered[h])
  PROVE  /\ delivered[h][n] \in 1 .. sent[Other(h)]
         /\ delivered[h][n] \in 1 .. Len(clientId[Other(h)])
<1>1. PICK g \in Hosts : g = Other(h)
  BY HostFacts
<1>2. delivered[h][n] \in 1 .. Packets /\ delivered[h][n] <= Taken(g)
  BY <1>1, DeliveredNumbers DEF NetworkInv, RouterInv, DeliveredInv
<1>3. Len(socket[g]) \in Nat /\ sent[g] \in Nat /\ Len(clientId[g]) = sent[g]
  BY LenProperties DEF NetworkInv, NetworkTypeOK, TypeOK
<1>. QED
  BY <1>1, <1>2, <1>3 DEF Taken

(* The same of the next state.                                             *)
LEMMA DeliveredWasSentLater ==
  NetworkInv' => \A h \in Hosts : \A n \in 1 .. Len(delivered'[h]) :
                   delivered'[h][n] \in 1 .. sent'[Other(h)]
<1>1. NetworkInv => \A h \in Hosts : \A n \in 1 .. Len(delivered[h]) :
                      delivered[h][n] \in 1 .. sent[Other(h)]
  BY DeliveredWasSent
<1>2. (NetworkInv => \A h \in Hosts : \A n \in 1 .. Len(delivered[h]) :
                       delivered[h][n] \in 1 .. sent[Other(h)])'
  BY <1>1, PTL
<1>. QED
  BY <1>2

(* So was the packet it holds.                                             *)
LEMMA HeldWasSent ==
  ASSUME NetworkInv, NEW h \in Hosts
  PROVE  /\ HeldFor(h) \in Seq(1 .. Packets)
         /\ \A n \in 1 .. Len(HeldFor(h)) : HeldFor(h)[n] \in 1 .. sent[Other(h)]
<1>1. PICK g \in Hosts : g = Other(h)
  BY HostFacts
<1>2. CASE HoldsFor(h)
  <2>1. FileBuf.count \in 1 .. Taken(g) /\ Taken(g) \in Nat
    BY <1>1, <1>2 DEF NetworkInv, RouterInv, HeldInv, HoldsFor, SocketInv
  <2>2. /\ Len(socket[g]) \in Nat /\ sent[g] \in Nat /\ sent[g] <= Packets
        /\ Packets \in Nat /\ FileBuf.count \in Nat
    BY RouterAssumption, LenProperties DEF NetworkInv, NetworkTypeOK, TypeOK
  <2>3. FileBuf.count \in 1 .. sent[g] /\ FileBuf.count \in 1 .. Packets
    BY <2>1, <2>2 DEF Taken
  <2>4. HeldFor(h) = <<FileBuf.count>>
    BY <1>2 DEF HeldFor
  <2>. QED
    BY <1>1, <2>3, <2>4
<1>3. CASE ~HoldsFor(h)
  <2>1. HeldFor(h) = <<>>
    BY <1>3 DEF HeldFor
  <2>. QED
    BY <2>1
<1>. QED
  BY <1>2, <1>3

(* The same of the next state.                                             *)
LEMMA HeldWasSentLater ==
  NetworkInv' => \A h \in Hosts :
                   /\ HeldFor(h)' \in Seq(1 .. Packets)
                   /\ \A n \in 1 .. Len(HeldFor(h)') :
                        HeldFor(h)'[n] \in 1 .. sent'[Other(h)]
<1>1. NetworkInv => \A h \in Hosts :
                      /\ HeldFor(h) \in Seq(1 .. Packets)
                      /\ \A n \in 1 .. Len(HeldFor(h)) : HeldFor(h)[n] \in 1 .. sent[Other(h)]
  BY HeldWasSent
<1>2. (NetworkInv => \A h \in Hosts :
         /\ HeldFor(h) \in Seq(1 .. Packets)
         /\ \A n \in 1 .. Len(HeldFor(h)) : HeldFor(h)[n] \in 1 .. sent[Other(h)])'
  BY <1>1, PTL
<1>. QED
  BY <1>2

(* Every step keeps the owners.                                            *)
LEMMA OwnersStep ==
  ASSUME NetworkInv, OwnersInv, [NetworkNext]_netVars
  PROVE  OwnersInv'
<1>1. /\ clientMap \in [Ids -> Clients \union {NULL_CLIENT_ID}]
      /\ inserting \in Ids \union {NULL_CLIENT_ID}
      /\ asked \in [Clients -> Ids \union {NULL_CLIENT_ID}]
      /\ clientIdentifier \in [Clients -> Ids \union {NULL_CLIENT_ID}]
      /\ clientId \in [Hosts -> Seq(Ids)]
  BY DEF NetworkInv, NetworkTypeOK
<1>2. 1 \in Hosts /\ 2 \in Hosts /\ Other(1) = 2
  BY HostFacts DEF Other
<1>3. \A h \in Hosts : \A n \in 1 .. Len(clientId[h]) : clientId[h][n] \in Ids
  BY <1>1, ElementOfSeq
<1>4. CASE UNCHANGED <<clientVars, clientMap, inserting>>
  BY <1>4 DEF OwnersInv, clientVars
<1>5. ASSUME NEW c \in Clients, RequestId(c) PROVE OwnersInv'
  <2>1. PICK i \in Ids : /\ clientMap[i] = NULL_CLIENT_ID
                         /\ asked' = [asked EXCEPT ![c] = i]
                         /\ inserting' = i
    BY <1>5 DEF RequestId, FreeIds
  <2>2. UNCHANGED <<clientId, clientMap, clientIdentifier>> /\ asked[c] = NULL_CLIENT_ID
    BY <1>5 DEF RequestId
  <2>3. ASSUME NEW j \in Ids, clientMap[j] \in Clients
        PROVE  asked'[clientMap[j]] = j
    <3>1. asked[clientMap[j]] = j
      BY <2>3 DEF OwnersInv
    <3>2. clientMap[j] # c
      BY <2>2, <3>1, NetworkAssumption
    <3>. QED
      BY <1>1, <2>1, <2>3, <3>1, <3>2
  <2>4. ASSUME NEW d \in Clients, asked[d] # NULL_CLIENT_ID
        PROVE  asked[d] # i /\ clientMap[asked[d]] = d
    <3>1. inserting = NULL_CLIENT_ID
      BY <1>5 DEF RequestId, Listening
    <3>2. clientMap[asked[d]] = d
      BY <2>4, <3>1 DEF OwnersInv
    <3>. QED
      BY <2>1, <3>2, NetworkAssumption
  <2>5. ASSUME NEW d \in Clients, asked'[d] # NULL_CLIENT_ID
        PROVE  inserting' = asked'[d] \/ clientMap[asked'[d]] = d
    BY <1>1, <2>1, <2>4, <2>5
  <2>6. ASSUME NEW d \in Clients, NEW e \in Clients,
               asked'[d] = asked'[e], asked'[d] # NULL_CLIENT_ID
        PROVE  d = e
    <3>1. d = c => e = c
      BY <1>1, <2>1, <2>4, <2>6
    <3>2. e = c => d = c
      BY <1>1, <2>1, <2>4, <2>6
    <3>3. d # c /\ e # c => d = e
      BY <1>1, <2>1, <2>6 DEF OwnersInv
    <3>. QED
      BY <3>1, <3>2, <3>3
  <2>. QED
    BY <2>1, <2>2, <2>3, <2>5, <2>6 DEF OwnersInv
<1>6. ASSUME NEW c \in Clients, AssignId(c) PROVE OwnersInv'
  <2>1. /\ inserting # NULL_CLIENT_ID /\ asked[c] = inserting
        /\ clientMap' = [clientMap EXCEPT ![inserting] = c]
        /\ inserting' = NULL_CLIENT_ID
        /\ clientIdentifier' \in
             {clientIdentifier, [clientIdentifier EXCEPT ![c] = inserting]}
        /\ UNCHANGED <<clientId, asked>>
    BY <1>6 DEF AssignId
  <2>2. inserting \in Ids /\ clientMap[inserting] \notin Clients
    BY <1>1, <2>1, NetworkAssumption DEF OwnersInv
  <2>3. /\ clientMap'[inserting] = c
        /\ \A i \in Ids : i # inserting => clientMap'[i] = clientMap[i]
    BY <1>1, <2>1, <2>2
  <2>4. ASSUME NEW h \in Hosts, NEW n \in 1 .. Len(clientId[h])
        PROVE  clientMap'[clientId[h][n]] \in Clients
    <3>1. clientMap[clientId[h][n]] \in Clients /\ clientId[h][n] \in Ids
      BY <1>3 DEF OwnersInv
    <3>. QED
      BY <2>2, <2>3, <3>1
  <2>5. ASSUME NEW d \in Clients, clientIdentifier'[d] # NULL_CLIENT_ID
        PROVE  clientMap'[clientIdentifier'[d]] = d
    <3>1. CASE clientIdentifier'[d] = clientIdentifier[d]
      <4>1. clientMap[clientIdentifier[d]] = d /\ clientIdentifier[d] \in Ids
        BY <1>1, <2>5, <3>1 DEF OwnersInv
      <4>2. clientIdentifier[d] # inserting
        BY <2>2, <4>1
      <4>. QED
        BY <2>3, <3>1, <4>1, <4>2
    <3>2. CASE d = c /\ clientIdentifier'[d] = inserting
      BY <2>3, <3>2
    <3>. QED
      BY <1>1, <2>1, <3>1, <3>2
  <2>6. ASSUME NEW i \in Ids, clientMap'[i] \in Clients
        PROVE  asked[clientMap'[i]] = i
    BY <2>1, <2>3, <2>6 DEF OwnersInv
  <2>7. ASSUME NEW d \in Clients, asked[d] # NULL_CLIENT_ID
        PROVE  clientMap'[asked[d]] = d
    <3>1. CASE inserting = asked[d]
      <4>1. d = c
        BY <2>1, <3>1 DEF OwnersInv
      <4>. QED
        BY <2>3, <3>1, <4>1
    <3>2. CASE inserting # asked[d]
      <4>1. clientMap[asked[d]] = d /\ asked[d] \in Ids
        BY <1>1, <2>7, <3>2 DEF OwnersInv
      <4>. QED
        BY <2>3, <3>2, <4>1
    <3>. QED
      BY <3>1, <3>2
  <2>. QED
    BY <2>1, <2>4, <2>5, <2>6, <2>7 DEF OwnersInv
<1>7. ASSUME NEW c \in Clients, ClientSends(c) PROVE OwnersInv'
  <2>1. /\ clientIdentifier[c] \in Ids /\ clientMap[clientIdentifier[c]] \in Clients
        /\ SendAs(2, clientIdentifier[c])
    BY <1>1, <1>7 DEF ClientSends, OwnersInv
  <2>2. UNCHANGED <<clientMap, inserting, asked, clientIdentifier>>
    BY <1>7 DEF ClientSends, muxerVars
  <2>. QED
    BY <1>2, <2>1, <2>2, SendAsOwners
<1>8. CASE ServerSends
  <2>1. PICK n \in ToSet(delivered[1]) : SendAs(1, clientId[2][n])
    BY <1>8 DEF ServerSends
  <2>2. PICK k \in 1 .. Len(delivered[1]) : n = delivered[1][k]
    BY <1>2, DeliveredIndex
  <2>3. n \in 1 .. Len(clientId[2])
    BY <1>2, <2>2, DeliveredWasSent
  <2>4. clientId[2][n] \in Ids /\ clientMap[clientId[2][n]] \in Clients
    BY <1>2, <1>3, <2>3 DEF OwnersInv
  <2>5. UNCHANGED <<clientMap, inserting, asked, clientIdentifier>>
    BY <1>8 DEF ServerSends, muxerVars
  <2>. QED
    BY <1>2, <2>1, <2>4, <2>5, SendAsOwners
<1>. QED
  BY <1>4, <1>5, <1>6, <1>7, <1>8
     DEF NetworkNext, RouterListener, RouterListenerMisses, Route, netVars, muxerVars

(* Packets that were sent keep their owner.                                *)
LEMMA OwnPacketsStep ==
  ASSUME NetworkInv, OwnersInv, [NetworkNext]_netVars, NEW h \in Hosts, NEW c \in Clients
  PROVE  \A n \in 1 .. sent[h] : n \in OwnPackets(h, c)' <=> n \in OwnPackets(h, c)
<1>1. /\ asked \in [Clients -> Ids \union {NULL_CLIENT_ID}]
      /\ clientId \in [Hosts -> Seq(Ids)]
      /\ Len(clientId[h]) = sent[h] /\ sent[h] \in Nat
  BY DEF NetworkInv, NetworkTypeOK, TypeOK
<1>2. 1 \in Hosts /\ 2 \in Hosts
  BY HostFacts
<1>3. CASE UNCHANGED <<clientId, asked>>
  BY <1>3 DEF OwnPackets
<1>4. ASSUME NEW d \in Clients, RequestId(d)
      PROVE  \A n \in 1 .. sent[h] : n \in OwnPackets(h, c)' <=> n \in OwnPackets(h, c)
  <2>1. PICK i \in Ids : clientMap[i] = NULL_CLIENT_ID /\ asked' = [asked EXCEPT ![d] = i]
    BY <1>4 DEF RequestId, FreeIds
  <2>2. clientId' = clientId /\ asked[d] = NULL_CLIENT_ID
    BY <1>4 DEF RequestId
  <2>3. ASSUME NEW n \in 1 .. sent[h]
        PROVE  clientId[h][n] # NULL_CLIENT_ID /\ clientId[h][n] # i
    <3>1. clientId[h][n] \in Ids
      BY <1>1, ElementOfSeq
    <3>2. clientMap[clientId[h][n]] \in Clients
      BY <1>1 DEF OwnersInv
    <3>. QED
      BY <2>1, <3>1, <3>2, NetworkAssumption
  <2>4. asked'[c] = asked[c] \/ (asked'[c] = i /\ asked[c] = NULL_CLIENT_ID)
    BY <1>1, <2>1, <2>2
  <2>. QED
    BY <2>2, <2>3, <2>4 DEF OwnPackets
<1>5. ASSUME NEW g \in Hosts, NEW i \in Ids, SendAs(g, i), UNCHANGED asked
      PROVE  \A n \in 1 .. sent[h] : n \in OwnPackets(h, c)' <=> n \in OwnPackets(h, c)
  <2>1. clientId' = [clientId EXCEPT ![g] = Append(clientId[g], i)]
    BY <1>5 DEF SendAs
  <2>2. PICK s \in Seq(Ids) : s = clientId[h]
    BY <1>1
  <2>3. /\ Len(Append(s, i)) = sent[h] + 1
        /\ \A n \in 1 .. sent[h] : Append(s, i)[n] = s[n]
    BY <1>1, <2>2, AppendProperties
  <2>4. clientId'[h] = s \/ clientId'[h] = Append(s, i)
    BY <1>1, <2>1, <2>2
  <2>5. /\ Len(clientId'[h]) \in {sent[h], sent[h] + 1}
        /\ \A n \in 1 .. sent[h] : clientId'[h][n] = clientId[h][n]
    BY <1>1, <2>2, <2>3, <2>4
  <2>6. \A n \in 1 .. sent[h] : n \in 1 .. Len(clientId'[h]) /\ n \in 1 .. Len(clientId[h])
    BY <1>1, <2>5
  <2>. QED
    BY <1>5, <2>5, <2>6 DEF OwnPackets
<1>6. ASSUME NEW d \in Clients, ClientSends(d)
      PROVE  \A n \in 1 .. sent[h] : n \in OwnPackets(h, c)' <=> n \in OwnPackets(h, c)
  <2>1. clientIdentifier[d] \in Ids
    BY <1>6 DEF ClientSends, NetworkInv, NetworkTypeOK
  <2>2. PICK i \in Ids : i = clientIdentifier[d]
    BY <2>1
  <2>3. SendAs(2, i) /\ UNCHANGED asked
    BY <1>6, <2>2 DEF ClientSends
  <2>. QED
    BY <1>2, <1>5, <2>3
<1>7. CASE ServerSends
  <2>1. PICK n \in ToSet(delivered[1]) : SendAs(1, clientId[2][n])
    BY <1>7 DEF ServerSends
  <2>2. PICK k \in 1 .. Len(delivered[1]) : n = delivered[1][k]
    BY <1>2, DeliveredIndex
  <2>3. n \in 1 .. Len(clientId[2])
    <3>1. Other(1) = 2
      BY DEF Other
    <3>. QED
      BY <1>2, <2>2, <3>1, DeliveredWasSent
  <2>4. clientId[2][n] \in Ids
    BY <1>1, <1>2, <2>3, ElementOfSeq
  <2>. QED
    BY <1>2, <1>5, <1>7, <2>1, <2>4 DEF ServerSends
<1>. QED
  BY <1>3, <1>4, <1>6, <1>7
     DEF NetworkNext, AssignId, RouterListener, RouterListenerMisses, Route, netVars,
         clientVars

(* While a packet is sent, the router does not move.                       *)
LEMMA SentOrRouted ==
  ASSUME [NetworkNext]_netVars
  PROVE  sent' = sent \/ UNCHANGED <<FileBuf, delivered>>
<1>1. CASE \E c \in Clients : ClientSends(c)
  BY <1>1 DEF ClientSends, SendAs, Arrive
<1>2. CASE ServerSends
  BY <1>2 DEF ServerSends, SendAs, Arrive
<1>3. CASE Route
  BY <1>3 DEF Route, Run, Idle, Delay, Drop, Forward, Take
<1>. QED
  BY <1>1, <1>2, <1>3 DEF NetworkNext, RequestId, AssignId, RouterListener,
     RouterListenerMisses, netVars, vars

(* What is delivered or held after a step was sent before it.              *)
LEMMA RoutedWasSent ==
  ASSUME NetworkInv, [NetworkNext]_netVars, NEW h \in Hosts
  PROVE  /\ delivered'[h] \in Seq(1 .. Packets)
         /\ HeldFor(h)' \in Seq(1 .. Packets)
         /\ \A n \in 1 .. Len(delivered'[h]) : delivered'[h][n] \in 1 .. sent[Other(h)]
         /\ \A n \in 1 .. Len(HeldFor(h)') : HeldFor(h)'[n] \in 1 .. sent[Other(h)]
<1>1. NetworkInv'
  BY NetworkInvStep
<1>2. delivered'[h] \in Seq(1 .. Packets)
  BY <1>1 DEF NetworkInv, NetworkTypeOK, TypeOK
<1>3. CASE sent' = sent
  <2>1. \A n \in 1 .. Len(delivered'[h]) : delivered'[h][n] \in 1 .. sent'[Other(h)]
    BY <1>1, DeliveredWasSentLater
  <2>2. /\ HeldFor(h)' \in Seq(1 .. Packets)
        /\ \A n \in 1 .. Len(HeldFor(h)') : HeldFor(h)'[n] \in 1 .. sent'[Other(h)]
    BY <1>1, HeldWasSentLater
  <2>. QED
    BY <1>2, <1>3, <2>1, <2>2
<1>4. CASE UNCHANGED <<FileBuf, delivered>>
  <2>1. HeldFor(h)' = HeldFor(h) /\ delivered'[h] = delivered[h]
    BY <1>4 DEF HeldFor, HoldsFor
  <2>. QED
    BY <1>2, <2>1, HeldWasSent, DeliveredWasSent
<1>. QED
  BY <1>3, <1>4, SentOrRouted

(* What a client can see of a direction, behind p and without the first k  *)
(* packets, moves as a channel does, with every step.                      *)
LEMMA OwnMoves ==
  ASSUME NetworkInv, OwnersInv, [NetworkNext]_netVars,
         NEW h \in Hosts, NEW g \in Hosts, g = Other(h), NEW c \in Clients,
         NEW k \in 0 .. Len(delivered[h]), NEW p \in Seq(1 .. Packets)
  PROVE  Moves(1 .. Packets,
           Of(g, c, HeldFor(h)),
           p \o Of(g, c, SubSeq(delivered[h], k + 1, Len(delivered[h]))),
           Of(g, c, HeldFor(h))',
           p \o Of(g, c, SubSeq(delivered[h], k + 1, Len(delivered[h])))')
<1>1. PICK X : X = 1 .. Packets
  OBVIOUS
<1>2. PICK S, R : S = OwnPackets(g, c) /\ R = OwnPackets(g, c)'
  OBVIOUS
<1>3. PICK f, d, f2, d2 : /\ f = HeldFor(h) /\ d = delivered[h]
                          /\ f2 = HeldFor(h)' /\ d2 = delivered'[h]
  OBVIOUS
<1>4. PICK r, r2 : r = SubSeq(d, k + 1, Len(d)) /\ r2 = SubSeq(d2, k + 1, Len(d2))
  OBVIOUS
<1>5. f \in Seq(X) /\ d \in Seq(X) /\ f2 \in Seq(X) /\ d2 \in Seq(X)
  BY <1>1, <1>3, HeldWasSent, RoutedWasSent DEF NetworkInv, NetworkTypeOK, TypeOK
<1>6. Moves(X, f, d, f2, d2)
  <2>1. ChannelStep(h)
    BY NetworkStepsOfRouter, EveryChannelStep DEF NetworkInv
  <2>. QED
    BY <1>1, <1>3, <2>1 DEF ChannelStep, Moves
<1>7. Moves(X, f, r, f2, r2)
  <2>1. k \in 0 .. Len(d)
    BY <1>3
  <2>. QED
    BY <1>4, <1>5, <1>6, <2>1, MovesRest
<1>8. r \in Seq(X) /\ r2 \in Seq(X) /\ k + 1 \in Int
      /\ \A i \in 1 .. Len(r2) : \E j \in 1 .. Len(d2) : r2[i] = d2[j]
  <2>1. k \in Nat /\ Len(d) \in Nat /\ Len(d2) \in Nat
    BY <1>3, <1>5, LenProperties
  <2>2. /\ \A i \in k + 1 .. Len(d) : d[i] \in X
        /\ \A i \in k + 1 .. Len(d2) : d2[i] \in X
    BY <1>5, <2>1, ElementOfSeq
  <2>3. r \in Seq(X)
    BY <1>4, <2>1, <2>2, SubSeqProperties
  <2>4. /\ r2 \in Seq(X)
        /\ Len(r2) = IF k + 1 <= Len(d2) THEN Len(d2) - (k + 1) + 1 ELSE 0
        /\ \A i \in 1 .. Len(d2) - (k + 1) + 1 : r2[i] = d2[k + 1 + i - 1]
    BY <1>4, <2>1, <2>2, SubSeqProperties
  <2>5. ASSUME NEW i \in 1 .. Len(r2) PROVE \E j \in 1 .. Len(d2) : r2[i] = d2[j]
    <3>1. i \in 1 .. Len(d2) - (k + 1) + 1 /\ k + 1 + i - 1 \in 1 .. Len(d2)
      BY <2>1, <2>4
    <3>. QED
      BY <2>4, <3>1
  <2>. QED
    BY <2>1, <2>3, <2>4, <2>5
<1>9. Moves(X, Chosen(f, S), p \o Chosen(r, S), Chosen(f2, S), p \o Chosen(r2, S))
  <2>1. p \in Seq(X)
    BY <1>1
  <2>. QED
    BY <1>5, <1>7, <1>8, <2>1, MovesChosen
<1>10. \A n \in 1 .. sent[g] : n \in R <=> n \in S
  BY <1>2, OwnPacketsStep
<1>11. /\ \A n \in 1 .. Len(d2) : d2[n] \in 1 .. sent[g]
       /\ \A n \in 1 .. Len(f2) : f2[n] \in 1 .. sent[g]
  BY <1>3, RoutedWasSent
<1>12. Chosen(f2, R) = Chosen(f2, S)
  <2>1. \A n \in 1 .. Len(f2) : f2[n] \in R <=> f2[n] \in S
    BY <1>10, <1>11
  <2>2. f2 \in Seq(X)
    BY <1>5
  <2>. QED
    BY ONLY <2>1, <2>2, ChosenSame
<1>13. Chosen(r2, R) = Chosen(r2, S)
  <2>1. \A n \in 1 .. Len(r2) : r2[n] \in R <=> r2[n] \in S
    BY <1>8, <1>10, <1>11
  <2>2. r2 \in Seq(X)
    BY <1>8
  <2>. QED
    BY ONLY <2>1, <2>2, ChosenSame
<1>14. Moves(X, Chosen(f, S), p \o Chosen(r, S), Chosen(f2, R), p \o Chosen(r2, R))
  BY <1>9, <1>12, <1>13
<1>. QED
  BY <1>1, <1>2, <1>3, <1>4, <1>14 DEF Of

(* The direction to the server, seen by a client.                          *)
LEMMA OwnToServerMoves ==
  ASSUME NetworkInv, OwnersInv, [NetworkNext]_netVars, NEW c \in Clients
  PROVE  /\ Of(2, c, delivered[1]) \in Seq(1 .. Packets)
         /\ Moves(1 .. Packets, Of(2, c, HeldFor(1)), Of(2, c, delivered[1]),
                  Of(2, c, HeldFor(1))', Of(2, c, delivered[1])')
<1>1. 1 \in Hosts /\ 2 \in Hosts /\ 2 = Other(1)
  BY HostFacts DEF Other
<1>2. PICK X : X = 1 .. Packets
  OBVIOUS
<1>3. delivered[1] \in Seq(X) /\ delivered'[1] \in Seq(X)
  BY <1>1, <1>2, RoutedWasSent DEF NetworkInv, NetworkTypeOK, TypeOK
<1>4. /\ SubSeq(delivered[1], 0 + 1, Len(delivered[1])) = delivered[1]
      /\ SubSeq(delivered'[1], 0 + 1, Len(delivered'[1])) = delivered'[1]
  BY <1>3, SubSeqFull
<1>5. Chosen(delivered[1], OwnPackets(2, c)) \in Seq(X)
  BY <1>3, ChosenType
<1>6. Chosen(delivered'[1], OwnPackets(2, c)') \in Seq(X)
  BY <1>3, ChosenType
<1>7. /\ <<>> \o Chosen(delivered[1], OwnPackets(2, c)) = Chosen(delivered[1], OwnPackets(2, c))
      /\ <<>> \o Chosen(delivered'[1], OwnPackets(2, c)') =
           Chosen(delivered'[1], OwnPackets(2, c)')
  BY <1>5, <1>6, ConcatEmptySeq
<1>8. 0 \in 0 .. Len(delivered[1]) /\ <<>> \in Seq(1 .. Packets)
  BY <1>3, LenProperties
<1>9. Moves(1 .. Packets,
        Of(2, c, HeldFor(1)),
        <<>> \o Of(2, c, SubSeq(delivered[1], 0 + 1, Len(delivered[1]))),
        Of(2, c, HeldFor(1))',
        <<>> \o Of(2, c, SubSeq(delivered[1], 0 + 1, Len(delivered[1])))')
  BY <1>1, <1>8, OwnMoves
<1>. QED
  BY <1>2, <1>4, <1>5, <1>7, <1>9 DEF Of

(* Packets of the router that RouterListener has not taken yet.            *)
Waiting == SubSeq(delivered[2], forwarded + 1, Len(delivered[2]))

(* They are packets.                                                       *)
LEMMA WaitingType == ASSUME NetworkInv PROVE Waiting \in Seq(1 .. Packets)
<1>1. PICK X, d, k : X = 1 .. Packets /\ d = delivered[2] /\ k = forwarded + 1
  OBVIOUS
<1>2. d \in Seq(X) /\ Len(d) \in Nat /\ k \in Nat \ {0}
  BY <1>1, HostFacts, LenProperties DEF NetworkInv, NetworkTypeOK, TypeOK
<1>3. \A i \in k .. Len(d) : d[i] \in X
  BY <1>2, ElementOfSeq
<1>4. SubSeq(d, k, Len(d)) \in Seq(X)
  BY <1>2, <1>3, SubSeqProperties
<1>. QED
  BY <1>1, <1>4 DEF Waiting

(* The direction from the server, seen by a client, while RouterListener   *)
(* does nothing.                                                           *)
LEMMA OwnToClientMoves ==
  ASSUME NetworkInv, OwnersInv, [NetworkNext]_netVars, NEW c \in Clients,
         UNCHANGED <<forwarded, inbox>>
  PROVE  Moves(1 .. Packets, Of(1, c, HeldFor(2)), inbox[c] \o Of(1, c, Waiting),
               Of(1, c, HeldFor(2))', (inbox[c] \o Of(1, c, Waiting))')
<1>1. 1 \in Hosts /\ 2 \in Hosts /\ 1 = Other(2)
  BY HostFacts DEF Other
<1>2. forwarded \in 0 .. Len(delivered[2]) /\ inbox[c] \in Seq(1 .. Packets)
  BY DEF NetworkInv, NetworkTypeOK
<1>3. Moves(1 .. Packets,
        Of(1, c, HeldFor(2)),
        inbox[c] \o Of(1, c, SubSeq(delivered[2], forwarded + 1, Len(delivered[2]))),
        Of(1, c, HeldFor(2))',
        inbox[c] \o Of(1, c, SubSeq(delivered[2], forwarded + 1, Len(delivered[2])))')
  <2>1. PICK k, p : k = forwarded /\ p = inbox[c]
    OBVIOUS
  <2>2. Moves(1 .. Packets,
          Of(1, c, HeldFor(2)),
          p \o Of(1, c, SubSeq(delivered[2], k + 1, Len(delivered[2]))),
          Of(1, c, HeldFor(2))',
          p \o Of(1, c, SubSeq(delivered[2], k + 1, Len(delivered[2])))')
    BY <1>1, <1>2, <2>1, OwnMoves
  <2>. QED
    BY <2>1, <2>2 DEF Of
<1>. QED
  BY <1>3 DEF Waiting, Of

(* RouterListener moves the packet from what waits to the inbox of its     *)
(* client, and what a client can see of both stays as it is.               *)
LEMMA RouterListenerMoves ==
  ASSUME NetworkInv, OwnersInv, RouterListener, NEW c \in Clients
  PROVE  /\ Of(1, c, HeldFor(2))' = Of(1, c, HeldFor(2))
         /\ (inbox[c] \o Of(1, c, Waiting))' = inbox[c] \o Of(1, c, Waiting)
<1>1. 1 \in Hosts /\ 2 \in Hosts /\ 1 = Other(2)
  BY HostFacts DEF Other
<1>2. PICK X, k, d, S : /\ X = 1 .. Packets /\ k = forwarded /\ d = delivered[2]
                        /\ S = OwnPackets(1, c)
  OBVIOUS
<1>3. /\ d \in Seq(X) /\ Len(d) \in Nat /\ k \in 0 .. Len(d)
      /\ inbox \in [Clients -> Seq(X)]
  BY <1>1, <1>2, LenProperties DEF NetworkInv, NetworkTypeOK, TypeOK
<1>4. UNCHANGED <<vars, clientVars, clientMap>> /\ forwarded' = k + 1 /\ k < Len(d)
  BY <1>2 DEF RouterListener
<1>5. OwnPackets(1, c)' = S /\ Of(1, c, HeldFor(2))' = Of(1, c, HeldFor(2))
  BY <1>2, <1>4 DEF OwnPackets, Of, HeldFor, HoldsFor, vars, clientVars
<1>6. PICK x : x = d[k + 1]
  OBVIOUS
<1>7. k + 1 \in 1 .. Len(d) /\ x \in X
  BY <1>3, <1>4, <1>6, ElementOfSeq
<1>8. PICK r, r2 : r = SubSeq(d, k + 1, Len(d)) /\ r2 = SubSeq(d, (k + 1) + 1, Len(d))
  OBVIOUS
<1>9. r = <<x>> \o r2 /\ r2 \in Seq(X) /\ <<x>> \in Seq(X)
  <2>1. r = <<x>> \o r2
    BY <1>3, <1>6, <1>7, <1>8, SubSeqRecursiveFirst
  <2>2. \A i \in (k + 1) + 1 .. Len(d) : d[i] \in X
    BY <1>3, <1>7, ElementOfSeq
  <2>3. r2 \in Seq(X)
    BY <1>3, <1>7, <1>8, <2>2, SubSeqProperties
  <2>. QED
    BY <1>7, <2>1, <2>3
<1>10. PICK o : o = clientMap[clientId[1][x]]
  OBVIOUS
<1>11. x \in 1 .. Len(clientId[1]) /\ clientId[1][x] \in Ids
  <2>1. x \in 1 .. Len(clientId[1])
    BY <1>1, <1>2, <1>6, <1>7, DeliveredWasSent
  <2>. QED
    BY <1>1, <2>1, ElementOfSeq DEF NetworkInv, NetworkTypeOK
<1>12. o \in Clients /\ asked[o] = clientId[1][x]
  BY <1>1, <1>10, <1>11 DEF OwnersInv
<1>13. inbox' = [inbox EXCEPT ![o] = Append(inbox[o], x)]
  BY <1>2, <1>6, <1>10 DEF RouterListener, NextPacket
<1>14. PICK e, w : e = inbox[c] /\ w = Chosen(r2, S)
  OBVIOUS
<1>15. e \in Seq(X) /\ w \in Seq(X)
  BY <1>3, <1>9, <1>14, ChosenType
<1>16. Chosen(r, S) = Chosen(<<x>>, S) \o w
  BY <1>9, <1>14, ChosenConcat
<1>17. inbox'[c] \o w = e \o Chosen(r, S)
  <2>1. CASE x \in S
    <3>1. clientId[1][x] = asked[c]
      BY <1>2, <2>1 DEF OwnPackets
    <3>2. asked[o] = asked[c] /\ asked[c] # NULL_CLIENT_ID
      BY <1>11, <1>12, <3>1, NetworkAssumption
    <3>3. o = c
      BY <1>12, <3>2 DEF OwnersInv
    <3>4. inbox'[c] = Append(e, x)
      BY <1>3, <1>13, <1>14, <3>3
    <3>5. Chosen(<<x>>, S) = <<x>> /\ Append(e, x) = e \o <<x>>
      BY <1>7, <1>15, <2>1, ChosenOne, AppendIsConcat
    <3>6. (e \o <<x>>) \o w = e \o (<<x>> \o w)
      BY <1>9, <1>15, ConcatAssociative
    <3>. QED
      BY <1>16, <3>4, <3>5, <3>6
  <2>2. CASE x \notin S
    <3>1. o # c
      BY <1>2, <1>11, <1>12, <2>2 DEF OwnPackets
    <3>2. inbox'[c] = e
      BY <1>3, <1>13, <1>14, <3>1
    <3>3. Chosen(<<x>>, S) = <<>> /\ <<>> \o w = w
      BY <1>15, <2>2, ChosenOne, ConcatEmptySeq
    <3>. QED
      BY <1>16, <3>2, <3>3
  <2>. QED
    BY <2>1, <2>2
<1>18. inbox[c] \o Of(1, c, Waiting) = e \o Chosen(r, S)
  BY <1>2, <1>8, <1>14 DEF Of, Waiting
<1>19. (inbox[c] \o Of(1, c, Waiting))' = inbox'[c] \o w
  <2>1. delivered'[2] = d
    BY <1>2, <1>4 DEF vars
  <2>. QED
    BY <1>4, <1>5, <1>8, <1>14, <2>1 DEF Of, Waiting
<1>. QED
  BY <1>5, <1>17, <1>18, <1>19

(* The channels of one client make a step of a DelayChannel or none.       *)
LEMMA OwnServerChannelStep ==
  ASSUME NetworkInv, OwnersInv, [NetworkNext]_netVars, NEW c \in Clients
  PROVE  UNCHANGED OwnServerChannel(c)!dcVars \/ OwnServerChannel(c)!Next
<1>1. PICK X, h, l, h2, l2 :
        /\ X = 1 .. Packets
        /\ h = Of(2, c, HeldFor(1)) /\ l = Of(2, c, delivered[1])
        /\ h2 = Of(2, c, HeldFor(1))' /\ l2 = Of(2, c, delivered[1])'
  OBVIOUS
<1>2. l \in Seq(X) /\ Moves(X, h, l, h2, l2)
  BY <1>1, OwnToServerMoves
<1>3. l \o <<>> = l
  BY <1>2, ConcatEmptySeq
<1>. QED
  BY <1>1, <1>2, <1>3 DEF Moves, OwnServerChannel!Next, OwnServerChannel!dcVars, OwnServerChannel!Hold,
     OwnServerChannel!Pass, OwnServerChannel!PassAndLose, OwnServerChannel!Release,
     OwnServerChannel!LoseHeld

(* From the server it makes none when RouterListener takes a packet.       *)
LEMMA OwnClientChannelStep ==
  ASSUME NetworkInv, OwnersInv, [NetworkNext]_netVars, NEW c \in Clients
  PROVE  UNCHANGED OwnClientChannel(c)!dcVars \/ OwnClientChannel(c)!Next
<1>1. CASE RouterListener
  BY <1>1, RouterListenerMoves DEF OwnClientChannel!dcVars, Waiting
<1>2. CASE UNCHANGED <<forwarded, inbox>>
  <2>1. PICK X, h, l, h2, l2 :
          /\ X = 1 .. Packets
          /\ h = Of(1, c, HeldFor(2)) /\ l = inbox[c] \o Of(1, c, Waiting)
          /\ h2 = Of(1, c, HeldFor(2))' /\ l2 = (inbox[c] \o Of(1, c, Waiting))'
    OBVIOUS
  <2>2. Moves(X, h, l, h2, l2)
    BY <1>2, <2>1, OwnToClientMoves
  <2>3. l \in Seq(X)
    <3>1. Waiting \in Seq(X) /\ inbox[c] \in Seq(X)
      BY <2>1, WaitingType DEF NetworkInv, NetworkTypeOK
    <3>2. Chosen(Waiting, OwnPackets(1, c)) \in Seq(X)
      BY <3>1, ChosenType
    <3>. QED
      BY <2>1, <3>1, <3>2, ConcatProperties DEF Of
  <2>4. l \o <<>> = l
    BY <2>3, ConcatEmptySeq
  <2>. QED
    BY <2>1, <2>2, <2>4 DEF Moves, Waiting, OwnClientChannel!Next, OwnClientChannel!dcVars,
       OwnClientChannel!Hold, OwnClientChannel!Pass, OwnClientChannel!PassAndLose,
       OwnClientChannel!Release, OwnClientChannel!LoseHeld
<1>. QED
  BY <1>1, <1>2 DEF NetworkNext, RequestId, AssignId, ClientSends, ServerSends,
     RouterListenerMisses, Route, netVars, muxerVars

(* NetworkInv and OwnersInv hold initially and after every step.           *)
LEMMA OwnersInitInv == NetworkInit => NetworkInv /\ OwnersInv
<1>. SUFFICES ASSUME NetworkInit PROVE OwnersInv
  BY NetworkInitInv
<1>1. /\ \A h \in Hosts : clientId[h] = <<>>
      /\ \A i \in Ids : clientMap[i] \notin Clients
      /\ \A c \in Clients : asked[c] = NULL_CLIENT_ID /\ clientIdentifier[c] = NULL_CLIENT_ID
      /\ inserting = NULL_CLIENT_ID
  BY NetworkAssumption DEF NetworkInit
<1>. QED
  BY <1>1 DEF OwnersInv

-----------------------------------------------------------------------------
(* Theorems.                                                               *)

(* Types of the multiplexer, of the router and of the traffic, for every   *)
(* number of clients, ids and packets.                                     *)
THEOREM NetworkTypeCorrect == NetworkSpec => []NetworkTypeOK
<1>1. NetworkInv => NetworkTypeOK
  BY DEF NetworkInv
<1>. QED
  BY <1>1, NetworkInitInv, NetworkInvStep, PTL DEF NetworkSpec

(* Nothing the router delivers was delivered before, and only neighbours   *)
(* are swapped.                                                            *)
THEOREM OvertakenOnceTheorem == NetworkSpec => []OvertakenOnce
<1>1. NetworkInv => OvertakenOnce
  BY DEF NetworkInv, RouterInv
<1>. QED
  BY <1>1, NetworkInitInv, NetworkInvStep, PTL DEF NetworkSpec

(* The direction to the server implements DelayChannel.                    *)
THEOREM ToServerTheorem == NetworkSpec => ToServer
<1>1. NetworkInit => ServerChannel!Init
  BY HostFacts DEF NetworkInit, Init, NoPacket, HeldFor, HoldsFor, ServerChannel!Init
<1>2. NetworkInv /\ [NetworkNext]_netVars => [ServerChannel!Next]_(ServerChannel!dcVars)
  <2>. SUFFICES ASSUME NetworkInv, [NetworkNext]_netVars
                PROVE  [ServerChannel!Next]_(ServerChannel!dcVars)
    OBVIOUS
  <2>1. ChannelStep(1)
    BY NetworkStepsOfRouter, EveryChannelStep, HostFacts DEF NetworkInv
  <2>. QED
    BY <2>1 DEF ChannelStep, ServerChannel!Next, ServerChannel!dcVars,
      ServerChannel!Hold, ServerChannel!Pass, ServerChannel!PassAndLose,
      ServerChannel!Release, ServerChannel!LoseHeld
<1>. QED
  BY <1>1, <1>2, NetworkInitInv, NetworkInvStep, PTL
     DEF NetworkSpec, ToServer, ServerChannel!Spec

(* So does the direction to the multiplexer.                               *)
THEOREM ToClientTheorem == NetworkSpec => ToClient
<1>1. NetworkInit => ClientChannel!Init
  BY HostFacts DEF NetworkInit, Init, NoPacket, HeldFor, HoldsFor, ClientChannel!Init
<1>2. NetworkInv /\ [NetworkNext]_netVars => [ClientChannel!Next]_(ClientChannel!dcVars)
  <2>. SUFFICES ASSUME NetworkInv, [NetworkNext]_netVars
                PROVE  [ClientChannel!Next]_(ClientChannel!dcVars)
    OBVIOUS
  <2>1. ChannelStep(2)
    BY NetworkStepsOfRouter, EveryChannelStep, HostFacts DEF NetworkInv
  <2>. QED
    BY <2>1 DEF ChannelStep, ClientChannel!Next, ClientChannel!dcVars,
      ClientChannel!Hold, ClientChannel!Pass, ClientChannel!PassAndLose,
      ClientChannel!Release, ClientChannel!LoseHeld
<1>. QED
  BY <1>1, <1>2, NetworkInitInv, NetworkInvStep, PTL
     DEF NetworkSpec, ToClient, ClientChannel!Spec

(* No two clients have the same id, every packet carries the id of a       *)
(* client, and the map leads back to it, whatever the order in which the   *)
(* two listeners of the multiplexer read and write the map.                *)
THEOREM OwnersTheorem == NetworkSpec => []OwnersInv
<1>1. NetworkInv /\ OwnersInv /\ [NetworkNext]_netVars => (NetworkInv /\ OwnersInv)'
  BY NetworkInvStep, OwnersStep
<1>. QED
  BY <1>1, OwnersInitInv, PTL DEF NetworkSpec

(* Each client has a DelayChannel to the server to itself, for every       *)
(* number of clients that share the router ...                             *)
THEOREM OwnToServerTheorem == NetworkSpec => OwnToServer
<1>1. NetworkInv /\ OwnersInv /\ [NetworkNext]_netVars => (NetworkInv /\ OwnersInv)'
  BY NetworkInvStep, OwnersStep
<1>2. NetworkInit => \A c \in Clients : OwnServerChannel(c)!Init
  <2>. SUFFICES ASSUME NetworkInit, NEW c \in Clients PROVE OwnServerChannel(c)!Init
    OBVIOUS
  <2>1. HeldFor(1) = <<>> /\ delivered[1] = <<>>
    BY HostFacts DEF NetworkInit, Init, NoPacket, HeldFor, HoldsFor
  <2>. QED
    BY <2>1, ChosenEmpty DEF OwnServerChannel!Init, Of
<1>3. NetworkInv /\ OwnersInv /\ [NetworkNext]_netVars =>
        [\A c \in Clients : \/ UNCHANGED OwnServerChannel(c)!dcVars
                            \/ OwnServerChannel(c)!Next]_netVars
  BY OwnServerChannelStep
<1>. QED
  BY <1>1, <1>2, <1>3, OwnersInitInv, PTL DEF NetworkSpec, OwnToServer

(* ... and one from the server, whatever the multiplexer does.             *)
THEOREM OwnToClientTheorem == NetworkSpec => OwnToClient
<1>1. NetworkInv /\ OwnersInv /\ [NetworkNext]_netVars => (NetworkInv /\ OwnersInv)'
  BY NetworkInvStep, OwnersStep
<1>2. NetworkInit => \A c \in Clients : OwnClientChannel(c)!Init
  <2>. SUFFICES ASSUME NetworkInit, NEW c \in Clients PROVE OwnClientChannel(c)!Init
    OBVIOUS
  <2>1. /\ HeldFor(2) = <<>> /\ delivered[2] = <<>> /\ inbox[c] = <<>> /\ forwarded = 0
    BY HostFacts DEF NetworkInit, Init, NoPacket, HeldFor, HoldsFor
  <2>2. SubSeq(delivered[2], forwarded + 1, Len(delivered[2])) = <<>>
    BY <2>1, SubSeqEmpty
  <2>3. <<>> \o <<>> = <<>>
    OBVIOUS
  <2>. QED
    BY <2>1, <2>2, <2>3, ChosenEmpty DEF OwnClientChannel!Init, Of
<1>3. NetworkInv /\ OwnersInv /\ [NetworkNext]_netVars =>
        [\A c \in Clients : \/ UNCHANGED OwnClientChannel(c)!dcVars
                            \/ OwnClientChannel(c)!Next]_netVars
  BY OwnClientChannelStep
<1>. QED
  BY <1>1, <1>2, <1>3, OwnersInitInv, PTL DEF NetworkSpec, OwnToClient

=============================================================================
