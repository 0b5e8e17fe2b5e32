------------------------------- MODULE Router -------------------------------
(***************************************************************************)
(* Router/Router.cpp: the process that sits between the server (peer host  *)
(* 1, port 5000) and the client multiplexer (peer host 2, port 5001) and   *)
(* makes the network bad.                                                  *)
(* One loop, Router::Run, selects on both sockets, takes one packet or     *)
(* times out, and drops, delays or forwards what it took.  A single        *)
(* buffer, FileBuf, holds the one packet that may be delayed, whichever    *)
(* its direction.                                                          *)
(*                                                                         *)
(* Packets are numbered per source host in the order the host sends them.  *)
(* Errors of select and recvfrom are left out: Run reports them and goes   *)
(* round its loop again (having counted a cycle, after recvfrom).          *)
(***************************************************************************)
EXTENDS Integers, Sequences

CONSTANTS
  Packets,    \* bound: packets each host sends
  WAIT        \* idle cycles that release a delayed packet (3 in the code)

ASSUME RouterAssumption == Packets \in Nat /\ WAIT \in Nat \ {0}

Hosts == {1, 2}
Other(h) == 3 - h

VARIABLES
  sent,        \* host -> number of packets it has sent
  socket,      \* host -> packets in the receive buffer of its socket
  FileBuf,     \* the delayed packet: [empty, count, destination]
  wait_count,
  delivered    \* host -> packets the router sent to it, in that order

vars == <<sent, socket, FileBuf, wait_count, delivered>>

NoPacket == [empty |-> TRUE, count |-> 0, destination |-> 1]

Init ==
  /\ sent = [h \in Hosts |-> 0]
  /\ socket = [h \in Hosts |-> <<>>]
  /\ FileBuf = NoPacket
  /\ wait_count = 0
  /\ delivered = [h \in Hosts |-> <<>>]

(* A host sends its next packet to the router.                             *)
Arrive(h) ==
  /\ sent[h] < Packets
  /\ sent' = [sent EXCEPT ![h] = @ + 1]
  /\ socket' = [socket EXCEPT ![h] = Append(@, sent[h] + 1)]
  /\ UNCHANGED <<FileBuf, wait_count, delivered>>

(* Mutant of HoldsFor: Run does not test FileBuf.empty.                    *)
PointsTo(h) == FileBuf.destination = h

HoldsFor(h) == ~FileBuf.empty /\ FileBuf.destination = h

(* What the last sendto's of an iteration deliver to host h.               *)
Deliver(h, s) == delivered' = [delivered EXCEPT ![h] = @ \o s]

(* select prefers the socket of host 1 when both have packets.  A packet   *)
(* that arrives while another is delayed counts as a waiting cycle.        *)
Take(h) ==
  /\ socket[h] # <<>>
  /\ h = 2 => socket[1] = <<>>
  /\ socket' = [socket EXCEPT ![h] = Tail(@)]
  /\ UNCHANGED sent

CountCycle == wait_count + (IF FileBuf.empty THEN 0 ELSE 1)

Delay(h) ==
  /\ Take(h)
  /\ FileBuf.empty
  /\ FileBuf' = [empty |-> FALSE, count |-> Head(socket[h]), destination |-> Other(h)]
  /\ wait_count' = CountCycle
  /\ UNCHANGED delivered

(* Damaged, or its sendto failed.                                          *)
Drop(h) ==
  /\ Take(h)
  /\ wait_count' = CountCycle
  /\ UNCHANGED <<FileBuf, delivered>>

(* Mutant of Forward: a delayed packet waits for the timeout only.         *)
ForwardAlone(h) ==
  /\ Take(h)
  /\ wait_count' = CountCycle
  /\ Deliver(Other(h), <<Head(socket[h])>>)
  /\ UNCHANGED FileBuf

(* Mutant of Forward: the delayed packet follows whatever is forwarded.    *)
ForwardBoth(h) ==
  /\ Take(h)
  /\ ~FileBuf.empty
  /\ wait_count' = 0
  /\ FileBuf' = [FileBuf EXCEPT !.empty = TRUE]
  /\ Deliver(Other(h), <<Head(socket[h]), FileBuf.count>>)

(* SendProc empties FileBuf even when its sendto fails.                    *)
Forward(h) ==
  /\ Take(h)
  /\ IF HoldsFor(Other(h))
     THEN /\ wait_count' = 0
          /\ FileBuf' = [FileBuf EXCEPT !.empty = TRUE]
          /\ \E tail \in {<<FileBuf.count>>, <<>>} :
               Deliver(Other(h), <<Head(socket[h])>> \o tail)
     ELSE /\ wait_count' = CountCycle
          /\ Deliver(Other(h), <<Head(socket[h])>>)
          /\ UNCHANGED FileBuf

(* Mutant of Idle: SendProc does not empty FileBuf.                        *)
IdleKeeps ==
  /\ \A h \in Hosts : socket[h] = <<>>
  /\ ~FileBuf.empty
  /\ wait_count + 1 >= WAIT
  /\ wait_count' = 0
  /\ Deliver(FileBuf.destination, <<FileBuf.count>>)
  /\ UNCHANGED <<sent, socket, FileBuf>>

(* Mutant of Idle: a timeout is not counted.                               *)
IdleUncounted ==
  /\ \A h \in Hosts : socket[h] = <<>>
  /\ ~FileBuf.empty
  /\ UNCHANGED vars

(* select times out, with nothing to read on either socket.                *)
Idle ==
  /\ \A h \in Hosts : socket[h] = <<>>
  /\ ~FileBuf.empty
  /\ IF wait_count + 1 >= WAIT
     THEN /\ wait_count' = 0
          /\ FileBuf' = [FileBuf EXCEPT !.empty = TRUE]
          /\ \E s \in {<<FileBuf.count>>, <<>>} : Deliver(FileBuf.destination, s)
     ELSE /\ wait_count' = wait_count + 1
          /\ UNCHANGED <<FileBuf, delivered>>
  /\ UNCHANGED <<sent, socket>>

Run == Idle \/ \E h \in Hosts : Delay(h) \/ Drop(h) \/ Forward(h)

Next == Run \/ \E h \in Hosts : Arrive(h)

(* The router's loop never stops; the hosts may.                           *)
Spec == Init /\ [][Next]_vars /\ WF_vars(Run)

-----------------------------------------------------------------------------
(* Types of the router's state; the counters stay within the traffic.      *)
TypeOK ==
  /\ sent \in [Hosts -> 0 .. Packets]
  /\ socket \in [Hosts -> Seq(1 .. Packets)]
  /\ FileBuf \in [empty : BOOLEAN, count : 0 .. Packets, destination : Hosts]
  /\ wait_count \in Nat
  /\ delivered \in [Hosts -> Seq(1 .. Packets)]

(* A packet is overtaken by at most one packet of its own direction, and   *)
(* nothing is delivered twice: out of order means swapped with the packet  *)
(* right behind it.                                                        *)
OvertakenOnce ==
  \A h \in Hosts : \A i, j \in 1 .. Len(delivered[h]) :
    /\ i < j => delivered[h][i] # delivered[h][j]
    /\ i < j /\ delivered[h][i] > delivered[h][j] => j = i + 1

HeldFor(h) == IF HoldsFor(h) THEN <<FileBuf.count>> ELSE <<>>

ServerChannel == INSTANCE DelayChannel WITH
  Messages <- 1 .. Packets, held <- HeldFor(1), leaving <- delivered[1]
ClientChannel == INSTANCE DelayChannel WITH
  Messages <- 1 .. Packets, held <- HeldFor(2), leaving <- delivered[2]

(* Each direction of the router implements DelayChannel, although the two  *)
(* share one buffer and one counter: what the multiplexer sends ...        *)
ToServer == ServerChannel!Spec

(* ... and what the server sends.                                          *)
ToClient == ClientChannel!Spec

Silent == \A h \in Hosts : socket[h] = <<>>

(* When both hosts fall silent for good, a packet that is delayed leaves   *)
(* the router all the same.  Only select's timeout looks at the counter,   *)
(* so nothing of the kind holds while traffic of the other direction never *)
(* pauses: then the packet may stay for ever.                              *)
DelayedIsReleased == <>[]Silent => <>[]FileBuf.empty

=============================================================================
