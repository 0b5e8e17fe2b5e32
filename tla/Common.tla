------------------------------- MODULE Common -------------------------------
(***************************************************************************)
(* The constants of Common/Common.h and what one transfer's Sender and     *)
(* Receiver share: the division of a payload into packets and the sequence *)
(* number under which each packet travels.                                 *)
(*                                                                         *)
(* A packet is named by its position in the payload, 0, 1, 2, ...; the     *)
(* end-of-file message that follows the last data packet is named by       *)
(* numberOfPackets.  The bytes of a packet are abstracted to its name, so  *)
(* delivering the wrong bytes is delivering the wrong name.                *)
(***************************************************************************)
EXTENDS Integers

CONSTANTS
  WINDOW_SIZE,      \* packets a Sender may have outstanding (3 in the code)
  SEQUENCE_RANGE,   \* number of distinct sequence numbers   (7 in the code)
  BUFFER_LENGTH,    \* bytes in a full packet              (256 in the code)
  payloadSize,      \* bytes of the payload being transferred
  sequenceSeed      \* sequence number of the transfer's first packet

ASSUME CommonAssumption ==
  /\ WINDOW_SIZE \in Nat \ {0}
  /\ SEQUENCE_RANGE \in Nat
  /\ WINDOW_SIZE < SEQUENCE_RANGE
  /\ BUFFER_LENGTH \in Nat \ {0}
  /\ payloadSize \in Nat
  /\ sequenceSeed \in 0 .. (SEQUENCE_RANGE - 1)

(* The null pointer: packets, the things pointed to, are naturals.         *)
NULL == -1

(* Full packets, and one more when the length is not a multiple.           *)
numberOfPackets ==
  payloadSize \div BUFFER_LENGTH
    + (IF payloadSize % BUFFER_LENGTH > 0 THEN 1 ELSE 0)

Eof         == numberOfPackets
DataPackets == 0 .. (numberOfPackets - 1)
Packets     == 0 .. numberOfPackets

(* Length field of a packet: the last one carries the remainder.           *)
PacketLength(p) ==
  IF p = numberOfPackets - 1 THEN payloadSize - p * BUFFER_LENGTH
                             ELSE BUFFER_LENGTH

(* Sequence numbers index the window arrays of both ends.                  *)
Slots   == 0 .. (SEQUENCE_RANGE - 1)
Slot(p) == (p + sequenceSeed) % SEQUENCE_RANGE

EmptyWindow == [s \in Slots |-> NULL]

=============================================================================
