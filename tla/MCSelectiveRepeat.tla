-------------------------- MODULE MCSelectiveRepeat --------------------------
(***************************************************************************)
(* The instance of SelectiveRepeat that TLC checks: the window and the     *)
(* sequence range of the code, a short payload whose last packet is not    *)
(* full, and a seed for which the sequence numbers wrap during the         *)
(* transfer, between the second packet and the third.                      *)
(***************************************************************************)
EXTENDS SelectiveRepeat

MCWindow  == 3
MCRange   == 7
MCLength  == 2
MCPayload == 7
MCSeed    == 5

(* The longest payload of which no sequence number is used twice within    *)
(* reach of a window: the case the proofs are about.                       *)
ASSUME LongestSingleRound ==
  /\ SingleRound
  /\ numberOfPackets + 1 + WINDOW_SIZE > SEQUENCE_RANGE

=============================================================================
