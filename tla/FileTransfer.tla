---------------------------- MODULE FileTransfer ----------------------------
(***************************************************************************)
(* What a transfer promises, whatever the protocol underneath: the         *)
(* receiver ends up with exactly the payload, at most once, and the sender *)
(* reports success only after that.                                        *)
(***************************************************************************)
CONSTANT Payload

VARIABLES
  file,       \* what the receiver hands to its owner, <<>> before that
  received,   \* the receiver has handed it over
  reported    \* the sender has reported success

ftVars == <<file, received, reported>>

Init ==
  /\ file = <<>>
  /\ received = FALSE
  /\ reported = FALSE

Deliver ==
  /\ ~received
  /\ file' = Payload
  /\ received' = TRUE
  /\ UNCHANGED reported

Report ==
  /\ received
  /\ ~reported
  /\ reported' = TRUE
  /\ UNCHANGED <<file, received>>

Next == Deliver \/ Report

Spec == Init /\ [][Next]_ftVars

=============================================================================
