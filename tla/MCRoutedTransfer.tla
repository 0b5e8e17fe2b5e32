-------------------------- MODULE MCRoutedTransfer --------------------------
(***************************************************************************)
(* The instance of RoutedTransfer that TLC checks over a network that      *)
(* delays.  Each direction holds up to three messages, one of which may be *)
(* overtaken, but the two together hold no more than MCOnNetwork.  Two are *)
(* enough to show that one sequence number less would not do.              *)
(***************************************************************************)
EXTENDS RoutedTransfer

MCOnNetwork == 3

FewOnNetwork ==
  Len(dataHeld) + Len(dataLeaving) + Len(ackHeld) + Len(ackLeaving) <= MCOnNetwork

=============================================================================
