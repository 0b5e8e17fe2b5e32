----------------------------- MODULE MCFtpServer -----------------------------
(***************************************************************************)
(* Instances of FtpServer for TLC: as many locks as threads, the main      *)
(* thread a user of all of them, and server ids that differ in nothing but *)
(* their name.                                                             *)
(***************************************************************************)
EXTENDS FtpServer, TLC

MCTwoThreads    == 1 .. 2
MCThreeThreads  == 1 .. 3
MCUsersOfTwo    == 0 .. 2
MCUsersOfThree  == 0 .. 3

MCSymmetry == Permutations(ServerIds)

=============================================================================
