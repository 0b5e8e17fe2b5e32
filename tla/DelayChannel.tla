---------------------------- MODULE DelayChannel ----------------------------
(***************************************************************************)
(* What the emulated network promises for one direction of traffic: a      *)
(* packet is lost, or passes, or is held back and overtaken by at most one *)
(* later packet.  Nothing is duplicated and nothing else is reordered.     *)
(*                                                                         *)
(* Router implements this specification once per direction; the modules    *)
(* that run a protocol over the network use it instead of the router.      *)
(***************************************************************************)
EXTENDS Sequences

CONSTANT Messages

VARIABLES
  held,      \* the packet held back, as a sequence of at most one
  leaving    \* packets on their way to the receiving host, oldest first

dcVars == <<held, leaving>>

Init ==
  /\ held = <<>>
  /\ leaving = <<>>

Lose == UNCHANGED dcVars

Hold(m) ==
  /\ held = <<>>
  /\ held' = <<m>>
  /\ UNCHANGED leaving

(* A packet that passes takes the held one with it, right behind it.       *)
Pass(m) ==
  /\ leaving' = leaving \o <<m>> \o held
  /\ held' = <<>>

(* As Pass, but the held packet is lost on the way out.                    *)
PassAndLose(m) ==
  /\ leaving' = Append(leaving, m)
  /\ held' = <<>>

Release ==
  /\ held # <<>>
  /\ leaving' = leaving \o held
  /\ held' = <<>>

LoseHeld ==
  /\ held # <<>>
  /\ held' = <<>>
  /\ UNCHANGED leaving

Next ==
  \/ \E m \in Messages : Hold(m) \/ Pass(m) \/ PassAndLose(m)
  \/ Release
  \/ LoseHeld

Spec == Init /\ [][Next]_dcVars

=============================================================================
