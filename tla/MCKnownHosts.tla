---------------------------- MODULE MCKnownHosts ----------------------------
(* A small instance of KnownHosts for TLC.                                 *)
EXTENDS KnownHosts, TLC

CONSTANTS web, lab, h1, h2, t1, t2, r1, r2, r3

TwoHosts == (web :> h1) @@ (lab :> h2)

\* lab is the only server that may accept any key.
OnlyLabAccepts ==
  (web :> {"tofu", "strict"}) @@ (lab :> {"strict", "accept_new"})

AnyTaskOrKey == Permutations(Tasks) \cup Permutations(Keys)
===========================================================================
