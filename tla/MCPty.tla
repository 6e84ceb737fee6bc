------------------------------- MODULE MCPty -------------------------------
\* A model of Pty for TLC.
EXTENDS Pty, TLC

CONSTANTS s1, i1, i2, i3

\* A cap of one session.
OneSession == s1 :> 1

AnySession == Permutations(Sessions \ {Watched}) \cup Permutations(Starts)
===========================================================================
