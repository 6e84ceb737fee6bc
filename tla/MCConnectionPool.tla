------------------------- MODULE MCConnectionPool -------------------------
(* Small instances of ConnectionPool for TLC.                              *)
EXTENDS PoolRefinement, TLC

CONSTANTS gate, db, loop, c1, c2, k1, k2, k3

\* db is reached through gate.
OneHop == (gate :> None) @@ (db :> gate)

\* loop names itself as its jump host, which Registry.add accepts.
HopAndLoop == OneHop @@ (loop :> loop)

\* Connections are interchangeable, and so are callers.
AnyConnOrCaller == Permutations(Conns) \cup Permutations(Callers)

\* Bounds: nothing is pinned, or only gate; loop is not deregistered.
NothingPinned == pinned = {}

OnlyGatePinned == pinned \subseteq {gate}

LoopStays == config[loop] # None
===========================================================================
