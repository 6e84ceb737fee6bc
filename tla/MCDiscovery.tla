---------------------------- MODULE MCDiscovery -----------------------------
\* Models of Discovery for TLC: the machines p, q, r and s.  p has two addresses
\* and knows the others, which know of p and of each other; p and q share the
\* beginning of their fingerprints; r accepts a key that is found on p.
EXTENDS Discovery, TLC

CONSTANTS p, q, r, s, p1, p2, q1, r1, s1, k1, k2

LocalAndP == <<Local, p>>

\* The call names a block of which the cap leaves p1.
BlockOfTwo == <<p1, p2>>

\* What each machine knows of.
Known == Local :> {p2} @@ p :> {q1, r1, s1} @@ q :> {p1, s1} @@ r :> {p2, q1} @@ s :> {}

Owner == p1 :> p @@ p2 :> p @@ q1 :> q @@ r1 :> r @@ s1 :> s

\* The machines behind p cannot be reached without it.
Behind == [v \in Places |-> [a \in Addrs |->
             IF v = Local /\ Owner[a] # p THEN None ELSE Owner[a]]]

Slugs == p :> "s" @@ q :> "s" @@ r :> "t" @@ s :> "u"

Locks == p :> k1 @@ q :> k1 @@ r :> k2 @@ s :> k1

KeysFound == p :> {k2} @@ q :> {} @@ r :> {} @@ s :> {}
===========================================================================
