----------------------------- MODULE MCRegistry -----------------------------
\* Models of Registry for TLC: the alias a with the generated hop h and the servers
\* b and c.
EXTENDS Registry, TLC

CONSTANTS a, h

\* A chain has one generated hop and its alias.
OneHop == a :> <<h>>

OwnPrefix == a :> {h}

\* Registered servers are interchangeable.
AnyPlain == Permutations(Plain)
===========================================================================
