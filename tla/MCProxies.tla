----------------------------- MODULE MCProxies -----------------------------
\* Models of Proxies for TLC.
EXTENDS Proxies, TLC

AnyName == Permutations(Servers) \cup Permutations(Ids) \cup Permutations(Tasks)
===========================================================================
