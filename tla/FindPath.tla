------------------------------ MODULE FindPath ------------------------------
(***************************************************************************)
(* find_path (topology.py): the search over a cached reachability matrix    *)
(* for the chain of jump hosts from the MCP host to a target, the fewest    *)
(* hops first and the lowest latency among those.                           *)
(***************************************************************************)
EXTENDS Naturals, Sequences, FiniteSets

CONSTANTS
  Nodes,      \* the scanned servers
  Local,      \* the MCP host, never a target of an edge
  Target,
  Latencies,  \* latencies of an edge
  None

VARIABLES
  latency,   \* latency[m][n] of the edge from m to n, None when it is not usable;
             \* instantiated with the matrix that a scan has cached
  heap,      \* the entries to be looked at
  best,      \* the lowest cost known per node
  done,      \* find_path has returned
  path       \* what it returned: a path or None

Sources == Nodes \cup {Local}

Cost == [hops : Nat, sum : Nat]

\* The order of the tuples (hops, latency sum).
Less(c, d) == c.hops < d.hops \/ (c.hops = d.hops /\ c.sum < d.sum)

Init ==
  /\ latency \in [Sources -> [Nodes -> Latencies \cup {None}]]
  /\ \A n \in Nodes : latency[n][n] = None
  /\ heap = {[cost |-> [hops |-> 0, sum |-> 0], node |-> Local, path |-> <<>>]}
  /\ best = [n \in Sources |-> IF n = Local THEN [hops |-> 0, sum |-> 0] ELSE None]
  /\ done = FALSE
  /\ path = None

\* heappop; which one of several with the same cost depends on their names.
Lowest(e) == e \in heap /\ \A f \in heap : ~Less(f.cost, e.cost)

Found(e) ==
  /\ ~done
  /\ Lowest(e)
  /\ e.node = Target
  /\ done' = TRUE
  /\ path' = e.path
  /\ heap' = heap \ {e}
  /\ UNCHANGED <<latency, best>>

\* The cost of going on from e to n.
Through(e, n) == [hops |-> e.cost.hops + 1, sum |-> e.cost.sum + latency[e.node][n]]

\* Mutant of Better: a node that was seen is never looked at again.
BetterFirst(e) == {n \in Nodes : latency[e.node][n] # None /\ best[n] = None}

\* The neighbours of e that are reached at a lower cost through it.
Better(e) ==
  {n \in Nodes : latency[e.node][n] # None /\ (best[n] = None \/ Less(Through(e, n), best[n]))}

\* An entry is taken off the heap and its neighbours' better costs are put on it.
Relax(e) ==
  /\ ~done
  /\ Lowest(e)
  /\ e.node # Target
  /\ best' = [n \in Sources |-> IF n \in Better(e) THEN Through(e, n) ELSE best[n]]
  /\ heap' = (heap \ {e}) \cup
       {[cost |-> Through(e, n), node |-> n, path |-> Append(e.path, n)] : n \in Better(e)}
  /\ UNCHANGED <<latency, done, path>>

NoPath ==
  /\ ~done
  /\ heap = {}
  /\ done' = TRUE
  /\ UNCHANGED <<latency, heap, best, path>>

Next == (\E e \in heap : Found(e) \/ Relax(e)) \/ NoPath

---------------------------------------------------------------------------
(* The reference.                                                          *)

\* The edge that leads to the i-th node of route r.
Edge(r, i) == latency[IF i = 1 THEN Local ELSE r[i - 1]][r[i]]

\* The routes without detours from Local to node n.
Routes(n) ==
  {r \in UNION {[1..k -> Nodes] : k \in 1..Cardinality(Nodes)} :
     r[Len(r)] = n /\ \A i \in 1..Len(r) : Edge(r, i) # None}

RouteCost(r) ==
  LET sum[i \in 0..Len(r)] == IF i = 0 THEN 0 ELSE sum[i - 1] + Edge(r, i)
  IN [hops |-> Len(r), sum |-> sum[Len(r)]]

\* What find_path returns is a route to the target with the fewest hops and, among
\* those, the lowest latency; it returns None exactly when there is no route.
PathIsBest ==
  done =>
    /\ path = None <=> Routes(Target) = {}
    /\ path # None =>
         /\ path \in Routes(Target)
         /\ \A r \in Routes(Target) : ~Less(RouteCost(r), RouteCost(path))
===========================================================================
