------------------------------ MODULE Topology ------------------------------
(***************************************************************************)
(* A reachability scan of mcp_ssh/topology.py and the search for a chain of *)
(* jump hosts over its result.  The scan harvests the addresses of all      *)
(* nodes, then probes them row by row, first from the MCP host and then     *)
(* from each node; meanwhile the network changes.  The search is FindPath,  *)
(* whose matrix here is the one that the scan has cached.                   *)
(***************************************************************************)
EXTENDS Naturals, Sequences, FiniteSets

CONSTANTS
  NodeSeq,     \* the nodes selected for the scan, in the order of the registry
  Local,       \* LOCAL_NODE
  Target,      \* what find_path is asked for
  Addrs,       \* addresses
  HostOf,      \* the registered address of each node
  Interfaces,  \* the addresses that a harvest of each node finds
  LeadsTo,     \* the node that an address leads to, as seen from each source
  Latency,     \* the latency of each address, as seen from each source
  Links,       \* pairs of a source and an address that it may be able to reach
  Denials,     \* possible sets of such pairs that the source's sshd prohibits
  MaxChanges,  \* bound on changes of the network
  None

Nodes == {NodeSeq[i] : i \in 1..Len(NodeSeq)}

Sources == Nodes \cup {Local}

ASSUME TopologyAssumption ==
  /\ NodeSeq \in Seq(Nodes)
  /\ Local \notin Nodes /\ Target \in Nodes /\ None \notin Sources \cup Addrs
  /\ HostOf \in [Nodes -> Addrs]
  /\ Interfaces \in [Nodes -> SUBSET Addrs]
  /\ LeadsTo \in [Sources -> [Addrs -> Sources]]
  /\ Latency \in [Sources -> [Addrs -> Nat]]
  /\ Links \subseteq Sources \X Addrs
  /\ \A D \in Denials : D \subseteq Nodes \X Addrs

\* None is no list of addresses, edge, latency, cost or path.
ASSUME NoneAssumption ==
  /\ \A A \in SUBSET Addrs : A # None
  /\ None \notin [via : Addrs, latency : Nat]
  /\ None \notin Nat /\ None \notin [hops : Nat, sum : Nat] /\ None \notin Seq(Nodes)

VARIABLES
  net,        \* the links that work now
  login,      \* the nodes that get_connection can reach now
  denied,     \* the links that an sshd prohibits
  changes,    \* how often the network has changed
  ever,       \* the links that worked at some moment since the scan began
  steady,     \* the links that worked all the time
  loyal,      \* the nodes that could be logged in to all the time, and harvested
  candidates, \* candidate_addrs per node, None before its harvest
  row,        \* index of the source being probed, 0 while harvesting
  dialer,     \* where the probes of this row start, None when that is unknown
  column,     \* index of the target to be probed next
  prohibited, \* a probe of this row was answered with forwarding_disabled
  cells,      \* the edges found so far: pair of nodes -> via and latency, or None
  cached,     \* the matrix is in the state store
  heap, best, done, path    \* find_path

netVars == <<net, login, denied, changes>>
scanVars == <<candidates, row, dialer, column, prohibited, cells, cached>>
searchVars == <<heap, best, done, path>>
historyVars == <<ever, steady, loyal>>
vars == <<netVars, historyVars, scanVars, searchVars>>

RowSeq == <<Local>> \o NodeSeq

\* The latency of a usable edge, which find_path takes from the cached matrix.
\* Before the scan is over it is empty.
Matrix ==
  [s \in Sources |-> [n \in Nodes |->
     IF cached /\ s # n /\ cells[<<s, n>>] # None THEN cells[<<s, n>>].latency ELSE None]]

Search == INSTANCE FindPath WITH Latencies <- Nat, latency <- Matrix

Init ==
  /\ net \in SUBSET Links
  /\ login \in SUBSET Nodes
  /\ denied \in Denials
  /\ changes = 0
  /\ ever = net
  /\ steady = net
  /\ loyal = login
  /\ candidates = [n \in Nodes |-> None]
  /\ row = 0
  /\ dialer = None
  /\ column = 1
  /\ prohibited = FALSE
  /\ cells = [e \in {} |-> None]
  /\ cached = FALSE
  /\ Search!Init

---------------------------------------------------------------------------
(* The network (external).                                                 *)

Change ==
  /\ ~cached
  /\ changes < MaxChanges
  /\ changes' = changes + 1
  /\ \/ \E l \in Links :
          /\ net' = (IF l \in net THEN net \ {l} ELSE net \cup {l})
          /\ UNCHANGED login
     \/ \E n \in Nodes :
          /\ login' = (IF n \in login THEN login \ {n} ELSE login \cup {n})
          /\ UNCHANGED net
  /\ ever' = ever \cup net'
  /\ steady' = steady \cap net'
  /\ loyal' = loyal \cap login'
  /\ UNCHANGED <<denied, scanVars, searchVars>>

---------------------------------------------------------------------------
(* The scan.                                                               *)

\* Mutant of Found: what was harvested replaces the registered address.
FoundOnlyInterfaces(n) == Interfaces[n]

\* candidate_addrs after a harvest that succeeded.
Found(n) == {HostOf[n]} \cup Interfaces[n]

\* One node's harvest: only the registered address is left when it cannot be
\* logged in to or when its command fails.
Harvest(n) ==
  /\ row = 0
  /\ candidates[n] = None
  /\ \/ /\ n \in login
        /\ candidates' = [candidates EXCEPT ![n] = Found(n)]
        /\ UNCHANGED <<loyal, changes>>
     \/ /\ n \notin login
        /\ candidates' = [candidates EXCEPT ![n] = {HostOf[n]}]
        /\ UNCHANGED <<loyal, changes>>
     \/ /\ n \in login
        /\ changes < MaxChanges
        /\ changes' = changes + 1
        /\ candidates' = [candidates EXCEPT ![n] = {HostOf[n]}]
        /\ loyal' = loyal \ {n}
  /\ UNCHANGED <<net, login, denied, ever, steady, row, dialer, column, prohibited, cells,
                 cached, searchVars>>

\* Mutant of DialerOf: a source that cannot be reached is probed from the MCP host.
DialerOfAnyRow(s) == IF s \in login THEN s ELSE Local

\* The MCP host dials itself, a node through its connection if it has one.
DialerOf(s) == IF s = Local \/ s \in login THEN s ELSE None

BeginRow(i) ==
  /\ row' = i
  /\ dialer' = DialerOf(RowSeq[i])
  /\ column' = 1
  /\ prohibited' = FALSE

Harvested ==
  /\ row = 0
  /\ \A n \in Nodes : candidates[n] # None
  /\ BeginRow(1)
  /\ UNCHANGED <<netVars, historyVars, candidates, cells, cached, searchVars>>

\* The probes that open a stream.
Reached(t) ==
  {a \in candidates[t] : <<dialer, a>> \in net /\ <<dialer, a>> \notin denied}

Quickest(S) == {a \in S : \A b \in S : Latency[dialer][a] <= Latency[dialer][b]}

\* All candidate addresses of the next target are probed at once; the cell keeps
\* the quickest.  A source is not probed for itself.
Probe ==
  /\ row > 0 /\ ~cached
  /\ column <= Len(NodeSeq)
  /\ LET s == RowSeq[row]
         t == NodeSeq[column]
     IN  \/ s = t /\ UNCHANGED <<cells, prohibited>>
         \/ /\ s # t
            /\ dialer = None \/ Reached(t) = {}
            /\ cells' = [e \in DOMAIN cells \cup {<<s, t>>} |->
                           IF e = <<s, t>> THEN None ELSE cells[e]]
            /\ prohibited' = (prohibited \/ \E a \in candidates[t] : <<dialer, a>> \in denied)
         \/ /\ s # t
            /\ dialer # None
            /\ \E a \in Quickest(Reached(t)) :
                 cells' = [e \in DOMAIN cells \cup {<<s, t>>} |->
                             IF e = <<s, t>> THEN [via |-> a, latency |-> Latency[dialer][a]]
                             ELSE cells[e]]
            /\ prohibited' = (prohibited \/ \E b \in candidates[t] : <<dialer, b>> \in denied)
  /\ column' = column + 1
  /\ UNCHANGED <<netVars, historyVars, candidates, row, dialer, cached, searchVars>>

\* At the end of a row in which a probe was prohibited, none of its edges is kept
\* as reachable.
Relabelled ==
  IF prohibited
  THEN [e \in DOMAIN cells |-> IF e[1] = RowSeq[row] THEN None ELSE cells[e]]
  ELSE cells

\* The row is done: the next one begins, or the matrix is cached.
RowDone ==
  /\ row > 0 /\ ~cached
  /\ column > Len(NodeSeq)
  /\ cells' = Relabelled
  /\ IF row < Len(RowSeq)
     THEN BeginRow(row + 1) /\ UNCHANGED cached
     ELSE cached' = TRUE /\ UNCHANGED <<row, dialer, column, prohibited>>
  /\ UNCHANGED <<netVars, historyVars, candidates, searchVars>>

\* find_path runs on the matrix of the finished scan.
FindPathStep ==
  /\ cached
  /\ UNCHANGED <<netVars, historyVars, scanVars>>
  /\ Search!Next

Next ==
  \/ Change
  \/ \E n \in Nodes : Harvest(n)
  \/ Harvested
  \/ Probe
  \/ RowDone
  \/ FindPathStep

Spec == Init /\ [][Next]_vars
---------------------------------------------------------------------------
\* Over the links in L, address a leads from s to n.
Works(L, s, a, n) ==
  /\ <<s, a>> \in L /\ <<s, a>> \notin denied
  /\ LeadsTo[s][a] = n

\* An address at which another node than the one it was found on may answer.
Ambiguous(a, n) == \E s \in Sources : LeadsTo[s][a] # n

Before(p, i) == IF i = 1 THEN Local ELSE p[i - 1]

ViaOf(p, i) == cells[<<Before(p, i), p[i]>>].via

\* Every hop of the chain that find_path returns has worked at some moment of the
\* scan: its address led from the node before it to the node it is listed for,
\* unless the address is in use on several nodes.  A source that could not be
\* reached contributes no hop (_scan_row without a dialer).
HopsHaveWorked ==
  done /\ path # None =>
    \A i \in 1..Len(path) :
      \/ Works(ever, Before(path, i), ViaOf(path, i), path[i])
      \/ Ambiguous(ViaOf(path, i), path[i])

\* The candidate addresses that the scan cannot fail to know.
Known(n) == IF n \in loyal THEN {HostOf[n]} \cup Interfaces[n] ELSE {HostOf[n]}

\* A jump host that the scan can use: one refused probe excludes the whole row.
Usable(s) == s = Local \/ (s \in loyal /\ \A a \in Addrs : <<s, a>> \notin denied)

\* When find_path finds nothing there is no chain to the target that has worked all
\* the time since the scan began, over registered or harvested addresses, through
\* nodes that could be logged in to all the time and prohibit no forwarding.
NoPathMeansNone ==
  done /\ path = None =>
    ~\E k \in 1..Len(NodeSeq) : \E r \in [1..k -> Nodes] :
       /\ r[k] = Target
       /\ \A i \in 1..k :
            /\ Usable(Before(r, i))
            /\ \E a \in Known(r[i]) : Works(steady, Before(r, i), a, r[i])

\* What find_path returns is a route over the cached matrix with the fewest hops
\* and, among those, the lowest latency; None exactly when there is no route.
PathIsBest == Search!PathIsBest
=============================================================================
