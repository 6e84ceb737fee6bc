--------------------------- MODULE TopologyProofs ---------------------------
(***************************************************************************)
(* Proofs about Topology and FindPath for any nodes, addresses and network, *)
(* which changes at any moment of the scan.                                 *)
(***************************************************************************)
EXTENDS Topology, FiniteSetTheorems, FunctionTheorems, TLAPS

Cell == [via : Addrs, latency : Nat]

Entry == [cost : Search!Cost, node : Sources, path : Seq(Nodes)]

\* Types of the scan ...
ScanTypeOK ==
  /\ ever \subseteq Links
  /\ denied \subseteq Nodes \X Addrs
  /\ candidates \in [Nodes -> (SUBSET Addrs) \cup {None}]
  /\ row \in 0..Len(RowSeq)
  /\ column \in 1..(Len(NodeSeq) + 1)
  /\ dialer \in Sources \cup {None}
  /\ prohibited \in BOOLEAN /\ cached \in BOOLEAN
  /\ DOMAIN cells \subseteq Sources \X Nodes
  /\ \A e \in DOMAIN cells : cells[e] \in Cell \cup {None}

\* ... and of the search.
SearchTypeOK ==
  /\ heap \subseteq Entry
  /\ best \in [Sources -> Search!Cost \cup {None}]
  /\ done \in BOOLEAN
  /\ path \in Seq(Nodes) \cup {None}

TypeOK == ScanTypeOK /\ SearchTypeOK

---------------------------------------------------------------------------
(* What the scan keeps.                                                    *)

\* The history follows the network.
HistoryOK == net \subseteq ever /\ steady \subseteq net /\ loyal \subseteq login

\* A harvest knows the registered address, and all of them unless the node could not
\* be logged in to.
HarvestOK ==
  /\ \A n \in Nodes : candidates[n] # None =>
       HostOf[n] \in candidates[n] /\ (n \in loyal => candidates[n] = Found(n))
  /\ row > 0 => \A n \in Nodes : candidates[n] # None

\* The probes of a row start at its node, or nowhere.
DialerOK ==
  /\ row > 0 => \/ dialer = RowSeq[row]
                \/ dialer = None /\ RowSeq[row] # Local /\ RowSeq[row] \notin loyal
  /\ prohibited => \E a \in Addrs : <<dialer, a>> \in denied

\* An edge has worked when it was probed.
CellsWorked ==
  \A e \in DOMAIN cells : cells[e] # None =>
    <<e[1], cells[e].via>> \in ever /\ <<e[1], cells[e].via>> \notin denied

\* An edge that has worked all the time, from a source that the scan can use, was found.
CellsFound ==
  \A e \in DOMAIN cells :
    Usable(e[1]) /\ (\E a \in Known(e[2]) : Works(steady, e[1], a, e[2])) => cells[e] # None

\* The cells that have been probed.
CellsCover ==
  \A i \in 1..Len(RowSeq), j \in 1..Len(NodeSeq) :
    (i < row \/ (i = row /\ j < column) \/ cached) /\ RowSeq[i] # NodeSeq[j] =>
      <<RowSeq[i], NodeSeq[j]>> \in DOMAIN cells

ScanInv == HistoryOK /\ HarvestOK /\ DialerOK /\ CellsWorked /\ CellsFound /\ CellsCover

---------------------------------------------------------------------------
(* What the search keeps.                                                  *)

Start == [hops |-> 0, sum |-> 0]

\* Before the matrix is there, the search has not begun.
Fresh ==
  /\ heap = {[cost |-> Start, node |-> Local, path |-> <<>>]}
  /\ best = [n \in Sources |-> IF n = Local THEN Start ELSE None]
  /\ done = FALSE
  /\ path = None

\* The node that route r has come to after i hops.
At(r, i) == IF i = 0 THEN Local ELSE r[i]

IsRoute(r) == r \in Seq(Nodes) /\ \A i \in 1..Len(r) : Search!Edge(r, i) # None

\* An entry of the heap is a route without detours and its cost, and each node on it
\* is known to be at most as many hops away.
EntryOK(e) ==
  /\ IsRoute(e.path)
  /\ e.node = At(e.path, Len(e.path))
  /\ e.cost = Search!RouteCost(e.path)
  /\ \A i, j \in 1..Len(e.path) : e.path[i] = e.path[j] => i = j
  /\ \A i \in 0..Len(e.path) :
       best[At(e.path, i)] # None /\ best[At(e.path, i)].hops <= i

Waiting(m) == \E e \in heap : e.node = m /\ e.cost = best[m]

\* The cost of going on to n from a node that costs c.
Onward(c, m, n) == [hops |-> c.hops + 1, sum |-> c.sum + Matrix[m][n]]

\* Every neighbour of m is known at no more than the cost through m.
Expanded(m) ==
  \A n \in Nodes : Matrix[m][n] # None =>
    best[n] # None /\ ~Search!Less(Onward(best[m], m, n), best[n])

\* A node that was found waits in the heap or has been expanded; the target never is.
Settled ==
  \A m \in Sources : best[m] # None => Waiting(m) \/ (m # Target /\ Expanded(m))

\* The result is a cheapest route.
ResultOK ==
  /\ path \in Search!Routes(Target)
  /\ \A r \in Search!Routes(Target) : ~Search!Less(Search!RouteCost(r), Search!RouteCost(path))

SearchInv ==
  /\ ~cached => Fresh
  /\ ~done => path = None
  /\ path = None => Settled /\ (done => heap = {})
  /\ path # None => ResultOK
  /\ best[Local] = Start
  /\ \A e \in heap : EntryOK(e)

IInv == TypeOK /\ ScanInv /\ SearchInv

---------------------------------------------------------------------------
(* Induction over numbers.                                                 *)

\* A set of numbers that is not empty has a smallest one.
LEMMA SmallestNat ==
  ASSUME NEW S \in SUBSET Nat, S # {}
  PROVE  \E n \in S : \A k \in S : n <= k
  <1>1. PICK m \in S : TRUE
    OBVIOUS
  <1> DEFINE I == 0..m
             R == StrictSubsetOrdering(I)
             U == {0..k : k \in S \cap I}
  <1>2. IsFiniteSet(I)
    BY FS_Interval
  <1>3. /\ \A V \in SUBSET I : IsFiniteSet(V)
        /\ U \subseteq SUBSET I /\ U # {}
    <2>1. \A V \in SUBSET I : IsFiniteSet(V)
      BY <1>2, FS_Subset
    <2>2. 0..m \in U
      OBVIOUS
    <2> QED BY <2>1, <2>2
  <1>4. U \subseteq FiniteSubsetsOf(I)
    BY <1>3 DEF FiniteSubsetsOf
  <1>5. PICK V \in U : \A W \in U : <<W, V>> \notin R
    BY <1>3, <1>4, FS_StrictSubsetOrderingWellFounded, WFMin
  <1>6. PICK n \in S \cap I : V = 0..n
    OBVIOUS
  <1>7. ASSUME NEW k \in S PROVE n <= k
    <2>1. SUFFICES ASSUME k < n PROVE FALSE
      OBVIOUS
    <2>2. k \in I /\ 0..k \in U
      BY <2>1
    <2>3. 0..k \subseteq 0..n /\ 0..k # 0..n
      <3>1. n \in 0..n /\ n \notin 0..k
        BY <2>1
      <3> QED BY <2>1, <3>1
    <2>4. 0..k \in SUBSET I /\ 0..n \in SUBSET I
      BY <2>2
    <2>5. <<0..k, 0..n>> \in R
      BY <2>3, <2>4 DEF StrictSubsetOrdering
    <2> QED BY <1>5, <1>6, <2>2, <2>5
  <1> QED BY <1>7

\* Induction up to n, over a set instead of a predicate.
LEMMA InductionUpTo ==
  ASSUME NEW n \in Nat, NEW S, 0 \in S, \A j \in 1..n : j - 1 \in S => j \in S
  PROVE  \A j \in 0..n : j \in S
<1> SUFFICES ASSUME NEW c \in 0..n, c \notin S PROVE FALSE
  OBVIOUS
<1>1. PICK m \in {j \in 0..n : j \notin S} : \A k \in {j \in 0..n : j \notin S} : m <= k
  <2>1. {j \in 0..n : j \notin S} \in SUBSET Nat /\ {j \in 0..n : j \notin S} # {}
    OBVIOUS
  <2> QED
    BY <2>1, SmallestNat
<1>2. m \in 1..n /\ m - 1 \in 0..n
  BY <1>1
<1>3. m - 1 \in S
  BY <1>1, <1>2
<1> QED
  BY <1>1, <1>2, <1>3

---------------------------------------------------------------------------
(* The nodes and the rows.                                                 *)

\* A row for the MCP host and one for each node.
LEMMA RowFacts ==
  /\ Len(NodeSeq) \in Nat /\ Len(RowSeq) = Len(NodeSeq) + 1
  /\ \A i \in 1..Len(RowSeq) : RowSeq[i] = IF i = 1 THEN Local ELSE NodeSeq[i - 1]
  /\ \A i \in 1..Len(RowSeq) : RowSeq[i] \in Sources
  /\ \A j \in 1..Len(NodeSeq) : NodeSeq[j] \in Nodes
  /\ \A s \in Sources : \E i \in 1..Len(RowSeq) : RowSeq[i] = s
  /\ \A n \in Nodes : \E j \in 1..Len(NodeSeq) : NodeSeq[j] = n
<1>1. NodeSeq \in Seq(Nodes) /\ Len(NodeSeq) \in Nat
  BY TopologyAssumption
<1>2. Len(RowSeq) = Len(NodeSeq) + 1
  BY <1>1 DEF RowSeq
<1>3. \A i \in 1..Len(RowSeq) : RowSeq[i] = IF i = 1 THEN Local ELSE NodeSeq[i - 1]
  BY <1>1, <1>2 DEF RowSeq
<1>4. \A j \in 1..Len(NodeSeq) : NodeSeq[j] \in Nodes
  BY DEF Nodes
<1>5. \A i \in 1..Len(RowSeq) : RowSeq[i] \in Sources
  <2> TAKE i \in 1..Len(RowSeq)
  <2>1. i # 1 => i - 1 \in 1..Len(NodeSeq)
    BY <1>1, <1>2
  <2> QED
    BY <1>3, <1>4, <2>1 DEF Sources
<1>6. \A n \in Nodes : \E j \in 1..Len(NodeSeq) : NodeSeq[j] = n
  BY DEF Nodes
<1>7. \A s \in Sources : \E i \in 1..Len(RowSeq) : RowSeq[i] = s
  <2> TAKE s \in Sources
  <2>1. CASE s = Local
    <3>1. 1 \in 1..Len(RowSeq) /\ RowSeq[1] = Local
      BY <1>1, <1>2, <1>3
    <3> QED
      BY <2>1, <3>1
  <2>2. CASE s \in Nodes
    <3>1. PICK j \in 1..Len(NodeSeq) : NodeSeq[j] = s
      BY <2>2, <1>6
    <3>2. j + 1 \in 1..Len(RowSeq) /\ j + 1 # 1 /\ (j + 1) - 1 = j
      BY <1>1, <1>2
    <3>3. RowSeq[j + 1] = s
      BY <1>3, <3>1, <3>2
    <3> QED
      BY <3>2, <3>3
  <2> QED
    BY <2>1, <2>2 DEF Sources
<1> QED
  BY <1>1, <1>2, <1>3, <1>4, <1>5, <1>6, <1>7

\* There are finitely many nodes.
LEMMA NodesFinite == IsFiniteSet(Nodes) /\ Cardinality(Nodes) \in Nat
<1> DEFINE I == 1..Len(NodeSeq)
           f == [i \in I |-> NodeSeq[i]]
<1>1. IsFiniteSet(I)
  BY RowFacts, FS_Interval
<1>2. f \in Surjection(I, Nodes)
  BY Fun_IsSurj DEF Nodes
<1> QED
  BY <1>1, <1>2, FS_Surjection, FS_CardinalityType

\* The matrix gives latencies or nothing, and nothing from a node to itself.
LEMMA MatrixFacts ==
  ASSUME ScanTypeOK, cached => \A s \in Sources, n \in Nodes : s # n => <<s, n>> \in DOMAIN cells
  PROVE  /\ Matrix \in [Sources -> [Nodes -> Nat \cup {None}]]
         /\ \A n \in Nodes : Matrix[n][n] = None
<1>1. \A s \in Sources, n \in Nodes :
        cached /\ s # n /\ cells[<<s, n>>] # None => cells[<<s, n>>].latency \in Nat
  BY DEF ScanTypeOK, Cell
<1> QED
  BY <1>1 DEF Matrix, Sources

\* When the scan is over all pairs of a source and another node have been probed.
LEMMA AllProbed ==
  ASSUME CellsCover, cached, NEW s \in Sources, NEW n \in Nodes, s # n
  PROVE  <<s, n>> \in DOMAIN cells
BY RowFacts DEF CellsCover

---------------------------------------------------------------------------
(* Types.                                                                  *)

\* The scan begins with nothing known.
LEMMA InitTypes == Init => TypeOK
<1> SUFFICES ASSUME Init PROVE TypeOK
  OBVIOUS
<1>1. ScanTypeOK
  <2>1. ever \subseteq Links /\ denied \subseteq Nodes \X Addrs
    BY TopologyAssumption DEF Init
  <2>2. DOMAIN cells = {}
    BY DEF Init
  <2>3. row \in 0..Len(RowSeq) /\ column \in 1..(Len(NodeSeq) + 1)
    BY RowFacts DEF Init
  <2> QED
    BY <2>1, <2>2, <2>3 DEF Init, ScanTypeOK
<1>2. SearchTypeOK
  <2>1. /\ heap = {[cost |-> Start, node |-> Local, path |-> <<>>]}
        /\ best = [n \in Sources |-> IF n = Local THEN Start ELSE None]
        /\ done = FALSE /\ path = None
    BY DEF Init, Search!Init, Start, Sources, Search!Sources
  <2>2. Start \in Search!Cost /\ Local \in Sources /\ <<>> \in Seq(Nodes)
    BY DEF Start, Search!Cost, Sources
  <2>3. [cost |-> Start, node |-> Local, path |-> <<>>] \in Entry
    BY <2>2 DEF Entry
  <2>4. best \in [Sources -> Search!Cost \cup {None}]
    BY <2>1, <2>2
  <2> QED
    BY <2>1, <2>3, <2>4 DEF SearchTypeOK
<1> QED
  BY <1>1, <1>2 DEF TypeOK

\* Harvests find addresses; a row begins at a source.
LEMMA FoundIsAddrs == \A n \in Nodes : Found(n) \subseteq Addrs /\ HostOf[n] \in Found(n)
BY TopologyAssumption DEF Found

\* The quickest address is one that was tried, over a link that works.
LEMMA ProbedAddress ==
  ASSUME ScanTypeOK, NEW t \in Nodes, candidates[t] # None, NEW a \in Quickest(Reached(t))
  PROVE  /\ a \in candidates[t] /\ a \in Addrs
         /\ <<dialer, a>> \in net /\ <<dialer, a>> \notin denied
<1>1. candidates[t] \in SUBSET Addrs
  BY DEF ScanTypeOK
<1>2. a \in Reached(t)
  BY DEF Quickest
<1> QED
  BY <1>1, <1>2 DEF Reached

---------------------------------------------------------------------------
(* The scan.                                                               *)

\* What CellsFound demands only becomes less while time goes on.
LEMMA DemandsShrink ==
  ASSUME loyal' \subseteq loyal, steady' \subseteq steady, denied' = denied
  PROVE  /\ \A s : Usable(s)' => Usable(s)
         /\ \A n : Known(n)' \subseteq Known(n)
         /\ \A s, a, n : Works(steady, s, a, n)' => Works(steady, s, a, n)
BY DEF Usable, Known, Works

\* CellsFound survives what changes no cell.
LEMMA FoundKept ==
  ASSUME CellsFound, loyal' \subseteq loyal, steady' \subseteq steady, denied' = denied,
         cells' = cells
  PROVE  CellsFound'
<1> SUFFICES ASSUME NEW e \in DOMAIN cells, Usable(e[1])',
                    NEW a \in Known(e[2])', Works(steady, e[1], a, e[2])'
             PROVE  cells[e] # None
  BY DEF CellsFound
<1>1. Usable(e[1]) /\ a \in Known(e[2]) /\ Works(steady, e[1], a, e[2])
  BY DemandsShrink
<1> QED
  BY <1>1 DEF CellsFound

LEMMA ScanInit == Init => ScanInv
<1> SUFFICES ASSUME Init PROVE ScanInv
  OBVIOUS
<1>1. DOMAIN cells = {} /\ row = 0 /\ ~cached /\ ~prohibited
  BY DEF Init
<1>2. HistoryOK
  BY DEF Init, HistoryOK
<1>3. HarvestOK
  BY <1>1 DEF Init, HarvestOK
<1>4. DialerOK
  BY <1>1 DEF DialerOK
<1>5. CellsWorked /\ CellsFound
  BY <1>1 DEF CellsWorked, CellsFound
<1>6. CellsCover
  <2>1. \A i \in 1..Len(RowSeq) : ~(i < 0) /\ i # 0
    BY RowFacts
  <2> QED
    BY <1>1, <2>1 DEF CellsCover
<1> QED
  BY <1>2, <1>3, <1>4, <1>5, <1>6 DEF ScanInv

\* The network may change at any moment of the scan.
LEMMA ScanChange ==
  ASSUME ScanTypeOK, ScanInv, Change
  PROVE  ScanTypeOK' /\ ScanInv'
<1> USE DEF ScanInv
<1>1. /\ net' \subseteq Links /\ ever' = ever \cup net' /\ steady' = steady \cap net'
      /\ loyal' = loyal \cap login'
  BY DEF Change, HistoryOK, ScanTypeOK
<1>2. /\ denied' = denied /\ candidates' = candidates /\ row' = row /\ dialer' = dialer
      /\ column' = column /\ prohibited' = prohibited /\ cells' = cells /\ cached' = cached
  BY DEF Change, scanVars
<1>3. ScanTypeOK'
  BY <1>1, <1>2 DEF ScanTypeOK
<1>4. HistoryOK'
  BY <1>1 DEF HistoryOK
<1>5. HarvestOK'
  BY <1>1, <1>2 DEF HarvestOK, Found
<1>6. DialerOK'
  BY <1>1, <1>2 DEF DialerOK, RowSeq
<1>7. CellsWorked'
  BY <1>1, <1>2 DEF CellsWorked
<1>8. CellsFound'
  BY <1>1, <1>2, FoundKept
<1>9. CellsCover'
  BY <1>2 DEF CellsCover, RowSeq
<1> QED
  BY <1>3, <1>4, <1>5, <1>6, <1>7, <1>8, <1>9

\* A harvest finds all addresses of a node, or the node was not there all the time.
LEMMA ScanHarvest ==
  ASSUME ScanTypeOK, ScanInv, NEW n \in Nodes, Harvest(n)
  PROVE  ScanTypeOK' /\ ScanInv'
<1> USE DEF ScanInv
<1>1. /\ row = 0
      /\ loyal' \subseteq loyal
      /\ \/ candidates' = [candidates EXCEPT ![n] = Found(n)]
         \/ candidates' = [candidates EXCEPT ![n] = {HostOf[n]}] /\ n \notin loyal'
  BY DEF Harvest, HistoryOK
<1>2. UNCHANGED <<net, login, denied, ever, steady, row, dialer, column, prohibited, cells,
                  cached>>
  BY DEF Harvest
<1>3. \A m \in Nodes : candidates'[m] = IF m = n THEN candidates'[n] ELSE candidates[m]
  BY <1>1 DEF ScanTypeOK
<1>4. /\ HostOf[n] \in candidates'[n] /\ candidates'[n] \subseteq Addrs
      /\ n \in loyal' => candidates'[n] = Found(n)
  <2>1. n \in DOMAIN candidates
    BY DEF ScanTypeOK
  <2> QED
    BY <1>1, <2>1, FoundIsAddrs, TopologyAssumption
<1>5. ScanTypeOK'
  <2>1. candidates' \in [Nodes -> (SUBSET Addrs) \cup {None}]
    <3>1. Found(n) \in SUBSET Addrs /\ {HostOf[n]} \in SUBSET Addrs
      BY FoundIsAddrs, TopologyAssumption
    <3>2. candidates \in [Nodes -> (SUBSET Addrs) \cup {None}]
      BY DEF ScanTypeOK
    <3>3. CASE candidates' = [candidates EXCEPT ![n] = Found(n)]
      BY <3>1, <3>2, <3>3
    <3>4. CASE candidates' = [candidates EXCEPT ![n] = {HostOf[n]}]
      BY <3>1, <3>2, <3>4
    <3> QED
      BY <1>1, <3>3, <3>4
  <2> QED
    BY <1>2, <2>1 DEF ScanTypeOK
<1>6. HistoryOK'
  BY <1>1, <1>2 DEF HistoryOK
<1>7. HarvestOK'
  <2>1. ASSUME NEW m \in Nodes, candidates'[m] # None
        PROVE  HostOf[m] \in candidates'[m] /\ (m \in loyal' => candidates'[m] = Found(m))
    <3>1. CASE m = n
      BY <1>4, <3>1
    <3>2. CASE m # n
      <4>1. candidates'[m] = candidates[m]
        BY <1>3, <3>2
      <4> QED
        BY <1>1, <2>1, <4>1 DEF HarvestOK
    <3> QED
      BY <3>1, <3>2
  <2> QED
    BY <1>1, <1>2, <2>1 DEF HarvestOK, Found
<1>8. DialerOK'
  BY <1>1, <1>2 DEF DialerOK
<1>9. CellsWorked' /\ CellsCover'
  BY <1>2 DEF CellsWorked, CellsCover, RowSeq
<1>10. CellsFound'
  BY <1>1, <1>2, FoundKept
<1> QED
  BY <1>5, <1>6, <1>7, <1>8, <1>9, <1>10

\* A row begins at its node, unless that cannot be logged in to.
LEMMA DialerFacts ==
  ASSUME HistoryOK, NEW i \in 1..Len(RowSeq)
  PROVE  /\ DialerOf(RowSeq[i]) \in Sources \cup {None}
         /\ \/ DialerOf(RowSeq[i]) = RowSeq[i]
            \/ DialerOf(RowSeq[i]) = None /\ RowSeq[i] # Local /\ RowSeq[i] \notin loyal
BY RowFacts DEF DialerOf, HistoryOK

\* The first row begins when all harvests are over.
LEMMA ScanHarvested ==
  ASSUME ScanTypeOK, ScanInv, Harvested
  PROVE  ScanTypeOK' /\ ScanInv'
<1> USE DEF ScanInv
<1>1. 1 \in 1..Len(RowSeq)
  BY RowFacts
<1>2. /\ row = 0 /\ row' = 1 /\ dialer' = DialerOf(RowSeq[1]) /\ column' = 1 /\ ~prohibited'
      /\ \A n \in Nodes : candidates[n] # None
  BY DEF Harvested, BeginRow
<1>3. UNCHANGED <<net, login, denied, ever, steady, loyal, candidates, cells, cached>>
  BY DEF Harvested, netVars, historyVars
<1>4. ScanTypeOK'
  <2>1. row' \in 0..Len(RowSeq) /\ column' \in 1..(Len(NodeSeq) + 1)
    BY <1>2, RowFacts
  <2>2. dialer' \in Sources \cup {None} /\ prohibited' \in BOOLEAN
    BY <1>1, <1>2, DialerFacts DEF Harvested, BeginRow
  <2>3. RowSeq' = RowSeq
    BY DEF RowSeq
  <2> QED
    BY <1>3, <2>1, <2>2, <2>3 DEF ScanTypeOK
<1>5. HistoryOK'
  BY <1>3 DEF HistoryOK
<1>6. HarvestOK'
  BY <1>2, <1>3 DEF HarvestOK, Found
<1>7. DialerOK'
  <2>1. prohibited' = FALSE
    BY DEF Harvested, BeginRow
  <2>2. RowSeq' = RowSeq
    BY DEF RowSeq
  <2> QED
    BY <1>1, <1>2, <1>3, <2>1, <2>2, DialerFacts DEF DialerOK
<1>8. CellsWorked'
  BY <1>3 DEF CellsWorked
<1>9. CellsFound'
  BY <1>3, FoundKept
<1>10. CellsCover'
  <2>1. \A i \in 1..Len(RowSeq), j \in 1..Len(NodeSeq) : ~(i < 1) /\ ~(j < 1)
    BY RowFacts
  <2> QED
    BY <1>2, <1>3, <2>1 DEF CellsCover, RowSeq
<1> QED
  BY <1>4, <1>5, <1>6, <1>7, <1>8, <1>9, <1>10

\* A cell is written with what a probe has found out.
LEMMA ScanCell ==
  ASSUME ScanTypeOK, ScanInv,
         row > 0, row \in 1..Len(RowSeq), column \in 1..Len(NodeSeq),
         RowSeq[row] # NodeSeq[column],
         NEW v \in Cell \cup {None},
         cells' = [e \in DOMAIN cells \cup {<<RowSeq[row], NodeSeq[column]>>} |->
                     IF e = <<RowSeq[row], NodeSeq[column]>> THEN v ELSE cells[e]],
         v # None => /\ <<RowSeq[row], v.via>> \in ever
                     /\ <<RowSeq[row], v.via>> \notin denied,
         Usable(RowSeq[row]) /\ (\E a \in Known(NodeSeq[column]) :
             Works(steady, RowSeq[row], a, NodeSeq[column])) => v # None,
         column' = column + 1,
         UNCHANGED <<netVars, historyVars, candidates, row, dialer, cached>>
  PROVE  /\ DOMAIN cells' \subseteq Sources \X Nodes
         /\ \A e \in DOMAIN cells' : cells'[e] \in Cell \cup {None}
         /\ CellsWorked' /\ CellsFound' /\ CellsCover'
<1> DEFINE s == RowSeq[row]
           t == NodeSeq[column]
<1>0. s \in Sources /\ t \in Nodes /\ s # t
  BY RowFacts
<1>1. /\ \A e \in DOMAIN cells' : e # <<s, t>> => e \in DOMAIN cells /\ cells'[e] = cells[e]
      /\ <<s, t>> \in DOMAIN cells' /\ cells'[<<s, t>>] = v
      /\ DOMAIN cells' = DOMAIN cells \cup {<<s, t>>}
  OBVIOUS
<1>2. /\ net' = net /\ login' = login /\ denied' = denied /\ ever' = ever /\ steady' = steady
      /\ loyal' = loyal /\ row' = row /\ cached' = cached
  BY DEF netVars, historyVars
<1>3. v # None => <<s, v.via>> \in ever /\ <<s, v.via>> \notin denied
  OBVIOUS
<1>4. Usable(s) /\ (\E a \in Known(t) : Works(steady, s, a, t)) => v # None
  OBVIOUS
<1>5. \A i \in 1..Len(RowSeq), j \in 1..Len(NodeSeq) :
        i = row /\ j < column' /\ ~(j < column) => RowSeq[i] = s /\ NodeSeq[j] = t
  BY RowFacts
<1> HIDE DEF s, t
<1>6. DOMAIN cells' \subseteq Sources \X Nodes
  BY <1>0, <1>1 DEF ScanTypeOK
<1>7. \A e \in DOMAIN cells' : cells'[e] \in Cell \cup {None}
  BY <1>1 DEF ScanTypeOK
<1>8. CellsWorked'
  <2> SUFFICES ASSUME NEW e \in DOMAIN cells', cells'[e] # None
               PROVE  <<e[1], cells'[e].via>> \in ever /\ <<e[1], cells'[e].via>> \notin denied
    BY <1>2 DEF CellsWorked
  <2>1. CASE e = <<s, t>>
    BY <1>1, <1>3, <2>1
  <2>2. CASE e # <<s, t>>
    BY <1>1, <2>2 DEF ScanInv, CellsWorked
  <2> QED
    BY <2>1, <2>2
<1>9. CellsFound'
  <2>1. /\ \A r : Usable(r)' = Usable(r)
        /\ \A n : Known(n)' = Known(n)
        /\ \A r, a, n : Works(steady, r, a, n)' = Works(steady, r, a, n)
    BY <1>2 DEF Usable, Known, Works
  <2> SUFFICES ASSUME NEW e \in DOMAIN cells', Usable(e[1])',
                      NEW a \in Known(e[2])', Works(steady, e[1], a, e[2])'
               PROVE  cells'[e] # None
    BY DEF CellsFound
  <2>2. Usable(e[1]) /\ a \in Known(e[2]) /\ Works(steady, e[1], a, e[2])
    BY <2>1
  <2>3. CASE e = <<s, t>>
    BY <1>1, <1>4, <2>2, <2>3
  <2>4. CASE e # <<s, t>>
    BY <1>1, <2>2, <2>4 DEF ScanInv, CellsFound
  <2> QED
    BY <2>3, <2>4
<1>10. CellsCover'
  <2> SUFFICES ASSUME NEW i \in 1..Len(RowSeq), NEW j \in 1..Len(NodeSeq),
                      i < row \/ (i = row /\ j < column') \/ cached, RowSeq[i] # NodeSeq[j]
               PROVE  <<RowSeq[i], NodeSeq[j]>> \in DOMAIN cells'
    BY <1>2 DEF CellsCover, RowSeq
  <2>1. CASE i < row \/ (i = row /\ j < column) \/ cached
    BY <1>1, <2>1 DEF ScanInv, CellsCover
  <2>2. CASE ~(i < row \/ (i = row /\ j < column) \/ cached)
    <3>1. RowSeq[i] = s /\ NodeSeq[j] = t
      <4>1. i = row /\ j < column' /\ ~(j < column)
        BY <2>2
      <4> QED
        BY <1>5, <4>1
    <3> QED
      BY <1>1, <3>1
  <2> QED
    BY <2>1, <2>2
<1> QED
  BY <1>6, <1>7, <1>8, <1>9, <1>10

\* An address that has answered all the time answers the probe.
LEMMA ReachedFacts ==
  ASSUME ScanInv, row > 0, dialer = RowSeq[row], NEW t \in Nodes,
         NEW a \in Known(t), Works(steady, RowSeq[row], a, t)
  PROVE  a \in Reached(t)
<1>1. a \in candidates[t]
  BY DEF ScanInv, HarvestOK, Known, Found
<1> QED
  BY <1>1 DEF Reached, Works, ScanInv, HistoryOK

\* One target is probed.
LEMMA ScanProbe ==
  ASSUME ScanTypeOK, ScanInv, Probe
  PROVE  ScanTypeOK' /\ ScanInv'
<1> DEFINE s == RowSeq[row]
           t == NodeSeq[column]
<1>1. /\ row > 0 /\ row \in 1..Len(RowSeq) /\ ~cached
      /\ column \in 1..Len(NodeSeq)
      /\ column' = column + 1 /\ column' \in 1..(Len(NodeSeq) + 1)
      /\ UNCHANGED <<netVars, historyVars, candidates, row, dialer, cached>>
  BY RowFacts DEF Probe, ScanTypeOK
<1>2. s \in Sources /\ t \in Nodes /\ candidates[t] # None /\ candidates[t] \subseteq Addrs
  BY <1>1, RowFacts DEF ScanInv, HarvestOK, ScanTypeOK
<1>3. \/ s = t /\ UNCHANGED <<cells, prohibited>>
      \/ s # t /\ prohibited' = (prohibited \/ \E a \in candidates[t] : <<dialer, a>> \in denied)
  BY DEF Probe
<1>4. /\ DOMAIN cells' \subseteq Sources \X Nodes
      /\ \A e \in DOMAIN cells' : cells'[e] \in Cell \cup {None}
      /\ CellsWorked' /\ CellsFound' /\ CellsCover'
  <2>1. CASE s = t
    <3>1. cells' = cells
      BY <2>1 DEF Probe
    <3>2. CellsWorked' /\ CellsFound'
      <4>1. /\ loyal' = loyal /\ steady' = steady /\ denied' = denied /\ ever' = ever
        BY <1>1 DEF netVars, historyVars
      <4> QED
        BY <3>1, <4>1, FoundKept DEF CellsWorked, ScanInv
    <3>3. CellsCover'
      <4> SUFFICES ASSUME NEW i \in 1..Len(RowSeq), NEW j \in 1..Len(NodeSeq),
                          i < row \/ (i = row /\ j < column') \/ cached,
                          RowSeq[i] # NodeSeq[j]
                   PROVE  <<RowSeq[i], NodeSeq[j]>> \in DOMAIN cells
        BY <1>1, <3>1 DEF CellsCover, RowSeq
      <4>1. ~(i = row /\ j = column)
        BY <2>1
      <4>2. i < row \/ (i = row /\ j < column) \/ cached
        BY <1>1, <4>1, RowFacts
      <4> QED
        BY <4>2 DEF ScanInv, CellsCover
    <3> QED
      BY <3>1, <3>2, <3>3 DEF ScanTypeOK
  <2>2. CASE s # t /\ (dialer = None \/ Reached(t) = {})
            /\ cells' = [e \in DOMAIN cells \cup {<<s, t>>} |->
                           IF e = <<s, t>> THEN None ELSE cells[e]]
    <3>1. ~(Usable(s) /\ \E a \in Known(t) : Works(steady, s, a, t))
      <4>1. Usable(s) => dialer = s
        BY <1>1 DEF ScanInv, DialerOK, Usable
      <4>2. s # None
        BY <1>2, TopologyAssumption
      <4> QED
        BY <1>1, <1>2, <2>2, <4>1, <4>2, ReachedFacts
    <3> QED
      BY <1>1, <2>2, <3>1, ScanCell
  <2>3. ASSUME s # t, dialer # None, NEW a \in Quickest(Reached(t)),
               cells' = [e \in DOMAIN cells \cup {<<s, t>>} |->
                           IF e = <<s, t>> THEN [via |-> a, latency |-> Latency[dialer][a]]
                           ELSE cells[e]]
        PROVE  /\ DOMAIN cells' \subseteq Sources \X Nodes
               /\ \A e \in DOMAIN cells' : cells'[e] \in Cell \cup {None}
               /\ CellsWorked' /\ CellsFound' /\ CellsCover'
    <3> DEFINE v == [via |-> a, latency |-> Latency[dialer][a]]
    <3>1. dialer = s
      BY <1>1, <2>3 DEF ScanInv, DialerOK
    <3>2. a \in Addrs /\ <<s, a>> \in net /\ <<s, a>> \notin denied
      BY <1>2, <2>3, <3>1, ProbedAddress
    <3>3. v \in Cell /\ v.via = a /\ v # None
      <4>1. Latency[dialer][a] \in Nat
        BY <1>2, <3>1, <3>2, TopologyAssumption
      <4> QED
        BY <3>2, <4>1, NoneAssumption DEF Cell
    <3>4. <<s, v.via>> \in ever /\ <<s, v.via>> \notin denied
      BY <3>2, <3>3 DEF ScanInv, HistoryOK
    <3>5. cells' = [e \in DOMAIN cells \cup {<<s, t>>} |-> IF e = <<s, t>> THEN v ELSE cells[e]]
      BY <2>3
    <3> HIDE DEF v
    <3> QED
      BY <1>1, <2>3, <3>3, <3>4, <3>5, ScanCell
  <2> QED
    BY <2>1, <2>2, <2>3 DEF Probe
<1>5. /\ net' = net /\ login' = login /\ denied' = denied /\ ever' = ever /\ steady' = steady
      /\ loyal' = loyal /\ candidates' = candidates /\ row' = row /\ dialer' = dialer
      /\ cached' = cached
  BY <1>1 DEF netVars, historyVars
<1>6. DialerOK'
  <2>1. prohibited' => prohibited \/ \E a \in candidates[t] : <<dialer, a>> \in denied
    BY <1>3
  <2>2. prohibited' => \E a \in Addrs : <<dialer, a>> \in denied
    BY <1>2, <2>1 DEF ScanInv, DialerOK
  <2> QED
    BY <1>5, <2>2 DEF ScanInv, DialerOK, RowSeq
<1>7. HistoryOK' /\ HarvestOK'
  BY <1>5 DEF ScanInv, HistoryOK, HarvestOK, Found
<1>8. ScanTypeOK'
  <2>1. prohibited' \in BOOLEAN
    BY <1>3 DEF ScanTypeOK
  <2>2. RowSeq' = RowSeq
    BY DEF RowSeq
  <2> QED
    BY <1>1, <1>4, <1>5, <2>1, <2>2 DEF ScanTypeOK
<1> QED
  BY <1>4, <1>6, <1>7, <1>8 DEF ScanInv

\* The row that is done covers all its cells.
LEMMA RowCovered ==
  ASSUME ScanInv, row \in 1..Len(RowSeq), column \in Nat, column > Len(NodeSeq)
  PROVE  \A i \in 1..Len(RowSeq), j \in 1..Len(NodeSeq) :
           i < row + 1 /\ RowSeq[i] # NodeSeq[j] => <<RowSeq[i], NodeSeq[j]>> \in DOMAIN cells
<1> TAKE i \in 1..Len(RowSeq), j \in 1..Len(NodeSeq)
<1> HAVE i < row + 1 /\ RowSeq[i] # NodeSeq[j]
<1>1. i < row \/ (i = row /\ j < column)
  BY RowFacts
<1> QED
  BY <1>1 DEF ScanInv, CellsCover

\* A row is done; when one of its probes was prohibited its edges are dropped.
LEMMA ScanRowDone ==
  ASSUME ScanTypeOK, ScanInv, RowDone
  PROVE  ScanTypeOK' /\ ScanInv'
<1>1. /\ row > 0 /\ row \in 1..Len(RowSeq) /\ ~cached
      /\ column \in Nat /\ column > Len(NodeSeq) /\ cells' = Relabelled
      /\ UNCHANGED <<netVars, historyVars, candidates, searchVars>>
  BY RowFacts DEF RowDone, ScanTypeOK
<1>2. /\ net' = net /\ login' = login /\ denied' = denied /\ ever' = ever /\ steady' = steady
      /\ loyal' = loyal /\ candidates' = candidates
  BY <1>1 DEF netVars, historyVars
<1>3. /\ DOMAIN cells' = DOMAIN cells
      /\ \A e \in DOMAIN cells :
           cells'[e] = cells[e] \/ (cells'[e] = None /\ prohibited /\ e[1] = RowSeq[row])
  BY <1>1 DEF Relabelled
<1>4. prohibited => ~Usable(RowSeq[row])
  <2> SUFFICES ASSUME prohibited PROVE ~Usable(RowSeq[row])
    OBVIOUS
  <2>1. PICK a \in Addrs : <<dialer, a>> \in denied
    BY DEF ScanInv, DialerOK
  <2>2. dialer \in Nodes
    BY <2>1 DEF ScanTypeOK
  <2>3. dialer = RowSeq[row] /\ dialer # Local
    BY <1>1, <2>2, TopologyAssumption DEF ScanInv, DialerOK, Sources
  <2> QED
    BY <2>1, <2>3 DEF Usable
<1>5. CellsWorked'
  BY <1>2, <1>3 DEF ScanInv, CellsWorked
<1>6. CellsFound'
  <2>1. /\ \A r : Usable(r)' = Usable(r)
        /\ \A n : Known(n)' = Known(n)
        /\ \A r, a, n : Works(steady, r, a, n)' = Works(steady, r, a, n)
    BY <1>2 DEF Usable, Known, Works
  <2> SUFFICES ASSUME NEW e \in DOMAIN cells, Usable(e[1]),
                      NEW a \in Known(e[2]), Works(steady, e[1], a, e[2])
               PROVE  cells'[e] # None
    BY <1>3, <2>1 DEF CellsFound
  <2>2. cells[e] # None
    BY DEF ScanInv, CellsFound
  <2> QED
    BY <1>3, <1>4, <2>2
<1>7. HistoryOK'
  BY <1>2 DEF ScanInv, HistoryOK
<1>8. RowSeq' = RowSeq
  BY DEF RowSeq
<1>9. \A e \in DOMAIN cells' : cells'[e] \in Cell \cup {None}
  BY <1>3 DEF ScanTypeOK
<1>10. CASE row < Len(RowSeq) /\ BeginRow(row + 1) /\ UNCHANGED cached
  <2>1. row + 1 \in 1..Len(RowSeq)
    BY <1>1, <1>10, RowFacts
  <2>2. /\ row' = row + 1 /\ dialer' = DialerOf(RowSeq[row + 1]) /\ column' = 1
        /\ prohibited' = FALSE /\ cached' = cached
    BY <1>10 DEF BeginRow
  <2>3. ScanTypeOK'
    <3>1. row' \in 0..Len(RowSeq) /\ column' \in 1..(Len(NodeSeq) + 1)
      BY <2>1, <2>2, RowFacts
    <3>2. dialer' \in Sources \cup {None}
      BY <2>1, <2>2, DialerFacts DEF ScanInv
    <3> QED
      BY <1>2, <1>3, <1>8, <1>9, <2>2, <3>1, <3>2 DEF ScanTypeOK
  <2>4. HarvestOK'
    BY <1>1, <1>2, <2>1, <2>2 DEF ScanInv, HarvestOK, Found
  <2>5. DialerOK'
    BY <1>2, <1>8, <2>1, <2>2, DialerFacts DEF ScanInv, DialerOK
  <2>6. CellsCover'
    <3>1. \A j \in 1..Len(NodeSeq) : ~(j < 1)
      BY RowFacts
    <3>2. \A i \in 1..Len(RowSeq), j \in 1..Len(NodeSeq) :
            (i < row' \/ (i = row' /\ j < column') \/ cached') => i < row + 1
      BY <1>1, <2>2, <3>1
    <3> QED
      BY <1>1, <1>3, <1>8, <3>2, RowCovered DEF CellsCover
  <2> QED
    BY <1>5, <1>6, <1>7, <2>3, <2>4, <2>5, <2>6 DEF ScanInv
<1>11. CASE row = Len(RowSeq) /\ cached' = TRUE
            /\ UNCHANGED <<row, dialer, column, prohibited>>
  <2>1. ScanTypeOK'
    BY <1>2, <1>3, <1>8, <1>9, <1>11 DEF ScanTypeOK
  <2>2. HarvestOK'
    BY <1>2, <1>11 DEF ScanInv, HarvestOK, Found
  <2>3. DialerOK'
    BY <1>2, <1>8, <1>11 DEF ScanInv, DialerOK
  <2>4. CellsCover'
    <3>1. \A i \in 1..Len(RowSeq) : i < row + 1
      BY <1>11, RowFacts
    <3> QED
      BY <1>1, <1>3, <1>8, <3>1, RowCovered DEF CellsCover
  <2> QED
    BY <1>5, <1>6, <1>7, <2>1, <2>2, <2>3, <2>4 DEF ScanInv
<1>12. row < Len(RowSeq) \/ row = Len(RowSeq)
  BY <1>1, RowFacts
<1> QED
  BY <1>10, <1>11, <1>12 DEF RowDone

\* The search reads the matrix only.
LEMMA ScanUnchanged ==
  ASSUME ScanTypeOK, ScanInv, UNCHANGED <<netVars, historyVars, scanVars>>
  PROVE  ScanTypeOK' /\ ScanInv'
<1>1. /\ net' = net /\ login' = login /\ denied' = denied /\ ever' = ever /\ steady' = steady
      /\ loyal' = loyal /\ candidates' = candidates /\ row' = row /\ dialer' = dialer
      /\ column' = column /\ prohibited' = prohibited /\ cells' = cells /\ cached' = cached
  BY DEF netVars, historyVars, scanVars
<1>2. ScanTypeOK'
  BY <1>1 DEF ScanTypeOK
<1>3. HistoryOK' /\ HarvestOK' /\ DialerOK'
  BY <1>1 DEF ScanInv, HistoryOK, HarvestOK, DialerOK, Found, RowSeq
<1>4. CellsWorked' /\ CellsCover'
  BY <1>1 DEF ScanInv, CellsWorked, CellsCover, RowSeq
<1>5. CellsFound'
  BY <1>1, FoundKept DEF ScanInv
<1> QED
  BY <1>2, <1>3, <1>4, <1>5 DEF ScanInv

\* Every step keeps what the scan knows.
LEMMA ScanKept ==
  ASSUME ScanTypeOK, ScanInv, [Next]_vars
  PROVE  ScanTypeOK' /\ ScanInv'
<1>1. CASE FindPathStep \/ UNCHANGED vars
  <2>1. UNCHANGED <<netVars, historyVars, scanVars>>
    BY <1>1 DEF FindPathStep, vars
  <2> QED
    BY <2>1, ScanUnchanged
<1> QED
  BY <1>1, ScanChange, ScanHarvest, ScanHarvested, ScanProbe, ScanRowDone DEF Next

---------------------------------------------------------------------------
(* Costs of routes.                                                        *)

\* What the search relies on: the matrix gives latencies or nothing.
MatrixOK ==
  /\ Matrix \in [Sources -> [Nodes -> Nat \cup {None}]]
  /\ \A n \in Nodes : Matrix[n][n] = None

\* Sums of the latencies on the way.
IsSum(f, r, k) ==
  /\ f \in [0..k -> Nat]
  /\ f[0] = 0
  /\ \A i \in 1..k : f[i] = f[i - 1] + Search!Edge(r, i)

\* A route goes from source to source.
LEMMA AtFacts ==
  ASSUME NEW r \in Seq(Nodes)
  PROVE  /\ Len(r) \in Nat
         /\ At(r, 0) = Local /\ Local \in Sources /\ Local \notin Nodes
         /\ \A i \in 1..Len(r) : /\ At(r, i) = r[i] /\ r[i] \in Nodes
                                 /\ i \in 0..Len(r) /\ i - 1 \in 0..Len(r)
                                 /\ Search!Edge(r, i) = Matrix[At(r, i - 1)][r[i]]
         /\ \A i \in 0..Len(r) : At(r, i) \in Sources
<1>1. Len(r) \in Nat
  OBVIOUS
<1>2. At(r, 0) = Local /\ Local \in Sources /\ Local \notin Nodes
  BY TopologyAssumption DEF At, Sources
<1>3. \A i \in 1..Len(r) : At(r, i) = r[i] /\ r[i] \in Nodes /\ r[i] \in Sources
                           /\ i \in 0..Len(r) /\ i - 1 \in 0..Len(r)
  BY <1>1 DEF At, Sources
<1>4. \A i \in 1..Len(r) : Search!Edge(r, i) = Matrix[At(r, i - 1)][r[i]]
  <2> TAKE i \in 1..Len(r)
  <2>1. i - 1 = 0 <=> i = 1
    BY <1>1
  <2> QED
    BY <2>1 DEF Search!Edge, At
<1>5. \A i \in 0..Len(r) : At(r, i) \in Sources
  <2> TAKE i \in 0..Len(r)
  <2>1. i = 0 \/ i \in 1..Len(r)
    BY <1>1
  <2> QED
    BY <1>2, <1>3, <2>1
<1> QED
  BY <1>1, <1>2, <1>3, <1>4, <1>5

\* The edges of a route have a latency.
LEMMA EdgeIsNat ==
  ASSUME MatrixOK, NEW r, IsRoute(r), NEW i \in 1..Len(r)
  PROVE  Search!Edge(r, i) \in Nat
<1>1. r \in Seq(Nodes) /\ Search!Edge(r, i) # None
  BY DEF IsRoute
<1>2. At(r, i - 1) \in Sources /\ r[i] \in Nodes
  BY <1>1, AtFacts
<1>3. Matrix[At(r, i - 1)][r[i]] \in Nat \cup {None}
  BY <1>2 DEF MatrixOK
<1> QED
  BY <1>1, <1>3, AtFacts

\* There are such sums.
LEMMA SumExists ==
  ASSUME MatrixOK, NEW r, IsRoute(r)
  PROVE  \E f : IsSum(f, r, Len(r))
<1> DEFINE S == {k \in 0..Len(r) : \E f : IsSum(f, r, k)}
<1>1. Len(r) \in Nat
  BY AtFacts DEF IsRoute
<1>2. 0 \in S
  <2> DEFINE f == [i \in 0..0 |-> 0]
  <2>1. IsSum(f, r, 0)
    BY DEF IsSum
  <2>2. 0 \in 0..Len(r)
    BY <1>1
  <2> QED
    BY <2>1, <2>2
<1>3. ASSUME NEW k \in 1..Len(r), k - 1 \in S
      PROVE  k \in S
  <2>1. PICK f : IsSum(f, r, k - 1)
    BY <1>3
  <2> DEFINE d == Search!Edge(r, k)
             g == [i \in 0..k |-> IF i = k THEN f[k - 1] + d ELSE f[i]]
  <2>2. d \in Nat
    BY EdgeIsNat
  <2> HIDE DEF d
  <2>3. k \in Nat \ {0} /\ k \in 0..Len(r) /\ k - 1 \in 0..(k - 1)
    BY <1>1
  <2>4. \A i \in 0..k : i # k => i \in 0..(k - 1)
    BY <2>3
  <2>5. g \in [0..k -> Nat]
    BY <2>1, <2>2, <2>3, <2>4 DEF IsSum
  <2>6. g[0] = 0
    BY <2>1, <2>3 DEF IsSum
  <2>7. ASSUME NEW i \in 1..k
        PROVE  g[i] = g[i - 1] + Search!Edge(r, i)
    <3>1. i \in 0..k /\ i - 1 \in 0..k /\ i - 1 # k /\ i - 1 \in 0..(k - 1)
      BY <2>3
    <3>2. g[i - 1] = f[i - 1]
      BY <3>1
    <3>3. CASE i = k
      BY <3>1, <3>2, <3>3 DEF d
    <3>4. CASE i # k
      <4>1. i \in 1..(k - 1)
        BY <2>3, <3>4
      <4>2. f[i] = f[i - 1] + Search!Edge(r, i)
        BY <2>1, <4>1 DEF IsSum
      <4> QED
        BY <3>1, <3>2, <3>4, <4>2
    <3> QED
      BY <3>3, <3>4
  <2>8. IsSum(g, r, k)
    <3> HIDE DEF g
    <3> QED
      BY <2>5, <2>6, <2>7 DEF IsSum
  <2> QED
    BY <2>3, <2>8
<1>4. \A k \in 0..Len(r) : k \in S
  <2> HIDE DEF S
  <2> QED
    BY <1>1, <1>2, <1>3, InductionUpTo
<1> QED
  BY <1>1, <1>4

\* RouteCost is the number of hops and the last sum.
LEMMA RouteCostIs ==
  ASSUME MatrixOK, NEW r, IsRoute(r), NEW f, IsSum(f, r, Len(r))
  PROVE  Search!RouteCost(r) = [hops |-> Len(r), sum |-> f[Len(r)]]
<1> DEFINE sum[i \in 0..Len(r)] == IF i = 0 THEN 0 ELSE sum[i - 1] + Search!Edge(r, i)
           S == {i \in 0..Len(r) : sum[i] = f[i]}
<1>1. Search!RouteCost(r) = [hops |-> Len(r), sum |-> sum[Len(r)]]
  BY DEF Search!RouteCost
<1>2. Len(r) \in Nat
  BY AtFacts DEF IsRoute
<1>3. f = [i \in 0..Len(r) |-> IF i = 0 THEN 0 ELSE f[i - 1] + Search!Edge(r, i)]
  <2>1. \A i \in 0..Len(r) : i # 0 => i \in 1..Len(r)
    BY <1>2
  <2> QED
    BY <2>1 DEF IsSum
<1>4. sum = [i \in 0..Len(r) |-> IF i = 0 THEN 0 ELSE sum[i - 1] + Search!Edge(r, i)]
  BY <1>3
<1> HIDE DEF sum
<1>5. 0 \in S
  BY <1>2, <1>4 DEF IsSum
<1>6. ASSUME NEW i \in 1..Len(r), i - 1 \in S
      PROVE  i \in S
  <2>1. i \in 0..Len(r) /\ i # 0
    BY <1>2
  <2>2. sum[i] = sum[i - 1] + Search!Edge(r, i)
    BY <1>4, <2>1
  <2> QED
    BY <1>6, <2>1, <2>2 DEF IsSum
<1>7. \A i \in 0..Len(r) : i \in S
  <2> HIDE DEF S
  <2> QED
    BY <1>2, <1>5, <1>6, InductionUpTo
<1> QED
  BY <1>1, <1>2, <1>7

\* The cost of a route is a cost.
LEMMA RouteCostType ==
  ASSUME MatrixOK, NEW r, IsRoute(r)
  PROVE  Search!RouteCost(r) \in Search!Cost /\ Search!RouteCost(r).hops = Len(r)
<1>1. PICK f : IsSum(f, r, Len(r))
  BY SumExists
<1>2. Len(r) \in Nat /\ f[Len(r)] \in Nat
  BY <1>1, AtFacts DEF IsRoute, IsSum
<1> QED
  BY <1>1, <1>2, RouteCostIs DEF Search!Cost

\* The empty route costs nothing.
LEMMA EmptyRoute ==
  ASSUME MatrixOK
  PROVE  IsRoute(<<>>) /\ Search!RouteCost(<<>>) = Start /\ Len(<<>>) = 0
<1> DEFINE f == [i \in 0..0 |-> 0]
<1>1. IsRoute(<<>>) /\ Len(<<>>) = 0
  BY DEF IsRoute
<1>2. IsSum(f, <<>>, 0) /\ f[0] = 0
  BY DEF IsSum
<1> HIDE DEF f
<1> QED
  BY <1>1, <1>2, RouteCostIs DEF Start

\* What one more hop does to a route and its cost.
LEMMA OneHopMore ==
  ASSUME MatrixOK, NEW r, IsRoute(r), NEW n \in Nodes, Matrix[At(r, Len(r))][n] # None
  PROVE  /\ IsRoute(Append(r, n))
         /\ Len(Append(r, n)) = Len(r) + 1
         /\ Append(r, n)[Len(r) + 1] = n
         /\ \A i \in 1..Len(r) : Append(r, n)[i] = r[i]
         /\ \A i \in 0..Len(r) : At(Append(r, n), i) = At(r, i)
         /\ At(Append(r, n), Len(r) + 1) = n
         /\ Search!RouteCost(Append(r, n)) = Onward(Search!RouteCost(r), At(r, Len(r)), n)
<1> DEFINE q == Append(r, n)
           k == Len(r)
           d == Matrix[At(r, k)][n]
<1>1. r \in Seq(Nodes) /\ k \in Nat
  BY DEF IsRoute
<1>2. /\ q \in Seq(Nodes) /\ Len(q) = k + 1 /\ q[k + 1] = n
      /\ \A i \in 1..k : q[i] = r[i]
  BY <1>1
<1> HIDE DEF q
<1>3. /\ \A i \in 0..k : At(q, i) = At(r, i)
      /\ At(q, k + 1) = n
  BY <1>1, <1>2 DEF At
<1>4. \A i \in 1..k : Search!Edge(q, i) = Search!Edge(r, i)
  <2> TAKE i \in 1..k
  <2>1. i \in 1..Len(q) /\ i - 1 \in 0..k
    BY <1>1, <1>2
  <2>2. Search!Edge(q, i) = Matrix[At(q, i - 1)][q[i]]
    BY <1>2, <2>1, AtFacts
  <2>3. Search!Edge(r, i) = Matrix[At(r, i - 1)][r[i]]
    BY <1>1, AtFacts
  <2>4. At(q, i - 1) = At(r, i - 1) /\ q[i] = r[i]
    BY <1>2, <1>3, <2>1
  <2> QED
    BY <2>2, <2>3, <2>4
<1>5. Search!Edge(q, k + 1) = d
  <2>1. k + 1 \in 1..Len(q) /\ (k + 1) - 1 = k /\ k \in 0..k
    BY <1>1, <1>2
  <2>2. Search!Edge(q, k + 1) = Matrix[At(q, (k + 1) - 1)][q[k + 1]]
    BY <1>2, <2>1, AtFacts
  <2> QED
    BY <1>2, <1>3, <2>1, <2>2
<1>6. d \in Nat
  <2>1. At(r, k) \in Sources
    BY <1>1, AtFacts
  <2> QED
    BY <2>1 DEF MatrixOK
<1> HIDE DEF d
<1>7. \A i \in 1..Len(q) : i \in 1..k \/ i = k + 1
  BY <1>1, <1>2
<1>8. IsRoute(q)
  <2>1. d # None
    BY DEF d
  <2> QED
    BY <1>2, <1>4, <1>5, <1>7, <2>1 DEF IsRoute
<1>9. PICK f : IsSum(f, r, k)
  BY SumExists
<1> DEFINE g == [i \in 0..(k + 1) |-> IF i = k + 1 THEN f[k] + d ELSE f[i]]
<1>10. f[k] \in Nat /\ \A i \in 0..k : f[i] \in Nat
  BY <1>1, <1>9 DEF IsSum
<1>11. IsSum(g, q, k + 1)
  <2>1. \A i \in 0..(k + 1) : i # k + 1 => i \in 0..k
    BY <1>1
  <2>2. g \in [0..(k + 1) -> Nat] /\ g[0] = 0
    BY <1>1, <1>6, <1>9, <1>10, <2>1 DEF IsSum
  <2>3. ASSUME NEW i \in 1..(k + 1)
        PROVE  g[i] = g[i - 1] + Search!Edge(q, i)
    <3>1. i \in 0..(k + 1) /\ i - 1 \in 0..(k + 1) /\ i - 1 # k + 1
      BY <1>1
    <3>2. g[i - 1] = f[i - 1]
      BY <3>1
    <3>3. CASE i = k + 1
      <4>1. i - 1 = k /\ g[i] = f[k] + d
        BY <1>1, <3>1, <3>3
      <4> QED
        BY <1>5, <3>2, <3>3, <4>1
    <3>4. CASE i # k + 1
      <4>1. i \in 1..k
        BY <1>1, <3>4
      <4> QED
        BY <1>4, <1>9, <3>1, <3>2, <3>4, <4>1 DEF IsSum
    <3> QED
      BY <3>3, <3>4
  <2> HIDE DEF g
  <2> QED
    BY <2>2, <2>3 DEF IsSum
<1>12. g[k + 1] = f[k] + d
  BY <1>1
<1> HIDE DEF g
<1>13. Search!RouteCost(q) = [hops |-> k + 1, sum |-> f[k] + d]
  BY <1>2, <1>8, <1>11, <1>12, RouteCostIs
<1>14. Search!RouteCost(r) = [hops |-> k, sum |-> f[k]]
  BY <1>9, RouteCostIs
<1>15. Search!RouteCost(q) = Onward(Search!RouteCost(r), At(r, k), n)
  BY <1>13, <1>14 DEF Onward, d
<1> QED
  BY <1>2, <1>3, <1>8, <1>15 DEF q

---------------------------------------------------------------------------
(* The search.                                                             *)

\* Costs are ordered by hops, then by latency.
LEMMA CostOrder ==
  ASSUME NEW c \in Search!Cost, NEW d \in Search!Cost
  PROVE  /\ ~Search!Less(c, c)
         /\ Search!Less(c, d) => c.hops <= d.hops /\ ~Search!Less(d, c)
         /\ ~Search!Less(d, c) => c.hops <= d.hops
         /\ \A e \in Search!Cost : ~Search!Less(d, c) /\ Search!Less(d, e) => Search!Less(c, e)
         /\ \A e \in Search!Cost : ~Search!Less(d, c) /\ ~Search!Less(e, d) => ~Search!Less(e, c)
BY DEF Search!Cost, Search!Less

\* Going on from a lower cost is no dearer.
LEMMA OnwardOrder ==
  ASSUME NEW c \in Search!Cost, NEW m, NEW n, Matrix[m][n] \in Nat
  PROVE  /\ Onward(c, m, n) \in Search!Cost
         /\ Onward(c, m, n).hops = c.hops + 1
         /\ \A d \in Search!Cost :
              ~Search!Less(d, c) => ~Search!Less(Onward(d, m, n), Onward(c, m, n))
<1> DEFINE l == Matrix[m][n]
<1> HIDE DEF l
<1>1. l \in Nat /\ \A d : Onward(d, m, n) = [hops |-> d.hops + 1, sum |-> d.sum + l]
  BY DEF Onward, l
<1>2. ASSUME NEW d \in Search!Cost
      PROVE  /\ [hops |-> d.hops + 1, sum |-> d.sum + l] \in Search!Cost
             /\ [hops |-> d.hops + 1, sum |-> d.sum + l].hops = d.hops + 1
             /\ [hops |-> d.hops + 1, sum |-> d.sum + l].sum = d.sum + l
  BY <1>1 DEF Search!Cost
<1>3. ASSUME NEW d \in Search!Cost, ~Search!Less(d, c)
      PROVE  ~Search!Less(Onward(d, m, n), Onward(c, m, n))
  <2>1. /\ c.hops \in Nat /\ c.sum \in Nat /\ d.hops \in Nat /\ d.sum \in Nat
    BY DEF Search!Cost
  <2> QED
    BY <1>1, <1>2, <1>3, <2>1 DEF Search!Less
<1> QED
  BY <1>1, <1>2, <1>3

\* A matrix that the search has not looked at keeps nothing from it.
LEMMA FreshSearch ==
  (SearchTypeOK /\ MatrixOK /\ Fresh) => SearchInv
<1> SUFFICES ASSUME SearchTypeOK, MatrixOK, Fresh PROVE SearchInv
  OBVIOUS
<1> DEFINE start == [cost |-> Start, node |-> Local, path |-> <<>>]
<1>1. heap = {start} /\ path = None /\ ~done
  BY DEF Fresh
<1>2. \A m \in Sources : best[m] = IF m = Local THEN Start ELSE None
  BY DEF Fresh
<1>3. Local \in Sources
  BY DEF Sources
<1>4. start.cost = Start /\ start.node = Local /\ start.path = <<>>
  OBVIOUS
<1> HIDE DEF start
<1>5. Start # None
  BY NoneAssumption DEF Start
<1>6. Settled
  <2>1. Waiting(Local)
    BY <1>1, <1>2, <1>3, <1>4 DEF Waiting
  <2> QED
    BY <1>2, <2>1 DEF Settled
<1>7. EntryOK(start)
  <2>1. At(<<>>, 0) = Local
    BY DEF At
  <2>2. \A i \in 0..0 : i = 0
    OBVIOUS
  <2>3. best[Local].hops <= 0
    BY <1>2, <1>3 DEF Start
  <2> QED
    BY <1>2, <1>3, <1>4, <1>5, <2>1, <2>2, <2>3, EmptyRoute DEF EntryOK
<1> QED
  BY <1>1, <1>2, <1>3, <1>6, <1>7 DEF SearchInv, Fresh

\* The cheapest entry for the target is no dearer than any route to it.
LEMMA LowestIsBest ==
  ASSUME SearchTypeOK, MatrixOK, Settled, best[Local] = Start,
         NEW e \in heap, Search!Lowest(e), e.node = Target, EntryOK(e),
         NEW r, IsRoute(r), At(r, Len(r)) = Target
  PROVE  ~Search!Less(Search!RouteCost(r), e.cost)
<1> SUFFICES ASSUME Search!Less(Search!RouteCost(r), e.cost) PROVE FALSE
  OBVIOUS
<1> DEFINE k == Len(r)
<1>1. r \in Seq(Nodes) /\ k \in Nat
  BY DEF IsRoute
<1>2. PICK f : IsSum(f, r, k)
  BY SumExists
<1>3. Search!RouteCost(r) = [hops |-> k, sum |-> f[k]] /\ \A i \in 0..k : f[i] \in Nat
  BY <1>2, RouteCostIs DEF IsSum
<1> DEFINE Prefix(i) == [hops |-> i, sum |-> f[i]]
           S == {i \in 0..k : /\ best[At(r, i)] \in Search!Cost
                              /\ ~Search!Less(Prefix(i), best[At(r, i)])}
<1>4. \A i \in 0..k : Prefix(i) \in Search!Cost
  BY <1>1, <1>3 DEF Search!Cost
<1>5. e.cost \in Search!Cost
  BY DEF SearchTypeOK, Entry
<1>6. \A m \in Sources : best[m] \in Search!Cost /\ Search!Less(best[m], e.cost) => ~Waiting(m)
  BY DEF Waiting, Search!Lowest
<1>7. 0 \in S
  <2>1. At(r, 0) = Local /\ 0 \in 0..k
    BY <1>1, AtFacts
  <2>2. Prefix(0) = Start
    BY <1>2 DEF IsSum, Start
  <2>3. Start \in Search!Cost
    BY DEF Start, Search!Cost
  <2> QED
    BY <2>1, <2>2, <2>3, CostOrder
<1>8. ASSUME NEW i \in 1..k, i - 1 \in S
      PROVE  i \in S
  <2> DEFINE m == At(r, i - 1)
             n == r[i]
  <2>1. /\ m \in Sources /\ n \in Nodes /\ At(r, i) = n /\ i \in 0..k /\ i - 1 \in 0..k
        /\ Search!Edge(r, i) = Matrix[m][n]
    BY <1>1, AtFacts
  <2>2. Matrix[m][n] \in Nat /\ Matrix[m][n] # None
    BY <2>1, EdgeIsNat, NoneAssumption
  <2>3. best[m] \in Search!Cost /\ ~Search!Less(Prefix(i - 1), best[m])
    BY <1>8
  <2>4. Onward(Prefix(i - 1), m, n) = Prefix(i)
    <3>1. f[i] = f[i - 1] + Matrix[m][n] /\ (i - 1) + 1 = i
      BY <1>1, <1>2, <2>1 DEF IsSum
    <3> QED
      BY <3>1 DEF Onward
  <2>5. Search!Less(Prefix(i - 1), Search!RouteCost(r))
    BY <1>1, <1>3 DEF Search!Less
  <2> HIDE DEF m, n, Prefix
  <2>6. Prefix(i - 1) \in Search!Cost /\ Prefix(i) \in Search!Cost
    BY <1>4, <2>1
  <2>7. Search!RouteCost(r) \in Search!Cost
    BY RouteCostType
  <2>8. Search!Less(best[m], e.cost)
    <3>1. Search!Less(best[m], Search!RouteCost(r))
      BY <2>3, <2>5, <2>6, <2>7, CostOrder
    <3>2. ~Search!Less(Search!RouteCost(r), best[m])
      BY <2>3, <2>7, <3>1, CostOrder
    <3> QED
      BY <1>5, <2>3, <2>7, <3>2, CostOrder
  <2>9. best[m] # None
    BY <2>3, NoneAssumption DEF Search!Cost
  <2>10. Expanded(m)
    BY <1>6, <2>1, <2>3, <2>8, <2>9 DEF Settled
  <2>11. best[n] # None /\ ~Search!Less(Onward(best[m], m, n), best[n])
    BY <2>1, <2>2, <2>10 DEF Expanded
  <2>12. best[n] \in Search!Cost
    BY <2>1, <2>11 DEF SearchTypeOK, Sources
  <2>13. ~Search!Less(Onward(Prefix(i - 1), m, n), Onward(best[m], m, n))
    BY <2>2, <2>3, <2>6, OnwardOrder
  <2>14. Onward(best[m], m, n) \in Search!Cost
    BY <2>2, <2>3, OnwardOrder
  <2>15. ~Search!Less(Prefix(i), best[n])
    BY <2>4, <2>6, <2>11, <2>12, <2>13, <2>14, CostOrder
  <2> QED
    BY <2>1, <2>12, <2>15
<1>9. \A i \in 0..k : i \in S
  <2> HIDE DEF S
  <2> QED
    BY <1>1, <1>7, <1>8, InductionUpTo
<1>10. best[Target] \in Search!Cost /\ ~Search!Less(Search!RouteCost(r), best[Target])
  <2>1. k \in S
    BY <1>1, <1>9
  <2> QED
    BY <1>3, <2>1
<1>11. Search!Less(best[Target], e.cost)
  BY <1>5, <1>10, RouteCostType, CostOrder
<1>12. Target \in Sources /\ best[Target] # None
  BY <1>10, TopologyAssumption, NoneAssumption DEF Sources, Search!Cost
<1> QED
  BY <1>6, <1>10, <1>11, <1>12 DEF Settled

\* When the heap is empty, a chain of known edges never leads to the target.
LEMMA NothingLeft ==
  ASSUME SearchTypeOK, MatrixOK, Settled, best[Local] = Start, heap = {},
         NEW r \in Seq(Nodes),
         \A i \in 1..Len(r) : At(r, i - 1) = r[i] \/ Matrix[At(r, i - 1)][r[i]] # None
  PROVE  At(r, Len(r)) # Target
<1> DEFINE S == {i \in 0..Len(r) : best[At(r, i)] # None}
<1>1. Len(r) \in Nat
  BY AtFacts
<1>2. 0 \in S
  BY <1>1, AtFacts, NoneAssumption DEF Start
<1>3. ASSUME NEW i \in 1..Len(r), i - 1 \in S
      PROVE  i \in S
  <2> DEFINE m == At(r, i - 1)
  <2>1. m \in Sources /\ r[i] \in Nodes /\ At(r, i) = r[i] /\ i \in 0..Len(r)
    BY AtFacts
  <2>2. m = r[i] \/ Matrix[m][r[i]] # None
    OBVIOUS
  <2>3. best[m] # None
    BY <1>3
  <2> HIDE DEF m
  <2>4. Expanded(m)
    BY <2>1, <2>3 DEF Settled, Waiting
  <2> QED
    BY <2>1, <2>2, <2>3, <2>4 DEF Expanded
<1>4. \A i \in 0..Len(r) : i \in S
  <2> HIDE DEF S
  <2> QED
    BY <1>1, <1>2, <1>3, InductionUpTo
<1>5. best[At(r, Len(r))] # None /\ At(r, Len(r)) \in Sources
  BY <1>1, <1>4, AtFacts
<1> QED
  BY <1>5 DEF Settled, Waiting

\* FindPath counts the nodes with the same operator.
LEMMA SameCardinality == \A S : Search!Cardinality(S) = Cardinality(S)
BY DEF Search!Cardinality, Cardinality, Search!IsFiniteSet, IsFiniteSet

\* What the members of Routes are.
LEMMA RoutesFacts ==
  ASSUME NEW n, NEW r \in Search!Routes(n)
  PROVE  IsRoute(r) /\ Len(r) \in Nat \ {0} /\ At(r, Len(r)) = n /\ r[Len(r)] = n
<1> DEFINE F == {[1..k -> Nodes] : k \in 1..Cardinality(Nodes)}
<1>0. r \in UNION F /\ r[Len(r)] = n /\ \A i \in 1..Len(r) : Search!Edge(r, i) # None
  BY SameCardinality DEF Search!Routes
<1>1. PICK k \in 1..Cardinality(Nodes) : r \in [1..k -> Nodes]
  BY <1>0
<1> HIDE DEF F
<1>2. k \in Nat \ {0}
  BY <1>1, NodesFinite
<1>3. r \in Seq(Nodes) /\ Len(r) = k
  BY <1>1, <1>2
<1> QED
  BY <1>0, <1>2, <1>3 DEF IsRoute, At

\* A route without detours has no more hops than there are nodes.
LEMMA RouteInRoutes ==
  ASSUME NEW r, IsRoute(r), NEW n \in Nodes, At(r, Len(r)) = n,
         \A i, j \in 1..Len(r) : r[i] = r[j] => i = j
  PROVE  r \in Search!Routes(n)
<1> DEFINE k == Len(r)
<1>1. r \in Seq(Nodes) /\ k \in Nat
  BY DEF IsRoute
<1>2. k # 0 /\ r[k] = n
  BY <1>1, AtFacts DEF At
<1>3. r \in [1..k -> Nodes]
  BY <1>1
<1>4. k <= Cardinality(Nodes)
  <2> DEFINE D == 1..k
  <2>1. IsFiniteSet(D) /\ Cardinality(D) = k
    BY <1>1, <1>2, FS_Interval
  <2>2. \A i, j \in D : r[i] = r[j] => i = j
    OBVIOUS
  <2>3. r \in [D -> Nodes]
    BY <1>3
  <2> HIDE DEF D
  <2>4. ~(Cardinality(Nodes) < Cardinality(D))
    BY <2>1, <2>2, <2>3, NodesFinite, FS_PigeonHole
  <2> QED
    BY <1>1, <2>1, <2>4, NodesFinite
<1>5. k \in 1..Cardinality(Nodes)
  BY <1>1, <1>2, <1>4, NodesFinite
<1>6. \A i \in 1..Len(r) : Search!Edge(r, i) # None
  BY DEF IsRoute
<1>7. r \in UNION {[1..j -> Nodes] : j \in 1..Cardinality(Nodes)}
  BY <1>3, <1>5
<1> QED
  BY <1>2, <1>6, <1>7, SameCardinality DEF Search!Routes

\* The cost of route r over matrix M.
CostOver(M, r) ==
  LET sum[i \in 0..Len(r)] ==
        IF i = 0 THEN 0 ELSE sum[i - 1] + M[IF i = 1 THEN Local ELSE r[i - 1]][r[i]]
  IN [hops |-> Len(r), sum |-> sum[Len(r)]]

\* Edges, routes and costs stay while the matrix stays.
LEMMA SameMatrix ==
  ASSUME Matrix' = Matrix
  PROVE  /\ MatrixOK => MatrixOK'
         /\ \A r, i : Search!Edge(r, i)' = Search!Edge(r, i)
         /\ \A r : IsRoute(r)' = IsRoute(r)
         /\ \A r : Search!RouteCost(r)' = Search!RouteCost(r)
         /\ Search!Routes(Target)' = Search!Routes(Target)
         /\ \A c, m, n : Onward(c, m, n)' = Onward(c, m, n)
<1>1. MatrixOK => MatrixOK'
  BY DEF MatrixOK
<1>2. \A r, i : Search!Edge(r, i)' = Search!Edge(r, i)
  BY DEF Search!Edge
<1>3. \A r : IsRoute(r)' = IsRoute(r)
  BY <1>2 DEF IsRoute
<1>4. \A r : Search!RouteCost(r) = CostOver(Matrix, r)
  BY DEF Search!RouteCost, Search!Edge, CostOver
<1>5. \A r : Search!RouteCost(r)' = CostOver(Matrix', r)
  BY DEF Search!RouteCost, Search!Edge, CostOver
<1>6. Search!Routes(Target)' = Search!Routes(Target)
  BY <1>2 DEF Search!Routes
<1>7. \A c, m, n : Onward(c, m, n)' = Onward(c, m, n)
  BY DEF Onward
<1> QED
  BY <1>1, <1>2, <1>3, <1>4, <1>5, <1>6, <1>7

\* What expanding entry e does to the costs: they only become lower, and those of
\* the neighbours are no higher than through e.
LEMMA RelaxCosts ==
  ASSUME SearchTypeOK, MatrixOK, NEW e \in heap, EntryOK(e), Search!Relax(e)
  PROVE  /\ e.cost \in Search!Cost /\ e.node \in Sources /\ e.node \notin Search!Better(e)
         /\ \A n \in Search!Better(e) :
              /\ n \in Nodes /\ Matrix[e.node][n] \in Nat /\ Matrix[e.node][n] # None
              /\ Search!Through(e, n) = Onward(e.cost, e.node, n)
              /\ Search!Through(e, n) \in Search!Cost
              /\ Search!Through(e, n).hops = e.cost.hops + 1
              /\ best'[n] = Search!Through(e, n)
              /\ best[n] # None => Search!Less(best'[n], best[n])
         /\ \A m \in Sources : m \notin Search!Better(e) => best'[m] = best[m]
         /\ \A n \in Nodes : Matrix[e.node][n] # None =>
              best'[n] # None /\ ~Search!Less(Onward(e.cost, e.node, n), best'[n])
<1> DEFINE B == Search!Better(e)
<1>1. e.cost \in Search!Cost /\ e.node \in Sources
  BY DEF SearchTypeOK, Entry
<1>2. best' = [n \in Sources |-> IF n \in B THEN Search!Through(e, n) ELSE best[n]]
  BY DEF Search!Relax, Search!Sources, Sources
<1>3. B = {n \in Nodes : Matrix[e.node][n] # None
             /\ (best[n] = None \/ Search!Less(Search!Through(e, n), best[n]))}
  BY DEF Search!Better
<1>4. \A n : Search!Through(e, n) = Onward(e.cost, e.node, n)
  BY DEF Search!Through, Onward
<1> HIDE DEF B
<1>5. e.node \notin B
  BY <1>3 DEF MatrixOK
<1>6. \A n \in B : /\ n \in Nodes /\ n \in Sources
                   /\ Matrix[e.node][n] \in Nat /\ Matrix[e.node][n] # None
  BY <1>1, <1>3 DEF MatrixOK, Sources
<1>7. \A n \in B : /\ Search!Through(e, n) \in Search!Cost
                   /\ Search!Through(e, n).hops = e.cost.hops + 1
  BY <1>1, <1>4, <1>6, OnwardOrder
<1>8. \A n \in B : best'[n] = Search!Through(e, n)
                   /\ (best[n] # None => Search!Less(best'[n], best[n]))
  BY <1>2, <1>3, <1>6
<1>9. \A m \in Sources : m \notin B => best'[m] = best[m]
  BY <1>2
<1>10. ASSUME NEW n \in Nodes, Matrix[e.node][n] # None
       PROVE  best'[n] # None /\ ~Search!Less(Onward(e.cost, e.node, n), best'[n])
  <2>1. CASE n \in B
    BY <1>4, <1>7, <1>8, <2>1, CostOrder, NoneAssumption DEF Search!Cost
  <2>2. CASE n \notin B
    <3>1. best[n] # None /\ ~Search!Less(Onward(e.cost, e.node, n), best[n])
      BY <1>3, <1>4, <1>10, <2>2
    <3> QED
      BY <1>9, <2>2, <3>1 DEF Sources
  <2> QED
    BY <2>1, <2>2
<1> QED
  BY <1>1, <1>4, <1>5, <1>6, <1>7, <1>8, <1>9, <1>10 DEF B

\* Costs only become lower.
LEMMA RelaxLowers ==
  ASSUME SearchTypeOK, MatrixOK, NEW e \in heap, EntryOK(e), Search!Relax(e),
         NEW m \in Sources, best[m] # None
  PROVE  /\ best[m] \in Search!Cost /\ best'[m] \in Search!Cost /\ best'[m] # None
         /\ ~Search!Less(best[m], best'[m]) /\ best'[m].hops <= best[m].hops
<1>1. best[m] \in Search!Cost
  BY DEF SearchTypeOK
<1>2. best'[m] \in Search!Cost /\ ~Search!Less(best[m], best'[m])
  <2>1. CASE m \in Search!Better(e)
    BY <1>1, <2>1, RelaxCosts, CostOrder
  <2>2. CASE m \notin Search!Better(e)
    BY <1>1, <2>2, RelaxCosts, CostOrder
  <2> QED
    BY <2>1, <2>2
<1>3. best'[m] # None
  BY <1>2, NoneAssumption DEF Search!Cost
<1> QED
  BY <1>1, <1>2, <1>3, CostOrder

\* The heap after entry e was expanded.
LEMMA RelaxHeap ==
  ASSUME NEW e \in heap, Search!Relax(e)
  PROVE  \A g : g \in heap' <=>
           \/ g \in heap /\ g # e
           \/ \E n \in Search!Better(e) :
                g = [cost |-> Search!Through(e, n), node |-> n, path |-> Append(e.path, n)]
BY DEF Search!Relax

\* An entry that stays on the heap stays right.
LEMMA RelaxOldEntry ==
  ASSUME SearchTypeOK, MatrixOK, NEW e \in heap, EntryOK(e), Search!Relax(e), Matrix' = Matrix,
         NEW g \in heap, EntryOK(g)
  PROVE  EntryOK(g)'
<1>1. IsRoute(g.path)' /\ g.cost = Search!RouteCost(g.path)'
  BY SameMatrix DEF EntryOK
<1>2. ASSUME NEW i \in 0..Len(g.path)
      PROVE  best'[At(g.path, i)] # None /\ best'[At(g.path, i)].hops <= i
  <2>1. At(g.path, i) \in Sources
    BY AtFacts DEF EntryOK, IsRoute
  <2>2. best[At(g.path, i)] # None /\ best[At(g.path, i)].hops <= i
    BY DEF EntryOK
  <2>3. /\ best'[At(g.path, i)] # None /\ best'[At(g.path, i)].hops <= best[At(g.path, i)].hops
        /\ best'[At(g.path, i)] \in Search!Cost /\ best[At(g.path, i)] \in Search!Cost
    BY <2>1, <2>2, RelaxLowers
  <2>4. best'[At(g.path, i)].hops \in Nat /\ best[At(g.path, i)].hops \in Nat /\ i \in Nat
    BY <2>3 DEF Search!Cost
  <2> QED
    BY <2>2, <2>3, <2>4
<1> QED
  BY <1>1, <1>2 DEF EntryOK, At

\* A new entry is one hop longer and does not return to a node on its way.
LEMMA RelaxNewEntry ==
  ASSUME SearchTypeOK, MatrixOK, NEW e \in heap, EntryOK(e), Search!Relax(e), Matrix' = Matrix,
         NEW n \in Search!Better(e), NEW g,
         g = [cost |-> Search!Through(e, n), node |-> n, path |-> Append(e.path, n)]
  PROVE  g \in Entry /\ EntryOK(g)'
<1> DEFINE p == e.path
           q == Append(p, n)
           k == Len(p)
<1>1. IsRoute(p) /\ p \in Seq(Nodes) /\ k \in Nat /\ e.node = At(p, k)
  BY DEF EntryOK, IsRoute
<1>2. e.cost = Search!RouteCost(p) /\ e.cost.hops = k
  BY <1>1, RouteCostType DEF EntryOK
<1>3. /\ n \in Nodes /\ Matrix[e.node][n] # None
      /\ Search!Through(e, n) = Onward(e.cost, e.node, n)
      /\ Search!Through(e, n) \in Search!Cost
      /\ Search!Through(e, n).hops = k + 1
      /\ best'[n] = Search!Through(e, n)
      /\ best[n] # None => Search!Less(best'[n], best[n])
  BY <1>2, RelaxCosts
<1>4. /\ IsRoute(q) /\ Len(q) = k + 1 /\ q[k + 1] = n
      /\ \A i \in 1..k : q[i] = p[i]
      /\ \A i \in 0..k : At(q, i) = At(p, i)
      /\ At(q, k + 1) = n
      /\ Search!RouteCost(q) = Onward(Search!RouteCost(p), At(p, k), n)
  BY <1>1, <1>3, OneHopMore
<1>5. g.path = q /\ g.node = n /\ g.cost = Search!Through(e, n)
  OBVIOUS
<1> HIDE DEF q
<1>6. g \in Entry
  <2>1. q \in Seq(Nodes) /\ n \in Sources
    BY <1>3, <1>4 DEF IsRoute, Sources
  <2>2. g = [cost |-> Search!Through(e, n), node |-> n, path |-> q]
    BY DEF q
  <2>3. Search!Through(e, n) \in Search!Cost
    BY <1>3
  <2> QED
    BY ONLY <2>1, <2>2, <2>3 DEF Entry
<1>7. IsRoute(g.path)' /\ g.cost = Search!RouteCost(g.path)'
  BY <1>1, <1>2, <1>3, <1>4, <1>5, SameMatrix
<1>8. \A i \in 1..k : p[i] # n
  <2> SUFFICES ASSUME NEW i \in 1..k, p[i] = n PROVE FALSE
    OBVIOUS
  <2>1. i \in 0..k /\ At(p, i) = n
    BY <1>1, AtFacts
  <2>2. best[n] # None /\ best[n].hops <= i
    BY <2>1 DEF EntryOK
  <2>3. Search!Less(best'[n], best[n]) /\ best'[n].hops = k + 1
    BY <1>3, <2>2
  <2>4. best[n].hops \in Nat
    BY <1>3, <2>2 DEF SearchTypeOK, Sources, Search!Cost
  <2> QED
    BY <1>1, <2>1, <2>2, <2>3, <2>4 DEF Search!Less
<1>9. \A i, j \in 1..Len(q) : q[i] = q[j] => i = j
  <2>1. \A i \in 1..Len(q) : i \in 1..k \/ i = k + 1
    BY <1>1, <1>4
  <2>2. \A i, j \in 1..k : p[i] = p[j] => i = j
    BY DEF EntryOK
  <2> QED
    BY <1>4, <1>8, <2>1, <2>2
<1>10. ASSUME NEW i \in 0..Len(q)
       PROVE  best'[At(q, i)] # None /\ best'[At(q, i)].hops <= i
  <2>1. CASE i = k + 1
    BY <1>1, <1>3, <1>4, <2>1, NoneAssumption DEF Search!Cost
  <2>2. CASE i # k + 1
    <3>1. i \in 0..k
      BY <1>1, <1>4, <2>2
    <3>2. best'[At(p, i)] # None /\ best'[At(p, i)].hops <= i
      <4>1. EntryOK(e)'
        BY RelaxOldEntry
      <4> QED
        BY <3>1, <4>1 DEF EntryOK, At
    <3> QED
      BY <1>4, <3>1, <3>2
  <2> QED
    BY <2>1, <2>2
<1>11. g.node = At(g.path, Len(g.path))
  BY <1>4, <1>5
<1>12. \A i, j \in 1..Len(g.path) : g.path[i] = g.path[j] => i = j
  BY <1>5, <1>9
<1>13. \A i \in 0..Len(g.path) : best'[At(g.path, i)] # None /\ best'[At(g.path, i)].hops <= i
  BY <1>5, <1>10
<1> QED
  BY ONLY <1>6, <1>7, <1>11, <1>12, <1>13 DEF EntryOK, At

\* A node that was found still waits, or has been expanded.
LEMMA RelaxSettled ==
  ASSUME SearchTypeOK, MatrixOK, Settled, NEW e \in heap, EntryOK(e), Search!Relax(e),
         Matrix' = Matrix
  PROVE  Settled'
<1> SUFFICES ASSUME NEW m \in Sources, best'[m] # None
             PROVE  Waiting(m)' \/ (m # Target /\ Expanded(m)')
  BY DEF Settled, Sources
<1>1. CASE m \in Search!Better(e)
  <2> DEFINE g == [cost |-> Search!Through(e, m), node |-> m, path |-> Append(e.path, m)]
  <2>1. g \in heap' /\ g.node = m /\ g.cost = best'[m]
    BY <1>1, RelaxHeap, RelaxCosts
  <2> HIDE DEF g
  <2> QED
    BY <2>1 DEF Waiting
<1>2. CASE m \notin Search!Better(e)
  <2>1. best'[m] = best[m] /\ best[m] # None
    BY <1>2, RelaxCosts
  <2>2. CASE \E g \in heap : g # e /\ g.node = m /\ g.cost = best[m]
    BY <2>1, <2>2, RelaxHeap DEF Waiting
  <2>3. CASE e.node = m /\ e.cost = best[m]
    <3>1. m # Target
      BY <2>3 DEF Search!Relax
    <3>2. \A n \in Nodes : Matrix[m][n] # None =>
            best'[n] # None /\ ~Search!Less(Onward(best[m], m, n), best'[n])
      BY <2>3, RelaxCosts
    <3> QED
      BY <2>1, <3>1, <3>2, SameMatrix DEF Expanded
  <2>4. CASE m # Target /\ Expanded(m)
    <3>1. ASSUME NEW n \in Nodes, Matrix[m][n] # None
          PROVE  best'[n] # None /\ ~Search!Less(Onward(best[m], m, n), best'[n])
      <4>1. best[n] # None /\ ~Search!Less(Onward(best[m], m, n), best[n])
        BY <2>4, <3>1 DEF Expanded
      <4>2. /\ best[n] \in Search!Cost /\ best'[n] \in Search!Cost /\ best'[n] # None
            /\ ~Search!Less(best[n], best'[n])
        BY <4>1, RelaxLowers DEF Sources
      <4>3. best[m] \in Search!Cost /\ Matrix[m][n] \in Nat
        BY <2>1, <3>1 DEF SearchTypeOK, MatrixOK
      <4>4. Onward(best[m], m, n) \in Search!Cost
        BY <4>3, OnwardOrder
      <4> QED
        BY <4>1, <4>2, <4>4, CostOrder
    <3> QED
      BY <2>1, <2>4, <3>1, SameMatrix DEF Expanded
  <2> QED
    BY <2>1, <2>2, <2>3, <2>4 DEF Settled, Waiting
<1> QED
  BY <1>1, <1>2

---------------------------------------------------------------------------
(* The steps of the search.                                                *)

\* An entry is expanded.
LEMMA SearchRelax ==
  ASSUME SearchTypeOK, MatrixOK, SearchInv, cached, cached', Matrix' = Matrix,
         NEW e \in heap, Search!Relax(e)
  PROVE  SearchTypeOK' /\ SearchInv'
<1>1. ~done /\ path = None /\ Settled /\ best[Local] = Start /\ \A g \in heap : EntryOK(g)
  BY DEF SearchInv, Search!Relax
<1>2. done' = done /\ path' = path
  BY DEF Search!Relax
<1>3. EntryOK(e)
  BY <1>1
<1>4. ASSUME NEW g \in heap'
      PROVE  g \in Entry /\ EntryOK(g)'
  <2>1. CASE g \in heap
    BY <1>1, <1>3, <2>1, RelaxOldEntry DEF SearchTypeOK
  <2>2. CASE g \notin heap
    <3>1. PICK n \in Search!Better(e) :
            g = [cost |-> Search!Through(e, n), node |-> n, path |-> Append(e.path, n)]
      BY <2>2, RelaxHeap
    <3> QED
      BY <1>3, <3>1, RelaxNewEntry
  <2> QED
    BY <2>1, <2>2
<1>5. best' \in [Sources -> Search!Cost \cup {None}]
  <2>1. best' = [n \in Sources |-> IF n \in Search!Better(e) THEN Search!Through(e, n) ELSE best[n]]
    BY DEF Search!Relax, Search!Sources, Sources
  <2>2. \A n \in Search!Better(e) : Search!Through(e, n) \in Search!Cost
    BY <1>3, RelaxCosts
  <2> QED
    BY <2>1, <2>2 DEF SearchTypeOK
<1>6. best'[Local] = Start
  <2>1. Local \notin Search!Better(e) /\ Local \in Sources
    BY TopologyAssumption DEF Search!Better, Sources
  <2> QED
    BY <1>1, <1>3, <2>1, RelaxCosts
<1>7. Settled'
  BY <1>1, <1>3, RelaxSettled
<1>8. SearchTypeOK'
  BY <1>2, <1>4, <1>5 DEF SearchTypeOK, Entry, Search!Cost, Sources
<1> QED
  BY <1>1, <1>2, <1>4, <1>6, <1>7, <1>8 DEF SearchInv, Start

\* The target is taken off the heap: its entry is a route, and none is cheaper.
LEMMA SearchFound ==
  ASSUME SearchTypeOK, MatrixOK, SearchInv, cached, cached', Matrix' = Matrix,
         NEW e \in heap, Search!Found(e)
  PROVE  SearchTypeOK' /\ SearchInv'
<1>1. ~done /\ Settled /\ best[Local] = Start /\ \A g \in heap : EntryOK(g)
  BY DEF SearchInv, Search!Found
<1>2. /\ done' = TRUE /\ path' = e.path /\ best' = best /\ heap' \subseteq heap
      /\ Search!Lowest(e) /\ e.node = Target
  BY DEF Search!Found
<1>3. /\ EntryOK(e) /\ IsRoute(e.path) /\ At(e.path, Len(e.path)) = Target
      /\ e.cost = Search!RouteCost(e.path)
      /\ \A i, j \in 1..Len(e.path) : e.path[i] = e.path[j] => i = j
  BY <1>1, <1>2 DEF EntryOK
<1>4. e.path \in Search!Routes(Target)
  BY <1>3, RouteInRoutes, TopologyAssumption
<1>5. ASSUME NEW r \in Search!Routes(Target)
      PROVE  ~Search!Less(Search!RouteCost(r), Search!RouteCost(e.path))
  <2>1. IsRoute(r) /\ At(r, Len(r)) = Target
    BY RoutesFacts
  <2> QED
    BY <1>1, <1>2, <1>3, <2>1, LowestIsBest
<1>6. e.path \in Seq(Nodes) /\ e.path # None
  BY <1>3, NoneAssumption DEF IsRoute
<1>7. ResultOK'
  <2>1. /\ Search!Routes(Target)' = Search!Routes(Target)
        /\ \A r : Search!RouteCost(r)' = Search!RouteCost(r)
    BY SameMatrix
  <2> QED
    BY <1>2, <1>4, <1>5, <2>1 DEF ResultOK
<1>8. SearchTypeOK'
  BY <1>2, <1>6 DEF SearchTypeOK, Entry, Search!Cost, Sources
<1>9. ASSUME NEW g \in heap'
      PROVE  EntryOK(g)'
  BY <1>1, <1>2, SameMatrix DEF EntryOK, At
<1> QED
  BY <1>1, <1>2, <1>6, <1>7, <1>8, <1>9 DEF SearchInv, Start

\* The heap is empty and the target was not found.
LEMMA SearchNoPath ==
  ASSUME SearchTypeOK, MatrixOK, SearchInv, cached, cached', Matrix' = Matrix, Search!NoPath
  PROVE  SearchTypeOK' /\ SearchInv'
<1>1. ~done /\ heap = {} /\ done' = TRUE /\ heap' = heap /\ best' = best /\ path' = path
  BY DEF Search!NoPath
<1>2. path = None /\ Settled /\ best[Local] = Start
  BY <1>1 DEF SearchInv
<1>3. Settled'
  BY <1>1, <1>2, SameMatrix DEF Settled, Waiting, Expanded
<1>4. SearchTypeOK'
  BY <1>1 DEF SearchTypeOK, Entry, Search!Cost, Sources
<1> QED
  BY <1>1, <1>2, <1>3, <1>4 DEF SearchInv, Start

\* The matrix of a scan is one that find_path can search.
LEMMA ScanMatrix ==
  (ScanTypeOK /\ ScanInv) => MatrixOK
<1> SUFFICES ASSUME ScanTypeOK, ScanInv PROVE MatrixOK
  OBVIOUS
<1>1. cached => \A s \in Sources, n \in Nodes : s # n => <<s, n>> \in DOMAIN cells
  BY AllProbed DEF ScanInv
<1> QED
  BY <1>1, MatrixFacts DEF MatrixOK

\* The search goes on over a matrix that nothing changes any more.
LEMMA SearchStep ==
  ASSUME ScanTypeOK, ScanInv, SearchTypeOK, SearchInv, FindPathStep
  PROVE  SearchTypeOK' /\ SearchInv'
<1>1. cached /\ cells' = cells /\ cached' = cached /\ Search!Next
  BY DEF FindPathStep, scanVars
<1>2. MatrixOK
  BY ScanMatrix
<1>3. Matrix' = Matrix
  BY <1>1 DEF Matrix
<1>4. cached'
  BY <1>1
<1>5. CASE \E e \in heap : Search!Found(e)
  BY <1>1, <1>2, <1>3, <1>4, <1>5, SearchFound
<1>6. CASE \E e \in heap : Search!Relax(e)
  BY <1>1, <1>2, <1>3, <1>4, <1>6, SearchRelax
<1>7. CASE Search!NoPath
  BY <1>1, <1>2, <1>3, <1>4, <1>7, SearchNoPath
<1> QED
  BY <1>1, <1>5, <1>6, <1>7 DEF Search!Next

\* A step that changes no cell does not disturb the search.
LEMMA SearchUndisturbed ==
  ASSUME SearchTypeOK, SearchInv, UNCHANGED <<cells, cached, searchVars>>
  PROVE  SearchTypeOK' /\ SearchInv'
<1>1. heap' = heap /\ best' = best /\ done' = done /\ path' = path /\ cached' = cached
  BY DEF searchVars
<1>2. Matrix' = Matrix
  BY DEF Matrix
<1>3. SearchTypeOK'
  BY <1>1 DEF SearchTypeOK, Entry, Search!Cost, Sources
<1>4. ~cached => Fresh'
  BY <1>1 DEF SearchInv, Fresh, Start, Sources
<1>5. Settled => Settled'
  BY <1>1, <1>2, SameMatrix DEF Settled, Waiting, Expanded
<1>6. ResultOK => ResultOK'
  <2>1. /\ Search!Routes(Target)' = Search!Routes(Target)
        /\ \A r : Search!RouteCost(r)' = Search!RouteCost(r)
    BY <1>2, SameMatrix
  <2> QED
    BY <1>1, <2>1 DEF ResultOK
<1>7. ASSUME NEW e \in heap'
      PROVE  EntryOK(e)'
  BY <1>1, <1>2, <1>7, SameMatrix DEF SearchInv, EntryOK, At
<1> QED
  BY <1>1, <1>3, <1>4, <1>5, <1>6, <1>7 DEF SearchInv, Start

\* Before the matrix is cached, whatever becomes of the cells, the search can still begin.
LEMMA SearchFresh ==
  ASSUME ScanTypeOK', ScanInv', SearchTypeOK, SearchInv, ~cached, UNCHANGED searchVars
  PROVE  SearchTypeOK' /\ SearchInv'
<1>1. heap' = heap /\ best' = best /\ done' = done /\ path' = path
  BY DEF searchVars
<1>2. SearchTypeOK'
  BY <1>1 DEF SearchTypeOK, Entry, Search!Cost, Sources
<1>3. Fresh'
  BY <1>1 DEF SearchInv, Fresh, Start, Sources
<1>4. MatrixOK'
  BY ScanMatrix, PTL
<1>5. SearchInv'
  BY <1>2, <1>3, <1>4, FreshSearch, PTL
<1> QED
  BY <1>2, <1>5

---------------------------------------------------------------------------
(* What a scan and its search are for.                                     *)

\* Every state of a scan and of the search that follows it has the types of TypeOK;
\* what the scan knows is what worked (ScanInv), and the entries of the heap are
\* routes that cannot be improved behind its back (SearchInv).
THEOREM TopologyInvariant == Spec => []IInv
<1>1. Init => IInv
  <2> SUFFICES ASSUME Init PROVE IInv
    OBVIOUS
  <2>1. TypeOK /\ ScanInv
    BY InitTypes, ScanInit
  <2>2. Fresh
    BY DEF Init, Search!Init, Fresh, Start, Search!Sources, Sources
  <2>3. SearchInv
    BY <2>1, <2>2, ScanMatrix, FreshSearch DEF TypeOK
  <2> QED
    BY <2>1, <2>3 DEF IInv
<1>2. IInv /\ [Next]_vars => IInv'
  <2> SUFFICES ASSUME IInv, [Next]_vars PROVE IInv'
    OBVIOUS
  <2>1. ScanTypeOK /\ ScanInv /\ SearchTypeOK /\ SearchInv
    BY DEF IInv, TypeOK
  <2>2. ScanTypeOK' /\ ScanInv'
    BY <2>1, ScanKept
  <2>3. SearchTypeOK' /\ SearchInv'
    <3>1. CASE Change
      BY <2>1, <3>1, SearchUndisturbed DEF Change, scanVars
    <3>2. CASE \E n \in Nodes : Harvest(n)
      BY <2>1, <3>2, SearchUndisturbed DEF Harvest
    <3>3. CASE Harvested
      BY <2>1, <3>3, SearchUndisturbed DEF Harvested
    <3>4. CASE Probe
      BY <2>1, <2>2, <3>4, SearchFresh DEF Probe
    <3>5. CASE RowDone
      BY <2>1, <2>2, <3>5, SearchFresh DEF RowDone
    <3>6. CASE FindPathStep
      BY <2>1, <3>6, SearchStep
    <3>7. CASE UNCHANGED vars
      BY <2>1, <3>7, SearchUndisturbed DEF vars, scanVars
    <3> QED
      BY <3>1, <3>2, <3>3, <3>4, <3>5, <3>6, <3>7 DEF Next
  <2> QED
    BY <2>2, <2>3 DEF IInv, TypeOK
<1> QED
  BY <1>1, <1>2, PTL DEF Spec

\* Every state of a scan and of find_path has the types of TypeOK.
THEOREM TopologyTypeCorrect == Spec => []TypeOK
<1>1. IInv => TypeOK
  BY DEF IInv
<1> QED
  BY <1>1, TopologyInvariant, PTL

\* When find_path (topology.py) returns a path, it is a route over the cached matrix
\* with the fewest hops and among those the lowest latency; None exactly when there
\* is no route.
THEOREM FindPathIsBest == Spec => []PathIsBest
<1>1. ASSUME IInv, done PROVE Search!PathIsBest
  <2>1. SearchTypeOK /\ SearchInv /\ MatrixOK
    BY <1>1, ScanMatrix DEF IInv, TypeOK
  <2>2. CASE path # None
    BY <2>1, <2>2 DEF SearchInv, ResultOK, Search!PathIsBest
  <2>3. CASE path = None
    <3>1. Settled /\ heap = {} /\ best[Local] = Start
      BY <1>1, <2>1, <2>3 DEF SearchInv
    <3>2. ASSUME NEW r \in Search!Routes(Target) PROVE FALSE
      <4>1. IsRoute(r) /\ At(r, Len(r)) = Target
        BY RoutesFacts
      <4>2. r \in Seq(Nodes) /\ \A i \in 1..Len(r) : Matrix[At(r, i - 1)][r[i]] # None
        BY <4>1, AtFacts DEF IsRoute
      <4> QED
        BY <2>1, <3>1, <4>1, <4>2, NothingLeft
    <3> QED
      BY <2>3, <3>2 DEF Search!PathIsBest
  <2> QED
    BY <2>2, <2>3
<1>2. IInv => PathIsBest
  BY <1>1 DEF PathIsBest, Search!PathIsBest
<1> QED
  BY <1>2, TopologyInvariant, PTL

\* Every hop of a chain that find_path returns has worked at some moment of the scan,
\* unless its address may lead to another node (_scan_row, find_path).
THEOREM ScanHopsHaveWorked == Spec => []HopsHaveWorked
<1>1. ASSUME IInv, done, path # None, NEW i \in 1..Len(path)
      PROVE  \/ Works(ever, Before(path, i), ViaOf(path, i), path[i])
             \/ Ambiguous(ViaOf(path, i), path[i])
  <2> DEFINE s == At(path, i - 1)
             n == path[i]
             a == cells[<<s, n>>].via
  <2>1. IsRoute(path) /\ path \in Seq(Nodes)
    BY <1>1, RoutesFacts DEF IInv, SearchInv, ResultOK, IsRoute
  <2>2. s \in Sources /\ n \in Nodes /\ Before(path, i) = s /\ ViaOf(path, i) = a
    BY <1>1, <2>1, AtFacts DEF Before, ViaOf, At
  <2>3. Matrix[s][n] # None
    BY <1>1, <2>1, AtFacts DEF IsRoute
  <2>4. cached /\ s # n /\ cells[<<s, n>>] # None
    BY <2>2, <2>3 DEF Matrix
  <2>5. <<s, n>> \in DOMAIN cells
    BY <1>1, <2>2, <2>4, AllProbed DEF IInv, ScanInv
  <2> HIDE DEF s, n
  <2>6. <<s, a>> \in ever /\ <<s, a>> \notin denied
    BY <1>1, <2>4, <2>5 DEF IInv, ScanInv, CellsWorked
  <2>7. CASE LeadsTo[s][a] = n
    BY <2>2, <2>6, <2>7 DEF Works, n
  <2>8. CASE LeadsTo[s][a] # n
    BY <2>2, <2>8 DEF Ambiguous, n
  <2> QED
    BY <2>7, <2>8
<1>2. IInv => HopsHaveWorked
  BY <1>1 DEF HopsHaveWorked
<1> QED
  BY <1>2, TopologyInvariant, PTL

\* When find_path returns None, no chain of hops to the target has worked all the time
\* since the scan began over addresses and nodes that the scan can use (_harvest,
\* _scan_row, find_path).
THEOREM ScanNoPathMeansNone == Spec => []NoPathMeansNone
<1>1. ASSUME IInv, done, path = None, NEW k \in 1..Len(NodeSeq), NEW r \in [1..k -> Nodes],
             r[k] = Target,
             \A i \in 1..k :
               /\ Usable(Before(r, i))
               /\ \E a \in Known(r[i]) : Works(steady, Before(r, i), a, r[i])
      PROVE  FALSE
  <2>1. /\ k \in Nat /\ k > 0 /\ r \in Seq(Nodes) /\ Len(r) = k /\ At(r, Len(r)) = Target
    BY <1>1, RowFacts DEF At
  <2>2. /\ SearchTypeOK /\ MatrixOK /\ ScanInv
        /\ Settled /\ heap = {} /\ best[Local] = Start
    BY <1>1, ScanMatrix DEF IInv, TypeOK, SearchInv
  <2>3. cached
    BY <1>1 DEF IInv, SearchInv, Fresh
  <2>4. ASSUME NEW i \in 1..Len(r), At(r, i - 1) # r[i]
        PROVE  Matrix[At(r, i - 1)][r[i]] # None
    <3>1. At(r, i - 1) \in Sources /\ r[i] \in Nodes
      BY <2>1, AtFacts
    <3>2. Before(r, i) = At(r, i - 1)
      BY <2>1 DEF Before, At
    <3>3. /\ Usable(At(r, i - 1))
          /\ \E a \in Known(r[i]) : Works(steady, At(r, i - 1), a, r[i])
      BY <1>1, <2>1, <3>2
    <3>4. <<At(r, i - 1), r[i]>> \in DOMAIN cells
      BY <2>2, <2>3, <2>4, <3>1, AllProbed DEF ScanInv
    <3>5. cells[<<At(r, i - 1), r[i]>>] # None
      BY <2>2, <3>3, <3>4 DEF ScanInv, CellsFound
    <3>6. cells[<<At(r, i - 1), r[i]>>].latency \in Nat
      BY <1>1, <3>4, <3>5 DEF IInv, TypeOK, ScanTypeOK, Cell
    <3> QED
      BY <2>3, <2>4, <3>1, <3>5, <3>6, NoneAssumption DEF Matrix
  <2> QED
    BY <2>1, <2>2, <2>4, NothingLeft
<1>2. IInv => NoPathMeansNone
  BY <1>1 DEF NoPathMeansNone
<1> QED
  BY <1>2, TopologyInvariant, PTL
=============================================================================
