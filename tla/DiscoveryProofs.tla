--------------------------- MODULE DiscoveryProofs ---------------------------
(***************************************************************************)
(* Proofs about Discovery: what a scan promises for any network, any seeds  *)
(* and bounds, and any overlap of its probes with failures, a cancellation  *)
(* and the removal of an earlier scan's servers.                           *)
(***************************************************************************)
EXTENDS Discovery, Integers, FiniteSetTheorems, SequenceTheorems, WellFoundedInduction, TLAPS

---------------------------------------------------------------------------
(* The inductive invariant.                                                *)

\* What the scan is about to do fits its phase.
PhaseInv ==
  /\ phase = "idle" => discovered = {} /\ frontier = <<>>
  /\ phase # "expand" => /\ via = None /\ fresh = <<>>
                         /\ \A a \in Addrs : task[a] = "none" /\ result[a] = None
  /\ phase = "expand" => via # None /\ Shallow(via)
  /\ \A a \in Addrs : task[a] # "none" => a \in Elems(fresh)
  /\ \A a \in Addrs : result[a] # None => task[a] = "ended"

\* A node is that of a seed or of one of the discovered machines D.
Sound(it, D) ==
  /\ it.box = Local <=> it.name = Local
  /\ \/ it.name \in Seeds /\ it.depth = 0
     \/ \E d \in D : d.name = it.name /\ d.depth = it.depth

NodesSound ==
  /\ \A i \in DOMAIN frontier : Sound(frontier[i], discovered)
  /\ via # None => Sound(via, discovered)
  /\ \A a \in Addrs : result[a] # None => Sound(result[a], discovered)

\* A machine is discovered when its fingerprint is put with the visited ones.
OncePerKey ==
  /\ IsFiniteSet(discovered)
  /\ \A d \in discovered : d.fp \in visitedFps
  /\ DiscoveredOnceWithinBounds

\* There is one server of a name, and always a name left.
NamesLeft ==
  /\ IsFiniteSet(registry)
  /\ Cardinality(registry) <= Cardinality(Boxes) + Cardinality(visitedFps)
  /\ \A s, t \in registry : s.name = t.name => s = t

\* Whatever has been reserved waits or was tried, and what was discovered is in the
\* frontier, on its way there, or has been expanded.
NothingMissed ==
  /\ dialled \subseteq visitedIps
  /\ \A a \in Addrs : task[a] # "none" => a \in visitedIps
  /\ phase # "cancelled" /\ ~truncated =>
       /\ \A a \in visitedIps : a \in dialled \/ task[a] = "waiting"
       /\ \A d \in discovered :
            \/ d.name \in expanded
            \/ \E i \in DOMAIN frontier : frontier[i].name = d.name
            \/ \E a \in Addrs : result[a] # None /\ result[a].name = d.name
  /\ phase = "done" /\ ~truncated => frontier = <<>>

\* The open connections are those that the end of the scan closes.
ConnectionsKept ==
  /\ open = kept
  /\ phase = "done" => kept = {}

IInv ==
  /\ TypeOK /\ PhaseInv /\ NodesSound /\ OncePerKey /\ NamesLeft
  /\ JumpsLeadToSeed /\ NothingMissed /\ ConnectionsKept

---------------------------------------------------------------------------
(* Sets and sequences.                                                     *)

LEMMA OrdersAre ==
  ASSUME NEW S, IsFiniteSet(S), NEW s \in Orders(S)
  PROVE  /\ s \in Seq(S) /\ DOMAIN s = 1..Cardinality(S) /\ Elems(s) = S
         /\ Cardinality(S) \in Nat
  <1>1. Cardinality(S) \in Nat
    BY FS_CardinalityType
  <1> QED BY <1>1 DEF Orders

LEMMA AscendingAre ==
  ASSUME NEW n \in Nat, NEW P \in SUBSET (1..n), NEW t \in Ascending(P)
  PROVE  t \in Seq(P) /\ DOMAIN t = 1..Len(t) /\ Elems(t) = P
  <1>1. IsFiniteSet(1..n)
    BY FS_Interval
  <1>2. IsFiniteSet(P)
    BY <1>1, FS_Subset
  <1>3. t \in Orders(P)
    BY DEF Ascending
  <1>4. t \in Seq(P) /\ Elems(t) = P
    BY <1>2, <1>3, OrdersAre
  <1>5. DOMAIN t = 1..Len(t)
    BY <1>4
  <1> QED BY <1>4, <1>5

\* The first node and the others.
LEMMA HeadAndTail ==
  ASSUME NEW S, NEW s \in Seq(S), s # <<>>
  PROVE  /\ Head(s) = s[1] /\ s[1] \in S /\ 1 \in DOMAIN s /\ Tail(s) \in Seq(S)
         /\ \A i \in DOMAIN Tail(s) : i + 1 \in DOMAIN s /\ Tail(s)[i] = s[i + 1]
         /\ \A i \in DOMAIN s : i # 1 => i - 1 \in DOMAIN Tail(s) /\ Tail(s)[i - 1] = s[i]
  <1>1. DOMAIN s = 1..Len(s) /\ Len(s) \in Nat \ {0}
    BY LenProperties, EmptySeq
  <1>2. /\ Tail(s) \in Seq(S) /\ Len(Tail(s)) = Len(s) - 1
        /\ \A i \in 1..Len(Tail(s)) : Tail(s)[i] = s[i + 1]
    BY HeadTailProperties
  <1>3. DOMAIN Tail(s) = 1..(Len(s) - 1)
    BY <1>2, LenProperties
  <1> QED BY <1>1, <1>2, <1>3

\* The elements of w are those of r, in their places, and those of u.
Joined(w, r, u) ==
  /\ \A i \in DOMAIN r : i \in DOMAIN w /\ w[i] = r[i]
  /\ \A i \in DOMAIN u : \E j \in DOMAIN w : w[j] = u[i]
  /\ \A j \in DOMAIN w : \/ j \in DOMAIN r /\ w[j] = r[j]
                         \/ \E i \in DOMAIN u : w[j] = u[i]

LEMMA ConcatJoins ==
  ASSUME NEW S, NEW r \in Seq(S), NEW u \in Seq(S)
  PROVE  r \o u \in Seq(S) /\ Joined(r \o u, r, u)
  <1>1. /\ Len(r) \in Nat /\ DOMAIN r = 1..Len(r)
        /\ Len(u) \in Nat /\ DOMAIN u = 1..Len(u)
    BY LenProperties
  <1>2. /\ r \o u \in Seq(S) /\ Len(r \o u) = Len(r) + Len(u)
        /\ \A i \in 1..(Len(r) + Len(u)) :
             (r \o u)[i] = IF i <= Len(r) THEN r[i] ELSE u[i - Len(r)]
    BY ConcatProperties
  <1>3. DOMAIN (r \o u) = 1..(Len(r) + Len(u))
    BY <1>2, LenProperties
  <1>4. ASSUME NEW i \in DOMAIN u
        PROVE  \E j \in DOMAIN (r \o u) : (r \o u)[j] = u[i]
    <2>1. Len(r) + i \in DOMAIN (r \o u) /\ (r \o u)[Len(r) + i] = u[i]
      BY <1>1, <1>2, <1>3
    <2> QED BY <2>1
  <1>5. ASSUME NEW j \in DOMAIN (r \o u), j \notin DOMAIN r
        PROVE  \E i \in DOMAIN u : (r \o u)[j] = u[i]
    <2>1. j - Len(r) \in DOMAIN u /\ (r \o u)[j] = u[j - Len(r)]
      BY <1>1, <1>2, <1>3, <1>5
    <2> QED BY <2>1
  <1>6. \A i \in DOMAIN r : i \in DOMAIN (r \o u) /\ (r \o u)[i] = r[i]
    BY <1>1, <1>2, <1>3
  <1>7. \A j \in DOMAIN (r \o u) : j \in DOMAIN r => (r \o u)[j] = r[j]
    BY <1>6
  <1> QED BY <1>2, <1>4, <1>5, <1>6, <1>7 DEF Joined

\* A set of numbers that is not empty has a smallest one.
LEMMA SmallestNat ==
  ASSUME NEW S \in SUBSET Nat, S # {}
  PROVE  \E n \in S : \A k \in S : n <= k
  <1>1. PICK m \in S : TRUE
    OBVIOUS
  <1> DEFINE I == 0..m
             R == StrictSubsetOrdering(I)
             U == {0..k : k \in S \cap I}
  <1>2. IsFiniteSet(I)
    BY FS_Interval
  <1>3. /\ \A V \in SUBSET I : IsFiniteSet(V)
        /\ U \subseteq SUBSET I /\ U # {}
    <2>1. \A V \in SUBSET I : IsFiniteSet(V)
      BY <1>2, FS_Subset
    <2>2. 0..m \in U
      OBVIOUS
    <2> QED BY <2>1, <2>2
  <1>4. U \subseteq FiniteSubsetsOf(I)
    BY <1>3 DEF FiniteSubsetsOf
  <1>5. PICK V \in U : \A W \in U : <<W, V>> \notin R
    BY <1>3, <1>4, FS_StrictSubsetOrderingWellFounded, WFMin
  <1>6. PICK n \in S \cap I : V = 0..n
    OBVIOUS
  <1>7. ASSUME NEW k \in S PROVE n <= k
    <2>1. SUFFICES ASSUME k < n PROVE FALSE
      OBVIOUS
    <2>2. k \in I /\ 0..k \in U
      BY <2>1
    <2>3. 0..k \subseteq 0..n /\ 0..k # 0..n
      <3>1. n \in 0..n /\ n \notin 0..k
        BY <2>1
      <3> QED BY <2>1, <3>1
    <2>4. 0..k \in SUBSET I /\ 0..n \in SUBSET I
      BY <2>2
    <2>5. <<0..k, 0..n>> \in R
      BY <2>3, <2>4 DEF StrictSubsetOrdering
    <2> QED BY <1>5, <1>6, <2>2, <2>5
  <1> QED BY <1>7

---------------------------------------------------------------------------
(* Types that the actions share.                                           *)

LEMMA Assumptions ==
  /\ MaxDepth \in Nat /\ MaxNodes \in Nat /\ Cardinality(Boxes) \in Nat
  /\ Local \notin Boxes /\ Local \notin Names /\ None \notin Places
  /\ SeedList \in Seq(Places) /\ Seeds \subseteq Places
  /\ Earlier \subseteq Boxes
  /\ None \notin Item
  <1>1. Cardinality(Boxes) \in Nat
    BY DiscoveryAssumption, FS_CardinalityType
  <1>2. Seeds \subseteq Places
    BY DiscoveryAssumption DEF Seeds
  <1> QED BY <1>1, <1>2, DiscoveryAssumption

\* The machines that are known are finitely many.
LEMMA Counted ==
  ASSUME TypeOK, OncePerKey, NamesLeft
  PROVE  /\ IsFiniteSet(Boxes) /\ IsFiniteSet(visitedFps)
         /\ Cardinality(visitedFps) \in Nat /\ Cardinality(visitedFps) <= Cardinality(Boxes)
         /\ IsFiniteSet(discovered) /\ Cardinality(discovered) \in Nat
         /\ IsFiniteSet(registry) /\ Cardinality(registry) \in Nat
  <1>1. IsFiniteSet(Boxes) /\ visitedFps \in SUBSET Boxes
    BY DiscoveryAssumption DEF TypeOK
  <1>2. IsFiniteSet(visitedFps) /\ Cardinality(visitedFps) <= Cardinality(Boxes)
    BY <1>1, FS_Subset
  <1>3. IsFiniteSet(discovered) /\ IsFiniteSet(registry)
    BY DEF OncePerKey, NamesLeft
  <1> QED BY <1>1, <1>2, <1>3, FS_CardinalityType

\* There are more names that begin like b's fingerprint than servers, so _register
\* finds one that is not taken.
LEMMA FreeNameIsFree ==
  ASSUME TypeOK, OncePerKey, NamesLeft, NEW b \in Boxes
  PROVE  FreeName(b) \in Names /\ ~Taken(FreeName(b))
  <1> DEFINE N == 2 * Cardinality(Boxes)
             F == {k \in 0..N : ~Taken(<<Slug[b], k>>)}
  <1>1. N \in Nat /\ Cardinality(registry) \in Nat /\ Cardinality(registry) <= N
    <2>1. /\ Cardinality(Boxes) \in Nat /\ Cardinality(visitedFps) \in Nat
          /\ Cardinality(visitedFps) <= Cardinality(Boxes) /\ Cardinality(registry) \in Nat
      BY Assumptions, Counted
    <2> QED BY <2>1 DEF NamesLeft
  <1>2. Names = {Slug[x] : x \in Boxes} \X (0..N)
    BY DEF Names
  <1> HIDE DEF N
  <1>3. F # {}
    <2>1. SUFFICES ASSUME \A k \in 0..N : Taken(<<Slug[b], k>>) PROVE FALSE
      OBVIOUS
    <2> DEFINE f == [k \in 0..N |-> CHOOSE s \in registry : s.name = <<Slug[b], k>>]
    <2>2. ASSUME NEW k \in 0..N
          PROVE  f[k] \in registry /\ f[k].name = <<Slug[b], k>>
      <3>1. \E s \in registry : s.name = <<Slug[b], k>>
        BY <2>1 DEF Taken
      <3> QED BY <3>1
    <2>3. f \in [0..N -> registry]
      BY <2>2
    <2> HIDE DEF f
    <2>4. IsFiniteSet(0..N) /\ Cardinality(0..N) = N + 1
      BY <1>1, FS_Interval
    <2>5. PICK x \in 0..N, y \in 0..N : x # y /\ f[x] = f[y]
      BY <1>1, <2>3, <2>4, Counted, FS_PigeonHole
    <2> QED BY <2>2, <2>5
  <1>4. F \in SUBSET Nat
    OBVIOUS
  <1>5. PICK n \in F : \A k \in F : n <= k
    BY <1>3, <1>4, SmallestNat
  <1> DEFINE m == <<Slug[b], n>>
  <1>6. /\ m \in Names /\ m[1] = Slug[b] /\ m[2] = n
        /\ ~Taken(m) /\ \A k \in 0..m[2] : k < m[2] => Taken(<<Slug[b], k>>)
    <2>1. ASSUME NEW k \in 0..n, k < n PROVE Taken(<<Slug[b], k>>)
      BY <1>1, <1>5, <2>1
    <2> QED BY <1>2, <1>5, <2>1
  <1> QED BY <1>6 DEF FreeName

---------------------------------------------------------------------------
(* The initial states.                                                     *)

LEMMA InitIInv == Init => IInv
  <1> SUFFICES ASSUME Init PROVE IInv
    OBVIOUS
  <1>1. PICK old \in SUBSET Earlier :
          registry = {[name |-> <<Slug[b], 0>>, session |-> "old", jump |-> None] : b \in old}
    BY DEF Init
  <1> DEFINE Old(b) == [name |-> <<Slug[b], 0>>, session |-> "old", jump |-> None]
  <1>2. old \in SUBSET Boxes /\ IsFiniteSet(Boxes)
    BY Assumptions, DiscoveryAssumption
  <1>3. registry \subseteq Server
    <2>1. ASSUME NEW b \in old PROVE Old(b) \in Server
      <3>1. <<Slug[b], 0>> \in Names
        BY <1>2, Assumptions DEF Names
      <3> QED BY <3>1 DEF Server
    <2> QED BY <1>1, <2>1
  <1>4. TypeOK
    <2>1. registry \subseteq Server /\ task \in [Addrs -> {"none", "waiting", "dialling", "ended"}]
      BY <1>3 DEF Init, NoTasks
    <2>2. result \in [Addrs -> Item \cup {None}]
      BY DEF Init, NoResults
    <2>3. /\ phase = "idle" /\ frontier = <<>> /\ via = None /\ fresh = <<>>
          /\ harvestKeys \in BOOLEAN /\ keySpace = OurKeys
          /\ visitedIps = {} /\ visitedFps = {} /\ discovered = {} /\ kept = {}
          /\ open = {} /\ truncated = FALSE /\ expired = FALSE /\ dialled = {}
      BY DEF Init
    <2>4. frontier \in Seq(Item) /\ fresh \in Seq(Addrs)
      BY <2>3
    <2> QED BY <2>1, <2>2, <2>3, <2>4 DEF TypeOK
  <1>5. PhaseInv /\ NodesSound /\ JumpsLeadToSeed /\ NothingMissed /\ ConnectionsKept
    <2>1. /\ phase = "idle" /\ frontier = <<>> /\ via = None /\ fresh = <<>>
          /\ \A a \in Addrs : task[a] = "none" /\ result[a] = None
          /\ discovered = {} /\ visitedIps = {} /\ dialled = {} /\ open = kept
      BY DEF Init, NoTasks, NoResults
    <2>2. PhaseInv
      BY <2>1 DEF PhaseInv
    <2>3. NodesSound
      BY <2>1 DEF NodesSound
    <2>4. JumpsLeadToSeed /\ ConnectionsKept
      BY <2>1 DEF JumpsLeadToSeed, ConnectionsKept
    <2>5. NothingMissed
      BY <2>1 DEF NothingMissed
    <2> QED BY <2>2, <2>3, <2>4, <2>5
  <1>6. OncePerKey
    <2>1. discovered = {} /\ IsFiniteSet({}) /\ Cardinality({}) = 0
      BY FS_EmptySet DEF Init
    <2> QED BY <2>1, Assumptions DEF OncePerKey, DiscoveredOnceWithinBounds
  <1>7. NamesLeft
    <2>1. IsFiniteSet(old) /\ Cardinality(old) <= Cardinality(Boxes)
      BY <1>2, FS_Subset
    <2> DEFINE f == [b \in old |-> Old(b)]
    <2>2. f \in Surjection(old, registry)
      BY <1>1 DEF Surjection
    <2>3. IsFiniteSet(registry) /\ Cardinality(registry) <= Cardinality(old)
      BY <2>1, <2>2, FS_Surjection
    <2>4. /\ Cardinality(registry) \in Nat /\ Cardinality(old) \in Nat
          /\ Cardinality(Boxes) \in Nat
      BY <1>2, <2>1, <2>3, FS_CardinalityType
    <2>5. Cardinality(visitedFps) = 0
      BY FS_EmptySet DEF Init
    <2>6. \A s, t \in registry : s.name = t.name => s = t
      BY <1>1
    <2> QED BY <2>1, <2>3, <2>4, <2>5, <2>6 DEF NamesLeft
  <1> QED BY <1>4, <1>5, <1>6, <1>7 DEF IInv

---------------------------------------------------------------------------
(* The loop of the scan.                                                   *)

LEMMA StartKeeps ==
  ASSUME IInv, NEW up, Start(up)
  PROVE  IInv'
  <1>1. /\ phase = "idle" /\ phase' = "loop"
        /\ UNCHANGED <<via, fresh, task, result, keys, visitedIps, open, truncated,
                       expired, dialled, expanded>>
        /\ UNCHANGED found
    BY DEF Start
  <1> DEFINE P == {i \in DOMAIN SeedList : SeedList[i] \in up \cup {Local}}
             Node(s) == [name |-> s, box |-> s, depth |-> 0]
  <1>2. PICK at \in Ascending(P) : frontier' = [i \in DOMAIN at |-> Node(SeedList[at[i]])]
    BY DEF Start
  <1>3. Len(SeedList) \in Nat /\ P \in SUBSET (1..Len(SeedList))
    BY Assumptions, LenProperties
  <1> HIDE DEF P
  <1>4. at \in Seq(P) /\ DOMAIN at = 1..Len(at) /\ Len(at) \in Nat
    <2>1. at \in Seq(P) /\ DOMAIN at = 1..Len(at)
      BY <1>2, <1>3, AscendingAre
    <2> QED BY <2>1
  <1>5. ASSUME NEW i \in DOMAIN at
        PROVE  SeedList[at[i]] \in Seeds /\ Node(SeedList[at[i]]) \in Item
    <2>1. at[i] \in P
      BY <1>4
    <2>0. at[i] \in DOMAIN SeedList
      BY <2>1 DEF P
    <2>2. SeedList[at[i]] \in Seeds
      BY <2>0 DEF Seeds
    <2> QED BY <2>2, Assumptions DEF Item
  <1>6. /\ frontier' \in Seq(Item)
        /\ \A i \in DOMAIN frontier' : Sound(frontier'[i], discovered)
    BY <1>2, <1>4, <1>5 DEF Sound
  <1>7. discovered' = discovered /\ discovered = {}
    BY <1>1 DEF found, IInv, PhaseInv
  <1>8. TypeOK'
    BY <1>1, <1>6 DEF IInv, TypeOK, keys, found
  <1>9. PhaseInv' /\ NodesSound'
    BY <1>1, <1>6, <1>7 DEF IInv, PhaseInv, NodesSound
  <1>10. OncePerKey' /\ NamesLeft' /\ ConnectionsKept'
    BY <1>1 DEF IInv, OncePerKey, DiscoveredOnceWithinBounds, NamesLeft, ConnectionsKept, found
  <1>11. JumpsLeadToSeed' /\ NothingMissed'
    BY <1>1, <1>7 DEF IInv, JumpsLeadToSeed, NothingMissed
  <1> QED BY <1>8, <1>9, <1>10, <1>11 DEF IInv

LEMMA FinishKeeps ==
  ASSUME IInv, Finish
  PROVE  IInv'
  <1>1. /\ phase = "loop" /\ phase' = "done" /\ open' = open \ kept /\ kept' = {}
        /\ truncated' = (truncated \/ frontier # <<>>)
        /\ UNCHANGED <<frontier, via, fresh, task, result, keys, visitedIps, visitedFps,
                       discovered, expired, registry, dialled, expanded>>
    BY DEF Finish
  <1>2. TypeOK'
    BY <1>1 DEF IInv, TypeOK, keys
  <1>3. PhaseInv' /\ NodesSound'
    BY <1>1 DEF IInv, PhaseInv, NodesSound
  <1>4. OncePerKey' /\ NamesLeft' /\ ConnectionsKept'
    BY <1>1 DEF IInv, OncePerKey, DiscoveredOnceWithinBounds, NamesLeft, ConnectionsKept
  <1>5. JumpsLeadToSeed'
    BY <1>1 DEF IInv, JumpsLeadToSeed, Scanning
  <1>6. NothingMissed'
    BY <1>1 DEF IInv, NothingMissed
  <1> QED BY <1>2, <1>3, <1>4, <1>5, <1>6 DEF IInv

LEMMA FirstNode ==
  ASSUME IInv, Takes
  PROVE  /\ phase = "loop" /\ Head(frontier) = frontier[1] /\ frontier[1] \in Item
         /\ 1 \in DOMAIN frontier /\ Sound(frontier[1], discovered)
         /\ Tail(frontier) \in Seq(Item)
         /\ \A i \in DOMAIN Tail(frontier) : Sound(Tail(frontier)[i], discovered)
         /\ \A i \in DOMAIN frontier : i # 1 =>
              i - 1 \in DOMAIN Tail(frontier) /\ Tail(frontier)[i - 1] = frontier[i]
  <1>1. phase = "loop" /\ frontier \in Seq(Item) /\ frontier # <<>>
    BY DEF Takes, IInv, TypeOK
  <1>2. \A i \in DOMAIN frontier : Sound(frontier[i], discovered)
    BY DEF IInv, NodesSound
  <1> QED BY <1>1, <1>2, HeadAndTail

LEMMA SkipKeeps ==
  ASSUME IInv, Skip
  PROVE  IInv'
  <1>1. /\ Takes /\ frontier' = Tail(frontier) /\ truncated' = TRUE
        /\ UNCHANGED <<phase, via, fresh, task, result, keys, visitedIps, open,
                       expired, dialled, expanded>>
        /\ UNCHANGED <<visitedFps, discovered, kept, registry>>
    BY DEF Skip, found
  <1>2. /\ phase = "loop" /\ frontier' \in Seq(Item)
        /\ \A i \in DOMAIN frontier' : Sound(frontier'[i], discovered)
    BY <1>1, FirstNode
  <1>3. TypeOK'
    BY <1>1, <1>2 DEF IInv, TypeOK, keys
  <1>4. PhaseInv' /\ NodesSound'
    BY <1>1, <1>2 DEF IInv, PhaseInv, NodesSound
  <1>5. OncePerKey' /\ NamesLeft' /\ ConnectionsKept'
    BY <1>1 DEF IInv, OncePerKey, DiscoveredOnceWithinBounds, NamesLeft, ConnectionsKept
  <1>6. JumpsLeadToSeed' /\ NothingMissed'
    BY <1>1, <1>2 DEF IInv, JumpsLeadToSeed, Scanning, NothingMissed
  <1> QED BY <1>3, <1>4, <1>5, <1>6 DEF IInv

LEMMA CandidatesAre ==
  ASSUME IInv, NEW v \in Places, NEW got \in Harvests(v)
  PROVE  got \cup Injected \subseteq Addrs
  <1>1. Crumbs[v] \subseteq Addrs
    BY DiscoveryAssumption
  <1>2. got \subseteq Addrs
    BY <1>1 DEF Harvests
  <1>3. Injected \subseteq Addrs
    <2>1. Len(Block) \in Nat /\ Cap \in Nat /\ \A i \in 1..Len(Block) : Block[i] \in Addrs
      BY DiscoveryAssumption
    <2>2. \A i \in 1..Minimum(Cap, Len(Block)) : i \in 1..Len(Block)
      BY <2>1 DEF Minimum
    <2> QED BY <2>1, <2>2 DEF Injected
  <1> QED BY <1>2, <1>3

LEMMA ExpandKeeps ==
  ASSUME IInv, NEW got, Expand(got)
  PROVE  IInv'
  <1> DEFINE item == Head(frontier)
             New == (got \cup Injected) \ visitedIps
  <1>1. /\ Takes /\ Shallow(item) /\ got \in Harvests(item.box) /\ via' = item
        /\ keySpace' = KeysAfter(item) /\ expanded' = expanded \cup {item.name}
        /\ phase' = "expand" /\ frontier' = Tail(frontier)
        /\ UNCHANGED <<result, harvestKeys, open, truncated, expired, dialled>>
        /\ UNCHANGED <<visitedFps, discovered, kept, registry>>
    BY DEF Expand, found
  <1>2. PICK order \in Orders(New) :
          /\ fresh' = order /\ visitedIps' = visitedIps \cup Elems(order)
          /\ task' = [a \in Addrs |-> IF a \in Elems(order) THEN "waiting" ELSE "none"]
    BY DEF Expand
  <1>3. /\ phase = "loop" /\ item = frontier[1] /\ item \in Item /\ Sound(item, discovered)
        /\ Tail(frontier) \in Seq(Item)
        /\ \A i \in DOMAIN Tail(frontier) : Sound(Tail(frontier)[i], discovered)
        /\ \A i \in DOMAIN frontier : i # 1 =>
             i - 1 \in DOMAIN Tail(frontier) /\ Tail(frontier)[i - 1] = frontier[i]
    BY <1>1, FirstNode
  <1>4. item.box \in Places /\ item # None
    BY <1>3, Assumptions DEF Item
  <1>5. got \cup Injected \subseteq Addrs
    BY <1>1, <1>4, CandidatesAre
  <1>6. order \in Seq(New) /\ Elems(order) = New
    <2>1. IsFiniteSet(Addrs) /\ New \in SUBSET Addrs
      BY <1>5, DiscoveryAssumption
    <2>2. IsFiniteSet(New)
      BY <2>1, FS_Subset
    <2> HIDE DEF New
    <2> QED BY <1>2, <2>2, OrdersAre
  <1>7. New \subseteq Addrs /\ order \in Seq(Addrs)
    BY <1>5, <1>6
  <1> HIDE DEF New, item
  <1>8. \A a \in Addrs : /\ task[a] = "none" /\ result[a] = None
                         /\ task'[a] = IF a \in New THEN "waiting" ELSE "none"
    BY <1>2, <1>3, <1>6 DEF IInv, PhaseInv
  <1>9. TypeOK'
    <2>1. OurKeys \subseteq keySpace'
      BY <1>1 DEF IInv, TypeOK, KeysAfter
    <2>2. task' \in [Addrs -> {"none", "waiting", "dialling", "ended"}]
      BY <1>2
    <2>3. visitedIps' \subseteq Addrs
      BY <1>2, <1>6, <1>7 DEF IInv, TypeOK
    <2> QED BY <1>1, <1>2, <1>3, <1>7, <2>1, <2>2, <2>3 DEF IInv, TypeOK
  <1>10. PhaseInv' /\ NodesSound'
    <2>1. PhaseInv'
      BY <1>1, <1>2, <1>4, <1>6, <1>8 DEF PhaseInv
    <2>2. NodesSound'
      BY <1>1, <1>3, <1>8 DEF NodesSound
    <2> QED BY <2>1, <2>2
  <1>11. OncePerKey' /\ NamesLeft' /\ ConnectionsKept'
    BY <1>1 DEF IInv, OncePerKey, DiscoveredOnceWithinBounds, NamesLeft, ConnectionsKept
  <1>12. JumpsLeadToSeed'
    BY <1>1, <1>3 DEF IInv, JumpsLeadToSeed, Scanning
  <1>13. NothingMissed'
    <2>1. dialled' \subseteq visitedIps' /\ \A a \in Addrs : task'[a] # "none" => a \in visitedIps'
      BY <1>1, <1>2, <1>6, <1>8 DEF IInv, NothingMissed
    <2>2. ~truncated' => \A a \in visitedIps' : a \in dialled' \/ task'[a] = "waiting"
      <3>1. SUFFICES ASSUME ~truncated, NEW a \in visitedIps \cup New
                     PROVE  a \in dialled \/ task'[a] = "waiting"
        BY <1>1, <1>2, <1>6
      <3>2. CASE a \in visitedIps
        <4>1. a \in Addrs
          BY <3>2 DEF IInv, TypeOK
        <4> QED BY <1>3, <1>8, <3>1, <3>2, <4>1 DEF IInv, NothingMissed
      <3> QED BY <1>7, <1>8, <3>1, <3>2
    <2>3. ASSUME ~truncated, NEW d \in discovered
          PROVE  d.name \in expanded' \/ \E i \in DOMAIN frontier' : frontier'[i].name = d.name
      <3>1. d.name \in expanded \/ \E i \in DOMAIN frontier : frontier[i].name = d.name
        BY <1>3, <1>8, <2>3 DEF IInv, NothingMissed
      <3>2. CASE \E i \in DOMAIN frontier : frontier[i].name = d.name
        <4>1. PICK i \in DOMAIN frontier : frontier[i].name = d.name
          BY <3>2
        <4>2. CASE i = 1
          BY <1>1, <1>3, <4>1, <4>2
        <4>3. CASE i # 1
          BY <1>1, <1>3, <4>1, <4>3
        <4> QED BY <4>2, <4>3
      <3> QED BY <1>1, <3>1, <3>2
    <2> QED BY <1>1, <2>1, <2>2, <2>3 DEF NothingMissed
  <1> QED BY <1>9, <1>10, <1>11, <1>12, <1>13 DEF IInv

LEMMA CollectKeeps ==
  ASSUME IInv, Collect
  PROVE  IInv'
  <1> DEFINE P == {i \in DOMAIN fresh : result[fresh[i]] # None}
  <1>1. /\ phase = "expand" /\ \A a \in Elems(fresh) : task[a] = "ended"
        /\ phase' = "loop" /\ via' = None /\ fresh' = <<>>
        /\ task' = NoTasks /\ result' = NoResults
        /\ UNCHANGED <<keys, visitedIps, open, truncated, expired, dialled, expanded>>
        /\ UNCHANGED <<visitedFps, discovered, kept, registry>>
    BY DEF Collect, found
  <1>2. PICK at \in Ascending(P) :
          frontier' = frontier \o [i \in DOMAIN at |-> result[fresh[at[i]]]]
    BY DEF Collect
  <1>3. /\ frontier \in Seq(Item) /\ fresh \in Seq(Addrs) /\ result \in [Addrs -> Item \cup {None}]
        /\ \A i \in DOMAIN frontier : Sound(frontier[i], discovered)
        /\ \A a \in Addrs : result[a] # None => Sound(result[a], discovered)
        /\ \A a \in Addrs : task[a] # "none" => a \in Elems(fresh)
        /\ \A a \in Addrs : result[a] # None => task[a] = "ended"
    BY DEF IInv, TypeOK, PhaseInv, NodesSound
  <1>4. Len(fresh) \in Nat /\ DOMAIN fresh = 1..Len(fresh) /\ P \in SUBSET (1..Len(fresh))
    BY <1>3, LenProperties
  <1>5. \A i \in P : fresh[i] \in Addrs /\ result[fresh[i]] # None /\ result[fresh[i]] \in Item
    BY <1>3
  <1>6. \A a \in Addrs : result[a] # None => \E i \in P : fresh[i] = a
    <2>1. ASSUME NEW a \in Addrs, result[a] # None
          PROVE  \E i \in P : fresh[i] = a
      <3>1. \E i \in DOMAIN fresh : fresh[i] = a
        BY <1>3, <2>1 DEF Elems
      <3> QED BY <2>1, <3>1
    <2> QED BY <2>1
  <1> HIDE DEF P
  <1>7. at \in Seq(P) /\ DOMAIN at = 1..Len(at) /\ Elems(at) = P
    BY <1>2, <1>4, AscendingAre
  <1>8. \A j \in DOMAIN at : at[j] \in P
    BY <1>7
  <1> DEFINE hits == [i \in DOMAIN at |-> result[fresh[at[i]]]]
  <1>9. hits \in Seq(Item) /\ DOMAIN hits = DOMAIN at
    <2>1. Len(at) \in Nat /\ \A i \in 1..Len(at) : result[fresh[at[i]]] \in Item
      BY <1>5, <1>7, <1>8
    <2> QED BY <1>7, <2>1
  <1>10. \A i \in DOMAIN hits : Sound(hits[i], discovered)
    BY <1>3, <1>5, <1>8, <1>9
  <1>11. \A a \in Addrs : result[a] # None => \E i \in DOMAIN hits : hits[i] = result[a]
    <2>1. ASSUME NEW a \in Addrs, result[a] # None
          PROVE  \E i \in DOMAIN hits : hits[i] = result[a]
      <3>1. PICK k \in P : fresh[k] = a
        BY <1>6, <2>1
      <3>2. PICK i \in DOMAIN at : at[i] = k
        BY <1>7 DEF Elems
      <3> QED BY <1>9, <3>1, <3>2
    <2> QED BY <2>1
  <1>12. frontier' = frontier \o hits
    BY <1>2
  <1> HIDE DEF hits
  <1>13. /\ frontier' \in Seq(Item)
         /\ \A i \in DOMAIN frontier : i \in DOMAIN frontier' /\ frontier'[i] = frontier[i]
         /\ \A i \in DOMAIN hits : \E j \in DOMAIN frontier' : frontier'[j] = hits[i]
         /\ \A j \in DOMAIN frontier' :
              \/ j \in DOMAIN frontier /\ frontier'[j] = frontier[j]
              \/ \E i \in DOMAIN hits : frontier'[j] = hits[i]
    <2>1. frontier \o hits \in Seq(Item) /\ Joined(frontier \o hits, frontier, hits)
      BY <1>3, <1>9, ConcatJoins
    <2> QED BY <1>12, <2>1 DEF Joined
  <1>14. /\ task' \in [Addrs -> {"none", "waiting", "dialling", "ended"}]
         /\ result' \in [Addrs -> Item \cup {None}] /\ fresh' \in Seq(Addrs)
         /\ \A a \in Addrs : task'[a] = "none" /\ result'[a] = None
    BY <1>1 DEF NoTasks, NoResults
  <1>15. TypeOK'
    BY <1>1, <1>13, <1>14 DEF IInv, TypeOK, keys
  <1>16. PhaseInv'
    BY <1>1, <1>14 DEF PhaseInv
  <1>17. NodesSound'
    BY <1>1, <1>3, <1>10, <1>13, <1>14 DEF NodesSound
  <1>18. OncePerKey' /\ NamesLeft' /\ ConnectionsKept'
    BY <1>1 DEF IInv, OncePerKey, DiscoveredOnceWithinBounds, NamesLeft, ConnectionsKept
  <1>19. JumpsLeadToSeed'
    BY <1>1 DEF IInv, JumpsLeadToSeed, Scanning
  <1>20. NothingMissed'
    <2>1. ASSUME ~truncated
          PROVE  \A a \in visitedIps : a \in dialled
      <3>1. ASSUME NEW a \in visitedIps PROVE a \in dialled
        <4>1. a \in Addrs /\ (a \in dialled \/ task[a] = "waiting")
          BY <1>1, <2>1 DEF IInv, TypeOK, NothingMissed
        <4> QED BY <1>1, <1>3, <4>1
      <3> QED BY <3>1
    <2>2. ASSUME ~truncated, NEW d \in discovered
          PROVE  d.name \in expanded \/ \E j \in DOMAIN frontier' : frontier'[j].name = d.name
      <3>1. \/ d.name \in expanded
            \/ \E i \in DOMAIN frontier : frontier[i].name = d.name
            \/ \E a \in Addrs : result[a] # None /\ result[a].name = d.name
        BY <1>1, <2>2 DEF IInv, NothingMissed
      <3>2. CASE \E i \in DOMAIN frontier : frontier[i].name = d.name
        BY <1>13, <3>2
      <3>3. CASE \E a \in Addrs : result[a] # None /\ result[a].name = d.name
        <4>1. PICK a \in Addrs : result[a] # None /\ result[a].name = d.name
          BY <3>3
        <4>2. PICK i \in DOMAIN hits : hits[i] = result[a]
          BY <1>11, <4>1
        <4> QED BY <1>13, <4>1, <4>2
      <3> QED BY <3>1, <3>2, <3>3
    <2>3. dialled \subseteq visitedIps
      BY DEF IInv, NothingMissed
    <2> QED BY <1>1, <1>14, <2>1, <2>2, <2>3 DEF NothingMissed
  <1> QED BY <1>15, <1>16, <1>17, <1>18, <1>19, <1>20 DEF IInv

---------------------------------------------------------------------------
(* What happens meanwhile.                                                 *)

LEMMA DeadlineKeeps ==
  ASSUME IInv, Deadline
  PROVE  IInv'
  <1>1. /\ expired' = TRUE
        /\ UNCHANGED <<phase, frontier, via, fresh, task, result, harvestKeys, keySpace,
                       visitedIps, open, truncated, dialled, expanded>>
        /\ UNCHANGED <<visitedFps, discovered, kept, registry>>
    BY DEF Deadline, search, found, keys
  <1>2. TypeOK'
    BY <1>1 DEF IInv, TypeOK
  <1>3. PhaseInv' /\ NodesSound'
    BY <1>1 DEF IInv, PhaseInv, NodesSound
  <1>4. OncePerKey' /\ NamesLeft' /\ ConnectionsKept'
    BY <1>1 DEF IInv, OncePerKey, DiscoveredOnceWithinBounds, NamesLeft, ConnectionsKept
  <1>5. JumpsLeadToSeed' /\ NothingMissed'
    BY <1>1 DEF IInv, JumpsLeadToSeed, Scanning, NothingMissed
  <1> QED BY <1>2, <1>3, <1>4, <1>5 DEF IInv

LEMMA CancelKeeps ==
  ASSUME IInv, Cancel
  PROVE  IInv'
  <1>1. /\ phase' = "cancelled" /\ task' = NoTasks /\ result' = NoResults
        /\ via' = None /\ fresh' = <<>>
        /\ UNCHANGED <<frontier, harvestKeys, keySpace, visitedIps, open, truncated,
                       expired, dialled, expanded>>
        /\ UNCHANGED <<visitedFps, discovered, kept, registry>>
    BY DEF Cancel, found, keys
  <1>2. /\ task' \in [Addrs -> {"none", "waiting", "dialling", "ended"}]
        /\ result' \in [Addrs -> Item \cup {None}] /\ fresh' \in Seq(Addrs)
        /\ \A a \in Addrs : task'[a] = "none" /\ result'[a] = None
    BY <1>1 DEF NoTasks, NoResults
  <1>3. TypeOK'
    BY <1>1, <1>2 DEF IInv, TypeOK
  <1>4. PhaseInv' /\ NodesSound'
    BY <1>1, <1>2 DEF IInv, PhaseInv, NodesSound
  <1>5. OncePerKey' /\ NamesLeft' /\ ConnectionsKept'
    BY <1>1 DEF IInv, OncePerKey, DiscoveredOnceWithinBounds, NamesLeft, ConnectionsKept
  <1>6. JumpsLeadToSeed' /\ NothingMissed'
    BY <1>1, <1>2 DEF IInv, JumpsLeadToSeed, Scanning, NothingMissed
  <1> QED BY <1>3, <1>4, <1>5, <1>6 DEF IInv

\* An earlier scan's servers share no name with the ones of this scan.
LEMMA TeardownKeeps ==
  ASSUME IInv, NEW session \in {"old", "new"}, NEW left, Teardown(session, left)
  PROVE  IInv'
  <1> DEFINE targets == {s.name : s \in {x \in registry : x.session = session}}
  <1>1. /\ session = "new" => ~Scanning
        /\ registry' = {s \in registry : s.name \notin targets \ left}
        /\ UNCHANGED <<phase, frontier, via, fresh, task, result, harvestKeys, keySpace,
                       visitedIps, visitedFps, discovered, kept, open, truncated, expired,
                       dialled, expanded>>
    BY DEF Teardown, search, keys
  <1>2. registry' \in SUBSET registry
    BY <1>1
  <1>3. ASSUME session = "old", NEW s \in registry, s.session = "new"
        PROVE  s \in registry'
    <2>1. \A x \in registry : x.session = "old" => x.name # s.name
      BY <1>3 DEF IInv, NamesLeft
    <2> QED BY <1>1, <1>3, <2>1
  <1> HIDE DEF targets
  <1>4. TypeOK'
    BY <1>1, <1>2 DEF IInv, TypeOK
  <1>5. PhaseInv' /\ NodesSound'
    BY <1>1 DEF IInv, PhaseInv, NodesSound
  <1>6. OncePerKey' /\ ConnectionsKept'
    BY <1>1 DEF IInv, OncePerKey, DiscoveredOnceWithinBounds, ConnectionsKept
  <1>7. NamesLeft'
    <2>1. IsFiniteSet(registry) /\ TypeOK /\ OncePerKey /\ NamesLeft
      BY DEF IInv, NamesLeft
    <2>2. IsFiniteSet(registry') /\ Cardinality(registry') <= Cardinality(registry)
      BY <1>2, <2>1, FS_Subset
    <2>3. /\ Cardinality(registry') \in Nat /\ Cardinality(registry) \in Nat
          /\ Cardinality(Boxes) \in Nat /\ Cardinality(visitedFps) \in Nat
      BY <2>1, <2>2, Counted, Assumptions, FS_CardinalityType
    <2> QED BY <1>1, <1>2, <2>1, <2>2, <2>3 DEF NamesLeft
  <1>8. JumpsLeadToSeed'
    <2>1. ASSUME Scanning, NEW d \in discovered
          PROVE  \E s \in registry' : /\ s.name = d.name /\ s.session = "new"
                                      /\ s.jump = IF d.via = Local THEN None ELSE d.via
      <3>1. PICK s \in registry : /\ s.name = d.name /\ s.session = "new"
                                  /\ s.jump = IF d.via = Local THEN None ELSE d.via
        BY <2>1 DEF IInv, JumpsLeadToSeed
      <3>2. session = "old"
        BY <1>1, <2>1
      <3> QED BY <1>3, <3>1, <3>2
    <2>2. Scanning' <=> Scanning
      BY <1>1 DEF Scanning
    <2>3. \A d \in discovered : \/ d.via \in Seeds /\ d.depth = 1
                                \/ \E e \in discovered : e.name = d.via /\ d.depth = e.depth + 1
      BY DEF IInv, JumpsLeadToSeed
    <2> QED BY <1>1, <2>1, <2>2, <2>3 DEF JumpsLeadToSeed
  <1>9. NothingMissed'
    BY <1>1 DEF IInv, NothingMissed
  <1> QED BY <1>4, <1>5, <1>6, <1>7, <1>8, <1>9 DEF IInv

---------------------------------------------------------------------------
(* The probes.                                                             *)

\* A probe that goes on, and what it may rely on.
Probing(a) ==
  /\ phase = "expand" /\ via \in Item /\ Shallow(via) /\ Sound(via, discovered)
  /\ result[a] = None
  /\ task[a] = "dialling" => a \in dialled \/ truncated
  /\ a \in visitedIps

LEMMA ProbeIs ==
  ASSUME IInv, NEW a \in Addrs, task[a] \in {"waiting", "dialling"}
  PROVE  Probing(a)
  <1>1. phase = "expand" /\ via # None /\ Shallow(via) /\ result[a] = None
    BY DEF IInv, PhaseInv
  <1>2. via \in Item /\ Sound(via, discovered)
    BY <1>1 DEF IInv, TypeOK, NodesSound
  <1>3. a \in visitedIps /\ (task[a] = "dialling" => a \in dialled \/ truncated)
    BY <1>1 DEF IInv, NothingMissed
  <1> QED BY <1>1, <1>2, <1>3 DEF Probing

\* A probe that ends or goes on, and finds no new machine.
LEMMA ProbeKeeps ==
  ASSUME IInv, NEW a \in Addrs, task[a] \in {"waiting", "dialling"},
         NEW t \in {"dialling", "ended"}, task' = [task EXCEPT ![a] = t],
         dialled' \in {dialled, dialled \cup {a}},
         a \in dialled' \/ truncated',
         truncated' \in BOOLEAN, truncated => truncated',
         UNCHANGED <<phase, frontier, via, fresh, result, harvestKeys, keySpace, visitedIps,
                     open, kept, expired, registry, discovered, expanded>>,
         visitedFps \subseteq visitedFps', visitedFps' \subseteq Boxes
  PROVE  IInv'
  <1>1. Probing(a) /\ task \in [Addrs -> {"none", "waiting", "dialling", "ended"}]
    BY ProbeIs DEF IInv, TypeOK
  <1>2. /\ task' \in [Addrs -> {"none", "waiting", "dialling", "ended"}]
        /\ task'[a] = t /\ \A b \in Addrs : b # a => task'[b] = task[b]
    BY <1>1
  <1>3. TypeOK'
    BY <1>2 DEF IInv, TypeOK
  <1>4. PhaseInv' /\ NodesSound'
    <2>1. PhaseInv'
      <3>1. a \in Elems(fresh) /\ result[a] = None /\ phase = "expand"
        BY <1>1 DEF IInv, PhaseInv, Probing
      <3> QED BY <1>2, <3>1 DEF IInv, PhaseInv
    <2>2. NodesSound'
      BY DEF IInv, NodesSound
    <2> QED BY <2>1, <2>2
  <1>5. OncePerKey' /\ ConnectionsKept'
    BY DEF IInv, OncePerKey, DiscoveredOnceWithinBounds, ConnectionsKept
  <1>6. NamesLeft'
    <2>1. IsFiniteSet(Boxes) /\ TypeOK /\ OncePerKey /\ NamesLeft
      BY DiscoveryAssumption DEF IInv
    <2>2. IsFiniteSet(visitedFps') /\ visitedFps \in SUBSET visitedFps'
      BY <2>1, FS_Subset
    <2>3. Cardinality(visitedFps) <= Cardinality(visitedFps')
      BY <2>2, FS_Subset
    <2>4. /\ Cardinality(visitedFps) \in Nat /\ Cardinality(visitedFps') \in Nat
          /\ Cardinality(registry) \in Nat /\ Cardinality(Boxes) \in Nat
      BY <2>1, <2>2, Counted, Assumptions, FS_CardinalityType
    <2> QED BY <2>1, <2>3, <2>4 DEF NamesLeft
  <1>7. JumpsLeadToSeed'
    BY DEF IInv, JumpsLeadToSeed, Scanning
  <1>8. NothingMissed'
    <2>1. /\ phase = "expand" /\ a \in visitedIps /\ dialled \subseteq visitedIps
          /\ \A b \in Addrs : task[b] # "none" => b \in visitedIps
      BY <1>1 DEF Probing, IInv, NothingMissed
    <2>2. dialled' \subseteq visitedIps' /\ \A b \in Addrs : task'[b] # "none" => b \in visitedIps'
      BY <1>2, <2>1
    <2>3. ~truncated' => \A b \in visitedIps' : b \in dialled' \/ task'[b] = "waiting"
      <3>1. SUFFICES ASSUME ~truncated', NEW b \in visitedIps
                     PROVE  b \in dialled' \/ task'[b] = "waiting"
        OBVIOUS
      <3>2. b \in Addrs /\ ~truncated /\ (b \in dialled \/ task[b] = "waiting")
        BY <2>1, <3>1 DEF IInv, TypeOK, NothingMissed
      <3> QED BY <1>2, <3>1, <3>2
    <2>4. ~truncated' => \A d \in discovered :
            \/ d.name \in expanded
            \/ \E i \in DOMAIN frontier : frontier[i].name = d.name
            \/ \E b \in Addrs : result[b] # None /\ result[b].name = d.name
      BY <2>1 DEF IInv, NothingMissed
    <2> QED BY <2>1, <2>2, <2>3, <2>4 DEF NothingMissed
  <1> QED BY <1>3, <1>4, <1>5, <1>6, <1>7, <1>8 DEF IInv

LEMMA DropAddressKeeps ==
  ASSUME IInv, NEW a \in Addrs, DropAddress(a)
  PROVE  IInv'
  <1>1. /\ task[a] = "waiting" /\ truncated' = TRUE /\ task' = [task EXCEPT ![a] = "ended"]
        /\ UNCHANGED <<phase, frontier, via, fresh, result, harvestKeys, keySpace, visitedIps,
                       open, kept, expired, registry, discovered, expanded, visitedFps, dialled>>
    BY DEF DropAddress, LetIn, Ends, search, keys, found
  <1>2. visitedFps \subseteq Boxes
    BY DEF IInv, TypeOK
  <1> QED BY <1>1, <1>2, ProbeKeeps

LEMMA DialAddressKeeps ==
  ASSUME IInv, NEW a \in Addrs, DialAddress(a)
  PROVE  IInv'
  <1>1. /\ task[a] = "waiting" /\ dialled' = dialled \cup {a}
        /\ task' = [task EXCEPT ![a] = "dialling"]
        /\ UNCHANGED <<phase, frontier, via, fresh, result, harvestKeys, keySpace, visitedIps,
                       open, kept, expired, registry, discovered, expanded, visitedFps,
                       truncated>>
    BY DEF DialAddress, LetIn, search, keys, found
  <1>2. visitedFps \subseteq Boxes /\ truncated \in BOOLEAN
    BY DEF IInv, TypeOK
  <1> QED BY <1>1, <1>2, ProbeKeeps

LEMMA DialFailsKeeps ==
  ASSUME IInv, NEW a \in Addrs, DialFails(a)
  PROVE  IInv'
  <1>1. /\ task[a] = "dialling" /\ task' = [task EXCEPT ![a] = "ended"]
        /\ UNCHANGED <<phase, frontier, via, fresh, result, harvestKeys, keySpace, visitedIps,
                       open, kept, expired, registry, discovered, expanded, visitedFps,
                       truncated, dialled>>
    BY DEF DialFails, Ends, search, keys, found
  <1>2. visitedFps \subseteq Boxes /\ truncated \in BOOLEAN /\ (a \in dialled \/ truncated)
    BY <1>1, ProbeIs DEF IInv, TypeOK, Probing
  <1> QED BY <1>1, <1>2, ProbeKeeps

LEMMA NewBoxLostKeeps ==
  ASSUME IInv, NEW a \in Addrs, NEW b \in Boxes, NewBoxLost(a, b)
  PROVE  IInv'
  <1>1. /\ task[a] = "dialling" /\ task' = [task EXCEPT ![a] = "ended"]
        /\ visitedFps' = visitedFps \cup {b} /\ truncated' = (truncated \/ Full)
        /\ UNCHANGED <<phase, frontier, via, fresh, result, harvestKeys, keySpace, visitedIps,
                       open, kept, expired, registry, discovered, expanded, dialled>>
    BY DEF NewBoxLost, Answers, Ends, search, keys
  <1>2. visitedFps \subseteq Boxes /\ truncated \in BOOLEAN /\ (a \in dialled \/ truncated)
    BY <1>1, ProbeIs DEF IInv, TypeOK, Probing
  <1>3. truncated' \in BOOLEAN /\ (truncated => truncated') /\ (a \in dialled' \/ truncated')
    BY <1>1, <1>2 DEF Full
  <1> QED BY <1>1, <1>2, <1>3, ProbeKeeps

\* What _record_addr makes of the discovered machine d: the fields it keeps.
WithAddr(d, a, b) == IF d.fp = b THEN [d EXCEPT !.addrs = @ \cup {a}] ELSE d

LEMMA WithAddrIs ==
  ASSUME NEW d \in Host, NEW a \in Addrs, NEW b
  PROVE  /\ WithAddr(d, a, b) \in Host
         /\ WithAddr(d, a, b).name = d.name /\ WithAddr(d, a, b).fp = d.fp
         /\ WithAddr(d, a, b).via = d.via /\ WithAddr(d, a, b).depth = d.depth
  BY DEF WithAddr, Host

LEMMA SameBoxKeeps ==
  ASSUME IInv, NEW a \in Addrs, NEW b \in Boxes, SameBox(a, b)
  PROVE  IInv'
  <1>1. /\ task[a] = "dialling" /\ task' = [task EXCEPT ![a] = "ended"]
        /\ discovered' = {WithAddr(d, a, b) : d \in discovered}
        /\ UNCHANGED <<phase, frontier, via, fresh, result, harvestKeys, keySpace, visitedIps,
                       visitedFps, open, kept, expired, registry, expanded, truncated, dialled>>
    BY DEF SameBox, Answers, Ends, search, keys, WithAddr
  <1>2. /\ Probing(a) /\ task \in [Addrs -> {"none", "waiting", "dialling", "ended"}]
        /\ discovered \subseteq Host /\ truncated \in BOOLEAN
    BY <1>1, ProbeIs DEF IInv, TypeOK
  <1>3. /\ task' \in [Addrs -> {"none", "waiting", "dialling", "ended"}]
        /\ task'[a] = "ended" /\ \A c \in Addrs : c # a => task'[c] = task[c]
    BY <1>1, <1>2
  <1>4. \A d \in discovered : /\ WithAddr(d, a, b) \in discovered' /\ WithAddr(d, a, b) \in Host
                              /\ WithAddr(d, a, b).name = d.name /\ WithAddr(d, a, b).fp = d.fp
                              /\ WithAddr(d, a, b).via = d.via
                              /\ WithAddr(d, a, b).depth = d.depth
    BY <1>1, <1>2, WithAddrIs
  <1>5. \A e \in discovered' : \E d \in discovered : e = WithAddr(d, a, b)
    BY <1>1
  <1>6. TypeOK'
    BY <1>1, <1>3, <1>4, <1>5 DEF IInv, TypeOK
  <1>7. PhaseInv'
    <2>1. a \in Elems(fresh) /\ result[a] = None /\ phase = "expand"
      BY <1>1, <1>2 DEF IInv, PhaseInv, Probing
    <2> QED BY <1>1, <1>3, <2>1 DEF IInv, PhaseInv
  <1>8. NodesSound'
    <2>1. \A it : Sound(it, discovered) => Sound(it, discovered')
      BY <1>4 DEF Sound
    <2> QED BY <1>1, <2>1 DEF IInv, NodesSound
  <1>9. OncePerKey'
    <2>1. /\ IsFiniteSet(discovered) /\ \A d \in discovered : d.fp \in visitedFps
          /\ \A d, e \in discovered : d.fp = e.fp => d = e
          /\ Cardinality(discovered) <= MaxNodes
      BY DEF IInv, OncePerKey, DiscoveredOnceWithinBounds
    <2> DEFINE f == [d \in discovered |-> WithAddr(d, a, b)]
    <2>2. f \in Surjection(discovered, discovered')
      BY <1>1 DEF Surjection
    <2>3. IsFiniteSet(discovered') /\ Cardinality(discovered') <= Cardinality(discovered)
      BY <2>1, <2>2, FS_Surjection
    <2>4. Cardinality(discovered') \in Nat /\ Cardinality(discovered) \in Nat
      BY <2>1, <2>3, FS_CardinalityType
    <2>5. Cardinality(discovered') <= MaxNodes
      BY <2>1, <2>3, <2>4, Assumptions
    <2>6. \A d, e \in discovered' : d.fp = e.fp => d = e
      BY <1>4, <1>5, <2>1
    <2>7. \A d \in discovered' : d.fp \in visitedFps'
      BY <1>1, <1>4, <1>5, <2>1
    <2> QED BY <2>3, <2>5, <2>6, <2>7 DEF OncePerKey, DiscoveredOnceWithinBounds
  <1>10. NamesLeft' /\ ConnectionsKept'
    BY <1>1 DEF IInv, NamesLeft, ConnectionsKept
  <1>11. JumpsLeadToSeed'
    <2>1. SUFFICES ASSUME NEW e \in discovered'
                   PROVE  /\ Scanning => \E s \in registry :
                               /\ s.name = e.name /\ s.session = "new"
                               /\ s.jump = IF e.via = Local THEN None ELSE e.via
                          /\ \/ e.via \in Seeds /\ e.depth = 1
                             \/ \E g \in discovered' : g.name = e.via /\ e.depth = g.depth + 1
      BY <1>1 DEF JumpsLeadToSeed, Scanning
    <2>2. PICK d \in discovered : e = WithAddr(d, a, b)
      BY <1>5
    <2>3. e.name = d.name /\ e.via = d.via /\ e.depth = d.depth
      BY <1>4, <2>2
    <2>4. /\ Scanning => \E s \in registry :
               /\ s.name = d.name /\ s.session = "new"
               /\ s.jump = IF d.via = Local THEN None ELSE d.via
          /\ \/ d.via \in Seeds /\ d.depth = 1
             \/ \E g \in discovered : g.name = d.via /\ d.depth = g.depth + 1
      BY DEF IInv, JumpsLeadToSeed
    <2>5. (\E g \in discovered : g.name = d.via /\ d.depth = g.depth + 1)
            => \E g \in discovered' : g.name = d.via /\ d.depth = g.depth + 1
      BY <1>4
    <2> QED BY <2>3, <2>4, <2>5
  <1>12. NothingMissed'
    <2>1. /\ phase = "expand" /\ a \in visitedIps /\ (a \in dialled \/ truncated)
          /\ dialled \subseteq visitedIps
          /\ \A c \in Addrs : task[c] # "none" => c \in visitedIps
      BY <1>1, <1>2 DEF Probing, IInv, NothingMissed
    <2>2. \A c \in Addrs : task'[c] # "none" => c \in visitedIps
      BY <1>3, <2>1
    <2>3. ~truncated => \A c \in visitedIps : c \in dialled \/ task'[c] = "waiting"
      <3>1. SUFFICES ASSUME ~truncated, NEW c \in visitedIps
                     PROVE  c \in dialled \/ task'[c] = "waiting"
        OBVIOUS
      <3>2. c \in Addrs /\ (c \in dialled \/ task[c] = "waiting")
        BY <2>1, <3>1 DEF IInv, TypeOK, NothingMissed
      <3> QED BY <1>3, <2>1, <3>1, <3>2
    <2>4. ASSUME ~truncated, NEW e \in discovered'
          PROVE  \/ e.name \in expanded
                 \/ \E i \in DOMAIN frontier : frontier[i].name = e.name
                 \/ \E c \in Addrs : result[c] # None /\ result[c].name = e.name
      <3>1. PICK d \in discovered : e = WithAddr(d, a, b)
        BY <1>5
      <3>2. e.name = d.name
        BY <1>4, <3>1
      <3> QED BY <2>1, <2>4, <3>2 DEF IInv, NothingMissed
    <2> QED BY <1>1, <2>1, <2>2, <2>3, <2>4 DEF NothingMissed
  <1> QED BY <1>6, <1>7, <1>8, <1>9, <1>10, <1>11, <1>12 DEF IInv

LEMMA NewBoxKeeps ==
  ASSUME IInv, NEW a \in Addrs, NEW b \in Boxes, NewBox(a, b)
  PROVE  IInv'
  <1> DEFINE n == FreeName(b)
             s == [name |-> n, session |-> "new",
                   jump |-> IF via.box = Local THEN None ELSE via.name]
             h == [name |-> n, fp |-> b, addrs |-> {a}, via |-> via.name,
                   depth |-> via.depth + 1, pool |-> Redialable]
             it == [name |-> n, box |-> b, depth |-> via.depth + 1]
  <1>1. /\ task[a] = "dialling" /\ task' = [task EXCEPT ![a] = "ended"]
        /\ b \notin visitedFps /\ ~Full /\ visitedFps' = visitedFps \cup {b}
        /\ registry' = registry \cup {s} /\ discovered' = discovered \cup {h}
        /\ result' = [result EXCEPT ![a] = it]
        /\ kept' = kept \cup {a} /\ open' = open \cup {a}
        /\ UNCHANGED <<phase, frontier, via, fresh, harvestKeys, keySpace, visitedIps,
                       expired, expanded, truncated, dialled>>
    BY DEF NewBox, Answers, Ends, search, keys
  <1>2. /\ Probing(a) /\ task \in [Addrs -> {"none", "waiting", "dialling", "ended"}]
        /\ result \in [Addrs -> Item \cup {None}] /\ truncated \in BOOLEAN
        /\ TypeOK /\ OncePerKey /\ NamesLeft
    BY <1>1, ProbeIs DEF IInv, TypeOK
  <1>3. /\ via.name \in Places \cup Names /\ via.box \in Places
        /\ via.depth \in Nat /\ via.depth + 1 \in 0..MaxDepth
        /\ via.box = Local <=> via.name = Local
    BY <1>2, Assumptions DEF Probing, Item, Shallow, Sound
  <1>4. n \in Names /\ ~Taken(n)
    BY <1>2, FreeNameIsFree
  <1>5. n # Local /\ b # Local /\ b \in Places
    BY <1>4, Assumptions DEF Places
  <1>6. s \in Server /\ h \in Host /\ it \in Item
    <2>1. s \in Server
      BY <1>3, <1>4 DEF Server
    <2>2. Redialable \in BOOLEAN
      BY DEF Redialable
    <2>3. h \in Host
      BY <1>3, <1>4, <2>2 DEF Host
    <2>4. it \in Item
      BY <1>3, <1>4, <1>5 DEF Item
    <2> QED BY <2>1, <2>3, <2>4
  <1>7. /\ s.name = n /\ s.session = "new"
        /\ s.jump = IF via.name = Local THEN None ELSE via.name
        /\ h.name = n /\ h.fp = b /\ h.via = via.name /\ h.depth = via.depth + 1
        /\ it.name = n /\ it.box = b /\ it.depth = via.depth + 1
    BY <1>3
  <1> HIDE DEF n, s, h, it
  <1>8. it # None
    BY <1>6, Assumptions
  <1>9. /\ task' \in [Addrs -> {"none", "waiting", "dialling", "ended"}]
        /\ task'[a] = "ended" /\ \A c \in Addrs : c # a => task'[c] = task[c]
        /\ result' \in [Addrs -> Item \cup {None}]
        /\ result'[a] = it /\ \A c \in Addrs : c # a => result'[c] = result[c]
    BY <1>1, <1>2, <1>6
  <1>10. TypeOK'
    BY <1>1, <1>2, <1>6, <1>9 DEF TypeOK
  <1>11. PhaseInv'
    <2>1. a \in Elems(fresh) /\ phase = "expand"
      BY <1>1, <1>2 DEF IInv, PhaseInv, Probing
    <2> QED BY <1>1, <1>9, <2>1 DEF IInv, PhaseInv
  <1>12. NodesSound'
    <2>1. \A x : Sound(x, discovered) => Sound(x, discovered')
      BY <1>1 DEF Sound
    <2>2. Sound(it, discovered')
      BY <1>1, <1>5, <1>7 DEF Sound
    <2>3. ASSUME NEW c \in Addrs, result'[c] # None
          PROVE  Sound(result'[c], discovered')
      <3>1. CASE c = a
        BY <1>9, <2>2, <3>1
      <3>2. CASE c # a
        BY <1>9, <2>1, <2>3, <3>2 DEF IInv, NodesSound
      <3> QED BY <3>1, <3>2
    <2> QED BY <1>1, <2>1, <2>3 DEF IInv, NodesSound
  <1>13. OncePerKey'
    <2>1. /\ IsFiniteSet(discovered) /\ \A d \in discovered : d.fp \in visitedFps
          /\ \A d, e \in discovered : d.fp = e.fp => d = e
          /\ Cardinality(discovered) \in Nat /\ Cardinality(discovered) < MaxNodes
      BY <1>1, <1>2, Counted, Assumptions DEF OncePerKey, DiscoveredOnceWithinBounds, Full
    <2>2. /\ IsFiniteSet(discovered')
          /\ Cardinality(discovered') <= Cardinality(discovered) + 1
      <3>1. /\ IsFiniteSet(discovered \cup {h})
            /\ Cardinality(discovered \cup {h}) =
                 IF h \in discovered THEN Cardinality(discovered) ELSE Cardinality(discovered) + 1
        BY <2>1, FS_AddElement
      <3> QED BY <1>1, <2>1, <3>1
    <2>3. Cardinality(discovered') \in Nat
      BY <2>2, FS_CardinalityType
    <2>4. Cardinality(discovered') <= MaxNodes
      BY <2>1, <2>2, <2>3, Assumptions
    <2>5. \A d, e \in discovered' : d.fp = e.fp => d = e
      BY <1>1, <1>7, <2>1
    <2>6. \A d \in discovered' : d.fp \in visitedFps'
      BY <1>1, <1>7, <2>1
    <2> QED BY <2>2, <2>4, <2>5, <2>6 DEF OncePerKey, DiscoveredOnceWithinBounds
  <1>14. NamesLeft'
    <2>1. /\ IsFiniteSet(registry) /\ IsFiniteSet(visitedFps)
          /\ Cardinality(registry) \in Nat /\ Cardinality(visitedFps) \in Nat
          /\ Cardinality(Boxes) \in Nat
          /\ Cardinality(registry) <= Cardinality(Boxes) + Cardinality(visitedFps)
      BY <1>2, Counted, Assumptions DEF NamesLeft
    <2>2. IsFiniteSet(registry') /\ Cardinality(registry') <= Cardinality(registry) + 1
      <3>1. /\ IsFiniteSet(registry \cup {s})
            /\ Cardinality(registry \cup {s}) =
                 IF s \in registry THEN Cardinality(registry) ELSE Cardinality(registry) + 1
        BY <2>1, FS_AddElement
      <3> QED BY <1>1, <2>1, <3>1
    <2>3. Cardinality(visitedFps') = Cardinality(visitedFps) + 1
      BY <1>1, <2>1, FS_AddElement
    <2>4. Cardinality(registry') \in Nat
      BY <2>2, FS_CardinalityType
    <2>5. \A x, y \in registry' : x.name = y.name => x = y
      <3>1. \A x \in registry : x.name # n
        BY <1>4 DEF Taken
      <3> QED BY <1>1, <1>2, <1>7, <3>1 DEF NamesLeft
    <2>6. Cardinality(registry') <= Cardinality(Boxes) + Cardinality(visitedFps')
      BY <2>1, <2>2, <2>3, <2>4
    <2> QED BY <2>2, <2>5, <2>6 DEF NamesLeft
  <1>15. ConnectionsKept'
    BY <1>1, <1>2 DEF IInv, ConnectionsKept, Probing
  <1>16. JumpsLeadToSeed'
    <2>1. ASSUME NEW d \in discovered
          PROVE  /\ Scanning => \E x \in registry' :
                      /\ x.name = d.name /\ x.session = "new"
                      /\ x.jump = IF d.via = Local THEN None ELSE d.via
                 /\ \/ d.via \in Seeds /\ d.depth = 1
                    \/ \E e \in discovered' : e.name = d.via /\ d.depth = e.depth + 1
      <3>1. /\ Scanning => \E x \in registry :
                 /\ x.name = d.name /\ x.session = "new"
                 /\ x.jump = IF d.via = Local THEN None ELSE d.via
            /\ \/ d.via \in Seeds /\ d.depth = 1
               \/ \E e \in discovered : e.name = d.via /\ d.depth = e.depth + 1
        BY DEF IInv, JumpsLeadToSeed
      <3>2. discovered \subseteq discovered' /\ registry \subseteq registry'
        BY <1>1
      <3> QED BY <3>1, <3>2
    <2>2. \E x \in registry' : /\ x.name = h.name /\ x.session = "new"
                               /\ x.jump = IF h.via = Local THEN None ELSE h.via
      BY <1>1, <1>7
    <2>3. \/ h.via \in Seeds /\ h.depth = 1
          \/ \E e \in discovered' : e.name = h.via /\ h.depth = e.depth + 1
      <3>1. Sound(via, discovered)
        BY <1>2 DEF Probing
      <3>2. CASE via.name \in Seeds /\ via.depth = 0
        BY <1>7, <3>2
      <3>3. CASE \E d \in discovered : d.name = via.name /\ d.depth = via.depth
        BY <1>1, <1>7, <3>3
      <3> QED BY <3>1, <3>2, <3>3 DEF Sound
    <2>4. Scanning' <=> Scanning
      BY <1>1 DEF Scanning
    <2> QED BY <1>1, <2>1, <2>2, <2>3, <2>4 DEF JumpsLeadToSeed
  <1>17. NothingMissed'
    <2>1. /\ phase = "expand" /\ a \in visitedIps /\ (a \in dialled \/ truncated)
          /\ dialled \subseteq visitedIps /\ result[a] = None
          /\ \A c \in Addrs : task[c] # "none" => c \in visitedIps
      BY <1>1, <1>2 DEF Probing, IInv, NothingMissed
    <2>2. \A c \in Addrs : task'[c] # "none" => c \in visitedIps
      BY <1>9, <2>1
    <2>3. ~truncated => \A c \in visitedIps : c \in dialled \/ task'[c] = "waiting"
      <3>1. SUFFICES ASSUME ~truncated, NEW c \in visitedIps
                     PROVE  c \in dialled \/ task'[c] = "waiting"
        OBVIOUS
      <3>2. c \in Addrs /\ (c \in dialled \/ task[c] = "waiting")
        BY <1>2, <2>1, <3>1 DEF IInv, TypeOK, NothingMissed
      <3> QED BY <1>9, <2>1, <3>1, <3>2
    <2>4. ASSUME ~truncated, NEW d \in discovered
          PROVE  \/ d.name \in expanded
                 \/ \E i \in DOMAIN frontier : frontier[i].name = d.name
                 \/ \E c \in Addrs : result'[c] # None /\ result'[c].name = d.name
      <3>1. \/ d.name \in expanded
            \/ \E i \in DOMAIN frontier : frontier[i].name = d.name
            \/ \E c \in Addrs : result[c] # None /\ result[c].name = d.name
        BY <2>1, <2>4 DEF IInv, NothingMissed
      <3>2. CASE \E c \in Addrs : result[c] # None /\ result[c].name = d.name
        <4>1. PICK c \in Addrs : result[c] # None /\ result[c].name = d.name
          BY <3>2
        <4>2. result'[c] = result[c]
          BY <1>9, <2>1, <4>1
        <4> QED BY <4>1, <4>2
      <3> QED BY <3>1, <3>2
    <2>5. \E c \in Addrs : result'[c] # None /\ result'[c].name = h.name
      BY <1>7, <1>8, <1>9
    <2> QED BY <1>1, <2>1, <2>2, <2>3, <2>4, <2>5 DEF NothingMissed
  <1> QED BY <1>10, <1>11, <1>12, <1>13, <1>14, <1>15, <1>16, <1>17 DEF IInv

---------------------------------------------------------------------------
(* All the steps.                                                          *)

LEMMA StepKeeps ==
  ASSUME IInv, Step
  PROVE  IInv'
  <1>1. ASSUME NEW up \in SUBSET (Seeds \ {Local}), Start(up) PROVE IInv'
    BY <1>1, StartKeeps
  <1>2. CASE Finish \/ Skip \/ Collect
    BY <1>2, FinishKeeps, SkipKeeps, CollectKeeps
  <1>3. ASSUME NEW got \in SUBSET Addrs, Expand(got) PROVE IInv'
    BY <1>3, ExpandKeeps
  <1>4. ASSUME NEW a \in Addrs, DropAddress(a) \/ DialAddress(a) \/ DialFails(a) PROVE IInv'
    BY <1>4, DropAddressKeeps, DialAddressKeeps, DialFailsKeeps
  <1>5. ASSUME NEW a \in Addrs, NEW b \in Boxes,
               SameBox(a, b) \/ NewBoxLost(a, b) \/ NewBox(a, b)
        PROVE  IInv'
    BY <1>5, SameBoxKeeps, NewBoxLostKeeps, NewBoxKeeps
  <1> QED BY <1>1, <1>2, <1>3, <1>4, <1>5 DEF Step

LEMMA NextIInv == IInv /\ [Next]_vars => IInv'
  <1> SUFFICES ASSUME IInv, [Next]_vars PROVE IInv'
    OBVIOUS
  <1>1. CASE Step
    BY <1>1, StepKeeps
  <1>2. CASE Deadline \/ Cancel
    BY <1>2, DeadlineKeeps, CancelKeeps
  <1>3. ASSUME NEW session \in {"old", "new"}, NEW left \in SUBSET {s.name : s \in registry},
               Teardown(session, left)
        PROVE  IInv'
    BY <1>3, TeardownKeeps
  <1>4. CASE UNCHANGED vars
    <2>1. UNCHANGED <<phase, frontier, via, fresh, task, result, harvestKeys, keySpace,
                      visitedIps, visitedFps, discovered, kept, open, truncated, expired,
                      registry, dialled, expanded>>
      BY <1>4 DEF vars
    <2>2. TypeOK'
      BY <2>1 DEF IInv, TypeOK
    <2>3. PhaseInv' /\ NodesSound' /\ OncePerKey' /\ NamesLeft'
      BY <2>1 DEF IInv, PhaseInv, NodesSound, OncePerKey, DiscoveredOnceWithinBounds, NamesLeft
    <2>4. JumpsLeadToSeed' /\ NothingMissed' /\ ConnectionsKept'
      BY <2>1 DEF IInv, JumpsLeadToSeed, Scanning, NothingMissed, ConnectionsKept
    <2> QED BY <2>2, <2>3, <2>4 DEF IInv
  <1> QED BY <1>1, <1>2, <1>3, <1>4 DEF Next

---------------------------------------------------------------------------
\* IInv is an invariant of Discovery.
THEOREM DiscoveryInvariant == Spec => []IInv
  BY InitIInv, NextIInv, PTL DEF Spec

\* The frontier, the probes and what they found keep their types; a node of the
\* frontier is never deeper than max_depth (DiscoveryEngine.run).
THEOREM DiscoveryTypeCorrect == Spec => []TypeOK
<1>1. IInv => TypeOK
  BY DEF IInv
<1> QED BY <1>1, DiscoveryInvariant, PTL

\* However many probes overlap, a machine is discovered once and the scan stays
\* within max_nodes: fingerprint and bound are looked at and written without an
\* await in between (_one).
THEOREM DiscoveryOnceWithinBounds == Spec => []DiscoveredOnceWithinBounds
<1>1. IInv => DiscoveredOnceWithinBounds
  BY DEF IInv, OncePerKey
<1> QED BY <1>1, DiscoveryInvariant, PTL

\* The jump hosts of what was discovered lead to a seed, and while the scan runs
\* each machine is registered under a name of its own: _register always finds a name
\* that is free, and no teardown of an earlier scan takes it away.
THEOREM DiscoveryJumpsLeadToSeed == Spec => []JumpsLeadToSeed
<1>1. IInv => JumpsLeadToSeed
  BY DEF IInv
<1> QED BY <1>1, DiscoveryInvariant, PTL

\* A scan that ends without the truncated flag has tried every address it reserved
\* and expanded every machine it discovered (run, _expand, _one).
THEOREM DiscoveryUntruncatedIsComplete == Spec => []UntruncatedIsComplete
<1>1. IInv => UntruncatedIsComplete
  <2> SUFFICES ASSUME IInv, phase = "done", ~truncated
               PROVE  visitedIps = dialled /\ \A d \in discovered : d.name \in expanded
    BY DEF UntruncatedIsComplete
  <2>1. /\ frontier = <<>> /\ dialled \subseteq visitedIps
        /\ \A a \in Addrs : task[a] = "none" /\ result[a] = None
        /\ visitedIps \subseteq Addrs
    BY DEF IInv, TypeOK, PhaseInv, NothingMissed
  <2>2. \A a \in visitedIps : a \in dialled \/ task[a] = "waiting"
    BY DEF IInv, NothingMissed
  <2>3. \A d \in discovered : \/ d.name \in expanded
                              \/ \E i \in DOMAIN frontier : frontier[i].name = d.name
                              \/ \E a \in Addrs : result[a] # None /\ result[a].name = d.name
    BY DEF IInv, NothingMissed
  <2>4. visitedIps = dialled
    BY <2>1, <2>2
  <2>5. ASSUME NEW d \in discovered PROVE d.name \in expanded
    <3>1. ~\E i \in DOMAIN frontier : frontier[i].name = d.name
      BY <2>1
    <3> QED BY <2>1, <2>3, <3>1
  <2> QED BY <2>4, <2>5
<1> QED BY <1>1, DiscoveryInvariant, PTL

\* A scan that ends has closed every connection it made, whatever failed (_one closes
\* what it does not keep, run closes what was kept).
THEOREM DiscoveryConnectionsClosed == Spec => []ConnectionsClosed
<1>1. IInv => ConnectionsClosed
  BY DEF IInv, ConnectionsKept, ConnectionsClosed
<1> QED BY <1>1, DiscoveryInvariant, PTL
==============================================================================
