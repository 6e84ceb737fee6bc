--------------------------- MODULE RegistryProofs ---------------------------
(***************************************************************************)
(* Proofs about Registry: the registry and its file, the chains of jump     *)
(* hosts, and the cycle check of load_config, for any names and chains.     *)
(***************************************************************************)
EXTENDS Registry, Integers, FiniteSetTheorems, WellFoundedInduction, TLAPS

---------------------------------------------------------------------------
(* Induction over numbers.                                                 *)

\* A set of numbers that is not empty has a smallest one.
LEMMA SmallestNat ==
  ASSUME NEW S \in SUBSET Nat, S # {}
  PROVE  \E n \in S : \A k \in S : n <= k
  <1>1. PICK m \in S : TRUE
    OBVIOUS
  <1> DEFINE I == 0..m
             R == StrictSubsetOrdering(I)
             U == {0..k : k \in S \cap I}
  <1>2. IsFiniteSet(I)
    BY FS_Interval
  <1>3. /\ \A V \in SUBSET I : IsFiniteSet(V)
        /\ U \subseteq SUBSET I /\ U # {}
    <2>1. \A V \in SUBSET I : IsFiniteSet(V)
      BY <1>2, FS_Subset
    <2>2. 0..m \in U
      OBVIOUS
    <2> QED BY <2>1, <2>2
  <1>4. U \subseteq FiniteSubsetsOf(I)
    BY <1>3 DEF FiniteSubsetsOf
  <1>5. PICK V \in U : \A W \in U : <<W, V>> \notin R
    BY <1>3, <1>4, FS_StrictSubsetOrderingWellFounded, WFMin
  <1>6. PICK n \in S \cap I : V = 0..n
    OBVIOUS
  <1>7. ASSUME NEW k \in S PROVE n <= k
    <2>1. SUFFICES ASSUME k < n PROVE FALSE
      OBVIOUS
    <2>2. k \in I /\ 0..k \in U
      BY <2>1
    <2>3. 0..k \subseteq 0..n /\ 0..k # 0..n
      <3>1. n \in 0..n /\ n \notin 0..k
        BY <2>1
      <3> QED BY <2>1, <3>1
    <2>4. 0..k \in SUBSET I /\ 0..n \in SUBSET I
      BY <2>2
    <2>5. <<0..k, 0..n>> \in R
      BY <2>3, <2>4 DEF StrictSubsetOrdering
    <2> QED BY <1>5, <1>6, <2>2, <2>5
  <1> QED BY <1>7

\* Induction up to n, over a set instead of a predicate.
LEMMA InductionUpTo ==
  ASSUME NEW n \in Nat, NEW S, 0 \in S, \A j \in 1..n : j - 1 \in S => j \in S
  PROVE  \A j \in 0..n : j \in S
<1> SUFFICES ASSUME NEW c \in 0..n, c \notin S PROVE FALSE
  OBVIOUS
<1>1. PICK m \in {j \in 0..n : j \notin S} : \A k \in {j \in 0..n : j \notin S} : m <= k
  <2>1. {j \in 0..n : j \notin S} \in SUBSET Nat /\ {j \in 0..n : j \notin S} # {}
    OBVIOUS
  <2> QED
    BY <2>1, SmallestNat
<1>2. m \in 1..n /\ m - 1 \in 0..n
  BY <1>1
<1>3. m - 1 \in S
  BY <1>1, <1>2
<1> QED
  BY <1>1, <1>2, <1>3

---------------------------------------------------------------------------
(* Walks along jump hosts, and the cycle check.                            *)

\* The number of names, which bounds the walks.
N == Cardinality(Names)

\* The server after m.
After(f, m) == IF m = None \/ f[m] = None THEN None ELSE f[m].jump

\* w is a walk of k steps from n on.
IsWalk(f, n, k, w) == w = [i \in 0..k |-> IF i = 0 THEN n ELSE After(f, w[i - 1])]

LEMMA NType == N \in Nat
BY FS_CardinalityType, RegistryAssumption DEF N

\* One step more.
LEMMA WalkLonger ==
  ASSUME NEW f, NEW n, NEW k \in Nat \ {0}, NEW v, IsWalk(f, n, k - 1, v)
  PROVE  \E w : IsWalk(f, n, k, w)
<1> DEFINE w == [i \in 0..k |-> IF i = k THEN After(f, v[k - 1]) ELSE v[i]]
<1>1. ASSUME NEW i \in 0..(k - 1) PROVE v[i] = IF i = 0 THEN n ELSE After(f, v[i - 1])
  BY DEF IsWalk
<1>2. ASSUME NEW i \in 0..k PROVE w[i] = IF i = 0 THEN n ELSE After(f, w[i - 1])
  <2>1. CASE i = k
    <3>1. w[i] = After(f, v[k - 1]) /\ i - 1 \in 0..k /\ i - 1 # k
      BY <2>1
    <3>2. w[i - 1] = v[k - 1]
      BY <2>1, <3>1
    <3> QED
      BY <2>1, <3>1, <3>2
  <2>2. CASE i # k
    <3>1. i \in 0..(k - 1) /\ w[i] = v[i]
      BY <2>2
    <3>2. i # 0 => w[i - 1] = v[i - 1]
      BY <2>2
    <3> HIDE DEF w
    <3> QED
      BY <1>1, <3>1, <3>2
  <2> QED
    BY <2>1, <2>2
<1>3. IsWalk(f, n, k, w)
  <2>1. w = [i \in 0..k |-> w[i]]
    OBVIOUS
  <2> HIDE DEF w
  <2> QED
    BY <1>2, <2>1 DEF IsWalk
<1> QED
  BY <1>3

\* There is a walk of every length.
LEMMA WalkExists ==
  ASSUME NEW f, NEW n
  PROVE  \E w : IsWalk(f, n, N, w)
<1> DEFINE S == {k \in 0..N : \E w : IsWalk(f, n, k, w)}
<1>1. 0 \in S
  <2> DEFINE w == [i \in 0..0 |-> n]
  <2>1. IsWalk(f, n, 0, w)
    BY DEF IsWalk
  <2> QED
    BY <2>1, NType
<1>2. ASSUME NEW k \in 1..N, k - 1 \in S PROVE k \in S
  <2>1. k \in Nat \ {0} /\ k \in 0..N
    BY NType
  <2> QED
    BY <1>2, <2>1, WalkLonger
<1>3. \A k \in 0..N : k \in S
  <2> HIDE DEF S
  <2> QED
    BY <1>1, <1>2, NType, InductionUpTo
<1> QED
  BY <1>3, NType

\* Walk goes from each server to its jump host.
LEMMA WalkIs ==
  ASSUME NEW f, NEW n
  PROVE  /\ Walk(f, n)[0] = n
         /\ \A k \in 1..N : Walk(f, n)[k] = After(f, Walk(f, n)[k - 1])
<1> DEFINE w[k \in 0..N] ==
      IF k = 0 THEN n
      ELSE LET m == w[k - 1] IN IF m = None \/ f[m] = None THEN None ELSE f[m].jump
<1>1. Walk(f, n) = w
  BY DEF Walk, N
<1>2. PICK g : IsWalk(f, n, N, g)
  BY WalkExists
<1>3. g = [k \in 0..N |->
            IF k = 0 THEN n
            ELSE LET m == g[k - 1] IN IF m = None \/ f[m] = None THEN None ELSE f[m].jump]
  BY <1>2 DEF IsWalk, After
<1>4. w = [k \in 0..N |->
            IF k = 0 THEN n
            ELSE LET m == w[k - 1] IN IF m = None \/ f[m] = None THEN None ELSE f[m].jump]
  BY <1>3
<1> HIDE DEF w
<1>5. w = [k \in 0..N |-> IF k = 0 THEN n ELSE After(f, w[k - 1])]
  BY <1>4 DEF After
<1> QED
  BY <1>1, <1>5, NType

\* A walk stays among the names until it ends, and an end is final.
LEMMA WalkInNames ==
  ASSUME NEW f \in Table, NEW n \in Names, NEW k \in 0..N
  PROVE  Walk(f, n)[k] \in Names \cup {None}
<1> DEFINE S == {i \in 0..N : Walk(f, n)[i] \in Names \cup {None}}
<1>1. 0 \in S
  BY WalkIs, NType
<1>2. ASSUME NEW i \in 1..N, i - 1 \in S PROVE i \in S
  <2>1. i \in 0..N /\ Walk(f, n)[i] = After(f, Walk(f, n)[i - 1])
    BY WalkIs, NType
  <2>2. \A m \in Names \cup {None} : After(f, m) \in Names \cup {None}
    BY DEF After, Table, Config
  <2> QED
    BY <1>2, <2>1, <2>2
<1>3. \A i \in 0..N : i \in S
  <2> HIDE DEF S
  <2> QED
    BY <1>1, <1>2, NType, InductionUpTo
<1> QED
  BY <1>3

LEMMA EndIsFinal ==
  ASSUME NEW f, NEW n, NEW i \in 0..N, NEW k \in 0..N, i <= k, Walk(f, n)[i] = None
  PROVE  Walk(f, n)[k] = None
<1> DEFINE S == {d \in 0..(k - i) : Walk(f, n)[i + d] = None}
<1>1. k - i \in Nat
  BY NType
<1>2. 0 \in S
  <2>1. i + 0 = i
    BY NType
  <2> QED
    BY <1>1, <2>1
<1>3. ASSUME NEW d \in 1..(k - i), d - 1 \in S PROVE d \in S
  <2>1. i + d \in 1..N /\ (i + d) - 1 = i + (d - 1) /\ d \in 0..(k - i)
    BY NType
  <2>2. Walk(f, n)[i + d] = After(f, Walk(f, n)[i + (d - 1)])
    BY <2>1, WalkIs
  <2> QED
    BY <1>3, <2>1, <2>2 DEF After
<1>4. \A d \in 0..(k - i) : d \in S
  <2> HIDE DEF S
  <2> QED
    BY <1>1, <1>2, <1>3, InductionUpTo
<1>5. k - i \in S /\ i + (k - i) = k
  BY <1>1, <1>4
<1> QED
  BY <1>5

\* Servers each of which jumps to one of them.
Closed(f, S) == \A n \in S : f[n] # None /\ f[n].jump \in S

\* What the cycle check finds is a cycle.
LEMMA FoundIsClosed ==
  ASSUME NEW f \in Table, CircularJumps(f)
  PROVE  \E S \in (SUBSET Names) \ {{}} : Closed(f, S)
<1>1. PICK n \in Names, j \in 0..N, k \in 0..N :
        j < k /\ Walk(f, n)[j] = Walk(f, n)[k] /\ Walk(f, n)[k] # None
  BY DEF CircularJumps, N
<1> DEFINE w == Walk(f, n)
           S == {w[i] : i \in j..(k - 1)}
<1>2. ASSUME NEW i \in j..k PROVE i \in 0..N /\ w[i] \in Names
  <2>1. i \in 0..N /\ i <= k
    BY NType
  <2> QED
    BY <1>1, <2>1, EndIsFinal, WalkInNames
<1>3. ASSUME NEW i \in j..(k - 1) PROVE f[w[i]] # None /\ f[w[i]].jump \in S
  <2>1. i \in j..k /\ i + 1 \in j..k /\ i + 1 \in 1..N /\ (i + 1) - 1 = i
    BY NType
  <2>2. w[i + 1] = After(f, w[i])
    BY <2>1, WalkIs
  <2>3. w[i] \in Names /\ w[i + 1] \in Names
    BY <1>2, <2>1
  <2>4. f[w[i]] # None /\ f[w[i]].jump = w[i + 1]
    BY <2>2, <2>3, RegistryAssumption DEF After
  <2>5. w[i + 1] \in S
    <3>1. CASE i + 1 = k
      <4>1. j \in j..(k - 1) /\ w[i + 1] = w[j]
        BY <1>1, <3>1
      <4> QED
        BY <4>1
    <3>2. CASE i + 1 # k
      <4>1. i + 1 \in j..(k - 1)
        BY <2>1, <3>2
      <4> QED
        BY <4>1
    <3> QED
      BY <3>1, <3>2
  <2> HIDE DEF w, S
  <2> QED
    BY <2>4, <2>5
<1>4. S \in SUBSET Names
  <2>1. \A i \in j..(k - 1) : i \in j..k
    BY NType
  <2> HIDE DEF w
  <2> QED
    BY <1>2, <2>1
<1>5. S # {}
  <2>1. j \in j..(k - 1)
    BY <1>1
  <2> QED
    BY <2>1
<1>6. Closed(f, S)
  BY <1>3 DEF Closed
<1> HIDE DEF S
<1> QED
  BY <1>4, <1>5, <1>6

\* The pigeonhole principle.
LEMMA MoreThanItsRange ==
  ASSUME NEW A, NEW B, IsFiniteSet(A), IsFiniteSet(B), Cardinality(B) < Cardinality(A),
         NEW g \in [A -> B]
  PROVE  \E x, y \in A : x # y /\ g[x] = g[y]
BY FS_PigeonHole

\* A cycle is found: there are fewer names than steps in a walk.
LEMMA ClosedIsFound ==
  ASSUME NEW f \in Table, NEW S \in (SUBSET Names) \ {{}}, Closed(f, S)
  PROVE  CircularJumps(f)
<1>1. PICK n \in S : n \in Names /\ f[n] # None
  BY DEF Closed
<1> DEFINE T == {k \in 0..N : Walk(f, n)[k] \in S}
<1>2. 0 \in T
  BY WalkIs, NType
<1>3. ASSUME NEW k \in 1..N, k - 1 \in T PROVE k \in T
  <2>1. k \in 0..N /\ Walk(f, n)[k] = After(f, Walk(f, n)[k - 1])
    BY WalkIs, NType
  <2>2. Walk(f, n)[k - 1] \in S /\ Walk(f, n)[k - 1] # None
    BY <1>3, RegistryAssumption
  <2> QED
    BY <2>1, <2>2 DEF After, Closed
<1>4. \A k \in 0..N : k \in T
  <2> HIDE DEF T
  <2> QED
    BY <1>2, <1>3, NType, InductionUpTo
<1> DEFINE w == [k \in 0..N |-> Walk(f, n)[k]]
<1>5. w \in [0..N -> Names]
  BY <1>4
<1>6. IsFiniteSet(0..N) /\ Cardinality(0..N) = N + 1
  <2>1. 0 \in Int /\ N \in Int
    BY NType
  <2> QED
    BY <2>1, NType, FS_Interval
<1>7. IsFiniteSet(Names) /\ Cardinality(Names) < Cardinality(0..N)
  BY <1>6, NType, RegistryAssumption DEF N
<1>8. PICK x \in 0..N, y \in 0..N : x # y /\ w[x] = w[y]
  <2> DEFINE D == 0..N
  <2> HIDE DEF w
  <2>1. /\ IsFiniteSet(D) /\ IsFiniteSet(Names) /\ Cardinality(Names) < Cardinality(D)
        /\ w \in [D -> Names]
    BY <1>5, <1>6, <1>7
  <2>2. \E x, y \in D : x # y /\ w[x] = w[y]
    <3> HIDE DEF D
    <3> QED
      BY <2>1, MoreThanItsRange
  <2> QED
    BY <2>2
<1>9. \E j, k \in 0..N : j < k /\ Walk(f, n)[j] = Walk(f, n)[k]
  <2>1. x < y \/ y < x
    BY <1>8, NType
  <2> QED
    BY <1>8, <2>1
<1>10. \A k \in 0..N : Walk(f, n)[k] # None
  BY <1>4, RegistryAssumption
<1> QED
  BY <1>1, <1>9, <1>10 DEF CircularJumps, N

\* CycleDetectionExact for any table.
LEMMA CyclesFound ==
  ASSUME NEW f \in Table
  PROVE  CircularJumps(f) <=>
           \E S \in (SUBSET Names) \ {{}} : \A n \in S : f[n] # None /\ f[n].jump \in S
<1>1. CircularJumps(f) => \E S \in (SUBSET Names) \ {{}} : Closed(f, S)
  BY FoundIsClosed
<1>2. (\E S \in (SUBSET Names) \ {{}} : Closed(f, S)) => CircularJumps(f)
  BY ClosedIsFound
<1> QED
  BY <1>1, <1>2 DEF Closed

---------------------------------------------------------------------------
(* Tables and chains.                                                      *)

LEMMA WithoutType ==
  ASSUME NEW f \in Table, NEW S
  PROVE  Without(f, S) \in Table
BY DEF Without, Table

LEMMA WithType ==
  ASSUME NEW f \in Table, NEW g, \A n \in DOMAIN g : g[n] \in Config
  PROVE  With(f, g) \in Table
BY DEF With, Table

LEMMA HopNameType ==
  ASSUME NEW al \in Aliases, NEW total \in Lengths(al), NEW i \in 1..total
  PROVE  HopName(al, i, total) \in Names
<1>1. Hop[al] \in Seq(Names) /\ al \in Names
  BY RegistryAssumption
<1>2. CASE i = total
  BY <1>1, <1>2 DEF HopName
<1>3. CASE i # total
  <2>1. i \in 1..Len(Hop[al])
    BY <1>1, <1>3 DEF Lengths
  <2>2. Hop[al][i] \in Names
    BY <1>1, <2>1
  <2> QED
    BY <1>3, <2>2 DEF HopName
<1> QED
  BY <1>2, <1>3

\* The entries of a chain.
LEMMA HopsType ==
  ASSUME NEW al \in Aliases, NEW total \in Lengths(al), NEW m \in 1..total, NEW note \in Notes,
         NEW n \in HopNames(al, m, total)
  PROVE  Hops(al, m, total, note)[n] \in Config
<1>0. total \in Nat
  BY DEF Lengths
<1> DEFINE i == CHOOSE j \in 1..m : HopName(al, j, total) = n
<1>1. i \in 1..m
  BY DEF HopNames
<1> HIDE DEF i
<1>2. i # 1 => i - 1 \in 1..total
  BY <1>0, <1>1
<1> DEFINE jump == IF i = 1 THEN None ELSE HopName(al, i - 1, total)
           kind == IF i = total THEN note ELSE "plain"
<1>3. jump \in Names \cup {None}
  BY <1>2, HopNameType
<1>4. kind \in {"plain", "quoted"}
  BY RegistryAssumption
<1>5. Hops(al, m, total, note)[n] = [jump |-> jump, note |-> kind]
  BY DEF Hops, i
<1> HIDE DEF jump, kind
<1> QED
  BY <1>3, <1>4, <1>5 DEF Config

---------------------------------------------------------------------------
(* Types, and memory against the file.                                     *)

\* Nothing waits in a server that is not there.
UpInv == \A t \in Calls : ~up => verifying[t] = None

IInv == TypeOK /\ UpInv /\ ConfigFollowsFile

\* What a step does to the table, the file and the watcher.
Writes ==
  /\ up /\ up' = up
  /\ config' \in Table /\ file' = config'
  /\ parses' \in BOOLEAN /\ pending' = TRUE

Leaves == UNCHANGED <<config, file, parses, pending, up>>

EditsFile ==
  /\ up' = up /\ config' = config
  /\ file' \in Table /\ parses' \in BOOLEAN /\ pending' = TRUE

\* ... and to the rest.
RestOK ==
  /\ ephemeral' \in Table
  /\ verifying' \in [Calls -> Aliases \cup {None}]
  /\ \A t \in Calls : ~up' => verifying'[t] = None

LEMMA WriteIsWrites ==
  ASSUME NEW new \in Table, Write(new), up, up' = up
  PROVE  Writes
<1>1. Writable(new) \in BOOLEAN
  BY DEF Writable
<1> QED
  BY <1>1 DEF Writes, Write

LEMMA RegisterStep ==
  ASSUME TypeOK, UpInv, NEW n \in Plain, NEW c \in Config, Register(n, c)
  PROVE  Writes /\ RestOK
<1> DEFINE g == [m \in {n} |-> c]
<1>1. \A m \in DOMAIN g : g[m] \in Config
  OBVIOUS
<1> HIDE DEF g
<1>2. With(config, g) \in Table
  BY <1>1, WithType DEF TypeOK
<1>3. Writes
  BY <1>2, WriteIsWrites DEF Register, g
<1>4. RestOK
  BY DEF RestOK, Register, TypeOK, UpInv
<1> QED
  BY <1>3, <1>4

LEMMA DeregisterStep ==
  ASSUME TypeOK, UpInv, NEW n \in Names, Deregister(n)
  PROVE  Writes /\ RestOK
<1>1. Without(config, {n}) \in Table
  BY WithoutType DEF TypeOK
<1>2. Writes
  BY <1>1, WriteIsWrites DEF Deregister
<1>3. RestOK
  BY DEF RestOK, Deregister, TypeOK, UpInv
<1> QED
  BY <1>2, <1>3

LEMMA EditStep ==
  ASSUME TypeOK, UpInv, NEW n \in Plain, NEW c \in Config \cup {None}, Edit(n, c)
  PROVE  EditsFile /\ RestOK
<1>1. file' \in Table
  BY RegistryAssumption DEF Edit, TypeOK, Table
<1> QED
  BY <1>1 DEF EditsFile, RestOK, Edit, TypeOK, UpInv

LEMMA GarbleStep ==
  ASSUME TypeOK, UpInv, Garble
  PROVE  EditsFile /\ RestOK
BY DEF EditsFile, RestOK, Garble, TypeOK, UpInv

LEMMA EphemeralChainStep ==
  ASSUME TypeOK, NEW al \in Aliases, NEW total \in Lengths(al), NEW note \in Notes,
         BuildEphemeral(al, total, note)
  PROVE  Leaves /\ ephemeral' \in Table /\ up
<1> DEFINE g == Hops(al, total, total, note)
<1>1. total \in 1..total
  BY DEF Lengths
<1>2. \A n \in DOMAIN g : g[n] \in Config
  <2>1. DOMAIN g = HopNames(al, total, total)
    BY DEF Hops
  <2> QED
    BY <1>1, <2>1, HopsType
<1> HIDE DEF g
<1>3. With(ephemeral, g) \in Table
  BY <1>2, WithType DEF TypeOK
<1> QED
  BY <1>3 DEF BuildEphemeral, Buildable, Leaves, g

LEMMA PersistentChainStep ==
  ASSUME TypeOK, NEW al \in Aliases, NEW total \in Lengths(al), NEW note \in Notes,
         NEW m \in 1..total, NEW left, BuildPersistent(al, total, note, m, left)
  PROVE  Writes /\ ephemeral' \in Table
<1> DEFINE g == [n \in left |-> Hops(al, m, total, note)[n]]
<1>1. \A n \in DOMAIN g : g[n] \in Config
  <2>1. left \subseteq HopNames(al, m, total)
    BY DEF BuildPersistent
  <2> QED
    BY <2>1, HopsType
<1> HIDE DEF g
<1>2. With(config, g) \in Table
  BY <1>1, WithType DEF TypeOK
<1>3. Writes
  BY <1>2, WriteIsWrites DEF BuildPersistent, Buildable, g
<1> QED
  BY <1>3 DEF BuildPersistent, TypeOK

LEMMA RemoveStep ==
  ASSUME TypeOK, NEW al, NEW kept, up, RemoveChain(al, kept)
  PROVE  (Writes \/ Leaves) /\ ephemeral' \in Table
<1>1. Without(config, Targets(al) \ kept) \in Table
  BY WithoutType DEF TypeOK
<1>2. Without(ephemeral, Targets(al)) \in Table
  BY WithoutType DEF TypeOK
<1>3. up' = up
  BY DEF RemoveChain
<1>4. CASE Write(Without(config, Targets(al) \ kept))
  <2>1. Writes
    BY <1>1, <1>3, <1>4, WriteIsWrites
  <2> QED
    BY <1>2, <2>1 DEF RemoveChain
<1>5. CASE UNCHANGED <<config, file, parses, pending>>
  BY <1>2, <1>3, <1>5 DEF RemoveChain, Leaves
<1> QED
  BY <1>4, <1>5 DEF RemoveChain

LEMMA SetupStep ==
  ASSUME TypeOK, UpInv, NEW al \in Aliases, NEW total \in Lengths(al), NEW note \in Notes,
         SetupJump(al, total, note)
  PROVE  (Writes \/ Leaves) /\ RestOK
<1>1. (Writes \/ Leaves) /\ ephemeral' \in Table
  BY EphemeralChainStep, PersistentChainStep DEF SetupJump
<1>2. up' = up
  BY <1>1 DEF Writes, Leaves
<1> QED
  BY <1>1, <1>2 DEF RestOK, SetupJump, TypeOK, UpInv

LEMMA SetupAutoStep ==
  ASSUME TypeOK, UpInv, NEW t \in Calls, NEW al \in Aliases, NEW total \in Lengths(al),
         NEW note \in Notes, SetupJumpAuto(t, al, total, note)
  PROVE  (Writes \/ Leaves) /\ RestOK
<1>1. (Writes \/ Leaves) /\ ephemeral' \in Table /\ up
  <2>1. total \in 1..total
    BY DEF Lengths
  <2>2. CASE BuildEphemeral(al, total, note)
    BY <2>2, EphemeralChainStep
  <2>3. CASE BuildPersistent(al, total, note, total, HopNames(al, total, total))
    <3>1. Writes /\ ephemeral' \in Table
      BY <2>1, <2>3, PersistentChainStep
    <3> QED
      BY <3>1 DEF Writes
  <2> QED
    BY <2>2, <2>3 DEF SetupJumpAuto
<1>2. up'
  BY <1>1 DEF Writes, Leaves
<1>3. verifying' \in [Calls -> Aliases \cup {None}]
  BY DEF SetupJumpAuto, TypeOK
<1> QED
  BY <1>1, <1>2, <1>3 DEF RestOK

LEMMA TeardownStep ==
  ASSUME TypeOK, UpInv, NEW al \in Aliases, TeardownJump(al)
  PROVE  (Writes \/ Leaves) /\ RestOK
<1>1. (Writes \/ Leaves) /\ ephemeral' \in Table
  BY RemoveStep DEF TeardownJump
<1>2. up' = up
  BY <1>1 DEF Writes, Leaves
<1> QED
  BY <1>1, <1>2 DEF RestOK, TeardownJump, TypeOK, UpInv

LEMMA VerifyOkStep ==
  ASSUME TypeOK, UpInv, NEW t \in Calls, VerifyOk(t)
  PROVE  Leaves /\ RestOK
<1>1. Leaves
  BY DEF VerifyOk, Leaves
<1>2. verifying' \in [Calls -> Aliases \cup {None}]
  BY DEF VerifyOk, TypeOK
<1>3. ASSUME NEW s \in Calls, ~up' PROVE verifying'[s] = None
  BY <1>3 DEF VerifyOk, TypeOK, UpInv
<1> QED
  BY <1>1, <1>2, <1>3 DEF RestOK, VerifyOk, TypeOK

LEMMA VerifyFailsStep ==
  ASSUME TypeOK, UpInv, NEW t \in Calls, VerifyFails(t)
  PROVE  (Writes \/ Leaves) /\ RestOK
<1>1. up
  BY DEF VerifyFails, UpInv
<1>2. (Writes \/ Leaves) /\ ephemeral' \in Table
  BY <1>1, RemoveStep DEF VerifyFails
<1>3. up'
  BY <1>1, <1>2 DEF Writes, Leaves
<1>4. verifying' \in [Calls -> Aliases \cup {None}]
  BY DEF VerifyFails, TypeOK
<1> QED
  BY <1>2, <1>3, <1>4 DEF RestOK

LEMMA ReloadStep ==
  ASSUME TypeOK, UpInv, Reload
  PROVE  RestOK
BY DEF RestOK, Reload, TypeOK, UpInv

LEMMA RestartStep ==
  ASSUME TypeOK, UpInv, Restart
  PROVE  RestOK
BY DEF RestOK, Restart, TypeOK, UpInv, Empty, Table

\* The kinds of steps there are.
LEMMA StepKinds ==
  ASSUME TypeOK, UpInv, [Next]_vars
  PROVE  (Writes \/ Leaves \/ EditsFile \/ Reload \/ Restart) /\ RestOK
<1>1. CASE UNCHANGED vars
  BY <1>1 DEF vars, Leaves, RestOK, TypeOK, UpInv
<1>2. ASSUME NEW n \in Plain, NEW j \in Plain \cup Aliases \cup {None}, NEW note \in Notes,
             Register(n, [jump |-> j, note |-> note]) \/ Edit(n, [jump |-> j, note |-> note])
      PROVE  (Writes \/ EditsFile) /\ RestOK
  <2> DEFINE c == [jump |-> j, note |-> note]
  <2>1. c \in Config
    BY RegistryAssumption DEF Config
  <2> HIDE DEF c
  <2>2. Register(n, c) \/ Edit(n, c)
    BY <1>2 DEF c
  <2> QED
    BY <2>1, <2>2, RegisterStep, EditStep
<1>3. ASSUME NEW n \in Plain, Edit(n, None) PROVE EditsFile /\ RestOK
  BY <1>3, EditStep
<1>4. ASSUME NEW n \in Names, Deregister(n) PROVE Writes /\ RestOK
  BY <1>4, DeregisterStep
<1>5. ASSUME NEW al \in Aliases, NEW total \in Lengths(al), NEW note \in Notes,
             \/ SetupJump(al, total, note)
             \/ \E t \in Calls : SetupJumpAuto(t, al, total, note)
      PROVE  (Writes \/ Leaves) /\ RestOK
  BY <1>5, SetupStep, SetupAutoStep
<1>6. ASSUME NEW al \in Aliases, TeardownJump(al) PROVE (Writes \/ Leaves) /\ RestOK
  BY <1>6, TeardownStep
<1>7. ASSUME NEW t \in Calls, VerifyOk(t) \/ VerifyFails(t)
      PROVE  (Writes \/ Leaves) /\ RestOK
  BY <1>7, VerifyOkStep, VerifyFailsStep
<1>8. CASE Garble
  BY <1>8, GarbleStep
<1>9. CASE Reload
  BY <1>9, ReloadStep
<1>10. CASE Restart
  BY <1>10, RestartStep
<1> QED
  BY <1>1, <1>2, <1>3, <1>4, <1>5, <1>6, <1>7, <1>8, <1>9, <1>10 DEF Next

LEMMA LoadableType == parses \in BOOLEAN => Loadable \in BOOLEAN
BY DEF Loadable, CircularJumps

LEMMA InitInvariant ==
  ASSUME Init
  PROVE  IInv
<1>1. file \in Table
  BY DEF Init
<1>2. Empty \in Table
  BY DEF Empty, Table
<1> QED
  BY <1>1, <1>2 DEF Init, IInv, TypeOK, UpInv, ConfigFollowsFile

LEMMA TypeStep ==
  ASSUME TypeOK, UpInv, [Next]_vars
  PROVE  TypeOK' /\ UpInv'
<1>1. (Writes \/ Leaves \/ EditsFile \/ Reload \/ Restart) /\ RestOK
  BY StepKinds
<1>2. Empty \in Table /\ Loadable \in BOOLEAN
  BY LoadableType DEF Empty, Table, TypeOK
<1>3. /\ config' \in Table /\ file' \in Table
      /\ parses' \in BOOLEAN /\ pending' \in BOOLEAN /\ up' \in BOOLEAN
  <2>1. CASE Writes
    BY <2>1 DEF Writes, TypeOK
  <2>2. CASE Leaves
    BY <2>2 DEF Leaves, TypeOK
  <2>3. CASE EditsFile
    BY <2>3 DEF EditsFile, TypeOK
  <2>4. CASE Reload
    BY <2>4 DEF Reload, TypeOK
  <2>5. CASE Restart
    BY <1>2, <2>5 DEF Restart, TypeOK
  <2> QED
    BY <1>1, <2>1, <2>2, <2>3, <2>4, <2>5
<1> QED
  BY <1>1, <1>3 DEF RestOK, TypeOK, UpInv

\* The file that a step leaves as it is loads after the step when it did before.
LEMMA SameFileLoads ==
  ASSUME UNCHANGED <<file, parses>>
  PROVE  Loadable' = Loadable
BY DEF Loadable

LEMMA FollowsStep ==
  ASSUME IInv, [Next]_vars
  PROVE  ConfigFollowsFile'
<1>1. Writes \/ Leaves \/ EditsFile \/ Reload \/ Restart
  BY StepKinds DEF IInv
<1>2. CASE Writes
  BY <1>2 DEF Writes, ConfigFollowsFile
<1>3. CASE Leaves
  BY <1>3, SameFileLoads DEF Leaves, ConfigFollowsFile, IInv
<1>4. CASE EditsFile
  BY <1>4 DEF EditsFile, ConfigFollowsFile
<1>5. CASE Reload
  BY <1>5, SameFileLoads DEF Reload, ConfigFollowsFile
<1>6. CASE Restart
  BY <1>6, SameFileLoads DEF Restart, ConfigFollowsFile
<1> QED
  BY <1>1, <1>2, <1>3, <1>4, <1>5, <1>6

\* Registry keeps its types, waits for nothing while it is down, and agrees with the
\* file it has seen.
THEOREM RegistryInvariant == Spec => []IInv
<1>1. Init => IInv
  BY InitInvariant
<1>2. IInv /\ [Next]_vars => IInv'
  BY TypeStep, FollowsStep DEF IInv
<1> QED
  BY <1>1, <1>2, PTL DEF Spec

\* Every entry of the tables and of the file is a ServerConfig (models.py).
THEOREM RegistryTypeCorrect == Spec => []TypeOK
BY RegistryInvariant, PTL DEF IInv

\* Memory and a loadable file agree once the watcher has seen the last change
\* (registry.py, add, remove and watch), for any names, chains and calls.
THEOREM MemoryFollowsFile == Spec => []ConfigFollowsFile
BY RegistryInvariant, PTL DEF IInv

\* _detect_circular_jumps is exact for any number of servers: what it reports is a
\* cycle, and as its walks have more steps than there are names, it misses none.
THEOREM CycleCheckIsExact == Spec => []CycleDetectionExact
<1>1. IInv => CycleDetectionExact
  BY CyclesFound DEF IInv, TypeOK, CycleDetectionExact
<1> QED
  BY <1>1, RegistryInvariant, PTL

LEMMA LosesOnlyUnseen ==
  ASSUME IInv, [Next]_vars, config' # config, file' # file,
         NEW n \in Names, file'[n] # file[n], config'[n] = config[n]
  PROVE  pending \/ ~Loadable
<1>1. Writes \/ Leaves \/ EditsFile \/ Reload \/ Restart
  BY StepKinds DEF IInv
<1>2. Writes
  BY <1>1 DEF Leaves, EditsFile, Reload, Restart
<1>3. up /\ file' = config'
  BY <1>2 DEF Writes
<1> QED
  BY <1>3 DEF IInv, ConfigFollowsFile

\* add and remove write the table in memory over the file: what they change besides
\* their own servers is an edit that the watcher has not seen, or cannot load
\* (registry.py).
THEOREM WritesLoseOnlyUnseenEdits == Spec => OnlyUnseenEditsAreLost
<1>1. IInv /\ [Next]_vars =>
        [config' # config /\ file' # file =>
           \A n \in Names :
             file'[n] # file[n] /\ config'[n] = config[n] => pending \/ ~Loadable]_vars
  BY LosesOnlyUnseen
<1> QED
  BY <1>1, RegistryInvariant, PTL DEF Spec, OnlyUnseenEditsAreLost

---------------------------------------------------------------------------
(* The ephemeral chains.                                                   *)

\* The names of a chain are its own: _hop_name numbers the hops, and no alias looks
\* like a hop of another one.
DistinctNames ==
  /\ \A al \in Aliases : \A i, j \in 1..Len(Hop[al]) : Hop[al][i] = Hop[al][j] => i = j
  /\ \A al \in Aliases : \A i \in 1..Len(Hop[al]) : Hop[al][i] \in Prefixed[al]
  /\ \A al, bl \in Aliases : bl \notin Prefixed[al]
  /\ \A al, bl \in Aliases : al # bl => Prefixed[al] \cap Prefixed[bl] = {}

\* The names that belong to an alias.
Own(al) == {al} \cup Prefixed[al]

NoChain(e, al) == e[al] = None /\ \A i \in 1..Len(Hop[al]) : e[Hop[al][i]] = None

WholeChain(e, al, total) ==
  /\ \A i \in 1..total :
       /\ e[HopName(al, i, total)] # None
       /\ e[HopName(al, i, total)].jump = IF i = 1 THEN None ELSE HopName(al, i - 1, total)
  /\ \A i \in total..Len(Hop[al]) : e[Hop[al][i]] = None

ChainOK(e, al) == NoChain(e, al) \/ \E total \in Lengths(al) : WholeChain(e, al, total)

ChainInv == \A al \in Aliases : ChainOK(ephemeral, al)

LEMMA AliasFacts ==
  ASSUME NEW al \in Aliases
  PROVE  /\ al \in Names /\ Hop[al] \in Seq(Names) /\ Len(Hop[al]) \in Nat
         /\ \A i \in 1..Len(Hop[al]) : Hop[al][i] \in Names
         /\ \A total \in Lengths(al) : total \in Nat \ {0} /\ total - 1 \in 0..Len(Hop[al])
<1>1. al \in Names /\ Hop[al] \in Seq(Names)
  BY RegistryAssumption
<1>2. Len(Hop[al]) \in Nat /\ \A i \in 1..Len(Hop[al]) : Hop[al][i] \in Names
  BY <1>1
<1>3. \A total \in Lengths(al) : total \in Nat \ {0} /\ total - 1 \in 0..Len(Hop[al])
  BY <1>2 DEF Lengths
<1> QED
  BY <1>1, <1>2, <1>3

\* A chain depends on nothing but its own names.
LEMMA SameNamesSameChain ==
  ASSUME DistinctNames, NEW al \in Aliases, NEW e, NEW f,
         \A n \in Own(al) \cap Names : f[n] = e[n], ChainOK(e, al)
  PROVE  ChainOK(f, al)
<1>1. f[al] = e[al]
  BY AliasFacts DEF Own
<1>2. ASSUME NEW i \in 1..Len(Hop[al]) PROVE f[Hop[al][i]] = e[Hop[al][i]]
  BY AliasFacts DEF Own, DistinctNames
<1>3. CASE NoChain(e, al)
  BY <1>1, <1>2, <1>3 DEF ChainOK, NoChain
<1>4. ASSUME NEW total \in Lengths(al), WholeChain(e, al, total)
      PROVE  WholeChain(f, al, total)
  <2>1. ASSUME NEW i \in 1..total
        PROVE  f[HopName(al, i, total)] = e[HopName(al, i, total)]
    <3>1. CASE i = total
      BY <1>1, <3>1 DEF HopName
    <3>2. CASE i # total
      <4>1. i \in 1..Len(Hop[al])
        BY <3>2, AliasFacts
      <4> QED
        BY <1>2, <3>2, <4>1 DEF HopName
    <3> QED
      BY <3>1, <3>2
  <2>2. ASSUME NEW i \in total..Len(Hop[al]) PROVE f[Hop[al][i]] = None
    <3>1. i \in 1..Len(Hop[al])
      BY AliasFacts
    <3> QED
      BY <1>2, <1>4, <3>1 DEF WholeChain
  <2> QED
    BY <1>4, <2>1, <2>2 DEF WholeChain
<1> QED
  BY <1>3, <1>4 DEF ChainOK

\* The hops of a chain have different names.
LEMMA HopNamesDiffer ==
  ASSUME DistinctNames, NEW al \in Aliases, NEW total \in Lengths(al),
         NEW i \in 1..total, NEW j \in 1..total, HopName(al, i, total) = HopName(al, j, total)
  PROVE  i = j
<1>1. \A k \in 1..total : k # total => k \in 1..Len(Hop[al])
  BY AliasFacts
<1>2. \A k \in 1..Len(Hop[al]) : Hop[al][k] # al
  BY DEF DistinctNames
<1> QED
  BY <1>1, <1>2 DEF HopName, DistinctNames

\* What a new chain says of each of its hops.
LEMMA HopsIs ==
  ASSUME DistinctNames, NEW al \in Aliases, NEW total \in Lengths(al), NEW note,
         NEW i \in 1..total
  PROVE  LET n == HopName(al, i, total)
             h == Hops(al, total, total, note)
         IN /\ n \in DOMAIN h
            /\ h[n].jump = IF i = 1 THEN None ELSE HopName(al, i - 1, total)
<1> DEFINE n == HopName(al, i, total)
           c == CHOOSE j \in 1..total : HopName(al, j, total) = n
<1>1. c \in 1..total /\ HopName(al, c, total) = n
  OBVIOUS
<1>2. c = i
  <2> HIDE DEF c
  <2> QED
    BY <1>1, HopNamesDiffer
<1>3. n \in HopNames(al, total, total)
  BY DEF HopNames
<1>4. Hops(al, total, total, note)[n] =
        [jump |-> IF c = 1 THEN None ELSE HopName(al, c - 1, total),
         note |-> IF c = total THEN note ELSE "plain"]
  BY <1>3 DEF Hops
<1> HIDE DEF c
<1> QED
  BY <1>2, <1>3, <1>4 DEF Hops

\* A chain is built as a whole.
LEMMA BuiltWhole ==
  ASSUME DistinctNames, TypeOK, NEW al \in Aliases, NEW total \in Lengths(al), NEW note \in Notes,
         ChainOK(ephemeral, al), BuildEphemeral(al, total, note)
  PROVE  WholeChain(ephemeral', al, total)
<1> DEFINE h == Hops(al, total, total, note)
<1>1. NoChain(ephemeral, al)
  <2>1. ephemeral[al] = None
    BY DEF BuildEphemeral, Buildable, Taken
  <2>2. ASSUME NEW t \in Lengths(al), WholeChain(ephemeral, al, t) PROVE FALSE
    <3>1. t \in 1..t /\ HopName(al, t, t) = al
      BY AliasFacts DEF HopName
    <3> QED
      BY <2>1, <2>2, <3>1 DEF WholeChain
  <2> QED
    BY <2>2 DEF ChainOK
<1>2. ephemeral' = With(ephemeral, h) /\ DOMAIN h = HopNames(al, total, total)
  BY DEF BuildEphemeral, Hops
<1>3. ASSUME NEW i \in 1..total
      PROVE  /\ ephemeral'[HopName(al, i, total)] # None
             /\ ephemeral'[HopName(al, i, total)].jump =
                  IF i = 1 THEN None ELSE HopName(al, i - 1, total)
  <2>1. HopName(al, i, total) \in Names
    BY HopNameType
  <2>2. /\ HopName(al, i, total) \in DOMAIN h
        /\ h[HopName(al, i, total)].jump = IF i = 1 THEN None ELSE HopName(al, i - 1, total)
    BY HopsIs
  <2>3. ephemeral'[HopName(al, i, total)] = h[HopName(al, i, total)]
    <3> HIDE DEF h
    <3> QED
      BY <1>2, <2>1, <2>2 DEF With
  <2>4. h[HopName(al, i, total)] # None
    <3>1. total \in 1..total /\ HopName(al, i, total) \in HopNames(al, total, total)
      BY <1>2, <2>2, AliasFacts
    <3> QED
      BY <3>1, HopsType, RegistryAssumption
  <2> HIDE DEF h
  <2> QED
    BY <2>2, <2>3, <2>4
<1>4. ASSUME NEW i \in total..Len(Hop[al])
      PROVE  ephemeral'[Hop[al][i]] = None
  <2>1. i \in 1..Len(Hop[al]) /\ Hop[al][i] \in Names /\ Hop[al][i] # al
    <3>1. i \in 1..Len(Hop[al])
      BY AliasFacts
    <3> QED
      BY <3>1, AliasFacts DEF DistinctNames
  <2>2. Hop[al][i] \notin HopNames(al, total, total)
    <3>1. SUFFICES ASSUME NEW j \in 1..total, Hop[al][i] = HopName(al, j, total) PROVE FALSE
      BY DEF HopNames
    <3>2. j # total
      BY <2>1, <3>1 DEF HopName
    <3>3. j \in 1..Len(Hop[al]) /\ j < i
      BY <3>2, AliasFacts
    <3> QED
      BY <2>1, <3>1, <3>2, <3>3 DEF HopName, DistinctNames
  <2> HIDE DEF h
  <2> QED
    BY <1>1, <1>2, <2>1, <2>2 DEF With, NoChain
<1> QED
  BY <1>3, <1>4 DEF WholeChain

\* A chain is built from, or removed with, nothing but its own names.
LEMMA OthersKeep ==
  ASSUME DistinctNames, NEW al \in Aliases, NEW bl \in Aliases, al # bl, NEW f,
         ChainOK(ephemeral, bl),
         \A n \in Names \ Own(al) : f[n] = ephemeral[n]
  PROVE  ChainOK(f, bl)
<1>1. Own(bl) \cap Own(al) = {}
  BY DEF Own, DistinctNames
<1> QED
  BY <1>1, SameNamesSameChain

LEMMA BuildKeepsChains ==
  ASSUME DistinctNames, TypeOK, ChainInv, NEW al \in Aliases, NEW total \in Lengths(al),
         NEW note \in Notes, BuildEphemeral(al, total, note)
  PROVE  ChainInv'
<1>1. ChainOK(ephemeral', al)
  BY BuiltWhole DEF ChainOK, ChainInv
<1>2. ASSUME NEW n \in Names \ Own(al) PROVE ephemeral'[n] = ephemeral[n]
  <2>1. n \notin HopNames(al, total, total)
    <3>1. SUFFICES ASSUME NEW i \in 1..total PROVE HopName(al, i, total) \in Own(al)
      BY DEF HopNames
    <3>2. i # total => i \in 1..Len(Hop[al])
      BY AliasFacts
    <3> QED
      BY <3>2 DEF HopName, Own, DistinctNames
  <2>2. n \notin DOMAIN Hops(al, total, total, note)
    BY <2>1 DEF Hops
  <2> QED
    BY <2>2 DEF BuildEphemeral, With
<1>3. ASSUME NEW bl \in Aliases, bl # al PROVE ChainOK(ephemeral', bl)
  BY <1>2, <1>3, OthersKeep DEF ChainInv
<1>4. \A bl \in Aliases : ChainOK(ephemeral', bl)
  BY <1>1, <1>3
<1> QED
  BY <1>4 DEF ChainInv, ChainOK, NoChain, WholeChain

LEMMA RemoveKeepsChains ==
  ASSUME DistinctNames, TypeOK, ChainInv, NEW al \in Aliases, NEW kept, RemoveChain(al, kept)
  PROVE  ChainInv'
<1>1. ephemeral' = Without(ephemeral, Targets(al))
  BY DEF RemoveChain
<1>2. ASSUME NEW n \in Names, n \in Own(al) PROVE ephemeral'[n] = None
  BY <1>1, <1>2 DEF Without, Targets, Own, Taken
<1>3. NoChain(ephemeral', al)
  <2>1. \A i \in 1..Len(Hop[al]) : Hop[al][i] \in Own(al) /\ Hop[al][i] \in Names
    BY AliasFacts DEF Own, DistinctNames
  <2>2. al \in Own(al) /\ al \in Names
    BY AliasFacts DEF Own
  <2> QED
    BY <1>2, <2>1, <2>2 DEF NoChain
<1>4. ASSUME NEW n \in Names \ Own(al) PROVE ephemeral'[n] = ephemeral[n]
  BY <1>1 DEF Without, Targets, Own
<1>5. ASSUME NEW bl \in Aliases, bl # al PROVE ChainOK(ephemeral', bl)
  BY <1>4, <1>5, OthersKeep DEF ChainInv
<1>6. \A bl \in Aliases : ChainOK(ephemeral', bl)
  BY <1>3, <1>5 DEF ChainOK
<1> QED
  BY <1>6 DEF ChainInv, ChainOK, NoChain, WholeChain

LEMMA EmptyHasNoChains ==
  ASSUME ephemeral = Empty
  PROVE  ChainInv
<1>1. ASSUME NEW al \in Aliases PROVE NoChain(ephemeral, al)
  BY AliasFacts DEF NoChain, Empty
<1> QED
  BY <1>1 DEF ChainInv, ChainOK

\* What a step does to the ephemeral servers.
LEMMA EphemeralSteps ==
  ASSUME TypeOK, UpInv, [Next]_vars
  PROVE  \/ ephemeral' = ephemeral
         \/ ephemeral' = Empty
         \/ \E al \in Aliases, note \in Notes : \E total \in Lengths(al) :
              BuildEphemeral(al, total, note)
         \/ \E al \in Aliases : \E kept : RemoveChain(al, kept)
<1>1. ASSUME NEW al \in Aliases, NEW total \in Lengths(al), NEW note \in Notes,
             \/ SetupJump(al, total, note)
             \/ \E t \in Calls : SetupJumpAuto(t, al, total, note)
      PROVE  ephemeral' = ephemeral \/ BuildEphemeral(al, total, note)
  BY <1>1 DEF SetupJump, SetupJumpAuto, BuildPersistent
<1>2. ASSUME NEW al \in Aliases, TeardownJump(al)
      PROVE  \E kept : RemoveChain(al, kept)
  BY <1>2 DEF TeardownJump
<1>3. ASSUME NEW t \in Calls, VerifyOk(t) \/ VerifyFails(t)
      PROVE  ephemeral' = ephemeral \/ \E al \in Aliases : \E kept : RemoveChain(al, kept)
  BY <1>3 DEF VerifyOk, VerifyFails, TypeOK
<1>4. ASSUME NEW n, NEW c, Register(n, c) \/ Edit(n, c) \/ Deregister(n)
      PROVE  ephemeral' = ephemeral
  BY <1>4 DEF Register, Edit, Deregister
<1>5. Garble \/ Reload \/ UNCHANGED vars => ephemeral' = ephemeral
  BY DEF Garble, Reload, vars
<1>6. Restart => ephemeral' = Empty
  BY DEF Restart
<1> QED
  BY <1>1, <1>2, <1>3, <1>4, <1>5, <1>6 DEF Next

LEMMA ChainStep ==
  ASSUME DistinctNames, TypeOK, UpInv, ChainInv, [Next]_vars
  PROVE  ChainInv'
<1>1. CASE ephemeral' = ephemeral
  BY <1>1 DEF ChainInv, ChainOK, NoChain, WholeChain
<1>2. CASE ephemeral' = Empty
  <2>1. \A al \in Aliases : NoChain(ephemeral', al)
    BY <1>2, AliasFacts DEF NoChain, Empty
  <2> QED
    BY <2>1 DEF ChainInv, ChainOK, NoChain
<1> QED
  BY <1>1, <1>2, EphemeralSteps, BuildKeepsChains, RemoveKeepsChains

\* The walk from the alias of a whole chain goes down its hops.
LEMMA WalkDownChain ==
  ASSUME NEW e, NEW al \in Aliases, NEW total \in Lengths(al), WholeChain(e, al, total),
         NEW k \in 0..N
  PROVE  Walk(e, al)[k] = IF k < total THEN HopName(al, total - k, total) ELSE None
<1> DEFINE At(j) == IF j < total THEN HopName(al, total - j, total) ELSE None
           S == {j \in 0..N : Walk(e, al)[j] = At(j)}
<1>1. total \in Nat \ {0}
  BY AliasFacts
<1>2. 0 \in S
  BY <1>1, NType, WalkIs DEF HopName
<1>3. ASSUME NEW j \in 1..N, j - 1 \in S PROVE j \in S
  <2>1. j \in 0..N /\ Walk(e, al)[j] = After(e, Walk(e, al)[j - 1])
    BY NType, WalkIs
  <2>2. Walk(e, al)[j - 1] = At(j - 1)
    BY <1>3
  <2>3. CASE j - 1 < total
    <3> DEFINE i == total - (j - 1)
    <3>1. i \in 1..total /\ (i = 1 <=> ~(j < total)) /\ i - 1 = total - j
      BY <1>1, <2>3
    <3>2. At(j - 1) = HopName(al, i, total)
      BY <2>3
    <3>3. At(j) = IF i = 1 THEN None ELSE HopName(al, i - 1, total)
      BY <3>1
    <3> HIDE DEF i, At
    <3>4. /\ e[HopName(al, i, total)] # None
          /\ e[HopName(al, i, total)].jump = At(j)
      BY <3>1, <3>3 DEF WholeChain
    <3>5. HopName(al, i, total) # None
      BY <3>1, HopNameType, RegistryAssumption
    <3>6. Walk(e, al)[j] = At(j)
      BY <2>1, <2>2, <3>2, <3>4, <3>5 DEF After
    <3> QED
      BY <2>1, <3>6
  <2>4. CASE ~(j - 1 < total)
    <3>1. At(j - 1) = None /\ At(j) = None
      BY <1>1, <2>4
    <3> HIDE DEF At
    <3> QED
      BY <2>1, <2>2, <3>1 DEF After
  <2> QED
    BY <2>3, <2>4
<1>4. \A j \in 0..N : j \in S
  <2> HIDE DEF S
  <2> QED
    BY <1>2, <1>3, NType, InductionUpTo
<1> QED
  BY <1>4

LEMMA WholeOrAbsent ==
  ASSUME DistinctNames, ChainInv
  PROVE  EphemeralChainWhole
<1> SUFFICES ASSUME NEW al \in Aliases
             PROVE  /\ ephemeral[al] # None =>
                         \A i \in 0..N :
                           Walk(ephemeral, al)[i] # None => ephemeral[Walk(ephemeral, al)[i]] # None
                    /\ \A i \in 1..Len(Hop[al]) : ephemeral[Hop[al][i]] # None => ephemeral[al] # None
  BY DEF EphemeralChainWhole, N
<1>1. CASE NoChain(ephemeral, al)
  BY <1>1 DEF NoChain
<1>2. ASSUME NEW total \in Lengths(al), WholeChain(ephemeral, al, total)
      PROVE  /\ ephemeral[al] # None
             /\ \A i \in 0..N :
                  Walk(ephemeral, al)[i] # None => ephemeral[Walk(ephemeral, al)[i]] # None
  <2>1. total \in Nat \ {0}
    BY AliasFacts
  <2>2. HopName(al, total, total) = al /\ total \in 1..total
    BY <2>1 DEF HopName
  <2>3. ASSUME NEW i \in 0..N, Walk(ephemeral, al)[i] # None
        PROVE  ephemeral[Walk(ephemeral, al)[i]] # None
    <3>1. i < total /\ Walk(ephemeral, al)[i] = HopName(al, total - i, total)
      BY <1>2, <2>3, WalkDownChain
    <3>2. total - i \in 1..total
      BY <2>1, <3>1
    <3> QED
      BY <1>2, <3>1, <3>2 DEF WholeChain
  <2> QED
    BY <1>2, <2>2, <2>3 DEF WholeChain
<1> QED
  BY <1>1, <1>2 DEF ChainInv, ChainOK

\* An ephemeral chain is registered, rolled back and torn down as a whole
\* (_build_chain, _teardown_chain), for any number of aliases, hops and calls whose
\* names do not collide.
THEOREM ChainsAreWhole == DistinctNames => (Spec => []EphemeralChainWhole)
<1> SUFFICES ASSUME DistinctNames
             PROVE  Spec => []EphemeralChainWhole
  OBVIOUS
<1>1. Init => ChainInv
  BY EmptyHasNoChains DEF Init
<1>2. TypeOK /\ UpInv /\ ChainInv /\ [Next]_vars => ChainInv'
  BY ChainStep
<1>3. ChainInv => EphemeralChainWhole
  BY WholeOrAbsent
<1>4. IInv => TypeOK /\ UpInv
  BY DEF IInv
<1> QED
  BY <1>1, <1>2, <1>3, <1>4, RegistryInvariant, PTL DEF Spec
=============================================================================
