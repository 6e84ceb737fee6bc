----------------------------- MODULE Discovery ------------------------------
(***************************************************************************)
(* One ssh_discover scan (discovery.py): a breadth-first search over the    *)
(* machines that can be reached from a frontier of seeds.  The addresses    *)
(* found on a machine are dialled concurrently through it; a machine that   *)
(* answers is told apart from the others by its host key, registered and    *)
(* put into the frontier.  Deadline, cancellation and the removal of an     *)
(* earlier scan's servers interleave with the scan.                         *)
(***************************************************************************)
EXTENDS Naturals, Sequences, FiniteSets

CONSTANTS
  Boxes,        \* machines; a machine is its host-key fingerprint
  Addrs,        \* addresses
  Local,        \* the machine the MCP server runs on
  SeedList,     \* the seeds in order: Local and registered machines
  Crumbs,       \* Crumbs[v]: the addresses that machine v knows of
  Dial,         \* Dial[v][a]: the machine that address a is for v, or None
  Slug,         \* Slug[b]: the first letters of the fingerprint of b
  Earlier,      \* the machines that an earlier scan may have registered
  Lock,         \* Lock[b]: the key that machine b accepts
  KeysOn,       \* KeysOn[b]: the unencrypted private keys found on b
  OurKeys,      \* the keys of the call
  Block,        \* the addresses of an injected CIDR block, in order
  Cap,          \* _CIDR_EXPAND_CAP
  MaxDepth, MaxNodes, Concurrency,
  Faults,       \* what can go wrong: "harvest", "connect", "write", "cancel"
  None

Places == Boxes \cup {Local}

\* disc-<fp8> and, when that is taken, disc-<fp8>-1 and so on.
Names == {Slug[b] : b \in Boxes} \X (0..(2 * Cardinality(Boxes)))

\* A _FrontierItem: its name, the machine its connection leads to, its depth.
Item == [name : Places \cup Names, box : Places, depth : 0..MaxDepth]

ASSUME DiscoveryAssumption ==
  /\ IsFiniteSet(Boxes) /\ IsFiniteSet(Addrs)
  /\ Local \notin Boxes \cup Names /\ None \notin Places \cup Item
  /\ SeedList \in Seq(Places)
  /\ Crumbs \in [Places -> SUBSET Addrs]
  /\ Dial \in [Places -> [Addrs -> Boxes \cup {None}]]
  /\ Block \in Seq(Addrs)
  /\ Earlier \subseteq Boxes
  /\ Cap \in Nat /\ MaxDepth \in Nat /\ MaxNodes \in Nat /\ Concurrency \in Nat \ {0}

VARIABLES
  phase,        \* "idle", "loop", "expand", "done" or "cancelled"
  frontier,     \* the nodes still to be expanded
  via,          \* the node being expanded
  fresh,        \* its candidates that are new, in order
  task,         \* per address: the state of its _one
  result,       \* per address: the node its _one returned, or None
  harvestKeys,  \* _harvest_keys
  keySpace,     \* _key_space
  visitedIps,   \* _visited_ips
  visitedFps,   \* _visited_fps
  discovered,   \* _discovered
  kept,         \* _open_conns; a connection is the address it was made to
  open,         \* the connections of the scan that are open
  truncated,    \* _truncated
  expired,      \* the deadline has passed
  registry,     \* the servers that scans have registered
  dialled,      \* history: the addresses that were tried
  expanded      \* history: the names of the nodes that were expanded

vars == <<phase, frontier, via, fresh, task, result, harvestKeys, keySpace, visitedIps,
          visitedFps, discovered, kept, open, truncated, expired, registry, dialled, expanded>>

search == <<phase, frontier, via, fresh>>
keys == <<harvestKeys, keySpace>>
found == <<visitedFps, discovered, kept, registry>>

Seeds == {SeedList[i] : i \in DOMAIN SeedList}

\* A DiscoveredHost.
Host == [name : Names, fp : Boxes, addrs : SUBSET Addrs, via : Places \cup Names,
         depth : 0..MaxDepth, pool : BOOLEAN]

\* A registered server: the scan its note names and its jump host.
Server == [name : Names, session : {"old", "new"}, jump : Places \cup Names \cup {None}]

Elems(s) == {s[i] : i \in DOMAIN s}

Orders(S) == {s \in [1..Cardinality(S) -> S] : Elems(s) = S}

\* The numbers P from the smallest to the largest.
Ascending(P) == {t \in Orders(P) : \A i, j \in DOMAIN t : i < j => t[i] < t[j]}

Minimum(i, j) == IF i < j THEN i ELSE j

\* expand_candidates: a block is cut off after Cap addresses.
Injected == {Block[i] : i \in 1..Minimum(Cap, Len(Block))}

NoTasks == [a \in Addrs |-> "none"]

NoResults == [a \in Addrs |-> None]

Init ==
  /\ phase = "idle"
  /\ frontier = <<>>
  /\ via = None
  /\ fresh = <<>>
  /\ task = NoTasks
  /\ result = NoResults
  /\ harvestKeys \in BOOLEAN
  /\ keySpace = OurKeys
  /\ visitedIps = {} /\ visitedFps = {} /\ discovered = {}
  /\ kept = {} /\ open = {}
  /\ truncated = FALSE /\ expired = FALSE
  /\ \E old \in SUBSET Earlier :
       registry = {[name |-> <<Slug[b], 0>>, session |-> "old", jump |-> None] : b \in old}
  /\ dialled = {} /\ expanded = {}

\* _build_seed_frontier: the local node and the seeds that can be connected to.
Start(up) ==
  /\ phase = "idle"
  /\ phase' = "loop"
  /\ \E at \in Ascending({i \in DOMAIN SeedList : SeedList[i] \in up \cup {Local}}) :
       frontier' = [i \in DOMAIN at |->
                      [name |-> SeedList[at[i]], box |-> SeedList[at[i]], depth |-> 0]]
  /\ UNCHANGED <<via, fresh, task, result, keys, visitedIps, open, truncated,
                 expired, dialled, expanded>>
  /\ UNCHANGED found

Full == Cardinality(discovered) >= MaxNodes

\* Mutant of Finish: the bounds end the scan without a word.
FinishSilently ==
  /\ phase = "loop"
  /\ frontier = <<>> \/ expired \/ Full
  /\ phase' = "done"
  /\ open' = open \ kept
  /\ kept' = {}
  /\ UNCHANGED <<frontier, via, fresh, task, result, keys, visitedIps, visitedFps,
                 discovered, truncated, expired, registry, dialled, expanded>>

\* The loop of run ends, and the connections of the scan are closed.
Finish ==
  /\ phase = "loop"
  /\ frontier = <<>> \/ expired \/ Full
  /\ phase' = "done"
  /\ truncated' = (truncated \/ frontier # <<>>)
  /\ open' = open \ kept
  /\ kept' = {}
  /\ UNCHANGED <<frontier, via, fresh, task, result, keys, visitedIps, visitedFps,
                 discovered, expired, registry, dialled, expanded>>

\* The loop takes the first node of the frontier.
Takes ==
  /\ phase = "loop"
  /\ frontier # <<>> /\ ~expired /\ ~Full

\* A node at max_depth is not expanded.
Skip ==
  /\ Takes
  /\ Head(frontier).depth >= MaxDepth
  /\ frontier' = Tail(frontier)
  /\ truncated' = TRUE
  /\ UNCHANGED <<phase, via, fresh, task, result, keys, visitedIps, open,
                 expired, dialled, expanded>>
  /\ UNCHANGED found

Shallow(item) == item.depth < MaxDepth

\* What harvest_breadcrumbs can give on v: a command that fails is passed over.
Harvests(v) == IF "harvest" \in Faults THEN SUBSET Crumbs[v] ELSE {Crumbs[v]}

\* _maybe_harvest_keys: keys are only ever added.
KeysAfter(item) ==
  IF harvestKeys /\ item.box # Local THEN keySpace \cup KeysOn[item.box] ELSE keySpace

\* The candidates of a node, and the reservation of those that are new.
Expand(got) ==
  /\ Takes
  /\ Shallow(Head(frontier))
  /\ got \in Harvests(Head(frontier).box)
  /\ via' = Head(frontier)
  /\ keySpace' = KeysAfter(Head(frontier))
  /\ expanded' = expanded \cup {Head(frontier).name}
  /\ \E order \in Orders((got \cup Injected) \ visitedIps) :
       /\ fresh' = order
       /\ visitedIps' = visitedIps \cup Elems(order)
       /\ task' = [a \in Addrs |-> IF a \in Elems(order) THEN "waiting" ELSE "none"]
  /\ phase' = "expand"
  /\ frontier' = Tail(frontier)
  /\ UNCHANGED <<result, harvestKeys, open, truncated, expired, dialled>>
  /\ UNCHANGED found

---------------------------------------------------------------------------
(* _one: the probe of one address.                                         *)

Running == {a \in Addrs : task[a] = "dialling"}

Ends(a) == task' = [task EXCEPT ![a] = "ended"]

\* The semaphore lets the task in when those before it in the list are in.
LetIn(a) ==
  /\ phase = "expand"
  /\ task[a] = "waiting"
  /\ Cardinality(Running) < Concurrency
  /\ \A i, j \in DOMAIN fresh : fresh[j] = a /\ i < j => task[fresh[i]] # "waiting"

\* A bound is reached before the address is tried.
DropAddress(a) ==
  /\ LetIn(a)
  /\ expired \/ Full
  /\ truncated' = TRUE
  /\ Ends(a)
  /\ UNCHANGED <<result, keys, visitedIps, open, expired, dialled, expanded>>
  /\ UNCHANGED <<search, found>>

DialAddress(a) ==
  /\ LetIn(a)
  /\ ~expired /\ ~Full
  /\ task' = [task EXCEPT ![a] = "dialling"]
  /\ dialled' = dialled \cup {a}
  /\ UNCHANGED <<result, keys, visitedIps, open, truncated, expired, expanded>>
  /\ UNCHANGED <<search, found>>

\* The machine at address a, seen from the node being expanded, when one of the
\* keys opens it.
Answers(a, b) ==
  /\ task[a] = "dialling"
  /\ Dial[via.box][a] = b
  /\ Lock[b] \in keySpace

\* Mutant of DialFails: a machine that takes none of the keys is asked for ever.
DialFailsRetries(a) ==
  /\ task[a] = "dialling"
  /\ "connect" \in Faults
  /\ \E b \in Boxes : Answers(a, b)
  /\ Ends(a)
  /\ UNCHANGED <<result, keys, visitedIps, open, truncated, expired, dialled, expanded>>
  /\ UNCHANGED <<search, found>>

\* connect_candidate returns None: no key, nobody there, time out, tunnel lost.
DialFails(a) ==
  /\ task[a] = "dialling"
  /\ "connect" \in Faults \/ ~\E b \in Boxes : Answers(a, b)
  /\ Ends(a)
  /\ UNCHANGED <<result, keys, visitedIps, open, truncated, expired, dialled, expanded>>
  /\ UNCHANGED <<search, found>>

\* Mutant of SameBox: the second connection to a machine is forgotten.
SameBoxLeftOpen(a, b) ==
  /\ Answers(a, b)
  /\ b \in visitedFps
  /\ open' = open \cup {a}
  /\ Ends(a)
  /\ UNCHANGED <<result, keys, visitedIps, truncated, expired, dialled, expanded>>
  /\ UNCHANGED <<search, found>>

\* The machine was seen under another address: _record_addr, and the connection is
\* closed.
SameBox(a, b) ==
  /\ Answers(a, b)
  /\ b \in visitedFps
  /\ discovered' = {IF d.fp = b THEN [d EXCEPT !.addrs = @ \cup {a}] ELSE d : d \in discovered}
  /\ Ends(a)
  /\ UNCHANGED <<result, keys, visitedIps, visitedFps, kept, open, truncated,
                 expired, registry, dialled, expanded>>
  /\ UNCHANGED search

\* A new machine that is one too many, or that cannot be registered.
NewBoxLost(a, b) ==
  /\ Answers(a, b)
  /\ b \notin visitedFps
  /\ Full \/ "write" \in Faults
  /\ visitedFps' = visitedFps \cup {b}
  /\ truncated' = (truncated \/ Full)
  /\ Ends(a)
  /\ UNCHANGED <<result, keys, visitedIps, discovered, kept, open, expired, registry,
                 dialled, expanded>>
  /\ UNCHANGED search

Taken(n) == \E s \in registry : s.name = n

\* Mutant of FreeName: names are not looked up.
FreeNameUnchecked(b) == <<Slug[b], 0>>

\* The name that _register chooses.
FreeName(b) ==
  CHOOSE n \in Names :
    /\ n[1] = Slug[b]
    /\ ~Taken(n)
    /\ \A k \in 0..n[2] : k < n[2] => Taken(<<Slug[b], k>>)

\* pool_reachable: the pool is given the key only when there is just one.
Redialable == ~harvestKeys /\ Cardinality(OurKeys) = 1

\* Mutant of NewBox: no second look at max_nodes after the connection.
NewBoxUnbounded(a, b) ==
  /\ Answers(a, b)
  /\ b \notin visitedFps
  /\ visitedFps' = visitedFps \cup {b}
  /\ registry' = registry \cup
       {[name |-> FreeName(b), session |-> "new",
         jump |-> IF via.box = Local THEN None ELSE via.name]}
  /\ discovered' = discovered \cup
       {[name |-> FreeName(b), fp |-> b, addrs |-> {a}, via |-> via.name,
         depth |-> via.depth + 1, pool |-> Redialable]}
  /\ result' = [result EXCEPT ![a] =
                  [name |-> FreeName(b), box |-> b, depth |-> via.depth + 1]]
  /\ kept' = kept \cup {a}
  /\ open' = open \cup {a}
  /\ Ends(a)
  /\ UNCHANGED <<keys, visitedIps, truncated, expired, dialled, expanded>>
  /\ UNCHANGED search

\* A new machine: registered with its discoverer as jump host.
NewBox(a, b) ==
  /\ Answers(a, b)
  /\ b \notin visitedFps
  /\ ~Full
  /\ visitedFps' = visitedFps \cup {b}
  /\ registry' = registry \cup
       {[name |-> FreeName(b), session |-> "new",
         jump |-> IF via.box = Local THEN None ELSE via.name]}
  /\ discovered' = discovered \cup
       {[name |-> FreeName(b), fp |-> b, addrs |-> {a}, via |-> via.name,
         depth |-> via.depth + 1, pool |-> Redialable]}
  /\ result' = [result EXCEPT ![a] =
                  [name |-> FreeName(b), box |-> b, depth |-> via.depth + 1]]
  /\ kept' = kept \cup {a}
  /\ open' = open \cup {a}
  /\ Ends(a)
  /\ UNCHANGED <<keys, visitedIps, truncated, expired, dialled, expanded>>
  /\ UNCHANGED search

\* gather returns: the new nodes go to the end of the frontier.
Collect ==
  /\ phase = "expand"
  /\ \A a \in Elems(fresh) : task[a] = "ended"
  /\ \E hits \in Ascending({i \in DOMAIN fresh : result[fresh[i]] # None}) :
       frontier' = frontier \o [i \in DOMAIN hits |-> result[fresh[hits[i]]]]
  /\ phase' = "loop"
  /\ via' = None
  /\ fresh' = <<>>
  /\ task' = NoTasks
  /\ result' = NoResults
  /\ UNCHANGED <<keys, visitedIps, open, truncated, expired, dialled, expanded>>
  /\ UNCHANGED found

---------------------------------------------------------------------------
(* What happens meanwhile.                                                 *)

Scanning == phase \in {"loop", "expand"}

\* The scan's timeout passes.
Deadline ==
  /\ Scanning
  /\ ~expired
  /\ expired' = TRUE
  /\ UNCHANGED <<task, result, keys, visitedIps, open, truncated, dialled, expanded>>
  /\ UNCHANGED <<search, found>>

\* The request is cancelled: nothing more of run is executed, and connections
\* that are being made are given up.
Cancel ==
  /\ "cancel" \in Faults
  /\ Scanning
  /\ phase' = "cancelled"
  /\ task' = NoTasks
  /\ result' = NoResults
  /\ via' = None
  /\ fresh' = <<>>
  /\ UNCHANGED <<frontier, keys, visitedIps, open, truncated, expired, dialled, expanded>>
  /\ UNCHANGED found

\* teardown_discovery removes by name what has the session in its note, except
\* what cannot be written; a client knows the session of a scan that has ended.
Teardown(session, left) ==
  /\ session = "new" => ~Scanning
  /\ LET targets == {s.name : s \in {x \in registry : x.session = session}}
     IN /\ targets # {}
        /\ left \subseteq targets
        /\ "write" \notin Faults => left = {}
        /\ registry' = {s \in registry : s.name \notin targets \ left}
  /\ UNCHANGED <<task, result, keys, visitedIps, visitedFps, discovered, kept, open,
                 truncated, expired, dialled, expanded>>
  /\ UNCHANGED search

---------------------------------------------------------------------------
Step ==
  \/ \E up \in SUBSET (Seeds \ {Local}) : Start(up)
  \/ Finish
  \/ Skip
  \/ \E got \in SUBSET Addrs : Expand(got)
  \/ \E a \in Addrs :
       \/ DropAddress(a)
       \/ DialAddress(a)
       \/ DialFails(a)
       \/ \E b \in Boxes : SameBox(a, b) \/ NewBoxLost(a, b) \/ NewBox(a, b)
  \/ Collect

Next ==
  \/ Step
  \/ Deadline
  \/ Cancel
  \/ \E session \in {"old", "new"} : \E left \in SUBSET {s.name : s \in registry} : Teardown(session, left)

Spec == Init /\ [][Next]_vars

\* The scan's task goes on: connections and commands have time-outs.
FairSpec == Spec /\ WF_vars(Step)

---------------------------------------------------------------------------
\* Type invariant of the scan.
TypeOK ==
  /\ phase \in {"idle", "loop", "expand", "done", "cancelled"}
  /\ frontier \in Seq(Item)
  /\ via \in Item \cup {None}
  /\ fresh \in Seq(Addrs)
  /\ task \in [Addrs -> {"none", "waiting", "dialling", "ended"}]
  /\ result \in [Addrs -> Item \cup {None}]
  /\ harvestKeys \in BOOLEAN
  /\ OurKeys \subseteq keySpace
  /\ visitedIps \subseteq Addrs /\ visitedFps \subseteq Boxes
  /\ discovered \subseteq Host
  /\ kept \subseteq Addrs /\ open \subseteq Addrs
  /\ truncated \in BOOLEAN /\ expired \in BOOLEAN
  /\ registry \subseteq Server
  /\ dialled \subseteq Addrs

\* However many probes run at the same time, a machine is discovered once, and the
\* scan never goes over max_nodes (_one looks again after the connection).
DiscoveredOnceWithinBounds ==
  /\ \A d, e \in discovered : d.fp = e.fp => d = e
  /\ Cardinality(discovered) <= MaxNodes

\* Every discovered machine is registered, under a name of its own, with its
\* discoverer as jump host, whatever earlier scans left in the registry and whenever
\* they are torn down; the jump hosts lead in depth steps to a seed (_register).
JumpsLeadToSeed ==
  \A d \in discovered :
    /\ Scanning => \E s \in registry : /\ s.name = d.name /\ s.session = "new"
                                       /\ s.jump = IF d.via = Local THEN None ELSE d.via
    /\ \/ d.via \in Seeds /\ d.depth = 1
       \/ \E e \in discovered : e.name = d.via /\ d.depth = e.depth + 1

\* A scan that does not say it was truncated has tried every address it came across
\* and expanded every machine it found (run, _expand).
UntruncatedIsComplete ==
  phase = "done" /\ ~truncated =>
    /\ visitedIps = dialled
    /\ \A d \in discovered : d.name \in expanded

\* A scan that has come to its end, whatever failed on the way and however its probes
\* overlapped, has closed every connection it made (run, _close_conns); a cancelled
\* one has not.
ConnectionsClosed == phase = "done" => open = {}

\* The scan ends.
ScanEnds == Scanning ~> ~Scanning
===========================================================================
