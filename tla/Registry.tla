------------------------------ MODULE Registry ------------------------------
(***************************************************************************)
(* The server registry (registry.py, config.py) and the tools that change   *)
(* it (registry_tools.py): the table loaded from servers.toml, the          *)
(* ephemeral table on top of it, the file, the watcher that reloads it, and *)
(* the jump chains that setup_jump registers and teardown_jump removes.     *)
(* The tools do not await while they change the registry; only the          *)
(* verification of an automatic chain does.                                 *)
(***************************************************************************)
EXTENDS Naturals, Sequences, FiniteSets

CONSTANTS
  Names,      \* names a server can have
  Plain,      \* those that clients register and edit by hand
  Aliases,    \* those that clients give to jump chains
  Hop,        \* Hop[a][i]: the generated name of hop i of alias a
  Prefixed,   \* Prefixed[a]: the names that begin like the hops of a
  Notes,      \* kinds of notes in use: "plain", and "quoted" with a quote in it
  Calls,      \* setup_jump(target=...) calls in progress at the same time
  None

\* A ServerConfig: its jump host and the kind of its note.
Config == [jump : Names \cup {None}, note : {"plain", "quoted"}]

ASSUME RegistryAssumption ==
  /\ IsFiniteSet(Names)
  /\ Plain \subseteq Names /\ Aliases \subseteq Names
  /\ Hop \in [Aliases -> Seq(Names)]
  /\ Prefixed \in [Aliases -> SUBSET Names]
  /\ Notes \subseteq {"plain", "quoted"}
  /\ None \notin Names \cup Config

VARIABLES
  config,     \* Registry._config.servers
  ephemeral,  \* Registry._ephemeral
  file,       \* what servers.toml says
  parses,     \* servers.toml is TOML
  pending,    \* the watcher has a change to look at
  up,         \* the MCP server runs
  verifying   \* per call: the alias whose verification it awaits

vars == <<config, ephemeral, file, parses, pending, up, verifying>>

Table == [Names -> Config \cup {None}]

Empty == [n \in Names |-> None]

Without(f, S) == [n \in Names |-> IF n \in S THEN None ELSE f[n]]

With(f, g) == [n \in Names |-> IF n \in DOMAIN g THEN g[n] ELSE f[n]]

---------------------------------------------------------------------------
(* config.py.                                                              *)

\* The servers visited from n on, following jump_host.
Walk(f, n) ==
  LET w[k \in 0..Cardinality(Names)] ==
        IF k = 0 THEN n
        ELSE LET m == w[k - 1] IN IF m = None \/ f[m] = None THEN None ELSE f[m].jump
  IN w

\* Mutant of CircularJumps: only a server that is its own jump host is noticed.
CircularJumpsSelf(f) == \E n \in Names : f[n] # None /\ f[n].jump = n

\* _detect_circular_jumps: some walk comes back to a name it has visited.
CircularJumps(f) ==
  \E n \in Names : f[n] # None /\
    LET w == Walk(f, n) IN
    \E j, k \in 0..Cardinality(Names) : j < k /\ w[j] = w[k] /\ w[k] # None

\* load_config does not raise.
Loadable == parses /\ ~CircularJumps(file)

\* app_config_to_toml puts notes between quotes as they are.
Writable(f) == \A n \in Names : f[n] # None => f[n].note = "plain"

---------------------------------------------------------------------------
(* registry.py.                                                            *)

Taken(n) == config[n] # None \/ ephemeral[n] # None

\* Mutant of Write: the file is not written.
WriteInMemory(new) ==
  /\ config' = new
  /\ UNCHANGED <<file, parses, pending>>

\* Mutant of Write: the ephemeral servers are written too.
WriteAll(new) ==
  LET all == [n \in Names |-> IF ephemeral[n] = None THEN new[n] ELSE ephemeral[n]] IN
  /\ config' = new
  /\ file' = all
  /\ parses' = Writable(all)
  /\ pending' = TRUE

\* add and remove: the file is replaced by the table in memory, which the
\* watcher will notice.
Write(new) ==
  /\ config' = new
  /\ file' = new
  /\ parses' = Writable(new)
  /\ pending' = TRUE

Init ==
  /\ file \in {f \in Table : \A n \in Names :
                 f[n] # None => n \in Plain /\ f[n] = [jump |-> None, note |-> "plain"]}
  /\ config = file
  /\ ephemeral = Empty
  /\ parses = TRUE
  /\ pending = FALSE
  /\ up = TRUE
  /\ verifying = [t \in Calls |-> None]

\* ssh_register_server, when the name is free and the file can be written.
Register(n, c) ==
  /\ up
  /\ ~Taken(n)
  /\ Write(With(config, [m \in {n} |-> c]))
  /\ UNCHANGED <<ephemeral, up, verifying>>

\* ssh_deregister_server knows only the servers of the file.
Deregister(n) ==
  /\ up
  /\ config[n] # None
  /\ Write(Without(config, {n}))
  /\ UNCHANGED <<ephemeral, up, verifying>>

\* Somebody saves servers.toml with one entry changed (external).
Edit(n, c) ==
  /\ parses
  /\ file' = [file EXCEPT ![n] = c]
  /\ pending' = TRUE
  /\ UNCHANGED <<config, ephemeral, parses, up, verifying>>

\* Somebody makes something of it that is not TOML, or repairs it, with the servers
\* that the file was meant to hold (external).
Garble ==
  /\ parses' = ~parses
  /\ pending' = TRUE
  /\ UNCHANGED <<config, ephemeral, file, up, verifying>>

\* The watcher: a file that does not load leaves the table as it is.
Reload ==
  /\ up
  /\ pending
  /\ pending' = FALSE
  /\ config' = IF Loadable THEN file ELSE config
  /\ UNCHANGED <<ephemeral, file, parses, up, verifying>>

\* The MCP server is started again: without its ephemeral servers, and not at all
\* when load_config raises.
Restart ==
  /\ up' = Loadable
  /\ config' = IF Loadable THEN file ELSE Empty
  /\ ephemeral' = Empty
  /\ pending' = FALSE
  /\ verifying' = [t \in Calls |-> None]
  /\ UNCHANGED <<file, parses>>

---------------------------------------------------------------------------
(* Jump chains (registry_tools.py).                                        *)

\* _hop_name: the last hop has the alias as its name.
HopName(a, i, total) == IF i = total THEN a ELSE Hop[a][i]

HopNames(a, m, total) == {HopName(a, i, total) : i \in 1..m}

Lengths(a) == 1..(Len(Hop[a]) + 1)

\* The first m hops of a chain, each with the one before it as jump host; only the
\* last one has the caller's note.
Hops(a, m, total, note) ==
  [n \in HopNames(a, m, total) |->
     LET i == CHOOSE j \in 1..m : HopName(a, j, total) = n
     IN [jump |-> IF i = 1 THEN None ELSE HopName(a, i - 1, total),
         note |-> IF i = total THEN note ELSE "plain"]]

\* The alias is free and there are servers to make a chain of.
Buildable(a) ==
  /\ up
  /\ ~Taken(a)
  /\ \E b \in Names : Taken(b)

\* Mutant of BuildEphemeral: no rollback when a hop name is taken.
BuildEphemeralPartly(a, total, note) ==
  /\ Buildable(a)
  /\ \E m \in 1..total :
       /\ \A n \in HopNames(a, m, total) : ~Taken(n)
       /\ ephemeral' = With(ephemeral, Hops(a, m, total, note))
  /\ UNCHANGED <<config, file, parses, pending, up>>

\* _build_chain in memory: all hops, or none when one of the names is taken.
BuildEphemeral(a, total, note) ==
  /\ Buildable(a)
  /\ \A n \in HopNames(a, total, total) : ~Taken(n)
  /\ ephemeral' = With(ephemeral, Hops(a, total, total, note))
  /\ UNCHANGED <<config, file, parses, pending, up>>

\* _build_chain with persist=True: m hops are added, one write each.  If that is
\* not all of them, because a name is taken or a write raised, they are removed
\* again, and those whose removal cannot be written are left.
BuildPersistent(a, total, note, m, left) ==
  /\ Buildable(a)
  /\ \A n \in HopNames(a, m, total) : ~Taken(n)
  /\ left \subseteq HopNames(a, m, total)
  /\ m = total => left = HopNames(a, m, total)
  /\ Write(With(config, [n \in left |-> Hops(a, m, total, note)[n]]))
  /\ UNCHANGED <<ephemeral, up>>

SetupJump(a, total, note) ==
  /\ \/ BuildEphemeral(a, total, note)
     \/ \E m \in 1..total : \E left \in SUBSET HopNames(a, m, total) :
          BuildPersistent(a, total, note, m, left)
  /\ UNCHANGED verifying

\* setup_jump(target=...): the same chain, then the call awaits a connection.
SetupJumpAuto(t, a, total, note) ==
  /\ verifying[t] = None
  /\ \/ BuildEphemeral(a, total, note)
     \/ BuildPersistent(a, total, note, total, HopNames(a, total, total))
  /\ verifying' = [verifying EXCEPT ![t] = a]

\* Mutant of Targets: only the alias.
TargetsAliasOnly(a) == {n \in {a} : Taken(n)}

\* The names teardown_jump goes for.
Targets(a) == {n \in {a} \cup Prefixed[a] : Taken(n)}

\* Every target is removed from the ephemeral servers and from the file, except
\* those (kept) whose removal cannot be written.
RemoveChain(a, kept) ==
  /\ kept \subseteq {n \in Targets(a) : config[n] # None}
  /\ LET gone == Targets(a) \ kept
     IN /\ ephemeral' = Without(ephemeral, Targets(a))
        /\ IF \E n \in gone : config[n] # None
           THEN Write(Without(config, gone))
           ELSE UNCHANGED <<config, file, parses, pending>>
  /\ UNCHANGED up

TeardownJump(a) ==
  /\ up
  /\ Targets(a) # {}
  /\ \E kept \in SUBSET Targets(a) : RemoveChain(a, kept)
  /\ UNCHANGED verifying

VerifyOk(t) ==
  /\ verifying[t] # None
  /\ verifying' = [verifying EXCEPT ![t] = None]
  /\ UNCHANGED <<config, ephemeral, file, parses, pending, up>>

\* The connection failed: whatever has the alias's name by now is torn down.
VerifyFails(t) ==
  /\ verifying[t] # None
  /\ \E kept \in SUBSET Targets(verifying[t]) : RemoveChain(verifying[t], kept)
  /\ verifying' = [verifying EXCEPT ![t] = None]

---------------------------------------------------------------------------
Next ==
  \/ \E n \in Plain, j \in Plain \cup Aliases \cup {None}, note \in Notes :
       \/ Register(n, [jump |-> j, note |-> note])
       \/ Edit(n, [jump |-> j, note |-> note])
  \/ \E n \in Plain : Edit(n, None)
  \/ \E n \in Names : Deregister(n)
  \/ Garble
  \/ Reload
  \/ Restart
  \/ \E a \in Aliases : \E total \in Lengths(a), note \in Notes :
       \/ SetupJump(a, total, note)
       \/ \E t \in Calls : SetupJumpAuto(t, a, total, note)
  \/ \E a \in Aliases : TeardownJump(a)
  \/ \E t \in Calls : VerifyOk(t) \/ VerifyFails(t)

Spec == Init /\ [][Next]_vars

---------------------------------------------------------------------------
\* Type invariant of the registry, the file and the calls.
TypeOK ==
  /\ config \in Table /\ ephemeral \in Table /\ file \in Table
  /\ parses \in BOOLEAN /\ pending \in BOOLEAN /\ up \in BOOLEAN
  /\ verifying \in [Calls -> Aliases \cup {None}]

\* Once the watcher has seen the last change, memory and file agree, whoever
\* changed what, unless the file does not load (registry.py, add, remove, watch).
ConfigFollowsFile ==
  up /\ ~pending /\ Loadable => config = file

\* The walk of _detect_circular_jumps finds a cycle exactly when there is one: some
\* set of servers each of which jumps to a member of the set.
CycleDetectionExact ==
  CircularJumps(file) <=>
    \E S \in (SUBSET Names) \ {{}} :
      \A n \in S : file[n] # None /\ file[n].jump \in S

\* An ephemeral chain is there as a whole or not at all: following the jump hosts
\* from an alias leads over ephemeral hops to a server reached directly, and a hop
\* is there only with its alias.
EphemeralChainWhole ==
  \A a \in Aliases :
    /\ ephemeral[a] # None =>
         \A i \in 0..Cardinality(Names) :
           LET n == Walk(ephemeral, a)[i] IN n # None => ephemeral[n] # None
    /\ \A i \in 1..Len(Hop[a]) : ephemeral[Hop[a][i]] # None => ephemeral[a] # None

\* A tool that adds or removes servers changes other entries of servers.toml only
\* while the watcher has not seen the last edit or cannot load it: add and remove
\* write the table in memory, and nothing but such an edit is lost that way.
OnlyUnseenEditsAreLost ==
  [][config' # config /\ file' # file =>
       \A n \in Names : file'[n] # file[n] /\ config'[n] = config[n] => pending \/ ~Loadable]_vars
===========================================================================
