# A verification project for better-ssh-mcp

`mcp_ssh` is an MCP server: a single-process asyncio program that gives an
assistant SSH access to a set of registered servers. It pools connections, runs
background processes and PTY sessions on remote hosts, forwards ports, maintains
`servers.toml`, and maps networks. This directory holds TLA+ modules of its
stateful parts, TLC configurations that check them on small instances, and TLAPS
proofs of what matters most for every instance.

All line numbers below and in `PROJECT.json` are relative to the repository.

## 1. Inventory

One event loop runs everything, so the code between two `await`s is atomic, and
the only preemption points are awaits, callbacks of asyncssh, and the death of
the process. This decides the grain of every module: **one action per stretch of
code between two awaits**.

| Component | State | Operations | Hard behaviour | What makes it correct |
|---|---|---|---|---|
| Connection pool (`pool.py`) | `_entries` (status, connection, pin), `_pinned` | `get_connection` (recursive through jump hosts), `_on_close`, `close`, `close_all`, `pin`, `unpin` | callers suspended in `create_connection`, callbacks between handshake and resumption, loss of a tunnel, errors that no `except` names | a slot only holds a connection of its own name, tunnels follow the configured jump host, no dead connection is handed out, `connecting` means somebody connects, every call returns |
| Host-key policies (`pool.py`, `ssh_add_known_host`) | `known_hosts` file | tofu / strict / accept_new, append, add | the decision to verify is taken before the handshake, the append comes after it, several calls connect at once | a pooled connection has a recorded key, one first use records one key |
| Background processes (`session.py`) | `StateStore._processes`, the remote wrapper, log and exit file | start, read, kill, check | remote state changes between two commands of one call, stale copies of records, crash between launch and record | reads give the log without gaps, "ended" is complete, "killed" is true, nothing returned is forgotten |
| PTY sessions (`session.py`) | records, `_pty_procs`, `_tmux_sessions`, `_tmux_conns`, `_pty_buffers` | start, read, write, resize, close, attach | cap checked before an await, handles in memory and records on disk, bounded buffer | cap, no session without a handle counts, output in order |
| State store (`state.py`) | `state.json` and its copy in memory | upsert, load, delete | write fails after memory has changed, crash, audit log fails after the write | what was returned is on disk |
| Proxies (`proxy.py`) | `_proxies`, pins in the pool, listeners | start, stop, list, `close_all` | pin shared by several proxies, cancellation, overlap with shutdown | pins have a cause, open ports are listed |
| Registry (`registry.py`, `config.py`) | `_config`, `_ephemeral`, `servers.toml`, watcher | add, remove, reload, load | edit by hand against write from memory, files that cannot be read back, cycles | memory follows the file, edits are kept, the file parses |
| Registry tools (`registry_tools.py`) | none of its own | register, deregister, setup_jump, teardown_jump, known-host tools | rollback, awaited verification, generated names | chains are whole or absent |
| Discovery (`discovery.py`) | frontier, visited sets, discovered hosts, open connections, registry entries | one scan, teardown | concurrent probes, deduplication by host key, bounds, deadline, cancellation | each machine once, jump hosts lead to a seed, truncation is reported, connections are closed, the scan ends |
| Topology (`topology.py`) | cached matrix | harvest, probes row by row, `find_path` | the network changes during the scan, sources that cannot be reached or prohibit forwarding, shared addresses | a returned path is a best one, its hops have worked, no path means that there was none all along |
| File transfer (`scp_tools.py`) | none (files at both ends) | get, put, transfer, sync | listings that fail, files that change during a sync, a copy that fails between others, delete | nothing deleted that the source has, success mirrors the source, a repeated sync settles |
| One-shot exec (`exec_tools.py`) | none | exec with time-out, process tools | output truncation, byte offsets | offsets match the log |
| Server (`server.py`), audit, models, utils | lifespan wiring | start-up, shutdown order | – | – |

How they interact: every tool reaches a server through `get_connection`; proxies
pin the pool's connections; processes and PTY sessions persist through the state
store; the pool reads the registry on each connect (before its await) and appends to
`known_hosts` after it; discovery and `setup_jump` write the registry and connect
through what they wrote; `setup_jump` with `auto` asks `find_path` for the hops; the
lifespan of `server.py` closes proxies and then the pool.

The hazards, each at its line and with the property that covers it, are in
`PROJECT.json`.

## 2. Modules

| Module | Models | Proved in | Instances |
|---|---|---|---|
| `PoolPins` | the names and the set of pinned ones, which `ConnectionPool` and `Proxies` share | – | – |
| `PoolService` | what the pool promises its users, the abstract specification | – | – |
| `ConnectionPool` | `pool.py`; register and deregister as the pool sees them | `ConnectionPoolProofs` | `MCConnectionPool` |
| `PoolRefinement` | that `ConnectionPool` implements `PoolService`, with the refinement mapping | `ConnectionPoolProofs` | `MCConnectionPool` |
| `KnownHosts` | host-key policies of `pool.py`, `ssh_add_known_host` | `KnownHostsProofs` | `MCKnownHosts` |
| `Processes` | background processes of `session.py`, with `state.py` | `ProcessesProofs` | `MCProcesses` |
| `PtySessions` | PTY sessions of `session.py`, with `state.py` | `PtyProofs` | through `Pty` |
| `PtyBuffer` | `_drain_pty`, the output of a session without tmux | `PtyProofs` | through `Pty` |
| `Pty` | both together, for one session whose output is followed | `PtyProofs` | `MCPty` |
| `Proxies` | `proxy.py` and the pins of the pool | `ConnectionPoolProofs` | `MCProxies` |
| `Registry` | `registry.py`, `config.py`, the chain tools of `registry_tools.py` | `RegistryProofs` | `MCRegistry` |
| `Discovery` | one scan of `discovery.py` | `DiscoveryProofs` | `MCDiscovery` |
| `FindPath` | `find_path` of `topology.py` | `TopologyProofs` | through `Topology` |
| `Topology` | one scan of `topology.py` and `find_path` over its result | `TopologyProofs` | `MCTopology` |
| `FileTransfer` | `scp_tools.py` | `FileTransferProofs` | `MCFileTransfer` |

Operators whose comment begins with *Mutant of* are plausible bugs of the code;
they are not part of any specification and exist to show that the properties
notice them (`mutants` in `PROJECT.json`).

### ConnectionPool

A caller's recursion through jump hosts is a stack of frames; only the innermost
one awaits. `GetConnection` runs from the call to its first await: it walks down
the chain of cold slots, marks each as `connecting`, and stops at a warm slot, at
an unregistered name, or at a server without jump host. `Resolve` is the event
loop's side (handshake succeeds, fails with an error that is caught, or with one
that is not); `Resume` continues the caller, either up the stack (`ResumeUp`, which
stores the connection and begins the next handshake through it) or unwinding it
(`Unwind`). `ConnectionLost` is asyncssh's callback, which finds the slot **by
name**. `CloseAll`, `CloseName` and `CloserStep` are `close` and `close_all` with
their `wait_closed`. Abstractions: a `ServerConfig` is the host it leads to; the
jump host of a name is a constant; the mapping of the authentication settings is a
call that may raise; which of the caught errors arrives is not distinguished, since
all set the same status. A closing task is resumed when its connection is closed
and not before its turn in the loop's queue.

`Faults` selects rare events: `"escape"`, an error for a direct server that no
`except` of `get_connection` names (a malformed key file, cancellation);
`"hostkey"`, appending to `known_hosts` fails after the connection has been made.

### PoolService and PoolRefinement

`PoolService` has no slots, statuses, callbacks or closing task. A caller asks for a
server, is connected hop by hop along the jump hosts through tunnels that are alive,
and is answered with a connection made for the server it named, or with an error;
connections end at any time, and the pool never asks one of a pinned server to close.
The mapping of `PoolRefinement`: what a caller waits for is the name in its outermost
frame, the hop the name in its innermost, what it has obtained the connection the
handshake delivered, the answer the last connection it got. Connections and pins are
the same in both. Slots, the closing task and the registry have no counterpart, so
`_on_close`, what `close` does to a slot and registrations are stutters or a `Lose`.

### KnownHosts

Whether a host is verified is decided by `Verifies` before the await (`Connect`):
always under strict, under tofu if some line of the file begins with the host, never
under accept_new. asyncssh reads the file again during the handshake (`Accepts`), and
`Resume` appends the key under the policy that was read before. `Appended` writes
nothing when the key stands anywhere in the file, as `_append_host_key` does.
`ssh_add_known_host` is a connect that appends once more (`add`). Hosts change their
keys (`Reinstall`), servers are registered again under another policy (`SetPolicy`),
connections are lost, appends raise (`ResumeFails`). `file` is a set of lines, since
nothing depends on their order and no line is removed.

### Processes

A remote process is the command, the `bash` wrapper whose pid is recorded, the exit
file (absent, empty between opening and writing, written) and the number of bytes in
its log. Each tool call is a task that goes through the awaits of the code; the
server-side effect of a command and the resumption of the task are different steps.
`Crash` and `Restart` are those of the MCP server: remote processes go on, `load`
gives running records the status `unknown`. `stream` is what a client makes of its
reads when it always passes the returned offset. Logs are single-byte text.
`StoreRaises` is the end of a call whose record cannot be written: memory has it, the
file may have it (when it is the audit log that cannot be written), and the client gets
an error.

### PtySessions, PtyBuffer and Pty

`StartChecked` is the code up to the first await (the cap), `Launched` the remote
effect, `StartDone` the rest: handles, record, file, return. `persisted = FALSE` is
a `_persist` that raises after memory has changed. Sessions with and without tmux
differ in what holds their handle and in what ends them on the remote host
(`ShellEnds`, which is free), so the model does not distinguish them. `PtyBuffer` follows the bytes of
one session, numbered in the order they are printed, through a deque of chunks that
drops its oldest when it is full and that `pty_read` may split. `Pty` composes them: the
buffer of the session `Watched` exists as long as its handle (`open <- Watched \in
handles`), so its `start_pty`, `pty_close` and the crash of the MCP server are steps of
both modules, and `Read` moves output *and* says whether the session is alive. Steps of
other sessions leave the buffer alone. The shell prints only while it runs; the drain
task goes on after its end.

### Proxies

`StartPinned` is `start_proxy` up to the await of the listener; it ends in
`StartDone`, `StartFails` (unpins) or `StartCancelled` (does not: `CancelledError`
is not an `Exception`). `close_all` works through a snapshot and clears the table at
its end. Two history variables: `abandoned` holds the servers for which a pin or a
listener is left that no proxy in the table stands for, `shared` those that were
pinned while they were in use already.

### Registry

`config` and `file` are tables from names to configurations; of a configuration the
jump host and the kind of its note are kept, the two things on which something
depends (the chain, the cycle check, and whether the file can be read back).
`Reload` is the watcher (`pending`), `Restart` the next start, which is possible only
if the file loads. Edits by hand go to the file only; `Garble` makes the file
unreadable and readable again.

### Discovery

A machine is its host-key fingerprint, a connection is the address it was made to.
What each machine knows (`Crumbs`), where an address leads as seen from a machine
(`Dial`), and the keys are constants: the parsers of `ssh` configuration, ARP tables and so
on are represented by their result. The probes of one machine run concurrently under the semaphore; the
order of their awaits is free. `"harvest"`, `"connect"`, `"write"`, `"cancel"` select
failing commands, connections that are lost after the answer, registrations that
cannot be written, and the cancellation of the request. The deadline may pass at
any time. `Teardown` removes servers of this or an earlier scan while it runs.

### Topology and FindPath

`Harvest` collects the addresses of each node, or only the registered one when the node
cannot be logged in to or its command fails. Then `BeginRow`, `Probe` and `RowDone` take
one source after the other, the MCP host first: a source without a connection has no
usable edges, a target has the quickest of its addresses that answered, and at the end
of a row in which one probe was prohibited all its edges are relabelled. Links, and
nodes that can be logged in to, come and go between any two steps (`Change`); `ever`,
`steady` and `loyal` are the history the properties speak of. When the matrix is cached
`find_path` runs over it: `FindPath` is instantiated with `Matrix`. Its heap is a set of
entries; which of several entries with equal cost `heappop` returns depends on names, so
it is a choice. The reference (`Routes`, `RouteCost`) enumerates all routes
without detours.

### FileTransfer

A tree is a function from paths to contents and modification times. `ssh_sync` between
two servers goes through its phases `source`, `target`, `copy`, `delete`, one await at a
time: one directory listed (or not: what cannot be read counts as empty), one file
copied under `_needs_copy`, one file removed. In between others write and remove files
at both ends, transfer files, and time passes. Content 0 is a torn copy. `Key` is the name under
which a file is looked for at the destination, which for a glob is relative to the match.
Within one server a sync is one command, `rsync` or, when there is none, `cp -ru` with its
exit status thrown away. The history fields of a call (`blind`, `blindTo`, `steady`,
`quiet`, `copied`, `deleted`, `kept`) say what could not be read, what the source had all
the time, whether others changed anything, and what was done.

## 3. Runs

States are distinct states found by TLC.

| Run | Bounds | Checks |
|---|---|---|
| `pool` | `gate`, `db` behind it, 2 callers, 3 connections ever opened, nothing pinned, failing `known_hosts` (725 k) | `ServersNeverMixed`, `TunnelledThroughJumpHost`, `ConnectingIsInFlight`, `NoDeadConnectionReused` |
| `pool_live` | also `loop`, its own jump host; 1 caller, 2 connections, only `gate` pinned, `loop` registered, errors nobody catches (136 k) | `OneConnectionPerServer`, `EveryCallReturns`, `CloseAllEnds`, `ImplementsService` |
| `known_hosts` | 2 servers on 2 hosts, one tofu or strict, one strict or accept_new; 3 keys, 2 changes of keys, 2 calls (1.86 M) | `PooledKeyIsRecorded`, `FirstUseOnly`, `AddedIsVerifiable` |
| `processes` | 1 process, 2 calls, log of 3 bytes, reads of 2 (4.1 M) | `StreamIsPrefixOfLog`, `EndedStreamIsComplete`, `ExitedWithoutCodeWasKilled`, `StartedIsRemembered` |
| `pty` | 1 server with a cap of 1, 3 sessions, 2 calls, restarts; 4 bytes of output, chunks of 2, deque of 2, reads of 2 (1.8 M) | `CapOvershootBounded`, `CountedIsHandled`, `ReturnedIsRemembered`, `NotAliveIsGone`, `OutputInOrder`, `RunningLosesOnlyByOverflow` |
| `proxies` | 2 servers, 3 proxies, 2 calls (463 k) | `PinHasCause`, `ListenerIsListed`, `OnlySharingUnpins` |
| `registry` | 1 alias with 1 hop, 2 plain servers, notes with and without quotes (368 k) | `ConfigFollowsFile`, `CycleDetectionExact`, `EphemeralChainWhole`, `OnlyUnseenEditsAreLost` |
| `discovery` | 4 machines, 5 addresses, at most 3 nodes, depth 2, 2 at a time, every fault (518 k) | `DiscoveredOnceWithinBounds`, `JumpsLeadToSeed`, `UntruncatedIsComplete`, `ConnectionsClosed`, `ScanEnds` |
| `topology` | 3 nodes, 5 addresses of which one is shared, 8 links that may work, 1 change of the network (2.9 M) | `HopsHaveWorked`, `NoPathMeansNone`, `PathIsBest` |
| `sync` | 3 directories on 2 servers and the own machine, 3 files up to two directories down, 2 contents of one size, 1 change by others, 1 fault, 1 tick, tolerance 0 (1.5 M) | `DeletedIsAbsent`, `FailedNeverDeletes`, `SuccessMirrors`, `SettledCopiesNothing` |

`TypeOK` of a module documents its variables. It is proved for all of them.

Why the bounds are enough for the cases of interest. Three connections allow the two
callers to connect at the same time and one of them to reconnect after a loss; two
servers give one jump. What a pin does, making `close` skip a slot, is in `pool_live`.
Three keys and two changes let a host present a key, another one, and the first again,
and let both hosts have the same. A log of 3 bytes with reads of 2 has a read that ends
inside the log and one that ends with it. Two calls with a cap of one pass the check
together; other caps are covered by the proof. Four bytes in chunks of one overflow a
deque of two. Three proxies on two servers force two to share a pin. In the discovery
instance, `p` has two addresses, one of them in an injected block that is cut off, and
may be a seed as well; `p` and `q` share the beginning of their fingerprints, and an
earlier scan may have registered `q` (name collision); `r` accepts only a key found on
`p`; three nodes of four hit the bound. In the topology instance a chain through two
jump hosts competes with a direct edge and with a shorter chain of higher latency, each
row may have a refused probe, and the change may come at any step. The files of `sync` are at
the top, one and two directories down, since only the immediate parent is created; two
contents of one size can be told apart by their time only; one change by others is
enough to come between any two awaits, and a fault strikes any listing, copy or removal.

Two runs use a constraint on what is pinned (`NothingPinned`, `OnlyGatePinned`): states
beyond it are not explored, so liveness of `pool_live` is about behaviours in which no
server but `gate` is pinned and `loop` stays registered (`LoopStays`); the refinement
is proved without these bounds. `CHECK_DEADLOCK FALSE` is used for `discovery` and
`topology`, where one scan is modelled to its end. Symmetry is used only in runs
without liveness.

**Fairness.** `pool_live`: `connect_timeout` bounds every `create_connection`, so each
resolves; the loop resumes a task whose await is satisfied; a connection that was asked
to close is closed in the end. `discovery`: the scan's own steps go on, since connections
and commands have time-outs. New calls, edits, losses, deadlines and cancellations have
no fairness. The other runs check safety only.

### Where the code and its documentation disagree

Two runs expect a violation; `findings` quotes what they contradict.

| Run | What happens |
|---|---|
| `pool_replace` | deregistering leaves the connection open, and `get_connection` returns it after the name was registered for another host |
| `process_kill` | a check that began before a kill overwrites `killed` with `running` |

The properties of the other runs are stated as the code has them, and what they leave
out is as much a result. Reading them that way:

- `OneConnectionPerServer` needs calls that do not overlap: two calls for a cold slot
  both connect, and one connection stays open outside the pool (`pool.py:198`).
- `ConnectingIsInFlight` is about servers without a jump host: when the jump host cannot
  be reached, the slot behind it stays `connecting` (`pool.py:199`, the error of the
  inner call is none of those caught).
- `CapOvershootBounded` is the bound that holds instead of `max_sessions` when
  `start_pty` calls overlap (`session.py:352`).
- `OnlySharingUnpins`: pins are a set, so the first of two proxies of a server to end
  unpins both (`proxy.py:92`).
- `PinHasCause` and `ListenerIsListed` have the exception `abandoned`: a cancelled start
  keeps its pin, and what starts during `close_all` is cleared unclosed.
- `NotAliveIsGone` is about sessions of this life of the MCP server: after a restart a tmux
  session has a record and no handle, and is called not alive while it runs
  (`session.py:487`).
- `OnlyUnseenEditsAreLost`: an edit of `servers.toml` that the watcher has not loaded is
  overwritten by the next tool call (`registry.py:70`). That the file loads is no
  invariant: cycles of jump hosts and notes with quotes get into it.
- `EphemeralChainWhole` assumes that no alias is named like the hops of another
  (`registry_tools.py:590`; `DistinctNames` in the proof); a persistent chain may stay half-built when its rollback
  cannot be written (`registry_tools.py:303`).
- `ConnectionsClosed` is about scans that come to their end; a cancelled one leaves its
  connections open (`discovery.py:794`). `UntruncatedIsComplete` is about addresses that
  became candidates: what is cut off from an injected block is not reported
  (`discovery.py:330`), and a seed met under its address is expanded again
  (`discovery.py:858`). An address is dialled once: one that is first tried from a machine
  that cannot reach it is never tried from one that can (`discovery.py:825`).
- `FirstUseOnly` bounds the keys of a host by the number of calls, not by one: calls that
  connect for the first time at the same time all accept any key (`pool.py:388`).
- `AddedIsVerifiable` has an exception for keys that stand in the file for another host,
  which count as known (`pool.py:112`). Under strict, `ssh_add_known_host` fails for a host
  that is not known, so it cannot prepare one; `_make_tofu_known_hosts` is not used.
- `HopsHaveWorked` excepts addresses in use on several nodes, and speaks of the time of
  the scan: rows are probed one after the other, so the matrix may combine edges that never
  worked together. `NoPathMeansNone` excludes sources of which one probe was refused, since
  the whole row is then relabelled (`topology.py:507`).
- `DeletedIsAbsent` excepts files under a directory of the source that could not be read
  (`scp_tools.py:253`: it counts as empty, and what it had is removed).
- `SuccessMirrors` is not about `cp -ru`, whose failures are hidden and which does not look at
  `delete` (`scp_tools.py:410`); not about files under a matched directory, which are looked
  for and written under names relative to the match (`scp_tools.py:458`); not about a single
  file, which is looked for under its own name as a directory. A file two new directories
  down ends the sync with an error (`scp_tools.py:482`).
- `SettledCopiesNothing` needs `preserve`: without it, which is the default, the copies get
  new times and a repeated sync copies them again.
- `StartedIsRemembered` is about ids that were returned. When the record cannot be written the
  process runs on and the client has an error instead of its id (`session.py:185`).
- `RunningLosesOnlyByOverflow`: `alive` may be false while output is still on its way, and
  a later read delivers it (`session.py:479`).

## 4. Proofs

Everything below holds for every value of the constants that satisfies the named
`ASSUME`s (which TLC evaluates in each run). Two theorems have a further hypothesis,
named in their statement, without which the code does not keep the property:
`PoolOneConnectionPerServer` and `ChainsAreWhole`; `PoolConnectingIsInFlight` leaves out
the fault `"escape"`. Every strengthening was an invariant of a TLC run before it was
proved.

**ConnectionPoolProofs.** `PoolTypeCorrect`, `PoolServersNeverMixed`,
`PoolTunnelledThroughJumpHost`, `PoolConnectingIsInFlight` (from
`"escape" \notin Faults`), `PoolNoDeadConnectionReused`; chains of any length, any
number of callers. None of these is inductive: that a slot holds a connection of its
own name depends on what the suspended callers will store there. The invariant `IInv`
therefore adds `CallsOK` (the stack of a caller follows the jump hosts, its tunnel
belongs to the jump host of the innermost frame, the connection that a handshake has
delivered belongs to that frame and runs through that tunnel, errors that are not
caught come through a tunnel or from a fault) and `CloserOK` (the closing task waits
for a connection that exists). One lemma per action shows that it is kept;
`NoDeadConnectionReused` follows from the action's guard and the invariant.

`PoolOneConnectionPerServer` is about calls that do not overlap (`NoOverlap`) and keys
that can be appended to `known_hosts`: a failing append leaves a connection open that is
in no slot. `OneInv` says where a connection is until it is closed: in its slot, which is
then `connected`, or in the hands of the call that has just opened it. It needs
`CallCold`, that the slots of all servers a call is working on have nothing to hand out,
and `CloserKeeps`: the connection that `close` waits for stays in its slot, and once it is
closed nobody fills the slot before `close` resets it. `QuietStep` covers all the actions
that change cold slots only. Pins and a restricted number of servers, which bound the run, play
no part.

`PoolImplementsService`: `Spec => ImplementsService`, a step
simulation. One lemma per action names the step of `PoolService` it is, under the
invariant `RInv`: `IInv` and `ConnOK`, that a caller holds a
connection only when its handshake has succeeded. `CallBars` and its neighbours say how the mapping
changes when one call does. The one assumption besides those of `ConnectionPool` is that
`None` is not an answer (`NoResult`).

About the proxies, whose pins the pool heeds: `ProxiesPinHasCause` and `ProxiesListenerIsListed`, from the
strengthening `PinHasOpenCause` (a pin held only by a proxy that `close_all` has
already closed is about to be removed) and `DoneIsClosed` (what `close_all` has
closed does not listen, so clearing the table hides no open port).
`ProxiesOnlySharingUnpins` from `UsersInv`: two users of a server, be they proxies in the
table or calls, exist only if the server was noted as shared (`UsersAlone`); what
`close_all` has still to unpin has no other user than itself or the `stop` that has popped
it (`ClosedAlone`); a start keeps its pin until its proxy is listed (`StartIsPinned`).

**KnownHostsProofs.** `PooledKeysRecorded`, `FirstUseBounded`, `AddedStaysVerifiable` for
any number of servers, hosts, keys and concurrent calls. `FirstUseOnly` counts keys only;
it becomes inductive as `RoomForFirstUse`: once a careful host has a key, its keys plus
the attempts that will still accept any key do not exceed the calls. A new attempt then
verifies, and an unverified one that ends gives up its place to the key it may add.
`TasksOK` says that what a verifying attempt has accepted is on record, which makes
`PooledKeyIsRecorded` inductive, as the file never loses a line.

**ProcessesProofs.** `ProcessesStreamIsPrefixOfLog`, `ProcessesEndedStreamIsComplete`,
`ProcessesExitedWithoutCodeWasKilled`, `ProcessesStartedIsRemembered`, for logs and reads
of any length. All four rest on one invariant: `HostsOK` (the wrapper writes the exit file
when the command is done, and is gone after it or by a signal), `CallsOK` (what a call may
still rely on of the answers it had some awaits ago: an exit code means that the log is
final, a pid that was not found that the wrapper is dead, the offset of a read is where
the client's stream ends), `Alone` (one start and one read per process) and
`RecordedIsStarted`. That answers stay true is one lemma about how a remote process goes
on (`Goes`, `RemoteGoesOn`), that a record is stored truly another (`NewRecordFacts`). The
assumption `NoneAssumption` says that `None` is no record, no table and no exit code.

**PtyProofs.** About the sessions alone: `PtyCapOvershootBounded`: sessions that count
plus calls in flight exceed the cap by less than the number of calls. It is inductive
because it counts the calls that have passed the check, not just the sessions.
`PtyCountedIsHandled` and `PtyReturnedIsRemembered` hold through crashes because of
`DownIsEmpty` and because `load` turns every status into `unknown`.
`PtyNotAliveIsGone` needs `CountedIsHandled` (a session that counts has a handle, so a
read without one is not about it) and `InFlightIsFresh` (the id of a call in progress
was never the subject of a read).

About the composition: `PtyImplementsSessions` (`PtySpec => Spec`) carries all of this over
to sessions with output. `PtyOutputInOrder` and `PtyRunningLosesOnlyByOverflow` rest on
`BufferInv`: the deque is a run of consecutive bytes that ends with the last one drained
(`DequeOK`), what the client has is increasing and older than the deque, and as long as
the session has a handle, what lies before the deque was either delivered or counted as
dropped. `RunningLosesOnlyByOverflow` then needs `CountedIsHandled`: a running
session has a handle. How much `pty_read` takes is defined by recursive functions over the
deque; `TotalIs` and `JoinedIs` give their closed forms for a run of bytes, and
`ReadTakesRun` that a read takes a run off the front, splitting one chunk at most.

**RegistryProofs.** `MemoryFollowsFile` and `WritesLoseOnlyUnseenEdits` from a case
analysis of what a step does to table, file and watcher (`StepKinds`: it writes both, leaves
both, edits the file, reloads, or restarts) and `UpInv` (nothing waits in a server that is not
there, so a failed verification writes from a table that follows the file).
`CycleCheckIsExact`: two equal servers on a walk bound a set of servers that jump to each
other; a walk that never ends has more steps than there are names, so it meets one twice
(the pigeonhole principle). `WalkIs` gives the steps of the recursive `Walk`. `ChainsAreWhole`
has the hypothesis `DistinctNames`, which is about the names that `_hop_name` makes: an
alias such as `a_hop` has hops that begin like those of the alias `a`, and tearing down `a` removes
them. Its invariant `ChainInv` describes the chain of an alias hop by hop (`WholeChain`)
or says that none of its names is in use; a chain depends on its own names only
(`SameNamesSameChain`), and `WalkDownChain` computes the walk from its alias.

**DiscoveryProofs.** `DiscoveryOnceWithinBounds`, `DiscoveryJumpsLeadToSeed`,
`DiscoveryUntruncatedIsComplete`, `DiscoveryConnectionsClosed`, for any network, any seeds
and bounds, and any overlap of probes. The invariant says that every node of the frontier, and
every result on its way there, is a seed or one of the discovered machines at its depth
(`NodesSound`); that a machine is discovered exactly when its fingerprint is put with the visited
ones (`OncePerKey`); that what was reserved waits or was tried, and what was discovered is in
the frontier, on its way there, or expanded, unless truncation was noted (`NothingMissed`);
and that the open connections are those the scan has kept (`ConnectionsKept`).
`JumpsLeadToSeed` also needs a free name for each machine: an earlier scan leaves at most one
server per machine and this one adds at most one, so one of the names that `_register` tries
is free (`NamesLeft`).

**FileTransferProofs.** `DeletesOnlyAbsent`, `FailureDeletesNothing`, `SuccessIsMirror`,
`SettledIsStable`, for trees of any size and depth and any changes by others. `CallInv`
follows a sync through its awaits: a file that the source had all the time is listed, still
to be come upon, or under a directory that could not be read (`Looked`); what was read is
what is there unless others changed something (`SourceRead`, `TargetRead`); what has been
listed is done or to be copied (`CopiesMade`); nothing is copied while trees are read, or
deleted before all is copied (`NotYet`). `Stored` says that files lie in
directories, and directories in directories, without which the walk of a listing would not find
them. `Settled` says what a clean sync leaves for the next. The proof of
`SettledIsStable` found an error in an earlier form of the model, in which a sync of
another kind kept the note that all was settled; `SyncStart` now drops it.

**TopologyProofs.** `ScanHopsHaveWorked`, `ScanNoPathMeansNone`, `FindPathIsBest`, for any number
of nodes and addresses and a network that changes at any moment until the matrix is cached.
`ScanInv` is about the scan: the probes of a row start at its node or
nowhere, and nowhere only if that node could once not be logged in to (`DialerOK`); a harvest
that did not fail knows all addresses (`HarvestOK`); a cell with an edge has worked
(`CellsWorked`), a cell without one is not for an edge that has worked all the time from a
usable source (`CellsFound`), which survives the relabelling because a usable source
has no prohibited link; and every cell before the one being probed is there (`CellsCover`).
`SearchInv` is about the search, while its matrix stands still. Every entry of the heap is
a route with the cost of that route, on which each node is known at no more hops than the
route takes to it (`EntryOK`): a better cost for the next node is then a cost for a node
not on the route, so that routes make no detours. Every node that was
found waits in the heap at its best cost or has been expanded (`Settled`). From this, by
induction along a route, no route to the target is cheaper than the entry taken off the heap
(`LowestIsBest`), and none exists when the heap is empty (`NothingLeft`), also where the route
of the property returns to nodes or stays at one. `RouteCost` is a recursive
function over a route: `SumExists` and `RouteCostIs` give its values, `OneHopMore` what
one more hop adds. That a route without detours is among the `Routes`, which are
bounded by the number of nodes, is the pigeonhole principle (`RouteInRoutes`). The proofs
need that latencies are numbers and that `None` is none of the values it stands beside
(`NoneAssumption`).

**How inductions over numbers are done.** The library's induction rules take a predicate as
a parameter, which the provers here cannot instantiate. `InductionUpTo` is about a *set* of
numbers instead: if it has 0, and each number up to n whose predecessor it has, then it has all
of them. It follows from `SmallestNat`, that a set of numbers has a smallest one, which
comes from the well-foundedness of the subset ordering on finite sets. This is enough for
functions defined by recursion over `0..n`: their closed form or their existence is shown
at each argument.

**Only model-checked.** Liveness (`EveryCallReturns`, `CloseAllEnds`, `ScanEnds`), which is
out of the prover's reach. Every other property of a passing run is a theorem. The two
properties that a run violates (`ReturnsRegisteredHost`, `KilledIsNotRunning`) are false.

## 5. Not modelled

- One-shot exec (`exec_tools.py`, `ssh_exec`): one await between a connection and an answer,
  without state. A command that timed out goes on on the server, and a retry runs it again.
- Recovery of a corrupt `state.json`, the topology stored in it, and two MCP servers on one
  state file, each of which writes the whole of its own memory.
- Edits of `known_hosts` by hand, hashed names and entries with ports.
- Recursive `ssh_get`, `ssh_put` and `ssh_transfer` of directories outside of a sync.
- The parsers of discovery, construction of command lines, formatting, `path_gap_report`,
  the audit log, tool registration: no state that another part depends on.
- `pty_resize`, `pty_write` and attaching change no state of the MCP server.
- The SIGTERM handler of `server.py:666`, which is installed on a loop other than the one
  `mcp.run` starts: what happens to it is up to FastMCP. The order of the lifespan's shutdown is in `Proxies`.
- Multi-byte text: logs and terminal output are bytes. A read that ends inside a character
  fails (processes) or replaces both halves (PTY).

## 6. Plan

1. Done: pool and its interface, known hosts, processes, PTY sessions with their output,
   proxies, registry, discovery, topology, file transfer; proofs of all their safety properties.
2. `Proxies` composed with `PoolService`, replacing its summary of `close`.
3. Byte-level logs for multi-byte text and `next_offset`.
4. Two MCP servers on one state file, recovery of a corrupt one.
