----------------------------- MODULE KnownHosts -----------------------------
(***************************************************************************)
(* What the connection pool trusts: the host-key policies of               *)
(* mcp_ssh/pool.py and ssh_add_known_host.  The decision whether a host is  *)
(* verified is taken from known_hosts before create_connection is awaited,  *)
(* asyncssh reads the file again during the handshake, and the key is       *)
(* appended after it, so attempts at the same host overlap; and a key counts *)
(* as present when it stands anywhere in the file.                          *)
(***************************************************************************)
EXTENDS FiniteSets, Naturals

CONSTANTS
  Servers,   \* registered names
  HostOf,    \* cfg.host of each; several servers may be one host
  Policies,  \* per server: the policies it may be registered with
  Keys,      \* host keys
  Tasks,     \* tool calls that connect concurrently
  MaxKeys,   \* bound: how often the keys of the hosts change
  None

Policy == {"strict", "tofu", "accept_new"}

ASSUME KnownHostsAssumption ==
  /\ Policies \in [Servers -> SUBSET Policy]
  /\ IsFiniteSet(Keys) /\ IsFiniteSet(Tasks)
  /\ None \notin Servers \cup Keys

Hosts == {HostOf[s] : s \in Servers}

Line == [host : Hosts, key : Keys]

VARIABLES
  policy,   \* host_key_policy of each server
  file,     \* the lines of known_hosts: host and key
  hostKey,  \* the key each host presents
  changes,  \* how often a host has changed its key
  task,     \* the attempt of each tool call
  slot,     \* the key the pooled connection of a server was made with
  added     \* hosts and keys that ssh_add_known_host has answered for

vars == <<policy, file, hostKey, changes, task, slot, added>>

\* A connection that is being made: what was looked up before the await, whether
\* ssh_add_known_host asked for it, and the key once the handshake is over.
Attempt == [server : Servers, policy : Policy, verify : BOOLEAN, add : BOOLEAN,
            key : Keys \cup {None}]

Idle == [server |-> None, policy |-> None, verify |-> FALSE, add |-> FALSE,
         key |-> None]

---------------------------------------------------------------------------
\* Mutant of Known: the scan never finds a host.
KnownNever(h) == FALSE

\* _is_host_known: some line of the file begins with the host.
Known(h) == \E l \in file : l.host = h

\* known_hosts of create_connection: the path of the file, or None to accept
\* any key.
Verifies(s) ==
  \/ policy[s] = "strict"
  \/ policy[s] = "tofu" /\ Known(HostOf[s])

\* Mutant of Appended: only the name of the host is looked for.
AppendedOnce(f, h, k) ==
  IF \E l \in f : l.host = h THEN f ELSE f \cup {[host |-> h, key |-> k]}

\* The file after _append_host_key: nothing is written when the key stands
\* anywhere in it, also for another host.
Appended(f, h, k) ==
  IF \E l \in f : l.key = k THEN f ELSE f \cup {[host |-> h, key |-> k]}

Init ==
  /\ policy \in {f \in [Servers -> Policy] : \A s \in Servers : f[s] \in Policies[s]}
  /\ file = {}
  /\ hostKey \in [Hosts -> Keys]
  /\ changes = 0
  /\ task = [t \in Tasks |-> Idle]
  /\ slot = [s \in Servers |-> None]
  /\ added = {}

---------------------------------------------------------------------------
Free(t) == task[t] = Idle

\* get_connection of a cold server, by a tool that only uses the connection or
\* by ssh_add_known_host: the policy and the file are read before the await.
Connect(t, s, add) ==
  /\ Free(t)
  /\ slot[s] = None
  /\ task' = [task EXCEPT ![t] = [server |-> s, policy |-> policy[s],
                                  verify |-> Verifies(s), add |-> add,
                                  key |-> None]]
  /\ UNCHANGED <<policy, file, hostKey, changes, slot, added>>

\* What ssh_add_known_host does with the connection, which it is handed without
\* a suspension in between: f is the file it finds.
Add(f, s, k) ==
  /\ file' = Appended(f, HostOf[s], k)
  /\ added' = added \cup {[host |-> HostOf[s], key |-> k]}

\* ssh_add_known_host of a server whose connection is pooled.
AddPooled(s) ==
  /\ slot[s] # None
  /\ Add(file, s, slot[s])
  /\ UNCHANGED <<policy, hostKey, changes, task, slot>>

\* Trusted keys of the host are those of the file at the time of the handshake.
Accepts(t) ==
  LET h == HostOf[task[t].server] IN
  task[t].verify => [host |-> h, key |-> hostKey[h]] \in file

\* The handshake ends well; the call is resumed later.
Handshake(t) ==
  /\ ~Free(t)
  /\ task[t].key = None
  /\ Accepts(t)
  /\ task' = [task EXCEPT ![t].key = hostKey[HostOf[task[t].server]]]
  /\ UNCHANGED <<policy, file, hostKey, changes, slot, added>>

\* HostKeyNotVerifiable, or any other failure of the attempt.
Fails(t) ==
  /\ ~Free(t)
  /\ task[t].key = None
  /\ task' = [task EXCEPT ![t] = Idle]
  /\ UNCHANGED <<policy, file, hostKey, changes, slot, added>>

\* Mutant of Remembered: the key is written only under accept_new.
RememberedAcceptNew(c) ==
  IF c.policy = "accept_new" THEN Appended(file, HostOf[c.server], c.key) ELSE file

\* The file after _connect: the key of a tofu or accept_new server is appended.
Remembered(c) ==
  IF c.policy \in {"tofu", "accept_new"}
  THEN Appended(file, HostOf[c.server], c.key)
  ELSE file

\* create_connection returned: the key is appended, the slot filled, and
\* ssh_add_known_host goes on to append the key itself.
Resume(t) ==
  LET c == task[t] IN
  /\ c.key # None
  /\ slot' = [slot EXCEPT ![c.server] = c.key]
  /\ IF c.add
     THEN Add(Remembered(c), c.server, c.key)
     ELSE file' = Remembered(c) /\ UNCHANGED added
  /\ task' = [task EXCEPT ![t] = Idle]
  /\ UNCHANGED <<policy, hostKey, changes>>

\* Appending raises OSError: the connection is not kept.
ResumeFails(t) ==
  /\ task[t].key # None
  /\ task[t].policy \in {"tofu", "accept_new"}
  /\ task' = [task EXCEPT ![t] = Idle]
  /\ UNCHANGED <<policy, file, hostKey, changes, slot, added>>

---------------------------------------------------------------------------
(* The environment.                                                        *)

\* The pooled connection is lost or closed.
Lost(s) ==
  /\ slot[s] # None
  /\ slot' = [slot EXCEPT ![s] = None]
  /\ UNCHANGED <<policy, file, hostKey, changes, task, added>>

\* A machine is reinstalled and presents another key.
Reinstall(h, k) ==
  /\ changes < MaxKeys
  /\ hostKey' = [hostKey EXCEPT ![h] = k]
  /\ changes' = changes + 1
  /\ UNCHANGED <<policy, file, task, slot, added>>

\* The server is registered again with another policy.
SetPolicy(s, p) ==
  /\ policy' = [policy EXCEPT ![s] = p]
  /\ UNCHANGED <<file, hostKey, changes, task, slot, added>>

Next ==
  \/ \E t \in Tasks, s \in Servers, add \in BOOLEAN : Connect(t, s, add)
  \/ \E s \in Servers : AddPooled(s) \/ Lost(s)
  \/ \E t \in Tasks : Handshake(t) \/ Fails(t) \/ Resume(t) \/ ResumeFails(t)
  \/ \E h \in Hosts, k \in Keys : Reinstall(h, k)
  \/ \E s \in Servers : \E p \in Policies[s] : SetPolicy(s, p)

Spec == Init /\ [][Next]_vars

---------------------------------------------------------------------------
KeysOf(h) == {l.key : l \in {m \in file : m.host = h}}

\* Type invariant of known_hosts, the attempts and the pooled connections.
TypeOK ==
  /\ policy \in [Servers -> Policy] /\ \A s \in Servers : policy[s] \in Policies[s]
  /\ file \subseteq Line /\ added \subseteq Line
  /\ hostKey \in [Hosts -> Keys]
  /\ task \in [Tasks -> Attempt \cup {Idle}]
  /\ slot \in [Servers -> Keys \cup {None}]

\* A connection is pooled only when the key it was made with is on record, for
\* its own host or for another host that has the same key: a strict server must
\* have found it there, and _connect appends the key of any other server before
\* the slot is filled, whatever the file has become during the handshake.
PooledKeyIsRecorded ==
  \A s \in Servers : slot[s] # None => \E l \in file : l.key = slot[s]

\* The servers that can never be registered with accept_new.
Careful(h) == \A s \in Servers : HostOf[s] = h => "accept_new" \notin Policies[s]

\* Trust on first use: however often a host changes its key, and whatever the
\* order of connects, lost connections and changes of policy between tofu and
\* strict, no more keys are recorded for it than calls can be in their first
\* connect to it at the same time; calls one after the other record one key.
FirstUseOnly ==
  \A h \in Hosts : Careful(h) => Cardinality(KeysOf(h)) <= Cardinality(Tasks)

\* ssh_add_known_host prepares a server for strict: once it has answered for a
\* host and a key, the host is found with this key in known_hosts, unless the key
\* stood there for another host, which counts as already known.
AddedIsVerifiable ==
  \A a \in added : a \in file \/ \E l \in file : l.key = a.key /\ l.host # a.host
===========================================================================
