------------------------------ MODULE Proxies ------------------------------
(***************************************************************************)
(* Port forwards and SOCKS proxies (proxy.py) and what of the pool they     *)
(* rely on: a proxy pins the name of its server so that close() of the pool *)
(* skips the connection.  The pin is a member of a set, not a count.        *)
(***************************************************************************)
EXTENDS PoolPins, Naturals, FiniteSets

CONSTANTS
  Ids,      \* proxy ids
  Tasks     \* ssh_proxy calls in progress at the same time

VARIABLES
  up,         \* servers with a live connection in the pool
  proxies,    \* ProxyManager._proxies: records by id
  listening,  \* the proxies whose listener accepts connections
  tasks,      \* the ssh_proxy calls
  closing,    \* close_all
  abandoned,  \* history: servers that were pinned for a proxy nobody will unpin
  shared      \* history: servers that were pinned while they were in use already

proxiesVars == <<up, pinned, proxies, listening, tasks, closing, abandoned, shared>>

\* A ProxyRecord and its listener.
Proxy == [id : Ids, server : Servers]

ASSUME ProxiesAssumption == None \notin Servers \cup Proxy

NoTask == [kind |-> "none", server |-> None]

\* A start waits for its listener, a stop for the end of the one it has popped.
Task == [kind : {"start", "stop"}, server : Servers] \cup {NoTask}

\* close_all: what is left of its snapshot, the proxy it waits for, and those it
\* has closed.
Closing == [on : BOOLEAN, todo : SUBSET Proxy, at : Proxy \cup {None}, done : SUBSET Proxy]

NotClosing == [on |-> FALSE, todo |-> {}, at |-> None, done |-> {}]

ProxiesInit ==
  /\ up = {}
  /\ pinned = {}
  /\ proxies = {}
  /\ listening = {}
  /\ tasks = [t \in Tasks |-> NoTask]
  /\ closing = NotClosing
  /\ abandoned = {}
  /\ shared = {}

---------------------------------------------------------------------------
\* A proxy of s that somebody still knows and will unpin.
Held(s) ==
  \/ \E p \in proxies : p.server = s
  \/ \E t \in Tasks : tasks[t].kind # "none" /\ tasks[t].server = s

\* Bookkeeping for OnlySharingUnpins: a call begins to use a server that another
\* proxy or call is using, or that close_all is going to unpin.
Uses(s) ==
  shared' = IF Held(s) \/ \E p \in closing.todo \cup ({closing.at} \ {None}) : p.server = s
            THEN shared \cup {s} ELSE shared

---------------------------------------------------------------------------
(* start_proxy.                                                            *)

\* get_connection has returned, the server is pinned, and the call waits for the
\* listener.
StartPinned(t, s) ==
  /\ tasks[t] = NoTask
  /\ up' = up \cup {s}
  /\ pinned' = pinned \cup {s}
  /\ tasks' = [tasks EXCEPT ![t] = [kind |-> "start", server |-> s]]
  /\ Uses(s)
  /\ UNCHANGED <<proxies, listening, closing, abandoned>>

\* type='local' without a target: pinned and unpinned again without an await.
StartRefused(t, s) ==
  /\ tasks[t] = NoTask
  /\ up' = up \cup {s}
  /\ pinned' = pinned \ {s}
  /\ Uses(s)
  /\ UNCHANGED <<proxies, listening, tasks, closing, abandoned>>

\* Mutant of StartDone: the unpin of the failed start is in a finally.
StartDoneUnpins(t, i) ==
  /\ tasks[t].kind = "start"
  /\ tasks[t].server \in up
  /\ \A p \in proxies \cup listening \cup closing.todo \cup closing.done : p.id # i
  /\ closing.at # None => closing.at.id # i
  /\ LET p == [id |-> i, server |-> tasks[t].server] IN
     /\ proxies' = proxies \cup {p}
     /\ listening' = listening \cup {p}
  /\ tasks' = [tasks EXCEPT ![t] = NoTask]
  /\ pinned' = pinned \ {tasks[t].server}
  /\ UNCHANGED <<up, closing, abandoned, shared>>

\* The listener is there, on a connection that is still up: a record under an id
\* that nothing else carries.
StartDone(t, i) ==
  /\ tasks[t].kind = "start"
  /\ tasks[t].server \in up
  /\ \A p \in proxies \cup listening \cup closing.todo \cup closing.done : p.id # i
  /\ closing.at # None => closing.at.id # i
  /\ LET p == [id |-> i, server |-> tasks[t].server] IN
     /\ proxies' = proxies \cup {p}
     /\ listening' = listening \cup {p}
  /\ tasks' = [tasks EXCEPT ![t] = NoTask]
  /\ UNCHANGED <<up, pinned, closing, abandoned, shared>>

\* Mutant of StartFails: the pin is kept.
StartFailsPinned(t) ==
  /\ tasks[t].kind = "start"
  /\ tasks' = [tasks EXCEPT ![t] = NoTask]
  /\ UNCHANGED <<up, pinned, proxies, listening, closing, abandoned, shared>>

\* The forward raises (port in use, connection lost): unpin and re-raise.
StartFails(t) ==
  /\ tasks[t].kind = "start"
  /\ pinned' = pinned \ {tasks[t].server}
  /\ tasks' = [tasks EXCEPT ![t] = NoTask]
  /\ UNCHANGED <<up, proxies, listening, closing, abandoned, shared>>

\* The request is cancelled: CancelledError is no Exception, the pin stays.
StartCancelled(t) ==
  /\ tasks[t].kind = "start"
  /\ tasks' = [tasks EXCEPT ![t] = NoTask]
  /\ abandoned' = abandoned \cup {tasks[t].server}
  /\ UNCHANGED <<up, pinned, proxies, listening, closing, shared>>

---------------------------------------------------------------------------
(* stop_proxy.                                                             *)

\* Mutant of StopBegin: the record goes, the listener stays.
StopBeginListening(t, p) ==
  /\ tasks[t] = NoTask
  /\ p \in proxies
  /\ tasks' = [tasks EXCEPT ![t] = [kind |-> "stop", server |-> p.server]]
  /\ proxies' = proxies \ {p}
  /\ UNCHANGED <<up, pinned, listening, closing, abandoned, shared>>

\* The entry is popped (ProxyNotFound without one), the listener closed, and the
\* call waits for wait_closed.
StopBegin(t, p) ==
  /\ tasks[t] = NoTask
  /\ p \in proxies
  /\ tasks' = [tasks EXCEPT ![t] = [kind |-> "stop", server |-> p.server]]
  /\ proxies' = proxies \ {p}
  /\ listening' = listening \ {p}
  /\ UNCHANGED <<up, pinned, closing, abandoned, shared>>

StopDone(t) ==
  /\ tasks[t].kind = "stop"
  /\ pinned' = pinned \ {tasks[t].server}
  /\ tasks' = [tasks EXCEPT ![t] = NoTask]
  /\ UNCHANGED <<up, proxies, listening, closing, abandoned, shared>>

---------------------------------------------------------------------------
(* close_all of the proxies, when the lifespan ends.                       *)

CloseAllBegin ==
  /\ ~closing.on
  /\ closing' = [NotClosing EXCEPT !.on = TRUE, !.todo = proxies]
  /\ UNCHANGED <<up, pinned, proxies, listening, tasks, abandoned, shared>>

\* The next proxy of the snapshot is closed, also if a stop has popped it since.
CloseAllNext(p) ==
  /\ closing.at = None
  /\ p \in closing.todo
  /\ listening' = listening \ {p}
  /\ closing' = [closing EXCEPT !.todo = @ \ {p}, !.at = p]
  /\ UNCHANGED <<up, pinned, proxies, tasks, abandoned, shared>>

\* wait_closed is over (its exceptions are suppressed).
CloseAllUnpins ==
  /\ closing.at # None
  /\ pinned' = pinned \ {closing.at.server}
  /\ closing' = [closing EXCEPT !.at = None, !.done = @ \cup {closing.at}]
  /\ UNCHANGED <<up, proxies, listening, tasks, abandoned, shared>>

\* _proxies.clear(): what was added since the snapshot goes unclosed.
CloseAllEnd ==
  /\ closing.on
  /\ closing.todo = {}
  /\ closing.at = None
  /\ abandoned' = abandoned \cup {p.server : p \in proxies \ closing.done}
  /\ proxies' = {}
  /\ closing' = NotClosing
  /\ UNCHANGED <<up, pinned, listening, tasks, shared>>

---------------------------------------------------------------------------
(* The pool.                                                               *)

\* The connection of s ends, and asyncssh closes the listeners it carries.
Down(s) ==
  /\ up' = up \ {s}
  /\ listening' = {p \in listening : p.server # s}
  /\ UNCHANGED <<pinned, proxies, tasks, closing, abandoned, shared>>

\* close(name) of the pool skips a pinned connection.
PoolClose(s) ==
  /\ s \in up
  /\ s \notin pinned
  /\ Down(s)

\* The connection is lost, pinned or not (external).
CarrierLost(s) == s \in up /\ Down(s)

---------------------------------------------------------------------------
ProxiesNext ==
  \/ \E t \in Tasks, s \in Servers : StartPinned(t, s) \/ StartRefused(t, s)
  \/ \E t \in Tasks, i \in Ids : StartDone(t, i)
  \/ \E t \in Tasks : StartFails(t) \/ StartCancelled(t) \/ StopDone(t)
  \/ \E t \in Tasks, p \in proxies : StopBegin(t, p)
  \/ CloseAllBegin
  \/ \E p \in closing.todo : CloseAllNext(p)
  \/ CloseAllUnpins
  \/ CloseAllEnd
  \/ \E s \in Servers : PoolClose(s) \/ CarrierLost(s)

ProxiesSpec == ProxiesInit /\ [][ProxiesNext]_proxiesVars

---------------------------------------------------------------------------
\* Type invariant of the proxy table, the pins and the calls.
ProxiesTypeOK ==
  /\ up \subseteq Servers /\ pinned \subseteq Servers /\ abandoned \subseteq Servers
  /\ shared \subseteq Servers
  /\ proxies \subseteq Proxy /\ listening \subseteq Proxy
  /\ tasks \in [Tasks -> Task]
  /\ closing \in Closing

\* A server is pinned only for a proxy that is listed, being started or being
\* stopped; pins are left over only by a cancelled start and by proxies started
\* while close_all was under way (proxy.py, unpin on every other path).
PinHasCause == \A s \in pinned : Held(s) \/ s \in abandoned

\* A port is open only for a proxy that ssh_proxy lists and can stop, except for
\* proxies started while close_all was under way.
ListenerIsListed ==
  \A p \in listening : p \in proxies \/ p.server \in abandoned

\* The connection under a proxy stays pinned, so that close() skips it, for as long
\* as the proxy is listed, unless another proxy or call used the same server: pins
\* are a set and not a count, and the first of two to end takes the pin of both.
OnlySharingUnpins ==
  \A p \in proxies : ~closing.on => p.server \in pinned \/ p.server \in shared
===========================================================================
