-------------------------- MODULE ConnectionPool --------------------------
(***************************************************************************)
(* The connection pool of mcp_ssh/pool.py: one slot per server name, filled *)
(* on demand by get_connection, emptied by the connection_lost callback and *)
(* by close / close_all.  Everything runs on one asyncio event loop, so the *)
(* code between two awaits is one action; what interleaves are the callers  *)
(* suspended in create_connection, the task suspended in wait_closed, the   *)
(* callbacks of asyncssh and the synchronous registry tools.                *)
(***************************************************************************)
EXTENDS PoolPins, Naturals, Sequences, FiniteSets

CONSTANTS
  Hosts,     \* what a ServerConfig can point at (host, port, user)
  Jump,      \* jump_host of the config registered under a name, or None
  Callers,   \* tool calls that use the pool concurrently
  Conns,     \* connections that can be opened: bounds the behaviours
  Faults     \* which rare faults of the environment may happen

\* "escape": create_connection raises something get_connection does not catch
\* for a server without a jump host (a malformed key file, a cancelled request);
\* "hostkey": appending to known_hosts raises OSError.
ASSUME PoolAssumption ==
  /\ IsFiniteSet(Servers)
  /\ None \notin Servers \cup Hosts \cup Conns
  /\ Jump \in [Servers -> Servers \cup {None}]
  /\ Faults \subseteq {"escape", "hostkey"}

VARIABLES
  config,      \* the live registry: name -> host, or None when unregistered
  slots,       \* keys of _entries
  status,      \* _entries[n].status
  connection,  \* _entries[n].connection
  conns,       \* every SSHClientConnection ever opened
  calls,       \* get_connection frames of each caller and its current await
  got,         \* what the caller's last get_connection returned
  closer       \* the task running close / close_all

slotVars == <<slots, status, connection>>
vars == <<config, slots, status, connection, pinned, conns, calls, got, closer>>

Status == {"connected", "disconnected", "connecting"}

\* The connection's server name, the host it leads to, the tunnel it runs
\* through, and how far it has got.  is_closed() is true only of "closed":
\* close() merely asks for the shutdown ("closing").
Conn == [server : Servers, host : Hosts, via : Conns \cup {None},
         state : {"open", "closing", "closed"}]

\* One activation of get_connection: the name, and the host of the cfg that
\* _connect looked up before its first await.
Frame == [name : Servers, host : Hosts]

\* A caller's activations, the innermost first.  Only the innermost one awaits
\* create_connection, through the tunnel "via"; "outcome" is what that await
\* will deliver when the caller is resumed.
Call == [stack : Seq(Frame), via : Conns \cup {None}, conn : Conns \cup {None},
         outcome : {"none", "pending", "up", "caught", "escaped"}]

Idle == [stack |-> <<>>, via |-> None, conn |-> None, outcome |-> "none"]

Result == [name : Servers, host : Hosts, conn : Conns]

Resting == [todo |-> {}, at |-> None, conn |-> None]

---------------------------------------------------------------------------
Opened == DOMAIN conns

Registered(n) == config[n] # None

IsClosed(k) == conns[k].state = "closed"

\* Mutants of Warm: the is_closed() test is missing, or inverted.
WarmUnchecked(n) ==
  /\ status[n] = "connected"
  /\ connection[n] # None

WarmInverted(n) ==
  /\ status[n] = "connected"
  /\ connection[n] # None
  /\ IsClosed(connection[n])

\* The test of get_connection for handing out the slot's connection.
Warm(n) ==
  /\ status[n] = "connected"
  /\ connection[n] # None
  /\ ~IsClosed(connection[n])

Busy(c) == calls[c].stack # <<>>

Top(c) == Head(calls[c].stack)

Last(s) == s[Len(s)]

Names(s) == {s[i] : i \in 1..Len(s)}

Paths == UNION {[1..k -> Servers] : k \in 1..Cardinality(Servers)}

\* The names get_connection(n) walks through before it first suspends: from a
\* registered cold server on to its jump host (_connect, _build_connect_kwargs).
Descents(n) ==
  {p \in Paths :
     /\ p[1] = n
     /\ \A i, j \in 1..Len(p) : p[i] = p[j] => i = j
     /\ \A i \in 1..(Len(p) - 1) :
           /\ Registered(p[i])
           /\ ~Warm(p[i])
           /\ Jump[p[i]] = p[i + 1]}

FramesOf(p) ==
  [i \in 1..Len(p) |->
     [name |-> p[Len(p) + 1 - i], host |-> config[p[Len(p) + 1 - i]]]]

SetStatus(S, st) == [n \in Servers |-> IF n \in S THEN st ELSE status[n]]

Init ==
  /\ config \in [Servers -> Hosts \cup {None}]
  /\ slots = {}
  /\ status = [n \in Servers |-> "disconnected"]
  /\ connection = [n \in Servers |-> None]
  /\ pinned = {}
  /\ conns = [k \in {} |-> None]
  /\ calls = [c \in Callers |-> Idle]
  /\ got = [c \in Callers |-> None]
  /\ closer = Resting

---------------------------------------------------------------------------
(* get_connection up to its first suspension.                              *)

\* The slot holds a live connection: it is returned at once.
GetCached(c, n) ==
  /\ ~Busy(c)
  /\ Registered(n)
  /\ Warm(n)
  /\ got' = [got EXCEPT ![c] = [name |-> n, host |-> config[n],
                                conn |-> connection[n]]]
  /\ UNCHANGED <<config, slots, status, connection, pinned, conns, calls, closer>>

\* Every server of p is marked connecting and the last one awaits
\* create_connection through the tunnel k.
Begin(c, p, k) ==
  /\ slots' = slots \cup Names(p)
  /\ status' = SetStatus(Names(p), "connecting")
  /\ calls' = [calls EXCEPT ![c] = [stack |-> FramesOf(p), via |-> k,
                                    conn |-> None, outcome |-> "pending"]]
  /\ got' = [got EXCEPT ![c] = None]
  /\ UNCHANGED <<config, connection, pinned, conns, closer>>

\* The walk ends at a server without a jump host: a direct connection.
GetDirect(c, n) ==
  /\ ~Busy(c)
  /\ \E p \in Descents(n) :
       /\ Registered(Last(p))
       /\ ~Warm(Last(p))
       /\ Jump[Last(p)] = None
       /\ Begin(c, p, None)

\* Mutant of GetTunnelled: the tunnel is not passed on.
GetUntunnelled(c, n) ==
  /\ ~Busy(c)
  /\ \E p \in Descents(n) :
       /\ Len(p) > 1
       /\ Registered(Last(p))
       /\ Warm(Last(p))
       /\ Begin(c, SubSeq(p, 1, Len(p) - 1), None)

\* The walk ends at a jump host whose connection is live: it is the tunnel.
GetTunnelled(c, n) ==
  /\ ~Busy(c)
  /\ \E p \in Descents(n) :
       /\ Len(p) > 1
       /\ Registered(Last(p))
       /\ Warm(Last(p))
       /\ Begin(c, SubSeq(p, 1, Len(p) - 1), connection[Last(p)])

\* The call raises before it suspends; the servers S keep status st.
Refuse(c, S, st) ==
  /\ slots' = slots \cup S
  /\ status' = SetStatus(S, st)
  /\ got' = [got EXCEPT ![c] = None]
  /\ UNCHANGED <<config, connection, pinned, conns, calls, closer>>

\* ServerNotFound: the last name is not registered.  Every activation above it
\* catches the exception and resets its status.
GetUnknown(c, n) ==
  /\ ~Busy(c)
  /\ \E p \in Descents(n) :
       /\ ~Registered(Last(p))
       /\ Refuse(c, Names(p) \ {Last(p)}, "disconnected")

\* AuthError from the auth mapping of the last name, caught all the way up.
GetAuthError(c, n) ==
  /\ ~Busy(c)
  /\ \E p \in Descents(n) :
       /\ Registered(Last(p))
       /\ ~Warm(Last(p))
       /\ Refuse(c, Names(p), "disconnected")

\* Mutant of GetCircular: a lock per server, held over the await, is waited for
\* by the call that holds it.
GetCircularLocked(c, n) ==
  /\ ~Busy(c)
  /\ \E p \in Descents(n) :
       /\ Registered(Last(p))
       /\ ~Warm(Last(p))
       /\ Jump[Last(p)] \in Names(p)
       /\ calls' = [calls EXCEPT ![c].stack = FramesOf(p)]
       /\ status' = SetStatus(Names(p), "connecting")
  /\ UNCHANGED <<config, slots, connection, pinned, conns, got, closer>>

\* The jump hosts form a cycle: RecursionError, which nobody catches.
GetCircular(c, n) ==
  /\ ~Busy(c)
  /\ \E p \in Descents(n) :
       /\ Registered(Last(p))
       /\ ~Warm(Last(p))
       /\ Jump[Last(p)] \in Names(p)
       /\ Refuse(c, Names(p), "connecting")

---------------------------------------------------------------------------
(* asyncssh and the network (external).                                    *)

\* close() woke up: its wait_closed has been satisfied.
CloserReady == closer.at # None /\ IsClosed(closer.conn)

\* The handshake succeeds; the caller is resumed later.  A handshake that ends
\* after the closer's wait was satisfied resumes its caller after the closer,
\* so it may as well end after the closer has been resumed.
Establish(c) ==
  /\ calls[c].outcome = "pending"
  /\ calls[c].via # None => conns[calls[c].via].state = "open"
  /\ ~CloserReady
  /\ \E k \in Conns \ Opened :
       /\ conns' = [x \in Opened \cup {k} |->
                      IF x = k THEN [server |-> Top(c).name, host |-> Top(c).host,
                                     via |-> calls[c].via, state |-> "open"]
                      ELSE conns[x]]
       /\ calls' = [calls EXCEPT ![c].outcome = "up", ![c].conn = k]
  /\ UNCHANGED <<config, slots, status, connection, pinned, got, closer>>

\* _on_close(name): the slot is cleared, whichever connection it holds.
OnClose(n) ==
  /\ status' = [status EXCEPT ![n] = "disconnected"]
  /\ connection' = [connection EXCEPT ![n] = None]

\* The attempt fails.  Once TCP is up the tracker's connection_lost runs too
\* (notified).
AttemptFails(c, outcome, notified) ==
  /\ calls[c].outcome = "pending"
  /\ calls' = [calls EXCEPT ![c].outcome = outcome]
  /\ IF notified THEN OnClose(Top(c).name) ELSE UNCHANGED <<status, connection>>
  /\ UNCHANGED <<config, slots, pinned, conns, got, closer>>

\* An error of the tunnel (ChannelOpenError) is always possible and not caught.
HandshakeFails(c, outcome, notified) ==
  /\ outcome = "escaped" => calls[c].via # None \/ "escape" \in Faults
  /\ AttemptFails(c, outcome, notified)

\* A connection ends: by the peer, keepalive, or because close() was called.
ConnectionLost(k) ==
  /\ k \in Opened
  /\ ~IsClosed(k)
  /\ conns' = [conns EXCEPT ![k].state = "closed"]
  /\ OnClose(conns[k].server)
  /\ UNCHANGED <<config, slots, pinned, calls, got, closer>>

---------------------------------------------------------------------------
(* get_connection after create_connection has answered.                    *)

\* The connection goes into the slot n and is returned, to the caller or to the
\* activation that wanted it as a tunnel, which starts its own attempt at once.
FillSlot(c, n) ==
  /\ calls[c].outcome = "up"
  /\ connection' = [connection EXCEPT ![n] = calls[c].conn]
  /\ status' = [status EXCEPT ![n] = "connected"]
  /\ IF Len(calls[c].stack) = 1
     THEN /\ calls' = [calls EXCEPT ![c] = Idle]
          /\ got' = [got EXCEPT ![c] = [name |-> Top(c).name, host |-> Top(c).host,
                                        conn |-> calls[c].conn]]
     ELSE /\ calls' = [calls EXCEPT ![c] = [stack |-> Tail(calls[c].stack),
                                            via |-> calls[c].conn, conn |-> None,
                                            outcome |-> "pending"]]
          /\ UNCHANGED got
  /\ UNCHANGED <<config, slots, pinned, conns, closer>>

\* Mutant of ResumeUp: the slot of the server asked for is filled, not that of
\* the server connected.
ResumeUpOuterSlot(c) == Busy(c) /\ FillSlot(c, Last(calls[c].stack).name)

\* create_connection returned: the entry of the innermost activation is filled.
ResumeUp(c) == Busy(c) /\ FillSlot(c, Top(c).name)

\* The exception unwinds the whole stack.  Only the innermost activation knows
\* DisconnectError and OSError; what it raises instead, ConnectionError of
\* mcp_ssh.exceptions, is caught by none of the activations above.
Unwind(c) ==
  /\ calls' = [calls EXCEPT ![c] = Idle]
  /\ UNCHANGED <<config, slots, connection, pinned, conns, got, closer>>

\* Mutant of ResumeCaught: the status is not reset.
ResumeCaughtStuck(c) ==
  /\ calls[c].outcome = "caught"
  /\ UNCHANGED status
  /\ Unwind(c)

ResumeCaught(c) ==
  /\ calls[c].outcome = "caught"
  /\ status' = [status EXCEPT ![Top(c).name] = "disconnected"]
  /\ Unwind(c)

ResumeEscaped(c) ==
  /\ calls[c].outcome = "escaped"
  /\ UNCHANGED status
  /\ Unwind(c)

\* _append_host_key raises OSError after the connection was made.
ResumeHostKeyError(c) ==
  /\ "hostkey" \in Faults
  /\ calls[c].outcome = "up"
  /\ status' = [status EXCEPT ![Top(c).name] = "disconnected"]
  /\ Unwind(c)

---------------------------------------------------------------------------
(* close, close_all, pin, unpin.                                           *)

\* close_all takes a snapshot of the slots, close(name) is the same for one.
CloseStart(S) ==
  /\ closer.todo = {}
  /\ closer.at = None
  /\ S # {}
  /\ closer' = [closer EXCEPT !.todo = S]
  /\ UNCHANGED <<config, slots, status, connection, pinned, conns, calls, got>>

CloseAll == CloseStart(slots)

CloseName(n) == n \in slots /\ CloseStart({n})

\* close(n) past the pin test and up to its await: a live connection is asked to
\* close, any other slot is reset.
CloseSlot(n) ==
  \/ /\ connection[n] # None
     /\ ~IsClosed(connection[n])
     /\ conns' = [conns EXCEPT ![connection[n]].state = "closing"]
     /\ closer' = [todo |-> closer.todo \ {n}, at |-> n, conn |-> connection[n]]
     /\ UNCHANGED <<status, connection>>
  \/ /\ connection[n] # None => IsClosed(connection[n])
     /\ OnClose(n)
     /\ closer' = [closer EXCEPT !.todo = @ \ {n}]
     /\ UNCHANGED conns

\* Mutant of CloseNext: a pinned slot stays on the list until it is unpinned.
CloseNextRetries(n) ==
  /\ closer.at = None
  /\ n \in closer.todo \ pinned
  /\ CloseSlot(n)
  /\ UNCHANGED <<config, slots, pinned, calls, got>>

\* Mutant of CloseNext: pins are not looked at.
CloseNextPinned(n) ==
  /\ closer.at = None
  /\ n \in closer.todo
  /\ CloseSlot(n)
  /\ UNCHANGED <<config, slots, pinned, calls, got>>

\* The next slot of the snapshot: a pinned one is skipped.
CloseNext(n) ==
  /\ closer.at = None
  /\ n \in closer.todo
  /\ \/ n \notin pinned /\ CloseSlot(n)
     \/ /\ n \in pinned
        /\ closer' = [closer EXCEPT !.todo = @ \ {n}]
        /\ UNCHANGED <<status, connection, conns>>
  /\ UNCHANGED <<config, slots, pinned, calls, got>>

\* wait_closed returned: the slot is reset, whatever it holds by now.
CloseResume ==
  /\ CloserReady
  /\ OnClose(closer.at)
  /\ closer' = [closer EXCEPT !.at = None, !.conn = None]
  /\ UNCHANGED <<config, slots, pinned, conns, calls, got>>

Pin(n) ==
  /\ pinned' = pinned \cup {n}
  /\ UNCHANGED <<config, slots, status, connection, conns, calls, got, closer>>

Unpin(n) ==
  /\ pinned' = pinned \ {n}
  /\ UNCHANGED <<config, slots, status, connection, conns, calls, got, closer>>

---------------------------------------------------------------------------
(* The registry the pool looks names up in, changed by the tools at any    *)
(* time; neither operation touches the pool.                               *)

Register(n, h) ==
  /\ ~Registered(n)
  /\ config' = [config EXCEPT ![n] = h]
  /\ UNCHANGED <<slots, status, connection, pinned, conns, calls, got, closer>>

Deregister(n) ==
  /\ Registered(n)
  /\ config' = [config EXCEPT ![n] = None]
  /\ UNCHANGED <<slots, status, connection, pinned, conns, calls, got, closer>>

---------------------------------------------------------------------------
GetConnection(c, n) ==
  \/ GetCached(c, n)
  \/ GetDirect(c, n)
  \/ GetTunnelled(c, n)
  \/ GetUnknown(c, n)
  \/ GetAuthError(c, n)
  \/ GetCircular(c, n)

Resolve(c) ==
  \/ Establish(c)
  \/ \E o \in {"caught", "escaped"}, b \in BOOLEAN : HandshakeFails(c, o, b)

Resume(c) ==
  \/ ResumeUp(c)
  \/ ResumeCaught(c)
  \/ ResumeEscaped(c)
  \/ ResumeHostKeyError(c)

CloserStep == CloseResume \/ \E n \in Servers : CloseNext(n)

Next ==
  \/ \E c \in Callers, n \in Servers : GetConnection(c, n)
  \/ \E c \in Callers : Resolve(c) \/ Resume(c)
  \/ \E k \in Conns : ConnectionLost(k)
  \/ CloseAll
  \/ CloserStep
  \/ \E n \in Servers : CloseName(n) \/ Pin(n) \/ Unpin(n) \/ Deregister(n)
  \/ \E n \in Servers, h \in Hosts : Register(n, h)

Spec == Init /\ [][Next]_vars

\* connect_timeout bounds every create_connection; the loop resumes a task
\* whose await is satisfied; a connection asked to close does close.
Fairness ==
  /\ \A c \in Callers : WF_vars(Resolve(c)) /\ WF_vars(Resume(c))
  /\ \A k \in Conns :
       WF_vars(k \in Opened /\ conns[k].state = "closing" /\ ConnectionLost(k))
  /\ WF_vars(CloserStep)

FairSpec == Spec /\ Fairness
---------------------------------------------------------------------------
\* Type invariant of the pool's state (_entries, _pinned) and of the calls,
\* connections and closing task the event loop is working on.
TypeOK ==
  /\ config \in [Servers -> Hosts \cup {None}]
  /\ slots \subseteq Servers
  /\ status \in [Servers -> Status]
  /\ connection \in [Servers -> Conns \cup {None}]
  /\ pinned \subseteq Servers
  /\ Opened \subseteq Conns
  /\ conns \in [Opened -> Conn]
  /\ calls \in [Callers -> Call]
  /\ got \in [Callers -> Result \cup {None}]
  /\ closer \in [todo : SUBSET Servers, at : Servers \cup {None},
                 conn : Conns \cup {None}]

\* Whatever the interleaving, a slot only ever holds a connection made for its
\* own name, and get_connection(n) only ever returns a connection made for n:
\* neither the recursion through jump hosts nor the callbacks, which find the
\* slot by name, mix servers up.
ServersNeverMixed ==
  /\ \A n \in Servers : connection[n] # None =>
        connection[n] \in Opened /\ conns[connection[n]].server = n
  /\ \A c \in Callers : got[c] # None =>
        got[c].conn \in Opened /\ conns[got[c].conn].server = got[c].name

\* A server configured with a jump host is reached through a connection to
\* exactly that jump host, and a server without one is reached directly
\* (_build_connect_kwargs passes the recursive result as the tunnel).
TunnelledThroughJumpHost ==
  \A k \in Opened :
    LET via == conns[k].via IN
    IF Jump[conns[k].server] = None
    THEN via = None
    ELSE via \in Opened /\ conns[via].server = Jump[conns[k].server]

InFlight(n) == \E c \in Callers :
                 \E i \in DOMAIN calls[c].stack : calls[c].stack[i].name = n

\* "connecting" is never a leftover for a server without a jump host: as long as
\* create_connection raises only what get_connection catches, some call is
\* still working on the slot (pool.py sets the status before the await and has
\* to undo it on every way out).
ConnectingIsInFlight ==
  \A n \in Servers :
    Jump[n] = None /\ status[n] = "connecting" => InFlight(n)

\* get_connection never hands out again a connection whose loss it could have
\* noticed: what a call returns is not closed at that moment, or is the
\* connection that this very call has just opened.
NoDeadConnectionReused ==
  [][\A c \in Callers :
       got'[c] # got[c] /\ got'[c] # None =>
         \/ ~IsClosed(got'[c].conn)
         \/ got'[c].conn = calls[c].conn]_vars

\* Every get_connection returns or raises, however the attempts of its jump
\* hosts, the losses and the other callers interleave.
EveryCallReturns == \A c \in Callers : Busy(c) ~> ~Busy(c)

\* close_all comes to an end even while callers keep reconnecting the servers
\* it is closing: it works on a snapshot of the slots.
CloseAllEnds == closer # Resting ~> closer = Resting

\* The pool keeps one connection per server: no server has two connections that
\* are both open.  True of calls that do not overlap (pool.py reuses the slot and
\* empties it before it reconnects); get_connection takes no lock over its await.
OneConnectionPerServer ==
  \A j, k \in Opened :
    /\ conns[j].state = "open" /\ conns[k].state = "open"
    /\ conns[j].server = conns[k].server
    => j = k

\* get_connection returns a connection to the host that was registered under
\* the name when it was called, also after the name was replaced.
ReturnsRegisteredHost ==
  \A c \in Callers : got[c] # None => conns[got[c].conn].host = got[c].host
===========================================================================
