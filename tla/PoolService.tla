---------------------------- MODULE PoolService ----------------------------
(***************************************************************************)
(* What the connection pool promises its users (IConnectionPool), without   *)
(* saying how: no slots, no statuses, no callbacks, no closing task.  A call *)
(* names a server and is answered with a connection made for that server:    *)
(* one that is not known to be closed, or one the call made itself, hop by   *)
(* hop along the jump hosts up to the server it named.  The pool closes      *)
(* nothing that is pinned.                                                   *)
(***************************************************************************)
CONSTANTS Servers, Hosts, Jump, Callers, Conns, None

VARIABLES
  asked,     \* the server each caller waits for a connection to
  hop,       \* the server its call is connecting to now
  obtained,  \* the connection to that hop, once it is there
  answer,    \* the connection the caller was last answered with
  made,      \* every connection: its server and host, its tunnel and its state
  kept       \* servers whose connection must not be closed

vars == <<asked, hop, obtained, answer, made, kept>>

callVars == <<asked, hop, obtained, answer>>

Made == DOMAIN made

Init ==
  /\ asked = [c \in Callers |-> None]
  /\ hop = [c \in Callers |-> None]
  /\ obtained = [c \in Callers |-> None]
  /\ answer = [c \in Callers |-> None]
  /\ made = [k \in {} |-> None]
  /\ kept = {}

---------------------------------------------------------------------------
\* Answered at once, with a connection to n that is there, or with an exception.
Reuse(c, n) ==
  /\ asked[c] = None
  /\ \E k \in Made :
       /\ made[k].server = n
       /\ made[k].state # "closed"
       /\ answer' = [answer EXCEPT ![c] = k]
  /\ UNCHANGED <<asked, hop, obtained, made, kept>>

Refuse(c) ==
  /\ asked[c] = None
  /\ answer' = [answer EXCEPT ![c] = None]
  /\ UNCHANGED <<asked, hop, obtained, made, kept>>

\* The call has to wait; m is the first hop it connects to.
Ask(c, n, m) ==
  /\ asked[c] = None
  /\ asked' = [asked EXCEPT ![c] = n]
  /\ hop' = [hop EXCEPT ![c] = m]
  /\ answer' = [answer EXCEPT ![c] = None]
  /\ UNCHANGED <<obtained, made, kept>>

\* What a connection to s may run through: a live connection to the jump host of
\* s, or nothing when s has no jump host.
Tunnels(s) ==
  IF Jump[s] = None
  THEN {None}
  ELSE {v \in Made : made[v].server = Jump[s] /\ made[v].state = "open"}

Connection(s, h, v) == [server |-> s, host |-> h, via |-> v, state |-> "open"]

Connect(c, k) ==
  /\ asked[c] # None
  /\ obtained[c] = None
  /\ obtained' = [obtained EXCEPT ![c] = k]
  /\ k \notin Made
  /\ \E v \in Tunnels(hop[c]), h \in Hosts :
       made' = [x \in Made \cup {k} |->
                  IF x = k THEN Connection(hop[c], h, v) ELSE made[x]]
  /\ UNCHANGED <<asked, hop, answer, kept>>

\* The call goes on to a server that has the hop as its jump host.
NextHop(c) ==
  /\ obtained[c] # None
  /\ obtained' = [obtained EXCEPT ![c] = None]
  /\ \E m \in Servers : Jump[m] = hop[c] /\ hop' = [hop EXCEPT ![c] = m]
  /\ UNCHANGED <<asked, answer, made, kept>>

Done(c) ==
  /\ asked' = [asked EXCEPT ![c] = None]
  /\ hop' = [hop EXCEPT ![c] = None]
  /\ obtained' = [obtained EXCEPT ![c] = None]
  /\ UNCHANGED <<made, kept>>

Deliver(c) ==
  /\ obtained[c] # None
  /\ made[obtained[c]].server = asked[c]
  /\ hop[c] = asked[c]
  /\ answer' = [answer EXCEPT ![c] = obtained[c]]
  /\ Done(c)

Fail(c) ==
  /\ asked[c] # None
  /\ Done(c)
  /\ UNCHANGED answer

\* The pool asks a connection to close, and a connection ends.
Shut(k) ==
  /\ k \in Made
  /\ made[k].state # "closed"
  /\ made[k].server \notin kept
  /\ made' = [made EXCEPT ![k].state = "closing"]
  /\ UNCHANGED <<callVars, kept>>

Lose(k) ==
  /\ k \in Made
  /\ made' = [made EXCEPT ![k].state = "closed"]
  /\ UNCHANGED <<callVars, kept>>

\* Users say what must stay open.
Keep ==
  /\ kept' \in SUBSET Servers
  /\ UNCHANGED <<callVars, made>>

Next ==
  \/ \E c \in Callers :
       \/ \E n \in Servers : Reuse(c, n)
       \/ \E n, m \in Servers : Ask(c, n, m)
       \/ \E k \in Conns : Connect(c, k)
       \/ Refuse(c) \/ NextHop(c) \/ Deliver(c) \/ Fail(c)
  \/ \E k \in Conns : Shut(k) \/ Lose(k)
  \/ Keep

Spec == Init /\ [][Next]_vars
===========================================================================
