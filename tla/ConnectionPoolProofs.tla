----------------------- MODULE ConnectionPoolProofs -----------------------
(***************************************************************************)
(* Proofs about ConnectionPool for any number of servers, callers and      *)
(* connections and any jump-host graph, circular ones included: its safety, *)
(* and that it implements PoolService.  Then the safety of Proxies, the     *)
(* clients of the pool that pin its connections.                            *)
(***************************************************************************)
EXTENDS PoolRefinement, Proxies, FiniteSetTheorems, TLAPS

\* What is known of a call that is not idle: its frames follow the jump hosts,
\* its tunnel leads to the jump host of the innermost frame, and a connection
\* that is up was made for that frame.
CallOK(c) ==
  /\ Busy(c) <=> calls[c].outcome # "none"
  /\ \A i \in 1..(Len(calls[c].stack) - 1) :
       Jump[calls[c].stack[i + 1].name] = calls[c].stack[i].name
  /\ Busy(c) => IF Jump[Top(c).name] = None
                THEN calls[c].via = None
                ELSE /\ calls[c].via \in Opened
                     /\ conns[calls[c].via].server = Jump[Top(c).name]
  /\ calls[c].outcome = "up" => /\ calls[c].conn \in Opened
                                /\ conns[calls[c].conn].server = Top(c).name
                                /\ conns[calls[c].conn].via = calls[c].via
  /\ calls[c].outcome = "escaped" => calls[c].via # None \/ "escape" \in Faults

CallsOK == \A c \in Callers : CallOK(c)

CloserOK == closer.at # None => closer.conn \in Opened

IInv ==
  /\ TypeOK
  /\ CallsOK
  /\ CloserOK
  /\ ServersNeverMixed
  /\ TunnelledThroughJumpHost
  /\ "escape" \notin Faults => ConnectingIsInFlight

---------------------------------------------------------------------------
(* Facts about the sequences the model is built from.                      *)

\* A path of get_connection is a nonempty sequence of server names.
LEMMA PathFacts ==
  ASSUME NEW p \in Paths
  PROVE  /\ p \in Seq(Servers)
         /\ Len(p) \in Nat \ {0}
         /\ Last(p) \in Servers
         /\ Names(p) \subseteq Servers
<1>1. Cardinality(Servers) \in Nat
  BY FS_CardinalityType, PoolAssumption
<1>2. PICK k \in 1..Cardinality(Servers) : p \in [1..k -> Servers]
  BY DEF Paths
<1>3. k \in Nat \ {0}
  BY <1>1
<1>4. p \in Seq(Servers) /\ Len(p) = k
  BY <1>2, <1>3
<1> QED
  BY <1>2, <1>3, <1>4 DEF Last, Names

\* FramesOf turns a path of registered servers into the stack of activations,
\* the innermost (last) server first.
LEMMA FramesFacts ==
  ASSUME NEW p \in Seq(Servers), Len(p) > 0,
         \A i \in 1..Len(p) : config[p[i]] \in Hosts
  PROVE  /\ FramesOf(p) \in Seq(Frame)
         /\ Len(FramesOf(p)) = Len(p)
         /\ FramesOf(p) # <<>>
         /\ \A i \in 1..Len(p) : FramesOf(p)[i].name = p[Len(p) + 1 - i]
<1>1. Len(p) \in Nat
  OBVIOUS
<1>2. \A i \in 1..Len(p) : Len(p) + 1 - i \in 1..Len(p)
  BY <1>1
<1>3. FramesOf(p) \in [1..Len(p) -> Frame]
  BY <1>1, <1>2 DEF FramesOf, Frame
<1>4. FramesOf(p) \in Seq(Frame) /\ Len(FramesOf(p)) = Len(p)
  BY <1>1, <1>3
<1> QED
  BY <1>1, <1>4 DEF FramesOf

\* What Head and Tail give of a nonempty stack of activations.
LEMMA StackFacts ==
  ASSUME NEW s \in Seq(Frame), s # <<>>
  PROVE  /\ Len(s) \in Nat \ {0}
         /\ DOMAIN s = 1..Len(s)
         /\ Head(s) = s[1]
         /\ \A i \in 1..Len(s) : s[i] \in Frame /\ s[i].name \in Servers
         /\ Len(s) # 1 =>
              /\ Len(s) - 1 \in Nat \ {0}
              /\ Tail(s) \in Seq(Frame)
              /\ Tail(s) # <<>>
              /\ Len(Tail(s)) = Len(s) - 1
              /\ DOMAIN Tail(s) = 1..(Len(s) - 1)
              /\ Head(Tail(s)) = s[2]
              /\ \A i \in 1..(Len(s) - 1) : Tail(s)[i] = s[i + 1]
<1>1. Len(s) \in Nat \ {0} /\ DOMAIN s = 1..Len(s) /\ Head(s) = s[1]
  OBVIOUS
<1>2. \A i \in 1..Len(s) : s[i] \in Frame
  OBVIOUS
<1>3. \A i \in 1..Len(s) : s[i].name \in Servers
  BY <1>2 DEF Frame
<1>4. ASSUME Len(s) # 1
      PROVE  /\ Len(s) - 1 \in Nat \ {0}
             /\ Tail(s) \in Seq(Frame)
             /\ Len(Tail(s)) = Len(s) - 1
             /\ DOMAIN Tail(s) = 1..(Len(s) - 1)
             /\ \A i \in 1..(Len(s) - 1) : Tail(s)[i] = s[i + 1]
  BY <1>1, <1>4
<1>5. ASSUME Len(s) # 1 PROVE Tail(s) # <<>> /\ Head(Tail(s)) = s[2]
  <2>1. 1 \in 1..(Len(s) - 1) /\ 1 + 1 = 2
    BY <1>4, <1>5
  <2>2. Tail(s)[1] = s[2]
    BY <1>4, <1>5, <2>1
  <2>3. Head(Tail(s)) = Tail(s)[1]
    BY <1>4, <1>5
  <2> QED
    BY <1>4, <1>5, <2>2, <2>3
<1> QED
  BY <1>1, <1>2, <1>3, <1>4, <1>5

---------------------------------------------------------------------------
(* The initial state, and the step of get_connection that suspends.        *)

\* The invariant holds before the first tool call.
LEMMA InitIInv == Init => IInv
<1> SUFFICES ASSUME Init PROVE IInv
  OBVIOUS
<1> USE DEF Init
<1>1. Opened = {}
  BY DEF Opened
<1>2. TypeOK
  <2>1. calls \in [Callers -> Call]
    BY DEF Idle, Call
  <2>2. conns \in [Opened -> Conn]
    BY <1>1 DEF Opened
  <2> QED
    BY <1>1, <2>1, <2>2 DEF TypeOK, Status, Resting
<1>3. CallsOK
  BY DEF CallsOK, CallOK, Busy, Idle
<1>4. CloserOK
  BY DEF CloserOK, Resting
<1>5. ServersNeverMixed /\ TunnelledThroughJumpHost
  BY <1>1 DEF ServersNeverMixed, TunnelledThroughJumpHost
<1>6. ConnectingIsInFlight
  BY DEF ConnectingIsInFlight
<1> QED
  BY <1>2, <1>3, <1>4, <1>5, <1>6 DEF IInv

\* Begin keeps the invariant when p follows the jump hosts and k is the tunnel
\* its last server asks for.
LEMMA BeginIInv ==
  ASSUME IInv, NEW c \in Callers, NEW p \in Seq(Servers), Len(p) > 0,
         NEW k \in Conns \cup {None},
         \A i \in 1..Len(p) : Registered(p[i]),
         \A i \in 1..(Len(p) - 1) : Jump[p[i]] = p[i + 1],
         IF Jump[Last(p)] = None THEN k = None
         ELSE k \in Opened /\ conns[k].server = Jump[Last(p)],
         ~Busy(c), Begin(c, p, k)
  PROVE  IInv'
<1> USE DEF IInv
<1>1. \A i \in 1..Len(p) : config[p[i]] \in Hosts
  <2>1. \A i \in 1..Len(p) : p[i] \in Servers /\ config[p[i]] # None
    BY DEF Registered
  <2> QED
    BY <2>1 DEF TypeOK
<1>2. /\ FramesOf(p) \in Seq(Frame)
      /\ Len(FramesOf(p)) = Len(p)
      /\ FramesOf(p) # <<>>
      /\ \A i \in 1..Len(p) : FramesOf(p)[i].name = p[Len(p) + 1 - i]
  BY <1>1, FramesFacts
<1> DEFINE new == [stack |-> FramesOf(p), via |-> k, conn |-> None,
                   outcome |-> "pending"]
<1>3. new \in Call
  BY <1>2 DEF Call
<1>4. calls' = [calls EXCEPT ![c] = new]
  BY DEF Begin
<1>5. Names(p) \subseteq Servers
  BY DEF Names
<1>6. Opened' = Opened /\ conns' = conns
  BY DEF Begin, Opened
<1>7. TypeOK'
  BY <1>3, <1>4, <1>5, <1>6 DEF TypeOK, Begin, SetStatus, Status
<1>8. CallsOK'
  <2> SUFFICES ASSUME NEW d \in Callers PROVE CallOK(d)'
    BY DEF CallsOK
  <2>1. CASE d # c
    <3>1. calls'[d] = calls[d]
      BY <1>4, <2>1 DEF TypeOK
    <3> QED
      BY <3>1, <1>6 DEF CallsOK, CallOK, Busy, Top
  <2>2. CASE d = c
    <3>1. calls'[c] = new
      BY <1>4 DEF TypeOK
    <3>2. Head(FramesOf(p)).name = Last(p)
      BY <1>2 DEF Last
    <3>3. \A i \in 1..(Len(p) - 1) :
            Jump[FramesOf(p)[i + 1].name] = FramesOf(p)[i].name
      <4> TAKE i \in 1..(Len(p) - 1)
      <4>0. Len(p) \in Nat
        OBVIOUS
      <4>1. FramesOf(p)[i + 1].name = p[Len(p) - i]
        BY <1>2, <4>0
      <4>2. FramesOf(p)[i].name = p[(Len(p) - i) + 1]
        BY <1>2, <4>0
      <4>3. Len(p) - i \in 1..(Len(p) - 1)
        BY <4>0
      <4> QED
        BY <4>1, <4>2, <4>3
    <3> HIDE DEF IInv
    <3> QED
      BY <1>2, <1>6, <2>2, <3>1, <3>2, <3>3 DEF CallOK, Busy, Top
  <2> QED
    BY <2>1, <2>2
<1>9. CloserOK'
  BY <1>6 DEF CloserOK, Begin
<1>10. ServersNeverMixed'
  BY <1>6 DEF ServersNeverMixed, Begin, TypeOK
<1>11. TunnelledThroughJumpHost'
  BY <1>6 DEF TunnelledThroughJumpHost
<1>12. ASSUME "escape" \notin Faults PROVE ConnectingIsInFlight'
  <2> SUFFICES ASSUME NEW n \in Servers, Jump[n] = None, status'[n] = "connecting"
               PROVE  InFlight(n)'
    BY DEF ConnectingIsInFlight
  <2>0. calls'[c] = new
    BY <1>4 DEF TypeOK
  <2>1. CASE n \in Names(p)
    <3>1. PICK i \in 1..Len(p) : p[i] = n
      BY <2>1 DEF Names
    <3>2. Len(p) \in Nat /\ Len(p) + 1 - i \in 1..Len(p)
      OBVIOUS
    <3>3. Len(p) + 1 - (Len(p) + 1 - i) = i
      BY <3>2
    <3>4. FramesOf(p)[Len(p) + 1 - i].name = n
      BY <1>2, <3>1, <3>2, <3>3
    <3>5. Len(p) + 1 - i \in DOMAIN FramesOf(p)
      BY <1>2, <3>2
    <3> QED
      BY <2>0, <3>4, <3>5 DEF InFlight
  <2>2. CASE n \notin Names(p)
    <3>1. status[n] = "connecting"
      BY <2>2 DEF Begin, SetStatus
    <3>2. PICK d \in Callers : \E i \in DOMAIN calls[d].stack :
                                 calls[d].stack[i].name = n
      BY <1>12, <3>1 DEF ConnectingIsInFlight, InFlight
    <3>3. d # c
      BY <3>2 DEF Busy
    <3>4. calls'[d] = calls[d]
      BY <1>4, <3>3 DEF TypeOK
    <3> QED
      BY <3>2, <3>4 DEF InFlight
  <2> QED
    BY <2>1, <2>2
<1> QED
  BY <1>7, <1>8, <1>9, <1>10, <1>11, <1>12

---------------------------------------------------------------------------
(* The other steps, one lemma per group of actions.                        *)

\* A call that raises before it suspends keeps the invariant, provided only
\* servers behind a jump host are left "connecting".
LEMMA RefuseIInv ==
  ASSUME IInv, NEW c \in Callers, NEW S \in SUBSET Servers,
         NEW st \in {"disconnected", "connecting"},
         st = "connecting" => \A n \in S : Jump[n] # None,
         Refuse(c, S, st)
  PROVE  IInv'
<1> USE DEF IInv, Refuse
<1>1. Opened' = Opened
  BY DEF Opened
<1>2. TypeOK'
  BY <1>1 DEF TypeOK, SetStatus, Status
<1>3. CallsOK' /\ CloserOK' /\ TunnelledThroughJumpHost'
  BY <1>1 DEF CallsOK, CallOK, Busy, Top, CloserOK, TunnelledThroughJumpHost
<1>4. ServersNeverMixed'
  BY <1>1 DEF ServersNeverMixed, TypeOK
<1>5. ASSUME "escape" \notin Faults PROVE ConnectingIsInFlight'
  BY <1>5 DEF ConnectingIsInFlight, InFlight, SetStatus
<1> QED
  BY <1>2, <1>3, <1>4, <1>5

\* Every way get_connection can start keeps the invariant.
LEMMA GetConnectionIInv ==
  ASSUME IInv, NEW c \in Callers, NEW n \in Servers, GetConnection(c, n)
  PROVE  IInv'
<1>1. CASE GetCached(c, n)
  <2> USE <1>1 DEF GetCached, IInv
  <2>1. Opened' = Opened
    BY DEF Opened
  <2>2. connection[n] \in Conns /\ config[n] \in Hosts
    BY DEF TypeOK, Registered, Warm
  <2>3. [name |-> n, host |-> config[n], conn |-> connection[n]] \in Result
    BY <2>2 DEF Result
  <2>4. TypeOK'
    BY <2>1, <2>3 DEF TypeOK
  <2>5. CallsOK' /\ CloserOK' /\ TunnelledThroughJumpHost'
    BY <2>1 DEF CallsOK, CallOK, Busy, Top, CloserOK, TunnelledThroughJumpHost
  <2>6. ServersNeverMixed'
    BY <2>1, <2>2 DEF ServersNeverMixed, TypeOK, Warm
  <2>7. ASSUME "escape" \notin Faults PROVE ConnectingIsInFlight'
    BY <2>7 DEF ConnectingIsInFlight, InFlight
  <2> QED
    BY <2>4, <2>5, <2>6, <2>7
<1>2. CASE GetDirect(c, n)
  <2>1. PICK p \in Descents(n) : /\ Registered(Last(p))
                                 /\ Jump[Last(p)] = None
                                 /\ Begin(c, p, None)
    BY <1>2 DEF GetDirect
  <2>2. /\ p \in Seq(Servers) /\ Len(p) \in Nat \ {0}
        /\ \A i \in 1..(Len(p) - 1) : Registered(p[i]) /\ Jump[p[i]] = p[i + 1]
    BY PathFacts DEF Descents
  <2>3. \A i \in 1..Len(p) : i = Len(p) \/ i \in 1..(Len(p) - 1)
    BY <2>2
  <2>4. \A i \in 1..Len(p) : Registered(p[i])
    BY <2>1, <2>2, <2>3 DEF Last
  <2> QED
    BY <1>2, <2>1, <2>2, <2>4, BeginIInv DEF GetDirect
<1>3. CASE GetTunnelled(c, n)
  <2>1. PICK p \in Descents(n) :
          /\ Len(p) > 1
          /\ Warm(Last(p))
          /\ Begin(c, SubSeq(p, 1, Len(p) - 1), connection[Last(p)])
    BY <1>3 DEF GetTunnelled
  <2>2. /\ p \in Seq(Servers) /\ Len(p) \in Nat \ {0} /\ Last(p) \in Servers
        /\ \A i \in 1..(Len(p) - 1) : Registered(p[i]) /\ Jump[p[i]] = p[i + 1]
    BY PathFacts DEF Descents
  <2> DEFINE q == SubSeq(p, 1, Len(p) - 1)
             k == connection[Last(p)]
  <2>3. /\ q \in Seq(Servers) /\ Len(q) = Len(p) - 1
        /\ \A i \in 1..(Len(p) - 1) : q[i] = p[i]
    BY <2>1, <2>2
  <2>4. k \in Conns /\ k \in Opened /\ conns[k].server = Last(p)
    BY <2>1, <2>2 DEF IInv, TypeOK, ServersNeverMixed, Warm
  <2>5. Jump[Last(q)] = Last(p) /\ Last(p) # None
    BY <2>1, <2>2, <2>3, PoolAssumption DEF Last
  <2>6. Begin(c, q, k) /\ ~Busy(c) /\ Len(q) > 0
    BY <1>3, <2>1, <2>2, <2>3 DEF GetTunnelled
  <2> HIDE DEF q, k
  <2>7. /\ \A i \in 1..Len(q) : Registered(q[i])
        /\ \A i \in 1..(Len(q) - 1) : Jump[q[i]] = q[i + 1]
    <3>1. \A i \in 1..(Len(q) - 1) : i \in 1..Len(q) /\ i + 1 \in 1..Len(q)
      BY <2>2, <2>3
    <3> QED
      BY <2>2, <2>3, <3>1
  <2> QED
    BY <2>3, <2>4, <2>5, <2>6, <2>7, BeginIInv
<1>4. CASE GetUnknown(c, n)
  <2>1. PICK p \in Descents(n) : Refuse(c, Names(p) \ {Last(p)}, "disconnected")
    BY <1>4 DEF GetUnknown
  <2>2. Names(p) \ {Last(p)} \in SUBSET Servers
    BY PathFacts DEF Descents
  <2> QED
    BY <2>1, <2>2, RefuseIInv
<1>5. CASE GetAuthError(c, n)
  <2>1. PICK p \in Descents(n) : Refuse(c, Names(p), "disconnected")
    BY <1>5 DEF GetAuthError
  <2>2. Names(p) \in SUBSET Servers
    BY PathFacts DEF Descents
  <2> QED
    BY <2>1, <2>2, RefuseIInv
<1>6. CASE GetCircular(c, n)
  <2>1. PICK p \in Descents(n) : /\ Jump[Last(p)] \in Names(p)
                                 /\ Refuse(c, Names(p), "connecting")
    BY <1>6 DEF GetCircular
  <2>2. /\ p \in Seq(Servers) /\ Len(p) \in Nat \ {0} /\ Names(p) \subseteq Servers
        /\ \A i \in 1..(Len(p) - 1) : Jump[p[i]] = p[i + 1]
    BY PathFacts DEF Descents
  <2>3. ASSUME NEW m \in Names(p) PROVE Jump[m] # None
    <3>1. PICK i \in 1..Len(p) : p[i] = m
      BY DEF Names
    <3>2. CASE i = Len(p)
      BY <2>1, <2>2, <3>1, <3>2, PoolAssumption DEF Last
    <3>3. CASE i \in 1..(Len(p) - 1)
      <4>1. i + 1 \in 1..Len(p)
        BY <2>2, <3>3
      <4>2. p[i + 1] \in Servers
        BY <2>2, <4>1
      <4> QED
        BY <2>2, <3>1, <3>3, <4>2, PoolAssumption
    <3> QED
      BY <2>2, <3>2, <3>3
  <2> QED
    BY <2>1, <2>2, <2>3, RefuseIInv
<1> QED
  BY <1>1, <1>2, <1>3, <1>4, <1>5, <1>6 DEF GetConnection

\* A call that a step leaves alone stays well formed as long as connections are
\* only added and keep their server and tunnel.
LEMMA CallOKKept ==
  ASSUME NEW c, CallOK(c), calls'[c] = calls[c], Opened \subseteq Opened',
         \A k \in Opened : /\ conns'[k].server = conns[k].server
                           /\ conns'[k].via = conns[k].via
  PROVE  CallOK(c)'
BY DEF CallOK, Busy, Top

\* A step that leaves the stacks alone leaves the same servers in flight.
LEMMA InFlightKept ==
  ASSUME NEW n, \A d \in Callers : calls'[d].stack = calls[d].stack, InFlight(n)
  PROVE  InFlight(n)'
<1>1. PICK d \in Callers : \E i \in DOMAIN calls[d].stack : calls[d].stack[i].name = n
  BY DEF InFlight
<1>2. \E i \in DOMAIN calls'[d].stack : calls'[d].stack[i].name = n
  BY <1>1
<1> QED
  BY <1>2 DEF InFlight

\* A new connection belongs to the innermost activation of its caller.
LEMMA EstablishIInv ==
  ASSUME IInv, NEW c \in Callers, Establish(c)
  PROVE  IInv'
<1> USE DEF IInv
<1>1. PICK k \in Conns \ Opened :
        /\ conns' = [x \in Opened \cup {k} |->
                      IF x = k THEN [server |-> Top(c).name, host |-> Top(c).host,
                                     via |-> calls[c].via, state |-> "open"]
                      ELSE conns[x]]
        /\ calls' = [calls EXCEPT ![c].outcome = "up", ![c].conn = k]
  BY DEF Establish
<1>2. Opened' = Opened \cup {k}
  BY <1>1 DEF Opened
<1>3. /\ \A x \in Opened : conns'[x] = conns[x]
      /\ conns'[k] = [server |-> Top(c).name, host |-> Top(c).host,
                      via |-> calls[c].via, state |-> "open"]
  BY <1>1
<1>4. calls[c] \in Call /\ CallOK(c) /\ Busy(c) /\ Top(c) \in Frame
  BY DEF TypeOK, CallsOK, CallOK, Establish, Call, Busy, Top
<1>5. conns'[k] \in Conn
  BY <1>3, <1>4 DEF Conn, Frame, Call
<1>6. calls'[c] \in Call /\ calls'[c].stack = calls[c].stack
      /\ calls'[c].via = calls[c].via /\ calls'[c].conn = k /\ calls'[c].outcome = "up"
  BY <1>1, <1>4 DEF TypeOK, Call
<1>7. \A d \in Callers : d # c => calls'[d] = calls[d]
  BY <1>1 DEF TypeOK
<1>8. TypeOK'
  <2>1. conns' \in [Opened' -> Conn]
    BY <1>1, <1>2, <1>3, <1>5 DEF TypeOK
  <2>2. calls' \in [Callers -> Call]
    BY <1>1, <1>6, <1>7 DEF TypeOK
  <2> QED
    BY <1>2, <2>1, <2>2 DEF TypeOK, Establish
<1>9. CallsOK'
  <2> SUFFICES ASSUME NEW d \in Callers PROVE CallOK(d)'
    BY DEF CallsOK
  <2>1. CASE d # c
    BY <1>2, <1>3, <1>7, <2>1, CallOKKept DEF CallsOK
  <2>2. CASE d = c
    BY <1>2, <1>3, <1>4, <1>6, <2>2 DEF CallOK, Busy, Top
  <2> QED
    BY <2>1, <2>2
<1>10. CloserOK'
  BY <1>2 DEF CloserOK, Establish
<1>11. ServersNeverMixed'
  BY <1>2, <1>3 DEF ServersNeverMixed, Establish
<1>12. TunnelledThroughJumpHost'
  <2> SUFFICES ASSUME NEW x \in Opened'
               PROVE  IF Jump[conns'[x].server] = None
                      THEN conns'[x].via = None
                      ELSE /\ conns'[x].via \in Opened'
                           /\ conns'[conns'[x].via].server = Jump[conns'[x].server]
    BY DEF TunnelledThroughJumpHost
  <2>1. CASE x = k
    BY <1>2, <1>3, <1>4, <2>1 DEF CallOK
  <2>2. CASE x \in Opened
    BY <1>2, <1>3, <2>2 DEF TunnelledThroughJumpHost
  <2> QED
    BY <1>2, <2>1, <2>2
<1>13. ASSUME "escape" \notin Faults PROVE ConnectingIsInFlight'
  <2>1. \A d \in Callers : calls'[d].stack = calls[d].stack
    BY <1>6, <1>7
  <2> QED
    BY <1>13, <2>1, InFlightKept DEF ConnectingIsInFlight, Establish
<1> QED
  BY <1>8, <1>9, <1>10, <1>11, <1>12, <1>13

\* A step that only resets slots (OnClose) keeps the slots' half of the
\* invariant.
LEMMA OnCloseKeeps ==
  ASSUME IInv, NEW n \in Servers, OnClose(n)
  PROVE  /\ status' \in [Servers -> Status]
         /\ connection' \in [Servers -> Conns \cup {None}]
         /\ \A m \in Servers : connection'[m] # None => connection'[m] = connection[m]
         /\ \A m \in Servers : status'[m] = "connecting" => status[m] = "connecting"
BY DEF IInv, TypeOK, OnClose, Status

\* A failed attempt changes the outcome of its call and perhaps clears the slot.
LEMMA HandshakeFailsIInv ==
  ASSUME IInv, NEW c \in Callers, NEW o \in {"caught", "escaped"},
         NEW b \in BOOLEAN, HandshakeFails(c, o, b)
  PROVE  IInv'
<1> USE DEF IInv
<1>1. /\ calls' = [calls EXCEPT ![c].outcome = o]
      /\ calls[c].outcome = "pending"
      /\ o = "escaped" => calls[c].via # None \/ "escape" \in Faults
      /\ conns' = conns /\ config' = config /\ slots' = slots
      /\ pinned' = pinned /\ got' = got /\ closer' = closer
      /\ Opened' = Opened
  BY DEF HandshakeFails, AttemptFails, Opened
<1>2. calls[c] \in Call /\ CallOK(c) /\ Busy(c) /\ Top(c) \in Frame
  BY <1>1 DEF TypeOK, CallsOK, CallOK, Call, Busy, Top
<1>3. calls'[c] \in Call /\ calls'[c].stack = calls[c].stack
      /\ calls'[c].via = calls[c].via /\ calls'[c].outcome = o
  BY <1>1, <1>2 DEF TypeOK, Call
<1>4. \A d \in Callers : d # c => calls'[d] = calls[d]
  BY <1>1 DEF TypeOK
<1>5. /\ status' \in [Servers -> Status]
      /\ connection' \in [Servers -> Conns \cup {None}]
      /\ \A m \in Servers : connection'[m] # None => connection'[m] = connection[m]
      /\ \A m \in Servers : status'[m] = "connecting" => status[m] = "connecting"
  <2>1. CASE b
    BY <1>2, <2>1, OnCloseKeeps DEF HandshakeFails, AttemptFails, Frame
  <2>2. CASE ~b
    BY <2>2 DEF HandshakeFails, AttemptFails, TypeOK
  <2> QED
    BY <2>1, <2>2
<1>6. TypeOK'
  <2>1. calls' \in [Callers -> Call]
    BY <1>1, <1>3, <1>4 DEF TypeOK
  <2> QED
    BY <1>1, <1>5, <2>1 DEF TypeOK
<1>7. CallsOK'
  <2> SUFFICES ASSUME NEW d \in Callers PROVE CallOK(d)'
    BY DEF CallsOK
  <2>1. CASE d # c
    BY <1>1, <1>4, <2>1, CallOKKept DEF CallsOK
  <2>2. CASE d = c
    BY <1>1, <1>2, <1>3, <2>2 DEF CallOK, Busy, Top
  <2> QED
    BY <2>1, <2>2
<1>8. CloserOK' /\ TunnelledThroughJumpHost'
  BY <1>1 DEF CloserOK, TunnelledThroughJumpHost
<1>9. ServersNeverMixed'
  BY <1>1, <1>5 DEF ServersNeverMixed
<1>10. ASSUME "escape" \notin Faults PROVE ConnectingIsInFlight'
  <2>1. \A d \in Callers : calls'[d].stack = calls[d].stack
    BY <1>3, <1>4
  <2> QED
    BY <1>5, <1>10, <2>1, InFlightKept DEF ConnectingIsInFlight
<1> QED
  BY <1>6, <1>7, <1>8, <1>9, <1>10

\* The steps that reset slots and move connections towards closed, and leave
\* the calls alone: connection loss, close and close_all.
LEMMA ClosingIInv ==
  ASSUME IInv, UNCHANGED <<config, slots, pinned, calls, got>>,
         status' \in [Servers -> Status],
         connection' \in [Servers -> Conns \cup {None}],
         \A m \in Servers : connection'[m] # None => connection'[m] = connection[m],
         \A m \in Servers : status'[m] = "connecting" => status[m] = "connecting",
         Opened' = Opened, conns' \in [Opened -> Conn],
         \A k \in Opened : /\ conns'[k].server = conns[k].server
                           /\ conns'[k].via = conns[k].via,
         closer' \in [todo : SUBSET Servers, at : Servers \cup {None},
                      conn : Conns \cup {None}],
         CloserOK'
  PROVE  IInv'
<1> USE DEF IInv
<1>1. TypeOK'
  BY DEF TypeOK
<1>2. CallsOK'
  BY CallOKKept DEF CallsOK
<1>3. ServersNeverMixed'
  BY DEF ServersNeverMixed
<1>4. TunnelledThroughJumpHost'
  BY DEF TunnelledThroughJumpHost
<1>5. ASSUME "escape" \notin Faults PROVE ConnectingIsInFlight'
  BY <1>5, InFlightKept DEF ConnectingIsInFlight
<1> QED
  BY <1>1, <1>2, <1>3, <1>4, <1>5

\* Changing the state of one connection keeps its server and its tunnel.
LEMMA StateChange ==
  ASSUME IInv, NEW k \in Opened, NEW st \in {"open", "closing", "closed"},
         conns' = [conns EXCEPT ![k].state = st]
  PROVE  /\ Opened' = Opened
         /\ conns' \in [Opened -> Conn]
         /\ \A x \in Opened : /\ conns'[x].server = conns[x].server
                              /\ conns'[x].via = conns[x].via
<1>1. conns \in [Opened -> Conn]
  BY DEF IInv, TypeOK
<1>2. Opened' = Opened
  BY <1>1 DEF Opened
<1>3. ASSUME NEW x \in Opened
      PROVE  conns'[x] \in Conn /\ conns'[x].server = conns[x].server
             /\ conns'[x].via = conns[x].via
  BY <1>1 DEF Conn
<1>4. conns' \in [Opened -> Conn]
  BY <1>1, <1>3
<1> QED
  BY <1>2, <1>3, <1>4

\* The connection_lost callback keeps the invariant.
LEMMA ConnectionLostIInv ==
  ASSUME IInv, NEW k \in Conns, ConnectionLost(k)
  PROVE  IInv'
<1>1. k \in Opened /\ conns[k].server \in Servers
  BY DEF IInv, TypeOK, Conn, ConnectionLost
<1>2. OnClose(conns[k].server) /\ conns' = [conns EXCEPT ![k].state = "closed"]
  BY DEF ConnectionLost
<1>3. CloserOK' /\ closer' = closer
  BY <1>1, <1>2, StateChange DEF ConnectionLost, CloserOK, IInv
<1> QED
  BY <1>1, <1>2, <1>3, OnCloseKeeps, StateChange, ClosingIInv
     DEF ConnectionLost, IInv, TypeOK

\* Every step of close and close_all keeps the invariant.
LEMMA CloserIInv ==
  ASSUME IInv, CloserStep \/ CloseAll \/ \E n \in Servers : CloseName(n)
  PROVE  IInv'
<1> DEFINE Closer == [todo : SUBSET Servers, at : Servers \cup {None},
                      conn : Conns \cup {None}]
<1>0. closer \in Closer /\ conns \in [Opened -> Conn] /\ slots \subseteq Servers
      /\ status \in [Servers -> Status] /\ connection \in [Servers -> Conns \cup {None}]
      /\ Opened \subseteq Conns /\ CloserOK
  BY DEF IInv, TypeOK
<1>1. CASE \E S \in SUBSET Servers : CloseStart(S)
  <2>1. UNCHANGED <<config, slots, status, connection, pinned, conns, calls, got>>
        /\ Opened' = Opened
    BY <1>1 DEF CloseStart, Opened
  <2>2. closer' \in Closer /\ closer'.at = None
    BY <1>0, <1>1 DEF CloseStart
  <2>3. CloserOK'
    BY <2>2 DEF CloserOK
  <2> QED
    BY <1>0, <2>1, <2>2, <2>3, ClosingIInv
<1>2. CASE CloseResume
  <2>1. closer.at \in Servers /\ OnClose(closer.at)
    BY <1>0, <1>2 DEF CloseResume, CloserReady
  <2>2. closer' \in Closer /\ closer'.at = None /\ Opened' = Opened /\ conns' = conns
    BY <1>0, <1>2 DEF CloseResume, Opened
  <2>3. CloserOK'
    BY <2>2 DEF CloserOK
  <2> QED
    BY <1>0, <1>2, <2>1, <2>2, <2>3, OnCloseKeeps, ClosingIInv DEF CloseResume
<1>3. ASSUME NEW n \in Servers, CloseNext(n)
      PROVE  IInv'
  <2>0. UNCHANGED <<config, slots, pinned, calls, got>> /\ closer.at = None
    BY <1>3 DEF CloseNext
  <2>1. CASE n \in pinned /\ closer' = [closer EXCEPT !.todo = @ \ {n}]
             /\ UNCHANGED <<status, connection, conns>>
    <3>1. closer' \in Closer /\ closer'.at = None /\ Opened' = Opened
      BY <1>0, <2>0, <2>1 DEF Opened
    <3>2. CloserOK'
      BY <3>1 DEF CloserOK
    <3> QED
      BY <1>0, <2>0, <2>1, <3>1, <3>2, ClosingIInv
  <2>2. CASE /\ connection[n] # None
             /\ conns' = [conns EXCEPT ![connection[n]].state = "closing"]
             /\ closer' = [todo |-> closer.todo \ {n}, at |-> n, conn |-> connection[n]]
             /\ UNCHANGED <<status, connection>>
    <3>1. connection[n] \in Opened
      BY <2>2 DEF IInv, ServersNeverMixed
    <3>2. /\ Opened' = Opened
          /\ conns' \in [Opened -> Conn]
          /\ \A x \in Opened : /\ conns'[x].server = conns[x].server
                               /\ conns'[x].via = conns[x].via
      BY <2>2, <3>1, StateChange
    <3>3. closer' \in Closer /\ CloserOK'
      BY <1>0, <2>2, <3>1, <3>2 DEF CloserOK
    <3> QED
      BY <1>0, <2>0, <2>2, <3>2, <3>3, ClosingIInv
  <2>3. CASE OnClose(n) /\ closer' = [closer EXCEPT !.todo = @ \ {n}]
             /\ UNCHANGED conns
    <3>1. closer' \in Closer /\ closer'.at = None /\ Opened' = Opened
      BY <1>0, <2>0, <2>3 DEF Opened
    <3>2. CloserOK'
      BY <3>1 DEF CloserOK
    <3> QED
      BY <1>0, <2>0, <2>3, <3>1, <3>2, OnCloseKeeps, ClosingIInv
  <2> QED
    BY <1>3, <2>1, <2>2, <2>3 DEF CloseNext, CloseSlot
<1>4. CASE CloseAll
  BY <1>0, <1>1, <1>4 DEF CloseAll
<1>5. CASE \E n \in Servers : CloseName(n)
  BY <1>1, <1>5 DEF CloseName
<1> QED
  BY <1>2, <1>3, <1>4, <1>5 DEF CloserStep

\* The connection that came up goes into its own slot; the activation below
\* gets it as its tunnel.
LEMMA ResumeUpIInv ==
  ASSUME IInv, NEW c \in Callers, ResumeUp(c)
  PROVE  IInv'
<1> USE DEF IInv
<1> DEFINE st == calls[c].stack
           k == calls[c].conn
           n == Top(c).name
<1>1. calls[c] \in Call /\ CallOK(c) /\ Busy(c) /\ calls[c].outcome = "up"
  BY DEF ResumeUp, FillSlot, TypeOK, CallsOK
<1>2. st \in Seq(Frame) /\ st # <<>> /\ Len(st) \in Nat \ {0} /\ Top(c) = st[1]
      /\ Top(c) \in Frame /\ n \in Servers
  <2>1. st \in Seq(Frame) /\ st # <<>>
    BY <1>1 DEF Call, Busy
  <2>2. 1 \in 1..Len(st) /\ Top(c) = st[1]
    BY <2>1, StackFacts DEF Top
  <2> QED
    BY <2>1, <2>2, StackFacts
<1>3. k \in Opened /\ k \in Conns /\ conns[k].server = n
  BY <1>1 DEF CallOK, TypeOK
<1>4. /\ connection' = [connection EXCEPT ![n] = k]
      /\ status' = [status EXCEPT ![n] = "connected"]
      /\ UNCHANGED <<config, slots, pinned, conns, closer>>
      /\ Opened' = Opened
  BY DEF ResumeUp, FillSlot, Opened
<1>5. \A m \in Servers : connection'[m] # None =>
        connection'[m] \in Opened' /\ conns'[connection'[m]].server = m
  BY <1>3, <1>4 DEF ServersNeverMixed, TypeOK
<1>6. status' \in [Servers -> Status] /\ connection' \in [Servers -> Conns \cup {None}]
  BY <1>2, <1>3, <1>4 DEF TypeOK, Status
<1>7. /\ calls' = [calls EXCEPT ![c] = calls'[c]]
      /\ \A d \in Callers : d # c => calls'[d] = calls[d]
      /\ \A i \in 2..Len(st) : i - 1 \in DOMAIN calls'[c].stack
                               /\ calls'[c].stack[i - 1] = st[i]
      /\ calls'[c] \in Call /\ CallOK(c)'
      /\ got' \in [Callers -> Result \cup {None}]
      /\ \A d \in Callers : got'[d] # None =>
           got'[d].conn \in Opened' /\ conns'[got'[d].conn].server = got'[d].name
  <2>1. CASE Len(st) = 1
    <3>1. /\ calls' = [calls EXCEPT ![c] = Idle]
          /\ got' = [got EXCEPT ![c] = [name |-> n, host |-> Top(c).host, conn |-> k]]
      BY <2>1 DEF ResumeUp, FillSlot
    <3>2. calls'[c] = Idle
      BY <3>1 DEF TypeOK
    <3>3. Idle \in Call /\ CallOK(c)'
      BY <3>2 DEF Idle, Call, CallOK, Busy
    <3>4. [name |-> n, host |-> Top(c).host, conn |-> k] \in Result
      BY <1>2, <1>3 DEF Result, Frame
    <3>5. got' \in [Callers -> Result \cup {None}]
      BY <3>1, <3>4 DEF TypeOK
    <3>6. \A d \in Callers : got'[d] # None =>
            got'[d].conn \in Opened' /\ conns'[got'[d].conn].server = got'[d].name
      BY <1>3, <1>4, <3>1 DEF ServersNeverMixed, TypeOK
    <3>7. /\ calls' = [calls EXCEPT ![c] = calls'[c]]
          /\ \A d \in Callers : d # c => calls'[d] = calls[d]
      BY <3>1, <3>2 DEF TypeOK
    <3>8. \A i \in 2..Len(st) : FALSE
      BY <2>1
    <3> HIDE DEF IInv
    <3> QED
      BY <3>2, <3>3, <3>5, <3>6, <3>7, <3>8
  <2>2. CASE Len(st) # 1
    <3> DEFINE new == [stack |-> Tail(st), via |-> k, conn |-> None,
                       outcome |-> "pending"]
    <3>1. calls' = [calls EXCEPT ![c] = new] /\ got' = got
      BY <2>2 DEF ResumeUp, FillSlot
    <3>2. calls'[c] = new
      BY <3>1 DEF TypeOK
    <3>3. /\ Tail(st) \in Seq(Frame) /\ Len(Tail(st)) = Len(st) - 1
          /\ Len(st) - 1 \in Nat \ {0} /\ DOMAIN Tail(st) = 1..(Len(st) - 1)
          /\ \A i \in 1..(Len(st) - 1) : Tail(st)[i] = st[i + 1]
          /\ Tail(st) # <<>> /\ Head(Tail(st)) = st[2]
      BY <1>2, <2>2, StackFacts
    <3>4. new \in Call
      BY <1>3, <3>3 DEF Call
    <3>5. \A i \in 1..(Len(st) - 1) : Jump[st[i + 1].name] = st[i].name
      BY <1>1 DEF CallOK
    <3>6. Jump[st[2].name] = n
      <4>1. 1 \in 1..(Len(st) - 1) /\ 1 + 1 = 2
        BY <3>3
      <4>2. Jump[st[2].name] = st[1].name
        BY <3>5, <4>1
      <4> QED
        BY <1>2, <4>2
    <3>7. n # None
      BY <1>2, PoolAssumption
    <3>8. \A i \in 1..(Len(Tail(st)) - 1) :
            Jump[Tail(st)[i + 1].name] = Tail(st)[i].name
      <4> TAKE i \in 1..(Len(Tail(st)) - 1)
      <4>1. i \in 1..(Len(st) - 1) /\ i + 1 \in 1..(Len(st) - 1)
        BY <3>3
      <4>2. Tail(st)[i] = st[i + 1] /\ Tail(st)[i + 1] = st[(i + 1) + 1]
        BY <3>3, <4>1
      <4> QED
        BY <3>5, <4>1, <4>2
    <3>9. CallOK(c)'
      BY <1>3, <1>4, <3>2, <3>3, <3>6, <3>7, <3>8 DEF CallOK, Busy, Top
    <3>10. \A i \in 2..Len(st) : i - 1 \in DOMAIN Tail(st) /\ Tail(st)[i - 1] = st[i]
      BY <1>2, <3>3
    <3>11. /\ calls' = [calls EXCEPT ![c] = calls'[c]]
           /\ \A d \in Callers : d # c => calls'[d] = calls[d]
      BY <3>1, <3>2 DEF TypeOK
    <3>12. /\ got' \in [Callers -> Result \cup {None}]
           /\ \A d \in Callers : got'[d] # None =>
                got'[d].conn \in Opened' /\ conns'[got'[d].conn].server = got'[d].name
      BY <1>4, <3>1 DEF TypeOK, ServersNeverMixed
    <3> HIDE DEF IInv
    <3> QED
      BY <3>2, <3>4, <3>9, <3>10, <3>11, <3>12
  <2> QED
    BY <2>1, <2>2
<1>8. TypeOK'
  <2>1. calls' \in [Callers -> Call]
    BY <1>7 DEF TypeOK
  <2> QED
    BY <1>4, <1>6, <1>7, <2>1 DEF TypeOK
<1>9. CallsOK'
  <2> SUFFICES ASSUME NEW d \in Callers PROVE CallOK(d)'
    BY DEF CallsOK
  <2>1. CASE d # c
    BY <1>4, <1>7, <2>1, CallOKKept DEF CallsOK
  <2> QED
    BY <1>7, <2>1
<1>10. CloserOK' /\ TunnelledThroughJumpHost'
  BY <1>4 DEF CloserOK, TunnelledThroughJumpHost
<1>11. ServersNeverMixed'
  BY <1>5, <1>7 DEF ServersNeverMixed
<1>12. ASSUME "escape" \notin Faults PROVE ConnectingIsInFlight'
  <2> SUFFICES ASSUME NEW m \in Servers, Jump[m] = None, status'[m] = "connecting"
               PROVE  InFlight(m)'
    BY DEF ConnectingIsInFlight
  <2>1. m # n /\ status[m] = "connecting"
    BY <1>2, <1>4 DEF TypeOK
  <2>2. PICK d \in Callers : \E i \in DOMAIN calls[d].stack : calls[d].stack[i].name = m
    BY <1>12, <2>1 DEF ConnectingIsInFlight, InFlight
  <2>3. CASE d # c
    <3>1. calls'[d] = calls[d]
      BY <1>7, <2>3
    <3> QED
      BY <2>2, <3>1 DEF InFlight
  <2>4. CASE d = c
    <3>1. PICK i \in DOMAIN st : st[i].name = m
      BY <2>2, <2>4
    <3>2. i \in 2..Len(st)
      BY <1>2, <2>1, <3>1
    <3> QED
      BY <1>7, <3>1, <3>2 DEF InFlight
  <2> QED
    BY <2>3, <2>4
<1> QED
  BY <1>8, <1>9, <1>10, <1>11, <1>12

\* An exception that unwinds a call keeps the invariant: a jumpless server can
\* only be the innermost one, and that is reset unless the exception escaped.
LEMMA UnwindIInv ==
  ASSUME IInv, NEW c \in Callers,
         ResumeCaught(c) \/ ResumeEscaped(c) \/ ResumeHostKeyError(c)
  PROVE  IInv'
<1> USE DEF IInv
<1> DEFINE st == calls[c].stack
           n == Top(c).name
<1>1. /\ calls' = [calls EXCEPT ![c] = Idle]
      /\ UNCHANGED <<config, slots, connection, pinned, conns, got, closer>>
      /\ Opened' = Opened
      /\ calls[c].outcome # "none"
  BY DEF ResumeCaught, ResumeEscaped, ResumeHostKeyError, Unwind, Opened
<1>2. calls[c] \in Call /\ CallOK(c) /\ Busy(c)
  BY <1>1 DEF TypeOK, CallsOK, CallOK
<1>3. st \in Seq(Frame) /\ st # <<>> /\ Len(st) \in Nat \ {0} /\ Top(c) = st[1]
      /\ n \in Servers
  <2>1. st \in Seq(Frame) /\ st # <<>>
    BY <1>2 DEF Call, Busy
  <2>2. 1 \in 1..Len(st) /\ Top(c) = st[1]
    BY <2>1, StackFacts DEF Top
  <2> QED
    BY <2>1, <2>2, StackFacts
<1>4. calls'[c] = Idle /\ \A d \in Callers : d # c => calls'[d] = calls[d]
  BY <1>1 DEF TypeOK
<1>5. Idle \in Call /\ CallOK(c)'
  BY <1>4 DEF Idle, Call, CallOK, Busy
<1>6. \/ status' = [status EXCEPT ![n] = "disconnected"]
      \/ status' = status /\ calls[c].outcome = "escaped"
  BY DEF ResumeCaught, ResumeEscaped, ResumeHostKeyError
<1>7. TypeOK'
  <2>1. calls' \in [Callers -> Call]
    BY <1>1, <1>5 DEF TypeOK
  <2>2. status' \in [Servers -> Status]
    BY <1>3, <1>6 DEF TypeOK, Status
  <2> QED
    BY <1>1, <2>1, <2>2 DEF TypeOK
<1>8. CallsOK'
  <2> SUFFICES ASSUME NEW d \in Callers PROVE CallOK(d)'
    BY DEF CallsOK
  <2>1. CASE d # c
    BY <1>1, <1>4, <2>1, CallOKKept DEF CallsOK
  <2> QED
    BY <1>5, <2>1
<1>9. CloserOK' /\ TunnelledThroughJumpHost' /\ ServersNeverMixed'
  BY <1>1 DEF CloserOK, TunnelledThroughJumpHost, ServersNeverMixed
<1>10. ASSUME "escape" \notin Faults PROVE ConnectingIsInFlight'
  <2> SUFFICES ASSUME NEW m \in Servers, Jump[m] = None, status'[m] = "connecting"
               PROVE  InFlight(m)'
    BY DEF ConnectingIsInFlight
  <2>1. status[m] = "connecting"
    BY <1>3, <1>6 DEF TypeOK
  <2>2. m # n
    <3>1. CASE status' = [status EXCEPT ![n] = "disconnected"]
      BY <1>3, <3>1 DEF TypeOK
    <3>2. CASE calls[c].outcome = "escaped"
      BY <1>2, <1>10, <3>2 DEF CallOK
    <3> QED
      BY <1>6, <3>1, <3>2
  <2>3. PICK d \in Callers : \E i \in DOMAIN calls[d].stack : calls[d].stack[i].name = m
    BY <1>10, <2>1 DEF ConnectingIsInFlight, InFlight
  <2>4. d # c
    <3> SUFFICES ASSUME d = c PROVE FALSE
      OBVIOUS
    <3>1. PICK i \in DOMAIN st : st[i].name = m
      BY <2>3
    <3>2. i \in 2..Len(st) /\ i - 1 \in 1..(Len(st) - 1) /\ (i - 1) + 1 = i
          /\ i - 1 \in 1..Len(st)
      BY <1>3, <2>2, <3>1
    <3>3. Jump[m] = st[i - 1].name
      BY <1>2, <3>1, <3>2 DEF CallOK
    <3>4. st[i - 1].name \in Servers
      BY <1>3, <3>2, StackFacts
    <3> QED
      BY <3>3, <3>4, PoolAssumption
  <2>5. calls'[d] = calls[d]
    BY <1>4, <2>4
  <2> QED
    BY <2>3, <2>5 DEF InFlight
<1> QED
  BY <1>7, <1>8, <1>9, <1>10

\* pin, unpin and the registry tools touch neither slots nor calls.
LEMMA ToolIInv ==
  ASSUME IInv, NEW n \in Servers,
         Pin(n) \/ Unpin(n) \/ Deregister(n) \/ \E h \in Hosts : Register(n, h)
  PROVE  IInv'
<1> USE DEF IInv
<1>1. UNCHANGED <<slots, status, connection, conns, calls, got, closer>>
      /\ Opened' = Opened
  BY DEF Pin, Unpin, Deregister, Register, Opened
<1>2. config' \in [Servers -> Hosts \cup {None}] /\ pinned' \subseteq Servers
  BY DEF Pin, Unpin, Deregister, Register, TypeOK
<1>3. TypeOK'
  BY <1>1, <1>2 DEF TypeOK
<1>4. CallsOK' /\ CloserOK' /\ TunnelledThroughJumpHost' /\ ServersNeverMixed'
  BY <1>1 DEF CallsOK, CallOK, Busy, Top, CloserOK, TunnelledThroughJumpHost,
              ServersNeverMixed
<1>5. ASSUME "escape" \notin Faults PROVE ConnectingIsInFlight'
  BY <1>1, <1>5, InFlightKept DEF ConnectingIsInFlight
<1> QED
  BY <1>3, <1>4, <1>5

---------------------------------------------------------------------------
(* The theorems.                                                           *)

\* Every step of the pool, its callers, asyncssh and the registry keeps IInv.
LEMMA NextIInv == IInv /\ [Next]_vars => IInv'
<1> SUFFICES ASSUME IInv, [Next]_vars PROVE IInv'
  OBVIOUS
<1>1. CASE \E c \in Callers, n \in Servers : GetConnection(c, n)
  BY <1>1, GetConnectionIInv
<1>2. CASE \E c \in Callers : Resolve(c)
  BY <1>2, EstablishIInv, HandshakeFailsIInv DEF Resolve
<1>3. CASE \E c \in Callers : Resume(c)
  BY <1>3, ResumeUpIInv, UnwindIInv DEF Resume
<1>4. CASE \E k \in Conns : ConnectionLost(k)
  BY <1>4, ConnectionLostIInv
<1>5. CASE CloseAll \/ CloserStep \/ \E n \in Servers : CloseName(n)
  BY <1>5, CloserIInv
<1>6. CASE \E n \in Servers : \/ Pin(n) \/ Unpin(n) \/ Deregister(n)
                              \/ \E h \in Hosts : Register(n, h)
  BY <1>6, ToolIInv
<1>7. CASE UNCHANGED vars
  <2>1. UNCHANGED <<config, slots, status, connection, pinned, conns, calls, got, closer>>
        /\ Opened' = Opened
    BY <1>7 DEF vars, Opened
  <2> QED
    BY <2>1, InFlightKept
       DEF IInv, TypeOK, CallsOK, CallOK, Busy, Top, CloserOK, ServersNeverMixed,
           TunnelledThroughJumpHost, ConnectingIsInFlight
<1> QED
  BY <1>1, <1>2, <1>3, <1>4, <1>5, <1>6, <1>7 DEF Next

\* The inductive invariant holds in every reachable state.
LEMMA SpecIInv == Spec => []IInv
BY InitIInv, NextIInv, PTL DEF Spec

\* The pool's state stays well typed.
THEOREM PoolTypeCorrect == Spec => []TypeOK
BY SpecIInv, PTL DEF IInv

\* No interleaving of callers, losses and closes ever puts a connection into the
\* slot of another server or returns one made for another server.
THEOREM PoolServersNeverMixed == Spec => []ServersNeverMixed
BY SpecIInv, PTL DEF IInv

\* Every connection runs through a connection to the jump host its server is
\* configured with, and directly only when there is none.
THEOREM PoolTunnelledThroughJumpHost == Spec => []TunnelledThroughJumpHost
BY SpecIInv, PTL DEF IInv

\* When only the exceptions get_connection lists can happen, a server without a
\* jump host is "connecting" only while a call works on it.
THEOREM PoolConnectingIsInFlight ==
  ASSUME "escape" \notin Faults
  PROVE  Spec => []ConnectingIsInFlight
<1>1. IInv => ConnectingIsInFlight
  BY DEF IInv
<1> QED
  BY <1>1, SpecIInv, PTL

\* A call never returns a closed connection other than one it opened itself.
THEOREM PoolNoDeadConnectionReused == Spec => NoDeadConnectionReused
<1> DEFINE Fresh == \A c \in Callers :
                      got'[c] # got[c] /\ got'[c] # None =>
                        \/ ~IsClosed(got'[c].conn)
                        \/ got'[c].conn = calls[c].conn
<1>1. IInv /\ [Next]_vars => [Fresh]_vars
  <2> SUFFICES ASSUME IInv, Next, NEW d \in Callers,
                      got'[d] # got[d], got'[d] # None
               PROVE  \/ ~IsClosed(got'[d].conn)
                      \/ got'[d].conn = calls[d].conn
    BY DEF Fresh
  <2>0. got \in [Callers -> Result \cup {None}]
    BY DEF IInv, TypeOK
  <2>1. CASE \E c \in Callers, n \in Servers : GetCached(c, n)
    BY <2>0, <2>1 DEF GetCached, Warm
  <2>2. CASE \E c \in Callers : ResumeUp(c)
    BY <2>0, <2>2 DEF ResumeUp, FillSlot
  <2>3. CASE \E c \in Callers : got' = [got EXCEPT ![c] = None]
    BY <2>0, <2>3
  <2>4. CASE UNCHANGED got
    BY <2>4
  <2> QED
    BY <2>1, <2>2, <2>3, <2>4
       DEF Next, GetConnection, GetDirect, GetTunnelled, GetUnknown, GetAuthError,
           GetCircular, Begin, Refuse, Resolve, Establish, HandshakeFails,
           AttemptFails, Resume, ResumeCaught, ResumeEscaped, ResumeHostKeyError,
           Unwind, ConnectionLost, CloseAll, CloserStep, CloseResume, CloseNext,
           CloseName, CloseStart, Pin, Unpin, Deregister, Register
<1> QED
  BY <1>1, SpecIInv, PTL DEF Spec, NoDeadConnectionReused

---------------------------------------------------------------------------
(* One connection per server, for calls that do not overlap.               *)

\* The calls come one after the other.
NoOverlap == \A c, d \in Callers : c = d

\* The slot of n holds nothing that get_connection could hand out.
Cold(n) == connection[n] # None => IsClosed(connection[n])

\* A call has a connection that it has not stored yet.
InHand(k) == \E c \in Callers : calls[c].outcome = "up" /\ calls[c].conn = k

\* The servers that a call works on are different ones, and their slots are cold.
CallCold(c) ==
  /\ \A i, j \in 1..Len(calls[c].stack) :
       calls[c].stack[i].name = calls[c].stack[j].name => i = j
  /\ \A i \in 1..Len(calls[c].stack) : Cold(calls[c].stack[i].name)

\* A connection is in its slot, or in the hands of a call, until it is closed.
Kept ==
  \A k \in Opened : ~IsClosed(k) =>
    \/ connection[conns[k].server] = k /\ status[conns[k].server] = "connected"
    \/ InHand(k)

\* What the closing task waits for stays in its slot; once it is closed the slot is
\* cold, and nobody is about to fill it before the task is resumed.
CloserKeeps ==
  closer.at # None =>
    IF IsClosed(closer.conn)
    THEN Cold(closer.at) /\ \A c \in Callers : calls[c].outcome = "up" => Top(c).name # closer.at
    ELSE connection[closer.at] = closer.conn

OneInv == (\A c \in Callers : CallCold(c)) /\ Kept /\ CloserKeeps

LEMMA StackServers ==
  ASSUME IInv, NEW c \in Callers, NEW i \in 1..Len(calls[c].stack)
  PROVE  calls[c].stack[i].name \in Servers
<1>1. calls[c].stack \in Seq(Frame)
  BY DEF IInv, TypeOK, Call
<1>2. calls[c].stack # <<>>
  <2> SUFFICES ASSUME calls[c].stack = <<>> PROVE FALSE
    OBVIOUS
  <2>1. Len(calls[c].stack) = 0
    OBVIOUS
  <2> QED
    BY <2>1
<1> QED
  BY <1>1, <1>2, StackFacts

LEMMA TopFacts ==
  ASSUME IInv, NEW c \in Callers, calls[c].outcome # "none"
  PROVE  /\ calls[c].stack \in Seq(Frame) /\ calls[c].stack # <<>>
         /\ 1 \in 1..Len(calls[c].stack) /\ Top(c) = calls[c].stack[1] /\ Top(c).name \in Servers
         /\ calls[c].outcome = "up" =>
              calls[c].conn \in Opened /\ conns[calls[c].conn].server = Top(c).name
<1>1. calls[c] \in Call /\ CallOK(c)
  BY DEF IInv, TypeOK, CallsOK
<1>2. calls[c].stack \in Seq(Frame) /\ calls[c].stack # <<>>
  BY <1>1 DEF CallOK, Busy, Call
<1>3. 1 \in 1..Len(calls[c].stack) /\ Top(c) = calls[c].stack[1]
  BY <1>2, StackFacts DEF Top
<1>4. Top(c).name \in Servers
  BY <1>2, <1>3, StackFacts
<1>5. calls[c].outcome = "up" =>
        calls[c].conn \in Opened /\ conns[calls[c].conn].server = Top(c).name
  BY <1>1 DEF CallOK
<1> QED
  BY <1>2, <1>3, <1>4, <1>5

\* While a call holds a connection its slot is cold.
LEMMA TopCold ==
  ASSUME IInv, OneInv, NEW c \in Callers, calls[c].outcome # "none"
  PROVE  Cold(Top(c).name)
BY TopFacts DEF OneInv, CallCold

\* Two connections of a server that are not closed are the same.
LEMMA OneLive ==
  ASSUME IInv, OneInv, NoOverlap, NEW j \in Opened, NEW k \in Opened,
         ~IsClosed(j), ~IsClosed(k), conns[j].server = conns[k].server
  PROVE  j = k
<1> DEFINE n == conns[k].server
<1>1. connection[n] = j => ~Cold(n)
  BY PoolAssumption DEF Cold, IInv, TypeOK
<1>2. connection[n] = k => ~Cold(n)
  BY PoolAssumption DEF Cold, IInv, TypeOK
<1>3. InHand(j) \/ InHand(k) => Cold(n)
  <2>1. ASSUME NEW c \in Callers, calls[c].outcome = "up", NEW i \in {j, k}, calls[c].conn = i
        PROVE  Cold(n)
    <3>1. Cold(Top(c).name)
      BY <2>1, TopCold
    <3>2. n = Top(c).name
      BY <2>1, TopFacts
    <3> QED
      BY <3>1, <3>2
  <2> QED
    BY <2>1 DEF InHand
<1>4. (connection[n] = j \/ InHand(j)) /\ (connection[n] = k \/ InHand(k))
  BY DEF OneInv, Kept
<1>5. InHand(j) /\ InHand(k) => j = k
  BY DEF InHand, NoOverlap
<1> QED
  BY <1>1, <1>2, <1>3, <1>4, <1>5

\* Before a call begins, a slot whose connection it would not take is cold.
LEMMA NotWarmIsCold ==
  ASSUME IInv, OneInv, NoOverlap, NEW c \in Callers, ~Busy(c), NEW n \in Servers, ~Warm(n)
  PROVE  Cold(n)
<1> SUFFICES ASSUME connection[n] # None, ~IsClosed(connection[n]) PROVE FALSE
  BY DEF Cold
<1>1. connection[n] \in Opened /\ conns[connection[n]].server = n
  BY DEF IInv, ServersNeverMixed
<1>2. InHand(connection[n])
  BY <1>1 DEF OneInv, Kept, Warm
<1>3. calls[c].outcome = "up"
  BY <1>2 DEF InHand, NoOverlap
<1>4. CallOK(c)
  BY DEF IInv, CallsOK
<1> QED
  BY <1>3, <1>4 DEF CallOK

\* A step that opens and closes nothing, changes cold slots only, and ends or fails
\* calls that hold no connection.
LEMMA QuietStep ==
  ASSUME IInv, OneInv, conns' = conns,
         \A m \in Servers : \/ connection'[m] = connection[m] /\ status'[m] = status[m]
                            \/ Cold(m) /\ connection'[m] \in {None, connection[m]},
         \A d \in Callers : \/ calls'[d] = calls[d]
                            \/ /\ calls[d].outcome # "up" /\ calls'[d].outcome # "up"
                               /\ calls'[d].stack \in {<<>>, calls[d].stack},
         closer'.at = None \/ (closer'.at = closer.at /\ closer'.conn = closer.conn)
  PROVE  OneInv'
<1>1. Opened' = Opened /\ \A k : IsClosed(k)' <=> IsClosed(k)
  BY DEF Opened, IsClosed
<1>2. ASSUME NEW m \in Servers, Cold(m) PROVE Cold(m)'
  BY <1>1, <1>2 DEF Cold, IsClosed
<1>3. ASSUME NEW d \in Callers PROVE CallCold(d)'
  <2>1. CASE calls'[d].stack = <<>>
    <3>1. \A i \in 1..Len(calls'[d].stack) : FALSE
      BY <2>1
    <3> QED
      BY <3>1 DEF CallCold
  <2>2. CASE calls'[d].stack = calls[d].stack
    <3>1. CallCold(d)
      BY DEF OneInv
    <3>2. \A i \in 1..Len(calls[d].stack) : calls[d].stack[i].name \in Servers
      BY StackServers
    <3> QED
      BY <1>2, <2>2, <3>1, <3>2 DEF CallCold
  <2> QED
    BY <2>1, <2>2
<1>4. ASSUME NEW k, InHand(k) PROVE InHand(k)'
  BY <1>4 DEF InHand
<1>5. ASSUME NEW m \in Servers, connection[m] \in Opened, ~IsClosed(connection[m])
      PROVE  connection'[m] = connection[m] /\ status'[m] = status[m]
  BY <1>5, PoolAssumption DEF Cold, IInv, TypeOK
<1>6. Kept'
  <2> SUFFICES ASSUME NEW k \in Opened, ~IsClosed(k)
               PROVE  (connection[conns[k].server] = k /\ status[conns[k].server] = "connected")'
                      \/ InHand(k)'
    BY <1>1 DEF Kept
  <2>1. conns[k].server \in Servers
    BY DEF IInv, TypeOK, Conn
  <2> QED
    BY <1>4, <1>5, <2>1 DEF OneInv, Kept
<1>7. CloserKeeps'
  <2> SUFFICES ASSUME closer'.at # None PROVE CloserKeeps'
    BY DEF CloserKeeps
  <2>1. closer.at \in Servers /\ closer.conn \in Opened /\ CloserKeeps
        /\ closer'.at = closer.at /\ closer'.conn = closer.conn
    BY DEF IInv, TypeOK, CloserOK, OneInv
  <2>2. CASE IsClosed(closer.conn)
    <3>1. Cold(closer.at)'
      BY <1>2, <2>1, <2>2 DEF CloserKeeps, Cold, IsClosed
    <3>2. ASSUME NEW d \in Callers, calls'[d].outcome = "up" PROVE Top(d)'.name # closer.at
      BY <2>1, <2>2, <3>2 DEF CloserKeeps, Top
    <3>3. IsClosed(closer.conn)'
      BY <2>1, <2>2 DEF IsClosed
    <3> QED
      BY <2>1, <3>1, <3>2, <3>3 DEF CloserKeeps, Cold
  <2>3. CASE ~IsClosed(closer.conn)
    <3>1. connection'[closer.at] = closer.conn
      BY <1>5, <2>1, <2>3 DEF CloserKeeps
    <3>2. ~IsClosed(closer.conn)'
      BY <2>1, <2>3 DEF IsClosed
    <3> QED
      BY <2>1, <3>1, <3>2 DEF CloserKeeps
  <2> QED
    BY <2>2, <2>3
<1> QED
  BY <1>3, <1>6, <1>7 DEF OneInv

\* The walk of get_connection passes cold slots only.
LEMMA DescentCold ==
  ASSUME IInv, OneInv, NoOverlap, NEW c \in Callers, ~Busy(c), NEW n \in Servers,
         NEW p \in Descents(n)
  PROVE  /\ p \in Seq(Servers) /\ Len(p) \in Nat \ {0} /\ Last(p) = p[Len(p)]
         /\ \A i, j \in 1..Len(p) : p[i] = p[j] => i = j
         /\ \A i \in 1..(Len(p) - 1) : Cold(p[i])
         /\ \A m \in Names(p) : m \in Servers /\ (m # Last(p) \/ ~Warm(Last(p)) => Cold(m))
<1>1. p \in Seq(Servers) /\ Len(p) \in Nat \ {0}
  BY PathFacts DEF Descents
<1>2. \A i \in 1..(Len(p) - 1) : Cold(p[i])
  <2>1. ASSUME NEW i \in 1..(Len(p) - 1) PROVE p[i] \in Servers /\ ~Warm(p[i])
    BY <1>1 DEF Descents
  <2> QED
    BY <2>1, NotWarmIsCold
<1>3. ASSUME NEW m \in Names(p) PROVE m \in Servers /\ (m # Last(p) \/ ~Warm(Last(p)) => Cold(m))
  <2>1. PICK i \in 1..Len(p) : p[i] = m
    BY DEF Names
  <2>2. m \in Servers
    BY <1>1, <2>1
  <2>3. CASE i = Len(p)
    BY <2>1, <2>2, <2>3, NotWarmIsCold DEF Last
  <2>4. CASE i # Len(p)
    <3>1. i \in 1..(Len(p) - 1)
      BY <1>1, <2>4
    <3> QED
      BY <1>2, <2>1, <2>2, <3>1
  <2> QED
    BY <2>3, <2>4
<1> QED
  BY <1>1, <1>2, <1>3 DEF Descents, Last

LEMMA RefuseOne ==
  ASSUME IInv, OneInv, NEW c \in Callers, NEW S, NEW st, \A n \in S : Cold(n), Refuse(c, S, st)
  PROVE  OneInv'
BY QuietStep DEF Refuse, SetStatus

\* A call begins at cold slots.
LEMMA BeginOne ==
  ASSUME IInv, OneInv, NEW c \in Callers, NEW p \in Seq(Servers), NEW k,
         \A i, j \in 1..Len(p) : p[i] = p[j] => i = j,
         \A i \in 1..Len(p) : Cold(p[i]),
         ~Busy(c), Begin(c, p, k)
  PROVE  OneInv'
<1>1. /\ UNCHANGED <<config, conns, connection, closer>> /\ Opened' = Opened
      /\ calls' = [calls EXCEPT ![c] = [stack |-> FramesOf(p), via |-> k, conn |-> None,
                                        outcome |-> "pending"]]
      /\ status' = SetStatus(Names(p), "connecting")
  BY DEF Begin, Opened
<1>2. calls[c].outcome = "none"
  BY DEF IInv, CallsOK, CallOK
<1>3. /\ calls'[c].stack = FramesOf(p) /\ calls'[c].outcome = "pending"
      /\ \A d \in Callers : d # c => calls'[d] = calls[d]
  BY <1>1 DEF IInv, TypeOK
<1>4. \A n : Cold(n)' <=> Cold(n)
  BY <1>1 DEF Cold, IsClosed
<1>5. CallCold(c)'
  <2>1. Len(p) \in Nat /\ Len(FramesOf(p)) = Len(p)
    <3>1. Len(p) \in Nat
      OBVIOUS
    <3> QED
      BY <3>1 DEF FramesOf
  <2>2. ASSUME NEW i \in 1..Len(p)
        PROVE  /\ (Len(p) + 1) - i \in 1..Len(p)
               /\ FramesOf(p)[i].name = p[(Len(p) + 1) - i]
    <3>1. (Len(p) + 1) - i \in 1..Len(p) /\ (Len(p) + 1) - i = Len(p) + 1 - i
      BY <2>1
    <3> QED
      BY <3>1 DEF FramesOf
  <2>3. ASSUME NEW i \in 1..Len(p), NEW j \in 1..Len(p),
               FramesOf(p)[i].name = FramesOf(p)[j].name
        PROVE  i = j
    <3>1. (Len(p) + 1) - i = (Len(p) + 1) - j
      BY <2>2, <2>3
    <3> QED
      BY <2>1, <3>1
  <2>4. PICK f : f = FramesOf(p)
    OBVIOUS
  <2>5. \A i \in 1..Len(p) : Cold(f[i].name)'
    BY <1>4, <2>2, <2>4
  <2>6. \A i, j \in 1..Len(p) : f[i].name = f[j].name => i = j
    BY <2>3, <2>4
  <2>7. calls'[c].stack = f /\ Len(f) = Len(p)
    BY <1>3, <2>1, <2>4
  <2> QED
    BY <2>5, <2>6, <2>7 DEF CallCold, Cold, IsClosed
<1>6. ASSUME NEW d \in Callers, d # c PROVE CallCold(d)'
  BY <1>3, <1>4, <1>6 DEF OneInv, CallCold
<1>7. ASSUME NEW j, InHand(j) PROVE InHand(j)'
  BY <1>2, <1>3, <1>7 DEF InHand
<1>8. Kept'
  <2> SUFFICES ASSUME NEW j \in Opened, ~IsClosed(j)
               PROVE  \/ (connection[conns[j].server] = j /\ status[conns[j].server] = "connected")'
                      \/ InHand(j)'
    BY <1>1 DEF Kept, IsClosed
  <2>1. conns[j].server \in Servers
    BY DEF IInv, TypeOK, Conn
  <2>2. CASE connection[conns[j].server] = j /\ status[conns[j].server] = "connected"
    <3>1. ~Cold(conns[j].server)
      BY <2>2, PoolAssumption DEF Cold, IInv, TypeOK
    <3>2. conns[j].server \notin Names(p)
      BY <3>1 DEF Names
    <3> QED
      BY <1>1, <2>1, <2>2, <3>2 DEF SetStatus
  <2> QED
    BY <1>7, <2>2 DEF OneInv, Kept
<1>9. CloserKeeps'
  BY <1>1, <1>3, <1>4 DEF OneInv, CloserKeeps, Top, IsClosed
<1> QED
  BY <1>5, <1>6, <1>8, <1>9 DEF OneInv

LEMMA GetConnectionOne ==
  ASSUME IInv, OneInv, NoOverlap, NEW c \in Callers, NEW n \in Servers, GetConnection(c, n)
  PROVE  OneInv'
<1>0. ~Busy(c)
  BY DEF GetConnection, GetCached, GetDirect, GetTunnelled, GetUnknown, GetAuthError, GetCircular
<1>1. CASE GetCached(c, n)
  BY <1>1, QuietStep DEF GetCached
<1>2. CASE GetDirect(c, n)
  <2>1. PICK p \in Descents(n) : ~Warm(Last(p)) /\ Begin(c, p, None)
    BY <1>2 DEF GetDirect
  <2>2. \A i \in 1..Len(p) : Cold(p[i])
    BY <1>0, <2>1, DescentCold DEF Names
  <2> QED
    BY <1>0, <2>1, <2>2, DescentCold, BeginOne
<1>3. CASE GetTunnelled(c, n)
  <2>1. PICK p \in Descents(n) :
          Len(p) > 1 /\ Begin(c, SubSeq(p, 1, Len(p) - 1), connection[Last(p)])
    BY <1>3 DEF GetTunnelled
  <2> DEFINE q == SubSeq(p, 1, Len(p) - 1)
  <2>2. /\ p \in Seq(Servers) /\ Len(p) \in Nat \ {0}
        /\ \A i, j \in 1..Len(p) : p[i] = p[j] => i = j
        /\ \A i \in 1..(Len(p) - 1) : Cold(p[i])
    BY <1>0, DescentCold
  <2>3. /\ q \in Seq(Servers) /\ Len(q) = Len(p) - 1
        /\ \A i \in 1..(Len(p) - 1) : q[i] = p[i] /\ i \in 1..Len(p)
    BY <2>1, <2>2
  <2>4. Begin(c, q, connection[Last(p)])
    BY <2>1
  <2> HIDE DEF q
  <2> QED
    BY <1>0, <2>2, <2>3, <2>4, BeginOne
<1>4. CASE GetUnknown(c, n)
  <2>1. PICK p \in Descents(n) : Refuse(c, Names(p) \ {Last(p)}, "disconnected")
    BY <1>4 DEF GetUnknown
  <2> QED
    BY <1>0, <2>1, DescentCold, RefuseOne
<1>5. CASE GetAuthError(c, n)
  <2>1. PICK p \in Descents(n) : ~Warm(Last(p)) /\ Refuse(c, Names(p), "disconnected")
    BY <1>5 DEF GetAuthError
  <2> QED
    BY <1>0, <2>1, DescentCold, RefuseOne
<1>6. CASE GetCircular(c, n)
  <2>1. PICK p \in Descents(n) : ~Warm(Last(p)) /\ Refuse(c, Names(p), "connecting")
    BY <1>6 DEF GetCircular
  <2> QED
    BY <1>0, <2>1, DescentCold, RefuseOne
<1> QED
  BY <1>1, <1>2, <1>3, <1>4, <1>5, <1>6 DEF GetConnection

LEMMA EstablishOne ==
  ASSUME IInv, OneInv, NEW c \in Callers, Establish(c)
  PROVE  OneInv'
<1>1. PICK k \in Conns \ Opened :
        /\ conns' = [x \in Opened \cup {k} |->
                      IF x = k THEN [server |-> Top(c).name, host |-> Top(c).host,
                                     via |-> calls[c].via, state |-> "open"]
                      ELSE conns[x]]
        /\ calls' = [calls EXCEPT ![c].outcome = "up", ![c].conn = k]
  BY DEF Establish
<1>2. /\ Opened' = Opened \cup {k} /\ \A x \in Opened : conns'[x] = conns[x]
      /\ UNCHANGED <<status, connection, closer>> /\ calls[c].outcome = "pending"
      /\ ~CloserReady
  BY <1>1 DEF Establish, Opened
<1>3. /\ \A d \in Callers : d # c => calls'[d] = calls[d]
      /\ calls'[c].stack = calls[c].stack /\ calls'[c].outcome = "up" /\ calls'[c].conn = k
  BY <1>1 DEF IInv, TypeOK, Call
<1>4. \A x \in Opened : IsClosed(x)' <=> IsClosed(x)
  BY <1>2 DEF IsClosed
<1>5. ASSUME NEW n \in Servers, Cold(n) PROVE Cold(n)'
  BY <1>2, <1>4, <1>5 DEF Cold, IInv, ServersNeverMixed, IsClosed
<1>6. ASSUME NEW d \in Callers PROVE CallCold(d)'
  <2>1. calls'[d].stack = calls[d].stack /\ CallCold(d)
    BY <1>3 DEF OneInv, IInv, TypeOK, Call
  <2>2. \A i \in 1..Len(calls[d].stack) : calls[d].stack[i].name \in Servers
    BY StackServers
  <2> QED
    BY <1>5, <2>1, <2>2 DEF CallCold
<1>7. Kept'
  <2> SUFFICES ASSUME NEW j \in Opened', ~IsClosed(j)'
               PROVE  \/ (connection[conns[j].server] = j /\ status[conns[j].server] = "connected")'
                      \/ InHand(j)'
    BY DEF Kept
  <2>1. CASE j = k
    BY <1>3, <2>1 DEF InHand
  <2>2. CASE j \in Opened
    <3>1. \/ connection[conns[j].server] = j /\ status[conns[j].server] = "connected"
          \/ InHand(j)
      BY <1>4, <2>2 DEF OneInv, Kept
    <3>2. InHand(j) => InHand(j)'
      BY <1>2, <1>3 DEF InHand
    <3> QED
      BY <1>2, <2>2, <3>1, <3>2
  <2> QED
    BY <1>2, <2>1, <2>2
<1>8. CloserKeeps'
  <2> SUFFICES ASSUME closer.at # None
               PROVE  ~IsClosed(closer.conn)' /\ connection'[closer.at] = closer.conn
    BY <1>2 DEF CloserKeeps
  <2>1. closer.conn \in Opened /\ ~IsClosed(closer.conn)
    BY <1>2 DEF IInv, CloserOK, CloserReady
  <2> QED
    BY <1>2, <1>4, <2>1 DEF OneInv, CloserKeeps
<1> QED
  BY <1>6, <1>7, <1>8 DEF OneInv

LEMMA HandshakeFailsOne ==
  ASSUME IInv, OneInv, NEW c \in Callers, NEW o \in {"caught", "escaped"},
         NEW b \in BOOLEAN, HandshakeFails(c, o, b)
  PROVE  OneInv'
<1>1. /\ calls[c].outcome = "pending" /\ calls' = [calls EXCEPT ![c].outcome = o]
      /\ UNCHANGED <<conns, closer>>
  BY DEF HandshakeFails, AttemptFails
<1>2. Cold(Top(c).name) /\ Top(c).name \in Servers
  BY <1>1, TopCold, TopFacts
<1>3. \A m \in Servers : \/ connection'[m] = connection[m] /\ status'[m] = status[m]
                         \/ Cold(m) /\ connection'[m] \in {None, connection[m]}
  BY <1>2 DEF HandshakeFails, AttemptFails, OnClose, IInv, TypeOK
<1>4. \A d \in Callers : \/ calls'[d] = calls[d]
                         \/ /\ calls[d].outcome # "up" /\ calls'[d].outcome # "up"
                            /\ calls'[d].stack \in {<<>>, calls[d].stack}
  BY <1>1 DEF IInv, TypeOK, Call
<1> QED
  BY <1>1, <1>3, <1>4, QuietStep

LEMMA UnwindOne ==
  ASSUME IInv, OneInv, NEW c \in Callers, ResumeCaught(c) \/ ResumeEscaped(c)
  PROVE  OneInv'
<1>1. /\ calls[c].outcome \in {"caught", "escaped"} /\ calls' = [calls EXCEPT ![c] = Idle]
      /\ UNCHANGED <<conns, connection, closer>>
      /\ status' = status \/ status' = [status EXCEPT ![Top(c).name] = "disconnected"]
  BY DEF ResumeCaught, ResumeEscaped, Unwind
<1>2. Cold(Top(c).name) /\ Top(c).name \in Servers
  BY <1>1, TopCold, TopFacts
<1>3. \A m \in Servers : \/ connection'[m] = connection[m] /\ status'[m] = status[m]
                         \/ Cold(m) /\ connection'[m] \in {None, connection[m]}
  BY <1>1, <1>2 DEF IInv, TypeOK
<1>4. \A d \in Callers : \/ calls'[d] = calls[d]
                         \/ /\ calls[d].outcome # "up" /\ calls'[d].outcome # "up"
                            /\ calls'[d].stack \in {<<>>, calls[d].stack}
  BY <1>1 DEF IInv, TypeOK, Idle
<1> QED
  BY <1>1, <1>3, <1>4, QuietStep

\* The slot of the innermost server is cold when it is filled.
LEMMA ResumeUpOne ==
  ASSUME IInv, OneInv, NoOverlap, NEW c \in Callers, ResumeUp(c)
  PROVE  OneInv'
<1> DEFINE st == calls[c].stack
           k == calls[c].conn
           n == Top(c).name
<1>1. /\ calls[c].outcome = "up"
      /\ connection' = [connection EXCEPT ![n] = k]
      /\ status' = [status EXCEPT ![n] = "connected"]
      /\ UNCHANGED <<conns, closer>> /\ Opened' = Opened
  BY DEF ResumeUp, FillSlot, Opened
<1>2. /\ st \in Seq(Frame) /\ st # <<>> /\ 1 \in 1..Len(st) /\ n = st[1].name /\ n \in Servers
      /\ k \in Opened /\ conns[k].server = n /\ Cold(n)
  BY <1>1, TopFacts, TopCold
<1>3. /\ calls'[c].outcome # "up"
      /\ \/ calls'[c].stack = <<>>
         \/ /\ Len(calls'[c].stack) = Len(st) - 1 /\ Len(st) \in Nat
            /\ \A i \in 1..(Len(st) - 1) : calls'[c].stack[i] = st[i + 1]
  <2>1. CASE Len(st) = 1
    <3>1. calls' = [calls EXCEPT ![c] = Idle]
      BY <2>1 DEF ResumeUp, FillSlot
    <3> QED
      BY <3>1 DEF Idle, IInv, TypeOK
  <2>2. CASE Len(st) # 1
    <3>1. calls' = [calls EXCEPT ![c] = [stack |-> Tail(st), via |-> k, conn |-> None,
                                         outcome |-> "pending"]]
      BY <2>2 DEF ResumeUp, FillSlot
    <3>2. calls'[c].stack = Tail(st) /\ calls'[c].outcome = "pending"
      BY <3>1 DEF IInv, TypeOK
    <3> QED
      BY <1>2, <2>2, <3>2, StackFacts
  <2> QED
    BY <2>1, <2>2
<1>4. \A x : IsClosed(x)' <=> IsClosed(x)
  BY <1>1 DEF IsClosed
<1>5. ASSUME NEW m \in Servers, m # n PROVE connection'[m] = connection[m] /\ (Cold(m)' <=> Cold(m))
  BY <1>1, <1>5 DEF Cold, IsClosed, IInv, TypeOK
<1>6. CallCold(c)'
  <2>1. CASE calls'[c].stack = <<>>
    <3>1. \A i \in 1..Len(calls'[c].stack) : FALSE
      BY <2>1
    <3> QED
      BY <3>1 DEF CallCold
  <2>2. CASE /\ Len(calls'[c].stack) = Len(st) - 1 /\ Len(st) \in Nat
             /\ \A i \in 1..(Len(st) - 1) : calls'[c].stack[i] = st[i + 1]
    <3>0. PICK tl : tl = calls'[c].stack
      OBVIOUS
    <3>1. /\ \A i, j \in 1..Len(st) : st[i].name = st[j].name => i = j
          /\ \A i \in 1..Len(st) : Cold(st[i].name)
      BY DEF OneInv, CallCold
    <3>2. ASSUME NEW i \in 1..(Len(st) - 1)
          PROVE  i + 1 \in 1..Len(st) /\ i + 1 # 1 /\ tl[i] = st[i + 1] /\ st[i + 1].name \in Servers
      <4>1. i + 1 \in 1..Len(st) /\ i + 1 # 1
        BY <2>2
      <4> QED
        BY <1>2, <2>2, <3>0, <4>1, StackFacts
    <3>3. ASSUME NEW i \in 1..(Len(st) - 1) PROVE Cold(tl[i].name)'
      <4>1. PICK m \in Servers : m = tl[i].name
        BY <3>2
      <4>2. m # n /\ Cold(m)
        BY <1>2, <3>1, <3>2, <4>1
      <4>3. Cold(m)'
        BY <1>5, <4>2
      <4> QED
        BY <4>1, <4>3
    <3>4. ASSUME NEW i \in 1..(Len(st) - 1), NEW j \in 1..(Len(st) - 1), tl[i].name = tl[j].name
          PROVE  i = j
      <4>1. tl[i] = st[i + 1] /\ tl[j] = st[j + 1] /\ i + 1 \in 1..Len(st) /\ j + 1 \in 1..Len(st)
        BY <3>2
      <4>2. i + 1 = j + 1
        BY <3>1, <3>4, <4>1
      <4> QED
        BY <4>2
    <3>5. Len(tl) = Len(st) - 1
      BY <2>2, <3>0
    <3> QED
      BY <3>0, <3>3, <3>4, <3>5 DEF CallCold, Cold, IsClosed
  <2> QED
    BY <1>3, <2>1, <2>2
<1>7. \A d \in Callers : CallCold(d)'
  BY <1>6 DEF NoOverlap
<1>8. Kept'
  <2> SUFFICES ASSUME NEW j \in Opened, ~IsClosed(j)
               PROVE  (connection[conns[j].server] = j /\ status[conns[j].server] = "connected")'
    BY <1>1, <1>4 DEF Kept
  <2>1. CASE j = k
    BY <1>1, <1>2, <2>1 DEF IInv, TypeOK
  <2>2. CASE j # k
    <3>1. ~InHand(j)
      BY <1>1, <2>2 DEF InHand, NoOverlap
    <3>2. connection[conns[j].server] = j /\ status[conns[j].server] = "connected"
      BY <3>1 DEF OneInv, Kept
    <3>3. conns[j].server # n
      BY <1>2, <3>2, PoolAssumption DEF Cold, IInv, TypeOK
    <3> QED
      BY <1>1, <3>2, <3>3
  <2> QED
    BY <2>1, <2>2
<1>9. CloserKeeps'
  <2> SUFFICES ASSUME closer.at # None
               PROVE  IF IsClosed(closer.conn)' THEN Cold(closer.at)'
                      ELSE connection'[closer.at] = closer.conn
    BY <1>1, <1>3 DEF CloserKeeps, NoOverlap
  <2>1. closer.at \in Servers /\ closer.conn \in Opened /\ CloserKeeps
    BY DEF IInv, TypeOK, CloserOK, OneInv
  <2>2. n # closer.at
    <3>1. CASE IsClosed(closer.conn)
      BY <1>1, <2>1, <3>1 DEF CloserKeeps
    <3>2. CASE ~IsClosed(closer.conn)
      BY <1>2, <2>1, <3>2, PoolAssumption DEF CloserKeeps, Cold, IInv, TypeOK
    <3> QED
      BY <3>1, <3>2
  <2>3. PICK at \in Servers, kk \in Opened : at = closer.at /\ kk = closer.conn
    BY <2>1
  <2>4. IF IsClosed(kk)' THEN Cold(at)' ELSE connection'[at] = kk
    BY <1>4, <1>5, <2>1, <2>2, <2>3 DEF CloserKeeps
  <2> QED
    BY <1>1, <2>3, <2>4 DEF Cold, IsClosed
<1> QED
  BY <1>7, <1>8, <1>9 DEF OneInv

\* What _on_close clears by the name is the lost connection, or cold.
LEMMA ConnectionLostOne ==
  ASSUME IInv, OneInv, NoOverlap, NEW k \in Conns, ConnectionLost(k)
  PROVE  OneInv'
<1> DEFINE n == conns[k].server
<1>1. /\ k \in Opened /\ ~IsClosed(k) /\ n \in Servers
      /\ conns' = [conns EXCEPT ![k].state = "closed"]
      /\ status' = [status EXCEPT ![n] = "disconnected"]
      /\ connection' = [connection EXCEPT ![n] = None]
      /\ UNCHANGED <<calls, closer>>
  BY DEF ConnectionLost, OnClose, IInv, TypeOK, Conn
<1>2. /\ Opened' = Opened
      /\ \A x \in Opened : /\ conns'[x].server = conns[x].server
                           /\ IsClosed(x)' <=> (IsClosed(x) \/ x = k)
  <2>1. conns \in [Opened -> Conn]
    BY DEF IInv, TypeOK
  <2> QED
    BY <1>1, <2>1 DEF Opened, IsClosed, Conn
<1>3. ASSUME NEW m \in Servers, m # n PROVE connection'[m] = connection[m] /\ status'[m] = status[m]
  BY <1>1, <1>3 DEF IInv, TypeOK
<1>4. connection'[n] = None
  BY <1>1 DEF IInv, TypeOK
<1>5. ASSUME NEW m \in Servers, Cold(m) PROVE Cold(m)'
  <2>1. connection[m] # None => connection[m] \in Opened
    BY DEF IInv, ServersNeverMixed
  <2> QED
    BY <1>2, <1>3, <1>4, <1>5, <2>1 DEF Cold, IsClosed
<1>6. ASSUME NEW d \in Callers PROVE CallCold(d)'
  <2>1. calls'[d] = calls[d] /\ CallCold(d)
    BY <1>1 DEF OneInv, IInv, TypeOK, Call
  <2>2. \A i \in 1..Len(calls[d].stack) : calls[d].stack[i].name \in Servers
    BY StackServers
  <2> QED
    BY <1>5, <2>1, <2>2 DEF CallCold
<1>7. ASSUME NEW j \in Opened, ~IsClosed(j), j # k PROVE conns[j].server # n
  BY <1>1, <1>7, OneLive
<1>8. Kept'
  <2> SUFFICES ASSUME NEW j \in Opened, ~IsClosed(j), j # k
               PROVE  \/ (connection[conns[j].server] = j /\ status[conns[j].server] = "connected")'
                      \/ InHand(j)'
    BY <1>2 DEF Kept
  <2>1. conns[j].server \in Servers /\ conns[j].server # n
    BY <1>7 DEF IInv, TypeOK, Conn
  <2>2. \/ connection[conns[j].server] = j /\ status[conns[j].server] = "connected"
        \/ InHand(j)
    BY DEF OneInv, Kept
  <2>3. InHand(j) => InHand(j)'
    BY <1>1 DEF InHand
  <2> QED
    BY <1>2, <1>3, <2>1, <2>2, <2>3
<1>9. CloserKeeps'
  <2> SUFFICES ASSUME closer.at # None PROVE CloserKeeps'
    BY <1>1 DEF CloserKeeps
  <2>1. PICK at \in Servers, kk \in Opened : at = closer.at /\ kk = closer.conn
    BY DEF IInv, TypeOK, CloserOK
  <2>2. /\ at # None /\ closer'.at = at /\ closer'.conn = kk
        /\ \A d : Top(d)' = Top(d) /\ calls'[d] = calls[d]
    BY <1>1, <2>1 DEF Top
  <2>3. IF IsClosed(kk)
        THEN Cold(at) /\ \A d \in Callers : calls[d].outcome = "up" => Top(d).name # at
        ELSE connection[at] = kk
    BY <2>1 DEF OneInv, CloserKeeps
  <2>4. IF IsClosed(kk)'
        THEN Cold(at)' /\ \A d \in Callers : calls[d].outcome = "up" => Top(d).name # at
        ELSE connection'[at] = kk
    <3>1. CASE IsClosed(kk)
      BY <1>2, <1>5, <2>3, <3>1
    <3>2. CASE ~IsClosed(kk)
      <4>1. conns[kk].server = at /\ ~Cold(at) /\ connection[at] = kk
        BY <2>3, <3>2, PoolAssumption DEF IInv, TypeOK, ServersNeverMixed, Cold
      <4>2. \A d \in Callers : calls[d].outcome = "up" => Top(d).name # at
        BY <4>1, TopCold
      <4>3. CASE kk = k
        BY <1>2, <1>4, <4>1, <4>2, <4>3 DEF Cold
      <4>4. CASE kk # k
        BY <1>2, <1>3, <1>7, <3>2, <4>1, <4>4
      <4> QED
        BY <4>3, <4>4
    <3> QED
      BY <3>1, <3>2
  <2> QED
    BY <2>2, <2>4 DEF CloserKeeps, Cold, IsClosed
<1> QED
  BY <1>6, <1>8, <1>9 DEF OneInv

\* close leaves the connection in its slot until it is closed, and resets a slot only
\* when it is cold.
LEMMA CloserOne ==
  ASSUME IInv, OneInv, CloserStep \/ CloseAll \/ \E n \in Servers : CloseName(n)
  PROVE  OneInv'
<1>1. ASSUME NEW S, CloseStart(S) PROVE OneInv'
  BY <1>1, QuietStep DEF CloseStart, IInv, TypeOK
<1>2. CASE CloseResume
  <2>1. Cold(closer.at)
    BY <1>2 DEF OneInv, CloserKeeps, CloseResume, CloserReady
  <2>2. \A m \in Servers : \/ connection'[m] = connection[m] /\ status'[m] = status[m]
                           \/ Cold(m) /\ connection'[m] \in {None, connection[m]}
    BY <1>2, <2>1 DEF CloseResume, OnClose, IInv, TypeOK
  <2>3. closer'.at = None
    BY <1>2 DEF CloseResume, IInv, TypeOK
  <2> QED
    BY <1>2, <2>2, <2>3, QuietStep DEF CloseResume
<1>3. ASSUME NEW n \in Servers, CloseNext(n) PROVE OneInv'
  <2>0. UNCHANGED calls /\ closer.at = None
    BY <1>3 DEF CloseNext
  <2>1. CASE closer' = [closer EXCEPT !.todo = @ \ {n}] /\ UNCHANGED <<status, connection, conns>>
    BY <2>0, <2>1, QuietStep DEF IInv, TypeOK
  <2>2. CASE /\ connection[n] # None => IsClosed(connection[n])
             /\ OnClose(n) /\ closer' = [closer EXCEPT !.todo = @ \ {n}] /\ UNCHANGED conns
    <3>1. \A m \in Servers : \/ connection'[m] = connection[m] /\ status'[m] = status[m]
                             \/ Cold(m) /\ connection'[m] \in {None, connection[m]}
      BY <2>2 DEF OnClose, IInv, TypeOK, Cold
    <3> QED
      BY <2>0, <2>2, <3>1, QuietStep DEF IInv, TypeOK
  <2>3. CASE /\ connection[n] # None /\ ~IsClosed(connection[n])
             /\ conns' = [conns EXCEPT ![connection[n]].state = "closing"]
             /\ closer' = [todo |-> closer.todo \ {n}, at |-> n, conn |-> connection[n]]
             /\ UNCHANGED <<status, connection>>
    <3>1. connection[n] \in Opened /\ conns \in [Opened -> Conn]
      BY <2>3 DEF IInv, TypeOK, ServersNeverMixed
    <3>2. /\ Opened' = Opened
          /\ \A x \in Opened : /\ conns'[x].server = conns[x].server
                               /\ IsClosed(x)' <=> IsClosed(x)
      BY <2>3, <3>1 DEF Opened, IsClosed, Conn
    <3>3. ASSUME NEW m \in Servers, Cold(m) PROVE Cold(m)'
      BY <2>3, <3>2, <3>3 DEF Cold, IInv, ServersNeverMixed, IsClosed
    <3>4. ASSUME NEW d \in Callers PROVE CallCold(d)'
      <4>1. calls'[d] = calls[d] /\ CallCold(d)
        BY <2>0 DEF OneInv, IInv, TypeOK, Call
      <4>2. \A i \in 1..Len(calls[d].stack) : calls[d].stack[i].name \in Servers
        BY StackServers
      <4> QED
        BY <3>3, <4>1, <4>2 DEF CallCold
    <3>5. Kept'
      BY <2>0, <2>3, <3>2 DEF OneInv, Kept, InHand
    <3>6. CloserKeeps'
      <4>1. ~IsClosed(connection[n])'
        BY <2>3, <3>1, <3>2 DEF IsClosed
      <4> QED
        BY <2>3, <4>1 DEF CloserKeeps, IsClosed
    <3> QED
      BY <3>4, <3>5, <3>6 DEF OneInv
  <2> QED
    BY <1>3, <2>1, <2>2, <2>3 DEF CloseNext, CloseSlot
<1> QED
  BY <1>1, <1>2, <1>3 DEF CloserStep, CloseAll, CloseName

LEMMA ToolOne ==
  ASSUME IInv, OneInv, UNCHANGED <<status, connection, conns, calls, closer>>
  PROVE  OneInv'
BY QuietStep

LEMMA NextOne ==
  ASSUME "hostkey" \notin Faults, NoOverlap, IInv, OneInv, [Next]_vars
  PROVE  OneInv'
<1>1. CASE \E c \in Callers, n \in Servers : GetConnection(c, n)
  BY <1>1, GetConnectionOne
<1>2. CASE \E c \in Callers : Resolve(c)
  BY <1>2, EstablishOne, HandshakeFailsOne DEF Resolve
<1>3. CASE \E c \in Callers : Resume(c)
  BY <1>3, ResumeUpOne, UnwindOne DEF Resume, ResumeHostKeyError
<1>4. CASE \E k \in Conns : ConnectionLost(k)
  BY <1>4, ConnectionLostOne
<1>5. CASE CloseAll \/ CloserStep \/ \E n \in Servers : CloseName(n)
  BY <1>5, CloserOne
<1>6. ASSUME \/ \E n \in Servers : Pin(n) \/ Unpin(n) \/ Deregister(n)
             \/ \E n \in Servers, h \in Hosts : Register(n, h)
             \/ UNCHANGED vars
      PROVE  OneInv'
  <2>1. UNCHANGED <<status, connection, conns, calls, closer>>
    BY <1>6 DEF Pin, Unpin, Deregister, Register, vars
  <2> QED
    BY <2>1, ToolOne
<1> QED
  BY <1>1, <1>2, <1>3, <1>4, <1>5, <1>6 DEF Next

LEMMA InitOne == Init => OneInv
<1> SUFFICES ASSUME Init PROVE OneInv
  OBVIOUS
<1>1. Opened = {} /\ closer.at = None
  BY DEF Init, Opened, Resting
<1>2. ASSUME NEW c \in Callers PROVE CallCold(c)
  <2>1. calls[c].stack = <<>>
    BY DEF Init, Idle
  <2>2. \A i \in 1..Len(calls[c].stack) : FALSE
    BY <2>1
  <2> QED
    BY <2>2 DEF CallCold
<1> QED
  BY <1>1, <1>2 DEF OneInv, Kept, CloserKeeps

\* As long as calls do not overlap, and every key can be appended to known_hosts, no
\* server has two open connections: get_connection finds the slot empty or returns
\* what is in it, through jump hosts of any depth, losses and closes.
THEOREM PoolOneConnectionPerServer ==
  ASSUME NoOverlap, "hostkey" \notin Faults
  PROVE  Spec => []OneConnectionPerServer
<1>1. Init => IInv /\ OneInv
  BY InitIInv, InitOne
<1>2. IInv /\ OneInv /\ [Next]_vars => IInv' /\ OneInv'
  BY NextIInv, NextOne
<1>3. IInv /\ OneInv => OneConnectionPerServer
  <2>1. \A k : conns[k].state = "open" => ~IsClosed(k)
    BY DEF IsClosed
  <2> QED
    BY <2>1, OneLive DEF OneConnectionPerServer
<1> QED
  BY <1>1, <1>2, <1>3, PTL DEF Spec

---------------------------------------------------------------------------
(* The pool implements PoolService: every step of the pool maps to a step   *)
(* of the service or to a stutter.                                          *)

\* A call holds a connection only while its handshake has just succeeded.
ConnOK == \A c \in Callers : calls[c].conn # None => calls[c].outcome = "up"

RInv == IInv /\ ConnOK

---------------------------------------------------------------------------
\* What the service sees of a call x.
Outer(x) == IF x.stack # <<>> THEN Last(x.stack).name ELSE None
Inner(x) == IF x.stack # <<>> THEN Head(x.stack).name ELSE None

\* When one call changes, so does what the service sees of it, and nothing else.
LEMMA CallBars ==
  ASSUME calls \in [Callers -> Call], NEW c \in Callers, NEW x,
         calls' = [calls EXCEPT ![c] = x]
  PROVE  /\ askedBar' = [askedBar EXCEPT ![c] = Outer(x)]
         /\ hopBar' = [hopBar EXCEPT ![c] = Inner(x)]
         /\ obtainedBar' = [obtainedBar EXCEPT ![c] = x.conn]
BY DEF askedBar, hopBar, obtainedBar, Busy, Top, Outer, Inner

\* When one answer changes, so does what the service sees of it.
LEMMA AnswerBar ==
  ASSUME got \in [Callers -> Result \cup {None}], NEW c \in Callers,
         NEW r \in Result \cup {None}, got' = [got EXCEPT ![c] = r]
  PROVE  answerBar' = [answerBar EXCEPT ![c] = IF r = None THEN None ELSE r.conn]
BY DEF answerBar

\* Calls and answers that stay as they are look the same to the service.
LEMMA SameBars ==
  /\ calls' = calls => UNCHANGED <<askedBar, hopBar, obtainedBar>>
  /\ got' = got => UNCHANGED answerBar
BY DEF askedBar, hopBar, obtainedBar, answerBar, Busy, Top

\* A step that touches neither calls, answers, connections nor pins is a stutter
\* of the service.
LEMMA Stutter ==
  ASSUME UNCHANGED <<calls, got, conns, pinned>>
  PROVE  UNCHANGED Service!vars
BY SameBars DEF Service!vars

---------------------------------------------------------------------------
\* The invariant about connections in hand.
LEMMA InitConnOK == Init => ConnOK
BY DEF Init, Idle, ConnOK

\* A connection comes into hand with the outcome "up", and leaves it with it.
LEMMA NextConnOK == IInv /\ ConnOK /\ [Next]_vars => ConnOK'
<1> SUFFICES ASSUME IInv, ConnOK, [Next]_vars PROVE ConnOK'
  OBVIOUS
<1>0. calls \in [Callers -> Call]
  BY DEF IInv, TypeOK
<1>1. CASE UNCHANGED calls
  BY <1>1 DEF ConnOK
<1>2. ASSUME NEW c \in Callers, NEW x, calls' = [calls EXCEPT ![c] = x],
             x.conn # None => x.outcome = "up"
      PROVE  ConnOK'
  BY <1>0, <1>2 DEF ConnOK
<1>3. ASSUME NEW c \in Callers, NEW p, NEW k, Begin(c, p, k) PROVE ConnOK'
  BY <1>2, <1>3 DEF Begin
<1>4. ASSUME NEW c \in Callers, Establish(c) PROVE ConnOK'
  BY <1>0, <1>4 DEF Establish, ConnOK, Call
<1>5. ASSUME NEW c \in Callers, NEW o, NEW b, HandshakeFails(c, o, b) PROVE ConnOK'
  BY <1>0, <1>5 DEF HandshakeFails, AttemptFails, ConnOK, Call
<1>6. ASSUME NEW c \in Callers, Resume(c) PROVE ConnOK'
  BY <1>2, <1>6
     DEF Resume, ResumeUp, FillSlot, ResumeCaught, ResumeEscaped,
         ResumeHostKeyError, Unwind, Idle
<1> QED
  BY <1>1, <1>3, <1>4, <1>5, <1>6
     DEF Next, vars, GetConnection, GetCached, GetDirect, GetTunnelled, GetUnknown,
         GetAuthError, GetCircular, Refuse, Resolve, ConnectionLost, CloseAll,
         CloserStep, CloseResume, CloseNext, CloseName, CloseStart, Pin, Unpin,
         Deregister, Register

\* The invariant the refinement rests on.
LEMMA SpecRInv == Spec => []RInv
<1>1. RInv /\ [Next]_vars => RInv'
  BY NextIInv, NextConnOK DEF RInv
<1> QED
  BY <1>1, InitIInv, InitConnOK, PTL DEF Spec, RInv

---------------------------------------------------------------------------
(* The steps, one lemma per group of actions.                              *)

\* The initial states of the pool are those of the service.
LEMMA InitRefines == Init => Service!Init
BY DEF Init, Service!Init, Idle, Busy, askedBar, hopBar, obtainedBar, answerBar

\* get_connection that suspends: a question to the service, which begins with the
\* last server of the path.
LEMMA BeginRefines ==
  ASSUME RInv, NEW c \in Callers, NEW n \in Servers,
         NEW p \in Seq(Servers), Len(p) > 0, p[1] = n,
         \A i \in 1..Len(p) : Registered(p[i]),
         NEW k, ~Busy(c), Begin(c, p, k)
  PROVE  Service!Ask(c, n, Last(p))
<1> DEFINE new == [stack |-> FramesOf(p), via |-> k, conn |-> None,
                   outcome |-> "pending"]
<1>1. /\ calls \in [Callers -> Call] /\ calls' = [calls EXCEPT ![c] = new]
      /\ got \in [Callers -> Result \cup {None}] /\ got' = [got EXCEPT ![c] = None]
      /\ UNCHANGED <<conns, pinned>>
  BY DEF Begin, RInv, IInv, TypeOK
<1>2. \A i \in 1..Len(p) : config[p[i]] \in Hosts
  <2>1. \A i \in 1..Len(p) : p[i] \in Servers /\ config[p[i]] # None
    BY DEF Registered
  <2> QED
    BY <2>1 DEF RInv, IInv, TypeOK
<1>3. /\ Len(FramesOf(p)) = Len(p) /\ FramesOf(p) # <<>>
      /\ FramesOf(p) \in Seq(Frame)
      /\ \A i \in 1..Len(p) : FramesOf(p)[i].name = p[Len(p) + 1 - i]
  BY <1>2, FramesFacts
<1>4. Outer(new) = n /\ Inner(new) = Last(p)
  <2>1. Last(FramesOf(p)).name = p[1]
    BY <1>3 DEF Last
  <2>2. Head(FramesOf(p)).name = Last(p)
    BY <1>3 DEF Last
  <2> QED
    BY <1>3, <2>1, <2>2 DEF Outer, Inner
<1>5. /\ askedBar' = [askedBar EXCEPT ![c] = n]
      /\ hopBar' = [hopBar EXCEPT ![c] = Last(p)]
      /\ obtainedBar' = [obtainedBar EXCEPT ![c] = None]
  <2>1. new.conn = None
    OBVIOUS
  <2> HIDE DEF new
  <2>2. calls \in [Callers -> Call] /\ calls' = [calls EXCEPT ![c] = new]
    BY <1>1
  <2>3. /\ askedBar' = [askedBar EXCEPT ![c] = Outer(new)]
        /\ hopBar' = [hopBar EXCEPT ![c] = Inner(new)]
        /\ obtainedBar' = [obtainedBar EXCEPT ![c] = new.conn]
    BY <2>2, CallBars
  <2> QED
    BY <1>4, <2>1, <2>3
<1>6. answerBar' = [answerBar EXCEPT ![c] = None]
  BY <1>1, AnswerBar
<1>7. askedBar[c] = None
  BY DEF askedBar
<1>8. obtainedBar[c] = None
  BY DEF obtainedBar, RInv, ConnOK, IInv, CallsOK, CallOK
<1>9. obtainedBar' = obtainedBar
  BY <1>5, <1>8 DEF obtainedBar
<1> QED
  BY <1>1, <1>5, <1>6, <1>7, <1>9 DEF Service!Ask

\* get_connection that returns or raises at once.
LEMMA AtOnceRefines ==
  ASSUME RInv, NEW c \in Callers, NEW n \in Servers, ~Busy(c)
  PROVE  /\ GetCached(c, n) => Service!Reuse(c, n)
         /\ \A S, st : Refuse(c, S, st) => Service!Refuse(c)
<1>1. got \in [Callers -> Result \cup {None}]
  BY DEF RInv, IInv, TypeOK
<1>2. askedBar[c] = None
  BY DEF askedBar
<1>3. ASSUME GetCached(c, n) PROVE Service!Reuse(c, n)
  <2> DEFINE k == connection[n]
             r == [name |-> n, host |-> config[n], conn |-> k]
  <2>1. k \in Opened /\ k \in Conns /\ conns[k].server = n /\ conns[k].state # "closed"
    BY <1>3 DEF GetCached, Warm, IsClosed, RInv, IInv, ServersNeverMixed, TypeOK
  <2>2. r \in Result
    BY <1>3, <2>1 DEF GetCached, Registered, RInv, IInv, TypeOK, Result
  <2>3. answerBar' = [answerBar EXCEPT ![c] = k]
    <3>1. got' = [got EXCEPT ![c] = r]
      BY <1>3 DEF GetCached
    <3>2. r # None /\ r.conn = k
      BY <2>2, NoResult
    <3> HIDE DEF r
    <3> QED
      BY <1>1, <2>2, <3>1, <3>2, AnswerBar
  <2>4. UNCHANGED <<askedBar, hopBar, obtainedBar, conns, pinned>>
    BY <1>3, SameBars DEF GetCached
  <2>5. k \in Service!Made
    BY <2>1 DEF Service!Made, Opened
  <2> QED
    BY <1>2, <2>1, <2>3, <2>4, <2>5 DEF Service!Reuse
<1>4. ASSUME NEW S, NEW st, Refuse(c, S, st) PROVE Service!Refuse(c)
  <2>1. answerBar' = [answerBar EXCEPT ![c] = None]
    BY <1>1, <1>4, AnswerBar DEF Refuse
  <2>2. UNCHANGED <<askedBar, hopBar, obtainedBar, conns, pinned>>
    BY <1>4, SameBars DEF Refuse
  <2> QED
    BY <1>2, <2>1, <2>2 DEF Service!Refuse
<1> QED
  BY <1>3, <1>4

\* Every way get_connection can start is a step of the service.
LEMMA GetConnectionRefines ==
  ASSUME RInv, NEW c \in Callers, NEW n \in Servers, GetConnection(c, n)
  PROVE  Service!Next
<1>0. ~Busy(c)
  BY DEF GetConnection, GetCached, GetDirect, GetTunnelled, GetUnknown,
         GetAuthError, GetCircular
<1>1. CASE GetCached(c, n)
  BY <1>0, <1>1, AtOnceRefines DEF Service!Next
<1>2. CASE GetDirect(c, n)
  <2>1. PICK p \in Descents(n) : Registered(Last(p)) /\ Begin(c, p, None)
    BY <1>2 DEF GetDirect
  <2>2. /\ p \in Seq(Servers) /\ Len(p) \in Nat \ {0} /\ p[1] = n /\ Last(p) \in Servers
        /\ \A i \in 1..(Len(p) - 1) : Registered(p[i])
    BY PathFacts DEF Descents
  <2>3. \A i \in 1..Len(p) : Registered(p[i])
    BY <2>1, <2>2 DEF Last
  <2>4. Service!Ask(c, n, Last(p))
    BY <1>0, <2>1, <2>2, <2>3, BeginRefines
  <2> QED
    BY <2>2, <2>4 DEF Service!Next
<1>3. CASE GetTunnelled(c, n)
  <2>1. PICK p \in Descents(n) :
          /\ Len(p) > 1
          /\ Begin(c, SubSeq(p, 1, Len(p) - 1), connection[Last(p)])
    BY <1>3 DEF GetTunnelled
  <2> DEFINE q == SubSeq(p, 1, Len(p) - 1)
  <2>2. /\ p \in Seq(Servers) /\ Len(p) \in Nat \ {0} /\ p[1] = n
        /\ \A i \in 1..(Len(p) - 1) : Registered(p[i])
    BY PathFacts DEF Descents
  <2>3. /\ q \in Seq(Servers) /\ Len(q) = Len(p) - 1 /\ Len(q) > 0
        /\ \A i \in 1..Len(q) : q[i] = p[i]
    BY <2>1, <2>2
  <2>4. q[1] = n /\ \A i \in 1..Len(q) : Registered(q[i])
    BY <2>2, <2>3
  <2>5. Last(q) \in Servers
    BY <2>3 DEF Last
  <2> HIDE DEF q
  <2>6. Begin(c, q, connection[Last(p)])
    BY <2>1 DEF q
  <2>7. Service!Ask(c, n, Last(q))
    BY <1>0, <2>3, <2>4, <2>6, BeginRefines
  <2> QED
    BY <2>5, <2>7 DEF Service!Next
<1>4. CASE GetUnknown(c, n) \/ GetAuthError(c, n) \/ GetCircular(c, n)
  <2>1. \E S, st : Refuse(c, S, st)
    BY <1>4 DEF GetUnknown, GetAuthError, GetCircular
  <2> QED
    BY <1>0, <2>1, AtOnceRefines DEF Service!Next
<1> QED
  BY <1>1, <1>2, <1>3, <1>4 DEF GetConnection

\* A handshake that succeeds gives the service a connection to the hop.
LEMMA EstablishRefines ==
  ASSUME RInv, NEW c \in Callers, Establish(c)
  PROVE  Service!Next
<1> DEFINE v == calls[c].via
           h == Top(c).host
<1>1. PICK k \in Conns \ Opened :
        /\ conns' = [x \in Opened \cup {k} |->
                      IF x = k THEN [server |-> Top(c).name, host |-> h,
                                     via |-> v, state |-> "open"]
                      ELSE conns[x]]
        /\ calls' = [calls EXCEPT ![c].outcome = "up", ![c].conn = k]
  BY DEF Establish
<1>2. /\ calls \in [Callers -> Call] /\ UNCHANGED <<got, pinned>>
      /\ calls[c] \in Call /\ CallOK(c) /\ Busy(c) /\ Top(c) \in Frame
  BY DEF RInv, IInv, TypeOK, CallsOK, CallOK, Establish, Call, Busy, Top
<1>3. /\ askedBar' = askedBar /\ hopBar' = hopBar
      /\ obtainedBar' = [obtainedBar EXCEPT ![c] = k]
  <2> DEFINE x == [calls[c] EXCEPT !.outcome = "up", !.conn = k]
  <2>1. calls' = [calls EXCEPT ![c] = x]
    BY <1>1, <1>2
  <2>2. x.stack = calls[c].stack /\ x.conn = k
    BY <1>2 DEF Call
  <2> HIDE DEF x
  <2>3. Outer(x) = askedBar[c] /\ Inner(x) = hopBar[c]
    BY <1>2, <2>2 DEF Outer, Inner, askedBar, hopBar, Busy, Top
  <2>4. askedBar' = [askedBar EXCEPT ![c] = askedBar[c]]
        /\ hopBar' = [hopBar EXCEPT ![c] = hopBar[c]]
        /\ obtainedBar' = [obtainedBar EXCEPT ![c] = k]
    BY <1>2, <2>1, <2>2, <2>3, CallBars
  <2> QED
    BY <2>4 DEF askedBar, hopBar
<1>4. hopBar[c] = Top(c).name /\ askedBar[c] # None /\ obtainedBar[c] = None
  <2>1. hopBar[c] = Top(c).name
    BY <1>2 DEF hopBar
  <2>2. askedBar[c] # None
    <3>1. calls[c].stack \in Seq(Frame) /\ calls[c].stack # <<>>
      BY <1>2 DEF Call, Busy
    <3>2. Last(calls[c].stack) \in Frame
      BY <3>1 DEF Last
    <3> QED
      BY <1>2, <3>2, PoolAssumption DEF askedBar, Frame
  <2>3. obtainedBar[c] = None
    BY DEF Establish, obtainedBar, RInv, ConnOK
  <2> QED
    BY <2>1, <2>2, <2>3
<1>5. v \in Service!Tunnels(hopBar[c])
  <2>1. CASE Jump[Top(c).name] = None
    BY <1>2, <1>4, <2>1 DEF CallOK, Service!Tunnels
  <2>2. CASE Jump[Top(c).name] # None
    <3>1. v \in Opened /\ conns[v].server = Jump[Top(c).name]
      BY <1>2, <2>2 DEF CallOK
    <3>2. v # None
      BY <3>1, PoolAssumption DEF RInv, IInv, TypeOK
    <3>3. conns[v].state = "open"
      BY <3>2 DEF Establish
    <3> QED
      BY <1>4, <2>2, <3>1, <3>3 DEF Service!Tunnels, Service!Made, Opened
  <2> QED
    BY <2>1, <2>2
<1>6. h \in Hosts
  BY <1>2 DEF Frame
<1>7. conns' = [x \in Service!Made \cup {k} |->
                  IF x = k THEN Service!Connection(hopBar[c], h, v) ELSE conns[x]]
  BY <1>1, <1>4 DEF Service!Made, Service!Connection, Opened
<1>8. k \in Conns /\ k \notin Service!Made
  BY <1>1 DEF Service!Made, Opened
<1>9. UNCHANGED answerBar
  BY <1>2, SameBars
<1>10. Service!Connect(c, k)
  BY <1>2, <1>3, <1>4, <1>5, <1>6, <1>7, <1>8, <1>9 DEF Service!Connect
<1> QED
  BY <1>8, <1>10 DEF Service!Next

\* A failed attempt is not seen by the service before its call is resumed.
LEMMA HandshakeFailsRefines ==
  ASSUME RInv, NEW c \in Callers, NEW o, NEW b, HandshakeFails(c, o, b)
  PROVE  UNCHANGED Service!vars
<1>1. /\ calls \in [Callers -> Call] /\ calls' = [calls EXCEPT ![c].outcome = o]
      /\ UNCHANGED <<got, conns, pinned>>
  BY DEF HandshakeFails, AttemptFails, RInv, IInv, TypeOK
<1>2. \A d \in Callers : calls'[d].stack = calls[d].stack /\ calls'[d].conn = calls[d].conn
  BY <1>1 DEF Call
<1>3. UNCHANGED <<askedBar, hopBar, obtainedBar>>
  BY <1>2 DEF askedBar, hopBar, obtainedBar, Busy, Top
<1> QED
  BY <1>1, <1>3, SameBars DEF Service!vars

\* A call that gets its connection is answered, or goes on to the server that has
\* the hop as its jump host.
LEMMA ResumeUpRefines ==
  ASSUME RInv, NEW c \in Callers, ResumeUp(c)
  PROVE  Service!Deliver(c) \/ Service!NextHop(c)
<1> DEFINE st == calls[c].stack
           k == calls[c].conn
<1>1. /\ calls \in [Callers -> Call] /\ calls[c] \in Call /\ CallOK(c)
      /\ got \in [Callers -> Result \cup {None}]
      /\ st \in Seq(Frame) /\ st # <<>> /\ Top(c) = Head(st)
      /\ calls[c].outcome = "up"
      /\ UNCHANGED <<conns, pinned>>
  BY DEF ResumeUp, FillSlot, RInv, IInv, TypeOK, CallsOK, Call, Busy, Top
<1>2. /\ Len(st) \in Nat \ {0} /\ Head(st) = st[1] /\ Last(st) = st[Len(st)]
      /\ \A i \in 1..Len(st) : st[i] \in Frame /\ st[i].name \in Servers
  BY <1>1, StackFacts DEF Last
<1>3. k \in Opened /\ k \in Conns /\ k # None /\ conns[k].server = st[1].name
  BY <1>1, <1>2, PoolAssumption DEF CallOK, RInv, IInv, TypeOK
<1>4. obtainedBar[c] = k /\ hopBar[c] = st[1].name /\ askedBar[c] = Last(st).name
  BY <1>1, <1>2 DEF obtainedBar, hopBar, askedBar, Busy, Top
<1>5. CASE Len(st) = 1
  <2> DEFINE r == [name |-> Top(c).name, host |-> Top(c).host, conn |-> k]
  <2>1. r \in Result
    BY <1>1, <1>2, <1>3 DEF Result, Frame
  <2>2. r # None /\ r.conn = k
    BY <2>1, NoResult
  <2>3. calls' = [calls EXCEPT ![c] = Idle] /\ got' = [got EXCEPT ![c] = r]
    BY <1>5 DEF ResumeUp, FillSlot
  <2> HIDE DEF r
  <2>4. answerBar' = [answerBar EXCEPT ![c] = k]
    BY <1>1, <2>1, <2>2, <2>3, AnswerBar
  <2>5. Outer(Idle) = None /\ Inner(Idle) = None /\ Idle.conn = None
    BY DEF Outer, Inner, Idle
  <2>6. /\ askedBar' = [askedBar EXCEPT ![c] = Outer(Idle)]
        /\ hopBar' = [hopBar EXCEPT ![c] = Inner(Idle)]
        /\ obtainedBar' = [obtainedBar EXCEPT ![c] = Idle.conn]
    BY <1>1, <2>3, CallBars
  <2>7. Service!Done(c)
    BY <1>1, <2>5, <2>6 DEF Service!Done
  <2>8. Last(st) = st[1]
    BY <1>2, <1>5
  <2> QED
    BY <1>3, <1>4, <2>4, <2>7, <2>8 DEF Service!Deliver
<1>6. CASE Len(st) # 1
  <2> DEFINE new == [stack |-> Tail(st), via |-> k, conn |-> None,
                     outcome |-> "pending"]
  <2>1. calls' = [calls EXCEPT ![c] = new] /\ got' = got
    BY <1>6 DEF ResumeUp, FillSlot
  <2>2. /\ Tail(st) # <<>> /\ Head(Tail(st)) = st[2] /\ Len(Tail(st)) = Len(st) - 1
        /\ \A i \in 1..(Len(st) - 1) : Tail(st)[i] = st[i + 1]
        /\ Len(st) - 1 \in Nat \ {0}
    BY <1>1, <1>6, StackFacts
  <2>3. Last(Tail(st)) = Last(st)
    <3>1. Tail(st)[Len(st) - 1] = st[(Len(st) - 1) + 1]
      BY <2>2
    <3> QED
      BY <1>2, <2>2, <3>1 DEF Last
  <2>4. Outer(new) = askedBar[c] /\ Inner(new) = st[2].name /\ new.conn = None
    BY <1>4, <2>2, <2>3 DEF Outer, Inner
  <2>5. 1 \in 1..(Len(st) - 1) /\ 1 + 1 = 2 /\ 2 \in 1..Len(st)
    <3>1. \A m \in Nat \ {0} : m # 1 => 1 \in 1..(m - 1) /\ 2 \in 1..m
      OBVIOUS
    <3>2. Len(st) \in Nat \ {0} /\ Len(st) # 1
      BY <1>2, <1>6
    <3>3. 1 + 1 = 2
      OBVIOUS
    <3> HIDE DEF st
    <3> QED
      BY <3>1, <3>2, <3>3
  <2>6. Jump[st[2].name] = st[1].name
    BY <1>1, <2>5 DEF CallOK
  <2>7. st[2].name \in Servers
    BY <1>2, <2>5
  <2> HIDE DEF new
  <2>8. /\ askedBar' = [askedBar EXCEPT ![c] = Outer(new)]
        /\ hopBar' = [hopBar EXCEPT ![c] = Inner(new)]
        /\ obtainedBar' = [obtainedBar EXCEPT ![c] = new.conn]
    BY <1>1, <2>1, CallBars
  <2>9. askedBar' = askedBar
    BY <2>4, <2>8 DEF askedBar
  <2>10. UNCHANGED <<answerBar, conns, pinned>>
    BY <1>1, <2>1, SameBars
  <2> QED
    BY <1>3, <1>4, <2>4, <2>6, <2>7, <2>8, <2>9, <2>10 DEF Service!NextHop
<1> QED
  BY <1>5, <1>6

\* An exception ends the call.
LEMMA UnwindRefines ==
  ASSUME RInv, NEW c \in Callers,
         ResumeCaught(c) \/ ResumeEscaped(c) \/ ResumeHostKeyError(c)
  PROVE  Service!Fail(c)
<1>1. /\ calls \in [Callers -> Call] /\ calls' = [calls EXCEPT ![c] = Idle]
      /\ UNCHANGED <<got, conns, pinned>> /\ calls[c].outcome # "none"
  BY DEF ResumeCaught, ResumeEscaped, ResumeHostKeyError, Unwind, RInv, IInv, TypeOK
<1>2. Busy(c) /\ calls[c].stack \in Seq(Frame)
  BY <1>1 DEF RInv, IInv, CallsOK, CallOK, Call
<1>3. Last(calls[c].stack) \in Frame
  BY <1>2 DEF Last, Busy
<1>4. askedBar[c] # None
  BY <1>2, <1>3, PoolAssumption DEF askedBar, Frame
<1>5. Outer(Idle) = None /\ Inner(Idle) = None /\ Idle.conn = None
  BY DEF Outer, Inner, Idle
<1>6. /\ askedBar' = [askedBar EXCEPT ![c] = Outer(Idle)]
      /\ hopBar' = [hopBar EXCEPT ![c] = Inner(Idle)]
      /\ obtainedBar' = [obtainedBar EXCEPT ![c] = Idle.conn]
  BY <1>1, CallBars
<1>7. UNCHANGED answerBar
  BY <1>1, SameBars
<1> QED
  BY <1>1, <1>4, <1>5, <1>6, <1>7 DEF Service!Fail, Service!Done

\* Losses, close, close_all and pins are steps of the service on one connection or
\* on the pins, or are not seen.
LEMMA ClosingRefines ==
  ASSUME RInv,
         \/ \E k \in Conns : ConnectionLost(k)
         \/ CloseAll \/ CloserStep
         \/ \E n \in Servers : CloseName(n) \/ Pin(n) \/ Unpin(n)
  PROVE  Service!Next \/ UNCHANGED Service!vars
<1>0. UNCHANGED <<calls, got>>
  BY DEF ConnectionLost, CloseAll, CloserStep, CloseResume, CloseNext, CloseName,
         CloseStart, Pin, Unpin
<1>1. UNCHANGED Service!callVars
  BY <1>0, SameBars DEF Service!callVars
<1>2. ASSUME NEW k \in Conns, ConnectionLost(k) PROVE Service!Lose(k)
  BY <1>1, <1>2 DEF ConnectionLost, Service!Lose, Service!Made, Opened
<1>3. ASSUME NEW n \in Servers, CloseNext(n)
      PROVE  Service!Next \/ UNCHANGED Service!vars
  <2>1. CASE n \notin pinned /\ connection[n] # None /\ ~IsClosed(connection[n])
    <3> DEFINE k == connection[n]
    <3>1. k \in Opened /\ k \in Conns /\ conns[k].server = n
      BY <2>1 DEF RInv, IInv, ServersNeverMixed, TypeOK
    <3>2. conns' = [conns EXCEPT ![k].state = "closing"] /\ UNCHANGED pinned
      BY <1>3, <2>1 DEF CloseNext, CloseSlot
    <3>3. Service!Shut(k)
      BY <1>1, <2>1, <3>1, <3>2 DEF Service!Shut, Service!Made, Opened, IsClosed
    <3> QED
      BY <3>1, <3>3 DEF Service!Next
  <2>2. CASE n \in pinned \/ connection[n] = None \/ IsClosed(connection[n])
    <3>1. UNCHANGED <<conns, pinned>>
      BY <1>3, <2>2 DEF CloseNext, CloseSlot
    <3> QED
      BY <1>0, <3>1, Stutter
  <2> QED
    BY <2>1, <2>2
<1>4. CASE CloseAll \/ CloseResume \/ \E n \in Servers : CloseName(n)
  <2>1. UNCHANGED <<conns, pinned>>
    BY <1>4 DEF CloseAll, CloseResume, CloseName, CloseStart
  <2> QED
    BY <1>0, <2>1, Stutter
<1>5. ASSUME NEW n \in Servers, Pin(n) \/ Unpin(n) PROVE Service!Keep
  <2>1. pinned' \in SUBSET Servers /\ UNCHANGED conns
    BY <1>5 DEF Pin, Unpin, RInv, IInv, TypeOK
  <2> QED
    BY <1>1, <2>1 DEF Service!Keep
<1> QED
  BY <1>2, <1>3, <1>4, <1>5 DEF CloserStep, Service!Next

---------------------------------------------------------------------------
\* Every step of the pool is a step of the service or a stutter.
LEMMA NextRefines == RInv /\ [Next]_vars => [Service!Next]_(Service!vars)
<1> SUFFICES ASSUME RInv, [Next]_vars PROVE Service!Next \/ UNCHANGED Service!vars
  OBVIOUS
<1>1. CASE \E c \in Callers, n \in Servers : GetConnection(c, n)
  BY <1>1, GetConnectionRefines
<1>2. CASE \E c \in Callers : Resolve(c)
  BY <1>2, EstablishRefines, HandshakeFailsRefines DEF Resolve
<1>3. CASE \E c \in Callers : Resume(c)
  BY <1>3, ResumeUpRefines, UnwindRefines DEF Resume, Service!Next
<1>4. CASE \/ \E k \in Conns : ConnectionLost(k)
           \/ CloseAll \/ CloserStep
           \/ \E n \in Servers : CloseName(n) \/ Pin(n) \/ Unpin(n)
  BY <1>4, ClosingRefines
<1>5. CASE \E n \in Servers : Deregister(n) \/ \E h \in Hosts : Register(n, h)
  BY <1>5, Stutter DEF Deregister, Register
<1>6. CASE UNCHANGED vars
  BY <1>6, Stutter DEF vars
<1> QED
  BY <1>1, <1>2, <1>3, <1>4, <1>5, <1>6 DEF Next

\* The pool implements the service: whatever its callers, the network, close_all
\* and the registry do, its users see only what PoolService allows.
THEOREM PoolImplementsService == Spec => ImplementsService
BY InitRefines, NextRefines, SpecRInv, PTL DEF Spec, ImplementsService, Service!Spec

---------------------------------------------------------------------------
(* The proxies, which pin the connections of the pool.                    *)

\* PinHasCause without the proxies close_all is done with: they stay in the table
\* until clear(), but their pin is gone, and a new pin of the same server is that
\* of another proxy.
PinHasOpenCause ==
  \A s \in pinned :
    \/ \E p \in proxies \ closing.done : p.server = s
    \/ \E t \in Tasks : tasks[t].kind # "none" /\ tasks[t].server = s
    \/ s \in abandoned

\* What close_all has closed stays closed.
DoneIsClosed ==
  /\ listening \cap closing.done = {}
  /\ closing.at \notin listening

\* What close_all has still to unpin: its snapshot and the proxy it waits for.
ToClose == closing.todo \cup ({closing.at} \ {None})

\* Outside of close_all nothing is left of a snapshot.
ClosingOK == ~closing.on => ToClose = {}

\* A call uses server s.
Using(t, s) == tasks[t].kind # "none" /\ tasks[t].server = s

\* Two proxies or calls use the same server only when it was noted as shared.
UsersAlone ==
  /\ \A p, q \in proxies : p.server = q.server => p = q \/ p.server \in shared
  /\ \A t, u \in Tasks, s \in Servers : Using(t, s) /\ Using(u, s) => t = u \/ s \in shared
  /\ \A p \in proxies, t \in Tasks : Using(t, p.server) => p.server \in shared

\* What close_all is going to unpin has no other user: the proxy in the table is the
\* one in the snapshot, the call the one that has popped it.
ClosedAlone ==
  \A c \in ToClose :
    \/ c.server \in shared
    \/ /\ \A p \in proxies : p.server = c.server => p = c
       /\ \A t \in Tasks : Using(t, c.server) => tasks[t].kind = "stop"

\* A start keeps its pin until its proxy is in the table.
StartIsPinned ==
  \A t \in Tasks : tasks[t].kind = "start" =>
    tasks[t].server \in pinned \/ tasks[t].server \in shared

\* The strengthening of OnlySharingUnpins.
UsersInv ==
  /\ ClosingOK
  /\ UsersAlone
  /\ ClosedAlone
  /\ StartIsPinned
  /\ OnlySharingUnpins

\* The inductive invariant.
ProxiesInv ==
  /\ ProxiesTypeOK
  /\ PinHasOpenCause
  /\ DoneIsClosed
  /\ ListenerIsListed
  /\ UsersInv

\* Nothing is pinned and nothing listens at first.
LEMMA ProxiesInitInv == ProxiesInit => ProxiesInv
<1> SUFFICES ASSUME ProxiesInit PROVE ProxiesInv
  OBVIOUS
<1>1. ProxiesTypeOK /\ PinHasOpenCause /\ DoneIsClosed /\ ListenerIsListed
  BY ProxiesAssumption DEF ProxiesInit, ProxiesTypeOK, PinHasOpenCause, DoneIsClosed,
     ListenerIsListed,
     NotClosing, Closing, NoTask, Task
<1>2. UsersInv
  BY ProxiesAssumption DEF ProxiesInit, UsersInv, ClosingOK, UsersAlone, ClosedAlone,
     StartIsPinned,
     OnlySharingUnpins, ToClose, Using, NotClosing, NoTask
<1> QED
  BY <1>1, <1>2 DEF ProxiesInv

\* Each step keeps the types.
LEMMA TypeKept == ASSUME ProxiesTypeOK, [ProxiesNext]_proxiesVars PROVE ProxiesTypeOK'
<1> USE ProxiesAssumption DEF ProxiesTypeOK, NoTask, Task
<1>1. ASSUME NEW t \in Tasks, NEW s \in Servers, StartPinned(t, s) \/ StartRefused(t, s)
      PROVE  ProxiesTypeOK'
  BY <1>1 DEF StartPinned, StartRefused, Uses
<1>2. ASSUME NEW t \in Tasks, NEW i \in Ids, StartDone(t, i)
      PROVE  ProxiesTypeOK'
  <2>1. tasks[t].server \in Servers
    BY <1>2 DEF StartDone
  <2> QED
    BY <1>2, <2>1 DEF StartDone, Proxy
<1>3. ASSUME NEW t \in Tasks, StartFails(t) \/ StopDone(t)
      PROVE  ProxiesTypeOK'
  BY <1>3 DEF StartFails, StopDone
<1>4. ASSUME NEW t \in Tasks, StartCancelled(t)
      PROVE  ProxiesTypeOK'
  BY <1>4 DEF StartCancelled
<1>5. ASSUME NEW t \in Tasks, NEW p \in proxies, StopBegin(t, p)
      PROVE  ProxiesTypeOK'
  <2>1. p.server \in Servers
    BY DEF Proxy
  <2> QED
    BY <1>5, <2>1 DEF StopBegin
<1>6. CASE CloseAllBegin
  BY <1>6 DEF CloseAllBegin, NotClosing, Closing
<1>7. ASSUME NEW p \in closing.todo, CloseAllNext(p)
      PROVE  ProxiesTypeOK'
  BY <1>7 DEF CloseAllNext, Closing
<1>8. CASE CloseAllUnpins
  BY <1>8 DEF CloseAllUnpins, Closing
<1>9. CASE CloseAllEnd
  <2>1. {p.server : p \in proxies \ closing.done} \subseteq Servers
    BY DEF Proxy
  <2> QED
    BY <1>9, <2>1 DEF CloseAllEnd, NotClosing, Closing
<1>10. ASSUME NEW s \in Servers, PoolClose(s) \/ CarrierLost(s)
       PROVE  ProxiesTypeOK'
  BY <1>10 DEF PoolClose, CarrierLost, Down
<1>11. CASE UNCHANGED proxiesVars
  BY <1>11 DEF proxiesVars
<1> QED
  BY <1>1, <1>2, <1>3, <1>4, <1>5, <1>6, <1>7, <1>8, <1>9, <1>10, <1>11 DEF ProxiesNext

\* Each step keeps the cause of every pin: whoever ends a use of a server unpins it,
\* or abandons it.
LEMMA PinsKept == ASSUME ProxiesInv, [ProxiesNext]_proxiesVars PROVE PinHasOpenCause'
<1> USE ProxiesAssumption DEF ProxiesInv, ProxiesTypeOK, PinHasOpenCause
<1>1. ASSUME NEW t \in Tasks, NEW s \in Servers, StartPinned(t, s) \/ StartRefused(t, s)
      PROVE  PinHasOpenCause'
  BY <1>1 DEF StartPinned, StartRefused, NoTask
<1>2. ASSUME NEW t \in Tasks, NEW i \in Ids, StartDone(t, i)
      PROVE  PinHasOpenCause'
  <2> DEFINE p == [id |-> i, server |-> tasks[t].server]
  <2>1. p \notin closing.done
    BY <1>2 DEF StartDone
  <2>2. proxies' = proxies \cup {p} /\ p.server = tasks[t].server
    BY <1>2 DEF StartDone
  <2> HIDE DEF p
  <2> QED
    BY <1>2, <2>1, <2>2 DEF StartDone, NoTask
<1>3. ASSUME NEW t \in Tasks, StartFails(t) \/ StopDone(t)
      PROVE  PinHasOpenCause'
  BY <1>3 DEF StartFails, StopDone
<1>4. ASSUME NEW t \in Tasks, StartCancelled(t)
      PROVE  PinHasOpenCause'
  BY <1>4 DEF StartCancelled
<1>5. ASSUME NEW t \in Tasks, NEW p \in proxies, StopBegin(t, p)
      PROVE  PinHasOpenCause'
  BY <1>5 DEF StopBegin, NoTask
<1>6. CASE CloseAllBegin
  BY <1>6 DEF CloseAllBegin, NotClosing
<1>7. ASSUME NEW p \in closing.todo, CloseAllNext(p)
      PROVE  PinHasOpenCause'
  <2>1. closing'.done = closing.done
    BY <1>7 DEF CloseAllNext, Closing
  <2> QED
    BY <1>7, <2>1 DEF CloseAllNext
<1>8. CASE CloseAllUnpins
  <2>1. closing'.done = closing.done \cup {closing.at}
    BY <1>8 DEF CloseAllUnpins, Closing
  <2> QED
    BY <1>8, <2>1 DEF CloseAllUnpins
<1>9. CASE CloseAllEnd
  BY <1>9 DEF CloseAllEnd
<1>10. ASSUME NEW s \in Servers, PoolClose(s) \/ CarrierLost(s)
       PROVE  PinHasOpenCause'
  BY <1>10 DEF PoolClose, CarrierLost, Down
<1>11. CASE UNCHANGED proxiesVars
  BY <1>11 DEF proxiesVars
<1> QED
  BY <1>1, <1>2, <1>3, <1>4, <1>5, <1>6, <1>7, <1>8, <1>9, <1>10, <1>11 DEF ProxiesNext

\* Each step keeps every open port listed, close_all included, whose clear() drops
\* only what it has closed or abandons.
LEMMA ListenersKept == ASSUME ProxiesInv, [ProxiesNext]_proxiesVars PROVE DoneIsClosed' /\
   ListenerIsListed'
<1> USE ProxiesAssumption DEF ProxiesInv, ProxiesTypeOK, DoneIsClosed, ListenerIsListed
<1> DEFINE Goal == DoneIsClosed' /\ ListenerIsListed'
<1>1. ASSUME NEW t \in Tasks, NEW s \in Servers, StartPinned(t, s) \/ StartRefused(t, s)
      PROVE  Goal
  BY <1>1 DEF StartPinned, StartRefused
<1>2. ASSUME NEW t \in Tasks, NEW i \in Ids, StartDone(t, i)
      PROVE  Goal
  <2> DEFINE p == [id |-> i, server |-> tasks[t].server]
  <2>1. p \notin closing.done /\ closing.at # p
    BY <1>2 DEF StartDone, NoTask, Task, Proxy
  <2>2. proxies' = proxies \cup {p} /\ listening' = listening \cup {p}
    BY <1>2 DEF StartDone
  <2> HIDE DEF p
  <2> QED
    BY <1>2, <2>1, <2>2 DEF StartDone
<1>3. ASSUME NEW t \in Tasks, StartFails(t) \/ StopDone(t)
      PROVE  Goal
  BY <1>3 DEF StartFails, StopDone
<1>4. ASSUME NEW t \in Tasks, StartCancelled(t)
      PROVE  Goal
  BY <1>4 DEF StartCancelled
<1>5. ASSUME NEW t \in Tasks, NEW p \in proxies, StopBegin(t, p)
      PROVE  Goal
  BY <1>5 DEF StopBegin
<1>6. CASE CloseAllBegin
  <2>1. closing'.done = {} /\ closing'.at = None
    BY <1>6 DEF CloseAllBegin, NotClosing
  <2> QED
    BY <1>6, <2>1 DEF CloseAllBegin
<1>7. ASSUME NEW p \in closing.todo, CloseAllNext(p)
      PROVE  Goal
  <2>1. closing'.done = closing.done /\ closing'.at = p
    BY <1>7 DEF CloseAllNext, Closing
  <2> QED
    BY <1>7, <2>1 DEF CloseAllNext
<1>8. CASE CloseAllUnpins
  <2>1. closing'.done = closing.done \cup {closing.at} /\ closing'.at = None
    BY <1>8 DEF CloseAllUnpins, Closing
  <2> QED
    BY <1>8, <2>1 DEF CloseAllUnpins
<1>9. CASE CloseAllEnd
  <2>1. closing'.done = {} /\ closing'.at = None
    BY <1>9 DEF CloseAllEnd, NotClosing
  <2> QED
    BY <1>9, <2>1 DEF CloseAllEnd
<1>10. ASSUME NEW s \in Servers, PoolClose(s) \/ CarrierLost(s)
       PROVE  Goal
  BY <1>10 DEF PoolClose, CarrierLost, Down
<1>11. CASE UNCHANGED proxiesVars
  BY <1>11 DEF proxiesVars
<1> QED
  BY <1>1, <1>2, <1>3, <1>4, <1>5, <1>6, <1>7, <1>8, <1>9, <1>10, <1>11 DEF ProxiesNext

\* A call that begins to use a server leaves its users alone or notes the server as
\* shared.
LEMMA UsersKeptByStart ==
  ASSUME ProxiesInv, NEW t \in Tasks, NEW s \in Servers, StartPinned(t, s) \/
     StartRefused(t, s)
  PROVE  UsersInv'
<1> USE DEF ProxiesInv, UsersInv, Using
<1>1. ToClose' = ToClose
  BY DEF StartPinned, StartRefused, ToClose
<1>2. shared \subseteq shared'
  BY DEF StartPinned, StartRefused, Uses
<1>3. \/ s \in shared'
      \/ /\ \A p \in proxies : p.server # s
         /\ \A u \in Tasks : ~Using(u, s)
         /\ \A c \in ToClose : c.server # s
  BY DEF StartPinned, StartRefused, Uses, Held, ToClose
<1>4. \A u \in Tasks :
        \/ tasks'[u] = tasks[u]
        \/ u = t /\ tasks'[u] = [kind |-> "start", server |-> s] /\ s \in pinned'
  BY DEF StartPinned, StartRefused, ProxiesTypeOK
<1>5. proxies' = proxies /\ closing' = closing /\ pinned \subseteq pinned' \cup {s}
  BY DEF StartPinned, StartRefused
<1>6. ClosingOK'
  BY <1>1, <1>5 DEF ClosingOK
<1>7. UsersAlone'
  BY <1>2, <1>3, <1>4, <1>5 DEF UsersAlone
<1>8. ClosedAlone'
  BY <1>1, <1>2, <1>3, <1>4, <1>5 DEF ClosedAlone
<1>9. StartIsPinned'
  BY <1>2, <1>3, <1>4, <1>5 DEF StartIsPinned
<1>10. OnlySharingUnpins'
  BY <1>2, <1>3, <1>5 DEF OnlySharingUnpins
<1> QED
  BY <1>6, <1>7, <1>8, <1>9, <1>10

\* The new proxy takes the place of the call, and its pin.
LEMMA UsersKeptByDone ==
  ASSUME ProxiesInv, NEW t \in Tasks, NEW i \in Ids, StartDone(t, i)
  PROVE  UsersInv'
<1> USE DEF ProxiesInv, UsersInv, Using
<1> DEFINE p == [id |-> i, server |-> tasks[t].server]
<1>1. proxies' = proxies \cup {p} /\ p.server = tasks[t].server
  BY DEF StartDone
<1> HIDE DEF p
<1>2. ToClose' = ToClose /\ closing' = closing /\ shared' = shared /\ pinned' = pinned
  BY DEF StartDone, ToClose
<1>3. tasks[t].kind = "start"
  BY DEF StartDone
<1>4. \A u \in Tasks : tasks'[u] = IF u = t THEN NoTask ELSE tasks[u]
  BY DEF StartDone, ProxiesTypeOK
<1>5. ClosingOK'
  BY <1>2 DEF ClosingOK
<1>6. UsersAlone'
  <2>1. tasks[t].server \in Servers
    BY <1>3, ProxiesAssumption DEF ProxiesTypeOK, Task, NoTask
  <2> QED
    BY <1>1, <1>2, <1>3, <1>4, <2>1 DEF UsersAlone, NoTask
<1>7. ClosedAlone'
  BY <1>1, <1>2, <1>3, <1>4 DEF ClosedAlone, NoTask
<1>8. StartIsPinned'
  BY <1>2, <1>4 DEF StartIsPinned, NoTask
<1>9. OnlySharingUnpins'
  BY <1>1, <1>2, <1>3 DEF OnlySharingUnpins, StartIsPinned
<1> QED
  BY <1>5, <1>6, <1>7, <1>8, <1>9

\* A call that ends takes away the pin of its own use only.
LEMMA UsersKeptByEnd ==
  ASSUME ProxiesInv, NEW t \in Tasks, StartFails(t) \/ StartCancelled(t) \/ StopDone(t)
  PROVE  UsersInv'
<1> USE DEF ProxiesInv, UsersInv, Using
<1>1. ToClose' = ToClose /\ closing' = closing /\ shared' = shared /\ proxies' = proxies
  BY DEF StartFails, StartCancelled, StopDone, ToClose
<1>2. pinned \subseteq pinned' \cup {tasks[t].server}
  BY DEF StartFails, StartCancelled, StopDone
<1>3. tasks[t].kind # "none"
  BY DEF StartFails, StartCancelled, StopDone
<1>4. \A u \in Tasks : tasks'[u] = IF u = t THEN NoTask ELSE tasks[u]
  BY DEF StartFails, StartCancelled, StopDone, ProxiesTypeOK
<1>5. ClosingOK'
  BY <1>1 DEF ClosingOK
<1>6. UsersAlone'
  BY <1>1, <1>4 DEF UsersAlone, NoTask
<1>7. ClosedAlone'
  BY <1>1, <1>4 DEF ClosedAlone, NoTask
<1>8. StartIsPinned'
  <2> SUFFICES ASSUME NEW u \in Tasks, tasks'[u].kind = "start"
               PROVE  tasks'[u].server \in pinned' \/ tasks'[u].server \in shared
    BY <1>1 DEF StartIsPinned
  <2>1. u # t /\ tasks'[u] = tasks[u]
    BY <1>4 DEF NoTask
  <2>2. tasks[u].server \in Servers
    BY <2>1, ProxiesAssumption DEF ProxiesTypeOK, Task, NoTask
  <2>3. tasks[u].server # tasks[t].server \/ tasks[u].server \in shared
    BY <1>3, <2>1, <2>2 DEF UsersAlone
  <2> QED
    BY <1>2, <2>1, <2>3 DEF StartIsPinned
<1>9. OnlySharingUnpins'
  BY <1>1, <1>2, <1>3 DEF OnlySharingUnpins, UsersAlone
<1> QED
  BY <1>5, <1>6, <1>7, <1>8, <1>9

\* A stop takes the place of the proxy it pops.
LEMMA UsersKeptByStop ==
  ASSUME ProxiesInv, NEW t \in Tasks, NEW p \in proxies, StopBegin(t, p)
  PROVE  UsersInv'
<1> USE DEF ProxiesInv, UsersInv, Using
<1>1. ToClose' = ToClose /\ closing' = closing /\ shared' = shared /\ pinned' = pinned
  BY DEF StopBegin, ToClose
<1>2. proxies' = proxies \ {p}
  BY DEF StopBegin
<1>3. \A u \in Tasks :
        tasks'[u] = IF u = t THEN [kind |-> "stop", server |-> p.server] ELSE tasks[u]
  BY DEF StopBegin, ProxiesTypeOK
<1>4. ClosingOK'
  BY <1>1 DEF ClosingOK
<1>5. UsersAlone'
  BY <1>1, <1>2, <1>3 DEF UsersAlone
<1>6. ClosedAlone'
  BY <1>1, <1>2, <1>3 DEF ClosedAlone
<1>7. StartIsPinned'
  BY <1>1, <1>3 DEF StartIsPinned
<1>8. OnlySharingUnpins'
  BY <1>1, <1>2 DEF OnlySharingUnpins
<1> QED
  BY <1>4, <1>5, <1>6, <1>7, <1>8

\* close_all takes its snapshot of proxies that are alone or shared, closes and unpins
\* them, and clears the table.
LEMMA UsersKeptByCloseAll ==
  ASSUME ProxiesInv,
         CloseAllBegin \/ (\E p \in closing.todo : CloseAllNext(p)) \/ CloseAllUnpins
           \/ CloseAllEnd
  PROVE  UsersInv'
<1> USE ProxiesAssumption DEF ProxiesInv, UsersInv, Using
<1>1. CASE CloseAllBegin
  <2>1. ToClose' = proxies /\ closing'.on
    BY <1>1 DEF CloseAllBegin, NotClosing, ToClose
  <2>2. UNCHANGED <<pinned, proxies, tasks, shared>>
    BY <1>1 DEF CloseAllBegin
  <2> QED
    BY <2>1, <2>2 DEF ClosingOK, UsersAlone, ClosedAlone, StartIsPinned, OnlySharingUnpins
<1>2. ASSUME NEW p \in closing.todo, CloseAllNext(p)
      PROVE  UsersInv'
  <2>1. p \in Proxy
    BY DEF ProxiesTypeOK, Closing
  <2>2. ToClose' = ToClose /\ closing'.on = closing.on
    BY <1>2, <2>1 DEF CloseAllNext, ToClose, ProxiesTypeOK, Closing
  <2>3. UNCHANGED <<pinned, proxies, tasks, shared>>
    BY <1>2 DEF CloseAllNext
  <2> QED
    BY <2>2, <2>3 DEF ClosingOK, UsersAlone, ClosedAlone, StartIsPinned, OnlySharingUnpins
<1>3. CASE CloseAllUnpins
  <2>1. closing.at \in ToClose /\ closing.at # None
    BY <1>3 DEF CloseAllUnpins, ToClose
  <2>2. ToClose' \subseteq ToClose /\ closing'.on = closing.on
    BY <1>3 DEF CloseAllUnpins, ToClose, ProxiesTypeOK, Closing
  <2>3. UNCHANGED <<proxies, tasks, shared>> /\ pinned' = pinned \ {closing.at.server}
    BY <1>3 DEF CloseAllUnpins
  <2>4. closing.on
    BY <2>1 DEF ClosingOK
  <2>5. StartIsPinned'
    <3> SUFFICES ASSUME NEW t \in Tasks, tasks[t].kind = "start"
                 PROVE  tasks[t].server \in pinned' \/ tasks[t].server \in shared
      BY <2>3 DEF StartIsPinned
    <3>1. tasks[t].server # closing.at.server \/ closing.at.server \in shared
      BY <2>1 DEF ClosedAlone
    <3> QED
      BY <2>3, <3>1 DEF StartIsPinned
  <2> QED
    BY <2>2, <2>3, <2>4, <2>5 DEF ClosingOK, UsersAlone, ClosedAlone, OnlySharingUnpins
<1>4. CASE CloseAllEnd
  <2>1. ToClose' = {} /\ proxies' = {}
    BY <1>4 DEF CloseAllEnd, NotClosing, ToClose
  <2>2. UNCHANGED <<pinned, tasks, shared>>
    BY <1>4 DEF CloseAllEnd
  <2> QED
    BY <2>1, <2>2 DEF ClosingOK, UsersAlone, ClosedAlone, StartIsPinned, OnlySharingUnpins
<1> QED
  BY <1>1, <1>2, <1>3, <1>4

\* Each step keeps the users of a server apart that is not shared.
LEMMA UsersKept == ASSUME ProxiesInv, [ProxiesNext]_proxiesVars PROVE UsersInv'
<1>1. ASSUME NEW s \in Servers, PoolClose(s) \/ CarrierLost(s)
      PROVE  UNCHANGED <<pinned, proxies, tasks, closing, shared>>
  BY <1>1 DEF PoolClose, CarrierLost, Down
<1>2. ASSUME UNCHANGED <<pinned, proxies, tasks, closing, shared>>
      PROVE  UsersInv'
  BY <1>2 DEF ProxiesInv, UsersInv, ClosingOK, UsersAlone, ClosedAlone, StartIsPinned,
     OnlySharingUnpins, ToClose, Using
<1> QED
  BY <1>1, <1>2, UsersKeptByStart, UsersKeptByDone, UsersKeptByEnd, UsersKeptByStop,
     UsersKeptByCloseAll DEF ProxiesNext, proxiesVars

\* ProxiesInv is an invariant of Proxies.
THEOREM ProxiesInvariant == ProxiesSpec => []ProxiesInv
<1>1. ProxiesInv /\ [ProxiesNext]_proxiesVars => ProxiesInv'
  BY TypeKept, PinsKept, ListenersKept, UsersKept DEF ProxiesInv
<1> QED
  BY <1>1, ProxiesInitInv, PTL DEF ProxiesSpec

\* Every pin belongs to a proxy that somebody can still release, or was left by a
\* cancelled start or by close_all's clear() (proxy.py, pool.py pin and unpin).
THEOREM ProxiesPinHasCause == ProxiesSpec => []PinHasCause
<1>1. ProxiesInv => PinHasCause
  BY DEF ProxiesInv, PinHasOpenCause, PinHasCause, Held
<1> QED
  BY <1>1, ProxiesInvariant, PTL

\* Every open port belongs to a listed proxy, or to one close_all's clear() dropped.
THEOREM ProxiesListenerIsListed == ProxiesSpec => []ListenerIsListed
<1>1. ProxiesInv => ListenerIsListed
  BY DEF ProxiesInv
<1> QED
  BY <1>1, ProxiesInvariant, PTL

\* Type correctness of the proxy table and the calls.
THEOREM ProxiesTypeCorrect == ProxiesSpec => []ProxiesTypeOK
<1>1. ProxiesInv => ProxiesTypeOK
  BY DEF ProxiesInv
<1> QED
  BY <1>1, ProxiesInvariant, PTL

\* A listed proxy keeps its server pinned, so that close() of the pool skips the
\* connection, unless another proxy or call used the server at the same time
\* (proxy.py, pool.py pin and unpin).
THEOREM ProxiesOnlySharingUnpins == ProxiesSpec => []OnlySharingUnpins
<1>1. ProxiesInv => OnlySharingUnpins
  BY DEF ProxiesInv, UsersInv
<1> QED
  BY <1>1, ProxiesInvariant, PTL
===========================================================================
