-------------------------- MODULE KnownHostsProofs --------------------------
(***************************************************************************)
(* Proofs about KnownHosts for any number of servers, hosts, keys and       *)
(* concurrent calls.                                                         *)
(***************************************************************************)
EXTENDS KnownHosts, FiniteSetTheorems, TLAPS

Recorded(k) == \E l \in file : l.key = k

\* The attempts at host h that will accept any key.
Unverified(h) ==
  {t \in Tasks : task[t] # Idle /\ HostOf[task[t].server] = h /\ ~task[t].verify}

\* Under strict every attempt verifies, and what a verifying attempt has accepted
\* is on record.
TasksOK ==
  \A t \in Tasks : task[t] # Idle =>
    /\ task[t].policy \in Policies[task[t].server]
    /\ task[t].policy = "strict" => task[t].verify
    /\ task[t].verify /\ task[t].key # None => Recorded(task[t].key)

AddedIsRecorded == \A a \in added : Recorded(a.key)

\* The keys a careful host has, and those its unverified attempts may still add.
RoomForFirstUse ==
  \A h \in Hosts : Careful(h) /\ KeysOf(h) # {} =>
    Cardinality(KeysOf(h)) + Cardinality(Unverified(h)) <= Cardinality(Tasks)

IInv ==
  /\ TypeOK
  /\ TasksOK
  /\ PooledKeyIsRecorded
  /\ AddedIsRecorded
  /\ RoomForFirstUse

---------------------------------------------------------------------------
\* The sets that are counted are finite.
LEMMA Counted ==
  ASSUME TypeOK, NEW h
  PROVE  /\ IsFiniteSet(KeysOf(h)) /\ Cardinality(KeysOf(h)) \in Nat
         /\ IsFiniteSet(Unverified(h)) /\ Cardinality(Unverified(h)) \in Nat
         /\ Cardinality(Unverified(h)) <= Cardinality(Tasks)
         /\ Cardinality(Tasks) \in Nat
<1>1. KeysOf(h) \subseteq Keys
  BY DEF KeysOf, TypeOK, Line
<1>2. Unverified(h) \subseteq Tasks
  BY DEF Unverified
<1> QED
  BY <1>1, <1>2, FS_Subset, FS_CardinalityType, KnownHostsAssumption

\* Appending never removes a line, adds at most the line asked for, and adds
\* nothing when the key is on record.
LEMMA AppendedFacts ==
  ASSUME NEW f, NEW h, NEW k
  PROVE  /\ f \subseteq Appended(f, h, k)
         /\ Appended(f, h, k) \subseteq f \cup {[host |-> h, key |-> k]}
         /\ \E l \in Appended(f, h, k) : l.key = k
         /\ (\E l \in f : l.key = k) => Appended(f, h, k) = f
<1> DEFINE new == [host |-> h, key |-> k]
<1>1. new.key = k
  OBVIOUS
<1>2. CASE \E l \in f : l.key = k
  BY <1>2 DEF Appended
<1>3. CASE ~ \E l \in f : l.key = k
  <2>1. Appended(f, h, k) = f \cup {new}
    BY <1>3 DEF Appended
  <2>2. new \in Appended(f, h, k)
    BY <2>1
  <2> QED
    BY <1>1, <1>3, <2>1, <2>2
<1> QED
  BY <1>2, <1>3

\* The host of a registered server is a host.
LEMMA HostsFact == \A s \in Servers : HostOf[s] \in Hosts
BY DEF Hosts

\* The invariant holds before the first connection.
LEMMA InitIInv == Init => IInv
<1> SUFFICES ASSUME Init PROVE IInv
  OBVIOUS
<1> USE DEF Init
<1>1. TypeOK
  BY DEF TypeOK
<1>2. TasksOK /\ PooledKeyIsRecorded /\ AddedIsRecorded
  BY DEF TasksOK, PooledKeyIsRecorded, AddedIsRecorded
<1>3. RoomForFirstUse
  BY DEF RoomForFirstUse, KeysOf
<1> QED
  BY <1>1, <1>2, <1>3 DEF IInv

---------------------------------------------------------------------------
\* RoomForFirstUse at one host.
RoomAt(h) ==
  Careful(h) /\ KeysOf(h) # {} =>
    Cardinality(KeysOf(h)) + Cardinality(Unverified(h)) <= Cardinality(Tasks)

\* A step that leaves the keys of a host alone and starts no attempt there that
\* accepts any key keeps the room at this host.
LEMMA RoomKept ==
  ASSUME TypeOK, TypeOK', NEW h \in Hosts, RoomAt(h), KeysOf(h)' = KeysOf(h),
         Careful(h) /\ KeysOf(h) # {} => Unverified(h)' \subseteq Unverified(h)
  PROVE  RoomAt(h)'
<1> SUFFICES ASSUME Careful(h), KeysOf(h) # {}
             PROVE  Cardinality(KeysOf(h)') + Cardinality(Unverified(h)')
                      <= Cardinality(Tasks)
  BY DEF RoomAt, Careful
<1>1. Cardinality(KeysOf(h)) + Cardinality(Unverified(h)) <= Cardinality(Tasks)
  BY DEF RoomAt
<1>2. /\ IsFiniteSet(Unverified(h)) /\ Cardinality(Unverified(h)) \in Nat
      /\ Cardinality(KeysOf(h)) \in Nat /\ Cardinality(Tasks) \in Nat
  BY Counted
<1>3. Cardinality(Unverified(h)') \in Nat
      /\ Cardinality(Unverified(h)') <= Cardinality(Unverified(h))
  BY <1>2, FS_Subset, FS_CardinalityType
<1> QED
  BY <1>1, <1>2, <1>3

\* get_connection: a host on record is verified, unless any key is accepted.
LEMMA ConnectIInv ==
  ASSUME IInv, NEW t \in Tasks, NEW s \in Servers, NEW add \in BOOLEAN,
         Connect(t, s, add)
  PROVE  IInv'
<1> DEFINE new == [server |-> s, policy |-> policy[s], verify |-> Verifies(s),
                   add |-> add, key |-> None]
<1>1. /\ task' = [task EXCEPT ![t] = new] /\ task[t] = Idle
      /\ UNCHANGED <<policy, file, hostKey, changes, slot, added>>
  BY DEF Connect, Free
<1>2. new \in Attempt /\ policy[s] \in Policies[s]
  BY DEF Attempt, IInv, TypeOK, Verifies, Policy
<1>3. TypeOK'
  BY <1>1, <1>2 DEF IInv, TypeOK
<1>4. task'[t] = new /\ \A u \in Tasks : u # t => task'[u] = task[u]
  BY <1>1 DEF IInv, TypeOK
<1>5. TasksOK'
  BY <1>1, <1>2, <1>4 DEF IInv, TasksOK, Recorded, Verifies
<1>6. PooledKeyIsRecorded' /\ AddedIsRecorded'
  BY <1>1 DEF IInv, PooledKeyIsRecorded, AddedIsRecorded, Recorded
<1>7. ASSUME NEW h \in Hosts, KeysOf(h) # {}, Careful(h)
      PROVE  Unverified(h)' \subseteq Unverified(h)
  <2>1. ASSUME HostOf[s] = h PROVE Verifies(s)
    <3>1. Known(h)
      BY <1>7 DEF KeysOf, Known
    <3>2. policy[s] \in {"strict", "tofu"}
      BY <1>2, <1>7, <2>1 DEF Careful, IInv, TypeOK, Policy
    <3> QED
      BY <2>1, <3>1, <3>2 DEF Verifies
  <2> QED
    BY <1>4, <2>1 DEF Unverified
<1>8. RoomForFirstUse'
  <2> SUFFICES ASSUME NEW h \in Hosts PROVE RoomAt(h)'
    BY DEF RoomForFirstUse, RoomAt
  <2>1. KeysOf(h)' = KeysOf(h)
    BY <1>1 DEF KeysOf
  <2>2. RoomAt(h)
    BY DEF IInv, RoomForFirstUse, RoomAt
  <2> QED
    BY <1>3, <1>7, <2>1, <2>2, RoomKept DEF IInv
<1> QED
  BY <1>3, <1>5, <1>6, <1>8 DEF IInv

---------------------------------------------------------------------------
\* A step that at most ends or advances attempts without changing what they were
\* started with, and leaves the file alone, keeps the room for first uses.
LEMMA RoomUnchanged ==
  ASSUME TypeOK, TypeOK', RoomForFirstUse, file' = file,
         \A t \in Tasks : task'[t] # Idle =>
           task[t] # Idle /\ task'[t].server = task[t].server
                         /\ task'[t].verify = task[t].verify
  PROVE  RoomForFirstUse'
<1> SUFFICES ASSUME NEW h \in Hosts PROVE RoomAt(h)'
  BY DEF RoomForFirstUse, RoomAt
<1>1. KeysOf(h)' = KeysOf(h)
  BY DEF KeysOf
<1>2. RoomAt(h)
  BY DEF RoomForFirstUse, RoomAt
<1>3. Unverified(h)' \subseteq Unverified(h)
  BY DEF Unverified
<1> QED
  BY <1>1, <1>2, <1>3, RoomKept

\* Only attempts have a key.
LEMMA KeyedIsAttempt ==
  ASSUME TypeOK, NEW t \in Tasks, task[t] # Idle
  PROVE  /\ task[t] \in Attempt
         /\ HostOf[task[t].server] \in Hosts
         /\ task[t].key # None => task[t].key \in Keys
BY HostsFact DEF TypeOK, Attempt

\* The handshake: a verified key is one of the file.
LEMMA HandshakeIInv ==
  ASSUME IInv, NEW t \in Tasks, Handshake(t)
  PROVE  IInv'
<1> DEFINE h == HostOf[task[t].server]
           c == [task[t] EXCEPT !.key = hostKey[h]]
<1>1. /\ task[t] # Idle /\ task' = [task EXCEPT ![t] = c]
      /\ Accepts(t) /\ UNCHANGED <<policy, file, hostKey, changes, slot, added>>
  BY DEF Handshake, Free
<1>2. task[t] \in Attempt /\ hostKey[h] \in Keys
  BY <1>1, KeyedIsAttempt DEF IInv, TypeOK
<1>3. /\ c \in Attempt /\ c.server = task[t].server /\ c.verify = task[t].verify
      /\ c.policy = task[t].policy /\ c.key = hostKey[h]
  BY <1>2 DEF Attempt
<1>4. task'[t] = c /\ \A u \in Tasks : u # t => task'[u] = task[u]
  BY <1>1 DEF IInv, TypeOK
<1>5. TypeOK'
  BY <1>1, <1>3 DEF IInv, TypeOK
<1>6. c.verify => Recorded(c.key)
  <2> DEFINE line == [host |-> h, key |-> hostKey[h]]
  <2>1. c.verify => line \in file
    BY <1>1, <1>3 DEF Accepts
  <2>2. line.key = c.key
    BY <1>3
  <2> QED
    BY <2>1, <2>2 DEF Recorded
<1>7. TasksOK'
  BY <1>1, <1>3, <1>4, <1>6 DEF IInv, TasksOK, Recorded
<1>8. PooledKeyIsRecorded' /\ AddedIsRecorded'
  BY <1>1 DEF IInv, PooledKeyIsRecorded, AddedIsRecorded, Recorded
<1>9. RoomForFirstUse'
  BY <1>1, <1>3, <1>4, <1>5, RoomUnchanged DEF IInv
<1> QED
  BY <1>5, <1>7, <1>8, <1>9 DEF IInv

\* A failing attempt is forgotten.
LEMMA FailsIInv ==
  ASSUME IInv, NEW t \in Tasks, Fails(t) \/ ResumeFails(t)
  PROVE  IInv'
<1>1. /\ task' = [task EXCEPT ![t] = Idle]
      /\ UNCHANGED <<policy, file, hostKey, changes, slot, added>>
  BY DEF Fails, ResumeFails
<1>2. task'[t] = Idle /\ \A u \in Tasks : u # t => task'[u] = task[u]
  BY <1>1 DEF IInv, TypeOK
<1>3. TypeOK'
  BY <1>1 DEF IInv, TypeOK
<1>4. TasksOK' /\ PooledKeyIsRecorded' /\ AddedIsRecorded'
  BY <1>1, <1>2 DEF IInv, TasksOK, PooledKeyIsRecorded, AddedIsRecorded, Recorded
<1>5. RoomForFirstUse'
  BY <1>1, <1>2, <1>3, RoomUnchanged DEF IInv
<1> QED
  BY <1>3, <1>4, <1>5 DEF IInv

---------------------------------------------------------------------------
\* What a completed connect writes: at most its own line, and nothing when its key
\* is on record; an attempt that verified finds its key on record.
LEMMA ResumeWrites ==
  ASSUME IInv, NEW t \in Tasks, Resume(t)
  PROVE  LET c == task[t]
             line == [host |-> HostOf[c.server], key |-> c.key]
         IN  /\ file \subseteq file' /\ file' \subseteq file \cup {line}
             /\ \E l \in file' : l.key = c.key
             /\ Recorded(c.key) \/ c.verify => file' = file
             /\ added' \subseteq added \cup {line}
<1> DEFINE c == task[t]
           h == HostOf[c.server]
           line == [host |-> h, key |-> c.key]
           f == Remembered(c)
<1>1. c # Idle /\ c \in Attempt
  BY KeyedIsAttempt DEF Resume, Idle, IInv
<1>2. c.policy = "strict" => c.verify
  BY <1>1 DEF IInv, TasksOK
<1>3. c.verify => Recorded(c.key)
  BY <1>1 DEF IInv, TasksOK, Resume
<1>4. f = Appended(file, h, c.key) \/ (c.policy = "strict" /\ f = file)
  BY <1>1 DEF Remembered, Attempt, Policy
<1>5. /\ file' = Appended(f, h, c.key) \/ file' = f
      /\ added' \subseteq added \cup {line}
  BY DEF Resume, Add
<1>6. /\ file \subseteq f /\ f \subseteq file \cup {line}
      /\ \E l \in f : l.key = c.key
      /\ Recorded(c.key) => f = file
  BY <1>2, <1>3, <1>4, AppendedFacts DEF Recorded
<1>7. file' = f
  BY <1>5, <1>6, AppendedFacts
<1> QED
  BY <1>3, <1>5, <1>6, <1>7 DEF Recorded

\* A connect that completes keeps the room for first uses: it adds a key only when
\* its own attempt, which is over now, did not verify.
LEMMA ResumeRoom ==
  ASSUME IInv, TypeOK', NEW t \in Tasks, Resume(t)
  PROVE  RoomForFirstUse'
<1> DEFINE c == task[t]
           h == HostOf[c.server]
           line == [host |-> h, key |-> c.key]
<1>1. c # Idle /\ c \in Attempt
  BY KeyedIsAttempt DEF Resume, Idle, IInv
<1>2. task'[t] = Idle /\ \A u \in Tasks : u # t => task'[u] = task[u]
  BY DEF Resume, IInv, TypeOK
<1>3. /\ file \subseteq file' /\ file' \subseteq file \cup {line}
      /\ c.verify => file' = file
  BY ResumeWrites
<1> SUFFICES ASSUME NEW g \in Hosts PROVE RoomAt(g)'
  BY DEF RoomForFirstUse, RoomAt
<1>4. RoomAt(g)
  BY DEF IInv, RoomForFirstUse, RoomAt
<1>5. Unverified(g)' \subseteq Unverified(g) \ {t}
  BY <1>2 DEF Unverified
<1>6. CASE g # h \/ c.verify
  <2>1. line.host = h
    OBVIOUS
  <2>2. KeysOf(g)' = KeysOf(g)
    BY <1>3, <1>6, <2>1 DEF KeysOf
  <2> QED
    BY <1>4, <1>5, <2>2, RoomKept DEF IInv
<1>7. CASE g = h /\ ~c.verify
  <2> SUFFICES ASSUME Careful(g)
               PROVE  Cardinality(KeysOf(g)') + Cardinality(Unverified(g)')
                        <= Cardinality(Tasks)
    BY DEF RoomAt, Careful
  <2>1. KeysOf(g)' \subseteq KeysOf(g) \cup {c.key}
    BY <1>3 DEF KeysOf
  <2>2. /\ IsFiniteSet(KeysOf(g)) /\ Cardinality(KeysOf(g)) \in Nat
        /\ IsFiniteSet(Unverified(g)) /\ Cardinality(Unverified(g)) \in Nat
        /\ IsFiniteSet(Tasks) /\ Cardinality(Tasks) \in Nat
    BY Counted, KnownHostsAssumption DEF IInv
  <2>3. /\ Cardinality(KeysOf(g)') \in Nat
        /\ Cardinality(KeysOf(g)') <= Cardinality(KeysOf(g)) + 1
    <3>1. /\ IsFiniteSet(KeysOf(g) \cup {c.key})
          /\ Cardinality(KeysOf(g) \cup {c.key}) \in Nat
          /\ Cardinality(KeysOf(g) \cup {c.key}) <= Cardinality(KeysOf(g)) + 1
      <4> DEFINE K == KeysOf(g)
      <4> HIDE DEF K
      <4>1. IsFiniteSet(K) /\ Cardinality(K) \in Nat
        BY <2>2 DEF K
      <4>2. IsFiniteSet(K \cup {c.key})
        BY <4>1, FS_AddElement
      <4>3. Cardinality(K \cup {c.key}) \in {Cardinality(K), Cardinality(K) + 1}
        BY <4>1, FS_AddElement
      <4> QED
        BY <4>1, <4>2, <4>3 DEF K
    <3>2. /\ IsFiniteSet(KeysOf(g)')
          /\ Cardinality(KeysOf(g)') <= Cardinality(KeysOf(g) \cup {c.key})
      BY <2>1, <3>1, FS_Subset
    <3>3. Cardinality(KeysOf(g)') \in Nat
      BY <3>2, FS_CardinalityType
    <3> QED
      BY <2>2, <3>1, <3>2, <3>3
  <2>4. t \in Unverified(g)
    BY <1>1, <1>7 DEF Unverified
  <2>5. /\ Cardinality(Unverified(g)') \in Nat
        /\ Cardinality(Unverified(g)') <= Cardinality(Unverified(g)) - 1
    <3>1. /\ IsFiniteSet(Unverified(g) \ {t})
          /\ Cardinality(Unverified(g) \ {t}) = Cardinality(Unverified(g)) - 1
      BY <2>2, <2>4, FS_RemoveElement
    <3>2. /\ IsFiniteSet(Unverified(g)')
          /\ Cardinality(Unverified(g)') <= Cardinality(Unverified(g) \ {t})
      BY <1>5, <3>1, FS_Subset
    <3>3. Cardinality(Unverified(g)') \in Nat
      BY <3>2, FS_CardinalityType
    <3> QED
      BY <3>1, <3>2, <3>3
  <2>6. CASE KeysOf(g) # {}
    <3>1. Cardinality(KeysOf(g)) + Cardinality(Unverified(g)) <= Cardinality(Tasks)
      BY <1>4, <2>6 DEF RoomAt
    <3> QED
      BY <2>2, <2>3, <2>5, <3>1
  <2>7. CASE KeysOf(g) = {}
    <3>1. Cardinality(KeysOf(g)) = 0
      BY <2>7, FS_EmptySet
    <3>2. Cardinality(Unverified(g)) <= Cardinality(Tasks)
      BY Counted DEF IInv
    <3> QED
      BY <2>2, <2>3, <2>5, <3>1, <3>2
  <2> QED
    BY <2>6, <2>7
<1> QED
  BY <1>6, <1>7

\* The connection is pooled: its key is on record by then.
LEMMA ResumeIInv ==
  ASSUME IInv, NEW t \in Tasks, Resume(t)
  PROVE  IInv'
<1> DEFINE c == task[t]
           line == [host |-> HostOf[c.server], key |-> c.key]
<1>1. /\ c \in Attempt /\ HostOf[c.server] \in Hosts /\ c.key \in Keys
  BY KeyedIsAttempt DEF Resume, Idle, IInv
<1>2. /\ file \subseteq file' /\ file' \subseteq file \cup {line}
      /\ (\E l \in file' : l.key = c.key) /\ added' \subseteq added \cup {line}
  BY ResumeWrites
<1>3. /\ slot' = [slot EXCEPT ![c.server] = c.key] /\ task' = [task EXCEPT ![t] = Idle]
      /\ UNCHANGED <<policy, hostKey, changes>>
  BY DEF Resume
<1>4. line \in Line /\ line.key = c.key
  BY <1>1 DEF Line
<1>5. TypeOK'
  BY <1>1, <1>2, <1>3, <1>4 DEF IInv, TypeOK, Attempt
<1>6. task'[t] = Idle /\ \A u \in Tasks : u # t => task'[u] = task[u]
  BY <1>3 DEF IInv, TypeOK
<1>7. TasksOK'
  BY <1>2, <1>6 DEF IInv, TasksOK, Recorded
<1>8. PooledKeyIsRecorded'
  <2>1. \A s \in Servers : slot'[s] = slot[s] \/ slot'[s] = c.key
    BY <1>3 DEF IInv, TypeOK
  <2> QED
    BY <1>2, <2>1 DEF IInv, PooledKeyIsRecorded
<1>9. AddedIsRecorded'
  <2>1. \A a \in added' : a \in added \/ a.key = c.key
    BY <1>2, <1>4
  <2> QED
    BY <1>2, <2>1 DEF IInv, AddedIsRecorded, Recorded
<1>10. RoomForFirstUse'
  BY <1>5, ResumeRoom
<1> QED
  BY <1>5, <1>7, <1>8, <1>9, <1>10 DEF IInv

---------------------------------------------------------------------------
\* ssh_add_known_host of a pooled connection: its key is on record already, so the
\* file stays as it is.
LEMMA AddPooledIInv ==
  ASSUME IInv, NEW s \in Servers, AddPooled(s)
  PROVE  IInv'
<1> DEFINE line == [host |-> HostOf[s], key |-> slot[s]]
<1>1. slot[s] \in Keys /\ Recorded(slot[s])
  BY DEF AddPooled, IInv, TypeOK, PooledKeyIsRecorded, Recorded
<1>2. /\ file' = file /\ added' = added \cup {line}
      /\ UNCHANGED <<policy, hostKey, changes, task, slot>>
  BY <1>1, AppendedFacts DEF AddPooled, Add, Recorded
<1>3. line \in Line /\ line.key = slot[s]
  BY <1>1, HostsFact DEF Line
<1>4. TypeOK'
  BY <1>2, <1>3 DEF IInv, TypeOK
<1>5. TasksOK' /\ PooledKeyIsRecorded'
  BY <1>2 DEF IInv, TasksOK, PooledKeyIsRecorded, Recorded
<1>6. AddedIsRecorded'
  BY <1>1, <1>2, <1>3 DEF IInv, AddedIsRecorded, Recorded
<1>7. RoomForFirstUse'
  BY <1>2, <1>4, RoomUnchanged DEF IInv
<1> QED
  BY <1>4, <1>5, <1>6, <1>7 DEF IInv

\* Lost connections, reinstalled machines and changes of policy leave attempts and
\* file alone.
LEMMA EnvironmentIInv ==
  ASSUME IInv,
         \/ \E s \in Servers : Lost(s)
         \/ \E h \in Hosts, k \in Keys : Reinstall(h, k)
         \/ \E s \in Servers : \E p \in Policies[s] : SetPolicy(s, p)
  PROVE  IInv'
<1>1. UNCHANGED <<file, task, added>>
  BY DEF Lost, Reinstall, SetPolicy
<1>2. \A s \in Servers : slot'[s] = slot[s] \/ slot'[s] = None
  BY DEF Lost, Reinstall, SetPolicy, IInv, TypeOK
<1>3. TypeOK'
  <2>1. CASE \E s \in Servers : Lost(s)
    BY <2>1 DEF Lost, IInv, TypeOK
  <2>2. CASE \E h \in Hosts, k \in Keys : Reinstall(h, k)
    BY <2>2 DEF Reinstall, IInv, TypeOK
  <2>3. CASE \E s \in Servers : \E p \in Policies[s] : SetPolicy(s, p)
    <3> PICK s \in Servers : \E p \in Policies[s] : SetPolicy(s, p)
      BY <2>3
    <3>1. PICK p \in Policies[s] : SetPolicy(s, p)
      OBVIOUS
    <3>2. p \in Policy
      BY KnownHostsAssumption
    <3> QED
      BY <3>1, <3>2 DEF SetPolicy, IInv, TypeOK
  <2> QED
    BY <2>1, <2>2, <2>3
<1>4. TasksOK' /\ PooledKeyIsRecorded' /\ AddedIsRecorded'
  BY <1>1, <1>2 DEF IInv, TasksOK, PooledKeyIsRecorded, AddedIsRecorded, Recorded
<1>5. RoomForFirstUse'
  BY <1>1, <1>3, RoomUnchanged DEF IInv
<1> QED
  BY <1>3, <1>4, <1>5 DEF IInv

\* Every step keeps the invariant.
LEMMA NextIInv == IInv /\ [Next]_vars => IInv'
<1> SUFFICES ASSUME IInv, [Next]_vars PROVE IInv'
  OBVIOUS
<1>1. ASSUME NEW t \in Tasks, NEW s \in Servers, NEW add \in BOOLEAN, Connect(t, s, add)
      PROVE  IInv'
  BY <1>1, ConnectIInv
<1>2. ASSUME NEW s \in Servers, AddPooled(s) PROVE IInv'
  BY <1>2, AddPooledIInv
<1>3. ASSUME NEW t \in Tasks, Handshake(t) PROVE IInv'
  BY <1>3, HandshakeIInv
<1>4. ASSUME NEW t \in Tasks, Fails(t) \/ ResumeFails(t) PROVE IInv'
  BY <1>4, FailsIInv
<1>5. ASSUME NEW t \in Tasks, Resume(t) PROVE IInv'
  BY <1>5, ResumeIInv
<1>6. CASE \/ \E s \in Servers : Lost(s)
           \/ \E h \in Hosts, k \in Keys : Reinstall(h, k)
           \/ \E s \in Servers : \E p \in Policies[s] : SetPolicy(s, p)
  BY <1>6, EnvironmentIInv
<1>7. CASE UNCHANGED vars
  BY <1>7 DEF vars, IInv, TypeOK, TasksOK, PooledKeyIsRecorded, AddedIsRecorded,
              Recorded, RoomForFirstUse, KeysOf, Unverified, Careful
<1> QED
  BY <1>1, <1>2, <1>3, <1>4, <1>5, <1>6, <1>7 DEF Next

\* The invariant holds in every reachable state.
LEMMA SpecIInv == Spec => []IInv
BY InitIInv, NextIInv, PTL DEF Spec

---------------------------------------------------------------------------
\* Policies, known_hosts, attempts and pooled connections keep their types.
THEOREM KnownHostsTypeCorrect == Spec => []TypeOK
<1>1. IInv => TypeOK
  BY DEF IInv
<1> QED
  BY <1>1, SpecIInv, PTL

\* The key of every pooled connection is on record in known_hosts (pool.py,
\* _connect), for any policies, overlaps and changes of keys.
THEOREM PooledKeysRecorded == Spec => []PooledKeyIsRecorded
<1>1. IInv => PooledKeyIsRecorded
  BY DEF IInv
<1> QED
  BY <1>1, SpecIInv, PTL

\* A host that is never connected to with accept_new gets no more keys than calls
\* can be in their first connect at the same time (pool.py, _resolve_known_hosts).
THEOREM FirstUseBounded == Spec => []FirstUseOnly
<1>1. IInv => FirstUseOnly
  <2> SUFFICES ASSUME IInv, NEW h \in Hosts, Careful(h)
               PROVE  Cardinality(KeysOf(h)) <= Cardinality(Tasks)
    BY DEF FirstUseOnly
  <2>1. /\ Cardinality(KeysOf(h)) \in Nat /\ Cardinality(Unverified(h)) \in Nat
        /\ Cardinality(Tasks) \in Nat
    BY Counted DEF IInv
  <2>2. CASE KeysOf(h) # {}
    <3>1. Cardinality(KeysOf(h)) + Cardinality(Unverified(h)) <= Cardinality(Tasks)
      BY <2>2 DEF IInv, RoomForFirstUse
    <3> QED
      BY <2>1, <3>1
  <2>3. CASE KeysOf(h) = {}
    BY <2>1, <2>3, FS_EmptySet
  <2> QED
    BY <2>2, <2>3
<1> QED
  BY <1>1, SpecIInv, PTL

\* Whatever ssh_add_known_host has answered for is found in known_hosts, or its key
\* stands there for another host (registry_tools.py, ssh_add_known_host).
THEOREM AddedStaysVerifiable == Spec => []AddedIsVerifiable
<1>1. IInv => AddedIsVerifiable
  <2> SUFFICES ASSUME IInv, NEW a \in added
               PROVE  a \in file \/ \E l \in file : l.key = a.key /\ l.host # a.host
    BY DEF AddedIsVerifiable
  <2>1. PICK l \in file : l.key = a.key
    BY DEF IInv, AddedIsRecorded, Recorded
  <2>2. l \in Line /\ a \in Line
    BY <2>1 DEF IInv, TypeOK
  <2>3. l.host = a.host => l = a
    BY <2>1, <2>2 DEF Line
  <2> QED
    BY <2>1, <2>3
<1> QED
  BY <1>1, SpecIInv, PTL
===========================================================================
