----------------------------- MODULE PtyProofs -----------------------------
(***************************************************************************)
(* Safety of PTY sessions and of the output of one of them: first of        *)
(* PtySessions, for every number of servers, sessions, caps and overlapping  *)
(* start_pty calls, then of Pty, for chunks, deques and reads of every size. *)
(***************************************************************************)
EXTENDS Pty, Integers, FiniteSetTheorems, SequenceTheorems, WellFoundedInduction, TLAPS

\* While the MCP server is down nothing of it is left.
DownIsEmpty == ~Up => handles = {} /\ \A t \in Starts : starts[t] = None

\* The inductive invariant.
IInv ==
  /\ TypeOK
  /\ DownIsEmpty
  /\ CapOvershootBounded
  /\ CountedIsHandled
  /\ ReturnedIsRemembered

\* One more element adds at most one to the cardinality, whether or not it was
\* there before.
LEMMA CardinalityAddAtMostOne ==
  ASSUME NEW S, IsFiniteSet(S), NEW x
  PROVE  Cardinality(S \cup {x}) <= Cardinality(S) + 1
<1>1. Cardinality(S) \in Nat
  BY FS_CardinalityType
<1>2. Cardinality(S \cup {x}) = IF x \in S THEN Cardinality(S) ELSE Cardinality(S) + 1
  BY FS_AddElement
<1> QED
  BY <1>1, <1>2

\* The sets the cap is about are finite, for every server.
LEMMA CapSetsFinite ==
  ASSUME NEW s
  PROVE  /\ IsFiniteSet(Running(s)) /\ Cardinality(Running(s)) \in Nat
         /\ IsFiniteSet(InFlight(s)) /\ Cardinality(InFlight(s)) \in Nat
         /\ Cardinality(InFlight(s)) <= Cardinality(Starts)
         /\ Cardinality(Starts) \in Nat
<1>1. Running(s) \in SUBSET Sessions /\ InFlight(s) \in SUBSET Starts
  BY DEF Running, InFlight
<1>2. IsFiniteSet(Sessions) /\ IsFiniteSet(Starts)
  BY PtySessionsAssumption
<1>3. IsFiniteSet(Running(s)) /\ IsFiniteSet(InFlight(s))
  BY <1>1, <1>2, FS_Subset
<1>4. Cardinality(InFlight(s)) <= Cardinality(Starts)
  BY <1>1, <1>2, FS_Subset
<1> QED
  BY <1>2, <1>3, <1>4, FS_CardinalityType

\* The same sets after a step.
LEMMA CapSetsFinitePrime ==
  ASSUME NEW s
  PROVE  /\ IsFiniteSet(Running(s)') /\ Cardinality(Running(s)') \in Nat
         /\ IsFiniteSet(InFlight(s)') /\ Cardinality(InFlight(s)') \in Nat
         /\ Cardinality(InFlight(s)') <= Cardinality(Starts)
<1>1. Running(s)' \in SUBSET Sessions /\ InFlight(s)' \in SUBSET Starts
  BY DEF Running, InFlight
<1>2. IsFiniteSet(Sessions) /\ IsFiniteSet(Starts)
  BY PtySessionsAssumption
<1>3. IsFiniteSet(Running(s)') /\ IsFiniteSet(InFlight(s)')
  BY <1>1, <1>2, FS_Subset
<1>4. Cardinality(InFlight(s)') <= Cardinality(Starts)
  BY <1>1, <1>2, FS_Subset
<1> QED
  BY <1>3, <1>4, FS_CardinalityType

\* A step that adds no counted session and no call keeps the bound.
LEMMA CapKept ==
  ASSUME CapOvershootBounded,
         \A s \in Servers : /\ Running(s)' \subseteq Running(s)
                            /\ InFlight(s)' \subseteq InFlight(s)
  PROVE  CapOvershootBounded'
<1> SUFFICES ASSUME NEW s \in Servers
             PROVE  Cardinality(Running(s)') + Cardinality(InFlight(s)')
                      < Limit[s] + Cardinality(Starts)
  BY DEF CapOvershootBounded
<1>1. Cardinality(Running(s)') <= Cardinality(Running(s))
  BY CapSetsFinite, FS_Subset
<1>2. Cardinality(InFlight(s)') <= Cardinality(InFlight(s))
  BY CapSetsFinite, FS_Subset
<1>3. Cardinality(Running(s)) + Cardinality(InFlight(s)) < Limit[s] + Cardinality(Starts)
  BY DEF CapOvershootBounded
<1>4. Limit[s] \in Nat
  BY PtySessionsAssumption
<1> QED
  BY <1>1, <1>2, <1>3, <1>4, CapSetsFinite, CapSetsFinitePrime

\* No session counts at first.
LEMMA InitIInv == Init => IInv
<1> SUFFICES ASSUME Init PROVE IInv
  OBVIOUS
<1> USE PtySessionsAssumption, NoneAssumption
<1>1. records = [i \in Sessions |-> None]
  BY DEF Init
<1>2. Up
  BY <1>1 DEF Up
<1>3. TypeOK
  BY DEF Init, TypeOK
<1>4. DownIsEmpty
  BY <1>2 DEF DownIsEmpty
<1>5. \A s \in Servers : Running(s) = {} /\ InFlight(s) = {}
  BY <1>1 DEF Init, Running, InFlight
<1>6. CapOvershootBounded
  <2> SUFFICES ASSUME NEW s \in Servers
               PROVE  Cardinality(Running(s)) + Cardinality(InFlight(s))
                        < Limit[s] + Cardinality(Starts)
    BY DEF CapOvershootBounded
  <2>1. Cardinality(Running(s)) = 0 /\ Cardinality(InFlight(s)) = 0
    BY <1>5, FS_EmptySet
  <2>2. Cardinality(Starts) # 0
    BY FS_EmptySet
  <2>3. Cardinality(Starts) \in Nat
    BY CapSetsFinite
  <2>4. Limit[s] \in Nat
    OBVIOUS
  <2> QED
    BY <2>1, <2>2, <2>3, <2>4
<1>7. CountedIsHandled
  BY <1>5 DEF Init, CountedIsHandled
<1>8. ReturnedIsRemembered
  BY DEF Init, ReturnedIsRemembered
<1> QED
  BY <1>3, <1>4, <1>6, <1>7, <1>8 DEF IInv

\* What upsert_session does to the tables.
LEMMA UpsertEffect ==
  ASSUME TypeOK, Up, NEW i \in Sessions, NEW rec \in Record,
         NEW persisted \in BOOLEAN, Upsert(i, rec, persisted)
  PROVE  /\ records' \in [Sessions -> Record \cup {None}]
         /\ Up'
         /\ file' \in [Sessions -> Record \cup {None}]
         /\ \A j \in Sessions : records'[j] = IF j = i THEN rec ELSE records[j]
         /\ persisted => file' = records'
         /\ ~persisted => file' = file
<1>1. records \in [Sessions -> Record \cup {None}]
  BY DEF TypeOK
<1>2. records' = [records EXCEPT ![i] = rec]
  BY DEF Upsert
<1>3. records' \in [Sessions -> Record \cup {None}]
  BY <1>1, <1>2
<1>4. Up'
  BY <1>3, NoneAssumption DEF Up
<1> QED
  BY <1>1, <1>2, <1>3, <1>4 DEF Upsert, TypeOK

\* The call that passes the check leaves room for itself.
LEMMA StartCheckedKeeps ==
  ASSUME IInv, NEW t \in Starts, NEW i \in Sessions, NEW s \in Servers,
         StartChecked(t, i, s)
  PROVE  IInv'
<1> USE DEF IInv
<1>0. starts' \in [Starts -> Start \cup {None}]
  BY DEF StartChecked, TypeOK, Start
<1>1. TypeOK'
  BY <1>0 DEF StartChecked, TypeOK, Up
<1>2. DownIsEmpty'
  BY DEF StartChecked, DownIsEmpty, Up
<1>3. CapOvershootBounded'
  <2> SUFFICES ASSUME NEW r \in Servers
               PROVE  Cardinality(Running(r)') + Cardinality(InFlight(r)')
                        < Limit[r] + Cardinality(Starts)
    BY DEF CapOvershootBounded
  <2>1. Running(r)' = Running(r)
    BY DEF StartChecked, Running, Up
  <2>2. Limit[r] \in Nat
    BY PtySessionsAssumption
  <2>3. CASE r = s
    <3>1. Cardinality(Running(r)) < Limit[r]
      BY <2>3 DEF StartChecked, BelowCap
    <3> QED
      BY <2>1, <2>2, <3>1, CapSetsFinite, CapSetsFinitePrime
  <2>4. CASE r # s
    <3>1. InFlight(r)' = InFlight(r)
      BY <2>4, NoneAssumption DEF StartChecked, InFlight, TypeOK
    <3> QED
      BY <2>1, <3>1 DEF CapOvershootBounded
  <2> QED
    BY <2>3, <2>4
<1>4. CountedIsHandled'
  BY DEF StartChecked, CountedIsHandled, Running, Up
<1>5. ReturnedIsRemembered'
  BY DEF StartChecked, ReturnedIsRemembered, Up
<1> QED
  BY <1>1, <1>2, <1>3, <1>4, <1>5

\* What happens on the remote host changes no count.
LEMMA LaunchedKeeps ==
  ASSUME IInv, NEW t \in Starts, Launched(t)
  PROVE  IInv'
<1> USE DEF IInv
<1>0. starts[t] \in Start
  BY DEF Launched, TypeOK
<1>1. starts' = [starts EXCEPT ![t] = [starts[t] EXCEPT !.at = "launched"]]
  BY DEF Launched
<1>2. [starts[t] EXCEPT !.at = "launched"] \in Start
  BY <1>0 DEF Start
<1>3. starts' \in [Starts -> Start \cup {None}]
  BY <1>1, <1>2 DEF TypeOK
<1>4. TypeOK'
  BY <1>3, <1>0 DEF Launched, TypeOK, Up, Start
<1>5. DownIsEmpty'
  BY DEF Launched, DownIsEmpty, Up
<1>6. \A s \in Servers : Running(s)' = Running(s)
  BY DEF Launched, Running, Up
<1>7. \A s \in Servers : InFlight(s)' \subseteq InFlight(s)
  BY <1>0, <1>1, NoneAssumption DEF Launched, InFlight, TypeOK, Start
<1>8. CapOvershootBounded'
  BY <1>6, <1>7, CapKept
<1>9. CountedIsHandled'
  BY DEF Launched, CountedIsHandled, Running, Up
<1>10. ReturnedIsRemembered'
  BY DEF Launched, ReturnedIsRemembered, Up
<1> QED
  BY <1>4, <1>5, <1>8, <1>9, <1>10

\* The call that ends makes room for the session it adds.
LEMMA StartDoneKeeps ==
  ASSUME IInv, NEW t \in Starts, NEW persisted \in BOOLEAN, StartDone(t, persisted)
  PROVE  IInv'
<1> USE DEF IInv
<1>0. starts[t] \in Start
  BY DEF StartDone, TypeOK
<1>1. PICK i \in Sessions, r \in Servers : i = starts[t].id /\ r = starts[t].server
  BY <1>0 DEF Start
<1> DEFINE rec == [server |-> r, status |-> "running"]
<1>2. rec \in Record
  BY DEF Record
<1>3. Up
  BY DEF StartDone, DownIsEmpty
<1>4. Upsert(i, rec, persisted)
  BY <1>1 DEF StartDone
<1> HIDE DEF rec
<1>5. /\ records' \in [Sessions -> Record \cup {None}]
      /\ Up'
      /\ file' \in [Sessions -> Record \cup {None}]
      /\ \A j \in Sessions : records'[j] = IF j = i THEN rec ELSE records[j]
      /\ persisted => file' = records'
      /\ ~persisted => file' = file
  BY <1>2, <1>3, <1>4, UpsertEffect
<1>6. rec # None /\ rec.server = r /\ rec.status = "running"
  BY <1>2, NoneAssumption DEF rec
<1>7. TypeOK'
  BY <1>1, <1>5 DEF StartDone, TypeOK
<1>8. DownIsEmpty'
  BY <1>5 DEF DownIsEmpty
<1>9. \A s \in Servers : Running(s)' \subseteq IF s = r THEN Running(s) \cup {i} ELSE Running(s)
  BY <1>3, <1>5, <1>6 DEF Running
<1>10. \A s \in Servers : Running(s) \ {i} \subseteq Running(s)'
  BY <1>3, <1>5 DEF Running
<1>11. i \in Running(r)'
  BY <1>2, <1>5, <1>6 DEF Running
<1>12. \A s \in Servers : InFlight(s)' = InFlight(s) \ {t}
  <2>1. starts' = [starts EXCEPT ![t] = None]
    BY DEF StartDone
  <2>2. \A u \in Starts : starts'[u] = IF u = t THEN None ELSE starts[u]
    BY <2>1 DEF TypeOK
  <2> QED
    BY <2>2 DEF InFlight
<1>13. t \in InFlight(r)
  BY <1>1 DEF StartDone, InFlight
<1>14. CapOvershootBounded'
  <2> SUFFICES ASSUME NEW s \in Servers
               PROVE  Cardinality(Running(s)') + Cardinality(InFlight(s)')
                        < Limit[s] + Cardinality(Starts)
    BY DEF CapOvershootBounded
  <2>1. Limit[s] \in Nat
    BY PtySessionsAssumption
  <2>2. Cardinality(Running(s)) + Cardinality(InFlight(s)) < Limit[s] + Cardinality(Starts)
    BY DEF CapOvershootBounded
  <2>3. IsFiniteSet(Running(s)) /\ IsFiniteSet(InFlight(s))
    BY CapSetsFinite
  <2>4. CASE s = r
    <3>1. IsFiniteSet(Running(s) \cup {i})
      BY <2>3, FS_AddElement
    <3>2. Cardinality(Running(s)') <= Cardinality(Running(s) \cup {i})
      BY <1>9, <2>4, <3>1, FS_Subset
    <3>3. Cardinality(Running(s) \cup {i}) <= Cardinality(Running(s)) + 1
      BY <2>3, CardinalityAddAtMostOne
    <3>4. Cardinality(InFlight(s)') = Cardinality(InFlight(s)) - 1
      BY <1>12, <1>13, <2>3, <2>4, FS_RemoveElement
    <3>5. Cardinality(Running(s) \cup {i}) \in Nat
      BY <3>1, FS_CardinalityType
    <3> QED
      BY <2>1, <2>2, <3>2, <3>3, <3>4, <3>5, CapSetsFinite, CapSetsFinitePrime
  <2>5. CASE s # r
    <3>1. Cardinality(Running(s)') <= Cardinality(Running(s))
      BY <1>9, <2>3, <2>5, FS_Subset
    <3>2. Cardinality(InFlight(s)') <= Cardinality(InFlight(s))
      BY <1>12, <2>3, FS_Subset
    <3> QED
      BY <2>1, <2>2, <3>1, <3>2, CapSetsFinite, CapSetsFinitePrime
  <2> QED
    BY <2>4, <2>5
<1>15. CountedIsHandled'
  <2>1. handles' = handles \cup {i}
    BY <1>1 DEF StartDone
  <2>2. ASSUME NEW j \in handles' PROVE \E s \in Servers : j \in Running(s)'
    BY <1>10, <1>11, <2>1, <2>2 DEF CountedIsHandled
  <2>3. ASSUME NEW s \in Servers PROVE Running(s)' \subseteq handles'
    BY <1>9, <2>1, <2>3 DEF CountedIsHandled
  <2> QED
    BY <2>2, <2>3 DEF CountedIsHandled
<1>16. ReturnedIsRemembered'
  <2>1. returned' = IF persisted THEN returned \cup {i} ELSE returned
    BY <1>1 DEF StartDone
  <2>2. returned \subseteq Sessions
    BY DEF TypeOK
  <2>3. \A j \in returned : records'[j] # None
    BY <1>3, <1>5, <1>6, <2>2 DEF ReturnedIsRemembered
  <2>4. records'[i] # None
    BY <1>2, <1>5, <1>6
  <2> QED
    BY <1>5, <2>1, <2>3, <2>4 DEF ReturnedIsRemembered
<1> QED
  BY <1>7, <1>8, <1>14, <1>15, <1>16

\* pty_close drops the handle and the count together.
LEMMA PtyCloseKeeps ==
  ASSUME IInv, NEW i \in Sessions, NEW persisted \in BOOLEAN, PtyClose(i, persisted)
  PROVE  IInv'
<1> USE DEF IInv
<1> DEFINE rec == [records[i] EXCEPT !.status = "exited"]
<1>1. Up /\ records[i] # None
  BY DEF PtyClose, Known
<1>2. records[i] \in Record
  BY <1>1 DEF TypeOK
<1>3. rec \in Record /\ rec.status = "exited"
  BY <1>2 DEF Record
<1>4. Upsert(i, rec, persisted)
  BY DEF PtyClose
<1> HIDE DEF rec
<1>5. /\ records' \in [Sessions -> Record \cup {None}]
      /\ Up'
      /\ file' \in [Sessions -> Record \cup {None}]
      /\ \A j \in Sessions : records'[j] = IF j = i THEN rec ELSE records[j]
      /\ persisted => file' = records'
      /\ ~persisted => file' = file
  BY <1>1, <1>3, <1>4, UpsertEffect
<1>6. TypeOK'
  BY <1>5 DEF PtyClose, TypeOK
<1>7. DownIsEmpty'
  BY <1>5 DEF DownIsEmpty
<1>8. \A s \in Servers : Running(s)' = Running(s) \ {i}
  BY <1>1, <1>3, <1>5 DEF Running
<1>9. \A s \in Servers : InFlight(s)' = InFlight(s)
  BY DEF PtyClose, InFlight
<1>10. CapOvershootBounded'
  BY <1>8, <1>9, CapKept
<1>11. CountedIsHandled'
  <2>1. handles' = handles \ {i}
    BY DEF PtyClose
  <2> QED
    BY <1>8, <2>1 DEF CountedIsHandled
<1>12. ReturnedIsRemembered'
  <2>1. returned' = returned /\ returned \subseteq Sessions
    BY DEF PtyClose, TypeOK
  <2>2. rec # None
    BY <1>3, NoneAssumption
  <2> QED
    BY <1>1, <1>5, <2>1, <2>2 DEF ReturnedIsRemembered
<1> QED
  BY <1>6, <1>7, <1>10, <1>11, <1>12

\* With the MCP server down nothing counts.
LEMMA CrashKeeps ==
  ASSUME IInv, Crash
  PROVE  IInv'
<1> USE DEF IInv
<1>1. ~Up'
  BY DEF Crash, Up
<1>2. TypeOK'
  BY <1>1 DEF Crash, TypeOK
<1>3. DownIsEmpty'
  BY DEF Crash, DownIsEmpty
<1>4. \A s \in Servers : Running(s)' = {} /\ InFlight(s)' = {}
  BY <1>1 DEF Crash, Running, InFlight
<1>5. CapOvershootBounded'
  BY <1>4, CapKept
<1>6. CountedIsHandled'
  BY <1>4 DEF Crash, CountedIsHandled
<1>7. ReturnedIsRemembered'
  BY <1>1 DEF Crash, ReturnedIsRemembered
<1> QED
  BY <1>2, <1>3, <1>5, <1>6, <1>7

\* After a restart no record counts, and every id the client has is known again.
LEMMA RestartKeeps ==
  ASSUME IInv, Restart
  PROVE  IInv'
<1> USE DEF IInv
<1>1. file \in [Sessions -> Record \cup {None}] /\ records' = Load
  BY DEF TypeOK, Restart
<1>2. \A i \in Sessions : file[i] # None =>
        /\ [file[i] EXCEPT !.status = "unknown"] \in Record
        /\ [file[i] EXCEPT !.status = "unknown"].status = "unknown"
  <2> SUFFICES ASSUME NEW i \in Sessions, file[i] # None
               PROVE  /\ [file[i] EXCEPT !.status = "unknown"] \in Record
                      /\ [file[i] EXCEPT !.status = "unknown"].status = "unknown"
    OBVIOUS
  <2>1. file[i] \in Record
    BY <1>1
  <2> QED
    BY <2>1 DEF Record
<1>3. \A i \in Sessions :
        /\ file[i] = None => records'[i] = None
        /\ file[i] # None => records'[i] \in Record /\ records'[i].status = "unknown"
  BY <1>1, <1>2 DEF Load
<1>4. records' \in [Sessions -> Record \cup {None}]
  BY <1>1, <1>2 DEF Load
<1>5. Up'
  BY <1>4, NoneAssumption DEF Up
<1>6. TypeOK'
  BY <1>4 DEF Restart, TypeOK
<1>7. DownIsEmpty'
  BY <1>5 DEF DownIsEmpty
<1>8. \A s \in Servers : Running(s)' = {}
  BY <1>3 DEF Running
<1>9. \A s \in Servers : InFlight(s)' = InFlight(s)
  BY DEF Restart, InFlight
<1>10. CapOvershootBounded'
  BY <1>8, <1>9, CapKept
<1>11. CountedIsHandled'
  BY <1>8 DEF Restart, DownIsEmpty, CountedIsHandled
<1>12. ReturnedIsRemembered'
  BY <1>3, NoneAssumption DEF Restart, ReturnedIsRemembered, TypeOK
<1> QED
  BY <1>6, <1>7, <1>10, <1>11, <1>12

\* Steps that touch neither records nor handles: a failed call, the end of a remote
\* shell, a read, and stuttering.
LEMMA OtherStepsKeep ==
  ASSUME IInv,
         \/ \E t \in Starts : StartFails(t)
         \/ \E i \in Sessions : ShellEnds(i) \/ PtyReadDead(i)
         \/ UNCHANGED vars
  PROVE  IInv'
<1> USE DEF IInv
<1>1. UNCHANGED <<records, file, handles, returned>>
  BY DEF StartFails, ShellEnds, PtyReadDead, vars
<1>2. \/ starts' = starts
      \/ \E t \in Starts : starts' = [starts EXCEPT ![t] = None]
  BY DEF StartFails, ShellEnds, PtyReadDead, vars
<1>3. starts' \in [Starts -> Start \cup {None}]
  BY <1>2 DEF TypeOK
<1>4. \A t \in Starts : starts'[t] # None => starts'[t] = starts[t]
  BY <1>2 DEF TypeOK
<1>5. remote' \in [Sessions -> {"absent", "running", "gone"}]
  BY DEF StartFails, ShellEnds, PtyReadDead, vars, TypeOK
<1>6. told' \subseteq Sessions
  BY DEF StartFails, ShellEnds, PtyReadDead, vars, TypeOK
<1>7. TypeOK'
  BY <1>1, <1>3, <1>5, <1>6 DEF TypeOK, Up
<1>8. DownIsEmpty'
  BY <1>1, <1>4 DEF DownIsEmpty, Up
<1>9. \A s \in Servers : Running(s)' = Running(s) /\ InFlight(s)' \subseteq InFlight(s)
  BY <1>1, <1>4 DEF Running, InFlight, Up
<1>10. CapOvershootBounded'
  BY <1>9, CapKept
<1>11. CountedIsHandled'
  BY <1>1, <1>9 DEF CountedIsHandled
<1>12. ReturnedIsRemembered'
  BY <1>1 DEF ReturnedIsRemembered, Up
<1> QED
  BY <1>7, <1>8, <1>10, <1>11, <1>12

\* IInv is an invariant of PtySessions.
THEOREM PtySessionsInvariant == Spec => []IInv
<1>1. Init => IInv
  BY InitIInv
<1>2. IInv /\ [Next]_vars => IInv'
  <2> SUFFICES ASSUME IInv, [Next]_vars PROVE IInv'
    OBVIOUS
  <2> USE StartCheckedKeeps, LaunchedKeeps, StartDoneKeeps, PtyCloseKeeps, CrashKeeps,
          RestartKeeps, OtherStepsKeep
  <2>1. CASE \E t \in Starts, i \in Sessions, s \in Servers : StartChecked(t, i, s)
    BY <2>1
  <2>2. CASE \E t \in Starts : Launched(t) \/ StartFails(t)
    BY <2>2
  <2>3. CASE \E t \in Starts, persisted \in BOOLEAN : StartDone(t, persisted)
    BY <2>3
  <2>4. CASE \E i \in Sessions : ShellEnds(i) \/ PtyReadDead(i)
    BY <2>4
  <2>5. CASE \E i \in Sessions, persisted \in BOOLEAN : PtyClose(i, persisted)
    BY <2>5
  <2>6. CASE Crash \/ Restart
    BY <2>6
  <2>7. CASE UNCHANGED vars
    BY <2>7
  <2> QED
    BY <2>1, <2>2, <2>3, <2>4, <2>5, <2>6, <2>7 DEF Next
<1> QED
  BY <1>1, <1>2, PTL DEF Spec

\* Type correctness of the session records, calls and handles (session.py,
\* state.py).
THEOREM PtySessionsTypeCorrect == Spec => []TypeOK
<1>1. IInv => TypeOK
  BY DEF IInv
<1> QED
  BY <1>1, PtySessionsInvariant, PTL

\* For every cap and any number of overlapping start_pty calls, the counted sessions
\* and the calls past the check stay below the cap plus the number of calls.
THEOREM PtyCapOvershootBounded == Spec => []CapOvershootBounded
<1>1. IInv => CapOvershootBounded
  BY DEF IInv
<1> QED
  BY <1>1, PtySessionsInvariant, PTL

\* The sessions that count against a cap are exactly those with a local handle.
THEOREM PtyCountedIsHandled == Spec => []CountedIsHandled
<1>1. IInv => CountedIsHandled
  BY DEF IInv
<1> QED
  BY <1>1, PtySessionsInvariant, PTL

\* An id that start_pty returned is never forgotten by the state store.
THEOREM PtyReturnedIsRemembered == Spec => []ReturnedIsRemembered
<1>1. IInv => ReturnedIsRemembered
  BY DEF IInv
<1> QED
  BY <1>1, PtySessionsInvariant, PTL

---------------------------------------------------------------------------
(* What pty_read says about a session.                                     *)

\* The id of a call in progress is its own: no other call has it, no record does,
\* and nobody was told about it.
InFlightIsFresh ==
  \A t \in Starts : starts[t] # None =>
    /\ starts[t].id \notin told
    /\ ~Known(starts[t].id)
    /\ \A u \in Starts : starts[u] # None /\ u # t => starts[u].id # starts[t].id

ReadInv == InFlightIsFresh /\ NotAliveIsGone

\* The steps of start_pty: the session that appears is one nobody was told about.
LEMMA StartKeepsReadInv ==
  ASSUME IInv, ReadInv, NEW t \in Starts,
         \/ \E i \in Sessions, s \in Servers : StartChecked(t, i, s)
         \/ Launched(t)
         \/ StartFails(t)
         \/ \E persisted \in BOOLEAN : StartDone(t, persisted)
  PROVE  ReadInv'
<1> USE DEF IInv, ReadInv
<1>1. CASE \E i \in Sessions, s \in Servers : StartChecked(t, i, s)
  <2>1. PICK i \in Sessions, s \in Servers : StartChecked(t, i, s)
    BY <1>1
  <2>2. \A u \in Starts : starts'[u] = IF u = t THEN [id |-> i, server |-> s, at |-> "checked"]
                                       ELSE starts[u]
    BY <2>1 DEF StartChecked, TypeOK
  <2>3. UNCHANGED <<records, told, remote>> /\ Fresh(i)
    BY <2>1 DEF StartChecked
  <2>4. InFlightIsFresh'
    BY <2>2, <2>3 DEF InFlightIsFresh, Fresh, Known, Up
  <2>5. NotAliveIsGone'
    BY <2>3 DEF NotAliveIsGone, Known, Up
  <2> QED
    BY <2>4, <2>5
<1>2. CASE Launched(t)
  <2>1. starts[t] \in Start /\ starts[t] # None
    BY <1>2 DEF Launched, TypeOK
  <2>2. starts' = [starts EXCEPT ![t] = [starts[t] EXCEPT !.at = "launched"]]
    BY <1>2 DEF Launched
  <2>3. [starts[t] EXCEPT !.at = "launched"].id = starts[t].id
    BY <2>1 DEF Start
  <2>4. \A u \in Starts : starts'[u] # None => starts[u] # None /\ starts'[u].id = starts[u].id
    BY <2>1, <2>2, <2>3 DEF TypeOK
  <2>5. UNCHANGED <<records, told>> /\ remote' = [remote EXCEPT ![starts[t].id] = "running"]
    BY <1>2 DEF Launched
  <2>6. InFlightIsFresh'
    BY <2>4, <2>5 DEF InFlightIsFresh, Known, Up
  <2>7. starts[t].id \notin told
    BY <2>1 DEF InFlightIsFresh
  <2>8. NotAliveIsGone'
    BY <2>5, <2>7 DEF NotAliveIsGone, Known, Up, TypeOK
  <2> QED
    BY <2>6, <2>8
<1>3. CASE StartFails(t)
  <2>1. \A u \in Starts : starts'[u] = IF u = t THEN None ELSE starts[u]
    BY <1>3 DEF StartFails, TypeOK
  <2>2. UNCHANGED <<records, told, remote>>
    BY <1>3 DEF StartFails
  <2>3. InFlightIsFresh'
    BY <2>1, <2>2 DEF InFlightIsFresh, Known, Up
  <2>4. NotAliveIsGone'
    BY <2>2 DEF NotAliveIsGone, Known, Up
  <2> QED
    BY <2>3, <2>4
<1>4. CASE \E persisted \in BOOLEAN : StartDone(t, persisted)
  <2>1. PICK persisted \in BOOLEAN : StartDone(t, persisted)
    BY <1>4
  <2>2. starts[t] \in Start /\ starts[t] # None
    BY <2>1 DEF StartDone, TypeOK
  <2>3. PICK i \in Sessions : i = starts[t].id
    BY <2>2 DEF Start
  <2>4. \A u \in Starts : starts'[u] = IF u = t THEN None ELSE starts[u]
    BY <2>1 DEF StartDone, TypeOK
  <2>5. Up
    BY <2>2 DEF DownIsEmpty
  <2>6. \A j \in Sessions : j # i => records'[j] = records[j]
    BY <2>1, <2>3, <2>5 DEF StartDone, Upsert, TypeOK
  <2>7. UNCHANGED <<told, remote>>
    BY <2>1 DEF StartDone
  <2>8. \A u \in Starts : starts[u] # None => starts[u].id \in Sessions
    BY DEF TypeOK, Start
  <2>9. InFlightIsFresh'
    BY <2>2, <2>3, <2>4, <2>5, <2>6, <2>7, <2>8 DEF InFlightIsFresh, Known
  <2>10. i \notin told
    BY <2>2, <2>3 DEF InFlightIsFresh
  <2>11. NotAliveIsGone'
    BY <2>5, <2>6, <2>7, <2>10 DEF NotAliveIsGone, Known, TypeOK
  <2> QED
    BY <2>9, <2>11
<1> QED
  BY <1>1, <1>2, <1>3, <1>4

\* The steps of a session afterwards: a read without a handle says not alive only
\* of a session that no longer counts as running.
LEMMA UseKeepsReadInv ==
  ASSUME IInv, ReadInv,
         \/ \E i \in Sessions : ShellEnds(i) \/ PtyReadDead(i)
         \/ \E i \in Sessions, persisted \in BOOLEAN : PtyClose(i, persisted)
         \/ UNCHANGED vars
  PROVE  ReadInv'
<1> USE DEF IInv, ReadInv
<1>1. CASE \E i \in Sessions : ShellEnds(i)
  <2>1. UNCHANGED <<starts, records, told>> /\ \A i \in Sessions : remote[i] = "gone" => remote'[i] = "gone"
    BY <1>1 DEF ShellEnds, TypeOK
  <2> QED
    BY <2>1 DEF InFlightIsFresh, NotAliveIsGone, Known, Up, TypeOK
<1>2. CASE \E i \in Sessions : PtyReadDead(i)
  <2>1. PICK i \in Sessions : PtyReadDead(i)
    BY <1>2
  <2>2. UNCHANGED <<starts, records, remote>> /\ told' = told \cup {i} /\ Known(i)
    BY <2>1 DEF PtyReadDead
  <2>3. InFlightIsFresh'
    BY <2>2 DEF InFlightIsFresh, Known, Up
  <2>4. ASSUME records[i].status = "running" PROVE remote[i] = "gone"
    <3>1. records[i] \in Record
      BY <2>2 DEF Known, TypeOK
    <3>2. i \in Running(records[i].server) /\ records[i].server \in Servers
      BY <2>2, <2>4, <3>1 DEF Running, Known, Record
    <3>3. i \in handles
      BY <3>2 DEF CountedIsHandled
    <3> QED
      BY <2>1, <3>3 DEF PtyReadDead, ReadDead
  <2>5. NotAliveIsGone'
    BY <2>2, <2>4 DEF NotAliveIsGone, Known, Up
  <2> QED
    BY <2>3, <2>5
<1>3. CASE \E i \in Sessions, persisted \in BOOLEAN : PtyClose(i, persisted)
  <2>1. PICK i \in Sessions, persisted \in BOOLEAN : PtyClose(i, persisted)
    BY <1>3
  <2>2. UNCHANGED <<starts, remote, told>> /\ Up /\ records[i] \in Record /\ records[i] # None
    BY <2>1 DEF PtyClose, Known, TypeOK
  <2>3. [records[i] EXCEPT !.status = "exited"].status = "exited"
    BY <2>2 DEF Record
  <2>4. records' = [records EXCEPT ![i] = [records[i] EXCEPT !.status = "exited"]]
    BY <2>1 DEF PtyClose, Upsert
  <2>5. /\ \A j \in Sessions : j # i => records'[j] = records[j]
        /\ records'[i].status = "exited"
    BY <2>2, <2>3, <2>4 DEF TypeOK
  <2>6. \A u \in Starts : starts[u] # None => starts[u].id \in Sessions
    BY DEF TypeOK, Start
  <2>7. InFlightIsFresh'
    BY <2>2, <2>5, <2>6 DEF InFlightIsFresh, Known
  <2>8. NotAliveIsGone'
    BY <2>2, <2>5 DEF NotAliveIsGone, Known, TypeOK
  <2> QED
    BY <2>7, <2>8
<1>4. CASE UNCHANGED vars
  BY <1>4 DEF vars, InFlightIsFresh, NotAliveIsGone, Known, Up
<1> QED
  BY <1>1, <1>2, <1>3, <1>4

\* The death and the start of the MCP server: no record is running afterwards.
LEMMA LifeKeepsReadInv ==
  ASSUME IInv, ReadInv, Crash \/ Restart
  PROVE  ReadInv'
<1> USE DEF IInv, ReadInv
<1>1. CASE Crash
  BY <1>1 DEF Crash, InFlightIsFresh, NotAliveIsGone, Known, Up
<1>2. CASE Restart
  <2>1. InFlightIsFresh'
    BY <1>2 DEF Restart, DownIsEmpty, InFlightIsFresh
  <2>2. ASSUME NEW i \in told, records'[i] # None PROVE records'[i].status = "unknown"
    <3>1. i \in Sessions /\ file[i] \in Record \cup {None}
      BY DEF TypeOK
    <3>2. records'[i] = IF file[i] = None THEN None ELSE [file[i] EXCEPT !.status = "unknown"]
      BY <1>2, <3>1 DEF Restart, Load
    <3> QED
      BY <2>2, <3>1, <3>2 DEF Record
  <2>3. NotAliveIsGone'
    BY <1>2, <2>2 DEF Restart, NotAliveIsGone, Known
  <2> QED
    BY <2>1, <2>3
<1> QED
  BY <1>1, <1>2

\* pty_read calls a running session not alive only when the remote one is gone, for
\* any overlap of calls and any sequence of crashes.
THEOREM PtyNotAliveIsGone == Spec => []NotAliveIsGone
<1>1. Init => ReadInv
  BY DEF Init, ReadInv, InFlightIsFresh, NotAliveIsGone
<1>2. IInv /\ ReadInv /\ [Next]_vars => ReadInv'
  <2> SUFFICES ASSUME IInv, ReadInv, [Next]_vars PROVE ReadInv'
    OBVIOUS
  <2>1. CASE \E t \in Starts : \/ \E i \in Sessions, s \in Servers : StartChecked(t, i, s)
                              \/ Launched(t)
                              \/ StartFails(t)
                              \/ \E persisted \in BOOLEAN : StartDone(t, persisted)
    BY <2>1, StartKeepsReadInv
  <2>2. CASE \/ \E i \in Sessions : ShellEnds(i) \/ PtyReadDead(i)
             \/ \E i \in Sessions, persisted \in BOOLEAN : PtyClose(i, persisted)
             \/ UNCHANGED vars
    BY <2>2, UseKeepsReadInv
  <2>3. CASE Crash \/ Restart
    BY <2>3, LifeKeepsReadInv
  <2> QED
    BY <2>1, <2>2, <2>3 DEF Next
<1>3. ReadInv => NotAliveIsGone
  BY DEF ReadInv
<1> QED
  BY <1>1, <1>2, <1>3, PtySessionsInvariant, PTL DEF Spec

---------------------------------------------------------------------------
(* Induction over numbers.                                                 *)

\* A set of numbers that is not empty has a smallest one.
LEMMA SmallestNat ==
  ASSUME NEW S \in SUBSET Nat, S # {}
  PROVE  \E n \in S : \A k \in S : n <= k
  <1>1. PICK m \in S : TRUE
    OBVIOUS
  <1> DEFINE I == 0..m
             R == StrictSubsetOrdering(I)
             U == {0..k : k \in S \cap I}
  <1>2. IsFiniteSet(I)
    BY FS_Interval
  <1>3. /\ \A V \in SUBSET I : IsFiniteSet(V)
        /\ U \subseteq SUBSET I /\ U # {}
    <2>1. \A V \in SUBSET I : IsFiniteSet(V)
      BY <1>2, FS_Subset
    <2>2. 0..m \in U
      OBVIOUS
    <2> QED BY <2>1, <2>2
  <1>4. U \subseteq FiniteSubsetsOf(I)
    BY <1>3 DEF FiniteSubsetsOf
  <1>5. PICK V \in U : \A W \in U : <<W, V>> \notin R
    BY <1>3, <1>4, FS_StrictSubsetOrderingWellFounded, WFMin
  <1>6. PICK n \in S \cap I : V = 0..n
    OBVIOUS
  <1>7. ASSUME NEW k \in S PROVE n <= k
    <2>1. SUFFICES ASSUME k < n PROVE FALSE
      OBVIOUS
    <2>2. k \in I /\ 0..k \in U
      BY <2>1
    <2>3. 0..k \subseteq 0..n /\ 0..k # 0..n
      <3>1. n \in 0..n /\ n \notin 0..k
        BY <2>1
      <3> QED BY <2>1, <3>1
    <2>4. 0..k \in SUBSET I /\ 0..n \in SUBSET I
      BY <2>2
    <2>5. <<0..k, 0..n>> \in R
      BY <2>3, <2>4 DEF StrictSubsetOrdering
    <2> QED BY <1>5, <1>6, <2>2, <2>5
  <1> QED BY <1>7

\* Induction up to n, over a set instead of a predicate.
LEMMA InductionUpTo ==
  ASSUME NEW n \in Nat, NEW S, 0 \in S, \A j \in 1..n : j - 1 \in S => j \in S
  PROVE  \A j \in 0..n : j \in S
<1> SUFFICES ASSUME NEW c \in 0..n, c \notin S PROVE FALSE
  OBVIOUS
<1>1. PICK m \in {j \in 0..n : j \notin S} : \A k \in {j \in 0..n : j \notin S} : m <= k
  <2>1. {j \in 0..n : j \notin S} \in SUBSET Nat /\ {j \in 0..n : j \notin S} # {}
    OBVIOUS
  <2> QED
    BY <2>1, SmallestNat
<1>2. m \in 1..n /\ m - 1 \in 0..n
  BY <1>1
<1>3. m - 1 \in S
  BY <1>1, <1>2
<1> QED
  BY <1>1, <1>2, <1>3

---------------------------------------------------------------------------
(* The deque as an interval of bytes.                                      *)

\* A chunk of bytes.
Chunk == [lo : Nat \ {0}, hi : Nat \ {0}]

\* The chunks of b follow one another without a gap.
Contiguous(b) ==
  /\ b \in Seq(Chunk)
  /\ \A i \in 1..Len(b) : b[i].lo <= b[i].hi
  /\ \A i \in 1..Len(b) : i > 1 => b[i].lo = b[i - 1].hi + 1

\* The bytes from x to y.
Run(x, y) == [i \in 1..(y - x + 1) |-> x + i - 1]

\* A run of bytes is a sequence.
LEMMA RunType ==
  ASSUME NEW x \in Nat \ {0}, NEW y \in Nat, y - x + 1 \in Nat
  PROVE  /\ Run(x, y) \in Seq(Nat)
         /\ Len(Run(x, y)) = y - x + 1
         /\ \A i \in 1..(y - x + 1) : Run(x, y)[i] = x + i - 1
<1>1. \A i \in 1..(y - x + 1) : x + i - 1 \in Nat
  OBVIOUS
<1> QED
  BY <1>1 DEF Run

\* Two runs of which one follows the other are one.
LEMMA RunsJoin ==
  ASSUME NEW x \in Nat \ {0}, NEW y \in Nat, NEW z \in Nat, x <= y + 1, y <= z
  PROVE  Run(x, y) \o Run(y + 1, z) = Run(x, z)
<1>1. /\ Run(x, y) \in Seq(Nat) /\ Len(Run(x, y)) = y - x + 1
      /\ \A i \in 1..(y - x + 1) : Run(x, y)[i] = x + i - 1
  BY RunType
<1>2. /\ Run(y + 1, z) \in Seq(Nat) /\ Len(Run(y + 1, z)) = z - y
      /\ \A i \in 1..(z - y) : Run(y + 1, z)[i] = y + i
  <2>1. z - (y + 1) + 1 \in Nat /\ z - (y + 1) + 1 = z - y /\ y + 1 \in Nat \ {0}
    OBVIOUS
  <2>2. \A i \in 1..(z - y) : (y + 1) + i - 1 = y + i
    OBVIOUS
  <2> QED
    BY <2>1, <2>2, RunType
<1>3. /\ Run(x, z) \in Seq(Nat) /\ Len(Run(x, z)) = z - x + 1
      /\ \A i \in 1..(z - x + 1) : Run(x, z)[i] = x + i - 1
  BY RunType
<1> DEFINE s == Run(x, y)
           t == Run(y + 1, z)
<1> HIDE DEF s, t
<1>4. s \in Seq(Nat) /\ t \in Seq(Nat) /\ Len(s) = y - x + 1 /\ Len(t) = z - y
  BY <1>1, <1>2 DEF s, t
<1>5. /\ s \o t \in Seq(Nat)
      /\ Len(s \o t) = Len(s) + Len(t)
      /\ \A i \in 1..(Len(s) + Len(t)) :
            (s \o t)[i] = IF i <= Len(s) THEN s[i] ELSE t[i - Len(s)]
  BY <1>4, ConcatProperties
<1>6. Len(s \o t) = z - x + 1
  BY <1>4, <1>5
<1>7. ASSUME NEW i \in 1..(z - x + 1) PROVE (s \o t)[i] = Run(x, z)[i]
  <2>1. CASE i <= y - x + 1
    <3>1. (s \o t)[i] = s[i] /\ s[i] = x + i - 1
      BY <2>1, <1>1, <1>4, <1>5 DEF s
    <3> QED
      BY <3>1, <1>3
  <2>2. CASE ~(i <= y - x + 1)
    <3>1. i - (y - x + 1) \in 1..(z - y)
      BY <2>2
    <3>2. (s \o t)[i] = t[i - (y - x + 1)]
      BY <2>2, <1>4, <1>5
    <3>3. t[i - (y - x + 1)] = y + (i - (y - x + 1))
      BY <3>1, <1>2 DEF t
    <3> QED
      BY <3>2, <3>3, <1>3
  <2> QED
    BY <2>1, <2>2
<1> QED
  BY <1>3, <1>5, <1>6, <1>7, SeqEqual DEF s, t

\* What the definition of Contiguous says of single chunks.
LEMMA ChunkFacts ==
  ASSUME NEW b, Contiguous(b)
  PROVE  /\ Len(b) \in Nat
         /\ \A j \in 1..Len(b) :
              /\ b[j] \in Chunk
              /\ b[j].lo \in Nat \ {0} /\ b[j].hi \in Nat \ {0} /\ b[j].lo <= b[j].hi
              /\ b[j].hi - b[j].lo + 1 \in Nat
              /\ j # 1 => j - 1 \in 1..Len(b) /\ b[j].lo = b[j - 1].hi + 1
<1>1. Len(b) \in Nat /\ \A j \in 1..Len(b) : b[j] \in Chunk
  BY LenProperties, ElementOfSeq DEF Contiguous
<1>2. ASSUME NEW j \in 1..Len(b)
      PROVE  /\ b[j].lo \in Nat \ {0} /\ b[j].hi \in Nat \ {0} /\ b[j].lo <= b[j].hi
             /\ j # 1 => j - 1 \in 1..Len(b) /\ b[j].lo = b[j - 1].hi + 1
  BY <1>1 DEF Chunk, Contiguous
<1> QED
  BY <1>1, <1>2

\* No chunk is older than the first.
LEMMA FirstIsOldest ==
  ASSUME NEW b, Contiguous(b), NEW j \in 1..Len(b)
  PROVE  b[1].lo <= b[j].lo
<1> DEFINE S == {i \in 0..Len(b) : i = 0 \/ b[1].lo <= b[i].lo}
<1>1. 0 \in S
  BY ChunkFacts
<1>2. ASSUME NEW i \in 1..Len(b), i - 1 \in S PROVE i \in S
  <2>1. i \in 0..Len(b) /\ b[i].lo \in Nat /\ b[1].lo \in Nat
    BY ChunkFacts
  <2>2. CASE i = 1
    BY <2>1, <2>2
  <2>3. CASE i # 1
    <3>1. i - 1 \in 1..Len(b) /\ b[i].lo = b[i - 1].hi + 1
      BY <2>3, ChunkFacts
    <3>2. b[i - 1].lo \in Nat /\ b[i - 1].hi \in Nat /\ b[i - 1].lo <= b[i - 1].hi
      BY <3>1, ChunkFacts
    <3>3. b[1].lo <= b[i - 1].lo
      BY <1>2, <3>1
    <3>4. b[1].lo <= b[i].lo
      BY <2>1, <3>1, <3>2, <3>3
    <3> QED
      BY <2>1, <3>4
  <2> QED
    BY <2>2, <2>3
<1>3. \A i \in 0..Len(b) : i \in S
  <2> HIDE DEF S
  <2> QED
    BY <1>1, <1>2, ChunkFacts, InductionUpTo
<1> QED
  BY <1>3, ChunkFacts

\* The bytes from the oldest to the newest of the first k chunks.
Length(b, k) == IF k = 0 THEN 0 ELSE b[k].hi - b[1].lo + 1

Content(b, k) == IF k = 0 THEN <<>> ELSE Run(b[1].lo, b[k].hi)

\* One chunk more.
LEMMA OneChunkMore ==
  ASSUME NEW b, Contiguous(b), NEW j \in 1..Len(b)
  PROVE  /\ Length(b, j) = Length(b, j - 1) + Buffer!Size(b[j])
         /\ Content(b, j) = Content(b, j - 1) \o Buffer!Bytes(b[j])
<1>1. /\ b[j].lo \in Nat \ {0} /\ b[j].hi \in Nat \ {0} /\ b[j].lo <= b[j].hi
      /\ b[j].hi - b[j].lo + 1 \in Nat
      /\ b[1].lo \in Nat \ {0} /\ b[1].lo <= b[j].lo
  <2>1. 1 \in 1..Len(b)
    BY ChunkFacts
  <2> QED
    BY <2>1, ChunkFacts, FirstIsOldest
<1>2. Buffer!Size(b[j]) = b[j].hi - b[j].lo + 1
  BY DEF Buffer!Size
<1>3. Buffer!Bytes(b[j]) = Run(b[j].lo, b[j].hi)
  BY DEF Buffer!Bytes, Buffer!Size, Run
<1>4. CASE j = 1
  <2>1. Length(b, j) = b[1].hi - b[1].lo + 1 /\ Length(b, j - 1) = 0
    BY <1>4 DEF Length
  <2>2. Content(b, j) = Run(b[1].lo, b[1].hi) /\ Content(b, j - 1) = <<>>
    BY <1>4 DEF Content
  <2>3. Run(b[1].lo, b[1].hi) \in Seq(Nat)
    BY <1>1, <1>4, RunType
  <2>4. <<>> \o Run(b[1].lo, b[1].hi) = Run(b[1].lo, b[1].hi)
    BY <2>3, ConcatEmptySeq
  <2>5. Length(b, j) = Length(b, j - 1) + Buffer!Size(b[j])
    BY <1>1, <1>2, <1>4, <2>1
  <2> QED
    BY <1>3, <1>4, <2>2, <2>4, <2>5
<1>5. CASE j # 1
  <2>1. /\ j - 1 \in 1..Len(b) /\ b[j].lo = b[j - 1].hi + 1
        /\ b[j - 1].lo \in Nat /\ b[j - 1].hi \in Nat /\ b[j - 1].lo <= b[j - 1].hi
    BY <1>5, ChunkFacts
  <2>2. Length(b, j) = b[j].hi - b[1].lo + 1 /\ Length(b, j - 1) = b[j - 1].hi - b[1].lo + 1
    BY <2>1 DEF Length
  <2>3. Content(b, j) = Run(b[1].lo, b[j].hi) /\ Content(b, j - 1) = Run(b[1].lo, b[j - 1].hi)
    BY <2>1 DEF Content
  <2>4. b[1].lo <= b[j - 1].hi + 1 /\ b[j - 1].hi <= b[j].hi
    BY <1>1, <2>1
  <2>5. Run(b[1].lo, b[j - 1].hi) \o Run(b[j - 1].hi + 1, b[j].hi) = Run(b[1].lo, b[j].hi)
    BY <1>1, <2>1, <2>4, RunsJoin
  <2>6. Length(b, j) = Length(b, j - 1) + Buffer!Size(b[j])
    <3> DEFINE x == b[1].lo
               y == b[j - 1].hi
               z == b[j].hi
    <3>1. x \in Nat /\ y \in Nat /\ z \in Nat
      BY <1>1, <2>1
    <3>2. Length(b, j) = z - x + 1 /\ Length(b, j - 1) = y - x + 1
          /\ Buffer!Size(b[j]) = z - (y + 1) + 1
      BY <1>2, <2>1, <2>2
    <3> HIDE DEF x, y, z
    <3> QED
      BY <3>1, <3>2
  <2> QED
    BY <1>3, <2>1, <2>3, <2>5, <2>6
<1> QED
  BY <1>4, <1>5

\* What the recursive functions of the deque compute.
\* What the recursive functions of PtyBuffer compute: the number of these bytes ...
LEMMA TotalIs ==
  ASSUME NEW b, Contiguous(b), NEW k \in 0..Len(b)
  PROVE  Buffer!Total(b, k) = Length(b, k)
<1> DEFINE f[j \in 0..Len(b)] == IF j = 0 THEN 0 ELSE f[j - 1] + Buffer!Size(b[j])
           g == [j \in 0..Len(b) |-> Length(b, j)]
           S == {j \in 0..Len(b) : f[j] = Length(b, j)}
<1>1. Buffer!Total(b, k) = f[k]
  BY DEF Buffer!Total
<1>2. Length(b, 0) = 0
  BY DEF Length
<1>3. \A j \in 1..Len(b) : Length(b, j) = Length(b, j - 1) + Buffer!Size(b[j])
  BY OneChunkMore
<1>4. \A j \in 0..Len(b) : j # 0 => j \in 1..Len(b) /\ j - 1 \in 0..Len(b)
  BY ChunkFacts
<1>5. g = [j \in 0..Len(b) |-> IF j = 0 THEN 0 ELSE g[j - 1] + Buffer!Size(b[j])]
  BY <1>2, <1>3, <1>4
<1>6. f = [j \in 0..Len(b) |-> IF j = 0 THEN 0 ELSE f[j - 1] + Buffer!Size(b[j])]
  <2> HIDE DEF g
  <2> QED
    BY <1>5
<1> HIDE DEF f, g
<1>7. 0 \in S
  BY <1>2, <1>6, ChunkFacts
<1>8. ASSUME NEW j \in 1..Len(b), j - 1 \in S PROVE j \in S
  <2>1. j \in 0..Len(b) /\ j # 0
    BY ChunkFacts
  <2>2. f[j] = f[j - 1] + Buffer!Size(b[j])
    BY <1>6, <2>1
  <2>3. f[j - 1] = Length(b, j - 1)
    BY <1>8
  <2>4. f[j] = Length(b, j)
    BY <1>3, <2>2, <2>3
  <2> QED
    BY <2>1, <2>4
<1>9. \A j \in 0..Len(b) : j \in S
  <2> HIDE DEF S
  <2> QED
    BY <1>7, <1>8, ChunkFacts, InductionUpTo
<1> QED
  BY <1>1, <1>9

\* ... and the bytes themselves.
LEMMA JoinedIs ==
  ASSUME NEW b, Contiguous(b), NEW k \in 0..Len(b)
  PROVE  Buffer!Joined(b, k) = Content(b, k)
<1> DEFINE f[j \in 0..Len(b)] == IF j = 0 THEN <<>> ELSE f[j - 1] \o Buffer!Bytes(b[j])
           g == [j \in 0..Len(b) |-> Content(b, j)]
           S == {j \in 0..Len(b) : f[j] = Content(b, j)}
<1>1. Buffer!Joined(b, k) = f[k]
  BY DEF Buffer!Joined
<1>2. Content(b, 0) = <<>>
  BY DEF Content
<1>3. \A j \in 1..Len(b) : Content(b, j) = Content(b, j - 1) \o Buffer!Bytes(b[j])
  BY OneChunkMore
<1>4. \A j \in 0..Len(b) : j # 0 => j \in 1..Len(b) /\ j - 1 \in 0..Len(b)
  BY ChunkFacts
<1>5. g = [j \in 0..Len(b) |-> IF j = 0 THEN <<>> ELSE g[j - 1] \o Buffer!Bytes(b[j])]
  BY <1>2, <1>3, <1>4
<1>6. f = [j \in 0..Len(b) |-> IF j = 0 THEN <<>> ELSE f[j - 1] \o Buffer!Bytes(b[j])]
  <2> HIDE DEF g
  <2> QED
    BY <1>5
<1> HIDE DEF f, g
<1>7. 0 \in S
  BY <1>2, <1>6, ChunkFacts
<1>8. ASSUME NEW j \in 1..Len(b), j - 1 \in S PROVE j \in S
  <2>1. j \in 0..Len(b) /\ j # 0
    BY ChunkFacts
  <2>2. f[j] = f[j - 1] \o Buffer!Bytes(b[j])
    BY <1>6, <2>1
  <2>3. f[j - 1] = Content(b, j - 1)
    BY <1>8
  <2>4. f[j] = Content(b, j)
    BY <1>3, <2>2, <2>3
  <2> QED
    BY <2>1, <2>4
<1>9. \A j \in 0..Len(b) : j \in S
  <2> HIDE DEF S
  <2> QED
    BY <1>7, <1>8, ChunkFacts, InductionUpTo
<1> QED
  BY <1>1, <1>9

\* Where the deque begins when d bytes have been drained.
FirstOf(b, d) == IF b = <<>> THEN d + 1 ELSE b[1].lo

\* The chunks of b are the last ones of the d bytes that have been drained.
DequeOK(b, d) ==
  /\ Contiguous(b)
  /\ b # <<>> => b[Len(b)].hi = d

\* The whole deque.
LEMMA AllBuffered ==
  ASSUME NEW b, NEW d \in Nat, DequeOK(b, d)
  PROVE  /\ FirstOf(b, d) \in 1..(d + 1)
         /\ Buffer!Total(b, Len(b)) = d - FirstOf(b, d) + 1
         /\ Buffer!Joined(b, Len(b)) = Run(FirstOf(b, d), d)
<1> USE DEF DequeOK
<1>1. Len(b) \in Nat /\ Len(b) \in 0..Len(b)
  BY ChunkFacts
<1>2. Buffer!Total(b, Len(b)) = Length(b, Len(b)) /\ Buffer!Joined(b, Len(b)) = Content(b, Len(b))
  BY <1>1, TotalIs, JoinedIs
<1>3. CASE b = <<>>
  <2>1. Len(b) = 0
    BY <1>3
  <2>2. Length(b, Len(b)) = 0 /\ Content(b, Len(b)) = <<>>
    BY <2>1 DEF Length, Content
  <2>3. Run(d + 1, d) = <<>>
    BY DEF Run
  <2> QED
    BY <1>2, <1>3, <2>2, <2>3 DEF FirstOf
<1>4. CASE b # <<>>
  <2>1. Len(b) \in 1..Len(b) /\ 1 \in 1..Len(b)
    BY <1>1, <1>4, EmptySeq DEF Contiguous
  <2>2. b[Len(b)].hi = d /\ FirstOf(b, d) = b[1].lo
    BY <1>4 DEF FirstOf
  <2>3. /\ b[1].lo \in Nat \ {0} /\ b[1].lo <= b[Len(b)].lo
        /\ b[Len(b)].lo \in Nat /\ b[Len(b)].lo <= d
    BY <2>1, <2>2, ChunkFacts, FirstIsOldest
  <2>4. Length(b, Len(b)) = d - b[1].lo + 1 /\ Content(b, Len(b)) = Run(b[1].lo, d)
    BY <2>1, <2>2 DEF Length, Content
  <2> QED
    BY <1>2, <2>2, <2>3, <2>4
<1> QED
  BY <1>3, <1>4

\* What Contiguous requires, chunk by chunk.
LEMMA MakeContiguous ==
  ASSUME NEW b \in Seq(Chunk),
         \A i \in 1..Len(b) : b[i].lo <= b[i].hi,
         \A i \in 1..Len(b) : i > 1 => b[i].lo = b[i - 1].hi + 1
  PROVE  Contiguous(b)
BY DEF Contiguous

\* A new chunk at the right end.
LEMMA Appended ==
  ASSUME NEW b, NEW d \in Nat, DequeOK(b, d), NEW n \in Nat \ {0},
         NEW c, c = [lo |-> d + 1, hi |-> d + n]
  PROVE  /\ DequeOK(Append(b, c), d + n)
         /\ FirstOf(Append(b, c), d + n) = FirstOf(b, d)
<1> USE DEF DequeOK
<1>1. c \in Chunk /\ c.lo = d + 1 /\ c.hi = d + n /\ c.lo <= c.hi
  BY DEF Chunk
<1>2. b \in Seq(Chunk)
  BY DEF Contiguous
<1> DEFINE a == Append(b, c)
<1>3. /\ a \in Seq(Chunk) /\ a # <<>> /\ Len(a) = Len(b) + 1
      /\ \A i \in 1..Len(b) : a[i] = b[i]
      /\ a[Len(b) + 1] = c
  BY <1>1, <1>2, AppendProperties
<1>4. Len(b) \in Nat
  BY ChunkFacts
<1> HIDE DEF a
<1>5. ASSUME NEW i \in 1..Len(a)
      PROVE  a[i].lo <= a[i].hi /\ (i > 1 => a[i].lo = a[i - 1].hi + 1)
  <2>1. CASE i \in 1..Len(b)
    <3>1. a[i] = b[i] /\ b[i].lo <= b[i].hi
      BY <2>1, <1>3, ChunkFacts
    <3>2. ASSUME i > 1 PROVE a[i].lo = a[i - 1].hi + 1
      <4>1. i - 1 \in 1..Len(b) /\ b[i].lo = b[i - 1].hi + 1
        BY <2>1, <3>2, ChunkFacts
      <4> QED
        BY <3>1, <4>1, <1>3
    <3> QED
      BY <3>1, <3>2
  <2>2. CASE i = Len(b) + 1
    <3>1. a[i] = c
      BY <2>2, <1>3
    <3>2. ASSUME i > 1 PROVE a[i].lo = a[i - 1].hi + 1
      <4>1. i - 1 = Len(b) /\ i - 1 \in 1..Len(b)
        BY <2>2, <3>2, <1>4
      <4>2. b # <<>>
        BY <4>1
      <4>3. a[i - 1] = b[Len(b)] /\ b[Len(b)].hi = d
        BY <4>1, <4>2, <1>3
      <4> QED
        BY <3>1, <4>3, <1>1
    <3> QED
      BY <3>1, <3>2, <1>1
  <2> QED
    BY <2>1, <2>2, <1>3, <1>4
<1>6. Contiguous(a)
  BY <1>3, <1>5, MakeContiguous
<1>7. a[Len(a)].hi = d + n
  BY <1>1, <1>3
<1>8. FirstOf(a, d + n) = FirstOf(b, d)
  <2>1. CASE b = <<>>
    <3>1. Len(b) = 0
      BY <2>1
    <3>2. a[1] = c
      BY <1>3, <3>1
    <3> QED
      BY <1>1, <1>3, <2>1, <3>2 DEF FirstOf
  <2>2. CASE b # <<>>
    <3>1. 1 \in 1..Len(b)
      BY <2>2, <1>2, <1>4, EmptySeq
    <3> QED
      BY <1>3, <2>2, <3>1 DEF FirstOf
  <2> QED
    BY <2>1, <2>2
<1> QED
  BY <1>6, <1>7, <1>8 DEF a

\* The right end of the deque from chunk k + 1 on, of which the first p bytes are gone.
LEMMA Shortened ==
  ASSUME NEW b, NEW d \in Nat, DequeOK(b, d), NEW k \in 0..(Len(b) - 1),
         NEW p \in Nat, p < Buffer!Size(b[k + 1]),
         NEW s \in Seq(Chunk), Len(s) = Len(b) - k,
         s[1].lo = b[k + 1].lo + p, s[1].hi = b[k + 1].hi,
         \A i \in 2..Len(s) : s[i] = b[k + i]
  PROVE  /\ DequeOK(s, d)
         /\ FirstOf(s, d) = b[k + 1].lo + p
<1> USE DEF DequeOK
<1>1. Len(b) \in Nat /\ k \in Nat /\ Len(s) \in Nat \ {0} /\ k + 1 \in 1..Len(b)
  BY ChunkFacts
<1>2. \A i \in 1..Len(s) : k + i \in 1..Len(b)
  BY <1>1
<1>3. b[k + 1].lo \in Nat /\ b[k + 1].hi \in Nat /\ p < b[k + 1].hi - b[k + 1].lo + 1
  BY <1>1, ChunkFacts DEF Buffer!Size
<1>4. \A i \in 1..Len(s) : s[i].hi = b[k + i].hi
  <2>1. ASSUME NEW i \in 1..Len(s) PROVE s[i].hi = b[k + i].hi
    <3>1. i = 1 \/ i \in 2..Len(s)
      BY <1>1
    <3> QED
      BY <3>1
  <2> QED
    BY <2>1
<1>5. ASSUME NEW i \in 1..Len(s)
      PROVE  s[i].lo <= s[i].hi /\ (i > 1 => s[i].lo = s[i - 1].hi + 1)
  <2>1. CASE i = 1
    BY <2>1, <1>3
  <2>2. CASE i # 1
    <3>1. i \in 2..Len(s) /\ i - 1 \in 1..Len(s) /\ k + i \in 1..Len(b) /\ k + i # 1
          /\ (k + i) - 1 = k + (i - 1)
      <4> DEFINE n == Len(s)
                 l == Len(b)
      <4>1. n \in Nat /\ l \in Nat /\ n = l - k /\ k \in Nat /\ i \in 1..n
        BY <1>1
      <4> HIDE DEF n, l
      <4>2. i \in 2..n /\ i - 1 \in 1..n /\ k + i \in 1..l /\ k + i # 1
            /\ (k + i) - 1 = k + (i - 1)
        BY <4>1, <2>2
      <4> QED
        BY <4>2 DEF n, l
    <3>2. b[k + i].lo <= b[k + i].hi /\ b[k + i].lo = b[(k + i) - 1].hi + 1
      BY <3>1, ChunkFacts
    <3>3. s[i] = b[k + i] /\ s[i - 1].hi = b[k + (i - 1)].hi
      BY <3>1, <1>4
    <3> QED
      BY <3>1, <3>2, <3>3
  <2> QED
    BY <2>1, <2>2
<1>6. Contiguous(s)
  BY <1>5, MakeContiguous
<1>7. s # <<>>
  BY <1>1
<1>8. s[Len(s)].hi = d
  <2>1. Len(s) \in 1..Len(s) /\ k + Len(s) = Len(b) /\ b # <<>>
    BY <1>1
  <2> QED
    BY <2>1, <1>4
<1> QED
  BY <1>6, <1>7, <1>8 DEF FirstOf

\* The oldest chunk falls out.
LEMMA OldestDropped ==
  ASSUME NEW b, NEW d \in Nat, DequeOK(b, d), b # <<>>
  PROVE  /\ DequeOK(Tail(b), d)
         /\ FirstOf(Tail(b), d) = FirstOf(b, d) + Buffer!Size(Head(b))
<1> USE DEF DequeOK
<1>1. b \in Seq(Chunk) /\ Len(b) \in Nat \ {0} /\ 1 \in 1..Len(b)
  BY EmptySeq DEF Contiguous
<1>2. /\ Tail(b) \in Seq(Chunk) /\ Len(Tail(b)) = Len(b) - 1
      /\ \A i \in 1..Len(Tail(b)) : Tail(b)[i] = b[i + 1]
  BY <1>1, HeadTailProperties
<1>3. Head(b) = b[1]
  BY <1>1
<1>4. b[1].lo \in Nat \ {0} /\ b[1].hi \in Nat \ {0} /\ b[1].lo <= b[1].hi
  BY <1>1, ChunkFacts
<1>5. FirstOf(b, d) + Buffer!Size(Head(b)) = b[1].hi + 1
  BY <1>3, <1>4 DEF FirstOf, Buffer!Size
<1>6. CASE Len(b) = 1
  <2>1. Tail(b) = <<>>
    <3>1. Len(Tail(b)) = 0
      BY <1>2, <1>6
    <3> QED
      BY <1>2, <3>1, EmptySeq
  <2>2. b[1].hi = d
    BY <1>6
  <2>3. Contiguous(<<>>)
    BY DEF Contiguous
  <2> QED
    BY <1>5, <2>1, <2>2, <2>3 DEF FirstOf
<1>7. CASE Len(b) # 1
  <2>1. 2 \in 1..Len(b) /\ 1 \in 0..(Len(b) - 1)
    <3> DEFINE n == Len(b)
    <3>1. n \in Nat \ {0} /\ n # 1
      BY <1>1, <1>7
    <3> HIDE DEF n
    <3>2. 2 \in 1..n /\ 1 \in 0..(n - 1)
      BY <3>1
    <3> QED
      BY <3>2 DEF n
  <2>2. b[2].lo = b[1].hi + 1 /\ b[2].lo \in Nat /\ b[2].hi - b[2].lo + 1 \in Nat
        /\ b[2].lo <= b[2].hi /\ b[2].hi \in Nat
    BY <2>1, ChunkFacts
  <2>3. 0 < Buffer!Size(b[1 + 1])
    BY <2>2 DEF Buffer!Size
  <2>4. Tail(b)[1].lo = b[1 + 1].lo + 0 /\ Tail(b)[1].hi = b[1 + 1].hi
    BY <1>2, <2>1, <2>2
  <2>5. \A i \in 2..Len(Tail(b)) : Tail(b)[i] = b[1 + i]
    BY <1>1, <1>2
  <2>6. DequeOK(Tail(b), d) /\ FirstOf(Tail(b), d) = b[1 + 1].lo + 0
    <3>1. Len(Tail(b)) = Len(b) - 1 /\ Tail(b) \in Seq(Chunk)
      BY <1>2
    <3> DEFINE s == Tail(b)
    <3>2. /\ s \in Seq(Chunk) /\ Len(s) = Len(b) - 1
          /\ s[1].lo = b[1 + 1].lo + 0 /\ s[1].hi = b[1 + 1].hi
          /\ \A i \in 2..Len(s) : s[i] = b[1 + i]
      BY <3>1, <2>4, <2>5
    <3> HIDE DEF s
    <3>3. DequeOK(s, d) /\ FirstOf(s, d) = b[1 + 1].lo + 0
      <4>1. 1 \in 0..(Len(b) - 1) /\ 0 \in Nat /\ 0 < Buffer!Size(b[1 + 1]) /\ DequeOK(b, d)
        BY <2>1, <2>3
      <4> HIDE DEF DequeOK
      <4> QED
        BY <3>2, <4>1, Shortened
    <3> QED
      BY <3>3 DEF s
  <2> QED
    BY <1>5, <2>2, <2>6
<1> QED
  BY <1>6, <1>7

\* Some number of chunks is what pty_read takes whole.
LEMMA WholeChunksExist ==
  ASSUME NEW b, Contiguous(b), NEW m \in Nat
  PROVE  \E j \in 0..Len(b) : /\ Buffer!Total(b, j) <= m
                              /\ j < Len(b) => Buffer!Total(b, j + 1) > m
<1> SUFFICES ASSUME \A j \in 0..Len(b) : Buffer!Total(b, j) <= m =>
                      j < Len(b) /\ ~(Buffer!Total(b, j + 1) > m)
             PROVE  FALSE
  OBVIOUS
<1> DEFINE S == {j \in 0..Len(b) : Buffer!Total(b, j) <= m}
<1>1. Len(b) \in Nat
  BY ChunkFacts
<1>2. \A j \in 0..Len(b) : Buffer!Total(b, j) \in Int
  <2>1. ASSUME NEW j \in 0..Len(b) PROVE Buffer!Total(b, j) \in Int
    <3>1. Buffer!Total(b, j) = Length(b, j)
      BY TotalIs
    <3>2. j # 0 => j \in 1..Len(b) /\ 1 \in 1..Len(b)
      BY <1>1
    <3>3. j # 0 => b[j].hi \in Nat /\ b[1].lo \in Nat
      BY <3>2, ChunkFacts
    <3> QED
      BY <3>1, <3>3 DEF Length
  <2> QED
    BY <2>1
<1>3. 0 \in S
  <2>1. 0 \in 0..Len(b) /\ Length(b, 0) = 0
    BY <1>1 DEF Length
  <2>2. Buffer!Total(b, 0) = 0
    BY <2>1, TotalIs
  <2> QED
    BY <2>1, <2>2
<1>4. ASSUME NEW j \in 1..Len(b), j - 1 \in S PROVE j \in S
  <2>1. j - 1 \in 0..Len(b) /\ j \in 0..Len(b) /\ (j - 1) + 1 = j
    BY <1>1
  <2>2. ~(Buffer!Total(b, j) > m)
    BY <1>4, <2>1
  <2> QED
    BY <1>2, <2>1, <2>2
<1>5. \A j \in 0..Len(b) : j \in S
  <2> HIDE DEF S
  <2> QED
    BY <1>1, <1>3, <1>4, InductionUpTo
<1>6. Len(b) \in S
  BY <1>1, <1>5
<1> QED
  BY <1>1, <1>6

\* The first bytes of a chunk.
LEMMA ChunkCut ==
  ASSUME NEW c \in Chunk, c.lo <= c.hi, NEW p \in Nat, 0 < p, p < Buffer!Size(c)
  PROVE  SubSeq(Buffer!Bytes(c), 1, p) = Run(c.lo, c.lo + p - 1)
<1>1. c.lo \in Nat \ {0} /\ c.hi \in Nat \ {0} /\ p < c.hi - c.lo + 1
  BY DEF Chunk, Buffer!Size
<1>2. Buffer!Bytes(c) = [i \in 1..(c.hi - c.lo + 1) |-> c.lo + i - 1]
  BY DEF Buffer!Bytes, Buffer!Size
<1>3. \A i \in 1..p : Buffer!Bytes(c)[i] = c.lo + i - 1 /\ c.lo + i - 1 \in Nat
  BY <1>1, <1>2
<1>4. /\ SubSeq(Buffer!Bytes(c), 1, p) \in Seq(Nat)
      /\ Len(SubSeq(Buffer!Bytes(c), 1, p)) = p
      /\ \A i \in 1..p : SubSeq(Buffer!Bytes(c), 1, p)[i] = Buffer!Bytes(c)[i]
  <2> DEFINE s == Buffer!Bytes(c)
             q == SubSeq(s, 1, p)
  <2>1. 1 \in Int /\ p \in Int /\ \A i \in 1..p : s[i] \in Nat
    BY <1>3
  <2> HIDE DEF s
  <2>2. /\ q \in Seq(Nat) /\ Len(q) = IF 1 <= p THEN p - 1 + 1 ELSE 0
        /\ \A i \in 1..(p - 1 + 1) : q[i] = s[1 + i - 1]
    BY <2>1, SubSeqProperties
  <2>3. \A i \in 1..p : i \in 1..(p - 1 + 1) /\ 1 + i - 1 = i
    OBVIOUS
  <2>4. Len(q) = p
    BY <2>2
  <2> HIDE DEF q
  <2>5. \A i \in 1..p : q[i] = s[i]
    BY <2>2, <2>3
  <2> QED
    BY <2>2, <2>4, <2>5 DEF q, s
<1>5. (c.lo + p - 1) - c.lo + 1 = p /\ c.lo + p - 1 \in Nat
  BY <1>1
<1>6. /\ Run(c.lo, c.lo + p - 1) \in Seq(Nat) /\ Len(Run(c.lo, c.lo + p - 1)) = p
      /\ \A i \in 1..p : Run(c.lo, c.lo + p - 1)[i] = c.lo + i - 1
  BY <1>1, <1>5, RunType
<1> QED
  BY <1>3, <1>4, <1>6, SeqEqual

\* One pty_read takes the bytes from the left end of the deque up to some byte, and
\* leaves the rest.
LEMMA ReadTakesRun ==
  ASSUME drained \in Nat, DequeOK(buf, drained), NEW m \in Nat, Buffer!PtyRead(m)
  PROVE  \E f \in FirstOf(buf, drained)..(drained + 1) :
           /\ received' = received \o Run(FirstOf(buf, drained), f - 1)
           /\ DequeOK(buf', drained)
           /\ FirstOf(buf', drained) = f
<1> DEFINE k == CHOOSE j \in 0..Len(buf) :
                  /\ Buffer!Total(buf, j) <= m
                  /\ j < Len(buf) => Buffer!Total(buf, j + 1) > m
           part == IF k < Len(buf) THEN m - Buffer!Total(buf, k) ELSE 0
           cut == IF part = 0 THEN <<>> ELSE SubSeq(Buffer!Bytes(buf[k + 1]), 1, part)
           x == FirstOf(buf, drained)
<1>1. received' = received \o (Buffer!Joined(buf, k) \o cut) /\ buf' = Buffer!Rest(k, part)
  BY DEF Buffer!PtyRead
<1>2. Contiguous(buf) /\ buf \in Seq(Chunk) /\ Len(buf) \in Nat
  BY ChunkFacts DEF DequeOK, Contiguous
<1>3. k \in 0..Len(buf) /\ Buffer!Total(buf, k) <= m
      /\ (k < Len(buf) => Buffer!Total(buf, k + 1) > m)
  <2> HIDE DEF part, cut
  <2> QED
    BY <1>2, WholeChunksExist
<1> HIDE DEF k
<1>4. Buffer!Joined(buf, k) = Content(buf, k) /\ Buffer!Total(buf, k) = Length(buf, k)
  BY <1>2, <1>3, JoinedIs, TotalIs
<1>5. x \in 1..(drained + 1)
  BY AllBuffered
<1>6. CASE k = Len(buf)
  <2>1. part = 0 /\ cut = <<>>
    BY <1>2, <1>6
  <2>2. buf' = <<>>
    <3>1. buf' = SubSeq(buf, Len(buf) + 1, Len(buf))
      BY <1>1, <1>6, <2>1 DEF Buffer!Rest
    <3> QED
      BY <1>2, <3>1, SubSeqEmpty
  <2>3. Buffer!Joined(buf, k) = Run(x, drained)
    BY <1>6, AllBuffered
  <2>4. Run(x, drained) \o <<>> = Run(x, drained)
    <3>1. Run(x, drained) \in Seq(Nat)
      <4> HIDE DEF x
      <4>1. x \in Nat \ {0} /\ drained - x + 1 \in Nat
        BY <1>5
      <4> QED
        BY <4>1, RunType
    <3> QED
      BY <3>1, ConcatEmptySeq
  <2>5. DequeOK(<<>>, drained) /\ FirstOf(<<>>, drained) = drained + 1
    BY DEF DequeOK, Contiguous, FirstOf
  <2>6. received' = received \o Run(x, (drained + 1) - 1)
    <3>1. (drained + 1) - 1 = drained
      OBVIOUS
    <3> HIDE DEF x, part, cut
    <3> QED
      BY <1>1, <2>1, <2>3, <2>4, <3>1
  <2>7. drained + 1 \in x..(drained + 1)
    BY <1>5
  <2> QED
    BY <2>2, <2>5, <2>6, <2>7
<1>7. CASE k # Len(buf)
  <2> DEFINE c == buf[k + 1]
  <2>1. k < Len(buf) /\ k \in 0..(Len(buf) - 1) /\ k + 1 \in 1..Len(buf) /\ k + 1 \in 0..Len(buf)
    BY <1>2, <1>3, <1>7
  <2>2. c \in Chunk /\ c.lo \in Nat \ {0} /\ c.hi \in Nat \ {0} /\ c.lo <= c.hi
    BY <1>2, <2>1, ChunkFacts
  <2>3. Buffer!Total(buf, k + 1) = Length(buf, k) + Buffer!Size(c)
    <3>1. Buffer!Total(buf, k + 1) = Length(buf, k + 1)
      BY <1>2, <2>1, TotalIs
    <3>2. Length(buf, k + 1) = Length(buf, (k + 1) - 1) + Buffer!Size(buf[k + 1])
      BY <1>2, <2>1, OneChunkMore
    <3>3. (k + 1) - 1 = k
      BY <2>1
    <3> QED
      BY <3>1, <3>2, <3>3
  <2>4. part = m - Length(buf, k)
    BY <1>4, <2>1
  <2>5. /\ x = buf[1].lo /\ x \in Nat \ {0} /\ x <= c.lo
        /\ Length(buf, k) = c.lo - x
        /\ Content(buf, k) = Run(x, c.lo - 1)
    <3>1. buf # <<>> /\ 1 \in 1..Len(buf)
      BY <2>1
    <3>2. x = buf[1].lo /\ x \in Nat \ {0} /\ x <= c.lo
      BY <1>2, <2>1, <3>1, ChunkFacts, FirstIsOldest DEF FirstOf
    <3>3. CASE k = 0
      <4>1. c.lo = x /\ Length(buf, k) = 0 /\ Content(buf, k) = <<>>
        BY <3>2, <3>3 DEF Length, Content
      <4>2. Run(x, x - 1) = <<>>
        BY <3>2 DEF Run
      <4> QED
        BY <3>2, <4>1, <4>2
    <3>4. CASE k # 0
      <4>1. c.lo = buf[(k + 1) - 1].hi + 1 /\ (k + 1) - 1 = k /\ k + 1 # 1
            /\ k \in 1..Len(buf)
        BY <1>2, <2>1, <3>4, ChunkFacts
      <4>2. buf[k].hi \in Nat
        BY <1>2, <4>1, ChunkFacts
      <4>3. buf[k].hi = c.lo - 1
        BY <2>2, <4>1, <4>2
      <4>4. Content(buf, k) = Run(x, buf[k].hi) /\ Length(buf, k) = buf[k].hi - x + 1
        BY <3>2, <3>4 DEF Content, Length
      <4> QED
        BY <2>2, <3>2, <4>3, <4>4
    <3> QED
      BY <3>2, <3>3, <3>4
  <2>6. part \in Nat /\ part < Buffer!Size(c) /\ Buffer!Size(c) = c.hi - c.lo + 1
    <3>1. Length(buf, k) \in Int /\ Length(buf, k) <= m
      BY <1>3, <1>4, <2>2, <2>5
    <3>2. Buffer!Size(c) = c.hi - c.lo + 1 /\ Buffer!Size(c) \in Int
      BY <2>2 DEF Buffer!Size
    <3>3. Length(buf, k) + Buffer!Size(c) > m
      BY <1>3, <2>1, <2>3
    <3> HIDE DEF part, c
    <3> QED
      BY <2>4, <3>1, <3>2, <3>3
  <2> HIDE DEF x, part
  <2>7. Buffer!Joined(buf, k) \o cut = Run(x, c.lo + part - 1)
    <3>1. CASE part = 0
      <4>1. Run(x, c.lo - 1) \in Seq(Nat)
        <5>1. c.lo - 1 \in Nat /\ (c.lo - 1) - x + 1 \in Nat
          BY <2>2, <2>5
        <5> QED
          BY <2>5, <5>1, RunType
      <4>2. cut = <<>> /\ c.lo + part - 1 = c.lo - 1
        BY <2>2, <3>1
      <4> QED
        BY <1>4, <2>5, <4>1, <4>2, ConcatEmptySeq
    <3>2. CASE part # 0
      <4>1. cut = Run(c.lo, c.lo + part - 1)
        BY <2>2, <2>6, <3>2, ChunkCut
      <4>2. c.lo - 1 \in Nat /\ (c.lo - 1) + 1 = c.lo /\ c.lo + part - 1 \in Nat
            /\ x <= (c.lo - 1) + 1 /\ c.lo - 1 <= c.lo + part - 1
        BY <2>2, <2>5, <2>6
      <4>3. Run(x, c.lo - 1) \o Run((c.lo - 1) + 1, c.lo + part - 1) = Run(x, c.lo + part - 1)
        BY <2>5, <4>2, RunsJoin
      <4> QED
        BY <1>4, <2>5, <4>1, <4>2, <4>3
    <3> QED
      BY <3>1, <3>2
  <2>8. DequeOK(buf', drained) /\ FirstOf(buf', drained) = c.lo + part
    <3>1. CASE part = 0
      <4>1. buf' = SubSeq(buf, k + 1, Len(buf))
        BY <1>1, <3>1 DEF Buffer!Rest
      <4>2. /\ SubSeq(buf, k + 1, Len(buf)) \in Seq(Chunk)
            /\ Len(SubSeq(buf, k + 1, Len(buf))) = Len(buf) - k
            /\ \A i \in 1..(Len(buf) - k) : SubSeq(buf, k + 1, Len(buf))[i] = buf[k + i]
        <5>1. \A i \in (k + 1)..Len(buf) : buf[i] \in Chunk
          BY <1>2, <2>1, ElementOfSeq
        <5>2. /\ SubSeq(buf, k + 1, Len(buf)) \in Seq(Chunk)
              /\ Len(SubSeq(buf, k + 1, Len(buf))) =
                   IF k + 1 <= Len(buf) THEN Len(buf) - (k + 1) + 1 ELSE 0
              /\ \A i \in 1..(Len(buf) - (k + 1) + 1) :
                   SubSeq(buf, k + 1, Len(buf))[i] = buf[(k + 1) + i - 1]
          BY <1>2, <2>1, <5>1, SubSeqProperties
        <5>3. Len(buf) - (k + 1) + 1 = Len(buf) - k
              /\ \A i \in 1..(Len(buf) - k) : (k + 1) + i - 1 = k + i
          BY <1>2, <2>1
        <5> QED
          BY <2>1, <5>2, <5>3
      <4>3. /\ buf' \in Seq(Chunk) /\ Len(buf') = Len(buf) - k
            /\ buf'[1].lo = c.lo + part /\ buf'[1].hi = c.hi
            /\ \A i \in 2..Len(buf') : buf'[i] = buf[k + i]
        <5>1. 1 \in 1..(Len(buf) - k)
          BY <1>2, <2>1
        <5>2. buf'[1] = c
          BY <4>1, <4>2, <5>1
        <5>3. \A i \in 2..(Len(buf) - k) : i \in 1..(Len(buf) - k)
          BY <1>2, <2>1
        <5>4. \A i \in 2..(Len(buf) - k) : buf'[i] = buf[k + i]
          BY <4>1, <4>2, <5>3
        <5>5. c.lo + part = c.lo
          BY <2>2, <3>1
        <5> QED
          BY <4>1, <4>2, <5>2, <5>4, <5>5
      <4> QED
        BY <2>1, <2>6, <4>3, Shortened
    <3>2. CASE part # 0
      <4> DEFINE t == SubSeq(buf, k + 2, Len(buf))
                 d == [c EXCEPT !.lo = @ + part]
      <4>1. buf' = <<d>> \o t
        BY <1>1, <3>2 DEF Buffer!Rest
      <4>2. d \in Chunk /\ d.lo = c.lo + part /\ d.hi = c.hi
        BY <2>2, <2>6 DEF Chunk
      <4>3. /\ t \in Seq(Chunk)
            /\ Len(t) = Len(buf) - k - 1
            /\ \A i \in 1..(Len(buf) - k - 1) : t[i] = buf[k + 1 + i]
        <5>1. \A i \in (k + 2)..Len(buf) : buf[i] \in Chunk
          BY <1>2, <2>1, ElementOfSeq
        <5>2. /\ t \in Seq(Chunk)
              /\ Len(t) = IF k + 2 <= Len(buf) THEN Len(buf) - (k + 2) + 1 ELSE 0
              /\ \A i \in 1..(Len(buf) - (k + 2) + 1) : t[i] = buf[(k + 2) + i - 1]
          BY <1>2, <2>1, <5>1, SubSeqProperties
        <5>3. Len(buf) - (k + 2) + 1 = Len(buf) - k - 1
              /\ (~(k + 2 <= Len(buf)) => Len(buf) - k - 1 = 0)
              /\ \A i \in 1..(Len(buf) - k - 1) : (k + 2) + i - 1 = k + 1 + i
          BY <1>2, <2>1
        <5> HIDE DEF t
        <5> QED
          BY <5>2, <5>3
      <4> HIDE DEF t, d
      <4>4. <<d>> \in Seq(Chunk) /\ Len(<<d>>) = 1 /\ <<d>>[1] = d
        BY <4>2
      <4>5. /\ <<d>> \o t \in Seq(Chunk)
            /\ Len(<<d>> \o t) = Len(<<d>>) + Len(t)
            /\ \A i \in 1..(Len(<<d>>) + Len(t)) :
                 (<<d>> \o t)[i] = IF i <= Len(<<d>>) THEN <<d>>[i] ELSE t[i - Len(<<d>>)]
        BY <4>3, <4>4, ConcatProperties
      <4>6. Len(buf') = Len(buf) - k
        BY <1>2, <2>1, <4>1, <4>3, <4>4, <4>5
      <4>7. buf'[1] = d
        BY <1>2, <2>1, <4>1, <4>3, <4>4, <4>5
      <4>8. ASSUME NEW i \in 2..(Len(buf) - k) PROVE buf'[i] = buf[k + i]
        <5>1. i \in 1..(1 + (Len(buf) - k - 1)) /\ ~(i <= 1)
              /\ i - 1 \in 1..(Len(buf) - k - 1) /\ k + 1 + (i - 1) = k + i
          BY <1>2, <2>1
        <5>2. buf'[i] = t[i - 1]
          BY <4>1, <4>3, <4>4, <4>5, <5>1
        <5> QED
          BY <4>3, <5>1, <5>2
      <4>9. /\ buf' \in Seq(Chunk) /\ Len(buf') = Len(buf) - k
            /\ buf'[1].lo = c.lo + part /\ buf'[1].hi = c.hi
            /\ \A i \in 2..Len(buf') : buf'[i] = buf[k + i]
        BY <4>1, <4>2, <4>5, <4>6, <4>7, <4>8
      <4> QED
        BY <2>1, <2>6, <4>9, Shortened
    <3> QED
      BY <3>1, <3>2
  <2>9. c.lo + part \in x..(drained + 1)
    <3>1. FirstOf(buf', drained) \in 1..(drained + 1)
      BY <2>8, AllBuffered
    <3> QED
      BY <2>2, <2>5, <2>6, <2>8, <3>1
  <2>10. received' = received \o Run(x, (c.lo + part) - 1)
    <3>1. (c.lo + part) - 1 = c.lo + part - 1
      BY <2>2, <2>6
    <3> QED
      BY <1>1, <2>7, <3>1
  <2> QED
    BY <2>8, <2>9, <2>10 DEF x
<1> QED
  BY <1>6, <1>7

---------------------------------------------------------------------------
(* What the client has, what is buffered and what was dropped.             *)

Increasing(r) == \A i \in 1..(Len(r) - 1) : r[i] < r[i + 1]

\* Newer bytes after those the client has.
LEMMA RunAppended ==
  ASSUME NEW r \in Seq(Nat), Increasing(r), NEW x \in Nat \ {0}, NEW y \in Nat, x <= y + 1,
         \A i \in 1..Len(r) : r[i] < x
  PROVE  /\ r \o Run(x, y) \in Seq(Nat)
         /\ Increasing(r \o Run(x, y))
         /\ Len(r \o Run(x, y)) = Len(r) + (y - x + 1)
         /\ \A i \in 1..Len(r \o Run(x, y)) : (r \o Run(x, y))[i] < y + 1
<1> DEFINE s == Run(x, y)
           n == y - x + 1
           a == r \o s
<1>1. n \in Nat /\ Len(r) \in Nat
  BY LenProperties
<1>2. s \in Seq(Nat) /\ Len(s) = n /\ \A i \in 1..n : s[i] = x + i - 1
  BY <1>1, RunType
<1> HIDE DEF s
<1>3. /\ a \in Seq(Nat) /\ Len(a) = Len(r) + n
      /\ \A i \in 1..(Len(r) + n) : a[i] = IF i <= Len(r) THEN r[i] ELSE s[i - Len(r)]
  <2>1. /\ a \in Seq(Nat) /\ Len(a) = Len(r) + Len(s)
        /\ \A i \in 1..(Len(r) + Len(s)) : a[i] = IF i <= Len(r) THEN r[i] ELSE s[i - Len(r)]
    BY <1>2, ConcatProperties
  <2> HIDE DEF a, n
  <2> QED
    BY <1>2, <2>1
<1>4. \A i \in 1..Len(r) : r[i] \in Nat
  BY ElementOfSeq
<1>5. ASSUME NEW i \in 1..(Len(r) + n)
      PROVE  /\ i <= Len(r) => a[i] = r[i]
             /\ ~(i <= Len(r)) => a[i] = x + (i - Len(r)) - 1
  <2>1. ASSUME ~(i <= Len(r)) PROVE i - Len(r) \in 1..n
    BY <1>1, <2>1
  <2> HIDE DEF a, n
  <2> QED
    BY <1>2, <1>3, <2>1
<1> HIDE DEF a
<1>6. ASSUME NEW i \in 1..(Len(r) + n) PROVE a[i] < y + 1
  <2>1. CASE i <= Len(r)
    <3>1. i \in 1..Len(r)
      BY <1>1, <2>1
    <3>2. r[i] \in Nat /\ r[i] < x
      BY <3>1, <1>4
    <3> QED
      BY <1>5, <2>1, <3>2
  <2>2. CASE ~(i <= Len(r))
    BY <1>1, <1>5, <2>2
  <2> QED
    BY <2>1, <2>2
<1>7. ASSUME NEW i \in 1..(Len(r) + n - 1) PROVE a[i] < a[i + 1]
  <2>1. i \in 1..(Len(r) + n) /\ i + 1 \in 1..(Len(r) + n)
    BY <1>1
  <2>2. CASE i + 1 <= Len(r)
    <3>1. i \in 1..(Len(r) - 1) /\ i <= Len(r)
      BY <1>1, <2>2
    <3> QED
      BY <1>5, <2>1, <2>2, <3>1 DEF Increasing
  <2>3. CASE i = Len(r)
    <3>1. a[i] = r[i] /\ i \in 1..Len(r) /\ ~(i + 1 <= Len(r))
      BY <1>1, <1>5, <2>1, <2>3
    <3>2. a[i + 1] = x + ((i + 1) - Len(r)) - 1
      BY <1>5, <2>1, <3>1
    <3>3. x + ((i + 1) - Len(r)) - 1 = x
      BY <1>1, <2>3
    <3> QED
      BY <3>1, <3>2, <3>3
  <2>4. CASE i > Len(r)
    <3>1. ~(i <= Len(r)) /\ ~(i + 1 <= Len(r))
      BY <1>1, <2>4
    <3>2. a[i] = x + (i - Len(r)) - 1 /\ a[i + 1] = x + ((i + 1) - Len(r)) - 1
      BY <1>5, <2>1, <3>1
    <3>3. x + (i - Len(r)) - 1 < x + ((i + 1) - Len(r)) - 1
      BY <1>1
    <3> QED
      BY <3>2, <3>3
  <2> QED
    BY <1>1, <2>2, <2>3, <2>4
<1>8. Increasing(a)
  BY <1>3, <1>7 DEF Increasing
<1>9. \A i \in 1..Len(a) : a[i] < y + 1
  BY <1>3, <1>6
<1> QED
  BY <1>3, <1>8, <1>9 DEF a, s

\* The deque holds the newest bytes, what the client has is older, and what is
\* neither was dropped, while the session has a handle.
BufferInv ==
  /\ printed \in Nat /\ drained \in Nat /\ dropped \in Nat
  /\ DequeOK(buf, drained)
  /\ received \in Seq(Nat)
  /\ Increasing(received)
  /\ \A i \in 1..Len(received) : received[i] < FirstOf(buf, drained)
  /\ Len(received) + dropped < FirstOf(buf, drained)
  /\ Watched \in handles => Len(received) + dropped + 1 = FirstOf(buf, drained)

\* Nothing has been printed at first.
LEMMA InitBufferInv == PtyInit => BufferInv
<1> SUFFICES ASSUME PtyInit PROVE BufferInv
  OBVIOUS
<1>1. printed = 0 /\ drained = 0 /\ dropped = 0 /\ buf = <<>> /\ received = <<>>
  BY DEF PtyInit, Buffer!Init
<1>2. DequeOK(<<>>, 0) /\ FirstOf(<<>>, 0) = 1
  BY DEF DequeOK, Contiguous, FirstOf
<1>3. handles = {}
  BY DEF PtyInit, Init
<1>4. Len(<<>>) = 0 /\ <<>> \in Seq(Nat)
  BY EmptySeq
<1>5. Increasing(<<>>)
  BY <1>4 DEF Increasing
<1> QED
  BY <1>1, <1>2, <1>3, <1>4, <1>5 DEF BufferInv

\* The boundary of a deque that is as BufferInv says.
LEMMA BoundaryType ==
  ASSUME BufferInv
  PROVE  /\ FirstOf(buf, drained) \in Nat \ {0} /\ FirstOf(buf, drained) <= drained + 1
         /\ Len(received) \in Nat
<1>1. FirstOf(buf, drained) \in 1..(drained + 1) /\ drained \in Nat
  BY AllBuffered DEF BufferInv
<1>2. Len(received) \in Nat
  BY LenProperties DEF BufferInv
<1> QED
  BY <1>1, <1>2

\* A step that leaves the buffer alone and gives the session no handle.
LEMMA BufferAlone ==
  ASSUME BufferInv, UNCHANGED bufferVars, (Watched \in handles)' => Watched \in handles
  PROVE  BufferInv'
BY DEF BufferInv, bufferVars

\* pty_close and the end of the MCP server.
LEMMA BufferForgotten ==
  ASSUME BufferInv, UNCHANGED <<printed, drained, dropped, received>>, buf' = <<>>,
         (Watched \notin handles)'
  PROVE  BufferInv'
<1>1. FirstOf(buf, drained) \in Nat /\ FirstOf(buf, drained) <= drained + 1
  BY BoundaryType
<1>2. DequeOK(<<>>, drained) /\ FirstOf(<<>>, drained) = drained + 1
  BY DEF DequeOK, Contiguous, FirstOf
<1>3. Len(received) \in Nat
  BY BoundaryType
<1>4. \A i \in 1..Len(received) : received[i] \in Nat
  BY ElementOfSeq DEF BufferInv
<1>5. \A i \in 1..Len(received) : received[i] < drained + 1
  BY <1>1, <1>4 DEF BufferInv
<1>6. Len(received) + dropped < drained + 1
  BY <1>1, <1>3 DEF BufferInv
<1> QED
  BY <1>2, <1>5, <1>6 DEF BufferInv

\* start_pty ends: nothing has been drained, so nothing was received or dropped.
LEMMA BufferOpened ==
  ASSUME BufferInv, Buffer!PtyOpen
  PROVE  BufferInv'
<1>1. drained = 0 /\ UNCHANGED <<printed, drained, buf, dropped, received>>
  BY DEF Buffer!PtyOpen
<1>2. FirstOf(buf, drained) \in Nat \ {0} /\ FirstOf(buf, drained) <= 1 /\ Len(received) \in Nat
  BY <1>1, BoundaryType
<1>3. Len(received) + dropped + 1 = FirstOf(buf, drained)
  BY <1>2 DEF BufferInv
<1> QED
  BY <1>1, <1>3 DEF BufferInv

\* One round of the drain task, with or without room in the deque.
LEMMA BufferDrained ==
  ASSUME BufferInv, NEW n \in 1..ChunkMax, Drains(n)
  PROVE  BufferInv'
<1> DEFINE c == [lo |-> drained + 1, hi |-> drained + n]
<1>1. /\ Watched \in handles /\ Buffer!AppendChunk(c)
      /\ drained' = drained + n /\ UNCHANGED <<printed, received, handles>>
  BY DEF Drains, Buffer!Drain, sessionVars
<1>2. n \in Nat \ {0} /\ drained \in Nat /\ dropped \in Nat /\ DequeOK(buf, drained)
  BY PtyAssumption DEF BufferInv
<1>3. /\ FirstOf(buf, drained) \in Nat /\ Len(received) \in Nat
      /\ Len(received) + dropped + 1 = FirstOf(buf, drained)
  BY <1>1, BoundaryType DEF BufferInv
<1>4. CASE Len(buf) = DequeMax
  <2>1. buf' = Append(Tail(buf), c) /\ dropped' = dropped + Buffer!Size(Head(buf))
    BY <1>1, <1>4 DEF Buffer!AppendChunk
  <2>2. buf # <<>>
    BY <1>4, PtyAssumption
  <2>3. /\ DequeOK(Tail(buf), drained)
        /\ FirstOf(Tail(buf), drained) = FirstOf(buf, drained) + Buffer!Size(Head(buf))
    BY <1>2, <2>2, OldestDropped
  <2>4. /\ DequeOK(Append(Tail(buf), c), drained + n)
        /\ FirstOf(Append(Tail(buf), c), drained + n) = FirstOf(Tail(buf), drained)
    BY <1>2, <2>3, Appended
  <2>5. Buffer!Size(Head(buf)) \in Nat
    <3>1. 1 \in 1..Len(buf) /\ Head(buf) = buf[1]
      BY <1>4, PtyAssumption
    <3> QED
      BY <1>2, <3>1, ChunkFacts DEF DequeOK, Buffer!Size
  <2>6. FirstOf(buf', drained') = FirstOf(buf, drained) + Buffer!Size(Head(buf))
    BY <1>1, <2>1, <2>3, <2>4
  <2>7. DequeOK(buf', drained')
    BY <1>1, <2>1, <2>4
  <2> HIDE DEF c
  <2>8. \A i \in 1..Len(received) : received[i] \in Nat
    BY ElementOfSeq DEF BufferInv
  <2>9. \A i \in 1..Len(received) : received[i] < FirstOf(buf', drained')
    BY <1>3, <2>5, <2>6, <2>8 DEF BufferInv
  <2>10. Len(received) + dropped' + 1 = FirstOf(buf', drained')
    BY <1>2, <1>3, <2>1, <2>5, <2>6
  <2>11. drained' \in Nat /\ dropped' \in Nat
    BY <1>1, <1>2, <2>1, <2>5
  <2>12. Len(received) + dropped' < FirstOf(buf', drained')
    BY <1>3, <2>10, <2>11
  <2> QED
    BY <1>1, <2>7, <2>9, <2>10, <2>11, <2>12 DEF BufferInv
<1>5. CASE Len(buf) # DequeMax
  <2>1. buf' = Append(buf, c) /\ dropped' = dropped
    BY <1>1, <1>5 DEF Buffer!AppendChunk
  <2>2. /\ DequeOK(Append(buf, c), drained + n)
        /\ FirstOf(Append(buf, c), drained + n) = FirstOf(buf, drained)
    BY <1>2, Appended
  <2>3. DequeOK(buf', drained') /\ FirstOf(buf', drained') = FirstOf(buf, drained)
    BY <1>1, <2>1, <2>2
  <2>4. drained' \in Nat
    BY <1>1, <1>2
  <2> QED
    BY <1>1, <2>1, <2>3, <2>4 DEF BufferInv
<1> QED
  BY <1>4, <1>5

\* pty_read moves the oldest bytes from the deque to the client.
LEMMA BufferRead ==
  ASSUME BufferInv, NEW m \in 1..MaxBytes, Read(m)
  PROVE  BufferInv'
<1>1. Buffer!PtyRead(m) /\ UNCHANGED <<printed, drained, dropped, handles>>
  BY DEF Read, Buffer!PtyRead
<1>2. drained \in Nat /\ DequeOK(buf, drained) /\ m \in Nat
  BY PtyAssumption DEF BufferInv
<1>3. PICK f \in FirstOf(buf, drained)..(drained + 1) :
        /\ received' = received \o Run(FirstOf(buf, drained), f - 1)
        /\ DequeOK(buf', drained)
        /\ FirstOf(buf', drained) = f
  BY <1>1, <1>2, ReadTakesRun
<1> DEFINE x == FirstOf(buf, drained)
<1>4. x \in Nat \ {0} /\ x <= drained + 1 /\ Len(received) \in Nat /\ dropped \in Nat
  BY BoundaryType DEF BufferInv
<1> HIDE DEF x
<1>5. f \in Nat /\ x <= f /\ f - 1 \in Nat /\ x <= (f - 1) + 1
  BY <1>2, <1>3, <1>4 DEF x
<1>6. received \in Seq(Nat) /\ Increasing(received) /\ \A i \in 1..Len(received) : received[i] < x
  BY DEF BufferInv, x
<1>7. /\ received' \in Seq(Nat) /\ Increasing(received')
      /\ Len(received') = Len(received) + ((f - 1) - x + 1)
      /\ \A i \in 1..Len(received') : received'[i] < (f - 1) + 1
  BY <1>3, <1>4, <1>5, <1>6, RunAppended DEF x
<1>8. (f - 1) + 1 = f /\ Len(received') = Len(received) + f - x
  BY <1>4, <1>5, <1>7
<1>9. FirstOf(buf', drained') = f /\ DequeOK(buf', drained')
  BY <1>1, <1>3
<1>10. Len(received) + dropped < x /\ (Watched \in handles => Len(received) + dropped + 1 = x)
  BY DEF BufferInv, x
<1>11. /\ Len(received') + dropped < f
       /\ Watched \in handles => Len(received') + dropped + 1 = f
  BY <1>4, <1>5, <1>8, <1>10
<1> QED
  BY <1>1, <1>2, <1>4, <1>7, <1>8, <1>9, <1>11 DEF BufferInv

\* Each step keeps the invariant of the buffer.
LEMMA BufferKept == ASSUME BufferInv, [PtyNext]_ptyVars PROVE BufferInv'
<1>1. CASE SessionStep
  <2>1. UNCHANGED bufferVars
    BY <1>1 DEF SessionStep
  <2>2. (Watched \in handles)' => Watched \in handles
    BY <1>1 DEF SessionStep, StartChecked, Launched, StartFails, StartDone, ShellEnds, PtyReadDead,
       PtyClose, Restart
  <2> QED
    BY <2>1, <2>2, BufferAlone
<1>2. ASSUME NEW t \in Starts, NEW persisted \in BOOLEAN, Started(t, persisted)
      PROVE  BufferInv'
  BY <1>2, BufferOpened DEF Started
<1>3. CASE Prints
  <2>1. /\ printed' = printed + 1
        /\ UNCHANGED <<drained, buf, dropped, received, handles>>
    BY <1>3 DEF Prints, Buffer!PrintByte, sessionVars
  <2> QED
    BY <2>1 DEF BufferInv
<1>4. ASSUME NEW n \in 1..ChunkMax, Drains(n) PROVE BufferInv'
  BY <1>4, BufferDrained
<1>5. ASSUME NEW m \in 1..MaxBytes, Read(m) PROVE BufferInv'
  BY <1>5, BufferRead
<1>6. ASSUME (Watched \notin handles)',
             IF Watched \in handles THEN Buffer!PtyClose ELSE UNCHANGED bufferVars
      PROVE  BufferInv'
  <2>1. CASE Watched \in handles
    BY <1>6, <2>1, BufferForgotten DEF Buffer!PtyClose
  <2>2. CASE Watched \notin handles
    BY <1>6, <2>2, BufferAlone
  <2> QED
    BY <2>1, <2>2
<1>7. ASSUME NEW persisted \in BOOLEAN, CloseWatched(persisted) PROVE BufferInv'
  BY <1>6, <1>7 DEF CloseWatched, PtyClose
<1>8. CASE CrashAll
  BY <1>6, <1>8 DEF CrashAll, Crash
<1>9. CASE UNCHANGED ptyVars
  BY <1>9, BufferAlone DEF ptyVars, sessionVars
<1> QED
  BY <1>1, <1>2, <1>3, <1>4, <1>5, <1>7, <1>8, <1>9 DEF PtyNext

\* Every step of Pty is a step of PtySessions, so what is proved of the sessions holds
\* of them with their output.
THEOREM PtyImplementsSessions == PtySpec => Spec
<1>1. PtyInit => Init
  BY DEF PtyInit
<1>2. [PtyNext]_ptyVars => [Next]_vars
  <2> SUFFICES ASSUME [PtyNext]_ptyVars PROVE [Next]_vars
    OBVIOUS
  <2>1. CASE SessionStep
    BY <2>1 DEF SessionStep, Next
  <2>2. ASSUME NEW t \in Starts, NEW persisted \in BOOLEAN, Started(t, persisted)
        PROVE  Next
    BY <2>2 DEF Started, Next
  <2>3. CASE Prints
    BY <2>3 DEF Prints, sessionVars, vars
  <2>4. ASSUME NEW n \in 1..ChunkMax, Drains(n) PROVE UNCHANGED vars
    BY <2>4 DEF Drains, sessionVars, vars
  <2>5. ASSUME NEW m \in 1..MaxBytes, Read(m) PROVE [Next]_vars
    <3>1. CASE ReadDead(Watched)
      <4>1. PtyReadDead(Watched)
        BY <2>5, <3>1 DEF Read, PtyReadDead
      <4> QED
        BY <4>1, PtyAssumption DEF Next
    <3>2. CASE ~ReadDead(Watched)
      BY <2>5, <3>2 DEF Read, vars
    <3> QED
      BY <3>1, <3>2
  <2>6. ASSUME NEW persisted \in BOOLEAN, CloseWatched(persisted) PROVE Next
    BY <2>6, PtyAssumption DEF CloseWatched, Next
  <2>7. CASE CrashAll
    BY <2>7 DEF CrashAll, Next
  <2>8. CASE UNCHANGED ptyVars
    BY <2>8 DEF ptyVars, sessionVars, vars
  <2> QED
    BY <2>1, <2>2, <2>3, <2>4, <2>5, <2>6, <2>7, <2>8 DEF PtyNext
<1> QED
  BY <1>1, <1>2, PTL DEF PtySpec, Spec

\* The buffer stays as its invariant says.
THEOREM PtyBufferInvariant == PtySpec => []BufferInv
<1>1. BufferInv /\ [PtyNext]_ptyVars => BufferInv'
  BY BufferKept
<1> QED
  BY <1>1, InitBufferInv, PTL DEF PtySpec

\* No byte of a session's output is delivered twice or out of order, for chunks, deques
\* and reads of any size, across a close, crashes and restarts (session.py, _drain_pty
\* and pty_read).
THEOREM PtyOutputInOrder == PtySpec => []OutputInOrder
<1>1. BufferInv => OutputInOrder
  <2> SUFFICES ASSUME BufferInv PROVE OutputInOrder
    OBVIOUS
  <2>1. Buffer!Joined(buf, Len(buf)) = Run(FirstOf(buf, drained), drained)
    BY AllBuffered DEF BufferInv
  <2>2. Increasing(received \o Run(FirstOf(buf, drained), drained))
    BY BoundaryType, RunAppended DEF BufferInv
  <2> QED
    BY <2>1, <2>2 DEF OutputInOrder, Buffer!OutputInOrder, Increasing
<1> QED
  BY <1>1, PtyBufferInvariant, PTL

\* While a session is recorded as running, every byte the drain task has read is
\* delivered, buffered or counted as dropped, for any overlap of calls, failing saves and
\* sequences of crashes.
THEOREM PtyRunningLosesOnlyByOverflow == PtySpec => []RunningLosesOnlyByOverflow
<1>1. BufferInv /\ IInv => RunningLosesOnlyByOverflow
  <2> SUFFICES ASSUME BufferInv, IInv, Known(Watched), records[Watched].status = "running"
               PROVE  Buffer!Accounted
    BY DEF RunningLosesOnlyByOverflow
  <2>1. records[Watched] \in Record /\ Up
    BY PtyAssumption DEF IInv, TypeOK, Known
  <2>2. Watched \in Running(records[Watched].server) /\ records[Watched].server \in Servers
    BY <2>1, PtyAssumption DEF Running, Known, Record
  <2>3. Watched \in handles
    BY <2>2 DEF IInv, CountedIsHandled
  <2>4. Buffer!Total(buf, Len(buf)) = drained - FirstOf(buf, drained) + 1
    BY AllBuffered DEF BufferInv
  <2>5. /\ Len(received) + dropped + 1 = FirstOf(buf, drained)
        /\ Len(received) \in Nat /\ dropped \in Nat /\ drained \in Nat
        /\ FirstOf(buf, drained) \in Nat
    BY <2>3, BoundaryType DEF BufferInv
  <2> DEFINE x == FirstOf(buf, drained)
             y == Len(received)
             z == Buffer!Total(buf, Len(buf))
  <2>6. z = drained - x + 1 /\ y + dropped + 1 = x /\ y \in Nat /\ x \in Nat
    BY <2>4, <2>5
  <2> HIDE DEF x, y, z
  <2>7. y + z + dropped = drained
    BY <2>5, <2>6
  <2> QED
    BY <2>7 DEF Buffer!Accounted, y, z
<1>2. PtySpec => []IInv
  BY PtyImplementsSessions, PtySessionsInvariant, PTL
<1> QED
  BY <1>1, <1>2, PtyBufferInvariant, PTL
===========================================================================
