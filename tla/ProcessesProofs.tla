-------------------------- MODULE ProcessesProofs --------------------------
(***************************************************************************)
(* Proofs about Processes for any number of processes and overlapping tool  *)
(* calls, logs of any length, and any sequence of crashes and restarts.     *)
(***************************************************************************)
EXTENDS Processes, Integers, TLAPS

\* The remote side of a process: the exit file is written by the wrapper when the
\* command is done, and the wrapper ends after it, or by a signal.
HostOK(r) ==
  /\ r.command = "absent" <=> r.wrapper = "absent"
  /\ r.exitfile # "absent" => r.command = "done"
  /\ r.wrapper = "dead" => r.signalled \/ r.exitfile = "written"

HostsOK == \A p \in Procs : HostOK(remote[p])

\* What call c may rely on after the answers it has, given the remote side r of
\* its process and what the client has read of it so far.
CallOK(c, r, s) ==
  /\ c.proc \in Procs
  /\ c.kind = "start" => (c.at = "begun" <=> r.command = "absent")
  /\ c.kind = "start" => c.at \in {"begun", "sent"}
  /\ c.kind \in {"read", "kill", "check"} => r.command # "absent" /\ c.rec # None
  /\ c.kind = "read" =>
       /\ c.from = Len(s.bytes)
       /\ c.at # "begun" /\ c.exit # None => r.command = "done"
       /\ c.at = "answered" =>
            /\ c.from <= c.upto /\ c.upto <= r.log
            /\ c.exit # None /\ c.upto - c.from < MaxBytes => c.upto = r.log
  /\ c.kind = "check" /\ ~c.alive =>
       /\ c.at # "begun" => r.wrapper = "dead"
       /\ c.at = "answered" /\ c.exit = None => r.signalled

CallsOK ==
  \A t \in Tasks : tasks[t].kind # "none" =>
    Up /\ CallOK(tasks[t], remote[tasks[t].proc], stream[tasks[t].proc])

\* Two starts, or two reads, in progress are about different processes.
Alone ==
  \A t, u \in Tasks :
    /\ tasks[t].kind \in {"start", "read"}
    /\ tasks[u].kind = tasks[t].kind
    /\ tasks[u].proc = tasks[t].proc
    => t = u

\* A record, in memory or in the file, is one of a process that was started.
RecordedIsStarted ==
  \A p \in Procs :
    file[p] # None \/ (Up /\ records[p] # None) => remote[p].command # "absent"

IInv ==
  /\ TypeOK
  /\ HostsOK
  /\ CallsOK
  /\ Alone
  /\ RecordedIsStarted
  /\ StreamIsPrefixOfLog
  /\ EndedStreamIsComplete
  /\ ExitedWithoutCodeWasKilled
  /\ StartedIsRemembered

---------------------------------------------------------------------------
LEMMA InitIInv == Init => IInv
<1> SUFFICES ASSUME Init PROVE IInv
  OBVIOUS
<1> USE DEF Init, Up
<1>1. TypeOK
  <2>1. MaxLog \in Nat
    BY ProcessesAssumption
  <2>2. remote \in [Procs -> Remote]
    BY <2>1 DEF Remote
  <2>3. NoTask \in Task
    BY <2>1 DEF NoTask, Task
  <2>4. \A p \in Procs : stream[p].bytes \in Seq(1..MaxLog) /\ stream[p].ended \in BOOLEAN
    <3>1. \A p \in Procs : stream[p] = [bytes |-> <<>>, ended |-> FALSE]
      OBVIOUS
    <3>2. <<>> \in Seq(1..MaxLog)
      OBVIOUS
    <3> QED
      BY <3>1, <3>2
  <2> QED
    BY <2>2, <2>3, <2>4 DEF TypeOK
<1>2. HostsOK
  BY DEF HostsOK, HostOK
<1>3. CallsOK /\ Alone
  BY DEF CallsOK, Alone, NoTask
<1>4. RecordedIsStarted /\ ExitedWithoutCodeWasKilled
  BY DEF RecordedIsStarted, ExitedWithoutCodeWasKilled
<1>5. StreamIsPrefixOfLog /\ EndedStreamIsComplete /\ StartedIsRemembered
  BY DEF StreamIsPrefixOfLog, EndedStreamIsComplete, StartedIsRemembered
<1> QED
  BY <1>1, <1>2, <1>3, <1>4, <1>5 DEF IInv

---------------------------------------------------------------------------
(* Steps of the remote host.                                               *)

\* How a started process goes on.
Goes(r, q) ==
  /\ q \in Remote
  /\ q.command = "absent" <=> r.command = "absent"
  /\ r.command = "done" => q.command = "done" /\ q.log = r.log
  /\ r.log <= q.log
  /\ r.wrapper = "dead" => q.wrapper = "dead"
  /\ r.signalled => q.signalled
  /\ HostOK(q)

\* When processes go on, what was known of them stays true.
LEMMA RemoteGoesOn ==
  ASSUME IInv, remote' \in [Procs -> Remote],
         \A p \in Procs : Goes(remote[p], remote'[p]),
         UNCHANGED <<records, file, returned, killed, stream>>
  PROVE  /\ HostsOK' /\ RecordedIsStarted'
         /\ StreamIsPrefixOfLog' /\ EndedStreamIsComplete'
         /\ ExitedWithoutCodeWasKilled' /\ StartedIsRemembered'
         /\ \A t \in Tasks : tasks[t].kind # "none" =>
              Up' /\ CallOK(tasks[t], remote'[tasks[t].proc], stream'[tasks[t].proc])
<1> USE DEF IInv, TypeOK, Goes
<1>1. HostsOK'
  BY DEF HostsOK
<1>2. RecordedIsStarted'
  BY DEF RecordedIsStarted, Up
<1>3. StreamIsPrefixOfLog'
  <2> SUFFICES ASSUME NEW p \in Procs
               PROVE  Len(stream[p].bytes) <= remote'[p].log
    BY DEF StreamIsPrefixOfLog
  <2>1. remote[p].log \in Nat /\ remote'[p].log \in Nat /\ Len(stream[p].bytes) \in Nat
    BY ProcessesAssumption DEF Remote
  <2> QED
    BY <2>1 DEF StreamIsPrefixOfLog
<1>4. EndedStreamIsComplete'
  BY DEF EndedStreamIsComplete
<1>5. ExitedWithoutCodeWasKilled'
  BY DEF ExitedWithoutCodeWasKilled, Up
<1>6. StartedIsRemembered'
  BY DEF StartedIsRemembered, Up
<1>7. ASSUME NEW t \in Tasks, tasks[t].kind # "none"
      PROVE  Up' /\ CallOK(tasks[t], remote'[tasks[t].proc], stream'[tasks[t].proc])
  <2> DEFINE c == tasks[t]
             r == remote[c.proc]
             q == remote'[c.proc]
  <2>1. Up /\ CallOK(c, r, stream[c.proc])
    BY <1>7 DEF CallsOK
  <2>2. c \in Task /\ r \in Remote /\ Goes(r, q)
    BY <2>1 DEF CallOK
  <2>3. c.upto \in Int /\ r.log \in Int /\ q.log \in Int
    BY <2>2, ProcessesAssumption DEF Task, Remote
  <2>4. CallOK(c, q, stream[c.proc])
    BY <2>1, <2>2, <2>3 DEF CallOK
  <2> QED
    BY <2>1, <2>4 DEF Up
<1> QED
  BY <1>1, <1>2, <1>3, <1>4, <1>5, <1>6, <1>7

\* One process goes on by itself.
LEMMA ProcessGoesOn ==
  ASSUME IInv, NEW p \in Procs, NEW q, Goes(remote[p], q),
         remote' = [remote EXCEPT ![p] = q],
         UNCHANGED <<records, file, tasks, returned, killed, stream>>
  PROVE  IInv'
<1>1. remote' \in [Procs -> Remote]
  BY DEF IInv, TypeOK, Goes
<1>2. \A i \in Procs : Goes(remote[i], remote'[i])
  <2> TAKE i \in Procs
  <2>1. remote[i] \in Remote /\ HostOK(remote[i]) /\ remote[i].log \in Nat
    BY ProcessesAssumption DEF IInv, TypeOK, HostsOK, Remote
  <2>2. Goes(remote[i], remote[i])
    BY <2>1 DEF Goes
  <2> QED
    BY <2>2 DEF IInv, TypeOK
<1>3. TypeOK' /\ Alone'
  BY <1>1 DEF IInv, TypeOK, Alone, Up
<1>4. CallsOK'
  BY <1>1, <1>2, RemoteGoesOn DEF CallsOK
<1> QED
  BY <1>1, <1>2, <1>3, <1>4, RemoteGoesOn DEF IInv

LEMMA OutputIInv ==
  ASSUME IInv, NEW p \in Procs, Output(p)
  PROVE  IInv'
<1> DEFINE q == [remote[p] EXCEPT !.log = @ + 1]
<1>1. remote[p] \in Remote /\ HostOK(remote[p]) /\ MaxLog \in Nat
  BY ProcessesAssumption DEF IInv, TypeOK, HostsOK
<1>2. Goes(remote[p], q)
  BY <1>1 DEF Goes, HostOK, Remote, Output
<1>3. remote' = [remote EXCEPT ![p] = q]
  BY DEF Output
<1> QED
  BY <1>2, <1>3, ProcessGoesOn DEF Output

LEMMA CommandEndsIInv ==
  ASSUME IInv, NEW p \in Procs, CommandEnds(p)
  PROVE  IInv'
<1> DEFINE q == [remote[p] EXCEPT !.command = "done"]
<1>1. remote[p] \in Remote /\ HostOK(remote[p]) /\ MaxLog \in Nat
  BY ProcessesAssumption DEF IInv, TypeOK, HostsOK
<1>2. Goes(remote[p], q)
  BY <1>1 DEF Goes, HostOK, Remote, CommandEnds
<1>3. remote' = [remote EXCEPT ![p] = q]
  BY DEF CommandEnds
<1> QED
  BY <1>2, <1>3, ProcessGoesOn DEF CommandEnds

LEMMA WrapperStepsIInv ==
  ASSUME IInv, NEW p \in Procs, WrapperSteps(p)
  PROVE  IInv'
<1>1. remote[p] \in Remote /\ HostOK(remote[p]) /\ MaxLog \in Nat
  BY ProcessesAssumption DEF IInv, TypeOK, HostsOK
<1>2. remote[p].command = "done" /\ remote[p].wrapper = "alive"
  BY DEF WrapperSteps
<1>3. UNCHANGED <<records, file, tasks, returned, killed, stream>>
  BY DEF WrapperSteps
<1>4. CASE remote[p].exitfile = "absent"
  <2> DEFINE q == [remote[p] EXCEPT !.exitfile = "empty"]
  <2>1. Goes(remote[p], q)
    BY <1>1, <1>2, <1>4 DEF Goes, HostOK, Remote
  <2>2. remote' = [remote EXCEPT ![p] = q]
    BY <1>4 DEF WrapperSteps
  <2> QED
    BY <2>1, <2>2, <1>3, ProcessGoesOn
<1>5. CASE remote[p].exitfile = "empty"
  <2> DEFINE q == [remote[p] EXCEPT !.exitfile = "written"]
  <2>1. Goes(remote[p], q)
    BY <1>1, <1>2, <1>5 DEF Goes, HostOK, Remote
  <2>2. remote' = [remote EXCEPT ![p] = q]
    BY <1>5 DEF WrapperSteps
  <2> QED
    BY <2>1, <2>2, <1>3, ProcessGoesOn
<1>6. CASE remote[p].exitfile = "written"
  <2> DEFINE q == [remote[p] EXCEPT !.wrapper = "dead"]
  <2>1. Goes(remote[p], q)
    BY <1>1, <1>2, <1>6 DEF Goes, HostOK, Remote
  <2>2. remote' = [remote EXCEPT ![p] = q]
    BY <1>6 DEF WrapperSteps
  <2> QED
    BY <2>1, <2>2, <1>3, ProcessGoesOn
<1> QED
  BY <1>1, <1>4, <1>5, <1>6 DEF Remote

---------------------------------------------------------------------------
(* Steps of the tool calls.                                                *)

\* The other calls with the process of c are not of its kind.
Unshared(t, c) ==
  \A u \in Tasks \ {t} :
    c.kind \in {"start", "read"} /\ tasks[u].kind = c.kind => tasks[u].proc # c.proc

\* A call that keeps its kind and process, or ends, stays unshared.
LEMMA StaysUnshared ==
  ASSUME IInv, NEW t \in Tasks, NEW c,
         c = NoTask \/ (c.kind = tasks[t].kind /\ c.proc = tasks[t].proc)
  PROVE  Unshared(t, c)
<1>1. NoTask.kind = "none"
  BY DEF NoTask
<1> QED
  BY <1>1 DEF Unshared, IInv, Alone

\* The table of calls after a change of one of them.
LEMMA CallMoves ==
  ASSUME IInv, NEW t \in Tasks, NEW c \in Task, Unshared(t, c),
         tasks' = [tasks EXCEPT ![t] = c]
  PROVE  /\ tasks' \in [Tasks -> Task]
         /\ tasks'[t] = c
         /\ \A u \in Tasks \ {t} : tasks'[u] = tasks[u]
         /\ Alone'
<1>1. tasks \in [Tasks -> Task]
  BY DEF IInv, TypeOK
<1>2. tasks'[t] = c /\ \A u \in Tasks \ {t} : tasks'[u] = tasks[u]
  BY <1>1
<1>3. tasks' \in [Tasks -> Task]
  BY <1>1
<1>4. Alone'
  BY <1>2 DEF IInv, Alone, Unshared
<1> QED
  BY <1>2, <1>3, <1>4

LEMMA NoTaskType == NoTask \in Task /\ NoTask.kind = "none"
<1>1. MaxLog \in Nat
  BY ProcessesAssumption
<1> QED
  BY <1>1 DEF NoTask, Task

\* A call that learns something, begins or fails, and nothing else happens.
LEMMA CallChanges ==
  ASSUME IInv, NEW t \in Tasks, NEW c \in Task, Unshared(t, c),
         tasks' = [tasks EXCEPT ![t] = c],
         c.kind # "none" => Up /\ CallOK(c, remote[c.proc], stream[c.proc]),
         UNCHANGED <<remote, records, file, returned, killed, stream>>
  PROVE  IInv'
<1>1. TypeOK'
  BY CallMoves DEF IInv, TypeOK, Up
<1>2. CallsOK'
  <2> SUFFICES ASSUME NEW u \in Tasks, tasks'[u].kind # "none"
               PROVE  (Up /\ CallOK(tasks[u], remote[tasks[u].proc], stream[tasks[u].proc]))'
    BY DEF CallsOK
  <2>1. CASE u = t
    BY <2>1, CallMoves DEF Up
  <2>2. CASE u # t
    <3>1. tasks'[u] = tasks[u]
      BY <2>2, CallMoves
    <3> QED
      BY <3>1 DEF IInv, CallsOK, Up
  <2> QED
    BY <2>1, <2>2
<1>3. HostsOK' /\ RecordedIsStarted'
  BY DEF IInv, HostsOK, RecordedIsStarted, Up
<1>4. StreamIsPrefixOfLog' /\ EndedStreamIsComplete'
  BY DEF IInv, StreamIsPrefixOfLog, EndedStreamIsComplete
<1>5. ExitedWithoutCodeWasKilled' /\ StartedIsRemembered'
  BY DEF IInv, ExitedWithoutCodeWasKilled, StartedIsRemembered, Up
<1> QED
  BY <1>1, <1>2, <1>3, <1>4, <1>5, CallMoves DEF IInv

LEMMA AbortIInv ==
  ASSUME IInv, NEW t \in Tasks, Abort(t)
  PROVE  IInv'
<1>1. Unshared(t, NoTask)
  BY StaysUnshared
<1> QED
  BY <1>1, NoTaskType, CallChanges DEF Abort

\* A call that begins.
Begun(kind, p) ==
  [NoTask EXCEPT !.kind = kind, !.proc = p, !.at = "begun", !.rec = records[p],
                 !.from = Len(stream[p].bytes)]

LEMMA BegunFacts ==
  ASSUME IInv, Up, NEW p \in Procs, NEW kind \in {"start", "read", "kill", "check"}
  PROVE  /\ Begun(kind, p) \in Task
         /\ Begun(kind, p).kind = kind /\ Begun(kind, p).proc = p
         /\ Begun(kind, p).at = "begun" /\ Begun(kind, p).rec = records[p]
         /\ Begun(kind, p).from = Len(stream[p].bytes)
<1>1. records[p] \in Record \cup {None}
  BY DEF IInv, TypeOK
<1>2. Len(stream[p].bytes) \in 0..MaxLog
  <2>1. Len(stream[p].bytes) \in Nat /\ remote[p].log \in 0..MaxLog /\ MaxLog \in Nat
    BY ProcessesAssumption DEF IInv, TypeOK, Remote
  <2>2. Len(stream[p].bytes) <= remote[p].log
    BY DEF IInv, StreamIsPrefixOfLog
  <2> QED
    BY <2>1, <2>2
<1>3. 0 \in 0..MaxLog
  BY ProcessesAssumption
<1> QED
  BY <1>1, <1>2, <1>3 DEF Begun, NoTask, Task

LEMMA StartBeginIInv ==
  ASSUME IInv, NEW t \in Tasks, NEW p \in Procs, StartBegin(t, p)
  PROVE  IInv'
<1> DEFINE c == Begun("start", p)
<1>1. Up /\ remote[p].command = "absent" /\ tasks' = [tasks EXCEPT ![t] = c]
  BY DEF StartBegin, Begin, Begun
<1>2. c \in Task /\ c.kind = "start" /\ c.proc = p /\ c.at = "begun"
  BY <1>1, BegunFacts
<1>3. Unshared(t, c)
  BY <1>2 DEF Unshared, StartBegin
<1>4. CallOK(c, remote[c.proc], stream[c.proc])
  BY <1>1, <1>2 DEF CallOK
<1> HIDE DEF c
<1> QED
  BY <1>1, <1>2, <1>3, <1>4, CallChanges DEF StartBegin, Begin

LEMMA UseBeginIInv ==
  ASSUME IInv, NEW t \in Tasks, NEW p \in Procs, NEW kind \in {"read", "kill", "check"},
         UseBegin(t, kind, p)
  PROVE  IInv'
<1> DEFINE c == Begun(kind, p)
<1>1. Up /\ records[p] # None /\ tasks' = [tasks EXCEPT ![t] = c]
  BY DEF UseBegin, Known, Begin, Begun
<1>2. /\ c \in Task /\ c.kind = kind /\ c.proc = p /\ c.at = "begun"
      /\ c.rec = records[p] /\ c.from = Len(stream[p].bytes)
  BY <1>1, BegunFacts
<1>3. Unshared(t, c)
  BY <1>2 DEF Unshared, UseBegin
<1>4. remote[p].command # "absent"
  BY <1>1 DEF IInv, RecordedIsStarted
<1>5. CallOK(c, remote[c.proc], stream[c.proc])
  BY <1>1, <1>2, <1>4 DEF CallOK
<1> HIDE DEF c
<1> QED
  BY <1>1, <1>2, <1>3, <1>5, CallChanges DEF UseBegin, Begin

\* Facts about a call in progress and the process it is about.
LEMMA BusyFacts ==
  ASSUME IInv, NEW t \in Tasks, tasks[t].kind # "none"
  PROVE  /\ Up /\ tasks[t] \in Task /\ tasks[t].proc \in Procs
         /\ CallOK(tasks[t], remote[tasks[t].proc], stream[tasks[t].proc])
         /\ remote[tasks[t].proc] \in Remote /\ HostOK(remote[tasks[t].proc])
         /\ remote[tasks[t].proc].log \in 0..MaxLog /\ MaxLog \in Nat
         /\ MaxBytes \in Nat \ {0}
         /\ tasks[t].from \in 0..MaxLog /\ tasks[t].upto \in 0..MaxLog
<1>1. Up /\ tasks[t] \in Task
      /\ CallOK(tasks[t], remote[tasks[t].proc], stream[tasks[t].proc])
  BY DEF IInv, TypeOK, CallsOK
<1>2. tasks[t].proc \in Procs
  BY <1>1 DEF CallOK
<1>3. remote[tasks[t].proc] \in Remote /\ HostOK(remote[tasks[t].proc])
  BY <1>2 DEF IInv, TypeOK, HostsOK
<1>4. remote[tasks[t].proc].log \in 0..MaxLog
  BY <1>3 DEF Remote
<1>5. tasks[t].from \in 0..MaxLog /\ tasks[t].upto \in 0..MaxLog
  BY <1>1 DEF Task
<1> QED
  BY <1>1, <1>2, <1>3, <1>4, <1>5, ProcessesAssumption

LEMMA ReadAsksIInv ==
  ASSUME IInv, NEW t \in Tasks, ReadAsks(t)
  PROVE  IInv'
<1> DEFINE x == tasks[t]
           r == remote[x.proc]
<1>1. x.kind = "read" /\ x.kind # "none"
  BY DEF ReadAsks, Ask, At
<1>2. /\ Up /\ x \in Task /\ x.proc \in Procs /\ CallOK(x, r, stream[x.proc])
      /\ HostOK(r) /\ r.log \in 0..MaxLog /\ MaxLog \in Nat /\ MaxBytes \in Nat \ {0}
      /\ x.from \in 0..MaxLog
  BY <1>1, BusyFacts
<1>3. UNCHANGED <<remote, records, file, returned, killed, stream>>
  BY DEF ReadAsks, Ask
<1>4. CASE Ask(t, "read", "begun", "sent", WithExit(t))
  <2> DEFINE c == [x EXCEPT !.exit = ExitContent(x.proc), !.at = "sent"]
  <2>1. tasks' = [tasks EXCEPT ![t] = c]
    BY <1>2, <1>4 DEF Ask, WithExit, Task
  <2>2. ExitContent(x.proc) \in {None, Code} /\ (ExitContent(x.proc) # None => r.command = "done")
    BY <1>2 DEF ExitContent, HostOK
  <2>3. /\ c \in Task /\ c.kind = "read" /\ c.proc = x.proc /\ c.from = x.from
        /\ c.at = "sent" /\ c.exit = ExitContent(x.proc) /\ c.rec = x.rec
    BY <1>1, <1>2, <2>2 DEF Task
  <2> HIDE DEF c
  <2>4. CallOK(c, r, stream[x.proc])
    BY <1>1, <1>2, <2>2, <2>3 DEF CallOK
  <2>5. Unshared(t, c)
    BY <1>1, <2>3, StaysUnshared
  <2> QED
    BY <1>2, <1>3, <2>1, <2>3, <2>4, <2>5, CallChanges
<1>5. CASE Ask(t, "read", "sent", "answered", WithLog(t))
  <2> DEFINE m == Minimum(r.log, x.from + MaxBytes)
             c == [x EXCEPT !.upto = m, !.at = "answered"]
  <2>1. tasks' = [tasks EXCEPT ![t] = c] /\ x.at = "sent"
    BY <1>2, <1>5 DEF Ask, WithLog, Task, At
  <2>2. x.from = Len(stream[x.proc].bytes) /\ (x.exit # None => r.command = "done")
    BY <1>1, <1>2, <2>1 DEF CallOK
  <2>3. x.from <= r.log
    BY <1>2, <2>2 DEF IInv, StreamIsPrefixOfLog
  <2>4. /\ m \in 0..MaxLog /\ x.from <= m /\ m <= r.log
        /\ m - x.from < MaxBytes => m = r.log
    BY <1>2, <2>3 DEF Minimum
  <2> HIDE DEF m
  <2>5. /\ c \in Task /\ c.kind = "read" /\ c.proc = x.proc /\ c.from = x.from
        /\ c.at = "answered" /\ c.exit = x.exit /\ c.rec = x.rec /\ c.upto = m
    BY <1>1, <1>2, <2>4 DEF Task
  <2> HIDE DEF c
  <2>6. CallOK(c, r, stream[x.proc])
    BY <1>1, <1>2, <2>2, <2>4, <2>5 DEF CallOK
  <2>7. Unshared(t, c)
    BY <1>1, <2>5, StaysUnshared
  <2> QED
    BY <1>2, <1>3, <2>1, <2>5, <2>6, <2>7, CallChanges
<1> QED
  BY <1>4, <1>5 DEF ReadAsks

LEMMA CheckAsksIInv ==
  ASSUME IInv, NEW t \in Tasks, CheckAsks(t)
  PROVE  IInv'
<1> DEFINE x == tasks[t]
           r == remote[x.proc]
<1>1. x.kind = "check" /\ x.kind # "none"
  BY DEF CheckAsks, Ask, At
<1>2. /\ Up /\ x \in Task /\ x.proc \in Procs /\ CallOK(x, r, stream[x.proc])
      /\ HostOK(r) /\ r \in Remote
  BY <1>1, BusyFacts
<1>3. UNCHANGED <<remote, records, file, returned, killed, stream>>
  BY DEF CheckAsks, Ask
<1>4. CASE Ask(t, "check", "begun", "sent", WithAlive(t))
  <2> DEFINE c == [x EXCEPT !.alive = (r.wrapper = "alive"), !.at = "sent"]
  <2>1. tasks' = [tasks EXCEPT ![t] = c]
    BY <1>2, <1>4 DEF Ask, WithAlive, Task
  <2>2. /\ c \in Task /\ c.kind = "check" /\ c.proc = x.proc
        /\ c.at = "sent" /\ c.rec = x.rec /\ (c.alive <=> r.wrapper = "alive")
    BY <1>1, <1>2 DEF Task
  <2>3. r.wrapper # "alive" => r.wrapper = "dead"
    BY <1>1, <1>2 DEF CallOK, HostOK, Remote
  <2> HIDE DEF c
  <2>4. CallOK(c, r, stream[x.proc])
    BY <1>1, <1>2, <2>2, <2>3 DEF CallOK
  <2>5. Unshared(t, c)
    BY <1>1, <2>2, StaysUnshared
  <2> QED
    BY <1>2, <1>3, <2>1, <2>2, <2>4, <2>5, CallChanges
<1>5. CASE Ask(t, "check", "sent", "answered", WithExit(t))
  <2> DEFINE c == [x EXCEPT !.exit = ExitContent(x.proc), !.at = "answered"]
  <2>1. tasks' = [tasks EXCEPT ![t] = c] /\ x.at = "sent"
    BY <1>2, <1>5 DEF Ask, WithExit, Task, At
  <2>2. ExitContent(x.proc) \in {None, Code}
        /\ (r.exitfile = "written" => ExitContent(x.proc) # None)
    BY NoneAssumption DEF ExitContent
  <2>3. /\ c \in Task /\ c.kind = "check" /\ c.proc = x.proc /\ c.alive = x.alive
        /\ c.at = "answered" /\ c.exit = ExitContent(x.proc) /\ c.rec = x.rec
    BY <1>1, <1>2, <2>2 DEF Task
  <2> HIDE DEF c
  <2>4. CallOK(c, r, stream[x.proc])
    BY <1>1, <1>2, <2>1, <2>2, <2>3 DEF CallOK, HostOK
  <2>5. Unshared(t, c)
    BY <1>1, <2>3, StaysUnshared
  <2> QED
    BY <1>2, <1>3, <2>1, <2>3, <2>4, <2>5, CallChanges
<1> QED
  BY <1>4, <1>5 DEF CheckAsks

---------------------------------------------------------------------------
(* Commands with an effect on the remote host.                             *)

LEMMA KillSentIInv ==
  ASSUME IInv, NEW t \in Tasks, NEW deadly \in BOOLEAN, KillSent(t, deadly)
  PROVE  IInv'
<1> DEFINE x == tasks[t]
           p == x.proc
           c == [x EXCEPT !.at = "answered"]
           q == [remote[p] EXCEPT !.wrapper = "dead", !.signalled = TRUE]
<1>1. x.kind = "kill" /\ x.kind # "none"
  BY DEF KillSent, At
<1>2. /\ Up /\ x \in Task /\ p \in Procs /\ CallOK(x, remote[p], stream[p])
      /\ HostOK(remote[p]) /\ remote[p] \in Remote /\ remote[p].log \in 0..MaxLog
      /\ MaxLog \in Nat
  BY <1>1, BusyFacts
<1>3. /\ tasks' = [tasks EXCEPT ![t] = c]
      /\ UNCHANGED <<records, file, returned, killed, stream>>
  BY <1>2 DEF KillSent, Task
<1>4. /\ c \in Task /\ c.kind = "kill" /\ c.proc = p /\ c.rec = x.rec
  BY <1>1, <1>2 DEF Task
<1>5. Unshared(t, c)
  BY <1>1, <1>4, StaysUnshared
<1>6. \A i \in Procs : Goes(remote[i], remote[i])
  <2> TAKE i \in Procs
  <2>1. remote[i] \in Remote /\ HostOK(remote[i]) /\ remote[i].log \in Nat
    BY ProcessesAssumption DEF IInv, TypeOK, HostsOK, Remote
  <2> QED
    BY <2>1 DEF Goes
<1>7. remote' \in [Procs -> Remote] /\ \A i \in Procs : Goes(remote[i], remote'[i])
  <2>1. CASE deadly /\ remote[p].wrapper = "alive"
    <3> DEFINE r == remote[p]
    <3>0. /\ q \in Remote /\ q.command = r.command /\ q.wrapper = "dead"
          /\ q.exitfile = r.exitfile /\ q.log = r.log /\ q.signalled
      BY <1>2 DEF Remote
    <3>1. Goes(r, q)
      BY <1>2, <2>1, <3>0 DEF Goes, HostOK
    <3>2. remote' = [remote EXCEPT ![p] = q]
      BY <2>1 DEF KillSent
    <3> HIDE DEF q
    <3>3. remote \in [Procs -> Remote] /\ q \in Remote
      BY <3>1 DEF IInv, TypeOK, Goes
    <3> QED
      BY <1>2, <1>6, <3>1, <3>2, <3>3
  <2>2. CASE ~(deadly /\ remote[p].wrapper = "alive")
    <3>1. remote' = remote
      BY <2>2 DEF KillSent
    <3> QED
      BY <1>6, <3>1 DEF IInv, TypeOK
  <2> QED
    BY <2>1, <2>2
<1> HIDE DEF c
<1>8. /\ HostsOK' /\ RecordedIsStarted'
      /\ StreamIsPrefixOfLog' /\ EndedStreamIsComplete'
      /\ ExitedWithoutCodeWasKilled' /\ StartedIsRemembered'
      /\ \A u \in Tasks : tasks[u].kind # "none" =>
           Up' /\ CallOK(tasks[u], remote'[tasks[u].proc], stream'[tasks[u].proc])
  BY <1>3, <1>7, RemoteGoesOn
<1>9. TypeOK' /\ Alone'
  BY <1>3, <1>4, <1>5, <1>7, CallMoves DEF IInv, TypeOK, Up
<1>10. CallsOK'
  <2> SUFFICES ASSUME NEW u \in Tasks, tasks'[u].kind # "none"
               PROVE  (Up /\ CallOK(tasks[u], remote[tasks[u].proc], stream[tasks[u].proc]))'
    BY DEF CallsOK
  <2>1. CASE u = t
    <3>1. Up' /\ CallOK(x, remote'[p], stream'[p])
      BY <1>1, <1>8
    <3>2. CallOK(c, remote'[p], stream'[p])
      BY <1>1, <1>4, <3>1 DEF CallOK
    <3>3. tasks'[t] = c
      BY <1>3, <1>4, <1>5, CallMoves
    <3> QED
      BY <1>4, <2>1, <3>1, <3>2, <3>3
  <2>2. CASE u # t
    <3>1. tasks'[u] = tasks[u]
      BY <2>2, <1>3, <1>4, <1>5, CallMoves
    <3> QED
      BY <1>8, <3>1
  <2> QED
    BY <2>1, <2>2
<1> QED
  BY <1>8, <1>9, <1>10 DEF IInv

\* A process starts: nothing is known of it yet but that it has not started.
LEMMA StartSentIInv ==
  ASSUME IInv, NEW t \in Tasks, StartSent(t)
  PROVE  IInv'
<1> DEFINE x == tasks[t]
           p == x.proc
           c == [x EXCEPT !.at = "sent"]
           q == [remote[p] EXCEPT !.command = "running", !.wrapper = "alive"]
<1>1. x.kind = "start" /\ x.at = "begun" /\ x.kind # "none"
  BY DEF StartSent, At
<1>2. /\ Up /\ x \in Task /\ p \in Procs /\ CallOK(x, remote[p], stream[p])
      /\ HostOK(remote[p]) /\ remote[p] \in Remote
  BY <1>1, BusyFacts
<1>3. /\ tasks' = [tasks EXCEPT ![t] = c] /\ remote' = [remote EXCEPT ![p] = q]
      /\ UNCHANGED <<records, file, returned, killed, stream>>
  BY <1>2 DEF StartSent, Task
<1>4. c \in Task /\ c.kind = "start" /\ c.proc = p /\ c.at = "sent" /\ c.rec = x.rec
  BY <1>1, <1>2 DEF Task
<1>5. remote[p].command = "absent" /\ remote[p].wrapper = "absent"
      /\ remote[p].exitfile = "absent"
  BY <1>1, <1>2 DEF CallOK, HostOK
<1>6. /\ q \in Remote /\ HostOK(q) /\ q.command = "running" /\ q.wrapper = "alive"
      /\ q.log = remote[p].log
  BY <1>2, <1>5 DEF Remote, HostOK
<1>7. Unshared(t, c)
  BY <1>1, <1>4, StaysUnshared
<1> HIDE DEF c, q
<1>8. remote' \in [Procs -> Remote] /\ remote'[p] = q
      /\ \A i \in Procs \ {p} : remote'[i] = remote[i]
  BY <1>2, <1>3, <1>6 DEF IInv, TypeOK
<1>9. TypeOK' /\ Alone'
  BY <1>3, <1>4, <1>7, <1>8, CallMoves DEF IInv, TypeOK, Up
<1>10. HostsOK'
  BY <1>6, <1>8 DEF IInv, HostsOK
<1>11. RecordedIsStarted'
  BY <1>3, <1>6, <1>8 DEF IInv, RecordedIsStarted, Up
<1>12. StreamIsPrefixOfLog'
  BY <1>3, <1>6, <1>8 DEF IInv, StreamIsPrefixOfLog
<1>13. EndedStreamIsComplete'
  BY <1>3, <1>5, <1>8 DEF IInv, EndedStreamIsComplete
<1>14. ExitedWithoutCodeWasKilled'
  BY <1>3, <1>5, <1>8 DEF IInv, ExitedWithoutCodeWasKilled, Up
<1>15. StartedIsRemembered'
  BY <1>3 DEF IInv, StartedIsRemembered, Up
<1>16. CallsOK'
  <2> SUFFICES ASSUME NEW u \in Tasks, tasks'[u].kind # "none"
               PROVE  (Up /\ CallOK(tasks[u], remote[tasks[u].proc], stream[tasks[u].proc]))'
    BY DEF CallsOK
  <2>1. CASE u = t
    <3>1. tasks'[t] = c
      BY <1>3, <1>4, <1>7, CallMoves
    <3>2. CallOK(c, q, stream[p])
      BY <1>2, <1>4, <1>6 DEF CallOK
    <3> QED
      BY <1>2, <1>3, <1>4, <1>8, <2>1, <3>1, <3>2 DEF Up
  <2>2. CASE u # t
    <3> DEFINE y == tasks[u]
    <3>1. tasks'[u] = y
      BY <2>2, <1>3, <1>4, <1>7, CallMoves
    <3>2. Up /\ CallOK(y, remote[y.proc], stream[y.proc]) /\ y \in Task
      BY <3>1 DEF IInv, CallsOK, TypeOK
    <3>3. y.proc # p
      <4> SUFFICES ASSUME y.proc = p PROVE FALSE
        OBVIOUS
      <4>1. y.kind \notin {"read", "kill", "check"}
        BY <1>5, <3>2 DEF CallOK
      <4>2. y.kind = "start"
        BY <4>1, <3>1, <3>2 DEF Task
      <4> QED
        BY <1>1, <2>2, <4>2 DEF IInv, Alone
    <3>4. y.proc \in Procs
      BY <3>2 DEF CallOK
    <3> QED
      BY <1>3, <1>8, <3>1, <3>2, <3>3, <3>4 DEF Up
  <2> QED
    BY <2>1, <2>2
<1> QED
  BY <1>9, <1>10, <1>11, <1>12, <1>13, <1>14, <1>15, <1>16 DEF IInv

---------------------------------------------------------------------------
(* The end of a call.                                                      *)

\* A call that ends leaves the others as they are.
LEMMA CallEnds ==
  ASSUME IInv, NEW t \in Tasks, tasks' = [tasks EXCEPT ![t] = NoTask],
         UNCHANGED remote, Up',
         \A u \in Tasks \ {t} : tasks[u].kind = "read" =>
           stream'[tasks[u].proc] = stream[tasks[u].proc]
  PROVE  tasks' \in [Tasks -> Task] /\ Alone' /\ CallsOK'
<1>1. Unshared(t, NoTask)
  BY StaysUnshared
<1>2. /\ tasks' \in [Tasks -> Task] /\ tasks'[t] = NoTask
      /\ \A u \in Tasks \ {t} : tasks'[u] = tasks[u]
      /\ Alone'
  BY <1>1, NoTaskType, CallMoves
<1>3. CallsOK'
  <2> SUFFICES ASSUME NEW u \in Tasks, tasks'[u].kind # "none"
               PROVE  CallOK(tasks[u], remote[tasks[u].proc], stream[tasks[u].proc])'
    BY DEF CallsOK
  <2>1. u # t /\ tasks'[u] = tasks[u]
    BY <1>2, NoTaskType
  <2>2. CallOK(tasks[u], remote[tasks[u].proc], stream[tasks[u].proc])
    BY <2>1 DEF IInv, CallsOK
  <2>3. CASE tasks[u].kind = "read"
    BY <2>1, <2>2, <2>3
  <2>4. CASE tasks[u].kind # "read"
    BY <2>1, <2>2, <2>4 DEF CallOK
  <2> QED
    BY <2>3, <2>4
<1> QED
  BY <1>2, <1>3

\* A function on 1..k is a sequence of length k.
LEMMA FunctionAsSequence ==
  ASSUME NEW S, NEW k \in Nat, NEW f \in [1..k -> S]
  PROVE  f \in Seq(S) /\ Len(f) = k
OBVIOUS

\* A client that appends the bytes from its offset on has a prefix of the log.
LEMMA Appending ==
  ASSUME NEW m \in Nat, NEW s \in Seq(1..m), NEW upto \in 0..m, Len(s) <= upto,
         \A i \in 1..Len(s) : s[i] = i,
         NEW more \in Seq(1..m), Len(more) = upto - Len(s),
         \A i \in 1..(upto - Len(s)) : more[i] = Len(s) + i
  PROVE  /\ s \o more \in Seq(1..m)
         /\ Len(s \o more) = upto
         /\ \A i \in 1..upto : (s \o more)[i] = i
<1> DEFINE n == upto - Len(s)
<1>1. Len(s) \in Nat /\ n \in Nat
  OBVIOUS
<1>4. Len(more) = n /\ \A i \in 1..n : more[i] = Len(s) + i
  OBVIOUS
<1>5. s \o more \in Seq(1..m) /\ Len(s \o more) = upto
  BY <1>1, <1>4
<1>6. ASSUME NEW i \in 1..upto
      PROVE  (s \o more)[i] = i
  <2>1. CASE i <= Len(s)
    BY <1>1, <1>4, <2>1
  <2>2. CASE i > Len(s)
    <3>1. i - Len(s) \in 1..n
      BY <1>1, <2>2
    <3>2. (s \o more)[i] = more[i - Len(s)]
      BY <1>1, <1>4, <2>2
    <3> QED
      BY <1>1, <1>4, <3>1, <3>2
  <2>3. i <= Len(s) \/ i > Len(s)
    BY <1>1
  <2> QED
    BY ONLY <2>1, <2>2, <2>3
<1> QED
  BY <1>5, <1>6

LEMMA ReadDoneIInv ==
  ASSUME IInv, NEW t \in Tasks, ReadDone(t)
  PROVE  IInv'
<1> DEFINE x == tasks[t]
           p == x.proc
           r == remote[p]
           n == x.upto - x.from
           b == stream[p].bytes \o [i \in 1..n |-> x.from + i]
           e == (x.exit # None /\ n < MaxBytes)
<1>1. x.kind = "read" /\ x.at = "answered" /\ x.kind # "none"
  BY DEF ReadDone, At
<1>2. /\ Up /\ p \in Procs /\ CallOK(x, r, stream[p])
      /\ r.log \in 0..MaxLog /\ MaxLog \in Nat /\ MaxBytes \in Nat \ {0}
      /\ x.from \in 0..MaxLog /\ x.upto \in 0..MaxLog
  BY <1>1, BusyFacts
<1>3. /\ x.from = Len(stream[p].bytes) /\ x.from <= x.upto /\ x.upto <= r.log
      /\ (x.exit # None => r.command = "done")
      /\ (e => x.upto = r.log)
  BY <1>1, <1>2 DEF CallOK
<1>4. stream \in [Procs -> [bytes : Seq(1..MaxLog), ended : BOOLEAN]]
  BY DEF IInv, TypeOK
<1>5. b \in Seq(1..MaxLog) /\ Len(b) = x.upto /\ \A i \in 1..x.upto : b[i] = i
  <2>1. stream[p].bytes \in Seq(1..MaxLog)
    BY <1>2, <1>4
  <2>2. \A i \in 1..Len(stream[p].bytes) : stream[p].bytes[i] = i
    BY <1>2 DEF IInv, StreamIsPrefixOfLog
  <2> DEFINE y == stream[p].bytes
             more == [i \in 1..(x.upto - Len(y)) |-> Len(y) + i]
  <2>3. b = y \o more
    BY <1>3
  <2>4. y \in Seq(1..MaxLog) /\ Len(y) <= x.upto /\ \A i \in 1..Len(y) : y[i] = i
    BY <1>3, <2>1, <2>2
  <2>5. more \in Seq(1..MaxLog) /\ Len(more) = x.upto - Len(y)
        /\ \A i \in 1..(x.upto - Len(y)) : more[i] = Len(y) + i
    <3> HIDE DEF y
    <3>1. x.upto - Len(y) \in Nat /\ \A i \in 1..(x.upto - Len(y)) : Len(y) + i \in 1..MaxLog
      BY <1>2, <2>4
    <3>2. more \in [1..(x.upto - Len(y)) -> 1..MaxLog]
      BY <3>1
    <3>3. \A i \in 1..(x.upto - Len(y)) : more[i] = Len(y) + i
      OBVIOUS
    <3> DEFINE k == x.upto - Len(y)
    <3> HIDE DEF more
    <3>4. k \in Nat /\ more \in [1..k -> 1..MaxLog]
      BY <3>1, <3>2
    <3> HIDE DEF k
    <3>5. more \in Seq(1..MaxLog) /\ Len(more) = k
      BY <3>4, FunctionAsSequence
    <3> QED
      BY <3>3, <3>5, Zenon DEF k
  <2> HIDE DEF y, more, b
  <2>6. y \o more \in Seq(1..MaxLog) /\ Len(y \o more) = x.upto
        /\ \A i \in 1..x.upto : (y \o more)[i] = i
    <3> DEFINE u == x.upto
    <3>1. u \in 0..MaxLog /\ MaxLog \in Nat
      BY <1>2
    <3>2. /\ Len(y) <= u /\ Len(more) = u - Len(y)
          /\ \A i \in 1..(u - Len(y)) : more[i] = Len(y) + i
      BY <2>4, <2>5
    <3> HIDE DEF u
    <3>3. y \o more \in Seq(1..MaxLog) /\ Len(y \o more) = u
          /\ \A i \in 1..u : (y \o more)[i] = i
      BY <2>4, <2>5, <3>1, <3>2, Appending
    <3> QED
      BY <3>3 DEF u
  <2> QED
    BY <2>3, <2>6
<1>6. stream' = [stream EXCEPT ![p] = [bytes |-> b, ended |-> e]]
  BY DEF ReadDone
<1>7. e \in BOOLEAN
  OBVIOUS
<1> HIDE DEF b, e
<1>8. /\ stream' \in [Procs -> [bytes : Seq(1..MaxLog), ended : BOOLEAN]]
      /\ \A i \in Procs \ {p} : stream'[i] = stream[i]
      /\ stream'[p] = [bytes |-> b, ended |-> e]
  BY <1>2, <1>4, <1>5, <1>6, <1>7
<1>9. /\ UNCHANGED <<remote, records, file, returned, killed>>
      /\ tasks' = [tasks EXCEPT ![t] = NoTask] /\ Up'
  BY <1>2 DEF ReadDone, Up
<1>10. \A u \in Tasks \ {t} : tasks[u].kind = "read" =>
         stream'[tasks[u].proc] = stream[tasks[u].proc]
  <2> SUFFICES ASSUME NEW u \in Tasks \ {t}, tasks[u].kind = "read"
               PROVE  stream'[tasks[u].proc] = stream[tasks[u].proc]
    OBVIOUS
  <2>1. tasks[u].proc # p
    BY <1>1 DEF IInv, Alone
  <2>2. tasks[u].proc \in Procs
    BY BusyFacts
  <2> QED
    BY <1>8, <2>1, <2>2
<1>11. tasks' \in [Tasks -> Task] /\ Alone' /\ CallsOK'
  BY <1>9, <1>10, CallEnds
<1>12. TypeOK'
  BY <1>8, <1>9, <1>11 DEF IInv, TypeOK, Up
<1>13. HostsOK' /\ RecordedIsStarted'
  BY <1>9 DEF IInv, HostsOK, RecordedIsStarted, Up
<1>14. StreamIsPrefixOfLog'
  BY <1>3, <1>5, <1>8, <1>9 DEF IInv, StreamIsPrefixOfLog
<1>15. EndedStreamIsComplete'
  BY <1>3, <1>5, <1>8, <1>9 DEF IInv, EndedStreamIsComplete, e
<1>16. ExitedWithoutCodeWasKilled' /\ StartedIsRemembered'
  BY <1>9 DEF IInv, ExitedWithoutCodeWasKilled, StartedIsRemembered, Up
<1> QED
  BY <1>11, <1>12, <1>13, <1>14, <1>15, <1>16 DEF IInv

\* A call that stores record new and ends; a process whose id is given to the
\* client is in the file.
LEMMA Stored ==
  ASSUME IInv, NEW t \in Tasks, tasks[t].kind # "none", NEW new \in Record,
         remote[tasks[t].proc].command # "absent",
         new.status = "exited" =>
           /\ remote[tasks[t].proc].wrapper = "dead"
           /\ new.exit_code = None => remote[tasks[t].proc].signalled,
         tasks' = [tasks EXCEPT ![t] = NoTask],
         records' = [records EXCEPT ![tasks[t].proc] = new],
         file' \in {file, records'},
         returned' = returned
           \/ (returned' = returned \cup {tasks[t].proc} /\ file' = records'),
         killed' \subseteq Procs,
         UNCHANGED <<remote, stream>>
  PROVE  IInv'
<1> DEFINE p == tasks[t].proc
<1>1. Up /\ p \in Procs
  BY BusyFacts
<1>2. records \in [Procs -> Record \cup {None}] /\ file \in [Procs -> Record \cup {None}]
  BY <1>1 DEF IInv, TypeOK
<1>3. /\ records' \in [Procs -> Record \cup {None}]
      /\ file' \in [Procs -> Record \cup {None}]
      /\ records'[p] = new
      /\ \A i \in Procs \ {p} : records'[i] = records[i]
  BY <1>1, <1>2
<1>4. Up' /\ new # None
  BY <1>3, NoneAssumption DEF Up
<1>5. tasks' \in [Tasks -> Task] /\ Alone' /\ CallsOK'
  BY <1>4, CallEnds
<1>6. TypeOK'
  BY <1>1, <1>3, <1>5 DEF IInv, TypeOK
<1>7. HostsOK' /\ StreamIsPrefixOfLog' /\ EndedStreamIsComplete'
  BY DEF IInv, HostsOK, StreamIsPrefixOfLog, EndedStreamIsComplete
<1>8. RecordedIsStarted'
  BY <1>1, <1>3 DEF IInv, RecordedIsStarted
<1>9. ExitedWithoutCodeWasKilled'
  BY <1>1, <1>3 DEF IInv, ExitedWithoutCodeWasKilled
<1>10. StartedIsRemembered'
  <2> SUFFICES ASSUME NEW q \in returned'
               PROVE  file'[q] # None /\ records'[q] # None
    BY <1>4 DEF StartedIsRemembered
  <2>1. q = p \/ q \in returned
    OBVIOUS
  <2>2. CASE q \in returned
    <3>1. q \in Procs /\ file[q] # None /\ records[q] # None
      BY <1>1, <2>2 DEF IInv, TypeOK, StartedIsRemembered
    <3> QED
      BY <1>3, <1>4, <3>1
  <2>3. CASE q \notin returned
    BY <1>3, <1>4, <2>1, <2>3
  <2> QED
    BY <2>2, <2>3
<1> QED
  BY <1>5, <1>6, <1>7, <1>8, <1>9, <1>10 DEF IInv

\* What a call stores at its end is a record, of a process that was started, and
\* says exited only of one that has ended.
LEMMA NewRecordFacts ==
  ASSUME IInv, NEW t \in Tasks,
         At(t, "start", "sent") \/ At(t, "kill", "answered") \/ At(t, "check", "answered")
  PROVE  /\ tasks[t].kind # "none" /\ NewRecord(t) \in Record
         /\ remote[tasks[t].proc].command # "absent"
         /\ NewRecord(t).status = "exited" =>
              /\ remote[tasks[t].proc].wrapper = "dead"
              /\ NewRecord(t).exit_code = None => remote[tasks[t].proc].signalled
<1> DEFINE x == tasks[t]
           r == remote[x.proc]
<1>1. x.kind \in {"start", "kill", "check"} /\ x.kind # "none"
  BY DEF At
<1>2. x \in Task /\ CallOK(x, r, stream[x.proc])
  BY <1>1, BusyFacts
<1>3. x.exit \in {None, Code} /\ x.rec \in Record \cup {None}
  BY <1>2 DEF Task
<1>4. CASE At(t, "start", "sent")
  <2>1. NewRecord(t) = [status |-> "running", exit_code |-> None]
    BY <1>4 DEF NewRecord, At
  <2> QED
    BY <1>2, <1>4, <2>1 DEF CallOK, Record, At
<1>5. CASE At(t, "kill", "answered")
  <2>1. NewRecord(t) = [x.rec EXCEPT !.status = "killed"]
    BY <1>5 DEF NewRecord, At
  <2>2. x.rec \in Record /\ r.command # "absent"
    BY <1>2, <1>3, <1>5 DEF CallOK, At
  <2> QED
    BY <1>1, <2>1, <2>2 DEF Record
<1>6. CASE At(t, "check", "answered")
  <2>1. NewRecord(t) = [status |-> IF x.alive THEN "running" ELSE "exited",
                        exit_code |-> x.exit]
    BY <1>6 DEF NewRecord, At
  <2> QED
    BY <1>1, <1>2, <1>3, <1>6, <2>1 DEF CallOK, Record, At
<1> QED
  BY <1>4, <1>5, <1>6

LEMMA StoreIInv ==
  ASSUME IInv, NEW t \in Tasks,
         \/ StartDone(t) \/ KillDone(t) \/ CheckDone(t)
         \/ \E written \in BOOLEAN : StoreRaises(t, written)
  PROVE  IInv'
<1> DEFINE p == tasks[t].proc
<1>1. At(t, "start", "sent") \/ At(t, "kill", "answered") \/ At(t, "check", "answered")
  BY DEF StartDone, KillDone, CheckDone, StoreRaises
<1>2. /\ tasks[t].kind # "none" /\ NewRecord(t) \in Record
      /\ remote[p].command # "absent"
      /\ NewRecord(t).status = "exited" =>
           /\ remote[p].wrapper = "dead"
           /\ NewRecord(t).exit_code = None => remote[p].signalled
  BY <1>1, NewRecordFacts
<1>3. p \in Procs /\ killed \subseteq Procs
  BY <1>2, BusyFacts DEF IInv, TypeOK
<1>4. /\ tasks' = [tasks EXCEPT ![t] = NoTask]
      /\ records' = [records EXCEPT ![p] = NewRecord(t)]
      /\ file' \in {file, records'}
      /\ returned' = returned \/ (returned' = returned \cup {p} /\ file' = records')
      /\ killed' \in {killed, killed \cup {p}}
      /\ UNCHANGED <<remote, stream>>
  BY DEF StartDone, KillDone, CheckDone, StoreRaises, Upsert
<1>5. killed' \subseteq Procs
  BY <1>3, <1>4
<1> QED
  BY <1>2, <1>4, <1>5, Stored

---------------------------------------------------------------------------
(* The end of the MCP server and its next start.                           *)

LEMMA CrashIInv ==
  ASSUME IInv, Crash
  PROVE  IInv'
<1>1. /\ records' = None /\ tasks' = [t \in Tasks |-> NoTask]
      /\ UNCHANGED <<remote, file, returned, killed, stream>>
  BY DEF Crash
<1>2. ~Up' /\ \A t \in Tasks : tasks'[t].kind = "none"
  BY <1>1, NoTaskType DEF Up
<1>3. TypeOK'
  BY <1>1, <1>2, NoTaskType DEF IInv, TypeOK
<1>4. CallsOK' /\ Alone'
  BY <1>2 DEF CallsOK, Alone
<1>5. HostsOK' /\ StreamIsPrefixOfLog' /\ EndedStreamIsComplete'
  BY <1>1 DEF IInv, HostsOK, StreamIsPrefixOfLog, EndedStreamIsComplete
<1>6. RecordedIsStarted' /\ ExitedWithoutCodeWasKilled' /\ StartedIsRemembered'
  BY <1>1, <1>2 DEF IInv, RecordedIsStarted, ExitedWithoutCodeWasKilled, StartedIsRemembered
<1> QED
  BY <1>3, <1>4, <1>5, <1>6 DEF IInv

LEMMA RestartIInv ==
  ASSUME IInv, Restart
  PROVE  IInv'
<1>1. ~Up /\ records' = Load /\ UNCHANGED <<remote, file, tasks, returned, killed, stream>>
  BY DEF Restart
<1>2. /\ Load \in [Procs -> Record \cup {None}]
      /\ \A p \in Procs : (Load[p] = None <=> file[p] = None)
                          /\ (Load[p] # None => Load[p].status = "unknown")
  <2> SUFFICES ASSUME NEW p \in Procs
               PROVE  /\ Load[p] \in Record \cup {None}
                      /\ (Load[p] = None <=> file[p] = None)
                      /\ (Load[p] # None => Load[p].status = "unknown")
    BY DEF Load
  <2>1. CASE file[p] = None
    BY <2>1 DEF Load
  <2>2. CASE file[p] # None
    <3>1. file[p] \in Record
      BY <2>2 DEF IInv, TypeOK
    <3>2. Load[p] = [file[p] EXCEPT !.status = "unknown"]
      BY <2>2 DEF Load
    <3>3. Load[p] \in Record /\ Load[p].status = "unknown"
      BY <3>1, <3>2 DEF Record
    <3> QED
      BY <2>2, <3>3, NoneAssumption
  <2> QED
    BY <2>1, <2>2
<1> HIDE DEF Load
<1>3. TypeOK'
  BY <1>1, <1>2 DEF IInv, TypeOK
<1>4. CallsOK' /\ Alone'
  <2>1. \A t \in Tasks : tasks'[t].kind = "none"
    BY <1>1 DEF IInv, CallsOK
  <2> QED
    BY <2>1 DEF CallsOK, Alone
<1>5. HostsOK' /\ StreamIsPrefixOfLog' /\ EndedStreamIsComplete'
  BY <1>1 DEF IInv, HostsOK, StreamIsPrefixOfLog, EndedStreamIsComplete
<1>6. RecordedIsStarted'
  BY <1>1, <1>2 DEF IInv, RecordedIsStarted
<1>7. ExitedWithoutCodeWasKilled'
  BY <1>1, <1>2 DEF ExitedWithoutCodeWasKilled
<1>8. StartedIsRemembered'
  <2>1. returned \subseteq Procs
    BY DEF IInv, TypeOK
  <2> QED
    BY <1>1, <1>2, <2>1 DEF IInv, StartedIsRemembered
<1> QED
  BY <1>3, <1>4, <1>5, <1>6, <1>7, <1>8 DEF IInv

---------------------------------------------------------------------------
LEMMA StutterIInv ==
  ASSUME IInv, UNCHANGED vars
  PROVE  IInv'
<1>1. TypeOK' /\ HostsOK' /\ CallsOK' /\ Alone' /\ RecordedIsStarted'
  BY DEF vars, IInv, TypeOK, HostsOK, CallsOK, Alone, RecordedIsStarted, Up
<1>2. StreamIsPrefixOfLog' /\ EndedStreamIsComplete'
  BY DEF vars, IInv, StreamIsPrefixOfLog, EndedStreamIsComplete
<1>3. ExitedWithoutCodeWasKilled' /\ StartedIsRemembered'
  BY DEF vars, IInv, ExitedWithoutCodeWasKilled, StartedIsRemembered, Up
<1> QED
  BY <1>1, <1>2, <1>3 DEF IInv

LEMMA StepIInv == IInv /\ [Next]_vars => IInv'
<1> SUFFICES ASSUME IInv, [Next]_vars PROVE IInv'
  OBVIOUS
<1>1. ASSUME NEW p \in Procs, Output(p) \/ CommandEnds(p) \/ WrapperSteps(p)
      PROVE  IInv'
  BY <1>1, OutputIInv, CommandEndsIInv, WrapperStepsIInv
<1>2. ASSUME NEW t \in Tasks, NEW p \in Procs, StartBegin(t, p)
      PROVE  IInv'
  BY <1>2, StartBeginIInv
<1>3. ASSUME NEW t \in Tasks, NEW p \in Procs, NEW kind \in {"read", "kill", "check"},
             UseBegin(t, kind, p)
      PROVE  IInv'
  BY <1>3, UseBeginIInv
<1>4. ASSUME NEW t \in Tasks, StartSent(t)
      PROVE  IInv'
  BY <1>4, StartSentIInv
<1>5. ASSUME NEW t \in Tasks, ReadAsks(t) \/ ReadDone(t)
      PROVE  IInv'
  BY <1>5, ReadAsksIInv, ReadDoneIInv
<1>6. ASSUME NEW t \in Tasks, NEW deadly \in BOOLEAN, KillSent(t, deadly)
      PROVE  IInv'
  BY <1>6, KillSentIInv
<1>7. ASSUME NEW t \in Tasks, CheckAsks(t) \/ Abort(t)
      PROVE  IInv'
  BY <1>7, CheckAsksIInv, AbortIInv
<1>8. ASSUME NEW t \in Tasks,
             \/ StartDone(t) \/ KillDone(t) \/ CheckDone(t)
             \/ \E written \in BOOLEAN : StoreRaises(t, written)
      PROVE  IInv'
  BY <1>8, StoreIInv
<1>9. CASE Crash \/ Restart
  BY <1>9, CrashIInv, RestartIInv
<1>10. CASE UNCHANGED vars
  BY <1>10, StutterIInv
<1> QED
  BY <1>1, <1>2, <1>3, <1>4, <1>5, <1>6, <1>7, <1>8, <1>9, <1>10 DEF Next

LEMMA AlwaysIInv == Spec => []IInv
<1> QED
  BY InitIInv, StepIInv, PTL DEF Spec

---------------------------------------------------------------------------
\* The records, calls and remote processes keep their types.
THEOREM ProcessesTypeCorrect == Spec => []TypeOK
<1>1. IInv => TypeOK
  BY DEF IInv
<1> QED
  BY <1>1, AlwaysIInv, PTL

\* Reads with next_offset (exec_tools.py, ssh_read_process) give the log without
\* a byte twice or missing, for logs and reads of any length.
THEOREM ProcessesStreamIsPrefixOfLog == Spec => []StreamIsPrefixOfLog
<1>1. IInv => StreamIsPrefixOfLog
  BY DEF IInv
<1> QED
  BY <1>1, AlwaysIInv, PTL

\* The end of a stream is the end of the log (read_process).
THEOREM ProcessesEndedStreamIsComplete == Spec => []EndedStreamIsComplete
<1>1. IInv => EndedStreamIsComplete
  BY DEF IInv
<1> QED
  BY <1>1, AlwaysIInv, PTL

\* A process recorded as exited without a code was killed (check_process), for
\* any overlap of checks and kills.
THEOREM ProcessesExitedWithoutCodeWasKilled == Spec => []ExitedWithoutCodeWasKilled
<1>1. IInv => ExitedWithoutCodeWasKilled
  BY DEF IInv
<1> QED
  BY <1>1, AlwaysIInv, PTL

\* A process whose id was returned stays in the state file (start_process,
\* state.py) through any sequence of crashes.
THEOREM ProcessesStartedIsRemembered == Spec => []StartedIsRemembered
<1>1. IInv => StartedIsRemembered
  BY DEF IInv
<1> QED
  BY <1>1, AlwaysIInv, PTL
===========================================================================
