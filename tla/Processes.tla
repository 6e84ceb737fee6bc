----------------------------- MODULE Processes -----------------------------
(***************************************************************************)
(* Background processes: start, read, kill and check of session.py, the     *)
(* records they keep in state.py, and the remote side they can only ask     *)
(* about.  Every conn.run is an await, so the server-side effect of a       *)
(* command and the resumption of the task that sent it are separate steps,  *)
(* and the MCP server may die between any two.                              *)
(***************************************************************************)
EXTENDS Naturals, Sequences, FiniteSets

CONSTANTS
  Procs,     \* process ids
  Tasks,     \* tool calls in progress at the same time
  MaxLog,    \* bound: bytes a command writes to its log
  MaxBytes,  \* max_bytes of a read
  None

ASSUME ProcessesAssumption ==
  /\ MaxLog \in Nat
  /\ MaxBytes \in Nat \ {0}
  /\ None \notin Procs

VARIABLES
  remote,    \* the process on the remote host
  records,   \* StateStore._processes; None while the server is down
  file,      \* the state file
  tasks,     \* the tool calls
  returned,  \* process ids the client has been given
  killed,    \* process ids the client was told are killed
  stream     \* what the client has made of its reads: bytes, and the end

vars == <<remote, records, file, tasks, returned, killed, stream>>

\* The exit code, of which only the presence matters.
Code == 0

\* `nohup bash -c '(command); echo $? > exitfile'`: the command, the bash around
\* it whose pid is recorded, the exit file and the log.
Remote == [command : {"absent", "running", "done"}, wrapper : {"absent", "alive", "dead"},
           exitfile : {"absent", "empty", "written"}, log : 0..MaxLog,
           signalled : BOOLEAN]

Record == [status : {"running", "exited", "killed", "unknown"},
           exit_code : {None, Code}]

\* None is neither a record nor a table of records, nor an exit code.
ASSUME NoneAssumption ==
  None \notin {Code} \cup Record \cup [Procs -> Record \cup {None}]

\* A task: the record it read before its first await, the answers it has so
\* far (kill -0, exit file), and the offset it reads the log from.
Task == [kind : {"none", "start", "read", "kill", "check"}, proc : Procs \cup {None},
         at : {"none", "begun", "sent", "alive", "answered"},
         rec : Record \cup {None}, alive : BOOLEAN, exit : {None, Code},
         from : 0..MaxLog, upto : 0..MaxLog]

NoTask == [kind |-> "none", proc |-> None, at |-> "none", rec |-> None,
           alive |-> FALSE, exit |-> None, from |-> 0, upto |-> 0]

Up == records # None

Known(p) == Up /\ records[p] # None

Minimum(a, b) == IF a < b THEN a ELSE b

Init ==
  /\ remote = [p \in Procs |-> [command |-> "absent", wrapper |-> "absent",
                                exitfile |-> "absent", log |-> 0,
                                signalled |-> FALSE]]
  /\ file = [p \in Procs |-> None]
  /\ records = file
  /\ tasks = [t \in Tasks |-> NoTask]
  /\ returned = {}
  /\ killed = {}
  /\ stream = [p \in Procs |-> [bytes |-> <<>>, ended |-> FALSE]]

---------------------------------------------------------------------------
(* The remote host (external).                                             *)

Output(p) ==
  /\ remote[p].command = "running"
  /\ remote[p].log < MaxLog
  /\ remote' = [remote EXCEPT ![p].log = @ + 1]
  /\ UNCHANGED <<records, file, tasks, returned, killed, stream>>

CommandEnds(p) ==
  /\ remote[p].command = "running"
  /\ remote' = [remote EXCEPT ![p].command = "done"]
  /\ UNCHANGED <<records, file, tasks, returned, killed, stream>>

\* `echo $? > exitfile` creates the file, writes it, and then bash is gone.
WrapperSteps(p) ==
  /\ remote[p].command = "done"
  /\ remote[p].wrapper = "alive"
  /\ remote' = [remote EXCEPT ![p] =
       CASE @.exitfile = "absent" -> [@ EXCEPT !.exitfile = "empty"]
         [] @.exitfile = "empty" -> [@ EXCEPT !.exitfile = "written"]
         [] @.exitfile = "written" -> [@ EXCEPT !.wrapper = "dead"]]
  /\ UNCHANGED <<records, file, tasks, returned, killed, stream>>

\* cat of the exit file: nothing yet, or the code.
ExitContent(p) == IF remote[p].exitfile = "written" THEN Code ELSE None

---------------------------------------------------------------------------
(* The state store.                                                        *)

\* Mutant of Upsert: the record is kept in memory only.
UpsertInMemory(p, rec) ==
  /\ records' = [records EXCEPT ![p] = rec]
  /\ UNCHANGED file

\* upsert_process: into memory, then the whole state to a temporary file that
\* replaces the state file.  A crash in between leaves the old file, which is
\* the crash just before this step.
Upsert(p, rec) ==
  /\ records' = [records EXCEPT ![p] = rec]
  /\ file' = records'

\* load: every record that is read back has status unknown.
Load == [p \in Procs |-> IF file[p] = None THEN None
                         ELSE [file[p] EXCEPT !.status = "unknown"]]

\* The MCP server dies; the remote processes do not notice.
Crash ==
  /\ Up
  /\ records' = None
  /\ tasks' = [t \in Tasks |-> NoTask]
  /\ UNCHANGED <<remote, file, returned, killed, stream>>

Restart ==
  /\ ~Up
  /\ records' = Load
  /\ UNCHANGED <<remote, file, tasks, returned, killed, stream>>

---------------------------------------------------------------------------
(* The tool calls.                                                         *)

Begin(t, kind, p) ==
  /\ Up
  /\ tasks[t] = NoTask
  /\ tasks' = [tasks EXCEPT ![t] = [NoTask EXCEPT
        !.kind = kind, !.proc = p, !.at = "begun", !.rec = records[p],
        !.from = Len(stream[p].bytes)]]
  /\ UNCHANGED <<remote, records, file, returned, killed, stream>>

At(t, kind, step) == tasks[t].kind = kind /\ tasks[t].at = step

\* start_process draws a fresh id and connects.
StartBegin(t, p) ==
  /\ remote[p].command = "absent"
  /\ \A u \in Tasks : tasks[u].proc # p
  /\ Begin(t, "start", p)

\* read, kill and check find the record first (ProcessNotFound otherwise); a
\* client reads one stream with one call at a time.
UseBegin(t, kind, p) ==
  /\ Known(p)
  /\ kind = "read" => \A u \in Tasks : tasks[u].kind = "read" => tasks[u].proc # p
  /\ Begin(t, kind, p)

\* The nohup command runs on the remote host.
StartSent(t) ==
  /\ At(t, "start", "begun")
  /\ remote' = [remote EXCEPT ![tasks[t].proc].command = "running",
                              ![tasks[t].proc].wrapper = "alive"]
  /\ tasks' = [tasks EXCEPT ![t].at = "sent"]
  /\ UNCHANGED <<records, file, returned, killed, stream>>

\* The record a call stores at its end: that of the new process, a copy of the one
\* it read at the beginning with status killed, or what check_process has found.
NewRecord(t) ==
  LET c == tasks[t] IN
  CASE c.kind = "start" -> [status |-> "running", exit_code |-> None]
    [] c.kind = "kill" -> [c.rec EXCEPT !.status = "killed"]
    [] c.kind = "check" ->
         [status |-> IF c.alive THEN "running" ELSE "exited", exit_code |-> c.exit]

\* The pid came back: the record is stored and the id returned.
StartDone(t) ==
  /\ At(t, "start", "sent")
  /\ Upsert(tasks[t].proc, NewRecord(t))
  /\ returned' = returned \cup {tasks[t].proc}
  /\ tasks' = [tasks EXCEPT ![t] = NoTask]
  /\ UNCHANGED <<remote, killed, stream>>

\* One command of a read or check is answered: answer is the task afterwards.
Ask(t, kind, from, to, answer) ==
  /\ At(t, kind, from)
  /\ tasks' = [tasks EXCEPT ![t] = [answer EXCEPT !.at = to]]
  /\ UNCHANGED <<remote, records, file, returned, killed, stream>>

WithExit(t) == [tasks[t] EXCEPT !.exit = ExitContent(tasks[t].proc)]

WithAlive(t) == [tasks[t] EXCEPT !.alive = (remote[tasks[t].proc].wrapper = "alive")]

\* Mutant of WithLog: tail -c +offset, which is 1-based.
WithLogOffByOne(t) ==
  [tasks[t] EXCEPT !.from = IF @ = 0 THEN 0 ELSE @ - 1,
                   !.upto = Minimum(remote[tasks[t].proc].log, tasks[t].from + MaxBytes)]

\* `tail -c +(offset+1) | head -c max_bytes`
WithLog(t) ==
  [tasks[t] EXCEPT !.upto = Minimum(remote[tasks[t].proc].log,
                                    tasks[t].from + MaxBytes)]

\* Mutant of ReadAsks: the log is read before the exit file.
ReadAsksLogFirst(t) ==
  \/ Ask(t, "read", "begun", "sent", WithLog(t))
  \/ Ask(t, "read", "sent", "answered", WithExit(t))

\* read_process asks for the exit file first and for the log after it.
ReadAsks(t) ==
  \/ Ask(t, "read", "begun", "sent", WithExit(t))
  \/ Ask(t, "read", "sent", "answered", WithLog(t))

\* The client appends the output and goes on from next_offset; it knows it is
\* at the end when the process is not running and less than max_bytes came.
ReadDone(t) ==
  /\ At(t, "read", "answered")
  /\ LET p == tasks[t].proc
         n == tasks[t].upto - tasks[t].from
     IN stream' = [stream EXCEPT
          ![p] = [bytes |-> @.bytes \o [i \in 1..n |-> tasks[t].from + i],
                  ended |-> tasks[t].exit # None /\ n < MaxBytes]]
  /\ tasks' = [tasks EXCEPT ![t] = NoTask]
  /\ UNCHANGED <<remote, records, file, returned, killed>>

\* kill reaches the remote pid; a nohup'ed background bash ignores some signals.
KillSent(t, deadly) ==
  /\ At(t, "kill", "begun")
  /\ LET p == tasks[t].proc IN
     remote' = IF deadly /\ remote[p].wrapper = "alive"
               THEN [remote EXCEPT ![p].wrapper = "dead", ![p].signalled = TRUE]
               ELSE remote
  /\ tasks' = [tasks EXCEPT ![t].at = "answered"]
  /\ UNCHANGED <<records, file, returned, killed, stream>>

\* kill_process stores the record as killed, and the client is told so.
KillDone(t) ==
  /\ At(t, "kill", "answered")
  /\ Upsert(tasks[t].proc, NewRecord(t))
  /\ killed' = killed \cup {tasks[t].proc}
  /\ tasks' = [tasks EXCEPT ![t] = NoTask]
  /\ UNCHANGED <<remote, returned, stream>>

\* Mutant of CheckAsks: the exit file is read before the process is probed.
CheckAsksExitFirst(t) ==
  \/ Ask(t, "check", "begun", "sent", WithExit(t))
  \/ Ask(t, "check", "sent", "answered", WithAlive(t))

\* check_process probes the pid with kill -0, reads the log, and then the exit
\* file.
CheckAsks(t) ==
  \/ Ask(t, "check", "begun", "sent", WithAlive(t))
  \/ Ask(t, "check", "sent", "answered", WithExit(t))

\* check_process stores status and exit code over the record.
CheckDone(t) ==
  /\ At(t, "check", "answered")
  /\ Upsert(tasks[t].proc, NewRecord(t))
  /\ tasks' = [tasks EXCEPT ![t] = NoTask]
  /\ UNCHANGED <<remote, returned, killed, stream>>

\* The end of a call raises (the state file cannot be written, or the audit log
\* cannot, after it was): the record is in memory, and the client gets an error.
StoreRaises(t, written) ==
  /\ At(t, "start", "sent") \/ At(t, "kill", "answered") \/ At(t, "check", "answered")
  /\ written => tasks[t].kind # "check"
  /\ records' = [records EXCEPT ![tasks[t].proc] = NewRecord(t)]
  /\ file' = IF written THEN records' ELSE file
  /\ tasks' = [tasks EXCEPT ![t] = NoTask]
  /\ UNCHANGED <<remote, returned, killed, stream>>

\* A command fails (connection lost, no pid in the answer): the call raises and
\* nothing is stored.
Abort(t) ==
  /\ tasks[t] # NoTask
  /\ tasks' = [tasks EXCEPT ![t] = NoTask]
  /\ UNCHANGED <<remote, records, file, returned, killed, stream>>

---------------------------------------------------------------------------
Next ==
  \/ \E p \in Procs : Output(p) \/ CommandEnds(p) \/ WrapperSteps(p)
  \/ \E t \in Tasks, p \in Procs :
       \/ StartBegin(t, p)
       \/ \E kind \in {"read", "kill", "check"} : UseBegin(t, kind, p)
  \/ \E t \in Tasks :
       \/ StartSent(t) \/ StartDone(t)
       \/ ReadAsks(t) \/ ReadDone(t)
       \/ KillDone(t) \/ \E deadly \in BOOLEAN : KillSent(t, deadly)
       \/ CheckAsks(t) \/ CheckDone(t)
       \/ Abort(t) \/ \E written \in BOOLEAN : StoreRaises(t, written)
  \/ Crash
  \/ Restart

Spec == Init /\ [][Next]_vars

---------------------------------------------------------------------------
\* Type invariant of the records (state.py), the state file, the tool calls of
\* session.py and the remote side.
TypeOK ==
  /\ remote \in [Procs -> Remote]
  /\ file \in [Procs -> Record \cup {None}]
  /\ Up => records \in [Procs -> Record \cup {None}]
  /\ tasks \in [Tasks -> Task]
  /\ returned \subseteq Procs /\ killed \subseteq Procs
  /\ stream \in [Procs -> [bytes : Seq(1..MaxLog), ended : BOOLEAN]]

\* Successive reads with next_offset give the log without a byte twice or
\* missing, whatever was written, killed, restarted or aborted in between
\* (exec_tools.py, ssh_read_process).
StreamIsPrefixOfLog ==
  \A p \in Procs : /\ Len(stream[p].bytes) <= remote[p].log
                   /\ \A i \in 1..Len(stream[p].bytes) : stream[p].bytes[i] = i

\* A client that is told "not running" and gets less than max_bytes has the whole
\* output: read_process looks at the exit file before it reads the log.
EndedStreamIsComplete ==
  \A p \in Procs : stream[p].ended =>
    /\ remote[p].command = "done"
    /\ Len(stream[p].bytes) = remote[p].log

\* A record that says exited but has no exit code is that of a process killed by
\* a signal: check_process probes the pid before it reads the exit file, so a
\* process that ended by itself has its code recorded.
ExitedWithoutCodeWasKilled ==
  Up => \A p \in Procs :
          records[p] # None /\ records[p].status = "exited"
            => remote[p].wrapper = "dead"
               /\ (records[p].exit_code = None => remote[p].signalled)

\* A process whose id the client was given is never forgotten: it has a record in
\* the state file, and in memory whenever the server is up.
StartedIsRemembered ==
  \A p \in returned : file[p] # None /\ (Up => records[p] # None)

\* A process whose kill has been confirmed, and which is dead, is not recorded as
\* running: kill_process sets the record to killed, and a check that finds it
\* alive cannot come later.
KilledIsNotRunning ==
  Up => \A p \in killed :
          remote[p].wrapper = "dead" => records[p].status # "running"
===========================================================================
