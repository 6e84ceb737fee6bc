---------------------------- MODULE PtySessions ----------------------------
(***************************************************************************)
(* PTY sessions (session.py): the cap on sessions per server, the records  *)
(* in the state store, the local handles without which a session cannot be *)
(* read, written or closed on the remote side, and restarts of the MCP      *)
(* server.  start_pty checks the cap before it waits for the connection and *)
(* stores the record after it, so several calls may pass the same check.    *)
(***************************************************************************)
EXTENDS Naturals, FiniteSets

CONSTANTS
  Servers,
  Sessions,   \* session ids
  Starts,     \* start_pty calls in progress at the same time
  Limit,      \* per server: max_sessions of its config, or the global one
  None

ASSUME PtySessionsAssumption ==
  /\ Limit \in [Servers -> Nat]
  /\ IsFiniteSet(Sessions)
  /\ IsFiniteSet(Starts) /\ Starts # {}

VARIABLES
  starts,    \* the start_pty calls
  records,   \* StateStore._sessions; None while the MCP server is down
  file,      \* the sessions in the state file
  handles,   \* ids in _pty_procs, or in _tmux_sessions and _tmux_conns
  remote,    \* the shell or tmux session on the remote host
  returned,  \* ids the client has been given
  told       \* ids pty_read has called not alive

vars == <<starts, records, file, handles, remote, returned, told>>

Record == [server : Servers, status : {"running", "exited", "unknown"}]

Start == [id : Sessions, server : Servers, at : {"checked", "launched"}]

\* None is a value of its own: no record, call or table of records.
ASSUME NoneAssumption ==
  /\ None \notin Record
  /\ None \notin Start
  /\ None \notin [Sessions -> Record \cup {None}]

Up == records # None

Known(i) == Up /\ records[i] # None

Init ==
  /\ starts = [t \in Starts |-> None]
  /\ file = [i \in Sessions |-> None]
  /\ records = file
  /\ handles = {}
  /\ remote = [i \in Sessions |-> "absent"]
  /\ returned = {}
  /\ told = {}

---------------------------------------------------------------------------
(* The state store.                                                        *)

\* upsert_session: the record is in memory before _persist replaces the file,
\* so a _persist that raises leaves it there.
Upsert(i, rec, persisted) ==
  /\ records' = [records EXCEPT ![i] = rec]
  /\ file' = IF persisted THEN records' ELSE file

\* Mutant of Load: the status is taken as it was saved.
LoadAsSaved == file

\* load: whatever the status was, it is unknown now.
Load == [i \in Sessions |-> IF file[i] = None THEN None
                            ELSE [file[i] EXCEPT !.status = "unknown"]]

\* The MCP server dies: shells without tmux lose their terminal some time later,
\* tmux sessions stay.
Crash ==
  /\ Up
  /\ records' = None
  /\ starts' = [t \in Starts |-> None]
  /\ handles' = {}
  /\ UNCHANGED <<file, remote, returned, told>>

Restart ==
  /\ ~Up
  /\ records' = Load
  /\ UNCHANGED <<starts, file, handles, remote, returned, told>>

---------------------------------------------------------------------------
(* start_pty.                                                              *)

\* The records that count against the cap of server s.
Running(s) ==
  IF Up THEN {i \in Sessions : /\ records[i] # None
                               /\ records[i].server = s
                               /\ records[i].status = "running"}
  ELSE {}

\* The calls that have passed the cap check of server s.
InFlight(s) == {t \in Starts : starts[t] # None /\ starts[t].server = s}

\* A uuid nobody knows; one that a failed call drew and that left nothing behind
\* may be taken again, which keeps Sessions small.
Fresh(i) ==
  /\ remote[i] # "running"
  /\ i \notin told
  /\ file[i] = None
  /\ ~Known(i)
  /\ \A t \in Starts : starts[t] # None => starts[t].id # i

\* Mutant of BelowCap: off by one.
BelowCapOffByOne(s) == Cardinality(Running(s)) <= Limit[s]

BelowCap(s) == Cardinality(Running(s)) < Limit[s]

\* The cap is checked (SessionCapExceeded otherwise) and the call waits for a
\* connection.
StartChecked(t, i, s) ==
  /\ Up
  /\ starts[t] = None
  /\ Fresh(i)
  /\ BelowCap(s)
  /\ starts' = [starts EXCEPT ![t] = [id |-> i, server |-> s, at |-> "checked"]]
  /\ UNCHANGED <<records, file, handles, remote, returned, told>>

\* create_process, or tmux new-session once `which tmux` found it, takes effect on
\* the remote host.
Launched(t) ==
  /\ starts[t] # None
  /\ starts[t].at = "checked"
  /\ remote' = [remote EXCEPT ![starts[t].id] = "running"]
  /\ starts' = [starts EXCEPT ![t].at = "launched"]
  /\ UNCHANGED <<records, file, handles, returned, told>>

\* Mutant of StartDone: the id is returned although the state could not be saved.
StartDoneUnsaved(t, persisted) ==
  /\ starts[t] # None
  /\ starts[t].at = "launched"
  /\ LET i == starts[t].id IN
     /\ handles' = handles \cup {i}
     /\ Upsert(i, [server |-> starts[t].server, status |-> "running"], persisted)
     /\ returned' = returned \cup {i}
  /\ starts' = [starts EXCEPT ![t] = None]
  /\ UNCHANGED <<remote, told>>

\* The last await is over: handle, record and, unless saving the state raised,
\* the id for the client.
StartDone(t, persisted) ==
  /\ starts[t] # None
  /\ starts[t].at = "launched"
  /\ LET i == starts[t].id IN
     /\ handles' = handles \cup {i}
     /\ Upsert(i, [server |-> starts[t].server, status |-> "running"], persisted)
     /\ returned' = IF persisted THEN returned \cup {i} ELSE returned
  /\ starts' = [starts EXCEPT ![t] = None]
  /\ UNCHANGED <<remote, told>>

\* Any await of start_pty raises (no connection, no tmux, connection lost): no
\* record, and what runs on the remote host stays there.
StartFails(t) ==
  /\ starts[t] # None
  /\ starts' = [starts EXCEPT ![t] = None]
  /\ UNCHANGED <<records, file, handles, remote, returned, told>>

---------------------------------------------------------------------------
(* The session afterwards.                                                 *)

\* The remote shell ends by itself or with its connection (external).
ShellEnds(i) ==
  /\ remote[i] = "running"
  /\ remote' = [remote EXCEPT ![i] = "gone"]
  /\ UNCHANGED <<starts, records, file, handles, returned, told>>

\* Mutant of ReadDead: an unanswered has-session is taken for a dead session.
ReadDeadUnreachable(i) == TRUE

\* When pty_read says alive = False: there is no handle, or the channel or the tmux
\* session has ended.
ReadDead(i) == i \notin handles \/ remote[i] = "gone"

\* A read that reports the end; one that reports alive changes nothing here.
PtyReadDead(i) ==
  /\ Known(i)
  /\ ReadDead(i)
  /\ told' = told \cup {i}
  /\ UNCHANGED <<starts, records, file, handles, remote, returned>>

\* Mutant of PtyClose: the handle is kept.
PtyCloseKeepsHandle(i, persisted) ==
  /\ Known(i)
  /\ i \in returned
  /\ Upsert(i, [records[i] EXCEPT !.status = "exited"], persisted)
  /\ UNCHANGED <<starts, handles, remote, returned, told>>

\* pty_close drops the handle and marks the record; proc.close() ends a shell
\* without tmux, whose end is ShellEnds, and a tmux session is left alive.
PtyClose(i, persisted) ==
  /\ Known(i)
  /\ i \in returned
  /\ handles' = handles \ {i}
  /\ Upsert(i, [records[i] EXCEPT !.status = "exited"], persisted)
  /\ UNCHANGED <<starts, remote, returned, told>>

---------------------------------------------------------------------------
Next ==
  \/ \E t \in Starts, i \in Sessions, s \in Servers : StartChecked(t, i, s)
  \/ \E t \in Starts : Launched(t) \/ StartFails(t)
  \/ \E t \in Starts, persisted \in BOOLEAN : StartDone(t, persisted)
  \/ \E i \in Sessions : ShellEnds(i) \/ PtyReadDead(i)
  \/ \E i \in Sessions, persisted \in BOOLEAN : PtyClose(i, persisted)
  \/ Crash
  \/ Restart

Spec == Init /\ [][Next]_vars

---------------------------------------------------------------------------
\* Type invariant of the session records, the calls and the handles.
TypeOK ==
  /\ starts \in [Starts -> Start \cup {None}]
  /\ file \in [Sessions -> Record \cup {None}]
  /\ Up => records \in [Sessions -> Record \cup {None}]
  /\ handles \subseteq Sessions
  /\ remote \in [Sessions -> {"absent", "running", "gone"}]
  /\ returned \subseteq Sessions /\ told \subseteq Sessions

\* However many start_pty calls overlap, the sessions of a server together with
\* the calls that have passed the check exceed the cap by less than the number of
\* calls; one call at a time keeps to max_sessions.
CapOvershootBounded ==
  \A s \in Servers :
    Cardinality(Running(s)) + Cardinality(InFlight(s))
      < Limit[s] + Cardinality(Starts)

\* The sessions that count against a cap are those with a local handle: no counted
\* session is out of reach of this incarnation of the MCP server, and no shell is
\* kept open without a running record (start_pty adds both, pty_close drops both,
\* load marks every record unknown).
CountedIsHandled ==
  handles = UNION {Running(s) : s \in Servers}

\* A session whose id the client has is never forgotten, neither by a restart nor
\* by a state file that could not be written.
ReturnedIsRemembered ==
  \A i \in returned : file[i] # None /\ (Up => records[i] # None)

\* pty_read says that a session is not alive only when the remote session is gone,
\* as long as it has not been closed and the MCP server it was started from lives:
\* neither a lost handle nor a command without an answer passes for an end.
NotAliveIsGone ==
  \A i \in told : Known(i) /\ records[i].status = "running" => remote[i] = "gone"
===========================================================================
