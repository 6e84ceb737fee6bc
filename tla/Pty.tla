-------------------------------- MODULE Pty --------------------------------
(***************************************************************************)
(* PTY sessions together with the output of one of them, which has no tmux: *)
(* PtySessions keeps records, handles and the remote shells, PtyBuffer the  *)
(* output on its way to the client.  The buffer exists exactly as long as   *)
(* the handle, so start_pty, pty_close and the end of the MCP server are     *)
(* steps of both, and a pty_read moves output and reports alive or not.      *)
(***************************************************************************)
EXTENDS PtySessions, Sequences

CONSTANTS
  Watched,    \* the session whose output is followed
  MaxOut, ChunkMax, DequeMax, MaxBytes   \* bounds of PtyBuffer

ASSUME PtyAssumption ==
  /\ Watched \in Sessions
  /\ MaxOut \in Nat /\ {ChunkMax, DequeMax, MaxBytes} \subseteq Nat \ {0}

VARIABLES printed, drained, buf, dropped, received

bufferVars == <<printed, drained, buf, dropped, received>>
sessionVars == <<starts, records, file, handles, remote, returned, told>>

Buffer == INSTANCE PtyBuffer WITH open <- Watched \in handles

PtyInit == Init /\ Buffer!Init

---------------------------------------------------------------------------
\* A step of start_pty, or of another session: no buffer is concerned.  The id
\* of a session is drawn once.
SessionStep ==
  /\ \/ \E t \in Starts, i \in Sessions, s \in Servers :
          /\ i = Watched => printed = 0
          /\ StartChecked(t, i, s)
     \/ \E t \in Starts : Launched(t) \/ StartFails(t)
     \/ \E t \in Starts, persisted \in BOOLEAN :
          starts[t] # None /\ starts[t].id # Watched /\ StartDone(t, persisted)
     \/ \E i \in Sessions : ShellEnds(i)
     \/ \E i \in Sessions \ {Watched} : PtyReadDead(i)
     \/ \E i \in Sessions \ {Watched}, persisted \in BOOLEAN : PtyClose(i, persisted)
     \/ Restart
  /\ UNCHANGED bufferVars

\* start_pty of the watched session ends: handle, deque and drain task are there
\* before the state is saved.
Started(t, persisted) ==
  /\ starts[t] # None
  /\ starts[t].id = Watched
  /\ StartDone(t, persisted)
  /\ Buffer!PtyOpen

\* The shell prints while it runs (external).
Prints ==
  /\ remote[Watched] = "running"
  /\ UNCHANGED sessionVars
  /\ Buffer!PrintByte

\* _drain_pty goes on after the shell has ended, up to the end of the stream.
Drains(n) ==
  /\ UNCHANGED sessionVars
  /\ Buffer!Drain(n)

\* Mutant of Read: a session that is not alive is not read any more.
ReadAlive(max_bytes) ==
  /\ Known(Watched)
  /\ UNCHANGED <<starts, records, file, handles, remote, returned>>
  /\ IF ReadDead(Watched)
     THEN /\ told' = told \cup {Watched}
          /\ buf' = <<>>
          /\ UNCHANGED <<printed, drained, dropped, received>>
     ELSE UNCHANGED told /\ Buffer!PtyRead(max_bytes)

\* pty_read of the watched session: what is buffered first, then whether the
\* session is alive.
Read(max_bytes) ==
  /\ Known(Watched)
  /\ told' = IF ReadDead(Watched) THEN told \cup {Watched} ELSE told
  /\ UNCHANGED <<starts, records, file, handles, remote, returned>>
  /\ Buffer!PtyRead(max_bytes)

\* A second pty_close finds neither task nor buffer.
CloseWatched(persisted) ==
  /\ PtyClose(Watched, persisted)
  /\ IF Watched \in handles THEN Buffer!PtyClose ELSE UNCHANGED bufferVars

\* The buffer is memory of the MCP server.
CrashAll ==
  /\ Crash
  /\ IF Watched \in handles THEN Buffer!PtyClose ELSE UNCHANGED bufferVars

PtyNext ==
  \/ SessionStep
  \/ \E t \in Starts, persisted \in BOOLEAN : Started(t, persisted)
  \/ Prints
  \/ \E n \in 1..ChunkMax : Drains(n)
  \/ \E m \in 1..MaxBytes : Read(m)
  \/ \E persisted \in BOOLEAN : CloseWatched(persisted)
  \/ CrashAll

ptyVars == <<sessionVars, bufferVars>>

PtySpec == PtyInit /\ [][PtyNext]_ptyVars

---------------------------------------------------------------------------
\* No byte of a session's output is delivered twice or out of order, also across
\* a close, a crash and a restart in between.
OutputInOrder == Buffer!OutputInOrder

\* As long as a session is recorded as running, its output is lost only by the
\* full deque, which drops its oldest chunk: what the drain task has read is
\* delivered, still buffered or dropped, also when the shell has ended, when
\* pty_read has already said so, and when the state could not be saved.
RunningLosesOnlyByOverflow ==
  Known(Watched) /\ records[Watched].status = "running" =>
    Buffer!Accounted
===========================================================================
