----------------------------- MODULE PtyBuffer -----------------------------
(***************************************************************************)
(* Output of one PTY session without tmux (session.py): a background task  *)
(* appends what the remote shell prints to a bounded deque, pty_read takes *)
(* bytes from its left end, splitting a chunk where max_bytes falls into   *)
(* it, and pty_close throws the buffer away.  Bytes are numbered in the    *)
(* order in which the shell prints them.  Pty composes these steps with     *)
(* those of the sessions.                                                   *)
(***************************************************************************)
EXTENDS Naturals, Sequences

CONSTANTS
  MaxOut,     \* bound: bytes the shell prints
  ChunkMax,   \* bytes one proc.stdout.read may return
  DequeMax,   \* maxlen of the deque, in chunks
  MaxBytes    \* largest max_bytes a client asks for

VARIABLES
  printed,   \* bytes the shell has printed
  drained,   \* bytes _drain_pty has read
  buf,       \* _pty_buffers[id]: chunks, each an interval of bytes
  dropped,   \* bytes that fell out of the full deque
  received,  \* bytes the client got from pty_read
  open       \* the session has a handle: start_pty is over, pty_close not called

Minimum(a, b) == IF a < b THEN a ELSE b

Size(c) == c.hi - c.lo + 1

Bytes(c) == [i \in 1..Size(c) |-> c.lo + i - 1]

\* Bytes in the first k chunks of deque b.
Total(b, k) ==
  LET f[j \in 0..Len(b)] == IF j = 0 THEN 0 ELSE f[j - 1] + Size(b[j])
  IN f[k]

\* The first k chunks of deque b as bytes.
Joined(b, k) ==
  LET f[j \in 0..Len(b)] == IF j = 0 THEN <<>> ELSE f[j - 1] \o Bytes(b[j])
  IN f[k]

Init ==
  /\ printed = 0
  /\ drained = 0
  /\ buf = <<>>
  /\ dropped = 0
  /\ received = <<>>
  /\ open = FALSE

---------------------------------------------------------------------------
\* start_pty creates the deque and the task that fills it.  The shell may have
\* printed before.
PtyOpen ==
  /\ ~open
  /\ drained = 0
  /\ open' = TRUE
  /\ UNCHANGED <<printed, drained, buf, dropped, received>>

\* The remote shell prints (external).
PrintByte ==
  /\ printed < MaxOut
  /\ printed' = printed + 1
  /\ UNCHANGED <<drained, buf, dropped, received, open>>

\* deque.append with maxlen: a full deque drops its oldest chunk.
AppendChunk(c) ==
  IF Len(buf) = DequeMax
  THEN /\ buf' = Append(Tail(buf), c)
       /\ dropped' = dropped + Size(Head(buf))
  ELSE buf' = Append(buf, c) /\ UNCHANGED dropped

\* One round of _drain_pty: a chunk of what has been printed.
Drain(n) ==
  /\ open
  /\ n \in 1..Minimum(ChunkMax, printed - drained)
  /\ AppendChunk([lo |-> drained + 1, hi |-> drained + n])
  /\ drained' = drained + n
  /\ UNCHANGED <<printed, received, open>>

\* Mutant of Rest: the remainder is put back at the wrong end.
RestAtTheEnd(k, part) ==
  IF part = 0 THEN SubSeq(buf, k + 1, Len(buf))
  ELSE SubSeq(buf, k + 2, Len(buf)) \o <<[buf[k + 1] EXCEPT !.lo = @ + part]>>

\* What stays in the deque when k chunks were taken whole and "part" bytes of
\* the next one, whose remainder goes back to the left end.
Rest(k, part) ==
  IF part = 0 THEN SubSeq(buf, k + 1, Len(buf))
  ELSE <<[buf[k + 1] EXCEPT !.lo = @ + part]>> \o SubSeq(buf, k + 2, Len(buf))

\* pty_read takes whole chunks while they fit into max_bytes, and of the chunk
\* that does not fit as many bytes as are left.
PtyRead(max_bytes) ==
  LET k == CHOOSE j \in 0..Len(buf) :
             /\ Total(buf, j) <= max_bytes
             /\ j < Len(buf) => Total(buf, j + 1) > max_bytes
      part == IF k < Len(buf) THEN max_bytes - Total(buf, k) ELSE 0
      cut == IF part = 0 THEN <<>> ELSE SubSeq(Bytes(buf[k + 1]), 1, part)
  IN /\ received' = received \o (Joined(buf, k) \o cut)
     /\ buf' = Rest(k, part)
     /\ UNCHANGED <<printed, drained, dropped, open>>

\* pty_close cancels the drain task and forgets the buffer; the record stays, so
\* later reads find nothing.  The end of the MCP server does the same.
PtyClose ==
  /\ open
  /\ open' = FALSE
  /\ buf' = <<>>
  /\ UNCHANGED <<printed, drained, dropped, received>>

---------------------------------------------------------------------------
\* No byte of the session's output is delivered twice or out of order, however
\* reads split the chunks of _drain_pty, and nothing buffered is older than what
\* was delivered.
OutputInOrder ==
  LET all == received \o Joined(buf, Len(buf))
  IN \A i \in 1..(Len(all) - 1) : all[i] < all[i + 1]

\* Every byte _drain_pty has read is delivered, still buffered or counted as
\* dropped.
Accounted == Len(received) + Total(buf, Len(buf)) + dropped = drained
===========================================================================
