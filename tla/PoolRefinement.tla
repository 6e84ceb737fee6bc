--------------------------- MODULE PoolRefinement ---------------------------
(***************************************************************************)
(* ConnectionPool implements PoolService: what a caller waits for is the     *)
(* name of its outermost get_connection activation, the hop that of the      *)
(* innermost, and the answer the connection that was returned.               *)
(***************************************************************************)
EXTENDS ConnectionPool

\* None is a value of its own: it is not an answer of get_connection.
ASSUME NoResult == None \notin Result

askedBar == [c \in Callers |-> IF Busy(c) THEN Last(calls[c].stack).name ELSE None]

hopBar == [c \in Callers |-> IF Busy(c) THEN Top(c).name ELSE None]

obtainedBar == [c \in Callers |-> calls[c].conn]

answerBar == [c \in Callers |-> IF got[c] = None THEN None ELSE got[c].conn]

Service == INSTANCE PoolService WITH
  asked <- askedBar, hop <- hopBar, obtained <- obtainedBar,
  answer <- answerBar, made <- conns, kept <- pinned

\* Every behaviour of the pool (pool.py) is one its interface allows: whatever
\* jump hosts, callbacks, close_all and other callers do in between, a caller is
\* answered for the server it named, hops are connected in the order of the jump
\* hosts and only through live tunnels, and no pinned connection is closed.
ImplementsService == Service!Spec
===========================================================================
