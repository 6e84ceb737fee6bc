----------------------------- MODULE PoolPins -----------------------------
(***************************************************************************)
(* What the connection pool and the proxies share: the names of the servers *)
(* and the set of those whose connection close() of the pool leaves alone.  *)
(***************************************************************************)

CONSTANTS
  Servers,   \* names a server can be registered under
  None

VARIABLE
  pinned     \* ConnectionPool._pinned, a set and not a count
===========================================================================
