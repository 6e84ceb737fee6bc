--------------------------- MODULE MCProcesses ---------------------------
(* Small instances of Processes for TLC.                                   *)
EXTENDS Processes, TLC

\* Tool calls are interchangeable.
AnyTask == Permutations(Tasks)
===========================================================================
