--------------------------- MODULE MCProcessLock ---------------------------
(* ProcessLock for TLC: client processes are interchangeable. *)
EXTENDS ProcessLock, TLC

ProcessSymmetry == Permutations(Process)
=============================================================================
