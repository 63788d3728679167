---------------------------- MODULE MCServerStop ----------------------------
(* ServerStop for TLC: one client that reconnects, one public request. *)
EXTENDS ServerStop, TLC

CONSTANTS c1, h1

MCSubdomain  == c1 :> h1
MCMaxClients == c1 :> 1

\* Sessions are interchangeable where no liveness is checked.
Symmetry == Permutations(Session)
=============================================================================
