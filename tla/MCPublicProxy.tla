--------------------------- MODULE MCPublicProxy ---------------------------
(* PublicProxy for TLC: one client that reconnects, two concurrent requests. *)
EXTENDS PublicProxy, TLC

CONSTANTS c1, h1

MCSubdomain  == c1 :> h1
MCMaxClients == c1 :> 1

\* Sessions and requests are interchangeable where no liveness is checked.
Symmetry == Permutations(Session) \union Permutations(Request)
=============================================================================
