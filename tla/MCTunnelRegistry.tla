-------------------------- MODULE MCTunnelRegistry --------------------------
(* TunnelRegistry for TLC: two clients share one subdomain, and their        *)
(* bindings disagree on max_clients.                                         *)
EXTENDS TunnelRegistry, TLC

CONSTANTS c1, c2, h1

MCClient     == {c1, c2}
MCHost       == {h1}
MCSubdomain  == [c \in MCClient |-> h1]
MCMaxClients == c1 :> 1 @@ c2 :> 2

\* Bound: one health report at a time is between its lookup and its store.
OneReport == \A s, t \in Session : NoPoll \in {poll[s], poll[t]} \/ s = t

\* Session ids are interchangeable: used only where no liveness is checked.
SessionSymmetry == Permutations(Session)
=============================================================================
