--------------------------- MODULE MCClientService ---------------------------
(* ClientService for TLC: services as pairs of model values. *)
EXTENDS ClientService

CONSTANTS p1, p2, a, b

\* Two processes with client_id a; one of them has a second service.
MCService == {<<p1, a>>, <<p2, a>>, <<p1, b>>}

\* One of the duplicates checks its target.
MCHealthEnabled == {<<p1, a>>}
=============================================================================
