-------------------------- MODULE MCRoutedRegistry --------------------------
(* Two clients on the apex, each with a path_prefix of its own.              *)
EXTENDS RoutedRegistry

CONSTANTS c1, c2, h1

MCClient     == {c1, c2}
MCHost       == {h1}
MCSubdomain  == [c \in MCClient |-> h1]
MCMaxClients == [c \in MCClient |-> 1]

Bind(c, p)  == [client |-> c, host |-> h1, prefix |-> p, strip |-> TRUE]
MCBindings  == <<Bind(c1, <<"svc">>), Bind(c2, <<"api">>)>>
MCPaths     == {<<"svc", "a">>, <<"api">>, <<"other">>}
=============================================================================
