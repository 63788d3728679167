--------------------------- MODULE RoutedRegistry ---------------------------
(***************************************************************************)
(* The route table over the registry's pools.  NewRouteTable gives a route *)
(* the pool of its binding's subdomain (EnsurePool), so servePublic may    *)
(* hand a request that matched one client's path_prefix to the tunnel of   *)
(* another client of that subdomain.                                       *)
(***************************************************************************)
EXTENDS TunnelRegistry

CONSTANTS
    Bindings,       \* cfg.Clients: [client, host, prefix, strip] records, one
                    \* for each client, with host = Subdomain[client]
    RequestPath     \* paths that visitors ask for

Routes == INSTANCE RouteTable

\* The position of the binding that path p of host h is routed to.
RouteOf(h, p) ==
    Routes!Match(Bindings, CHOOSE o \in Routes!NewRouteTable(Bindings, h) : TRUE, p)

\* servePublic: Match, then Pick from the pool of the route's subdomain.
ServedBy(h, p) ==
    IF RouteOf(h, p) = Routes!NoRoute THEN NoTunnel
    ELSE PickFirst(Bindings[RouteOf(h, p)].host)

\* A request whose path belongs to a client's path_prefix is served by a
\* tunnel of that client (Route.Pool against the binding's client_id).
RoutedToOwnClient ==
    \A h \in Host, p \in RequestPath :
        ServedBy(h, p) # NoTunnel =>
            owner[ServedBy(h, p)] = Bindings[RouteOf(h, p)].client
=============================================================================
