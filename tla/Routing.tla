------------------------------ MODULE Routing -------------------------------
(***************************************************************************)
(* One visitor's exchanges with the public side: rootHandler, servePublic  *)
(* up to the pool, the proxy's Rewrite, the backend's answer with its      *)
(* Location and Set-Cookie, modifyProxyResponse, and the visitor following *)
(* the redirect.  Before that the process gets its configuration (Config); *)
(* NewServer fixes the route table.  Requests and headers are inputs.      *)
(***************************************************************************)
EXTENDS Config

CONSTANTS
    Lower,          \* Lower[l]: strings.ToLower of label l
    RootDomain,     \* root_domain, trimmed, as a sequence of labels
    HostHeaders,    \* Host headers without port, as sequences of labels
    RequestPaths,   \* values of r.URL.Path
    Locations,      \* Location headers a backend sends
    CookiePaths     \* Path attributes of a backend's cookies

\* Hosts and paths are sequences of labels and of parts; a Location of the
\* kind "path" begins with a slash, so it has a part.
ASSUME InputAssumption ==
    /\ Lower \in [Label -> Label]
    /\ \A l \in Label : Lower[Lower[l]] = Lower[l]
    /\ RootDomain \in Seq(Label)
    /\ HostHeaders \subseteq Seq(Label)
    /\ RequestPaths \subseteq Seq(STRING)
    /\ CookiePaths \subseteq [slash : BOOLEAN, parts : Seq(STRING)]
    /\ \A l \in Locations : l.path \in Seq(STRING) /\ (l.kind = "path" => l.path # <<>>)

Apex    == <<"@">>
BadHost == <<>>

VARIABLES
    order,     \* order[h]: the routes of host key h as NewRouteTable left them
    visit,     \* "idle", "forwarded", "answered"
    request,   \* [key, path]: host key and r.URL.Path of the request
    target,    \* the position of its route's binding, NoRoute or Control
    out,       \* the path sent to the backend
    sent,      \* [loc, cookie]: what the backend answered
    got,       \* [loc, cookie]: the same headers as the visitor sees them
    follows    \* the redirect this request follows, or NoRedirect

visitVars == <<visit, request, target, out, sent, got, follows>>
vars      == <<configVars, order, visitVars>>

\* cfg.Clients of a server that runs.
bindings == IF stage = "serving" THEN cfg.clients ELSE <<>>

Keys(bs) == {bs[i].host : i \in DOMAIN bs}

-----------------------------------------------------------------------------
(* Hosts.                                                                  *)

\* strings.ToLower
LowerHost(host) == [i \in DOMAIN host |-> Lower[host[i]]]

\* The key of host h under root r: "@" for r itself, else the one label before
\* it.
KeyUnder(h, r) ==
    LET n == Len(h) - Len(r)
    IN  CASE h = r                       -> Apex
          [] n > 0 /\ IsSuffix(r, h)     ->
                 IF n > 1 THEN BadHost   \* ErrNestedSubdomain
                 ELSE IF h[1] = "" THEN Apex ELSE <<h[1]>>
          [] OTHER                       -> BadHost

\* HostKey: both names in lower case, and the root domain trimmed.
HostKey(host) == KeyUnder(LowerHost(host), LowerHost(RootDomain))

\* FQDN
FQDN(key, root) == IF key = Apex THEN root ELSE key \o root

\* Variant: any host that has a key may get a certificate.
AllowedByKey(bs, host) == HostKey(host) \in Keys(bs)

\* AllowedHosts: the hosts autocert may issue a certificate for.  Here the root
\* domain is not trimmed, so no host ends in one with white space around it.
AllowedHosts(bs, host) ==
    /\ HostKey(host) \in Keys(bs)
    /\ ~cfg.padded
    /\ LowerHost(host) = FQDN(HostKey(host), LowerHost(RootDomain))

-----------------------------------------------------------------------------
(* Requests.                                                               *)

\* isControlPath looks at the path as it came.
IsControlPath(p) == p = cfg.control \/ Under(p, cfg.control)

\* The prefix in the request's context: the route's, when it is to be cut.
StripOf(r) == IF r \in DOMAIN bindings /\ bindings[r].strip
              THEN bindings[r].prefix ELSE <<>>

Control == -1

\* rootHandler and servePublic: the control plane, an error (400, 404), or a
\* route.
Serve(key, p) ==
    CASE IsControlPath(p) -> Control
      [] ~IsControlPath(p) /\ key \notin Keys(bindings) -> NoRoute
      [] OTHER -> Match(bindings, order[key], p)

NoLocation == [kind |-> "relative", path |-> <<>>, query |-> <<>>]
NoPath     == [slash |-> FALSE, parts |-> <<"no path attribute">>]
NothingSent == [loc |-> NoLocation, cookie |-> NoPath]
NothingGot  == [loc |-> <<>>, cookie |-> NoPath]
NoRedirect  == [route |-> NoRoute, path |-> <<>>]

\* A request for path p of host key k is served, and Rewrite sets the path.
Forward(k, p) ==
    LET t == Serve(k, p)
    IN  /\ request' = [key |-> k, path |-> p]
        /\ target' = t
        /\ out' = IF t \in {Control, NoRoute} THEN <<>>
                  ELSE StripPathPrefix(p, StripOf(t))
        /\ visit' = IF t \in {Control, NoRoute} THEN "idle" ELSE "forwarded"
        /\ sent' = NothingSent
        /\ got' = NothingGot
        /\ UNCHANGED <<configVars, order>>

\* A visitor's first request.
Request(host, p) ==
    /\ stage = "serving"
    /\ visit = "idle"
    /\ follows' = NoRedirect
    /\ Forward(HostKey(host), p)

\* modifyProxyResponse and rewritePublicPrefixHeaders: with a stripped prefix
\* both headers are rewritten.  A cookie without Path attribute stays as it is.
Answer(loc, cookie) ==
    LET prefix == StripOf(target)
    IN  /\ visit = "forwarded"
        /\ sent' = [loc |-> loc, cookie |-> cookie]
        /\ got' = IF prefix = <<>>
                  THEN [loc |-> Text(loc.path, loc.query), cookie |-> cookie]
                  ELSE [loc |-> RewriteLocation(prefix, loc),
                        cookie |-> IF cookie = NoPath THEN cookie
                                   ELSE RewriteCookiePath(prefix, cookie)]
        /\ visit' = "answered"
        /\ UNCHANGED <<configVars, order, request, target, out, follows>>

\* The visitor follows a redirect to a path of the same host.
Follow ==
    /\ visit = "answered"
    /\ sent.loc.kind = "path"
    /\ sent.loc.query = <<>>
    /\ follows' = [route |-> target, path |-> sent.loc.path]
    /\ Forward(request.key, got.loc)

\* NewServer, with buildRouteTable: each host has its routes in order.
StartServer ==
    /\ NewServer
    /\ LET hosts == Keys(cfg.clients)
       IN  IF stage' = "serving"
           THEN order' \in {o \in [hosts -> UNION {NewRouteTable(cfg.clients, h) :
                                                   h \in hosts}] :
                               \A h \in hosts : o[h] \in NewRouteTable(cfg.clients, h)}
           ELSE order' = order
    /\ UNCHANGED visitVars

Init ==
    /\ ConfigInit
    /\ order = <<>>
    /\ visit = "idle"
    /\ request = [key |-> BadHost, path |-> <<>>]
    /\ target = NoRoute
    /\ out = <<>>
    /\ sent = NothingSent
    /\ got = NothingGot
    /\ follows = NoRedirect

Next ==
    \/ LoadServer /\ UNCHANGED <<order, visitVars>>
    \/ LoadClient /\ UNCHANGED <<order, visitVars>>
    \/ StartServer
    \/ \E host \in HostHeaders, p \in RequestPaths : Request(host, p)
    \/ \E loc \in Locations, c \in CookiePaths : Answer(loc, c)
    \/ Follow

Spec == Init /\ [][Next]_vars

-----------------------------------------------------------------------------
(* What the routes promise.                                                *)

\* How specific a prefix is: no prefix, "/", then the number of parts.
Depth(q) == CASE q = <<>> -> 0 [] q = Root -> 1 [] OTHER -> Len(q) + 1

\* The routes of host key k that cover path p.
Covering(k, p) ==
    {i \in DOMAIN bindings :
        /\ bindings[i].host = k
        /\ \/ bindings[i].prefix \in {<<>>, Root}
           \/ IsPrefix(bindings[i].prefix, Clean(p))}

\* A forwarded request goes to the most specific of the routes that cover
\* its path, however the unstable sort ordered routes of equal length
\* (RouteTable.Match, sort.Slice).  Whether that route has a tunnel plays no
\* part: the table is fixed at the start.
MatchIsLongest ==
    visit = "forwarded" =>
        /\ target \in Covering(request.key, request.path)
        /\ \A i \in Covering(request.key, request.path) :
               Depth(bindings[i].prefix) <= Depth(bindings[target].prefix)

\* A canonical path below a binding's own prefix is never taken by the
\* control plane (validateControlPathNotConflicting against isControlPath):
\* it reaches that route or a more specific one.
PrefixNotShadowed ==
    \A i \in DOMAIN bindings :
        (/\ bindings[i].prefix \notin {<<>>, Root}
         /\ request.path = Clean(request.path)
         /\ request.key = bindings[i].host
         /\ IsPrefix(bindings[i].prefix, request.path))
            => target \notin {Control, NoRoute}

\* A request follows a redirect that the rewriting is meant for: a stripped
\* prefix other than "/", and a path that the backend gave in its own terms.
FollowsOwnRedirect ==
    LET prefix == StripOf(follows.route)
    IN  /\ follows.route # NoRoute
        /\ prefix \notin {<<>>, Root}
        /\ ~(follows.path = prefix \/ Under(follows.path, prefix))

\* A visitor who follows a redirect to a canonical path gets back to the same
\* route, and the backend sees the very path it redirected to: stripping
\* undoes rewriteLocation across two requests.
CanonicalRedirectArrives ==
    (FollowsOwnRedirect /\ follows.path = Clean(follows.path))
        => target = follows.route /\ out = follows.path

\* A browser sends a cookie with path c along with a request for path q.
PathMatch(q, c) ==
    \/ c = Root \/ q = c \/ Under(q, c)
    \/ Last(c) = "" /\ Len(q) >= Len(c) /\ IsPrefix(Front(c), q)

\* The path a visitor uses for the backend's path b.
PublicPath(prefix, b) == IF b = Root THEN prefix ELSE prefix \o b

\* rewriteCookiePath neither loses nor leaks a session: a cookie the backend
\* means for path b accompanies the public path of b, unless it is for a path
\* strictly below one that reads like the prefix (prependPublicPath takes it
\* for a public path then), and it is never sent outside the route's prefix.
CookieFollowsRoute ==
    LET prefix == StripOf(target)
        inner  == IF sent.cookie.parts = <<>> THEN Root ELSE sent.cookie.parts
    IN  (visit = "answered" /\ prefix \notin {<<>>, Root} /\ sent.cookie # NoPath)
        => /\ ~Under(Clean(inner), prefix) =>
                  \A b \in {Clean(p) : p \in RequestPaths} :
                      PathMatch(b, inner) =>
                          PathMatch(PublicPath(prefix, b), got.cookie.parts)
           /\ got.cookie.slash /\ IsPrefix(prefix, got.cookie.parts)

\* A subdomain that HostKey can return: "@", or one label that is not empty.
Reachable(k) == k = Apex \/ (Len(k) = 1 /\ k[1] # "")

\* autocert may fetch a certificate for a host, in whatever case it is written,
\* exactly if in lower case it is the name of a bound subdomain that HostKey
\* can return.  HostKey accepts more than that (a name that begins with a dot),
\* and ValidateServer accepts bindings that get none: an empty subdomain or one
\* with a dot is not Reachable, the name of one with an upper-case letter
\* is not in lower case, and white space around root_domain rules out all.
CertOnlyForBoundHosts ==
    stage = "serving" => \A host \in HostHeaders :
        AllowedHosts(bindings, host) <=>
            /\ ~file.padded
            /\ \E k \in Keys(bindings) :
                   Reachable(k) /\ LowerHost(host) = FQDN(k, LowerHost(RootDomain))
=============================================================================
