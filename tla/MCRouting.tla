----------------------------- MODULE MCRouting ------------------------------
(* Routing for TLC.  Server files vary one thing at a time: settings below,  *)
(* at and above the limits and explicit zeros; shared and bad token files    *)
(* and control paths; lists of one or two bindings with nested, sibling,     *)
(* root and missing prefixes.  Client files have one or two services and     *)
(* missing, zero and explicit entries.  Paths are spelled with dots, doubled *)
(* and trailing slashes.                                                     *)
EXTENDS Routing

MCDefault == [k \in Setting |->
    CASE k \in {"poll_timeout", "heartbeat_interval", "poll_mode"} -> 1
      [] k \in {"session_timeout", "stream_max_duration", "resume_grace"} -> 2
      [] k = "enable_resume" -> 1
      [] k \in {"high_water_warn", "enable_websocket"} -> 0
      [] OTHER -> 3]
MCDefaultHealth == [k \in HealthKey |-> IF k = "interval" THEN 3 ELSE 1]
MCDefaultTransport ==
    [k \in TransportKey |->
        IF k \in TransportZero \union {"prefer_resume"} THEN 1 ELSE 0]

\* A file with the keys of K set to a value of V.
Sections(K, V) == UNION {[D -> V] : D \in SUBSET K}
MCSettings ==
    Sections({"poll_timeout", "session_timeout"}, 0..3)
        \union Sections({"poll_mode", "heartbeat_interval"}, 0..3)
        \union Sections({"enable_resume", "resume_grace",
                         "max_detached_resumable"}, 0..1)
        \union {("enable_resume" :> 1 @@ "resume_grace" :> 4)}

MCTokenFile == {"f1", "f2", "copy", "short", "empty"}
MCTokenOf   == [f \in MCTokenFile |->
    CASE f = "f1" -> "t1" [] f = "f2" -> "t2" [] f = "copy" -> "t1"
      [] f = "short" -> ShortToken [] f = "empty" -> NoToken]

Bind(c, h, p, s, f, m) == [client |-> c, host |-> h, prefix |-> p, strip |-> s,
                           file |-> f, max |-> m]
TokenLists ==
    {<<Bind("c1", Apex, <<"a">>, TRUE, "f1", m), Bind(c, Apex, p, TRUE, g, 1)>> :
        m \in {0, 1}, c \in {"c1", "c2"},
        p \in {<<>>, <<"a", "">>, <<"b">>, <<"tunnel">>},
        g \in MCTokenFile \union {"no file"}}
MCControl == {<<>>, Root, <<"tunnel">>, <<"ctl", "">>}

\* Control paths with dots, with and without leading slash.
DottedControl == {<<"ctl">>, <<".">>, <<"..">>, <<"..", "ctl">>, <<"x", "..", "ctl">>}

MCPart == {"", ".", "a", "b", "svc", "v1", "api", "ctl", "tunnel"}

\* "tunnel" is the control path, so no valid binding has it.
MCPrefixes == {<<>>, Root, <<"svc">>, <<"svc", "v1">>, <<"api">>, <<"tunnel">>}
RouteOfClient(c, f) ==
    {Bind(c, h, p, s, f, 1) : h \in {Apex, <<"app">>}, p \in MCPrefixes, s \in BOOLEAN}
RouteLists ==
    {<<b>> : b \in RouteOfClient("c1", "f1")}
        \union {<<b, c>> : b \in RouteOfClient("c1", "f1"),
                           c \in RouteOfClient("c2", "f2")}

OneBinding(h, p) == <<Bind("c1", h, p, FALSE, "f1", 0)>>

ServerFile(s, bs, p, rooted, padded) ==
    [kind |-> "server", settings |-> s, clients |-> bs, control |-> p,
     rooted |-> rooted, padded |-> padded]
ServerFiles ==
    {ServerFile(s, OneBinding(Apex, <<>>), <<>>, FALSE, FALSE) : s \in MCSettings}
        \union {ServerFile(<<>>, bs, p, TRUE, FALSE) : bs \in TokenLists, p \in MCControl}
        \union {ServerFile(<<>>, bs, <<>>, FALSE, FALSE) : bs \in RouteLists}
        \union {ServerFile(<<>>, OneBinding(Apex, q), p, rooted, FALSE) :
                   q \in {<<"a">>, <<"ctl">>}, p \in DottedControl, rooted \in BOOLEAN}
        \union {ServerFile(<<>>, OneBinding(h, <<>>), <<>>, FALSE, padded) :
                   h \in {<<"">>, <<"app">>, <<"App">>, <<"a", "b">>, Apex},
                   padded \in BOOLEAN}

MCNoSection == "none" :> 0
MCHealth    == Sections({"enabled", "mode"}, 0..1)
                   \union {"interval" :> 2, "mode" :> 3}
MCTransport == Sections({"prefer_resume", "max_replay_bytes"}, 0..1)
                   \union {"upload_stream_preference" :> 3}
MCService   == [client : {"c1", "c2"}, file : {"f1", "short"},
                server : {MCNoSection, "url" :> 2},
                health : {MCNoSection, "enabled" :> 1,
                          "enabled" :> 1 @@ "interval" :> 2}]
PlainService == [client : {"c1"}, file : {"f1", "short", "no file"},
                 server : {MCNoSection}, health : {MCNoSection}]

ClientFiles(multi, services) ==
    [kind : {"client"}, multi : {multi}, server : {"url" :> 1, "insecure" :> 1},
     health : MCHealth, transport : MCTransport, services : services]

MCFiles == ServerFiles
    \union ClientFiles(FALSE, {<<s>> : s \in PlainService})
    \union ClientFiles(TRUE, {<<s>> : s \in MCService}
                                \union {<<s, t>> : s, t \in MCService})

MCLabel == {"", "@", "a", "b", "app", "App", "root", "Root", "com"}
MCLower == [l \in MCLabel |-> CASE l = "App" -> "app" [] l = "Root" -> "root" [] OTHER -> l]

MCRootDomain == <<"Root", "com">>
MCHosts == {<<"root", "com">>, <<"app", "Root", "com">>, <<"App", "root", "com">>,
            <<"", "root", "com">>, <<"a", "b", "root", "com">>, <<"com">>}
MCPaths == {Root, <<"svc">>, <<"svc", "">>, <<"svc", "a">>, <<"", "svc", "a">>,
            <<"x", "..", "svc", "a">>, <<"svc", "v1", "a">>, <<"api", "a">>,
            <<"tunnel">>, <<"tunnel", "a">>, <<"a">>}

Loc(k, p, q) == [kind |-> k, path |-> p, query |-> q]
MCLocations == {Loc("path", Root, <<>>), Loc("path", <<"a">>, <<>>),
                Loc("path", <<"svc", "a">>, <<>>), Loc("url", <<"a">>, <<"q">>),
                Loc("url", <<>>, <<>>), Loc("relative", <<"a">>, <<>>)}
MCCookiePaths ==
    {NoPath} \union
    {[slash |-> p # <<>>, parts |-> p] :
        p \in {<<>>, Root, <<"a">>, <<"a", "">>, <<"svc">>, <<"svc", "a">>}} \union
    {[slash |-> FALSE, parts |-> <<"a">>]}
=============================================================================
