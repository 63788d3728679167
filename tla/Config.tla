------------------------------- MODULE Config -------------------------------
(***************************************************************************)
(* From a YAML file to a running process.  A server: LoadServer (defaults, *)
(* file, zero values, token files, ValidateServer) and NewServer, which    *)
(* validates once more and hands the settings to pollmux.  A client:       *)
(* LoadClient, for a file that describes one service or a list of services *)
(* that share a transport and a health section.                            *)
(*                                                                         *)
(* A section is a function from the keys that the file mentions to         *)
(* numbers; 0 is Go's zero value and a boolean is 0 or 1; poll_mode is     *)
(* Batch, Stream or other, a health mode 1 (tcp), 2 (http) or other.       *)
(***************************************************************************)
EXTENDS RouteTable, Integers

CONSTANTS
    Part,               \* the parts of which path prefixes in files consist
    Label,              \* the labels of which subdomains and hosts consist
    Files,              \* the files a process may start from, see file
    Default,            \* Defaults(): a value for every server setting
    DefaultHealth,      \* DefaultClient().Health
    DefaultTransport,   \* DefaultClient().Transport
    MaxResumeGrace,     \* pollmux.MaxResumeGrace
    NoSection,          \* a service without such a section of its own
    TokenFile,          \* token files, and TokenOf[f] the trimmed text in them
    TokenOf,
    NoToken,            \* an empty or unreadable file
    ShortToken          \* a token of fewer than 32 characters

Batch  == 1
Stream == 2

\* The settings whose zero value applyServerDefaults replaces.
ZeroMeansDefault ==
    {"public_listen", "http_listen", "dev_listen", "poll_timeout",
     "session_timeout", "sweep_interval", "coalesce_window",
     "poll_buffer_size", "max_send_bytes", "poll_mode", "heartbeat_interval",
     "stream_max_duration", "resume_grace", "max_replay_bytes",
     "max_streams_per_tunnel", "response_header_timeout",
     "read_header_timeout", "max_header_bytes", "status_listen", "log_level"}

\* The ones that keep an explicit zero.
ZeroKept == {"enable_resume", "max_detached_resumable", "supersede_drain_timeout",
             "high_water_warn", "enable_websocket"}

Setting == ZeroMeansDefault \union ZeroKept

HealthDetail == {"mode", "path", "interval", "timeout"}
HealthKey    == HealthDetail \union {"enabled"}

\* The transport settings whose zero value applyClientDefaults replaces, and
\* the ones that keep it.
TransportZero == {"poll_grace", "send_timeout", "dial_timeout",
                  "coalesce_window", "max_send_chunk", "max_replay_bytes"}
TransportKey  == TransportZero \union
                 {"prefer_resume", "poll_interval", "prefer_stream",
                  "upload_stream_preference", "upload_probe_timeout",
                  "prefer_websocket"}

\* Of a server section: url and control_path (0 is ""), insecure_skip_verify.
ServerKey == {"url", "control_path", "insecure"}

\* A client binding as the file has it; its host is the subdomain, split at
\* the dots (<<"">> when it is empty).
Binding == [client : STRING, host : Seq(Label) \ {<<>>}, prefix : Seq(Part),
            strip : BOOLEAN, file : STRING, max : Int]

\* Parts are strings, the sequences of their bytes.
ASSUME PartAssumption ==
    /\ Part \subseteq STRING /\ {"", ".", "tunnel"} \subseteq Part
    /\ \A x \in Part : Len(x) \in Nat /\ (Len(x) = 0 <=> x = "")

\* What viper can decode.
ASSUME FilesAssumption ==
    \A f \in Files : f.kind = "server" =>
        /\ f.clients \in Seq(Binding)
        /\ f.control \in Seq(STRING)

\* DefaultClient: besides prefer_resume, only settings that have a default for
\* zero are given a value.
ASSUME TransportAssumption ==
    \A k \in TransportKey \ (TransportZero \union {"prefer_resume"}) :
        DefaultTransport[k] = 0

VARIABLES
    file,   \* a server's: [kind, settings, clients, control, rooted, padded],
            \* control_path having a leading slash or not, root_domain white
            \* space around it or not; a client's: [kind, multi, server,
            \* health, transport, services]
    stage,  \* "file", "loaded", "serving" (a server that runs), "refused"
    cfg     \* a server's: its file's fields after the steps taken so far; a
            \* client's: the ClientConfig of each service

configVars == <<file, stage, cfg>>

-----------------------------------------------------------------------------
\* v.Unmarshal of section s into a struct that holds base: a key the file
\* does not mention keeps its value.
Decode(s, Key, base) == [k \in Key |-> IF k \in DOMAIN s THEN s[k] ELSE base[k]]

\* readTokenFile
ReadTokenFile(f) == IF f \in TokenFile THEN TokenOf[f] ELSE NoToken

-----------------------------------------------------------------------------
(* The server's file.                                                      *)

\* Variant: every zero counts as not set.
ZeroNeverKept(c) == [k \in Setting |-> IF c[k] = 0 THEN Default[k] ELSE c[k]]

\* applyServerDefaults, settings.
ApplyServerDefaults(c) ==
    [k \in Setting |-> IF k \in ZeroMeansDefault /\ c[k] = 0
                       THEN Default[k] ELSE c[k]]

\* Variant: without path.Clean, only the slashes at both ends are seen to.
ControlPathUncleaned(rooted, p) ==
    CASE p = <<>>                     -> <<"tunnel">>
      [] Len(p) > 1 /\ Last(p) = ""   -> Front(p)
      [] OTHER                        -> p

\* validateControlPath: "" is the default /tunnel, "/" an error (Root).  The
\* leading slash comes after path.Clean, so ".." stays and becomes "/..".
ValidateControlPath(rooted, p) ==
    CASE p = <<>>              -> <<"tunnel">>
      [] p # <<>> /\ rooted    -> Clean(p)
      [] OTHER                 -> CleanRelative(p)

\* The bindings with max_clients 0 set to 1, prefixes normalized and the
\* text of the token files (resolveClientBindingTokens).
Resolve(bs) ==
    [i \in DOMAIN bs |->
        [client |-> bs[i].client, host |-> bs[i].host, strip |-> bs[i].strip,
         prefix |-> NormalizePathPrefix(bs[i].prefix),
         max    |-> IF bs[i].max = 0 THEN 1 ELSE bs[i].max,
         token  |-> ReadTokenFile(bs[i].file)]]

\* Variant: two clients may have one token.
TokensLong(bs) == \A i \in DOMAIN bs : bs[i].token \notin {NoToken, ShortToken}

\* Every client has a token of 32 characters or more, and no two the same.
TokensOK(bs) ==
    /\ \A i \in DOMAIN bs : bs[i].token \notin {NoToken, ShortToken}
    /\ \A i, j \in DOMAIN bs : i # j => bs[i].token # bs[j].token

\* The limits among the settings that ValidateServer tests.
LimitsOK(c) ==
    /\ c["session_timeout"] >= 2 * c["poll_timeout"]
    /\ c["poll_mode"] \in {Batch, Stream}
    /\ c["poll_mode"] = Stream =>
           c["stream_max_duration"] >= 2 * c["heartbeat_interval"]
    /\ c["enable_resume"] = 1 =>
           /\ c["resume_grace"] > 0 /\ c["resume_grace"] <= MaxResumeGrace
           /\ c["max_replay_bytes"] > 0

\* ValidateServer accepts c, whose control path validateControlPath returned
\* (root_domain is given).
ValidateServer(c) ==
    /\ ValidBindings(c.control, c.clients)
    /\ LimitsOK(c.settings)
    /\ TokensOK(c.clients)

\* LoadServer.
LoadServer ==
    LET c == [settings |-> ApplyServerDefaults(
                               Decode(file.settings, Setting, Default)),
              clients  |-> Resolve(file.clients),
              control  |-> ValidateControlPath(file.rooted, file.control),
              padded   |-> file.padded]
    IN  /\ stage = "file"
        /\ file.kind = "server"
        /\ stage' = IF ValidateServer(c) THEN "loaded" ELSE "refused"
        /\ cfg' = c
        /\ UNCHANGED file

\* NewServer: ValidateServer again, on a control path that has its leading
\* slash now, then PollmuxServerConfig.
NewServer ==
    LET c == [cfg EXCEPT !.control = ValidateControlPath(TRUE, @)]
    IN  /\ stage = "loaded"
        /\ file.kind = "server"
        /\ stage' = IF ValidateServer(c) THEN "serving" ELSE "refused"
        /\ cfg' = c
        /\ UNCHANGED file

-----------------------------------------------------------------------------
(* The client's file.                                                      *)

\* resolveServiceTokens, resolveClientAuthToken: a single-service file may give
\* the token itself, which is then like a token file with that text.
ServiceToken(svc) == ReadTokenFile(svc.file)

Zero(Key) == [k \in Key |-> 0]

\* Variant: without v.SetDefault in LoadClient.
NoViperDefaults == Zero(TransportKey)

\* The transport that a multi-service file is decoded into: the struct's
\* zeros, with the keys for which LoadClient calls v.SetDefault.
ViperDefaults ==
    [k \in TransportKey |-> IF k \in {"prefer_resume", "max_replay_bytes"}
                            THEN DefaultTransport[k] ELSE 0]

\* applyClientDefaults
ApplyClientDefaults(c) ==
    [c EXCEPT
        !.health = [k \in HealthKey |-> IF k \in HealthDetail /\ @[k] = 0
                                        THEN DefaultHealth[k] ELSE @[k]],
        !.transport = [k \in TransportKey |-> IF k \in TransportZero /\ @[k] = 0
                                              THEN DefaultTransport[k] ELSE @[k]]]

\* The shared health section with the non-zero entries of the service's own.
MergeHealth(shared, own) ==
    IF own = NoSection THEN shared
    ELSE LET h == Decode(own, HealthKey, Zero(HealthKey))
         IN  [k \in HealthKey |-> IF k \in HealthDetail /\ h[k] # 0
                                  THEN h[k] ELSE shared[k]]

\* The shared server section with the service's own: url and control_path
\* when given, insecure_skip_verify in any case.
MergeServer(shared, own) ==
    IF own = NoSection THEN shared
    ELSE LET r == Decode(own, ServerKey, Zero(ServerKey))
         IN  [k \in ServerKey |-> IF r[k] # 0 \/ k = "insecure"
                                  THEN r[k] ELSE shared[k]]

\* loadSingleClient: the file over DefaultClient().
SingleConfig(svc) ==
    ApplyClientDefaults(
        [client    |-> svc.client,
         token     |-> ServiceToken(svc),
         server    |-> Decode(file.server, ServerKey, Zero(ServerKey)),
         health    |-> Decode(file.health, HealthKey, DefaultHealth),
         transport |-> Decode(file.transport, TransportKey, DefaultTransport)])

\* loadMultiClient, one turn of its loop.
ServiceConfig(svc) ==
    ApplyClientDefaults(
        [client    |-> svc.client,
         token     |-> ServiceToken(svc),
         server    |-> MergeServer(Decode(file.server, ServerKey, Zero(ServerKey)),
                                   svc.server),
         health    |-> MergeHealth(Decode(file.health, HealthKey, Zero(HealthKey)),
                                   svc.health),
         transport |-> Decode(file.transport, TransportKey, ViperDefaults)])

\* ValidateClient
ValidateClient(c) ==
    /\ c.server["url"] # 0
    /\ c.token \notin {NoToken, ShortToken}
    /\ c.health["enabled"] = 1 => c.health["mode"] \in {1, 2}
    /\ c.transport["max_replay_bytes"] > 0
    /\ c.transport["upload_stream_preference"] \in 0..2

\* loadMultiClient: there are services, and their client_ids are distinct.
DistinctIDs(services) ==
    /\ services # <<>>
    /\ \A i, j \in DOMAIN services :
           services[i].client = services[j].client => i = j

\* LoadClient
LoadClient ==
    LET cs == [i \in DOMAIN file.services |->
                  IF file.multi THEN ServiceConfig(file.services[i])
                  ELSE SingleConfig(file.services[i])]
        ok == /\ DistinctIDs(file.services)
              /\ \A i \in DOMAIN cs : ValidateClient(cs[i])
    IN  /\ stage = "file"
        /\ file.kind = "client"
        /\ stage' = IF ok THEN "loaded" ELSE "refused"
        /\ cfg' = IF ok THEN cs ELSE <<>>
        /\ UNCHANGED file

ConfigInit ==
    /\ file \in Files
    /\ stage = "file"
    /\ cfg = <<>>

-----------------------------------------------------------------------------
(* What the processes rely on.                                             *)

\* validToken after ClientRegistry.Lookup: token t admits client c.
Admits(t, c) ==
    \E i \in DOMAIN cfg.clients :
        cfg.clients[i].client = c /\ cfg.clients[i].token = t /\ t # NoToken

\* An explicit false or zero of the resumable-session options survives the
\* merging of defaults, and a missing one gets its default.
ExplicitZeroKept ==
    (file.kind = "server" /\ stage # "file") =>
        \A k \in {"enable_resume", "max_detached_resumable"} :
            cfg.settings[k] = IF k \in DOMAIN file.settings
                              THEN file.settings[k] ELSE Default[k]

\* What LoadServer accepted NewServer neither refuses nor changes, unless the
\* control path was one without leading slash that path.Clean reduces to "."
\* or to one that begins with "..": such a path is not what validateControlPath
\* returns for its own result.  In any case a server that runs has a canonical
\* control path, so NormalizeControlPath, which the control mux and
\* isControlPath call, gives both the path the bindings were checked against.
RevalidationAgrees ==
    [][(file.kind = "server" /\ stage = "loaded") =>
          /\ Head(cfg.control) \notin {".", ".."} => stage' = "serving" /\ cfg' = cfg
          /\ stage' = "serving" => cfg'.control = Clean(cfg'.control)]_configVars

\* In a server that runs, a token admits at most one client_id, even if two
\* bindings name one token file or two files hold one token.
TokenAdmitsOneClient ==
    stage = "serving" =>
        \A f \in TokenFile, i, j \in DOMAIN cfg.clients :
            (Admits(TokenOf[f], cfg.clients[i].client)
             /\ Admits(TokenOf[f], cfg.clients[j].client)) => i = j

\* A service of a multi-service file runs with the settings that a file for
\* it alone would give it, when the health section says whether it is enabled
\* and the service adds nothing: the two loaders fill in the same defaults,
\* and an explicit prefer_resume: false holds in both formats.
FormatsAgree ==
    (file.kind = "client" /\ stage = "loaded") => \A i \in DOMAIN cfg :
        (/\ file.services[i].health = NoSection
         /\ file.services[i].server = NoSection
         /\ "enabled" \in DOMAIN file.health)
            => cfg[i] = SingleConfig(file.services[i])
=============================================================================
