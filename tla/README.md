# HttpHop in TLA+

HttpHop is a reverse tunnel. A client behind NAT opens a *pollmux* session to a
public server; yamux runs on top of it, and the server proxies public HTTP
requests over yamux streams to the client, which copies them to a local
service. This directory models the parts of it that are hard to test, checks
them with TLC on small instances and proves the most important results with
TLAPS for every size.

## 1. The system

| component | state | operations | model |
|---|---|---|---|
| registry and pools (`internal/registry`) | `byName` pools, `bySess`, per tunnel `LocalHealthy`, `Draining`, `ActiveStreams` | Register, supersede drain, SetLocalHealth, RemoveBySessionID, Pick | `TunnelRegistry` |
| pollmux hooks (`internal/server/server.go`) | none of its own | authenticateConnect, onConnect, onPoll, onDisconnect | `TunnelRegistry` |
| public requests (`proxy.go`, `bridge.go`) | one goroutine per request, `ActiveStreams` | servePublic, dial, countedConn.Close, error handler | `PublicProxy` |
| client process lock (`internal/client/preflight.go`) | lock file and its flock | acquire, release | `ProcessLock` |
| routing (`internal/router`) | route table, fixed at start | HostKey, Match, StripPathPrefix, AllowedHosts | `RouteTable`, `Routing`, `RoutedRegistry` |
| header rewriting (`proxy_rewrite.go`) | none | Location and cookie paths | `RouteTable`, `Routing` |
| server start and stop (`server.go`, `cmd/server`) | listeners, deadline, exit status | Start, Stop | `ServerStop` |
| client service loop, health checker (`client.go`, `cmd/client`) | session, `healthy` flag, goroutines | reconnect, restart after supersession, probe, signal | `ClientService` |
| client stream handler (`handler.go`) | two copy goroutines | bridge, half-close, host rewriting | `StreamBridge` |
| configuration (`internal/config`) | the configuration, read once | load, fill in defaults, merge, validate | `Config` |
| authentication (`auth.go`) | client table, fixed at start | Lookup, validToken | `Admits` in `Config` |
| TLS, status and error pages | none that matters here | | not modelled |

How the parts meet. pollmux calls the hooks from its HTTP handlers (connect,
poll, delete) and from its sweeper, each in a goroutine of its own. Public
requests read the pools, hold a pointer to the tunnel they picked, and change
its counter. A supersession starts one goroutine per replaced tunnel, which
reads that counter and closes the tunnel. `Registry.mu` guards `byName` and
`bySess`, `TunnelPool.mu` the members; the flags and the counter are atomics
which anyone touches at any time. Stop runs on main's goroutine among all of
these. On the client, each configured service has one goroutine in main, each
round of it a Checker goroutine, and each stream two copy goroutines. What can go wrong lies between these
critical sections; the list, line by line, is under `hazards` in
`PROJECT.json`.

## 2. Modules

**`TunnelRegistry`**: one step is one critical section, or one access to an
atomic outside any. A tunnel is named by its session (onConnect makes one for
each).

| action | code |
|---|---|
| `AuthenticateConnect` | `authenticateConnect` accepts, pollmux stores the session |
| `RegisterReplace`, `RegisterAppend`, `RegisterRefused` | `onConnect` and `Register` to the end of `TunnelPool.Add` |
| `RegisterDone` | the rest of `Register`, until `r.mu` is released |
| `PollLookup`, `PollStore` | `onPoll` and `SetLocalHealth`: `ByID`, then the atomic store |
| `CloseSession` | pollmux ends the session (client DELETE, sweeper, stop) |
| `DisconnectLookup`, `DisconnectRemove`, `DisconnectUnknown` | `onDisconnect`: `GetBySessionID` and Yamux.Close; `RemoveBySessionID` |
| `TransportCollapse` | yamux runs over the session: when one is closed the other follows |
| `DrainEnds`, `DrainClose` | the goroutine of `beginSupersedeDrain` |

`Register` is split after `Add` because `servePublic` holds the pool itself
(`route.Pool`) and does not take `r.mu`: it sees the pool before
`LocalHealthy` is set. `SetLocalHealth` does not hold `r.mu` during `ByID`
either, so it too may fall inside a `Register`. Within `authenticateConnect`
the two reads `ByID` and `Len` are one step: it accepts when either allows it,
so the moment of the decisive read is the step. A refusal there, and a request
with a wrong token, change nothing. Members are scanned in one step by `Pick`,
although the flags it reads are atomics.

**`ClientDirectory`**: what the registry promises: one current session per
client_id, displaced only by a newer session of that client or after its own
end. `Directory` in `TunnelRegistry` is the refinement mapping:
`current[c]` is what `ByID` finds, `used` the sessions that got as far as
`Add`, `ended` those whose OnDisconnect hook has been started.

**`PublicProxy`** extends `TunnelRegistry` with one process per request:
`Pick`, `CheckHealth`, `Admit`, `OpenStream`, `CountStream`, `StreamEnds`,
`UncountStream`; and it refines the end of the drain loop into `DrainIdle`
(the counter was read as zero) and `DrainExpired`. The tunnel is picked for
any subdomain; routing is an input. What happens on the stream is the
backend's business and appears as the answer: 200 stands for whatever the
backend says, 504 for the response header timeout, 502 for every other error.
That the Transport closes each connection it dialled exactly once is assumed
of `net/http` (keep-alives are disabled).

**`ProcessLock`**: `AcquireProcessLock` and its release function against a
file system in which a name, a file and a lock on a file are three things.
Processes may be killed at any point.

**`ServerStop`** extends `PublicProxy` with main, Start and Stop. The start of a
request or a connect (`Accepts`) now needs an open public listener; whatever has
begun goes on until the process ends. `Upgrade` is a public WebSocket: the
ReverseProxy hijacks the connection, and `http.Server.Shutdown` no longer waits
for that request (`HandlersIdle`). `StopBegin` takes the snapshot of the store,
`StopClose` is one CloseSession of the loop and waits for its OnDisconnect
(`StopHookDone`), `ShutdownReturns` is one Shutdown call. Here a session may be
closed while its connect handler is still on the way to `Register`, the one
case that `TunnelRegistry` leaves out.

**`RouteTable`** is the path arithmetic as operators: a path is the sequence of
its parts, so `HasPrefix(q, p + "/")` is the strict prefix relation of
sequences. It has `path.Clean`, the table with every order that an unstable
sort by length may leave, Match, StripPathPrefix, the configuration's tests of
prefixes, and the rewriting of Location and cookie paths. `Clean` is `path.Clean`
of a path that begins with a slash, `CleanRelative` of one that does not: there
`..` may stay. Its recursion is by
recursive functions, which can be proved about. **`Routing`** runs
one visitor through it, once `Config` has brought a server up (`StartServer` is
NewServer with `buildRouteTable`): `Request`, `Answer` (the backend's headers, rewritten),
`Follow` (the visitor's next request). The reference definition of Match is
`MatchIsLongest`: the most specific of the routes that cover the path, whether
or not it has a tunnel. A host, like a binding's subdomain, is a sequence of
labels, `Lower` is `strings.ToLower` of a label, and `FQDN` is concatenation: a
subdomain `App` or `a.b` is a binding that no host key equals.
**`RoutedRegistry`** puts the route table over the registry's pools.

**`Config`** is the package `internal/config`: `LoadServer`, `NewServer` and `LoadClient`
as steps from a file to a configuration. A section is a partial function, so
that a missing key, an explicit zero and a value are three things, and
decoding over defaults is what makes two of them alike. A control path has a
leading slash or not (`rooted`); `validateControlPath` cleans it before it adds
one. `padded` is white space around root_domain, which HostKey trims and
AllowedHosts does not.

**`StreamBridge`**: one stream of the client: `Dial`, `RewriteHost`, `CopyUp`,
`UpEnds`, `CopyDown`, `DownEnds`, `Return`. The server's Transport, yamux and
the local service are its environment, which may close, fail or reset at any
point. Data is counted in chunks.

**`ClientService`**: processes, each with services; a service goroutine is in
`new`, `connecting`, `serving`, `restart` or `exited`. pollmux's ReconnectLoop
and the server are the environment: a connect supersedes the session that the
server holds for the client_id. The Checker of the current round is modelled
step by step; older ones run on in the code until the process ends, but nobody
reads their flags, and the model leaves them out.

`MC*` modules only give the constants values. Definitions marked *Variant* are
the mutations of the definition that follows them; the runs' mutants use them.

### Simplifications

* `pollmux.ClientSession` failing and an unknown client_id in `onConnect`
  cannot happen: the yamux configuration and the bindings are fixed.
* A session is closed only after its connect handler has returned: the client
  learns the id from the answer, and the sweeper's timeouts are far longer.
  The exception is a server stop during a connect: `ServerStop` has it.
* `CloseSession` and the hook it calls are separate steps; pollmux calls
  OnDisconnect once for each session.
* `warmCert`, logging, `/status` and `Closed` (read only there) are left out.
* `ServerStop`: Shutdown waits for connects and for public requests that were
  not hijacked. Polls and DELETEs are not counted (a poll over the client's
  WebSocket is hijacked as well; of the others Shutdown may return earlier here
  than it does, never later). Only the public server has handlers. The
  sweeper's stop has no step: CloseSession stays possible.
* `Routing`: ports are gone from hosts; a Location is a path, a URL or relative,
  and only its path and query matter. A path_prefix begins with a slash:
  ValidateServer refuses any other (load.go:314).
* `StreamBridge`: nothing follows the request in the buffer (handler.go:107),
  since the Transport sends one request on a stream.
* `ClientService`: a connect that fails is a connect not yet made; the local
  target is looked at only by the Checker. main's branch for another error of
  Run (main.go:76) has no step: ReconnectLoop retries after every failure
  (ARCHITECTURE.md:1350-1355) and returns nil or the context's error.

## 3. Runs

| run | instance | shows |
|---|---|---|
| `registry` | 2 clients with max_clients 1 and 2 in one pool, one reports health, 3 sessions | `RegistryInv` (types and unique members among its parts), indexes agree (`IndexConsistent`), pools bounded (`PoolBound`), no orphan (`NoOrphanTunnel`), draining tunnels stay out (`DrainingOutOfPool`), reports leave other clients serving (`PoolServes`), `NoForeignEviction`, `ClientDirectory` implemented (`DirectorySpec`) |
| `proxy_health` | 1 client with health check, 2 sessions, 1 request, limit 1, fair | an old or reordered bad report does not last (`HealthRecovers`) |
| `proxy_liveness` | same without health check, 2 requests, fair | `ActiveStreams` is exact (`StreamCountExact`), a superseded tunnel closes (`SupersededCloses`), a closed tunnel's counter returns to 0 (`ClosedReleasesStreams`), a closed session's tunnel leaves its pool (`ClosedLeavesPool`) |
| `lock_crash` | 4 processes | crashes alone keep the lock exclusive (`ExclusiveBeforeRemove`, `LockInv`); refusals are justified (`RefusedOnlyByHolder`) |
| `routing` | server files that vary settings, tokens, control path (rooted and not) and lists of up to 2 bindings (6 prefixes; apex and subdomains, also in upper case, with a dot and empty); client files of both formats; 11 spellings of paths | an explicit zero survives the defaults (`ExplicitZeroKept`), one client per token (`TokenAdmitsOneClient`), validating twice changes nothing but a relative `.` or `..` (`RevalidationAgrees`), both client formats agree (`FormatsAgree`); the longest prefix wins whatever the sort did (`MatchIsLongest`), control_path shadows no prefix (`PrefixNotShadowed`), redirects and cookies come back (`CanonicalRedirectArrives`, `CookieFollowsRoute`), certificates exactly for reachable bound names (`CertOnlyForBoundHosts`) |
| `bridge` | 2 chunks each way, length-framed, with and without host rewriting, fair | nothing truncated (`NoTruncation`), no early EOF (`EofAfterRequest`), the handler ends (`ClosedBridgeEnds`), the server sees the end of the response (`ResponseEndSeen`), `BridgeInv` |
| `stop` | 1 client, 2 sessions, 1 request, 3 http.Servers, fair | the snapshot is closed (`SnapshotClosed`, `StopInv`), the indexes agree (`IndexConsistent`), status 0 only if nothing but WebSockets was cut off (`CleanExit`), Stop returns (`StopReturns`) |
| `service` | 2 processes, 3 services, one shared client_id, fair | signals end processes (`SignalEndsProcess`), services serve again after supersessions and losses (`SupersededComesBack`), reports follow the target (`ReportTurnsOk`) and an ok is backed by a probe (`OkBacked`, `ServiceInv`) |
| `drain_race` | as `proxy_liveness` | **violated** (`DrainKeepsStreams`): a drain that saw zero streams closes a tunnel with a stream |
| `lock_release` | 3 processes | **violated** (`SingleHolder`): two clients hold the lock after a release |
| `bridge_eof` | as `bridge`, response ends with the connection | **violated** (`ResponseEndSeen`): the server never sees the end |
| `shared_pool` | 2 clients with 2 prefixes on one subdomain, 2 sessions | **violated** (`RoutedToOwnClient`): a prefix is served by the other client's tunnel |

The violated properties quote a comment or the architecture document; the
findings in `PROJECT.json` give the lines.

Bounds. Session ids, requests and processes are used once, so every behaviour
ends: deadlock is therefore not checked. (Client processes can always go on, and
there it is.) Three sessions let a client be superseded while the other's
connect, disconnect or drain is under way, and different max_clients in one
pool are the case in which the size test depends on who asks. `OneReport` (run `registry`): one
health report at a time is between its lookup and its store, so a report races
with every other step but not with a second report (the proofs have no such
bound). Two sessions suffice where requests are added: an old and a new tunnel
of one client. Two requests are the least that can race for the limit.
Sessions, requests and processes are symmetric in the safety runs. For a stop,
two sessions are one in the snapshot and one after it, or an old and a new one;
three servers make the order of the Shutdown calls matter. A file varies one
thing at a time, since validation treats settings, tokens and prefixes apart.
Two bindings suffice for routing, since every rule of the configuration is
about pairs. Two chunks let a direction be before, amid and after its data.

Fairness. Handlers and goroutines that have started keep running (weak
fairness of their steps). The drain loop wakes every 100 ms and has a deadline,
so it ends whatever the counter does. pollmux's sweeper ends a session that is
closed and no longer polled (ARCHITECTURE.md 5.3 and 8). Nothing is assumed
of a live exchange, since only response headers have a timeout; on a closed
yamux session a stream's reads and writes fail, so there the request ends. A
session that stays in the store keeps polling, and a report that has found its
tunnel is stored; whether reports are good or bad is left open.
Stop: its goroutine runs, the context's deadline passes, hooks that wait for
`Registry.mu` get it; nothing is assumed of requests. Bridge: goroutines run,
the server sends its request and closes a finished exchange, the local service
answers a complete request and closes; nobody has to quit, fail or reset.
Client: goroutines, timers and polls go on and a retried connect succeeds in
the end (ReconnectLoop retries without limit); sessions need not end.

## 4. Proofs

For any number of chunks, services and servers, any sets of clients, sessions
and subdomains, any files, bindings and paths, any finite set of requests and
any number of processes:

* `TunnelRegistryProofs`: `Invariance`, and from it `TypeCorrect`,
  `IndexesAgree`, `MembersUnique`, `PoolsBounded`, `NoOrphans`,
  `DrainingUnreachable`, and `OpenTunnelServes`, for which `HealthDefault` adds that only clients with a health check report. The invariant
  `RegistryInv` joins the safety properties with three that are needed to carry
  them: `OneWriter` (one `Register` at a time is between `Add` and unlock),
  `Lifecycle` (which stages of connect, drain and poll exclude each other) and
  `Disconnecting` (a session disconnects after it has connected, and a
  registered one has its yamux session closed before it is removed). All but
  `Disconnecting` and `NoOrphanTunnel` are `PoolInv`, which every step keeps
  without them (`PoolStep`): it does not depend on who closes sessions, and
  when. Why it takes all of them: `Remove` stops at the first member with
  the client_id, so it removes the right tunnel only if members are unique,
  and the session it is called for is the current one only because `bySess`
  mirrors the pools; no tunnel is orphaned only because the one that left
  `bySess` by replacement has begun to drain, and one that left by disconnect
  had its yamux session closed by `onDisconnect` first. The helper lemmas
  (`ReplaceFacts`, `AppendFacts`, `RemoveFacts`) say what the three updates of
  a pool do to its set of members.
* `DirectoryProofs`: `OnlyOwnEviction` and `ImplementsDirectory`, from the
  invariant: a replacing `Register` is a `Connect`, a removal a `Withdraw`,
  all else an `End` or a stuttering step.
* `PublicProxyProofs`: `ProxyRefinesRegistry` (so everything above holds of
  the composition as well) and `StreamsCounted`, by counting the set of
  requests that hold a stream; its invariant adds that a request between Pick
  and its end holds a tunnel. `ProxyTypeCorrect` rests on the same: a counter
  that equals the size of a set is never negative.
* `ProcessLockProofs`: `LockInvariance`, `CrashesKeepExclusion`,
  `RefusalsJustified`. Before a Remove all open files are the one the path
  names, and a lock's holder runs and has that file open.
* `ServerStopProofs`: `StopInvariance`, and from it `StopTypeCorrect`,
  `SnapshotIsClosed`, `ExitsClean`. `StopInv` is about what stays done: a
  session enters the store once (it has left `idle`), so one that Stop or
  another goroutine took out does not come back; a closed listener lets no
  handler start, so handlers that were idle when Shutdown returned stay idle
  through the other Shutdown calls. Requests that were hijacked are excepted:
  they may go on, and `ExitsClean` says that only they are cut off by an exit
  with status 0. The proof handles all steps of the proxy
  and the registry in three lemmas (`ServeStore`, `ServeShape`, `IdleStays`).
  `PoolsWhileStopping` carries `PoolInv` and the exact stream counts over to
  the stopping server, where `Disconnecting` fails: Stop may close a session
  before its Register, and OnDisconnect may look it up before and remove it
  after. From it follow `IndexesWhileStopping`, `StreamsWhileStopping` and
  `OwnEvictionWhileStopping`.
* `StreamBridgeProofs`: `BridgeInvariance`, `NoResponseTruncated`,
  `NoEarlyEof`. `Flow` adds to the two properties why they hold: a direction
  that has stopped without a reset has seen the local side closed with all of
  its data copied, and the end of the request side is shown only after the
  server's own close.
* `ClientServiceProofs`: `ServiceInvariance`, `ClientTypeCorrect`,
  `OkReportsBacked`. The flag of the current Checker implies a successful probe
  of that Checker; a report copies the flag, and a new Client starts without.
* `RoutingProofs`, in three layers.
  *Paths.* `SetInduction` is induction over numbers with a set in the place of
  a predicate (the library's theorems take an operator, which the provers
  cannot instantiate), and `Recursion` makes of it that a step function can be
  iterated; so `KeptEquation` and `BytesEquation` unfold the two recursive
  functions of `RouteTable` for paths of any length. From there: what
  `path.Clean` returns (`CleanFacts`: `/` or a path of ordinary parts) and
  leaves alone (`CanonicalIsClean`), that without a leading slash it returns
  ordinary parts after any number of `..` (`KeptClimbs`, `CleanRelativeFacts`),
  and that `/` is the shortest prefix in bytes (`ByteLenFacts`).
  *Configuration.* `ConfigInv` says that the configuration is a function of the
  file, one validation after LoadServer and two after NewServer, and valid in a
  server that was not refused. Its hard part is the control path:
  `ControlFacts` shows that the second validation makes it canonical in any
  case and leaves it alone unless the first result begins with `.` or `..`. It
  gives `Revalidation`, `ZeroesKept`, `OneClientPerToken` and
  `ClientFormatsAgree`.
  *Visits.* `MatchFacts` is `Match` against its reference: an injective list of
  a host's routes, as long as their number, holds all of them; at most one
  prefix other than `""` and `/` covers a path, since two would be nested
  (`OneSpecificRoute`); and that one comes before `/` because it has more
  bytes. `SpecificRouteWins` adds the control path, `StripUndoesPrepend` and
  `CookieReaches` the rewriting. `RoutingInv` joins `ConfigInv` with what a
  visit has to remember between its steps: the table is `NewRouteTable`'s, the
  target is still what `Serve` says of the request, and the visitor's headers
  are the rewritten ones. It gives `LongestMatch`, `NotShadowed`,
  `RedirectsArrive`, `CookiesFollow` and `CertificatesForBoundHosts`, for which
  `HostFacts` has HostKey and FQDN as inverse to each other on the subdomains
  that HostKey can return. (TLC
  finds no violation of `RoutingInv` on the instance of run `routing` either;
  the run checks the properties that follow from it.)

The assumptions are `BindingAssumption` (each client has one subdomain, by the
test for duplicates, and a positive max_clients: the default replaces 0, but a
negative value in the file is not refused), `SrvAssumption` (there is a public
server), `BridgeAssumption` and `ServiceAssumption` (types), `NilAssumption`,
`RequestAssumption` and `NoneAssumption`; for routing `PartAssumption` (parts
of paths are strings, `""`, `.` and `tunnel` among them, and only the empty one
has no bytes), `FilesAssumption` and `InputAssumption` (what files, requests and
headers are made of; lower case is lower case of itself), and
`TransportAssumption` (of the transport settings that keep an explicit zero
DefaultClient sets only prefer_resume).

Only model-checked: the liveness properties (`ClosedLeavesPool`,
`SupersededCloses`, `ClosedReleasesStreams`, `HealthRecovers`, `StopReturns`, `ClosedBridgeEnds`,
`ResponseEndSeen`, `SignalEndsProcess`, `SupersededComesBack`,
`ReportTurnsOk`), since fairness and ENABLED are beyond the prover. `NoOrphanTunnel`
and the refinement of `ClientDirectory` are not claimed of a stopping server:
a tunnel registered after its OnDisconnect looked it up leaves its pool with
yamux still open, until the closed session brings it down.

## 5. Not modelled

* `tls.go`: autocert and its cache. Which hosts it may ask for is modelled
  (`AllowedHosts`).
* `status.go`, `errors.go`, `diagnostics.go`, `session_detail.go`,
  `preflight_pgrep.go`: they read state for a page, a log line or a message.
* `Bridge` in `bridge.go` and the helpers of `route.go` that only tests call.
* The inside of pollmux and yamux: resumption, replay, polling modes, flow
  control. They are libraries; their effects appear where the code uses them.
* Negative numbers in configuration files (see the hazards).

## 6. Known divergences without a run

Where the code differs from a comment or a document and the model follows the
code, so that its states can be seen in the runs above:

* `server.go:215`: a poll of a superseded session sets the health of its
  successor, since the tunnel is found by client_id; ARCHITECTURE.md:752 has it
  found by session id.
* `registry.go:100`: between `Add` and `LocalHealthy.Store(true)` neither the
  replaced nor the new tunnel can be picked; pool.go:51 says that new requests
  route to the replacement. `PoolServes` is about the time after.
* `proxy.go:52`: requests that pass the limit test together exceed
  max_streams_per_tunnel together; ARCHITECTURE.md:130 has the excess refused.
* `server.go:316`: a session connected between the snapshot and Shutdown is not
  closed by Stop, and requests in flight are cut by the loop; ARCHITECTURE.md:873
  shuts the listener first and drains.
* `server.go:323`: Shutdown does not wait for hijacked connections, so a public
  WebSocket is cut off by an exit with status 0; ARCHITECTURE.md:873 has
  requests in flight drained.
* `server.go:250`: a listener that cannot bind is logged, and the process goes
  on; the comment at server.go:239 says that Start begins listening.
* `route.go:91`: Match does not look at tunnels: a request goes to the longest
  prefix, with its stripping, even if that binding's client is offline and that of
  a shorter one or of the fallback is not; ARCHITECTURE.md:310 matches among
  registered, `Alive()` bindings only.
* `route.go:97`: a path that matches a prefix only after cleaning is forwarded
  unstripped; ARCHITECTURE.md:315 says the client need not know the prefix.
* `proxy_rewrite.go:61`, `:39`, `:68`: a rewritten Location loses its trailing
  slash, a doubled slash inside its query, and with the prefix `/` it gains a
  second leading slash.
* `proxy_rewrite.go:64`: a backend's path that begins with the public prefix is
  taken for a public one and left alone. With the prefix `/svc`, a cookie for
  the backend's `/svc/a` is not sent along with `/svc/svc/a`; ARCHITECTURE.md:329
  says that the prefix is put back.
* `load.go:289`: a binding without `subdomain` is accepted, and no request or
  certificate has that key (`""`). The same holds of a subdomain with an
  upper-case letter (host.go:22 lowers the host only) or with a dot
  (host.go:37, nested subdomains).
* `host.go:59`: AllowedHosts does not trim root_domain, host.go:21 does: with
  white space around it requests are routed, but no certificate is issued.
* `control_path.go:25`: the slash is added after path.Clean. The control paths
  `.` and `..` become `/.` and `/..`, which LoadServer accepts and NewServer
  refuses (as `/`); `../x` is `/../x` after LoadServer and `/x` after NewServer.
  The comment at line 11 says that the result is canonical.
* `load.go:345`: the prefix `/` is accepted beside any other client's prefix;
  ARCHITECTURE.md:313 forbids nested prefixes of different clients.
* `load.go:110`: a service's own `health.enabled` is ignored; configs/README.md:102
  says that per-service overrides are supported.
* `client.go:126`: the first report of a new Client may be down before any
  probe; ARCHITECTURE.md:1125 has the first probe prevent that.
* `cmd/client/main.go:70`: each restart after a supersession leaves the previous
  Checker running until the process ends.

## 7. Plan

1. `ClientService` composed with `TunnelRegistry`, so that the health reports
   of restarted clients meet the server's lookup by client_id.
