SPECIFICATION FairProxySpec
CONSTANTS
    c1 = c1
    h1 = h1
    Client = {c1}
    Host = {h1}
    Subdomain <- MCSubdomain
    MaxClients <- MCMaxClients
    HealthEnabled = {}
    NoTunnel = NoTunnel
    NoClient = NoClient
    Session = {s1, s2}
    Request = {r1, r2}
    MaxStreamsPerTunnel = 1
INVARIANTS
    StreamCountExact
PROPERTIES
    ClosedLeavesPool
    SupersededCloses
    ClosedReleasesStreams
CHECK_DEADLOCK FALSE
