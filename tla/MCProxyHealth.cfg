SPECIFICATION FairProxySpec
CONSTANTS
    c1 = c1
    h1 = h1
    Client = {c1}
    Host = {h1}
    Subdomain <- MCSubdomain
    MaxClients <- MCMaxClients
    HealthEnabled = {c1}
    NoTunnel = NoTunnel
    NoClient = NoClient
    Session = {s1, s2}
    Request = {r1}
    MaxStreamsPerTunnel = 1
PROPERTIES
    HealthRecovers
CHECK_DEADLOCK FALSE
