SPECIFICATION Spec
CONSTANTS
    c1 = c1
    c2 = c2
    h1 = h1
    Client <- MCClient
    Host <- MCHost
    Subdomain <- MCSubdomain
    MaxClients <- MCMaxClients
    HealthEnabled = {}
    NoTunnel = NoTunnel
    NoClient = NoClient
    Session = {s1, s2}
    Bindings <- MCBindings
    RequestPath <- MCPaths
INVARIANTS
    RoutedToOwnClient
CHECK_DEADLOCK FALSE
