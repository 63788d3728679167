SPECIFICATION Spec
CONSTANTS
    c1 = c1
    c2 = c2
    h1 = h1
    Client <- MCClient
    Host <- MCHost
    Subdomain <- MCSubdomain
    MaxClients <- MCMaxClients
    HealthEnabled = {c2}
    NoTunnel = NoTunnel
    NoClient = NoClient
    Session = {s1, s2, s3}
CONSTRAINT OneReport
SYMMETRY SessionSymmetry
INVARIANTS
    RegistryInv
    IndexConsistent
    PoolBound
    NoOrphanTunnel
    DrainingOutOfPool
    PoolServes
PROPERTIES
    NoForeignEviction
    DirectorySpec
CHECK_DEADLOCK FALSE
