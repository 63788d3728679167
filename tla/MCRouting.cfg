SPECIFICATION Spec
CONSTANTS
    Part <- MCPart
    Label <- MCLabel
    Lower <- MCLower
    Files <- MCFiles
    Default <- MCDefault
    DefaultHealth <- MCDefaultHealth
    DefaultTransport <- MCDefaultTransport
    MaxResumeGrace = 3
    NoSection <- MCNoSection
    TokenFile <- MCTokenFile
    TokenOf <- MCTokenOf
    NoToken = "none"
    ShortToken = "short"
    RootDomain <- MCRootDomain
    HostHeaders <- MCHosts
    RequestPaths <- MCPaths
    Locations <- MCLocations
    CookiePaths <- MCCookiePaths
INVARIANTS
    MatchIsLongest
    PrefixNotShadowed
    CanonicalRedirectArrives
    CookieFollowsRoute
    CertOnlyForBoundHosts
    ExplicitZeroKept
    TokenAdmitsOneClient
    FormatsAgree
PROPERTIES
    RevalidationAgrees
CHECK_DEADLOCK FALSE
