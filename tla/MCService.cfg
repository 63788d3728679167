SPECIFICATION FairSpec
CONSTANTS
    p1 = p1
    p2 = p2
    a = a
    b = b
    Proc = {p1, p2}
    ID = {a, b}
    Service <- MCService
    HealthEnabled <- MCHealthEnabled
    NoOwner = NoOwner
INVARIANTS
    OkBacked
    ServiceInv
PROPERTIES
    SignalEndsProcess
    SupersededComesBack
    ReportTurnsOk
