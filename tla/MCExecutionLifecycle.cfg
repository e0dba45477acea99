SPECIFICATION FairSpec
CONSTANTS
    Requests = {r1, r2}
    Clients = {c1}
    NoClient = NoClient
    Limits <- MCLimits
    FirstLimits <- Wide
    GrantKinds = {"revoked", "granted"}
    MaxGeneration = 2
INVARIANTS
    ConcurrencyIsKept
    FreshAuthority
    RecordsAgree
PROPERTIES
    EveryRequestEnds
    ImplementsPool
