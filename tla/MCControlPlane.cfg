CONSTANTS
    Null = Null
    a1 = a1
    a2 = a2
    c1 = c1
    o1 = o1
    w1 = w1
    w2 = w2
    p1 = p1
    r1 = r1
    r2 = r2
    Presets <- MCPresets
    OwnOrigins <- MCOwnOrigins
    Loopback = {"localhost"}
    SourceIds = {"s1"}
    DerivedIds <- MCDerivedIds
    DefaultSettings <- MCSettings
    RetireAfter = 2
    MaxRetired = 1
    MaxModels = 2
    PolicyEfforts = {"low"}
    SourceAdapter <- MCSourceAdapter
    DerivedId <- MCDerivedId
    SourceOf <- MCSourceOf
    ModelOf <- MCModelOf
    Admins = {a1, a2}
    Clients = {c1, o1}
    Workers = {w1, w2}
    Providers <- MCProviders
    Resources <- MCResources
    Sources <- MCSources
    Policies <- MCPolicies
    Aliases <- MCAliases
    Profiles = {"coding"}
    Reports <- MCReports
    Initials <- MCInitials
    Ttl = 0
    MaxEvents = 2
    MaxSources = 8
SPECIFICATION Spec
INVARIANTS
    ConfigurationIsCoherent
    RevokedIsRefused
PROPERTIES
    FeedIsComplete
CHECK_DEADLOCK FALSE
