SPECIFICATION RouteSpec
CONSTANTS
    Null = Null
    Unknown = Unknown
    NoWindow = NoWindow
    Raised = Raised
    Providers <- MCProviders
    Slots <- MCSlots
    SlotOf <- MCSlotOf
    Scopes <- MCScopes
    Efforts <- MCEfforts
    WeekLen = 7
    DayLen = 24
    Registrations <- MCRegistrations
    Observations <- MCObservations
    Reports <- MCReports
    Starts <- MCStarts
    FirstAdmin <- MCFirstAdmin
    FirstClient <- MCFirstClient
    Catalogs <- MCCatalogs
    Admins <- MCAdmins
    Clients <- MCClients
    AdapterSets <- MCAdapterSets
    ContinuationSets <- MCContinuationSets
    Controls = {1, 2}
    Cells <- MCCells
    Policy <- MCPolicy
    RequestProfiles <- MCProfiles
    Demands <- MCDemands
    Interpretations <- MCInterpretations
    Digests = {"d", "e"}
    MaxLimit = 8
    MaxTime = 2
    MaxChanges = 2
INVARIANTS
    RoutesAreWellFormed
    TargetsAreUsable
    PinsAreHonoured
CHECK_DEADLOCK FALSE
