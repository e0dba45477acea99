CONSTANTS
    Commands = {c1, c2}
    CaPaths = {p1, p2}
    Origins <- MCOrigins
    Materials <- MCMaterials
    LockPaths <- MCLockPaths
    MaxPairings = 2
    MaxTampers = 1
    NoRow = NoRow
    Corrupt = Corrupt
    Absent = Absent
    TornFrame = TornFrame
    Offers <- MCOffers
    Foreign <- MCForeign
    MaxWritten = 3
    NoFlaw = NoFlaw
    CodexCalls <- MCCodexCalls
    CodexTables <- MCCodexTables
    CodexHosts <- MCCodexHosts
    MaxToolRounds = 1
    MaxStrayLines = 1
    MaxModelPages = 2
    MaxDynamicTools = 2
    MaxDeltas = 2
    PipeRoom = 2
    LocalCalls <- MCLocalCalls
    PlanHosts <- MCPlanHosts
    LoopbackReplies <- MCLoopbackReplies
    SourceProbes <- MCSourceProbes
    MaxReports = 4
SPECIFICATION Spec
INVARIANTS
    DeviceTrustHolds
    FramesAreCarried
    TurnsAreHonest
    LocalWorkIsHonest
CHECK_DEADLOCK FALSE
