SPECIFICATION FairSpec
CONSTANTS
    Clients = {c1, c2}
    Tokens = {t1, t2}
    Legs = {l1, l2}
    NoClient = NoClient
    NoToken = NoToken
    MaxPending = 1
    MaxTombstones = 4
    MaxTime = 1
INVARIANTS
    DeliveredAtMostOnce
    ResumingIsHeld
    CancelMatchesVerdict
    AnswersAreHonest
PROPERTIES
    ContinuationsEnd
