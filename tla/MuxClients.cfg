SPECIFICATION FairSpec
CONSTANTS
    AgentVersions <- SomeVersions
    Clients = {c1, c2}
INVARIANTS
    TypeOK
    FlagsAreKnown
PROPERTIES
    PanicsOnlyInSetup
    SetupEnds
    ErrorEndsSession
    TransferEnds
CHECK_DEADLOCK FALSE
