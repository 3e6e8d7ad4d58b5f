SPECIFICATION FairSpec
CONSTANTS
    CommandLines <- SomeCommandLines
    Requests <- SomeRequests
    KmsOutcomes <- AnyKms
    MaxFailures = 1
    Sizes = {small, default}
    DefaultSize = default
    NoSize = none
    SttyAccepts = {TRUE, FALSE}
    MaxAttempts = 1
    MaxLosses = 1
INVARIANTS
    TypeOK
    SidesUnderstandEachOther
    InputIsReadable
    TerminalIsRestored
    PanicsOnlyWithoutValue
PROPERTIES
    ExecuteEnds
    SizeArrives
CHECK_DEADLOCK FALSE
