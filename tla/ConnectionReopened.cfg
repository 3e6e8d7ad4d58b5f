SPECIFICATION FairSpec
CONSTANTS
    Senders = {}
    MaxOpens = 3
    Pinged = {1}
    MaxRetries <- OneRetry
    RetryAttempt <- TwoReads
    ResumeOutcomes <- AnyResume
    DialOutcomes <- AnyDial
INVARIANTS
    TypeOK
    OneInCharge
    ReplacedIsClosed
    SomeoneListens
PROPERTIES
    WorkingConnectionIsKept
    LostConnectionIsReplaced
CHECK_DEADLOCK FALSE
