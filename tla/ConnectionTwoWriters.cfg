SPECIFICATION Spec
CONSTANTS
    Senders = {s1}
    MaxOpens = 3
    Pinged = {1}
    MaxRetries <- OneRetry
    RetryAttempt <- TwoReads
    ResumeOutcomes <- AnyResume
    DialOutcomes <- AnyDial
INVARIANTS
    OneWriterPerConnection
CHECK_DEADLOCK FALSE
