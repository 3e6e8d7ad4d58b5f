SPECIFICATION Spec
CONSTANTS
    Senders = {s1, s2}
    MaxInputs = 2
    OutgoingMessageBufferCapacity = 2
    ResendMaxAttempt <- ResendOnce
    MaxSendFailures = 0
    TerminateOutcomes <- Terminates
INVARIANT
    NumbersAreUnique
CHECK_DEADLOCK FALSE
