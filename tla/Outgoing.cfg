SPECIFICATION FairSpec
CONSTANTS
    Senders = {s1}
    MaxInputs = 3
    OutgoingMessageBufferCapacity = 2
    ResendMaxAttempt <- ResendOnce
    MaxSendFailures = 1
    TerminateOutcomes <- MayTerminate
INVARIANTS
    TypeOK
    BufferIsSorted
    ForgetsOldestWhenFull
    ResendsAreBounded
PROPERTIES
    InputsInOrder
    UnacknowledgedIsNoticed
CHECK_DEADLOCK FALSE
