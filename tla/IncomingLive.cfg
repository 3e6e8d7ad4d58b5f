SPECIFICATION FairSpec
CONSTANTS
    LastSequenceNumber = 3
    Kind <- LegacyKinds
    IncomingMessageBufferCapacity = 1
    SessionOutcomes = {"ready"}
    TypeOutcomes = {TRUE}
    Undecryptable = {}
    SendFailures = {"ack"}
    MaxSendFailures = 1
PROPERTIES
    StreamProgresses
CHECK_DEADLOCK FALSE
