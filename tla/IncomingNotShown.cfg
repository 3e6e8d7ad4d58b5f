SPECIFICATION Spec
CONSTANTS
    LastSequenceNumber = 3
    Kind <- HandshakeKinds
    IncomingMessageBufferCapacity = 1
    SessionOutcomes = {"ready"}
    TypeOutcomes = {TRUE}
    Undecryptable = {}
    SendFailures = {}
    MaxSendFailures = 0
PROPERTY
    PassedDataIsShown
CHECK_DEADLOCK FALSE
