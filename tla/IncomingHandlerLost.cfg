SPECIFICATION Spec
CONSTANTS
    LastSequenceNumber = 3
    Kind <- HandshakeKinds
    IncomingMessageBufferCapacity = 1
    SessionOutcomes = {"ready"}
    TypeOutcomes = {TRUE}
    Undecryptable = {}
    SendFailures = {}
    MaxSendFailures = 0
INVARIANT
    HandlerStaysRegistered
CHECK_DEADLOCK FALSE
