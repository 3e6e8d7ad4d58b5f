SPECIFICATION Spec
CONSTANTS
    LastSequenceNumber = 5
    Kind <- EncryptedKinds
    IncomingMessageBufferCapacity = 1
    SessionOutcomes = {"ready"}
    TypeOutcomes = {TRUE, FALSE}
    Undecryptable = {5}
    SendFailures = {"ack", "reply"}
    MaxSendFailures = 2
INVARIANTS
    TypeOK
    DisplayedInOrder
    PassedIsAcked
    AckedDataIsKept
    BufferHoldsOnlyData
    TypeIsAnnouncedOnce
PROPERTIES
    DeliversInOrder
CHECK_DEADLOCK FALSE
