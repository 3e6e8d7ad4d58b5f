SPECIFICATION FairSpec
CONSTANTS
    MaxClients = 3
    MaxInputs = 1
    MaxOutputs = 2
    AcquireOutcomes <- AnyAcquire
    CanTerminate <- AnyAgent
INVARIANTS
    TypeOK
    ClientsAreSeparated
    OnlyKeptOutputIsLost
PROPERTIES
    ClientIsServed
    OutputReachesClient
CHECK_DEADLOCK FALSE
