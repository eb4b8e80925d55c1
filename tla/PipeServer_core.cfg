\* All messages are sent and every client has left or reads nothing more.
CHECK_DEADLOCK FALSE
CONSTANTS
    MaxConns = 3
    MaxMsgs = 2
    Quota = 2
SPECIFICATION FairSpec
INVARIANTS
    TypeOK
    EveryClientGetsEveryMessage
    ListIsLive
    GoneClientsAreDropped
PROPERTIES
    WriteReturns
    ClientsAreServed
