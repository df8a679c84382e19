\* Calls, messages and subscriptions, with scaled timers.
SPECIFICATION FairSpec
CONSTANTS
    Null = Null
    Timer1 = 1
    Timer2 = 2
    Timer4 = 1
    Timer32s = 1
    Timeout = 4
    Networks <- MCNetworks
    Phone = "phone"
    MaxRequests = 2
    MaxNames = 5
    MaxRejected = 1
CHECK_DEADLOCK FALSE
INVARIANTS
    TypeOK
    TimersFollowState
    BacksOff
    NoPhantomSession
    OneSessionPerCall
PROPERTIES
    TransactionsEnd
