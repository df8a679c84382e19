\* What the application is told of the sessions.
SPECIFICATION Spec
CONSTANTS
    Null = Null
    Timer1 = 1
    Timer2 = 2
    Timer4 = 2
    Timer32s = 3
    Timeout = 4
    Networks <- MCOne
    Phone = "phone"
    MaxRequests = 2
    MaxNames = 6
    MaxRejected = 1
CHECK_DEADLOCK FALSE
INVARIANTS
    SessionsAsTold
