\* Safety, refinement and liveness: three alarms, which may come and go.
SPECIFICATION FairSpec
CONSTANTS
    a1 = a1
    a2 = a2
    a3 = a3
    Null = Null
    Alarms = {a1, a2, a3}
    Periods = {0, 1, 2}
    Times = {2}
    MaxCalls = 2
    MaxAge = 2
CHECK_DEADLOCK FALSE
INVARIANTS
    TypeOK
    CalledAsAsked
PROPERTIES
    NeverEarly
    RequestsCountDown
    AlarmsServed
