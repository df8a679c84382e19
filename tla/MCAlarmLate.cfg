\* Alarms due at the same tick are served one tick after the other.
SPECIFICATION Spec
CONSTANTS
    a1 = a1
    a2 = a2
    a3 = a3
    Null = Null
    Alarms = {a1, a2}
    Periods = {2}
    Times = {2}
    MaxCalls = 2
    MaxAge = 3
CHECK_DEADLOCK FALSE
PROPERTIES
    PeriodKept
