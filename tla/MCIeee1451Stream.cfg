\* The TIM that stays connected, as in ieee1451_test.cc, without faults.
SPECIFICATION FairSpec
CONSTANTS
    Null = Null
    Teds <- MCTeds
    TransIds = 32
    Isns <- MCIsns
    DataSetSize = 2
    Modes <- MCStreaming
    MaxDrawn = 2
    MaxSent = 5
    MaxAsked = 1
    MaxFaults = 0
CHECK_DEADLOCK FALSE
PROPERTIES
    DataSetsArrive
