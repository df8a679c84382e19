\* The TIM that disconnects after each data set, with faults.
SPECIFICATION FairSpec
CONSTANTS
    Null = Null
    Teds <- MCTeds
    TransIds = 32
    Isns <- MCIsns
    DataSetSize = 2
    Modes <- MCModes
    MaxDrawn = 4
    MaxSent = 3
    MaxAsked = 1
    MaxFaults = 1
CHECK_DEADLOCK FALSE
INVARIANTS
    TypeOK
    DeliversInOrder
    EstablishedHasPeer
    PresenceIsTrue
    TedsAsAsked
PROPERTIES
    Connects
    TedsRetrieved
