\* Three calls over two connections, and a fault at any step.
SPECIFICATION FairSpec
CONSTANTS
    Targets = {t1}
    MaxCalls = 3
    PoolSize = 2
    MaxFaults = 1
    Absent = Absent
    None = None
INVARIANTS TypeOK AllOrNothing OnlyFaultsThrow
PROPERTY EveryCallEnds
CHECK_DEADLOCK FALSE
