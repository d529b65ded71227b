CONSTANTS
    Exec = {1, 2, 3}
    Closer = {s1}
    MaxConcurrent = 2
    MaxRetained = 1
    Retention = 2
    MaxTime = 2
SPECIFICATION ManagerFairSpec
INVARIANTS SlotsAreCounted
PROPERTIES EvictionIsJustified ShutdownEnds
CHECK_DEADLOCK FALSE
