CONSTANTS
    Sandboxes = {1, 2}
    Renewers = {r1}
    CASAttempts = 2
    PageSize = 1
    MinTTL = 1
    MaxRestarts = 1
    MaxTime = 6
SPECIFICATION Spec
INVARIANT NoEntryIsOverslept
PROPERTIES RenewalExtends LeaseEnds
CHECK_DEADLOCK FALSE
