SPECIFICATION Spec
CONSTANTS
    Terminal = {t1, t2}
    MaxSessions = 1
    OutputRoom = 1
    Request = {r1, r2}
    MaxFD = 4
    MaxDirs = 2
    MaxServed = 2
INVARIANTS
    ProcessesAreBounded
    UploadIsAtomic
PROPERTIES
    SessionEnds
CHECK_DEADLOCK FALSE
