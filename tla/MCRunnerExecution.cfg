CONSTANTS
    MaxChunks = 2
SPECIFICATION ExecutionFairSpec
INVARIANTS KillerIsReported TerminalIsLast 
PROPERTIES DeadlineEnds
CHECK_DEADLOCK FALSE
