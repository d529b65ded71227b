SPECIFICATION MCSpec
CONSTANTS
    Configs = {"c1", "c2"}
    Subnets = {"s1", "s2"}
    Namespaces = {"n1", "n2"}
    SidecarIDs = {"e1", "e2", "e3"}
    HealthThreshold = 2
    MaxFaults = 3
INVARIANTS
    RunsFenced
    WorkspaceSurvives
PROPERTIES
    ExecutionIsConfined
    Settles
CHECK_DEADLOCK FALSE
