SPECIFICATION Spec
CONSTANTS
    Clients = {c1, c2}
    Keys = {1}
    Commands <- MCCommands
    NormalImage <- MCNormalImage
    AllowOutbound = FALSE
    MinTTL = 1
    MaxTTL = 3
    DefaultTTL = 2
    MaxSandboxes = 2
    Retention = 1
    GCLimit = 1
    MaxIDs = 3
    MaxTime = 2
SYMMETRY Symmetry
INVARIANT OneLiveSandboxPerKey ReplayMatchesRequest
PROPERTY AdmissionHolds
CHECK_DEADLOCK FALSE
