SPECIFICATION Spec
CONSTANTS
    Scenarios <- MCScenarios
    LaterWorlds <- MCLaterWorlds
    Owner <- Account
    Policy = "p"
    Latest = 4
    MigrationTTL = 2
    Freshness = 1
    MaxRestarts = 1
INVARIANTS
    LateRefusalIsKnown
    NothingGoesUnnoticed
    ReadyMeansServing
PROPERTIES
    UpgradeIsSafe
    StopEnds
CHECK_DEADLOCK FALSE
