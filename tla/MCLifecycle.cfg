CONSTANTS
    Caller = {worker, ttl, api}
    Reconciler = worker
    Expirer = ttl
    Outbound = FALSE
    FirstTime = 1
    MaxTime = 4
    MaxAttempt = 1
    MaxHealth = 1
    HealthThreshold = 1
    DeleteAttempts = 2
    RenewAttempts = 2
    ExpireAttempts = 1
SPECIFICATION Spec
INVARIANTS TerminatedIsClean ManifestNeverAhead
PROPERTIES NoResurrection TTLNeverEarly
