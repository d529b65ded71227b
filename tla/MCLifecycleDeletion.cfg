CONSTANTS
    Caller = {worker, ttl, api}
    Reconciler = worker
    Expirer = ttl
    Outbound = TRUE
    FirstTime = 0
    MaxTime = 1
    MaxAttempt = 1
    MaxHealth = 1
    HealthThreshold = 1
    DeleteAttempts = 1
    RenewAttempts = 1
    ExpireAttempts = 1
SPECIFICATION DeletionSpec
PROPERTIES ImplementsStore DeleteConverges
