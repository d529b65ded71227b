CONSTANTS
    Caller = {c1, c2, c3}
    Entry = {e1, e2, e3, e4}
    NoEntry = NoEntry
SPECIFICATION LockFairSpec
INVARIANTS MutualExclusion
PROPERTIES WaiterIsServed
