CONSTANTS
    ID = {s1, s2}
    Waker = {p1, p2}
    Worker = {w1, w2}
SPECIFICATION FairSpec
PROPERTIES ImplementsSlot WakeIsServed
CHECK_DEADLOCK FALSE
