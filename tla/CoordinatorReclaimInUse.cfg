SPECIFICATION Spec
CONSTANTS
    t1 = t1
    t2 = t2
    t3 = t3
    s1 = s1
    Turns = {t1, t2, t3}
    Stories = {s1}
    NoEntry = NoEntry
    MaxWaitersPerStory = 3
    MaxTotalWaiters = 3
    Expiring = {s1}
SYMMETRY Symmetry
CHECK_DEADLOCK FALSE
INVARIANT MutualExclusion
