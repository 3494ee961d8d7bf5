SPECIFICATION FairSpec
CONSTANTS
    t1 = t1
    t2 = t2
    t3 = t3
    s1 = s1
    s2 = s2
    Turns = {t1, t2, t3}
    Stories = {s1, s2}
    NoEntry = NoEntry
    MaxWaitersPerStory = 2
    MaxTotalWaiters = 2
    Expiring = {s1}
INVARIANTS AccountingExact ExclusionWhileEntriesLast
PROPERTY WaitEnds
CHECK_DEADLOCK FALSE
