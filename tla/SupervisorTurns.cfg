SPECIFICATION FairSpec
CONSTANTS
    t1 = t1
    t2 = t2
    t3 = t3
    Turns = {t1, t2}
    None = None
    max_active_turns = 1
    admission_capacity = 2
    MaxAsks = 1
CHECK_DEADLOCK FALSE
INVARIANTS PermitsConserved ShutdownJoinsAll
PROPERTY NothingHangs
