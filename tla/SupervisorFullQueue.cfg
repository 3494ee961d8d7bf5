SPECIFICATION Spec
CONSTANTS
    t1 = t1
    t2 = t2
    t3 = t3
    Turns = {t1, t2, t3}
    None = None
    max_active_turns = 2
    admission_capacity = 1
    MaxAsks = 0
SYMMETRY Symmetry
CHECK_DEADLOCK FALSE
INVARIANT AcceptedIsSpawned
