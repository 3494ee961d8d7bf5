SPECIFICATION Spec
CONSTANTS
    a1 = a1
    a2 = a2
    a3 = a3
    s1 = s1
    s2 = s2
    Attempts = {a1, a2, a3}
    Stories = {s1, s2}
    Requests <- TwoStories
    Workloads <- OneApart
    NoStory = NoStory
    Nobody = Nobody
    NoAnswer = NoAnswer
    Serialized = {s2}
    MaxCrashes = 1
SYMMETRY Symmetry
CHECK_DEADLOCK FALSE
INVARIANTS LedgerChain AnswersTruthful SerializedCleanly
PROPERTY ImplementsLedger
