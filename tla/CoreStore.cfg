SPECIFICATION Spec
CONSTANTS
    s1 = s1
    Stories = {s1, s2}
    Requests <- OneStoryPlayed
    Calls = {c1, c2}
    Keys = {k1, k2, k3}
    Roles = {"hero"}
    digest = digest
    Nodes <- TwoNodes
    Conditions <- TwoNodeConditions
    Graph <- TwoNodeGraph
    Digest <- OnePack
    Seeds <- SomeSeeds
    Extractions <- SomeExtractions
    MaxChanges = 3
    MaxMemories = 2
    MaxPacks = 1
    SummaryTurnCount = 2
    MaxRecentTurns = 2
    MaxStarts = 3
SYMMETRY Symmetry
INVARIANTS StoredWhole Prevalidated AnswersStand PacksFollowStories QueriesSuffice
PROPERTY StoryMovesForward
CHECK_DEADLOCK FALSE
