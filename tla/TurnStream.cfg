SPECIFICATION StreamSpec
CONSTANTS
    Roles = {player, r1}
    Player = player
    Texts = {t1}
    Outputs = {o1}
    None = None
    max_character_decisions = 1
    MaxStoryVersion = 1
    Capacity = 1
CHECK_DEADLOCK FALSE
INVARIANTS
    ClientToldTheStore
    CommitFollowsPlan
PROPERTIES
    StreamEnds
    CancelStops
