SPECIFICATION Spec
CONSTANTS
    Roles = {player, r1, r2}
    Player = player
    Texts = {t1}
    Outputs = {o1}
    None = None
    max_character_decisions = 2
    MaxStoryVersion = 1
CHECK_DEADLOCK FALSE
INVARIANT CancelKeepsItsClass
