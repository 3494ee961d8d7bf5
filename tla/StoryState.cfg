SPECIFICATION Spec
CONSTANTS
    hero = hero
    ally = ally
    Roles = {hero, ally}
    Player = hero
    Texts = {t1, t2}
    LongTexts = {t2}
    Outputs <- MCOutputs
    None = None
    NoRole = NoRole
    Definition <- MCDefinition
    Pack <- MCPack
    Dto <- MCDto
    Plans <- MCPlans
    max_character_decisions = 1
    MaxStoryVersion = 2
    MaxTrust = 1
    max_new_roles = 2
    max_role_states = 2
    max_relationship_states = 1
    max_knowledge_items = 1
    max_condition_depth = 1
    max_conditions_per_node = 2
    max_frontier_nodes = 2
    max_semantic_queries = 1
    max_transitions_per_turn = 2
    max_pending_effects = 3
    max_roles = 3
    max_relationships = 3
    max_constraints = 4
    max_recent_segments = 3
    max_facts = 1
    max_rumors = 1
    max_memories = 1
    max_baseline = 1
    max_retrieved = 1
    MaxRevision = 3
CHECK_DEADLOCK FALSE
INVARIANTS
    CandidateSealed
    HighWaterExact
    NarrativeKept
    PassedCommits
