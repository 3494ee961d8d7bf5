--------------------------- MODULE MCStoryState ---------------------------
(***************************************************************************)
(* A story of a hero and an ally: a meeting that the ally's trust turns    *)
(* into a quest, three seeds of knowledge, a constraint of each lifecycle, *)
(* and a model that may answer well, badly or twice.                       *)
(***************************************************************************)
EXTENDS StoryState

CONSTANTS hero, ally

At(location, attribute) == [location |-> location, attribute |-> attribute]
Started == [type |-> "StoryStarted"]

MCDefinition ==
    [entry_nodes |-> {"meeting"},
     nodes |->
       [meeting |-> [activate_when |-> Started,
                     complete_when |-> [type |-> "Any", conditions |->
                        <<[type |-> "Semantic", key |-> "met"], [type |-> "TurnReaches", turn |-> 3]>>],
                     skip_when |-> << >>,
                     on_activate |-> <<[type |-> "WorldEvent", locations |-> {"cave"}]>>,
                     on_complete |-> <<[type |-> "CharacterImpulse", target |-> ally]>>],
        quest |-> [activate_when |-> Started,
                   complete_when |-> [type |-> "Not", condition |->
                      [type |-> "RoleStateEquals", role |-> ally, value |-> "calm"]],
                   skip_when |-> <<[type |-> "All", conditions |->
                      <<[type |-> "RoleStateEquals", role |-> hero, value |-> "lost"],
                        [type |-> "RoleControllerIs", role |-> hero, controller |-> "Player"]>>]>>,
                   on_activate |-> <<[type |-> "CharacterImpulse", target |-> hero],
                                     [type |-> "WorldEvent", locations |-> {}]>>,
                   on_complete |-> << >>]],
     edges |-> <<[from |-> "meeting", to |-> "quest",
                  when |-> [type |-> "RelationshipReaches", source |-> ally, target |-> hero,
                            minimum_trust |-> 1]]>>]

MCPack ==
    [roles |-> [r \in {hero, ally} |-> [playable |-> r = hero, state |-> At("inn", "calm")]],
     relationships |-> [k \in {<<ally, hero, 1>>} |-> 0],
     knowledge |-> <<[kind |-> "Memory", role |-> ally, content |-> "old"],
                     [kind |-> "Fact", role |-> NoRole, content |-> "old"],
                     [kind |-> "Rumor", role |-> NoRole, content |-> "old"]>>,
     constraints |-> {[lifecycle |-> "Persistent"],
                      [lifecycle |-> "ThroughSequence", sequence |-> 1],
                      [lifecycle |-> "ThroughSequence", sequence |-> 3],
                      [lifecycle |-> "UntilNarrativeNodeResolved", node |-> "quest"]}]

Add(kind, role) == [kind |-> kind, role |-> role, content |-> "new", enrichable |-> TRUE]
Update(id, role) == [id |-> id, role |-> role, content |-> "new", enrichable |-> TRUE]
Newcomer(n) == [role_id |-> n, state |-> At("cave", "calm")]

MCDto ==
    [quiet |-> NothingNew,
     met |-> [NothingNew EXCEPT !.judgments = [met |-> "Satisfied"],
                                !.relationship_states = <<[key |-> <<ally, hero, 1>>, trust |-> 1]>>],
     newcomer |-> [NothingNew EXCEPT !.new_roles = <<Newcomer(1)>>, !.add = <<Add("Memory", 1)>>,
                                     !.delete = <<<<"Memory", 3>>>>,
                                     !.relationship_states = <<[key |-> <<1, hero, 1>>, trust |-> 1]>>],
     another |-> [NothingNew EXCEPT !.new_roles = <<Newcomer(2)>>, !.update = <<Update(<<"Rumor", 2>>, ally)>>],
     crowd |-> [NothingNew EXCEPT !.new_roles = <<Newcomer(1), Newcomer(2), Newcomer(3)>>],
     lore |-> [NothingNew EXCEPT !.add = <<Add("Memory", ally), Add("Rumor", ally), Add("Fact", NoRole)>>],
     twice |-> [NothingNew EXCEPT !.update = <<Update(<<"Rumor", 2>>, ally)>>, !.delete = <<<<"Rumor", 2>>>>],
     lost |-> [NothingNew EXCEPT !.role_states = <<[role_id |-> hero, state |-> At("inn", "lost")],
                                                   [role_id |-> ally, state |-> At("cave", "angry")]>>],
     stranger |-> [NothingNew EXCEPT !.relationship_states = <<[key |-> <<2, hero, 1>>, trust |-> 0]>>],
     blank |-> [NothingNew EXCEPT !.add = <<[Add("Fact", NoRole) EXCEPT !.enrichable = FALSE]>>],
     outlaw |-> [NothingNew EXCEPT !.cast_policy_violations = TRUE]]

MCOutputs == DOMAIN MCDto
MCPlans == {NoPlan, [retrieval |-> TRUE, think |-> <<ally>>]}
=============================================================================
