---------------------------- MODULE StoryState ----------------------------
(***************************************************************************)
(* The state of a story over its turns: created from a pack                *)
(* (story/instance_factory.rs), read as a snapshot, worked on by the       *)
(* pipelines of a turn (module TurnContext), judged and made a change set  *)
(* (modules StoryExtraction and StoryNarrative) and written by             *)
(* SqliteStore::commit_turn.  Another turn of the story may commit         *)
(* meanwhile: the coordinator prevents it only while its entry lasts, and  *)
(* another process is not held back by it at all.                          *)
(*                                                                         *)
(* The pipelines run in the order their phases admit.  A turn may also     *)
(* take the shortcut run_inner takes today (turn_runtime.rs:95), past      *)
(* extraction and validation, to a change set that says nothing of the     *)
(* state; what holds only of stories without such a commit says so.        *)
(* The idempotency key, the transaction and a crash are module TurnCommit, *)
(* the activation state module KnowledgeActivation.                        *)
(***************************************************************************)
EXTENDS TurnContext, StoryExtraction

CONSTANTS
    Pack,                       \* roles, relationships, knowledge, constraints
    Dto,                        \* what each of Outputs decodes to
    LongTexts,                  \* texts over the story's token budget
    Plans,                      \* plans the planner may make
    max_roles, max_relationships, max_constraints, max_recent_segments,
    max_facts, max_rumors, max_memories,
    max_baseline,               \* how much the baseline shows
    max_retrieved,              \* how much retrieval adds
    MaxRevision                 \* bound: commits of a story

VARIABLES
    story,                      \* the stored story, or << >> before it is created
    turn,                       \* what the turn has read and built
    history                     \* auxiliary: knowledge ids and effects ever stored,
                                \* and whether every commit came from validation

vars == <<ctx, story, turn, history>>

NoTurn == [snapshot |-> << >>, projection |-> << >>, baseline |-> {}, retrieved |-> << >>,
           change_set |-> << >>]

Stored == story[1]
Snapshot == turn.snapshot[1]

Init == CtxInit /\ story = << >> /\ turn = NoTurn /\ history = [issued |-> {}, produced |-> {}, validated |-> TRUE]

-----------------------------------------------------------------------------
(* Creation. *)

View(s) == [roles |-> s.roles, relationships |-> s.relationships, operations |-> << >>]

\* Seeds take their ids in the order facts, rumors, memories.
materialize_knowledge ==
    LET seeds == OfKind(Pack.knowledge, "Fact") \o OfKind(Pack.knowledge, "Rumor")
                 \o OfKind(Pack.knowledge, "Memory")
        allocation == allocate_knowledge_ids(0, Field(seeds, "kind"))
        ids == allocation.assigned
    IN  [knowledge |-> [id \in Range(ids) |->
                          LET seed == seeds[CHOOSE i \in DOMAIN ids : ids[i] = id]
                          IN  Entry(seed.role, seed.content)],
         knowledge_id_high_water |-> allocation.new_high_water]

\* Both roles of a seeded relationship are roles of the pack.
materialize_relationships == \A k \in DOMAIN Pack.relationships : {k[1], k[2]} \subseteq DOMAIN Pack.roles

\* A reference or a limit the pack does not meet refuses the creation.
materialize(player) ==
    LET roles == [r \in DOMAIN Pack.roles |->
                    [controller |-> IF r = player THEN "Player" ELSE "Ai", state |-> Pack.roles[r].state]]
        narrative == bootstrap_narrative_state([roles |-> roles, relationships |-> Pack.relationships,
                                                operations |-> << >>])
        seeds == materialize_knowledge
    IN  IF \/ player \notin DOMAIN Pack.roles
           \/ ~Pack.roles[player].playable
           \/ Cardinality(DOMAIN Pack.roles) > max_roles
           \/ Len(OfKind(Pack.knowledge, "Fact")) > max_facts
           \/ Len(OfKind(Pack.knowledge, "Rumor")) > max_rumors
           \/ Len(OfKind(Pack.knowledge, "Memory")) > max_memories
           \/ Cardinality(DOMAIN Pack.relationships) > max_relationships
           \/ ~materialize_relationships
           \/ narrative = << >>
        THEN << >>
        ELSE <<[revision |-> 0, sequence |-> 1, roles |-> roles, role_id_high_water |-> 0,
                relationships |-> Pack.relationships, knowledge |-> seeds.knowledge,
                knowledge_id_high_water |-> seeds.knowledge_id_high_water,
                narrative |-> narrative[1], constraints |-> Pack.constraints, events |-> {}]>>

\* StoryInstanceFactory::create and SqliteStore::create_story_instance.
Create ==
    /\ story = << >>
    /\ story' = materialize(Player)
    /\ story' # << >>
    /\ history' = [history EXCEPT !.issued = DOMAIN story'[1].knowledge,
                                !.produced = story'[1].narrative.pending_effects]
    /\ UNCHANGED <<ctx, turn>>

-----------------------------------------------------------------------------
(* Reading. *)

\* StoryReadSnapshot::try_from_parts
try_from_parts(s) ==
    /\ Cardinality({r \in DOMAIN s.roles : s.roles[r].controller = "Player"}) = 1
    /\ \A k \in DOMAIN s.relationships : {k[1], k[2]} \subseteq DOMAIN s.roles
    /\ DOMAIN s.narrative.activation_turns \cup {f.node : f \in s.narrative.pending_effects} \subseteq Nodes

\* Nothing writes a summary, so every segment is a recent one.
within_limits(s) ==
    /\ Cardinality(DOMAIN s.roles) =< max_roles
    /\ Cardinality(DOMAIN s.relationships) =< max_relationships
    /\ Cardinality(s.constraints) =< max_constraints
    /\ s.sequence =< max_recent_segments

load_story_snapshot(s) == IF within_limits(s) /\ try_from_parts(s) THEN <<s>> ELSE << >>

\* The turn ends with an error; what it read and built is dropped.
Fail(kind) == mark(kind) /\ turn' = NoTurn /\ UNCHANGED <<story, history>>

BeginTurn ==
    /\ story # << >>
    /\ Stored.revision < MaxRevision
    /\ ctx.phase \in {"Committed"} \cup TurnTerminalKind
    /\ ctx' = new
    /\ turn' = NoTurn
    /\ UNCHANGED <<story, history>>

Initialize ==
    /\ story # << >>
    /\ complete_initialization
    /\ UNCHANGED <<story, turn, history>>

SmallSets(S, n) == {ids \in SUBSET S : Cardinality(ids) =< n}

\* The baseline shows world knowledge that activation picks.
PrepareContext ==
    LET snapshot == load_story_snapshot(Stored)
        projection == project(Stored.narrative, View(Stored))
    IN  /\ expect_phase("Initialized")
        /\ IF snapshot = << >> \/ projection = << >> THEN Fail("Failed")
           ELSE /\ set_prepared_context
                /\ \E ids \in SmallSets({id \in DOMAIN Stored.knowledge : id[1] # "Memory"}, max_baseline) :
                      turn' = [turn EXCEPT !.snapshot = snapshot, !.projection = projection, !.baseline = ids]
                /\ UNCHANGED <<story, history>>

Plan ==
    /\ \E p \in Plans : set_writer_plan(p)
    /\ UNCHANGED <<story, turn, history>>

\* World knowledge the baseline does not show, rumors and own memories for the
\* roles that think.  The reader refuses a snapshot the story has moved past.
Retrieve ==
    LET heard == {id \in DOMAIN Snapshot.knowledge :
                    \/ id[1] # "Memory" /\ id \notin turn.baseline
                    \/ id[1] = "Rumor" /\ ThinkRoles # {}
                    \/ id[1] = "Memory" /\ Snapshot.knowledge[id].role \in ThinkRoles}
    IN  /\ expect_phase("Planned") /\ turn.retrieved = << >>
        /\ IF ~requires_retrieval THEN
              skip_retrieval /\ turn' = [turn EXCEPT !.retrieved = <<{}>>] /\ UNCHANGED <<story, history>>
           ELSE IF Stored.revision # Snapshot.revision THEN Fail("Failed")
           ELSE /\ set_retrieved_context(ThinkRoles)
                /\ \E ids \in SmallSets(heard, max_retrieved) : turn' = [turn EXCEPT !.retrieved = <<ids>>]
                /\ UNCHANGED <<story, history>>

Think ==
    /\ turn.retrieved # << >>
    /\ ctx.decisions = << >> /\ ~ctx.thinking_skipped
    /\ IF requires_character_thinking THEN set_character_decisions(ctx.plan.think) ELSE skip_character_thinking
    /\ UNCHANGED <<story, turn, history>>

CompletePreparation ==
    /\ ctx.decisions # << >> \/ ctx.thinking_skipped
    /\ complete_context_preparation
    /\ UNCHANGED <<story, turn, history>>

GenerateStory ==
    /\ \E text \in Texts : set_generated_story(text)
    /\ UNCHANGED <<story, turn, history>>

-----------------------------------------------------------------------------
(* The candidate and its change set. *)

StateRecord(r) == [controller |-> "Ai", state |-> r.state]

\* The roles with the new ones and the new states in place.
RolesAfter(roles, new_roles, role_changes) ==
    LET added == [r \in Range(Field(new_roles, "role_id")) |->
                    StateRecord(CHOOSE x \in Range(new_roles) : x.role_id = r)]
    IN  [r \in DOMAIN added \cup DOMAIN roles |->
           LET base == IF r \in DOMAIN added THEN added[r] ELSE roles[r]
               changes == {x \in Range(role_changes) : x.role_id = r}
           IN  IF changes = {} THEN base ELSE [base EXCEPT !.state = (CHOOSE x \in changes : TRUE).state]]

\* CandidateNarrativeStateView
CandidateView(dto) ==
    [roles |-> RolesAfter(Snapshot.roles, dto.new_roles, dto.role_states),
     relationships |-> Snapshot.relationships, operations |-> dto.relationship_states]

\* A constraint may name a node the graph does not have: it stays.
resolved(node_states, n) == n \in DOMAIN node_states /\ node_states[n] \in {"Completed", "Skipped"}

constraint_kept(c, committed_sequence, final_nodes) ==
    CASE c.lifecycle = "Persistent" -> TRUE
      [] c.lifecycle = "ThroughSequence" -> c.sequence > committed_sequence
      [] c.lifecycle = "UntilNarrativeNodeResolved" -> ~resolved(final_nodes, c.node)

\* Mutant of pending_after: what this turn delivers stays pending.
pending_after_kept(snapshot, projection, resolution) ==
    snapshot.narrative.pending_effects \cup resolution.pending_effects

pending_after(snapshot, projection, resolution) ==
    (snapshot.narrative.pending_effects \ projection.plan.effect_dispositions) \cup resolution.pending_effects

\* build_change_set of the validation pipeline; << >> is its error, which
\* fails the turn.
ValidatedChangeSetParts(snapshot, projection, dto, enriched, resolution) ==
    LET m == enriched[1]
        r == resolution[1]
        constraints == {c \in snapshot.constraints :
                          constraint_kept(c, snapshot.sequence + 1, FinalNodes(snapshot.narrative, r.transitions))}
    IN  IF enriched = << >> \/ resolution = << >> THEN << >>
        ELSE <<[new_roles |-> dto.new_roles, role_changes |-> dto.role_states,
                relationship_operations |->
                  [i \in DOMAIN dto.relationship_states |->
                     [type |-> IF dto.relationship_states[i].key \in DOMAIN snapshot.relationships
                               THEN "Update" ELSE "Add",
                      key |-> dto.relationship_states[i].key, trust |-> dto.relationship_states[i].trust]],
                knowledge_mutations |-> m,
                knowledge_id_high_water |-> m.new_high_water,
                next_role_id_high_water |-> snapshot.role_id_high_water + Len(dto.new_roles),
                narrative_events |-> projection.plan.world_event_intents,
                transitions |-> r.transitions,
                pending_effects |-> pending_after(snapshot, projection, r),
                next_graph_revision |-> r.next_graph_revision,
                constraint_change |-> IF constraints = snapshot.constraints THEN << >> ELSE <<constraints>>]>>

ChangeSetOf(snapshot, projection, dto, retrieved, view) ==
    ValidatedChangeSetParts(snapshot, projection, dto, enrich_extracted_knowledge(dto, snapshot, retrieved),
                     resolve(snapshot.narrative, view,
                             [expected_graph_revision |-> projection.expected_graph_revision,
                              narrative_condition_results |-> dto.judgments],
                             snapshot.revision + 1))

\* StoryStateExtractor: an output that cannot be decoded or breaks the
\* contract asks for another one.
Extract ==
    /\ \/ \E out \in Outputs :
             /\ story_state_extraction_contract(Dto[out])
             /\ set_state_extraction(out) \/ replace_state_extraction(out)
       \/ record_state_extraction_failure
    /\ UNCHANGED <<story, turn, history>>

\* ValidationPipeline, with the bound on the story's length.
ValidateCandidate ==
    LET dto == Dto[ctx.extraction.envelope.output]
        modifiable == modifiable_knowledge_index(turn.baseline, turn.retrieved[1])
        remedies == DtoIssues(dto, Snapshot, modifiable) \cup Asks("RepairStory", ctx.story \in LongTexts)
    IN  /\ expect_phase("CandidateReady")
        /\ \E built \in {IF remedies # {} THEN << >>
                         ELSE ChangeSetOf(Snapshot, turn.projection[1], dto, turn.retrieved[1], CandidateView(dto))} :
             IF remedies = {} /\ built = << >> THEN Fail("Failed")
             ELSE /\ Validate(remedies)
                  /\ turn' = [turn EXCEPT !.change_set = built]
                  /\ UNCHANGED <<story, history>>

RepairStory ==
    /\ \E text \in Texts : replace_story(text)
    /\ turn' = [turn EXCEPT !.change_set = << >>]
    /\ UNCHANGED <<story, history>>

\* What construct_changeset makes up: no change, both high waters zero, no
\* transition and no effect.
ConstructedChangeSet ==
    [new_roles |-> << >>, role_changes |-> << >>, relationship_operations |-> << >>,
     knowledge_mutations |-> [adds |-> << >>, updates |-> << >>, deletes |-> {}, new_high_water |-> 0],
     knowledge_id_high_water |-> 0, next_role_id_high_water |-> 0,
     narrative_events |-> {}, transitions |-> {}, pending_effects |-> {},
     next_graph_revision |-> 0, constraint_change |-> << >>]

SkipValidation == ShortcutReady /\ UNCHANGED <<story, turn, history>>

ConstructChangeSet ==
    /\ ShortcutChangeSet
    /\ turn' = [turn EXCEPT !.change_set = <<ConstructedChangeSet>>]
    /\ UNCHANGED <<story, history>>

-----------------------------------------------------------------------------
(* Commit. *)

\* The checks of commit_turn, in their order.
CommitError(s, base, changes) ==
    LET m == changes.knowledge_mutations
        known == DOMAIN RolesAfter(s.roles, changes.new_roles, << >>)
        update_targets == Range(Field(m.updates, "id"))
        ids == Field(m.adds, "id")
        ops == changes.relationship_operations
        Before(i) == DOMAIN s.relationships \cup {ops[j].key : j \in 1 .. i - 1}
    IN  IF s.revision # base.revision THEN "RevisionConflict"
        ELSE IF \/ Range(Field(changes.new_roles, "role_id")) \cap DOMAIN s.roles # {}
                \/ ~IsInjective(Field(changes.new_roles, "role_id"))
                \/ ~(Range(Field(changes.role_changes, "role_id")) \subseteq known)
                \/ \E i \in DOMAIN ops : (ops[i].type = "Add") = (ops[i].key \in Before(i))
             THEN "ConstraintViolation"
        ELSE IF \/ s.narrative.graph_revision # base.narrative.graph_revision
                \/ \E t \in changes.transitions : s.narrative.node_states[t.node] # ExpectedFrom(t.kind)
             THEN "RevisionConflict"
        ELSE IF \/ ~IsInjective(ids) \/ Range(ids) \cap DOMAIN s.knowledge # {}
                \/ ~(update_targets \cup m.deletes \subseteq DOMAIN s.knowledge \cup Range(ids))
                \/ \E u \in Range(m.updates) :
                      u.id[1] = "Memory" /\ u.id \in DOMAIN s.knowledge /\ s.knowledge[u.id].role # u.entry.role
             THEN "ConstraintViolation"
        ELSE "None"

\* An update keeps the owner of a memory.
merge_knowledge_update(id, old, value) == IF id[1] = "Memory" THEN [value EXCEPT !.role = old.role] ELSE value

\* Adds, then updates, then deletes of knowledge.
apply_knowledge_mutation(knowledge, m) ==
    LET ids == Field(m.adds, "id")
        added == [id \in Range(ids) |-> m.adds[CHOOSE i \in DOMAIN ids : ids[i] = id].entry]
        full == [id \in DOMAIN knowledge \cup Range(ids) |->
                   IF id \in Range(ids) THEN added[id] ELSE knowledge[id]]
    IN  [id \in DOMAIN full \ m.deletes |->
           LET at == {i \in DOMAIN m.updates : m.updates[i].id = id}
           IN  IF at = {} THEN full[id] ELSE merge_knowledge_update(id, full[id], m.updates[Max(at)].entry)]

NarrativeAfter(narrative, changes, turn_number) ==
    LET activated == {t.node : t \in {t \in changes.transitions : t.kind = "Activate"}}
        turns == narrative.activation_turns
    IN  [graph_revision |-> IF changes.transitions = {} THEN narrative.graph_revision
                            ELSE changes.next_graph_revision,
         node_states |-> FinalNodes(narrative, changes.transitions),
         activation_turns |-> [n \in DOMAIN turns \cup activated |->
                                 IF n \in activated THEN turn_number ELSE turns[n]],
         pending_effects |-> changes.pending_effects]

committed(s, changes) ==
    LET ops == changes.relationship_operations
        keys == Field(ops, "key")
        trusts == s.relationships
    IN  [revision |-> s.revision + 1, sequence |-> s.sequence + 1,
         roles |-> RolesAfter(s.roles, changes.new_roles, changes.role_changes),
         role_id_high_water |-> changes.next_role_id_high_water,
         relationships |-> [k \in DOMAIN trusts \cup Range(keys) |->
                              IF k \in Range(keys) THEN ops[Max({i \in DOMAIN keys : keys[i] = k})].trust
                              ELSE trusts[k]],
         knowledge |-> apply_knowledge_mutation(s.knowledge, changes.knowledge_mutations),
         knowledge_id_high_water |-> changes.knowledge_id_high_water,
         narrative |-> NarrativeAfter(s.narrative, changes, s.revision + 1),
         constraints |-> IF changes.constraint_change = << >> THEN s.constraints
                         ELSE changes.constraint_change[1],
         events |-> s.events \cup {[turn |-> s.revision + 1, effect |-> f] : f \in changes.narrative_events}]

Write(changes, validated) ==
    /\ story' = <<committed(Stored, changes)>>
    /\ history' = [issued |-> history.issued \cup Range(Field(changes.knowledge_mutations.adds, "id")),
                   produced |-> history.produced \cup changes.pending_effects,
                   validated |-> history.validated /\ validated]

CommitTurn ==
    LET error == CommitError(Stored, Snapshot, turn.change_set[1])
    IN  /\ CommitGate
        /\ IF error # "None" THEN Fail(IF error = "RevisionConflict" THEN "Conflict" ELSE "Failed")
           ELSE set_committed_result /\ Write(turn.change_set[1], ctx.change_set.state # None) /\ UNCHANGED turn

\* The turn ends early: an error of a pipeline, the deadline, a cancellation.
Abandon ==
    /\ story # << >>
    /\ ctx.phase \notin {"Committed"} \cup TurnTerminalKind
    /\ Fail("Failed")

NothingNew == [new_roles |-> << >>, role_states |-> << >>, relationship_states |-> << >>, add |-> << >>,
               update |-> << >>, delete |-> << >>, judgments |-> << >>,
               cast_policy_violations |-> FALSE, out_of_bounds |-> FALSE]

\* Another turn of the story commits while this one has its snapshot: a
\* validated one, whose text changes nothing but what time changes, or one
\* that took the shortcut.
OtherTurn ==
    /\ turn.snapshot # << >>
    /\ ctx.phase \notin {"Committed"} \cup TurnTerminalKind
    /\ Stored.revision = Snapshot.revision /\ Stored.revision < MaxRevision
    /\ \/ \E changes \in {ChangeSetOf(Stored, turn.projection[1], NothingNew, {}, View(Stored))} :
             changes # << >> /\ Write(changes[1], TRUE)
       \/ Write(ConstructedChangeSet, FALSE)
    /\ UNCHANGED <<ctx, turn>>

Preparing ==
    \/ Create \/ BeginTurn \/ Initialize \/ PrepareContext \/ Plan \/ Retrieve \/ Think
    \/ CompletePreparation \/ GenerateStory \/ Abandon

Next ==
    \/ Preparing \/ Extract \/ ValidateCandidate \/ RepairStory
    \/ SkipValidation \/ ConstructChangeSet \/ CommitTurn \/ OtherTurn

Spec == Init /\ [][Next]_vars

-----------------------------------------------------------------------------
\* As long as every commit of a story came from validation, its high waters
\* are the largest numbers ever given out: no number is given to two pieces of
\* knowledge or two roles, whatever was deleted, failed or committed by
\* another turn since.  (A commit of construct_changeset's change set puts
\* both back to zero, which commit_turn does not refuse.)
HighWaterExact ==
    story # << >> /\ history.validated =>
        /\ {id[2] : id \in history.issued} = 1 .. Stored.knowledge_id_high_water
        /\ Cardinality(history.issued) = Stored.knowledge_id_high_water
        /\ DOMAIN Stored.roles \ DOMAIN Pack.roles = 1 .. Stored.role_id_high_water

\* An effect a committed transition produced is pending until the next commit
\* and never again, and a world event among them is the event of at most one
\* turn: of exactly one, when every commit came from validation (the change
\* set of construct_changeset drops what is pending).  Turns that fail, or
\* lose the race to commit, consume nothing.
EffectsOnce ==
    story # << >> =>
        LET pending == Stored.narrative.pending_effects
            happened == {v.effect : v \in Stored.events}
            due == {f \in history.produced \ pending : definition_of(f).type = "WorldEvent"}
        IN  /\ Cardinality(happened) = Cardinality(Stored.events)
            /\ happened \subseteq due
            /\ history.validated => happened = due
            /\ \A f \in pending : f.revision = Stored.narrative.graph_revision

\* Unless another turn has committed since the snapshot, the store accepts
\* what validation passes: no check of commit_turn fails, and try_from_parts
\* accepts the story it leaves (the totals that load_story_snapshot limits are
\* not among the checks of a commit).  This needs high waters that were never
\* put back to zero: of stories whose every commit came from validation.
PassedCommits ==
    CommitGate /\ Stored.revision = Snapshot.revision /\ history.validated =>
        /\ CommitError(Stored, Snapshot, turn.change_set[1]) = "None"
        /\ try_from_parts(committed(Stored, turn.change_set[1]))

\* A story keeps every constraint of its pack whose time has not come: none
\* is dropped early by a turn that lost its race.  When every commit came from
\* validation it has, from the first commit on, no other: none outlives its
\* segment or its node.
ConstraintsExact ==
    story # << >> =>
        LET open == {c \in Pack.constraints :
                        CASE c.lifecycle = "Persistent" -> TRUE
                          [] c.lifecycle = "ThroughSequence" -> Stored.sequence < c.sequence
                          [] c.lifecycle = "UntilNarrativeNodeResolved" ->
                               ~resolved(Stored.narrative.node_states, c.node)}
        IN  /\ open \subseteq Stored.constraints
            /\ Stored.revision > 0 /\ history.validated => Stored.constraints = open

\* What earlier turns have set in motion is neither lost nor repeated: the
\* effects of the graph happen once, the constraints end when they are due.
NarrativeKept == EffectsOnce /\ ConstraintsExact

=============================================================================
