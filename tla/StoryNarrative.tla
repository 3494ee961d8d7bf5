-------------------------- MODULE StoryNarrative --------------------------
(***************************************************************************)
(* The narrative graph of a story (crates/aise/src/domain/narrative_graph): *)
(* nodes that become active, completed or skipped, conditions over the     *)
(* story's state and over the extractor's judgments, and effects that wait *)
(* for the turn after the transition that produced them.  project reads    *)
(* the committed state before a turn, resolve decides the transitions of   *)
(* a candidate, bootstrap those of a new story.                            *)
(*                                                                         *)
(* A condition is a record with a type; a view is what conditions may ask  *)
(* of the story: its roles, its relationships and, for a candidate, the    *)
(* relationship operations that come first.  An Option or a Result is a    *)
(* sequence of at most one element.  fact_values of a story is empty and   *)
(* nothing writes it, so FactStateEquals is always Unsatisfied.            *)
(***************************************************************************)
EXTENDS Integers, Sequences, FiniteSets, FiniteSetsExt, Functions

CONSTANTS
    Definition,                 \* NarrativeGraphDefinition: entry_nodes, nodes, edges
    max_condition_depth,
    max_conditions_per_node,
    max_frontier_nodes,
    max_semantic_queries,
    max_transitions_per_turn,
    max_pending_effects

Nodes == DOMAIN Definition.nodes

-----------------------------------------------------------------------------
(* Three-valued conditions. *)

truth(b) == IF b THEN "Satisfied" ELSE "Unsatisfied"

truth_not(v) ==
    CASE v = "Satisfied" -> "Unsatisfied"
      [] v = "Unsatisfied" -> "Satisfied"
      [] OTHER -> v

truth_all(values) ==
    IF "Unsatisfied" \in values THEN "Unsatisfied"
    ELSE IF values \subseteq {"Satisfied"} THEN "Satisfied" ELSE "Unknown"

truth_any(values) ==
    IF "Satisfied" \in values THEN "Satisfied"
    ELSE IF values \subseteq {"Unsatisfied"} THEN "Unsatisfied" ELSE "Unknown"

\* The first relationship of the pair decides: an operation of the candidate,
\* else the stored one with the least kind.
relationship_trust(view, s, t) ==
    LET ops == SelectSeq(view.operations, LAMBDA op : op.key[1] = s /\ op.key[2] = t)
        kinds == {k[3] : k \in {r \in DOMAIN view.relationships : r[1] = s /\ r[2] = t}}
    IN  IF ops # << >> THEN <<ops[1].trust>>
        ELSE IF kinds # {} THEN <<view.relationships[<<s, t, Min(kinds)>>]>> ELSE << >>

\* An unknown role, or a condition outside the limits, is an error.
RECURSIVE evaluate_condition(_, _, _)
evaluate_condition(c, e, depth) ==
    IF depth > max_condition_depth THEN "Error"
    ELSE CASE c.type \in {"All", "Any"} ->
                LET values == {evaluate_condition(c.conditions[i], e, depth + 1) : i \in DOMAIN c.conditions}
                IN  IF Len(c.conditions) \notin 1 .. max_conditions_per_node \/ "Error" \in values
                    THEN "Error"
                    ELSE IF c.type = "All" THEN truth_all(values) ELSE truth_any(values)
           [] c.type = "Not" -> truth_not(evaluate_condition(c.condition, e, depth + 1))
           [] c.type = "StoryStarted" -> "Satisfied"
           [] c.type = "TurnReaches" -> truth(e.current_turn >= c.turn)
           [] c.type = "NodeState" -> truth(e.state.node_states[c.node] = c.state)
           [] c.type = "Semantic" -> IF c.key \in DOMAIN e.semantic THEN e.semantic[c.key] ELSE "Unknown"
           [] c.type = "FactStateEquals" -> "Unsatisfied"
           [] c.type = "RoleStateEquals" ->
                IF c.role \notin DOMAIN e.view.roles THEN "Error"
                ELSE truth(e.view.roles[c.role].state.attribute = c.value)
           [] c.type = "RelationshipReaches" ->
                IF ~({c.source, c.target} \subseteq DOMAIN e.view.roles) THEN "Error"
                ELSE LET trust == relationship_trust(e.view, c.source, c.target)
                     IN  truth(trust # << >> /\ trust[1] >= c.minimum_trust)
           [] c.type = "RoleControllerIs" ->
                IF c.role \notin DOMAIN e.view.roles THEN "Error"
                ELSE truth(e.view.roles[c.role].controller = c.controller)

-----------------------------------------------------------------------------
(* Effects. *)

\* NarrativeEffectId::for_transition; the rest of a pending effect follows
\* from its id.  No code gives an effect an expiry.
EffectsOf(node, kind, revision) ==
    LET definitions == CASE kind = "Activate" -> Definition.nodes[node].on_activate
                         [] kind = "Complete" -> Definition.nodes[node].on_complete
                         [] kind = "Skip" -> << >>
    IN  {[node |-> node, kind |-> kind, revision |-> revision, index |-> i] : i \in DOMAIN definitions}

definition_of(effect) ==
    IF effect.kind = "Activate" THEN Definition.nodes[effect.node].on_activate[effect.index]
    ELSE Definition.nodes[effect.node].on_complete[effect.index]

\* What becomes of the pending effects in the next turn: world events and
\* impulses of roles the player does not control are delivered, the other
\* impulses do not apply.  All of them are disposed of.
project_effects(state, view) ==
    LET impulses == {f \in state.pending_effects : definition_of(f).type = "CharacterImpulse"}
    IN  IF \E f \in impulses : definition_of(f).target \notin DOMAIN view.roles THEN << >>
        ELSE <<[world_event_intents |-> state.pending_effects \ impulses,
                character_impulses |->
                    {f \in impulses : view.roles[definition_of(f).target].controller # "Player"},
                effect_dispositions |-> state.pending_effects]>>

-----------------------------------------------------------------------------
(* Projection: what a turn is told of the graph. *)

RECURSIVE collect_semantic_leaves(_)
collect_semantic_leaves(c) ==
    CASE c.type \in {"All", "Any"} ->
            UNION {collect_semantic_leaves(c.conditions[i]) : i \in DOMAIN c.conditions}
      [] c.type = "Not" -> collect_semantic_leaves(c.condition)
      [] c.type = "Semantic" -> {c.key}
      [] OTHER -> {}

InState(state, s) == {n \in Nodes : state.node_states[n] = s}

project(state, view) ==
    LET active == InState(state, "Active")
        inactive == InState(state, "Inactive")
        entry == Definition.entry_nodes \cap inactive
        leaving == {d \in Range(Definition.edges) : d.from \in active}
        next == {d.to : d \in leaving} \cap inactive
        conditions == {Definition.nodes[n].activate_when : n \in entry \cup next}
                      \cup {Definition.nodes[n].complete_when : n \in active}
                      \cup UNION {Range(Definition.nodes[n].skip_when) : n \in active}
                      \cup {d.when : d \in leaving}
        queries == UNION {collect_semantic_leaves(c) : c \in conditions}
        effects == project_effects(state, view)
    IN  IF \/ Cardinality(entry \cup active \cup next) > max_frontier_nodes
           \/ Cardinality(queries) > max_semantic_queries
           \/ effects = << >>
        THEN << >>
        ELSE <<[plan |-> effects[1], condition_queries |-> queries,
                expected_graph_revision |-> state.graph_revision]>>

-----------------------------------------------------------------------------
(* Resolution: the transitions of a candidate. *)

Holds(c, e) == evaluate_condition(c, e, 0) = "Satisfied"

Entered(e) ==
    {n \in Definition.entry_nodes \cap InState(e.state, "Inactive") : Holds(Definition.nodes[n].activate_when, e)}

Skipped(e) == {n \in InState(e.state, "Active") : \E c \in Range(Definition.nodes[n].skip_when) : Holds(c, e)}

\* The edges looked at, in their order: from a node active at the start of the
\* turn to one that was inactive and that nothing has activated yet.
Reached(e) ==
    LET Open(d) == /\ d.from \in InState(e.state, "Active")
                   /\ d.to \in InState(e.state, "Inactive") \ Entered(e)
        edges == Definition.edges
    IN  {i \in DOMAIN edges :
            /\ Open(edges[i])
            /\ \A j \in 1 .. i - 1 : edges[j].to = edges[i].to /\ Open(edges[j]) => ~Holds(edges[j].when, e)}

\* Entry nodes wait for their own condition; a node active at the start of
\* the turn is skipped or completed; its edges activate their targets.
Transitions(e) ==
    LET completed == {n \in InState(e.state, "Active") \ Skipped(e) : Holds(Definition.nodes[n].complete_when, e)}
        followed == {Definition.edges[i].to : i \in {i \in Reached(e) : Holds(Definition.edges[i].when, e)}}
    IN  {[node |-> n, kind |-> "Activate"] : n \in Entered(e) \cup followed}
        \cup {[node |-> n, kind |-> "Complete"] : n \in completed}
        \cup {[node |-> n, kind |-> "Skip"] : n \in Skipped(e)}

\* The conditions a resolution looks at (an error in one fails it).
Looked(e) ==
    LET active == InState(e.state, "Active")
    IN  {Definition.nodes[n].activate_when : n \in Definition.entry_nodes \cap InState(e.state, "Inactive")}
        \cup UNION {Range(Definition.nodes[n].skip_when) : n \in active}
        \cup {Definition.nodes[n].complete_when : n \in active \ Skipped(e)}
        \cup {Definition.edges[i].when : i \in Reached(e)}

\* The limit on pending effects counts those this turn delivers.
Resolution(e, extraction, transitions) ==
    LET state == e.state
        next_graph_revision == state.graph_revision + 1
        effects == UNION {EffectsOf(t.node, t.kind, next_graph_revision) : t \in transitions}
    IN  IF \/ extraction.expected_graph_revision # state.graph_revision
           \/ \E c \in Looked(e) : evaluate_condition(c, e, 0) = "Error"
           \/ Cardinality(transitions) > max_transitions_per_turn
           \/ Cardinality(state.pending_effects) + Cardinality(effects) > max_pending_effects
        THEN << >>
        ELSE <<[transitions |-> transitions, pending_effects |-> effects,
                next_graph_revision |-> next_graph_revision]>>

resolve(state, view, extraction, current_turn) ==
    LET e == [state |-> state, view |-> view, semantic |-> extraction.narrative_condition_results,
              current_turn |-> current_turn]
    IN  Resolution(e, extraction, Transitions(e))

ExpectedFrom(kind) == IF kind = "Activate" THEN "Inactive" ELSE "Active"
StateAfter(kind) ==
    CASE kind = "Activate" -> "Active" [] kind = "Complete" -> "Completed" [] kind = "Skip" -> "Skipped"

\* The node states with transitions applied.
FinalNodes(state, transitions) ==
    [n \in Nodes |-> IF \E t \in transitions : t.node = n
                     THEN StateAfter((CHOOSE t \in transitions : t.node = n).kind)
                     ELSE state.node_states[n]]

-----------------------------------------------------------------------------
(* A new story. *)

initial == [graph_revision |-> 0, node_states |-> [n \in Nodes |-> "Inactive"],
            activation_turns |-> << >>, pending_effects |-> {}]

bootstrap_narrative_state(view) ==
    LET e == [state |-> initial, view |-> view, semantic |-> << >>, current_turn |-> 0]
        activated == {n \in Definition.entry_nodes :
                        evaluate_condition(Definition.nodes[n].activate_when, e, 0) = "Satisfied"}
    IN  IF \E n \in Definition.entry_nodes :
              evaluate_condition(Definition.nodes[n].activate_when, e, 0) = "Error"
        THEN << >>
        ELSE IF activated = {} THEN <<initial>>
        ELSE <<[initial EXCEPT !.graph_revision = 1,
                               !.node_states = [n \in Nodes |-> IF n \in activated THEN "Active" ELSE @[n]],
                               !.pending_effects = UNION {EffectsOf(n, "Activate", 1) : n \in activated}]>>
=============================================================================
