--------------------------- MODULE NarrativeGraph ---------------------------
(***************************************************************************)
(* The narrative graph of crates/aise-core/src/core/narrative: nodes with  *)
(* an activation, a completion and an optional skip condition, conditions  *)
(* in a logic of three values, and one pass of the resolver per turn.      *)
(*                                                                         *)
(* A condition tree is written as a table: Conditions is a sequence, and   *)
(* the operands of "all", "any" and "not" are smaller indices of it.       *)
(***************************************************************************)
EXTENDS Naturals, Sequences

CONSTANTS
    Nodes,       \* the keys of NarrativeGraph::nodes
    Conditions,  \* sequence of conditions, operands first
    Graph        \* node -> [activate, complete, skip, terminal]: condition
                 \* indices, skip = 0 for a node without skip_when

Satisfied == "satisfied"
Unsatisfied == "unsatisfied"
Unknown == "unknown"
Truth == {Satisfied, Unsatisfied, Unknown}

NodeStatus == {"inactive", "active", "completed", "skipped"}

Kind(c) == Conditions[c].kind
ConditionKinds == {"all", "any", "not", "story_started", "turn_reaches", "node_is", "semantic"}

\* NarrativeGraph::validate: no empty All or Any, NodeIs names a node.
validate ==
    \A c \in DOMAIN Conditions :
        /\ Kind(c) \in {"all", "any"} => Conditions[c].of # {}
        /\ Kind(c) \in {"all", "any", "not"} => Conditions[c].of \subseteq 1 .. c - 1
        /\ Kind(c) = "not" => \E d \in DOMAIN Conditions : Conditions[c].of = {d}
        /\ Kind(c) = "node_is" => Conditions[c].node \in Nodes

ASSUME GraphAssumption ==
    /\ Len(Conditions) \in Nat /\ DOMAIN Conditions = 1 .. Len(Conditions)
    /\ \A c \in DOMAIN Conditions : Kind(c) \in ConditionKinds
    /\ validate
    /\ \A n \in Nodes :
          /\ {Graph[n].activate, Graph[n].complete} \subseteq DOMAIN Conditions
          /\ Graph[n].skip \in DOMAIN Conditions \cup {0}
          /\ Graph[n].terminal \in BOOLEAN

-----------------------------------------------------------------------------
from_bool(b) == IF b THEN Satisfied ELSE Unsatisfied

negate(t) ==
    CASE t = Satisfied -> Unsatisfied
      [] t = Unsatisfied -> Satisfied
      [] OTHER -> Unknown

all(values) ==
    IF Unsatisfied \in values THEN Unsatisfied
    ELSE IF Unknown \in values THEN Unknown
    ELSE Satisfied

any(values) ==
    IF Satisfied \in values THEN Satisfied
    ELSE IF Unknown \in values THEN Unknown
    ELSE Unsatisfied

\* NarrativeCondition::evaluate, of every condition of the table. An answer
\* that semantic_results does not hold is Unknown.
evaluate(state, turn, results) ==
    LET value[c \in DOMAIN Conditions] ==
            LET cond == Conditions[c]
                operands == {value[d] : d \in cond.of}
            IN  CASE cond.kind = "all" -> all(operands)
                  [] cond.kind = "any" -> any(operands)
                  [] cond.kind = "not" -> negate(CHOOSE t \in operands : TRUE)
                  [] cond.kind = "story_started" -> Satisfied
                  [] cond.kind = "turn_reaches" -> from_bool(turn >= cond.turn)
                  [] cond.kind = "node_is" -> from_bool(state[cond.node] = cond.status)
                  [] cond.kind = "semantic" ->
                        IF cond.id \in DOMAIN results THEN results[cond.id] ELSE Unknown
    IN  value

\* NarrativeCondition::collect_semantic, of every condition of the table.
collect_semantic ==
    LET ids[c \in DOMAIN Conditions] ==
            CASE Kind(c) \in {"all", "any", "not"} -> UNION {ids[d] : d \in Conditions[c].of}
              [] Kind(c) = "semantic" -> {Conditions[c].id}
              [] OTHER -> {}
    IN  ids

\* Mutant of watched_conditions: an active node is asked for its end only.
watched_to_complete(n, status) ==
    CASE status = "inactive" -> {Graph[n].activate}
      [] status = "active" -> {Graph[n].complete}
      [] OTHER -> {}

\* NarrativeNode::watched_conditions.
watched_conditions(n, status) ==
    CASE status = "inactive" -> {Graph[n].activate}
      [] status = "active" -> {Graph[n].complete, Graph[n].skip} \ {0}
      [] OTHER -> {}

\* NarrativeGraph::queries: the conditions the model is asked about.
queries(state) ==
    UNION {collect_semantic[c] : c \in UNION {watched_conditions(n, state[n]) : n \in Nodes}}

\* NarrativeNode::next_status, the same status when the node has none.
next_status(n, state, value) ==
    CASE state[n] = "inactive" -> IF value[Graph[n].activate] = Satisfied THEN "active" ELSE "inactive"
      [] state[n] = "active" ->
            IF Graph[n].skip # 0 /\ value[Graph[n].skip] = Satisfied THEN "skipped"
            ELSE IF value[Graph[n].complete] = Satisfied THEN "completed"
            ELSE "active"
      [] OTHER -> state[n]

\* NarrativeGraph::resolve and NarrativeState::apply: every node moves by what
\* held before the pass.
resolve(state, turn, results) ==
    LET value == evaluate(state, turn, results)
    IN  [n \in Nodes |-> next_status(n, state, value)]

\* NarrativeResolution::story_completed.
completes_story(before, after) ==
    \E n \in Nodes : before[n] # after[n] /\ after[n] = "completed" /\ Graph[n].terminal

initial_state == resolve([n \in Nodes |-> "inactive"], 0, [i \in {} |-> Unknown])

SemanticIds == {Conditions[c].id : c \in {d \in DOMAIN Conditions : Kind(d) = "semantic"}}
=============================================================================
