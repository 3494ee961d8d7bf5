-------------------------- MODULE StoryExtraction --------------------------
(***************************************************************************)
(* What becomes of the state the extractor reads from a story text: the    *)
(* validators that judge it (crates/aise/src/validation/validators), the   *)
(* enrichment that gives new knowledge its ids                             *)
(* (enrich_extracted_knowledge) and the change set validation builds from  *)
(* it (validation_pipeline.rs).                                            *)
(*                                                                         *)
(* dto is a StoryStateExtractionDto: new_roles, role_states and            *)
(* relationship_states as sequences of records; add, update and delete,    *)
(* each the lists of the three kinds of knowledge together; judgments, the *)
(* status of the conditions the model was asked about, the last one of a   *)
(* key; cast_policy_violations; and out_of_bounds, whether some text or    *)
(* list of it is empty or over its limit.  A piece of knowledge has the id *)
(* <<kind, sequence>>; enrichable says whether the parts that only the     *)
(* enrichment converts (retrieval hint, activation terms, memory kind) are *)
(* valid.  A dynamic role has a number as its id, a role of the pack has   *)
(* not.  Every story is created with the open cast policy.                 *)
(***************************************************************************)
EXTENDS StoryNarrative

CONSTANTS
    NoRole,                     \* no source role of a rumor, no owner of a fact
    MaxTrust,                   \* i16::MAX
    max_new_roles,
    max_role_states,
    max_relationship_states,
    max_knowledge_items

Kinds == <<"Fact", "Rumor", "Memory">>
Field(seq, f) == [i \in DOMAIN seq |-> seq[i][f]]
OfKind(items, k) == SelectSeq(items, LAMBDA x : x.kind = k)
TargetsOf(items, k) == SelectSeq(items, LAMBDA x : x.id[1] = k)
DeletesOf(ids, k) == SelectSeq(ids, LAMBDA id : id[1] = k)

\* The output contract of the extractor's model call: an output that breaks
\* it is an invalid one, like an output that cannot be decoded.
story_state_extraction_contract(dto) ==
    /\ Len(dto.new_roles) =< max_new_roles
    /\ Len(dto.role_states) =< max_role_states
    /\ Len(dto.relationship_states) =< max_relationship_states

-----------------------------------------------------------------------------
(* The validators: the remedies their issues ask for. *)

Asks(remedy, b) == IF b THEN {remedy} ELSE {}

schema_counts(dto) ==
    \A k \in Range(Kinds) : Max({Len(OfKind(dto.add, k)), Len(TargetsOf(dto.update, k)),
                                 Len(DeletesOf(dto.delete, k))}) =< max_knowledge_items

\* No role and no relationship twice.
distinct_states(dto) ==
    /\ IsInjective(Field(dto.new_roles \o dto.role_states, "role_id"))
    /\ IsInjective(Field(dto.relationship_states, "key"))

\* No piece of knowledge is the target of two changes.
distinct_targets(dto) == IsInjective(Field(dto.update, "id") \o dto.delete)

extraction_schema(dto) ==
    Asks("ReextractState", \/ dto.out_of_bounds
                           \/ ~schema_counts(dto) \/ ~distinct_states(dto) \/ ~distinct_targets(dto))

KnownRoles(dto, snapshot) == DOMAIN snapshot.roles \cup Range(Field(dto.new_roles, "role_id"))

\* A location is known when a role is there or an effect of the graph names it.
location_key_resolves(location, snapshot) ==
    \/ \E r \in DOMAIN snapshot.roles : snapshot.roles[r].state.location = location
    \/ \E n \in Nodes :
          \E f \in Range(Definition.nodes[n].on_activate) \cup Range(Definition.nodes[n].on_complete) :
             f.type = "WorldEvent" /\ location \in f.locations

\* What the model was shown in the baseline or by retrieval; memories only by
\* retrieval.
modifiable_knowledge_index(baseline, retrieved) ==
    {id \in baseline : id[1] # "Memory"} \cup retrieved

\* Mutant of reference: the roles of a relationship are not looked up.
reference_trusts_endpoints(dto, snapshot, modifiable) ==
    LET known == KnownRoles(dto, snapshot)
        placed == Range(dto.new_roles) \cup Range(dto.role_states)
        rumors == Range(OfKind(dto.add, "Rumor")) \cup Range(TargetsOf(dto.update, "Rumor"))
    IN  Asks("ReextractState",
             \/ Range(Field(dto.new_roles, "role_id")) \cap DOMAIN snapshot.roles # {}
             \/ \E r \in placed : ~location_key_resolves(r.state.location, snapshot)
             \/ ~(Range(Field(dto.role_states, "role_id")) \subseteq known)
             \/ \E m \in rumors : m.role \notin known \cup {NoRole}
             \/ \E m \in Range(OfKind(dto.add, "Memory")) : m.role \notin known
             \/ ~(Range(Field(dto.update, "id")) \cup Range(dto.delete) \subseteq modifiable))

\* Everything the extraction names exists, and new roles do not.
reference(dto, snapshot, modifiable) ==
    LET known == KnownRoles(dto, snapshot)
        placed == Range(dto.new_roles) \cup Range(dto.role_states)
        rumors == Range(OfKind(dto.add, "Rumor")) \cup Range(TargetsOf(dto.update, "Rumor"))
    IN  Asks("ReextractState",
             \/ Range(Field(dto.new_roles, "role_id")) \cap DOMAIN snapshot.roles # {}
             \/ \E r \in placed : ~location_key_resolves(r.state.location, snapshot)
             \/ ~(Range(Field(dto.role_states, "role_id")) \subseteq known)
             \/ \E r \in Range(dto.relationship_states) : ~({r.key[1], r.key[2]} \subseteq known)
             \/ \E m \in rumors : m.role \notin known \cup {NoRole}
             \/ \E m \in Range(OfKind(dto.add, "Memory")) : m.role \notin known
             \/ ~(Range(Field(dto.update, "id")) \cup Range(dto.delete) \subseteq modifiable))

\* New roles have exactly the ids allocate_dynamic_role_candidates offers, in
\* their order.
domain_invariant(dto, snapshot) ==
    Asks("RepairStory", dto.cast_policy_violations)
    \cup Asks("ReextractState",
              \/ \E i \in DOMAIN dto.new_roles : dto.new_roles[i].role_id # snapshot.role_id_high_water + i
              \/ \E r \in Range(dto.relationship_states) : r.trust \notin -MaxTrust - 1 .. MaxTrust)

changed_only(dto, snapshot) ==
    Asks("ReextractState",
         \/ \E r \in Range(dto.role_states) :
               r.role_id \in DOMAIN snapshot.roles /\ snapshot.roles[r.role_id].state = r.state
         \/ \E r \in Range(dto.relationship_states) :
               r.key \in DOMAIN snapshot.relationships /\ snapshot.relationships[r.key] = r.trust)

\* The validators that look at the extraction, in the order they run.
DtoIssues(dto, snapshot, modifiable) ==
    extraction_schema(dto) \cup reference(dto, snapshot, modifiable)
    \cup domain_invariant(dto, snapshot) \cup changed_only(dto, snapshot)

-----------------------------------------------------------------------------
(* Enrichment. *)

\* Mutant of allocate_knowledge_ids: each kind counts for itself.
allocate_per_kind(base, kinds) ==
    [assigned |-> [i \in DOMAIN kinds |->
                     <<kinds[i], base + Cardinality({j \in 1 .. i : kinds[j] = kinds[i]})>>],
     new_high_water |-> base + Max({0} \cup {Cardinality({j \in DOMAIN kinds : kinds[j] = k}) : k \in Range(kinds)})]

\* One sequence for the three kinds.
allocate_knowledge_ids(base, kinds) ==
    [assigned |-> [i \in DOMAIN kinds |-> <<kinds[i], base + i>>], new_high_water |-> base + Len(kinds)]

Entry(role, content) == [role |-> role, content |-> content]

existing(target, retrieved) == target \in retrieved

\* An updated memory keeps the owner it was retrieved for.
Updated(u, snapshot) ==
    [id |-> u.id,
     entry |-> Entry(CASE u.id[1] = "Fact" -> NoRole
                       [] u.id[1] = "Rumor" -> u.role
                       [] u.id[1] = "Memory" -> snapshot.knowledge[u.id].role, u.content)]

Added(x, id) == [id |-> id, entry |-> Entry(IF x.kind = "Fact" THEN NoRole ELSE x.role, x.content)]

\* Ids for what is added, in the order facts, rumors, memories.  The target of
\* a change must have been retrieved: one only the baseline showed is an error.
enrich_extracted_knowledge(dto, snapshot, retrieved) ==
    LET adds == OfKind(dto.add, "Fact") \o OfKind(dto.add, "Rumor") \o OfKind(dto.add, "Memory")
        allocation == allocate_knowledge_ids(snapshot.knowledge_id_high_water, Field(adds, "kind"))
    IN  IF \/ \E x \in Range(adds) \cup Range(dto.update) : ~x.enrichable
           \/ \E id \in Range(Field(dto.update, "id")) \cup Range(dto.delete) : ~existing(id, retrieved)
        THEN << >>
        ELSE <<[adds |-> [i \in DOMAIN adds |-> Added(adds[i], allocation.assigned[i])],
                updates |-> [i \in DOMAIN dto.update |-> Updated(dto.update[i], snapshot)],
                deletes |-> Range(dto.delete),
                new_high_water |-> allocation.new_high_water]>>
=============================================================================
