---------------------------- MODULE TurnKnowledge ----------------------------
(***************************************************************************)
(* What a turn shows of the activated knowledge, and to whom: the baseline *)
(* context of the writer (context/baseline_ctx_builder.rs), the plan that  *)
(* asks for more (planning/retrieval_plan_builder.rs) and the retrieved    *)
(* context of the writer and of each thinking role                         *)
(* (context/retrieval_pipeline.rs, domain/turn/retrieval.rs).              *)
(*                                                                         *)
(* `on` is the continuation's map of activated entries; `cast` a sequence  *)
(* of role ids in id order.  Texts are their token costs.  A result is     *)
(* [ok |-> FALSE] or a record with ok TRUE.                                *)
(***************************************************************************)
EXTENDS ActivationEngine

Refused == [ok |-> FALSE]

First(s, n) == SubSeq(s, 1, Least(Len(s), n))

CostOf(s, cost) == FoldLeft(LAMBDA n, x : n + cost[x], 0, s)

(***************************************************************************)
(* The baseline.                                                           *)
(***************************************************************************)
\* The other roles at the player's place, the first of them by id.
select_relevant_roles(cast, here, player, max) ==
  First(SelectSeq(cast, LAMBDA r : r # player /\ r \in here), max)

\* The activated entries by rank.
ranked_activated(on) ==
  Ordered(DOMAIN on, LAMBDA x, y :
            LexLess(Append(on[x].order, x), Append(on[y].order, y)))

ActivatedFor(on, d) == SelectSeq(ranked_activated(on), LAMBDA x : d \in on[x].deliveries)

\* The writer's share of the activated entries: the first by rank, and of
\* these each one that still fits; a large one is skipped, not a cut.
load_relevant_knowledge(on, shown) ==
  LET keep(acc, x) == IF CostOf(acc, [y \in DOMAIN on |-> on[y].cost]) + on[x].cost
                           > shown.tokens
                      THEN acc ELSE Append(acc, x)
  IN  Range(FoldLeft(keep, <<>>, First(ActivatedFor(on, "Writer"), shown.items)))

\* Every other fact and rumor of the story is listed by its hint.
load_knowledge_index(entries, relevant, max) ==
  IF Cardinality(entries) > max THEN Refused
  ELSE [ok |-> TRUE, index |-> entries \ relevant]

prepare_baseline(cast, here, player, on, entries, shown) ==
  LET relevant == load_relevant_knowledge(on, shown)
      listed == load_knowledge_index(entries, relevant, shown.listed)
      near == Range(select_relevant_roles(cast, here, player, shown.near))
      far == Range(cast) \ (near \cup {player})
  IN  IF ~listed.ok \/ Cardinality(far) > shown.far THEN Refused
      ELSE [ok |-> TRUE, known |-> relevant, index |-> listed.index, far |-> far]

(***************************************************************************)
(* The plan.  An answer of the planner is [writer, character, think]: a    *)
(* sequence of targets, one of <<role, target>>, and one of roles.  Its    *)
(* goal and reasons are not empty and not too long, by its contract.       *)
(***************************************************************************)
validate_writer_planner_output(out, lim) ==
  /\ Len(out.writer) <= lim.gaps /\ Len(out.character) <= lim.gaps
  /\ Len(out.think) <= lim.thinks

\* A role thinks once, and the player's role never.
validate_think_requests(think, player, ai) ==
  /\ \A i \in DOMAIN think : think[i] # player /\ think[i] \in ai
  /\ \A i, j \in DOMAIN think : think[i] = think[j] => i = j

\* The narrative's impulses make further roles think.
merge_narrative_think_requests(think, impulses, cast, player, max) ==
  LET more == SelectSeq(cast, LAMBDA r : r \in impulses \ Range(think))
      all == think \o more
  IN  IF player \in impulses \/ ~(impulses \subseteq Range(cast)) \/ Len(all) > max
      THEN Refused ELSE [ok |-> TRUE, think |-> all]

\* What the prompt lists, by target id; role and entry ids do not collide.
indexed_targets(base) == ({"Role"} \X base.far) \cup ({"Knowledge"} \X base.index)

\* A writer's gap names a listed role or entry.
resolve_writer_gap(target, base) == target \in indexed_targets(base)

\* A character's gap names a listed rumor, for a role that thinks.
resolve_character_gap(gap, think, base, kind) ==
  /\ gap[1] \in Range(think)
  /\ gap[2] \in indexed_targets(base) /\ gap[2][1] = "Knowledge"
  /\ kind[gap[2][2]] # "Fact"

make_request(delivery, target) ==
  [source |-> target, delivery |-> delivery, kind |-> "Planner", mandatory |-> FALSE]

\* The plan: who is shown to the writer or thinks, and the exact targets,
\* each pair of audience and target once.
build(out, base, story, lim) ==
  LET merged == merge_narrative_think_requests(
                  out.think, story.impulses, story.cast, story.player, lim.thinks)
      think == merged.think
      requests ==
        {make_request("Writer", t[2]) : t \in {u \in Range(out.writer) : u[1] = "Knowledge"}}
          \cup {make_request(g[1], g[2][2]) : g \in Range(out.character)}
      seen == {t[2] : t \in {u \in Range(out.writer) : u[1] = "Role"}}
  IN  IF \/ Len(out.writer) + Len(out.character) > lim.gaps
         \/ Len(out.think) > lim.thinks
         \/ ~validate_think_requests(out.think, story.player, story.ai)
         \/ ~merged.ok
      THEN Refused
      ELSE IF \/ \E t \in Range(out.writer) : ~resolve_writer_gap(t, base)
              \/ \E g \in Range(out.character) :
                   ~resolve_character_gap(g, think, base, story.kind)
              \/ Cardinality(requests) > lim.requests
      THEN Refused
      ELSE [ok |-> TRUE, requests |-> requests, think |-> Range(think),
            audiences |-> seen \cup Range(think)]

(***************************************************************************)
(* The retrieved context.                                                  *)
(***************************************************************************)
\* Mutant of trim_tokens: an item that just fits is cut with all behind it.
trim_short(s, cost, max) ==
  First(s, CHOOSE n \in 0..Len(s) :
             /\ CostOf(First(s, n), cost) < max \/ n = 0
             /\ n < Len(s) => CostOf(First(s, n + 1), cost) >= max)

\* A partition is cut at the first item over the budget.
trim_tokens(s, cost, max) ==
  First(s, CHOOSE n \in 0..Len(s) :
             /\ CostOf(First(s, n), cost) <= max
             /\ n < Len(s) => CostOf(First(s, n + 1), cost) > max)

\* Facts and rumors, and memories, are partitions of their own.
Partition(s, cost, shown) == trim_tokens(First(s, shown.items), cost, shown.tokens)

\* What the writer is shown: activated for the writer and not in the baseline.
WriterItems(on, kind, known, k) ==
  SelectSeq(ActivatedFor(on, "Writer"), LAMBDA x : x \notin known /\ kind[x] = k)

\* The rumors activated for a role.
RoleItems(on, kind, role) == SelectSeq(ActivatedFor(on, role), LAMBDA x : kind[x] = "Rumor")

\* One item over the size limit refuses the retrieval, whether it would be
\* shown in the end or not.
load_activated_items(on, kind, bytes, known, audiences, max) ==
  \A x \in UNION ({Range(WriterItems(on, kind, known, k)) : k \in {"Fact", "Rumor"}}
                    \cup {Range(RoleItems(on, kind, r)) : r \in audiences}) : bytes[x] <= max

\* The whole context is refused, not trimmed, over its totals.  Memories come
\* from the store in its order: no memory is ever listed, so that the planner
\* cannot name one.
ContextWithin(facts, rumors, of, cost, memories, shown) ==
  LET audiences == DOMAIN of
      sum(f) == FoldLeft(LAMBDA n, r : n + f[r], 0, SetToSeq(audiences))
      items == Len(facts) + Len(rumors)
                 + sum([r \in audiences |-> Len(of[r].rumors) + Len(of[r].memories)])
      tokens == CostOf(facts, cost) + CostOf(rumors, cost)
                  + sum([r \in audiences |-> CostOf(of[r].rumors, cost)
                                              + CostOf(of[r].memories, memories[r])])
  IN  IF \/ Cardinality(audiences) > shown.audiences
         \/ items > shown.total_items \/ tokens > shown.total_tokens
      THEN Refused
      ELSE [ok |-> TRUE, writer |-> Range(facts) \cup Range(rumors),
            roles |-> [r \in audiences |-> Range(of[r].rumors)], items |-> items,
            tokens |-> tokens]

retrieved_context(on, kind, bytes, known, audiences, memories, shown) ==
  LET cost == [x \in DOMAIN on |-> on[x].cost]
      of == [r \in audiences |->
               [rumors |-> Partition(RoleItems(on, kind, r), cost, shown),
                memories |-> Partition([i \in DOMAIN memories[r] |-> i],
                                       memories[r], shown)]]
  IN  IF ~load_activated_items(on, kind, bytes, known, audiences, shown.item_bytes)
      THEN Refused
      ELSE ContextWithin(Partition(WriterItems(on, kind, known, "Fact"), cost, shown),
                         Partition(WriterItems(on, kind, known, "Rumor"), cost, shown),
                         of, cost, memories, shown)
=============================================================================
