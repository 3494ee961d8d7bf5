----------------------------- MODULE MCCoreStore -----------------------------
(***************************************************************************)
(* CoreStore on two stories that share a pack and a graph of two nodes:    *)
(* the first may be completed or skipped by what the model says, the       *)
(* second opens at turn 1 at the latest and ends the story.                *)
(***************************************************************************)
EXTENDS CoreStore, TLC

TwoNodes == {"gate", "finale"}

TwoNodeConditions ==
    <<[kind |-> "story_started"],
      [kind |-> "semantic", id |-> "met"],
      [kind |-> "semantic", id |-> "fled"],
      [kind |-> "node_is", node |-> "gate", status |-> "completed"],
      [kind |-> "turn_reaches", turn |-> 1],
      [kind |-> "any", of |-> {4, 5}],
      [kind |-> "not", of |-> {3}],
      [kind |-> "all", of |-> {5, 7}]>>

TwoNodeGraph ==
    [gate |-> [activate |-> 1, complete |-> 2, skip |-> 3, terminal |-> FALSE],
     finale |-> [activate |-> 6, complete |-> 8, skip |-> 0, terminal |-> TRUE]]

CONSTANTS s1, digest

\* The second story only shares the pack.
OneStoryPlayed == {s1} \X Keys

OnePack == [s \in Stories |-> digest]

\* A fact of the pack has the name the first allocated fact would get.
SomeSeeds == [k \in {"fact", "rumor", "hero"} |->
                 CASE k = "fact" -> {<<0, 1>>, <<1, 1>>} [] k = "rumor" -> {<<0, 1>>} [] OTHER -> {}]

Add == [op |-> "add", id |-> <<0, 0>>, rule |-> TRUE]
Update(n) == [op |-> "update", id |-> n, rule |-> TRUE]
Remove(n) == [op |-> "remove", id |-> n, rule |-> TRUE]
NoOps == [k \in {"fact", "rumor", "hero"} |-> <<>>]

SomeExtractions ==
    {[roles |-> <<>>, ops |-> [NoOps EXCEPT !.fact = <<Add, Update(<<0, 1>>), Add>>, !.rumor = <<Remove(<<0, 1>>)>>]],
     [roles |-> <<"hero">>, ops |-> [NoOps EXCEPT !.hero = <<Add>>]]}

Symmetry == Permutations(Calls) \cup Permutations(Keys)
=============================================================================
