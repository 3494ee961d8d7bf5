---------------------------- MODULE MCTurnCommit ----------------------------
EXTENDS TurnCommit, FiniteSets, TLC

CONSTANTS s1, s2

Request(s, k, d) == [story |-> s, key |-> k, digest |-> d]

\* One key used for two different requests, and a second key; and a story
\* whose turns are serialized.
TwoStories == {Request(s1, "k1", "d1"), Request(s1, "k1", "d2"), Request(s1, "k2", "d1"),
               Request(s2, "k1", "d1"), Request(s2, "k2", "d1")}

\* All attempts on one story, or one of them on the other.
On(w, s) == Cardinality({a \in Attempts : w[a].story = s})
OneApart == {w \in [Attempts -> TwoStories] :
                \/ On(w, s1) \in {0, 3}
                \/ On(w, s1) = 1 /\ \A a \in Attempts : w[a].key = "k1" /\ w[a].digest = "d1"}

Symmetry == Permutations(Attempts)
=============================================================================
