----------------------- MODULE MCKnowledgeActivation -----------------------
(***************************************************************************)
(* Small stories for KnowledgeActivation.  Each world puts one part of the *)
(* engine under pressure; together they fire every action.                 *)
(***************************************************************************)
EXTENDS KnowledgeActivation

\* The default rule: matched by one word, no group, no timing.
Rule(word) == [disabled EXCEPT !.keys = {word}, !.enabled = TRUE]

Entry(kind, body) ==
  [kind |-> kind, body |-> body, cost |-> 1, bytes |-> 1, salience |-> 0]

Wide ==
  [initial_scan_depth |-> 0, max_scan_depth |-> 1, include_summary |-> FALSE,
   max_scan_fragments |-> 9, max_pattern_matches |-> 20,
   max_candidates_per_round |-> 9, max_recursion_steps |-> 3,
   max_recursion_fragments |-> 9, max_activated_entries |-> 9,
   max_depth_expansions |-> 1, minimum_activations |-> 0, max_external |-> 4,
   max_evidence_per_entry |-> 2, max_evidence |-> 20,
   max_items_per_audience |-> 9, max_tokens_per_audience |-> 9,
   max_total_items |-> 9, max_total_tokens |-> 9, reserved_tokens |-> 0,
   mandatory_tokens |-> 0, max_single_entry_bytes |-> 1,
   max_patterns_per_entry |-> 2, max_groups_per_entry |-> 2, max_entries |-> 4,
   max_overlay_entries |-> 2, max_tombstones |-> 1, max_literal_patterns |-> 9]

Said(words) == ScanFragment("PlayerContribution", 0, 0, words)

NoChange == [op |-> "none"]

\* Answers of the planner: entries for the writer, rumors for "role".
Asks(writer, character) ==
  [writer |-> [i \in DOMAIN writer |-> <<"Knowledge", writer[i]>>],
   character |-> [i \in DOMAIN character |-> <<"role", <<"Knowledge", character[i]>>>>],
   think |-> IF character = <<>> THEN <<>> ELSE <<"role">>]

Quiet ==
  [turns |-> 4, lim |-> Wide, dice |-> {{}}, favour |-> 0, previews |-> {}, others |-> {}, other_packs |-> {},
   pack_bytes |-> 1, named |-> {}, events |-> <<>>, recent |-> 1,
   deliveries |-> {"Writer"}, flaky |-> FALSE, changes |-> {NoChange},
   cast |-> <<"player", "role">>, player |-> "player", ai |-> {"role"},
   here |-> {"player"}, impulses |-> {}, memories |-> [role |-> <<1, 1>>],
   answers |-> {Asks(<<>>, <<>>)},
   planner |-> [gaps |-> 3, thinks |-> 1, requests |-> 2],
   shown |-> [items |-> 9, tokens |-> 9, listed |-> 4, near |-> 1, far |-> 1,
              audiences |-> 1, item_bytes |-> 2, total_items |-> 9, total_tokens |-> 9]]

\* Groups, recursion, probability, depth: four entries that wake each other.
Rounds ==
  Over([rules |-> [A |-> [Rule(1) EXCEPT !.groups = {"g"}],
                   B |-> [Rule(1) EXCEPT !.groups = {"g", "h"}, !.weight = 2],
                   C |-> [Rule(3) EXCEPT !.probability = 50,
                                           !.delay_until_recursion = 1],
                   D |-> [Rule(4) EXCEPT !.groups = {"h"}]],
        entries |-> <<"A", "B", "C", "D">>,
        entry |-> <<Entry("Fact", {3}), Entry("Fact", {3, 4}),
                    Entry("Rumor", {4}), Entry("Rumor", {1})>>,
        said |-> [t \in 1..4 |-> {1, 3}], told |-> [t \in 1..4 |-> {4}],
        lim |-> [Wide EXCEPT !.minimum_activations = 3,
                             !.max_recursion_steps = 2],
        dice |-> {{}, {3}}, favour |-> 2, flaky |-> TRUE,
        deliveries |-> {"Writer", "role"},
        answers |-> {Asks(<<>>, <<>>), Asks(<<1>>, <<>>), Asks(<<4>>, <<3>>)}],
       Quiet)
Groups2 == [Rounds EXCEPT !.favour = 1]

\* Sticky and cooldown over four turns, with a rule that changes.
Timed ==
  Over([rules |-> [A |-> [Rule(1) EXCEPT !.sticky_turns = 1, !.cooldown_turns = 1],
                   B |-> [Rule(1) EXCEPT !.cooldown_turns = 2],
                   C |-> [Rule(9) EXCEPT !.sticky_turns = 2]],
        entries |-> <<"A", "C">>,
        entry |-> <<Entry("Rumor", {}), Entry("Rumor", {})>>,
        said |-> <<{1}, {}, {1}, {1}>>, told |-> [t \in 1..4 |-> {}],
        answers |-> {Asks(<<>>, <<>>), Asks(<<2>>, <<>>), Asks(<<1>>, <<>>)},
        changes |-> {NoChange, [op |-> "update", source |-> 1, rule |-> "B"],
                     [op |-> "update", source |-> 1, rule |-> "A"],
                     [op |-> "delete", source |-> 2]}],
       Quiet)

\* Budgets: a mandatory constant, a reserved entry, rumors for a character.
Budgets ==
  Over([rules |-> [A |-> [Rule(1) EXCEPT !.constant = TRUE, !.class = "Mandatory"],
                   B |-> [Rule(1) EXCEPT !.class = "Reserved"],
                   C |-> Rule(2)],
        entries |-> <<"A", "B", "C", "C">>,
        entry |-> <<Entry("Fact", {2}), Entry("Rumor", {}),
                    [Entry("Rumor", {}) EXCEPT !.cost = 2],
                    [Entry("Fact", {}) EXCEPT !.bytes = 2]>>,
        said |-> [t \in 1..4 |-> {1}], told |-> [t \in 1..4 |-> {2}],
        lim |-> [Wide EXCEPT !.max_total_tokens = 6, !.mandatory_tokens = 1,
                             !.reserved_tokens = 1, !.max_items_per_audience = 3,
                             !.max_tokens_per_audience = 4, !.max_activated_entries = 3,
                             !.max_candidates_per_round = 3],
        deliveries |-> {"Writer", "role"}, flaky |-> TRUE,
        answers |-> {Asks(<<>>, <<3>>), Asks(<<>>, <<2, 3>>), Asks(<<3>>, <<2>>),
                     Asks(<<4>>, <<>>), Asks(<<3, 3>>, <<2, 2>>)}],
       Quiet)

\* The cache: more fragments than it holds, another story, a growing overlay.
Cached ==
  Over([rules |-> [A |-> Rule(1), B |-> Rule(2)],
        entries |-> <<"A">>,
        entry |-> <<Entry("Fact", {}), Entry("Fact", {})>>,
        said |-> [t \in 1..4 |-> {1}], told |-> [t \in 1..4 |-> {2}],
        named |-> {1, 2}, others |-> {{}, {1, 2}}, other_packs |-> {1, 2},
        changes |-> {NoChange, [op |-> "add", source |-> 2, rule |-> "B"],
                     [op |-> "update", source |-> 1, rule |-> "B"]}],
       Quiet)

\* A preview while the story moves on.
Previewed ==
  Over([rules |-> [A |-> [Rule(1) EXCEPT !.cooldown_turns = 1], B |-> Rule(2)],
        entries |-> <<"A", "B">>,
        entry |-> <<Entry("Fact", {2}), Entry("Rumor", {})>>,
        said |-> [t \in 1..4 |-> {1}], told |-> [t \in 1..4 |-> {}],
        deliveries |-> {"Writer", "role"},
        previews |-> {[seeds |-> {}, dice |-> {}, trigger |-> "Normal",
                       contribution |-> Said({1})],
                      [seeds |-> {[source |-> 2, delivery |-> "role",
                                   kind |-> "Preview", mandatory |-> TRUE]},
                       dice |-> {}, trigger |-> "DryRunPreview",
                       contribution |-> Said({2})]},
        changes |-> {NoChange, [op |-> "update", source |-> 1, rule |-> "B"],
                     [op |-> "delete", source |-> 2]}],
       Quiet)

\* Every way to give three entries one of seven rules.
Templates ==
  [A |-> [Rule(1) EXCEPT !.groups = {"g"}, !.use_group_scoring = TRUE],
   B |-> [Rule(1) EXCEPT !.groups = {"g"}, !.sticky_turns = 1, !.order = 1],
   C |-> [Rule(2) EXCEPT !.secondary = {1, 3}, !.logic = "NotAll",
                         !.exclude_recursion = TRUE],
   D |-> [Rule(2) EXCEPT !.constant = TRUE, !.class = "Reserved",
                         !.cooldown_turns = 1],
   E |-> [Rule(3) EXCEPT !.delay_until_recursion = 1, !.class = "Mandatory"],
   F |-> [Rule(1) EXCEPT !.exact_target_only = TRUE, !.prevent_recursion = TRUE],
   G |-> [Rule(3) EXCEPT !.delay_turns = 1, !.probability = 50]]

Sampled ==
  {Over([rules |-> Templates, entries |-> f, turns |-> 2,
         entry |-> <<Entry("Fact", {2}), [Entry("Rumor", {1, 3}) EXCEPT !.cost = 2],
                     Entry("Rumor", {3})>>,
         said |-> <<{1}, {2}>>, told |-> <<{3}, {}>>, events |-> <<{3}>>,
         lim |-> [Wide EXCEPT !.minimum_activations = 2, !.max_total_tokens = 6,
                              !.mandatory_tokens = 1, !.reserved_tokens = 1,
                              !.max_tokens_per_audience = 4,
                              !.max_pattern_matches = 6,
                              !.max_candidates_per_round = 2],
         dice |-> {{1, 3}}, favour |-> 2, deliveries |-> {"Writer", "role"},
         answers |-> {Asks(<<3>>, <<2>>), Asks(<<1>>, <<>>)}],
        Quiet) : f \in [1..3 -> DOMAIN Templates]}

\* What is shown: less room than the activation has, roles near and far.
Shown ==
  Over([rules |-> [A |-> [Rule(1) EXCEPT !.constant = TRUE, !.class = "Mandatory"],
                   B |-> Rule(1), C |-> Rule(9)],
        entries |-> <<"A", "B", "C", "C">>,
        entry |-> <<[Entry("Fact", {}) EXCEPT !.cost = 2], Entry("Rumor", {}),
                    Entry("Rumor", {}), [Entry("Fact", {}) EXCEPT !.bytes = 2]>>,
        said |-> [t \in 1..4 |-> {1}], told |-> [t \in 1..4 |-> {}], turns |-> 2,
        lim |-> [Wide EXCEPT !.max_single_entry_bytes = 2],
        deliveries |-> {"Writer", "role"},
        cast |-> <<"near", "player", "role">>, here |-> {"near", "player"},
        ai |-> {"near", "role"}, memories |-> [role |-> <<1, 1>>, near |-> <<>>],
        answers |-> {Asks(<<>>, <<2, 3>>), Asks(<<4>>, <<3>>), Asks(<<2>>, <<>>),
                     [Asks(<<>>, <<>>) EXCEPT !.writer = <<<<"Role", "role">>>>],
                     [Asks(<<>>, <<>>) EXCEPT !.think = <<"near">>],
                     [Asks(<<>>, <<3>>) EXCEPT !.think = <<"near">>],
                     [Asks(<<>>, <<>>) EXCEPT !.think = <<"player">>]}],
       Quiet)
ShownWorlds ==
  {[Shown EXCEPT !.impulses = i, !.here = h, !.shown.tokens = n, !.shown.items = m,
                 !.shown.total_items = t, !.shown.item_bytes = k, !.planner.thinks = k] :
     i \in {{}, {"near"}, {"role"}}, h \in {{"player"}, {"near", "player"}},
     n \in {2, 9}, m \in {1, 9}, t \in {2, 9}, k \in {1, 2}}

MCWorlds ==
  {Rounds, Groups2, Timed, Budgets, Cached, Previewed} \cup Sampled \cup ShownWorlds
=============================================================================
