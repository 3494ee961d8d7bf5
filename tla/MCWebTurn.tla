----------------------------- MODULE MCWebTurn ------------------------------
EXTENDS WebTurn

\* A rule with every default, its one key, and the words of its content.
Rule(kind, key, content) ==
    [kind |-> kind, keys |-> <<key>>, secondary_keys |-> <<>>, logic |-> "AndAny", scan_depth |-> <<>>,
     enabled |-> TRUE, constant |-> FALSE, exclude_recursion |-> FALSE, prevent_recursion |-> FALSE,
     delay |-> 0, order |-> 0, probability |-> 100, groups |-> {}, group_override |-> FALSE,
     group_weight |-> 1, use_group_scoring |-> FALSE, content |-> content, size |-> 1]

\* Two facts and two rumors: the first fact leads to the word "b", which the
\* second fact and the first rumor wait for.
Chain == <<Rule("fact", "a", {"b"}), Rule("fact", "b", {"c"}), Rule("rumor", "b", {"d"}), Rule("rumor", "c", {})>>

Books ==
    <<\* one group over three levels, drawn by weight among equals
      [Chain EXCEPT ![1].groups = {1}, ![2].groups = {1, 2}, ![3].groups = {2}, ![4].groups = {1}, ![4].keys = <<"d">>],
      \* excluded from recursion, locked until level 1, a constant, a small chance
      [Chain EXCEPT ![2].exclude_recursion = TRUE, ![3].delay = 1, ![3].probability = 50, ![4].constant = TRUE, ![4].groups = {1}],
      \* secondary keys, a deep reader and entries too large to join the others
      [Chain EXCEPT ![1].secondary_keys = <<"d">>, ![1].logic = "NotAny", ![2].scan_depth = <<2>>, ![2].size = 2,
                    ![2].prevent_recursion = TRUE, ![3].secondary_keys = <<"a", "b">>, ![3].logic = "AndAll", ![3].size = 2,
                    ![4].enabled = FALSE]>>

MCStories ==
    LET st(b, recent, summary) ==
            [life_cycle |-> "Active", roles |-> {"player", "r1", "r2"}, book |-> b, name |-> {"n"}, directions |-> <<{"c"}>>,
             recent |-> recent, summary |-> summary, opening |-> {"b"}]
    IN  <<st(Books[1], <<{"n"}>>, {}), st(Books[2], <<{"b"}>>, {"d"}), st(Books[3], <<{"b"}, {"c"}>>, {}),
          [st(Chain, <<>>, {}) EXCEPT !.life_cycle = "Completed"]>>

MCContributions == {{"a"}, {"b", "d"}}
MCHashes == {[roll |-> [k \in 1 .. 4 |-> b], sample |-> [g \in 1 .. GroupKeys |-> IF b THEN g % 2 ELSE (g + 1) % 2]] : b \in BOOLEAN}

MCPlanAnswers ==
    LET plan(facts, rumors, roles, thinks) ==
            <<[goal |-> "text", facts |-> facts, rumors |-> rumors, roles |-> roles,
               thinks |-> [i \in DOMAIN thinks |-> [role |-> thinks[i], focus |-> "text"]]]>>
    IN  {<<>>, plan(<<>>, <<>>, <<>>, <<>>), plan(<<2>>, <<4>>, <<"r1">>, <<>>), plan(<<2, 1>>, <<>>, <<"r2">>, <<"r2", "r1">>),
         plan(<<>>, <<3>>, <<"player">>, <<"r1">>), plan(<<>>, <<>>, <<"r1", "r1">>, <<"player">>),
         plan(<<>>, <<>>, <<>>, <<"r1", "r2">>)}

MCpolicy ==
    [checks |-> <<"logic">>,
     scores |-> <<[name |-> "goal", min |-> 0, max |-> 2, target |-> 2], [name |-> "style", min |-> 0, max |-> 4, target |-> 3]>>]

MCVerdicts ==
    LET issue(failed) == IF failed THEN "text" ELSE "none"
        verdict(p, g, s) ==
            [checks |-> <<[name |-> "logic", passed |-> p, issue |-> issue(~p)]>>,
             scores |-> <<[name |-> "style", score |-> s, issue |-> issue(s < 3)], [name |-> "goal", score |-> g, issue |-> issue(g < 2)]>>]
    IN  {<<>>} \cup {<<verdict(TRUE, g, s)>> : g \in {1, 2}, s \in {1, 3}}
        \cup {<<verdict(FALSE, 2, 3)>>}
        \cup {<<[verdict(TRUE, 2, 3) EXCEPT !.scores[1].score = 5]>>, <<[verdict(FALSE, 2, 3) EXCEPT !.checks[1].issue = "none"]>>}

MCconfig ==
    [activation |-> [scan_depth |-> 1, max_scan_depth |-> 2, max_recursion_steps |-> 2, max_activated_entries |-> 3, max_knowledge_bytes |-> 3],
     max_concurrent_calls |-> 1, max_concurrency |-> 2, max_retrieval_candidates |-> 2,
     max_roles_for_generation |-> 2, max_character_think_requests |-> 2,
     role_bytes |-> [player |-> [fixed |-> 2, backstory |-> 2], r1 |-> [fixed |-> 2, backstory |-> 9], r2 |-> [fixed |-> 3, backstory |-> 1]],
     max_role_bytes_per_role |-> 5, marker_bytes |-> 2, max_role_context_bytes |-> 17,
     decision_bytes |-> 2, max_decision_context_bytes |-> 5,
     max_repair_rounds |-> 2, summary_turn_count |-> 2]
=============================================================================
