------------------------------ MODULE CoreTurn ------------------------------
(***************************************************************************)
(* One turn of the aise-core engine: Runtime::run_turn with its pipelines  *)
(* from baseline to commit, and the gateway every model call goes through. *)
(* `t` holds the locals of run_turn.  A stage is entered by                *)
(* PipelineRunner::run; between entering and answering it waits for the    *)
(* model, and only there a cancellation or the deadline ends the turn.     *)
(* What extract, summary and commit do to the story is CoreStore; here     *)
(* they are the calls that may still fail after a draft was chosen.        *)
(***************************************************************************)
EXTENDS CoreActivation

CONSTANTS
    Stories,        \* the story contexts a turn may load
    player,         \* the role of the player
    Contributions,  \* the texts the model may make of the player's input
    Hashes,         \* what the hashes of the activation may come to
    PlanAnswers,    \* the plans the model may answer with, <<>> is no JSON
    Verdicts,       \* the validation reports it may answer with, likewise
    policy,         \* the checks and scores of ValidateConfig
    config          \* the numbers of the other configurations

VARIABLES t, cancelled, late

\* ValidateConfig::validate and ValidationLoopConfig::validate.
PolicyValid ==
    LET names == policy.checks \o [i \in DOMAIN policy.scores |-> policy.scores[i].name]
    IN  /\ policy.checks \in Seq(STRING)
        /\ policy.scores \in Seq([name : STRING, min : Int, max : Int, target : Int])
        /\ names # <<>> /\ Len(policy.checks) <= 16 /\ Len(policy.scores) <= 16
        /\ IsInjective(names)
        /\ \A s \in Range(policy.scores) : s.min < s.max /\ s.min <= s.target /\ s.target <= s.max
        /\ config.max_repair_rounds \in 0 .. 8
ASSUME PolicyAssumption == PolicyValid

\* The rules of a story are made of checked values.
RulesValid ==
    /\ \A st \in Range(Stories) : /\ st.book \in Seq(Rules)
                                  /\ st.recent \in Seq(SUBSET STRING) /\ st.directions \in Seq(SUBSET STRING)
    /\ config.activation \in [scan_depth : Nat, max_scan_depth : Nat, max_recursion_steps : Nat,
                              max_activated_entries : Nat, max_knowledge_bytes : Nat]
ASSUME RulesAssumption == RulesValid

\* validate_cast and validate_play: the player plays a role of the story.
CastValid == \A st \in Range(Stories) : player \in st.roles
ASSUME CastAssumption == CastValid

\* PlanLlmOutputDto and ValidateLlmOutputDto: an answer that parses has its types.
AnswersParsed ==
    /\ \A raw \in PlanAnswers : raw # <<>> =>
          /\ raw[1].facts \in Seq(Int) /\ raw[1].rumors \in Seq(Int) /\ raw[1].roles \in Seq(STRING)
          /\ raw[1].thinks \in Seq([role : STRING, focus : STRING])
    /\ \A raw \in Verdicts : raw # <<>> => \A s \in Range(raw[1].scores) : s.score \in Int
ASSUME AnswersAssumption == AnswersParsed

Fresh == [stage |-> "idle", at |-> "enter", story |-> 1, activation |-> <<>>,
          knowledge |-> [facts |-> <<>>, rumors |-> <<>>],
          plan |-> [facts |-> <<>>, rumors |-> <<>>, roles |-> <<>>, thinks |-> <<>>],
          retrieved |-> [facts |-> <<>>, rumors |-> <<>>],
          calls |-> <<>>, decisions |-> <<>>, recent_turns |-> 0, draft |-> 0, history |-> <<>>,
          repair_rounds |-> 0, chosen |-> <<>>, result |-> <<>>]

story == Stories[t.story]

GoTo(r, s) == [r EXCEPT !.stage = s, !.at = "enter", !.calls = <<>>]
Fail(kind) == t' = [Fresh EXCEPT !.stage = "done", !.result = <<"err", kind>>]
Done(r) == t' = [Fresh EXCEPT !.stage = "done", !.result = <<"committed", r>>]

\* A stage with one model call.
Call(r) == t' = [r EXCEPT !.at = "call", !.calls = <<"waiting">>]

\* AiseEngine::run_turn up to the runtime.
Load(n) ==
    IF Stories[n].life_cycle # "Active" THEN Fail("not_active")
    ELSE t' = [Fresh EXCEPT !.stage = "baseline", !.story = n,
                             !.recent_turns = Len(Stories[n].recent)]

-----------------------------------------------------------------------------
\* The gateway: LlmGateway::complete_request and call_provider.

InFlight == {i \in DOMAIN t.calls : t.calls[i] = "inflight"}

\* Both selects are biased: a cancellation or the deadline goes first.
Live == ~cancelled /\ ~late

Acquire(i) ==
    /\ Live /\ t.calls[i] = "waiting"
    /\ Cardinality(InFlight) < config.max_concurrent_calls
    /\ t' = [t EXCEPT !.calls[i] = "inflight"]

-----------------------------------------------------------------------------
\* Baseline.

\* build_scan_buffer: the newest turn has depth 1, the summary or else the
\* opening comes after the oldest.
build_scan_buffer(st, words) ==
    LET n == Len(st.recent)
        recent == {fragment(RecentStory, i, st.recent[n + 1 - i]) : i \in 1 .. n}
        directions == {fragment(NarrativeDirection, 0, st.directions[i]) : i \in DOMAIN st.directions}
        prior == IF st.summary = {} THEN fragment(StoryOpening, n + 1, st.opening)
                 ELSE fragment(StorySummary, n + 1, st.summary)
    IN  scan_buffer({fragment(PlayerContribution, 0, words), fragment(PlayerRoleName, 0, st.name), prior}
                    \cup directions \cup recent)

run_activation(scan, hash) ==
    activate([book |-> story.book, scan |-> scan, cfg |-> config.activation, hash |-> hash])

\* collect_knowledge: the activated facts and the activated rumors.
collect_knowledge(outcome) ==
    LET keys == [i \in DOMAIN outcome.activated |-> outcome.activated[i].key]
        kept(kind) == filtered(keys, {i \in DOMAIN keys : story.book[keys[i]].kind = kind})
    IN  [facts |-> kept("fact"), rumors |-> kept("rumor")]

\* BaselinePipeline::execute once the player's input was processed.
BaselineAnswer ==
    \E words \in Contributions, hash \in Hashes :
        LET scan == build_scan_buffer(story, words)
            outcome == run_activation(scan, hash)
        IN  t' = [GoTo(t, "plan") EXCEPT !.activation = <<[scan |-> scan, outcome |-> outcome]>>,
                                         !.knowledge = collect_knowledge(outcome)]

-----------------------------------------------------------------------------
\* Plan and retrieval.

\* collect_candidates: what was not activated, up to a limit per kind.
collect_candidates(kind, activated) ==
    LET open == {k \in DOMAIN story.book : story.book[k].kind = kind /\ k \notin Range(activated)}
    IN  {k \in open : Cardinality({j \in open : j < k}) < config.max_retrieval_candidates}

role_catalog == story.roles \ {player}

\* validate_fact_ids, validate_rumor_ids.
validate_ids(ids, kind, activated) ==
    IsInjective(ids) /\ Range(ids) \subseteq collect_candidates(kind, activated)

validate_generation_roles(roles) ==
    /\ Len(roles) <= config.max_roles_for_generation
    /\ IsInjective(roles) /\ Range(roles) \subseteq role_catalog

validate_character_think_requests(thinks) ==
    LET roles == [i \in DOMAIN thinks |-> thinks[i].role]
    IN  /\ Len(thinks) <= config.max_character_think_requests
        /\ IsInjective(roles) /\ Range(roles) \subseteq role_catalog
        /\ \A r \in Range(thinks) : r.focus = "text"

\* parse_plan_output accepts the answer.
plan_accepted(raw) ==
    /\ raw.goal = "text"
    /\ validate_ids(raw.facts, "fact", t.knowledge.facts)
    /\ validate_ids(raw.rumors, "rumor", t.knowledge.rumors)
    /\ validate_generation_roles(raw.roles)
    /\ validate_character_think_requests(raw.thinks)

PlanAnswer ==
    \E raw \in PlanAnswers :
        IF raw = <<>> \/ ~plan_accepted(raw[1]) THEN Fail("invalid_output")
        ELSE t' = [GoTo(t, IF raw[1].facts \o raw[1].rumors # <<>> THEN "retrieval"
                           ELSE IF raw[1].thinks # <<>> THEN "think" ELSE "generate")
                   EXCEPT !.plan = raw[1], !.activation = <<>>]

\* RetrievalPipeline::resolve; no model call, no wait.
Retrieve ==
    IF \E k \in Range(t.plan.facts \o t.plan.rumors) : k \notin DOMAIN story.book
    THEN Fail("inconsistent")
    ELSE t' = [GoTo(t, IF t.plan.thinks # <<>> THEN "think" ELSE "generate")
               EXCEPT !.retrieved = [facts |-> t.plan.facts, rumors |-> t.plan.rumors]]

-----------------------------------------------------------------------------
\* Think: `buffered` runs up to max_concurrency decisions at once, hands them
\* on in the order of the requests, and the first error in that order ends it.

ThinkRoles == [i \in DOMAIN t.plan.thinks |-> t.plan.thinks[i].role]

\* The calls that are polled once `n` decisions were handed on.
polled(calls, n) ==
    [i \in DOMAIN calls |-> IF calls[i] = "idle" /\ i <= n + config.max_concurrency THEN "waiting" ELSE calls[i]]

\* ThinkPipeline::think's validate_input, then the first poll.
StartThinking ==
    IF ~IsInjective(ThinkRoles) \/ ~(Range(ThinkRoles) \subseteq role_catalog) THEN Fail("inconsistent")
    ELSE t' = [t EXCEPT !.at = "call", !.calls = polled([i \in DOMAIN ThinkRoles |-> "idle"], 0)]

\* How many decisions can be handed on: the finished calls before the first
\* one that is not.
Ready(calls) == Max({n \in 0 .. Len(calls) : \A i \in 1 .. n : calls[i] = "decided"})

\* buffer_unordered: decisions in the order the calls finish.
collect_unordered(calls, i) ==
    IF calls[i] = "decided" THEN Append(t.decisions, ThinkRoles[i]) ELSE t.decisions

\* try_collect: the decisions handed on after call i finished.
collect_decisions(calls, i) == SubSeq(ThinkRoles, 1, Ready(calls))

\* Call i finished, `end` is "decided" or "failed".
FinishThinking(i, end) ==
    LET calls == [t.calls EXCEPT ![i] = end]
        n == Ready(calls)
    IN  IF n < Len(calls) /\ calls[n + 1] = "failed" THEN Fail("think")
        ELSE IF n = Len(calls)
        THEN t' = [GoTo(t, "generate") EXCEPT !.decisions = collect_decisions(calls, i)]
        ELSE t' = [t EXCEPT !.calls = polled(calls, n), !.decisions = collect_decisions(calls, i)]

\* decide_role: parse_character_decision accepts the answer or not.
ThinkAnswer(i) == FinishThinking(i, "decided") \/ FinishThinking(i, "failed")

-----------------------------------------------------------------------------
\* Generate.

\* effective_role_ids: roles for generation, then roles that thought, once each.
once_each(q) == filtered(q, {i \in DOMAIN q : \A j \in 1 .. i - 1 : q[j] # q[i]})
effective_role_ids == once_each(t.plan.roles \o ThinkRoles)

\* project_role_context's checks: resolve_roles, validate_ai_roles, validate_decisions.
roles_consistent ==
    /\ player \in story.roles
    /\ IsInjective(effective_role_ids) /\ Range(effective_role_ids) \subseteq role_catalog
    /\ IsInjective(t.decisions) /\ Range(t.decisions) \subseteq Range(effective_role_ids)

\* The bytes of a text cut to `most` with its marker, <<>> when not even the
\* marker fits.
truncated_json_string(most) == IF config.marker_bytes <= most THEN <<most>> ELSE <<>>

\* render_role: identity and profile must fit, the backstory is cut to the rest.
render_role(r) ==
    LET size == config.role_bytes[r]
        rest == config.max_role_bytes_per_role - size.fixed
    IN  IF size.backstory <= rest THEN <<size.fixed + size.backstory>>
        ELSE IF truncated_json_string(rest) # <<>> THEN <<size.fixed + truncated_json_string(rest)[1]>>
        ELSE <<>>

\* render_decisions: one byte separates two decisions.
render_decisions_fits == Len(t.decisions) * (config.decision_bytes + 1) - 1 <= config.max_decision_context_bytes

\* validate_aggregate_role_context: two bytes separate two roles.
role_context_fits ==
    LET roles == <<player>> \o effective_role_ids
    IN  /\ \A r \in Range(roles) : render_role(r) # <<>>
        /\ sum_of([i \in DOMAIN roles |-> 2 + render_role(roles[i])[1]]) - 2 <= config.max_role_context_bytes

\* All of these are inconsistent_data to the code; "too_large" keeps the texts
\* over a byte budget apart from disagreeing data.
StartGenerating ==
    IF ~roles_consistent THEN Fail("inconsistent")
    ELSE IF ~role_context_fits \/ ~render_decisions_fits THEN Fail("too_large")
    ELSE Call(t)

\* The texts a model may answer with, as far as their check tells them apart.
Proposals == {"text", "blank", "too_long"}

validate_generated_proposal(raw) == raw = "text"

\* What the turn has gathered so far is only read by the prompts from here on.
GenerateAnswer ==
    \E raw \in Proposals :
        IF ~validate_generated_proposal(raw) THEN Fail("invalid_output")
        ELSE t' = [GoTo(Fresh, "validate") EXCEPT !.recent_turns = t.recent_turns, !.draft = 1]

-----------------------------------------------------------------------------
\* Validate and repair.

\* validate_issue: a message goes with a failed criterion and with no other.
issue_valid(issue, required) == issue = IF required THEN "text" ELSE "none"

\* validate_returned_names and the counts: each criterion once, no other.
validate_returned_names(raw) ==
    LET names(seq) == [i \in DOMAIN seq |-> seq[i].name]
    IN  /\ IsInjective(names(raw.checks)) /\ Range(names(raw.checks)) = Range(policy.checks)
        /\ IsInjective(names(raw.scores)) /\ Range(names(raw.scores)) = Range(names(policy.scores))

\* parse_validation_report accepts the answer: names, ranges and issues.
report_accepted(raw) ==
    LET score(s) == CHOOSE c \in Range(policy.scores) : c.name = s.name
    IN  /\ validate_returned_names(raw)
        /\ \A c \in Range(raw.checks) : issue_valid(c.issue, ~c.passed)
        /\ \A s \in Range(raw.scores) :
              /\ score(s).min <= s.score /\ s.score <= score(s).max
              /\ issue_valid(s.issue, s.score < score(s).target)

\* The report, in the order of the policy.
parse_validation_report(raw, version) ==
    LET named(seq, n) == CHOOSE x \in Range(seq) : x.name = n
    IN  [version |-> version,
         checks |-> [i \in DOMAIN policy.checks |-> named(raw.checks, policy.checks[i]).passed],
         scores |-> [i \in DOMAIN policy.scores |-> named(raw.scores, policy.scores[i].name).score]]

all_checks_pass(report) == \A i \in DOMAIN report.checks : report.checks[i]
unmet_scores(report) == {i \in DOMAIN report.scores : report.scores[i] < policy.scores[i].target}

\* target_gap_mse, times the number of scores and the square of all ranges.
target_gap(report) ==
    LET range(i) == policy.scores[i].max - policy.scores[i].min
        all == product_of([i \in DOMAIN policy.scores |-> range(i)])
        deficit(i) == Max({0, policy.scores[i].target - report.scores[i]}) * (all \div range(i))
    IN  sum_of([i \in DOMAIN policy.scores |-> deficit(i) * deficit(i)])

is_better(a, b) ==
    LET unmet(r) == Cardinality(unmet_scores(r))
    IN  \/ target_gap(a) < target_gap(b)
        \/ target_gap(a) = target_gap(b) /\ unmet(a) < unmet(b)
        \/ target_gap(a) = target_gap(b) /\ unmet(a) = unmet(b) /\ a.version > b.version

\* The best report of the history, whatever its checks say.
select_any(history) ==
    LET best[i \in 0 .. Len(history)] ==
            IF i = 0 THEN 0
            ELSE LET b == best[i - 1]
                 IN  IF b = 0 \/ is_better(history[i].report, history[b].report) THEN i ELSE b
    IN  best[Len(history)]

\* select_choice: the best of the reports that pass the hard gate.
select_choice(history) ==
    LET best[i \in 0 .. Len(history)] ==
            IF i = 0 THEN 0
            ELSE LET b == best[i - 1]
                 IN  IF all_checks_pass(history[i].report) /\ (b = 0 \/ is_better(history[i].report, history[b].report))
                     THEN i ELSE b
    IN  best[Len(history)]

\* What the commit is told of the draft that was chosen.
turn_evaluation(h, status) == <<[draft |-> h.draft, report |-> h.report, status |-> status]>>

\* One round of validate_and_repair after the report came in.
Judge(report) ==
    LET history == Append(t.history, [draft |-> t.draft, report |-> report])
        judged == [t EXCEPT !.history = history]
        choice == select_choice(history)
    IN  IF all_checks_pass(report) /\ unmet_scores(report) = {}
        THEN t' = [GoTo(judged, "extract") EXCEPT !.chosen = turn_evaluation(history[Len(history)], "Pass")]
        ELSE IF t.repair_rounds < config.max_repair_rounds
        THEN t' = [GoTo(judged, "repair") EXCEPT !.repair_rounds = @ + 1]
        ELSE IF ~all_checks_pass(report) \/ choice = 0 THEN Fail("validation_failed")
        ELSE t' = [GoTo(judged, "extract") EXCEPT !.chosen = turn_evaluation(history[choice], "Choice")]

ValidateAnswer ==
    \E raw \in Verdicts :
        IF raw = <<>> \/ ~report_accepted(raw[1]) THEN Fail("invalid_output")
        ELSE Judge(parse_validation_report(raw[1], Len(t.history) + 1))

validate_repaired_proposal(raw) == raw = "text"

RepairAnswer ==
    \E raw \in Proposals :
        IF ~validate_repaired_proposal(raw) THEN Fail("invalid_output")
        ELSE t' = [GoTo(t, "validate") EXCEPT !.draft = @ + 1]

-----------------------------------------------------------------------------
\* Extract, summary and commit.

ExtractAnswer == Fail("invalid_output") \/ t' = GoTo(t, "summary")

\* covered_turn_count = 0: nothing to summarise, no call.
StartSummary ==
    IF config.summary_turn_count = 0 \/ t.recent_turns + 1 <= config.summary_turn_count
    THEN t' = GoTo(t, "commit")
    ELSE Call(t)

SummaryAnswer == Fail("invalid_output") \/ t' = GoTo(t, "commit")

\* CommitPipeline::execute: the store may refuse, nothing waits for a model.
CommitTurn == Fail("persistence") \/ Done(t.chosen[1])

-----------------------------------------------------------------------------
\* The steps of a turn.

\* PipelineRunner::run up to the stage's first wait.
RunStage ==
    /\ t.at = "enter"
    /\ \/ t.stage \in {"baseline", "validate", "repair", "extract"} /\ Call(t)
       \/ t.stage = "plan" /\ IF player \in story.roles THEN Call(t) ELSE Fail("inconsistent")
       \/ t.stage = "retrieval" /\ Retrieve
       \/ t.stage = "think" /\ StartThinking
       \/ t.stage = "generate" /\ StartGenerating
       \/ t.stage = "summary" /\ StartSummary
       \/ t.stage = "commit" /\ CommitTurn

\* The model answered call i.
Answer(i) ==
    /\ Live /\ t.calls[i] = "inflight"
    /\ \/ t.stage = "baseline" /\ BaselineAnswer
       \/ t.stage = "plan" /\ PlanAnswer
       \/ t.stage = "think" /\ ThinkAnswer(i)
       \/ t.stage = "generate" /\ GenerateAnswer
       \/ t.stage = "validate" /\ ValidateAnswer
       \/ t.stage = "repair" /\ RepairAnswer
       \/ t.stage = "extract" /\ ExtractAnswer
       \/ t.stage = "summary" /\ SummaryAnswer

LlmError(i) == IF t.stage = "think" THEN FinishThinking(i, "failed") ELSE Fail("llm")

\* The provider failed, or the call took longer than its own timeout.
CallFails(i) == Live /\ t.calls[i] = "inflight" /\ LlmError(i)

\* A gateway that watches the token and not the clock.
CallStopsIfCancelled(i) == cancelled /\ t.calls[i] \in {"waiting", "inflight"} /\ LlmError(i)

\* The turn was cancelled or its deadline passed while call i waited.
CallStops(i) == ~Live /\ t.calls[i] \in {"waiting", "inflight"} /\ LlmError(i)

-----------------------------------------------------------------------------
\* Properties.

\* The entries taken, in order, keep the rules of the story's book.
Admitted(st, scan, taken) ==
    LET rule(i) == st.book[taken[i].key]
        req == [book |-> st.book, cfg |-> config.activation]
        words(i) == UNION {f.words : f \in {g \in scan : g.depth <= scan_depth(req, taken[i].key)}}
        told(i) == UNION {rule(j).content : j \in {k \in DOMAIN taken :
                              taken[k].level < taken[i].level /\ ~rule(k).prevent_recursion}}
    IN  /\ \A i, j \in DOMAIN taken : i # j => rule(i).groups \cap rule(j).groups = {}
        /\ Len(taken) <= config.activation.max_activated_entries
        /\ sum_of([i \in DOMAIN taken |-> rule(i).size]) <= config.activation.max_knowledge_bytes
        /\ \A i \in DOMAIN taken :
              /\ rule(i).enabled /\ (taken[i].level >= rule(i).delay \/ rule(i).constant)
              /\ \/ rule(i).constant
                 \/ Range(rule(i).keys) \cap words(i) # {}
                 \/ ~rule(i).exclude_recursion /\ Range(rule(i).keys) \cap told(i) # {}

\* Whatever the rules of a story say and however the hashes fall, an activation
\* takes at most one entry of a group over all recursion levels and stays within
\* both budgets; an entry that is no constant is not taken below its level, and
\* has a key in the text it may read: the scan up to its depth, or, unless it
\* excludes recursion, an entry admitted on an earlier level.
KnowledgeAdmitted ==
    t.activation # <<>> => Admitted(story, t.activation[1].scan, t.activation[1].outcome.activated)

\* What the plan's validation lets through is all the later stages check again:
\* no stage meets data that disagree (texts over a byte budget, which the code
\* calls inconsistent too, are another matter), generation gets every fact and rumor at
\* most once, only roles of the story the player does not play, and the
\* decisions in the order they were asked for however the calls overlapped.
StagesAgree ==
    /\ t.result # <<"err", "inconsistent">>
    /\ (t.stage = "generate" /\ t.at = "call") =>
          /\ IsInjective(t.knowledge.facts \o t.retrieved.facts)
          /\ IsInjective(t.knowledge.rumors \o t.retrieved.rumors)
          /\ player \notin Range(effective_role_ids)
          /\ t.decisions = ThinkRoles

\* The draft a turn goes on with passed every check in the report it carries.
\* It met every target and is the newest, or the repairs are used up and no
\* draft that passed the checks is closer to the targets, misses fewer of them
\* at the same distance, or is newer at the same quality.
ChosenDraft ==
    t.chosen # <<>> =>
        LET c == t.chosen[1]
            passing == {h.report : h \in {g \in Range(t.history) : all_checks_pass(g.report)}}
            unmet(r) == Cardinality(unmet_scores(r))
        IN  /\ c.report \in passing /\ c.draft = c.report.version
            /\ Len(t.history) = t.repair_rounds + 1
            /\ c.status = "Pass" <=> unmet(c.report) = 0
            /\ IF c.status = "Pass" THEN c.draft = Len(t.history)
               ELSE /\ t.repair_rounds = config.max_repair_rounds
                    /\ \A r \in passing :
                          /\ target_gap(c.report) <= target_gap(r)
                          /\ target_gap(c.report) = target_gap(r) =>
                                \/ unmet(c.report) < unmet(r)
                                \/ unmet(c.report) = unmet(r) /\ r.version <= c.report.version
=============================================================================
