-------------------------- MODULE ActivationEngine --------------------------
(***************************************************************************)
(* The knowledge activation engine of the aise crate                       *)
(* (domain/knowledge/activation): which world-info entries take part in a  *)
(* turn.  The engine is a sequential algorithm driven round by round; each *)
(* of its methods is an operator from a session to the next session.       *)
(*                                                                         *)
(* A request `req` is a record                                             *)
(*   turn     the turn number         trigger  the generation trigger      *)
(*   index    [source -> metadata]    frags    the scan buffer's fragments *)
(*   patterns the pack's and the overlay's                                 *)
(*   matches  [fragment -> items]     timed    [source -> timed state]     *)
(*   seeds    external seeds          lim      the runtime limits          *)
(*   dice     the sources the probability hash of this turn admits         *)
(*   favour   the source the group hash prefers among tied ones            *)
(*   snap     the knowledge snapshot and overlay version of the index      *)
(* Sources are positive integers in the order of KnowledgeSourceId.  A     *)
(* pattern is a word, a number, and a text the set of words found in it.   *)
(***************************************************************************)
EXTENDS Integers, Sequences, FiniteSets, SequencesExt, Functions

\* An unset scan_depth: the depth of the turn is the entry's.
NoDepth == 99

None == "none"

\* The map [x -> f[x]] with the entries of g written over it.
Over(g, f) == [x \in DOMAIN f \cup DOMAIN g |->
                 IF x \in DOMAIN g THEN g[x] ELSE f[x]]

Empty == [x \in {} |-> x]

\* Lexicographic order on equally long sequences of integers.
LexLess(a, b) ==
  \E i \in 1..Len(a) : a[i] < b[i] /\ \A j \in 1..(i - 1) : a[j] = b[j]

\* The elements of S in the strict total order Before.
Ordered(S, Before(_, _)) ==
  [i \in 1..Cardinality(S) |->
     CHOOSE x \in S : Cardinality({y \in S : Before(y, x)}) = i - 1]

Ascending(S) == Ordered(S, LAMBDA x, y : x < y)

(***************************************************************************)
(* Fragments and their matches.                                            *)
(***************************************************************************)
source_priority(kind) ==
  CASE kind = "PlayerContribution" -> 0
    [] kind = "PlayerRoleName"     -> 1
    [] kind = "NarrativeEvent"     -> 2
    [] kind = "RecentStory"        -> 3
    [] kind = "StorySummary"       -> 4
    [] kind = "RecursionContent"   -> 5

ScanFragment(kind, depth, order, text) ==
  [kind |-> kind, depth |-> depth, order |-> order, text |-> text]

\* The patterns whose word the text holds, with the place they were found.
LiteralMatches(patterns, f) ==
  {[source |-> p.source, pattern |-> p.pattern, word |-> p.word,
    positive |-> p.positive, kind |-> f.kind, depth |-> f.depth, order |-> f.order] :
     p \in {p \in patterns : p.word \in f.text}}

\* A pack pattern counts only while its entry is the pack's.
match_fragment(index, patterns, f) ==
       {m \in LiteralMatches(patterns.pack, f) :
          m.source \in DOMAIN index /\ index[m.source].from_pack}
  \cup LiteralMatches(patterns.overlay, f)

summary_visible(kind, depth, lim) ==
  \/ kind # "StorySummary"
  \/ lim.include_summary /\ depth = lim.max_scan_depth

visible_base_fragments(req, depth) ==
  {f \in req.frags : f.depth <= depth /\ summary_visible(f.kind, depth, req.lim)}

\* The scan buffer keeps fragments by priority, recency and stable order.
FragmentKey(f) == <<source_priority(f.kind), f.depth, f.order>>
InScanOrder(F) ==
  Ordered(F, LAMBDA f, g : LexLess(FragmentKey(f), FragmentKey(g)))

(***************************************************************************)
(* Candidates.                                                             *)
(***************************************************************************)
is_mandatory(meta, forced) == forced \/ meta.rule.class = "Mandatory"

class_rank(c) ==
  CASE c.sticky -> 0
    [] ~c.sticky /\ c.mandatory /\ c.class \in {"Planner", "Preview"} -> 1
    [] ~c.sticky /\ c.mandatory /\ c.class = "Constant" -> 2
    [] ~c.sticky /\ ~c.mandatory /\ c.class = "Constant" -> 3
    [] OTHER -> 4

activation_ordering(req, c) ==
  LET meta == req.index[c.source]
      best == IF c.evidence = {} THEN <<9, 9, 9>>
              ELSE CHOOSE k \in {FragmentKey(e) : e \in c.evidence} :
                     \A e \in c.evidence : ~LexLess(FragmentKey(e), k)
  IN  <<class_rank(c), -meta.rule.order, -c.score, best[1], best[2],
        -meta.salience>>

candidate_order(req, c, d) ==
  LexLess(Append(activation_ordering(req, c), c.source),
          Append(activation_ordering(req, d), d.source))

Candidate(source, class) ==
  [source |-> source, class |-> class, evidence |-> {}, score |-> 0,
   mandatory |-> FALSE, sticky |-> FALSE, recursion_only |-> FALSE,
   deliveries |-> {}]

MaxOf(a, b) == IF a > b THEN a ELSE b
Least(a, b) == IF a < b THEN a ELSE b

merge_candidate(cs, c) ==
  IF c.source \notin DOMAIN cs THEN Over(c.source :> c, cs)
  ELSE LET old == cs[c.source]
           new == [old EXCEPT
             !.class = IF class_rank(c) < class_rank(old) THEN c.class ELSE @,
             !.evidence = @ \cup c.evidence,
             !.score = MaxOf(@, c.score),
             !.mandatory = @ \/ c.mandatory,
             !.sticky = @ \/ c.sticky,
             !.recursion_only = @ /\ c.recursion_only,
             !.deliveries = @ \cup c.deliveries]
       IN  [cs EXCEPT ![c.source] = new]

secondary_logic(logic, found, patterns) ==
  \/ patterns = {}
  \/ logic = "AndAny" /\ found # {}
  \/ logic = "AndAll" /\ found = patterns
  \/ logic = "NotAny" /\ found = {}
  \/ logic = "NotAll" /\ found # patterns

(***************************************************************************)
(* The session.  `done` holds the continuation: what survives from the     *)
(* baseline pass of a turn to the resumed pass.                            *)
(***************************************************************************)
NoUsage(deliveries) ==
  [items |-> [d \in deliveries |-> 0], tokens |-> [d \in deliveries |-> 0],
   total |-> 0, Normal |-> 0, Reserved |-> 0, Mandatory |-> 0]

new_continuation(req) ==
  [turn |-> req.turn, trigger |-> req.trigger, snap |-> req.snap,
   activated |-> Empty, terminal |-> Empty, winners |-> Empty,
   level |-> 0, depth |-> req.lim.initial_scan_depth, expansions |-> 0,
   recursion_sources |-> {}, scanned |-> {}, matched |-> {},
   accumulated |-> [s \in DOMAIN req.index |-> {}],
   usage |-> NoUsage(req.deliveries), pattern_matches |-> 0,
   recursion_fragments |-> 0, evidence |-> 0]

Fail(s, code) == [s EXCEPT !.error = code]

\* reject: a terminal verdict; a later one replaces the reason.
reject(s, source, reason) ==
  [s EXCEPT !.done.terminal = Over(source :> reason, @)]

trim(s) == [s EXCEPT !.trimmed = TRUE]

\* Rows of another rule version, or of no entry, are dropped; a row whose
\* cooldown ends before its stickiness is an inconsistent store.
timed_view(req) ==
  LET known == {x \in DOMAIN req.timed :
                  /\ x \in DOMAIN req.index
                  /\ req.timed[x].version = req.index[x].version}
      broken == \E x \in known : /\ req.timed[x].sticky # 0
                                 /\ req.timed[x].cooldown # 0
                                 /\ req.timed[x].cooldown < req.timed[x].sticky
  IN  [valid |-> [x \in known |-> req.timed[x]],
       deletes |-> DOMAIN req.timed \ known, broken |-> broken]

\* Limits that contradict each other, or a request beyond them, are refused.
validate_request(req) ==
  LET lim == req.lim
  IN  /\ \A k \in {"max_scan_fragments", "max_literal_patterns", "max_pattern_matches",
                   "max_candidates_per_round", "max_recursion_steps",
                   "max_recursion_fragments", "max_activated_entries",
                   "max_depth_expansions", "max_external", "max_evidence_per_entry",
                   "max_evidence", "max_single_entry_bytes"} : lim[k] > 0
      /\ lim.initial_scan_depth <= lim.max_scan_depth
      /\ 0 < lim.max_items_per_audience /\ lim.max_items_per_audience <= lim.max_total_items
      /\ 0 < lim.max_tokens_per_audience
      /\ lim.max_tokens_per_audience <= lim.max_total_tokens
      /\ lim.reserved_tokens + lim.mandatory_tokens <= lim.max_total_tokens
      /\ Cardinality(req.seeds) <= lim.max_external
      /\ \A x \in DOMAIN req.index :
           \/ req.index[x].rule.scan_depth = NoDepth
           \/ req.index[x].rule.scan_depth <= lim.max_scan_depth
      /\ Cardinality(req.patterns.pack \cup req.patterns.overlay)
           <= lim.max_literal_patterns

Charge(class, cost, deliveries, u) ==
  [u EXCEPT !.items = [d \in DOMAIN @ |-> IF d \in deliveries THEN @[d] + 1 ELSE @[d]],
            !.tokens = [d \in DOMAIN @ |-> IF d \in deliveries THEN @[d] + cost ELSE @[d]],
            !.total = @ + Cardinality(deliveries),
            ![class] = @ + cost * Cardinality(deliveries)]

\* The budget a continuation was left with, or, when it has none, what its
\* activated entries cost.
budget_usage(req, done) ==
  LET bill(u, x) == Charge(req.index[x].rule.class, done.activated[x].cost,
                           done.activated[x].deliveries, u)
  IN  IF done.usage.total > 0 \/ done.activated = Empty THEN done.usage
      ELSE FoldLeft(bill, NoUsage(req.deliveries), SetToSeq(DOMAIN done.activated))

\* start: `cont` is empty or holds the continuation of the baseline pass.
start(req, cont) ==
  LET view == timed_view(req)
      done == IF cont = <<>> THEN new_continuation(req) ELSE cont[1]
      mismatch == \/ done.turn # req.turn
                  \/ done.trigger # req.trigger
                  \/ done.snap # req.snap
  IN  [done |-> [done EXCEPT !.usage = budget_usage(req, done)], valid |-> view.valid,
       upserts |-> Empty, deletes |-> view.deletes,
       stage |-> "Start", pending |-> Empty,
       recursion |-> <<>>, recursion_pending |-> {},
       trimmed |-> FALSE, exhausted |-> FALSE,
       error |-> CASE ~validate_request(req) -> "WorkLimitExceeded"
                   [] validate_request(req) /\ mismatch -> "ContinuationMismatch"
                   [] validate_request(req) /\ ~mismatch /\ view.broken
                        -> "TimedStateInconsistent"
                   [] OTHER -> None]

(***************************************************************************)
(* Collecting the candidates of a round.                                   *)
(***************************************************************************)
account_scan_fragments(req, s) ==
  LET seen == s.done.scanned \cup visible_base_fragments(req, s.done.depth)
      t == [s EXCEPT !.done.scanned = seen]
  IN  IF Cardinality(seen) > req.lim.max_scan_fragments
      THEN Fail(t, "WorkLimitExceeded") ELSE t

\* One match: a match over the limit of the turn ends its entry's chances.
IngestItem(req, s, item) ==
  IF s.error # None \/ item.source \in DOMAIN s.done.terminal THEN s
  ELSE IF s.done.pattern_matches + 1 > req.lim.max_pattern_matches
  THEN IF req.index[item.source].rule.class = "Mandatory"
       THEN Fail(s, "MandatoryBudgetExceeded")
       ELSE trim(reject(s, item.source, "WorkLimit"))
  ELSE [s EXCEPT !.done.pattern_matches = @ + 1,
                 !.done.accumulated[item.source] = @ \cup {item}]

ItemKey(item) == <<IF item.pattern = "primary" THEN 0 ELSE 1,
                   item.source, item.word>>

ingest_fragment_matches(req, s, f, items) ==
  IF f \in s.done.matched THEN s
  ELSE FoldLeft(LAMBDA t, item : IngestItem(req, t, item),
                [s EXCEPT !.done.matched = @ \cup {f}],
                Ordered(items, LAMBDA a, b : LexLess(ItemKey(a), ItemKey(b))))

IngestAll(req, s) ==
  LET base == FoldLeft(
        LAMBDA t, f : ingest_fragment_matches(req, t, f, req.matches[f]),
        s, InScanOrder(visible_base_fragments(req, s.done.depth)))
  IN  FoldLeft(
        LAMBDA t, f : ingest_fragment_matches(
                        req, t, f, match_fragment(req.index, req.patterns, f)),
        base, s.recursion)

\* The accumulated matches an entry may use at the current depth.
Evidence(req, s, x) ==
  LET depth == Least(req.index[x].rule.scan_depth, s.done.depth)
  IN  {m \in s.done.accumulated[x] :
         \/ m.kind = "RecursionContent"
         \/ m.depth <= depth /\ summary_visible(m.kind, depth, req.lim)}

TextCandidate(req, s, x) ==
  LET rule == req.index[x].rule
      found == Evidence(req, s, x)
      primary == {m \in found : m.pattern = "primary"}
      second == {m \in found : m.pattern = "secondary"}
      words(M) == {m.word : m \in M}
      only == \A m \in primary : m.kind = "RecursionContent"
  IN  IF /\ rule.enabled /\ ~rule.constant /\ ~rule.exact_target_only
         /\ x \notin DOMAIN s.done.terminal
         /\ primary # {}
         /\ secondary_logic(rule.logic, words(second), rule.secondary)
      THEN {[Candidate(x, IF only THEN "Recursion" ELSE "TextMatch") EXCEPT
              !.evidence = found,
              !.score = Cardinality(words(primary))
                        + Cardinality(words({m \in second : m.positive})),
              !.mandatory = rule.class = "Mandatory",
              !.recursion_only = only]}
      ELSE {}

\* Constants, sticky entries, external seeds, then the text matches.
collect_candidates(req, s) ==
  LET in(C, cs) == FoldLeft(merge_candidate, cs,
                            Ordered(C, LAMBDA c, d : c.source < d.source))
      constants == {[Candidate(x, "Constant") EXCEPT
                       !.mandatory = req.index[x].rule.class = "Mandatory"] :
                      x \in {y \in DOMAIN req.index : req.index[y].rule.constant}}
      sticky == {[Candidate(x, "Sticky") EXCEPT !.sticky = TRUE] :
                   x \in {y \in DOMAIN s.valid : s.valid[y].sticky >= req.turn}}
      seeded(d) == {[Candidate(e.source, e.kind) EXCEPT
                       !.mandatory = e.mandatory, !.deliveries = {d}] :
                      e \in {e \in req.seeds : e.delivery = d}}
      text == UNION {TextCandidate(req, s, x) : x \in DOMAIN req.index}
      early == in(sticky, in(constants, Empty))
      seeds == FoldLeft(LAMBDA cs, d : in(seeded(d), cs), early,
                        SetToSeq({e.delivery : e \in req.seeds}))
  IN  in(text, seeds)

(***************************************************************************)
(* Admission against the turn's delivery budget.                           *)
(***************************************************************************)
default_deliveries(kind) == IF kind \in {"Fact", "Rumor"} THEN {"Writer"} ELSE {}

\* A character hears rumors only; facts are for the writer.
validate_deliveries(kind, deliveries) ==
  \A d \in deliveries : d = "Writer" \/ kind = "Rumor"

EffectiveClass(class, forced) == IF forced THEN "Mandatory" ELSE class

Fits(lim, class, cost, deliveries, u) ==
  LET more == cost * Cardinality(deliveries)
      spent == u.Normal + u.Reserved + u.Mandatory
  IN  /\ u.total + Cardinality(deliveries) <= lim.max_total_items
      /\ \A d \in deliveries : /\ u.items[d] + 1 <= lim.max_items_per_audience
                               /\ u.tokens[d] + cost <= lim.max_tokens_per_audience
      /\ spent + more <= lim.max_total_tokens
      /\ class = "Normal" => u.Normal + more <=
           lim.max_total_tokens - lim.reserved_tokens - lim.mandatory_tokens
      /\ class = "Reserved" => u.Normal + u.Reserved + more <=
           lim.max_total_tokens - lim.mandatory_tokens

\* Mutant of merge_existing_deliveries: a further audience is not charged.
deliver_unbilled(req, s, c) ==
  [s EXCEPT !.done.activated[c.source].deliveries = @ \cup c.deliveries]

\* An activated entry gets a further audience.
merge_existing_deliveries(req, s, c) ==
  LET meta == req.index[c.source]
      old == s.done.activated[c.source]
      new == c.deliveries \ old.deliveries
      class == EffectiveClass(meta.rule.class, c.mandatory)
  IN  IF new = {} THEN s
      ELSE IF ~validate_deliveries(meta.kind, new)
      THEN Fail(s, "ExternalTargetUnauthorized")
      ELSE IF Fits(req.lim, class, old.cost, new, s.done.usage)
      THEN [s EXCEPT !.done.usage = Charge(class, old.cost, new, @),
                     !.done.activated[c.source].deliveries = @ \cup new]
      ELSE IF is_mandatory(meta, c.mandatory)
      THEN Fail(s, "MandatoryBudgetExceeded") ELSE trim(s)

(***************************************************************************)
(* Filtering, groups and selection.                                        *)
(***************************************************************************)
\* The terminal reason to refuse a candidate; RecursionLevelLocked is the one
\* refusal a later round may lift.
pre_filter(req, s, c) ==
  LET rule == req.index[c.source].rule
      cooling == /\ c.source \in DOMAIN s.valid
                 /\ s.valid[c.source].cooldown >= req.turn
      checks == <<
        <<~rule.enabled, "Disabled">>,
        <<rule.triggers # {} /\ req.trigger \notin rule.triggers, "ScopeMismatch">>,
        <<req.turn <= rule.delay_turns, "Delayed">>,
        <<~c.sticky /\ cooling, "Cooldown">>,
        <<~c.sticky /\ c.recursion_only /\ rule.exclude_recursion,
          "RecursionExcluded">>,
        <<~c.sticky /\ s.done.level < rule.delay_until_recursion,
          "RecursionLevelLocked">>>>
      failed == SelectSeq(checks, LAMBDA check : check[1])
  IN  IF failed = <<>> THEN None ELSE failed[1][2]

\* Sticky, then the score of scoring entries, override, order: the tie goes
\* to the group hash, which never picks an entry of weight 0 over a weighted
\* one and takes the first entry when no entry has weight.
group_winner(req, choices) ==
  LET bit(b) == IF b THEN 1 ELSE 0
      key(c) == LET rule == req.index[c.source].rule
                IN  <<bit(c.sticky), IF rule.use_group_scoring THEN c.score ELSE 0,
                      bit(rule.group_override), rule.order>>
      tied == {c \in choices : \A d \in choices : ~LexLess(key(c), key(d))}
      heavy == {c.source : c \in {c \in tied : req.index[c.source].rule.weight > 0}}
      first(X) == CHOOSE x \in X : \A y \in X : x <= y
  IN  IF heavy = {} THEN first({c.source : c \in tied})
      ELSE IF req.favour \in heavy THEN req.favour ELSE first(heavy)

GroupsOf(req, x) == req.index[x].rule.groups

\* Winners are named for every group of the candidates still in, and only the
\* candidates that win all their groups stay: repeated until nobody leaves.
\* Winners of earlier rounds stand.
ResolveRound(req, won, eligible) ==
  LET open == (UNION {GroupsOf(req, c.source) : c \in eligible}) \ DOMAIN won
      new == [g \in open |->
                group_winner(req, {c \in eligible : g \in GroupsOf(req, c.source)})]
      winners == Over(new, won)
  IN  [winners |-> winners,
       stay |-> {c \in eligible : \A g \in GroupsOf(req, c.source) :
                                    winners[g] = c.source}]

LastRound(req, won, eligible) ==
  LET rounds[n \in 0..Cardinality(eligible)] ==
        ResolveRound(req, won, IF n = 0 THEN eligible ELSE rounds[n - 1].stay)
  IN  rounds[Cardinality(eligible)]

Resolved(s, eligible, last) ==
  LET losers == {c.source : c \in eligible \ last.stay}
  IN  [stay |-> last.stay,
       s |-> [s EXCEPT !.done.winners = last.winners,
                       !.done.terminal =
                          Over([x \in losers |-> "GroupLoser"], @)]]

resolve_groups(req, s, eligible) ==
  Resolved(s, eligible, LastRound(req, s.done.winners, eligible))

\* More candidates than a round may carry: mandatory ones first, the rest of
\* them are refused for the turn.
TrimCandidates(req, s, cs) ==
  LET must(c) == is_mandatory(req.index[c.source], c.mandatory)
      all == Range(cs)
      order == Ordered(all, LAMBDA c, d :
                 \/ must(c) /\ ~must(d)
                 \/ must(c) = must(d) /\ candidate_order(req, c, d))
      kept == {order[i].source : i \in 1..req.lim.max_candidates_per_round}
  IN  IF Cardinality(all) <= req.lim.max_candidates_per_round
      THEN [s |-> s, cs |-> cs]
      ELSE IF Cardinality({c \in all : must(c)}) > req.lim.max_candidates_per_round
      THEN [s |-> Fail(s, "MandatoryBudgetExceeded"), cs |-> cs]
      ELSE [s |-> trim([s EXCEPT !.done.terminal =
                          Over([x \in DOMAIN cs \ kept |-> "WorkLimit"], @)]),
            cs |-> [x \in kept |-> cs[x]]]

\* Mutant of Examine: what the turn refused may be tried again.
examine_anew(req, acc, c) ==
  LET s == acc.s
      why == pre_filter(req, s, c)
  IN  IF s.error # None THEN acc
      ELSE IF c.source \in DOMAIN s.done.activated
      THEN [acc EXCEPT !.s = merge_existing_deliveries(req, @, c)]
      ELSE IF why # None THEN [acc EXCEPT !.s = reject(@, c.source, why)]
      ELSE [acc EXCEPT !.eligible = @ \cup {c}]

\* One candidate against what the turn already decided about it.
Examine(req, acc, c) ==
  LET s == acc.s
      why == pre_filter(req, s, c)
  IN  IF s.error # None THEN acc
      ELSE IF c.source \in DOMAIN s.done.activated
      THEN [acc EXCEPT !.s = merge_existing_deliveries(req, @, c)]
      ELSE IF c.source \in DOMAIN s.done.terminal \/ why = "RecursionLevelLocked"
      THEN acc
      ELSE IF why # None THEN [acc EXCEPT !.s = reject(@, c.source, why)]
      ELSE [acc EXCEPT !.eligible = @ \cup {c}]

probability_admits(req, x) ==
  LET p == req.index[x].rule.probability
  IN  p = 100 \/ (p > 0 /\ x \in req.dice)

Admit(req, s, c) ==
  IF s.error # None THEN s
  ELSE IF ~c.sticky /\ ~probability_admits(req, c.source)
  THEN reject(s, c.source, "Probability")
  ELSE IF Cardinality(DOMAIN s.done.activated) + Cardinality(DOMAIN s.pending)
            < req.lim.max_activated_entries
  THEN [s EXCEPT !.pending = Over(c.source :> c, @)]
  ELSE IF is_mandatory(req.index[c.source], c.mandatory)
  THEN Fail(s, "MandatoryBudgetExceeded")
  ELSE trim(reject(s, c.source, "Budget"))

ExamineAll(req, kept) ==
  FoldLeft(LAMBDA acc, x : Examine(req, acc, kept.cs[x]),
           [s |-> kept.s, eligible |-> {}], Ascending(DOMAIN kept.cs))

AdmitAll(req, won) ==
  FoldLeft(LAMBDA t, c : Admit(req, t, c), won.s,
           Ordered(won.stay, LAMBDA c, d : candidate_order(req, c, d)))

\* Groups and probability decide among the candidates the filters left.
AdmitSeen(req, seen) ==
  IF seen.s.error # None THEN seen.s
  ELSE AdmitAll(req, resolve_groups(req, seen.s, seen.eligible))

SelectAmong(req, told) ==
  IF told.error # None THEN told
  ELSE AdmitSeen(req, ExamineAll(req, TrimCandidates(req, told, collect_candidates(req, told))))

select_round(req, s) == SelectAmong(req, IngestAll(req, s))

(***************************************************************************)
(* Admission of the loaded bodies.                                         *)
(***************************************************************************)
\* The timed effect of an entry activated other than by stickiness.
update_timed_state(req, s, x) ==
  LET rule == req.index[x].rule
      through(n) == IF n = 0 THEN 0 ELSE req.turn + n
  IN  IF rule.sticky_turns = 0 /\ rule.cooldown_turns = 0 THEN s
      ELSE [s EXCEPT
        !.deletes = @ \ {x},
        !.upserts = Over(x :> [version |-> req.index[x].version,
                               sticky |-> through(rule.sticky_turns),
                               cooldown |-> IF rule.cooldown_turns = 0 THEN 0
                                            ELSE req.turn + rule.sticky_turns
                                                 + rule.cooldown_turns], @)]

\* Refusing a body: an error when the entry is mandatory.
RefuseBody(req, s, c, reason) ==
  IF is_mandatory(req.index[c.source], c.mandatory)
  THEN Fail(s, "MandatoryBudgetExceeded")
  ELSE trim(reject(s, c.source, reason))

admit_body(req, s, c) ==
  LET x == c.source
      meta == req.index[x]
      class == EffectiveClass(meta.rule.class, c.mandatory)
      cited == Least(Cardinality(c.evidence), req.lim.max_evidence_per_entry)
      deliveries == default_deliveries(meta.kind) \cup c.deliveries
      entry == [deliveries |-> deliveries, class |-> c.class, cost |-> meta.cost,
                evidence |-> c.evidence,
                order |-> activation_ordering(req, c), sticky |-> c.sticky]
      in == [s EXCEPT !.done.evidence = @ + cited,
                      !.done.usage = Charge(class, meta.cost, deliveries, @),
                      !.done.activated = Over(x :> entry, @),
                      !.recursion_pending = @ \cup {x}]
  IN  IF s.error # None THEN s
      ELSE IF meta.bytes > req.lim.max_single_entry_bytes
      THEN RefuseBody(req, s, c, "Budget")
      ELSE IF s.done.evidence + cited > req.lim.max_evidence
      THEN RefuseBody(req, s, c, "WorkLimit")
      ELSE IF ~validate_deliveries(meta.kind, deliveries)
      THEN Fail(s, "ExternalTargetUnauthorized")
      ELSE IF ~Fits(req.lim, class, meta.cost, deliveries, s.done.usage)
      THEN RefuseBody(req, s, c, "Budget")
      ELSE IF c.sticky THEN in ELSE update_timed_state(req, in, x)

\* The bodies that arrived, in source order.
supply_bodies(req, s) ==
  FoldLeft(LAMBDA t, x : admit_body(req, t, s.pending[x]),
           [s EXCEPT !.pending = Empty], Ascending(DOMAIN s.pending))

drop_admitted(s, x) ==
  trim(reject([s EXCEPT !.pending = [y \in DOMAIN @ \ {x} |-> @[y]]], x, "Budget"))

\* load_bodies when the store did not return the bodies of `missing`.
LoseBodies(req, s, missing) ==
  IF \E x \in missing : is_mandatory(req.index[x], s.pending[x].mandatory)
  THEN Fail(s, "MandatoryBudgetExceeded")
  ELSE FoldLeft(drop_admitted, s, Ascending(missing))

(***************************************************************************)
(* Recursion and rounds.                                                   *)
(***************************************************************************)
\* The text of an activated entry becomes a fragment, once per turn.
AddRecursion(req, s, x) ==
  LET f == ScanFragment("RecursionContent", s.done.level + 1,
                        Len(s.recursion), req.index[x].body)
      t == [s EXCEPT !.done.recursion_sources = @ \cup {x}]
  IN  IF s.error # None \/ x \in s.done.recursion_sources THEN s
      ELSE IF req.index[x].rule.prevent_recursion THEN t
      ELSE IF s.done.recursion_fragments + 1 > req.lim.max_recursion_fragments
      THEN Fail(t, "RecursionLimitReached")
      ELSE [t EXCEPT !.done.recursion_fragments = @ + 1,
                     !.recursion = Append(@, f)]

add_recursion_fragments(req, s) ==
  FoldLeft(LAMBDA t, x : AddRecursion(req, t, x),
           [s EXCEPT !.recursion_pending = {}], Ascending(s.recursion_pending))

\* expand_recursion and what next_round does with its outcome: a recursion
\* round, the depth loop, or (exhausted after a depth expansion) the end.
expand_recursion(req, s) ==
  LET t == add_recursion_fragments(req, s)
  IN  IF t.error # None THEN t
      ELSE IF Len(t.recursion) = Len(s.recursion)
      THEN [t EXCEPT !.stage = "DepthLoop"]
      ELSE IF t.done.level >= req.lim.max_recursion_steps
      THEN [t EXCEPT !.exhausted = TRUE,
                     !.stage = IF @ = "InitialRecursion" THEN "DepthLoop" ELSE "Done"]
      ELSE select_round(req, [t EXCEPT !.done.level = @ + 1])

\* Mutant of DeepenScan: the depth and the expansions are not counted.
deepen_uncounted(req, s) ==
  IF /\ req.lim.minimum_activations > Cardinality(DOMAIN s.done.activated)
     /\ s.done.depth < req.lim.max_scan_depth
     /\ s.done.expansions < req.lim.max_depth_expansions
  THEN select_round(req, [s EXCEPT !.stage = "DepthRecursion"])
  ELSE [s EXCEPT !.stage = "Done"]

\* Too few activations: look one fragment deeper.
DeepenScan(req, s) ==
  IF /\ req.lim.minimum_activations > Cardinality(DOMAIN s.done.activated)
     /\ s.done.depth < req.lim.max_scan_depth
     /\ s.done.expansions < req.lim.max_depth_expansions
  THEN LET t == account_scan_fragments(req, [s EXCEPT !.done.depth = @ + 1,
                                                      !.done.expansions = @ + 1])
       IN  IF t.error # None THEN t
           ELSE select_round(req, [t EXCEPT !.stage = "DepthRecursion"])
  ELSE [s EXCEPT !.stage = "Done"]

FirstRound(req, s) ==
  LET t == account_scan_fragments(req, s)
  IN  IF t.error # None THEN t
      ELSE select_round(req, [t EXCEPT !.stage = "InitialRecursion"])

\* One turn of next_round's loop.
next_round(req, s) ==
  CASE s.stage = "Start" -> FirstRound(req, s)
    [] s.stage \in {"InitialRecursion", "DepthRecursion"} -> expand_recursion(req, s)
    [] s.stage = "DepthLoop" -> DeepenScan(req, s)

\* Expired rows of entries that were not activated are deleted.
cleanup_timed_state(req, s) ==
  {x \in DOMAIN s.valid : /\ s.valid[x].sticky < req.turn
                          /\ s.valid[x].cooldown < req.turn
                          /\ x \notin DOMAIN s.done.activated}

finish(req, s) ==
  [cont |-> s.done, upserts |-> s.upserts,
   deletes |-> s.deletes \cup cleanup_timed_state(req, s)]

\* Mutant of merge: the resumed pass's delta replaces the baseline's.
merge_replaces(old, new) == [upserts |-> new.upserts, deletes |-> new.deletes]

\* PendingActivationStateDelta::merge: the newer deletes, then the newer
\* upserts, over the older delta.
merge(old, new) ==
  LET kept == [x \in DOMAIN old.upserts \ new.deletes |-> old.upserts[x]]
  IN  [upserts |-> Over(new.upserts, kept),
       deletes |-> (old.deletes \cup new.deletes) \ DOMAIN new.upserts]
=============================================================================
