--------------------------- MODULE CoreActivation ---------------------------
(***************************************************************************)
(* The knowledge activation of the aise-core crate (core/activation): which *)
(* facts and rumors of a story enter a turn.  The engine is sequential, so *)
(* each method of its Session is an operator from a session to the next.   *)
(*                                                                         *)
(* A request `req` is a record                                             *)
(*   book  the candidates' rules, a sequence in the order of their keys    *)
(*   scan  the scan buffer, a set of fragments: what is found first is     *)
(*         found in the least kind and depth                               *)
(*   cfg   the ActivationConfig                                            *)
(*   hash  what SHA-256 of story, turn and key comes to: hash.roll[k] says *)
(*         whether a probability below 100 admits k, hash.sample[g] is the *)
(*         digest group g draws with, once a turn, over those then tied    *)
(* A text is the set of words it contains; a key matches a text it is in.  *)
(***************************************************************************)
EXTENDS Integers, Sequences, FiniteSets, FiniteSetsExt

CONSTANT GroupKeys  \* the group keys are 1 .. GroupKeys, in their order
ASSUME GroupAssumption == GroupKeys \in Nat

\* The elements of q at the positions in I, and the sum and the product of q.
filtered(q, I) ==
    LET kept[i \in 0 .. Len(q)] ==
            IF i = 0 THEN <<>> ELSE IF i \in I THEN Append(kept[i - 1], q[i]) ELSE kept[i - 1]
    IN  kept[Len(q)]

sum_of(q) ==
    LET sum[i \in 0 .. Len(q)] == IF i = 0 THEN 0 ELSE sum[i - 1] + q[i]
    IN  sum[Len(q)]

product_of(q) ==
    LET prod[i \in 0 .. Len(q)] == IF i = 0 THEN 1 ELSE prod[i - 1] * q[i]
    IN  prod[Len(q)]

\* ScanFragmentKind in its derived order.
PlayerContribution == 0
PlayerRoleName == 1
NarrativeDirection == 2
RecentStory == 3
StoryOpening == 4
StorySummary == 5
RecursionContent == 6

\* ActivationClass in its derived order.
Constant == 0
TextMatch == 1
Recursion == 2

\* ActivationRule, with the bounds of its value types; a delay of 0 is None.
Rules ==
    [kind : {"fact", "rumor"}, keys : Seq(STRING), secondary_keys : Seq(STRING),
     logic : {"AndAny", "AndAll", "NotAny", "NotAll"}, scan_depth : Seq(Nat),
     enabled : BOOLEAN, constant : BOOLEAN, exclude_recursion : BOOLEAN, prevent_recursion : BOOLEAN,
     delay : Nat, order : Int, probability : 0 .. 100, groups : SUBSET (1 .. GroupKeys), group_override : BOOLEAN,
     group_weight : Nat, use_group_scoring : BOOLEAN, content : SUBSET STRING, size : Nat]

fragment(kind, depth, words) == [kind |-> kind, depth |-> depth, words |-> words]

\* The order of the scan buffer.
precedes(f, g) == f.kind < g.kind \/ (f.kind = g.kind /\ f.depth < g.depth)

\* ScanBuffer::new: empty texts are left out.
scan_buffer(frags) == {f \in frags : f.words # {} /\ f.kind # RecursionContent}

-----------------------------------------------------------------------------
\* One entry against the fragments.

\* The depth up to which a rule reads the story; 0 .. max_scan_depth.
scan_depth(req, k) ==
    LET own == req.book[k].scan_depth
    IN  Min({IF own = <<>> THEN req.cfg.scan_depth ELSE own[1], req.cfg.max_scan_depth})

patterns(rule) == ({"primary"} \X DOMAIN rule.keys) \cup ({"secondary"} \X DOMAIN rule.secondary_keys)
needle(rule, p) == IF p[1] = "primary" THEN rule.keys[p[2]] ELSE rule.secondary_keys[p[2]]

\* The patterns of a rule that occur in a fragment.
count(rule, frag) == {p \in patterns(rule) : needle(rule, p) \in frag.words}

\* A pattern that was not found before keeps the first fragment it is found in.
record_matches(evidence, rule, frags) ==
    LET first == {m \in patterns(rule) \X frags :
                    /\ m[1] \in count(rule, m[2])
                    /\ \A e \in evidence : e.pattern # m[1]
                    /\ \A g \in frags : m[1] \in count(rule, g) => ~precedes(g, m[2])}
    IN  evidence \cup {[pattern |-> m[1], kind |-> m[2].kind, depth |-> m[2].depth] : m \in first}

matched(evidence, kind) == Cardinality({e \in evidence : e.pattern[1] = kind})

recursion_only(evidence) ==
    \A e \in evidence : e.pattern[1] = "primary" => e.kind = RecursionContent

\* Option<(kind, depth)>::min as a number: nothing comes before everything.
best_evidence(evidence) ==
    IF evidence = {} THEN 0 ELSE Min({1 + 1000 * e.kind + e.depth : e \in evidence})

\* SecondaryLogic::holds.
holds(logic, m, total) ==
    \/ total = 0
    \/ logic = "AndAny" /\ m > 0
    \/ logic = "AndAll" /\ m = total
    \/ logic = "NotAny" /\ m = 0
    \/ logic = "NotAll" /\ m < total

-----------------------------------------------------------------------------
\* The session.

new_session(req) ==
    [level |-> 0, evidence |-> [k \in DOMAIN req.book |-> {}], activated |-> <<>>,
     terminal |-> {}, winners |-> {}, bytes |-> 0, trimmed |-> FALSE, exhausted |-> FALSE]

\* Keys that were activated or rejected for good.
Settled(s) == {a.key : a \in Range(s.activated)} \cup s.terminal

ingest(req, s, frags, base) ==
    [s EXCEPT !.evidence = [k \in DOMAIN req.book |->
        IF k \in Settled(s) THEN s.evidence[k]
        ELSE record_matches(s.evidence[k], req.book[k], {f \in frags : base => f.depth <= scan_depth(req, k)})]]

\* The candidates of a round, and the entries recursion text alone matched
\* although their rule excludes it.  An entry that is locked until a later
\* level, or whose secondary condition does not hold yet, may come back.
collect(req, s) ==
    LET rule(k) == req.book[k]
        primary(k) == matched(s.evidence[k], "primary")
        secondary(k) == matched(s.evidence[k], "secondary")
        open == {k \in DOMAIN req.book : k \notin Settled(s) /\ rule(k).enabled}
        constants == {k \in open : rule(k).constant /\ s.level = 0}
        hit == {k \in open : ~rule(k).constant /\ primary(k) > 0 /\ s.level >= rule(k).delay}
        excluded == {k \in hit : recursion_only(s.evidence[k]) /\ rule(k).exclude_recursion}
        eligible == {k \in hit \ excluded :
                        holds(rule(k).logic, secondary(k), Len(rule(k).secondary_keys))}
        score(k) == primary(k) + (IF rule(k).logic \in {"AndAny", "AndAll"} THEN secondary(k) ELSE 0)
        class(k) == IF recursion_only(s.evidence[k]) THEN Recursion ELSE TextMatch
    IN  [excluded |-> excluded,
         candidates |-> {[key |-> k, class |-> Constant, score |-> 0] : k \in constants}
                        \cup {[key |-> k, class |-> class(k), score |-> score(k)] : k \in eligible}]

\* group_winner: the best rank wins; a tie is drawn by weight.
group_winner(req, g, members) ==
    LET rule(c) == req.book[c.key]
        rank(c) == <<IF rule(c).group_override THEN 1 ELSE 0,
                     IF rule(c).use_group_scoring THEN c.score ELSE 0, rule(c).order>>
        below(a, b) == \E i \in 1 .. 3 : a[i] < b[i] /\ \A j \in 1 .. (i - 1) : a[j] = b[j]
        tied == {c.key : c \in {d \in members : \A m \in members : ~below(rank(d), rank(m))}}
        weight(ks) == FoldSet(LAMBDA k, n : n + req.book[k].group_weight, 0, ks)
        sample == req.hash.sample[g] % weight(tied)
    IN  IF weight(tied) = 0 THEN Min(tied)
        ELSE CHOOSE k \in tied : /\ weight({j \in tied : j < k}) <= sample
                                 /\ sample < weight({j \in tied : j <= k})

\* A winner that only holds its group until the next one is drawn.
keep_last_winner(won, group, key) == {<<group, key>>}

\* A winner holds its group for the rest of the turn.
keep_winner(won, group, key) == won \cup {<<group, key>>}

\* One group of resolve_groups; a group that has its winner admits no more.
resolve_group(req, r, g) ==
    LET members == {c \in r.eligible : g \in req.book[c.key].groups}
        held == \E w \in r.winners : w[1] = g
        losers == IF held THEN members ELSE {c \in members : c.key # group_winner(req, g, members)}
    IN  IF members = {} THEN r
        ELSE [eligible |-> r.eligible \ losers,
              lost |-> r.lost \cup {c.key : c \in losers},
              winners |-> IF held THEN r.winners ELSE keep_winner(r.winners, g, group_winner(req, g, members))]

\* resolve_groups, in the order of the group keys.
resolve_groups(req, s, candidates) ==
    LET step[g \in 0 .. GroupKeys] ==
            IF g = 0 THEN [eligible |-> candidates, lost |-> {}, winners |-> s.winners]
            ELSE resolve_group(req, step[g - 1], g)
    IN  step[GroupKeys]

probability_admits(req, k) ==
    \/ req.book[k].probability = 100
    \/ req.book[k].probability > 0 /\ req.hash.roll[k]

\* The order candidates are admitted in.
before(req, s, a, b) ==
    LET key(c) == <<c.class, -req.book[c.key].order, -c.score, best_evidence(s.evidence[c.key]), c.key>>
    IN  \E i \in 1 .. 5 : key(a)[i] < key(b)[i] /\ \A j \in 1 .. (i - 1) : key(a)[j] = key(b)[j]

\* Whether one more entry fits.
fits(req, s, k) ==
    /\ Len(s.activated) < req.cfg.max_activated_entries
    /\ s.bytes + req.book[k].size <= req.cfg.max_knowledge_bytes

\* The session with candidate c activated.
activate_entry(req, s, c) ==
    [s EXCEPT !.bytes = @ + req.book[c.key].size,
              !.activated = Append(@, [key |-> c.key, class |-> c.class, level |-> s.level])]

\* One candidate of admit: c is settled, and activated when nothing speaks
\* against it.
admit_one(req, r, c) ==
    LET k == c.key
        refused == [r.s EXCEPT !.terminal = @ \cup {k}]
        rest == r.rest \ {c}
    IN  IF ~probability_admits(req, k) THEN [s |-> refused, frags |-> r.frags, rest |-> rest]
        ELSE IF ~fits(req, r.s, k)
        THEN [s |-> [refused EXCEPT !.trimmed = TRUE], frags |-> r.frags, rest |-> rest]
        ELSE [s |-> activate_entry(req, r.s, c),
              frags |-> IF req.book[k].prevent_recursion THEN r.frags
                        ELSE r.frags \cup {fragment(RecursionContent, r.s.level + 1, req.book[k].content)},
              rest |-> rest]

\* The candidate that comes first.
next_candidate(req, s, rest) == CHOOSE c \in rest : \A d \in rest : ~before(req, s, d, c)

\* admit: the session and the texts the recursion reads next, after the
\* candidates were taken in their order.
admit(req, s, candidates) ==
    LET step[n \in 0 .. Cardinality(candidates)] ==
            IF n = 0 THEN [s |-> s, frags |-> {}, rest |-> candidates]
            ELSE LET r == step[n - 1] IN admit_one(req, r, next_candidate(req, s, r.rest))
    IN  step[Cardinality(candidates)]

\* The candidates that kept their groups are admitted, the others settled.
admit_winners(req, s, excluded, resolved) ==
    admit(req, [s EXCEPT !.terminal = @ \cup excluded \cup resolved.lost, !.winners = resolved.winners],
          resolved.eligible)

\* The end of a round: the texts of what was admitted are read on the next level.
next_level(req, s, admitted) ==
    IF admitted.frags = {} THEN [s |-> admitted.s, more |-> FALSE]
    ELSE IF s.level >= req.cfg.max_recursion_steps
    THEN [s |-> [admitted.s EXCEPT !.exhausted = TRUE], more |-> FALSE]
    ELSE [s |-> ingest(req, [admitted.s EXCEPT !.level = @ + 1], admitted.frags, FALSE), more |-> TRUE]

\* One round of the loop of Session::run, and whether another one follows.
round(req, s) ==
    LET found == collect(req, s)
    IN  IF found.candidates = {} THEN [s |-> [s EXCEPT !.terminal = @ \cup found.excluded], more |-> FALSE]
        ELSE next_level(req, s, admit_winners(req, s, found.excluded, resolve_groups(req, s, found.candidates)))

\* Session::run: a round per level, max_recursion_steps is the last level.
run(req, s) ==
    LET loop[n \in 0 .. req.cfg.max_recursion_steps + 1] ==
            IF n = 0 THEN [s |-> s, more |-> TRUE]
            ELSE LET r == loop[n - 1] IN IF r.more THEN round(req, r.s) ELSE r
    IN  loop[req.cfg.max_recursion_steps + 1].s

finish(s) ==
    [activated |-> s.activated,
     stop_reason |-> IF s.exhausted THEN "RecursionExhausted"
                     ELSE IF s.trimmed THEN "BudgetTrimmed" ELSE "Complete"]

activate(req) == finish(run(req, ingest(req, new_session(req), req.scan, TRUE)))
=============================================================================
