---------------------------- MODULE WebTurnProofs ----------------------------
(***************************************************************************)
(* The safety of WebTurn for every story, policy, answer of the model and  *)
(* set of clients: what an activation admits (KnowledgeAdmitted), what the *)
(* later stages find (StagesAgree), the draft that is chosen (ChosenDraft) *)
(* and what a client is told (WebClientTold).                              *)
(*                                                                         *)
(* CoreActivationProofs has the activation.  TurnInv says what each stage  *)
(* of a turn may rely on, ClientInv what each client heard and will hear,  *)
(* and WebInv is both: the inductive invariant.                            *)
(***************************************************************************)
EXTENDS WebTurn, CoreActivationProofs

-----------------------------------------------------------------------------
(* The turn. *)

TurnFields == {"stage", "at", "story", "activation", "knowledge", "plan", "retrieved", "calls", "decisions",
               "recent_turns", "draft", "history", "repair_rounds", "chosen", "result"}
Gathering == {"baseline", "plan", "retrieval", "think", "generate"}
Drafting == {"validate", "repair"}
Closing == {"extract", "summary", "commit"}

(* A turn has its result when it is done, and no stage met data that the    *)
(* plan's validation would not have let through.                            *)
ResultInv ==
    /\ t.stage \in {"idle", "done"} \cup Gathering \cup Drafting \cup Closing
    /\ t.result # <<>> <=> t.stage = "done"
    /\ t.result # <<"err", "inconsistent">>
    /\ t.stage \in {"idle", "done"} => t.calls = <<>>

(* The activated entries of a kind, each once. *)
KeysOK(st, keys, kind) ==
    keys \in Seq(DOMAIN st.book) /\ IsInjective(keys) /\ \A i \in DOMAIN keys : st.book[keys[i]].kind = kind

KnowledgeInv ==
    /\ t.stage \in Gathering => t.story \in DOMAIN Stories
    /\ t.stage \in Gathering \ {"baseline"} =>
          KeysOK(story, t.knowledge.facts, "fact") /\ KeysOK(story, t.knowledge.rumors, "rumor")

(* What the plan asks for was not activated. *)
AskedOK(st, ids, known) ==
    /\ ids \in Seq(Int) /\ IsInjective(ids)
    /\ \A i \in DOMAIN ids : ids[i] \in DOMAIN st.book /\ ids[i] \notin Range(known)

RolesOK(st, roles) == roles \in Seq(STRING) /\ IsInjective(roles) /\ Range(roles) \subseteq st.roles \ {player}

PlanInv ==
    t.stage \in {"retrieval", "think", "generate"} =>
        /\ AskedOK(story, t.plan.facts, t.knowledge.facts) /\ AskedOK(story, t.plan.rumors, t.knowledge.rumors)
        /\ t.plan.thinks \in Seq([role : STRING, focus : STRING])
        /\ RolesOK(story, t.plan.roles) /\ RolesOK(story, ThinkRoles)

RetrievedInv ==
    /\ t.stage \in {"baseline", "plan", "retrieval"} => t.retrieved = [facts |-> <<>>, rumors |-> <<>>]
    /\ t.stage \in {"think", "generate"} =>
          t.retrieved.facts \in {<<>>, t.plan.facts} /\ t.retrieved.rumors \in {<<>>, t.plan.rumors}

(* A call for each role that was asked, once the calls are there. *)
DecisionsInv ==
    /\ t.stage \in {"baseline", "plan", "retrieval"} => t.decisions = <<>>
    /\ t.stage = "think" => t.calls = <<>> \/ (Len(t.calls) = Len(t.plan.thinks) /\ DOMAIN t.calls = DOMAIN t.plan.thinks)
    /\ t.stage = "generate" => t.decisions = ThinkRoles

ActivationInv == (t.activation # <<>> => t.stage = "plan") /\ KnowledgeAdmitted

ReportOK(r) ==
    /\ r.version \in Nat
    /\ DOMAIN r.scores = DOMAIN policy.scores /\ \A i \in DOMAIN r.scores : r.scores[i] \in Int

(* The report was good enough to go on with. *)
Passed(r) == all_checks_pass(r) /\ unmet_scores(r) = {}

HistoryOK(h) ==
    /\ h \in Seq(Range(h))
    /\ \A i \in DOMAIN h : h[i].draft = i /\ h[i].report.version = i /\ ReportOK(h[i].report)

(* ChosenDraft, of what was chosen from a history after some repairs. *)
Chosen(chosen, history, rounds) ==
    chosen # <<>> =>
        LET c == chosen[1]
            passing == {h.report : h \in {g \in Range(history) : all_checks_pass(g.report)}}
            unmet(r) == Cardinality(unmet_scores(r))
        IN  /\ c.report \in passing /\ c.draft = c.report.version
            /\ Len(history) = rounds + 1
            /\ c.status = "Pass" <=> unmet(c.report) = 0
            /\ IF c.status = "Pass" THEN c.draft = Len(history)
               ELSE /\ rounds = config.max_repair_rounds
                    /\ \A r \in passing :
                          /\ target_gap(c.report) <= target_gap(r)
                          /\ target_gap(c.report) = target_gap(r) =>
                                \/ unmet(c.report) < unmet(r)
                                \/ unmet(c.report) = unmet(r) /\ r.version <= c.report.version

(* One report per draft, and none of an earlier draft was good enough. *)
HistoryInv ==
    /\ t.stage \notin Drafting \cup Closing => t.chosen = <<>>
    /\ t.stage \in Drafting =>
          /\ HistoryOK(t.history) /\ Len(t.history) = t.repair_rounds
          /\ t.repair_rounds \in 0 .. config.max_repair_rounds
          /\ t.draft = Len(t.history) + (IF t.stage = "validate" THEN 1 ELSE 0)
          /\ \A i \in DOMAIN t.history : ~Passed(t.history[i].report)
          /\ t.chosen = <<>>
    /\ Chosen(t.chosen, t.history, t.repair_rounds)

TurnInv ==
    /\ DOMAIN t = TurnFields
    /\ ResultInv /\ KnowledgeInv /\ PlanInv /\ RetrievedInv /\ DecisionsInv /\ ActivationInv /\ HistoryInv

-----------------------------------------------------------------------------
(* Baseline. *)

(* A checked rule has the types that the activation relies on.              *)
LEMMA RuleFields ==
    ASSUME NEW r \in Rules
    PROVE  RuleOK(r)
<1>1. r.order \in Int /\ r.size \in Nat /\ r.delay \in Nat /\ r.groups \in SUBSET (1 .. GroupKeys)
      /\ r.keys \in Seq(STRING) /\ r.secondary_keys \in Seq(STRING)
  BY Zenon DEF Rules
<1> QED BY <1>1 DEF RuleOK

(* The scan buffer of a story. *)
LEMMA ScanOK ==
    ASSUME NEW st, Len(st.recent) \in Nat, Len(st.directions) \in Nat, DOMAIN st.directions = 1 .. Len(st.directions), NEW words
    PROVE  /\ IsFiniteSet(build_scan_buffer(st, words))
           /\ \A f \in build_scan_buffer(st, words) : f.kind \in Int /\ f.depth \in Int /\ f.kind # RecursionContent
<1> DEFINE n == Len(st.recent)
           R == [i \in 1 .. n |-> fragment(RecentStory, i, st.recent[n + 1 - i])]
           D == [i \in DOMAIN st.directions |-> fragment(NarrativeDirection, 0, st.directions[i])]
           recent == {R[i] : i \in 1 .. n}
           directions == {D[i] : i \in DOMAIN st.directions}
           prior == IF st.summary = {} THEN fragment(StoryOpening, n + 1, st.opening)
                    ELSE fragment(StorySummary, n + 1, st.summary)
           own == {fragment(PlayerContribution, 0, words), fragment(PlayerRoleName, 0, st.name), prior}
           U == own \cup directions \cup recent
<1>1. build_scan_buffer(st, words) = scan_buffer(U)
  BY Zenon DEF build_scan_buffer
<1>2. IsFiniteSet(recent) /\ IsFiniteSet(directions)
  <2>1. IsFiniteSet(1 .. n) /\ IsFiniteSet(DOMAIN st.directions)
    <3>1. 1 \in Int /\ n \in Int /\ Len(st.directions) \in Int
      OBVIOUS
    <3>2. IsFiniteSet(1 .. n)
      BY <3>1, FS_Interval, Zenon
    <3>3. IsFiniteSet(1 .. Len(st.directions))
      BY <3>1, FS_Interval, Zenon
    <3> QED BY <3>2, <3>3, Zenon
  <2>2. DOMAIN R = 1 .. n /\ DOMAIN D = DOMAIN st.directions
    BY Zenon
  <2> HIDE DEF R, D
  <2> QED BY <2>1, <2>2, FiniteImage, Zenon
<1>3. IsFiniteSet(own)
  <2> DEFINE a == fragment(PlayerContribution, 0, words)
             b == fragment(PlayerRoleName, 0, st.name)
  <2> HIDE DEF a, b, prior
  <2>1. IsFiniteSet({a})
    BY FS_Singleton, Zenon
  <2>2. IsFiniteSet({a} \cup {b})
    BY <2>1, FS_AddElement, Zenon
  <2>3. IsFiniteSet(({a} \cup {b}) \cup {prior})
    BY <2>2, FS_AddElement, Zenon
  <2>4. {a, b, prior} = ({a} \cup {b}) \cup {prior}
    BY Zenon
  <2> QED BY <2>3, <2>4, Zenon DEF a, b
<1>4. \A f \in U : f.kind \in Int /\ f.depth \in Int
  <2>1. \A f \in own : f.kind \in Int /\ f.depth \in Int
    BY DEF fragment, PlayerContribution, PlayerRoleName, StoryOpening, StorySummary
  <2>2. \A f \in directions : f.kind \in Int /\ f.depth \in Int
    <3>1. \A i \in DOMAIN st.directions : D[i].kind \in Int /\ D[i].depth \in Int
      BY DEF fragment, NarrativeDirection
    <3> HIDE DEF D
    <3> QED BY <3>1, Zenon
  <2>3. \A f \in recent : f.kind \in Int /\ f.depth \in Int
    <3>1. \A i \in 1 .. n : R[i].kind \in Int /\ R[i].depth \in Int
      BY DEF fragment, RecentStory
    <3> HIDE DEF R
    <3> QED BY <3>1, Zenon
  <2> QED BY <2>1, <2>2, <2>3, Zenon
<1> HIDE DEF own, directions, recent
<1>5. IsFiniteSet(U)
  BY <1>2, <1>3, FS_Union, Zenon
<1> HIDE DEF U
<1>6. scan_buffer(U) \in SUBSET U /\ \A f \in scan_buffer(U) : f.kind # RecursionContent
  BY Zenon DEF scan_buffer
<1> QED BY <1>1, <1>4, <1>5, <1>6, FS_Subset, Zenon

(* What the assumptions say of a story that a turn may load.                *)
LEMMA StoryOK ==
    ASSUME NEW n \in DOMAIN Stories
    PROVE  /\ Len(Stories[n].book) \in Nat /\ DOMAIN Stories[n].book = 1 .. Len(Stories[n].book)
           /\ \A k \in DOMAIN Stories[n].book : RuleOK(Stories[n].book[k])
           /\ Len(Stories[n].recent) \in Nat
           /\ Len(Stories[n].directions) \in Nat /\ DOMAIN Stories[n].directions = 1 .. Len(Stories[n].directions)
           /\ player \in Stories[n].roles
           /\ config.activation.max_recursion_steps \in Nat
           /\ config.activation.max_activated_entries \in Nat
           /\ config.activation.max_knowledge_bytes \in Nat
<1>1. Stories[n] \in Range(Stories)
  BY Zenon DEF Range
<1>2. /\ Stories[n].book \in Seq(Rules) /\ Stories[n].recent \in Seq(SUBSET STRING)
      /\ Stories[n].directions \in Seq(SUBSET STRING)
  BY <1>1, RulesAssumption, Zenon DEF RulesValid
<1>3. \A k \in DOMAIN Stories[n].book : Stories[n].book[k] \in Rules
  BY <1>2
<1>4. config.activation.max_recursion_steps \in Nat /\ config.activation.max_activated_entries \in Nat
      /\ config.activation.max_knowledge_bytes \in Nat
  BY RulesAssumption, Zenon DEF RulesValid
<1>5. player \in Stories[n].roles
  BY <1>1, CastAssumption, Zenon DEF CastValid
<1>6. \A k \in DOMAIN Stories[n].book : RuleOK(Stories[n].book[k])
  BY <1>3, RuleFields, Zenon
<1> QED BY <1>2, <1>4, <1>5, <1>6

(* An activation of any story admits what Admitted lets in, each entry once. *)
LEMMA StoryActivation ==
    ASSUME NEW n \in DOMAIN Stories, NEW words, NEW hash
    PROVE  LET scan == build_scan_buffer(Stories[n], words)
               taken == activate([book |-> Stories[n].book, scan |-> scan, cfg |-> config.activation, hash |-> hash]).activated
           IN  /\ Admitted(Stories[n], scan, taken)
               /\ Len(taken) \in Nat /\ DOMAIN taken = 1 .. Len(taken)
               /\ \A i \in DOMAIN taken : taken[i].key \in DOMAIN Stories[n].book
               /\ Distinct(taken)
<1> DEFINE st == Stories[n]
           scan == build_scan_buffer(st, words)
           req == [book |-> st.book, scan |-> scan, cfg |-> config.activation, hash |-> hash]
           taken == activate(req).activated
           key(i) == taken[i].key
           rule(i) == st.book[taken[i].key]
           bare == [book |-> st.book, cfg |-> config.activation]
           near(i) == UNION {f.words : f \in {g \in scan : g.depth <= scan_depth(bare, taken[i].key)}}
           told(i) == UNION {rule(j).content : j \in {k \in DOMAIN taken :
                                 taken[k].level < taken[i].level /\ ~rule(k).prevent_recursion}}
<1>0. req.book = st.book /\ req.scan = scan /\ req.cfg = config.activation
  BY Zenon
<1>1. IsFiniteSet(scan) /\ \A f \in scan : f.kind \in Int /\ f.depth \in Int /\ f.kind # RecursionContent
  BY StoryOK, ScanOK, Zenon
<1>2. \A k : scan_depth(req, k) = scan_depth(bare, k)
  BY Zenon DEF scan_depth
<1> HIDE DEF scan, req, bare
<1>3. ReqOK(req)
  BY <1>0, <1>1, StoryOK, Zenon DEF ReqOK
<1>4. PICK s : SessionOK(req, s) /\ taken = s.activated
  BY <1>3, ActivationOK, Zenon
<1> HIDE DEF taken
<1>5. /\ OneWinner(s.winners) /\ taken \in Seq(Activated(req)) /\ Distinct(taken)
      /\ Len(taken) <= req.cfg.max_activated_entries
      /\ sum_of(Sizes(req, taken)) <= req.cfg.max_knowledge_bytes
  BY <1>4, Zenon DEF SessionOK, EntriesOK, BudgetOK
<1>6. \A i \in DOMAIN taken : taken[i] \in Activated(req)
  BY <1>5
<1>7. Len(taken) \in Nat /\ DOMAIN taken = 1 .. Len(taken) /\ \A i \in DOMAIN taken : taken[i].key \in DOMAIN st.book
  BY <1>0, <1>5, <1>6 DEF Activated
<1>8. ASSUME NEW i \in DOMAIN taken
      PROVE  Winning(req, s.winners, key(i)) /\ Due(req, key(i), taken[i].level)
             /\ Reason(req, taken, key(i), taken[i].level)
  BY <1>4, Zenon DEF SessionOK, EntriesOK
<1>9. ASSUME NEW i \in DOMAIN taken, NEW j \in DOMAIN taken, i # j PROVE rule(i).groups \cap rule(j).groups = {}
  <2> SUFFICES ASSUME NEW g \in rule(i).groups, g \in rule(j).groups PROVE FALSE
    BY Zenon
  <2>1. <<g, key(i)>> \in s.winners /\ <<g, key(j)>> \in s.winners
    BY <1>0, <1>8, Zenon DEF Winning
  <2>2. key(i) = key(j)
    BY <1>5, <2>1, Zenon DEF OneWinner
  <2> QED BY <1>5, <1>9, <2>2, Zenon DEF Distinct
<1>10. sum_of([i \in DOMAIN taken |-> rule(i).size]) <= config.activation.max_knowledge_bytes
  BY <1>0, <1>5, Zenon DEF Sizes
<1>11. ASSUME NEW i \in DOMAIN taken
       PROVE  /\ rule(i).enabled /\ (taken[i].level >= rule(i).delay \/ rule(i).constant)
              /\ \/ rule(i).constant
                 \/ Range(rule(i).keys) \cap near(i) # {}
                 \/ ~rule(i).exclude_recursion /\ Range(rule(i).keys) \cap told(i) # {}
  <2>1. rule(i).enabled /\ (taken[i].level >= rule(i).delay \/ rule(i).constant)
    BY <1>0, <1>8, Zenon DEF Due
  <2>2. ASSUME NEW w, Read(req, key(i), w) PROVE w \in near(i)
    BY <1>0, <1>2, <2>2, Zenon DEF Read
  <2>3. ASSUME NEW w, Recited(req, taken, taken[i].level, w) PROVE w \in told(i)
    BY <1>0, <2>3, Zenon DEF Recited
  <2>4. Reason(req, taken, key(i), taken[i].level)
    BY <1>8, Zenon
  <2> HIDE DEF near, told
  <2>5. \/ rule(i).constant
        \/ Range(rule(i).keys) \cap near(i) # {}
        \/ ~rule(i).exclude_recursion /\ Range(rule(i).keys) \cap told(i) # {}
    BY <1>0, <2>2, <2>3, <2>4, Zenon DEF Reason
  <2> QED BY <2>1, <2>5, Zenon
<1>12. Admitted(st, scan, taken)
  <2>1. Len(taken) <= config.activation.max_activated_entries
    BY <1>0, <1>5, Zenon
  <2> QED BY <1>9, <1>10, <1>11, <2>1, Zenon DEF Admitted, bare
<1> QED BY <1>5, <1>7, <1>12, Zenon DEF taken, req, scan

(* The keys that collect_knowledge keeps of a kind. *)
Kept(st, taken, kind) ==
    LET keys == [i \in DOMAIN taken |-> taken[i].key]
    IN  filtered(keys, {i \in DOMAIN keys : st.book[keys[i]].kind = kind})

(* collect_knowledge hands every activated key on once, by its kind.        *)
LEMMA CollectedKeys ==
    ASSUME NEW st, NEW taken, Len(taken) \in Nat, DOMAIN taken = 1 .. Len(taken), Distinct(taken),
           \A i \in DOMAIN taken : taken[i].key \in DOMAIN st.book, NEW kind
    PROVE  KeysOK(st, Kept(st, taken, kind), kind)
<1> DEFINE keys == [i \in DOMAIN taken |-> taken[i].key]
           I == {i \in DOMAIN keys : st.book[keys[i]].kind = kind}
           r == filtered(keys, I)
<1>1. keys \in Seq(DOMAIN st.book) /\ I \in SUBSET DOMAIN keys /\ DOMAIN keys = DOMAIN taken
  OBVIOUS
<1>2. \A i, j \in I : keys[i] = keys[j] => i = j
  BY Zenon DEF Distinct
<1>3. \A i \in I : st.book[keys[i]].kind = kind
  BY Zenon
<1> HIDE DEF keys, I
<1>4. r \in Seq(DOMAIN st.book) /\ IsInjective(r) /\ \A a \in DOMAIN r : \E i \in I : r[a] = keys[i]
  BY <1>1, <1>2, FilteredOf, SMTT(30)
<1> HIDE DEF r
<1>5. KeysOK(st, r, kind)
  BY <1>3, <1>4, Zenon DEF KeysOK
<1> QED BY <1>5, Zenon DEF r, I, keys, Kept

-----------------------------------------------------------------------------
(* Roles and decisions. *)

(* effective_role_ids repeats nobody and leaves nobody out.                 *)
LEMMA OnceEach ==
    ASSUME NEW T, NEW q \in Seq(T)
    PROVE  /\ once_each(q) \in Seq(T)
           /\ IsInjective(once_each(q))
           /\ Range(once_each(q)) = Range(q)
<1> DEFINE I == {i \in DOMAIN q : \A j \in 1 .. i - 1 : q[j] # q[i]}
           r == once_each(q)
<1>0. r = filtered(q, I) /\ I \in SUBSET DOMAIN q
  BY Zenon DEF once_each
<1>1. ASSUME NEW i \in I, NEW j \in I, q[i] = q[j] PROVE i = j
  <2>1. i \in Nat /\ j \in Nat /\ i >= 1 /\ j >= 1
    OBVIOUS
  <2>2. CASE i < j
    <3>1. i \in 1 .. j - 1
      BY <2>1, <2>2
    <3> QED BY <1>1, <3>1, Zenon
  <2>3. CASE j < i
    <3>1. j \in 1 .. i - 1
      BY <2>1, <2>3
    <3> QED BY <1>1, <3>1, Zenon
  <2> QED BY <2>1, <2>2, <2>3
<1>2. ASSUME NEW i \in DOMAIN q PROVE \E j \in I : q[j] = q[i]
  <2> DEFINE J == {j \in DOMAIN q : q[j] = q[i]}
  <2>1. J \subseteq Nat /\ J # {}
    OBVIOUS
  <2>2. PICK j \in J : \A l \in J : j <= l
    <3> HIDE DEF J
    <3> QED BY <2>1, LeastNat, Zenon
  <2>3. ASSUME NEW l \in 1 .. j - 1 PROVE q[l] # q[j]
    <3>1. l \in DOMAIN q /\ ~(j <= l)
      OBVIOUS
    <3> QED BY <2>2, <3>1, Zenon
  <2>4. j \in I
    BY <2>3, Zenon
  <2> QED BY <2>4, Zenon
<1> HIDE DEF I
<1>3. /\ r \in Seq(T) /\ IsInjective(r)
      /\ \A a \in DOMAIN r : \E i \in I : r[a] = q[i]
      /\ \A i \in I : \E a \in DOMAIN r : r[a] = q[i]
  BY <1>0, <1>1, FilteredOf
<1> HIDE DEF r
<1>4. Range(r) = Range(q)
  <2>1. ASSUME NEW x \in Range(r) PROVE x \in Range(q)
    BY <1>0, <1>3 DEF Range
  <2>2. ASSUME NEW x \in Range(q) PROVE x \in Range(r)
    <3>1. PICK i \in DOMAIN q : x = q[i]
      BY Zenon DEF Range
    <3>2. PICK j \in I : q[j] = q[i]
      BY <1>2, Zenon
    <3> QED BY <1>3, <3>1, <3>2, Zenon DEF Range
  <2> QED BY <2>1, <2>2, Zenon
<1> QED BY <1>3, <1>4, Zenon DEF r

(* The decisions that can be handed on are some of the first calls.         *)
LEMMA ReadyOK ==
    ASSUME NEW calls, Len(calls) \in Nat
    PROVE  Ready(calls) \in 0 .. Len(calls)
<1> DEFINE N == {n \in 0 .. Len(calls) : \A i \in 1 .. n : calls[i] = "decided"}
           f == [n \in N |-> -n]
<1>1. IsFiniteSet(N) /\ 0 \in N /\ \A n \in N : f[n] \in Int
  <2>1. IsFiniteSet(0 .. Len(calls))
    BY FS_Interval
  <2>2. IsFiniteSet(N)
    BY <2>1, FS_Subset, Zenon
  <2> QED BY <2>2
<1>2. PICK x \in N : \A y \in N : f[x] <= f[y]
  <2> HIDE DEF N, f
  <2> QED BY <1>1, LeastOf, Zenon
<1>3. \A y \in N : x >= y
  <2> SUFFICES ASSUME NEW y \in N PROVE x >= y
    BY Zenon
  <2>1. f[x] = -x /\ f[y] = -y
    BY Zenon
  <2>2. x \in Nat /\ y \in Nat
    OBVIOUS
  <2> HIDE DEF f, N
  <2>3. f[x] <= f[y]
    BY <1>2, Zenon
  <2> QED BY <2>1, <2>2, <2>3
<1>4. Max(N) \in N
  <2> HIDE DEF N
  <2> QED BY <1>3, Zenon DEF Max
<1> QED BY <1>4, Zenon DEF Ready

-----------------------------------------------------------------------------
(* Validate and repair. *)

(* What the policy says of a score.                                         *)
LEMMA PolicyScores ==
    ASSUME NEW i \in DOMAIN policy.scores
    PROVE  /\ policy.scores[i].min \in Int /\ policy.scores[i].max \in Int /\ policy.scores[i].target \in Int
           /\ policy.scores[i].min < policy.scores[i].max
<1> DEFINE Score == [name : STRING, min : Int, max : Int, target : Int]
<1>1. policy.scores \in Seq(Score)
  BY PolicyAssumption, Zenon DEF PolicyValid
<1>2. policy.scores[i] \in Score
  <2> HIDE DEF Score
  <2> QED BY <1>1
<1>3. policy.scores[i] \in Range(policy.scores)
  BY Zenon DEF Range
<1>4. policy.scores[i].min < policy.scores[i].max
  BY <1>3, PolicyAssumption, Zenon DEF PolicyValid
<1> QED BY <1>2, <1>4, Zenon

(* The gap of a report to the targets is a number, and so is the count of   *)
(* its unmet scores, which is zero when there is none.                      *)
LEMMA Measured ==
    ASSUME NEW r, ReportOK(r)
    PROVE  /\ target_gap(r) \in Int
           /\ Cardinality(unmet_scores(r)) \in Nat
           /\ Cardinality(unmet_scores(r)) = 0 <=> unmet_scores(r) = {}
<1> DEFINE range(i) == policy.scores[i].max - policy.scores[i].min
           ranges == [i \in DOMAIN policy.scores |-> range(i)]
           all == product_of(ranges)
           short(i) == Max({0, policy.scores[i].target - r.scores[i]})
           deficit(i) == short(i) * (all \div range(i))
           squares == [i \in DOMAIN policy.scores |-> deficit(i) * deficit(i)]
<1>0. Len(policy.scores) \in Nat /\ DOMAIN policy.scores = 1 .. Len(policy.scores)
  BY PolicyAssumption, SMTT(30) DEF PolicyValid
<1>1. target_gap(r) \in Int
  <2>1. ASSUME NEW i \in DOMAIN policy.scores PROVE range(i) \in Int /\ range(i) > 0
    BY PolicyScores
  <2>2. ranges \in Seq(Int)
    <3> HIDE DEF range
    <3> QED BY <1>0, <2>1
  <2>3. all \in Int
    <3> HIDE DEF ranges
    <3> QED BY <2>2, ProductOfInt, Zenon
  <2>4. ASSUME NEW i \in DOMAIN policy.scores PROVE short(i) \in Int
    <3> DEFINE x == policy.scores[i].target - r.scores[i]
    <3>1. x \in Int
      BY PolicyScores DEF ReportOK
    <3> HIDE DEF x
    <3>2. \E m \in {0, x} : \A y \in {0, x} : m >= y
      <4>1. CASE x >= 0
        BY <3>1, <4>1
      <4>2. CASE 0 >= x
        BY <3>1, <4>2
      <4> QED BY <3>1, <4>1, <4>2
    <3>3. Max({0, x}) \in {0, x}
      BY <3>2, Zenon DEF Max
    <3> QED BY <3>1, <3>3 DEF x
  <2>5. ASSUME NEW i \in DOMAIN policy.scores PROVE deficit(i) * deficit(i) \in Int
    <3>1. short(i) \in Int /\ range(i) \in Int /\ range(i) > 0
      BY <2>1, <2>4, Zenon
    <3> HIDE DEF short, all, range
    <3>2. all \div range(i) \in Int
      BY <2>3, <3>1
    <3>3. deficit(i) \in Int
      <4> DEFINE y == all \div range(i)
      <4> HIDE DEF y
      <4> QED BY <3>1, <3>2 DEF y
    <3> HIDE DEF deficit
    <3> QED BY <3>3
  <2>6. squares \in Seq(Int)
    <3> HIDE DEF deficit
    <3> QED BY <1>0, <2>5
  <2>7. sum_of(squares) \in Int
    <3> HIDE DEF squares
    <3> QED BY <2>6, SumOfInt, Zenon
  <2> QED BY <2>7, Zenon DEF target_gap
<1>2. IsFiniteSet(unmet_scores(r))
  <2>1. IsFiniteSet(DOMAIN policy.scores)
    BY <1>0, FS_Interval
  <2>2. unmet_scores(r) \in SUBSET DOMAIN policy.scores
    BY Zenon DEF unmet_scores, ReportOK
  <2> HIDE DEF ranges
  <2> QED BY <2>1, <2>2, FS_Subset, Zenon
<1> QED BY <1>1, <1>2, FS_CardinalityType, FS_EmptySet, Zenon

(* is_better is a strict order on the measures of the reports.              *)
LEMMA Better ==
    ASSUME NEW a, NEW b, NEW c, ReportOK(a), ReportOK(b), ReportOK(c)
    PROVE  /\ ~is_better(a, a)
           /\ is_better(a, b) /\ ~is_better(c, b) => ~is_better(c, a)
           /\ ~is_better(a, b) =>
                 /\ target_gap(b) <= target_gap(a)
                 /\ target_gap(b) = target_gap(a) =>
                       \/ Cardinality(unmet_scores(b)) < Cardinality(unmet_scores(a))
                       \/ Cardinality(unmet_scores(b)) = Cardinality(unmet_scores(a)) /\ a.version <= b.version
<1> DEFINE gap(r) == target_gap(r)
           unmet(r) == Cardinality(unmet_scores(r))
<1>1. /\ gap(a) \in Int /\ gap(b) \in Int /\ gap(c) \in Int
      /\ unmet(a) \in Nat /\ unmet(b) \in Nat /\ unmet(c) \in Nat
  BY Measured, Zenon
<1>2. a.version \in Nat /\ b.version \in Nat /\ c.version \in Nat
  BY Zenon DEF ReportOK
<1>3. ASSUME NEW x, NEW y
      PROVE  is_better(x, y) <=> (\/ gap(x) < gap(y)
                                  \/ gap(x) = gap(y) /\ unmet(x) < unmet(y)
                                  \/ gap(x) = gap(y) /\ unmet(x) = unmet(y) /\ x.version > y.version)
  BY Zenon DEF is_better
<1> HIDE DEF gap, unmet
<1>4. /\ ~is_better(a, a)
      /\ is_better(a, b) /\ ~is_better(c, b) => ~is_better(c, a)
      /\ ~is_better(a, b) =>
            /\ gap(b) <= gap(a)
            /\ gap(b) = gap(a) => unmet(b) < unmet(a) \/ (unmet(b) = unmet(a) /\ a.version <= b.version)
  BY <1>1, <1>2, <1>3
<1> QED BY <1>4, Zenon DEF gap, unmet

(* select_choice, as the steps of its recursion.                            *)
LEMMA SelectChoiceDef ==
    ASSUME NEW h, Len(h) \in Nat
    PROVE  \E best : /\ select_choice(h) = best[Len(h)]
                     /\ best[0] = 0
                     /\ \A i \in 1 .. Len(h) :
                           best[i] = IF all_checks_pass(h[i].report)
                                        /\ (best[i - 1] = 0 \/ is_better(h[i].report, h[best[i - 1]].report))
                                     THEN i ELSE best[i - 1]
<1> DEFINE n == Len(h)
           Base == 0
           Step(v, i) == IF all_checks_pass(h[i].report) /\ (v = 0 \/ is_better(h[i].report, h[v].report)) THEN i ELSE v
           Is(f, m) == f = [i \in 0 .. m |-> IF i = 0 THEN Base ELSE Step(f[i - 1], i)]
           S == {m \in Nat : \E f : Is(f, m)}
           all == CHOOSE f : Is(f, n)
<1>n. n \in Nat
  BY Zenon
<1>all. select_choice(h) = all[n]
  BY Zenon DEF select_choice
<1> HIDE DEF Base, Step, n
<1>1. 0 \in S
  <2> DEFINE f == [i \in 0 .. 0 |-> Base]
  <2>1. \A i \in 0 .. 0 : i = 0
    OBVIOUS
  <2>2. Is(f, 0)
    <3> HIDE DEF f
    <3> QED BY <2>1, Zenon DEF f
  <2> QED BY <2>2, Zenon
<1>2. ASSUME NEW m \in Nat, m \in S PROVE m + 1 \in S
  <2>1. PICK f : Is(f, m)
    BY <1>2, Zenon
  <2> DEFINE g == [i \in 0 .. m + 1 |-> IF i <= m THEN f[i] ELSE Step(f[m], m + 1)]
             hh == [i \in 0 .. m + 1 |-> IF i = 0 THEN Base ELSE Step(g[i - 1], i)]
  <2>2. ASSUME NEW i \in 0 .. m + 1 PROVE g[i] = hh[i]
    <3>1. CASE i = 0
      BY <2>1, <3>1
    <3>2. CASE i \in 1 .. m
      <4>1. g[i] = f[i] /\ g[i - 1] = f[i - 1]
        BY <3>2
      <4>2. hh[i] = Step(f[i - 1], i) /\ f[i] = Step(f[i - 1], i)
        BY <2>1, <3>2, <4>1
      <4> QED BY <4>1, <4>2, Zenon
    <3>3. CASE i = m + 1
      <4>1. g[i] = Step(f[m], i) /\ g[i - 1] = f[m]
        BY <3>3
      <4> QED BY <3>3, <4>1
    <3> QED BY <3>1, <3>2, <3>3
  <2>3. g = hh
    <3>1. g = [i \in 0 .. m + 1 |-> g[i]] /\ hh = [i \in 0 .. m + 1 |-> hh[i]]
      OBVIOUS
    <3> HIDE DEF g, hh
    <3> QED BY <2>2, <3>1, Zenon
  <2>4. Is(g, m + 1)
    <3> HIDE DEF g
    <3> QED BY <2>3, Zenon
  <2> HIDE DEF Is, g
  <2> QED BY <2>4
<1>3. Is(all, n)
  <2>1. n \in S
    <3> HIDE DEF S
    <3> QED BY <1>1, <1>2, <1>n, Induct, Zenon
  <2> HIDE DEF Is
  <2> QED BY <2>1, Zenon
<1>4. all[0] = Base /\ \A i \in 1 .. n : all[i] = Step(all[i - 1], i)
  <2> HIDE DEF all
  <2> QED BY <1>n, <1>3
<1> HIDE DEF all
<1> QED BY <1>all, <1>4, Zenon DEF Base, Step, n

(* b is the best of the reports up to m that pass the hard gate. *)
BestOf(h, m, b) ==
    /\ b \in 0 .. m
    /\ b = 0 => \A i \in 1 .. m : ~all_checks_pass(h[i].report)
    /\ b # 0 => /\ all_checks_pass(h[b].report)
                /\ \A i \in 1 .. m : all_checks_pass(h[i].report) => ~is_better(h[i].report, h[b].report)

(* select_choice finds the best report that passes the hard gate.           *)
LEMMA Selected ==
    ASSUME NEW h, HistoryOK(h)
    PROVE  BestOf(h, Len(h), select_choice(h))
<1> DEFINE n == Len(h)
<1>0. n \in Nat /\ DOMAIN h = 1 .. n /\ \A i \in 1 .. n : ReportOK(h[i].report)
  <2>1. h \in Seq(Range(h))
    BY Zenon DEF HistoryOK
  <2>2. n \in Nat /\ DOMAIN h = 1 .. n
    BY <2>1
  <2> QED BY <2>2, Zenon DEF HistoryOK
<1>1. PICK best : /\ select_choice(h) = best[n]
                  /\ best[0] = 0
                  /\ \A i \in 1 .. n :
                        best[i] = IF all_checks_pass(h[i].report)
                                     /\ (best[i - 1] = 0 \/ is_better(h[i].report, h[best[i - 1]].report))
                                  THEN i ELSE best[i - 1]
  BY <1>0, SelectChoiceDef, Zenon
<1> DEFINE OK == {m \in Nat : m <= n => BestOf(h, m, best[m])}
<1>2. 0 \in OK
  BY <1>1 DEF BestOf
<1>3. ASSUME NEW m \in Nat, m \in OK PROVE m + 1 \in OK
  <2> SUFFICES ASSUME m + 1 <= n PROVE BestOf(h, m + 1, best[m + 1])
    OBVIOUS
  <2> DEFINE b == best[m]
             r == h[m + 1].report
             w == best[m + 1]
  <2>1. BestOf(h, m, b)
    BY <1>0, <1>3
  <2>2. w = IF all_checks_pass(r) /\ (b = 0 \/ is_better(r, h[b].report)) THEN m + 1 ELSE b
    <3>1. m + 1 \in 1 .. n /\ (m + 1) - 1 = m
      BY <1>0
    <3> QED BY <1>1, <3>1, Zenon
  <2>3. ReportOK(r) /\ \A i \in 1 .. m : ReportOK(h[i].report)
    BY <1>0
  <2>4. b \in 0 .. m /\ \A i \in 1 .. m + 1 : i \in 1 .. m \/ i = m + 1
    BY <2>1 DEF BestOf
  <2> HIDE DEF b, r, w
  <2>5. CASE all_checks_pass(r) /\ (b = 0 \/ is_better(r, h[b].report))
    <3>1. w = m + 1 /\ h[w].report = r
      BY <2>2, <2>5, ZenonT(30) DEF r
    <3>2. ASSUME NEW i \in 1 .. m, all_checks_pass(h[i].report) PROVE ~is_better(h[i].report, r)
      <4>1. b # 0 /\ b \in 1 .. m
        BY <2>1, <2>4, <3>2 DEF BestOf
      <4>2. ~is_better(h[i].report, h[b].report) /\ is_better(r, h[b].report)
        BY <2>1, <2>5, <3>2, <4>1, Zenon DEF BestOf
      <4>3. ReportOK(h[i].report) /\ ReportOK(h[b].report)
        BY <2>3, <4>1, Zenon
      <4> QED BY <2>3, <4>2, <4>3, Better, Zenon
    <3>3. ~is_better(r, r)
      BY <2>3, Better, Zenon
    <3>4. ASSUME NEW i \in 1 .. m + 1, all_checks_pass(h[i].report) PROVE ~is_better(h[i].report, h[w].report)
      BY <2>4, <3>1, <3>2, <3>3, <3>4, Zenon DEF r
    <3>5. w \in 0 .. m + 1 /\ w # 0 /\ all_checks_pass(h[w].report)
      BY <2>5, <3>1
    <3> QED BY <3>4, <3>5, Zenon DEF BestOf, w
  <2>6. CASE ~(all_checks_pass(r) /\ (b = 0 \/ is_better(r, h[b].report)))
    <3>1. w = b
      BY <2>2, <2>6, Zenon
    <3>2. b = 0 => ~all_checks_pass(r)
      BY <2>6, Zenon
    <3>3. b # 0 /\ all_checks_pass(r) => ~is_better(r, h[b].report)
      BY <2>6, Zenon
    <3>4. BestOf(h, m + 1, b)
      BY <2>1, <2>4, <3>2, <3>3 DEF BestOf, r
    <3> QED BY <3>1, <3>4, Zenon DEF w
  <2> QED BY <2>5, <2>6, Zenon
<1>4. n \in OK
  <2> HIDE DEF OK
  <2> QED BY <1>0, <1>2, <1>3, Induct, Zenon
<1> QED BY <1>0, <1>1, <1>4

(* A report that was accepted has its scores. *)
LEMMA ParsedReport ==
    ASSUME NEW raw \in Verdicts, raw # <<>>, report_accepted(raw[1]), NEW v \in Nat
    PROVE  /\ ReportOK(parse_validation_report(raw[1], v))
           /\ parse_validation_report(raw[1], v).version = v
<1> DEFINE named(n) == CHOOSE x \in Range(raw[1].scores) : x.name = n
           r == parse_validation_report(raw[1], v)
           names(seq) == [i \in DOMAIN seq |-> seq[i].name]
<1>1. r.version = v /\ r.scores = [i \in DOMAIN policy.scores |-> named(policy.scores[i].name).score]
  BY Zenon DEF parse_validation_report
<1>2. Range(names(raw[1].scores)) = Range(names(policy.scores))
  BY Zenon DEF report_accepted, validate_returned_names
<1>3. ASSUME NEW i \in DOMAIN policy.scores PROVE named(policy.scores[i].name).score \in Int
  <2>1. policy.scores[i].name \in Range(names(policy.scores))
    BY Zenon DEF Range
  <2>2. PICK j \in DOMAIN raw[1].scores : raw[1].scores[j].name = policy.scores[i].name
    BY <1>2, <2>1, Zenon DEF Range
  <2>3. raw[1].scores[j] \in Range(raw[1].scores)
    BY Zenon DEF Range
  <2>4. named(policy.scores[i].name) \in Range(raw[1].scores)
    BY <2>2, <2>3, Zenon
  <2> HIDE DEF named
  <2> QED BY <2>4, AnswersAssumption, Zenon DEF AnswersParsed
<1> HIDE DEF r, named
<1>4. DOMAIN r.scores = DOMAIN policy.scores /\ \A i \in DOMAIN r.scores : r.scores[i] \in Int
  BY <1>1, <1>3, Zenon
<1> QED BY <1>1, <1>4, Zenon DEF ReportOK, r

-----------------------------------------------------------------------------
(* The steps of a turn keep its invariant. *)

Running == Gathering \cup Drafting \cup Closing

(* What a step of a running turn leaves. *)
StepOK == TurnInv' /\ t'.stage # "idle"

(* No turn runs yet.                                                        *)
LEMMA FreshOK ==
    ASSUME t = Fresh
    PROVE  TurnInv
<1>1. DOMAIN t = TurnFields
  BY Zenon DEF Fresh, TurnFields
<1>2. t.stage = "idle" /\ t.activation = <<>> /\ t.calls = <<>> /\ t.chosen = <<>> /\ t.result = <<>>
  BY Zenon DEF Fresh
<1>3. t.result # <<"err", "inconsistent">>
  BY <1>2
<1>4. ResultInv /\ KnowledgeInv /\ PlanInv /\ RetrievedInv /\ DecisionsInv
  BY <1>2, <1>3, Zenon DEF ResultInv, KnowledgeInv, PlanInv, RetrievedInv, DecisionsInv, Gathering, Drafting, Closing
<1>5. ActivationInv /\ HistoryInv
  BY <1>2, Zenon DEF ActivationInv, KnowledgeAdmitted, HistoryInv, Drafting, Closing, Chosen
<1> QED BY <1>1, <1>4, <1>5, Zenon DEF TurnInv

(* The same after a step: the task gave its turn up.                        *)
LEMMA FreshOKNext ==
    ASSUME t' = Fresh
    PROVE  TurnInv'
<1>1. DOMAIN t' = TurnFields
  BY Zenon DEF Fresh, TurnFields
<1>2. t'.stage = "idle" /\ t'.activation = <<>> /\ t'.calls = <<>> /\ t'.chosen = <<>> /\ t'.result = <<>>
  BY Zenon DEF Fresh
<1>3. t'.result # <<"err", "inconsistent">>
  BY <1>2
<1>4. ResultInv' /\ KnowledgeInv' /\ PlanInv' /\ RetrievedInv' /\ DecisionsInv'
  BY <1>2, <1>3, Zenon DEF ResultInv, KnowledgeInv, PlanInv, RetrievedInv, DecisionsInv, Gathering, Drafting, Closing
<1>5. ActivationInv' /\ HistoryInv'
  BY <1>2, Zenon DEF ActivationInv, KnowledgeAdmitted, HistoryInv, Drafting, Closing, Chosen
<1> QED BY <1>1, <1>4, <1>5, Zenon DEF TurnInv

(* A turn that ends with an error, or with its commit.                      *)
LEMMA EndOK ==
    ASSUME NEW result, t' = [Fresh EXCEPT !.stage = "done", !.result = result],
           result # <<>>, result # <<"err", "inconsistent">>
    PROVE  StepOK /\ t'.stage = "done" /\ t'.result = result
<1>1. DOMAIN t' = TurnFields
  BY Zenon DEF Fresh, TurnFields
<1>2. t'.stage = "done" /\ t'.activation = <<>> /\ t'.calls = <<>> /\ t'.chosen = <<>> /\ t'.result = result
  BY Zenon DEF Fresh
<1>4. ResultInv' /\ KnowledgeInv' /\ PlanInv' /\ RetrievedInv' /\ DecisionsInv'
  BY <1>2, Zenon DEF ResultInv, KnowledgeInv, PlanInv, RetrievedInv, DecisionsInv, Gathering, Drafting, Closing
<1>5. ActivationInv' /\ HistoryInv'
  BY <1>2, Zenon DEF ActivationInv, KnowledgeAdmitted, HistoryInv, Drafting, Closing, Chosen
<1> QED BY <1>1, <1>2, <1>4, <1>5, Zenon DEF TurnInv, StepOK

(* A turn that fails, with any error but one about inconsistent data.       *)
LEMMA FailOK ==
    ASSUME NEW kind, kind # "inconsistent", Fail(kind)
    PROVE  StepOK /\ t'.stage = "done" /\ t'.result[1] = "err"
<1>1. <<"err", kind>> # <<>> /\ <<"err", kind>> # <<"err", "inconsistent">>
  BY Zenon
<1>2. t' = [Fresh EXCEPT !.stage = "done", !.result = <<"err", kind>>]
  BY Zenon DEF Fail
<1>3. StepOK /\ t'.stage = "done" /\ t'.result = <<"err", kind>>
  BY <1>1, <1>2, EndOK, ZenonT(30)
<1> QED BY <1>3

(* A turn that is committed.                                                *)
LEMMA DoneOK ==
    ASSUME NEW r, Done(r)
    PROVE  StepOK
<1>1. <<"committed", r>> # <<>> /\ <<"committed", r>> # <<"err", "inconsistent">>
  BY Zenon
<1> QED BY <1>1, EndOK, Zenon DEF Done

(* A step within a stage. *)
LEMMA CallsOK ==
    ASSUME TurnInv, t.stage \in Running, DOMAIN t' = TurnFields,
           t'.stage = t.stage /\ t'.story = t.story /\ t'.activation = t.activation
           /\ t'.knowledge = t.knowledge /\ t'.plan = t.plan /\ t'.retrieved = t.retrieved
           /\ t'.decisions = t.decisions /\ t'.recent_turns = t.recent_turns /\ t'.draft = t.draft
           /\ t'.history = t.history /\ t'.repair_rounds = t.repair_rounds /\ t'.chosen = t.chosen
           /\ t'.result = t.result,
           t.stage = "think" =>
               t'.calls = <<>> \/ (Len(t'.calls) = Len(t.plan.thinks) /\ DOMAIN t'.calls = DOMAIN t.plan.thinks)
    PROVE  StepOK /\ t'.stage # "done"
<1>0. t.stage \notin {"idle", "done"}
  BY Zenon DEF Running, Gathering, Drafting, Closing
<1>1. ResultInv'
  BY <1>0, Zenon DEF TurnInv, ResultInv
<1>2. KnowledgeInv' /\ RetrievedInv'
  BY Zenon DEF TurnInv, KnowledgeInv, RetrievedInv, story
<1>3. PlanInv'
  BY Zenon DEF TurnInv, PlanInv, story, ThinkRoles
<1>4. DecisionsInv'
  BY Zenon DEF TurnInv, DecisionsInv, ThinkRoles
<1>5. ActivationInv'
  BY Zenon DEF TurnInv, ActivationInv, KnowledgeAdmitted, story
<1>6. HistoryInv'
  BY Zenon DEF TurnInv, HistoryInv
<1> QED BY <1>0, <1>1, <1>2, <1>3, <1>4, <1>5, <1>6, Zenon DEF TurnInv, StepOK

(* A stage that waits for one model call.                                   *)
LEMMA CallOK ==
    ASSUME TurnInv, t.stage \in Running, t.stage # "think", Call(t)
    PROVE  StepOK /\ t'.stage # "done"
<1>1. DOMAIN t' = TurnFields /\ t'.stage = t.stage /\ t'.story = t.story /\ t'.activation = t.activation
      /\ t'.knowledge = t.knowledge /\ t'.plan = t.plan /\ t'.retrieved = t.retrieved
      /\ t'.decisions = t.decisions /\ t'.recent_turns = t.recent_turns /\ t'.draft = t.draft
      /\ t'.history = t.history /\ t'.repair_rounds = t.repair_rounds /\ t'.chosen = t.chosen
      /\ t'.result = t.result
  BY Zenon DEF Call, TurnInv, TurnFields
<1> QED BY <1>1, CallsOK, Zenon

(* LlmGateway: a call gets its permit.                                      *)
LEMMA AcquireOK ==
    ASSUME TurnInv, NEW i \in DOMAIN t.calls, Acquire(i)
    PROVE  StepOK /\ t'.stage # "done" /\ t.stage \in Running
<1>1. DOMAIN t' = TurnFields /\ t'.stage = t.stage /\ t'.story = t.story /\ t'.activation = t.activation
      /\ t'.knowledge = t.knowledge /\ t'.plan = t.plan /\ t'.retrieved = t.retrieved
      /\ t'.decisions = t.decisions /\ t'.recent_turns = t.recent_turns /\ t'.draft = t.draft
      /\ t'.history = t.history /\ t'.repair_rounds = t.repair_rounds /\ t'.chosen = t.chosen
      /\ t'.result = t.result
  BY Zenon DEF Acquire, TurnInv, TurnFields
<1>2. t'.calls = [t.calls EXCEPT ![i] = "inflight"]
  BY Zenon DEF Acquire, TurnInv, TurnFields
<1>3. t.stage \in Running
  <2>1. t.calls # <<>>
    OBVIOUS
  <2> QED BY <2>1, Zenon DEF TurnInv, ResultInv, Running
<1>4. ASSUME t.stage = "think"
      PROVE  Len(t'.calls) = Len(t.plan.thinks) /\ DOMAIN t'.calls = DOMAIN t.plan.thinks
  <2>1. t.calls # <<>>
    OBVIOUS
  <2>2. DOMAIN t.calls = DOMAIN t.plan.thinks
    BY <1>4, <2>1, Zenon DEF TurnInv, DecisionsInv
  <2>3. t.plan.thinks \in Seq([role : STRING, focus : STRING])
    BY <1>4, Zenon DEF TurnInv, PlanInv
  <2>4. Len(t.plan.thinks) \in Nat /\ DOMAIN t.plan.thinks = 1 .. Len(t.plan.thinks)
    BY <2>3
  <2>5. t'.calls = [j \in 1 .. Len(t.plan.thinks) |-> IF j = i THEN "inflight" ELSE t.calls[j]]
    BY <1>2, <2>2, <2>4, Zenon
  <2> QED BY <2>4, <2>5
<1> QED BY <1>1, <1>3, <1>4, CallsOK, Zenon

(* BaselinePipeline: the activation of the story's knowledge.               *)
LEMMA BaselineOK ==
    ASSUME TurnInv, t.stage = "baseline", BaselineAnswer
    PROVE  StepOK /\ t'.stage # "done"
<1>1. PICK words \in Contributions, hash \in Hashes :
        LET scan == build_scan_buffer(story, words)
            outcome == run_activation(scan, hash)
        IN  t' = [GoTo(t, "plan") EXCEPT !.activation = <<[scan |-> scan, outcome |-> outcome]>>,
                                         !.knowledge = collect_knowledge(outcome)]
  BY Zenon DEF BaselineAnswer
<1> DEFINE scan == build_scan_buffer(story, words)
           outcome == run_activation(scan, hash)
           taken == outcome.activated
<1>2. t.story \in DOMAIN Stories
  BY Zenon DEF TurnInv, KnowledgeInv, Gathering
<1>3. /\ Admitted(story, scan, taken)
      /\ Len(taken) \in Nat /\ DOMAIN taken = 1 .. Len(taken)
      /\ \A i \in DOMAIN taken : taken[i].key \in DOMAIN story.book
      /\ Distinct(taken)
  BY <1>2, StoryActivation, Zenon DEF run_activation, story
<1> HIDE DEF scan, outcome
<1>4. t' = [GoTo(t, "plan") EXCEPT !.activation = <<[scan |-> scan, outcome |-> outcome]>>,
                                   !.knowledge = collect_knowledge(outcome)]
  BY <1>1, Zenon DEF scan, outcome
<1>5. DOMAIN t' = TurnFields /\ t'.story = t.story /\ t'.plan = t.plan /\ t'.retrieved = t.retrieved
      /\ t'.decisions = t.decisions /\ t'.recent_turns = t.recent_turns /\ t'.draft = t.draft
      /\ t'.history = t.history /\ t'.repair_rounds = t.repair_rounds /\ t'.chosen = t.chosen
      /\ t'.result = t.result
      /\ t'.stage = "plan" /\ t'.calls = <<>>
      /\ t'.activation = <<[scan |-> scan, outcome |-> outcome]>> /\ t'.knowledge = collect_knowledge(outcome)
  BY <1>4, Zenon DEF GoTo, TurnInv, TurnFields
<1>6. KeysOK(story, collect_knowledge(outcome).facts, "fact") /\ KeysOK(story, collect_knowledge(outcome).rumors, "rumor")
  <2>1. /\ collect_knowledge(outcome).facts = Kept(story, taken, "fact")
        /\ collect_knowledge(outcome).rumors = Kept(story, taken, "rumor")
    BY Zenon DEF collect_knowledge, Kept
  <2>2. KeysOK(story, Kept(story, taken, "fact"), "fact") /\ KeysOK(story, Kept(story, taken, "rumor"), "rumor")
    <3> HIDE DEF taken
    <3> QED BY <1>3, CollectedKeys, ZenonT(30)
  <2> QED BY <2>1, <2>2, Zenon
<1>7. ResultInv'
  BY <1>5, Zenon DEF TurnInv, ResultInv, Gathering
<1>8. KnowledgeInv'
  BY <1>2, <1>5, <1>6, Zenon DEF KnowledgeInv, story
<1>9. PlanInv' /\ RetrievedInv' /\ DecisionsInv'
  BY <1>5, Zenon DEF TurnInv, PlanInv, RetrievedInv, DecisionsInv
<1>10. ActivationInv'
  <2>1. t'.activation[1].scan = scan /\ t'.activation[1].outcome = outcome
    BY <1>5, SMTT(30)
  <2> QED BY <1>3, <1>5, <2>1, Zenon DEF ActivationInv, KnowledgeAdmitted, story
<1>11. HistoryInv'
  BY <1>5, Zenon DEF TurnInv, HistoryInv, Drafting, Closing, Chosen
<1> QED BY <1>5, <1>7, <1>8, <1>9, <1>10, <1>11, Zenon DEF TurnInv, StepOK

(* The roles that were asked to think. *)
LEMMA RolesAsked ==
    ASSUME NEW thinks \in Seq([role : STRING, focus : STRING])
    PROVE  LET roles == [i \in DOMAIN thinks |-> thinks[i].role]
           IN  roles \in Seq(STRING) /\ Len(roles) = Len(thinks) /\ (thinks = <<>> => roles = <<>>)
<1> DEFINE Request == [role : STRING, focus : STRING]
           roles == [i \in DOMAIN thinks |-> thinks[i].role]
<1>1. \A i \in DOMAIN thinks : thinks[i] \in Request
  <2> HIDE DEF Request
  <2>1. thinks \in Seq(Request)
    BY Zenon DEF Request
  <2> QED BY <2>1
<1>2. \A i \in DOMAIN thinks : thinks[i].role \in STRING
  BY <1>1, Zenon
<1>3. Len(thinks) \in Nat /\ DOMAIN thinks = 1 .. Len(thinks)
  OBVIOUS
<1>4. roles \in Seq(STRING) /\ Len(roles) = Len(thinks)
  BY <1>2, <1>3
<1>5. thinks = <<>> => roles = <<>>
  BY <1>4
<1> QED BY <1>4, <1>5, Zenon

(* validate_fact_ids and validate_rumor_ids let nothing through that is known.*)
LEMMA AskedIds ==
    ASSUME NEW ids \in Seq(Int), NEW kind, NEW known, validate_ids(ids, kind, known)
    PROVE  AskedOK(story, ids, known)
<1>1. IsInjective(ids) /\ Range(ids) \subseteq collect_candidates(kind, known)
  BY Zenon DEF validate_ids
<1>2. \A k \in collect_candidates(kind, known) : k \in DOMAIN story.book /\ k \notin Range(known)
  BY Zenon DEF collect_candidates
<1>3. \A i \in DOMAIN ids : ids[i] \in Range(ids)
  BY Zenon DEF Range
<1> QED BY <1>1, <1>2, <1>3, Zenon DEF AskedOK

(* PlanPipeline: the answer is refused or checked in full.                  *)
LEMMA PlanOK ==
    ASSUME TurnInv, t.stage = "plan", PlanAnswer
    PROVE  StepOK /\ (t'.stage = "done" => t'.result[1] = "err")
<1>1. PICK raw \in PlanAnswers :
        IF raw = <<>> \/ ~plan_accepted(raw[1]) THEN Fail("invalid_output")
        ELSE t' = [GoTo(t, IF raw[1].facts \o raw[1].rumors # <<>> THEN "retrieval"
                           ELSE IF raw[1].thinks # <<>> THEN "think" ELSE "generate")
                   EXCEPT !.plan = raw[1], !.activation = <<>>]
  BY Zenon DEF PlanAnswer
<1>2. CASE raw = <<>> \/ ~plan_accepted(raw[1])
  BY <1>1, <1>2, FailOK, Zenon
<1>3. CASE raw # <<>> /\ plan_accepted(raw[1])
  <2> DEFINE p == raw[1]
             next == IF p.facts \o p.rumors # <<>> THEN "retrieval"
                     ELSE IF p.thinks # <<>> THEN "think" ELSE "generate"
             roles == [i \in DOMAIN p.thinks |-> p.thinks[i].role]
  <2>1. /\ p.facts \in Seq(Int) /\ p.rumors \in Seq(Int) /\ p.roles \in Seq(STRING)
        /\ p.thinks \in Seq([role : STRING, focus : STRING])
    BY <1>3, AnswersAssumption, Zenon DEF AnswersParsed
  <2>2. /\ validate_ids(p.facts, "fact", t.knowledge.facts) /\ validate_ids(p.rumors, "rumor", t.knowledge.rumors)
        /\ validate_generation_roles(p.roles) /\ validate_character_think_requests(p.thinks)
    BY <1>3, Zenon DEF plan_accepted
  <2>3. AskedOK(story, p.facts, t.knowledge.facts) /\ AskedOK(story, p.rumors, t.knowledge.rumors)
    BY <2>1, <2>2, AskedIds, Zenon
  <2>4. roles \in Seq(STRING) /\ (p.thinks = <<>> => roles = <<>>)
    BY <2>1, RolesAsked, Zenon
  <2>5. RolesOK(story, p.roles) /\ RolesOK(story, roles)
    BY <2>1, <2>2, <2>4, Zenon DEF RolesOK, validate_generation_roles, validate_character_think_requests, role_catalog
  <2>6. t' = [GoTo(t, next) EXCEPT !.plan = p, !.activation = <<>>]
    BY <1>1, <1>3, Zenon
  <2>7. next \in {"retrieval", "think", "generate"} /\ (next = "generate" => p.thinks = <<>>)
    BY Zenon
  <2> HIDE DEF p, next
  <2>8. DOMAIN t' = TurnFields /\ t'.story = t.story /\ t'.knowledge = t.knowledge /\ t'.retrieved = t.retrieved
        /\ t'.decisions = t.decisions /\ t'.recent_turns = t.recent_turns /\ t'.draft = t.draft
        /\ t'.history = t.history /\ t'.repair_rounds = t.repair_rounds /\ t'.chosen = t.chosen
        /\ t'.result = t.result
        /\ t'.stage = next /\ t'.calls = <<>> /\ t'.plan = p /\ t'.activation = <<>>
    BY <2>6, Zenon DEF GoTo, TurnInv, TurnFields
  <2>9. ThinkRoles' = roles /\ story' = story
    BY <2>8, Zenon DEF ThinkRoles, story
  <2> HIDE DEF roles
  <2>10. ResultInv'
    BY <2>7, <2>8, Zenon DEF TurnInv, ResultInv, Gathering
  <2>11. KnowledgeInv'
    BY <2>7, <2>8, <2>9, Zenon DEF TurnInv, KnowledgeInv, Gathering
  <2>12. PlanInv'
    BY <2>1, <2>3, <2>5, <2>8, <2>9, Zenon DEF PlanInv
  <2>13. RetrievedInv'
    BY <2>8 DEF TurnInv, RetrievedInv
  <2>14. DecisionsInv'
    BY <2>4, <2>7, <2>8, <2>9, Zenon DEF TurnInv, DecisionsInv
  <2>15. ActivationInv'
    BY <2>8, Zenon DEF ActivationInv, KnowledgeAdmitted
  <2>16. HistoryInv'
    BY <2>7, <2>8, Zenon DEF TurnInv, HistoryInv, Drafting, Closing, Chosen
  <2> QED BY <2>7, <2>8, <2>10, <2>11, <2>12, <2>13, <2>14, <2>15, <2>16, Zenon DEF TurnInv, StepOK
<1> QED BY <1>2, <1>3, Zenon

(* The elements of a concatenation.                                         *)
LEMMA Joined ==
    ASSUME NEW T, NEW a \in Seq(T), NEW b \in Seq(T)
    PROVE  Range(a \o b) = Range(a) \cup Range(b)
<1> DEFINE c == a \o b
           m == Len(a)
           n == Len(b)
<1>1. m \in Nat /\ n \in Nat /\ DOMAIN a = 1 .. m /\ DOMAIN b = 1 .. n /\ DOMAIN c = 1 .. m + n
  OBVIOUS
<1>2. (\A i \in 1 .. m : c[i] = a[i]) /\ (\A i \in 1 .. n : c[m + i] = b[i])
  OBVIOUS
<1> HIDE DEF c, m, n
<1>3. ASSUME NEW i \in DOMAIN c PROVE c[i] \in Range(a) \cup Range(b)
  <2>1. CASE i <= m
    BY <1>1, <1>2, <2>1 DEF Range
  <2>2. CASE i > m
    <3>1. i - m \in 1 .. n /\ m + (i - m) = i
      BY <1>1, <2>2
    <3>2. c[i] = b[i - m]
      BY <1>2, <3>1, Zenon
    <3> QED BY <1>1, <3>1, <3>2, Zenon DEF Range
  <2> QED BY <1>1, <2>1, <2>2
<1>4. ASSUME NEW i \in DOMAIN a PROVE a[i] \in Range(c)
  <2>1. i \in DOMAIN c /\ c[i] = a[i]
    BY <1>1, <1>2
  <2> QED BY <2>1, Zenon DEF Range
<1>5. ASSUME NEW i \in DOMAIN b PROVE b[i] \in Range(c)
  <2>1. m + i \in DOMAIN c /\ c[m + i] = b[i]
    BY <1>1, <1>2
  <2> QED BY <2>1, Zenon DEF Range
<1>6. Range(c) = Range(a) \cup Range(b)
  BY <1>3, <1>4, <1>5, Zenon DEF Range
<1> QED BY <1>6, Zenon DEF c

(* Two sequences without repetition and without a common element.           *)
LEMMA JoinedInjective ==
    ASSUME NEW T, NEW a \in Seq(T), NEW b \in Seq(T), IsInjective(a), IsInjective(b),
           \A i \in DOMAIN b : b[i] \notin Range(a)
    PROVE  IsInjective(a \o b)
<1> DEFINE c == a \o b
           m == Len(a)
           n == Len(b)
<1>1. m \in Nat /\ n \in Nat /\ DOMAIN a = 1 .. m /\ DOMAIN b = 1 .. n /\ DOMAIN c = 1 .. m + n
  OBVIOUS
<1>2. (\A i \in 1 .. m : c[i] = a[i]) /\ (\A i \in 1 .. n : c[m + i] = b[i])
  OBVIOUS
<1> HIDE DEF c, m, n
<1>3. \A i, j \in 1 .. m : a[i] = a[j] => i = j
  BY <1>1, Zenon DEF IsInjective
<1>4. \A i, j \in 1 .. n : b[i] = b[j] => i = j
  BY <1>1, Zenon DEF IsInjective
<1>5. \A i \in 1 .. m, j \in 1 .. n : a[i] # b[j]
  BY <1>1, Zenon DEF Range
<1>6. ASSUME NEW i \in DOMAIN c, i > m PROVE i - m \in 1 .. n /\ c[i] = b[i - m]
  <2>1. i - m \in 1 .. n /\ m + (i - m) = i
    BY <1>1, <1>6
  <2> QED BY <1>2, <2>1, Zenon
<1>7. ASSUME NEW i \in DOMAIN c, i <= m PROVE i \in 1 .. m /\ c[i] = a[i]
  BY <1>1, <1>2, <1>7, SMTT(30)
<1>8. ASSUME NEW i \in DOMAIN c, NEW j \in DOMAIN c, c[i] = c[j] PROVE i = j
  <2>1. CASE i <= m /\ j <= m
    BY <1>3, <1>7, <1>8, <2>1, Zenon
  <2>2. CASE i > m /\ j > m
    <3>1. i - m = j - m
      BY <1>4, <1>6, <1>8, <2>2, Zenon
    <3> QED BY <1>1, <3>1
  <2>3. CASE i <= m /\ j > m
    BY <1>5, <1>6, <1>7, <1>8, <2>3, Zenon
  <2>4. CASE i > m /\ j <= m
    BY <1>5, <1>6, <1>7, <1>8, <2>4, Zenon
  <2> QED BY <1>1, <2>1, <2>2, <2>3, <2>4, SMTT(30)
<1> QED BY <1>8, Zenon DEF IsInjective, c

(* RetrievalPipeline: every entry of an accepted plan is found.             *)
LEMMA RetrieveOK ==
    ASSUME TurnInv, t.stage = "retrieval", Retrieve
    PROVE  StepOK /\ t'.stage # "done"
<1>1. AskedOK(story, t.plan.facts, t.knowledge.facts) /\ AskedOK(story, t.plan.rumors, t.knowledge.rumors)
      /\ t.plan.thinks \in Seq([role : STRING, focus : STRING])
  BY Zenon DEF TurnInv, PlanInv
<1>2. \A k \in Range(t.plan.facts \o t.plan.rumors) : k \in DOMAIN story.book
  <2>1. Range(t.plan.facts \o t.plan.rumors) = Range(t.plan.facts) \cup Range(t.plan.rumors)
    BY <1>1, Joined, SMTT(30) DEF AskedOK
  <2>2. \A k \in Range(t.plan.facts) \cup Range(t.plan.rumors) : k \in DOMAIN story.book
    BY <1>1, Zenon DEF AskedOK, Range
  <2> QED BY <2>1, <2>2, Zenon
<1> DEFINE next == IF t.plan.thinks # <<>> THEN "think" ELSE "generate"
<1>3. t' = [GoTo(t, next) EXCEPT !.retrieved = [facts |-> t.plan.facts, rumors |-> t.plan.rumors]]
  BY <1>2, Zenon DEF Retrieve
<1>4. next \in {"think", "generate"} /\ (next = "generate" => t.plan.thinks = <<>>)
  BY Zenon
<1> HIDE DEF next
<1>5. DOMAIN t' = TurnFields /\ t'.story = t.story /\ t'.activation = t.activation /\ t'.knowledge = t.knowledge
      /\ t'.plan = t.plan /\ t'.decisions = t.decisions /\ t'.recent_turns = t.recent_turns
      /\ t'.draft = t.draft /\ t'.history = t.history /\ t'.repair_rounds = t.repair_rounds
      /\ t'.chosen = t.chosen /\ t'.result = t.result
      /\ t'.stage = next /\ t'.calls = <<>>
      /\ t'.retrieved.facts = t.plan.facts /\ t'.retrieved.rumors = t.plan.rumors
  BY <1>3, Zenon DEF GoTo, TurnInv, TurnFields
<1>6. ThinkRoles' = ThinkRoles /\ story' = story /\ (t.plan.thinks = <<>> => ThinkRoles = <<>>)
  BY <1>1, <1>5, RolesAsked, Zenon DEF ThinkRoles, story
<1>7. ResultInv'
  BY <1>4, <1>5, Zenon DEF TurnInv, ResultInv, Gathering
<1>8. KnowledgeInv'
  BY <1>4, <1>5, <1>6, Zenon DEF TurnInv, KnowledgeInv, Gathering
<1>9. PlanInv'
  BY <1>5, <1>6, Zenon DEF TurnInv, PlanInv
<1>10. RetrievedInv'
  BY <1>4, <1>5, Zenon DEF RetrievedInv
<1>11. DecisionsInv'
  BY <1>4, <1>5, <1>6, Zenon DEF TurnInv, DecisionsInv
<1>12. ActivationInv'
  BY <1>5, Zenon DEF TurnInv, ActivationInv, KnowledgeAdmitted
<1>13. HistoryInv'
  BY <1>4, <1>5, ZenonT(30) DEF TurnInv, HistoryInv, Drafting, Closing, Chosen
<1> QED BY <1>4, <1>5, <1>7, <1>8, <1>9, <1>10, <1>11, <1>12, <1>13, Zenon DEF TurnInv, StepOK

(* The calls of a think stage. *)
LEMMA ThinkCalls ==
    ASSUME TurnInv, t.stage = "think"
    PROVE  /\ Len(t.plan.thinks) \in Nat /\ DOMAIN t.plan.thinks = 1 .. Len(t.plan.thinks)
           /\ RolesOK(story, ThinkRoles) /\ Len(ThinkRoles) = Len(t.plan.thinks)
           /\ DOMAIN ThinkRoles = DOMAIN t.plan.thinks
<1>1. t.plan.thinks \in Seq([role : STRING, focus : STRING]) /\ RolesOK(story, ThinkRoles)
  BY Zenon DEF TurnInv, PlanInv
<1>2. Len(t.plan.thinks) \in Nat /\ DOMAIN t.plan.thinks = 1 .. Len(t.plan.thinks)
  BY <1>1
<1>3. Len(ThinkRoles) = Len(t.plan.thinks)
  BY <1>1, RolesAsked, Zenon DEF ThinkRoles
<1>4. DOMAIN ThinkRoles = DOMAIN t.plan.thinks
  BY Zenon DEF ThinkRoles
<1> QED BY <1>1, <1>2, <1>3, <1>4, Zenon

(* Polling keeps the calls.                                                 *)
LEMMA PolledOK ==
    ASSUME NEW calls, NEW n \in Nat, DOMAIN calls = 1 .. n, NEW m
    PROVE  DOMAIN polled(calls, m) = 1 .. n /\ Len(polled(calls, m)) = n
<1>1. polled(calls, m) = [i \in 1 .. n |->
          IF calls[i] = "idle" /\ i <= m + config.max_concurrency THEN "waiting" ELSE calls[i]]
  BY Zenon DEF polled
<1> QED BY <1>1

(* ThinkPipeline: the roles of an accepted plan pass validate_input.        *)
LEMMA StartThinkingOK ==
    ASSUME TurnInv, t.stage = "think", StartThinking
    PROVE  StepOK /\ t'.stage # "done"
<1> DEFINE calls == polled([i \in DOMAIN ThinkRoles |-> "idle"], 0)
<1>1. IsInjective(ThinkRoles) /\ Range(ThinkRoles) \subseteq role_catalog
  BY ThinkCalls, Zenon DEF RolesOK, role_catalog
<1>2. t' = [t EXCEPT !.at = "call", !.calls = calls]
  BY <1>1, Zenon DEF StartThinking
<1>3. DOMAIN calls = DOMAIN t.plan.thinks /\ Len(calls) = Len(t.plan.thinks)
  <2> DEFINE idle == [i \in DOMAIN ThinkRoles |-> "idle"]
  <2>1. DOMAIN idle = 1 .. Len(t.plan.thinks) /\ Len(t.plan.thinks) \in Nat
    BY ThinkCalls, Zenon
  <2> HIDE DEF idle
  <2>2. DOMAIN polled(idle, 0) = 1 .. Len(t.plan.thinks) /\ Len(polled(idle, 0)) = Len(t.plan.thinks)
    BY <2>1, PolledOK, Zenon
  <2> QED BY <2>2, ThinkCalls, Zenon DEF idle
<1> HIDE DEF calls
<1>4. DOMAIN t' = TurnFields /\ t'.stage = t.stage /\ t'.story = t.story /\ t'.activation = t.activation
      /\ t'.knowledge = t.knowledge /\ t'.plan = t.plan /\ t'.retrieved = t.retrieved
      /\ t'.decisions = t.decisions /\ t'.recent_turns = t.recent_turns /\ t'.draft = t.draft
      /\ t'.history = t.history /\ t'.repair_rounds = t.repair_rounds /\ t'.chosen = t.chosen
      /\ t'.result = t.result /\ t'.calls = calls
  BY <1>2, Zenon DEF TurnInv, TurnFields
<1>5. t.stage \in Running
  BY Zenon DEF Running, Gathering
<1> QED BY <1>3, <1>4, <1>5, CallsOK, Zenon

(* A decision came or failed: those handed on are a prefix of the requests. *)
LEMMA FinishThinkingOK ==
    ASSUME TurnInv, t.stage = "think", NEW i \in DOMAIN t.calls, NEW end, FinishThinking(i, end)
    PROVE  StepOK /\ (t'.stage = "done" => t'.result[1] = "err")
<1> DEFINE calls == [t.calls EXCEPT ![i] = end]
           L == Len(t.plan.thinks)
           n == Ready(calls)
           decisions == collect_decisions(calls, i)
<1>1. L \in Nat /\ DOMAIN t.plan.thinks = 1 .. L /\ RolesOK(story, ThinkRoles) /\ Len(ThinkRoles) = L
  BY ThinkCalls, Zenon
<1>2. DOMAIN calls = 1 .. L /\ Len(calls) = L
  <2>1. t.calls # <<>>
    OBVIOUS
  <2>2. DOMAIN t.calls = 1 .. L
    BY <1>1, <2>1, Zenon DEF TurnInv, DecisionsInv
  <2>3. calls = [j \in 1 .. L |-> IF j = i THEN end ELSE t.calls[j]]
    BY <2>2, Zenon
  <2> HIDE DEF calls, L
  <2> QED BY <1>1, <2>3
<1>3. IF n < Len(calls) /\ calls[n + 1] = "failed" THEN Fail("think")
      ELSE IF n = Len(calls) THEN t' = [GoTo(t, "generate") EXCEPT !.decisions = decisions]
      ELSE t' = [t EXCEPT !.calls = polled(calls, n), !.decisions = decisions]
  BY Zenon DEF FinishThinking
<1>4. n \in 0 .. L
  <2> HIDE DEF calls, L
  <2> QED BY <1>1, <1>2, ReadyOK, Zenon
<1>5. decisions = SubSeq(ThinkRoles, 1, n)
  BY Zenon DEF collect_decisions
<1> HIDE DEF calls, L, n, decisions
<1>6. CASE n < Len(calls) /\ calls[n + 1] = "failed"
  BY <1>3, <1>6, FailOK, Zenon
<1>7. CASE n = Len(calls) /\ ~(n < Len(calls) /\ calls[n + 1] = "failed")
  <2>1. decisions = ThinkRoles
    <3>1. ThinkRoles \in Seq(STRING) /\ n = Len(ThinkRoles)
      BY <1>1, <1>2, <1>7, Zenon DEF RolesOK
    <3> QED BY <1>5, <3>1
  <2>2. t' = [GoTo(t, "generate") EXCEPT !.decisions = decisions]
    BY <1>3, <1>7, Zenon
  <2>3. DOMAIN t' = TurnFields /\ t'.story = t.story /\ t'.activation = t.activation /\ t'.knowledge = t.knowledge
        /\ t'.plan = t.plan /\ t'.retrieved = t.retrieved /\ t'.recent_turns = t.recent_turns
        /\ t'.draft = t.draft /\ t'.history = t.history /\ t'.repair_rounds = t.repair_rounds
        /\ t'.chosen = t.chosen /\ t'.result = t.result
        /\ t'.stage = "generate" /\ t'.calls = <<>> /\ t'.decisions = decisions
    BY <2>2, Zenon DEF GoTo, TurnInv, TurnFields
  <2>4. ThinkRoles' = ThinkRoles /\ story' = story
    BY <2>3, Zenon DEF ThinkRoles, story
  <2>5. ResultInv'
    BY <2>3, Zenon DEF TurnInv, ResultInv, Gathering
  <2>6. KnowledgeInv'
    BY <2>3, <2>4, Zenon DEF TurnInv, KnowledgeInv, Gathering
  <2>7. PlanInv'
    BY <2>3, <2>4, Zenon DEF TurnInv, PlanInv
  <2>8. RetrievedInv'
    BY <2>3, Zenon DEF TurnInv, RetrievedInv
  <2>9. DecisionsInv'
    BY <2>1, <2>3, <2>4, Zenon DEF DecisionsInv
  <2>10. ActivationInv'
    BY <2>3, Zenon DEF TurnInv, ActivationInv, KnowledgeAdmitted
  <2>11. HistoryInv'
    BY <2>3, ZenonT(30) DEF TurnInv, HistoryInv, Drafting, Closing, Chosen
  <2> QED BY <2>3, <2>5, <2>6, <2>7, <2>8, <2>9, <2>10, <2>11, Zenon DEF TurnInv, StepOK
<1>8. CASE n # Len(calls) /\ ~(n < Len(calls) /\ calls[n + 1] = "failed")
  <2>1. t' = [t EXCEPT !.calls = polled(calls, n), !.decisions = decisions]
    BY <1>3, <1>8, Zenon
  <2>2. DOMAIN t' = TurnFields /\ t'.stage = t.stage /\ t'.at = t.at /\ t'.story = t.story /\ t'.activation = t.activation
        /\ t'.knowledge = t.knowledge /\ t'.plan = t.plan /\ t'.retrieved = t.retrieved
        /\ t'.recent_turns = t.recent_turns /\ t'.draft = t.draft /\ t'.history = t.history
        /\ t'.repair_rounds = t.repair_rounds /\ t'.chosen = t.chosen /\ t'.result = t.result
        /\ t'.calls = polled(calls, n) /\ t'.decisions = decisions
    BY <2>1, Zenon DEF TurnInv, TurnFields
  <2>3. DOMAIN t'.calls = 1 .. L /\ Len(t'.calls) = L
    <3>1. L \in Nat /\ DOMAIN calls = 1 .. L
      BY <1>1, <1>2, Zenon
    <3>2. DOMAIN polled(calls, n) = 1 .. L /\ Len(polled(calls, n)) = L
      BY <3>1, PolledOK, Zenon
    <3> QED BY <2>2, <3>2, Zenon
  <2>4. ThinkRoles' = ThinkRoles /\ story' = story
    BY <2>2, Zenon DEF ThinkRoles, story
  <2>5. ResultInv'
    BY <2>2, Zenon DEF TurnInv, ResultInv, Gathering
  <2>6. KnowledgeInv'
    BY <2>2, <2>4, Zenon DEF TurnInv, KnowledgeInv, Gathering
  <2>7. PlanInv'
    BY <2>2, <2>4, Zenon DEF TurnInv, PlanInv
  <2>8. RetrievedInv'
    BY <2>2, Zenon DEF TurnInv, RetrievedInv
  <2>9. DecisionsInv'
    BY <1>1, <2>2, <2>3, Zenon DEF DecisionsInv, L
  <2>10. ActivationInv'
    BY <2>2, Zenon DEF TurnInv, ActivationInv, KnowledgeAdmitted
  <2>11. HistoryInv'
    BY <2>2, ZenonT(30) DEF TurnInv, HistoryInv, Drafting, Closing, Chosen
  <2> QED BY <2>2, <2>5, <2>6, <2>7, <2>8, <2>9, <2>10, <2>11, Zenon DEF TurnInv, StepOK
<1> QED BY <1>6, <1>7, <1>8, Zenon

(* Generation checks again what the plan was checked for.                   *)
LEMMA RolesConsistent ==
    ASSUME TurnInv, t.stage = "generate"
    PROVE  roles_consistent /\ player \notin Range(effective_role_ids)
<1> DEFINE q == t.plan.roles \o ThinkRoles
<1>1. RolesOK(story, t.plan.roles) /\ RolesOK(story, ThinkRoles) /\ t.decisions = ThinkRoles
  BY Zenon DEF TurnInv, PlanInv, DecisionsInv
<1>2. t.plan.roles \in Seq(STRING) /\ ThinkRoles \in Seq(STRING)
  BY <1>1, Zenon DEF RolesOK
<1>3. q \in Seq(STRING) /\ Range(q) = Range(t.plan.roles) \cup Range(ThinkRoles)
  BY <1>2, Joined
<1> HIDE DEF q
<1>4. IsInjective(once_each(q)) /\ Range(once_each(q)) = Range(q)
  BY <1>3, OnceEach, Zenon
<1>5. effective_role_ids = once_each(q)
  BY Zenon DEF effective_role_ids, q
<1>6. player \in story.roles
  BY StoryOK, Zenon DEF TurnInv, KnowledgeInv, Gathering, story
<1> QED BY <1>1, <1>3, <1>4, <1>5, <1>6, Zenon DEF roles_consistent, RolesOK, role_catalog

(* GeneratePipeline: only the size of the context may stop it.              *)
LEMMA StartGeneratingOK ==
    ASSUME TurnInv, t.stage = "generate", StartGenerating
    PROVE  StepOK
<1>1. Fail("too_large") \/ Call(t)
  BY RolesConsistent, Zenon DEF StartGenerating
<1>2. CASE Fail("too_large")
  BY <1>2, FailOK, Zenon
<1>3. CASE Call(t)
  BY <1>3, CallOK, Zenon DEF Running, Gathering
<1> QED BY <1>1, <1>2, <1>3, Zenon

(* The first draft.                                                         *)
LEMMA GenerateOK ==
    ASSUME TurnInv, t.stage = "generate", GenerateAnswer
    PROVE  StepOK /\ (t'.stage = "done" => t'.result[1] = "err")
<1>1. CASE Fail("invalid_output")
  BY <1>1, FailOK, Zenon
<1>2. CASE t' = [GoTo(Fresh, "validate") EXCEPT !.recent_turns = t.recent_turns, !.draft = 1]
  <2>1. DOMAIN t' = TurnFields
    BY <1>2, Zenon DEF GoTo, Fresh, TurnFields
  <2>2. /\ t'.stage = "validate" /\ t'.activation = <<>> /\ t'.draft = 1 /\ t'.history = <<>>
        /\ t'.repair_rounds = 0 /\ t'.chosen = <<>> /\ t'.result = <<>>
    BY <1>2, Zenon DEF GoTo, Fresh
  <2>3. t'.result # <<"err", "inconsistent">>
    BY <2>2, SMTT(30)
  <2>4. ResultInv' /\ KnowledgeInv' /\ PlanInv' /\ RetrievedInv' /\ DecisionsInv'
    BY <2>2, <2>3, Zenon DEF ResultInv, KnowledgeInv, PlanInv, RetrievedInv, DecisionsInv, Gathering, Drafting
  <2>5. ActivationInv'
    BY <2>2, Zenon DEF ActivationInv, KnowledgeAdmitted
  <2>6. HistoryInv'
    <3>a. config.max_repair_rounds \in 0 .. 8
      BY PolicyAssumption, Zenon DEF PolicyValid
    <3>1. 0 \in 0 .. config.max_repair_rounds
      BY <3>a
    <3>2. HistoryOK(<<>>) /\ Len(<<>>) = 0 /\ DOMAIN <<>> = {}
      BY DEF HistoryOK
    <3> QED BY <2>2, <3>1, <3>2 DEF HistoryInv, Drafting, Closing, Chosen
  <2> QED BY <2>1, <2>2, <2>4, <2>5, <2>6, Zenon DEF TurnInv, StepOK
<1> QED BY <1>1, <1>2, Zenon DEF GenerateAnswer

(* ValidationLoopConfig bounds the repairs.                                 *)
LEMMA RepairLimit == config.max_repair_rounds \in Nat
<1>1. config.max_repair_rounds \in 0 .. 8
  BY PolicyAssumption, Zenon DEF PolicyValid
<1> QED BY <1>1

(* A history with one more report. *)
LEMMA LongerHistory ==
    ASSUME NEW h, HistoryOK(h), NEW x, x.draft = Len(h) + 1, x.report.version = Len(h) + 1, ReportOK(x.report)
    PROVE  LET w == Append(h, x)
           IN  /\ HistoryOK(w) /\ Len(w) = Len(h) + 1 /\ Len(h) \in Nat /\ DOMAIN h = 1 .. Len(h)
               /\ w[Len(h) + 1] = x /\ \A i \in 1 .. Len(h) : w[i] = h[i]
<1> DEFINE w == Append(h, x)
           n == Len(h)
           T == Range(h) \cup {x}
<1>1. h \in Seq(T)
  <2>1. h \in Seq(Range(h))
    BY Zenon DEF HistoryOK
  <2>2. Range(h) \subseteq T
    BY Zenon
  <2> HIDE DEF T
  <2> QED BY <2>1, <2>2
<1>2. x \in T
  BY Zenon
<1> HIDE DEF T
<1>3. /\ w \in Seq(T) /\ n \in Nat /\ DOMAIN h = 1 .. n /\ Len(w) = n + 1 /\ DOMAIN w = 1 .. n + 1
      /\ w[n + 1] = x /\ \A i \in 1 .. n : w[i] = h[i]
  BY <1>1, <1>2
<1> HIDE DEF w
<1>4. w \in Seq(Range(w))
  <2>1. \A i \in DOMAIN w : w[i] \in Range(w)
    BY Zenon DEF Range
  <2> QED BY <1>3, <2>1
<1>5. ASSUME NEW i \in DOMAIN w PROVE w[i].draft = i /\ w[i].report.version = i /\ ReportOK(w[i].report)
  <2>1. CASE i \in 1 .. n
    BY <1>3, <2>1, Zenon DEF HistoryOK
  <2>2. CASE i = n + 1
    BY <1>3, <2>2, Zenon
  <2> QED BY <1>3, <2>1, <2>2, SMTT(30)
<1>6. HistoryOK(w)
  BY <1>4, <1>5, Zenon DEF HistoryOK
<1> QED BY <1>3, <1>6, Zenon DEF w, n

(* The newest draft met every target. *)
LEMMA NewestChosen ==
    ASSUME NEW h, HistoryOK(h), NEW n \in Nat, Len(h) = n + 1, Passed(h[n + 1].report)
    PROVE  Chosen(turn_evaluation(h[n + 1], "Pass"), h, n)
<1> DEFINE c == [draft |-> h[n + 1].draft, report |-> h[n + 1].report, status |-> "Pass"]
           passing == {g.report : g \in {f \in Range(h) : all_checks_pass(f.report)}}
           unmet(r) == Cardinality(unmet_scores(r))
<1>1. h \in Seq(Range(h))
  BY Zenon DEF HistoryOK
<1>2. n + 1 \in DOMAIN h
  BY <1>1
<1>3. h[n + 1].draft = n + 1 /\ h[n + 1].report.version = n + 1 /\ ReportOK(h[n + 1].report)
  BY <1>2, Zenon DEF HistoryOK
<1>4. c.draft = n + 1 /\ c.report = h[n + 1].report /\ c.status = "Pass"
  BY <1>3, Zenon
<1>5. unmet(c.report) = 0
  BY <1>3, <1>4, Measured, Zenon DEF Passed
<1>6. c.report \in passing
  <2>1. h[n + 1] \in Range(h) /\ all_checks_pass(h[n + 1].report)
    BY <1>2, Zenon DEF Range, Passed
  <2> QED BY <1>4, <2>1, Zenon
<1>7. turn_evaluation(h[n + 1], "Pass")[1] = c
  BY Zenon DEF turn_evaluation
<1> HIDE DEF c
<1> QED BY <1>3, <1>4, <1>5, <1>6, <1>7, ZenonT(30) DEF Chosen

(* The best draft that passed the checks, when none met every target.       *)
LEMMA BestChosen ==
    ASSUME NEW h, HistoryOK(h), NEW n \in Nat, Len(h) = n + 1, n = config.max_repair_rounds,
           \A i \in 1 .. n + 1 : ~Passed(h[i].report), NEW b, BestOf(h, n + 1, b), b # 0
    PROVE  Chosen(turn_evaluation(h[b], "Choice"), h, n)
<1> DEFINE c == [draft |-> h[b].draft, report |-> h[b].report, status |-> "Choice"]
           passing == {g.report : g \in {f \in Range(h) : all_checks_pass(f.report)}}
           unmet(r) == Cardinality(unmet_scores(r))
<1>1. h \in Seq(Range(h))
  BY Zenon DEF HistoryOK
<1>2. b \in 1 .. n + 1 /\ DOMAIN h = 1 .. n + 1
  BY <1>1 DEF BestOf
<1>3. h[b].draft = b /\ h[b].report.version = b /\ ReportOK(h[b].report)
  BY <1>2, Zenon DEF HistoryOK
<1>4. c.draft = b /\ c.report = h[b].report /\ c.status = "Choice"
  BY <1>3, Zenon
<1>5. all_checks_pass(h[b].report)
  BY Zenon DEF BestOf
<1>6. unmet(c.report) # 0
  <2>1. unmet_scores(h[b].report) # {}
    BY <1>2, <1>5, Zenon DEF Passed
  <2> QED BY <1>3, <1>4, <2>1, Measured, Zenon
<1>7. c.report \in passing
  <2>1. h[b] \in Range(h)
    BY <1>2, Zenon DEF Range
  <2> QED BY <1>4, <1>5, <2>1, Zenon
<1>8. ASSUME NEW r \in passing
      PROVE  /\ target_gap(c.report) <= target_gap(r)
             /\ target_gap(c.report) = target_gap(r) =>
                   unmet(c.report) < unmet(r) \/ (unmet(c.report) = unmet(r) /\ r.version <= c.report.version)
  <2>1. PICK i \in 1 .. n + 1 : r = h[i].report /\ all_checks_pass(h[i].report)
    BY <1>2, Zenon DEF Range
  <2>2. ~is_better(r, h[b].report)
    BY <2>1, Zenon DEF BestOf
  <2>3. ReportOK(r)
    BY <1>2, <2>1, Zenon DEF HistoryOK
  <2> HIDE DEF c
  <2> QED BY <1>3, <1>4, <2>2, <2>3, Better, ZenonT(30)
<1>9. turn_evaluation(h[b], "Choice")[1] = c
  BY Zenon DEF turn_evaluation
<1> HIDE DEF c, unmet
<1>10. c.draft = c.report.version /\ c.status # "Pass"
  BY <1>3, <1>4, Zenon
<1> HIDE DEF passing
<1> QED BY <1>6, <1>7, <1>8, <1>9, <1>10, ZenonT(30) DEF Chosen, passing, unmet

(* The invariants of the stages before the drafts hold after them.          *)
LEMMA LaterStage ==
    ASSUME TurnInv, t.stage \in Drafting \cup Closing, DOMAIN t' = TurnFields,
           t'.stage \in Drafting \cup Closing, t'.activation = t.activation, t'.result = t.result, HistoryInv'
    PROVE  StepOK /\ t'.stage # "done"
<1>1. t.activation = <<>> /\ t.stage # "done"
  BY Zenon DEF TurnInv, ActivationInv, Drafting, Closing
<1>2. ResultInv'
  BY <1>1, Zenon DEF TurnInv, ResultInv, Drafting, Closing
<1>3. KnowledgeInv' /\ PlanInv' /\ RetrievedInv' /\ DecisionsInv'
  BY Zenon DEF KnowledgeInv, PlanInv, RetrievedInv, DecisionsInv, Gathering, Drafting, Closing
<1>4. ActivationInv'
  BY <1>1, Zenon DEF ActivationInv, KnowledgeAdmitted
<1> QED BY <1>2, <1>3, <1>4, Zenon DEF TurnInv, StepOK, Drafting, Closing

(* validate_and_repair: a report passes, is repaired, fails or is the last. *)
LEMMA JudgeOK ==
    ASSUME TurnInv, t.stage = "validate", NEW report, ReportOK(report), report.version = Len(t.history) + 1, Judge(report)
    PROVE  StepOK /\ (t'.stage = "done" => t'.result[1] = "err")
<1> DEFINE x == [draft |-> t.draft, report |-> report]
           h == Append(t.history, x)
           judged == [t EXCEPT !.history = h]
           n == Len(t.history)
           b == select_choice(h)
<1>1. /\ HistoryOK(t.history) /\ n = t.repair_rounds /\ t.repair_rounds \in 0 .. config.max_repair_rounds
      /\ t.draft = n + 1 /\ t.chosen = <<>>
      /\ \A i \in DOMAIN t.history : ~Passed(t.history[i].report)
  BY Zenon DEF TurnInv, HistoryInv, Drafting
<1>2. x.draft = n + 1 /\ x.report = report
  BY <1>1, Zenon
<1>3. /\ HistoryOK(h) /\ Len(h) = n + 1 /\ n \in Nat /\ DOMAIN t.history = 1 .. n
      /\ h[n + 1] = x /\ \A i \in 1 .. n : h[i] = t.history[i]
  <2> HIDE DEF x
  <2> QED BY <1>1, <1>2, LongerHistory, SMTT(30)
<1>4. IF Passed(report)
      THEN t' = [GoTo(judged, "extract") EXCEPT !.chosen = turn_evaluation(h[Len(h)], "Pass")]
      ELSE IF t.repair_rounds < config.max_repair_rounds
      THEN t' = [GoTo(judged, "repair") EXCEPT !.repair_rounds = @ + 1]
      ELSE IF ~all_checks_pass(report) \/ b = 0 THEN Fail("validation_failed")
      ELSE t' = [GoTo(judged, "extract") EXCEPT !.chosen = turn_evaluation(h[b], "Choice")]
  BY Zenon DEF Judge, Passed
<1> HIDE DEF h, b, x
<1>5. DOMAIN judged = TurnFields /\ judged.history = h
      /\ judged.activation = t.activation /\ judged.result = t.result /\ judged.draft = t.draft
      /\ judged.repair_rounds = t.repair_rounds /\ judged.chosen = t.chosen
  BY Zenon DEF TurnInv, TurnFields
<1> HIDE DEF judged
<1>6. t.stage \in Drafting \cup Closing
  BY Zenon DEF Drafting
<1>7. CASE Passed(report)
  <2> DEFINE chosen == turn_evaluation(h[Len(h)], "Pass")
  <2>1. t' = [GoTo(judged, "extract") EXCEPT !.chosen = chosen]
    BY <1>4, <1>7, Zenon
  <2>2. Chosen(chosen, h, n)
    BY <1>2, <1>3, <1>7, NewestChosen, Zenon
  <2> HIDE DEF chosen
  <2>3. /\ DOMAIN t' = TurnFields /\ t'.stage = "extract" /\ t'.activation = t.activation /\ t'.result = t.result
        /\ t'.history = h /\ t'.repair_rounds = n /\ t'.chosen = chosen
    BY <1>1, <1>5, <2>1, Zenon DEF GoTo, TurnFields
  <2>4. HistoryInv'
    BY <2>2, <2>3, Zenon DEF HistoryInv, Drafting, Closing
  <2> QED BY <1>6, <2>3, <2>4, LaterStage, Zenon DEF Closing
<1>8. CASE ~Passed(report) /\ t.repair_rounds < config.max_repair_rounds
  <2>1. t' = [GoTo(judged, "repair") EXCEPT !.repair_rounds = @ + 1]
    BY <1>4, <1>8, Zenon
  <2>2. /\ DOMAIN t' = TurnFields /\ t'.stage = "repair" /\ t'.activation = t.activation /\ t'.result = t.result
        /\ t'.history = h /\ t'.repair_rounds = n + 1 /\ t'.chosen = <<>> /\ t'.draft = n + 1
    BY <1>1, <1>5, <2>1, Zenon DEF GoTo, TurnFields
  <2>3. config.max_repair_rounds \in Nat
    BY RepairLimit, Zenon
  <2>4. n + 1 \in 0 .. config.max_repair_rounds
    BY <1>1, <1>3, <1>8, <2>3, SMTT(30)
  <2>5. ASSUME NEW i \in DOMAIN h PROVE ~Passed(h[i].report)
    <3>1. i \in 1 .. n \/ i = n + 1
      <4>1. h \in Seq(Range(h))
        BY <1>3, Zenon DEF HistoryOK
      <4>2. DOMAIN h = 1 .. n + 1
        BY <1>3, <4>1, SMTT(30)
      <4> QED BY <1>3, <4>2, SMTT(30)
    <3>2. CASE i \in 1 .. n
      BY <1>1, <1>3, <3>2, Zenon
    <3>3. CASE i = n + 1
      BY <1>2, <1>3, <1>8, <3>3, Zenon
    <3> QED BY <3>1, <3>2, <3>3, Zenon
  <2>6. HistoryInv'
    BY <1>3, <2>2, <2>4, <2>5, SMTT(30) DEF HistoryInv, Drafting, Closing, Chosen
  <2> QED BY <1>6, <2>2, <2>6, LaterStage, Zenon DEF Drafting
<1>9. CASE ~Passed(report) /\ ~(t.repair_rounds < config.max_repair_rounds) /\ (~all_checks_pass(report) \/ b = 0)
  <2>1. Fail("validation_failed")
    BY <1>4, <1>9, Zenon
  <2> QED BY <2>1, FailOK, Zenon
<1>10. CASE ~Passed(report) /\ ~(t.repair_rounds < config.max_repair_rounds) /\ all_checks_pass(report) /\ b # 0
  <2> DEFINE chosen == turn_evaluation(h[b], "Choice")
  <2>1. t' = [GoTo(judged, "extract") EXCEPT !.chosen = chosen]
    BY <1>4, <1>10, Zenon
  <2>2. config.max_repair_rounds \in Nat
    BY RepairLimit, Zenon
  <2>3. n = config.max_repair_rounds
    BY <1>1, <1>10, <2>2, SMTT(30)
  <2>4. BestOf(h, n + 1, b)
    BY <1>3, Selected, Zenon DEF b
  <2>5. ASSUME NEW i \in 1 .. n + 1 PROVE ~Passed(h[i].report)
    <3>1. CASE i \in 1 .. n
      BY <1>1, <1>3, <3>1, ZenonT(30)
    <3>2. CASE i = n + 1
      BY <1>2, <1>3, <1>10, <3>2, Zenon
    <3> QED BY <1>3, <3>1, <3>2, SMTT(30)
  <2>6. Chosen(chosen, h, n)
    BY <1>3, <1>10, <2>3, <2>4, <2>5, BestChosen, ZenonT(30)
  <2> HIDE DEF chosen
  <2>7. /\ DOMAIN t' = TurnFields /\ t'.stage = "extract" /\ t'.activation = t.activation /\ t'.result = t.result
        /\ t'.history = h /\ t'.repair_rounds = n /\ t'.chosen = chosen
    BY <1>1, <1>5, <2>1, Zenon DEF GoTo, TurnFields
  <2>8. HistoryInv'
    BY <2>6, <2>7, Zenon DEF HistoryInv, Drafting, Closing
  <2> QED BY <1>6, <2>7, <2>8, LaterStage, Zenon DEF Closing
<1> QED BY <1>7, <1>8, <1>9, <1>10, Zenon

(* The answer of the validator.                                             *)
LEMMA ValidateOK ==
    ASSUME TurnInv, t.stage = "validate", ValidateAnswer
    PROVE  StepOK /\ (t'.stage = "done" => t'.result[1] = "err")
<1>1. PICK raw \in Verdicts :
        IF raw = <<>> \/ ~report_accepted(raw[1]) THEN Fail("invalid_output")
        ELSE Judge(parse_validation_report(raw[1], Len(t.history) + 1))
  BY Zenon DEF ValidateAnswer
<1>2. CASE raw = <<>> \/ ~report_accepted(raw[1])
  BY <1>1, <1>2, FailOK, Zenon
<1>3. CASE raw # <<>> /\ report_accepted(raw[1])
  <2> DEFINE v == Len(t.history) + 1
             report == parse_validation_report(raw[1], v)
  <2>1. v \in Nat
    <3>1. t.history \in Seq(Range(t.history))
      BY Zenon DEF TurnInv, HistoryInv, HistoryOK, Drafting
    <3> QED BY <3>1, SMTT(30)
  <2>2. Judge(report)
    BY <1>1, <1>3, Zenon
  <2> HIDE DEF v
  <2>3. ReportOK(report) /\ report.version = v
    BY <1>3, <2>1, ParsedReport, Zenon
  <2> HIDE DEF report
  <2> QED BY <2>2, <2>3, JudgeOK, Zenon DEF v
<1> QED BY <1>2, <1>3, Zenon

(* One more draft.                                                          *)
LEMMA RepairOK ==
    ASSUME TurnInv, t.stage = "repair", RepairAnswer
    PROVE  StepOK /\ (t'.stage = "done" => t'.result[1] = "err")
<1>1. CASE Fail("invalid_output")
  BY <1>1, FailOK, Zenon
<1>2. CASE t' = [GoTo(t, "validate") EXCEPT !.draft = @ + 1]
  <2>1. /\ DOMAIN t' = TurnFields /\ t'.stage = "validate" /\ t'.activation = t.activation /\ t'.result = t.result
        /\ t'.history = t.history /\ t'.repair_rounds = t.repair_rounds /\ t'.chosen = t.chosen
        /\ t'.draft = t.draft + 1
    BY <1>2, Zenon DEF GoTo, TurnInv, TurnFields
  <2>2. /\ HistoryOK(t.history) /\ Len(t.history) = t.repair_rounds
        /\ t.repair_rounds \in 0 .. config.max_repair_rounds
        /\ t.draft = Len(t.history) + 0 /\ t.chosen = <<>>
        /\ \A i \in DOMAIN t.history : ~Passed(t.history[i].report)
    BY Zenon DEF TurnInv, HistoryInv, Drafting
  <2>3. t'.draft = Len(t.history) + 1
    BY <2>1, <2>2, SMTT(30)
  <2>4. HistoryInv'
    BY <2>1, <2>2, <2>3, ZenonT(30) DEF HistoryInv, Drafting, Closing, Chosen
  <2> QED BY <2>1, <2>4, LaterStage, Zenon DEF Drafting
<1> QED BY <1>1, <1>2, Zenon DEF RepairAnswer

(* The stages after the choice keep it.                                     *)
LEMMA ClosingOK ==
    ASSUME TurnInv, t.stage \in Closing, NEW s \in Closing, t' = GoTo(t, s)
    PROVE  StepOK /\ t'.stage # "done"
<1>1. /\ DOMAIN t' = TurnFields /\ t'.stage = s /\ t'.activation = t.activation /\ t'.result = t.result
      /\ t'.history = t.history /\ t'.repair_rounds = t.repair_rounds /\ t'.chosen = t.chosen
  BY Zenon DEF GoTo, TurnInv, TurnFields
<1>2. HistoryInv'
  BY <1>1, Zenon DEF TurnInv, HistoryInv, Drafting, Closing
<1> QED BY <1>1, <1>2, LaterStage, Zenon

(* A stage that is entered. *)
LEMMA RunStageOK ==
    ASSUME TurnInv, RunStage
    PROVE  StepOK /\ t.stage \in Running
<1> USE DEF Running, Gathering, Drafting, Closing
<1>1. CASE t.stage \in {"baseline", "validate", "repair", "extract"} /\ Call(t)
  BY <1>1, CallOK, Zenon
<1>2. CASE t.stage = "plan" /\ IF player \in story.roles THEN Call(t) ELSE Fail("inconsistent")
  <2>1. player \in story.roles
    BY <1>2, StoryOK, Zenon DEF TurnInv, KnowledgeInv, story
  <2> QED BY <1>2, <2>1, CallOK, Zenon
<1>3. CASE t.stage = "retrieval" /\ Retrieve
  BY <1>3, RetrieveOK, Zenon
<1>4. CASE t.stage = "think" /\ StartThinking
  BY <1>4, StartThinkingOK, Zenon
<1>5. CASE t.stage = "generate" /\ StartGenerating
  BY <1>5, StartGeneratingOK, Zenon
<1>6. CASE t.stage = "summary" /\ StartSummary
  <2>1. t' = GoTo(t, "commit") \/ Call(t)
    BY <1>6, Zenon DEF StartSummary
  <2> QED BY <1>6, <2>1, ClosingOK, CallOK, Zenon
<1>7. CASE t.stage = "commit" /\ CommitTurn
  <2>1. Fail("persistence") \/ Done(t.chosen[1])
    BY <1>7, Zenon DEF CommitTurn
  <2> QED BY <1>7, <2>1, FailOK, DoneOK, Zenon
<1> QED BY <1>1, <1>2, <1>3, <1>4, <1>5, <1>6, <1>7, Zenon DEF RunStage

(* A model call that goes on, is answered or ends the turn: none commits.   *)
LEMMA ModelCallOK ==
    ASSUME TurnInv, NEW i \in DOMAIN t.calls, Acquire(i) \/ Answer(i) \/ CallFails(i) \/ CallStops(i)
    PROVE  StepOK /\ t.stage \in Running /\ (t'.stage = "done" => t'.result[1] = "err")
<1>1. t.stage \in Running
  <2>1. t.calls # <<>>
    OBVIOUS
  <2> QED BY <2>1, Zenon DEF TurnInv, ResultInv, Running
<1>2. CASE Acquire(i)
  BY <1>1, <1>2, AcquireOK, Zenon
<1>3. CASE Answer(i)
  <2>1. CASE t.stage = "baseline" /\ BaselineAnswer
    BY <1>1, <2>1, BaselineOK, Zenon
  <2>2. CASE t.stage = "plan" /\ PlanAnswer
    BY <1>1, <2>2, PlanOK, Zenon
  <2>3. CASE t.stage = "think" /\ ThinkAnswer(i)
    <3>1. FinishThinking(i, "decided") \/ FinishThinking(i, "failed")
      BY <2>3, Zenon DEF ThinkAnswer
    <3> QED BY <1>1, <2>3, <3>1, FinishThinkingOK, Zenon
  <2>4. CASE t.stage = "generate" /\ GenerateAnswer
    BY <1>1, <2>4, GenerateOK, Zenon
  <2>5. CASE t.stage = "validate" /\ ValidateAnswer
    BY <1>1, <2>5, ValidateOK, Zenon
  <2>6. CASE t.stage = "repair" /\ RepairAnswer
    BY <1>1, <2>6, RepairOK, Zenon
  <2>7. CASE t.stage = "extract" /\ ExtractAnswer
    BY <1>1, <2>7, FailOK, ClosingOK, Zenon DEF ExtractAnswer, Closing
  <2>8. CASE t.stage = "summary" /\ SummaryAnswer
    BY <1>1, <2>8, FailOK, ClosingOK, Zenon DEF SummaryAnswer, Closing
  <2> QED BY <1>3, <2>1, <2>2, <2>3, <2>4, <2>5, <2>6, <2>7, <2>8, Zenon DEF Answer
<1>4. CASE LlmError(i)
  <2>1. CASE t.stage = "think"
    BY <1>1, <1>4, <2>1, FinishThinkingOK, Zenon DEF LlmError
  <2>2. CASE t.stage # "think"
    BY <1>1, <1>4, <2>2, FailOK, Zenon DEF LlmError
  <2> QED BY <2>1, <2>2, Zenon
<1> QED BY <1>2, <1>3, <1>4, Zenon DEF CallFails, CallStops

(* What generation gets. *)
LEMMA StagesAgreed ==
    ASSUME TurnInv
    PROVE  StagesAgree
<1>1. t.result # <<"err", "inconsistent">>
  BY Zenon DEF TurnInv, ResultInv
<1>2. ASSUME t.stage = "generate"
      PROVE  /\ IsInjective(t.knowledge.facts \o t.retrieved.facts)
             /\ IsInjective(t.knowledge.rumors \o t.retrieved.rumors)
             /\ player \notin Range(effective_role_ids)
             /\ t.decisions = ThinkRoles
  <2>1. /\ KeysOK(story, t.knowledge.facts, "fact") /\ KeysOK(story, t.knowledge.rumors, "rumor")
        /\ t.story \in DOMAIN Stories
    BY <1>2, Zenon DEF TurnInv, KnowledgeInv, Gathering
  <2>2. AskedOK(story, t.plan.facts, t.knowledge.facts) /\ AskedOK(story, t.plan.rumors, t.knowledge.rumors)
    BY <1>2, Zenon DEF TurnInv, PlanInv
  <2>3. t.retrieved.facts \in {<<>>, t.plan.facts} /\ t.retrieved.rumors \in {<<>>, t.plan.rumors}
    BY <1>2, Zenon DEF TurnInv, RetrievedInv
  <2>4. ASSUME NEW known, NEW kind, NEW asked, NEW got \in {<<>>, asked},
               KeysOK(story, known, kind), AskedOK(story, asked, known)
        PROVE  IsInjective(known \o got)
    <3>1. DOMAIN story.book = 1 .. Len(story.book) /\ Len(story.book) \in Nat
      BY <2>1, StoryOK, Zenon DEF story
    <3>2. known \in Seq(Int) /\ IsInjective(known)
      BY <2>4, <3>1 DEF KeysOK
    <3>3. asked \in Seq(Int) /\ IsInjective(asked) /\ \A i \in DOMAIN asked : asked[i] \notin Range(known)
      BY <2>4, Zenon DEF AskedOK
    <3>4. got \in Seq(Int) /\ IsInjective(got) /\ \A i \in DOMAIN got : got[i] \notin Range(known)
      <4>1. CASE got = <<>>
        BY <4>1 DEF IsInjective
      <4>2. CASE got = asked
        BY <3>3, <4>2, Zenon
      <4> QED BY <4>1, <4>2, Zenon
    <3> QED BY <3>2, <3>4, JoinedInjective, Zenon
  <2>5. t.decisions = ThinkRoles
    BY <1>2, Zenon DEF TurnInv, DecisionsInv
  <2>6. player \notin Range(effective_role_ids)
    BY <1>2, RolesConsistent, Zenon
  <2> QED BY <2>1, <2>2, <2>3, <2>4, <2>5, <2>6, ZenonT(30)
<1> QED BY <1>1, <1>2, Zenon DEF StagesAgree

-----------------------------------------------------------------------------
(* The service. *)

Truth(c, e) == e = "committed" <=> c \in committed
Streams == {"idle", "refused", "open", "ended", "dropping", "closed"}

ClientShape ==
    /\ client \in [Clients -> [st : Streams, chan : Seq({"status", "committed", "error"}), told : Seq({"committed", "error"})]]
    /\ committed \subseteq Clients
    /\ owner \in Clients \cup {NoClient}
    /\ owner = NoClient <=> t.stage = "idle"
    /\ gate = (IF owner = NoClient THEN 1 ELSE 0)

(* What a client was told, and is still to hear, of its turn. *)
Before(c) == client[c].chan = <<>> /\ client[c].told = <<>> /\ c \notin committed
During(c) ==
    /\ client[c].told = <<>>
    /\ \A i \in DOMAIN client[c].chan : client[c].chan[i] = "status"
    /\ c \in committed <=> (t.stage = "done" /\ t.result[1] = "committed")
Queued(c) ==
    LET chan == client[c].chan
    IN  /\ client[c].told = <<>> /\ chan # <<>>
        /\ \A i \in DOMAIN chan : IF i = Len(chan) THEN chan[i] # "status" /\ Truth(c, chan[i]) ELSE chan[i] = "status"
Told(c) == client[c].chan = <<>> /\ Len(client[c].told) = 1 /\ Truth(c, client[c].told[1])
Left(c) == client[c].chan = <<>> /\ (client[c].told = <<>> \/ Told(c))

ClientInv ==
    \A c \in Clients :
        /\ client[c].st \in {"idle", "refused"} => owner # c /\ Before(c)
        /\ owner = c => During(c)
        /\ client[c].st = "open" /\ owner # c => Queued(c) \/ Told(c)
        /\ client[c].st = "ended" => owner # c /\ Told(c)
        /\ client[c].st \in {"dropping", "closed"} => Left(c)

WebInv == TurnInv /\ ClientShape /\ ClientInv
-----------------------------------------------------------------------------
Stream == [st : Streams, chan : Seq({"status", "committed", "error"}), told : Seq({"committed", "error"})]

(* The clauses of ClientInv, of one client. *)
OneClient(c) ==
    /\ client[c].st \in {"idle", "refused"} => owner # c /\ Before(c)
    /\ owner = c => During(c)
    /\ client[c].st = "open" /\ owner # c => Queued(c) \/ Told(c)
    /\ client[c].st = "ended" => owner # c /\ Told(c)
    /\ client[c].st \in {"dropping", "closed"} => Left(c)

(* A step that leaves a client and its turn alone. *)
LEMMA Untouched ==
    ASSUME NEW c, OneClient(c), client'[c] = client[c], (c \in committed') <=> (c \in committed),
           owner # c, owner' # c
    PROVE  OneClient(c)'
<1>1. Before(c)' <=> Before(c)
  BY Zenon DEF Before
<1>2. Queued(c)' <=> Queued(c)
  BY Zenon DEF Queued, Truth
<1>3. Told(c)' <=> Told(c)
  BY Zenon DEF Told, Truth
<1>4. Left(c)' <=> Left(c)
  BY <1>3, Zenon DEF Left
<1> QED BY <1>1, <1>2, <1>3, <1>4, ZenonT(30) DEF OneClient

(* The types of a stream.                                                   *)
LEMMA StreamFields ==
    ASSUME ClientShape, NEW c \in Clients
    PROVE  /\ DOMAIN client = Clients /\ client[c] \in Stream
           /\ client[c].st \in Streams /\ client[c].chan \in Seq({"status", "committed", "error"})
           /\ client[c].told \in Seq({"committed", "error"})
<1>1. client \in [Clients -> Stream]
  BY Zenon DEF ClientShape, Stream
<1>2. client[c] \in Stream /\ DOMAIN client = Clients
  BY <1>1, Zenon
<1> QED BY <1>2, Zenon DEF Stream

(* One client's stream changes to r. *)
LEMMA OneStream ==
    ASSUME ClientShape, NEW c \in Clients, NEW r \in Stream, client' = [client EXCEPT ![c] = r]
    PROVE  /\ client' \in [Clients -> Stream] /\ client'[c] = r
           /\ \A d \in Clients : d # c => client'[d] = client[d]
<1>1. client \in [Clients -> Stream]
  BY Zenon DEF ClientShape, Stream
<1> QED BY <1>1, Zenon

(* A step that leaves the turn alone.                                       *)
LEMMA TurnKept ==
    ASSUME TurnInv, t' = t
    PROVE  TurnInv'
<1>1. DOMAIN t' = TurnFields /\ ResultInv' /\ KnowledgeInv' /\ RetrievedInv'
  BY Zenon DEF TurnInv, ResultInv, KnowledgeInv, RetrievedInv, story
<1>2. PlanInv' /\ DecisionsInv'
  BY Zenon DEF TurnInv, PlanInv, DecisionsInv, story, ThinkRoles
<1>3. ActivationInv' /\ HistoryInv'
  BY ZenonT(30) DEF TurnInv, ActivationInv, KnowledgeAdmitted, HistoryInv, story
<1> QED BY <1>1, <1>2, <1>3, Zenon DEF TurnInv

(* The owner of a running turn, before and after a step. *)
LEMMA OwnerOf ==
    ASSUME ClientShape, t.stage # "idle"
    PROVE  owner \in Clients /\ owner # NoClient /\ gate = 0
BY ClientsAssumption, Zenon DEF ClientShape

(* The step keeps whose turn it is. *)
LEMMA ShapeKept ==
    ASSUME ClientShape, client' \in [Clients -> Stream], committed' \subseteq Clients, owner' = owner, gate' = gate,
           t'.stage = "idle" <=> t.stage = "idle"
    PROVE  ClientShape'
BY Zenon DEF ClientShape, Stream

(* The clients a step does not concern. *)
LEMMA OthersKept ==
    ASSUME ClientInv, NEW c \in Clients, OneClient(c)',
           \A d \in Clients : d # c => /\ client'[d] = client[d] /\ (d \in committed' <=> d \in committed)
                                       /\ owner # d /\ owner' # d
    PROVE  ClientInv'
<1>1. ASSUME NEW d \in Clients PROVE OneClient(d)'
  <2>1. CASE d = c
    BY <2>1, Zenon
  <2>2. CASE d # c
    <3>1. OneClient(d)
      BY Zenon DEF ClientInv, OneClient
    <3> QED BY <2>2, <3>1, Untouched, Zenon
  <2> QED BY <2>1, <2>2, Zenon
<1> QED BY <1>1, ZenonT(30) DEF ClientInv, OneClient

(* A step of one client's stream while its turn, if it has one, stands still. *)
LEMMA StreamStep ==
    ASSUME WebInv, NEW c \in Clients, NEW r \in Stream, client' = [client EXCEPT ![c] = r],
           t' = t, gate' = gate, owner' = owner, committed' = committed,
           client'[c] = r /\ OneClient(c) => OneClient(c)'
    PROVE  WebInv'
<1>1. TurnInv'
  BY TurnKept, Zenon DEF WebInv
<1>2. client' \in [Clients -> Stream] /\ client'[c] = r /\ \A d \in Clients : d # c => client'[d] = client[d]
  BY OneStream, ZenonT(30) DEF WebInv
<1>3. ClientShape'
  BY <1>2, ShapeKept, Zenon DEF WebInv, ClientShape
<1>4. ASSUME NEW d \in Clients PROVE OneClient(d)'
  <2>0. OneClient(d)
    BY Zenon DEF WebInv, ClientInv, OneClient
  <2>1. CASE d = c
    BY <1>2, <2>0, <2>1, Zenon
  <2>2. CASE d # c
    <3>1. client'[d] = client[d]
      BY <1>2, <2>2, Zenon
    <3> QED BY <2>0, <3>1, ZenonT(30) DEF OneClient, Before, During, Queued, Told, Left, Truth
  <2> QED BY <2>1, <2>2, Zenon
<1>5. ClientInv'
  BY <1>4, Zenon DEF ClientInv, OneClient
<1> QED BY <1>1, <1>3, <1>5, Zenon DEF WebInv

(* run_turn refuses a request.                                              *)
LEMMA RefuseOK ==
    ASSUME WebInv, NEW c \in Clients, Refuse(c)
    PROVE  WebInv'
<1> DEFINE r == [client[c] EXCEPT !.st = "refused"]
<1>1. r \in Stream /\ r.st = "refused" /\ r.chan = client[c].chan /\ r.told = client[c].told
  BY StreamFields, Zenon DEF WebInv, Stream, Streams
<1>2. client' = [client EXCEPT ![c] = r] /\ client[c].st = "idle"
  BY Zenon DEF Refuse
<1> HIDE DEF r
<1>3. t' = t /\ gate' = gate /\ owner' = owner /\ committed' = committed
  BY Zenon DEF Refuse
<1>4. ASSUME client'[c] = r, OneClient(c) PROVE OneClient(c)'
  BY <1>1, <1>2, <1>3, <1>4, ZenonT(30) DEF OneClient, Before
<1> QED BY <1>1, <1>2, <1>3, <1>4, StreamStep, Zenon

(* The receiver of a stream is dropped.                                     *)
LEMMA DisconnectOK ==
    ASSUME WebInv, NEW c \in Clients, Disconnect(c)
    PROVE  WebInv'
<1> DEFINE r == [client[c] EXCEPT !.st = "dropping", !.chan = <<>>]
<1>1. r \in Stream /\ r.st = "dropping" /\ r.chan = <<>> /\ r.told = client[c].told
  <2>1. <<>> \in Seq({"status", "committed", "error"}) /\ "dropping" \in Streams
    BY DEF Streams
  <2>2. client[c] \in Stream
    BY StreamFields, Zenon DEF WebInv
  <2> QED BY <2>1, <2>2, Zenon DEF Stream
<1>2. client' = [client EXCEPT ![c] = r] /\ client[c].st = "open"
  BY StreamFields, ZenonT(30) DEF Disconnect, WebInv
<1> HIDE DEF r
<1>3. t' = t /\ gate' = gate /\ owner' = owner /\ committed' = committed
  BY Zenon DEF Disconnect
<1>4. ASSUME client'[c] = r, OneClient(c) PROVE OneClient(c)'
  <2>1. owner = c => During(c)'
    <3>1. client'[c].told = client[c].told /\ client'[c].chan = <<>> /\ DOMAIN <<>> = {}
      BY <1>1, <1>4, SMTT(30)
    <3> QED BY <1>3, <1>4, <3>1, ZenonT(30) DEF OneClient, During
  <2>2. Left(c)'
    <3>1. client[c].told = <<>> \/ Told(c)
      BY <1>2, <1>4, ZenonT(30) DEF OneClient, During, Queued
    <3> QED BY <1>1, <1>3, <1>4, <3>1, Zenon DEF Left, Told, Truth
  <2> QED BY <1>1, <1>3, <1>4, <2>1, <2>2, Zenon DEF OneClient
<1> QED BY <1>1, <1>2, <1>3, <1>4, StreamStep, Zenon

(* DisconnectGuard cancels the turn.                                        *)
LEMMA DropGuardOK ==
    ASSUME WebInv, NEW c \in Clients, DropGuard(c)
    PROVE  WebInv'
<1> DEFINE r == [client[c] EXCEPT !.st = "closed"]
<1>1. r \in Stream /\ r.st = "closed" /\ r.chan = client[c].chan /\ r.told = client[c].told
  BY StreamFields, Zenon DEF WebInv, Stream, Streams
<1>2. client' = [client EXCEPT ![c] = r] /\ client[c].st = "dropping"
  BY Zenon DEF DropGuard
<1> HIDE DEF r
<1>3. t' = t /\ gate' = gate /\ owner' = owner /\ committed' = committed
  BY Zenon DEF DropGuard
<1>4. ASSUME client'[c] = r, OneClient(c) PROVE OneClient(c)'
  BY <1>1, <1>2, <1>3, <1>4, ZenonT(30) DEF OneClient, During, Left, Told, Truth
<1> QED BY <1>1, <1>2, <1>3, <1>4, StreamStep, Zenon

(* event_stream hands an event on or ends.                                  *)
LEMMA ReceiveOK ==
    ASSUME WebInv, NEW c \in Clients, Receive(c)
    PROVE  WebInv'
<1> DEFINE chan == client[c].chan
           told == client[c].told
           e == Head(chan)
<1>0. /\ chan \in Seq({"status", "committed", "error"}) /\ told \in Seq({"committed", "error"})
      /\ client[c] \in Stream /\ client[c].st = "open"
  BY StreamFields, Zenon DEF WebInv, Receive
<1>3. t' = t /\ gate' = gate /\ owner' = owner /\ committed' = committed
  BY Zenon DEF Receive
<1>4. CASE chan # <<>>
  <2> DEFINE more == IF e = "status" THEN told ELSE Append(told, e)
             r == [client[c] EXCEPT !.chan = Tail(chan), !.told = more]
  <2>1. e \in {"status", "committed", "error"} /\ Tail(chan) \in Seq({"status", "committed", "error"})
        /\ Len(chan) \in Nat /\ Len(chan) >= 1 /\ Len(Tail(chan)) = Len(chan) - 1 /\ e = chan[1]
        /\ \A i \in 1 .. Len(chan) - 1 : Tail(chan)[i] = chan[i + 1]
    BY <1>0, <1>4
  <2>2. more \in Seq({"committed", "error"})
    BY <1>0, <2>1
  <2>3. r \in Stream /\ r.st = "open" /\ r.chan = Tail(chan) /\ r.told = more
    <3> HIDE DEF more, chan
    <3> QED BY <1>0, <2>1, <2>2, Zenon DEF Stream
  <2>4. client' = [client EXCEPT ![c] = r]
    BY <1>4, ZenonT(30) DEF Receive
  <2> HIDE DEF r
  <2>5. ASSUME client'[c] = r, OneClient(c) PROVE OneClient(c)'
    <3>1. CASE owner = c
      <4>1. told = <<>> /\ \A i \in DOMAIN chan : chan[i] = "status"
        BY <2>5, <3>1, Zenon DEF OneClient, During
      <4>2. e = "status" /\ more = told
        BY <1>0, <2>1, <4>1, SMTT(30)
      <4>3. \A i \in DOMAIN Tail(chan) : Tail(chan)[i] = "status"
        BY <1>0, <2>1, <4>1, SMTT(30)
      <4>4. During(c)'
        BY <1>3, <2>3, <2>5, <3>1, <4>1, <4>2, <4>3, ZenonT(30) DEF OneClient, During
      <4> QED BY <1>3, <2>3, <2>5, <3>1, <4>4, Zenon DEF OneClient
    <3>2. CASE owner # c
      <4>1. Queued(c)
        BY <1>0, <1>4, <2>5, <3>2, Zenon DEF OneClient, Told
      <4>2. told = <<>> /\ \A i \in DOMAIN chan : IF i = Len(chan) THEN chan[i] # "status" /\ Truth(c, chan[i])
                                                  ELSE chan[i] = "status"
        BY <4>1, Zenon DEF Queued
      <4>3. CASE Len(chan) = 1
        <5>1. e # "status" /\ Truth(c, e)
          BY <1>0, <2>1, <4>2, <4>3, SMTT(30)
        <5>2. Tail(chan) = <<>> /\ Len(more) = 1 /\ more[1] = e
          BY <1>0, <2>1, <4>2, <4>3, <5>1, SMTT(30)
        <5>3. Told(c)'
          BY <1>3, <2>3, <2>5, <5>1, <5>2, ZenonT(30) DEF Told, Truth
        <5> QED BY <1>3, <2>3, <2>5, <3>2, <5>3, ZenonT(30) DEF OneClient
      <4>4. CASE Len(chan) > 1
        <5>1. e = "status" /\ more = <<>> /\ Tail(chan) # <<>>
          <6> DEFINE n == Len(chan)
          <6>0. n \in Nat /\ n > 1 /\ DOMAIN chan = 1 .. n /\ Len(Tail(chan)) = n - 1
            BY <1>0, <2>1, <4>4, SMTT(30)
          <6>1. 1 \in DOMAIN chan /\ 1 # Len(chan) /\ Len(Tail(chan)) # 0
            <7> HIDE DEF n
            <7>1. n # 1 /\ 1 \in 1 .. n /\ n - 1 # 0
              BY <6>0, SMTT(30)
            <7> QED BY <6>0, <7>1, Zenon DEF n
          <6>2. e = "status"
            BY <2>1, <4>2, <6>1, Zenon
          <6>3. Tail(chan) # <<>>
            <7> DEFINE rest == Tail(chan)
            <7>1. Len(rest) # 0
              BY <6>1, Zenon
            <7> HIDE DEF rest
            <7>2. rest # <<>>
              BY <7>1, SMTT(30)
            <7> QED BY <7>2, Zenon DEF rest
          <6> QED BY <4>2, <6>2, <6>3, Zenon
        <5>2. ASSUME NEW i \in DOMAIN Tail(chan)
              PROVE  IF i = Len(Tail(chan)) THEN Tail(chan)[i] # "status" /\ Truth(c, Tail(chan)[i])
                     ELSE Tail(chan)[i] = "status"
          <6>1. /\ i \in 1 .. Len(chan) - 1 /\ i + 1 \in DOMAIN chan /\ Tail(chan)[i] = chan[i + 1]
                /\ i = Len(Tail(chan)) <=> i + 1 = Len(chan)
            BY <1>0, <2>1, SMTT(30)
          <6> QED BY <4>2, <6>1, Zenon
        <5>3. client'[c].chan = Tail(chan) /\ client'[c].told = <<>>
          BY <2>3, <2>5, <5>1, Zenon
        <5>4. \A x : Truth(c, x)' <=> Truth(c, x)
          BY <1>3, Zenon DEF Truth
        <5>5. Queued(c)'
          <6> HIDE DEF chan
          <6> QED BY <5>1, <5>2, <5>3, <5>4, Zenon DEF Queued
        <5> QED BY <1>3, <2>3, <2>5, <3>2, <5>5, Zenon DEF OneClient
      <4>5. Len(chan) = 1 \/ Len(chan) > 1
        <5> DEFINE n == Len(chan)
        <5>1. n \in Nat /\ n >= 1
          BY <2>1, Zenon
        <5> HIDE DEF n
        <5>2. n = 1 \/ n > 1
          BY <5>1
        <5> QED BY <5>2, Zenon DEF n
      <4> QED BY <4>3, <4>4, <4>5, Zenon
    <3> QED BY <3>1, <3>2, Zenon
  <2> HIDE DEF chan, told, e, more
  <2> QED BY <1>3, <2>3, <2>4, <2>5, StreamStep, ZenonT(30)
<1>5. CASE chan = <<>>
  <2> DEFINE r == [client[c] EXCEPT !.st = "ended"]
  <2>1. r \in Stream /\ r.st = "ended" /\ r.chan = chan /\ r.told = told
    BY <1>0, Zenon DEF Stream, Streams
  <2>2. client' = [client EXCEPT ![c] = r] /\ owner # c
    BY <1>5, Zenon DEF Receive
  <2> HIDE DEF r
  <2>3. ASSUME client'[c] = r, OneClient(c) PROVE OneClient(c)'
    <3>1. Told(c)
      BY <1>0, <1>5, <2>2, <2>3, ZenonT(30) DEF OneClient, Queued
    <3>2. Told(c)'
      BY <1>3, <2>1, <2>3, <3>1, Zenon DEF Told, Truth
    <3> QED BY <1>3, <2>1, <2>2, <2>3, <3>2, Zenon DEF OneClient
  <2> QED BY <1>3, <2>1, <2>2, <2>3, StreamStep, ZenonT(30)
<1> QED BY <1>4, <1>5, Zenon

(* A step of the task, for its owner. *)
LEMMA TaskStep ==
    ASSUME WebInv, StepOK, t.stage # "idle", owner' = owner, gate' = gate,
           NEW r \in Stream, client' = [client EXCEPT ![owner] = r], committed' \subseteq Clients,
           \A d \in Clients : d # owner => (d \in committed' <=> d \in committed),
           client'[owner] = r => OneClient(owner)'
    PROVE  WebInv'
<1>1. owner \in Clients /\ owner # NoClient
  BY OwnerOf, Zenon DEF WebInv
<1>2. client' \in [Clients -> Stream] /\ client'[owner] = r /\ \A d \in Clients : d # owner => client'[d] = client[d]
  BY <1>1, OneStream, ZenonT(30) DEF WebInv
<1>3. ClientShape'
  BY <1>2, ShapeKept, Zenon DEF WebInv, StepOK
<1>4. ClientInv'
  BY <1>1, <1>2, OthersKept, Zenon DEF WebInv
<1> QED BY <1>3, <1>4, Zenon DEF WebInv, StepOK

(* A stream that does not change.                                           *)
LEMMA StreamUnchanged ==
    ASSUME ClientShape, NEW c \in Clients
    PROVE  client = [client EXCEPT ![c] = client[c]]
<1>1. client \in [Clients -> Stream]
  BY Zenon DEF ClientShape, Stream
<1> QED BY <1>1, Zenon

(* The owner of a running turn has a stream or has left. *)
LEMMA OwnerStream ==
    ASSUME WebInv, t.stage # "idle"
    PROVE  /\ owner \in Clients /\ During(owner) /\ OneClient(owner)
           /\ client[owner].st \in {"open", "dropping", "closed"}
           /\ client[owner].st # "open" => client[owner].chan = <<>>
<1>1. owner \in Clients
  BY OwnerOf, Zenon DEF WebInv
<1>2. OneClient(owner) /\ During(owner)
  BY <1>1, Zenon DEF WebInv, ClientInv, OneClient
<1>3. client[owner].st \in Streams
  BY <1>1, StreamFields, Zenon DEF WebInv
<1>4. client[owner].st \in {"open", "dropping", "closed"}
  BY <1>2, <1>3, Zenon DEF OneClient, Streams
<1>5. client[owner].st # "open" => client[owner].chan = <<>>
  BY <1>2, <1>4, Zenon DEF OneClient, Left
<1> QED BY <1>1, <1>2, <1>4, <1>5, Zenon

(* A stage is announced and run.                                            *)
LEMMA EnterOK ==
    ASSUME WebInv, Enter
    PROVE  WebInv'
<1>1. StepOK /\ t.stage \in Running
  BY RunStageOK, Zenon DEF WebInv, Enter
<1>2. t.stage # "idle" /\ t.stage # "done"
  BY <1>1, Zenon DEF Running, Gathering, Drafting, Closing
<1>3. /\ owner \in Clients /\ During(owner) /\ client[owner].st \in {"open", "dropping", "closed"}
      /\ client[owner].st # "open" => client[owner].chan = <<>>
  BY <1>2, OwnerStream, Zenon
<1>4. client[owner] \in Stream /\ client[owner].chan \in Seq({"status", "committed", "error"})
  BY <1>3, StreamFields, Zenon DEF WebInv
<1> DEFINE longer == Append(client[owner].chan, "status")
           r == IF client[owner].st = "open" /\ Len(client[owner].chan) < Capacity
                THEN [client[owner] EXCEPT !.chan = longer] ELSE client[owner]
<1>5. client' = [client EXCEPT ![owner] = r]
  <2>1. CASE client[owner].st = "open" /\ Len(client[owner].chan) < Capacity
    BY <2>1, Zenon DEF Enter, emit
  <2>2. CASE ~(client[owner].st = "open" /\ Len(client[owner].chan) < Capacity)
    <3>1. client' = client
      BY <2>2, Zenon DEF Enter, emit
    <3>2. r = client[owner]
      BY <2>2, Zenon
    <3> HIDE DEF r
    <3> QED BY <1>3, <3>1, <3>2, StreamUnchanged, Zenon DEF WebInv
  <2> QED BY <2>1, <2>2, Zenon
<1>6. /\ r \in Stream /\ r.st = client[owner].st /\ r.told = <<>>
      /\ \A i \in DOMAIN r.chan : r.chan[i] = "status"
      /\ r.st # "open" => r.chan = <<>>
  <2>0. client[owner].told = <<>> /\ \A i \in DOMAIN client[owner].chan : client[owner].chan[i] = "status"
    BY <1>3, Zenon DEF During
  <2>1. CASE client[owner].st = "open" /\ Len(client[owner].chan) < Capacity
    <3>1. longer \in Seq({"status", "committed", "error"}) /\ \A i \in DOMAIN longer : longer[i] = "status"
      BY <1>4, <2>0
    <3> HIDE DEF longer
    <3>2. r = [client[owner] EXCEPT !.chan = longer]
      BY <2>1, Zenon
    <3> HIDE DEF r
    <3>3. r \in Stream /\ r.st = client[owner].st /\ r.told = client[owner].told /\ r.chan = longer
      BY <1>4, <3>1, <3>2, Zenon DEF Stream
    <3> QED BY <2>0, <2>1, <3>1, <3>3, Zenon
  <2>2. CASE ~(client[owner].st = "open" /\ Len(client[owner].chan) < Capacity)
    BY <1>3, <1>4, <2>0, <2>2, Zenon
  <2> QED BY <2>1, <2>2, Zenon
<1> HIDE DEF r
<1>7. /\ owner' = owner /\ gate' = gate
      /\ committed' = IF t'.result # <<>> /\ t'.result[1] = "committed" THEN committed \cup {owner} ELSE committed
  BY Zenon DEF Enter
<1>8. owner \notin committed /\ committed \subseteq Clients
  BY <1>2, <1>3, Zenon DEF During, WebInv, ClientShape
<1>9. t'.result # <<>> <=> t'.stage = "done"
  BY <1>1, Zenon DEF StepOK, TurnInv, ResultInv
<1>10. ASSUME client'[owner] = r PROVE OneClient(owner)'
  <2>1. During(owner)'
    BY <1>6, <1>7, <1>8, <1>9, <1>10, Zenon DEF During
  <2>2. client'[owner].st # "open" => Left(owner)'
    BY <1>6, <1>7, <1>10, Zenon DEF Left
  <2>3. client'[owner].st \in {"open", "dropping", "closed"}
    BY <1>3, <1>6, <1>10, Zenon
  <2> QED BY <1>7, <2>1, <2>2, <2>3, Zenon DEF OneClient
<1>11. committed' \subseteq Clients /\ \A d \in Clients : d # owner => (d \in committed' <=> d \in committed)
  BY <1>3, <1>7, <1>8, Zenon
<1> QED BY <1>1, <1>2, <1>5, <1>6, <1>7, <1>10, <1>11, TaskStep, Zenon

(* A model call goes on while a stage waits.                                *)
LEMMA ModelOK ==
    ASSUME WebInv, Model
    PROVE  WebInv'
<1>1. StepOK /\ t.stage \in Running /\ (t'.stage = "done" => t'.result[1] = "err")
  <2>1. PICK i \in DOMAIN t.calls : Acquire(i) \/ Answer(i) \/ CallFails(i) \/ CallStops(i)
    BY Zenon DEF Model, Wait
  <2> QED BY <2>1, ModelCallOK, Zenon DEF WebInv
<1>2. t.stage # "idle" /\ t.stage # "done"
  BY <1>1, Zenon DEF Running, Gathering, Drafting, Closing
<1>3. owner \in Clients /\ During(owner) /\ OneClient(owner)
  BY <1>2, OwnerStream, Zenon
<1>4. client[owner] \in Stream
  BY <1>3, StreamFields, Zenon DEF WebInv
<1>5. client' = client /\ owner' = owner /\ gate' = gate /\ committed' = committed
  BY Zenon DEF Model
<1>6. client' = [client EXCEPT ![owner] = client[owner]]
  BY <1>3, <1>5, StreamUnchanged, Zenon DEF WebInv
<1>7. OneClient(owner)'
  <2>1. During(owner)'
    BY <1>1, <1>2, <1>3, <1>5, Zenon DEF During
  <2>2. client[owner].st \in {"dropping", "closed"} => Left(owner)'
    BY <1>3, <1>5, Zenon DEF OneClient, Left, Told, Truth
  <2> QED BY <1>3, <1>5, <2>1, <2>2, ZenonT(30) DEF OneClient
<1>8. committed' \subseteq Clients
  BY <1>5, Zenon DEF WebInv, ClientShape
<1> QED BY <1>1, <1>2, <1>4, <1>5, <1>6, <1>7, <1>8, TaskStep, ZenonT(30)

(* The task sends its terminal event and gives the permit back.             *)
LEMMA FinishTaskOK ==
    ASSUME WebInv, FinishTask
    PROVE  WebInv'
<1> DEFINE c == owner
           chan == client[c].chan
           longer == Append(chan, terminal_event)
           r == IF client[c].st = "open" THEN [client[c] EXCEPT !.chan = longer] ELSE client[c]
<1>1. t.stage = "done" /\ t' = Fresh /\ gate' = 1 /\ owner' = NoClient /\ committed' = committed
  BY Zenon DEF FinishTask
<1>2. /\ c \in Clients /\ During(c) /\ client[c].st \in {"open", "dropping", "closed"}
      /\ client[c].st # "open" => chan = <<>>
  BY <1>1, OwnerStream, Zenon
<1>3. client[c] \in Stream /\ chan \in Seq({"status", "committed", "error"})
  BY <1>2, StreamFields, Zenon DEF WebInv
<1>4. /\ client[c].told = <<>> /\ \A i \in DOMAIN chan : chan[i] = "status"
      /\ Truth(c, terminal_event) /\ terminal_event \in {"committed", "error"}
  BY <1>1, <1>2, Zenon DEF During, Truth, terminal_event
<1>5. client' = [client EXCEPT ![c] = r]
  <2>1. CASE client[c].st = "open"
    BY <2>1, Zenon DEF FinishTask
  <2>2. CASE client[c].st # "open"
    <3>1. client' = client /\ r = client[c]
      BY <2>2, Zenon DEF FinishTask
    <3> HIDE DEF r
    <3> QED BY <1>2, <3>1, StreamUnchanged, Zenon DEF WebInv
  <2> QED BY <2>1, <2>2, Zenon
<1>6. /\ longer \in Seq({"status", "committed", "error"}) /\ longer # <<>>
      /\ \A i \in DOMAIN longer : IF i = Len(longer) THEN longer[i] = terminal_event ELSE longer[i] = "status"
  <2> DEFINE e == terminal_event
             n == Len(chan)
  <2>1. e \in {"status", "committed", "error"}
    BY <1>4, Zenon
  <2> HIDE DEF e
  <2>2. /\ Append(chan, e) \in Seq({"status", "committed", "error"}) /\ n \in Nat /\ DOMAIN chan = 1 .. n
        /\ Len(Append(chan, e)) = n + 1 /\ DOMAIN Append(chan, e) = 1 .. n + 1
        /\ Append(chan, e)[n + 1] = e /\ \A i \in 1 .. n : Append(chan, e)[i] = chan[i]
    BY <1>3, <2>1, SMTT(30)
  <2> DEFINE w == Append(chan, e)
  <2> HIDE DEF w
  <2>3. /\ w \in Seq({"status", "committed", "error"}) /\ Len(w) = n + 1 /\ DOMAIN w = 1 .. n + 1
        /\ w[n + 1] = e /\ \A i \in 1 .. n : w[i] = chan[i]
    BY <2>2, Zenon DEF w
  <2> HIDE DEF n, chan
  <2>4. w # <<>>
    BY <2>2, <2>3, SMTT(30)
  <2>5. \A i \in DOMAIN w : IF i = Len(w) THEN w[i] = e ELSE w[i] = "status"
    BY <1>4, <2>2, <2>3, SMTT(30)
  <2> QED BY <2>3, <2>4, <2>5, Zenon DEF w, e
<1>7. r \in Stream /\ r.st = client[c].st /\ r.told = <<>> /\ r.chan = IF client[c].st = "open" THEN longer ELSE <<>>
  <2> HIDE DEF longer
  <2>1. CASE client[c].st = "open"
    BY <1>3, <1>4, <1>6, <2>1, Zenon DEF Stream
  <2>2. CASE client[c].st # "open"
    BY <1>2, <1>3, <1>4, <2>2, Zenon
  <2> QED BY <2>1, <2>2, Zenon
<1> HIDE DEF r, longer
<1>8. client' \in [Clients -> Stream] /\ client'[c] = r /\ \A d \in Clients : d # c => client'[d] = client[d]
  BY <1>2, <1>5, <1>7, OneStream, ZenonT(30) DEF WebInv
<1>9. TurnInv' /\ t'.stage = "idle"
  <2>1. t'.stage = "idle"
    BY <1>1, Zenon DEF Fresh
  <2>2. (t = Fresh)'
    BY <1>1, Zenon DEF Fresh
  <2>3. TurnInv'
    BY <2>2, FreshOKNext, Zenon
  <2> QED BY <2>1, <2>3, Zenon
<1>10. ClientShape'
  BY <1>1, <1>8, <1>9, ZenonT(30) DEF WebInv, ClientShape, Stream
<1>11. NoClient \notin Clients
  BY ClientsAssumption, Zenon
<1>12. ASSUME NEW d \in Clients PROVE OneClient(d)'
  <2>1. CASE d = c
    <3>1. client'[d].told = <<>> /\ client'[d].chan = r.chan /\ client'[d].st = client[c].st
      BY <1>7, <1>8, <2>1, Zenon
    <3>2. CASE client[c].st = "open"
      <4>1. client'[d].chan = longer
        BY <1>7, <3>1, <3>2, Zenon
      <4>2. \A x : Truth(d, x)' <=> Truth(d, x)
        BY <1>1, Zenon DEF Truth
      <4>3. ASSUME NEW i \in DOMAIN longer
            PROVE  IF i = Len(longer) THEN longer[i] # "status" /\ Truth(d, longer[i]) ELSE longer[i] = "status"
        BY <1>4, <1>6, <2>1, Zenon
      <4>4. Queued(d)'
        BY <1>6, <3>1, <4>1, <4>2, <4>3, Zenon DEF Queued
      <4> QED BY <1>1, <1>11, <3>1, <3>2, <4>4, Zenon DEF OneClient
    <3>3. CASE client[c].st \in {"dropping", "closed"}
      <4>1. Left(d)'
        BY <1>7, <3>1, <3>3, Zenon DEF Left
      <4> QED BY <1>1, <1>11, <3>1, <3>3, <4>1, Zenon DEF OneClient
    <3> QED BY <1>2, <3>2, <3>3, Zenon
  <2>2. CASE d # c
    <3>1. OneClient(d)
      BY Zenon DEF WebInv, ClientInv, OneClient
    <3> QED BY <1>1, <1>8, <1>11, <2>2, <3>1, Untouched, Zenon
  <2> QED BY <2>1, <2>2, Zenon
<1>13. ClientInv'
  BY <1>12, Zenon DEF ClientInv, OneClient
<1> QED BY <1>9, <1>10, <1>13, Zenon DEF WebInv

(* The deadline of the turn passes.                                         *)
LEMMA DeadlineOK ==
    ASSUME WebInv, Deadline
    PROVE  WebInv'
<1>1. t' = t /\ gate' = gate /\ owner' = owner /\ client' = client /\ committed' = committed
  BY Zenon DEF Deadline
<1>2. TurnInv'
  BY <1>1, TurnKept, Zenon DEF WebInv
<1>3. ClientShape' /\ ClientInv'
  BY <1>1, ZenonT(30) DEF WebInv, ClientShape, ClientInv, Before, During, Queued, Told, Left, Truth
<1> QED BY <1>2, <1>3, Zenon DEF WebInv

(* A turn is loaded, or its story takes none. *)
LEMMA LoadOK ==
    ASSUME NEW n \in DOMAIN Stories, Load(n)
    PROVE  StepOK /\ (t'.stage = "done" => t'.result[1] = "err")
<1>1. CASE Fail("not_active")
  BY <1>1, FailOK, ZenonT(30)
<1>2. CASE t' = [Fresh EXCEPT !.stage = "baseline", !.story = n, !.recent_turns = Len(Stories[n].recent)]
  <2>1. DOMAIN t' = TurnFields
    BY <1>2, Zenon DEF Fresh, TurnFields
  <2>2. /\ t'.stage = "baseline" /\ t'.story = n /\ t'.activation = <<>> /\ t'.chosen = <<>> /\ t'.result = <<>>
        /\ t'.retrieved = [facts |-> <<>>, rumors |-> <<>>] /\ t'.decisions = <<>>
    BY <1>2, Zenon DEF Fresh
  <2>3. t'.result # <<"err", "inconsistent">>
    BY <2>2, SMTT(30)
  <2>4. ResultInv' /\ KnowledgeInv' /\ PlanInv' /\ RetrievedInv' /\ DecisionsInv'
    BY <2>2, <2>3, ZenonT(30) DEF ResultInv, KnowledgeInv, PlanInv, RetrievedInv, DecisionsInv, Gathering
  <2>5. ActivationInv' /\ HistoryInv'
    BY <2>2, ZenonT(30) DEF ActivationInv, KnowledgeAdmitted, HistoryInv, Drafting, Closing, Chosen
  <2> QED BY <2>1, <2>2, <2>4, <2>5, Zenon DEF TurnInv, StepOK
<1> QED BY <1>1, <1>2, Zenon DEF Load

(* run_turn takes the gate and spawns the task.                             *)
LEMMA PostOK ==
    ASSUME WebInv, NEW c \in Clients, Post(c)
    PROVE  WebInv'
<1> DEFINE r == [client[c] EXCEPT !.st = "open"]
<1>1. client[c].st = "idle" /\ gate = 1 /\ gate' = 0 /\ owner' = c /\ committed' = committed
  BY Zenon DEF Post
<1>2. client' = [client EXCEPT ![c] = r]
  BY Zenon DEF Post
<1>3. StepOK /\ (t'.stage = "done" => t'.result[1] = "err")
  <2>1. PICK n \in DOMAIN Stories : Load(n)
    BY Zenon DEF Post
  <2> QED BY <2>1, LoadOK, Zenon
<1>4. r \in Stream /\ r.st = "open" /\ r.chan = client[c].chan /\ r.told = client[c].told
  BY StreamFields, Zenon DEF WebInv, Stream, Streams
<1> HIDE DEF r
<1>5. client' \in [Clients -> Stream] /\ client'[c] = r /\ \A d \in Clients : d # c => client'[d] = client[d]
  BY <1>2, <1>4, OneStream, ZenonT(30) DEF WebInv
<1>6. owner = NoClient /\ NoClient \notin Clients
  BY <1>1, ClientsAssumption DEF WebInv, ClientShape
<1>7. ClientShape'
  BY <1>1, <1>3, <1>5, <1>6, Zenon DEF WebInv, ClientShape, Stream, StepOK
<1>8. Before(c)
  BY <1>1, ZenonT(30) DEF WebInv, ClientInv
<1>9. OneClient(c)'
  <2>1. During(c)'
    BY <1>1, <1>3, <1>4, <1>5, <1>8, SMTT(30) DEF During, Before
  <2> QED BY <1>1, <1>4, <1>5, <2>1, Zenon DEF OneClient
<1>10. ClientInv'
  BY <1>1, <1>5, <1>6, <1>9, OthersKept, Zenon DEF WebInv
<1> QED BY <1>3, <1>7, <1>10, Zenon DEF WebInv, StepOK

(* The service starts.                                                      *)
LEMMA InitOK ==
    ASSUME Init
    PROVE  WebInv
<1>1. TurnInv /\ t.stage = "idle"
  <2>1. t = Fresh
    BY Zenon DEF Init
  <2> QED BY <2>1, FreshOK, Zenon DEF Fresh
<1>2. owner = NoClient /\ gate = 1 /\ committed = {} /\ NoClient \notin Clients
  BY ClientsAssumption, Zenon DEF Init
<1>3. client = [c \in Clients |-> [st |-> "idle", chan |-> <<>>, told |-> <<>>]]
  BY Zenon DEF Init
<1>4. ClientShape
  BY <1>1, <1>2, <1>3, SMTT(30) DEF ClientShape, Streams
<1>5. ClientInv
  BY <1>2, <1>3, Zenon DEF ClientInv, Before
<1> QED BY <1>1, <1>4, <1>5, Zenon DEF WebInv

(* Every step of the service keeps the invariant.                           *)
LEMMA NextOK ==
    ASSUME WebInv, [Next]_vars
    PROVE  WebInv'
<1>1. CASE Enter
  BY <1>1, EnterOK, Zenon
<1>2. CASE Model
  BY <1>2, ModelOK, Zenon
<1>3. CASE Deadline
  BY <1>3, DeadlineOK, Zenon
<1>4. CASE FinishTask
  BY <1>4, FinishTaskOK, Zenon
<1>5. ASSUME NEW c \in Clients, Refuse(c) \/ Post(c) \/ Receive(c) \/ Disconnect(c) \/ DropGuard(c) PROVE WebInv'
  BY <1>5, RefuseOK, PostOK, ReceiveOK, DisconnectOK, DropGuardOK, Zenon
<1>6. CASE UNCHANGED vars
  <2>1. t' = t /\ gate' = gate /\ owner' = owner /\ client' = client /\ committed' = committed
    BY <1>6, Zenon DEF vars
  <2>2. TurnInv'
    BY <2>1, TurnKept, Zenon DEF WebInv
  <2>3. ClientShape' /\ ClientInv'
    BY <2>1, ZenonT(30) DEF WebInv, ClientShape, ClientInv, Before, During, Queued, Told, Left, Truth
  <2> QED BY <2>2, <2>3, Zenon DEF WebInv
<1> QED BY <1>1, <1>2, <1>3, <1>4, <1>5, <1>6, Zenon DEF Next

(* The inductive invariant of the service and its engine.                   *)
LEMMA WebInvariant == Spec => []WebInv
<1>1. Init => WebInv
  BY InitOK, Zenon
<1>2. WebInv /\ [Next]_vars => WebInv'
  BY NextOK, Zenon
<1> QED BY <1>1, <1>2, PTL DEF Spec

(* What the invariant says of the streams is what a client is told.         *)
LEMMA ToldTruth ==
    ASSUME WebInv
    PROVE  WebClientTold
<1> DEFINE told(c) == client[c].told
           chan(c) == client[c].chan
           queued(c) == {i \in DOMAIN chan(c) : chan(c)[i] # "status"}
           heard(c) == Range(told(c)) \cup {chan(c)[i] : i \in queued(c)}
<1>1. ASSUME NEW c \in Clients
      PROVE  /\ Len(told(c)) <= 1 /\ \A i, j \in queued(c) : i = j
             /\ told(c) # <<>> => chan(c) = <<>>
             /\ client[c].st = "ended" => Len(told(c)) = 1
             /\ \A e \in heard(c) : e = "committed" <=> c \in committed
  <2>1. /\ client[c].st \in Streams /\ chan(c) \in Seq({"status", "committed", "error"})
        /\ told(c) \in Seq({"committed", "error"})
    BY StreamFields, Zenon DEF WebInv
  <2>2. OneClient(c)
    BY ZenonT(30) DEF WebInv, ClientInv, OneClient
  <2>3. \/ told(c) = <<>> /\ queued(c) = {} /\ client[c].st # "ended"
        \/ Queued(c) /\ client[c].st # "ended"
        \/ Told(c)
    <3>1. CASE owner = c
      BY <2>2, <3>1, Zenon DEF OneClient, During
    <3>2. CASE owner # c /\ client[c].st \in {"idle", "refused"}
      BY <2>2, <3>2, SMTT(30) DEF OneClient, Before
    <3>3. CASE owner # c /\ client[c].st = "open"
      BY <2>2, <3>3, ZenonT(30) DEF OneClient
    <3>4. CASE owner # c /\ client[c].st = "ended"
      BY <2>2, <3>4, Zenon DEF OneClient
    <3>5. CASE owner # c /\ client[c].st \in {"dropping", "closed"}
      BY <2>2, <3>5, SMTT(30) DEF OneClient, Left
    <3> QED BY <2>1, <3>1, <3>2, <3>3, <3>4, <3>5, ZenonT(30) DEF Streams
  <2>4. CASE told(c) = <<>> /\ queued(c) = {} /\ client[c].st # "ended"
    <3>1. Len(told(c)) = 0 /\ Range(told(c)) = {}
      BY <2>4, SMTT(30) DEF Range
    <3> QED BY <2>4, <3>1, SMTT(30)
  <2>5. CASE Queued(c) /\ client[c].st # "ended"
    <3>1. /\ told(c) = <<>>
          /\ \A i \in DOMAIN chan(c) : IF i = Len(chan(c)) THEN chan(c)[i] # "status" /\ Truth(c, chan(c)[i])
                                       ELSE chan(c)[i] = "status"
      BY <2>5, Zenon DEF Queued
    <3>2. Len(told(c)) = 0 /\ Range(told(c)) = {}
      BY <3>1, SMTT(30) DEF Range
    <3>3. \A i \in queued(c) : i = Len(chan(c)) /\ Truth(c, chan(c)[i])
      BY <3>1, Zenon
    <3> HIDE DEF queued
    <3> QED BY <2>5, <3>1, <3>2, <3>3, SMTT(30) DEF Truth
  <2>6. CASE Told(c)
    <3>1. chan(c) = <<>> /\ Len(told(c)) = 1 /\ Truth(c, told(c)[1])
      BY <2>6, Zenon DEF Told
    <3>2. queued(c) = {}
      BY <3>1, SMTT(30)
    <3>3. Range(told(c)) = {told(c)[1]}
      BY <2>1, <3>1 DEF Range
    <3> HIDE DEF queued
    <3> QED BY <3>1, <3>2, <3>3, SMTT(30) DEF Truth
  <2> QED BY <2>3, <2>4, <2>5, <2>6, ZenonT(30)
<1> QED BY <1>1, Zenon DEF WebClientTold

-----------------------------------------------------------------------------
(* What the service and its engine guarantee. *)

(* Whatever rules, texts and hashes an activation meets, it admits one entry *)
(* per group, within both budgets, at its level and for a reason in the text *)
(* it may read (ActivationEngine::activate, run from BaselinePipeline).      *)
THEOREM WebKnowledgeAdmitted == Spec => []KnowledgeAdmitted
<1>1. WebInv => KnowledgeAdmitted
  BY Zenon DEF WebInv, TurnInv, ActivationInv
<1> QED BY <1>1, WebInvariant, PTL

(* The checks of retrieval, think and generate never fail on a plan that     *)
(* parse_plan_output accepted, and ThinkPipeline hands the decisions on in   *)
(* the order of the requests however its buffered calls finish.              *)
THEOREM WebStagesAgree == Spec => []StagesAgree
<1>1. WebInv => StagesAgree
  BY StagesAgreed, Zenon DEF WebInv
<1> QED BY <1>1, WebInvariant, PTL

(* validate_and_repair goes on with a draft that met every target, or after  *)
(* the last repair with the best of the drafts that passed the hard gate.    *)
THEOREM WebChosenDraft == Spec => []ChosenDraft
<1>1. WebInv => ChosenDraft
  BY Zenon DEF WebInv, TurnInv, HistoryInv, Chosen, ChosenDraft
<1> QED BY <1>1, WebInvariant, PTL

(* A client of the event stream hears at most one terminal event, last, and  *)
(* it says whether the store holds the turn; a stream that ended gave it.    *)
THEOREM WebTellsTheStore == Spec => []WebClientTold
<1>1. WebInv => WebClientTold
  BY ToldTruth, Zenon
<1> QED BY <1>1, WebInvariant, PTL
=============================================================================
