--------------------------- MODULE CoreStoreProofs ---------------------------
(***************************************************************************)
(* The inductive invariant of CoreStore, for any number of stories, keys   *)
(* and calls, any graph and any extraction; what the operators of a turn   *)
(* do to it; and the steps and the theorems that follow from it.           *)
(*                                                                         *)
(* The argument: a context changes only in commit, which adds one to its   *)
(* turn number, so a call whose copy has the story's turn number has the   *)
(* story's context (CallOK). Commit accepts only such a call, and what     *)
(* extract and summary made of the copy they made of the story.            *)
(*                                                                         *)
(* What resolve_proposals, evaluate and collect_semantic compute is proved *)
(* by induction on the proposals and on the table of conditions (Induct).  *)
(***************************************************************************)
EXTENDS CoreStore, FiniteSetTheorems, WellFoundedInduction, TLAPS

Fields == {"pc", "story", "key", "ctx", "draft", "outcome", "answer"}
DraftFields == {"turn", "covered", "change", "narrative", "completes"}

(* The functions have their domains, the calls their fields. *)
Shape ==
    /\ DOMAIN calls = Calls
    /\ \A c \in Calls : DOMAIN calls[c] = Fields /\ calls[c] = [f \in Fields |-> calls[c][f]]
    /\ DOMAIN stories = Stories /\ DOMAIN info = Stories /\ DOMAIN committed = Stories
    /\ \A s \in Stories : DOMAIN committed[s] = Keys
    /\ DOMAIN packs = Digests /\ DOMAIN holder = Stories /\ DOMAIN manager = Stories
    /\ starts \in Nat

SummaryOn == SummaryTurnCount \in 1 .. MaxRecentTurns

Window(x) ==
    /\ x.covered \in 0 .. x.turn
    /\ x.recent = [i \in 1 .. x.turn - x.covered |-> x.covered + i]
    /\ Len(x.recent) <= SummaryTurnCount

(* Without a summary nothing is covered: covered_turn_count finds too few turns. *)
Unsummarised(x) ==
    /\ x.covered = 0
    /\ x.recent \in Seq(Nat \ {0})
    /\ Len(x.recent) <= MaxRecentTurns

TerminalDone(state) == \E n \in Nodes : Graph[n].terminal /\ state[n] = "completed"

Advances(a, b) == \A n \in Nodes : b[n] = a[n] \/ <<a[n], b[n]>> \in Forward

RecentOK(x) == IF SummaryOn THEN Window(x) ELSE Unsummarised(x)
KnownOK(x) == \A k \in Kinds : x.knowledge[k] \in SUBSET Names /\ IsFiniteSet(x.knowledge[k])

(* Commit takes the change of draft d. *)
ChangeOK(x, d) ==
    /\ \A k \in Kinds : d.change[k] \in Seq(KnowledgeOp)
    /\ validate_knowledge_change(x, d.change)

(* A context that creation or a commit may leave behind. *)
GoodContext(x) ==
    /\ x.turn \in Nat
    /\ x.life \in LifeCycle
    /\ x.narrative \in [Nodes -> NodeStatus]
    /\ x.life = "completed" <=> TerminalDone(x.narrative)
    /\ RecentOK(x)
    /\ KnownOK(x)

(* What extract makes of context x. *)
GoodDraft(x, d) ==
    /\ DOMAIN d = DraftFields
    /\ d.turn = x.turn + 1
    /\ d.narrative # None => d.narrative \in [Nodes -> NodeStatus] /\ Advances(x.narrative, d.narrative)
    /\ d.completes \in BOOLEAN
    /\ d.completes <=> (d.narrative # None /\ completes_story(x.narrative, d.narrative))
    /\ ChangeOK(x, d)

(* What summary makes of it. *)
SummaryOf(x) == IF covered_turn_count(x) = 0 THEN 0 ELSE x.recent[covered_turn_count(x)]

Working == {"baseline", "generating", "extracting", "resolving", "summarising", "finding", "storing"}
Drafted == {"summarising", "finding", "storing"}
Summarised == {"finding", "storing"}

(* Call r has started, or returned, and holds neither a context nor a draft. *)
CallIs(r, p, s, k, o, a) ==
    r = [pc |-> p, story |-> s, key |-> k, ctx |-> None, draft |-> None, outcome |-> o, answer |-> a]

(* Call r against the stores: st stories, cm committed, mg manager. *)
CallOK(r, st, cm, mg) ==
    /\ r.pc \in PC
    /\ r.pc # "idle" => r.story \in Stories /\ r.key \in Keys /\ mg[r.story] \in {"live", "releasing", "gone"}
    /\ r.pc \in Working =>
          /\ GoodContext(r.ctx)
          /\ r.ctx.life = "active"
          /\ st[r.story] # None =>
                /\ r.ctx.turn <= st[r.story].turn
                /\ r.ctx.turn = st[r.story].turn => r.ctx = st[r.story]
    /\ r.pc \in Drafted => GoodDraft(r.ctx, r.draft)
    /\ r.pc \in Summarised => r.draft.covered = SummaryOf(r.ctx)
    /\ r.outcome # "none" => r.pc = "done"
    /\ r.outcome = "committed" /\ st[r.story] # None =>
          cm[r.story][r.key] = r.answer /\ r.answer # None
    /\ r.outcome = "pack_missing" => st[r.story] = None
    /\ r.outcome \notin {"bad_summary", "bad_knowledge"}

CallsOK == \A c \in Calls : CallOK(calls[c], stories, committed, manager)

(* Log row cm of a story at turn n: each number has its key. *)
Logged(cm, n) ==
    /\ \A k \in Keys : cm[k] # None => cm[k].turn \in 1 .. n
    /\ \A t \in 1 .. n : \E k \in Keys : cm[k] # None /\ cm[k].turn = t
    /\ \A k, l \in Keys : cm[k] # None /\ cm[l] # None /\ k # l => cm[k].turn # cm[l].turn

(* Row new is row old with turn n + 1 under the free key k. *)
Extends(old, new, n, k) ==
    /\ old[k] = None /\ new[k] # None /\ new[k].turn = n + 1
    /\ \A l \in Keys : l # k => new[l] = old[l]

(* A story x with its info i, commits cm and manager m. *)
StoryOK(x, i, cm, m) ==
    /\ m \in Managing
    /\ x # None <=> m = "live"
    /\ x = None => i = "active" /\ \A k \in Keys : cm[k] = None
    /\ x # None => GoodContext(x) /\ i = x.life /\ Logged(cm, x.turn)

StoriesOK == \A s \in Stories : StoryOK(stories[s], info[s], committed[s], manager[s])

PacksOK ==
    /\ \A s \in Stories : manager[s] \in {"retained", "compensating", "live"} => holder[s] = Digest[s]
    /\ \A s \in Stories : manager[s] \in {"unborn", "gone"} => holder[s] = None
    /\ \A d \in Digests : packs[d] = {s \in Stories : holder[s] = d}

Inv == Shape /\ StoriesOK /\ PacksOK /\ CallsOK

-----------------------------------------------------------------------------
(* Induction. *)

LEMMA LeastNat ==
    ASSUME NEW T, T \subseteq Nat, T # {}
    PROVE  \E x \in T : \A y \in T : x <= y
<1> DEFINE R == {ss \in Nat \X Nat : ss[1] < ss[2]}
<1>1. IsWellFoundedOn(R, Nat)
  BY NatLessThanWellFounded, Zenon DEF OpToRel
<1> HIDE DEF R
<1>2. PICK x \in T : \A y \in T : ~ (<<y, x>> \in R)
  BY <1>1, WFMin, Zenon
<1>3. ASSUME NEW y \in T PROVE x <= y
  <2>1. <<y, x>> \notin R
    BY <1>2, Zenon
  <2>2. <<y, x>> \in Nat \X Nat
    BY Zenon
  <2>3. ~(y < x)
    BY <2>1, <2>2, Zenon DEF R
  <2> QED BY <2>3
<1> QED BY <1>3, Zenon

(* A call that starts, or that has returned. *)
LEMMA CallRecord ==
    ASSUME NEW r, NEW p, NEW s, NEW k, NEW o, NEW a, CallIs(r, p, s, k, o, a)
    PROVE  /\ r.pc = p /\ r.story = s /\ r.key = k /\ r.outcome = o /\ r.answer = a
           /\ DOMAIN r = Fields /\ r = [f \in Fields |-> r[f]]
BY Zenon DEF CallIs, Fields

LEMMA Induct ==
    ASSUME NEW S, 0 \in S, \A n \in Nat : n \in S => n + 1 \in S
    PROVE  Nat \subseteq S
<1> DEFINE T == Nat \ S
<1> SUFFICES ASSUME T # {} PROVE FALSE
  BY Zenon
<1>1. PICK x \in T : \A y \in T : x <= y
  BY LeastNat, Zenon
<1>2. x # 0 /\ x \in Nat
  BY <1>1, Zenon
<1>3. x - 1 \in Nat /\ x - 1 \notin T
  BY <1>1, <1>2
<1> QED BY <1>1, <1>2, <1>3

-----------------------------------------------------------------------------
(* The narrative. *)

(* One pass of NarrativeGraph::resolve moves nodes forward only.            *)
LEMMA ResolveAdvances ==
    ASSUME NEW state \in [Nodes -> NodeStatus], NEW turn, NEW results
    PROVE  /\ resolve(state, turn, results) \in [Nodes -> NodeStatus]
           /\ Advances(state, resolve(state, turn, results))
<1> DEFINE value == evaluate(state, turn, results)
<1>1. \A n \in Nodes : /\ next_status(n, state, value) \in NodeStatus
                       /\ \/ next_status(n, state, value) = state[n]
                          \/ <<state[n], next_status(n, state, value)>> \in Forward
  <2> HIDE DEF value
  <2> QED BY Zenon DEF next_status, NodeStatus, Forward, Satisfied
<1> QED BY <1>1, ZenonT(30) DEF resolve, Advances

(* A new story has no completed node.                                       *)
LEMMA InitialNotDone ==
    /\ initial_state \in [Nodes -> NodeStatus]
    /\ ~TerminalDone(initial_state)
<1> DEFINE start == [n \in Nodes |-> "inactive"]
<1>1. start \in [Nodes -> NodeStatus]
  BY Zenon DEF NodeStatus
<1>2. /\ initial_state \in [Nodes -> NodeStatus]
      /\ Advances(start, initial_state)
  BY <1>1, ResolveAdvances, Zenon DEF initial_state
<1>3. \A n \in Nodes : initial_state[n] # "completed"
  <2> SUFFICES ASSUME NEW n \in Nodes PROVE initial_state[n] # "completed"
    BY Zenon
  <2>1. start[n] = "inactive"
    BY Zenon
  <2> HIDE DEF start
  <2> QED BY <1>2, <2>1, Zenon DEF Advances, Forward
<1> QED BY <1>2, <1>3, Zenon DEF TerminalDone

(* The value of condition c when f has those of its operands. *)
ValueOf(state, turn, results, f, c) ==
    CASE Kind(c) = "all" -> all({f[d] : d \in Conditions[c].of})
      [] Kind(c) = "any" -> any({f[d] : d \in Conditions[c].of})
      [] Kind(c) = "not" -> negate(CHOOSE t \in {f[d] : d \in Conditions[c].of} : TRUE)
      [] Kind(c) = "story_started" -> Satisfied
      [] Kind(c) = "turn_reaches" -> from_bool(turn >= Conditions[c].turn)
      [] Kind(c) = "node_is" -> from_bool(state[Conditions[c].node] = Conditions[c].status)
      [] Kind(c) = "semantic" -> IF Conditions[c].id \in DOMAIN results THEN results[Conditions[c].id] ELSE Unknown

(* The semantic ids under condition c. *)
IdsOf(f, c) ==
    CASE Kind(c) \in {"all", "any", "not"} -> UNION {f[d] : d \in Conditions[c].of}
      [] Kind(c) = "semantic" -> {Conditions[c].id}
      [] OTHER -> {}

(* A condition looks at its operands only. *)
LEMMA ValueLocal ==
    ASSUME NEW state, NEW turn, NEW results, NEW f, NEW g, NEW c \in DOMAIN Conditions,
           \A d \in 1 .. c - 1 : f[d] = g[d]
    PROVE  /\ ValueOf(state, turn, results, f, c) = ValueOf(state, turn, results, g, c)
           /\ IdsOf(f, c) = IdsOf(g, c)
<1>1. CASE Kind(c) \in {"all", "any", "not"}
  <2>1. Conditions[c].of \subseteq 1 .. c - 1
    BY <1>1, GraphAssumption, Zenon DEF validate
  <2>2. {f[d] : d \in Conditions[c].of} = {g[d] : d \in Conditions[c].of}
    BY <2>1, Zenon
  <2> QED BY <2>2, Zenon DEF ValueOf, IdsOf
<1>2. CASE Kind(c) \notin {"all", "any", "not"}
  <2>1. ValueOf(state, turn, results, f, c) = ValueOf(state, turn, results, g, c)
    BY <1>2, GraphAssumption, Zenon DEF ValueOf, ConditionKinds
  <2>2. IdsOf(f, c) = IdsOf(g, c)
    BY <1>2, Zenon DEF IdsOf
  <2> QED BY <2>1, <2>2, Zenon
<1> QED BY <1>1, <1>2, Zenon

(* evaluate gives every condition its value. *)
LEMMA EvaluateDef ==
    ASSUME NEW state, NEW turn, NEW results
    PROVE  \A c \in DOMAIN Conditions :
               evaluate(state, turn, results)[c]
                   = ValueOf(state, turn, results, evaluate(state, turn, results), c)
<1> DEFINE n == Len(Conditions)
           B(f, c) == ValueOf(state, turn, results, f, c)
           Is(f, m) == f = [c \in 1 .. m |-> B(f, c)]
           S == {m \in Nat : m <= n => \E f : Is(f, m)}
<1>0. n \in Nat /\ DOMAIN Conditions = 1 .. n
  BY GraphAssumption, Zenon
<1>1. 0 \in S
  <2> DEFINE f == [c \in 1 .. 0 |-> Satisfied]
  <2>1. f = [c \in 1 .. 0 |-> B(f, c)]
    <3> HIDE DEF B
    <3> QED OBVIOUS
  <2> QED BY <2>1, Zenon
<1>2. ASSUME NEW m \in Nat, m \in S PROVE m + 1 \in S
  <2> SUFFICES ASSUME m + 1 <= n PROVE \E f : Is(f, m + 1)
    OBVIOUS
  <2>1. PICK f : Is(f, m)
    BY <1>0, <1>2
  <2> DEFINE g == [c \in 1 .. m + 1 |-> IF c <= m THEN f[c] ELSE B(f, m + 1)]
             h == [c \in 1 .. m + 1 |-> B(g, c)]
  <2>2. \A c \in 1 .. m : g[c] = f[c]
    OBVIOUS
  <2>3. ASSUME NEW c \in 1 .. m + 1 PROVE g[c] = h[c]
    <3>1. c \in DOMAIN Conditions /\ \A d \in 1 .. c - 1 : f[d] = g[d]
      BY <1>0, <2>2
    <3> HIDE DEF g
    <3>2. B(f, c) = B(g, c)
      BY <3>1, ValueLocal, Zenon
    <3>3. g[c] = B(f, c)
      <4>1. CASE c <= m
        <5>1. f[c] = B(f, c)
          <6> HIDE DEF B
          <6> QED BY <2>1, <4>1
        <5> QED BY <2>2, <4>1, <5>1
      <4>2. CASE c = m + 1
        <5> HIDE DEF B
        <5> QED BY <4>2 DEF g
      <4> QED BY <4>1, <4>2
    <3> HIDE DEF B
    <3> QED BY <3>2, <3>3, Zenon
  <2>4. g = h
    <3>1. g = [c \in 1 .. m + 1 |-> g[c]] /\ h = [c \in 1 .. m + 1 |-> h[c]]
      <4> HIDE DEF B
      <4> QED BY Zenon
    <3> HIDE DEF g, h
    <3> QED BY <2>3, <3>1, Zenon
  <2>5. Is(g, m + 1)
    <3> HIDE DEF g, B
    <3> QED BY <2>4, Zenon
  <2> HIDE DEF Is, g
  <2> QED BY <2>5, Zenon
<1> DEFINE v == CHOOSE f : f = [c \in DOMAIN Conditions |-> B(f, c)]
<1>3. Is(v, n)
  <2>1. n \in S
    <3> HIDE DEF S
    <3> QED BY <1>0, <1>1, <1>2, Induct, Zenon
  <2>2. PICK f : Is(f, n)
    BY <1>0, <2>1
  <2> HIDE DEF B
  <2> QED BY <1>0, <2>2, Zenon
<1>4. v = evaluate(state, turn, results)
  BY Zenon DEF evaluate, ValueOf, Kind
<1> HIDE DEF v, B
<1>5. \A c \in DOMAIN Conditions : v[c] = B(v, c)
  BY <1>0, <1>3, Zenon
<1> QED BY <1>4, <1>5, Zenon DEF B
(* collect_semantic gives every condition its ids. *)
LEMMA CollectDef ==
    \A c \in DOMAIN Conditions : collect_semantic[c] = IdsOf(collect_semantic, c)
<1> DEFINE n == Len(Conditions)
           B(f, c) == IdsOf(f, c)
           Is(f, m) == f = [c \in 1 .. m |-> B(f, c)]
           S == {m \in Nat : m <= n => \E f : Is(f, m)}
<1>0. n \in Nat /\ DOMAIN Conditions = 1 .. n
  BY GraphAssumption, Zenon
<1>1. 0 \in S
  <2> DEFINE f == [c \in 1 .. 0 |-> Satisfied]
  <2>1. f = [c \in 1 .. 0 |-> B(f, c)]
    <3> HIDE DEF B
    <3> QED OBVIOUS
  <2> QED BY <2>1, ZenonT(30)
<1>2. ASSUME NEW m \in Nat, m \in S PROVE m + 1 \in S
  <2> SUFFICES ASSUME m + 1 <= n PROVE \E f : Is(f, m + 1)
    OBVIOUS
  <2>1. PICK f : Is(f, m)
    BY <1>0, <1>2
  <2> DEFINE g == [c \in 1 .. m + 1 |-> IF c <= m THEN f[c] ELSE B(f, m + 1)]
             h == [c \in 1 .. m + 1 |-> B(g, c)]
  <2>2. \A c \in 1 .. m : g[c] = f[c]
    OBVIOUS
  <2>3. ASSUME NEW c \in 1 .. m + 1 PROVE g[c] = h[c]
    <3>1. c \in DOMAIN Conditions /\ \A d \in 1 .. c - 1 : f[d] = g[d]
      BY <1>0, <2>2
    <3> HIDE DEF g
    <3>2. B(f, c) = B(g, c)
      BY <3>1, ValueLocal, Zenon
    <3>3. g[c] = B(f, c)
      <4>1. CASE c <= m
        <5>1. f[c] = B(f, c)
          <6> HIDE DEF B
          <6> QED BY <2>1, <4>1
        <5> QED BY <2>2, <4>1, <5>1
      <4>2. CASE c = m + 1
        <5> HIDE DEF B
        <5> QED BY <4>2 DEF g
      <4> QED BY <4>1, <4>2
    <3> HIDE DEF B
    <3> QED BY <3>2, <3>3, Zenon
  <2>4. g = h
    <3>1. g = [c \in 1 .. m + 1 |-> g[c]] /\ h = [c \in 1 .. m + 1 |-> h[c]]
      <4> HIDE DEF B
      <4> QED BY Zenon
    <3> HIDE DEF g, h
    <3> QED BY <2>3, <3>1, Zenon
  <2>5. Is(g, m + 1)
    <3> HIDE DEF g, B
    <3> QED BY <2>4, Zenon
  <2> HIDE DEF Is, g
  <2> QED BY <2>5, Zenon
<1> DEFINE v == CHOOSE f : f = [c \in DOMAIN Conditions |-> B(f, c)]
<1>3. Is(v, n)
  <2>1. n \in S
    <3> HIDE DEF S
    <3> QED BY <1>0, <1>1, <1>2, Induct, Zenon
  <2>2. PICK f : Is(f, n)
    BY <1>0, <2>1
  <2> HIDE DEF B
  <2> QED BY <1>0, <2>2, Zenon
<1>4. v = collect_semantic
  BY Zenon DEF collect_semantic, IdsOf
<1> HIDE DEF v, B
<1>5. \A c \in DOMAIN Conditions : v[c] = B(v, c)
  BY <1>0, <1>3, Zenon
<1> QED BY <1>4, <1>5, Zenon DEF B

(* Results r1 and r2 answer alike what was asked. *)
SameOn(asked, r1, r2) == \A i \in asked : (i \in DOMAIN r1 <=> i \in DOMAIN r2) /\ r1[i] = r2[i]

(* Answers outside the ids of a condition do not matter to it. *)
LEMMA AgreeOnAsked ==
    ASSUME NEW state, NEW turn, NEW r1, NEW r2, NEW asked, SameOn(asked, r1, r2)
    PROVE  \A c \in DOMAIN Conditions : collect_semantic[c] \subseteq asked =>
               evaluate(state, turn, r1)[c] = evaluate(state, turn, r2)[c]
<1> DEFINE n == Len(Conditions)
           v == evaluate(state, turn, r1)
           w == evaluate(state, turn, r2)
           Agree(c) == collect_semantic[c] \subseteq asked => v[c] = w[c]
           S == {m \in Nat : \A c \in 1 .. m : c <= n => Agree(c)}
<1>0. n \in Nat /\ DOMAIN Conditions = 1 .. n
  BY GraphAssumption, Zenon
<1>1. 0 \in S
  OBVIOUS
<1>2. ASSUME NEW m \in Nat, m \in S PROVE m + 1 \in S
  <2>1. ASSUME m + 1 <= n, collect_semantic[m + 1] \subseteq asked PROVE v[m + 1] = w[m + 1]
    <3> DEFINE c == m + 1
    <3>1. c \in DOMAIN Conditions /\ c - 1 = m
      BY <1>0, <2>1
    <3>2. /\ v[c] = ValueOf(state, turn, r1, v, c)
          /\ w[c] = ValueOf(state, turn, r2, w, c)
          /\ collect_semantic[c] = IdsOf(collect_semantic, c)
      BY <3>1, EvaluateDef, CollectDef, Zenon
    <3> HIDE DEF c, v, w
    <3>3. CASE Kind(c) \in {"all", "any", "not"}
      <4>1. Conditions[c].of \subseteq 1 .. m
        BY <3>1, <3>3, GraphAssumption, Zenon DEF validate
      <4>2. \A d \in Conditions[c].of : collect_semantic[d] \subseteq asked
        BY <2>1, <3>2, <3>3, Zenon DEF IdsOf, c
      <4>3. \A d \in Conditions[c].of : v[d] = w[d]
        BY <1>0, <1>2, <2>1, <4>1, <4>2
      <4>4. {v[d] : d \in Conditions[c].of} = {w[d] : d \in Conditions[c].of}
        BY <4>3, Zenon
      <4> QED BY <3>2, <3>3, <4>4, Zenon DEF ValueOf, c
    <3>4. CASE Kind(c) = "semantic"
      <4>1. Conditions[c].id \in asked
        BY <2>1, <3>2, <3>4, Zenon DEF IdsOf, c
      <4> QED BY <3>2, <3>4, <4>1, Zenon DEF ValueOf, SameOn, c
    <3>5. CASE Kind(c) \in {"story_started", "turn_reaches", "node_is"}
      BY <3>2, <3>5, Zenon DEF ValueOf, c
    <3> QED BY <3>1, <3>3, <3>4, <3>5, GraphAssumption, Zenon DEF ConditionKinds
  <2> HIDE DEF v, w
  <2> QED BY <1>2, <2>1
<1>3. Nat \subseteq S
  <2> HIDE DEF S
  <2> QED BY <1>1, <1>2, Induct, Zenon
<1> HIDE DEF v, w
<1>4. \A c \in DOMAIN Conditions : Agree(c)
  BY <1>0, <1>3
<1> QED BY <1>4, Zenon DEF v, w

(* The pass of resolve depends on the answers it asked for only. *)
LEMMA ResolveAsked ==
    ASSUME NEW state \in [Nodes -> NodeStatus], NEW turn, NEW r1, NEW r2, SameOn(queries(state), r1, r2)
    PROVE  resolve(state, turn, r1) = resolve(state, turn, r2)
<1> DEFINE v == evaluate(state, turn, r1)
           w == evaluate(state, turn, r2)
<1>1. \A c \in DOMAIN Conditions : collect_semantic[c] \subseteq queries(state) => v[c] = w[c]
  BY AgreeOnAsked
<1> HIDE DEF v, w
<1>2. ASSUME NEW n \in Nodes PROVE next_status(n, state, v) = next_status(n, state, w)
  <2>1. \A c \in watched_conditions(n, state[n]) : collect_semantic[c] \subseteq queries(state)
    BY Zenon DEF queries
  <2>2. /\ Graph[n].activate \in DOMAIN Conditions /\ Graph[n].complete \in DOMAIN Conditions
        /\ Graph[n].skip # 0 => Graph[n].skip \in DOMAIN Conditions
        /\ 0 \notin DOMAIN Conditions
    BY GraphAssumption
  <2>3. CASE state[n] = "inactive"
    <3>1. v[Graph[n].activate] = w[Graph[n].activate]
      BY <1>1, <2>1, <2>2, <2>3, Zenon DEF watched_conditions
    <3> QED BY <2>3, <3>1, Zenon DEF next_status
  <2>4. CASE state[n] = "active"
    <3>1. v[Graph[n].complete] = w[Graph[n].complete]
      BY <1>1, <2>1, <2>2, <2>4, Zenon DEF watched_conditions
    <3>2. Graph[n].skip # 0 => v[Graph[n].skip] = w[Graph[n].skip]
      BY <1>1, <2>1, <2>2, <2>4, Zenon DEF watched_conditions
    <3> QED BY <2>4, <3>1, <3>2, Zenon DEF next_status
  <2>5. CASE state[n] \notin {"inactive", "active"}
    BY <2>5, Zenon DEF next_status
  <2> QED BY <2>3, <2>4, <2>5, Zenon
<1> QED BY <1>2, Zenon DEF resolve, v, w

(* What queries leaves out is no semantic id. *)
LEMMA QueriesSemantic ==
    ASSUME NEW state \in [Nodes -> NodeStatus]
    PROVE  queries(state) \subseteq SemanticIds
<1> DEFINE n == Len(Conditions)
           S == {m \in Nat : \A c \in 1 .. m : c <= n => collect_semantic[c] \subseteq SemanticIds}
<1>0. n \in Nat /\ DOMAIN Conditions = 1 .. n
  BY GraphAssumption, Zenon
<1>1. 0 \in S
  OBVIOUS
<1>2. ASSUME NEW m \in Nat, m \in S PROVE m + 1 \in S
  <2>1. ASSUME m + 1 <= n PROVE collect_semantic[m + 1] \subseteq SemanticIds
    <3>1. m + 1 \in DOMAIN Conditions /\ m + 1 - 1 = m
      BY <1>0, <2>1
    <3>2. collect_semantic[m + 1] = IdsOf(collect_semantic, m + 1)
      BY <3>1, CollectDef, Zenon
    <3>3. CASE Kind(m + 1) \in {"all", "any", "not"}
      <4>1. Conditions[m + 1].of \subseteq 1 .. m
        BY <3>1, <3>3, GraphAssumption DEF validate
      <4>2. \A d \in Conditions[m + 1].of : collect_semantic[d] \subseteq SemanticIds
        BY <1>0, <1>2, <2>1, <4>1
      <4> QED BY <3>2, <3>3, <4>2 DEF IdsOf
    <3>4. CASE Kind(m + 1) = "semantic"
      BY <3>1, <3>2, <3>4, Zenon DEF IdsOf, SemanticIds
    <3>5. CASE Kind(m + 1) \notin {"all", "any", "not", "semantic"}
      BY <3>2, <3>5, Zenon DEF IdsOf
    <3> QED BY <3>3, <3>4, <3>5, Zenon
  <2> QED BY <1>2, <2>1
<1>3. Nat \subseteq S
  <2> HIDE DEF S
  <2> QED BY <1>1, <1>2, Induct, Zenon
<1>4. \A c \in DOMAIN Conditions : collect_semantic[c] \subseteq SemanticIds
  BY <1>0, <1>3
<1>5. \A m \in Nodes : watched_conditions(m, state[m]) \subseteq DOMAIN Conditions
  BY GraphAssumption, Zenon DEF watched_conditions
<1> QED BY <1>4, <1>5, Zenon DEF queries

-----------------------------------------------------------------------------
(* Knowledge. *)

(* A name that allocate_id gives is free. *)
LEMMA AllocatedFree ==
    ASSUME NEW taken, IsFiniteSet(taken), NEW turn \in Nat, NEW seq \in Nat
    PROVE  allocate_id(taken, turn, seq) \in Names \ taken
<1> DEFINE I == seq .. seq + Cardinality(taken)
           free == {n \in I : <<turn, n>> \notin taken}
<1>1. Cardinality(taken) \in Nat
  BY FS_CardinalityType, Zenon
<1>2. free # {}
  <2> SUFFICES ASSUME free = {} PROVE FALSE
    BY Zenon
  <2> DEFINE f == [n \in I |-> <<turn, n>>]
  <2>1. f \in [I -> taken]
    BY Zenon
  <2>2. IsFiniteSet(I) /\ Cardinality(taken) < Cardinality(I)
    <3>1. seq \in Int /\ seq + Cardinality(taken) \in Int /\ ~(seq > seq + Cardinality(taken))
      BY <1>1
    <3>2. IsFiniteSet(I) /\ Cardinality(I) = (seq + Cardinality(taken)) - seq + 1
      BY <3>1, FS_Interval, Zenon
    <3> QED BY <1>1, <3>2
  <2>3. \A x, y \in I : f[x] = f[y] => x = y
    BY Zenon
  <2> HIDE DEF I, f
  <2> QED BY <2>1, <2>2, <2>3, FS_PigeonHole
<1>3. PICK least \in free : \A m \in free : least <= m
  <2>1. free \subseteq Nat
    BY <1>1
  <2> HIDE DEF free
  <2> QED BY <1>2, <2>1, LeastNat, Zenon
<1>4. (CHOOSE n \in free : \A m \in free : n <= m) \in free
  <2> HIDE DEF free
  <2> QED BY <1>3, Zenon
<1> DEFINE v == CHOOSE n \in free : \A m \in free : n <= m
<1>5. allocate_id(taken, turn, seq) = <<turn, v>>
  BY Zenon DEF allocate_id
<1>6. v \in Nat /\ <<turn, v>> \notin taken
  BY <1>1, <1>4
<1> HIDE DEF v
<1> QED BY <1>5, <1>6 DEF Names


(* What resolve_one keeps: new names are free, others exist, none is used twice. *)
Resolved(existing, acc) ==
    /\ acc \in [ok : BOOLEAN, adds : Nat, targeted : SUBSET Names, reserved : SUBSET Names, ops : Seq(KnowledgeOp)]
    /\ IsFiniteSet(acc.reserved) /\ acc.reserved \cap existing = {}
    /\ acc.ok => /\ \A i \in DOMAIN acc.ops :
                       IF acc.ops[i].op = "add" THEN acc.ops[i].id \in acc.reserved
                       ELSE acc.ops[i].id \in acc.targeted \cap existing
                 /\ \A i, j \in DOMAIN acc.ops : i # j => acc.ops[i].id # acc.ops[j].id

(* Appending an operation with a new id. *)
LEMMA AppendFresh ==
    ASSUME NEW ops \in Seq(KnowledgeOp), NEW o \in KnowledgeOp,
           \A i \in DOMAIN ops : ops[i].id # o.id,
           \A i, j \in DOMAIN ops : i # j => ops[i].id # ops[j].id
    PROVE  \A i, j \in DOMAIN Append(ops, o) : i # j => Append(ops, o)[i].id # Append(ops, o)[j].id
<1>1. Len(ops) \in Nat /\ DOMAIN ops = 1 .. Len(ops) /\ DOMAIN Append(ops, o) = 1 .. Len(ops) + 1
  OBVIOUS
<1>2. \A i \in DOMAIN ops : Append(ops, o)[i] = ops[i]
  OBVIOUS
<1>3. Append(ops, o)[Len(ops) + 1] = o
  OBVIOUS
<1> QED BY <1>1, <1>2, <1>3

LEMMA ResolveOne ==
    ASSUME NEW existing \in SUBSET Names, IsFiniteSet(existing), NEW turn \in Nat,
           NEW acc, Resolved(existing, acc), NEW p \in Proposal
    PROVE  Resolved(existing, resolve_one(existing, turn, acc, p))
<1> DEFINE r == resolve_one(existing, turn, acc, p)
<1>1. CASE p.op = "add"
  <2> DEFINE taken == existing \cup acc.reserved
             id == allocate_id(taken, turn, acc.adds + 1)
             o == [op |-> "add", id |-> id]
  <2>1. IsFiniteSet(taken)
    BY FS_Union, Zenon DEF Resolved
  <2>2. id \notin taken /\ id \in Names
    BY <2>1, AllocatedFree DEF Resolved
  <2>3. r = [acc EXCEPT !.ok = @ /\ p.rule, !.adds = @ + 1, !.reserved = @ \cup {id}, !.ops = Append(@, o)]
    BY <1>1, Zenon DEF resolve_one
  <2> HIDE DEF id, r
  <2>4. r \in [ok : BOOLEAN, adds : Nat, targeted : SUBSET Names, reserved : SUBSET Names, ops : Seq(KnowledgeOp)]
    <3>1. r = [ok |-> acc.ok /\ p.rule, adds |-> acc.adds + 1, targeted |-> acc.targeted,
               reserved |-> acc.reserved \cup {id}, ops |-> Append(acc.ops, o)]
      BY <2>3, Zenon DEF Resolved
    <3>2. o \in KnowledgeOp
      BY <2>2, Zenon DEF KnowledgeOp
    <3>3. /\ acc.adds + 1 \in Nat /\ acc.targeted \in SUBSET Names
          /\ acc.reserved \cup {id} \in SUBSET Names /\ Append(acc.ops, o) \in Seq(KnowledgeOp)
      BY <2>2, <3>2 DEF Resolved
    <3>4. (acc.ok /\ p.rule) \in BOOLEAN
      BY Zenon
    <3> HIDE DEF o
    <3> QED BY <3>1, <3>3, <3>4, Zenon
  <2>5. /\ r.ok = (acc.ok /\ p.rule) /\ r.reserved = acc.reserved \cup {id} /\ r.targeted = acc.targeted
        /\ r.ops = Append(acc.ops, o)
    BY <2>3, Zenon DEF Resolved
  <2>6. IsFiniteSet(r.reserved) /\ r.reserved \cap existing = {}
    BY <2>2, <2>5, FS_AddElement DEF Resolved
  <2>7. ASSUME r.ok
        PROVE  /\ \A i \in DOMAIN r.ops : IF r.ops[i].op = "add" THEN r.ops[i].id \in r.reserved
                                          ELSE r.ops[i].id \in r.targeted \cap existing
               /\ \A i, j \in DOMAIN r.ops : i # j => r.ops[i].id # r.ops[j].id
    <3>1. /\ acc.ops \in Seq(KnowledgeOp) /\ o \in KnowledgeOp /\ acc.ok
          /\ \A i \in DOMAIN acc.ops : IF acc.ops[i].op = "add" THEN acc.ops[i].id \in acc.reserved
                                       ELSE acc.ops[i].id \in acc.targeted \cap existing
          /\ \A i, j \in DOMAIN acc.ops : i # j => acc.ops[i].id # acc.ops[j].id
      BY <2>2, <2>5, <2>7, Zenon DEF Resolved, KnowledgeOp
    <3>2. \A i \in DOMAIN acc.ops : acc.ops[i].id # o.id
      BY <3>1, <2>2, Zenon
    <3>3. \A i, j \in DOMAIN r.ops : i # j => r.ops[i].id # r.ops[j].id
      BY <2>5, <3>1, <3>2, AppendFresh
    <3>4. DOMAIN r.ops = 1 .. Len(acc.ops) + 1 /\ DOMAIN acc.ops = 1 .. Len(acc.ops) /\ Len(acc.ops) \in Nat
      BY <2>5, <3>1
    <3>5. (\A i \in DOMAIN acc.ops : r.ops[i] = acc.ops[i]) /\ r.ops[Len(acc.ops) + 1] = o
      BY <2>5, <3>1
    <3>6. o.op = "add" /\ o.id = id
      BY Zenon
    <3> HIDE DEF o
    <3> QED BY <2>5, <3>1, <3>3, <3>4, <3>5, <3>6
  <2> HIDE DEF o
  <2>8. Resolved(existing, r)
    BY <2>4, <2>6, <2>7, Zenon DEF Resolved
  <2> QED BY <2>8, Zenon DEF r
<1>2. CASE p.op # "add"
  <2> DEFINE o == [op |-> p.op, id |-> p.id]
  <2>1. r = [acc EXCEPT !.ok = @ /\ p.id \in existing /\ p.id \notin acc.targeted /\ (p.op = "update" => p.rule),
                        !.targeted = @ \cup {p.id}, !.ops = Append(@, o)]
    BY <1>2, Zenon DEF resolve_one
  <2>2. o \in KnowledgeOp /\ o.id = p.id /\ o.op # "add" /\ p.id \in Names
    BY <1>2, Zenon DEF KnowledgeOp, Proposal
  <2> HIDE DEF r, o
  <2>3. r \in [ok : BOOLEAN, adds : Nat, targeted : SUBSET Names, reserved : SUBSET Names, ops : Seq(KnowledgeOp)]
    <3> DEFINE ok == acc.ok /\ p.id \in existing /\ p.id \notin acc.targeted /\ (p.op = "update" => p.rule)
    <3>1. r = [ok |-> ok, adds |-> acc.adds, targeted |-> acc.targeted \cup {p.id},
               reserved |-> acc.reserved, ops |-> Append(acc.ops, o)]
      BY <2>1, Zenon DEF Resolved
    <3>2. /\ acc.adds \in Nat /\ acc.targeted \cup {p.id} \in SUBSET Names
          /\ acc.reserved \in SUBSET Names /\ Append(acc.ops, o) \in Seq(KnowledgeOp)
      BY <2>2 DEF Resolved
    <3>3. ok \in BOOLEAN
      BY Zenon
    <3> HIDE DEF ok
    <3> QED BY <3>1, <3>2, <3>3, Zenon
  <2>4. /\ r.ok => acc.ok /\ p.id \in existing /\ p.id \notin acc.targeted
        /\ r.reserved = acc.reserved /\ r.targeted = acc.targeted \cup {p.id}
        /\ r.ops = Append(acc.ops, o)
    BY <2>1, Zenon DEF Resolved
  <2>5. ASSUME r.ok
        PROVE  /\ \A i \in DOMAIN r.ops : IF r.ops[i].op = "add" THEN r.ops[i].id \in r.reserved
                                          ELSE r.ops[i].id \in r.targeted \cap existing
               /\ \A i, j \in DOMAIN r.ops : i # j => r.ops[i].id # r.ops[j].id
    <3>1. /\ acc.ops \in Seq(KnowledgeOp) /\ acc.ok /\ acc.reserved \cap existing = {}
          /\ \A i \in DOMAIN acc.ops : IF acc.ops[i].op = "add" THEN acc.ops[i].id \in acc.reserved
                                       ELSE acc.ops[i].id \in acc.targeted \cap existing
          /\ \A i, j \in DOMAIN acc.ops : i # j => acc.ops[i].id # acc.ops[j].id
      BY <2>4, <2>5, Zenon DEF Resolved
    <3>2. \A i \in DOMAIN acc.ops : acc.ops[i].id # o.id
      BY <2>2, <2>4, <2>5, <3>1, Zenon
    <3>3. \A i, j \in DOMAIN r.ops : i # j => r.ops[i].id # r.ops[j].id
      BY <2>2, <2>4, <3>1, <3>2, AppendFresh
    <3>4. DOMAIN r.ops = 1 .. Len(acc.ops) + 1 /\ DOMAIN acc.ops = 1 .. Len(acc.ops) /\ Len(acc.ops) \in Nat
      BY <2>2, <2>4, <3>1
    <3>5. (\A i \in DOMAIN acc.ops : r.ops[i] = acc.ops[i]) /\ r.ops[Len(acc.ops) + 1] = o
      BY <2>2, <2>4, <3>1
    <3> QED BY <2>2, <2>4, <2>5, <3>1, <3>3, <3>4, <3>5
  <2>6. IsFiniteSet(r.reserved) /\ r.reserved \cap existing = {}
    BY <2>4, Zenon DEF Resolved
  <2>7. Resolved(existing, r)
    BY <2>3, <2>5, <2>6, ZenonT(30) DEF Resolved
  <2> QED BY <2>7, Zenon DEF r
<1> QED BY <1>1, <1>2, Zenon

(* resolve_proposals folds resolve_one over the proposals. *)
LEMMA ResolvedProposals ==
    ASSUME NEW existing \in SUBSET Names, IsFiniteSet(existing), NEW turn \in Nat,
           NEW proposals \in Seq(Proposal)
    PROVE  LET r == resolve_proposals(existing, turn, proposals)
           IN  /\ r.ok \in BOOLEAN
               /\ r.ops \in Seq(KnowledgeOp)
               /\ r.ok => /\ \A i, j \in DOMAIN r.ops : i # j => r.ops[i].id # r.ops[j].id
                          /\ \A i \in DOMAIN r.ops : r.ops[i].op = "add" <=> r.ops[i].id \notin existing
<1> DEFINE n == Len(proposals)
           IsAcc(f, m) == f = [i \in 0 .. m |-> IF i = 0 THEN Resolving
                                               ELSE resolve_one(existing, turn, f[i - 1], proposals[i])]
           S == {m \in Nat : \E f : IsAcc(f, m)}
           acc == CHOOSE f : IsAcc(f, n)
<1>1. 0 \in S
  <2> DEFINE f == [i \in 0 .. 0 |-> Resolving]
  <2>1. f = [i \in 0 .. 0 |-> IF i = 0 THEN Resolving ELSE resolve_one(existing, turn, f[i - 1], proposals[i])]
    <3> HIDE DEF f
    <3>1. \A i \in 0 .. 0 : i = 0
      OBVIOUS
    <3> QED BY <3>1, Zenon DEF f
  <2> QED BY <2>1, Zenon
<1>2. ASSUME NEW m \in Nat, m \in S PROVE m + 1 \in S
  <2>1. PICK f : IsAcc(f, m)
    BY <1>2, Zenon
  <2> DEFINE last == resolve_one(existing, turn, f[m], proposals[m + 1])
             g == [i \in 0 .. m + 1 |-> IF i <= m THEN f[i] ELSE last]
             h == [i \in 0 .. m + 1 |-> IF i = 0 THEN Resolving
                                        ELSE resolve_one(existing, turn, g[i - 1], proposals[i])]
  <2>2. ASSUME NEW i \in 0 .. m + 1 PROVE g[i] = h[i]
    <3>1. CASE i = 0
      <4>1. g[i] = f[0] /\ h[i] = Resolving
        BY <3>1
      <4> QED BY <2>1, <4>1
    <3>2. CASE i \in 1 .. m
      <4>1. g[i] = f[i] /\ g[i - 1] = f[i - 1]
        BY <3>2
      <4>2. h[i] = resolve_one(existing, turn, f[i - 1], proposals[i])
        BY <3>2, <4>1
      <4>3. f[i] = resolve_one(existing, turn, f[i - 1], proposals[i])
        BY <2>1, <3>2
      <4> QED BY <4>1, <4>2, <4>3, Zenon
    <3>3. CASE i = m + 1
      <4>1. g[i] = last /\ g[i - 1] = f[m]
        BY <3>3
      <4>2. h[i] = resolve_one(existing, turn, f[m], proposals[i])
        BY <3>3, <4>1
      <4> QED BY <3>3, <4>1, <4>2, Zenon
    <3> QED BY <3>1, <3>2, <3>3
  <2>3. g = h
    <3>1. DOMAIN g = 0 .. m + 1 /\ DOMAIN h = 0 .. m + 1 /\ g = [i \in 0 .. m + 1 |-> g[i]] /\ h = [i \in 0 .. m + 1 |-> h[i]]
      OBVIOUS
    <3> HIDE DEF g, h
    <3> QED BY <2>2, <3>1, Zenon
  <2>4. IsAcc(g, m + 1)
    <3> HIDE DEF g
    <3> QED BY <2>3, Zenon
  <2> HIDE DEF IsAcc, g
  <2> QED BY <2>4
<1>3. n \in Nat
  OBVIOUS
<1>4. IsAcc(acc, n)
  <2>1. n \in S
    <3> HIDE DEF S
    <3> QED BY <1>1, <1>2, <1>3, Induct, Zenon
  <2> HIDE DEF IsAcc
  <2> QED BY <2>1, Zenon
<1>5. /\ acc[0] = Resolving
      /\ \A i \in 1 .. n : acc[i] = resolve_one(existing, turn, acc[i - 1], proposals[i])
  <2> HIDE DEF acc
  <2> QED BY <1>3, <1>4
<1> DEFINE Good == {m \in Nat : m <= n => Resolved(existing, acc[m])}
<1>6. 0 \in Good
  <2>1. Resolved(existing, Resolving)
    BY FS_EmptySet DEF Resolved, Resolving, KnowledgeOp
  <2> HIDE DEF acc
  <2> QED BY <1>5, <2>1, Zenon
<1>7. ASSUME NEW m \in Nat, m \in Good PROVE m + 1 \in Good
  <2> HIDE DEF acc
  <2> SUFFICES ASSUME m + 1 <= n PROVE Resolved(existing, acc[m + 1])
    OBVIOUS
  <2>1. Resolved(existing, acc[m]) /\ m + 1 \in 1 .. n /\ proposals[m + 1] \in Proposal
    BY <1>3, <1>7
  <2>2. acc[m + 1] = resolve_one(existing, turn, acc[m], proposals[m + 1])
    BY <1>5, <2>1
  <2> QED BY <2>1, <2>2, ResolveOne, Zenon
<1>8. Resolved(existing, acc[n])
  <2>1. n \in Good
    <3> HIDE DEF Good
    <3> QED BY <1>3, <1>6, <1>7, Induct, Zenon
  <2> HIDE DEF acc
  <2> QED BY <2>1
<1> DEFINE r == resolve_proposals(existing, turn, proposals)
<1>9. r = [acc[n] EXCEPT !.ok = @ /\ Len(proposals) <= MaxChanges]
  BY Zenon DEF resolve_proposals
<1> HIDE DEF acc, r, n
<1>10. /\ r.ok = (acc[n].ok /\ Len(proposals) <= MaxChanges)
       /\ r.ops = acc[n].ops
  BY <1>8, <1>9, Zenon DEF Resolved
<1>11. r.ok \in BOOLEAN /\ r.ops \in Seq(KnowledgeOp)
  BY <1>8, <1>10, Zenon DEF Resolved
<1>12. ASSUME r.ok
       PROVE  /\ \A i, j \in DOMAIN r.ops : i # j => r.ops[i].id # r.ops[j].id
              /\ \A i \in DOMAIN r.ops : r.ops[i].op = "add" <=> r.ops[i].id \notin existing
  <2>1. /\ \A i \in DOMAIN r.ops : IF r.ops[i].op = "add" THEN r.ops[i].id \in acc[n].reserved
                                   ELSE r.ops[i].id \in acc[n].targeted \cap existing
        /\ \A i, j \in DOMAIN r.ops : i # j => r.ops[i].id # r.ops[j].id
        /\ acc[n].reserved \cap existing = {}
    BY <1>8, <1>10, <1>12, Zenon DEF Resolved
  <2> QED BY <2>1, Zenon
<1> QED BY <1>11, <1>12, Zenon DEF r

-----------------------------------------------------------------------------
(* The window of recent turns. *)

(* adjust_rencent_turns drops exactly the turns the summary now covers.     *)
LEMMA AdjustWindow ==
    ASSUME SummaryOn, NEW base \in Nat, NEW len \in Nat, NEW gone \in {0, 1},
           len <= SummaryTurnCount, len + 1 - gone <= SummaryTurnCount, gone <= len
    PROVE  adjust_recent_turns([i \in 1 .. len + 1 |-> base + i], base + gone)
               = [i \in 1 .. len + 1 - gone |-> base + gone + i]
<1> DEFINE r == [i \in 1 .. len + 1 |-> base + i]
           excess == IF Len(r) > MaxRecentTurns THEN Len(r) - MaxRecentTurns ELSE 0
           Stop(n) == /\ \A i \in excess + 1 .. n : r[i] <= base + gone
                      /\ n < Len(r) => r[n + 1] > base + gone
           prefix == CHOOSE n \in excess .. Len(r) : Stop(n)
<1>1. r \in Seq(Nat) /\ Len(r) = len + 1
  OBVIOUS
<1>2. SummaryTurnCount \in Nat /\ MaxRecentTurns \in Nat /\ SummaryTurnCount <= MaxRecentTurns
  BY BoundsAssumption DEF SummaryOn
<1>3. excess \in 0 .. gone
  BY <1>1, <1>2
<1>4. \A n \in excess .. Len(r) : Stop(n) <=> n = gone
  <2>1. \A i \in 1 .. Len(r) : r[i] = base + i
    BY <1>1, Zenon
  <2> HIDE DEF excess, r
  <2>2. ASSUME NEW n \in excess .. Len(r), n > gone PROVE ~Stop(n)
    <3>1. gone + 1 \in excess + 1 .. n /\ gone + 1 \in 1 .. Len(r)
      BY <1>1, <1>3, <2>2
    <3>2. r[gone + 1] > base + gone
      BY <2>1, <3>1
    <3> QED BY <3>1, <3>2, <1>1
  <2>3. ASSUME NEW n \in excess .. Len(r), n < gone PROVE ~Stop(n)
    BY <1>1, <1>3, <2>1, <2>3
  <2>4. Stop(gone)
    BY <1>1, <1>3, <2>1
  <2> QED BY <1>1, <1>3, <2>2, <2>3, <2>4
<1>5. prefix = gone
  <2> HIDE DEF excess, Stop
  <2> QED BY <1>1, <1>3, <1>4
<1>6. adjust_recent_turns(r, base + gone) = SubSeq(r, gone + 1, len + 1)
  BY <1>1, <1>5, ZenonT(30) DEF adjust_recent_turns
<1>7. SubSeq(r, gone + 1, len + 1) = [i \in 1 .. len + 1 - gone |-> base + gone + i]
  BY <1>1
<1> QED BY <1>6, <1>7, ZenonT(30)

(* The window after a turn, with the summary of covered_turn_count.         *)
LEMMA NextWindow ==
    ASSUME SummaryOn, NEW x, NEW c, x.turn \in Nat, Window(x),
           c = IF SummaryOf(x) = 0 THEN x.covered ELSE SummaryOf(x)
    PROVE  /\ c \in Nat /\ x.covered <= c /\ c <= x.turn + 1
           /\ adjust_recent_turns(Append(x.recent, x.turn + 1), c)
                 = [i \in 1 .. x.turn + 1 - c |-> c + i]
           /\ x.turn + 1 - c <= SummaryTurnCount
<1> DEFINE len == x.turn - x.covered
           gone == IF len + 1 <= SummaryTurnCount THEN 0 ELSE 1
<1>1. SummaryTurnCount \in Nat /\ SummaryTurnCount # 0
  BY BoundsAssumption DEF SummaryOn
<1>2. x.covered \in Nat /\ len \in Nat /\ x.recent = [i \in 1 .. len |-> x.covered + i]
  BY DEF Window
<1>3. x.recent \in Seq(Nat) /\ Len(x.recent) = len
  BY <1>2
<1>4. len <= SummaryTurnCount
  BY <1>3, Zenon DEF Window
<1>5. c = x.covered + gone
  <2>1. CASE len + 1 <= SummaryTurnCount
    BY <2>1, <1>2, <1>3, <1>1 DEF SummaryOf, covered_turn_count
  <2>2. CASE len = SummaryTurnCount
    <3>1. covered_turn_count(x) = 1
      BY <2>2, <1>3, <1>1 DEF covered_turn_count
    <3>2. SummaryOf(x) = x.covered + 1
      BY <3>1, <1>2, <1>1, <2>2 DEF SummaryOf
    <3> QED BY <3>2, <2>2, <1>1, <1>2
  <2> QED BY <2>1, <2>2, <1>1, <1>2, <1>4
<1>6. Append(x.recent, x.turn + 1) = [i \in 1 .. len + 1 |-> x.covered + i]
  BY <1>2, <1>3
<1>7. gone \in {0, 1} /\ len + 1 - gone <= SummaryTurnCount /\ gone <= len
  BY <1>1, <1>2, <1>4
<1>8. adjust_recent_turns(Append(x.recent, x.turn + 1), c)
         = [i \in 1 .. len + 1 - gone |-> x.covered + gone + i]
  <2> HIDE DEF gone, len
  <2>1. adjust_recent_turns([i \in 1 .. len + 1 |-> x.covered + i], x.covered + gone)
           = [i \in 1 .. len + 1 - gone |-> x.covered + gone + i]
    BY <1>2, <1>4, <1>7, AdjustWindow, ZenonT(30)
  <2> QED BY <1>5, <1>6, <2>1, ZenonT(30)
<1>9. x.turn + 1 - c = len + 1 - gone /\ c \in Nat
  BY <1>2, <1>5, <1>7
<1>10. adjust_recent_turns(Append(x.recent, x.turn + 1), c) = [i \in 1 .. x.turn + 1 - c |-> c + i]
  <2> HIDE DEF gone, len
  <2> QED BY <1>5, <1>8, <1>9, ZenonT(30)
<1>11. x.covered <= c /\ c <= x.turn + 1
  BY <1>2, <1>5, <1>7
<1>12. x.turn + 1 - c <= SummaryTurnCount
  <2> HIDE DEF gone, len
  <2> QED BY <1>7, <1>9, Zenon
<1> QED BY <1>9, <1>10, <1>11, <1>12, Zenon

(* adjust_rencent_turns keeps at most max_recent_turns turns.               *)
LEMMA AdjustBound ==
    ASSUME NEW r \in Seq(Nat \ {0})
    PROVE  /\ adjust_recent_turns(r, 0) \in Seq(Nat \ {0})
           /\ Len(adjust_recent_turns(r, 0)) <= MaxRecentTurns
<1> DEFINE excess == IF Len(r) > MaxRecentTurns THEN Len(r) - MaxRecentTurns ELSE 0
           Stop(n) == /\ \A i \in excess + 1 .. n : r[i] <= 0
                      /\ n < Len(r) => r[n + 1] > 0
           prefix == CHOOSE n \in excess .. Len(r) : Stop(n)
<1>1. MaxRecentTurns \in Nat /\ Len(r) \in Nat /\ excess \in 0 .. Len(r) /\ Len(r) - excess <= MaxRecentTurns
  BY BoundsAssumption
<1>2. Stop(excess)
  <2>1. \A i \in 1 .. Len(r) : r[i] > 0
    OBVIOUS
  <2> HIDE DEF excess
  <2> QED BY <1>1, <2>1
<1>3. prefix \in excess .. Len(r)
  <2> HIDE DEF excess, Stop
  <2>1. excess \in excess .. Len(r)
    BY <1>1
  <2> QED BY <1>2, <2>1, Zenon
<1>4. adjust_recent_turns(r, 0) = SubSeq(r, prefix + 1, Len(r))
  BY ZenonT(30) DEF adjust_recent_turns
<1> HIDE DEF excess, prefix
<1>5. SubSeq(r, prefix + 1, Len(r)) = [i \in 1 .. Len(r) - prefix |-> r[prefix + i]]
  BY <1>1, <1>3
<1>6. \A i \in 1 .. Len(r) - prefix : r[prefix + i] \in Nat \ {0}
  BY <1>1, <1>3
<1> DEFINE m == Len(r) - prefix
<1>7. m \in Nat /\ m <= MaxRecentTurns
  BY <1>1, <1>3
<1>8. adjust_recent_turns(r, 0) = [i \in 1 .. m |-> r[prefix + i]]
  BY <1>4, <1>5, Zenon
<1> HIDE DEF m
<1> QED BY <1>6, <1>7, <1>8 DEF m

(* Without a summary the turns of a story are not covered by one.           *)
LEMMA NextUnsummarised ==
    ASSUME ~SummaryOn, NEW x, x.turn \in Nat, Unsummarised(x)
    PROVE  /\ SummaryOf(x) = 0
           /\ adjust_recent_turns(Append(x.recent, x.turn + 1), 0) \in Seq(Nat \ {0})
           /\ Len(adjust_recent_turns(Append(x.recent, x.turn + 1), 0)) <= MaxRecentTurns
<1>1. SummaryTurnCount \in Nat /\ MaxRecentTurns \in Nat /\ Len(x.recent) \in Nat
  BY BoundsAssumption DEF Unsummarised
<1>2. SummaryOf(x) = 0
  BY <1>1 DEF SummaryOf, covered_turn_count, Unsummarised, SummaryOn
<1>3. Append(x.recent, x.turn + 1) \in Seq(Nat \ {0})
  BY DEF Unsummarised
<1> QED BY <1>2, <1>3, AdjustBound, Zenon

(* The summary a turn makes covers no turn to come, and what was covered.   *)
LEMMA SummaryFits ==
    ASSUME NEW x, GoodContext(x), SummaryOf(x) # 0
    PROVE  /\ SummaryOf(x) \in Nat /\ x.covered \in Nat
           /\ SummaryOf(x) <= x.turn + 1
           /\ SummaryOf(x) >= x.covered
<1>1. SummaryOn
  BY NextUnsummarised, Zenon DEF GoodContext, RecentOK
<1>2. /\ SummaryOf(x) \in Nat /\ x.covered <= SummaryOf(x) /\ SummaryOf(x) <= x.turn + 1
  BY <1>1, NextWindow, Zenon DEF GoodContext, RecentOK
<1>3. x.covered \in Nat
  BY <1>1 DEF GoodContext, RecentOK, Window
<1> QED BY <1>2, <1>3, Zenon

-----------------------------------------------------------------------------
(* One commit. *)

(* The knowledge after a change has finitely many names.                    *)
LEMMA AppliedFinite ==
    ASSUME NEW x, GoodContext(x), NEW change, \A k \in Kinds : change[k] \in Seq(KnowledgeOp)
    PROVE  \A k \in Kinds : /\ apply_knowledge_change(x, change)[k] \in SUBSET Names
                            /\ IsFiniteSet(apply_knowledge_change(x, change)[k])
<1> SUFFICES ASSUME NEW k \in Kinds
             PROVE  /\ apply_knowledge_change(x, change)[k] \in SUBSET Names
                    /\ IsFiniteSet(apply_knowledge_change(x, change)[k])
  BY Zenon
<1> DEFINE ops == change[k]
           D == {j \in DOMAIN ops : ops[j].op = "add"}
           T == {ops[i].id : i \in D}
           f == [i \in D |-> ops[i].id]
<1>1. ops \in Seq(KnowledgeOp) /\ x.knowledge[k] \in SUBSET Names /\ IsFiniteSet(x.knowledge[k])
  BY Zenon DEF GoodContext, KnownOK
<1>2. apply_knowledge_change(x, change)[k] = (x.knowledge[k] \cup T) \ Touched(ops, "remove")
  BY Zenon DEF apply_knowledge_change, Touched
<1>3. IsFiniteSet(D)
  <2>1. IsFiniteSet(1 .. Len(ops)) /\ DOMAIN ops = 1 .. Len(ops)
    BY <1>1, FS_Interval
  <2>2. D \in SUBSET (1 .. Len(ops))
    BY <2>1, Zenon
  <2> HIDE DEF D, ops
  <2> QED BY <2>1, <2>2, FS_Subset, Zenon
<1>4. f \in Surjection(D, T)
  BY Zenon DEF Surjection
<1>5. T \in SUBSET Names
  <2>1. \A i \in D : ops[i] \in KnowledgeOp
    BY <1>1
  <2>2. \A o \in KnowledgeOp : o.id \in Names
    BY Zenon DEF KnowledgeOp
  <2> HIDE DEF D, ops
  <2> QED BY <2>1, <2>2, Zenon
<1> HIDE DEF T, f, D, ops
<1>6. IsFiniteSet(x.knowledge[k] \cup T)
  BY <1>1, <1>3, <1>4, FS_Surjection, FS_Union, Zenon
<1>7. IsFiniteSet((x.knowledge[k] \cup T) \ Touched(ops, "remove"))
  BY <1>6, FS_Difference, ZenonT(30)
<1> QED BY <1>1, <1>2, <1>5, <1>7, Zenon

(* Applying a draft to the context it was made from gives a good context    *)
(* again, one turn later and nowhere further back.                          *)
LEMMA NextGood ==
    ASSUME NEW x, NEW d, NEW y, GoodContext(x), x.life = "active", GoodDraft(x, d),
           d.covered = SummaryOf(x), y = next_context(x, d)
    PROVE  /\ GoodContext(y)
           /\ y # None
           /\ y.turn = x.turn + 1
           /\ y.life = IF d.completes THEN "completed" ELSE x.life
           /\ Advances(x.narrative, y.narrative)
           /\ y.covered >= x.covered
<1> DEFINE c == IF d.covered = 0 THEN x.covered ELSE d.covered
           r == adjust_recent_turns(Append(x.recent, d.turn), c)
           n == IF d.narrative = None THEN x.narrative ELSE d.narrative
           k == apply_knowledge_change(x, d.change)
           l == IF d.completes THEN "completed" ELSE x.life
<1>1. y = [turn |-> d.turn, covered |-> c, recent |-> r, life |-> l, knowledge |-> k, narrative |-> n]
  BY Zenon DEF next_context
<1>2. y # None
  <2> HIDE DEF c, r, n, k, l
  <2> QED BY <1>1, SMTT(30) DEF None
<1>3. y.turn = x.turn + 1 /\ y.turn \in Nat
  BY <1>1 DEF GoodDraft, GoodContext
<1>4. n \in [Nodes -> NodeStatus] /\ Advances(x.narrative, n)
  <2>1. CASE d.narrative = None
    BY <2>1, Zenon DEF GoodContext, Advances
  <2>2. CASE d.narrative # None
    BY <2>2, Zenon DEF GoodDraft
  <2> QED BY <2>1, <2>2, Zenon
<1>5. l \in LifeCycle /\ (l = "completed" <=> TerminalDone(n))
  <2>1. ~TerminalDone(x.narrative)
    BY Zenon DEF GoodContext
  <2>2. CASE d.narrative = None
    BY <2>1, <2>2, Zenon DEF GoodDraft, GoodContext, LifeCycle
  <2>3. CASE d.narrative # None
    <3>1. d.completes <=> completes_story(x.narrative, n)
      BY <2>3, Zenon DEF GoodDraft
    <3>2. completes_story(x.narrative, n) <=> TerminalDone(n)
      BY <2>1, Zenon DEF completes_story, TerminalDone
    <3> QED BY <3>1, <3>2, Zenon DEF GoodDraft, LifeCycle
  <2> QED BY <2>2, <2>3, Zenon
<1>6. ~SummaryOn => Unsummarised(y) /\ y.covered >= x.covered
  <2> SUFFICES ASSUME ~SummaryOn PROVE Unsummarised(y) /\ y.covered >= x.covered
    BY Zenon
  <2>1. x.turn \in Nat /\ Unsummarised(x) /\ d.turn = x.turn + 1
    BY Zenon DEF GoodContext, RecentOK, GoodDraft
  <2>2. c = 0 /\ x.covered = 0
    BY <2>1, NextUnsummarised, Zenon DEF Unsummarised
  <2>3. y.covered = 0 /\ y.recent = adjust_recent_turns(Append(x.recent, x.turn + 1), 0)
    BY <1>1, <2>1, <2>2
  <2> HIDE DEF c, r, n, k, l
  <2> QED BY <2>1, <2>2, <2>3, NextUnsummarised DEF Unsummarised
<1>7. ASSUME SummaryOn
      PROVE  /\ c \in Nat /\ x.covered <= c /\ c <= x.turn + 1
             /\ r = [i \in 1 .. x.turn + 1 - c |-> c + i]
             /\ x.turn + 1 - c <= SummaryTurnCount
  <2>1. x.turn \in Nat /\ Window(x) /\ d.turn = x.turn + 1
    BY <1>7, Zenon DEF GoodContext, RecentOK, GoodDraft
  <2>2. c = IF SummaryOf(x) = 0 THEN x.covered ELSE SummaryOf(x)
    BY Zenon
  <2> HIDE DEF c
  <2> QED BY <1>7, <2>1, <2>2, NextWindow
<1>8. SummaryOn => Window(y) /\ y.covered >= x.covered
  <2> SUFFICES ASSUME SummaryOn PROVE Window(y) /\ y.covered >= x.covered
    BY Zenon
  <2>1. y.covered = c /\ y.recent = r /\ y.turn = x.turn + 1 /\ x.turn \in Nat
    BY <1>1, <1>3 DEF GoodContext
  <2>2. x.covered \in Nat
    BY DEF GoodContext, RecentOK, Window
  <2>3. Len(r) = x.turn + 1 - c
    <3> HIDE DEF c, r
    <3> QED BY <1>7, <2>1, SMTT(30)
  <2> HIDE DEF c, r
  <2> QED BY <1>7, <2>1, <2>2, <2>3 DEF Window
<1>9. y.narrative = n /\ y.life = l /\ y.knowledge = k
  BY <1>1
<1> HIDE DEF c, r, n, k
<1>10. \A q \in Kinds : y.knowledge[q] \in SUBSET Names /\ IsFiniteSet(y.knowledge[q])
  <2>1. \A q \in Kinds : d.change[q] \in Seq(KnowledgeOp)
    BY Zenon DEF GoodDraft, ChangeOK
  <2> QED BY <1>9, <2>1, AppliedFinite, Zenon DEF k
<1>11. GoodContext(y)
  BY <1>3, <1>4, <1>5, <1>6, <1>8, <1>9, <1>10, Zenon DEF GoodContext, RecentOK, KnownOK
<1> QED BY <1>2, <1>3, <1>4, <1>6, <1>8, <1>9, <1>11, Zenon

(* A change that extract accepts for context ctx is one commit would take.  *)
LEMMA ResolvedKnowledge ==
    ASSUME NEW ctx, GoodContext(ctx), NEW x \in Extractions,
           \A k \in Kinds : resolve_knowledge(ctx, x)[k].ok
    PROVE  LET change == [k \in Kinds |-> resolve_knowledge(ctx, x)[k].ops]
           IN  (\A k \in Kinds : change[k] \in Seq(KnowledgeOp)) /\ validate_knowledge_change(ctx, change)
<1> DEFINE change == [k \in Kinds |-> resolve_knowledge(ctx, x)[k].ops]
           Fits(k) == /\ change[k] \in Seq(KnowledgeOp)
                      /\ \A i, j \in DOMAIN change[k] : i # j => change[k][i].id # change[k][j].id
                      /\ \A i \in DOMAIN change[k] :
                            change[k][i].op = "add" <=> change[k][i].id \notin ctx.knowledge[k]
<1>1. ASSUME NEW k \in Kinds PROVE Fits(k)
  <2> DEFINE r == resolve_knowledge(ctx, x)[k]
  <2>1. change[k] = r.ops /\ r.ok
    BY Zenon
  <2>2. \/ r = resolve_proposals(ctx.knowledge[k], ctx.turn + 1, x.ops[k])
        \/ r = Resolving
    BY ZenonT(30) DEF resolve_knowledge
  <2>3. /\ ctx.knowledge[k] \in SUBSET Names /\ IsFiniteSet(ctx.knowledge[k]) /\ ctx.turn + 1 \in Nat
        /\ x.ops[k] \in Seq(Proposal)
    BY KnowledgeAssumption DEF GoodContext, KnownOK
  <2> HIDE DEF r, change
  <2>4. CASE r = Resolving
    <3>1. change[k] = <<>>
      BY <2>1, <2>4, Zenon DEF Resolving
    <3> QED BY <3>1
  <2>5. CASE r = resolve_proposals(ctx.knowledge[k], ctx.turn + 1, x.ops[k])
    <3>1. LET q == resolve_proposals(ctx.knowledge[k], ctx.turn + 1, x.ops[k])
          IN  /\ q.ops \in Seq(KnowledgeOp)
              /\ q.ok => /\ \A i, j \in DOMAIN q.ops : i # j => q.ops[i].id # q.ops[j].id
                         /\ \A i \in DOMAIN q.ops : q.ops[i].op = "add" <=> q.ops[i].id \notin ctx.knowledge[k]
      BY <2>3, ResolvedProposals, Zenon
    <3> QED BY <2>1, <2>5, <3>1, ZenonT(30)
  <2> QED BY <2>2, <2>4, <2>5, Zenon
<1> HIDE DEF change
<1>2. (\A k \in Kinds : change[k] \in Seq(KnowledgeOp)) /\ validate_knowledge_change(ctx, change)
  BY <1>1, Zenon DEF validate_knowledge_change
<1> QED BY <1>2, Zenon DEF change

-----------------------------------------------------------------------------
(* Creation and removal. *)

LEMMA InitInv == Init => Inv
<1> SUFFICES ASSUME Init PROVE Inv
  BY Zenon
<1>1. Shape
  BY Zenon DEF Init, Shape, Idle, Fields
<1>2. StoriesOK
  BY Zenon DEF Init, StoriesOK, StoryOK, Managing
<1>3. PacksOK
  <2>1. \A d \in Digests : {s \in Stories : holder[s] = d} = {}
    BY DigestAssumption, Zenon DEF Init, Digests
  <2> QED BY <2>1, Zenon DEF Init, PacksOK
<1>4. CallsOK
  BY Zenon DEF Init, CallsOK, CallOK, Idle, PC, Working, Drafted, Summarised
<1> QED BY <1>1, <1>2, <1>3, <1>4, Zenon DEF Inv

(* Calls do not notice a step of the manager that stays on its side.        *)
LEMMA CallsUnmoved ==
    ASSUME CallsOK, UNCHANGED calls, NEW s \in Stories,
           \A r \in Stories : r # s => /\ stories'[r] = stories[r]
                                      /\ committed'[r] = committed[r]
                                      /\ manager'[r] = manager[r],
           \/ manager[s] \notin {"live", "releasing", "gone"}
           \/ /\ manager'[s] \in {"live", "releasing", "gone"}
              /\ stories'[s] = None
           \/ /\ manager'[s] \in {"live", "releasing", "gone"}
              /\ stories'[s] = stories[s] /\ committed'[s] = committed[s]
    PROVE  CallsOK'
<1> SUFFICES ASSUME NEW c \in Calls PROVE CallOK(calls'[c], stories', committed', manager')
  BY Zenon DEF CallsOK
<1>1. CallOK(calls[c], stories, committed, manager) /\ calls'[c] = calls[c]
  BY Zenon DEF CallsOK
<1>2. CASE calls[c].pc = "idle"
  BY <1>1, <1>2, ZenonT(30) DEF CallOK, Working, Drafted, Summarised
<1>3. CASE calls[c].pc # "idle" /\ calls[c].story # s
  BY <1>1, <1>3, ZenonT(30) DEF CallOK
<1>4. CASE calls[c].pc # "idle" /\ calls[c].story = s
  BY <1>1, <1>4, ZenonT(30) DEF CallOK
<1> QED BY <1>2, <1>3, <1>4, Zenon

LEMMA RetainInv ==
    ASSUME Inv, NEW s \in Stories, CreateRetain(s)
    PROVE  Inv'
<1> USE DEF CreateRetain, retain
<1>0. Digest[s] \in Digests /\ Digest[s] # None
  BY DigestAssumption, Zenon DEF Digests
<1>1. Shape'
  BY Zenon DEF Inv, Shape
<1>2. StoriesOK'
  BY Zenon DEF Inv, Shape, StoriesOK, StoryOK, Managing
<1>3. CallsOK'
  BY CallsUnmoved, Zenon DEF Inv, Shape
<1>4. PacksOK'
  <2>1. \A d \in Digests : packs'[d] = IF d = Digest[s] THEN packs[d] \cup {s} ELSE packs[d]
    BY <1>0, ZenonT(30) DEF Inv, Shape
  <2>2. holder[s] = None /\ holder'[s] = Digest[s] /\ \A r \in Stories : r # s => holder'[r] = holder[r]
    BY Zenon DEF Inv, Shape, CanRetain
  <2>3. \A d \in Digests : packs'[d] = {r \in Stories : holder'[r] = d}
    <3> SUFFICES ASSUME NEW d \in Digests PROVE packs'[d] = {r \in Stories : holder'[r] = d}
      BY Zenon
    <3>1. packs[d] = {r \in Stories : holder[r] = d}
      BY Zenon DEF Inv, PacksOK
    <3> QED BY <2>1, <2>2, <3>1, <1>0, DigestAssumption, SMTT(30) DEF Digests
  <2>4. \A r \in Stories : r # s => manager'[r] = manager[r]
    BY Zenon DEF Inv, Shape
  <2>5. manager'[s] = "retained"
    BY Zenon DEF Inv, Shape
  <2> QED BY <2>2, <2>3, <2>4, <2>5, Zenon DEF Inv, PacksOK
<1> QED BY <1>1, <1>2, <1>3, <1>4, Zenon DEF Inv

(* What release leaves of the packs.                                        *)
LEMMA ReleasePacks ==
    ASSUME Inv, NEW s \in Stories, release(s), manager' = [manager EXCEPT ![s] = "gone"]
    PROVE  PacksOK'
<1> USE DEF release
<1>1. \A r \in Stories : r # s => holder'[r] = holder[r] /\ manager'[r] = manager[r]
  BY Zenon DEF Inv, Shape
<1>2. holder'[s] = None /\ manager'[s] = "gone"
  BY Zenon DEF Inv, Shape
<1>3. \A d \in Digests : packs'[d] = {r \in Stories : holder'[r] = d}
  <2> SUFFICES ASSUME NEW d \in Digests PROVE packs'[d] = {r \in Stories : holder'[r] = d}
    BY Zenon
  <2>1. packs[d] = {r \in Stories : holder[r] = d} /\ d # None
    BY DigestAssumption, Zenon DEF Inv, PacksOK, Digests
  <2>2. packs'[d] = IF d = holder[s] THEN packs[d] \ {s} ELSE packs[d]
    BY Zenon
  <2> QED BY <1>1, <1>2, <2>1, <2>2, Zenon
<1> QED BY <1>1, <1>2, <1>3, Zenon DEF Inv, PacksOK

LEMMA InsertInv ==
    ASSUME Inv, NEW s \in Stories, CreateInsert(s)
    PROVE  Inv'
<1> USE DEF CreateInsert
<1>1. Shape'
  BY Zenon DEF Inv, Shape
<1>2. /\ stories'[s] = NewStory(s) /\ manager'[s] = "live"
      /\ \A r \in Stories : r # s => stories'[r] = stories[r] /\ manager'[r] = manager[r]
  BY Zenon DEF Inv, Shape
<1>3. NewStory(s) # None /\ GoodContext(NewStory(s)) /\ NewStory(s).turn = 0 /\ NewStory(s).life = "active"
  <2>1. NewStory(s) # None
    BY Zenon DEF NewStory, None
  <2>2. SummaryOn => Window(NewStory(s))
    <3>1. SummaryOn => 0 <= SummaryTurnCount
      BY BoundsAssumption DEF SummaryOn
    <3>2. <<>> = [i \in 1 .. 0 - 0 |-> 0 + i] /\ Len(<<>>) = 0
      OBVIOUS
    <3> QED BY <3>1, <3>2 DEF Window, NewStory
  <2>3. Unsummarised(NewStory(s))
    BY BoundsAssumption, SMTT(30) DEF NewStory, Unsummarised
  <2>4. \A k \in Kinds : NewStory(s).knowledge[k] \in SUBSET Names /\ IsFiniteSet(NewStory(s).knowledge[k])
    BY KnowledgeAssumption, Zenon DEF NewStory
  <2> QED BY <2>1, <2>2, <2>3, <2>4, InitialNotDone, ZenonT(30) DEF NewStory, GoodContext, RecentOK, KnownOK, LifeCycle
<1>4. StoriesOK'
  <2>1. \A k \in Keys : committed[s][k] = None
    BY Zenon DEF Inv, StoriesOK, StoryOK
  <2>2. info[s] = "active"
    BY Zenon DEF Inv, StoriesOK, StoryOK
  <2>3. StoryOK(stories'[s], info'[s], committed'[s], manager'[s])
    BY <1>2, <1>3, <2>1, <2>2, SMTT(30) DEF StoryOK, Logged, Managing
  <2> QED BY <1>2, <2>3, Zenon DEF Inv, StoriesOK
<1>5. PacksOK'
  BY <1>2, Zenon DEF Inv, PacksOK
<1>6. CallsOK'
  BY <1>2, CallsUnmoved, Zenon DEF Inv
<1> QED BY <1>1, <1>4, <1>5, <1>6, Zenon DEF Inv

LEMMA CreateFailsInv ==
    ASSUME Inv, NEW s \in Stories, CreateFails(s)
    PROVE  Inv'
<1> USE DEF CreateFails
<1>1. Shape'
  BY Zenon DEF Inv, Shape
<1>2. manager'[s] = "compensating" /\ \A r \in Stories : r # s => manager'[r] = manager[r]
  BY Zenon DEF Inv, Shape
<1>3. StoriesOK'
  BY <1>2, Zenon DEF Inv, StoriesOK, StoryOK, Managing
<1>4. PacksOK'
  BY <1>2, Zenon DEF Inv, PacksOK
<1>5. CallsOK'
  BY <1>2, CallsUnmoved, Zenon DEF Inv
<1> QED BY <1>1, <1>3, <1>4, <1>5, Zenon DEF Inv

LEMMA ReleaseInv ==
    ASSUME Inv, NEW s \in Stories, CreateCompensate(s) \/ RemoveRelease(s)
    PROVE  Inv'
<1> USE DEF CreateCompensate, RemoveRelease
<1>1. Shape'
  BY SMTT(30) DEF Inv, Shape, release
<1>2. manager'[s] = "gone" /\ \A r \in Stories : r # s => manager'[r] = manager[r]
  BY Zenon DEF Inv, Shape
<1>3. StoriesOK'
  BY <1>2 DEF Inv, StoriesOK, StoryOK, Managing
<1>4. PacksOK'
  BY ReleasePacks, Zenon
<1>5. CallsOK'
  BY <1>2, CallsUnmoved, Zenon DEF Inv
<1> QED BY <1>1, <1>3, <1>4, <1>5, Zenon DEF Inv

LEMMA RemoveInv ==
    ASSUME Inv, NEW s \in Stories, RemoveStory(s)
    PROVE  Inv'
<1> USE DEF RemoveStory
<1>1. Shape'
  BY Zenon DEF Inv, Shape
<1>2. /\ stories'[s] = None /\ info'[s] = "active" /\ manager'[s] = "releasing"
      /\ \A k \in Keys : committed'[s][k] = None
      /\ \A r \in Stories : r # s => /\ stories'[r] = stories[r] /\ info'[r] = info[r]
                                     /\ committed'[r] = committed[r] /\ manager'[r] = manager[r]
  BY Zenon DEF Inv, Shape
<1>3. StoriesOK'
  <2>1. StoryOK(stories'[s], info'[s], committed'[s], manager'[s])
    BY <1>2, Zenon DEF StoryOK, Managing
  <2> QED BY <1>2, <2>1, Zenon DEF Inv, StoriesOK
<1>4. PacksOK'
  BY <1>2, Zenon DEF Inv, PacksOK
<1>5. CallsOK'
  BY <1>2, CallsUnmoved, Zenon DEF Inv
<1> QED BY <1>1, <1>3, <1>4, <1>5, Zenon DEF Inv

-----------------------------------------------------------------------------
(* Calls. *)

(* A step that only moves call c keeps the rest.                            *)
LEMMA QuietStep ==
    ASSUME Inv, NEW c \in Calls, UNCHANGED stores, starts' \in Nat,
           DOMAIN calls' = Calls, \A d \in Calls : d # c => calls'[d] = calls[d],
           DOMAIN calls'[c] = Fields, calls'[c] = [f \in Fields |-> calls'[c][f]],
           CallOK(calls'[c], stories, committed, manager)
    PROVE  Inv'
<1> USE DEF stores
<1>1. Shape'
  BY Zenon DEF Inv, Shape
<1>2. StoriesOK'
  BY Zenon DEF Inv, StoriesOK
<1>3. PacksOK'
  BY Zenon DEF Inv, PacksOK
<1>4. CallsOK'
  BY Zenon DEF Inv, CallsOK
<1> QED BY <1>1, <1>2, <1>3, <1>4, Zenon DEF Inv

(* A returned call is well formed when its answer stands.                   *)
LEMMA DoneCall ==
    ASSUME NEW r, NEW st, NEW cm, NEW mg,
           r.pc = "done", r.story \in Stories, r.key \in Keys,
           mg[r.story] \in {"live", "releasing", "gone"},
           r.outcome = "committed" /\ st[r.story] # None => cm[r.story][r.key] = r.answer /\ r.answer # None,
           r.outcome = "pack_missing" => st[r.story] = None,
           r.outcome \notin {"bad_summary", "bad_knowledge"}
    PROVE  CallOK(r, st, cm, mg)
BY Zenon DEF CallOK, PC, Working, Drafted, Summarised

(* A call that ends without an answer.                                      *)
LEMMA EndInv ==
    ASSUME Inv, NEW c \in Calls, NEW o, End(c, o), calls[c].pc # "idle", UNCHANGED <<stores, starts>>,
           o \notin {"committed", "bad_summary", "bad_knowledge"},
           o = "pack_missing" => stories[Story(c)] = None
    PROVE  Inv'
<1>1. CallIs(calls'[c], "done", Story(c), Key(c), o, None)
  BY ZenonT(30) DEF CallIs, End, Return, Idle, Inv, Shape
<1>2. Story(c) \in Stories /\ Key(c) \in Keys /\ manager[Story(c)] \in {"live", "releasing", "gone"}
  BY ZenonT(30) DEF Inv, CallsOK, CallOK, Story, Key
<1>3. CallOK(calls'[c], stories, committed, manager)
  <2>1. /\ calls'[c].pc = "done" /\ calls'[c].story = Story(c) /\ calls'[c].key = Key(c)
        /\ calls'[c].outcome = o /\ calls'[c].answer = None
    BY <1>1, CallRecord
  <2> QED BY <1>2, <2>1, DoneCall, ZenonT(30)
<1>4. DOMAIN calls' = Calls /\ \A d \in Calls : d # c => calls'[d] = calls[d]
  BY Zenon DEF End, Return, Inv, Shape
<1>5. DOMAIN calls'[c] = Fields /\ calls'[c] = [f \in Fields |-> calls'[c][f]]
  BY <1>1, CallRecord, Zenon
<1>6. starts' \in Nat
  BY Zenon DEF Inv, Shape
<1> QED BY <1>3, <1>4, <1>5, <1>6, QuietStep, Zenon

(* A call that answers with what is committed for its key.                  *)
LEMMA AnswerInv ==
    ASSUME Inv, NEW c \in Calls, calls[c].pc # "idle", UNCHANGED <<stores, starts>>,
           committed[Story(c)][Key(c)] # None, Answer(c, committed[Story(c)][Key(c)])
    PROVE  Inv'
<1>1. CallIs(calls'[c], "done", Story(c), Key(c), "committed", committed[Story(c)][Key(c)])
  BY ZenonT(30) DEF CallIs, Answer, Return, Idle, Inv, Shape
<1>2. Story(c) \in Stories /\ Key(c) \in Keys /\ manager[Story(c)] \in {"live", "releasing", "gone"}
  BY ZenonT(30) DEF Inv, CallsOK, CallOK, Story, Key
<1>3. CallOK(calls'[c], stories, committed, manager)
  <2>1. /\ calls'[c].pc = "done" /\ calls'[c].story = Story(c) /\ calls'[c].key = Key(c)
        /\ calls'[c].outcome = "committed" /\ calls'[c].answer = committed[Story(c)][Key(c)]
    BY <1>1, CallRecord
  <2> QED BY <1>2, <2>1, DoneCall, ZenonT(30)
<1>4. DOMAIN calls' = Calls /\ \A d \in Calls : d # c => calls'[d] = calls[d]
  BY Zenon DEF Answer, Return, Inv, Shape
<1>5. DOMAIN calls'[c] = Fields /\ calls'[c] = [f \in Fields |-> calls'[c][f]]
  BY <1>1, CallRecord
<1>6. starts' \in Nat
  BY Zenon DEF Inv, Shape
<1> QED BY <1>3, <1>4, <1>5, <1>6, QuietStep, Zenon

(* A call that goes on with what it has.                                    *)
LEMMA GoToInv ==
    ASSUME Inv, NEW c \in Calls, NEW p \in PC, GoTo(c, p), UNCHANGED <<stores, starts>>,
           calls[c].pc \in Working, p \in Working, p \in Drafted => calls[c].pc \in Drafted,
           p \in Summarised => calls[c].pc \in Summarised
    PROVE  Inv'
<1>1. /\ calls'[c].pc = p
      /\ \A f \in Fields : f # "pc" => calls'[c][f] = calls[c][f]
      /\ DOMAIN calls'[c] = Fields /\ calls'[c] = [f \in Fields |-> calls'[c][f]]
  BY Zenon DEF GoTo, Inv, Shape, Fields
<1>2. CallOK(calls[c], stories, committed, manager)
  BY Zenon DEF Inv, CallsOK
<1>3. CallOK(calls'[c], stories, committed, manager)
  BY <1>1, <1>2, Zenon DEF CallOK, Fields, Working
<1>4. DOMAIN calls' = Calls /\ \A d \in Calls : d # c => calls'[d] = calls[d]
  BY Zenon DEF GoTo, Inv, Shape
<1>5. starts' \in Nat
  BY Zenon DEF Inv, Shape
<1> QED BY <1>1, <1>3, <1>4, <1>5, QuietStep, Zenon

LEMMA StartInv ==
    ASSUME Inv, NEW c \in Calls, NEW s \in Stories, NEW k \in Keys, Start(c, s, k)
    PROVE  Inv'
<1>1. CallIs(calls'[c], "loading", s, k, "none", None)
  BY ZenonT(30) DEF CallIs, Start, Idle, Inv, Shape
<1>2. CallOK(calls'[c], stories, committed, manager)
  <2>1. manager[s] \in {"live", "releasing", "gone"}
    BY Zenon DEF Start
  <2>2. calls'[c].pc = "loading" /\ calls'[c].story = s /\ calls'[c].key = k /\ calls'[c].outcome = "none"
    BY <1>1, CallRecord, Zenon
  <2>3. "loading" \in PC \ (Working \cup Drafted \cup Summarised)
    BY Zenon DEF PC, Working, Drafted, Summarised
  <2> QED BY <2>1, <2>2, <2>3, Zenon DEF CallOK
<1>3. DOMAIN calls' = Calls /\ \A d \in Calls : d # c => calls'[d] = calls[d]
  BY Zenon DEF Start, Inv, Shape
<1>4. DOMAIN calls'[c] = Fields /\ calls'[c] = [f \in Fields |-> calls'[c][f]]
  BY <1>1, CallRecord, Zenon
<1>5. starts' \in Nat /\ UNCHANGED stores
  BY DEF Start, Inv, Shape
<1> QED BY <1>2, <1>3, <1>4, <1>5, QuietStep, Zenon

LEMMA LoadInv ==
    ASSUME Inv, NEW c \in Calls, LoadStory(c)
    PROVE  Inv'
<1> DEFINE x == stories[Story(c)]
<1>1. CallOK(calls[c], stories, committed, manager) /\ calls[c].pc = "loading"
  BY Zenon DEF LoadStory, Inv, CallsOK
<1>2. Story(c) \in Stories /\ UNCHANGED <<stores, starts>>
  BY <1>1, Zenon DEF CallOK, LoadStory, Story
<1>3. CASE x = None
  <2>1. End(c, "not_found")
    BY <1>3, Zenon DEF LoadStory
  <2> QED BY <1>1, <1>2, <2>1, EndInv, Zenon
<1>4. CASE x # None /\ x.life # "active"
  <2>1. End(c, "not_active")
    BY <1>4, Zenon DEF LoadStory
  <2> QED BY <1>1, <1>2, <2>1, EndInv, Zenon
<1>5. CASE x # None /\ x.life = "active"
  <2>1. calls' = [calls EXCEPT ![c].pc = "baseline", ![c].ctx = x]
    BY <1>5, Zenon DEF LoadStory
  <2> HIDE DEF x
  <2>2. /\ calls'[c].pc = "baseline" /\ calls'[c].ctx = x
        /\ \A f \in Fields : f \notin {"pc", "ctx"} => calls'[c][f] = calls[c][f]
        /\ DOMAIN calls'[c] = Fields /\ calls'[c] = [f \in Fields |-> calls'[c][f]]
    BY <2>1, ZenonT(30) DEF Inv, Shape, Fields
  <2>3. DOMAIN calls' = Calls /\ \A d \in Calls : d # c => calls'[d] = calls[d]
    BY <2>1, Zenon DEF Inv, Shape
  <2>4. GoodContext(x) /\ x = stories[calls[c].story]
    BY <1>2, <1>5, Zenon DEF Inv, StoriesOK, StoryOK, x, Story
  <2>5. CallOK(calls'[c], stories, committed, manager)
    <3>1. calls'[c].story = calls[c].story /\ calls'[c].key = calls[c].key /\ calls'[c].outcome = calls[c].outcome
      BY <2>2, Zenon DEF Fields
    <3>2. calls[c].outcome = "none"
      BY <1>1, ZenonT(30) DEF CallOK
    <3>3. x.turn \in Nat
      BY <2>4, ZenonT(30) DEF GoodContext
    <3>4. "baseline" \in PC \ (Drafted \cup Summarised)
      BY Zenon DEF PC, Drafted, Summarised
    <3>5. calls[c].story \in Stories /\ calls[c].key \in Keys /\ manager[calls[c].story] \in {"live", "releasing", "gone"}
      BY <1>1, Zenon DEF CallOK
    <3>6. x.turn <= stories[calls[c].story].turn
      BY <2>4, <3>3
    <3> QED BY <1>5, <2>2, <2>4, <3>1, <3>2, <3>4, <3>5, <3>6, Zenon DEF CallOK
  <2>6. starts' \in Nat
    BY <1>2, Zenon DEF Inv, Shape
  <2> QED BY <1>2, <2>2, <2>3, <2>5, <2>6, QuietStep, Zenon
<1> QED BY <1>3, <1>4, <1>5, Zenon

(* A pack is missing only when the story is.                                *)
LEMMA GetPackInv ==
    ASSUME Inv, NEW c \in Calls, NEW from \in Working, NEW to \in Working, GetPack(c, from, to),
           from \notin Drafted, to \notin Drafted
    PROVE  Inv'
<1>1. CallOK(calls[c], stories, committed, manager) /\ calls[c].pc = from
  BY Zenon DEF GetPack, Inv, CallsOK
<1>2. Story(c) \in Stories /\ UNCHANGED <<stores, starts>>
  BY <1>1, ZenonT(30) DEF CallOK, GetPack, Story, Working
<1>3. CASE packs[Digest[Story(c)]] # {}
  <2>1. GoTo(c, to) /\ to \in PC
    BY <1>3, ZenonT(30) DEF GetPack, Working, PC
  <2> QED BY <1>1, <1>2, <2>1, GoToInv, ZenonT(30) DEF Summarised, Drafted
<1>4. CASE packs[Digest[Story(c)]] = {}
  <2>1. End(c, "pack_missing") /\ from # "idle"
    BY <1>4, Zenon DEF GetPack, Working
  <2>2. stories[Story(c)] = None
    <3>1. Digest[Story(c)] \in Digests
      BY <1>2, Zenon DEF Digests
    <3>2. holder[Story(c)] # Digest[Story(c)]
      BY <1>2, <1>4, <3>1, Zenon DEF Inv, PacksOK
    <3>3. manager[Story(c)] # "live"
      BY <1>2, <3>2, Zenon DEF Inv, PacksOK
    <3> QED BY <1>2, <3>3, Zenon DEF Inv, StoriesOK, StoryOK
  <2> QED BY <1>1, <1>2, <2>1, <2>2, EndInv, Zenon
<1> QED BY <1>3, <1>4, Zenon

LEMMA ExtractInv ==
    ASSUME Inv, NEW c \in Calls, Extract(c)
    PROVE  Inv'
<1> DEFINE ctx == calls[c].ctx
<1>1. CallOK(calls[c], stories, committed, manager) /\ calls[c].pc = "resolving" /\ UNCHANGED <<stores, starts>>
  BY Zenon DEF Extract, Inv, CallsOK
<1>2. PICK x \in Extractions, results \in [queries(ctx.narrative) -> Truth] :
         LET resolved == resolve_knowledge(ctx, x)
             narrative == resolve_narrative(ctx, results)
         IN  IF RolesOk(x.roles) /\ \A k \in Kinds : resolved[k].ok
             THEN calls' = [calls EXCEPT
                     ![c].pc = "summarising",
                     ![c].draft = [turn |-> ctx.turn + 1,
                                   covered |-> 0,
                                   change |-> [k \in Kinds |-> resolved[k].ops],
                                   narrative |-> narrative,
                                   completes |-> /\ narrative # None
                                                 /\ completes_story(ctx.narrative, narrative)]]
             ELSE End(c, "stage_failed")
  BY Zenon DEF Extract
<1> DEFINE change == [k \in Kinds |-> resolve_knowledge(ctx, x)[k].ops]
           narrative == resolve_narrative(ctx, results)
           completes == narrative # None /\ completes_story(ctx.narrative, narrative)
           draft == [turn |-> ctx.turn + 1, covered |-> 0, change |-> change,
                     narrative |-> narrative, completes |-> completes]
<1>3. CASE End(c, "stage_failed")
  BY <1>1, <1>3, EndInv, Zenon
<1>4. CASE /\ \A k \in Kinds : resolve_knowledge(ctx, x)[k].ok
           /\ calls' = [calls EXCEPT ![c].pc = "summarising", ![c].draft = draft]
  <2>1. GoodContext(ctx)
    BY <1>1, Zenon DEF CallOK, Working
  <2>0. (\A k \in Kinds : change[k] \in Seq(KnowledgeOp)) /\ validate_knowledge_change(ctx, change)
    BY <1>4, <2>1, ResolvedKnowledge, Zenon
  <2>2. narrative # None => narrative \in [Nodes -> NodeStatus] /\ Advances(ctx.narrative, narrative)
    <3>1. ctx.narrative \in [Nodes -> NodeStatus]
      BY <2>1, Zenon DEF GoodContext
    <3> HIDE DEF ctx
    <3> QED BY <3>1, ResolveAdvances, Zenon DEF resolve_narrative
  <2>3. completes \in BOOLEAN
    BY Zenon
  <2>4. GoodDraft(ctx, draft)
    <3> HIDE DEF change, ctx
    <3>1. narrative # None => completes = completes_story(ctx.narrative, narrative)
      BY ZenonT(30) DEF completes_story
    <3>2. /\ draft.turn = ctx.turn + 1 /\ draft.narrative = narrative /\ draft.completes = completes
          /\ draft.change = change
      BY Zenon
    <3>3. DOMAIN draft = DraftFields
      BY Zenon DEF DraftFields
    <3>4. completes <=> (narrative # None /\ completes_story(ctx.narrative, narrative))
      BY Zenon
    <3> HIDE DEF narrative, draft, completes
    <3> QED BY <2>0, <2>2, <2>3, <3>2, <3>3, <3>4, ZenonT(30) DEF GoodDraft, ChangeOK
  <2> HIDE DEF draft
  <2>5. /\ calls'[c].pc = "summarising" /\ calls'[c].draft = draft
        /\ \A f \in Fields : f \notin {"pc", "draft"} => calls'[c][f] = calls[c][f]
        /\ DOMAIN calls'[c] = Fields /\ calls'[c] = [f \in Fields |-> calls'[c][f]]
    BY <1>4, Zenon DEF Inv, Shape, Fields
  <2>6. DOMAIN calls' = Calls /\ \A d \in Calls : d # c => calls'[d] = calls[d]
    BY <1>4, Zenon DEF Inv, Shape
  <2>7. CallOK(calls'[c], stories, committed, manager)
    <3>1. /\ calls'[c].story = calls[c].story /\ calls'[c].key = calls[c].key
          /\ calls'[c].ctx = calls[c].ctx /\ calls'[c].outcome = calls[c].outcome
      BY <2>5, Zenon DEF Fields
    <3>2. calls[c].outcome = "none"
      BY <1>1, ZenonT(30) DEF CallOK
    <3> QED BY <1>1, <2>4, <2>5, <3>1, <3>2, ZenonT(30) DEF CallOK, PC, Working, Drafted, Summarised
  <2>8. starts' \in Nat
    BY <1>1, Zenon DEF Inv, Shape
  <2> QED BY <1>1, <2>5, <2>6, <2>7, <2>8, QuietStep, Zenon
<1> QED BY <1>2, <1>3, <1>4, ZenonT(30)

LEMMA SummariseInv ==
    ASSUME Inv, NEW c \in Calls, Summarise(c)
    PROVE  Inv'
<1> DEFINE v == SummaryOf(calls[c].ctx)
<1>1. CallOK(calls[c], stories, committed, manager) /\ calls[c].pc = "summarising" /\ UNCHANGED <<stores, starts>>
  BY Zenon DEF Summarise, Inv, CallsOK
<1>2. calls' = [calls EXCEPT ![c].pc = "finding", ![c].draft.covered = v]
  BY Zenon DEF Summarise, SummaryOf
<1>3. GoodDraft(calls[c].ctx, calls[c].draft)
  BY <1>1, Zenon DEF CallOK, Drafted
<1> HIDE DEF v
<1>4. /\ calls'[c].pc = "finding" /\ calls'[c].draft = [calls[c].draft EXCEPT !.covered = v]
      /\ \A f \in Fields : f \notin {"pc", "draft"} => calls'[c][f] = calls[c][f]
      /\ DOMAIN calls'[c] = Fields /\ calls'[c] = [f \in Fields |-> calls'[c][f]]
  BY <1>2, ZenonT(30) DEF Inv, Shape, Fields
<1>5. DOMAIN calls' = Calls /\ \A d \in Calls : d # c => calls'[d] = calls[d]
  BY <1>2, Zenon DEF Inv, Shape
<1>6. GoodDraft(calls[c].ctx, calls'[c].draft) /\ calls'[c].draft.covered = v
  BY <1>3, <1>4, Zenon DEF GoodDraft, ChangeOK, DraftFields
<1>7. CallOK(calls'[c], stories, committed, manager)
  <2>1. /\ calls'[c].story = calls[c].story /\ calls'[c].key = calls[c].key
        /\ calls'[c].ctx = calls[c].ctx /\ calls'[c].outcome = calls[c].outcome
    BY <1>4, Zenon DEF Fields
  <2>2. calls[c].outcome = "none"
    BY <1>1, ZenonT(30) DEF CallOK
  <2>3. calls'[c].pc = "finding"
    BY <1>4, Zenon
  <2> QED BY <1>1, <1>6, <2>1, <2>2, <2>3, ZenonT(30) DEF CallOK, PC, Working, Drafted, Summarised, v
<1>8. starts' \in Nat
  BY <1>1, Zenon DEF Inv, Shape
<1> QED BY <1>1, <1>4, <1>5, <1>7, <1>8, QuietStep, Zenon

LEMMA FindInv ==
    ASSUME Inv, NEW c \in Calls, FindCommitted(c)
    PROVE  Inv'
<1>1. CallOK(calls[c], stories, committed, manager) /\ calls[c].pc = "finding" /\ UNCHANGED <<stores, starts>>
  BY Zenon DEF FindCommitted, Inv, CallsOK
<1>2. CASE End(c, "not_found")
  BY <1>1, <1>2, EndInv, Zenon
<1>3. CASE committed[Story(c)][Key(c)] # None /\ Answer(c, committed[Story(c)][Key(c)])
  BY <1>1, <1>3, AnswerInv, Zenon
<1>4. CASE GoTo(c, "storing")
  BY <1>1, <1>4, GoToInv, ZenonT(30) DEF PC, Working, Drafted, Summarised
<1> QED BY <1>2, <1>3, <1>4, Zenon DEF FindCommitted

-----------------------------------------------------------------------------
(* The commit. *)

(* What commit accepts was made from the story as it is.                    *)
LEMMA AcceptedIsCurrent ==
    ASSUME Inv, NEW c \in Calls, calls[c].pc = "storing", stories[Story(c)] # None,
           refusal(stories[Story(c)], calls[c].draft) = "none"
    PROVE  /\ Story(c) \in Stories /\ Key(c) \in Keys
           /\ calls[c].ctx = stories[Story(c)]
           /\ GoodContext(stories[Story(c)])
           /\ stories[Story(c)].life = "active"
           /\ GoodDraft(stories[Story(c)], calls[c].draft)
           /\ calls[c].draft.covered = SummaryOf(stories[Story(c)])
<1>1. CallOK(calls[c], stories, committed, manager)
  BY Zenon DEF Inv, CallsOK
<1>2. Story(c) \in Stories /\ Key(c) \in Keys
  BY <1>1, ZenonT(30) DEF CallOK, Story, Key
<1>3. /\ GoodContext(calls[c].ctx) /\ GoodDraft(calls[c].ctx, calls[c].draft)
      /\ calls[c].draft.covered = SummaryOf(calls[c].ctx)
      /\ calls[c].ctx.turn = stories[Story(c)].turn => calls[c].ctx = stories[Story(c)]
  BY <1>1, ZenonT(30) DEF CallOK, Working, Drafted, Summarised, Story
<1>4. /\ stories[Story(c)].life = "active"
      /\ calls[c].draft.turn = stories[Story(c)].turn + 1
  BY ZenonT(30) DEF refusal
<1>5. GoodContext(stories[Story(c)])
  BY <1>2, Zenon DEF Inv, StoriesOK, StoryOK
<1>6. calls[c].ctx.turn = stories[Story(c)].turn
  <2>1. calls[c].draft.turn = calls[c].ctx.turn + 1
    BY <1>3, ZenonT(30) DEF GoodDraft
  <2>2. calls[c].ctx.turn \in Nat /\ stories[Story(c)].turn \in Nat
    BY <1>3, <1>5, ZenonT(30) DEF GoodContext
  <2> QED BY <1>4, <2>1, <2>2, SMTT(30)
<1> QED BY <1>2, <1>3, <1>4, <1>5, <1>6, Zenon

(* Commit's checks of the summary and of the change refuse no call: a draft *)
(* that passes the check of the turn number was made from the story as it   *)
(* is, and extract and summary made it to fit.                              *)
LEMMA RefusalHonest ==
    ASSUME Inv, NEW c \in Calls, calls[c].pc = "storing", stories[Story(c)] # None
    PROVE  refusal(stories[Story(c)], calls[c].draft) \notin {"bad_summary", "bad_knowledge"}
<1> DEFINE x == stories[Story(c)]
           d == calls[c].draft
<1>1. CallOK(calls[c], stories, committed, manager)
  BY ZenonT(30) DEF Inv, CallsOK
<1>2. Story(c) \in Stories
  BY <1>1, ZenonT(30) DEF CallOK, Story
<1>3. /\ GoodContext(calls[c].ctx) /\ GoodDraft(calls[c].ctx, d) /\ d.covered = SummaryOf(calls[c].ctx)
      /\ calls[c].ctx.turn = x.turn => calls[c].ctx = x
  BY <1>1, ZenonT(30) DEF CallOK, Working, Drafted, Summarised, Story
<1>4. GoodContext(x)
  BY <1>2, Zenon DEF Inv, StoriesOK, StoryOK
<1> HIDE DEF x, d
<1>5. CASE d.turn = x.turn + 1
  <2>1. calls[c].ctx = x
    <3>1. calls[c].ctx.turn \in Nat /\ x.turn \in Nat
      BY <1>3, <1>4, Zenon DEF GoodContext
    <3>2. d.turn = calls[c].ctx.turn + 1
      BY <1>3, Zenon DEF GoodDraft
    <3>3. calls[c].ctx.turn = x.turn
      BY <1>5, <3>1, <3>2
    <3> QED BY <1>3, <3>3, Zenon
  <2>2. d.covered # 0 => d.covered <= d.turn /\ d.covered >= x.covered
    BY <1>3, <1>4, <1>5, <2>1, SummaryFits, ZenonT(30)
  <2>3. d.covered # 0 => d.covered \in Int /\ x.covered \in Int /\ d.turn \in Int
    <3>1. d.covered # 0 => d.covered \in Nat /\ x.covered \in Nat
      BY <1>3, <1>4, <2>1, SummaryFits, Zenon
    <3>2. x.turn \in Nat
      BY <1>4, Zenon DEF GoodContext
    <3> QED BY <1>5, <3>1, <3>2
  <2>4. validate_knowledge_change(x, d.change)
    BY <1>3, <2>1, ZenonT(30) DEF GoodDraft, ChangeOK
  <2>5. ~(d.covered # 0 /\ (d.covered > d.turn \/ d.covered < x.covered))
    BY <2>2, <2>3
  <2> QED BY <2>4, <2>5, Zenon DEF refusal, x, d
<1>6. CASE d.turn # x.turn + 1
  <2>1. refusal(x, d) = IF x.life # "active" THEN "not_active" ELSE "turn_conflict"
    BY <1>6, ZenonT(30) DEF refusal
  <2> QED BY <2>1, Zenon DEF x, d
<1> QED BY <1>5, <1>6, Zenon

(* What it leaves of the story.                                             *)
LEMMA StoreStory ==
    ASSUME Inv, NEW c \in Calls, calls[c].pc = "storing", stories[Story(c)] # None,
           refusal(stories[Story(c)], calls[c].draft) = "none", Store(c)
    PROVE  LET s == Story(c)
               x == stories[s]
               y == stories'[s]
           IN  /\ GoodContext(y) /\ y # None
               /\ y.turn = x.turn + 1
               /\ y.life = IF calls[c].draft.completes THEN "completed" ELSE x.life
               /\ Advances(x.narrative, y.narrative)
               /\ y.covered >= x.covered
<1>1. /\ Story(c) \in Stories /\ GoodContext(stories[Story(c)])
      /\ stories[Story(c)].life = "active"
      /\ GoodDraft(stories[Story(c)], calls[c].draft)
      /\ calls[c].draft.covered = SummaryOf(stories[Story(c)])
  BY AcceptedIsCurrent, ZenonT(30)
<1>2. stories'[Story(c)] = next_context(stories[Story(c)], calls[c].draft)
  BY <1>1, Zenon DEF Store, Inv, Shape
<1> QED BY <1>1, <1>2, NextGood, ZenonT(30)

(* What it writes, field by field.                                          *)
LEMMA StoreEffect ==
    ASSUME Inv, NEW c \in Calls, Story(c) \in Stories, Key(c) \in Keys, Store(c)
    PROVE  LET s == Story(c)
               k == Key(c)
               d == calls[c].draft
           IN  /\ CallIs(calls'[c], "done", s, k, "committed", d)
               /\ DOMAIN calls' = Calls /\ \A e \in Calls : e # c => calls'[e] = calls[e]
               /\ \A r \in Stories : r # s => /\ stories'[r] = stories[r] /\ info'[r] = info[r]
                                              /\ committed'[r] = committed[r]
               /\ info'[s] = IF d.completes THEN "completed" ELSE info[s]
               /\ committed'[s][k] = d
               /\ \A l \in Keys : l # k => committed'[s][l] = committed[s][l]
               /\ UNCHANGED <<packs, holder, manager, starts>>
<1>1. CallIs(calls'[c], "done", Story(c), Key(c), "committed", calls[c].draft)
  BY ZenonT(30) DEF CallIs, Store, Answer, Return, Idle, Inv, Shape
<1>2. DOMAIN calls' = Calls /\ \A e \in Calls : e # c => calls'[e] = calls[e]
  BY Zenon DEF Store, Answer, Return, Inv, Shape
<1> QED BY <1>1, <1>2, Zenon DEF Store, Inv, Shape

LEMMA StoreShape ==
    ASSUME Inv, NEW c \in Calls, Story(c) \in Stories, Key(c) \in Keys, Store(c)
    PROVE  Shape'
<1>1. /\ DOMAIN stories' = Stories /\ DOMAIN info' = Stories /\ DOMAIN committed' = Stories
      /\ \A r \in Stories : DOMAIN committed'[r] = Keys
  BY Zenon DEF Store, Inv, Shape
<1>2. DOMAIN calls' = Calls /\ \A e \in Calls : e # c => calls'[e] = calls[e]
  BY StoreEffect, ZenonT(30)
<1>3. DOMAIN calls'[c] = Fields /\ calls'[c] = [f \in Fields |-> calls'[c][f]]
  <2>1. CallIs(calls'[c], "done", Story(c), Key(c), "committed", calls[c].draft)
    BY StoreEffect, Zenon
  <2> QED BY <2>1, CallRecord
<1>4. UNCHANGED <<packs, holder, manager, starts>>
  BY Zenon DEF Store
<1> QED BY <1>1, <1>2, <1>3, <1>4, ZenonT(30) DEF Inv, Shape

(* A turn numbered n + 1 under a free key extends a log of n turns.         *)
LEMMA LogGrows ==
    ASSUME NEW old, NEW new, NEW n \in Nat, NEW k \in Keys, Logged(old, n), Extends(old, new, n, k)
    PROVE  Logged(new, n + 1)
<1>0. old[k] = None /\ new[k] # None /\ new[k].turn = n + 1 /\ \A l \in Keys : l # k => new[l] = old[l]
  BY Zenon DEF Extends
<1>1. \A l \in Keys : old[l] # None => old[l].turn \in 1 .. n
  BY Zenon DEF Logged
<1>2. \A l \in Keys : new[l] # None => new[l].turn \in 1 .. n + 1
  BY <1>0, <1>1
<1>3. ASSUME NEW t \in 1 .. n + 1 PROVE \E l \in Keys : new[l] # None /\ new[l].turn = t
  <2>1. CASE t = n + 1
    BY <1>0, <2>1, Zenon
  <2>2. CASE t # n + 1
    <3>1. PICK l \in Keys : old[l] # None /\ old[l].turn = t
      BY <2>2 DEF Logged
    <3> QED BY <1>0, <3>1, Zenon
  <2> QED BY <2>1, <2>2, Zenon
<1>4. \A l \in Keys : l # k /\ new[l] # None => new[l].turn # n + 1
  BY <1>0, <1>1, SMTT(30)
<1>5. ASSUME NEW l \in Keys, NEW m \in Keys, new[l] # None, new[m] # None, l # m
      PROVE  new[l].turn # new[m].turn
  <2>1. CASE l = k \/ m = k
    BY <1>0, <1>4, <1>5, <2>1, Zenon
  <2>2. CASE l # k /\ m # k
    BY <1>0, <1>5, <2>2, SMTT(30) DEF Logged
  <2> QED BY <2>1, <2>2, Zenon
<1> QED BY <1>2, <1>3, <1>5, Zenon DEF Logged

(* Story s goes one turn on and gets key k; nothing else changes. *)
OneTurn(st, nst, cm, ncm, s, k) ==
    /\ st[s] # None /\ cm[s][k] = None /\ st[s].turn \in Nat
    /\ nst[s] # None /\ nst[s].turn = st[s].turn + 1
    /\ \A q \in Stories : q # s => nst[q] = st[q] /\ ncm[q] = cm[q]
    /\ \A l \in Keys : l # k => ncm[s][l] = cm[s][l]

(* A call r that is in flight, or has returned, when story s commits key k. *)
LEMMA CallKept ==
    ASSUME NEW r, NEW st, NEW nst, NEW cm, NEW ncm, NEW mg, NEW s \in Stories, NEW k \in Keys,
           CallOK(r, st, cm, mg), OneTurn(st, nst, cm, ncm, s, k)
    PROVE  CallOK(r, nst, ncm, mg)
<1> USE DEF OneTurn
<1>1. CASE r.pc = "idle" \/ r.story # s
  BY <1>1, ZenonT(30) DEF CallOK, Working, Drafted, Summarised
<1>2. CASE r.pc # "idle" /\ r.story = s
  <2>1. r.outcome = "committed" => r.key # k /\ ncm[s][r.key] = r.answer /\ r.answer # None
    BY <1>2, ZenonT(30) DEF CallOK
  <2>2. r.pc \in Working => r.ctx.turn <= nst[s].turn /\ r.ctx.turn # nst[s].turn
    <3> SUFFICES ASSUME r.pc \in Working
                 PROVE  r.ctx.turn <= nst[s].turn /\ r.ctx.turn # nst[s].turn
      BY Zenon
    <3>1. GoodContext(r.ctx) /\ r.ctx.turn <= st[s].turn
      BY <1>2, Zenon DEF CallOK
    <3>2. r.ctx.turn \in Nat
      BY <3>1, ZenonT(30) DEF GoodContext
    <3>3. st[s].turn \in Nat /\ nst[s].turn = st[s].turn + 1
      BY Zenon
    <3> HIDE DEF OneTurn
    <3> QED BY <3>1, <3>2, <3>3, SMTT(30)
  <2>3. r.outcome # "pack_missing"
    BY <1>2, Zenon DEF CallOK
  <2> QED BY <1>2, <2>1, <2>2, <2>3, ZenonT(30) DEF CallOK
<1> QED BY <1>1, <1>2, Zenon

LEMMA StoreInv ==
    ASSUME Inv, NEW c \in Calls, calls[c].pc = "storing", stories[Story(c)] # None,
           committed[Story(c)][Key(c)] = None,
           refusal(stories[Story(c)], calls[c].draft) = "none", Store(c)
    PROVE  Inv'
<1> DEFINE s == Story(c)
           k == Key(c)
           d == calls[c].draft
<1>1. /\ s \in Stories /\ k \in Keys /\ GoodContext(stories[s]) /\ GoodDraft(stories[s], d)
      /\ stories[s].life = "active"
  BY AcceptedIsCurrent, ZenonT(30)
<1>2. /\ GoodContext(stories'[s]) /\ stories'[s] # None /\ stories'[s].turn = stories[s].turn + 1
      /\ stories'[s].life = IF d.completes THEN "completed" ELSE "active"
  BY <1>1, StoreStory, ZenonT(30)
<1>3. d # None /\ d.turn = stories[s].turn + 1 /\ stories[s].turn \in Nat /\ d.completes \in BOOLEAN
  <2>1. DOMAIN d = DraftFields /\ d.turn = stories[s].turn + 1 /\ d.completes \in BOOLEAN
    BY <1>1, ZenonT(30) DEF GoodDraft
  <2>2. d # None
    BY <2>1, SMTT(30) DEF DraftFields, None
  <2>3. stories[s].turn \in Nat
    BY <1>1, Zenon DEF GoodContext
  <2> QED BY <2>1, <2>2, <2>3, Zenon
<1>4. /\ \A r \in Stories : r # s => /\ stories'[r] = stories[r] /\ info'[r] = info[r]
                                     /\ committed'[r] = committed[r]
      /\ info'[s] = IF d.completes THEN "completed" ELSE info[s]
      /\ committed'[s][k] = d
      /\ \A l \in Keys : l # k => committed'[s][l] = committed[s][l]
      /\ packs' = packs /\ holder' = holder /\ manager' = manager
  BY <1>1, StoreEffect, ZenonT(30)
<1>5. Shape'
  BY <1>1, StoreShape, Zenon
<1>6. StoryOK(stories[s], info[s], committed[s], manager[s])
  BY <1>1, ZenonT(30) DEF Inv, StoriesOK
<1>7. \A e \in Calls : CallOK(calls[e], stories, committed, manager)
  BY Zenon DEF Inv, CallsOK
<1>8. /\ calls'[c].pc = "done" /\ calls'[c].story = s /\ calls'[c].key = k
      /\ calls'[c].outcome = "committed" /\ calls'[c].answer = d
      /\ \A e \in Calls : e # c => calls'[e] = calls[e]
  <2>1. CallIs(calls'[c], "done", s, k, "committed", d)
    BY <1>1, StoreEffect, Zenon
  <2>2. \A e \in Calls : e # c => calls'[e] = calls[e]
    BY <1>1, StoreEffect, ZenonT(30)
  <2> QED BY <2>1, <2>2, CallRecord
<1>9. stories[s] # None /\ committed[s][k] = None
  BY Zenon
<1> HIDE DEF s, k, d
<1>10. StoriesOK'
  <2>1. Logged(committed'[s], stories'[s].turn)
    <3>1. Logged(committed[s], stories[s].turn)
      BY <1>6, <1>9, Zenon DEF StoryOK
    <3>2. /\ stories[s].turn \in Nat /\ k \in Keys /\ committed[s][k] = None
          /\ committed'[s][k] # None /\ committed'[s][k].turn = stories[s].turn + 1
          /\ \A l \in Keys : l # k => committed'[s][l] = committed[s][l]
      BY <1>1, <1>3, <1>4, <1>9, Zenon
    <3>3. Logged(committed'[s], stories[s].turn + 1)
      <4>1. Extends(committed[s], committed'[s], stories[s].turn, k)
        BY <3>2, Zenon DEF Extends
      <4> QED BY <3>1, <3>2, <4>1, LogGrows, Zenon
    <3> QED BY <1>2, <3>3, Zenon
  <2>2. StoryOK(stories'[s], info'[s], committed'[s], manager'[s])
    BY <1>1, <1>2, <1>4, <1>6, <1>9, <2>1, ZenonT(30) DEF StoryOK
  <2> QED BY <1>4, <2>2, Zenon DEF Inv, StoriesOK
<1>11. PacksOK'
  BY <1>4, ZenonT(30) DEF Inv, PacksOK
<1>12. CallsOK'
  <2>1. CallOK(calls'[c], stories', committed', manager')
    <3>1. manager'[s] \in {"live", "releasing", "gone"}
      BY <1>4, <1>6, <1>9, Zenon DEF StoryOK
    <3> QED BY <1>1, <1>3, <1>4, <1>8, <3>1, DoneCall, ZenonT(30)
  <2>2. ASSUME NEW e \in Calls, e # c PROVE CallOK(calls'[e], stories', committed', manager')
    <3>1. CallOK(calls[e], stories, committed, manager) /\ calls'[e] = calls[e] /\ manager' = manager
      BY <1>4, <1>7, <1>8, <2>2, ZenonT(30)
    <3>2. OneTurn(stories, stories', committed, committed', s, k)
      BY <1>2, <1>3, <1>4, <1>9, ZenonT(30) DEF OneTurn
    <3>3. CallOK(calls[e], stories', committed', manager)
      BY <1>1, <3>1, <3>2, CallKept, ZenonT(30)
    <3> QED BY <3>1, <3>3, ZenonT(30)
  <2> QED BY <2>1, <2>2, ZenonT(30) DEF CallsOK
<1> QED BY <1>5, <1>10, <1>11, <1>12, Zenon DEF Inv

LEMMA CommitInv ==
    ASSUME Inv, NEW c \in Calls, Commit(c)
    PROVE  Inv'
<1>1. calls[c].pc = "storing"
  BY ZenonT(30) DEF Commit
<1>2. CASE End(c, "not_found") /\ UNCHANGED <<stores, starts>>
  BY <1>1, <1>2, EndInv, Zenon
<1>3. CASE committed[Story(c)][Key(c)] # None /\ Answer(c, committed[Story(c)][Key(c)]) /\ UNCHANGED <<stores, starts>>
  BY <1>1, <1>3, AnswerInv, Zenon
<1>4. CASE /\ stories[Story(c)] # None
           /\ End(c, refusal(stories[Story(c)], calls[c].draft)) /\ UNCHANGED <<stores, starts>>
  <2>1. refusal(stories[Story(c)], calls[c].draft) \notin {"committed", "pack_missing"}
    BY Zenon DEF refusal
  <2>2. refusal(stories[Story(c)], calls[c].draft) \notin {"bad_summary", "bad_knowledge"}
    BY <1>1, <1>4, RefusalHonest, Zenon
  <2> QED BY <1>1, <1>4, <2>1, <2>2, EndInv, Zenon
<1>5. CASE /\ stories[Story(c)] # None /\ committed[Story(c)][Key(c)] = None
           /\ refusal(stories[Story(c)], calls[c].draft) = "none" /\ Store(c)
  BY <1>1, <1>5, StoreInv, Zenon
<1> QED BY <1>2, <1>3, <1>4, <1>5, ZenonT(30) DEF Commit

LEMMA RunInv ==
    ASSUME Inv, NEW c \in Calls, Run(c)
    PROVE  Inv'
<1>1. CASE LoadStory(c)
  BY <1>1, LoadInv, Zenon
<1>2. CASE Baseline(c)
  BY <1>2, GetPackInv, Zenon DEF Baseline, Working, Drafted
<1>3. CASE Generate(c)
  BY <1>3, GoToInv, Zenon DEF Generate, PC, Working, Drafted, Summarised
<1>4. CASE ExtractPack(c)
  BY <1>4, GetPackInv, Zenon DEF ExtractPack, Working, Drafted
<1>5. CASE Extract(c)
  BY <1>5, ExtractInv, Zenon
<1>6. CASE Summarise(c)
  BY <1>6, SummariseInv, Zenon
<1>7. CASE StageFails(c)
  BY <1>7, EndInv, Zenon DEF StageFails
<1>8. CASE FindCommitted(c)
  BY <1>8, FindInv, Zenon
<1>9. CASE Commit(c)
  BY <1>9, CommitInv, Zenon
<1> QED BY <1>1, <1>2, <1>3, <1>4, <1>5, <1>6, <1>7, <1>8, <1>9, Zenon DEF Run

LEMMA ManageInv ==
    ASSUME Inv, NEW s \in Stories, Manage(s)
    PROVE  Inv'
BY RetainInv, InsertInv, CreateFailsInv, ReleaseInv, RemoveInv, Zenon DEF Manage

LEMMA StutterInv ==
    ASSUME Inv, UNCHANGED vars
    PROVE  Inv'
<1> USE DEF vars
<1>1. Shape'
  BY Zenon DEF Inv, Shape
<1>2. StoriesOK'
  BY Zenon DEF Inv, StoriesOK
<1>3. PacksOK'
  BY Zenon DEF Inv, PacksOK
<1>4. CallsOK'
  BY Zenon DEF Inv, CallsOK
<1> QED BY <1>1, <1>2, <1>3, <1>4, Zenon DEF Inv

LEMMA NextInv == Inv /\ [Next]_vars => Inv'
<1> SUFFICES ASSUME Inv, [Next]_vars PROVE Inv'
  BY Zenon
<1>1. CASE \E s \in Stories : Manage(s)
  BY <1>1, ManageInv, Zenon
<1>2. CASE \E c \in Calls : Run(c)
  BY <1>2, RunInv, Zenon
<1>3. CASE \E c \in Calls, s \in Stories, k \in Keys : Start(c, s, k)
  BY <1>3, StartInv, Zenon
<1>4. CASE UNCHANGED vars
  BY <1>4, StutterInv, Zenon
<1> QED BY <1>1, <1>2, <1>3, <1>4, Zenon DEF Next

(* The inductive invariant.                                                 *)
THEOREM CoreInvariant == Spec => []Inv
BY InitInv, NextInv, PTL DEF Spec

-----------------------------------------------------------------------------
(* However calls of run_turn overlap, the turns committed for a story are   *)
(* 1 .. turn_number, each under one key.                                    *)
THEOREM CoreTurnLog == Spec => []TurnLog
<1>1. Inv => TurnLog
  <2> SUFFICES ASSUME Inv, NEW s \in Stories, stories[s] # None
               PROVE  /\ {committed[s][k].turn : k \in KeysDone(s)} = 1 .. stories[s].turn
                      /\ \A k, l \in KeysDone(s) : k # l => committed[s][k].turn # committed[s][l].turn
    BY Zenon DEF TurnLog
  <2>1. Logged(committed[s], stories[s].turn)
    BY Zenon DEF Inv, StoriesOK, StoryOK
  <2> QED BY <2>1, SMTT(30) DEF Logged, KeysDone
<1> QED BY <1>1, CoreInvariant, PTL

(* With the summary on and room for the turns it leaves, summary and        *)
(* recent_turns together are the whole story.                               *)
THEOREM CoreNoTurnForgotten == Spec => []NoTurnForgotten
<1>1. Inv => NoTurnForgotten
  <2> SUFFICES ASSUME Inv, SummaryOn, NEW s \in Stories, stories[s] # None
               PROVE  /\ stories[s].covered <= stories[s].turn
                      /\ stories[s].recent = [i \in 1 .. stories[s].turn - stories[s].covered |-> stories[s].covered + i]
                      /\ Len(stories[s].recent) <= SummaryTurnCount
    BY Zenon DEF NoTurnForgotten, SummaryOn
  <2>1. GoodContext(stories[s])
    BY Zenon DEF Inv, StoriesOK, StoryOK
  <2> QED BY <2>1, SMTT(30) DEF GoodContext, RecentOK, Window
<1> QED BY <1>1, CoreInvariant, PTL

(* What a call answered stays what its key stands for while the story       *)
(* exists.                                                                  *)
THEOREM CoreAnswersStand == Spec => []AnswersStand
<1>1. Inv => AnswersStand
  BY ZenonT(30) DEF Inv, CallsOK, CallOK, AnswersStand, Story, Key
<1> QED BY <1>1, CoreInvariant, PTL

(* A stored story holds its pack, no pack outlives its stories, and a turn  *)
(* misses its pack only when its story is gone.                             *)
THEOREM CorePacksFollowStories == Spec => []PacksFollowStories
<1>1. Inv => PacksFollowStories
  <2> SUFFICES ASSUME Inv PROVE PacksFollowStories
    BY Zenon
  <2>1. \A s \in Stories : stories[s] # None => manager[s] = "live"
    BY Zenon DEF Inv, StoriesOK, StoryOK
  <2>2. \A c \in Calls : calls[c].outcome = "pack_missing" => stories[Story(c)] = None
    BY ZenonT(30) DEF Inv, CallsOK, CallOK, Story
  <2> QED BY <2>1, <2>2, Zenon DEF Inv, PacksOK, PacksFollowStories
<1> QED BY <1>1, CoreInvariant, PTL

(* Context and info agree on the life cycle, and a story is completed       *)
(* exactly when a terminal node is.                                         *)
THEOREM CoreCompletedAtTerminal == Spec => []CompletedAtTerminal
<1>1. Inv => CompletedAtTerminal
  <2> SUFFICES ASSUME Inv, NEW s \in Stories, stories[s] # None
               PROVE  /\ stories[s].life = info[s]
                      /\ info[s] = "completed" <=> TerminalDone(stories[s].narrative)
    BY Zenon DEF CompletedAtTerminal, TerminalDone
  <2>1. GoodContext(stories[s]) /\ info[s] = stories[s].life
    BY Zenon DEF Inv, StoriesOK, StoryOK
  <2> QED BY <2>1, ZenonT(30) DEF GoodContext
<1> QED BY <1>1, CoreInvariant, PTL

(* However calls overlap, what the store holds of a story is whole.         *)
THEOREM CoreStoredWhole == Spec => []StoredWhole
<1>1. TurnLog /\ NoTurnForgotten /\ CompletedAtTerminal => StoredWhole
  BY Zenon DEF StoredWhole
<1> QED BY <1>1, CoreTurnLog, CoreNoTurnForgotten, CoreCompletedAtTerminal, PTL

(* The turn number alone catches stale work: what extract and summary       *)
(* accepted is refused by commit neither for its summary nor for its        *)
(* knowledge change.                                                        *)
THEOREM CorePrevalidated == Spec => []Prevalidated
<1>1. Inv => Prevalidated
  BY Zenon DEF Inv, CallsOK, CallOK, Prevalidated
<1> QED BY <1>1, CoreInvariant, PTL

(* The conditions NarrativeGraph::queries leaves out cannot change what the *)
(* pass of resolve does, whatever the model would have said of them.        *)
THEOREM CoreQueriesSuffice == Spec => []QueriesSuffice
<1>1. Inv => QueriesSuffice
  <2> SUFFICES ASSUME Inv, NEW c \in Calls, calls[c].pc = "resolving",
                      NEW truth \in [SemanticIds -> Truth]
               PROVE  LET state == calls[c].ctx.narrative
                          turn == calls[c].ctx.turn + 1
                      IN  resolve(state, turn, truth)
                              = resolve(state, turn, [i \in queries(state) |-> truth[i]])
    BY ZenonT(30) DEF QueriesSuffice
  <2> DEFINE state == calls[c].ctx.narrative
             asked == queries(state)
             part == [i \in asked |-> truth[i]]
  <2>1. state \in [Nodes -> NodeStatus]
    BY ZenonT(30) DEF Inv, CallsOK, CallOK, Working, GoodContext
  <2>2. asked \subseteq SemanticIds
    <3> HIDE DEF state
    <3> QED BY <2>1, QueriesSemantic, Zenon
  <2>3. SameOn(asked, truth, part)
    <3> HIDE DEF asked
    <3> QED BY <2>2, Zenon DEF SameOn
  <2> HIDE DEF state, part
  <2>4. resolve(state, calls[c].ctx.turn + 1, truth) = resolve(state, calls[c].ctx.turn + 1, part)
    BY <2>1, <2>3, ResolveAsked, Zenon
  <2> QED BY <2>4, Zenon DEF state, part
<1> QED BY <1>1, CoreInvariant, PTL

(* No step takes a story back.                                              *)
THEOREM CoreMovesForward == Spec => StoryMovesForward
<1> DEFINE Step == \A s \in Stories : stories[s] # None /\ stories'[s] # None /\ stories'[s] # stories[s] =>
                       /\ stories[s].life = "active"
                       /\ stories'[s].turn = stories[s].turn + 1
                       /\ stories'[s].covered >= stories[s].covered
                       /\ \A n \in Nodes : \/ stories'[s].narrative[n] = stories[s].narrative[n]
                                           \/ <<stories[s].narrative[n], stories'[s].narrative[n]>> \in Forward
<1>1. Inv /\ [Next]_vars => [Step]_vars
  <2> SUFFICES ASSUME Inv, Next, NEW s \in Stories,
                      stories[s] # None, stories'[s] # None, stories'[s] # stories[s]
               PROVE  /\ stories[s].life = "active"
                      /\ stories'[s].turn = stories[s].turn + 1
                      /\ stories'[s].covered >= stories[s].covered
                      /\ Advances(stories[s].narrative, stories'[s].narrative)
    BY Zenon DEF Advances
  <2>1. manager[s] = "live"
    BY Zenon DEF Inv, StoriesOK, StoryOK
  <2>2. ~\E r \in Stories : Manage(r)
    <3>1. ASSUME NEW r \in Stories, Manage(r) PROVE stories'[s] = stories[s] \/ stories'[s] = None
      BY <2>1, <3>1, Zenon DEF Manage, CreateRetain, CreateInsert, CreateFails, CreateCompensate, RemoveStory,
                        RemoveRelease, Inv, Shape
    <3> QED BY <3>1, Zenon
  <2>3. \A c \in Calls, r \in Stories, k \in Keys : ~Start(c, r, k)
    BY Zenon DEF Start, stores
  <2>4. PICK c \in Calls : Run(c)
    BY <2>2, <2>3, Zenon DEF Next
  <2>5. Commit(c)
    BY <2>4, Zenon DEF Run, LoadStory, Baseline, Generate, ExtractPack, GetPack, Extract, Summarise, StageFails,
                FindCommitted, stores
  <2>6. /\ calls[c].pc = "storing" /\ stories[Story(c)] # None
        /\ refusal(stories[Story(c)], calls[c].draft) = "none" /\ Store(c)
    BY <2>5, ZenonT(30) DEF Commit, stores
  <2>7. Story(c) = s
    BY <2>6, Zenon DEF Store, Inv, Shape
  <2>8. stories[s].life = "active" /\ GoodContext(stories[s])
    BY <2>6, <2>7, AcceptedIsCurrent, Zenon
  <2>9. /\ GoodContext(stories'[s])
        /\ stories'[s].turn = stories[s].turn + 1
        /\ Advances(stories[s].narrative, stories'[s].narrative)
        /\ stories'[s].covered >= stories[s].covered
    BY <2>6, <2>7, StoreStory, Zenon
  <2> QED BY <2>8, <2>9, Zenon
<1>2. Spec => [][Step]_vars
  <2>1. Spec => []Inv
    BY CoreInvariant, Zenon
  <2> HIDE DEF Step
  <2> QED BY <1>1, <2>1, PTL DEF Spec
<1> QED BY <1>2, Zenon DEF StoryMovesForward
=============================================================================
