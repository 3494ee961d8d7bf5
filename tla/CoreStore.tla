------------------------------ MODULE CoreStore ------------------------------
(***************************************************************************)
(* The engine of crates/aise-core over its stores: create_story,           *)
(* remove_story and run_turn of engine/engine.rs, Store of                 *)
(* persistence/store.rs, StoryStoreMem and PackStoreMem, and the stages of *)
(* pipeline/ that read or write them: baseline, extract, summary, commit.  *)
(*                                                                         *)
(* Nothing serializes the turns of one story here: calls of run_turn load  *)
(* the context, work on their copy for a long time, and meet again in      *)
(* StoryStoreMem::commit. Each action is one step between two awaits, or   *)
(* what happens under one lock of a store.                                 *)
(***************************************************************************)
EXTENDS Integers, Sequences, FiniteSets, NarrativeGraph

CONSTANTS
    Stories,           \* ids generate_story_id gives, each once
    Calls,             \* tasks that call run_turn
    Keys,              \* idempotency keys
    Requests,          \* what clients ask for: pairs of a story and a key
    Digest,            \* story -> digest of the pack it is made from
    Roles,             \* the roles of the pack, which have memories
    Seeds,             \* Knowledge at turn 0
    Extractions,       \* what the model may propose: [ops, roles]
    MaxChanges,        \* max_fact_changes, max_rumor_changes, max_memory_changes_per_role
    MaxMemories,       \* MAX_MEMORIES_PER_ROLE
    MaxPacks,          \* PackStoreConfig::max_packs
    SummaryTurnCount,  \* SummaryConfig::summary_turn_count
    MaxRecentTurns,    \* StoryStoreConfig::max_recent_turns
    MaxStarts          \* bound: calls of run_turn

ASSUME BoundsAssumption ==
    {SummaryTurnCount, MaxRecentTurns, MaxPacks, MaxMemories, MaxChanges, MaxStarts} \subseteq Nat

\* No story, no commit, no change.
None == [none |-> TRUE]

ASSUME DigestAssumption == \A s \in Stories : Digest[s] # None

VARIABLES
    stories,    \* story -> None or its StoryContext
    info,       \* story -> life_cycle of its StoryInstanceInfo
    committed,  \* story -> key -> None or the StoryCommit
    packs,      \* digest -> the stories that hold the snapshot, {}: not stored
    holder,     \* story -> None or the digest it holds
    manager,    \* story -> where create_story or remove_story is
    calls,      \* call -> its progress
    starts

vars == <<stories, info, committed, packs, holder, manager, calls, starts>>
stores == <<stories, info, committed, packs, holder, manager>>

\* Facts, rumors, and the memories of each role.
Kinds == {"fact", "rumor"} \cup Roles
Names == Nat \X Nat           \* fact_t3_1 is <<3, 1>>; the packs' own ids too
Digests == {Digest[s] : s \in Stories}
KnowledgeOp == [op : {"add", "update", "remove"}, id : Names]
Proposal == [op : {"add", "update", "remove"}, id : Names, rule : BOOLEAN]

ASSUME KnowledgeAssumption ==
    /\ Seeds \in [Kinds -> SUBSET Names]
    /\ \A k \in Kinds : IsFiniteSet(Seeds[k])
    /\ \A x \in Extractions : x.ops \in [Kinds -> Seq(Proposal)]

LifeCycle == {"active", "completed"}
Managing == {"unborn", "retained", "compensating", "live", "releasing", "gone"}

PC == {"idle", "loading", "baseline", "generating", "extracting", "resolving",
       "summarising", "finding", "storing", "done"}
Outcomes == {"none", "committed", "not_found", "not_active", "pack_missing", "stage_failed",
             "turn_conflict", "bad_summary", "bad_knowledge", "too_many_memories"}

Idle == [pc |-> "idle", story |-> None, key |-> None, ctx |-> None, draft |-> None,
         outcome |-> "none", answer |-> None]

Init ==
    /\ stories = [s \in Stories |-> None]
    /\ info = [s \in Stories |-> "active"]
    /\ committed = [s \in Stories |-> [k \in Keys |-> None]]
    /\ packs = [d \in Digests |-> {}]
    /\ holder = [s \in Stories |-> None]
    /\ manager = [s \in Stories |-> "unborn"]
    /\ calls = [c \in Calls |-> Idle]
    /\ starts = 0

-----------------------------------------------------------------------------
(* The pack store. *)

Stored == {d \in Digests : packs[d] # {}}

CanRetain(s) ==
    /\ holder[s] = None
    /\ Digest[s] \in Stored \/ Cardinality(Stored) < MaxPacks

retain(s) ==
    /\ packs' = [packs EXCEPT ![Digest[s]] = @ \cup {s}]
    /\ holder' = [holder EXCEPT ![s] = Digest[s]]

\* Mutant of release: the snapshot goes with its first holder.
release_all(s) ==
    /\ packs' = [d \in Digests |-> IF d = holder[s] THEN {} ELSE packs[d]]
    /\ holder' = [holder EXCEPT ![s] = None]

\* The snapshot goes with its last holder.
release(s) ==
    /\ packs' = [d \in Digests |-> IF d = holder[s] THEN packs[d] \ {s} ELSE packs[d]]
    /\ holder' = [holder EXCEPT ![s] = None]

-----------------------------------------------------------------------------
(* create_story and remove_story. *)

NewStory(s) ==
    [turn |-> 0, covered |-> 0, recent |-> <<>>, life |-> "active",
     knowledge |-> Seeds, narrative |-> initial_state]

\* Store::create_story: the pack first.
CreateRetain(s) ==
    /\ manager[s] = "unborn"
    /\ CanRetain(s)
    /\ retain(s)
    /\ manager' = [manager EXCEPT ![s] = "retained"]
    /\ UNCHANGED <<stories, info, committed, calls, starts>>

CreateInsert(s) ==
    /\ manager[s] = "retained"
    /\ stories' = [stories EXCEPT ![s] = NewStory(s)]
    /\ manager' = [manager EXCEPT ![s] = "live"]
    /\ UNCHANGED <<info, committed, packs, holder, calls, starts>>

\* story_store.create refuses: the pack is released again.
CreateFails(s) ==
    /\ manager[s] = "retained"
    /\ manager' = [manager EXCEPT ![s] = "compensating"]
    /\ UNCHANGED <<stories, info, committed, packs, holder, calls, starts>>

CreateCompensate(s) ==
    /\ manager[s] = "compensating"
    /\ release(s)
    /\ manager' = [manager EXCEPT ![s] = "gone"]
    /\ UNCHANGED <<stories, info, committed, calls, starts>>

\* Store::remove_story; a story that is not there is no error, so a removal
\* may be repeated.
RemoveStory(s) ==
    /\ manager[s] \in {"live", "gone"}
    /\ stories' = [stories EXCEPT ![s] = None]
    /\ info' = [info EXCEPT ![s] = "active"]
    /\ committed' = [committed EXCEPT ![s] = [k \in Keys |-> None]]
    /\ manager' = [manager EXCEPT ![s] = "releasing"]
    /\ UNCHANGED <<packs, holder, calls, starts>>

RemoveRelease(s) ==
    /\ manager[s] = "releasing"
    /\ release(s)
    /\ manager' = [manager EXCEPT ![s] = "gone"]
    /\ UNCHANGED <<stories, info, committed, calls, starts>>

-----------------------------------------------------------------------------
(* extract_knowledge.rs: what the model proposes becomes a KnowledgeChange. *)

\* Mutant of allocate_id: the names of a turn are thought to be free.
allocate_next(taken, turn, seq) == <<turn, seq>>

\* allocate_fact_id, allocate_rumor_id, allocate_memory_id: the first free
\* name of the turn, from seq on.
allocate_id(taken, turn, seq) ==
    LET free == {n \in seq .. seq + Cardinality(taken) : <<turn, n>> \notin taken}
    IN  <<turn, CHOOSE n \in free : \A m \in free : n <= m>>

Resolving == [ok |-> TRUE, adds |-> 0, targeted |-> {}, reserved |-> {}, ops |-> <<>>]

\* One proposal of resolve_world_knowledge or resolve_role_memories; rule is
\* FALSE for a body that validate_activation_rule refuses.
resolve_one(existing, turn, acc, p) ==
    IF p.op = "add"
    THEN LET id == allocate_id(existing \cup acc.reserved, turn, acc.adds + 1)
         IN  [acc EXCEPT !.ok = @ /\ p.rule, !.adds = @ + 1, !.reserved = @ \cup {id},
                         !.ops = Append(@, [op |-> "add", id |-> id])]
    ELSE [acc EXCEPT !.ok = /\ @
                            /\ p.id \in existing
                            /\ p.id \notin acc.targeted
                            /\ p.op = "update" => p.rule,
                     !.targeted = @ \cup {p.id},
                     !.ops = Append(@, [op |-> p.op, id |-> p.id])]

resolve_proposals(existing, turn, proposals) ==
    LET acc[i \in 0 .. Len(proposals)] ==
            IF i = 0 THEN Resolving ELSE resolve_one(existing, turn, acc[i - 1], proposals[i])
        result == acc[Len(proposals)]
    IN  [result EXCEPT !.ok = @ /\ Len(proposals) <= MaxChanges]

\* roles_for_memory: known roles, none of them twice.
RolesOk(roles) ==
    /\ \A i \in DOMAIN roles : roles[i] \in Roles
    /\ \A i, j \in DOMAIN roles : i # j => roles[i] # roles[j]

\* parse_world_knowledge, then parse_role_memory for each role it selects.
resolve_knowledge(ctx, x) ==
    [k \in Kinds |-> IF k \in {"fact", "rumor"} \cup {x.roles[i] : i \in DOMAIN x.roles}
                     THEN resolve_proposals(ctx.knowledge[k], ctx.turn + 1, x.ops[k])
                     ELSE Resolving]

\* extract_narrative.rs: resolve_narrative, None for Change::Unchanged.
resolve_narrative(ctx, results) ==
    LET next == resolve(ctx.narrative, ctx.turn + 1, results)
    IN  IF next = ctx.narrative THEN None ELSE next

\* SummaryPipeline::covered_turn_count.
covered_turn_count(ctx) ==
    IF SummaryTurnCount = 0 \/ Len(ctx.recent) + 1 <= SummaryTurnCount THEN 0
    ELSE Len(ctx.recent) + 1 - SummaryTurnCount

-----------------------------------------------------------------------------
(* StoryStoreMem::commit. *)

validate_knowledge_change(ctx, change) ==
    \A k \in Kinds :
        /\ \A i, j \in DOMAIN change[k] : i # j => change[k][i].id # change[k][j].id
        /\ \A i \in DOMAIN change[k] :
              change[k][i].op = "add" <=> change[k][i].id \notin ctx.knowledge[k]

Touched(ops, op) == {ops[i].id : i \in {j \in DOMAIN ops : ops[j].op = op}}

apply_knowledge_change(ctx, change) ==
    [k \in Kinds |-> (ctx.knowledge[k] \cup Touched(change[k], "add")) \ Touched(change[k], "remove")]

\* Mutant of adjust_recent_turns: the first turn not covered goes too.
adjust_one_more(recent, covered) ==
    LET kept == SelectSeq(recent, LAMBDA t : t > covered)
    IN  IF covered > 0 THEN Tail(kept) ELSE kept

\* The newest MaxRecentTurns turns, without a prefix the summary covers.
adjust_recent_turns(recent, covered) ==
    LET excess == IF Len(recent) > MaxRecentTurns THEN Len(recent) - MaxRecentTurns ELSE 0
        prefix == CHOOSE n \in excess .. Len(recent) :
                      /\ \A i \in excess + 1 .. n : recent[i] <= covered
                      /\ n < Len(recent) => recent[n + 1] > covered
    IN  SubSeq(recent, prefix + 1, Len(recent))

next_context(ctx, draft) ==
    LET covered == IF draft.covered = 0 THEN ctx.covered ELSE draft.covered
    IN  [turn |-> draft.turn,
         covered |-> covered,
         recent |-> adjust_recent_turns(Append(ctx.recent, draft.turn), covered),
         life |-> IF draft.completes THEN "completed" ELSE ctx.life,
         knowledge |-> apply_knowledge_change(ctx, draft.change),
         narrative |-> IF draft.narrative = None THEN ctx.narrative ELSE draft.narrative]

\* Mutant of refusal: the turn number is not compared.
refusal_any_turn(ctx, draft) ==
    IF ctx.life # "active" THEN "not_active"
    ELSE IF draft.covered # 0 /\ (draft.covered > draft.turn \/ draft.covered < ctx.covered) THEN "bad_summary"
    ELSE IF ~validate_knowledge_change(ctx, draft.change) THEN "bad_knowledge"
    ELSE "none"

\* Why commit refuses a draft, in the order of its checks; "none" if it does not.
\* Of the size limits only the number of memories is here: a draft the code
\* refuses for the bytes of the roles or their catalog may be committed.
refusal(ctx, draft) ==
    IF ctx.life # "active" THEN "not_active"
    ELSE IF draft.turn # ctx.turn + 1 THEN "turn_conflict"
    ELSE IF draft.covered # 0 /\ (draft.covered > draft.turn \/ draft.covered < ctx.covered) THEN "bad_summary"
    ELSE IF ~validate_knowledge_change(ctx, draft.change) THEN "bad_knowledge"
    ELSE IF \E r \in Roles : Cardinality(apply_knowledge_change(ctx, draft.change)[r]) > MaxMemories
         THEN "too_many_memories"
    ELSE "none"

-----------------------------------------------------------------------------
(* run_turn. *)

Story(c) == calls[c].story
Key(c) == calls[c].key

GoTo(c, pc) == calls' = [calls EXCEPT ![c].pc = pc]
Return(c, outcome, commit) ==
    calls' = [calls EXCEPT ![c] = [Idle EXCEPT !.pc = "done", !.story = Story(c), !.key = Key(c),
                                               !.outcome = outcome, !.answer = commit]]
End(c, outcome) == Return(c, outcome, None)
Answer(c, commit) == Return(c, "committed", commit)

\* A request for a story that was created, with a new key or one used before.
Start(c, s, k) ==
    /\ calls[c].pc \in {"idle", "done"}
    /\ <<s, k>> \in Requests
    /\ starts < MaxStarts
    /\ manager[s] \in {"live", "releasing", "gone"}
    /\ calls' = [calls EXCEPT ![c] = [Idle EXCEPT !.pc = "loading", !.story = s, !.key = k]]
    /\ starts' = starts + 1
    /\ UNCHANGED stores

LoadStory(c) ==
    /\ calls[c].pc = "loading"
    /\ LET ctx == stories[Story(c)]
       IN  CASE ctx = None -> End(c, "not_found")
             [] ctx # None /\ ctx.life # "active" -> End(c, "not_active")
             [] OTHER -> calls' = [calls EXCEPT ![c].pc = "baseline", ![c].ctx = ctx]
    /\ UNCHANGED <<stores, starts>>

\* Baseline and extract look the pack up by the reference in their context.
GetPack(c, from, to) ==
    /\ calls[c].pc = from
    /\ IF packs[Digest[Story(c)]] # {} THEN GoTo(c, to) ELSE End(c, "pack_missing")
    /\ UNCHANGED <<stores, starts>>

Baseline(c) == GetPack(c, "baseline", "generating")

\* Plan, retrieval, think, generate, validate and repair: CoreTurn.
Generate(c) ==
    /\ calls[c].pc = "generating"
    /\ GoTo(c, "extracting")
    /\ UNCHANGED <<stores, starts>>

ExtractPack(c) == GetPack(c, "extracting", "resolving")

\* evaluate_narrative joined with extract_world_knowledge, then the memories.
Extract(c) ==
    /\ calls[c].pc = "resolving"
    /\ LET ctx == calls[c].ctx
       IN  \E x \in Extractions, results \in [queries(ctx.narrative) -> Truth] :
             LET resolved == resolve_knowledge(ctx, x)
                 narrative == resolve_narrative(ctx, results)
             IN  IF RolesOk(x.roles) /\ \A k \in Kinds : resolved[k].ok
                 THEN calls' = [calls EXCEPT
                         ![c].pc = "summarising",
                         ![c].draft = [turn |-> ctx.turn + 1,
                                       covered |-> 0,
                                       change |-> [k \in Kinds |-> resolved[k].ops],
                                       narrative |-> narrative,
                                       completes |-> /\ narrative # None
                                                     /\ completes_story(ctx.narrative, narrative)]]
                 ELSE End(c, "stage_failed")
    /\ UNCHANGED <<stores, starts>>

\* Covers the turns that leave the SummaryTurnCount newest, this one included.
Summarise(c) ==
    /\ calls[c].pc = "summarising"
    /\ LET ctx == calls[c].ctx
           n == covered_turn_count(ctx)
       IN  calls' = [calls EXCEPT ![c].pc = "finding",
                                  ![c].draft.covered = IF n = 0 THEN 0 ELSE ctx.recent[n]]
    /\ UNCHANGED <<stores, starts>>

\* The model fails, times out or is cancelled, or its answer is refused.
StageFails(c) ==
    /\ calls[c].pc \in {"baseline", "generating", "resolving", "summarising"}
    /\ End(c, "stage_failed")
    /\ UNCHANGED <<stores, starts>>

\* CommitPipeline::execute, before the store's commit.
FindCommitted(c) ==
    /\ calls[c].pc = "finding"
    /\ CASE stories[Story(c)] = None -> End(c, "not_found")
         [] stories[Story(c)] # None /\ committed[Story(c)][Key(c)] # None ->
              Answer(c, committed[Story(c)][Key(c)])
         [] OTHER -> GoTo(c, "storing")
    /\ UNCHANGED <<stores, starts>>

\* StoryStoreMem::commit: the draft is stored and answered.
Store(c) ==
    LET s == Story(c)
        draft == calls[c].draft
    IN  /\ stories' = [stories EXCEPT ![s] = next_context(stories[s], draft)]
        /\ info' = [info EXCEPT ![s] = IF draft.completes THEN "completed" ELSE info[s]]
        /\ committed' = [committed EXCEPT ![s][Key(c)] = draft]
        /\ Answer(c, draft)
        /\ UNCHANGED <<packs, holder, manager, starts>>

\* Mutant of Commit: what FindCommitted saw is not checked again.
CommitUnchecked(c) ==
    /\ calls[c].pc = "storing"
    /\ IF stories[Story(c)] = None
       THEN End(c, "not_found") /\ UNCHANGED <<stores, starts>>
       ELSE Store(c)

Commit(c) ==
    /\ calls[c].pc = "storing"
    /\ LET s == Story(c)
       IN  \/ /\ stories[s] = None
              /\ End(c, "not_found")
              /\ UNCHANGED <<stores, starts>>
           \/ /\ stories[s] # None
              /\ committed[s][Key(c)] # None
              /\ Answer(c, committed[s][Key(c)])
              /\ UNCHANGED <<stores, starts>>
           \/ /\ stories[s] # None
              /\ committed[s][Key(c)] = None
              /\ refusal(stories[s], calls[c].draft) # "none"
              /\ End(c, refusal(stories[s], calls[c].draft))
              /\ UNCHANGED <<stores, starts>>
           \/ /\ stories[s] # None
              /\ committed[s][Key(c)] = None
              /\ refusal(stories[s], calls[c].draft) = "none"
              /\ Store(c)

Manage(s) ==
    \/ CreateRetain(s) \/ CreateInsert(s) \/ CreateFails(s) \/ CreateCompensate(s)
    \/ RemoveStory(s) \/ RemoveRelease(s)

Run(c) ==
    \/ LoadStory(c) \/ Baseline(c) \/ Generate(c) \/ ExtractPack(c) \/ Extract(c)
    \/ Summarise(c) \/ StageFails(c) \/ FindCommitted(c) \/ Commit(c)

Next ==
    \/ \E s \in Stories : Manage(s)
    \/ \E c \in Calls : Run(c) \/ \E s \in Stories, k \in Keys : Start(c, s, k)

Spec == Init /\ [][Next]_vars

-----------------------------------------------------------------------------
Context ==
    [turn : Nat, covered : Nat, recent : Seq(Nat), life : LifeCycle,
     knowledge : [Kinds -> SUBSET Names], narrative : [Nodes -> NodeStatus]]
Change == [Kinds -> Seq(KnowledgeOp)]
Draft ==
    [turn : Nat, covered : Nat, change : Change,
     narrative : [Nodes -> NodeStatus] \cup {None}, completes : BOOLEAN]
Call ==
    [pc : PC, story : Stories \cup {None}, key : Keys \cup {None}, ctx : Context \cup {None},
     draft : Draft \cup {None}, outcome : Outcomes, answer : Draft \cup {None}]

(* Types; None is a marker, not a value of the program. *)
TypeOK ==
    /\ stories \in [Stories -> Context \cup {None}]
    /\ info \in [Stories -> LifeCycle]
    /\ committed \in [Stories -> [Keys -> Draft \cup {None}]]
    /\ packs \in [Digests -> SUBSET Stories]
    /\ holder \in [Stories -> Digests \cup {None}]
    /\ manager \in [Stories -> Managing]
    /\ calls \in [Calls -> Call]
    /\ starts \in 0 .. MaxStarts

KeysDone(s) == {k \in Keys : committed[s][k] # None}

(* However calls of run_turn overlap, the turns StoryStoreMem::commit has   *)
(* stored for a story are 1, 2, ..., turn_number: no gap, and no number     *)
(* with two keys.                                                           *)
TurnLog ==
    \A s \in Stories : stories[s] # None =>
        /\ {committed[s][k].turn : k \in KeysDone(s)} = 1 .. stories[s].turn
        /\ \A k, l \in KeysDone(s) : k # l => committed[s][k].turn # committed[s][l].turn

(* Summary and recent_turns together never lose a turn: what the summary    *)
(* covers and what adjust_rencent_turns keeps is exactly the story so far,  *)
(* and at most summary_turn_count turns are kept, provided the summary is   *)
(* on and the store keeps at least as many turns as it leaves uncovered.    *)
NoTurnForgotten ==
    SummaryTurnCount \in 1 .. MaxRecentTurns =>
        \A s \in Stories : stories[s] # None =>
            /\ stories[s].covered <= stories[s].turn
            /\ stories[s].recent = [i \in 1 .. stories[s].turn - stories[s].covered |-> stories[s].covered + i]
            /\ Len(stories[s].recent) <= SummaryTurnCount

(* Work based on a stale copy is caught by the turn number alone: what      *)
(* extract and summary accepted against the context they loaded never fails *)
(* commit's own checks of the summary and of the knowledge change.          *)
Prevalidated == \A c \in Calls : calls[c].outcome \notin {"bad_summary", "bad_knowledge"}

(* What a call answered stays what its key stands for as long as the story  *)
(* exists: a later call with the key neither replaces nor repeats it.       *)
AnswersStand ==
    \A c \in Calls :
        calls[c].outcome = "committed" /\ stories[Story(c)] # None =>
            committed[Story(c)][Key(c)] = calls[c].answer

(* Through creations that fail half way, removals that are repeated and     *)
(* packs shared by stories: a stored story holds its pack, the two indexes  *)
(* of PackStoreMem agree, no pack outlives its stories, and a turn misses   *)
(* its pack only when the story was removed under it.                       *)
PacksFollowStories ==
    /\ \A s \in Stories : stories[s] # None => holder[s] = Digest[s]
    /\ \A d \in Digests : packs[d] = {s \in Stories : holder[s] = d}
    /\ \A s \in Stories : manager[s] \in {"unborn", "gone"} => holder[s] = None
    /\ \A c \in Calls : calls[c].outcome = "pack_missing" => stories[Story(c)] = None

(* The life cycle in the context and in the story's info agree, and it is   *)
(* Completed exactly when a terminal node of the graph is.                  *)
CompletedAtTerminal ==
    \A s \in Stories : stories[s] # None =>
        /\ stories[s].life = info[s]
        /\ info[s] = "completed" <=> \E n \in Nodes : Graph[n].terminal /\ stories[s].narrative[n] = "completed"

(* What the store holds of a story is whole: its turns are all there once,   *)
(* its summary and recent turns tell all of them, and it is completed when   *)
(* its narrative is.                                                        *)
StoredWhole == TurnLog /\ NoTurnForgotten /\ CompletedAtTerminal

Forward == {<<"inactive", "active">>, <<"active", "completed">>, <<"active", "skipped">>}

(* No step of any call takes a story back: nodes of the narrative move one  *)
(* status forward at a time, the summary never uncovers a turn, a turn      *)
(* number is never skipped, and a completed story no longer changes.        *)
StoryMovesForward ==
    [][\A s \in Stories : stories[s] # None /\ stories'[s] # None /\ stories'[s] # stories[s] =>
          /\ stories[s].life = "active"
          /\ stories'[s].turn = stories[s].turn + 1
          /\ stories'[s].covered >= stories[s].covered
          /\ \A n \in Nodes : \/ stories'[s].narrative[n] = stories[s].narrative[n]
                              \/ <<stories[s].narrative[n], stories'[s].narrative[n]>> \in Forward]_vars

(* Asking only about the conditions the nodes watch is enough: whatever the *)
(* answer to the semantic conditions that NarrativeGraph::queries leaves    *)
(* out, the pass of resolve is the same.                                    *)
QueriesSuffice ==
    \A c \in Calls : calls[c].pc = "resolving" =>
        LET state == calls[c].ctx.narrative
            turn == calls[c].ctx.turn + 1
            asked == queries(state)
        IN  \A truth \in [SemanticIds -> Truth] :
                resolve(state, turn, truth) = resolve(state, turn, [i \in asked |-> truth[i]])
=============================================================================
