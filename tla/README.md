# A TLA+ verification of aise

`aise` is a Rust engine that runs the turns of interactive stories. A player
contributes text, a sequence of LLM-backed stages produces the next part of the
story, and the result is committed to a SQLite database together with the changes
of the story's state. This directory holds TLA+ models of the parts of it that are
hard to test, the TLC configurations that check them on small instances, and TLAPS
proofs of the most important results for every instance.

`PROJECT.json` lists the components, the runs, the source lines behind every
definition, the hazards the properties are aimed at, and the theorems.

## The system

The repository (paths below are under `src/crates/`) holds two generations.

* `aise` (the engine) and `aise-server` (its HTTP server): a persistent store,
  per-story serialisation, idempotent turns, supervised tasks, budgets and rate
  limits. Most of the hard behaviour is here.
* `aise-core` and `aise-service`: a newer, smaller engine with an in-memory store,
  a validate/repair loop, and a web demo.

| Part | Source | State | Operations | Module |
|---|---|---|---|---|
| Story turn coordinator | `aise/src/runtime/story_turn_coordinator.rs` | map of entries (semaphore, waiters, idle_since), waiter and permit counters | acquire, drop of a permit, reclaim, shutdown_with_grace | `StoryTurnCoordinator` |
| Engine, one attempt | `aise/src/engine/service.rs` | position of the attempt, what it read | execute_turn, finalize | `TurnCommit`, `TurnRuntime` |
| Store | `aise/src/persistence/sqlite_store.rs` | stories, story_turns | create_story_instance, find_committed_turn, load_story_snapshot, commit_turn | `TurnCommit` |
| Turn runtime | `aise/src/runtime/turn_runtime.rs`, `initializer.rs`, the pipelines | stage, events, failure | run, execute, each pipeline's effect | `TurnRuntime` |
| Turn context | `aise/src/turn/turn_context.rs` | phase, plan, decisions, story and its version, extraction, validation, change set | one method per transition | `TurnContext` |
| LLM gateway, limiter, budget | `aise/src/llm/gateway.rs`, `limiter.rs`, `aise/src/turn/turn_budget.rs` | two rate windows, a semaphore, reservations | reserve, acquire, call, settle, release | `LlmGateway` |
| Task supervisor, submission | `aise-server/src/tasks/supervisor.rs`, `turn_submission/service.rs` | command channel, admission semaphore, JoinSet | reserve, spawn_reserved, active_turns, shutdown_with_grace | `TurnTaskSupervisor` |
| SSE delivery | `aise-server/src/api/sse.rs`, `turn.rs` | progress and terminal lanes, stream state | emit, poll, disconnect | `SseDelivery`, with the turn `TurnStream` |
| Story state | `aise/src/story/instance_factory.rs`, `persistence/sqlite_snapshot.rs`, `sqlite_store.rs`, `validation/` | the stored story: roles, relationships, knowledge, narrative state, constraints, high waters | create, load_story_snapshot, extraction, validation, build_change_set, commit_turn | `StoryState` |
| Extraction and validators | `aise/src/domain/turn/extraction.rs`, `validation/validators/` | (pure) | each validator, allocate_knowledge_ids, enrich_extracted_knowledge | `StoryExtraction` |
| Narrative graph | `aise/src/domain/narrative_graph/` | (pure) | evaluate_condition, project, resolve, bootstrap | `StoryNarrative` |
| Knowledge activation | `aise/src/domain/knowledge/activation/` | a session: verdicts, groups, budgets, depth, timed state | one operator per method of the engine | `ActivationEngine`, `ActivationIndex` |
| Activation coordinator, caches, preview | `aise/src/context/activation/`, `persistence/sqlite_activation.rs` | index and match caches, one run of a turn, one of a preview | each read, match, round, body load; commit of the delta | `KnowledgeActivation`, `FragmentMatchCache` |
| Baseline, plan and retrieval | `aise/src/context/`, `aise/src/planning/` | (pure) | what each audience is shown | `TurnKnowledge` |
| aise-core engine and stores | `aise-core/src/engine/`, `persistence/`, `pipeline/extract`, `summary`, `commit` | stories with their contexts and commits, pack snapshots and their holders, progress of each call | create_story, remove_story, run_turn | `CoreStore` |
| aise-core narrative graph | `aise-core/src/core/narrative/` | status of each node | evaluate, queries, resolve | `NarrativeGraph` |
| aise-core turn | `aise-core/src/pipeline/`, `llm/` | the locals of run_turn | one action per stage, call and answer | `CoreTurn` |
| aise-core activation | `aise-core/src/core/activation/` | (pure) | one operator per method of the session | `CoreActivation` |
| Web demo | `aise-service/src/web/` | the gate, one stream per client | post, receive, disconnect, the task | `WebTurn` |

How they interact: `submit` reserves an admission permit from the supervisor, then
hands it the turn; the task calls `execute_turn`, which waits for the story's permit
at the coordinator, looks for an earlier commit with the same idempotency key, runs
the stages (model calls go through the gateway), commits, and emits one terminal
event to the sink; the HTTP response streams what the sink accepted. Cancellation
(a client that left), the turn's deadline, an abort of the task at shutdown and a
crash can arrive between any two of these steps.

What makes this hard is listed in `PROJECT.json` under `hazards`, each at the line
where it bites, with the properties that would notice it going wrong.

## Modules

**`StoryTurnCoordinator`.** `acquire` is split where its task can be interrupted or
another can run: the shutdown check (`AcquireEnter`), the first locked block with its
reclaim (`AcquireRegister`), the poll of the semaphore (`PollSemaphore`,
`TakeAssigned`, `WaitFails`, `AbortWait`), the second locked block
(`AcquireUnregister`) and the count (`AcquireReturn`). Dropping a `StoryPermit` is
`DropPermit`, `ReleaseUncount`, `ReleaseEntry`, in the order of the code.
tokio's semaphore is external: it is fair (FIFO), and a permit may already be
assigned to a waiter whose task has not been polled. Time is reduced to whether an
entry's `idle_since` is younger or older than `idle_timeout`; the second can happen to
the stories in `Expiring`.

**`TurnCommit`** models an attempt from submission to answer, and `commit_turn` as a
SQLite transaction: its reads fix a snapshot (`BeginCommit`), the first write takes
the database's write lock or fails if another transaction committed in between
(`TakeWriteLock`), and the remaining writes and COMMIT are one step (`Commit`),
because nobody else can write in between. Any step may fail, and the process may
crash (`Crash`): what was not committed is gone. `Serialized` is the set of stories
whose attempts exclude each other, so that the ledger's own checks are examined with
and without the coordinator's help; `Workloads` is the set of assignments of requests
to attempts. **`StoryLedger`** is the abstract promise: an
append-only list of turns per story in which a key occurs once, and answers that are
entries of it.

**`TurnContext`** has one action per method of `TurnExecutionContext` that changes it,
with the method's `expect_phase` as guard. **`TurnRuntime`** extends it with the order
of `run_inner`, `execute`'s entry and exit checks, the model calls, cancellation, the
deadline, the commit and `finalize`. `run_inner`'s correction loop is commented out in
the source, so `TurnRuntime` does not take it: it goes on with the two debug calls that
replace the loop, `set_pahse` and `construct_changeset`, which have no `expect_phase`.
`TurnContext` has both ways to a change set, these two calls after generation, and the
transitions of the extractor, the validation and the repairer, and `StoryState` takes
them in every order their phases admit.

**`LlmGateway`** models `run_call` and what it does to the turn's budget and to the
shared limiter: reservation, the two rate gates (requests and tokens per minute,
each with its sliding window), the queue for a concurrency permit, the call, and the
settlement or release on each way out.

**`TurnTaskSupervisor`** models the callers (`reserve`, `spawn_reserved`,
`active_turns`, `shutdown_with_grace`), the command channel with its capacity, the
supervisor's loop including the wait for a permit inside it, and
`shutdown_sequence`.

**`SseDelivery`** models the sink's two lanes, the sender ends dropped one after the
other, and the stream's try_recv / select / last-recv loop. **`TurnStream`** composes it
with `TurnRuntime`: each event of the turn is an `emit`, a client that leaves cancels the
turn, the end of the task drops the sink, and the supervisor may abort the task between
any two of its steps.

**`StoryState`** follows one story from its creation over several commits. It extends
`TurnContext`, so that a turn is the sequence of the pipelines' steps the phases admit,
and adds what they read and build: the snapshot with its limits, the projection of the
narrative graph, the knowledge shown (any small subset of what activation could pick),
the extraction (one of a set of good and bad ones), the validators' remedies, the change
set and the checks and writes of `commit_turn`. `OtherTurn` is another turn of the same
story that commits in between, which the coordinator does not exclude once its entry
expires. Its pure parts are **`StoryNarrative`** (three-valued conditions, projection,
resolution, effects) and **`StoryExtraction`** (validators, id allocation, enrichment).
The pipelines from extraction to repair are the repository's code but are not called by
`run_inner` as it stands: it commits what `construct_changeset` makes up (see *What the
models found*). `StoryState` has both: any turn, and the other turn as well, may commit a
validated change set or the made-up one. What depends on the validation is claimed of
stories all of whose commits were validated (`history.validated`): that the high waters
are exact, that an effect is delivered and not dropped, that a constraint ends when due
and that what passed is accepted and readable. What holds on either way is claimed of
every story: no effect is applied twice and no constraint goes before its time.

**`ActivationEngine`** is aise's knowledge activation, a sequential algorithm, as
operators from session to session over **`ActivationIndex`** (rules, pack index, story
overlay, scan buffer). A pattern is a word and a text the set of words found in it; the
outcome of the probability and group hashes is part of the request.
**`KnowledgeActivation`** makes it a system: a turn with its baseline pass, the planner's
answer, the resumed pass and the commit, beside a preview, with each read of the store a
step of its own, the pack cache, and **`FragmentMatchCache`**, whose LRU order and
counters are kept as in the code. **`TurnKnowledge`** is what of the result is shown to
the writer and to each role, under retrieval's own limits.

**`CoreStore`** models aise-core's engine over its in-memory stores. Nothing serializes
the turns of a story there: each call of `run_turn` loads the context, works on its
copy through the stages and meets the others again in `StoryStoreMem::commit`; the
actions are the steps between two awaits. Model output is an arbitrary proposal
(`Extractions`) and an arbitrary verdict for each semantic condition asked; ids are
allocated, bounded and checked as in `extract_knowledge.rs`, and committed with the
store's own checks. Creating and removing stories, in two steps over two stores, goes
on at the same time. **`NarrativeGraph`** holds the graph's pure operators: a condition
tree is a table in which operands have smaller indices, so that evaluation is a
recursive function.

**`CoreTurn`** opens the stages `CoreStore` takes as one step: activation
(**`CoreActivation`**), the plan and its validation, retrieval, the concurrent decisions
of the roles, generation, validation, repair and the choice among the drafts. A model
call waits for a permit, is made, and is answered, or ended by cancellation or the
deadline. **`WebTurn`** puts `CoreTurn` behind aise-service's gate of one turn and its
bounded event channel, with clients that read slowly or leave.

A score is a finite `f64` in the code and an integer in `CoreTurn`; the distances
`select_choice` compares are multiplied by their common denominator, so rounding is not
part of the model.

Modules named `MC…` give the constants values for TLC; modules named `…Proofs` hold
theorems. Definitions named `Mutant of …` in their comment are deliberately wrong
variants used to show that a property can fail; no specification uses them.

## Runs

| Run | Shows |
|---|---|
| `coordinator_accounting` | with cancellation, deadline, abort, expiry and shutdown interleaved, `total_waiters` and `active_permits` stay exact, no semaphore loses its permit, turns of a story whose entry does not expire run one at a time, and a queued turn leaves the queue |
| `coordinator_reclaim_in_use` | **violated**: an entry in use is reclaimed, and a second turn of the story starts on a new semaphore |
| `turn_commit` | overlapping attempts, retries, failures and a crash on two stories: the turns of a story are a chain, answers and refusals are truthful, the whole implements `StoryLedger`; on the story the coordinator serializes there is no revision conflict and no committed request is generated again |
| `supervisor_turns` | no admission permit is lost; accepted turns, reservations and shutdown do not hang; shutdown returns only when every task is joined |
| `supervisor_full_queue` | **violated**: with the channel full, `spawn_reserved` drops the turn although `submit` answered Ok |
| `turn_stream` | a turn and its stream together, with cancellation, deadline, abort and a slow or vanishing client anywhere: the client hears at most one terminal event and it tells what the store did, a stream the server ends was drained, the commit follows the plan, a cancelled turn commits nothing, turn and stream end |
| `runtime_nested_cancel` | **violated**: a turn cancelled during a model call ends as Failed |
| `llm_gateway` | permits and reservations are given back exactly once on each way out, budgets hold, the token rate is bounded, calls end |
| `core_store` | two unserialized callers, a shared pack, creations that fail and removals: the committed turns are 1..n with one turn per key, summary and recent turns together are the whole story, work on a stale copy fails only at the turn number, answers stand, packs follow stories, the narrative moves forward, and asking only the watched conditions is enough |
| `story_state` | a story over three commits with good and bad extractions, repairs, failing turns and another turn's commit in between: a validated change set is made of the current candidate; no effect of the graph happens twice and no constraint goes early; and in a story whose commits were all validated the high waters are exactly what was given out, each effect happens, constraints end when due, and an unmoved store accepts what passed and can read it again |
| `knowledge_activation` | some 440 stories of up to four entries over their turns, a preview and a second story beside them: budgets are what the activated entries cost, verdicts are final over both passes, sticky and cooldown hold over later turns, a run works on one version of the story whatever is cached, the caches' counters are right, each audience is shown what was activated for it, once, within retrieval's limits and missing only what has no room, and every pass ends |
| `core_turn` | two browsers, stories with different rule books, a model that answers well, badly or never: activation keeps its group, budget and recursion rules; later stages never meet data the plan's validation should have refused; the best passing draft is taken; a client is told what the store holds; the gate opens again |

### Bounds

* Coordinator: three turns, so that one can own a permit, one wait and one arrive;
  two stories where reclaim by *another* story's acquire matters (`coordinator_accounting`);
  waiter limits below the number of turns, so that both refusals happen.
* Commit: three attempts over two keys, one of them with two digests, cover replay,
  key conflict and a third party's commit between two reads. They are spread over a
  serialized and an unserialized story so that at least two are of one story. One
  crash is enough: after it the remaining attempts start from what is durable.
* Supervisor: two submissions for one permit, a channel of two (`supervisor_full_queue`
  uses three turns, two permits and a channel of one so that it can be full).
* Turn and stream: a progress lane of one, below the number of progress events a turn
  emits, so that it overflows and events are left after the terminal one; one role that
  thinks beside the player. (With two such roles the run also passes, in 4.2 million states
  and twelve minutes; `StreamCommitFollowsPlan` is proved for any number.)
* Story state: two versions of the text, so that a stale extraction differs from the
  current one; extractions that are good, break each validator's rule, or pass them and
  fail later; a graph of two stages with effects; limits of one or two, and three commits,
  so that a story grows past what a snapshot may hold.
* Activation: stories of up to four entries over recursion, groups, timed effects, budgets
  and caches; caches of one story and one pack, so that the second story evicts the first.
* aise-core turn: four entries per book, three books; two repairs and a policy of one
  check and two scores; one model call at a time while two roles decide; a channel of one.
* Gateway: two turns of at most two calls, one permit, a window of two ticks; one
  request larger than the token rate, and reports below and above the reservation.

* aise-core: two callers and three calls (a first turn, an overlapping one, a retry or a
  third turn), three keys; one pack shared by two stories; a graph of two nodes with all
  kinds of conditions; a pack whose own fact has the name the first new fact would get;
  two turns before the summary and in the store, so that turns do leave it.

Runs set `CHECK_DEADLOCK FALSE` because in all of them the system may rightly stop:
every turn has ended, or the bounded inputs are used up.

### Fairness

* Coordinator: a task that can go on is polled (weak fairness of a turn's steps, the
  end of a running turn included, which its deadline guarantees). Deadlines,
  cancellation and aborts of a *wait* are not relied upon.
* Supervisor: its loop runs and its timers fire; callers that can go on do; aborted
  tasks are dropped. A turn need not end by itself, and no caller's timeout has to fire.
* Stream: the connection polls the stream. tokio's `select!` picks ready branches at
  random, so a branch that is ready again and again is taken (strong fairness of
  `SelectProgress`).
* Runtime: the task is polled until it ends; a model call ends at the latest at
  `provider_timeout_ms` or the deadline.
* Gateway: a call that can go on does, and a turn's deadline passes eventually.
* Activation: a pass that is under way is polled; nothing is assumed of its results.
* Web demo: the task is polled, time passes (the deadline), and a connection takes
  events or leaves. Nothing is assumed of the model: it may never answer.
* Story state has no liveness property and its specification no fairness.

## Proofs

All are safety results for every value of the constants, from the named assumptions
of the modules: finite sets of turns, positive limits, distinct null values, and what
the code has checked before a turn starts. `GraphAssumption` (`NarrativeGraph`) says
that the operands of a condition come before it in its table, `KnowledgeAssumption`
(`CoreStore`) that a proposal has the types of `ExtractedKnowledge`, `FailureAssumption`
(`TurnRuntime`) that errors are of `TurnFailureKind`; in `CoreActivation` and `CoreTurn`
`GroupAssumption`, `PolicyAssumption`, `RulesAssumption`, `CastAssumption` and
`AnswersAssumption` are `ValidateConfig::validate`, the constructors of the rules,
`validate_cast` and the types an answer has once it parses; `ClientsAssumption` keeps
`NoClient` apart. TLC evaluates each of them on the runs.

* `StoryTurnCoordinatorProofs`. `Accounting` (types, and both counters equal to the
  cardinality of the set of turns at the control points they count) is inductive and
  gives `CoordinatorCounters`. `PermitInv`
  (a semaphore has one holder, and is free or held whenever somebody waits) gives
  `CoordinatorKeepsPermits`; together they are `CoordinatorAccounting`. `CoordinatorExclusion` needs `EntriesLast`: in a story whose
  entry never expires each registered or running turn uses the semaphore of its story's current
  entry; two turns of a story then share a semaphore, which has one holder.
* `TurnCommitProofs`. `StoreInv` adds `TxInv` to the chain and the keys: an attempt
  whose snapshot is still the latest version has read fresh data, and one that owns
  the write lock has the latest version. This is why the checks made on the snapshot
  still hold when the row is appended. `AnswerInv` ties answers to rows and gives
  `TurnCommitTruthful`. The second half proves that the specification implements
  `StoryLedger` (`TurnCommitRefinesLedger`: each step is a step of the ledger or a
  stutter) and, with `SerialInv` (one permit, and what its owner read is current), that
  there are no conflicts and no second generation on the serialized stories
  (`TurnCommitSerialized`).
* `TurnTaskSupervisorProofs`. `SupInv` = types, `ChannelInv` (commands in the channel
  are unique and belong to pending submissions or queued tasks), `SubmitInv`, `OwnInv`
  (running tasks are in the JoinSet; the supervisor leaves with none) and
  `PermitsConserved`.
* `TurnStreamProofs` has three layers. `CtxInv` = types, `CandidateInv` (an extraction in
  the context was read from the current version), `ChangeSetSealed` and `PlanInv`; it
  gives `ContextCandidateSealed` and `ContextDecisions` for `CtxSpec`, in which the methods
  of the context are called in any order their phases admit, with any number of repairs, or
  the two debug calls follow generation (the change set they make up has no state and is
  not what `ChangeSetSealed` speaks of); a
  turn of `StoryState` is such a behaviour, with a fresh context for the next turn.
  For a turn with its stream (`StreamSpec`), `RouteInv` says what each step of `run_inner`
  finds done by the steps before it (retrieval as the plan asks, all decisions in order,
  the change set of the current text) and `EndInv` where a turn may be that has stored
  something or has failed: together `RuntimeInv`, which gives `StreamCommitFollowsPlan`.
  `SinkInv` follows the terminal event, which is in one place only (not yet emitted, in its
  lane, with the client, or lost with the connection) and true of the store wherever it is;
  it gives `StreamTellsTheStore`.
* `LlmGatewayProofs`. `BudgetInv` (usage is recorded calls plus the open reservation,
  and no reservation is open outside a call) gives `GatewayBudget`, `PermitInv` gives
  `GatewayPermits`. `GatewayTokenRate` needs the history of the token gate, the auxiliary
  variable `grants`, which no guard reads. `RateInv` = `GrantsOK` (a request leaves at most
  `queue_timeout` after its grant), `WindowOK` (what the gate has in its window is what it
  granted in the last minute: `Live` drops just the grants that are a minute old) and
  `RateOK` (no minute has grants of more than the limit). What leaves in a minute was then
  granted in it or in the minute before. The sums are a recursive function, and the lemmas
  about them (`TotalAtMost`, `TotalShift`, `TotalAppend`) are by induction on the sequence.
* `CoreStoreProofs`. `Inv` = `Shape`, `PacksOK` (both indexes of the pack store agree with
  what `create_story` and `remove_story` have done), `StoriesOK` (each stored context is a
  good one: its turns are logged, its window of recent turns follows its coverage, its
  life cycle agrees with its terminal nodes) and `CallsOK` (a call's copy was such a
  context, of a turn not later than the stored one; its draft follows that copy; an answer
  is in the store as long as the story is). A draft passes commit's turn check only if its
  copy is the stored context, which is why checks made on the copy carry over. It gives
  `CoreTurnLog`, `CoreNoTurnForgotten` and `CoreCompletedAtTerminal`, together
  `CoreStoredWhole`, and `CoreAnswersStand`, `CorePacksFollowStories` and
  `CoreMovesForward`. `CorePrevalidated` needs `ChangeOK`: the change a call carries, with
  the ids `resolve_proposals` allocated one by one, applies to the call's copy.
  `CoreQueriesSuffice` rests on `evaluate` and `collect_semantic` of a whole condition
  table: the value of a condition does not depend on semantic conditions below it that
  were not collected. Both are by induction, on the proposals and on the table.
* `CoreActivationProofs` and `WebTurnProofs` are the aise-core turn behind the web
  service, from the inside out. `CoreActivationProofs` is about one activation. The
  recursive functions of `CoreActivation` (the groups one by one, the candidates in their
  order, the rounds of `Session::run`) are unfolded into their steps. `SessionOK` is kept
  by each of them: an activated entry is due and has its reason in what was read, it is
  the one winner of each of its groups, and the bytes are the sum of what was activated.
  This gives `ActivationOK`, on which `WebTurnProofs` builds `WebKnowledgeAdmitted`.
  `TurnInv` says what each stage of `run_turn` may rely on (the plan was accepted against
  the catalogue and candidates the later stages compute again; a decision belongs to the
  role at its position; each draft in the history has its own report) and gives
  `WebStagesAgree` and `WebChosenDraft`, the latter with the lemmas that `select_choice`
  returns a maximum of `is_better` among the drafts that pass. `ClientInv` says what a
  client has heard and will hear at each point of its task. `WebInv` is both and
  inductive; TLC checked it, too, on the instance of `core_turn` before it was proved. It
  gives `WebTellsTheStore`.

Facts about recursive functions are proved by induction over their argument, from
`Induct`: a set of naturals that has 0 and is closed under successor is `Nat`. It is a
statement about sets, derived from the well-foundedness of `<`, since the provers cannot
instantiate the library's induction theorems, which take an operator. For the same reason
folds are written as recursive functions in the modules proved about.

Only model-checked:

* every liveness property (`StreamEnds`, `CancelStops`, `GateOpens` and those of the
  coordinator, the supervisor, the gateway and the activation): TLAPS has no support for
  fairness here;
* `StoryState`: its conditions (`StoryNarrative`) are RECURSIVE operators over trees, and no
  backend for arithmetic is available in a module that reaches one;
* `KnowledgeActivation`: a pass of `ActivationEngine` is nested folds over sequences, whose
  steps would first have to be unfolded as `CoreActivationProofs` does for `CoreActivation`.

## What the models found

Three runs contradict a statement of the repository; `PROJECT.json` quotes it under
`findings`:

1. `reclaim` removes entries that are in use (`story_turn_coordinator.rs:179`).
2. `spawn_reserved` loses an accepted turn when the channel is full (`supervisor.rs:158`).
3. Cancellation during a model call loses its class (`writer_planner.rs:137`).

Further differences between code and documents met while modelling, kept here as notes:

* Coordinator: `acquire` clears `idle_since` also after a failed wait (line 126), so an
  entry whose last waiter failed is never reclaimed. `shutdown_with_grace` polls
  `active_permits`, which a turn that already owns its semaphore permit increments only
  at line 133, so it may return while that turn starts.
* Store: `commit_turn` opens a deferred transaction; a commit of *another* story between
  its reads and its first write makes it fail with a store error.
* Supervisor: finished tasks stay in the JoinSet until `active_turns` or shutdown
  (line 252). `shutdown_with_grace` cancels the token before it sends its command
  (line 181), so the supervisor can be gone and the caller gets `SupervisorGone`. A second
  call returns Ok at once, also while turns still run (line 182); `ShutdownJoinsAll` is
  about the first.
* Context: the first re-extraction may repeat the output that was sent back; only the
  next repetition is recognised as no progress (`turn_context.rs:765`).
* Runtime: `run_inner` forces `ReadyToCommit` and builds the change set itself
  (`turn_runtime.rs:95`, marked as debug code); extraction and validation are skipped. The
  change set it makes up has both high waters zero, no transition and no pending effect,
  and `commit_turn` writes them as given: a story's pending effects are dropped and its
  high waters go back to zero by any turn, while
  `2026-08-18-turn-runtime-contract-alignment-spec-gpt.md:1026` says the role high water
  "never decreases". `commit_turn` itself does not compare the new high waters with the
  stored ones. `story_state` reaches such stories; `HighWaterExact` and the parts of
  `NarrativeKept` this breaks are about stories without such a commit.
* Narrative graph: `resolve` evaluates `skip_when` before `complete_when`, lets a node
  skipped in this turn be an edge source and does not look at a successor's own
  `activate_when`, all three against NP-RESOLVE-02, -05 and -06 of
  `2026-08-13-narrative-plan-resolution-spec-gpt.md:879`. A commit that only consumes
  effects leaves `graph_revision` alone (NP-COMMIT-05 there says it increments). The limit
  on pending effects also counts the ones this turn delivers.
* Validation: `ReferenceValidator` accepts changes of knowledge that only the baseline
  showed, while `enrich_extracted_knowledge` looks among the retrieved: the turn fails
  instead of asking for another extraction. The same happens for an invalid retrieval hint
  or activation term, which no validator looks at.
* Store: an update of knowledge leaves the `retrieval_hint` column as it was. Nothing
  writes a summary and a commit checks no totals, so a story with more segments, roles or
  relationships than a snapshot may have cannot be loaded for another turn
  (`sqlite_snapshot.rs:255`); `story_state` reaches such stories.
* Activation: retrieval's own limits cut mandatory entries like any other, from the
  baseline (`baseline_ctx_builder.rs:268`) and from the retrieved lists
  (`retrieval_pipeline.rs:310`), and the turn goes on;
  `2026-09-10-world-info-entry-activation-spec-phase-1-gpt.md:1205` says "Mandatory
  overflow aborts before Story generation." (A mandatory entry over one of activation's own
  budgets does end the turn.) `KnowledgeShown` says when an entry, mandatory or not, may be
  missing: each list fits its limits, and the first entry left out would not.
* Gateway: the budget counts input and output tokens; the `total_tokens` of a provider's
  report goes into the call's record only (`gateway.rs:698`), so the two totals may
  differ. A request larger than the token rate passes an empty window unrecorded
  (`limiter.rs:105`); `settle_llm` beyond the budget does not record the usage; an
  unusable answer is settled with the estimate, not with the reported usage; a call
  takes its place in the request window before it waits for the token window.

* aise-core: a key is compared without its input, so a retry with another text is
  answered with the earlier turn. A retry after the story was completed gets
  `StoryNotActive` instead of its commit (`engine.rs:67`). `MAX_MEMORIES_PER_ROLE` is
  checked only at the commit (`role.rs`), so a turn that adds a memory to a full role
  fails after all its model calls, and nothing ever removes a memory of that role unless
  the model proposes it. `NoTurnForgotten` needs `1 <= summary_turn_count <=
  max_recent_turns`, which the configuration does not enforce (the defaults, 6 and 4096,
  satisfy it). In `commit` the life-cycle check is implied by the turn-number check.

## Not modelled

* Data the properties do not tell apart: texts, prompts, JSON, errors' wording, traces.
* Reading and checking assets (packs, character cards): one pass over a document before
  a story exists. `StoryState` starts from a pack that passed it.
* Configuration, wiring, HTTP routes, the session map: no state that a turn changes, or one
  locked block per operation.
* The provider's client: `LlmGateway` and `CoreTurn` take its answer as an arbitrary choice.
* In `LlmGateway`: an abort of the task in the middle of a call, the single-prompt and the
  embedding call, and the order in which waiters of the concurrency semaphore are served.
* In `StoryState`: character cards (they only replace a profile), the outbox (nothing reads
  it) and the values of facts (a story's `fact_values` is empty and nothing writes it).
* In the activation modules: macros and regular expressions in patterns, digests, and the
  projection of a preview into its answer.
* In `CoreStore`: the limits on the bytes of roles and catalog and on the roles a turn may
  give memories to; such a refusal is a failed stage at most.
* The components `PROJECT.json` lists as `not_modelled`, with the reason for each.

## Plan

1. The shutdown order of the server as a composition of supervisor, coordinator and
   stream, with submissions and rotating sessions beside it.
2. Proofs about `StoryState` and `KnowledgeActivation`, with their RECURSIVE operators and
   folds written as recursive functions, first of all that the high waters are exact.
3. Asset validation against what `StoryState` assumes of a pack.

Where several components meet in one question they share a run, and a shallower property
gives way to a deeper one, so that the set of runs stays small enough to be repeated on
every change.
