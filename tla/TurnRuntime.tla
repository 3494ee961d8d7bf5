---------------------------- MODULE TurnRuntime ----------------------------
(***************************************************************************)
(* One turn from its fresh context to its terminal event: TurnRuntime::run *)
(* (crates/aise/src/runtime/turn_runtime.rs), the pipelines it executes    *)
(* and AiseEngine::finalize (crates/aise/src/engine/service.rs).  While    *)
(* the task waits inside a pipeline the client or the server may cancel    *)
(* the turn and its deadline may pass.  What comes before (permit, story,  *)
(* idempotency key) and the store's transaction are module TurnCommit, the *)
(* delivery of the events module SseDelivery.                              *)
(***************************************************************************)
EXTENDS TurnContext

VARIABLES
    stage,          \* the step of run_inner
    at,             \* where it is inside the step
    thought,        \* decisions the CharacterThink pipeline has collected
    cancelled,      \* the turn's cancellation token
    expired,        \* its deadline has passed
    failure,        \* kind of the TurnExecutionError on its way out
    llm_cancelled,  \* auxiliary: the gateway answered LlmError::Cancelled
    stored,         \* what commit_turn wrote
    events          \* what the sink was given

vars == <<ctx, stage, at, thought, cancelled, expired, failure, llm_cancelled, stored, events>>

LlmStage == {"WriterPlanner", "CharacterThink", "StoryGenerator"}
TurnStage == {"TurnInitializer", "BaselineBuilder", "ContextRetrieval", "TurnCommitter"} \cup LlmStage

TurnFailureKind == {"InvalidRequest", "StoryNotFound", "Cancelled", "DeadlineExceeded",
                    "RevisionConflict", "IdempotencyConflict", "Backpressure",
                    "ValidationRejected", "ValidationBudgetExhausted", "TokenBudgetExceeded",
                    "Llm", "Store", "Io", "InvariantViolation"}

\* None is also the error of a turn that has none.
ASSUME FailureAssumption == None \notin TurnFailureKind

terminal_kind(kind) ==
    CASE kind = "Cancelled" -> "Cancelled"
      [] kind \in {"RevisionConflict", "IdempotencyConflict"} -> "Conflict"
      [] OTHER -> "Failed"

StageStarted(s) == [event |-> "StageStarted", stage |-> s]
Terminal(kind) == [event |-> kind, stage |-> None]

stage_entry_phases(s) ==
    CASE s = "TurnInitializer" -> {"Created"}
      [] s = "BaselineBuilder" -> {"Initialized"}
      [] s = "WriterPlanner" -> {"Prepared"}
      [] s \in {"ContextRetrieval", "CharacterThink"} -> {"Planned"}
      [] s = "StoryGenerator" -> {"ContextReady"}
      [] s = "TurnCommitter" -> {"ReadyToCommit"}

\* The two stages without an entry in the code leave the phase open.
stage_exit_phases(s) ==
    CASE s = "TurnInitializer" -> {"Initialized"}
      [] s = "BaselineBuilder" -> {"Prepared"}
      [] s = "WriterPlanner" -> {"Planned"}
      [] s = "StoryGenerator" -> {"StoryReady"}
      [] s = "TurnCommitter" -> {"Committed"}
      [] OTHER -> TurnPhase

\* The order of run_inner.
After(s) ==
    CASE s = "TurnInitializer" -> "BaselineBuilder"
      [] s = "BaselineBuilder" -> "WriterPlanner"
      [] s = "WriterPlanner" -> "retrieval?"
      [] s = "ContextRetrieval" -> "thinking?"
      [] s = "CharacterThink" -> "complete"
      [] s = "complete" -> "StoryGenerator"
      [] s = "StoryGenerator" -> "ready"
      [] s = "ready" -> "construct"
      [] s = "construct" -> "TurnCommitter"
      [] s = "TurnCommitter" -> "finalize"

GoTo(s) == stage' = s /\ at' = "enter"
\* `?` leaves run_inner, and execute_turn_inner goes on to finalize.
Fail(kind) == failure' = kind /\ GoTo("finalize")

Init ==
    /\ CtxInit
    /\ stage = "TurnInitializer" /\ at = "enter"
    /\ thought = 0
    /\ cancelled = FALSE /\ expired = FALSE
    /\ failure = None /\ llm_cancelled = FALSE
    /\ stored = None
    /\ events = << >>

-----------------------------------------------------------------------------
(* TurnRuntime::execute around a pipeline. *)

\* Mutant of EntryError: the token is not looked at.
EntryErrorIgnoresCancel ==
    IF ctx.phase \notin stage_entry_phases(stage) THEN "InvariantViolation"
    ELSE IF expired THEN "DeadlineExceeded"
    ELSE None

EntryError ==
    IF ctx.phase \notin stage_entry_phases(stage) THEN "InvariantViolation"
    ELSE IF cancelled THEN "Cancelled"
    ELSE IF expired THEN "DeadlineExceeded"
    ELSE None

Enter ==
    /\ stage \in TurnStage /\ at = "enter"
    /\ IF EntryError # None
       THEN Fail(EntryError) /\ UNCHANGED events
       ELSE /\ at' = "running"
            /\ events' = Append(events, StageStarted(stage))
            /\ UNCHANGED <<stage, failure>>
    /\ UNCHANGED <<ctx, thought, cancelled, expired, llm_cancelled, stored>>

Exit ==
    /\ at = "exit"
    /\ IF ctx.phase \notin stage_exit_phases(stage)
       THEN Fail("InvariantViolation")
       ELSE GoTo(After(stage)) /\ UNCHANGED failure
    /\ UNCHANGED <<ctx, thought, cancelled, expired, llm_cancelled, stored, events>>

-----------------------------------------------------------------------------
(* The pipelines. *)

Executing(s) == stage = s /\ at = "running"
Return == at' = "exit" /\ UNCHANGED <<stage, failure>>

Initializer ==
    /\ Executing("TurnInitializer")
    /\ complete_initialization
    /\ Return
    /\ UNCHANGED <<thought, cancelled, expired, llm_cancelled, stored, events>>

BaselineBuilder ==
    /\ Executing("BaselineBuilder")
    /\ set_prepared_context
    /\ Return
    /\ UNCHANGED <<thought, cancelled, expired, llm_cancelled, stored, events>>

ContextRetrieval ==
    /\ Executing("ContextRetrieval")
    /\ \E audiences \in SUBSET Roles : set_retrieved_context(audiences)
    /\ Return
    /\ UNCHANGED <<thought, cancelled, expired, llm_cancelled, stored, events>>

\* The pipelines that call a model.  The gateway looks at the token and the
\* deadline before it sends the request.  Whatever LlmError comes back, also
\* Cancelled, the pipelines make it an error of kind Llm.
CallModel ==
    /\ stage \in LlmStage /\ at = "running"
    /\ stage = "CharacterThink" => thought < Len(ctx.plan.think)
    /\ IF cancelled \/ expired
       THEN Fail("Llm") /\ llm_cancelled' = cancelled
       ELSE at' = "calling" /\ UNCHANGED <<stage, failure, llm_cancelled>>
    /\ UNCHANGED <<ctx, thought, cancelled, expired, stored, events>>

\* The call ends early: the token, the deadline or an error of the provider.
ModelCallFails ==
    /\ at = "calling"
    /\ Fail("Llm")
    /\ llm_cancelled' \in {FALSE, cancelled}
    /\ UNCHANGED <<ctx, thought, cancelled, expired, stored, events>>

WriterPlanner ==
    /\ stage = "WriterPlanner" /\ at = "calling"
    /\ \E p \in WriterPlan : set_writer_plan(p)
    /\ Return
    /\ UNCHANGED <<thought, cancelled, expired, llm_cancelled, stored, events>>

CharacterDecides ==
    /\ stage = "CharacterThink" /\ at = "calling"
    /\ thought' = thought + 1
    /\ at' = "running"
    /\ UNCHANGED <<ctx, stage, cancelled, expired, failure, llm_cancelled, stored, events>>

\* Mutant of CharacterThink: the decisions so far are handed over.
CharacterThinkPartial ==
    /\ Executing("CharacterThink")
    /\ ctx' = [ctx EXCEPT !.decisions = SubSeq(ctx.plan.think, 1, thought)]
    /\ Return
    /\ UNCHANGED <<thought, cancelled, expired, llm_cancelled, stored, events>>

CharacterThink ==
    /\ Executing("CharacterThink")
    /\ thought = Len(ctx.plan.think)
    /\ set_character_decisions(ctx.plan.think)
    /\ Return
    /\ UNCHANGED <<thought, cancelled, expired, llm_cancelled, stored, events>>

StoryGenerator ==
    /\ stage = "StoryGenerator" /\ at = "calling"
    /\ \E text \in Texts : set_generated_story(text)
    /\ Return
    /\ UNCHANGED <<thought, cancelled, expired, llm_cancelled, stored, events>>

\* A pipeline's own errors: its store call fails, or what it built or was
\* given does not hold together.
PipelineFails ==
    /\ at = "running"
    /\ \/ stage = "BaselineBuilder" /\ Fail("Store")
       \/ stage \in {"BaselineBuilder", "ContextRetrieval"} \cup LlmStage /\ Fail("InvariantViolation")
    /\ UNCHANGED <<ctx, thought, cancelled, expired, llm_cancelled, stored, events>>

\* What the model returned cannot be used.
OutputRejected ==
    /\ at = "calling"
    /\ \/ stage = "WriterPlanner" /\ Fail("InvariantViolation")
       \/ stage \in {"CharacterThink", "StoryGenerator"} /\ Fail("Llm")
    /\ UNCHANGED <<ctx, thought, cancelled, expired, llm_cancelled, stored, events>>

-----------------------------------------------------------------------------
(* Between the pipelines. *)

Retrieval ==
    /\ stage = "retrieval?"
    /\ IF requires_retrieval
       THEN GoTo("ContextRetrieval") /\ UNCHANGED ctx
       ELSE skip_retrieval /\ GoTo("thinking?")
    /\ UNCHANGED <<thought, cancelled, expired, failure, llm_cancelled, stored, events>>

Thinking ==
    /\ stage = "thinking?"
    /\ IF requires_character_thinking
       THEN GoTo("CharacterThink") /\ UNCHANGED ctx
       ELSE skip_character_thinking /\ GoTo("complete")
    /\ UNCHANGED <<thought, cancelled, expired, failure, llm_cancelled, stored, events>>

CompletePreparation ==
    /\ stage = "complete"
    /\ complete_context_preparation
    /\ GoTo(After(stage))
    /\ UNCHANGED <<thought, cancelled, expired, failure, llm_cancelled, stored, events>>

\* The correction loop is commented out.
SetReady ==
    /\ stage = "ready"
    /\ set_pahse("ReadyToCommit")
    /\ GoTo(After(stage))
    /\ UNCHANGED <<thought, cancelled, expired, failure, llm_cancelled, stored, events>>

ConstructChangeSet ==
    /\ stage = "construct"
    /\ construct_changeset
    /\ GoTo(After(stage))
    /\ UNCHANGED <<thought, cancelled, expired, failure, llm_cancelled, stored, events>>

-----------------------------------------------------------------------------
(* TurnCommitter and finalize. *)

\* commit_turn commits its transaction; the task has not seen it yet.
CommitTurn ==
    /\ Executing("TurnCommitter")
    /\ CommitGate
    /\ stored' = ctx.change_set
    /\ at' = "committed"
    /\ UNCHANGED <<ctx, stage, thought, cancelled, expired, failure, llm_cancelled, events>>

CommitRefused ==
    /\ Executing("TurnCommitter")
    /\ \E kind \in {"RevisionConflict", "IdempotencyConflict", "Store"} : Fail(kind)
    /\ UNCHANGED <<ctx, thought, cancelled, expired, llm_cancelled, stored, events>>

Committed ==
    /\ at = "committed"
    /\ set_committed_result
    /\ Return
    /\ UNCHANGED <<thought, cancelled, expired, llm_cancelled, stored, events>>

Finalize ==
    /\ stage = "finalize" /\ at = "enter"
    /\ at' = "done"
    /\ IF failure = None
       THEN UNCHANGED ctx /\ events' = Append(events, Terminal("Committed"))
       ELSE /\ mark(terminal_kind(failure))
            /\ events' = Append(events, Terminal(terminal_kind(failure)))
    /\ UNCHANGED <<stage, thought, cancelled, expired, failure, llm_cancelled, stored>>

-----------------------------------------------------------------------------
(* The environment. *)

Cancel ==
    /\ ~cancelled /\ at # "done"
    /\ cancelled' = TRUE
    /\ UNCHANGED <<ctx, stage, at, thought, expired, failure, llm_cancelled, stored, events>>

Expire ==
    /\ ~expired /\ at # "done"
    /\ expired' = TRUE
    /\ UNCHANGED <<ctx, stage, at, thought, cancelled, failure, llm_cancelled, stored, events>>

\* The steps of the turn's task.
Step ==
    \/ Enter \/ Exit \/ Initializer \/ BaselineBuilder \/ ContextRetrieval
    \/ CallModel \/ ModelCallFails \/ WriterPlanner \/ CharacterDecides \/ CharacterThink
    \/ StoryGenerator \/ PipelineFails \/ OutputRejected
    \/ Retrieval \/ Thinking \/ CompletePreparation \/ SetReady \/ ConstructChangeSet
    \/ CommitTurn \/ CommitRefused \/ Committed \/ Finalize

Next == Step \/ Cancel \/ Expire

Spec == Init /\ [][Next]_vars

-----------------------------------------------------------------------------
Done == at = "done"
IsTerminal(e) == e.event # "StageStarted"
Ending == events[Len(events)].event

\* A committed turn went the way its plan says: knowledge was retrieved when
\* the plan asks for it, for roles that are asked to think only, and the
\* decisions are those of all the roles asked, in order, none the player's.
CommitFollowsPlan ==
    stored # None =>
        /\ ctx.retrieval_skipped = ~requires_retrieval
        /\ ctx.retrieved \subseteq ThinkRoles
        /\ ctx.decisions = ctx.plan.think
        /\ Player \notin ThinkRoles
        /\ ctx.story = stored.story

CommitStarted == stage = "TurnCommitter" /\ at # "enter"

\* What the remediation specification says of nested errors: a turn whose
\* model call was answered with Cancelled ends as Cancelled.
CancelKeepsItsClass == Done /\ llm_cancelled => Ending = "Cancelled"
=============================================================================
