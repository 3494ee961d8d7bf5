---------------------------- MODULE TurnContext ----------------------------
(***************************************************************************)
(* The working state of one turn, TurnExecutionContext                     *)
(* (crates/aise/src/turn/turn_context.rs), and the pipelines that fill it. *)
(* Every setter checks the phase first and, when a check fails, returns an *)
(* error without having changed anything: a setter is an action here, its  *)
(* failure is no step.  The specification CtxSpec runs the pipelines in    *)
(* whatever order their phases admit, the correction pipelines (extractor, *)
(* validation, repairer) and the shortcut past them included; the order    *)
(* TurnRuntime runs them in is module TurnRuntime.  Texts and model        *)
(* outputs are model values; size limits decide between success and error  *)
(* only, and are left to the choice between taking the action and not      *)
(* taking it.                                                              *)
(***************************************************************************)
EXTENDS Naturals, Sequences, FiniteSets

CONSTANTS
    Roles,                      \* roles of the story, the player's included
    Player,
    Texts,                      \* story texts (trimmed, not empty, in bounds)
    Outputs,                    \* what the extractor's model call returns
    None,
    max_character_decisions,
    MaxStoryVersion             \* u32::MAX in the code

ASSUME RolesAssumption == Player \in Roles
ASSUME NoneAssumption == None \notin Texts
ASSUME BoundsAssumption == /\ max_character_decisions \in Nat
                           /\ MaxStoryVersion \in Nat \ {0}

VARIABLE ctx

TurnPhase == {"Created", "Initialized", "Prepared", "Planned", "ContextReady", "StoryReady",
              "CandidateReady", "StoryRepairRequired", "StateReextractionRequired",
              "ReadyToCommit", "Committed", "Failed", "Cancelled", "Conflict"}
ValidationDecision == {"Pass", "RepairStory", "ReextractState", "Reject"}
TurnTerminalKind == {"Failed", "Cancelled", "Conflict"}

\* What the planner asks for: retrieval, and the roles to think for.
WriterPlan == [retrieval : BOOLEAN,
               think : UNION {[1 .. n -> Roles] : n \in 0 .. max_character_decisions}]
NoPlan == [retrieval |-> FALSE, think |-> << >>]

\* The model's output (its digest and the state decoded from it) and whether
\* it came from a re-extraction.
StoryStateExtractionEnvelope == [output : Outputs, repair_attempt : {0, 1}]
\* read_from is auxiliary: the text the extractor was shown.
BoundStateExtraction ==
    [story_version : 1 .. MaxStoryVersion, envelope : StoryStateExtractionEnvelope, read_from : Texts]
\* A change set holds the story text and what the envelope says of the state
\* (None: no state at all).
ValidatedChangeSet == [story : Texts, state : StoryStateExtractionEnvelope \cup {None}]

\* None is the absent value of each Option: no value is None.
ASSUME AbsentAssumption == /\ None \notin BoundStateExtraction
                           /\ None \notin ValidatedChangeSet
                           /\ None \notin ValidationDecision

TurnExecutionContext ==
    [phase : TurnPhase, prepared : BOOLEAN, planned : BOOLEAN, plan : WriterPlan,
     retrieved : SUBSET Roles, retrieval_skipped : BOOLEAN,
     decisions : Seq(Roles), thinking_skipped : BOOLEAN,
     story : Texts \cup {None}, story_version : 0 .. MaxStoryVersion,
     extraction : BoundStateExtraction \cup {None},
     validation : ValidationDecision \cup {None},
     change_set : ValidatedChangeSet \cup {None},
     committed_result : Texts \cup {None}, terminal_kind : TurnTerminalKind \cup {None}]

new ==
    [phase |-> "Created", prepared |-> FALSE, planned |-> FALSE, plan |-> NoPlan,
     retrieved |-> {}, retrieval_skipped |-> FALSE,
     decisions |-> << >>, thinking_skipped |-> FALSE,
     story |-> None, story_version |-> 0, extraction |-> None, validation |-> None,
     change_set |-> None, committed_result |-> None, terminal_kind |-> None]

CtxInit == ctx = new

expect_phase(p) == ctx.phase = p

-----------------------------------------------------------------------------
(* Preparation. *)

complete_initialization ==
    /\ expect_phase("Created")
    /\ ctx' = [ctx EXCEPT !.phase = "Initialized"]

\* Snapshot, baseline, narrative projection and activation are set together.
set_prepared_context ==
    /\ expect_phase("Initialized")
    /\ ctx' = [ctx EXCEPT !.prepared = TRUE, !.phase = "Prepared"]

set_writer_plan(p) ==
    /\ expect_phase("Prepared")
    /\ ctx' = [ctx EXCEPT !.plan = p, !.planned = TRUE, !.phase = "Planned"]

requires_retrieval == ctx.plan.retrieval
requires_character_thinking == ctx.plan.think # << >>
ThinkRoles == {ctx.plan.think[i] : i \in DOMAIN ctx.plan.think}

\* Only a role that is asked to think may be given knowledge of its own.
set_retrieved_context(audiences) ==
    /\ expect_phase("Planned")
    /\ ctx.planned
    /\ audiences \subseteq ThinkRoles
    /\ Cardinality(audiences) =< max_character_decisions
    /\ ctx' = [ctx EXCEPT !.retrieved = audiences]

skip_retrieval ==
    /\ expect_phase("Planned")
    /\ ctx' = [ctx EXCEPT !.retrieved = {}, !.retrieval_skipped = TRUE]

\* One decision per request, in the order of the requests, no role twice and
\* never the player's.
set_character_decisions(ds) ==
    /\ expect_phase("Planned")
    /\ ctx.planned
    /\ Len(ds) =< max_character_decisions
    /\ Len(ds) = Len(ctx.plan.think)
    /\ \A i \in DOMAIN ds : ds[i] = ctx.plan.think[i]
    /\ \A i, j \in DOMAIN ds : i # j => ds[i] # ds[j]
    /\ ctx.prepared => \A i \in DOMAIN ds : ds[i] # Player
    /\ ctx' = [ctx EXCEPT !.decisions = ds]

skip_character_thinking ==
    /\ expect_phase("Planned")
    /\ ctx.planned
    /\ ~requires_character_thinking
    /\ ctx' = [ctx EXCEPT !.decisions = << >>, !.thinking_skipped = TRUE]

complete_context_preparation ==
    /\ expect_phase("Planned")
    /\ ctx' = [ctx EXCEPT !.phase = "ContextReady"]

-----------------------------------------------------------------------------
(* The candidate: story, extraction, validation and their correction. *)

set_generated_story(text) ==
    /\ expect_phase("ContextReady")
    /\ ctx' = [ctx EXCEPT !.story = text, !.story_version = 1, !.extraction = None,
                          !.validation = None, !.change_set = None, !.phase = "StoryReady"]

Envelope(out, attempt) == [output |-> out, repair_attempt |-> attempt]
Bound(e) == [story_version |-> ctx.story_version, envelope |-> e, read_from |-> ctx.story]

\* StoryStateExtractor on a fresh story.
set_state_extraction(out) ==
    /\ expect_phase("StoryReady")
    /\ ctx' = [ctx EXCEPT !.extraction = Bound(Envelope(out, 0)), !.validation = None,
                          !.change_set = None, !.phase = "CandidateReady"]

\* Mutant of record_state_extraction_failure: the failure is left to
\* validation.
record_failure_for_validation ==
    /\ ctx.phase \in {"StoryReady", "StateReextractionRequired"}
    /\ ctx' = [ctx EXCEPT !.extraction = None, !.change_set = None,
                          !.validation = "ReextractState", !.phase = "CandidateReady"]

\* The extractor's output cannot be decoded: no error, a re-extraction.
record_state_extraction_failure ==
    /\ ctx.phase \in {"StoryReady", "StateReextractionRequired"}
    /\ ctx' = [ctx EXCEPT !.extraction = None, !.change_set = None,
                          !.validation = "ReextractState", !.phase = "StateReextractionRequired"]

\* StoryStateExtractor again; the same envelope as before is refused.
replace_state_extraction(out) ==
    /\ expect_phase("StateReextractionRequired")
    /\ ~(/\ ctx.extraction # None
         /\ ctx.validation = "ReextractState"
         /\ ctx.extraction.envelope = Envelope(out, 1))
    /\ ctx' = [ctx EXCEPT !.extraction = Bound(Envelope(out, 1)), !.validation = None,
                          !.change_set = None, !.phase = "CandidateReady"]

\* to_turn_phase
PhaseAfter(decision) ==
    CASE decision = "Pass" -> "ReadyToCommit"
      [] decision = "RepairStory" -> "StoryRepairRequired"
      [] decision = "ReextractState" -> "StateReextractionRequired"
      [] decision = "Reject" -> "Failed"

\* The decision for the remedies the issues ask for: the severest wins.
from_issues(remedies) ==
    IF "Reject" \in remedies THEN "Reject"
    ELSE IF "RepairStory" \in remedies THEN "RepairStory" ELSE "ReextractState"

set_validation_result(decision, change_set) ==
    /\ expect_phase("CandidateReady")
    /\ ctx' = [ctx EXCEPT !.change_set = IF decision = "Pass" THEN change_set ELSE None,
                          !.extraction = IF decision = "RepairStory" THEN None ELSE @,
                          !.phase = PhaseAfter(decision), !.validation = decision]

build_change_set == [story |-> ctx.story, state |-> ctx.extraction.envelope]

\* ValidationPipeline: an extraction of another story version is an error; no
\* issue passes, otherwise the issues decide.
Validate(remedies) ==
    /\ ctx.extraction # None
    /\ ctx.extraction.story_version = ctx.story_version
    /\ IF remedies = {} THEN set_validation_result("Pass", build_change_set)
       ELSE set_validation_result(from_issues(remedies), None)

\* StoryRepairer: another text, a new version, and all that was derived from
\* the old one is dropped.
replace_story(text) ==
    /\ expect_phase("StoryRepairRequired")
    /\ ctx.story # text
    /\ ctx.story_version < MaxStoryVersion
    /\ ctx' = [ctx EXCEPT !.story = text, !.story_version = @ + 1, !.extraction = None,
                          !.validation = None, !.change_set = None, !.phase = "StoryReady"]

-----------------------------------------------------------------------------
(* The shortcut: run_inner calls these two in place of extraction and      *)
(* validation.                                                             *)

\* No check of the phase it leaves.
set_pahse(p) == ctx' = [ctx EXCEPT !.phase = p]

\* A change set with the story text and no state.
construct_changeset ==
    /\ ctx.story # None
    /\ ctx' = [ctx EXCEPT !.change_set = [story |-> ctx.story, state |-> None]]

-----------------------------------------------------------------------------
(* The end of the turn. *)

\* TurnCommitter: the gate, then the store's answer.
CommitGate == ctx.phase = "ReadyToCommit" /\ ctx.change_set # None /\ ctx.prepared

set_committed_result ==
    /\ expect_phase("ReadyToCommit")
    /\ ctx' = [ctx EXCEPT !.committed_result = ctx.change_set.story, !.phase = "Committed"]

\* mark_failed, mark_cancelled, mark_conflict: refused only when the turn
\* already has another terminal kind.
mark(kind) ==
    /\ ctx.terminal_kind \in {None, kind}
    /\ ctx' = [ctx EXCEPT !.terminal_kind = kind, !.phase = kind]

-----------------------------------------------------------------------------
Prepare ==
    \/ complete_initialization
    \/ set_prepared_context
    \/ \E p \in WriterPlan : set_writer_plan(p)
    \/ \E audiences \in SUBSET Roles : set_retrieved_context(audiences)
    \/ skip_retrieval
    \/ \E n \in 0 .. max_character_decisions :
          \E ds \in [1 .. n -> Roles] : set_character_decisions(ds)
    \/ skip_character_thinking
    \/ complete_context_preparation

Candidate ==
    \/ \E text \in Texts : set_generated_story(text)
    \/ \E out \in Outputs : set_state_extraction(out)
    \/ record_state_extraction_failure
    \/ \E out \in Outputs : replace_state_extraction(out)
    \/ \E remedies \in SUBSET (ValidationDecision \ {"Pass"}) : Validate(remedies)
    \/ \E text \in Texts : replace_story(text)

\* run_inner takes the shortcut for the first version of a story only.
ShortcutReady == expect_phase("StoryReady") /\ ctx.story_version = 1 /\ set_pahse("ReadyToCommit")
ShortcutChangeSet == expect_phase("ReadyToCommit") /\ ctx.change_set = None /\ construct_changeset

\* The engine's finalizer marks a turn that did not commit, once.
End ==
    \/ CommitGate /\ set_committed_result
    \/ /\ ctx.phase # "Committed"
       /\ ctx.terminal_kind = None
       /\ \E kind \in TurnTerminalKind : mark(kind)

CtxNext == Prepare \/ Candidate \/ ShortcutReady \/ ShortcutChangeSet \/ End

CtxSpec == CtxInit /\ [][CtxNext]_ctx

-----------------------------------------------------------------------------
\* Type invariant: the fields of the context keep their types, and the story
\* version its bound.
CtxTypeOK == ctx \in TurnExecutionContext

\* A change set that came from validation (one with a state) is sealed: it
\* says what the current text and the extraction read from exactly this text
\* say, and validation passed.  However often the story was repaired or the
\* state extracted again on the way, nothing of an earlier candidate is
\* committed.
ChangeSetSealed ==
    ctx.change_set # None /\ ctx.change_set.state # None =>
        /\ ctx.validation = "Pass"
        /\ ctx.extraction # None
        /\ ctx.extraction.read_from = ctx.story
        /\ ctx.change_set = [story |-> ctx.story, state |-> ctx.extraction.envelope]

\* The validation pipeline's check for a stale extraction is never the one
\* that stops a turn: when validation may run, the extraction is of the
\* current version of the story.
CandidateIsCurrent ==
    ctx.phase = "CandidateReady" =>
        /\ ctx.extraction # None
        /\ ctx.extraction.story_version = ctx.story_version

\* What is validated, and what a validated change set commits, is the current
\* story with the extraction read from it, after any order of failures and
\* repairs.
CandidateSealed == ChangeSetSealed /\ CandidateIsCurrent

\* Decisions, once set, are those of the requests of the plan in their order,
\* at most one per role and none for the player's role.
DecisionsAnswerPlan ==
    ctx.decisions # << >> =>
        /\ ctx.decisions = ctx.plan.think
        /\ \A i, j \in DOMAIN ctx.decisions : ctx.decisions[i] = ctx.decisions[j] => i = j
        /\ \A i \in DOMAIN ctx.decisions : ctx.decisions[i] # Player

=============================================================================
