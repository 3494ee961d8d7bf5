-------------------------- MODULE TurnStreamProofs --------------------------
(***************************************************************************)
(* Proofs about one turn, for any number of roles, texts, outputs and      *)
(* corrections and any capacity of the progress lane.                      *)
(*                                                                         *)
(* The context alone (CtxSpec: the pipelines in whatever order their       *)
(* phases admit).  CtxInv says, beside the types, that a story phase has a *)
(* story, that an extraction is always one of the current text and         *)
(* version, that a candidate has one, that the change set is sealed, and   *)
(* that decisions answer the plan, which does not change once they may be  *)
(* set.                                                                    *)
(*                                                                         *)
(* The turn and its client (StreamSpec).  RuntimeInv follows run_inner:    *)
(* RouteInv says what each step finds done by the steps before it, EndInv  *)
(* where a turn may be that has stored something or has failed.  SinkInv   *)
(* follows the terminal event: emitted by the last step of the task, then  *)
(* in its lane, then with the client, unless the connection was lost.      *)
(***************************************************************************)
EXTENDS TurnStream, TLAPS

(* The context. *)

StoryPhase == {"StoryReady", "CandidateReady", "StoryRepairRequired",
               "StateReextractionRequired", "ReadyToCommit"}

CandidateInv ==
    /\ ctx.phase \in StoryPhase => ctx.story \in Texts /\ ctx.story_version \in 1 .. MaxStoryVersion
    /\ ctx.extraction # None => /\ ctx.extraction.story_version = ctx.story_version
                                /\ ctx.extraction.read_from = ctx.story
    /\ ctx.phase = "CandidateReady" => ctx.extraction # None

\* The decisions of a turn that has not planned yet are empty, and a turn
\* that plans has its prepared context.
PlanInv ==
    /\ ctx.phase \in {"Created", "Initialized", "Prepared"} => ctx.decisions = << >>
    /\ ctx.phase \in {"Prepared", "Planned"} => ctx.prepared
    /\ DecisionsAnswerPlan

CtxInv == CtxTypeOK /\ CandidateInv /\ ChangeSetSealed /\ PlanInv

LEMMA Keeps_complete_initialization ==
    ASSUME CtxInv, complete_initialization
    PROVE  CtxInv'
<1> USE DEF complete_initialization, expect_phase
<1>1. CtxTypeOK'
  BY AbsentAssumption, NoneAssumption, BoundsAssumption
     DEF CtxInv, CtxTypeOK, TurnExecutionContext, TurnPhase, ValidationDecision, CandidateInv, StoryPhase
<1>2. CandidateInv'
  BY AbsentAssumption, NoneAssumption, BoundsAssumption
     DEF CtxInv, CtxTypeOK, TurnExecutionContext, CandidateInv, StoryPhase
<1>3. ChangeSetSealed'
  BY AbsentAssumption DEF CtxInv, CtxTypeOK, TurnExecutionContext, CandidateInv, ChangeSetSealed
<1>4. PlanInv'
  BY DEF CtxInv, CtxTypeOK, TurnExecutionContext, PlanInv, DecisionsAnswerPlan
<1> QED  BY <1>1, <1>2, <1>3, <1>4 DEF CtxInv

LEMMA Keeps_set_prepared_context ==
    ASSUME CtxInv, set_prepared_context
    PROVE  CtxInv'
<1> USE DEF set_prepared_context, expect_phase
<1>1. CtxTypeOK'
  BY AbsentAssumption, NoneAssumption, BoundsAssumption
     DEF CtxInv, CtxTypeOK, TurnExecutionContext, TurnPhase, ValidationDecision, CandidateInv, StoryPhase
<1>2. CandidateInv'
  BY AbsentAssumption, NoneAssumption, BoundsAssumption
     DEF CtxInv, CtxTypeOK, TurnExecutionContext, CandidateInv, StoryPhase
<1>3. ChangeSetSealed'
  BY AbsentAssumption DEF CtxInv, CtxTypeOK, TurnExecutionContext, CandidateInv, ChangeSetSealed
<1>4. PlanInv'
  BY DEF CtxInv, CtxTypeOK, TurnExecutionContext, PlanInv, DecisionsAnswerPlan
<1> QED  BY <1>1, <1>2, <1>3, <1>4 DEF CtxInv

LEMMA Keeps_set_writer_plan ==
    ASSUME CtxInv, NEW p \in WriterPlan, set_writer_plan(p)
    PROVE  CtxInv'
<1> USE DEF set_writer_plan, expect_phase
<1>1. CtxTypeOK'
  BY AbsentAssumption, NoneAssumption, BoundsAssumption
     DEF CtxInv, CtxTypeOK, TurnExecutionContext, TurnPhase, ValidationDecision, CandidateInv, StoryPhase
<1>2. CandidateInv'
  BY AbsentAssumption, NoneAssumption, BoundsAssumption
     DEF CtxInv, CtxTypeOK, TurnExecutionContext, CandidateInv, StoryPhase
<1>3. ChangeSetSealed'
  BY AbsentAssumption DEF CtxInv, CtxTypeOK, TurnExecutionContext, CandidateInv, ChangeSetSealed
<1>4. PlanInv'
  BY DEF CtxInv, CtxTypeOK, TurnExecutionContext, PlanInv, DecisionsAnswerPlan
<1> QED  BY <1>1, <1>2, <1>3, <1>4 DEF CtxInv

LEMMA Keeps_set_retrieved_context ==
    ASSUME CtxInv, NEW a \in SUBSET Roles, set_retrieved_context(a)
    PROVE  CtxInv'
<1> USE DEF set_retrieved_context, expect_phase
<1>1. CtxTypeOK'
  BY AbsentAssumption, NoneAssumption, BoundsAssumption
     DEF CtxInv, CtxTypeOK, TurnExecutionContext, TurnPhase, ValidationDecision, CandidateInv, StoryPhase
<1>2. CandidateInv'
  BY AbsentAssumption, NoneAssumption, BoundsAssumption
     DEF CtxInv, CtxTypeOK, TurnExecutionContext, CandidateInv, StoryPhase
<1>3. ChangeSetSealed'
  BY AbsentAssumption DEF CtxInv, CtxTypeOK, TurnExecutionContext, CandidateInv, ChangeSetSealed
<1>4. PlanInv'
  BY DEF CtxInv, CtxTypeOK, TurnExecutionContext, PlanInv, DecisionsAnswerPlan
<1> QED  BY <1>1, <1>2, <1>3, <1>4 DEF CtxInv

LEMMA Keeps_skip_retrieval ==
    ASSUME CtxInv, skip_retrieval
    PROVE  CtxInv'
<1> USE DEF skip_retrieval, expect_phase
<1>1. CtxTypeOK'
  BY AbsentAssumption, NoneAssumption, BoundsAssumption
     DEF CtxInv, CtxTypeOK, TurnExecutionContext, TurnPhase, ValidationDecision, CandidateInv, StoryPhase
<1>2. CandidateInv'
  BY AbsentAssumption, NoneAssumption, BoundsAssumption
     DEF CtxInv, CtxTypeOK, TurnExecutionContext, CandidateInv, StoryPhase
<1>3. ChangeSetSealed'
  BY AbsentAssumption DEF CtxInv, CtxTypeOK, TurnExecutionContext, CandidateInv, ChangeSetSealed
<1>4. PlanInv'
  BY DEF CtxInv, CtxTypeOK, TurnExecutionContext, PlanInv, DecisionsAnswerPlan
<1> QED  BY <1>1, <1>2, <1>3, <1>4 DEF CtxInv

LEMMA Keeps_skip_character_thinking ==
    ASSUME CtxInv, skip_character_thinking
    PROVE  CtxInv'
<1> USE DEF skip_character_thinking, expect_phase
<1>0. << >> \in Seq(Roles)
  OBVIOUS
<1>1. CtxTypeOK'
  BY <1>0, AbsentAssumption, NoneAssumption, BoundsAssumption
     DEF CtxInv, CtxTypeOK, TurnExecutionContext, TurnPhase, ValidationDecision, CandidateInv, StoryPhase
<1>2. CandidateInv'
  BY AbsentAssumption, NoneAssumption, BoundsAssumption
     DEF CtxInv, CtxTypeOK, TurnExecutionContext, CandidateInv, StoryPhase
<1>3. ChangeSetSealed'
  BY AbsentAssumption DEF CtxInv, CtxTypeOK, TurnExecutionContext, CandidateInv, ChangeSetSealed
<1>4. PlanInv'
  BY DEF CtxInv, CtxTypeOK, TurnExecutionContext, PlanInv, DecisionsAnswerPlan
<1> QED  BY <1>1, <1>2, <1>3, <1>4 DEF CtxInv

LEMMA Keeps_complete_context_preparation ==
    ASSUME CtxInv, complete_context_preparation
    PROVE  CtxInv'
<1> USE DEF complete_context_preparation, expect_phase
<1>1. CtxTypeOK'
  BY AbsentAssumption, NoneAssumption, BoundsAssumption
     DEF CtxInv, CtxTypeOK, TurnExecutionContext, TurnPhase, ValidationDecision, CandidateInv, StoryPhase
<1>2. CandidateInv'
  BY AbsentAssumption, NoneAssumption, BoundsAssumption
     DEF CtxInv, CtxTypeOK, TurnExecutionContext, CandidateInv, StoryPhase
<1>3. ChangeSetSealed'
  BY AbsentAssumption DEF CtxInv, CtxTypeOK, TurnExecutionContext, CandidateInv, ChangeSetSealed
<1>4. PlanInv'
  BY DEF CtxInv, CtxTypeOK, TurnExecutionContext, PlanInv, DecisionsAnswerPlan
<1> QED  BY <1>1, <1>2, <1>3, <1>4 DEF CtxInv

LEMMA Keeps_set_generated_story ==
    ASSUME CtxInv, NEW x \in Texts, set_generated_story(x)
    PROVE  CtxInv'
<1> USE DEF set_generated_story, expect_phase
<1>0. 1 \in 1 .. MaxStoryVersion /\ 1 \in 0 .. MaxStoryVersion
  BY BoundsAssumption
<1>1. CtxTypeOK'
  BY <1>0, AbsentAssumption, NoneAssumption, BoundsAssumption
     DEF CtxInv, CtxTypeOK, TurnExecutionContext, TurnPhase, ValidationDecision, CandidateInv, StoryPhase
<1>2. CandidateInv'
  BY AbsentAssumption, NoneAssumption, BoundsAssumption
     DEF CtxInv, CtxTypeOK, TurnExecutionContext, CandidateInv, StoryPhase
<1>3. ChangeSetSealed'
  BY AbsentAssumption DEF CtxInv, CtxTypeOK, TurnExecutionContext, CandidateInv, ChangeSetSealed
<1>4. PlanInv'
  BY DEF CtxInv, CtxTypeOK, TurnExecutionContext, PlanInv, DecisionsAnswerPlan
<1> QED  BY <1>1, <1>2, <1>3, <1>4 DEF CtxInv

LEMMA Keeps_set_state_extraction ==
    ASSUME CtxInv, NEW o \in Outputs, set_state_extraction(o)
    PROVE  CtxInv'
<1> USE DEF set_state_extraction, expect_phase
<1>a. /\ ctx.story_version \in 1 .. MaxStoryVersion /\ ctx.story \in Texts
      /\ Envelope(o, 0) \in StoryStateExtractionEnvelope
  BY DEF CtxInv, CandidateInv, StoryPhase, Envelope, StoryStateExtractionEnvelope
<1>b. /\ Bound(Envelope(o, 0)).story_version = ctx.story_version
      /\ Bound(Envelope(o, 0)).read_from = ctx.story
  BY DEF Bound
<1>c. Bound(Envelope(o, 0)) \in BoundStateExtraction
  BY <1>a DEF Bound, BoundStateExtraction
<1>0. PICK b \in BoundStateExtraction : /\ b = Bound(Envelope(o, 0))
                                         /\ b.story_version = ctx.story_version
                                         /\ b.read_from = ctx.story
  BY <1>b, <1>c
<1>1. CtxTypeOK'
  BY <1>0, AbsentAssumption, NoneAssumption, BoundsAssumption
     DEF CtxInv, CtxTypeOK, TurnExecutionContext, TurnPhase, ValidationDecision, CandidateInv, StoryPhase
<1>2. CandidateInv'
  BY <1>0, AbsentAssumption, NoneAssumption, BoundsAssumption
     DEF CtxInv, CtxTypeOK, TurnExecutionContext, CandidateInv, StoryPhase
<1>3. ChangeSetSealed'
  BY AbsentAssumption DEF CtxInv, CtxTypeOK, TurnExecutionContext, CandidateInv, ChangeSetSealed
<1>4. PlanInv'
  BY DEF CtxInv, CtxTypeOK, TurnExecutionContext, PlanInv, DecisionsAnswerPlan
<1> QED  BY <1>1, <1>2, <1>3, <1>4 DEF CtxInv

LEMMA Keeps_record_state_extraction_failure ==
    ASSUME CtxInv, record_state_extraction_failure
    PROVE  CtxInv'
<1> USE DEF record_state_extraction_failure, expect_phase
<1>1. CtxTypeOK'
  BY AbsentAssumption, NoneAssumption, BoundsAssumption
     DEF CtxInv, CtxTypeOK, TurnExecutionContext, TurnPhase, ValidationDecision, CandidateInv, StoryPhase
<1>2. CandidateInv'
  BY AbsentAssumption, NoneAssumption, BoundsAssumption
     DEF CtxInv, CtxTypeOK, TurnExecutionContext, CandidateInv, StoryPhase
<1>3. ChangeSetSealed'
  BY AbsentAssumption DEF CtxInv, CtxTypeOK, TurnExecutionContext, CandidateInv, ChangeSetSealed
<1>4. PlanInv'
  BY DEF CtxInv, CtxTypeOK, TurnExecutionContext, PlanInv, DecisionsAnswerPlan
<1> QED  BY <1>1, <1>2, <1>3, <1>4 DEF CtxInv

LEMMA Keeps_replace_state_extraction ==
    ASSUME CtxInv, NEW o \in Outputs, replace_state_extraction(o)
    PROVE  CtxInv'
<1> USE DEF replace_state_extraction, expect_phase
<1>a. /\ ctx.story_version \in 1 .. MaxStoryVersion /\ ctx.story \in Texts
      /\ Envelope(o, 1) \in StoryStateExtractionEnvelope
  BY DEF CtxInv, CandidateInv, StoryPhase, Envelope, StoryStateExtractionEnvelope
<1>b. /\ Bound(Envelope(o, 1)).story_version = ctx.story_version
      /\ Bound(Envelope(o, 1)).read_from = ctx.story
  BY DEF Bound
<1>c. Bound(Envelope(o, 1)) \in BoundStateExtraction
  BY <1>a DEF Bound, BoundStateExtraction
<1>0. PICK b \in BoundStateExtraction : /\ b = Bound(Envelope(o, 1))
                                         /\ b.story_version = ctx.story_version
                                         /\ b.read_from = ctx.story
  BY <1>b, <1>c
<1>1. CtxTypeOK'
  BY <1>0, AbsentAssumption, NoneAssumption, BoundsAssumption
     DEF CtxInv, CtxTypeOK, TurnExecutionContext, TurnPhase, ValidationDecision, CandidateInv, StoryPhase
<1>2. CandidateInv'
  BY <1>0, AbsentAssumption, NoneAssumption, BoundsAssumption
     DEF CtxInv, CtxTypeOK, TurnExecutionContext, CandidateInv, StoryPhase
<1>3. ChangeSetSealed'
  BY AbsentAssumption DEF CtxInv, CtxTypeOK, TurnExecutionContext, CandidateInv, ChangeSetSealed
<1>4. PlanInv'
  BY DEF CtxInv, CtxTypeOK, TurnExecutionContext, PlanInv, DecisionsAnswerPlan
<1> QED  BY <1>1, <1>2, <1>3, <1>4 DEF CtxInv

LEMMA Keeps_replace_story ==
    ASSUME CtxInv, NEW x \in Texts, replace_story(x)
    PROVE  CtxInv'
<1> USE DEF replace_story, expect_phase
<1>0. /\ ctx.story_version + 1 \in 1 .. MaxStoryVersion
      /\ ctx.story_version + 1 \in 0 .. MaxStoryVersion
  BY BoundsAssumption DEF CtxInv, CtxTypeOK, TurnExecutionContext
<1>1. CtxTypeOK'
  BY <1>0, AbsentAssumption, NoneAssumption, BoundsAssumption
     DEF CtxInv, CtxTypeOK, TurnExecutionContext, TurnPhase, ValidationDecision, CandidateInv, StoryPhase
<1>2. CandidateInv'
  BY <1>0, AbsentAssumption, NoneAssumption, BoundsAssumption
     DEF CtxInv, CtxTypeOK, TurnExecutionContext, CandidateInv, StoryPhase
<1>3. ChangeSetSealed'
  BY AbsentAssumption DEF CtxInv, CtxTypeOK, TurnExecutionContext, CandidateInv, ChangeSetSealed
<1>4. PlanInv'
  BY DEF CtxInv, CtxTypeOK, TurnExecutionContext, PlanInv, DecisionsAnswerPlan
<1> QED  BY <1>1, <1>2, <1>3, <1>4 DEF CtxInv

LEMMA Keeps_set_committed_result ==
    ASSUME CtxInv, CommitGate, set_committed_result
    PROVE  CtxInv'
<1> USE DEF set_committed_result, expect_phase
<1>0. ctx.change_set.story \in Texts
  BY DEF CommitGate, CtxInv, CtxTypeOK, TurnExecutionContext, ValidatedChangeSet
<1>1. CtxTypeOK'
  BY <1>0, AbsentAssumption, NoneAssumption, BoundsAssumption
     DEF CtxInv, CtxTypeOK, TurnExecutionContext, TurnPhase, ValidationDecision, CandidateInv, StoryPhase
<1>2. CandidateInv'
  BY AbsentAssumption, NoneAssumption, BoundsAssumption
     DEF CtxInv, CtxTypeOK, TurnExecutionContext, CandidateInv, StoryPhase
<1>3. ChangeSetSealed'
  BY AbsentAssumption DEF CtxInv, CtxTypeOK, TurnExecutionContext, CandidateInv, ChangeSetSealed
<1>4. PlanInv'
  BY DEF CtxInv, CtxTypeOK, TurnExecutionContext, PlanInv, DecisionsAnswerPlan
<1> QED  BY <1>1, <1>2, <1>3, <1>4 DEF CtxInv

LEMMA Keeps_mark ==
    ASSUME CtxInv, NEW kind \in TurnTerminalKind, mark(kind)
    PROVE  CtxInv'
<1> USE DEF mark, TurnTerminalKind
<1>1. CtxTypeOK'
  BY DEF CtxInv, CtxTypeOK, TurnExecutionContext, TurnPhase
<1>2. CandidateInv'
  BY DEF CtxInv, CtxTypeOK, TurnExecutionContext, CandidateInv, StoryPhase
<1>3. ChangeSetSealed'
  BY DEF CtxInv, CtxTypeOK, TurnExecutionContext, ChangeSetSealed
<1>4. PlanInv'
  BY DEF CtxInv, CtxTypeOK, TurnExecutionContext, PlanInv, DecisionsAnswerPlan
<1> QED  BY <1>1, <1>2, <1>3, <1>4 DEF CtxInv

\* The decisions agree with the requests position by position and there are
\* as many: they are the same sequence.
LEMMA Keeps_set_character_decisions ==
    ASSUME CtxInv, NEW n \in 0 .. max_character_decisions, NEW ds \in [1 .. n -> Roles],
           set_character_decisions(ds)
    PROVE  CtxInv'
<1>1. PICK k \in 0 .. max_character_decisions : ctx.plan.think \in [1 .. k -> Roles]
  <2>1. ctx.plan \in WriterPlan
    BY DEF CtxInv, CtxTypeOK, TurnExecutionContext
  <2> QED  BY <2>1 DEF WriterPlan
<1>2. ds \in Seq(Roles) /\ ctx.plan.think \in Seq(Roles)
  BY <1>1, BoundsAssumption
<1>3. Len(ds) = Len(ctx.plan.think) /\ \A i \in DOMAIN ds : ds[i] = ctx.plan.think[i]
  BY DEF set_character_decisions
<1>4. ds = ctx.plan.think
  BY <1>2, <1>3
<1>5. CtxTypeOK'
  BY <1>2 DEF CtxInv, CtxTypeOK, TurnExecutionContext, set_character_decisions
<1>6. CandidateInv'
  BY DEF CtxInv, CtxTypeOK, TurnExecutionContext, CandidateInv, StoryPhase, set_character_decisions
<1>7. ChangeSetSealed'
  BY DEF CtxInv, CtxTypeOK, TurnExecutionContext, ChangeSetSealed, set_character_decisions
<1>8. /\ ctx'.decisions = ds /\ ctx'.plan = ctx.plan
      /\ ctx'.phase = "Planned" /\ ctx'.prepared = ctx.prepared /\ ctx.phase = "Planned"
  BY DEF CtxInv, CtxTypeOK, TurnExecutionContext, set_character_decisions, expect_phase
<1>9. PlanInv'
  <2>1. ctx.prepared
    BY <1>8 DEF CtxInv, PlanInv
  <2>2. \A i, j \in DOMAIN ds : ds[i] = ds[j] => i = j
    BY DEF set_character_decisions
  <2>3. \A i \in DOMAIN ds : ds[i] # Player
    BY <2>1 DEF set_character_decisions
  <2> QED  BY <1>4, <1>8, <2>1, <2>2, <2>3 DEF PlanInv, DecisionsAnswerPlan
<1> QED  BY <1>5, <1>6, <1>7, <1>9 DEF CtxInv

\* Only a pass leaves a change set, and it is the candidate's own.
LEMMA Keeps_Validate ==
    ASSUME CtxInv, NEW remedies \in SUBSET (ValidationDecision \ {"Pass"}), Validate(remedies)
    PROVE  CtxInv'
<1>1. /\ ctx.phase = "CandidateReady" /\ ctx.extraction \in BoundStateExtraction
      /\ ctx.story \in Texts /\ ctx.extraction.read_from = ctx.story
  BY DEF Validate, set_validation_result, expect_phase, CtxInv, CandidateInv, CtxTypeOK,
         TurnExecutionContext, StoryPhase
<1>2. ctx.extraction.envelope \in StoryStateExtractionEnvelope
  BY <1>1 DEF BoundStateExtraction, StoryStateExtractionEnvelope
<1>3. PICK cs \in ValidatedChangeSet : /\ cs = build_change_set
                                       /\ cs = [story |-> ctx.story, state |-> ctx.extraction.envelope]
  BY <1>1, <1>2 DEF build_change_set, ValidatedChangeSet
<1>4. PICK d \in ValidationDecision, c \in {cs, None} :
          set_validation_result(d, c) /\ (d = "Pass" => c = cs)
  BY <1>3 DEF Validate, from_issues, ValidationDecision
<1>5. PICK ph \in TurnPhase \ {"CandidateReady", "Created", "Initialized", "Prepared", "Planned"} :
          PhaseAfter(d) = ph
  BY DEF PhaseAfter, ValidationDecision, TurnPhase
<1>6. PICK c1 \in ValidatedChangeSet \cup {None},
           e1 \in BoundStateExtraction \cup {None} :
          /\ ctx' = [ctx EXCEPT !.change_set = c1, !.extraction = e1, !.phase = ph,
                                !.validation = d]
          /\ c1 # None => d = "Pass" /\ c1 = cs
          /\ e1 = IF d = "RepairStory" THEN None ELSE ctx.extraction
  BY <1>1, <1>2, <1>4, <1>5 DEF set_validation_result, CtxInv, CtxTypeOK, TurnExecutionContext
<1>7. CtxTypeOK'
  <2>1. /\ ph \in TurnPhase /\ d \in ValidationDecision \cup {None}
        /\ ctx \in TurnExecutionContext
    BY DEF CtxInv, CtxTypeOK
  <2>2. ctx' = [ctx EXCEPT !.change_set = c1, !.extraction = e1, !.phase = ph,
                           !.validation = d]
    BY <1>6
  <2>3. ASSUME NEW C, NEW E, NEW P, NEW V, c1 \in C, e1 \in E, ph \in P, d \in V,
               C = ValidatedChangeSet \cup {None}, E = BoundStateExtraction \cup {None},
               P = TurnPhase, V = ValidationDecision \cup {None}
        PROVE  ctx' \in TurnExecutionContext
    BY <2>1, <2>2, <2>3 DEF TurnExecutionContext
  <2> QED  BY <2>1, <2>3 DEF CtxTypeOK
<1>8. CandidateInv'
  BY <1>1, <1>5, <1>6 DEF CtxInv, CtxTypeOK, TurnExecutionContext, CandidateInv, StoryPhase
<1>9. ChangeSetSealed'
  BY <1>1, <1>3, <1>6, AbsentAssumption DEF CtxInv, CtxTypeOK, TurnExecutionContext, ChangeSetSealed
<1>10. PlanInv'
  BY <1>5, <1>6 DEF CtxInv, CtxTypeOK, TurnExecutionContext, PlanInv, DecisionsAnswerPlan
<1> QED  BY <1>7, <1>8, <1>9, <1>10 DEF CtxInv

LEMMA Keeps_ShortcutReady ==
    ASSUME CtxInv, ShortcutReady
    PROVE  CtxInv'
<1> USE DEF ShortcutReady, set_pahse, expect_phase
<1>1. CtxTypeOK'
  BY DEF CtxInv, CtxTypeOK, TurnExecutionContext, TurnPhase
<1>2. CandidateInv'
  BY DEF CtxInv, CtxTypeOK, TurnExecutionContext, CandidateInv, StoryPhase
<1>3. ChangeSetSealed'
  BY DEF CtxInv, CtxTypeOK, TurnExecutionContext, ChangeSetSealed
<1>4. PlanInv'
  BY DEF CtxInv, CtxTypeOK, TurnExecutionContext, PlanInv, DecisionsAnswerPlan
<1> QED  BY <1>1, <1>2, <1>3, <1>4 DEF CtxInv

LEMMA Keeps_ShortcutChangeSet ==
    ASSUME CtxInv, ShortcutChangeSet
    PROVE  CtxInv'
<1>1. PICK c \in ValidatedChangeSet : c = [story |-> ctx.story, state |-> None]
  BY DEF ShortcutChangeSet, construct_changeset, CtxInv, CtxTypeOK, TurnExecutionContext, ValidatedChangeSet
<1>2. ctx' = [ctx EXCEPT !.change_set = c]
  BY <1>1 DEF ShortcutChangeSet, construct_changeset
<1>3. CtxTypeOK'
  BY <1>2 DEF CtxInv, CtxTypeOK, TurnExecutionContext
<1>4. CandidateInv'
  BY <1>2 DEF CtxInv, CtxTypeOK, TurnExecutionContext, CandidateInv, StoryPhase
<1>5. ChangeSetSealed'
  BY <1>1, <1>2 DEF CtxInv, CtxTypeOK, TurnExecutionContext, ChangeSetSealed
<1>6. PlanInv'
  BY <1>2 DEF CtxInv, CtxTypeOK, TurnExecutionContext, PlanInv, DecisionsAnswerPlan
<1> QED  BY <1>3, <1>4, <1>5, <1>6 DEF CtxInv

LEMMA CtxInvInit == CtxInit => CtxInv
<1> SUFFICES ASSUME CtxInit PROVE CtxInv
  OBVIOUS
<1>1. << >> \in Seq(Roles) /\ << >> \in [1 .. 0 -> Roles] /\ 0 \in 0 .. max_character_decisions
  BY BoundsAssumption
<1>2. NoPlan \in WriterPlan
  BY <1>1 DEF NoPlan, WriterPlan
<1>3. CtxTypeOK
  BY <1>1, <1>2, BoundsAssumption DEF CtxInit, new, CtxTypeOK, TurnExecutionContext, TurnPhase
<1> QED  BY <1>3 DEF CtxInit, new, CtxInv, CandidateInv, StoryPhase, ChangeSetSealed, PlanInv, DecisionsAnswerPlan

LEMMA CtxInvNext == CtxInv /\ [CtxNext]_ctx => CtxInv'
<1> SUFFICES ASSUME CtxInv, [CtxNext]_ctx PROVE CtxInv'
  OBVIOUS
<1>1. CASE Prepare
  BY <1>1, Keeps_complete_initialization, Keeps_set_prepared_context, Keeps_set_writer_plan,
     Keeps_set_retrieved_context, Keeps_skip_retrieval, Keeps_set_character_decisions,
     Keeps_skip_character_thinking, Keeps_complete_context_preparation DEF Prepare
<1>2. CASE Candidate
  BY <1>2, Keeps_set_generated_story, Keeps_set_state_extraction,
     Keeps_record_state_extraction_failure, Keeps_replace_state_extraction, Keeps_Validate,
     Keeps_replace_story DEF Candidate
<1>3. CASE End
  BY <1>3, Keeps_set_committed_result, Keeps_mark DEF End
<1>4. CASE UNCHANGED ctx
  BY <1>4 DEF CtxInv, CtxTypeOK, CandidateInv, ChangeSetSealed, PlanInv, DecisionsAnswerPlan
<1> QED
  BY <1>1, <1>2, <1>3, <1>4, Keeps_ShortcutReady, Keeps_ShortcutChangeSet DEF CtxNext

LEMMA CtxInvariant == CtxSpec => []CtxInv
  BY CtxInvInit, CtxInvNext, PTL DEF CtxSpec

-----------------------------------------------------------------------------
\* The fields of the turn context keep their types and the story version its
\* bound, whatever pipelines run.
LEMMA ContextTypes == CtxSpec => []CtxTypeOK
<1>1. CtxInv => CtxTypeOK
  BY DEF CtxInv
<1> QED  BY CtxInvariant, <1>1, PTL

\* However often the story is repaired and its state extracted again, a change
\* set is made of the current text and of the extraction read from this text,
\* after a validation that passed.
THEOREM ContextChangeSetSealed == CtxSpec => []ChangeSetSealed
<1>1. CtxInv => ChangeSetSealed
  BY DEF CtxInv
<1> QED  BY CtxInvariant, <1>1, PTL

\* Validation never meets an extraction of an earlier version of the story.
THEOREM ContextCandidateCurrent == CtxSpec => []CandidateIsCurrent
<1>1. CtxInv => CandidateIsCurrent
  BY DEF CtxInv, CandidateInv, CandidateIsCurrent
<1> QED  BY CtxInvariant, <1>1, PTL

\* What is validated, and what a validated change set commits, is the current
\* text and what was read from it.
THEOREM ContextCandidateSealed == CtxSpec => []CandidateSealed
<1>1. ChangeSetSealed /\ CandidateIsCurrent => CandidateSealed
  BY DEF CandidateSealed
<1> QED  BY <1>1, ContextChangeSetSealed, ContextCandidateCurrent, PTL

\* The decisions of a turn are those its plan asks for, one for each role that
\* has to think and none for the player.
THEOREM ContextDecisions == CtxSpec => []DecisionsAnswerPlan
<1>1. CtxInv => DecisionsAnswerPlan
  BY DEF CtxInv, PlanInv
<1> QED  BY CtxInvariant, <1>1, PTL

-----------------------------------------------------------------------------
(* The turn: the inductive invariant. *)

StreamStates == {"try", "select", "last", "ended", "gone"}
Places == {"enter", "running", "calling", "exit", "committed", "done"}
Stages == TurnStage \cup {"retrieval?", "thinking?", "complete", "ready", "construct", "finalize"}

\* The steps of run_inner after the knowledge is there, and after the
\* decisions are.
Retrieved == {"thinking?", "CharacterThink", "complete", "StoryGenerator", "ready", "construct",
              "TurnCommitter"}
Decided == Retrieved \ {"thinking?", "CharacterThink"}

RetrievalDone == /\ ctx.retrieval_skipped = ~requires_retrieval
                 /\ ctx.retrieved \subseteq ThinkRoles
DecisionsDone == /\ ctx.decisions = ctx.plan.think
                 /\ Player \notin ThinkRoles

RouteInv ==
    /\ CtxTypeOK /\ stage \in Stages /\ at \in Places
    /\ ctx.phase \in {"Created", "Initialized", "Prepared"} =>
         ctx.retrieved = {} /\ ctx.retrieval_skipped = FALSE
    /\ ctx.phase \in {"Prepared", "Planned"} => ctx.prepared
    /\ ctx.phase \in {"StoryReady", "ReadyToCommit"} => ctx.story \in Texts
    /\ stage = "WriterPlanner" /\ at = "exit" =>
         ctx.retrieved = {} /\ ctx.retrieval_skipped = FALSE
    /\ stage = "retrieval?" => ctx.retrieved = {} /\ ctx.retrieval_skipped = FALSE
    /\ stage = "ContextRetrieval" => RetrievalDone
    /\ stage \in Retrieved => RetrievalDone
    /\ stage \in Decided \/ (stage = "CharacterThink" /\ at = "exit") => DecisionsDone
    /\ stage \in {"ready", "construct", "TurnCommitter"} => ctx.story \in Texts
    /\ stage = "TurnCommitter" => ctx.change_set = [story |-> ctx.story, state |-> None]

EndInv ==
    /\ stored \in ValidatedChangeSet \cup {None}
    /\ failure \in TurnFailureKind \cup {None}
    /\ at = "committed" => stage = "TurnCommitter"
    /\ at = "done" => stage = "finalize"
    /\ at \in {"running", "calling", "exit"} => stage \in TurnStage
    /\ stage = "finalize" => at \in {"enter", "done"} /\ (failure = None <=> stored # None)
    /\ stage # "finalize" => failure = None
    /\ stage \notin {"TurnCommitter", "finalize"} => stored = None
    /\ stage = "TurnCommitter" => (stored # None <=> at \in {"committed", "exit"})
    /\ stage = "TurnCommitter" /\ at = "exit" => ctx.phase = "Committed"

RuntimeInv == RouteInv /\ EndInv /\ CommitFollowsPlan

Event == [event : {"StageStarted", "Committed"} \cup TurnTerminalKind, stage : TurnStage \cup {None}]
Truth(e) == (e.event = "Committed") <=> (stored # None)

SinkTypes ==
    /\ turn \in {"running", "done", "half", "dropped"} /\ stream \in StreamStates
    /\ terminal_sent \in BOOLEAN /\ terminal_done \in BOOLEAN
    /\ events \in Seq(Event) /\ progress \in Seq(Event)
    /\ terminal \in Seq(Event) /\ received \in Seq(Event)

\* What waits in the two lanes, and what the stream knows of them.
LanesInv ==
    /\ \A i \in DOMAIN progress : ~IsTerminal(progress[i])
    /\ Len(terminal) <= 1
    /\ \A i \in DOMAIN terminal : IsTerminal(terminal[i]) /\ Truth(terminal[i])
    /\ terminal_done => terminal = << >> /\ (Done \/ turn = "dropped")
    /\ stream = "last" => turn \in {"half", "dropped"} /\ progress = << >>
    /\ stream = "ended" => turn # "running" /\ progress = << >> /\ terminal = << >>

\* The terminal event is in one place: not emitted yet, in its lane, with the
\* client, or lost with the connection.
TerminalInv ==
    /\ terminal_sent <=> Done
    /\ ~Done => terminal = << >> /\ Told = {}
    /\ terminal # << >> => Told = {}
    /\ Done /\ stream # "gone" => terminal # << >> \/ Told # {}
    /\ \A i, j \in Told : i = j
    /\ \A i \in Told : Truth(received[i])

SinkInv == SinkTypes /\ LanesInv /\ TerminalInv

StreamInv == RuntimeInv /\ SinkInv

-----------------------------------------------------------------------------
\* A task inside a step has committed nothing unless it is in the committer
\* and past the transaction.
LEMMA NothingStored ==
    ASSUME EndInv, at \notin {"committed", "exit"}, stage # "finalize"
    PROVE  stored = None /\ failure = None
BY DEF EndInv

\* An error leaves run_inner: nothing was stored, and finalize is next.
LEMMA Fails ==
    ASSUME RuntimeInv, NEW kind \in TurnFailureKind, Fail(kind), UNCHANGED <<ctx, stored>>,
           stored = None
    PROVE  RuntimeInv'
<1> USE DEF Fail, GoTo
<1>1. RouteInv'
  <2>1. CtxTypeOK' /\ stage' \in Stages /\ at' \in Places
    BY DEF RuntimeInv, RouteInv, CtxTypeOK, Stages, Places
  <2> QED  BY <2>1 DEF RuntimeInv, RouteInv, Retrieved, Decided
<1>2. EndInv'
  BY FailureAssumption DEF RuntimeInv, EndInv
<1>3. CommitFollowsPlan'
  BY DEF CommitFollowsPlan
<1> QED  BY <1>1, <1>2, <1>3 DEF RuntimeInv

\* The task moves inside a step without touching the context or the store.
LEMMA Moves ==
    ASSUME RuntimeInv, UNCHANGED <<ctx, stored, stage, failure>>, at' \in {"running", "calling"},
           stage \in TurnStage, stored = None
    PROVE  RuntimeInv'
<1>1. RouteInv'
  BY DEF RuntimeInv, RouteInv, CtxTypeOK, Places, RetrievalDone, DecisionsDone, ThinkRoles,
         requires_retrieval
<1>2. EndInv'
  BY DEF RuntimeInv, EndInv, TurnStage, LlmStage
<1>3. CommitFollowsPlan'
  BY DEF CommitFollowsPlan
<1> QED  BY <1>1, <1>2, <1>3 DEF RuntimeInv

LEMMA Keeps_Enter == ASSUME RuntimeInv, Enter PROVE RuntimeInv'
<1>1. stage \in TurnStage /\ stored = None
  BY NothingStored DEF Enter, RuntimeInv, TurnStage, LlmStage
<1>2. CASE EntryError # None
  <2>1. EntryError \in TurnFailureKind
    BY <1>2 DEF EntryError, TurnFailureKind
  <2> QED  BY <1>1, <1>2, <2>1, Fails DEF Enter
<1>3. CASE EntryError = None
  BY <1>1, <1>3, Moves DEF Enter
<1> QED  BY <1>2, <1>3

\* Between two steps the order is run_inner's: what holds at the exit of one
\* is what the next one needs.
LEMMA Keeps_Exit == ASSUME RuntimeInv, Exit PROVE RuntimeInv'
<1>1. stage # "finalize" /\ failure = None
  BY DEF Exit, RuntimeInv, EndInv
<1>2. CASE ctx.phase \notin stage_exit_phases(stage)
  <2>1. stage # "TurnCommitter"
    BY <1>2 DEF Exit, RuntimeInv, EndInv, stage_exit_phases
  <2>2. stored = None
    BY <1>1, <2>1 DEF RuntimeInv, EndInv
  <2>3. "InvariantViolation" \in TurnFailureKind
    BY DEF TurnFailureKind
  <2> QED  BY <1>2, <2>2, <2>3, Fails DEF Exit
<1>3. CASE ctx.phase \in stage_exit_phases(stage)
  <2>1. /\ UNCHANGED <<ctx, stored, failure>> /\ at = "exit" /\ at' = "enter"
        /\ stage' = After(stage)
    BY <1>3 DEF Exit, GoTo
  <2>2. stage \in TurnStage
    BY DEF Exit, RuntimeInv, EndInv
  <2>3. /\ stage = "TurnInitializer" => stage' = "BaselineBuilder"
        /\ stage = "BaselineBuilder" => stage' = "WriterPlanner"
        /\ stage = "WriterPlanner" => stage' = "retrieval?"
        /\ stage = "ContextRetrieval" => stage' = "thinking?"
        /\ stage = "CharacterThink" => stage' = "complete"
        /\ stage = "StoryGenerator" => stage' = "ready" /\ ctx.phase = "StoryReady"
        /\ stage = "TurnCommitter" => stage' = "finalize"
    BY <1>3, <2>1 DEF After, stage_exit_phases
  <2>4. RouteInv'
    BY <2>1, <2>2, <2>3 DEF RuntimeInv, RouteInv, CtxTypeOK, Places, Stages, TurnStage, LlmStage,
       Retrieved, Decided, RetrievalDone, DecisionsDone, ThinkRoles, requires_retrieval
  <2>5. EndInv'
    BY <1>1, <2>1, <2>2, <2>3 DEF RuntimeInv, EndInv, TurnStage, LlmStage
  <2>6. CommitFollowsPlan'
    BY <2>1 DEF RuntimeInv, CommitFollowsPlan, requires_retrieval, ThinkRoles
  <2> QED  BY <2>4, <2>5, <2>6 DEF RuntimeInv
<1> QED  BY <1>2, <1>3

\* A pipeline that has committed nothing returns: the rest of RuntimeInv
\* follows from the route.
LEMMA Returns ==
    ASSUME RuntimeInv, Return, stored' = None, stage \in TurnStage \ {"TurnCommitter"}, RouteInv'
    PROVE  RuntimeInv'
<1>1. EndInv'
  BY DEF Return, RuntimeInv, EndInv, TurnStage, LlmStage
<1>2. CommitFollowsPlan'
  BY DEF CommitFollowsPlan
<1> QED  BY <1>1, <1>2 DEF RuntimeInv

LEMMA Keeps_Initializer == ASSUME RuntimeInv, Initializer PROVE RuntimeInv'
<1>1. /\ stage = "TurnInitializer" /\ at = "running" /\ stored' = stored
      /\ stage' = stage /\ at' = "exit" /\ stored = None /\ Return
  BY NothingStored DEF Initializer, Executing, Return, RuntimeInv
<1>2. ctx.phase = "Created" /\ ctx' = [ctx EXCEPT !.phase = "Initialized"]
  BY DEF Initializer, complete_initialization, expect_phase
<1>3. RouteInv'
  BY <1>1, <1>2 DEF RuntimeInv, RouteInv, CtxTypeOK, TurnExecutionContext, TurnPhase, Places,
     Retrieved, Decided
<1> QED  BY <1>1, <1>3, Returns DEF TurnStage

LEMMA Keeps_BaselineBuilder == ASSUME RuntimeInv, BaselineBuilder PROVE RuntimeInv'
<1>1. /\ stage = "BaselineBuilder" /\ at = "running" /\ stored' = stored
      /\ stage' = stage /\ at' = "exit" /\ stored = None /\ Return
  BY NothingStored DEF BaselineBuilder, Executing, Return, RuntimeInv
<1>2. ctx.phase = "Initialized" /\ ctx' = [ctx EXCEPT !.prepared = TRUE, !.phase = "Prepared"]
  BY DEF BaselineBuilder, set_prepared_context, expect_phase
<1>3. RouteInv'
  BY <1>1, <1>2 DEF RuntimeInv, RouteInv, CtxTypeOK, TurnExecutionContext, TurnPhase, Places,
     Retrieved, Decided
<1> QED  BY <1>1, <1>3, Returns DEF TurnStage

LEMMA Keeps_WriterPlanner == ASSUME RuntimeInv, WriterPlanner PROVE RuntimeInv'
<1>1. /\ stage = "WriterPlanner" /\ at = "calling" /\ stored' = stored
      /\ stage' = stage /\ at' = "exit" /\ stored = None /\ Return
  BY NothingStored DEF WriterPlanner, Return, RuntimeInv
<1>2. PICK p \in WriterPlan :
          /\ ctx.phase = "Prepared"
          /\ ctx' = [ctx EXCEPT !.plan = p, !.planned = TRUE, !.phase = "Planned"]
  BY DEF WriterPlanner, set_writer_plan, expect_phase
<1>3. RouteInv'
  BY <1>1, <1>2 DEF RuntimeInv, RouteInv, CtxTypeOK, TurnExecutionContext, TurnPhase, Places,
     Retrieved, Decided
<1> QED  BY <1>1, <1>3, Returns DEF TurnStage, LlmStage

\* Knowledge is retrieved for roles of the plan only.
LEMMA Keeps_ContextRetrieval == ASSUME RuntimeInv, ContextRetrieval PROVE RuntimeInv'
<1>1. /\ stage = "ContextRetrieval" /\ at = "running" /\ stored' = stored
      /\ stage' = stage /\ at' = "exit" /\ stored = None /\ Return
  BY NothingStored DEF ContextRetrieval, Executing, Return, RuntimeInv
<1>2. PICK a \in SUBSET Roles :
          /\ ctx.phase = "Planned" /\ a \subseteq ThinkRoles
          /\ ctx' = [ctx EXCEPT !.retrieved = a]
  BY DEF ContextRetrieval, set_retrieved_context, expect_phase
<1>3. /\ CtxTypeOK' /\ ctx'.phase = "Planned" /\ ctx'.prepared = ctx.prepared
      /\ ctx'.retrieved = a /\ ctx'.plan = ctx.plan
      /\ ctx'.retrieval_skipped = ctx.retrieval_skipped
  BY <1>2 DEF RuntimeInv, RouteInv, CtxTypeOK, TurnExecutionContext
<1>4. RetrievalDone'
  BY <1>1, <1>2, <1>3 DEF RuntimeInv, RouteInv, RetrievalDone, ThinkRoles, requires_retrieval
<1>5. RouteInv'
  BY <1>1, <1>2, <1>3, <1>4 DEF RuntimeInv, RouteInv, Places, Retrieved, Decided
<1> QED  BY <1>1, <1>5, Returns DEF TurnStage

\* The decisions are those of the whole plan, and set_character_decisions
\* refuses one for the player's role.
LEMMA Keeps_CharacterThink == ASSUME RuntimeInv, CharacterThink PROVE RuntimeInv'
<1>1. /\ stage = "CharacterThink" /\ at = "running" /\ stored' = stored
      /\ stage' = stage /\ at' = "exit" /\ stored = None /\ Return
  BY NothingStored DEF CharacterThink, Executing, Return, RuntimeInv
<1>2. /\ ctx.phase = "Planned"
      /\ ctx.prepared => \A i \in DOMAIN ctx.plan.think : ctx.plan.think[i] # Player
      /\ ctx' = [ctx EXCEPT !.decisions = ctx.plan.think]
  BY DEF CharacterThink, set_character_decisions, expect_phase
<1>3. ctx.plan.think \in Seq(Roles)
  <2>1. ctx.plan \in WriterPlan
    BY DEF RuntimeInv, RouteInv, CtxTypeOK, TurnExecutionContext
  <2>2. PICK n \in 0 .. max_character_decisions : ctx.plan.think \in [1 .. n -> Roles]
    BY <2>1 DEF WriterPlan
  <2> QED  BY <2>2, BoundsAssumption
<1>4. /\ CtxTypeOK' /\ ctx'.phase = "Planned" /\ ctx'.prepared = ctx.prepared
      /\ ctx'.retrieved = ctx.retrieved /\ ctx'.plan = ctx.plan
      /\ ctx'.retrieval_skipped = ctx.retrieval_skipped /\ ctx'.decisions = ctx.plan.think
  BY <1>2, <1>3 DEF RuntimeInv, RouteInv, CtxTypeOK, TurnExecutionContext
<1>5. RetrievalDone' /\ DecisionsDone'
  <2>1. ctx.prepared
    BY <1>2 DEF RuntimeInv, RouteInv
  <2>2. RetrievalDone'
    BY <1>1, <1>4 DEF RuntimeInv, RouteInv, RetrievalDone, Retrieved, ThinkRoles, requires_retrieval
  <2>3. DecisionsDone'
    BY <1>2, <1>4, <2>1 DEF DecisionsDone, ThinkRoles
  <2> QED  BY <2>2, <2>3
<1>6. RouteInv'
  BY <1>1, <1>2, <1>4, <1>5 DEF RuntimeInv, RouteInv, Places
<1> QED  BY <1>1, <1>6, Returns DEF TurnStage, LlmStage

LEMMA Keeps_StoryGenerator == ASSUME RuntimeInv, StoryGenerator PROVE RuntimeInv'
<1>1. /\ stage = "StoryGenerator" /\ at = "calling" /\ stored' = stored
      /\ stage' = stage /\ at' = "exit" /\ stored = None /\ Return
  BY NothingStored DEF StoryGenerator, Return, RuntimeInv
<1>2. PICK text \in Texts :
          ctx' = [ctx EXCEPT !.story = text, !.story_version = 1, !.extraction = None,
                             !.validation = None, !.change_set = None, !.phase = "StoryReady"]
  BY DEF StoryGenerator, set_generated_story
<1>3. /\ CtxTypeOK' /\ ctx'.phase = "StoryReady" /\ ctx'.story = text
      /\ ctx'.retrieved = ctx.retrieved /\ ctx'.plan = ctx.plan
      /\ ctx'.retrieval_skipped = ctx.retrieval_skipped /\ ctx'.decisions = ctx.decisions
  <2>1. 1 \in 0 .. MaxStoryVersion
    BY BoundsAssumption
  <2> QED  BY <1>2, <2>1 DEF RuntimeInv, RouteInv, CtxTypeOK, TurnExecutionContext, TurnPhase
<1>4. RetrievalDone' /\ DecisionsDone'
  BY <1>1, <1>3 DEF RuntimeInv, RouteInv, RetrievalDone, DecisionsDone, Retrieved, Decided,
     ThinkRoles, requires_retrieval
<1>5. RouteInv'
  BY <1>1, <1>3, <1>4 DEF RuntimeInv, RouteInv, Places
<1> QED  BY <1>1, <1>5, Returns DEF TurnStage, LlmStage

\* The model calls: an early end is an error, an answer moves the task on.
LEMMA Keeps_ModelCalls ==
    ASSUME RuntimeInv,
           CallModel \/ ModelCallFails \/ CharacterDecides \/ PipelineFails \/ OutputRejected
    PROVE  RuntimeInv'
<1>1. at \in {"running", "calling"}
  BY DEF CallModel, ModelCallFails, CharacterDecides, PipelineFails, OutputRejected
<1>2. stored = None /\ stage \in TurnStage
  BY <1>1, NothingStored DEF RuntimeInv, EndInv, TurnStage, LlmStage
<1>3. \A k \in {"Llm", "Store", "InvariantViolation"} : k \in TurnFailureKind
  BY DEF TurnFailureKind
<1>4. UNCHANGED <<ctx, stored>>
  BY DEF CallModel, ModelCallFails, CharacterDecides, PipelineFails, OutputRejected
<1>5. CASE \E k \in {"Llm", "Store", "InvariantViolation"} : Fail(k)
  BY <1>2, <1>3, <1>4, <1>5, Fails
<1>6. CASE at' \in {"running", "calling"} /\ UNCHANGED <<stage, failure>>
  BY <1>2, <1>4, <1>6, Moves
<1> QED
  BY <1>5, <1>6 DEF CallModel, ModelCallFails, CharacterDecides, PipelineFails, OutputRejected

LEMMA Keeps_CommitRefused == ASSUME RuntimeInv, CommitRefused PROVE RuntimeInv'
<1>1. stored = None
  BY NothingStored DEF CommitRefused, Executing, RuntimeInv
<1>2. PICK k \in {"RevisionConflict", "IdempotencyConflict", "Store"} : Fail(k)
  BY DEF CommitRefused
<1>3. k \in TurnFailureKind
  BY DEF TurnFailureKind
<1> QED  BY <1>1, <1>2, <1>3, Fails DEF CommitRefused

\* Between the pipelines the task only goes on.
LEMMA GoesOn ==
    ASSUME RuntimeInv, NEW s \in Stages \ {"finalize"}, GoTo(s), UNCHANGED <<failure, stored>>,
           stage \notin {"TurnCommitter", "finalize"}, RouteInv'
    PROVE  RuntimeInv'
<1>1. stored' = None
  BY DEF RuntimeInv, EndInv
<1>2. EndInv'
  BY <1>1 DEF GoTo, RuntimeInv, EndInv
<1>3. CommitFollowsPlan'
  BY <1>1 DEF CommitFollowsPlan
<1> QED  BY <1>2, <1>3 DEF RuntimeInv

LEMMA Keeps_Retrieval == ASSUME RuntimeInv, Retrieval PROVE RuntimeInv'
<1>1. stage = "retrieval?" /\ UNCHANGED <<failure, stored>>
  BY DEF Retrieval
<1>2. CASE requires_retrieval
  <2>1. GoTo("ContextRetrieval") /\ UNCHANGED ctx
    BY <1>2 DEF Retrieval
  <2>2. RouteInv'
    BY <1>1, <1>2, <2>1 DEF GoTo, RuntimeInv, RouteInv, CtxTypeOK, Places, Stages, TurnStage,
       Retrieved, Decided, RetrievalDone, requires_retrieval, ThinkRoles
  <2> QED  BY <1>1, <2>1, <2>2, GoesOn DEF Stages, TurnStage
<1>3. CASE ~requires_retrieval
  <2>1. /\ GoTo("thinking?") /\ ctx.phase = "Planned"
        /\ ctx' = [ctx EXCEPT !.retrieved = {}, !.retrieval_skipped = TRUE]
    BY <1>3 DEF Retrieval, skip_retrieval, expect_phase
  <2>2. /\ CtxTypeOK' /\ ctx'.phase = "Planned" /\ ctx'.prepared = ctx.prepared
        /\ ctx'.retrieved = {} /\ ctx'.plan = ctx.plan /\ ctx'.retrieval_skipped = TRUE
    BY <2>1 DEF RuntimeInv, RouteInv, CtxTypeOK, TurnExecutionContext
  <2>3. RetrievalDone'
    BY <1>3, <2>2 DEF RetrievalDone, requires_retrieval
  <2>4. RouteInv'
    BY <1>1, <2>1, <2>2, <2>3 DEF GoTo, RuntimeInv, RouteInv, Places, Stages, Decided
  <2> QED  BY <1>1, <2>1, <2>4, GoesOn DEF Stages, TurnStage
<1> QED  BY <1>2, <1>3

LEMMA Keeps_Thinking == ASSUME RuntimeInv, Thinking PROVE RuntimeInv'
<1>1. stage = "thinking?" /\ UNCHANGED <<failure, stored>>
  BY DEF Thinking
<1>0. RetrievalDone
  BY <1>1 DEF RuntimeInv, RouteInv, Retrieved
<1>2. CASE requires_character_thinking
  <2>1. GoTo("CharacterThink") /\ UNCHANGED ctx
    BY <1>2 DEF Thinking
  <2>2. RouteInv'
    BY <1>0, <1>1, <2>1 DEF GoTo, RuntimeInv, RouteInv, CtxTypeOK, Places, Stages, TurnStage,
       LlmStage, Decided, RetrievalDone, requires_retrieval, ThinkRoles
  <2> QED  BY <1>1, <2>1, <2>2, GoesOn DEF Stages, TurnStage, LlmStage
<1>3. CASE ~requires_character_thinking
  <2>1. /\ GoTo("complete") /\ ctx.phase = "Planned"
        /\ ctx' = [ctx EXCEPT !.decisions = << >>, !.thinking_skipped = TRUE]
    BY <1>3 DEF Thinking, skip_character_thinking, expect_phase
  <2>2. << >> \in Seq(Roles)
    OBVIOUS
  <2>3. /\ CtxTypeOK' /\ ctx'.phase = "Planned" /\ ctx'.prepared = ctx.prepared
        /\ ctx'.retrieved = ctx.retrieved /\ ctx'.plan = ctx.plan
        /\ ctx'.retrieval_skipped = ctx.retrieval_skipped /\ ctx'.decisions = << >>
    BY <2>1, <2>2 DEF RuntimeInv, RouteInv, CtxTypeOK, TurnExecutionContext
  <2>4. RetrievalDone'
    BY <1>0, <2>3 DEF RetrievalDone, requires_retrieval, ThinkRoles
  <2>5. DecisionsDone'
    <3>1. ctx.plan.think = << >>
      BY <1>3 DEF requires_character_thinking
    <3> QED  BY <2>3, <3>1 DEF DecisionsDone, ThinkRoles
  <2>6. RouteInv'
    BY <1>1, <2>1, <2>3, <2>4, <2>5 DEF GoTo, RuntimeInv, RouteInv, Places, Stages
  <2> QED  BY <1>1, <2>1, <2>6, GoesOn DEF Stages, TurnStage
<1> QED  BY <1>2, <1>3

LEMMA Keeps_CompletePreparation == ASSUME RuntimeInv, CompletePreparation PROVE RuntimeInv'
<1>1. /\ stage = "complete" /\ GoTo("StoryGenerator") /\ UNCHANGED <<failure, stored>>
      /\ ctx' = [ctx EXCEPT !.phase = "ContextReady"]
  BY DEF CompletePreparation, complete_context_preparation, After
<1>2. /\ CtxTypeOK' /\ ctx'.phase = "ContextReady" /\ ctx'.decisions = ctx.decisions
      /\ ctx'.retrieved = ctx.retrieved /\ ctx'.plan = ctx.plan
      /\ ctx'.retrieval_skipped = ctx.retrieval_skipped
  BY <1>1 DEF RuntimeInv, RouteInv, CtxTypeOK, TurnExecutionContext, TurnPhase
<1>3. RetrievalDone' /\ DecisionsDone'
  BY <1>1, <1>2 DEF RuntimeInv, RouteInv, RetrievalDone, DecisionsDone, Retrieved, Decided,
     ThinkRoles, requires_retrieval
<1>4. RouteInv'
  BY <1>1, <1>2, <1>3 DEF GoTo, RuntimeInv, RouteInv, Places, Stages, TurnStage, LlmStage
<1> QED  BY <1>1, <1>4, GoesOn DEF Stages, TurnStage, LlmStage

LEMMA Keeps_SetReady == ASSUME RuntimeInv, SetReady PROVE RuntimeInv'
<1>1. /\ stage = "ready" /\ GoTo("construct") /\ UNCHANGED <<failure, stored>>
      /\ ctx' = [ctx EXCEPT !.phase = "ReadyToCommit"]
  BY DEF SetReady, set_pahse, After
<1>2. /\ CtxTypeOK' /\ ctx'.phase = "ReadyToCommit" /\ ctx'.decisions = ctx.decisions
      /\ ctx'.retrieved = ctx.retrieved /\ ctx'.plan = ctx.plan /\ ctx'.story = ctx.story
      /\ ctx'.retrieval_skipped = ctx.retrieval_skipped
  BY <1>1 DEF RuntimeInv, RouteInv, CtxTypeOK, TurnExecutionContext, TurnPhase
<1>3. RetrievalDone' /\ DecisionsDone'
  BY <1>1, <1>2 DEF RuntimeInv, RouteInv, RetrievalDone, DecisionsDone, Retrieved, Decided,
     ThinkRoles, requires_retrieval
<1>4. RouteInv'
  BY <1>1, <1>2, <1>3 DEF GoTo, RuntimeInv, RouteInv, Places, Stages
<1> QED  BY <1>1, <1>4, GoesOn DEF Stages, TurnStage

LEMMA Keeps_ConstructChangeSet == ASSUME RuntimeInv, ConstructChangeSet PROVE RuntimeInv'
<1>1. /\ stage = "construct" /\ GoTo("TurnCommitter") /\ UNCHANGED <<failure, stored>>
      /\ ctx' = [ctx EXCEPT !.change_set = [story |-> ctx.story, state |-> None]]
  BY DEF ConstructChangeSet, construct_changeset, After
<1>2. PICK c \in ValidatedChangeSet : c = [story |-> ctx.story, state |-> None]
  BY <1>1 DEF RuntimeInv, RouteInv, ValidatedChangeSet
<1>3. /\ CtxTypeOK' /\ ctx'.phase = ctx.phase /\ ctx'.decisions = ctx.decisions
      /\ ctx'.prepared = ctx.prepared
      /\ ctx'.retrieved = ctx.retrieved /\ ctx'.plan = ctx.plan /\ ctx'.story = ctx.story
      /\ ctx'.retrieval_skipped = ctx.retrieval_skipped /\ ctx'.change_set = c
  BY <1>1, <1>2 DEF RuntimeInv, RouteInv, CtxTypeOK, TurnExecutionContext
<1>4. RetrievalDone' /\ DecisionsDone'
  BY <1>1, <1>3 DEF RuntimeInv, RouteInv, RetrievalDone, DecisionsDone, Retrieved, Decided,
     ThinkRoles, requires_retrieval
<1>5. RouteInv'
  BY <1>1, <1>2, <1>3, <1>4 DEF GoTo, RuntimeInv, RouteInv, Places, Stages, TurnStage
<1> QED  BY <1>1, <1>5, GoesOn DEF Stages, TurnStage

\* The transaction: what it writes is the change set of a turn that went its
\* plan's way.
LEMMA Keeps_CommitTurn == ASSUME RuntimeInv, CommitTurn PROVE RuntimeInv'
<1>1. /\ stage = "TurnCommitter" /\ at = "running" /\ ctx.change_set # None
      /\ stored' = ctx.change_set /\ at' = "committed" /\ UNCHANGED <<ctx, stage, failure>>
  BY DEF CommitTurn, Executing, CommitGate
<1>2. ctx.change_set \in ValidatedChangeSet /\ ctx.change_set.story = ctx.story
  BY <1>1 DEF RuntimeInv, RouteInv, CtxTypeOK, TurnExecutionContext
<1>3. RouteInv'
  BY <1>1 DEF RuntimeInv, RouteInv, CtxTypeOK, Places, RetrievalDone, DecisionsDone, ThinkRoles,
     requires_retrieval
<1>4. EndInv'
  BY <1>1, <1>2 DEF RuntimeInv, EndInv
<1>5. CommitFollowsPlan'
  BY <1>1, <1>2 DEF RuntimeInv, RouteInv, Retrieved, Decided, RetrievalDone, DecisionsDone,
     CommitFollowsPlan, ThinkRoles, requires_retrieval
<1> QED  BY <1>3, <1>4, <1>5 DEF RuntimeInv

LEMMA Keeps_Committed == ASSUME RuntimeInv, Committed PROVE RuntimeInv'
<1>1. /\ at = "committed" /\ at' = "exit" /\ UNCHANGED <<stage, failure, stored>>
      /\ stage = "TurnCommitter" /\ stored # None
      /\ ctx' = [ctx EXCEPT !.committed_result = ctx.change_set.story, !.phase = "Committed"]
  BY DEF Committed, Return, set_committed_result, RuntimeInv, EndInv
<1>2. ctx.change_set.story = ctx.story /\ ctx.story \in Texts
  BY <1>1 DEF RuntimeInv, RouteInv
<1>3. /\ CtxTypeOK' /\ ctx'.phase = "Committed" /\ ctx'.decisions = ctx.decisions
      /\ ctx'.retrieved = ctx.retrieved /\ ctx'.plan = ctx.plan /\ ctx'.story = ctx.story
      /\ ctx'.retrieval_skipped = ctx.retrieval_skipped /\ ctx'.change_set = ctx.change_set
  BY <1>1, <1>2 DEF RuntimeInv, RouteInv, CtxTypeOK, TurnExecutionContext, TurnPhase
<1>4. RetrievalDone' /\ DecisionsDone'
  BY <1>1, <1>3 DEF RuntimeInv, RouteInv, RetrievalDone, DecisionsDone, Retrieved, Decided,
     ThinkRoles, requires_retrieval
<1>5. RouteInv'
  BY <1>1, <1>2, <1>3, <1>4 DEF RuntimeInv, RouteInv, Places
<1>6. EndInv'
  BY <1>1, <1>3 DEF RuntimeInv, EndInv, TurnStage
<1>7. CommitFollowsPlan'
  BY <1>1, <1>3 DEF RuntimeInv, CommitFollowsPlan, ThinkRoles, requires_retrieval
<1> QED  BY <1>5, <1>6, <1>7 DEF RuntimeInv

\* finalize marks the context of a turn that failed and touches nothing else.
LEMMA Keeps_Finalize == ASSUME RuntimeInv, Finalize PROVE RuntimeInv'
<1>1. /\ stage = "finalize" /\ at' = "done" /\ UNCHANGED <<stage, failure, stored>>
  BY DEF Finalize
<1>2. /\ CtxTypeOK' /\ ctx'.decisions = ctx.decisions /\ ctx'.story = ctx.story
      /\ ctx'.retrieved = ctx.retrieved /\ ctx'.plan = ctx.plan
      /\ ctx'.retrieval_skipped = ctx.retrieval_skipped
      /\ ctx' = ctx \/ ctx'.phase \in TurnTerminalKind
  <2>1. CASE failure = None
    BY <2>1 DEF Finalize, RuntimeInv, RouteInv, CtxTypeOK
  <2>2. CASE failure # None
    <3>1. PICK k \in TurnTerminalKind : ctx' = [ctx EXCEPT !.terminal_kind = k, !.phase = k]
      BY <2>2 DEF Finalize, mark, terminal_kind, TurnTerminalKind
    <3>2. k \in TurnPhase
      BY DEF TurnPhase, TurnTerminalKind
    <3> QED  BY <3>1, <3>2 DEF RuntimeInv, RouteInv, CtxTypeOK, TurnExecutionContext
  <2> QED  BY <2>1, <2>2
<1>3. RouteInv'
  BY <1>1, <1>2 DEF RuntimeInv, RouteInv, Places, Retrieved, Decided, TurnTerminalKind
<1>4. EndInv'
  BY <1>1 DEF RuntimeInv, EndInv
<1>5. CommitFollowsPlan'
  BY <1>1, <1>2 DEF RuntimeInv, CommitFollowsPlan, ThinkRoles, requires_retrieval
<1> QED  BY <1>3, <1>4, <1>5 DEF RuntimeInv

LEMMA RuntimeInvInit == Init => RuntimeInv
<1> SUFFICES ASSUME Init PROVE RuntimeInv
  OBVIOUS
<1>1. << >> \in Seq(Roles) /\ << >> \in [1 .. 0 -> Roles] /\ 0 \in 0 .. max_character_decisions
  BY BoundsAssumption
<1>2. NoPlan \in WriterPlan
  BY <1>1 DEF NoPlan, WriterPlan
<1>3. CtxTypeOK
  BY <1>1, <1>2, BoundsAssumption DEF Init, CtxInit, new, CtxTypeOK, TurnExecutionContext, TurnPhase
<1>4. RouteInv
  BY <1>3 DEF Init, CtxInit, new, RouteInv, Stages, TurnStage, Places, Retrieved, Decided
<1>5. EndInv /\ CommitFollowsPlan
  BY DEF Init, EndInv, CommitFollowsPlan
<1> QED  BY <1>4, <1>5 DEF RuntimeInv

LEMMA RuntimeInvStep == RuntimeInv /\ Step => RuntimeInv'
BY Keeps_Enter, Keeps_Exit, Keeps_Initializer, Keeps_BaselineBuilder, Keeps_ContextRetrieval,
   Keeps_ModelCalls, Keeps_WriterPlanner, Keeps_CharacterThink, Keeps_StoryGenerator,
   Keeps_Retrieval, Keeps_Thinking, Keeps_CompletePreparation, Keeps_SetReady,
   Keeps_ConstructChangeSet, Keeps_CommitTurn, Keeps_CommitRefused, Keeps_Committed,
   Keeps_Finalize DEF Step

\* What the environment does is not part of the invariant.
LEMMA RuntimeInvStutters == RuntimeInv /\ UNCHANGED <<ctx, stage, at, failure, stored>> => RuntimeInv'
BY DEF RuntimeInv, RouteInv, EndInv, CommitFollowsPlan, CtxTypeOK, RetrievalDone, DecisionsDone,
       ThinkRoles, requires_retrieval

-----------------------------------------------------------------------------
(* The sink and the stream. *)

\* A step of a turn that is not over emits nothing, or the start of a stage,
\* or, when it ends the turn, the terminal event that says what is stored.
LEMMA StepEvents ==
    ASSUME RuntimeInv, Step
    PROVE  /\ ~Done
           /\ \/ events' = events /\ ~Done'
              \/ \E e \in Event : events' = Append(events, e) /\ ~IsTerminal(e) /\ ~Done'
              \/ \E e \in Event : events' = Append(events, e) /\ IsTerminal(e) /\ Done' /\ Truth(e)'
<1>1. CASE Enter
  <2>1. stage \in TurnStage /\ at = "enter" /\ at' \in {"enter", "running"}
    BY <1>1 DEF Enter, Fail, GoTo
  <2>2. CASE EntryError # None
    BY <1>1, <2>1, <2>2 DEF Enter, Done
  <2>3. CASE EntryError = None
    <3>1. events' = Append(events, StageStarted(stage))
      BY <1>1, <2>3 DEF Enter
    <3>2. StageStarted(stage) \in Event /\ ~IsTerminal(StageStarted(stage))
      BY <2>1 DEF StageStarted, Event, IsTerminal
    <3> QED  BY <2>1, <3>1, <3>2 DEF Done
  <2> QED  BY <2>2, <2>3
<1>2. CASE Finalize
  <2>1. /\ stage = "finalize" /\ at = "enter" /\ at' = "done" /\ UNCHANGED stored
    BY <1>2 DEF Finalize
  <2>2. failure = None <=> stored # None
    BY <2>1 DEF RuntimeInv, EndInv
  <2>3. PICK k \in {"Committed"} \cup TurnTerminalKind :
            /\ events' = Append(events, Terminal(k))
            /\ (k = "Committed") <=> (failure = None)
    BY <1>2 DEF Finalize, terminal_kind, TurnTerminalKind
  <2>4. Terminal(k) \in Event /\ IsTerminal(Terminal(k)) /\ Terminal(k).event = k
    BY DEF Terminal, Event, IsTerminal, TurnTerminalKind
  <2> QED  BY <2>1, <2>2, <2>3, <2>4 DEF Done, Truth
<1>3. CASE Step /\ ~Enter /\ ~Finalize
  <2>1. UNCHANGED events /\ at' # "done"
    BY <1>3 DEF Step, Exit, Fail, GoTo, Return, Initializer, BaselineBuilder, ContextRetrieval,
       CallModel, ModelCallFails, WriterPlanner, CharacterDecides, CharacterThink,
       StoryGenerator, PipelineFails, OutputRejected, Retrieval, Thinking,
       CompletePreparation, SetReady, ConstructChangeSet, CommitTurn, CommitRefused, Committed
  <2>2. at # "done"
    <3>1. at = "done" => stage = "finalize"
      BY DEF RuntimeInv, EndInv
    <3> QED
      BY <1>3, <3>1 DEF Step, Executing, Exit, Initializer, BaselineBuilder, ContextRetrieval,
         CallModel, ModelCallFails, WriterPlanner, CharacterDecides, CharacterThink,
         StoryGenerator, PipelineFails, OutputRejected, Retrieval, Thinking,
         CompletePreparation, SetReady, ConstructChangeSet, CommitTurn, CommitRefused, Committed
  <2> QED  BY <2>1, <2>2 DEF Done
<1> QED  BY <1>1, <1>2, <1>3

LEMMA Appended ==
    ASSUME NEW s \in Seq(Event), NEW e \in Event
    PROVE  /\ Append(s, e) \in Seq(Event) /\ Append(s, e) # s
           /\ Append(s, e)[Len(Append(s, e))] = e
           /\ Append(s, e) # << >> /\ Len(Append(s, e)) = Len(s) + 1
           /\ DOMAIN Append(s, e) = DOMAIN s \cup {Len(s) + 1}
           /\ \A i \in DOMAIN s : Append(s, e)[i] = s[i]
           /\ Append(s, e)[Len(s) + 1] = e /\ Len(s) + 1 \notin DOMAIN s
OBVIOUS

\* What is appended to the events the client has, told or not.
LEMMA Receives ==
    ASSUME received \in Seq(Event), NEW e \in Event, received' = Append(received, e)
    PROVE  /\ received' \in Seq(Event)
           /\ ~IsTerminal(e) => Told' = Told
           /\ IsTerminal(e) => Told' = Told \cup {Len(received) + 1}
           /\ \A i \in Told : received'[i] = received[i]
           /\ received'[Len(received) + 1] = e
BY Appended DEF Told

LEMMA FirstOut ==
    ASSUME NEW s \in Seq(Event), s # << >>
    PROVE  /\ Head(s) \in Event /\ Head(s) = s[1] /\ 1 \in DOMAIN s
           /\ Tail(s) \in Seq(Event)
           /\ \A i \in DOMAIN Tail(s) : i + 1 \in DOMAIN s /\ Tail(s)[i] = s[i + 1]
           /\ Len(s) <= 1 => Tail(s) = << >>
OBVIOUS

LEMMA Keeps_Work == ASSUME StreamInv, Work PROVE StreamInv'
<1>1. RuntimeInv' /\ turn = "running" /\ ~Done
  BY RuntimeInvStep, StepEvents DEF Work, StreamInv
<1>2. SinkTypes /\ LanesInv /\ TerminalInv
  BY DEF StreamInv, SinkInv
<1>3. /\ ~terminal_sent /\ terminal = << >> /\ Told = {} /\ ~terminal_done
      /\ stream \notin {"last", "ended"}
  BY <1>1, <1>2 DEF LanesInv, TerminalInv
<1>4. CASE events' = events /\ ~Done'
  <2>1. UNCHANGED sinkVars
    BY <1>4 DEF Work
  <2>2. SinkTypes'
    BY <1>2, <1>4, <2>1 DEF SinkTypes, sinkVars
  <2>3. LanesInv'
    BY <1>2, <1>3, <2>1 DEF LanesInv, sinkVars
  <2>4. TerminalInv'
    BY <1>2, <1>3, <1>4, <2>1 DEF TerminalInv, Told, sinkVars
  <2> QED  BY <1>1, <2>2, <2>3, <2>4 DEF StreamInv, SinkInv
<1>5. ASSUME NEW e \in Event, events' = Append(events, e), ~IsTerminal(e), ~Done'
      PROVE  StreamInv'
  <2>1. events' # events /\ events'[Len(events')] = e /\ events' \in Seq(Event)
    BY <1>2, <1>5, Appended DEF SinkTypes
  <2>2. Sse!emit_progress(e)
    BY <1>5, <2>1 DEF Work
  <2>3. UNCHANGED <<turn, terminal_sent, terminal, stream, terminal_done, received>>
    BY <2>2 DEF Sse!emit_progress
  <2>4. progress' \in Seq(Event) /\ \A i \in DOMAIN progress' : ~IsTerminal(progress'[i])
    <3>1. CASE progress' = progress
      BY <1>2, <3>1 DEF SinkTypes, LanesInv
    <3>2. CASE progress' = Append(progress, e)
      BY <1>2, <1>5, <3>2, Appended DEF SinkTypes, LanesInv
    <3> QED  BY <2>2, <3>1, <3>2 DEF Sse!emit_progress
  <2>5. SinkTypes'
    BY <1>2, <2>1, <2>3, <2>4 DEF SinkTypes
  <2>6. LanesInv'
    BY <1>2, <1>3, <2>3, <2>4 DEF LanesInv
  <2>7. TerminalInv'
    BY <1>2, <1>3, <1>5, <2>3 DEF TerminalInv, Told
  <2> QED  BY <1>1, <2>5, <2>6, <2>7 DEF StreamInv, SinkInv
<1>6. ASSUME NEW e \in Event, events' = Append(events, e), IsTerminal(e), Done', Truth(e)'
      PROVE  StreamInv'
  <2>1. events' # events /\ events'[Len(events')] = e /\ events' \in Seq(Event)
    BY <1>2, <1>6, Appended DEF SinkTypes
  <2>2. Sse!emit_terminal(e)
    BY <1>6, <2>1 DEF Work
  <2>3. terminal_sent' = TRUE /\ UNCHANGED <<turn, progress, stream, terminal_done, received>>
    BY <2>2 DEF Sse!emit_terminal
  <2>4. terminal' = IF stream = "gone" THEN << >> ELSE Append(<< >>, e)
    BY <1>3, <2>2 DEF Sse!emit_terminal, Sse!Connected, Sse!TerminalCapacity
  <2>5. /\ terminal' \in Seq(Event) /\ Len(terminal') <= 1
        /\ \A i \in DOMAIN terminal' : terminal'[i] = e
        /\ stream # "gone" => terminal' # << >>
    BY <2>4
  <2>6. SinkTypes'
    BY <1>2, <2>1, <2>3, <2>5 DEF SinkTypes
  <2>7. LanesInv'
    BY <1>2, <1>3, <1>6, <2>3, <2>5 DEF LanesInv, Truth
  <2>8. TerminalInv'
    BY <1>2, <1>3, <1>6, <2>3, <2>5 DEF TerminalInv, Told
  <2> QED  BY <1>1, <2>6, <2>7, <2>8 DEF StreamInv, SinkInv
<1>7. \/ events' = events /\ ~Done'
      \/ \E e \in Event : events' = Append(events, e) /\ ~IsTerminal(e) /\ ~Done'
      \/ \E e \in Event : events' = Append(events, e) /\ IsTerminal(e) /\ Done' /\ Truth(e)'
  BY StepEvents DEF StreamInv, Work
<1>8. CASE \E e \in Event : events' = Append(events, e) /\ ~IsTerminal(e) /\ ~Done'
  BY <1>5, <1>8
<1>9. CASE \E e \in Event : events' = Append(events, e) /\ IsTerminal(e) /\ Done' /\ Truth(e)'
  <2>1. PICK e \in Event : events' = Append(events, e) /\ IsTerminal(e) /\ Done' /\ Truth(e)'
    BY <1>9
  <2> QED  BY <1>6, <2>1
<1> QED  BY <1>4, <1>7, <1>8, <1>9

\* The turn may be cancelled, run out of time or be dropped at any point.
LEMMA Keeps_Environment == ASSUME StreamInv, Environment \/ TaskEnds PROVE StreamInv'
<1>1. UNCHANGED <<ctx, stage, at, failure, stored, events>>
  BY DEF Environment, Cancel, Expire, TaskEnds, turnVars
<1>2. RuntimeInv'
  BY <1>1, RuntimeInvStutters DEF StreamInv
<1>3. /\ UNCHANGED <<terminal_sent, progress, terminal, stream, terminal_done, received>>
      /\ turn' = turn \/ (turn = "running" /\ turn' = "done")
  BY DEF Environment, TaskEnds, sinkVars, Sse!TurnEnds
<1>4. SinkTypes'
  BY <1>1, <1>3 DEF StreamInv, SinkInv, SinkTypes
<1>5. LanesInv'
  BY <1>1, <1>3 DEF StreamInv, SinkInv, LanesInv, Truth, Done
<1>6. TerminalInv'
  BY <1>1, <1>3 DEF StreamInv, SinkInv, TerminalInv, Truth, Told, Done
<1> QED  BY <1>2, <1>4, <1>5, <1>6 DEF StreamInv, SinkInv

\* The terminal event reaches the client: its lane is empty then, and the
\* client knows it once.
LEMMA Keeps_DeliverTerminal ==
    ASSUME SinkInv, UNCHANGED turnVars, NEW next \in {"try"}, terminal # << >>,
           Sse!DeliverTerminal(next)
    PROVE  SinkInv'
<1>1. SinkTypes /\ LanesInv /\ TerminalInv
  BY DEF SinkInv
<1>2. /\ received' = Append(received, Head(terminal)) /\ terminal' = Tail(terminal)
      /\ terminal_done' = TRUE /\ stream' = "try"
      /\ UNCHANGED <<turn, terminal_sent, progress, at, stored, events>>
  BY DEF Sse!DeliverTerminal, turnVars
<1>3. /\ Head(terminal) \in Event /\ IsTerminal(Head(terminal)) /\ Truth(Head(terminal))
      /\ terminal' = << >>
  BY <1>1, <1>2, FirstOut DEF SinkTypes, LanesInv
<1>4. Told = {} /\ Done
  BY <1>1 DEF TerminalInv
<1>5. /\ received' \in Seq(Event) /\ Told' = {Len(received) + 1}
      /\ received'[Len(received) + 1] = Head(terminal)
  BY <1>1, <1>2, <1>3, <1>4, Receives DEF SinkTypes
<1>6. SinkTypes'
  BY <1>1, <1>2, <1>3, <1>5 DEF SinkTypes, StreamStates
<1>7. LanesInv'
  BY <1>1, <1>2, <1>3, <1>4 DEF LanesInv, Done
<1>8. TerminalInv'
  BY <1>1, <1>2, <1>3, <1>4, <1>5 DEF TerminalInv, Truth, Done
<1> QED  BY <1>6, <1>7, <1>8 DEF SinkInv

\* The stream moves without handing anything over; what it may say of the
\* lanes it has seen.
LEMMA Keeps_StreamMoves ==
    ASSUME SinkInv, UNCHANGED turnVars,
           UNCHANGED <<turn, terminal_sent, progress, terminal, received>>,
           stream' \in StreamStates \ {"gone"}, stream # "gone",
           terminal_done' \in BOOLEAN,
           terminal_done' => terminal = << >> /\ (Done \/ turn = "dropped"),
           stream' = "last" => turn \in {"half", "dropped"} /\ progress = << >>,
           stream' = "ended" => turn # "running" /\ progress = << >> /\ terminal = << >>
    PROVE  SinkInv'
<1>1. UNCHANGED <<at, stored, events>>
  BY DEF turnVars
<1>2. SinkTypes'
  BY <1>1 DEF SinkInv, SinkTypes
<1>3. LanesInv'
  BY <1>1 DEF SinkInv, LanesInv, Truth, Done
<1>4. TerminalInv'
  BY <1>1 DEF SinkInv, TerminalInv, Truth, Done, Told
<1> QED  BY <1>2, <1>3, <1>4 DEF SinkInv

LEMMA Keeps_SelectProgress ==
    ASSUME SinkInv, UNCHANGED turnVars, Sse!SelectProgress
    PROVE  SinkInv'
<1>1. SinkTypes /\ LanesInv /\ TerminalInv
  BY DEF SinkInv
<1>2. CASE progress # << >>
  <2>1. /\ received' = Append(received, Head(progress)) /\ progress' = Tail(progress)
        /\ stream = "select" /\ stream' = "try"
        /\ UNCHANGED <<turn, terminal_sent, terminal, terminal_done, at, stored, events>>
    BY <1>2 DEF Sse!SelectProgress, turnVars
  <2>2. /\ Head(progress) \in Event /\ ~IsTerminal(Head(progress))
        /\ progress' \in Seq(Event) /\ \A i \in DOMAIN progress' : ~IsTerminal(progress'[i])
    BY <1>1, <1>2, <2>1, FirstOut DEF SinkTypes, LanesInv
  <2>3. received' \in Seq(Event) /\ Told' = Told /\ \A i \in Told : received'[i] = received[i]
    BY <1>1, <2>1, <2>2, Receives DEF SinkTypes
  <2>4. SinkTypes'
    BY <1>1, <2>1, <2>2, <2>3 DEF SinkTypes, StreamStates
  <2>5. LanesInv'
    BY <1>1, <2>1, <2>2 DEF LanesInv, Truth, Done
  <2>6. TerminalInv'
    BY <1>1, <2>1, <2>3 DEF TerminalInv, Truth, Done
  <2> QED  BY <2>4, <2>5, <2>6 DEF SinkInv
<1>3. CASE progress = << >>
  <2>1. /\ stream = "select" /\ turn \in {"half", "dropped"}
        /\ UNCHANGED <<turn, terminal_sent, progress, terminal, terminal_done, received>>
        /\ stream' = IF terminal_done THEN "ended" ELSE "last"
    BY <1>3 DEF Sse!SelectProgress, Sse!EndStream, Sse!ProgressClosed
  <2>2. terminal_done => terminal = << >> /\ (Done \/ turn = "dropped")
    BY <1>1 DEF LanesInv
  <2>3. stream' \in StreamStates \ {"gone"} /\ stream # "gone" /\ terminal_done' \in BOOLEAN
    BY <1>1, <2>1 DEF SinkTypes, StreamStates
  <2> QED  BY <1>3, <2>1, <2>2, <2>3, Keeps_StreamMoves
<1> QED  BY <1>2, <1>3

LEMMA Keeps_Deliver == ASSUME SinkInv, UNCHANGED turnVars, Sse!Deliver PROVE SinkInv'
<1>0. SinkTypes /\ LanesInv
  BY DEF SinkInv
<1>1. CASE Sse!TryTerminal
  <2>1. CASE ~terminal_done /\ terminal # << >>
    BY <1>1, <2>1, Keeps_DeliverTerminal DEF Sse!TryTerminal
  <2>2. CASE terminal_done \/ terminal = << >>
    <3>1. /\ stream = "try" /\ stream' = "select"
          /\ terminal_done' = (terminal_done \/ turn = "dropped")
          /\ UNCHANGED <<turn, terminal_sent, progress, terminal, received>>
      BY <1>1, <2>2 DEF Sse!TryTerminal, Sse!TerminalClosed
    <3>2. terminal_done => terminal = << >> /\ (Done \/ turn = "dropped")
      BY <1>0 DEF LanesInv
    <3>3. terminal_done' \in BOOLEAN /\ stream' \in StreamStates \ {"gone"}
      BY <1>0, <3>1 DEF SinkTypes, StreamStates
    <3> QED  BY <2>2, <3>1, <3>2, <3>3, Keeps_StreamMoves
  <2> QED  BY <2>1, <2>2
<1>2. CASE Sse!SelectProgress
  BY <1>2, Keeps_SelectProgress
<1>3. CASE Sse!SelectTerminal
  <2>1. CASE terminal # << >>
    BY <1>3, <2>1, Keeps_DeliverTerminal DEF Sse!SelectTerminal
  <2>2. CASE terminal = << >>
    <3>1. /\ stream = "select" /\ stream' = "try" /\ terminal_done' = TRUE /\ turn = "dropped"
          /\ UNCHANGED <<turn, terminal_sent, progress, terminal, received>>
      BY <1>3, <2>2 DEF Sse!SelectTerminal, Sse!TerminalClosed
    <3>2. stream' \in StreamStates \ {"gone"}
      BY <3>1 DEF StreamStates
    <3> QED  BY <2>2, <3>1, <3>2, Keeps_StreamMoves
  <2> QED  BY <2>1, <2>2
<1>4. CASE Sse!LastTerminal
  <2>1. CASE terminal # << >>
    BY <1>4, <2>1, Keeps_DeliverTerminal DEF Sse!LastTerminal
  <2>2. CASE terminal = << >>
    <3>1. /\ stream = "last" /\ stream' = "ended" /\ turn = "dropped"
          /\ UNCHANGED <<turn, terminal_sent, progress, terminal, received, terminal_done>>
      BY <1>4, <2>2 DEF Sse!LastTerminal, Sse!EndStream, Sse!TerminalClosed
    <3>2. progress = << >> /\ terminal_done' \in BOOLEAN /\ stream' \in StreamStates \ {"gone"}
      BY <1>0, <3>1 DEF SinkTypes, LanesInv, StreamStates
    <3> QED  BY <2>2, <3>1, <3>2, Keeps_StreamMoves
  <2> QED  BY <2>1, <2>2
<1> QED  BY <1>1, <1>2, <1>3, <1>4 DEF Sse!Deliver

LEMMA Keeps_Connection == ASSUME StreamInv, Connection PROVE StreamInv'
<1>1. UNCHANGED turnVars /\ SinkInv
  BY DEF Connection, StreamInv
<1>2. UNCHANGED <<ctx, stage, at, failure, stored, events>>
  BY <1>1 DEF turnVars
<1>3. RuntimeInv'
  BY <1>2, RuntimeInvStutters DEF StreamInv
<1>4. CASE Sse!Deliver
  BY <1>1, <1>3, <1>4, Keeps_Deliver DEF StreamInv
<1>5. CASE Sse!DropSender
  <2>1. /\ UNCHANGED <<terminal_sent, progress, terminal, stream, terminal_done, received>>
        /\ (turn = "done" /\ turn' = "half") \/ (turn = "half" /\ turn' = "dropped")
    BY <1>5 DEF Sse!DropSender
  <2>2. SinkTypes'
    BY <1>1, <1>2, <2>1 DEF SinkInv, SinkTypes
  <2>3. LanesInv'
    BY <1>1, <1>2, <2>1 DEF SinkInv, LanesInv, Truth, Done
  <2>4. TerminalInv'
    BY <1>1, <1>2, <2>1 DEF SinkInv, TerminalInv, Truth, Told, Done
  <2> QED  BY <1>3, <2>2, <2>3, <2>4 DEF StreamInv, SinkInv
<1>6. CASE Sse!Disconnect
  <2>1. /\ stream' = "gone" /\ progress' = << >> /\ terminal' = << >>
        /\ UNCHANGED <<turn, terminal_sent, terminal_done, received>>
    BY <1>6 DEF Sse!Disconnect
  <2>2. << >> \in Seq(Event) /\ Len(<< >>) = 0 /\ DOMAIN << >> = {}
    OBVIOUS
  <2>3. SinkTypes'
    BY <1>1, <1>2, <2>1, <2>2 DEF SinkInv, SinkTypes, StreamStates
  <2>4. LanesInv'
    BY <1>1, <1>2, <2>1, <2>2 DEF SinkInv, LanesInv, Done
  <2>5. TerminalInv'
    BY <1>1, <1>2, <2>1 DEF SinkInv, TerminalInv, Truth, Told, Done
  <2> QED  BY <1>3, <2>3, <2>4, <2>5 DEF StreamInv, SinkInv
<1> QED  BY <1>4, <1>5, <1>6 DEF Connection

LEMMA StreamInvInit == StreamInit => StreamInv
<1> SUFFICES ASSUME StreamInit PROVE StreamInv
  OBVIOUS
<1>1. RuntimeInv /\ events = << >> /\ ~Done
  BY RuntimeInvInit DEF StreamInit, Init, Done
<1>2. << >> \in Seq(Event) /\ Len(<< >>) = 0 /\ DOMAIN << >> = {}
  OBVIOUS
<1>3. SinkTypes
  BY <1>1, <1>2 DEF StreamInit, Sse!Init, SinkTypes, StreamStates
<1>5. LanesInv
  BY <1>2 DEF StreamInit, Sse!Init, LanesInv
<1>4. TerminalInv
  BY <1>1, <1>2 DEF StreamInit, Sse!Init, TerminalInv, Told
<1> QED  BY <1>1, <1>3, <1>4, <1>5 DEF StreamInv, SinkInv

LEMMA StreamInvNext == StreamInv /\ [StreamNext]_all => StreamInv'
<1> SUFFICES ASSUME StreamInv, [StreamNext]_all PROVE StreamInv'
  OBVIOUS
<1>1. CASE UNCHANGED all
  <2>1. UNCHANGED <<ctx, stage, at, failure, stored, events>> /\ UNCHANGED sinkVars
    BY <1>1 DEF all, vars, sinkVars
  <2>2. RuntimeInv'
    BY <2>1, RuntimeInvStutters DEF StreamInv
  <2>3. SinkTypes'
    BY <2>1 DEF StreamInv, SinkInv, SinkTypes, sinkVars
  <2>4. LanesInv'
    BY <2>1 DEF StreamInv, SinkInv, LanesInv, Truth, Done, sinkVars
  <2>5. TerminalInv'
    BY <2>1 DEF StreamInv, SinkInv, TerminalInv, Truth, Told, Done, sinkVars
  <2> QED  BY <2>2, <2>3, <2>4, <2>5 DEF StreamInv, SinkInv
<1> QED  BY <1>1, Keeps_Work, Keeps_Environment, Keeps_Connection DEF StreamNext

LEMMA StreamInvariant == StreamSpec => []StreamInv
BY StreamInvInit, StreamInvNext, PTL DEF StreamSpec

-----------------------------------------------------------------------------
\* A turn the store has went the way its plan says, whatever cancellation,
\* deadline, abort or disconnection came on the way: TurnRuntime::run with the
\* engine's finalizer and the client's stream around it.
THEOREM StreamCommitFollowsPlan == StreamSpec => []CommitFollowsPlan
<1>1. StreamInv => CommitFollowsPlan
  BY DEF StreamInv, RuntimeInv
<1> QED  BY <1>1, StreamInvariant, PTL

\* The client is told at most one terminal event, which agrees with the store,
\* and a stream that the server ends has handed over everything it was given:
\* for any capacity of the progress lane and any number of roles and texts.
THEOREM StreamTellsTheStore == StreamSpec => []ClientToldTheStore
<1>1. StreamInv => ClientToldTheStore
  BY DEF StreamInv, SinkInv, LanesInv, TerminalInv, Truth, ClientToldTheStore
<1> QED  BY <1>1, StreamInvariant, PTL

=============================================================================
