---------------------------- MODULE PipelineStages ----------------------------
(***************************************************************************)
(* The stages of the hiring pipeline and the moves between them: the pure  *)
(* helpers of src/utils/pipeline.js.                                       *)
(***************************************************************************)
EXTENDS Integers, Sequences

\* In order of progress; "rejected" is an off-ramp of every active stage.
STAGES == <<
    "applied", "ats_passed", "assessment_scheduled", "assessment_completed",
    "interview_scheduled", "ai_interview_completed", "under_review", "shortlisted",
    "hr_interview", "technical_interview", "manager_interview",
    "selected", "offer_sent", "offer_accepted", "joined">>

REJECTED == "rejected"

TERMINAL_STAGES == {"joined", REJECTED}

ROUND_STAGES == {"hr_interview", "technical_interview", "manager_interview"}

Progress == {STAGES[i] : i \in 1..Len(STAGES)}

ValidStages == Progress \cup {REJECTED}

\* Documents of earlier versions of the application keep their old status.
LEGACY_STAGE_MAP == [interview_queue |-> "interview_scheduled", next_round |-> "shortlisted"]

normalizeStage(s) == IF s \in DOMAIN LEGACY_STAGE_MAP THEN LEGACY_STAGE_MAP[s] ELSE s

\* Array.indexOf, of a stage that is canonical already.
stageIndex(s) == IF s \in Progress THEN CHOOSE i \in 1..Len(STAGES) : STAGES[i] = s ELSE -1

isTerminal(s) == normalizeStage(s) \in TERMINAL_STAGES

\* Off the pipeline, forward along it, or between the interview rounds in any
\* order; never out of a terminal stage.
canTransition(fromStage, toStage) ==
    LET from == normalizeStage(fromStage)
        to == normalizeStage(toStage)
    IN  /\ {from, to} \subseteq ValidStages
        /\ from # to
        /\ ~isTerminal(from)
        /\ \/ to = REJECTED
           \/ stageIndex(to) > stageIndex(from)
           \/ {from, to} \subseteq ROUND_STAGES

=============================================================================
