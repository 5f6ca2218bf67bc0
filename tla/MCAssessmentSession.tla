------------------------- MODULE MCAssessmentSession -------------------------
(***************************************************************************)
(* AssessmentSession on small papers: one item per section.                *)
(***************************************************************************)
EXTENDS AssessmentSession, TLC

CONSTANTS s1, s2, i1, i2

MCSections == {s1, s2}
MCItems == {i1, i2}
MCSectionOf == (i1 :> s1) @@ (i2 :> s2)

\* The smaller paper of the runs in which requests overlap.
OneSection == {s1}
OneItem == {i1}
OneSectionOf == i1 :> s1

\* Everything but the recruiter's and the pipeline's writes.
CandidateKinds == Portal \cup {"resume", "expire"}

\* The candidate's work and what may score it, the soft lock included.
WorkKinds ==
    {"start", "startSection", "answer", "submitSection", "submit", "flags", "expire"}

\* What pauses, resumes, revives and cancels a session, and a page that ends it.
HandlingKinds == {"start", "startSection", "flags", "resume", "resend", "cancel", "end"}

\* The pairs of operations whose overlap each race run shows.
CancelKinds == {"start", "submit", "cancel"}
SectionKinds == {"start", "startSection"}
PauseKinds == {"start", "startSection", "flags", "resume"}
AnswerKinds == {"start", "startSection", "answer", "submit"}
ExpiryKinds == {"start", "expire"}
MoveKinds == {"start", "cancelStale"}

Slots == Permutations(Requests)

=============================================================================
