---------------------------- MODULE MCHiringPipeline ----------------------------
(***************************************************************************)
(* HiringPipeline with one or two applications and some of the stages.     *)
(***************************************************************************)
EXTENDS HiringPipeline, TLC

\* Every target but those no code tells from another: of the stages between the
\* interview and the offer one round is left.
MCTargets == ValidStages \ {"applied", "technical_interview", "manager_interview", "under_review", "shortlisted", "selected"}

\* A recruiter hires or rejects.
HireTargets == {"interview_scheduled", "offer_sent", "joined", "rejected"}

\* Everything but the recruiter's own edits of the interview queue.
HandledKinds == AllKinds \ {"requeue"}

\* One job assigns the assessment, the other has none.
CONSTANTS a1, a2
MCApps == {a1, a2}
MCPolicy == (a1 :> "off") @@ (a2 :> "auto")
OneApp == {a1}
OnePolicy == a1 :> "off"
GatedPolicy == (a1 :> "manual") @@ (a2 :> "off")

MoveKinds == {"move"}
ScreenKinds == {"move", "screen"}

Slots == Permutations(Requests)

=============================================================================
