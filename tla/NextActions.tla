----------------------------- MODULE NextActions ----------------------------
(* What a candidate's dashboard tells them to do next, beside the gates that
   decide whether they can: utils/candidateNextActions.js computes it from the
   sessions and a clock, openOwnSession and the portals admit or refuse.  One
   application with an assessment and an interview, over a coarse clock.      *)
EXTENDS Integers, FiniteSets

CONSTANTS MaxTime,     \* bound on the clock
          Validity,    \* ticks a link is valid for
          StartWindow  \* assessmentStartDeadlineHours, in ticks

VARIABLES now, application, assessment, interview

vars == <<now, application, assessment, interview>>

Statuses == {"none", "scheduled", "in_progress", "paused", "expired", "completed", "cancelled"}
Times == 0 .. MaxTime + Validity
NoSession == [status |-> "none", started |-> FALSE, done |-> FALSE, deadline |-> 0, expires |-> 0]

TypeOK ==
    /\ now \in 0 .. MaxTime
    /\ application \in [status : {"open", "offer_sent", "rejected"}, exit : BOOLEAN, job : BOOLEAN]
    /\ \A s \in {assessment, interview} :
          s \in [status : Statuses, started : BOOLEAN, done : BOOLEAN, deadline : Times, expires : Times]

Init ==
    /\ now = 0 /\ application = [status |-> "open", exit |-> FALSE, job |-> TRUE]
    /\ assessment = NoSession /\ interview = NoSession

-----------------------------------------------------------------------------
(* What the dashboard says: toApplicationView, assessmentAction and
   interviewAction; buildNextActions drops every action of a closed one.     *)
Exited == application.exit \/ ~application.job
Overdue(due) == due <= now
Started(s) == s.started \/ s.status \in {"in_progress", "paused"}

\* As if the assessment's end were the only deadline told.
DueAtEnd(s) == s.expires
AssessmentDue(s) == IF Started(s) THEN s.expires ELSE s.deadline

State(s, due) ==
    IF s.status = "none" THEN "none"
    ELSE IF s.status = "completed" \/ s.done THEN "done"
    ELSE IF s.status = "cancelled" THEN "cancelled"
    ELSE IF s.status = "expired" \/ Overdue(due) THEN "missed"
    ELSE IF Started(s) THEN "in_progress" ELSE "due"
AssessmentAction == State(assessment, AssessmentDue(assessment))
InterviewAction == State(interview, interview.expires)

(* buildNextActions: closed, then an offer, then what the candidate owes -
   missed, under way, due - and only then the company.                       *)
Owed == {AssessmentAction, InterviewAction} \cap {"missed", "in_progress", "due"}
Primary ==
    IF Exited \/ application.status = "rejected" THEN "closed"
    ELSE IF application.status = "offer_sent" THEN "offer"
    ELSE IF "missed" \in Owed THEN "missed"
    ELSE IF "in_progress" \in Owed THEN "in_progress"
    ELSE IF "due" \in Owed THEN "due" ELSE "waiting"
Offered(action) == ~Exited /\ action \in {"in_progress", "due"}
Missed(action) == ~Exited /\ action = "missed"

(* What the gates say: loadOwnSession, openSession and startAssessment;
   loadOwnSession and openSessionForOwner.                                   *)
Loads == ~application.exit /\ application.job
AssessmentAdmits ==
    /\ Loads /\ assessment.status \notin {"none", "cancelled", "completed"}
    /\ now <= assessment.expires
    /\ assessment.started \/ now <= assessment.deadline
InterviewAdmits ==
    Loads /\ interview.status \notin {"none", "cancelled"} /\ now <= interview.expires

-----------------------------------------------------------------------------
Tick == now < MaxTime /\ now' = now + 1 /\ UNCHANGED <<application, assessment, interview>>

Lesser(a, b) == IF a < b THEN a ELSE b
InviteAssessment ==
    /\ assessment.status = "none" /\ application.status = "open" /\ Loads
    /\ assessment' = [NoSession EXCEPT !.status = "scheduled", !.expires = now + Validity,
                                       !.deadline = now + Lesser(StartWindow, Validity)]
    /\ UNCHANGED <<now, application, interview>>

InviteInterview ==
    /\ interview.status = "none" /\ application.status = "open" /\ Loads
    /\ interview' = [NoSession EXCEPT !.status = "scheduled", !.expires = now + Validity]
    /\ UNCHANGED <<now, application, assessment>>

(* startAssessment, which marks a session whose start window has passed.     *)
StartAssessment ==
    /\ assessment.status \in {"scheduled", "expired"} /\ ~assessment.started /\ now <= assessment.expires
    /\ assessment' = IF now > assessment.deadline
                     THEN [assessment EXCEPT !.status = "expired"]
                     ELSE [assessment EXCEPT !.status = "in_progress", !.started = TRUE]
    /\ UNCHANGED <<now, application, interview>>

(* A started assessment is finalised, when it is submitted or by expireSession
   when its time is over; one never started only expires.                    *)
EndAssessment ==
    /\ assessment.status \in {"scheduled", "in_progress", "expired"}
    /\ \/ assessment.started /\ assessment.status = "in_progress"
          /\ assessment' = [assessment EXCEPT !.status = "completed"]
       \/ ~assessment.started /\ now > assessment.expires
          /\ assessment' = [assessment EXCEPT !.status = "expired"]
    /\ UNCHANGED <<now, application, interview>>

StartInterview ==
    /\ interview.status = "scheduled" /\ now <= interview.expires /\ ~interview.done
    /\ interview' = [interview EXCEPT !.status = "in_progress", !.started = TRUE]
    /\ UNCHANGED <<now, application, assessment>>

(* The AI interview ends first; the session's status follows it.             *)
EndInterview ==
    /\ interview.status \in {"scheduled", "in_progress", "expired"} /\ interview.started
    /\ interview' = IF interview.done THEN [interview EXCEPT !.status = "completed"]
                    ELSE [interview EXCEPT !.done = TRUE]
    /\ UNCHANGED <<now, application, assessment>>

(* openOwnSession                                                            *)
OpenOwnInterview ==
    /\ Loads /\ interview.status \notin {"none", "cancelled", "expired"} /\ now > interview.expires
    /\ interview' = [interview EXCEPT !.status = "expired"]
    /\ UNCHANGED <<now, application, assessment>>

(* resendAssessment and resendOrRescheduleInterview: by the team, or by the
   candidate through resendOwnSessionLink, which asks loadOwnSession first.  *)
ResendAssessment(own) ==
    /\ assessment.status \notin {"none", "completed"} /\ (own => Loads)
    /\ ~(assessment.status = "in_progress" /\ now <= assessment.expires)
    /\ assessment' = [assessment EXCEPT
          !.status = IF @ \in {"expired", "cancelled"}
                     THEN (IF assessment.started THEN "in_progress" ELSE "scheduled") ELSE @,
          !.deadline = now + Validity, !.expires = now + Validity]
    /\ UNCHANGED <<now, application, interview>>

ResendInterview(own) ==
    /\ interview.status \notin {"none", "completed"} /\ ~interview.done /\ (own => Loads)
    /\ ~(interview.status = "in_progress" /\ now <= interview.expires)
    /\ interview' = [interview EXCEPT !.status = "scheduled", !.expires = now + Validity]
    /\ UNCHANGED <<now, application, assessment>>

(* A session is cancelled with its application's exit, or retired for a
   new attempt; the role is closed, or deleted with no exit left behind.     *)
CancelSession ==
    /\ \/ /\ assessment.status \in {"scheduled", "in_progress", "paused"}
          /\ assessment' = [assessment EXCEPT !.status = "cancelled"] /\ UNCHANGED interview
       \/ /\ interview.status \in {"scheduled", "in_progress"} /\ ~interview.done
          /\ interview' = [interview EXCEPT !.status = "cancelled"] /\ UNCHANGED assessment
    /\ UNCHANGED <<now, application>>

CloseRole == ~application.exit /\ application' = [application EXCEPT !.exit = TRUE]
             /\ UNCHANGED <<now, assessment, interview>>
DeleteJob == application.job /\ application' = [application EXCEPT !.job = FALSE]
             /\ UNCHANGED <<now, assessment, interview>>
Decide == /\ application.status = "open"
          /\ \E d \in {"offer_sent", "rejected"} : application' = [application EXCEPT !.status = d]
          /\ UNCHANGED <<now, assessment, interview>>

Next ==
    \/ Tick \/ InviteAssessment \/ InviteInterview \/ StartAssessment \/ EndAssessment
    \/ StartInterview \/ EndInterview \/ OpenOwnInterview \/ CancelSession
    \/ \E own \in BOOLEAN : ResendAssessment(own) \/ ResendInterview(own)
    \/ CloseRole \/ DeleteJob \/ Decide

Spec == Init /\ [][Next]_vars

-----------------------------------------------------------------------------
(* What the dashboard offers, the gates admit, and what it calls missed they
   refuse, but for the very last moment: "a candidate is never told they still
   have time when they do not" (candidateNextActions.js:79-81).              *)
DashboardTellsTheTruth ==
    /\ Offered(AssessmentAction) => AssessmentAdmits
    /\ Offered(InterviewAction) => InterviewAdmits
    /\ Missed(AssessmentAction) /\ ~(now = AssessmentDue(assessment)) => ~AssessmentAdmits
    /\ Missed(InterviewAction) /\ now # interview.expires => ~InterviewAdmits
    /\ Primary \in {"in_progress", "due"} => AssessmentAdmits \/ InterviewAdmits
=============================================================================
