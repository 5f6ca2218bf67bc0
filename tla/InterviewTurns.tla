---------------------------- MODULE InterviewTurns ----------------------------
(* The turns of one interview: services/aiInterviewService.js from the plan to
   the evaluation.  The interviewer speaks from required items (approved
   questions, claim probes, resume anchors), from its own questions, follow-ups
   and a closing sequence; the candidate answers, declines, stays silent or
   talks about the interview.  The transcript is append-only and everything the
   code decides it decides by searching it backwards, and so does this module.
   Requests of one interview are taken one at a time: their overlaps are in
   InterviewSession.                                                         *)
EXTENDS Integers, Sequences, FiniteSets, SequencesExt

CONSTANTS Must,          \* the approved questions of the job's question set
          Probes,        \* the candidate's claim probes
          Anchors,       \* the resume anchors
          NoItem,
          MaxQuestions,  \* the configured cap
          MinQuestions,
          MaxFollowUps,
          ClosingLength, \* of the closing sequence
          Endings,       \* the statuses an interview may be ended with before its end
          MaxSide,       \* bound on the talk about the interview
          MaxTalkedOver  \* bound on the questions the candidate talks over

VARIABLE ai \* InterviewSession.aiInterview

vars == <<ai>>

Items == Must \cup Probes \cup Anchors
SideChannelKinds == {"side_claim", "side_reply"}
ClosingKinds == {"capstone"}
AskableKinds == {"question", "warmup", "follow_up"} \cup ClosingKinds
Statuses == {"not_started", "in_progress", "completed"} \cup Endings

(* A turn: what the interviewer said about which item, whether all of it was
   heard and whether it was nudged; or what the candidate said, how long it is,
   the act it declines by and whether it has a score.                        *)
Said(kind, item) == [role |-> "ai", kind |-> kind, item |-> item, heard |-> TRUE, nudged |-> FALSE,
                     length |-> "none", declined |-> "no", scored |-> FALSE]
Spoken(kind, length, act) == [role |-> "candidate", kind |-> kind, item |-> NoItem, heard |-> TRUE, nudged |-> FALSE,
                              length |-> length, declined |-> act, scored |-> FALSE]

LastTurn(s, Test(_)) == SelectLastInSeq(s.turns, Test)
IsAi(t) == t.role = "ai"
IsCandidate(t) == t.role = "candidate"
IsQuestion(t) == IsAi(t) /\ t.kind = "question"
IsAnswer(t) == IsCandidate(t) /\ t.kind = "answer"
Answers(s) == {i \in DOMAIN s.turns : IsAnswer(s.turns[i])}

PrecedingKind(s) == LET i == LastTurn(s, IsAi) IN IF i = 0 THEN "none" ELSE s.turns[i].kind
Push(s, turn) == [s EXCEPT !.turns = Append(@, turn)]
Pending(s, items) == {x \in items : s.cover[x] = "pending"}
Mark(s, x, status) == IF x = NoItem THEN s ELSE [s EXCEPT !.cover[x] = status]
TalkedOver(s) == Cardinality({i \in DOMAIN s.turns : ~s.turns[i].heard})

NoEvaluation == [done |-> FALSE, recommendation |-> "none", asked |-> 0, answered |-> 0, declined |-> 0]

TypeOK ==
    /\ ai.status \in Statuses
    /\ ai.cover \in [Items -> {"pending", "asked", "covered"}]
    /\ ai.followUpCount \in 0 .. MaxFollowUps /\ ai.closingIndex \in 0 .. ClosingLength
    /\ \A i \in DOMAIN ai.turns : ai.turns[i].role \in {"ai", "candidate"} /\ ai.turns[i].item \in Items \cup {NoItem}

Init ==
    ai = [status |-> "not_started", turns |-> <<>>, cover |-> [x \in Items |-> "pending"], questionCount |-> 0,
          maxQuestions |-> MaxQuestions, minQuestions |-> MinQuestions, followUpCount |-> 0, closingIndex |-> 0,
          away |-> FALSE, evaluation |-> NoEvaluation]

Smaller(a, b) == IF a < b THEN a ELSE b

(* beginInterview: the required coverage raises the cap, the introduction is
   not a question of the instrument.                                         *)
Begin ==
    /\ ai.status = "not_started"
    /\ LET cap == IF Cardinality(Items) > MaxQuestions THEN Cardinality(Items) ELSE MaxQuestions
       IN  ai' = [ai EXCEPT !.status = "in_progress", !.maxQuestions = cap, !.minQuestions = Smaller(@, cap),
                            !.turns = <<Said("intro", NoItem), Said("warmup", NoItem)>>]

-----------------------------------------------------------------------------
(* advance: the interviewer's next turn.                                     *)

NudgeTarget(s) ==
    LET i == LastTurn(s, IsCandidate)
        q == SelectLastInSeq(SubSeq(s.turns, 1, i - 1), IsAi)
    IN  IF /\ i > 1 /\ IsAnswer(s.turns[i]) /\ s.turns[i].declined = "no" /\ s.turns[i].length = "short"
           /\ q > 0 /\ s.turns[q].kind \in {"question", "follow_up"} /\ ~s.turns[q].nudged
        THEN q ELSE 0

NudgeEveryTime(s) ==
    LET i == LastTurn(s, IsCandidate)
        q == SelectLastInSeq(SubSeq(s.turns, 1, i - 1), LAMBDA t : IsAi(t) /\ t.kind # "nudge")
    IN  IF i > 1 /\ IsAnswer(s.turns[i]) /\ s.turns[i].length = "short" /\ q > 0 /\ s.turns[q].kind = "question"
        THEN q ELSE 0

Nudge(s) == Push([s EXCEPT !.turns[NudgeTarget(s)].nudged = TRUE], Said("nudge", NoItem))

(* The first loop of chooseMustAsk: an approved question that resembles one
   already in askedQuestions is not read out any more.  Its own text is there
   from the first time it was asked.                                         *)
MustAskAlreadyCovered(s, m) == \E i \in DOMAIN s.turns : IsQuestion(s.turns[i]) /\ s.turns[i].item = m
Retire(s) == [s EXCEPT !.cover = [x \in Items |-> IF x \in Pending(s, Must) /\ MustAskAlreadyCovered(s, x) THEN "asked" ELSE @[x]]]

\* As if an approved question were only due after one of the interviewer's own.
MustAskEverySecond(s) == LET q == LastTurn(s, IsQuestion) IN q = 0 \/ s.turns[q].item \notin Must

(* The rest of chooseMustAsk: approved and own questions alternate until the
   budget left is what the required questions need.                          *)
MustAskDue(s) ==
    LET reserved == Cardinality(Pending(s, Must)) + Cardinality(Pending(s, Probes))
        q == LastTurn(s, IsQuestion)
    IN  \/ s.maxQuestions - s.questionCount <= reserved
        \/ q = 0
        \/ s.turns[q].item \notin Must
ChooseMustAsk(s) == IF Pending(s, Must) # {} /\ MustAskDue(s) THEN {CHOOSE m \in Pending(s, Must) : TRUE} ELSE {}

Ask(s, item) ==
    [Mark(Push(s, Said("question", item)), item, "asked") EXCEPT !.questionCount = @ + 1]

\* As if the closing question were chosen as long as nothing is pending.
ChooseClosingAgain(s) == Pending(s, Probes \cup Must) = {}

(* deliverClosingOrComplete with chooseClosingQuestion.                      *)
ChooseClosing(s) == s.closingIndex < ClosingLength /\ Pending(s, Probes \cup Must) = {}
DeliverClosingOrComplete(s) ==
    IF ChooseClosing(s)
    THEN [Push(s, Said("capstone", NoItem)) EXCEPT !.closingIndex = @ + 1]
    ELSE [Push(s, Said("closing", NoItem)) EXCEPT !.status = "completed"]

(* reflect and decideFollowUp: the model may propose a follow-up on a real
   answer long enough to carry one.                                          *)
MayFollowUp(s) ==
    LET t == s.turns[LastTurn(s, IsCandidate)]
    IN  IsAnswer(t) /\ t.declined = "no" /\ t.length = "long" /\ s.followUpCount < MaxFollowUps
FollowUp(s) == [Push(s, Said("follow_up", NoItem)) EXCEPT !.followUpCount = @ + 1]

(* nextQuestion: what the model may come back with after the checks on what it
   stamped, and what the fallback takes: a probe, then an anchor, then a
   general question.  Repeats have been rejected, a probe's are exempt; the
   fallback asks no probe in the same words twice.                           *)
Proposed(s) == {[item |-> x, closing |-> c] : x \in Pending(s, Probes \cup Anchors) \cup {NoItem}, c \in BOOLEAN}
Unasked(s, items) == {x \in Pending(s, items) : \A i \in DOMAIN s.turns : s.turns[i].item # x}
Fallback(s) ==
    LET first == IF Unasked(s, Probes) # {} THEN Unasked(s, Probes) ELSE Unasked(s, Anchors)
    IN  {[item |-> x, closing |-> FALSE] : x \in IF first = {} THEN {NoItem} ELSE first}
NextQuestion(s) == Proposed(s) \cup Fallback(s)

ClosingAllowed(s) == Pending(s, Items) = {} /\ s.questionCount >= s.minQuestions

(* The score that comes with the next question goes to the last thing the
   candidate said, unless that is the introduction or a decline.             *)
MayScore(t) == t.kind # "warmup_answer" /\ t.declined = "no"
ScoreLast(s, scored) ==
    LET i == LastTurn(s, IsCandidate)
    IN  IF scored /\ MayScore(s.turns[i]) THEN [s EXCEPT !.turns[i].scored = TRUE] ELSE s

Adaptive(s) ==
    {IF next.closing /\ ClosingAllowed(r) THEN DeliverClosingOrComplete(r) ELSE Ask(r, next.item) :
        next \in NextQuestion(s), r \in {ScoreLast(s, scored) : scored \in BOOLEAN}}

Scripted(s) ==
    IF s.questionCount >= s.maxQuestions THEN {DeliverClosingOrComplete(s)}
    ELSE IF ChooseMustAsk(s) # {} THEN {Ask(s, m) : m \in ChooseMustAsk(s)}
    ELSE Adaptive(s)

Advance(s) ==
    IF NudgeTarget(s) # 0 THEN {Nudge(s)}
    ELSE UNION {Scripted(r) \cup {FollowUp(t) : t \in {u \in {r} : MayFollowUp(u) /\ u.questionCount < u.maxQuestions}} : r \in {Retire(s)}}

-----------------------------------------------------------------------------
(* What the candidate does.                                                  *)

(* submitAnswer: a question talked over is put back.                         *)
Requeue(s, heard) ==
    LET q == LastTurn(s, IsQuestion)
    IN  IF heard \/ q = 0 THEN s
        ELSE [s EXCEPT !.turns[q].heard = FALSE,
                       !.cover = [x \in Items |-> IF x = s.turns[q].item /\ @[x] = "asked" THEN "pending" ELSE @[x]]]

(* markAnchorsCovered: every anchor asked before this answer.                *)
CoverAnchors(s) == [s EXCEPT !.cover = [x \in Items |-> IF x \in Anchors /\ @[x] = "asked" THEN "covered" ELSE @[x]]]

Merge(s, length) == LET i == LastTurn(s, IsAnswer) IN IF length = "long" THEN [s EXCEPT !.turns[i].length = "long"] ELSE s

AnswerKind(s) == IF PrecedingKind(s) = "warmup" THEN "warmup_answer" ELSE "answer"

Answered(s, length, heard) ==
    IF PrecedingKind(s) = "nudge" /\ Answers(s) # {} THEN Merge(s, length)
    ELSE CoverAnchors(Push(Requeue(s, heard), Spoken(AnswerKind(s), length, "no")))

InProgress == ai.status = "in_progress"

SubmitAnswer(length, heard) ==
    /\ InProgress
    /\ heard \/ (TalkedOver(ai) < MaxTalkedOver /\ PrecedingKind(ai) = "question")
    /\ \E s \in {Answered(ai, length, heard)} : ai' \in Advance(s)

(* handleDecline, once the server reads a decline too; handleNoResponse.     *)
NotAnswered(s, act) ==
    IF PrecedingKind(s) = "warmup"
    THEN Push(s, Spoken("warmup_answer", "short", IF act = "no_response" THEN act ELSE "no"))
    ELSE Push(s, Spoken("answer", "short", act))
NoAnswer(act) == InProgress /\ \E s \in {NotAnswered(ai, act)} : ai' \in Advance(s)
HandleDecline == NoAnswer("decline")
HandleNoResponse == NoAnswer("no_response")

(* handleAlreadyAnswered and the portal's questions about the interview: a
   claim and its reply, beside the open question.                            *)
SideExchange ==
    /\ InProgress
    /\ Cardinality({i \in DOMAIN ai.turns : ai.turns[i].kind = "side_claim"}) < MaxSide
    /\ ai' = Push(Push(ai, Spoken("side_claim", "short", "no")), Said("side_reply", NoItem))

(* recordPresence with a notable absence; a guardrail halt, a withdrawal, an
   integrity termination or a sweep.                                         *)
Away == InProgress /\ ~ai.away /\ ai' = [ai EXCEPT !.away = TRUE]
End(status) == InProgress /\ ai' = [ai EXCEPT !.status = status]

-----------------------------------------------------------------------------
(* runFinalization.                                                          *)

\* As if every answer were scored, a declined one included.
ToScoreAll(s) == {i \in Answers(s) : ~s.turns[i].scored}

(* scoreUnscoredAnswers: answers to a question that are neither declined nor
   scored; a model call may fail.                                            *)
ToScore(s) ==
    {i \in Answers(s) : /\ s.turns[i].declined = "no"
                        /\ ~s.turns[i].scored
                        /\ \E j \in 1 .. i - 1 : IsQuestion(s.turns[j])}
ScoreUnscoredAnswers(s, done) ==
    [s EXCEPT !.turns = [i \in DOMAIN s.turns |-> IF i \in ToScore(s) THEN [s.turns[i] EXCEPT !.scored = done] ELSE s.turns[i]]]

Declines(s) == {i \in Answers(s) : s.turns[i].declined # "no"}
ReviewRequired(s) ==
    \/ s.status # "completed"
    \/ \E i \in Answers(s) : s.turns[i].declined = "no_response"
    \/ s.questionCount > 0 /\ 2 * Cardinality(Declines(s)) > s.questionCount
    \/ s.away

(* makeEvaluation, coverageStats and reviewRequiredReason: without a usable
   model answer the fallback recommends a review.                            *)
Evaluate(s, useAi) ==
    [s EXCEPT !.evaluation = [done |-> TRUE,
                              recommendation |-> IF useAi /\ ~ReviewRequired(s) THEN "model" ELSE "review",
                              asked |-> s.questionCount,
                              answered |-> Cardinality(Answers(s) \ Declines(s)),
                              declined |-> Cardinality(Declines(s))]]

RunFinalization ==
    /\ ai.status \notin {"not_started", "in_progress"}
    /\ ~ai.evaluation.done
    /\ \E useAi \in BOOLEAN, s \in {ScoreUnscoredAnswers(ai, done) : done \in BOOLEAN} : ai' = Evaluate(s, useAi)

Speak == \/ \E length \in {"short", "long"}, heard \in BOOLEAN : SubmitAnswer(length, heard)
         \/ HandleDecline
         \/ HandleNoResponse

Next ==
    \/ Begin
    \/ Speak
    \/ SideExchange
    \/ Away
    \/ \E status \in Endings : End(status)
    \/ RunFinalization

Spec == Init /\ [][Next]_vars

-----------------------------------------------------------------------------
(* The recruiter's instrument is run: an interview that finished asked every
   approved question, except one the candidate talked over when the budget was
   spent, and never asks more than the budget.                               *)
InstrumentIsRun ==
    /\ ai.questionCount <= ai.maxQuestions
    /\ ai.status = "completed" =>
        \A m \in Pending(ai, Must) : \E i \in DOMAIN ai.turns : ai.turns[i].item = m /\ ~ai.turns[i].heard

(* A declined or silent question carries no score, and an interview with a hole
   in it gets no automated recommendation.                                   *)
GapsAreNotScored ==
    /\ \A i \in DOMAIN ai.turns : ai.turns[i].scored => ai.turns[i].declined = "no"
    /\ ai.evaluation.recommendation = "model" =>
        ai.status = "completed" /\ \A i \in Answers(ai) : ai.turns[i].declined # "no_response"

(* Whatever the candidate replies, the interview comes to its end: everything
   the interviewer says comes out of the budget, the follow-up allowance or the
   closing sequence, and each question is nudged at most once.               *)
Budget(s) == s.maxQuestions + MaxFollowUps
InterviewIsBounded ==
    Cardinality({i \in DOMAIN ai.turns : IsAi(ai.turns[i]) /\ ai.turns[i].kind # "side_reply"}) <= 2 + 2 * Budget(ai) + ClosingLength + 1

(* An interview is run as it was approved: all of the above, whatever is said.  *)
InterviewIsRun == InstrumentIsRun /\ GapsAreNotScored /\ InterviewIsBounded

(* "An approved question the candidate talked over was not really asked, so it
   goes back into the queue": it counts as asked only when some delivery of it
   was heard.                                                                *)
ApprovedIsHeard ==
    \A m \in Must : ai.cover[m] = "asked" => \E i \in DOMAIN ai.turns : ai.turns[i].item = m /\ ai.turns[i].heard

(* The opening self-introduction stays out of every scoring path: nothing said
   before the first question and follow-up carries a score.                  *)
IntroductionIsUnscored ==
    \A i \in DOMAIN ai.turns : ai.turns[i].scored =>
        \E j \in 1 .. i - 1 : ai.turns[j].kind \in {"question", "follow_up"} \cup ClosingKinds

=============================================================================
