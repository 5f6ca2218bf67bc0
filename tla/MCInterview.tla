---------------------------- MODULE MCInterview ----------------------------
(* The AI interview from its invitation to its report, one part at a time: a
   run takes a part and stays in it, so every part is checked as if alone.  The
   registers hold the variables of the part that is taken.                   *)
EXTENDS Integers, Sequences, TLC

CONSTANTS Parts,   \* the parts this run takes
          None, r1, r2, c1, c2, k, m1, m2

VARIABLES part, v1, v2, v3, v4, v5, v6, v7, v8

registers == <<v1, v2, v3, v4, v5, v6, v7, v8>>

(* The registers a part leaves alone: those from its number of variables on. *)
From8 == <<v8>>
From7 == <<v7, From8>>
From4 == <<v4, v5, v6, From7>>
From2 == <<v2, v3, From4>>
Free8 == v8 = 0
Free7 == v7 = 0 /\ Free8
Free4 == v4 = 0 /\ v5 = 0 /\ v6 = 0 /\ Free7
Free2 == v2 = 0 /\ v3 = 0 /\ Free4

-----------------------------------------------------------------------------
(* Two approved questions and one of the interviewer's own.                  *)
Turns == INSTANCE InterviewTurns WITH
    Must <- {m1, m2}, Probes <- {}, Anchors <- {}, NoItem <- None, MaxQuestions <- 2, MinQuestions <- 1, MaxFollowUps <- 0,
    ClosingLength <- 1, Endings <- {"abandoned"}, MaxSide <- 1, MaxTalkedOver <- 1, ai <- v1

Sentence(trig, evidence, plain, ends) == [trig |-> trig, evidence |-> evidence, plain |-> plain, ends |-> ends]
Acts == INSTANCE TurnActs WITH
    Sentences <- {Sentence("none", 14, 12, "stop"), Sentence("none", 1, 2, "open"), Sentence("decline", 2, 3, "stop"),
                  Sentence("already_answered", 0, 0, "stop"), Sentence("repeat", 0, 1, "stop"), Sentence("withdraw", 0, 1, "stop"),
                  Sentence("finished", 0, 0, "stop"), Sentence("done", 0, 0, "stop")},
    MaxSentences <- 3, MaxTurns <- 1,
    path <- v1, said <- v2, fresh <- v3, asked <- v4, held <- v5, reading <- v6, turns <- v7, dropped <- v8

Voice == INSTANCE VoiceLoop WITH
    Calls <- {c1, c2}, Kinds <- {"finished", "few", "repeat", "end", "already"}, MaxQuestions <- 1, MaxRepeats <- 1,
    MaxCalls <- 3, doc <- v1, calls <- v2, worker <- v3

Windows == INSTANCE RealtimeWindows WITH
    Sessions <- {"s1"}, Requests <- {r1, r2}, Nobody <- None, Cap <- 1, MaxWindows <- 2, Now <- 1,
    doc <- v1, room <- v2, finished <- v3, req <- v4, bills <- v5, clock <- v6

(* What is filed beside the interview, in two halves: the recording with the
   withdrawal of consent, and everything else.                               *)
Recording == INSTANCE InterviewEvidence WITH
    Requests <- {r1, r2}, Seqs <- {1, 2}, MaxClips <- 1, MaxAnswers <- 1, MaxIntents <- 1, MaxSilences <- 1, MaxObjects <- 3,
    Lanes <- {"recording", "consent"},
    session <- v1, stored <- v2, clips <- v3, req <- v4, answered <- v5, uploaded <- v6, silences <- v7, made <- v8
Filing == INSTANCE InterviewEvidence WITH
    Requests <- {r1, r2}, Seqs <- {1}, MaxClips <- 1, MaxAnswers <- 1, MaxIntents <- 1, MaxSilences <- 1, MaxObjects <- 3,
    Lanes <- {"answer", "intent", "audio", "clip", "consent", "phone"},
    session <- v1, stored <- v2, clips <- v3, req <- v4, answered <- v5, uploaded <- v6, silences <- v7, made <- v8
Recorded == INSTANCE InterviewEvidence WITH
    Requests <- {r1, r2}, Seqs <- {1}, MaxClips <- 1, MaxAnswers <- 1, MaxIntents <- 1, MaxSilences <- 1, MaxObjects <- 3,
    Lanes <- {"answer", "recording", "consent"},
    session <- v1, stored <- v2, clips <- v3, req <- v4, answered <- v5, uploaded <- v6, silences <- v7, made <- v8

Graph == INSTANCE Claims WITH
    Criteria <- {"c", "g"}, Disqualifiers <- {}, Weight <- [c |-> 60, g |-> 40], Claim <- {k}, Specificity <- (k :> "specific"),
    Statuses <- {"satisfied"}, Advance <- 60, Review <- 45, Mode <- "enforce", Runs <- {"s1"}, Panel <- {"p1"},
    MaxGraphs <- 1, MaxScores <- 3, MaxCrashes <- 1,
    graphs <- v1, scores <- v2, probes <- v3, cards <- v4, work <- v5, crashes <- v6

Panel == INSTANCE Scorecards WITH
    Rounds <- {"r1"}, Criteria <- {"x", "y"}, Weight <- [x |-> 50, y |-> 50], Ratings <- {1, 4}, Recruiters <- {"p", "q"},
    Nobody <- None, AlertPoints <- 25, Validity <- 0, MaxCards <- 2, MaxTime <- 1, MaxLinks <- 2,
    now <- v1, engine <- v2, cards <- v3, links <- v4, portal <- v5, invite <- v6, alerts <- v7

Report == INSTANCE Reports WITH
    Requirements <- {"x", "y"}, Weight <- [x |-> 335, y |-> 665], Resume <- [x |-> "verified", y |-> "absent"],
    Indicators <- [ia |-> 30, ib |-> 25, ic |-> 25, id |-> -30],
    Events <- {"multi_face", "device_busy", "tab_switch", "gaze_away", "bandwidth_anomaly", "detector_uncertain"},
    Months <- 0 .. 5, MaxTurns <- 4, MaxPieces <- 5, MaxEvents <- 3, MaxPeriods <- 3,
    leg <- v1, turns <- v2, pieces <- v3, counts <- v4, seen <- v5, periods <- v6
Integrity == INSTANCE Reports WITH
    Requirements <- {"x", "y"}, Weight <- [x |-> 335, y |-> 665], Resume <- [x |-> "verified", y |-> "absent"],
    Indicators <- [ia |-> 30, ib |-> 25, ic |-> 25, id |-> -30],
    Events <- {"multi_face", "device_busy", "tab_switch", "gaze_away", "bandwidth_anomaly", "detector_uncertain"},
    Months <- 0 .. 5, MaxTurns <- 0, MaxPieces <- 0, MaxEvents <- 5, MaxPeriods <- 0,
    leg <- v1, turns <- v2, pieces <- v3, counts <- v4, seen <- v5, periods <- v6

-----------------------------------------------------------------------------
Init ==
    /\ part \in Parts
    /\ \/ part = "turns" /\ Turns!Init /\ Free2
       \/ part = "acts" /\ Acts!Init
       \/ part = "voice" /\ Voice!Init /\ Free4
       \/ part = "windows" /\ Windows!Init /\ Free7
       \/ part = "recording" /\ Recording!Init
       \/ part = "filing" /\ Filing!Init
       \/ part = "recorded" /\ Recorded!Init
       \/ part = "claims" /\ Graph!Init /\ Free7
       \/ part = "scorecards" /\ Panel!Init /\ Free8
       \/ part = "reports" /\ Report!Init /\ Free7
       \/ part = "integrity" /\ Integrity!Init /\ Free7

Next ==
    /\ UNCHANGED part
    /\ \/ part = "turns" /\ Turns!Next /\ UNCHANGED From2
       \/ part = "acts" /\ Acts!Next
       \/ part = "voice" /\ Voice!Next /\ UNCHANGED From4
       \/ part = "windows" /\ Windows!Next /\ UNCHANGED From7
       \/ part = "recording" /\ Recording!Next
       \/ part = "filing" /\ Filing!Next
       \/ part = "recorded" /\ Recorded!Next
       \/ part = "claims" /\ Graph!Next /\ UNCHANGED From7
       \/ part = "scorecards" /\ Panel!Next /\ UNCHANGED From8
       \/ part = "reports" /\ Report!Next /\ UNCHANGED From7
       \/ part = "integrity" /\ Integrity!Next /\ UNCHANGED From7

Spec == Init /\ [][Next]_<<part, registers>>

-----------------------------------------------------------------------------
(* Every document, copy, queue, clock and counter keeps its type.            *)
TypesOK ==
    CASE part = "turns" -> Turns!TypeOK
      [] part = "acts" -> Acts!TypeOK
      [] part = "voice" -> Voice!TypeOK
      [] part = "windows" -> Windows!TypeOK
      [] part = "recording" -> Recording!TypeOK
      [] part = "filing" -> Filing!TypeOK
      [] part = "recorded" -> Recorded!TypeOK
      [] part = "claims" -> Graph!TypeOK
      [] part = "scorecards" -> Panel!TypeOK
      [] part = "reports" -> Report!TypeOK
      [] part = "integrity" -> Integrity!TypeOK

(* Every approved question is asked, and asked in time, unless the interview is
   cut short; what is no answer is not scored; the interview ends
   (aiInterviewService.js).                                                  *)
InterviewIsRun == part = "turns" => Turns!InterviewIsRun

(* Words that carry an answer are not read away (turnComposition.js,
   conversationIntent.js, voiceAgentService.js).                             *)
WordsAreHeard == part = "acts" => Acts!WordsAreHeard

(* An answer of the voice worker is recorded under the question it was given
   for, or not at all (voiceAgentService.submitAnswer), unless its call was saved
   over a question it had not read, which only one of the interviewer's own or
   the warm-up makes possible; and the minutes of a
   realtime window are billed once, whoever reports its end, unless a request
   that saves the whole interview opened it again (livekitService.meterSession). *)
RealtimeIsExact ==
    /\ part = "voice" => Voice!AnswersStayWithTheirQuestion
    /\ part = "windows" => Windows!BilledOnce

(* Every acknowledged chunk of the recording stays in storage, alone or
   joined, and every silence counts once, whatever else is filed meanwhile;
   what an interview says of a claim was earned by an answer, what a panel
   submitted counts, and two scores differ as the claims between them do
   (interviewRecordingService.js, interviewPortalController.js, claimService.js,
   probeService.js, assessmentService.js).                                   *)
EvidenceHolds ==
    /\ part = "recording" => Recording!EvidenceHolds
    /\ part = "filing" => Filing!EvidenceHolds
    /\ part = "claims" => Graph!EvidenceIsEarned

(* A panel's card is one interviewer's, once, weighed over what was rated
   (scorecardService.js, scorecardEngine.js).                                *)
CardsAreFair == part = "scorecards" => Panel!CardsAreFair

(* A report never holds against a candidate what the system did not measure
   (interviewReportEngine.js, proctoring.js, claimConsistency.js).           *)
ReportsAreFair ==
    /\ [](part = "reports" => Report!NobodyFailsForAFault /\ Report!SharesAddUp /\ Report!MonthsAreWorked)
    /\ [][part = "reports" => Report!OnePieceAtATime]_<<part, registers>>

-----------------------------------------------------------------------------
(* What the repository's comments say and the code does not do: README.md,
   Where the code and its comments disagree.                                 *)

(* An answer that was stored stays stored while the recording is uploaded: the
   comments of interviewPortalController.js on answers.                      *)
AnswersSurvive == part = "recorded" => Recorded!AnswersSurvive

(* A person's verdict is not replaced by a machine's: the hierarchy
   models/ClaimGraph.js states.                                              *)
HierarchyIsKept ==
    [][part = "claims" => \A n \in DOMAIN v1 : Graph!Rank(v1'[n].claims[k]) >= Graph!Rank(v1[n].claims[k])]_<<part, registers>>

(* Not knowing who sat the interview is no worse than the signals that were
   seen (the comments of proctoring.js); five events of one kind tell.       *)
UnknownIsNoWorse == part = "integrity" => Integrity!UnknownIsNoWorse

(* The difference a recruiter is shown is the interview's (getAssessment's
   comment in candidateController.js).                                       *)
DeltaIsTheInterviews == part = "claims" => Graph!DeltaIsTheInterviews

(* A window is billed once, whichever of its three callers comes first (the
   comment of livekitController.livekitEnd).                                 *)
WindowsBilledOnce == part = "windows" => Windows!WindowsBilledOnce

(* The handshake keeps every answer with its question (the comment of
   voiceAgentService.submitAnswer).                                          *)
AnswersNeverStray == part = "voice" => Voice!AnswersNeverStray

(* Repeats move no verdict that is served and a requirement's probes count by
   their worst (the comments of interviewReportEngine.js), and an open interview
   is nobody's failure.                                                      *)
RepeatsMoveNothing == part = "reports" => Report!RepeatsMoveNothing
WeakerIsNotProven == part = "reports" => (v1 = "coverage" => Report!WeakerIsNotProven)
OpenInterviewsAreUndecided == part = "reports" => Report!OpenInterviewsAreUndecided

(* An approved question counts as asked when it was heard (the comment of
   aiInterviewService.js on questions talked over).                          *)
ApprovedIsHeard == part = "turns" => Turns!ApprovedIsHeard

Alike == Permutations({r1, r2}) \cup Permutations({c1, c2})

=============================================================================
