--------------------------------- MODULE Reports ---------------------------------
(* What a recruiter is told of one candidate, computed afresh from what the
   system recorded each time the report is opened: the interview's verdict and
   the difficulty of its questions, the coverage of the role's requirements, the
   integrity risk, the stars of an axis of insight and the résumé's timeline.
   What was recorded grows one piece at a time.                               *)
EXTENDS Integers, Sequences, FiniteSets, FiniteSetsExt, SequencesExt

CONSTANTS Requirements, Weight, Resume,  \* the rubric's, their weight in thousandths and the résumé's finding
          Events,                        \* the proctoring events looked at
          Indicators,                    \* an axis: indicator -> its weight
          Months, MaxTurns, MaxPieces, MaxEvents, MaxPeriods

VARIABLES leg,      \* which record grows in this behaviour
          turns,    \* the candidate's turns
          pieces,   \* what tested each requirement: correct, wrong, verdicts and anchors
          counts,   \* of the proctoring events
          seen,     \* the observations on one answer
          periods   \* the dated roles, in the order the résumé gives them

vars == <<leg, turns, pieces, counts, seen, periods>>

Legs == {"interview", "coverage", "integrity", "insight", "timeline"}
HalfUp(num, den) == (2 * num + den) \div (2 * den)   \* Math.round of a quotient

-----------------------------------------------------------------------------
(* The interview's verdict.                                                  *)

(* A candidate turn: an answer or another (an introduction, a closing word),
   of six words or more, scored, with the flags of analyseTurnQuality.       *)
Answer(responsive, score, flags) == [kind |-> "answer", declined |-> FALSE, responsive |-> responsive, score |-> score, flags |-> flags]
Turns == [strong |-> Answer(TRUE, 80, {}), fair |-> Answer(TRUE, 60, {}), weak |-> Answer(TRUE, 30, {}), brief |-> Answer(FALSE, 30, {}),
          asked |-> Answer(TRUE, 80, {"asked_to_repeat"}), stalled |-> Answer(FALSE, 0, {"stalled"}),
          silent |-> Answer(FALSE, 0, {"mostly_silence"}), dropped |-> Answer(FALSE, 0, {"connection_dropped"}),
          declined |-> [Answer(TRUE, 0, {}) EXCEPT !.declined = TRUE],
          other |-> [Answer(FALSE, 80, {}) EXCEPT !.kind = "name_answer"]]
Unheard == {"stalled", "mostly_silence", "unusable_audio", "connection_dropped"}
Endings == {"completed", "ended_early", "halted", "abandoned", "integrity_terminated"}

Flagged(ts, flags) == Cardinality({i \in DOMAIN ts : ts[i].flags \cap flags # {}})
AudioAssumed(ts) == FALSE

(* audioUnreliableFrom: narrower than the warning, the repeats are not in it. *)
AudioUnreliable(ts) ==
    \/ Flagged(ts, {"connection_dropped"}) > 0
    \/ Flagged(ts, {"stalled"}) >= 2
    \/ ts # <<>> /\ 10 * Flagged(ts, Unheard) >= 4 * Len(ts)
ComputeSessionQuality(ts) ==
    [degraded |-> \/ Flagged(ts, {"stalled"}) >= 2 \/ Flagged(ts, {"asked_to_repeat"}) >= 2
                  \/ Flagged(ts, {"connection_dropped"}) >= 1
                  \/ ts # <<>> /\ 10 * Flagged(ts, Unheard \cup {"asked_to_repeat"}) >= 4 * Len(ts),
     audioUnreliable |-> AudioUnreliable(ts)]

ComputeAnswerSubstance(ts) ==
    LET attempted == {i \in DOMAIN ts : ~ts[i].declined}
    IN  [responsive |-> Cardinality({i \in attempted : ts[i].responsive}),
         total |-> Cardinality(attempted), declined |-> Len(ts) - Cardinality(attempted)]

ComputeVerdict(ts, ending, engineRan, overall) ==
    LET s == ComputeAnswerSubstance(ts)
    IN  IF ending \in Endings \ {"completed"} \/ ComputeSessionQuality(ts).audioUnreliable THEN "REVIEW"
        ELSE IF s.total = 0 THEN IF s.declined > 0 THEN "REVIEW" ELSE "CLEAR_REJECT"
        ELSE IF 2 * s.responsive < s.total THEN "CLEAR_REJECT"
        ELSE IF ~engineRan \/ overall < 0 THEN "REVIEW"
        ELSE IF overall >= 60 THEN "ADVANCE" ELSE IF overall <= 40 THEN "CLEAR_REJECT" ELSE "REVIEW"

(* verdictFor and recommendedAction: the chip and the advice under it.        *)
VerdictChip(verdict, measurable) == IF measurable THEN verdict ELSE "WITHHELD"
RecommendedAction(verdict, short) ==
    CASE verdict = "CLEAR_REJECT" -> "Reject"
      [] verdict = "ADVANCE" -> "Advance"
      [] OTHER -> IF short THEN "Re-interview" ELSE "Manual review"

(* What makeEvaluation leaves: the model's score, nothing yet, or the mean of the
   answers a heuristic scored, which recommends nobody.                      *)
FallbackEvaluation(ts) ==
    LET scored == SelectSeq(ts, LAMBDA t : t.kind = "answer" /\ ~t.declined)
    IN  IF scored = <<>> THEN -1 ELSE HalfUp(FoldLeft(LAMBDA sum, t : sum + t.score, 0, scored), Len(scored))
Evaluations(ts) ==
    {[by |-> "ai", overall |-> n] : n \in {40, 50, 60}}
        \cup {[by |-> "fallback", overall |-> FallbackEvaluation(ts)], [by |-> "none", overall |-> -1]}

(* buildInterviewReport: the interview's part of the report, and whether the
   integrity band is withheld from it; reviewReport: how it is served.       *)
InterviewReport(ts, status, evaluation, short) ==
    LET quality == ComputeSessionQuality(ts)
        verdict == ComputeVerdict(ts, status, evaluation.by = "ai", evaluation.overall)
    IN  [verdict |-> verdict, suppressed |-> quality.degraded,
         chip |-> VerdictChip(verdict, evaluation.by # "fallback" /\ ~quality.degraded),
         action |-> IF quality.degraded THEN "Re-interview" ELSE RecommendedAction(verdict, short),
         bandWithheld |-> quality.audioUnreliable \/ status = "halted"]
ReviewReport(report, status, reviewReason) ==
    IF status = "ended_early" \/ reviewReason \/ report.suppressed
    THEN [report EXCEPT !.verdict = "REVIEW", !.action = "Manual review", !.suppressed = TRUE] ELSE report

(* computeRung: the difficulty of the next question, from the answers so far. *)
DirectionOf(score) == CASE score >= 75 -> 1 [] score <= 45 -> -1 [] OTHER -> 0
CountsToRung(t) == t.kind = "answer" /\ ~t.declined
Climb(at, t) ==
    LET step == DirectionOf(t.score)
    IN  CASE ~CountsToRung(t) -> at
          [] CountsToRung(t) /\ step = 0 -> [at EXCEPT !.direction = 0]
          [] CountsToRung(t) /\ step # 0 /\ step # at.direction -> [at EXCEPT !.direction = step]
          [] OTHER -> [rung |-> IF at.rung + step \in 1 .. 3 THEN at.rung + step ELSE at.rung, direction |-> 0]
ComputeRung(ts) == FoldLeft(Climb, [rung |-> 2, direction |-> 0], ts).rung

-----------------------------------------------------------------------------
(* The coverage of the requirements.                                         *)

NoPieces == [correct |-> 0, wrong |-> 0, verified |-> 0, contradicted |-> 0, inconclusive |-> 0, asked |-> 0, anchor |-> FALSE]
Classify(p) ==
    LET items == p.correct + p.wrong
    IN  IF p.contradicted > 0 THEN "failed"
        ELSE IF p.verified > 0 \/ (items >= 3 /\ p.wrong = 0) THEN "proven"
        ELSE IF items >= 4 /\ 4 * p.correct <= items THEN "failed" ELSE "insufficient"

(* interviewCell: the most severe verdict shows; one asked without a verdict is
   nothing yet, a covered anchor is a partial one.                           *)
InterviewCell(p) ==
    IF p.contradicted > 0 THEN "contradicted"
    ELSE IF p.inconclusive > 0 THEN "partial"
    ELSE IF p.verified > 0 /\ p.asked = 0 THEN "verified"
    ELSE IF p.anchor THEN "partial" ELSE "untested"
UntestedCause(p, claimed, audioUnreliable) ==
    IF p.verified + p.contradicted + p.inconclusive > 0 THEN "none"
    ELSE IF p.asked > 0 THEN IF audioUnreliable THEN "asked_audio_failed" ELSE "asked_unresolved"
    ELSE IF p.anchor THEN "anchor_only"
    ELSE IF claimed THEN "no_probe_slot" ELSE "resume_silent"
Support == [contradicted |-> 0, absent |-> 1, untested |-> 1, partial |-> 2, verified |-> 3]
LegMovement(c, p) ==
    LET to == InterviewCell(p) IN
    IF to = "untested" THEN "undemonstrated"
    ELSE IF Support[to] > Support[Resume[c]] THEN "stronger"
    ELSE IF Support[to] < Support[Resume[c]] THEN "weaker" ELSE "held"

AssessmentCell(p) ==
    LET items == p.correct + p.wrong
    IN  IF items = 0 THEN "untested" ELSE IF 10 * p.correct >= 8 * items THEN "verified"
        ELSE IF 100 * p.correct <= 34 * items THEN "contradicted" ELSE "partial"

(* buildCoverageMatrix: a requirement's row, what each source says of it.    *)
Row(c, claimed, audioUnreliable) ==
    LET p == pieces[c]
    IN  [resume |-> Resume[c], assessment |-> AssessmentCell(p), interview |-> InterviewCell(p),
         bucket |-> Classify(p), untestedCause |-> UntestedCause(p, claimed, audioUnreliable), movement |-> LegMovement(c, p),
         underpowered |-> p.correct + p.wrong \in 1 .. 3 /\ p.verified + p.contradicted + p.inconclusive = 0]

(* bucketPercents: floors, and what is missing to 100 to the largest fractions,
   the first bucket first among equal ones.                                  *)
Buckets == <<"proven", "failed", "insufficient">>
WeightOf(bucket) == HalfUp(MapThenSumSet(LAMBDA c : Weight[c], {c \in Requirements : Classify(pieces[c]) = bucket}), 10)
BucketPercents ==
    LET w == [i \in 1 .. 3 |-> WeightOf(Buckets[i])]
        sum == w[1] + w[2] + w[3]
        floor == [i \in 1 .. 3 |-> (100 * w[i]) \div sum]
        frac == [i \in 1 .. 3 |-> (100 * w[i]) % sum]
        before(i) == Cardinality({j \in 1 .. 3 : frac[j] > frac[i] \/ (frac[j] = frac[i] /\ j < i)})
        left == 100 - (floor[1] + floor[2] + floor[3])
    IN  IF sum = 0 THEN [i \in 1 .. 3 |-> 0] ELSE [i \in 1 .. 3 |-> floor[i] + IF before(i) < left THEN 1 ELSE 0]

-----------------------------------------------------------------------------
(* The integrity risk, in hundredths of a point.                             *)

EventTypes ==
    [multi_face |-> [tier |-> 100, weight |-> 25, cap |-> 75], second_speaker |-> [tier |-> 100, weight |-> 30, cap |-> 60],
     device_busy |-> [tier |-> 55, weight |-> 10, cap |-> 30], face_absent |-> [tier |-> 55, weight |-> 10, cap |-> 40],
     tab_switch |-> [tier |-> 55, weight |-> 8, cap |-> 40], gaze_away |-> [tier |-> 25, weight |-> 2, cap |-> 24],
     bandwidth_anomaly |-> [tier |-> 25, weight |-> 1, cap |-> 4], detector_uncertain |-> [tier |-> 25, weight |-> 0, cap |-> 0]]
NonScoring == {"detector_uncertain", "vision_unavailable"}
BrowserTier == {"tab_switch", "window_blur", "fullscreen_exit", "context_menu"}
Families == {"device_busy", "multi_display_detected", "bandwidth_anomaly", "gaze_away", "multi_face"}

CorrelationBonus == LET n == Cardinality({e \in Families \cap Events : counts[e] > 0})
                    IN  CASE n < 2 -> 0 [] n = 2 -> 1000 [] OTHER -> 1800
Points == [e \in Events |-> LET d == EventTypes[e] IN (IF counts[e] * d.weight > d.cap THEN d.cap ELSE counts[e] * d.weight) * d.tier]
HasCorroboratingSignal == \E e \in Events \ (NonScoring \cup BrowserTier) : counts[e] > 0
BandFor(score) == IF score >= 50 THEN "high" ELSE IF score >= 20 THEN "medium" ELSE "low"
RawRisk == MapThenSumSet(LAMBDA e : Points[e], Events \ NonScoring) + CorrelationBonus
RiskScore == IF RawRisk > 10000 THEN 100 ELSE HalfUp(RawRisk, 100)
RiskBand == IF HasCorroboratingSignal THEN BandFor(RiskScore) ELSE "low"

(* buildProctoringSummary: while the identity is unknown the headline is held
   under "high", and read off the score.                                     *)
DisplayBand(identityUnknown) == IF identityUnknown THEN BandFor(IF RiskScore > 49 THEN 49 ELSE RiskScore) ELSE RiskBand

-----------------------------------------------------------------------------
(* The stars of an axis, in half stars.                                      *)

(* verifyObservations: a sign that is there counts with its quote found in the
   transcript, one that is not needs none; the others are dropped.           *)
Readings == {"unobserved", "absent", "quoted", "unquoted"}
Present(o) == {n \in DOMAIN Indicators : o[n] \in {"absent", "quoted"}}
ScoreAxis(o) ==
    LET total(S) == MapThenSumSet(LAMBDA n : Indicators[n], S)
        positive == {n \in Present(o) : Indicators[n] > 0}
        adverse == {n \in Present(o) : Indicators[n] < 0 /\ o[n] = "quoted"}
        earned == 100 * total({n \in positive : o[n] = "quoted"}) + total(adverse) * total(positive)
    IN  IF 2 * Cardinality(Present(o)) < Cardinality(DOMAIN Indicators) \/ positive = {} THEN -1
        ELSE IF earned <= 0 THEN 0 ELSE HalfUp(earned, 10 * total(positive))

(* analyzeTimeline: the periods by their start, merged as they come.          *)
Dated == {i \in DOMAIN periods : periods[i][2] >= periods[i][1]}
Latest(S) == CHOOSE i \in S : \A j \in S : periods[j][1] < periods[i][1] \/ (periods[j][1] = periods[i][1] /\ j <= i)
MergePeriod(p, acc) ==
    LET from == IF p[1] > acc.coveredTo THEN p[1] ELSE acc.coveredTo
    IN  [months |-> IF p[2] > from THEN acc.months + p[2] - from ELSE acc.months,
         coveredTo |-> IF p[2] > acc.coveredTo THEN p[2] ELSE acc.coveredTo]
TotalMonths == MapThenFoldSet(MergePeriod, [months |-> 0, coveredTo |-> -1], LAMBDA i : periods[i], Latest, Dated).months

-----------------------------------------------------------------------------
(* buildInterviewReport reads it all; what it reads grows.                    *)

Init ==
    /\ leg \in Legs
    /\ turns = <<>> /\ periods = <<>>
    /\ pieces = [c \in Requirements |-> NoPieces]
    /\ counts = [e \in Events |-> 0]
    /\ seen = [n \in DOMAIN Indicators |-> "unobserved"]

Turn(t) ==
    /\ leg = "interview" /\ Len(turns) < MaxTurns
    /\ turns' = Append(turns, Turns[t])
    /\ UNCHANGED <<leg, pieces, counts, seen, periods>>
Tested == MapThenSumSet(LAMBDA c : pieces[c].correct + pieces[c].wrong + pieces[c].verified + pieces[c].contradicted
                                     + pieces[c].inconclusive + pieces[c].asked + IF pieces[c].anchor THEN 1 ELSE 0, Requirements)
Piece(c, what) ==
    /\ leg = "coverage" /\ Tested < MaxPieces
    /\ pieces' = [pieces EXCEPT ![c][what] = @ + 1]
    /\ UNCHANGED <<leg, turns, counts, seen, periods>>
Anchor(c) ==
    /\ leg = "coverage" /\ Tested < MaxPieces
    /\ pieces' = [pieces EXCEPT ![c].anchor = TRUE]
    /\ UNCHANGED <<leg, turns, counts, seen, periods>>
Event(e) ==
    /\ leg = "integrity" /\ counts[e] < MaxEvents
    /\ counts' = [counts EXCEPT ![e] = @ + 1]
    /\ UNCHANGED <<leg, turns, pieces, seen, periods>>
Observe(n, reading) ==
    /\ leg = "insight" /\ seen[n] = "unobserved"
    /\ seen' = [seen EXCEPT ![n] = reading]
    /\ UNCHANGED <<leg, turns, pieces, counts, periods>>
Role(start, end) ==
    /\ leg = "timeline" /\ Len(periods) < MaxPeriods
    /\ periods' = Append(periods, <<start, end>>)
    /\ UNCHANGED <<leg, turns, pieces, counts, seen>>

Next ==
    \/ \E t \in DOMAIN Turns : Turn(t)
    \/ \E c \in Requirements : Anchor(c) \/ \E what \in DOMAIN NoPieces \ {"anchor"} : Piece(c, what)
    \/ \E e \in Events : Event(e)
    \/ \E n \in DOMAIN Indicators, reading \in Readings : Observe(n, reading)
    \/ \E start, end \in Months : Role(start, end)

Spec == Init /\ [][Next]_vars

TypeOK ==
    /\ turns \in Seq({Turns[t] : t \in DOMAIN Turns}) /\ seen \in [DOMAIN Indicators -> Readings]
    /\ \A c \in Requirements : Classify(pieces[c]) \in ToSet(Buckets)
    /\ RiskScore \in 0 .. 100 /\ ScoreAxis(seen) \in -1 .. 10

-----------------------------------------------------------------------------
(* What the interview could not hear, what ended it without the candidate's
   answers, how often a question was asked again and which ones were declined
   are never a failure of the candidate's: the rejected answered, were heard
   and ran the course, and would be rejected without their repeats and their
   declined questions too.  The report never advises what its verdict does not
   say, decides nothing on a heuristic's score nor where a person has to look,
   and shows no integrity band for a session that failed on our side.         *)
NobodyFailsForAFault ==
    leg = "interview" => \A ending \in Endings, evaluation \in Evaluations(turns) :
        LET verdict(ts) == ComputeVerdict(ts, ending, evaluation.by = "ai", evaluation.overall)
            calm == [i \in DOMAIN turns |-> [turns[i] EXCEPT !.flags = @ \ {"asked_to_repeat"}]]
            taken == {i \in DOMAIN turns : ~turns[i].declined}
            heard == Flagged(turns, {"connection_dropped"}) = 0 /\ 5 * Flagged(turns, Unheard) <= 2 * Len(turns)
        IN  /\ verdict(turns) = verdict(calm)
            /\ verdict(turns) = "CLEAR_REJECT" => ending = "completed" /\ (turns = <<>> \/ taken # {}) /\ heard
            /\ Flagged(turns, Unheard) = 0 /\ taken # {} => \A i \in DOMAIN turns \ taken : verdict(turns) = verdict(RemoveAt(turns, i))
            /\ \A short, reviewReason \in BOOLEAN :
                 LET served == ReviewReport(InterviewReport(turns, ending, evaluation, short), ending, reviewReason)
                 IN  /\ served.action = "Reject" => /\ served.verdict = "CLEAR_REJECT" /\ served.chip \in {"CLEAR_REJECT", "WITHHELD"}
                                                   /\ heard /\ ending = "completed" /\ ~reviewReason
                     /\ served.action = "Advance" => served.verdict = "ADVANCE" /\ served.chip = "ADVANCE" /\ evaluation.by = "ai"
                     /\ ~heard \/ ending = "halted" => served.bandWithheld

(* The shares of the three buckets add up to 100 and none is a point away from
   the weight it stands for; what no verdict or anchor touched is untested, with
   its cause; what the interview weakened fails, unless the resume had it
   verified (WeakerIsNotProven below); a slice of the test too thin to say so
   fails nobody, and a proven requirement whose items failed was verified by a
   person's answer.                                                          *)
SharesAddUp ==
    leg = "coverage" =>
        LET sum == WeightOf("proven") + WeightOf("failed") + WeightOf("insufficient")
        IN  /\ BucketPercents[1] + BucketPercents[2] + BucketPercents[3] = 100
            /\ \A i \in 1 .. 3 : (BucketPercents[i] * sum - 100 * WeightOf(Buckets[i])) \in (1 - sum) .. (sum - 1)
            /\ \A c \in Requirements, claimed, unheard \in BOOLEAN :
                 LET row == Row(c, claimed, unheard)
                 IN  /\ row.untestedCause \in {"no_probe_slot", "resume_silent"} => row.movement = "undemonstrated"
                     /\ row.movement = "weaker" /\ row.resume # "verified" => row.bucket = "failed"
                     /\ row.underpowered => row.bucket # "failed"
                     /\ row.bucket = "proven" /\ row.assessment = "contradicted" => pieces[c].verified > 0 /\ row.interview # "contradicted"

(* The months of experience are those some dated role covers.                *)
MonthsAreWorked ==
    leg = "timeline" => TotalMonths = Cardinality({m \in Months : \E i \in Dated : periods[i][1] <= m /\ m < periods[i][2]})

(* One more piece never tells against the candidate by accident: a good answer or
   verdict never fails a requirement, unless it is the item with which the count
   begins to tell, and one wrong item never fails a proven one;
   one answer moves the questions' difficulty by one rung at most, and only when
   the answer before it, of those that count, was as good or as bad; an event
   never lowers the risk, one that does not score leaves it, and the browser's
   own events never raise the band; a sign that is quoted only raises the
   stars, an adverse one only lowers them.                                   *)
OnePieceAtATime ==
    /\ \A c \in Requirements : pieces'[c] # pieces[c] =>
         /\ pieces'[c].wrong = pieces[c].wrong /\ pieces'[c].contradicted = pieces[c].contradicted /\ pieces[c].correct + pieces[c].wrong # 3 =>
               (Classify(pieces'[c]) = "failed" => Classify(pieces[c]) = "failed")
         /\ pieces'[c].wrong > pieces[c].wrong /\ Classify(pieces[c]) = "proven" => Classify(pieces'[c]) # "failed"
    /\ LET n == Len(turns')
           moved == ComputeRung(turns') - ComputeRung(turns)
           Pushed(i) == CountsToRung(turns'[i]) /\ DirectionOf(turns'[i].score) = moved
       IN  moved # 0 => /\ moved \in {-1, 1} /\ n > 0 /\ Pushed(n)
                        /\ \E i \in 1 .. n - 1 : Pushed(i) /\ \A j \in i + 1 .. n - 1 : ~CountsToRung(turns'[j])
    /\ RiskScore' >= RiskScore
    /\ (\A e \in Events \ NonScoring : counts'[e] = counts[e]) => RiskScore' = RiskScore
    /\ (\A e \in Events \ BrowserTier : counts'[e] = 0) => RiskBand' = "low"
    /\ \A n \in DOMAIN Indicators : seen[n] # seen'[n] /\ seen'[n] = "quoted" /\ ScoreAxis(seen) >= 0 =>
         IF Indicators[n] > 0 THEN ScoreAxis(seen') >= ScoreAxis(seen) ELSE ScoreAxis(seen') <= ScoreAxis(seen)
ReportsAreFair == [](NobodyFailsForAFault /\ SharesAddUp /\ MonthsAreWorked) /\ [][OnePieceAtATime]_vars

(* The events only the browser reports never raise the band a recruiter is shown
   (proctoring.js: a session of these alone is "low"), and not knowing who was
   there never makes it worse than knowing.                                  *)
UnknownIsNoWorse == ~HasCorroboratingSignal => DisplayBand(TRUE) = "low"

(* A candidate who asked for a question twice and answered well is advanced
   (interviewReportEngine.js: the repeats "must not move a verdict either").  *)
RepeatsMoveNothing ==
    \A evaluation \in Evaluations(turns) :
        LET calm == [i \in DOMAIN turns |-> [turns[i] EXCEPT !.flags = @ \ {"asked_to_repeat"}]]
            served(ts) == ReviewReport(InterviewReport(ts, "completed", evaluation, FALSE), "completed", FALSE)
        IN  served(turns).verdict = served(calm).verdict

(* What the interview weakened is not counted as proven (interviewReportEngine.js:
   probes of one requirement "resolve to the worst outcome").  One probe that
   was verified is enough for the bucket, one left open moves the cell down.  *)
WeakerIsNotProven ==
    \A c \in Requirements, claimed, unheard \in BOOLEAN :
        LET row == Row(c, claimed, unheard) IN row.movement = "weaker" => row.bucket # "proven"

(* An interview that is going on is nobody's failure yet.                    *)
OpenInterviewsAreUndecided ==
    leg = "interview" => InterviewReport(turns, "in_progress", [by |-> "none", overall |-> -1], FALSE).action # "Reject"
=============================================================================
