--------------------------------- MODULE Claims ---------------------------------
(* The evidence behind one candidate's score: the claims read from a résumé
   (claimService.js), their match against the rubric (evidenceAtsService.js,
   evidenceScorer.js, qaGateService.js), the probes an interview asks about them
   (probeService.js), what an assessment, an interview and a human round find out
   about them, and the scores computed again from that.                      *)
EXTENDS Integers, Sequences, FiniteSets, FiniteSetsExt

CONSTANTS Criteria, Disqualifiers, Weight, Claim, Specificity,
          Statuses,              \* the matches looked at, "satisfied" or "partial"
          Advance, Review,        \* the rubric's thresholds, its criteria and the claims
          Mode,                   \* of the gate: "off", "monitor" or "enforce"
          Runs, Panel,            \* scorings of the résumé; interviewers with a scorecard
          MaxGraphs, MaxScores, MaxCrashes

VARIABLES graphs,  \* the claim graphs, in the order of their creation: a status for each claim, and a version
          scores,  \* the AtsAssessments, in the order of theirs
          probes,  \* the session's probes, on claims and on gaps
          cards,   \* the scorecards of the panel
          work,    \* what each scoring, verdict and submission has read
          crashes

vars == <<graphs, scores, probes, cards, work, crashes>>

Machines == {"assessment", "interview"}
Workers == Runs \cup Machines \cup Panel
Gap(c) == <<"gap", c>>
Targets == Claim \cup {Gap(c) : c \in Criteria}
NoProbe == [status |-> "none", verdict |-> "none", answer |-> "none"]
Idle == [step |-> "idle", graph |-> 0, version |-> 0, verdicts |-> <<>>]

-----------------------------------------------------------------------------
(* evidenceScorer.js, in hundredths; a point is 20000 units.                 *)

StatusValue(status) == CASE status = "satisfied" -> 2 [] status = "partial" -> 1 [] OTHER -> 0
SpecificityMult == [quantified |-> 100, specific |-> 85, vague |-> 60]
VerificationMult ==
    [unverified |-> 75, contradicted_internally |-> 50,
     verified_in_assessment |-> 95, contradicted_in_assessment |-> 0, verified_in_interview |-> 100,
     contradicted_in_interview |-> 0, verified_by_human |-> 100, contradicted_by_human |-> 0]
EvidenceMultiplier(k, claims) == SpecificityMult[Specificity[k]] * VerificationMult[claims[k]]
Best(support, claims) == CHOOSE m \in {EvidenceMultiplier(k, claims) : k \in support} :
                            \A k \in support : EvidenceMultiplier(k, claims) <= m

(* sanitiseFindings: a verdict no claim supports is absent.                  *)
Sanitised(finding) == IF finding.support = {} THEN [finding EXCEPT !.status = "absent"] ELSE finding

Points(findings, claims) ==
    [c \in Criteria |-> IF c \in Disqualifiers \/ findings[c].support = {} THEN 0
                        ELSE StatusValue(findings[c].status) * Best(findings[c].support, claims) * Weight[c]]
SumOver(s, f) == MapThenSumSet(LAMBDA c : f[c], s)
ScoreOf(findings, claims) == (SumOver(Criteria, Points(findings, claims)) + 10000) \div 20000

Disqualified(findings) == \E c \in Disqualifiers : findings[c].status = "satisfied"
Decided(findings, score) ==
    IF Disqualified(findings) THEN "fail"
    ELSE IF \E c \in Disqualifiers : findings[c].status = "partial" THEN "review"
    ELSE IF score >= Advance THEN "pass" ELSE IF score >= Review THEN "review" ELSE "fail"
WorthAsking(findings, claims) ==
    LET heavy == {c \in Criteria \ Disqualifiers : 10 * Weight[c] * Cardinality(Criteria \ Disqualifiers) >= 1200}
    IN  {k \in UNION {findings[c].support : c \in heavy} : claims[k] = "unverified" /\ Specificity[k] # "quantified"}
ComputeAssessment(findings, claims) ==
    [score |-> ScoreOf(findings, claims), decision |-> Decided(findings, ScoreOf(findings, claims)),
     disqualified |-> Disqualified(findings), targets |-> WorthAsking(findings, claims)]

(* runGate: enforced, the critic's refuted claims support nothing any more, and
   neither its doubts nor the solvers' decide alone: a person does.          *)
RunGate(findings, claims, refuted, doubtful) ==
    LET before == ComputeAssessment(findings, claims)
        left == [c \in Criteria |-> Sanitised([findings[c] EXCEPT !.support = @ \ refuted])]
        after == ComputeAssessment(left, claims)
        scored == IF refuted # {} /\ after.decision = "fail" /\ before.decision # "fail" THEN [after EXCEPT !.decision = "review"] ELSE after
        routed == doubtful /\ (scored.decision = "pass" \/ (scored.decision = "fail" /\ ~scored.disqualified))
    IN  IF Mode = "enforce"
        THEN [findings |-> left, result |-> IF routed THEN [scored EXCEPT !.decision = "review"] ELSE scored]
        ELSE [findings |-> findings, result |-> before]

Findings == [Criteria -> {Sanitised(f) : f \in [status : Statuses, support : SUBSET Claim]}]

-----------------------------------------------------------------------------
Latest(stages) == {n \in DOMAIN scores : scores[n].stage \in stages /\ \A j \in DOMAIN scores : scores[j].stage \in stages => j <= n}

Init ==
    /\ graphs = <<>> /\ scores = <<>>
    /\ probes = [t \in Targets |-> NoProbe]
    /\ cards = [p \in Panel |-> [status |-> "none", verdicts |-> <<>>]]
    /\ work = [w \in Workers |-> Idle] /\ crashes = 0

(* ClaimGraph and AtsAssessment, a document each.                            *)
ClaimGraph == [claims : [Claim -> DOMAIN VerificationMult], version : Nat]
AtsAssessment ==
    [stage : {"pre_interview", "post_interview", "post_assessment"}, graph : DOMAIN graphs, pre : 1 .. MaxScores,
     findings : Findings, claims : [Claim -> DOMAIN VerificationMult],
     result : [score : 0 .. 100, decision : {"pass", "review", "fail"}, disqualified : BOOLEAN, targets : SUBSET Claim]]

TypeOK ==
    /\ graphs \in Seq(ClaimGraph) /\ scores \in Seq(AtsAssessment)
    /\ \A t \in Targets : probes[t].status \in {"none", "pending", "asked", "assessed"}
    /\ \A p \in Panel : cards[p].status \in {"none", "open", "submitted", "cancelled"}

Step(w, from, to) == work[w].step = from /\ work' = [work EXCEPT ![w] = to]

(* extractForCandidate: the résumé's graph serves again, else the model is asked
   for the claims; what the dates contradict starts contradicted.            *)
Extract(r) ==
    /\ \/ graphs # <<>> /\ Step(r, "idle", [Idle EXCEPT !.step = "match", !.graph = Len(graphs)])
       \/ graphs = <<>> /\ Step(r, "idle", [Idle EXCEPT !.step = "extract"])
    /\ UNCHANGED <<graphs, scores, probes, cards, crashes>>
CreateGraph(r) ==
    /\ Len(graphs) < MaxGraphs
    /\ Step(r, "extract", [Idle EXCEPT !.step = "match", !.graph = Len(graphs) + 1])
    /\ \E claims \in [Claim -> {"unverified", "contradicted_internally"}] : graphs' = Append(graphs, [claims |-> claims, version |-> 0])
    /\ UNCHANGED <<scores, probes, cards, crashes>>
RunEvidenceAssessment(r) ==
    /\ Len(scores) < MaxScores
    /\ Step(r, "match", [Idle EXCEPT !.step = "done"])
    /\ \E findings \in Findings, refuted \in SUBSET Claim, doubtful \in BOOLEAN :
        LET gated == RunGate(findings, graphs[work[r].graph].claims, refuted, doubtful)
        IN  scores' = Append(scores, [stage |-> "pre_interview", graph |-> work[r].graph, pre |-> Len(scores) + 1,
                                      findings |-> gated.findings, claims |-> graphs[work[r].graph].claims, result |-> gated.result])
    /\ UNCHANGED <<graphs, probes, cards, crashes>>
(* Without an approved rubric, or when the engine fails, the keywords decide. *)
FallBack(r) == work[r].step \in {"extract", "match"} /\ Step(r, work[r].step, [Idle EXCEPT !.step = "done"])
               /\ UNCHANGED <<graphs, scores, probes, cards, crashes>>

-----------------------------------------------------------------------------
(* The interview.                                                            *)

(* generateProbesForSession: the claims that weigh most and nothing proves, and
   the requirements the résumé is silent on.                                 *)
GapsOf(s) == {Gap(c) : c \in {c \in Criteria \ Disqualifiers : s.findings[c].status = "absent"}}

(* sanitiseProbes: of the questions the model proposes, those on a claim it was
   asked about that say what would settle it, accuse of nothing and repeat no
   other one.                                                                *)
Proposals == [Targets -> {"none", "unfit", "fit"}]
SanitiseProbes(proposed, wanted) == {k \in wanted : proposed[k] = "fit"}
GenerateProbes ==
    /\ work["interview"].step = "idle" /\ \A t \in Targets : probes[t] = NoProbe
    /\ \E n \in Latest({"pre_interview"}), proposed \in Proposals :
        /\ scores[n].result.targets # {}
        /\ LET wanted == {k \in scores[n].result.targets : graphs[scores[n].graph].claims[k] # "verified_in_assessment"}
           IN  probes' = [t \in Targets |->
                 IF t \in GapsOf(scores[n]) \cup SanitiseProbes(proposed, wanted) THEN [NoProbe EXCEPT !.status = "pending"] ELSE NoProbe]
    /\ UNCHANGED <<graphs, scores, cards, work, crashes>>

Ask(t, answer) ==
    /\ work["interview"].step = "idle" /\ probes[t].status = "pending"
    /\ probes' = [probes EXCEPT ![t].status = "asked", ![t].answer = answer]
    /\ UNCHANGED <<graphs, scores, cards, work, crashes>>

(* sanitiseVerdicts: a gap is never contradicted, and a verdict that quotes what
   was not said is inconclusive.                                             *)
TrustVerdict(t, verdict, quoted) == verdict
SanitiseVerdict(t, verdict, quoted) ==
    IF (t \notin Claim /\ verdict = "contradicted") \/ ~quoted THEN "inconclusive" ELSE verdict

(* assessVerdicts, of the probes that were asked: one that was not reached stays
   pending.  A declined probe is inconclusive, and saved as such before the
   model is asked about the others.                                          *)
Declined(t) == probes[t].status = "asked" /\ probes[t].answer = "declined"
Asked == {t \in Targets : probes[t].status = "asked"}
AssessVerdicts ==
    /\ probes' = [t \in Targets |-> IF Declined(t) THEN [probes[t] EXCEPT !.status = "assessed", !.verdict = "inconclusive"] ELSE probes[t]]
    /\ \E from \in {"idle", "died"} :
        \/ Step("interview", from, [Idle EXCEPT !.step = "rescore"])   \* nothing to assess, or no model
        \/ /\ graphs # <<>> /\ Asked \ {t \in Targets : Declined(t)} # {}
           /\ Step("interview", from, [Idle EXCEPT !.step = "verdicts", !.graph = Len(graphs), !.version = graphs[Len(graphs)].version])
    /\ UNCHANGED <<graphs, scores, cards, crashes>>
SaveVerdicts ==
    /\ \E verdicts \in [Asked -> {"verified", "contradicted", "inconclusive"}], quoted \in BOOLEAN :
        LET final == [t \in Asked |-> SanitiseVerdict(t, verdicts[t], quoted)]
        IN  /\ Step("interview", "verdicts", [work["interview"] EXCEPT !.step = "graph", !.verdicts = final])
            /\ probes' = [t \in Targets |-> IF t \in Asked THEN [probes[t] EXCEPT !.status = "assessed", !.verdict = final[t]] ELSE probes[t]]
    /\ UNCHANGED <<graphs, scores, cards, crashes>>

(* The claims are saved as a whole, so a save of a graph that changed meanwhile
   is refused.                                                               *)
SaveGraph(w, claims, next) ==
    LET g == work[w].graph
    IN  /\ graphs' = IF claims # graphs[g].claims /\ graphs[g].version = work[w].version
                     THEN [graphs EXCEPT ![g] = [claims |-> claims, version |-> @.version + 1]] ELSE graphs
        /\ work' = [work EXCEPT ![w] = next]

Verdict(w, k) == IF k \in DOMAIN work[w].verdicts THEN work[w].verdicts[k] ELSE "inconclusive"
ApplyVerdictsToClaims ==
    /\ work["interview"].step = "graph"
    /\ SaveGraph("interview", [k \in Claim |-> CASE Verdict("interview", k) = "verified" -> "verified_in_interview"
                                                 [] Verdict("interview", k) = "contradicted" -> "contradicted_in_interview"
                                                 [] OTHER -> graphs[work["interview"].graph].claims[k]],
                 [Idle EXCEPT !.step = "rescore"])
    /\ UNCHANGED <<scores, probes, cards, crashes>>

(* rescoreAfterInterview, rescoreAfterAssessment: the findings of the screening
   against what is known of its claims now; the same state is scored once.   *)
Rescore(w, stage) ==
    /\ Step(w, "rescore", [Idle EXCEPT !.step = "done"])
    /\ \/ Latest({"pre_interview"}) = {} /\ UNCHANGED scores
       \/ \E n \in Latest({"pre_interview"}) :
            LET claims == graphs[scores[n].graph].claims
                same(j) == scores[j].pre = n /\ scores[j].claims = claims
            IN  IF \E j \in Latest({stage}) : same(j) THEN UNCHANGED scores
                ELSE /\ Len(scores) < MaxScores
                     /\ scores' = Append(scores, [scores[n] EXCEPT !.stage = stage, !.pre = n, !.claims = claims,
                                                                    !.result = ComputeAssessment(scores[n].findings, claims)])
    /\ UNCHANGED <<graphs, probes, cards, crashes>>
RescoreAfterInterview == Rescore("interview", "post_interview")
RescoreAfterAssessment == Rescore("assessment", "post_assessment")

(* getAssessment, buildClaimVerification: the score a recruiter opens beside the
   screening's and the interview's, and the difference between the two; 0 where
   there is none.                                                             *)
Explained ==
    LET last(stages) == IF Latest(stages) = {} THEN 0 ELSE Max(Latest(stages))
        pre == last({"pre_interview"})
        post == last({"post_interview"})
    IN  [shown |-> last({"pre_interview", "post_interview", "post_assessment"}), pre |-> pre, post |-> post,
         delta |-> IF pre = 0 \/ post = 0 THEN 0 ELSE scores[post].result.score - scores[pre].result.score]

(* The finalization dies, and runs again.                                    *)
Crash ==
    /\ crashes < MaxCrashes /\ work["interview"].step \notin {"idle", "died", "done"}
    /\ crashes' = crashes + 1 /\ work' = [work EXCEPT !["interview"] = [Idle EXCEPT !.step = "died"]]
    /\ UNCHANGED <<graphs, scores, probes, cards>>

-----------------------------------------------------------------------------
(* The assessment and the human rounds.                                      *)

(* claimVerdicts, and writeVerdictsToClaimGraph of assessmentService.js.     *)
ScoreAssessment ==
    /\ graphs # <<>>
    /\ \E verdicts \in [Claim -> {"verified", "contradicted", "inconclusive"}] :
         Step("assessment", "idle", [step |-> "graph", graph |-> Len(graphs), version |-> graphs[Len(graphs)].version, verdicts |-> verdicts])
    /\ UNCHANGED <<graphs, scores, probes, cards, crashes>>
WriteAssessmentVerdicts ==
    /\ work["assessment"].step = "graph"
    /\ LET claims == graphs[work["assessment"].graph].claims
           kept(k) == claims[k] \in {"verified_in_interview", "contradicted_in_interview"} \/ Verdict("assessment", k) = "inconclusive"
       IN  SaveGraph("assessment", [k \in Claim |-> IF kept(k) THEN claims[k]
                                                    ELSE IF Verdict("assessment", k) = "verified" THEN "verified_in_assessment" ELSE "contradicted_in_assessment"],
                     [Idle EXCEPT !.step = "rescore"])
    /\ UNCHANGED <<scores, probes, cards, crashes>>

CreateScorecard(p) ==
    /\ cards[p].status \in {"none", "cancelled"} /\ cards' = [cards EXCEPT ![p].status = "open"]
    /\ UNCHANGED <<graphs, scores, probes, work, crashes>>
CancelScorecard(p) ==
    /\ cards[p].status = "open" /\ work[p].step = "idle" /\ cards' = [cards EXCEPT ![p].status = "cancelled"]
    /\ UNCHANGED <<graphs, scores, probes, work, crashes>>

Rank(status) ==
    CASE status = "unverified" -> 0 [] status = "contradicted_internally" -> 1
      [] status \in {"verified_in_assessment", "contradicted_in_assessment"} -> 2
      [] status \in {"verified_in_interview", "contradicted_in_interview"} -> 3 [] OTHER -> 4
Outranks(existing, incoming) == Rank(incoming) > Rank(existing)

(* submitScorecard: the verdicts reach the claims before the card is saved; an
   inconclusive one writes nothing, and one that does not outrank what is known
   is a conflict for a person to settle.                                     *)
SubmitScorecard(p) ==
    /\ cards[p].status = "open" /\ graphs # <<>>
    /\ \E verdicts \in [Claim -> {"verified", "contradicted", "inconclusive"}] :
         Step(p, "idle", [step |-> "graph", graph |-> Len(graphs), version |-> graphs[Len(graphs)].version, verdicts |-> verdicts])
    /\ UNCHANGED <<graphs, scores, probes, cards, crashes>>
WriteScorecardVerdicts(p) ==
    /\ work[p].step = "graph"
    /\ LET claims == graphs[work[p].graph].claims
           incoming(k) == IF Verdict(p, k) = "verified" THEN "verified_by_human" ELSE "contradicted_by_human"
           refused == graphs[work[p].graph].version # work[p].version
           new == [k \in Claim |-> IF Verdict(p, k) # "inconclusive" /\ Outranks(claims[k], incoming(k)) THEN incoming(k) ELSE claims[k]]
       IN  SaveGraph(p, new, IF refused THEN Idle ELSE [work[p] EXCEPT !.step = "save"])
    /\ UNCHANGED <<scores, probes, cards, crashes>>
SaveScorecard(p) ==
    /\ Step(p, "save", Idle) /\ cards' = [cards EXCEPT ![p] = [status |-> "submitted", verdicts |-> work[p].verdicts]]
    /\ UNCHANGED <<graphs, scores, probes, crashes>>

-----------------------------------------------------------------------------
Next ==
    \/ \E r \in Runs : Extract(r) \/ CreateGraph(r) \/ RunEvidenceAssessment(r) \/ FallBack(r)
    \/ GenerateProbes \/ (\E t \in Targets, answer \in {"given", "declined"} : Ask(t, answer))
    \/ AssessVerdicts \/ SaveVerdicts \/ ApplyVerdictsToClaims \/ RescoreAfterInterview \/ Crash
    \/ ScoreAssessment \/ WriteAssessmentVerdicts \/ RescoreAfterAssessment
    \/ \E p \in Panel : \/ CreateScorecard(p) \/ CancelScorecard(p)
                        \/ SubmitScorecard(p) \/ WriteScorecardVerdicts(p) \/ SaveScorecard(p)

Spec == Init /\ [][Next]_vars

-----------------------------------------------------------------------------
(* A claim counts as settled by the interview only through an answer its own
   probe received: not a declined one, not a quote nobody said, and a gap the
   résumé never filled settles nothing.                                      *)
VerdictsAreEarned ==
    /\ \A t \in Targets : probes[t].verdict \in {"verified", "contradicted"} => probes[t].answer = "given" /\ (t \notin Claim => probes[t].verdict = "verified")
    /\ \A n \in DOMAIN graphs, k \in Claim :
        /\ graphs[n].claims[k] = "verified_in_interview" => probes[k].verdict = "verified"
        /\ graphs[n].claims[k] = "contradicted_in_interview" => probes[k].verdict = "contradicted"

(* What is verified never costs the candidate, what is contradicted never
   pays: a score computed again moves as its claims did.                     *)
Settled(status) == status \in {"verified_in_assessment", "verified_in_interview", "verified_by_human"}
Moved(n) == {k \in Claim : scores[n].claims[k] # scores[scores[n].pre].claims[k]}
EachScoreFollows ==
    \A n \in DOMAIN scores :
        LET pre == scores[scores[n].pre]
        IN  /\ (\A k \in Moved(n) : Settled(scores[n].claims[k]) /\ ~Settled(pre.claims[k])) => scores[n].result.score >= pre.result.score
            /\ (\A k \in Moved(n) : VerificationMult[scores[n].claims[k]] = 0) => scores[n].result.score <= pre.result.score
            /\ scores[n].result.disqualified => scores[n].result.decision = "fail"
ScoresFollowTheClaims == EachScoreFollows /\ (Explained.delta # 0 => Moved(Explained.post) # {})

(* What an interviewer submitted about a claim is never lost to another writer
   of the same claims: they bear a verdict, this one or one that outranked it. *)
SubmittedVerdictsCount ==
    \A p \in Panel : cards[p].status = "submitted" =>
        \E n \in DOMAIN graphs : \A k \in Claim :
            cards[p].verdicts[k] # "inconclusive" => Rank(graphs[n].claims[k]) >= 2

EvidenceIsEarned == VerdictsAreEarned /\ ScoresFollowTheClaims /\ SubmittedVerdictsCount

(* Human verdicts are never overwritten by machine ones.                     *)
HierarchyIsKept ==
    [][\A n \in DOMAIN graphs, k \in Claim : Rank(graphs'[n].claims[k]) >= Rank(graphs[n].claims[k])]_vars

(* The difference a recruiter is shown is "because the interview proved something"
   (candidateController.js, getAssessment).                                   *)
DeltaIsTheInterviews ==
    Explained.delta # 0 => \E t \in Targets : probes[t].verdict \in {"verified", "contradicted"}
=============================================================================
