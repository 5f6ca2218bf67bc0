------------------------------- MODULE Rubrics ------------------------------
(* How a rubric's numbers come about (utils/rubricEngine.js, the compile,
   update and approve of rubricService.js): a proposal by the model or, failing
   it, one from the posting's fields; the recruiter's edits of the draft; the
   approval.  Nobody outside the engine chooses a weight.  One rubric, weights
   in whole parts of Unit.                                                    *)
EXTENDS Integers, FiniteSets, FiniteSetsExt

CONSTANTS Labels,     \* criteria that may be written
          Skills,     \* those among them the posting requires as skills
          Unit,       \* what the weights of a rubric share out
          MaxMust,    \* MUST_HAVE_OVERLOAD, more than ten in the code
          MaxEdits    \* bound on the recruiter's edits

VARIABLES status,      \* of the rubric: none, draft, approved
          importance,  \* of each criterion it holds; "gate" a legacy disqualifier
          weight, thresholds, flags, edits

vars == <<status, importance, weight, thresholds, flags, edits>>

Tiers == {"critical", "important", "helpful", "bonus"}
Multiplier(tier) ==
    CASE tier = "critical" -> 8 [] tier = "important" -> 4 [] tier = "helpful" -> 2
      [] tier = "bonus" -> 1 [] OTHER -> 0
MustHave == {"critical", "important"}
FlagCodes == {"PROXY", "MODEL", "EDUCATION_REQUIREMENT", "NO_STRUCTURED_FIELDS", "FALLBACK_COMPILE", "MUST_HAVE_OVERLOAD"}

TypeOK ==
    /\ status \in {"none", "draft", "approved"} /\ edits \in 0 .. MaxEdits
    /\ \E held \in SUBSET Labels :
          /\ importance \in [held -> Tiers \cup {"gate"}]
          /\ DOMAIN weight = held /\ \A c \in held : weight[c] \in 0 .. Unit
    /\ thresholds.advance \in 0 .. 100 /\ thresholds.review \in 0 .. 100
    /\ flags \subseteq FlagCodes

Init ==
    /\ status = "none" /\ importance = [c \in {} |-> "bonus"] /\ weight = [c \in {} |-> 0]
    /\ thresholds = [advance |-> 0, review |-> 0] /\ flags = {} /\ edits = 0

-----------------------------------------------------------------------------
Scoreable(imp) == {c \in DOMAIN imp : imp[c] # "gate"}
SumOver(s, w) == MapThenSumSet(LAMBDA c : w[c], s)
Mass(w) == SumOver(DOMAIN w, w)

(* normaliseWeights: a gate weighs nothing, an all-zero rubric is shared
   equally, the rest in proportion, and what rounding leaves goes to the first
   of the heaviest, so that the sum is exact.                                *)
Share(scoreable, w, c) ==
    CASE c \notin scoreable -> 0
      [] c \in scoreable /\ SumOver(scoreable, w) = 0 -> Unit \div Cardinality(scoreable)
      [] c \in scoreable /\ SumOver(scoreable, w) # 0 -> (w[c] * Unit) \div SumOver(scoreable, w)
Proportion(imp, w) == [c \in DOMAIN imp |-> Share(Scoreable(imp), w, c)]
Heaviest(s, w) == CHOOSE c \in s : \A d \in s : w[c] >= w[d]
WithRemainder(imp, w) ==
    IF Scoreable(imp) = {} THEN w
    ELSE [w EXCEPT ![Heaviest(Scoreable(imp), w)] = @ + Unit - Mass(w)]
\* As if what rounding leaves were left over.
NormaliseShares(imp, w) == Proportion(imp, w)
NormaliseWeights(imp, w) == WithRemainder(imp, Proportion(imp, w))

(* applyImportance: the tier is the weight's only source.                    *)
ApplyImportance(imp) == [c \in DOMAIN imp |-> Multiplier(imp[c])]

(* detectQualityFlags, over the criteria and over the posting's words, and
   mergeFlags: one of each code.                                             *)
Overloaded(imp) == Cardinality({c \in DOMAIN imp : imp[c] \in MustHave}) > MaxMust
Structural(imp) == IF Overloaded(imp) THEN {"MUST_HAVE_OVERLOAD"} ELSE {}

(* sanitiseAiCriteria: a criterion without a label or a reason is dropped, an
   importance outside the four is read off the legacy kind and the proposed
   number (tierFromLegacyProposal), and no gate can be authored.             *)
LegacyTier(kind, number) ==
    IF kind = "nice_to_have" THEN IF number >= 50 THEN "helpful" ELSE "bonus"
    ELSE IF number >= 70 THEN "critical" ELSE "important"
Proposals ==
    {[complete |-> TRUE, importance |-> t, kind |-> "none", number |-> 0] : t \in Tiers}
    \cup {[complete |-> TRUE, importance |-> "none", kind |-> k, number |-> n] :
            k \in {"must_have", "nice_to_have", "disqualifier"}, n \in {49, 70}}
    \cup {[complete |-> FALSE, importance |-> "critical", kind |-> "none", number |-> 0]}
Kept(p) == p.complete /\ (p.importance \in Tiers \/ p.kind \in {"must_have", "nice_to_have"})
TierOf(p) == IF p.importance \in Tiers THEN p.importance ELSE LegacyTier(p.kind, p.number)
SanitiseAiCriteria(raw) == [c \in {d \in DOMAIN raw : Kept(raw[d])} |-> TierOf(raw[c])]

(* deterministicDraft: each required skill important, a minimum of years
   critical, an education helpful.                                           *)
DeterministicDraft(years, education) ==
    [c \in Skills \cup years \cup education |->
        IF c \in Skills THEN "important" ELSE IF c \in years THEN "critical" ELSE "helpful"]
FallbackFlags(years, education) ==
    {"FALLBACK_COMPILE"}
    \cup (IF education # {} THEN {"EDUCATION_REQUIREMENT"} ELSE {})
    \cup (IF Skills \cup years \cup education = {} THEN {"NO_STRUCTURED_FIELDS"} ELSE {})

(* verifyModelFlags: a flag of the model's stays only with a known code and words that
   stand in the posting.                                                *)
CitedFlags(cited) == IF cited THEN {"MODEL"} ELSE {}

Write(imp, found) ==
    /\ importance' = imp
    /\ weight' = NormaliseWeights(imp, ApplyImportance(imp))
    /\ flags' = found

-----------------------------------------------------------------------------
DefaultThresholds(ats) == [advance |-> ats, review |-> IF ats > 15 THEN ats - 15 ELSE 0]

CompileDraft(imp, found) ==
    /\ status = "none" /\ status' = "draft"
    /\ \E ats \in {0, 60}, proxy \in {{}, {"PROXY"}} :
          /\ thresholds' = DefaultThresholds(ats)
          /\ Write(imp, proxy \cup Structural(imp) \cup found)
    /\ UNCHANGED edits

(* compile: the model's criteria when any survives, else the posting's.      *)
ModelDrafts == UNION {{SanitiseAiCriteria(raw) : raw \in [named -> Proposals]} : named \in SUBSET Labels}
CompileByModel ==
    \E imp \in ModelDrafts, cited \in BOOLEAN : DOMAIN imp # {} /\ CompileDraft(imp, CitedFlags(cited))
CompileFallback ==
    \E years, education \in SUBSET (Labels \ Skills) :
        /\ years \cap education = {} /\ Cardinality(years) <= 1 /\ Cardinality(education) <= 1
        /\ CompileDraft(DeterministicDraft(years, education), FallbackFlags(years, education))

(* updateDraft: the recruiter relabels, retiers, adds and removes, a preset or
   numbers of their own for the thresholds.  A weight they send is not read; a
   criterion of kind disqualifier is carried as a gate, whether or not the draft
   had it.  Only the overload flag is worked out again.                      *)
Presets == {[advance |-> 50, review |-> 35], [advance |-> 80, review |-> 65]}
Clamp(n) == IF n < 0 THEN 0 ELSE IF n > 100 THEN 100 ELSE n
Explicit == {t \in [advance : {Clamp(n) : n \in {-5, 70, 120}}, review : {Clamp(n) : n \in {0, 70, 90}}] : t.review <= t.advance}

UpdateDraft ==
    /\ status = "draft" /\ edits < MaxEdits /\ edits' = edits + 1
    /\ \/ /\ \E imp \in UNION {[held -> Tiers \cup {"gate"}] : held \in SUBSET Labels} :
                Write(imp, (flags \ {"MUST_HAVE_OVERLOAD"}) \cup Structural(imp))
          /\ UNCHANGED thresholds
       \/ /\ thresholds' \in Presets \cup Explicit
          /\ UNCHANGED <<importance, weight, flags>>
    /\ UNCHANGED status

(* approve: not an empty one; its weights are normalised once more.          *)
Approve ==
    /\ status = "draft" /\ DOMAIN importance # {}
    /\ status' = "approved" /\ weight' = NormaliseWeights(importance, weight)
    /\ UNCHANGED <<importance, thresholds, flags, edits>>

Next == CompileByModel \/ CompileFallback \/ UpdateDraft \/ Approve

Spec == Init /\ [][Next]_vars

-----------------------------------------------------------------------------
(* What a candidate is measured by is what the recruiter said: the criteria that
   can be scored share out exactly the whole (so that a score of one rubric
   compares with another's), a gate weighs nothing, a heavier tier never weighs
   less than a lighter one, two of the same tier weigh the same but for the
   rounding, and the approval's second normalisation moves nothing.          *)
SharesAreExact == Scoreable(importance) # {} => Mass(weight) = Unit
GatesWeighNothing == \A c \in DOMAIN importance : importance[c] = "gate" => weight[c] = 0
LadderIsKept ==
    \A c, d \in Scoreable(importance) :
        /\ Multiplier(importance[c]) > Multiplier(importance[d]) => weight[c] > weight[d]
        /\ importance[c] = importance[d] => weight[c] - weight[d] \in -Cardinality(Labels) .. Cardinality(Labels)
BandsAreOrdered == thresholds.review <= thresholds.advance
OverloadIsTold == status # "none" => (Overloaded(importance) <=> "MUST_HAVE_OVERLOAD" \in flags)
WeightsAreTheLadder == SharesAreExact /\ GatesWeighNothing /\ LadderIsKept /\ BandsAreOrdered /\ OverloadIsTold

(* What updateDraft's comment says of the gates of before the tiers, "they can
   be deleted, never created": an edit gains none.                           *)
GatesOf(imp) == DOMAIN imp \ Scoreable(imp)
GatesAreNeverCreated == [][GatesOf(importance') \subseteq GatesOf(importance)]_vars
=============================================================================
