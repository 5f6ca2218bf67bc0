----------------------------- MODULE Scorecards -----------------------------
(* The scorecards of the human rounds (scorecardService.js with
   utils/scorecardEngine.js, scorecardAuth.js and the two controllers): the
   invitation and its link, the portal session, the submission with its rollup
   and alerts, the ledger's reading of them.  One candidate; requests about one
   card are taken one at a time, two recruiters' invitations race.  What the
   verdicts do to the claims is in Claims.                                    *)
EXTENDS Integers, Sequences, FiniteSets, FiniteSetsExt

CONSTANTS Rounds,      \* stage and interviewer, a card's natural key
          Criteria,    \* of the rubric's ratable criteria
          Weight,      \* [Criteria -> 1 .. 100]
          Ratings,     \* ratings that are given, among 1 .. 5
          Recruiters, Nobody,
          AlertPoints, \* SCORECARD_DISAGREEMENT_ALERT
          Validity,    \* ticks of SCORECARD_VALIDITY_HOURS
          MaxCards, MaxTime, MaxLinks

VARIABLES now,
          engine,   \* the engine's score of the candidate, -1 for none
          cards,    \* RoundScorecard documents, by creation
          links,    \* number of links minted
          portal,   \* portal JWTs: [card, until]
          invite,   \* what each recruiter's createScorecard has looked at
          alerts    \* notifyAdmin calls about a card

vars == <<now, engine, cards, links, portal, invite, alerts>>

Unscored == -1
NotAssessed == 0
Ids == 1 .. MaxCards
Made == DOMAIN cards
Rows == [Criteria -> {NotAssessed} \cup Ratings]

(* A RoundScorecard.                                                         *)
Card == [round : Rounds, status : {"open", "submitted", "cancelled"}, link : 1 .. MaxLinks,
         expires : 0 .. MaxTime + Validity, snapshot : {Unscored} \cup 0 .. 100, rows : Rows,
         score : {Unscored} \cup 0 .. 100, decision : {"none", "advance", "hold", "decline"}]

TypeOK ==
    /\ now \in 0 .. MaxTime /\ engine \in {Unscored} \cup 0 .. 100 /\ links \in 0 .. MaxLinks
    /\ \E n \in 0 .. MaxCards : Made = 1 .. n
    /\ \A c \in Made : cards[c] \in Card
    /\ portal \subseteq Ids \X (0 .. MaxTime + Validity)
    /\ invite \in [Recruiters -> Rounds \cup {Nobody}]
    /\ alerts \subseteq Ids \X {"submitted", "disagreement"}

Init ==
    /\ now = 0 /\ engine = Unscored /\ cards = <<>> /\ links = 0
    /\ portal = {} /\ invite = [r \in Recruiters |-> Nobody] /\ alerts = {}

-----------------------------------------------------------------------------
(* computeRollup: the weight of what was assessed, and the weighted mean of the
   credit (rating - 1) / 4 over it, rounded half up; withheld below half of the
   rubric's weight.                                                          *)
Assessed(rows) == {c \in Criteria : rows[c] # NotAssessed}
SumOver(s, f) == MapThenSumSet(LAMBDA c : f[c], s)
Coverage(rows) == SumOver(Assessed(rows), Weight)
Credit(rows) == SumOver(Assessed(rows), [c \in Criteria |-> Weight[c] * (rows[c] - 1)])
MeanOver(rows, mass) == (2 * 100 * Credit(rows) + 4 * mass) \div (8 * mass)
Total == SumOver(Criteria, Weight)
\* As if what was not assessed were assessed at nothing.
ScoreOfAll(rows) == IF 2 * Coverage(rows) < Total THEN Unscored ELSE MeanOver(rows, Total)
Score(rows) == IF 2 * Coverage(rows) < Total \/ Assessed(rows) = {} THEN Unscored ELSE MeanOver(rows, Coverage(rows))

(* validateSubmission: a row for one of the rubric's criteria, once, either a
   whole rating of 1 to 5 with what was observed or "not assessed"; a decline
   states its reason.  A criterion without a row is not assessed.            *)
RowKinds == {"valid", "unknown", "twice", "both", "neither", "no_note"}
Valid(kind, decision, reason) == kind = "valid" /\ decision \in {"advance", "hold", "decline"} /\ (decision = "decline" => reason)

(* computeDisagreement, and the alerts that dispatchAlerts sends.            *)
Delta(human, snapshot) == human - snapshot
Disagrees(human, snapshot) ==
    /\ human # Unscored /\ snapshot # Unscored
    /\ Delta(human, snapshot) >= AlertPoints \/ Delta(human, snapshot) <= -AlertPoints
AlertsOf(c, human, snapshot) ==
    {<<c, "submitted">>} \cup (IF Disagrees(human, snapshot) THEN {<<c, "disagreement">>} ELSE {})

Expired(c) == now > cards[c].expires
OpenFor(round) == {c \in Made : cards[c].round = round /\ cards[c].status = "open"}

-----------------------------------------------------------------------------
(* The engine scores the candidate, again later: the card keeps the score it was
   opened beside (engineSnapshot).                                           *)
Assess == \E s \in {10, 90} : engine < s /\ engine' = s /\ UNCHANGED <<now, cards, links, portal, invite, alerts>>

(* createScorecard: a look for an open card of the round, then the create, which
   the partial unique index refuses a second open one.                       *)
Look(r) ==
    \E round \in Rounds :
        /\ invite[r] = Nobody /\ OpenFor(round) = {} /\ invite' = [invite EXCEPT ![r] = round]
        /\ UNCHANGED <<now, engine, cards, links, portal, alerts>>

\* As if the index were not unique.
IndexAllows(round) == Cardinality(Made) < MaxCards
IndexIsUnique(round) == IndexAllows(round) /\ OpenFor(round) = {}
Indexed(round) == IndexIsUnique(round)

Create(r) ==
    /\ invite[r] # Nobody /\ links < MaxLinks
    /\ IF Indexed(invite[r])
       THEN /\ cards' = Append(cards, [round |-> invite[r], status |-> "open", link |-> links + 1,
                                        expires |-> now + Validity, snapshot |-> engine,
                                        rows |-> [c \in Criteria |-> NotAssessed], score |-> Unscored, decision |-> "none"])
            /\ links' = links + 1
       ELSE UNCHANGED <<cards, links>>
    /\ invite' = [invite EXCEPT ![r] = Nobody]
    /\ UNCHANGED <<now, engine, portal, alerts>>

(* resendInvite: a new link and a new term, whatever was left of the old one. *)
Resend(c) ==
    /\ cards[c].status = "open" /\ links < MaxLinks /\ links' = links + 1
    /\ cards' = [cards EXCEPT ![c].link = links + 1, ![c].expires = now + Validity]
    /\ UNCHANGED <<now, engine, portal, invite, alerts>>

(* cancelScorecard: not a submitted one.                                     *)
Cancel(c) ==
    /\ cards[c].status # "submitted" /\ cards' = [cards EXCEPT ![c].status = "cancelled"]
    /\ UNCHANGED <<now, engine, links, portal, invite, alerts>>

(* loginWithToken: the latest link of an open card in its term opens the portal
   until the card's term, as it stands now.                                  *)
Login(l) ==
    \E c \in Made :
        /\ cards[c].link = l /\ cards[c].status = "open" /\ ~Expired(c)
        /\ portal' = portal \cup {<<c, cards[c].expires>>}
        /\ UNCHANGED <<now, engine, cards, links, invite, alerts>>

(* requireScorecardAuth: a session in its own term, of an open card in its.  *)
Admitted(session) == now <= session[2] /\ cards[session[1]].status = "open" /\ ~Expired(session[1])

(* submitScorecard: refused whole on any invalid row, else the rows, the rollup,
   the decision and the status in one save, and the alerts after it.         *)
Submit(session) ==
    \E rows \in Rows, kind \in RowKinds, decision \in {"advance", "decline"}, reason \in BOOLEAN :
        /\ Admitted(session) /\ Valid(kind, decision, reason)
        /\ \E c \in {session[1]}, score \in {Score(rows)} :
              /\ cards' = [cards EXCEPT ![c].rows = rows, ![c].score = score, ![c].decision = decision, ![c].status = "submitted"]
              /\ alerts' = alerts \cup AlertsOf(c, score, cards[c].snapshot)
        /\ UNCHANGED <<now, engine, links, portal, invite>>

Tick == now < MaxTime /\ now' = now + 1 /\ UNCHANGED <<engine, cards, links, portal, invite, alerts>>

Next ==
    \/ Assess \/ Tick
    \/ \E r \in Recruiters : Look(r) \/ Create(r)
    \/ \E c \in Made : Resend(c) \/ Cancel(c)
    \/ \E l \in 1 .. links : Login(l)
    \/ \E session \in portal : Submit(session)

Spec == Init /\ [][Next]_vars

-----------------------------------------------------------------------------
(* The recruiter's reading of the rounds is fair: an interviewer has at most one
   open card of a round however the invitations race; a score stands only on at
   least half of the rubric's weight, and silence neither helps nor hurts - it
   lies between the best and the worst of what was rated, whatever was left out;
   of two cards that assessed the same, better ratings never score less; and a
   disagreement alert is sent exactly when both scores exist and lie that far
   apart, the engine's taken as the interview was opened.                    *)
OneOpenCard == \A c, d \in Made : c # d /\ cards[c].round = cards[d].round => ~(cards[c].status = "open" /\ cards[d].status = "open")
Submitted == {c \in Made : cards[c].status = "submitted"}
SilenceIsNeutral ==
    \A c \in Submitted :
        IF 2 * Coverage(cards[c].rows) < Total THEN cards[c].score = Unscored
        ELSE /\ \E x \in Assessed(cards[c].rows) : cards[c].score >= 25 * (cards[c].rows[x] - 1)
             /\ \E x \in Assessed(cards[c].rows) : cards[c].score <= 25 * (cards[c].rows[x] - 1)
BetterIsNoWorse ==
    \A c, d \in Submitted :
        /\ Assessed(cards[c].rows) = Assessed(cards[d].rows)
        /\ \A x \in Criteria : cards[c].rows[x] >= cards[d].rows[x]
        => cards[c].score >= cards[d].score
AlertsAreDue ==
    \A c \in Submitted : <<c, "disagreement">> \in alerts <=> Disagrees(cards[c].score, cards[c].snapshot)
CardsAreFair == OneOpenCard /\ SilenceIsNeutral /\ BetterIsNoWorse /\ AlertsAreDue
=============================================================================
