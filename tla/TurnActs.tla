------------------------------ MODULE TurnActs ------------------------------
(* How what a candidate says in one turn is read: as an answer, or as something
   said to the interviewer.  The browser asks for a reading of every utterance
   (intentService over conversationIntent: fixed phrases first, then a model
   that may be wrong, unsure or away) and reports a decline itself
   (aiInterviewService.handleDecline); the realtime worker submits the turn as
   it has been transcribed (voiceAgentService.submitAnswer over dialogueActs,
   endpointing and turnComposition).  A sentence is a trigger phrase or none,
   a number of words that could be evidence and a number that could not.     *)
EXTENDS Integers, Sequences, SequencesExt, FiniteSets

CONSTANTS Sentences,     \* the sentences a candidate may say: [trig, evidence, plain, ends]
          MaxSentences,  \* bound on the sentences of one turn
          MaxTurns       \* bound on the turns that are recorded

VARIABLES path,     \* "browser" or "realtime": how this interview is held
          said,     \* the sentences of the open turn, as transcribed so far
          fresh,    \* how many of them make the last utterance
          asked,    \* what is open: a question, a warmup or a nudge
          held,     \* submits of this turn that were held as unfinished
          reading,  \* the last reading of an utterance
          turns,    \* the turns recorded: [kind, text]
          dropped   \* sentences that left the open turn and are in no record

vars == <<path, said, fresh, asked, held, reading, turns, dropped>>

-----------------------------------------------------------------------------
(* Sentences and their words.                                                *)

Triggers == {"withdraw", "decline", "pause", "already_answered", "repeat", "meta", "finished", "done"}
TrigWords == 4          \* the length a trigger phrase is given here
FillerMaxWords == 3     \* FILLER_MAX_WORDS
MaxResidualWords == 24  \* MAX_RESIDUAL_WORDS
MaxOther == [withdraw |-> 3, decline |-> 6, pause |-> 4]   \* ACTS' maxOtherWords

Has(s, act) == s.trig = act
Residual(s) == s.evidence + s.plain      \* the words stripTriggers leaves
CarriesEvidence(s) == s.evidence > 0
WordsOf(s) == Residual(s) + (IF s.trig \in Triggers THEN TrigWords ELSE 0)
SumOver(S, F) == MapThenSumSet(LAMBDA x : F[x], S)
Total(ss) == SumOver(DOMAIN ss, [i \in DOMAIN ss |-> WordsOf(ss[i])])
Beside(ss) == SumOver(DOMAIN ss, [i \in DOMAIN ss |-> Residual(ss[i])])   \* the words beside the phrases
Saying(ss, act) == {i \in DOMAIN ss : Has(ss[i], act)}

-----------------------------------------------------------------------------
(* turnComposition: the turn sentence by sentence.                           *)

ClassifySentence(s) ==
    CASE Has(s, "decline") /\ (~CarriesEvidence(s) \/ Residual(s) <= MaxOther.decline) -> "decline"
      [] Has(s, "already_answered") /\ ~CarriesEvidence(s) -> "already_answered"
      [] Has(s, "repeat") /\ Residual(s) <= 6 -> "repeat"
      [] Has(s, "meta") /\ ~CarriesEvidence(s) -> "meta"
      [] OTHER -> IF CarriesEvidence(s) THEN "content"
                  ELSE IF WordsOf(s) <= FillerMaxWords THEN "filler" ELSE "residual"

Speaks(ss, kind) == \E i \in DOMAIN ss : ClassifySentence(ss[i]) = kind

ActPriority == <<"decline", "already_answered", "repeat", "meta">>
FirstAct(ss) == SelectInSeq(ActPriority, LAMBDA a : Speaks(ss, a))

\* As if any act in a turn were the turn's.
ComposeLoosely(ss) ==
    [act |-> IF FirstAct(ss) > 0 THEN ActPriority[FirstAct(ss)] ELSE "none", isAnswer |-> Speaks(ss, "content")]

(* The first act anybody hears, unless the turn also holds an answer.        *)
Compose(ss) ==
    LET isAnswer == Speaks(ss, "content")
        residual == SelectSeq(ss, LAMBDA s : ClassifySentence(s) = "residual")
        honour == FirstAct(ss) > 0 /\ ~isAnswer /\ Total(residual) <= MaxResidualWords
    IN  [act |-> IF honour THEN ActPriority[FirstAct(ss)] ELSE "none", isAnswer |-> isAnswer]

-----------------------------------------------------------------------------
(* The fixed phrases over the turn as a whole.                               *)

(* dialogueActs.detect: only the first act with a phrase is looked at.       *)
Detect(ss) ==
    LET order == <<"withdraw", "decline", "pause">>
        hit == SelectInSeq(order, LAMBDA act : Saying(ss, act) # {})
    IN  IF hit > 0 /\ Total(ss) - TrigWords <= MaxOther[order[hit]] THEN order[hit] ELSE "none"

(* repeatIntent and alreadyAnsweredIntent carry a few words beside a phrase. *)
Carries(ss, act, max) ==
    Saying(ss, act) # {} /\ Total(ss) - TrigWords * Cardinality(Saying(ss, act)) <= max

(* finishIntent: twelve words before the phrase, two after it at most.       *)
Finishes(ss) ==
    \E i \in Saying(ss, "finished") :
        /\ \A j \in Saying(ss, "finished") : j <= i
        /\ Total(SubSeq(ss, 1, i)) - TrigWords >= 12
        /\ Total(SubSeq(ss, i + 1, Len(ss))) <= 2

(* splitTrailingWithdraw: how many sentences stand before a request to end,
   all of them when there is none; short words may follow the request.       *)
AsksToEnd(s) == Has(s, "withdraw") /\ Residual(s) <= MaxOther.withdraw
BeforeWithdraw(ss) ==
    LET last == SelectLastInSeq(ss, LAMBDA s : AsksToEnd(s) \/ WordsOf(s) > 3)
        other == SelectLastInSeq(SubSeq(ss, 1, last), LAMBDA s : ~AsksToEnd(s))
    IN  IF last > 0 /\ AsksToEnd(ss[last]) THEN other ELSE Len(ss)

-----------------------------------------------------------------------------
(* conversationIntent and intentService: the reading of an utterance.        *)

Precedence == <<"withdraw", "repeat", "clarify", "pause", "already_answered",
                "technical_problem", "decline", "finished">>
Actions == ToSet(Precedence) \cup {"answer_continues", "meta_question"}
ConsumesTurn(action) == action \notin {"answer_continues", "finished"}

Reading(action, tier) == [action |-> action, tier |-> tier, words |-> 0, before |-> 0]
Answering == Reading("answer_continues", 1)

DetectDeterministic(ss) ==
    LET Honoured(act) == \/ act = "repeat" /\ Carries(ss, "repeat", 6)
                         \/ act = "already_answered" /\ Carries(ss, "already_answered", 8)
                         \/ act = "finished" /\ Finishes(ss)
                         \/ act = Detect(ss)
        hit == SelectInSeq(Precedence, Honoured)
    IN  IF hit > 0 THEN {Reading(Precedence[hit], 0)} ELSE {}

\* As if what the model says were done.
GateTrusting(raw, words, answerWords) == IF raw.action \in Actions /\ raw.sure THEN Reading(raw.action, 1) ELSE Answering

(* gateSemantic: the model is only believed when it names an action it may
   take, is sure of it, and what was said can be about the interview.        *)
GateSemantic(raw, words, answerWords) ==
    IF /\ raw.action \in Actions
       /\ raw.sure
       /\ raw.action # "finished" => words <= 25
       /\ raw.action = "finished" => answerWords >= 12
    THEN Reading(raw.action, 1) ELSE Answering

(* classify: nothing is looked up for a word or for a long passage; a model
   that is switched off, late or broken reads an answer.                     *)
Classify(ss, before, raw) ==
    IF Total(ss) \notin 2 .. 45 \/ raw.action = "unavailable" THEN Answering
    ELSE GateSemantic(raw, Total(ss), before)

ResolveIntent(ss, before, raw) ==
    LET fast == DetectDeterministic(ss)
    IN  IF fast # {} THEN CHOOSE r \in fast : TRUE ELSE Classify(ss, before, raw)

(* What the model may return.                                                *)
Raws == [action : Actions \cup {"unavailable", "other"}, sure : BOOLEAN]

-----------------------------------------------------------------------------
(* The operations.                                                           *)

Open == {"question", "warmup", "nudge"}
TypeOK ==
    /\ path \in {"browser", "realtime"} /\ asked \in Open /\ held \in Nat
    /\ said \in Seq(Sentences) /\ fresh \in 0 .. Len(said) /\ dropped \subseteq Sentences
    /\ reading.action \in Actions /\ reading.tier \in {0, 1}
    /\ \A i \in DOMAIN turns : turns[i].kind \in {"answer", "declined", "already_answered", "no_response"}

Init ==
    /\ path \in {"browser", "realtime"}
    /\ said = <<>> /\ fresh = 0 /\ asked \in Open /\ held = 0
    /\ reading = Answering /\ turns = <<>> /\ dropped = {}

Utter(s) ==
    /\ Len(said) < MaxSentences /\ Len(turns) < MaxTurns
    /\ said' = Append(said, s)
    /\ fresh' = IF reading.words = 0 THEN fresh + 1 ELSE 1
    /\ reading' = Answering
    /\ UNCHANGED <<path, asked, held, turns, dropped>>

(* voiceIntent: nothing of the turn changes, only what the browser is told.  *)
Utterance == SubSeq(said, Len(said) - fresh + 1, Len(said))
VoiceIntent(raw) ==
    LET before == Total(SubSeq(said, 1, Len(said) - fresh))
    IN  /\ path = "browser" /\ said # <<>> /\ reading.words = 0
        /\ reading' = [ResolveIntent(Utterance, before, raw) EXCEPT !.words = Total(Utterance), !.before = before]
        /\ UNCHANGED <<path, said, fresh, asked, held, turns, dropped>>

(* The words that say one is done end the text of a turn (stripDoneMarker).  *)
Done(ss) == SelectInSeq(ss, LAMBDA s : Has(s, "done"))
Text(ss) == IF path = "realtime" /\ Done(ss) > 0 THEN SubSeq(ss, 1, Done(ss) - 1) ELSE ss

(* The turn is closed with the first n sentences kept in its record.         *)
Close(kind, n) ==
    /\ turns' = Append(turns, [kind |-> kind, text |-> SubSeq(said, 1, n)])
    /\ dropped' = dropped \cup {said[i] : i \in n + 1 .. Len(Text(said))}
    /\ said' = <<>> /\ fresh' = 0 /\ held' = 0 /\ reading' = Answering
    /\ asked' \in Open
    /\ UNCHANGED path

(* handleDecline: a decline somebody reported is only taken as one when the
   server reads one too and hears no answer in it.                           *)
DeclineOrAnswer(ss) ==
    LET c == Compose(ss)
    IN  IF (c.act = "decline" \/ Detect(ss) = "decline") /\ ~c.isAnswer /\ asked # "warmup" THEN "declined" ELSE "answer"

HandleDecline ==
    /\ path = "browser" /\ said # <<>> /\ Len(turns) < MaxTurns
    /\ Close(DeclineOrAnswer(said), Len(said))

(* The worker's submit.  A request to end is split off; a turn that sounds
   unfinished is held once; a request to repeat keeps the words buffered.    *)
Unfinished(ss) == Total(ss) < 8 \/ ss[Len(ss)].ends # "stop"

Holds(text, declined) ==
    /\ Done(said) = 0 /\ BeforeWithdraw(Text(said)) = Len(Text(said))
    /\ ~declined /\ Compose(text).act = "none" /\ asked # "nudge"
    /\ Unfinished(text) /\ held = 0

Kept(n, declined) ==
    LET text == SubSeq(said, 1, n)
        act == Compose(text).act
    IN  \/ act = "repeat" /\ held' = 0 /\ UNCHANGED <<path, said, fresh, asked, reading, turns, dropped>>
        \/ act = "already_answered" /\ Close("already_answered", n)
        \/ act = "decline" /\ Close(DeclineOrAnswer(text), n)
        \/ act \in {"meta", "none"} /\ declined /\ ~Compose(text).isAnswer /\ Close(DeclineOrAnswer(text), n)
        \/ act \in {"meta", "none"} /\ (~declined \/ Compose(text).isAnswer) /\ Close("answer", n)

SubmitAnswer(declined) ==
    LET n == BeforeWithdraw(Text(said))
        text == SubSeq(said, 1, n)
    IN  /\ path = "realtime" /\ said # <<>> /\ Len(turns) < MaxTurns
        /\ IF n = 0 /\ Text(said) # <<>> THEN UNCHANGED vars           \* only a request to end
           ELSE IF n = 0 THEN Close("no_response", 0)                  \* only the words that say one is done
           ELSE IF Holds(text, declined)
           THEN held' = 1 /\ UNCHANGED <<path, said, fresh, asked, reading, turns, dropped>>
           ELSE Kept(n, declined)

Next ==
    \/ \E s \in Sentences : Utter(s)
    \/ \E raw \in Raws : VoiceIntent(raw)
    \/ HandleDecline
    \/ \E declined \in BOOLEAN : SubmitAnswer(declined)

Spec == Init /\ [][Next]_vars

-----------------------------------------------------------------------------
(* A sentence that could be evidence, beside at most the few words a phrase
   may carry, stays an answer however the turn is read and whoever asked for it
   to be read otherwise: no turn recorded as a decline or as a claim of having
   answered holds one, and none but a few closing words is dropped with a
   request to end.                                                           *)
Substantial(s) == CarriesEvidence(s) /\ (s.trig = "none" \/ Residual(s) > MaxOther.decline)
AnswersAreKept ==
    /\ \A i \in DOMAIN turns : turns[i].kind # "answer" =>
           \A j \in DOMAIN turns[i].text : ~Substantial(turns[i].text[j])
    /\ \A s \in dropped : Substantial(s) => WordsOf(s) <= FillerMaxWords

(* Nothing ends an answer that has hardly begun or turns a long passage into
   something said to the interviewer: a phrase is honoured beside few words,
   however often it is said, and the model is believed of few.               *)
ReadingsAreBounded ==
    reading.words > 0 =>
        /\ ConsumesTurn(reading.action) => IF reading.tier = 0 THEN Beside(Utterance) <= 8 ELSE reading.words <= 25
        /\ reading.action = "finished" => reading.words + reading.before >= 12

(* Words that carry an answer are not read away (the comments of
   conversationIntent.gateSemantic and aiInterviewService.handleDecline).    *)
WordsAreHeard == AnswersAreKept /\ ReadingsAreBounded
=============================================================================
