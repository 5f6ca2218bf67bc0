------------------------------ MODULE VoiceLoop ------------------------------
(* The realtime voice interview as the server sees it: the calls of the voice
   worker (services/voiceAgentService.js through voiceAgentController.js)
   against one interview session.  Every call works on a copy of the session it
   read when it arrived, and several may be in flight: the worker repeats a
   call whose answer it did not get.  What the interviewer asks next is
   InterviewTurns; here a turn is only a question, a nudge, a reply, an aside
   or the goodbye.                                                           *)
EXTENDS Integers, Sequences, SequencesExt

CONSTANTS Calls,         \* the calls that may be in flight
          Kinds,         \* what the candidate may be heard saying
          MaxQuestions,
          MaxRepeats,    \* times a question is given again, 3 in the code
          MaxCalls       \* bound on the submits of a run

VARIABLES doc,     \* the stored session: status, turns, endpointHold, __v, agentUtterances
          calls,   \* each call in flight
          worker   \* the question_id the worker echoes, 0 before the first; the calls it has made

vars == <<doc, calls, worker>>

(* What one submit carries: a finished or an unfinished answer, a few words, a
   decline, a request to repeat or to end, the claim of having answered,
   nothing, or only the words that say one is done.                          *)
Words == {"finished", "trailing", "few", "decline", "repeat", "end", "already", "nothing", "done"}
Idle == [step |-> "idle", fn |-> "none", qid |-> 0, words |-> "none", declined |-> FALSE, tries |-> 0, copy |-> <<>>]

(* A candidate's turn keeps the question its words were given for, and how many
   turns its call had read (history).  A question is an approved one or one of
   the interviewer's own.                                                    *)
Said(kind) == [role |-> "ai", kind |-> kind, to |-> 0, saw |-> 0]
Heard(d, kind, qid) == [role |-> "candidate", kind |-> kind, to |-> qid, saw |-> Len(d.turns)]
Questions == {"question", "own"}

(* openQuestionTurn and publicState's questionId: the place of the last thing
   the interviewer said, asides excepted.                                    *)
OpenTurn(turns) == SelectLastInSeq(turns, LAMBDA t : t.role = "ai" /\ t.kind # "side_reply")
QuestionId(d) == IF d.status = "in_progress" THEN OpenTurn(d.turns) ELSE 0
Asked(turns) == Cardinality({i \in DOMAIN turns : turns[i].kind \in Questions})

TypeOK ==
    /\ doc.status \in {"not_started", "in_progress", "completed", "ended_early"}
    /\ doc.hold \in 0 .. Len(doc.turns) /\ doc.v \in Nat
    /\ \A c \in Calls : calls[c].step \in {"idle", "sent", "read"} /\ calls[c].words \in Words \cup {"none"}
    /\ worker.qid \in 0 .. Len(doc.turns)

Init ==
    /\ doc = [status |-> "not_started", turns |-> <<>>, hold |-> 0, v |-> 0, asked |-> 0, repeat |-> FALSE]
    /\ calls = [c \in Calls |-> Idle]
    /\ worker = [qid |-> 0, made |-> 0]

-----------------------------------------------------------------------------
(* The handlers, on the copy d.  A result is the session they leave, what
   Mongoose does when it is saved ("none": nothing is saved, "set": fields,
   "push": the turns are appended to whatever is stored, "where": an element of
   an array is written too, which needs the version that was read), the turns
   that were pushed and whether the open question goes back with it.         *)
Refused == [status |-> "same", hold |-> 0, save |-> "none", pushed |-> <<>>, payload |-> FALSE]
Turned(r, status) == [r EXCEPT !.status = status]
Payload == [Refused EXCEPT !.payload = TRUE]
Result(d, save, pushed) == [status |-> "same", hold |-> d.hold, save |-> save, pushed |-> pushed, payload |-> save # "set"]

(* advance: an approved question is marked asked in its array, one of the
   interviewer's own and the goodbye are only pushed.  beginInterview replaces
   the array of approved questions, when the job has any.                    *)
Advance(d, reply) ==
    IF Asked(d.turns) < MaxQuestions
    THEN {Result(d, "where", reply \o <<Said("question")>>), Result(d, "push", reply \o <<Said("own")>>)}
    ELSE {Turned(Result(d, "push", reply \o <<Said("closing")>>), "completed")}

(* The engine's submitAnswer: a reply to a nudge joins the answer before it, a
   short answer is nudged once.                                              *)
Record(d, call) ==
    LET open == OpenTurn(d.turns)
        reply == <<Heard(d, "answer", call.qid)>>
    IN  IF open > 0 /\ d.turns[open].kind = "nudge" THEN {[r EXCEPT !.save = "where"] : r \in Advance(d, <<>>)}
        ELSE IF call.words = "few" /\ open > 0 /\ d.turns[open].kind \in Questions
        THEN {Result(d, "where", reply \o <<Said("nudge")>>)}
        ELSE Advance(d, reply)

ExpectsShortReply(d) == LET i == SelectLastInSeq(d.turns, LAMBDA t : t.role = "ai") IN i > 0 /\ d.turns[i].kind = "nudge"

(* The completeness gate holds an answer once per turn.                      *)
Unfinished(call) == call.words \in {"trailing", "few"} /\ ~call.declined
Hold(d) == [Result(d, "set", <<>>) EXCEPT !.hold = Len(d.turns)]
Released(d) == [d EXCEPT !.hold = 0]

\* As if an answer needed no question.
AnyId(d, call) == FALSE

(* The handshake: an id that is not the open question's is refused.          *)
OutOfDate(d, call) == call.qid # 0 /\ QuestionId(d) # 0 /\ call.qid # QuestionId(d)

Submitted(d, call) ==
    IF call.words = "nothing" /\ ~call.declined THEN {Refused}
    ELSE IF call.words \in {"nothing", "done"} THEN Advance(Released(d), <<Heard(d, "no_response", call.qid)>>)
    ELSE IF Unfinished(call) /\ ~ExpectsShortReply(d) /\ d.hold # Len(d.turns) THEN {Hold(d)}
    ELSE IF call.words = "repeat" THEN {Refused}
    ELSE IF call.words = "already" THEN {Result(Released(d), "push", <<Heard(d, "side_claim", call.qid), Said("side_reply")>>)}
    ELSE IF call.words = "decline" THEN Advance(Released(d), <<Heard(d, "declined", call.qid)>>)
    ELSE Record(Released(d), call)

(* submitAnswer; submitDialogueAct refuses one that is over.                 *)
SubmitAnswer(d, call) ==
    IF OutOfDate(d, call) THEN {Payload}
    ELSE IF call.words = "end" \/ d.status # "in_progress" THEN {Refused}
    ELSE Submitted(d, call)

(* getNextQuestion: the first call begins the interview; a question that was
   asked is given again when the candidate asked for it and not too often.   *)
GivenAgain(d) == d.status # "in_progress" \/ d.asked = 0 \/ (d.repeat /\ d.asked <= MaxRepeats)
GetNextQuestion(d) ==
    IF d.status = "not_started"
    THEN {Turned(Result(d, save, <<Said("intro"), Said("warmup")>>), "in_progress") : save \in {"where", "push"}}
    ELSE {IF GivenAgain(d) THEN Payload ELSE Refused}

(* endInterview with handleWithdraw.                                         *)
EndInterview(d, call) ==
    IF call.words = "end" /\ d.status = "in_progress"
    THEN Turned(Result(d, "push", <<Said("closing")>>), "ended_early")
    ELSE Refused

Dispatch(d, call) ==
    CASE call.fn = "get_next_question" -> GetNextQuestion(d)
      [] call.fn = "submit_answer" -> SubmitAnswer(d, call)
      [] call.fn = "end_interview" -> {EndInterview(d, call)}

-----------------------------------------------------------------------------
(* The calls.                                                                *)

Send(c, fn, words, declined) ==
    /\ calls[c].step = "idle"
    /\ worker.made < MaxCalls
    /\ worker' = [worker EXCEPT !.made = @ + 1]
    /\ calls' = [calls EXCEPT ![c] = [Idle EXCEPT !.step = "sent", !.fn = fn, !.qid = worker.qid,
                                                 !.words = words, !.declined = declined]]
    /\ UNCHANGED doc

(* requirePortal reads the session; realtimeFunction reads it again.         *)
Read(c) ==
    /\ calls[c].step = "sent"
    /\ calls' = [calls EXCEPT ![c].step = "read", ![c].copy = doc]
    /\ UNCHANGED <<doc, worker>>

(* What the save of r leaves stored.                                         *)
Saved(d, r) ==
    [d EXCEPT !.status = IF r.status = "same" THEN @ ELSE r.status,
              !.turns = @ \o r.pushed,
              !.hold = r.hold,
              !.v = IF r.save = "set" THEN @ ELSE @ + 1,
              !.asked = IF \E i \in DOMAIN r.pushed : r.pushed[i].kind \in Questions \cup {"warmup", "nudge"} THEN 0 ELSE @]

(* The result goes back with the id of the open question, or is lost.        *)
Return(c, r, d) ==
    /\ calls' = [calls EXCEPT ![c] = Idle]
    /\ \/ UNCHANGED worker
       \/ worker' = [worker EXCEPT !.qid = IF r.payload /\ QuestionId(d) # 0 THEN QuestionId(d) ELSE @]

Finish(c) ==
    /\ calls[c].step = "read"
    /\ \E r \in Dispatch(calls[c].copy, calls[c]) :
        IF r.save = "none" THEN Return(c, r, calls[c].copy) /\ UNCHANGED doc
        ELSE /\ r.save = "where" => doc.v = calls[c].copy.v
             /\ doc' = Saved(doc, r)
             /\ Return(c, r, Saved(calls[c].copy, r))

(* A VersionError: two more tries on a fresh copy, then an error.            *)
Conflict(c) ==
    /\ calls[c].step = "read"
    /\ \E r \in Dispatch(calls[c].copy, calls[c]) : r.save = "where" /\ doc.v # calls[c].copy.v
    /\ calls' = [calls EXCEPT ![c] = IF @.tries < 2 THEN [@ EXCEPT !.tries = calls[c].tries + 1, !.copy = doc] ELSE Idle]
    /\ UNCHANGED <<doc, worker>>

(* realtimeTranscript: what was said reaches the session beside the calls and
   without its version; the question as asked once more, or the candidate
   asking for it.                                                            *)
Transcript ==
    /\ doc.status = "in_progress"
    /\ \/ doc.asked <= MaxRepeats /\ doc' = [doc EXCEPT !.asked = @ + 1, !.repeat = FALSE]
       \/ "repeat" \in Kinds /\ ~doc.repeat /\ doc' = [doc EXCEPT !.repeat = TRUE]
    /\ UNCHANGED <<calls, worker>>

Next ==
    \/ \E c \in Calls : \/ Send(c, "get_next_question", "none", FALSE)
                        \/ \E words \in Kinds, declined \in BOOLEAN : Send(c, "submit_answer", words, declined)
                        \/ "end" \in Kinds /\ Send(c, "end_interview", "end", FALSE)
                        \/ Read(c) \/ Finish(c) \/ Conflict(c)
    \/ Transcript

Spec == Init /\ [][Next]_vars

-----------------------------------------------------------------------------
(* Whatever calls are repeated, late or overlapping, what the candidate said is
   recorded under the question it was said to, a nudge being about the question
   before it.  The exception is a call that is saved over turns it had not
   read, which takes a question that is saved without the version (one of the
   interviewer's own or the warm-up) between the answer's question and its next
   one (voiceAgentService.js:576, aiInterviewService's VersionError).        *)
Replies == {"answer", "declined", "no_response"}
Opening == Questions \cup {"warmup"}
QuestionAt(i) == SelectLastInSeq(SubSeq(doc.turns, 1, i), LAMBDA t : t.kind \in Opening)
Unseen(i) == doc.turns[i].saw < i - 1
Unchecked(i, to) == \E j \in to + 1 .. i + 1 : j \in DOMAIN doc.turns /\ doc.turns[j].kind \in {"own", "warmup"}
Given == {i \in DOMAIN doc.turns : doc.turns[i].kind \in Replies /\ doc.turns[i].to # 0}

AnswersStayWithTheirQuestion ==
    \A i \in Given : QuestionAt(i) = QuestionAt(doc.turns[i].to) \/ (Unseen(i) /\ Unchecked(i, doc.turns[i].to))

(* Without the exception, which is what the handshake is there for
   (the comment of voiceAgentService.submitAnswer).                          *)
AnswersNeverStray == \A i \in Given : QuestionAt(i) = QuestionAt(doc.turns[i].to)

=============================================================================
