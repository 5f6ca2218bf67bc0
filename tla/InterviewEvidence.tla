--------------------------- MODULE InterviewEvidence ---------------------------
(* What the portal stores beside the answers of one interview: the recording's
   chunks and the file they are joined into (interviewRecordingService.js), the
   audio of an answer, the intents recognised in between, the integrity events
   and the second camera (interviewPortalController.js), the evidence clips
   (evidenceClipService.js).  Every request holds the copy of the session that
   middleware/candidateAuth.js read before it.                               *)
EXTENDS Integers, FiniteSets

CONSTANTS Requests, Seqs,
          MaxClips,   \* evidence clips of a session, 6 in the code
          MaxAnswers, MaxIntents, MaxSilences, MaxObjects,
          Lanes       \* the kinds of request: "answer", "recording", "intent", "audio", "clip", "consent", "phone"

VARIABLES session,  \* InterviewSession: aiInterview and proctoring as stored
          stored,   \* the objects of the storage: a number and the chunks it holds
          clips,    \* ProctoringEvidence
          req,      \* the requests on their way
          answered, \* the answers acknowledged to the candidate
          uploaded, \* the chunks acknowledged to the browser
          silences, \* the times the phone's camera fell silent
          made      \* the objects ever stored: no name is used twice

vars == <<session, stored, clips, req, answered, uploaded, silences, made>>

NotRecorded == [turns |-> {}, intents |-> 0, chunks |-> {}, status |-> "none", key |-> 0, audio |-> {}]
Unproctored == [consent |-> FALSE, lost |-> 0, flagged |-> FALSE, phone |-> "none"]
NoSession == [ai |-> NotRecorded, rev |-> 0, proctoring |-> Unproctored]
Idle == [step |-> "idle", copy |-> NoSession, seq |-> 0, key |-> 0, left |-> {}]

TypeOK ==
    /\ session.ai.status \in {"none", "recording", "partial", "failed", "completed"}
    /\ session.ai.turns \subseteq 1 .. MaxAnswers
    /\ session.proctoring.phone \in {"none", "fresh", "silent"}
    /\ \A o \in stored : o.id \in 1 .. MaxObjects /\ o.seqs \subseteq Seqs
    /\ uploaded \subseteq Seqs /\ answered \subseteq 1 .. MaxAnswers

Init ==
    /\ session = NoSession /\ stored = {} /\ clips = {}
    /\ req = [r \in Requests |-> Idle]
    /\ answered = {} /\ uploaded = {} /\ silences = 0 /\ made = 0

Put(seqs, id) == made < MaxObjects /\ made' = id /\ stored' = stored \cup {[id |-> id, seqs |-> seqs]}
Object(id) == {o \in stored : o.id = id}

(* requireCandidateAuth: the copy is read, then the handler begins; of the copy,
   what the handler goes on to use.                                          *)
Read(lane) ==
    CASE lane \in {"consent", "phone"} -> [NoSession EXCEPT !.proctoring = session.proctoring]
      [] lane \in {"recording", "intent"} -> [NoSession EXCEPT !.ai = session.ai]
      [] lane = "audio" -> [NoSession EXCEPT !.ai.turns = session.ai.turns, !.rev = session.rev]
      [] OTHER -> NoSession
Begin(r, lane, step) == lane \in Lanes /\ req[r].step = "idle" /\ req' = [req EXCEPT ![r] = [Idle EXCEPT !.step = step, !.copy = Read(lane)]]
At(r, step) == req[r].step = step
Goto(r, step) == req' = [req EXCEPT ![r].step = step]
End(r) == req' = [req EXCEPT ![r] = Idle]
Copy(r) == req[r].copy

-----------------------------------------------------------------------------
(* submitAnswer: its save adds the turn to the stored ones.                   *)
SubmitAnswer(r) ==
    /\ answered # 1 .. MaxAnswers /\ \A q \in Requests : ~At(q, "answer")
    /\ Begin(r, "answer", "answer") /\ UNCHANGED <<session, stored, clips, answered, uploaded, silences, made>>
SaveAnswer(r) ==
    /\ At(r, "answer")
    /\ LET n == Cardinality(answered) + 1
       IN  /\ session' = [session EXCEPT !.ai.turns = @ \cup {n}, !.rev = @ + 1]
           /\ answered' = answered \cup {n}
    /\ End(r) /\ UNCHANGED <<stored, clips, uploaded, silences, made>>

(* voiceIntent: after the classifier's answer the whole aiInterview is written
   back.                                                                     *)
VoiceIntent(r) ==
    /\ session.ai.intents < MaxIntents
    /\ Begin(r, "intent", "intent") /\ UNCHANGED <<session, stored, clips, answered, uploaded, silences, made>>
SaveIntent(r) ==
    /\ At(r, "intent")
    /\ session' = [session EXCEPT !.ai = [Copy(r).ai EXCEPT !.intents = @ + 1]]
    /\ End(r) /\ UNCHANGED <<stored, clips, answered, uploaded, silences, made>>

(* uploadAnswerAudio: the turns are written back as an array, which is refused
   if they changed since.                                                    *)
UploadAnswerAudio(r) ==
    /\ session.ai.turns # {} /\ session.ai.audio = {}
    /\ Begin(r, "audio", "audio") /\ UNCHANGED <<session, stored, clips, answered, uploaded, silences, made>>
SaveAnswerAudio(r) ==
    /\ At(r, "audio")
    /\ session' = IF session.rev = Copy(r).rev
                  THEN [session EXCEPT !.ai.turns = Copy(r).ai.turns, !.ai.audio = Copy(r).ai.turns, !.rev = @ + 1]
                  ELSE session
    /\ End(r) /\ UNCHANGED <<stored, clips, answered, uploaded, silences, made>>

-----------------------------------------------------------------------------
(* storeChunk: consent, the caps and the duplicates are looked up in the copy;
   an upload that fails leaves nothing.                                      *)
StoreChunk(r, n) ==
    /\ session.proctoring.consent
    /\ \A c \in session.ai.chunks : c.seq # n
    /\ "recording" \in Lanes /\ req[r].step = "idle"
    /\ req' = [req EXCEPT ![r] = [Idle EXCEPT !.step = "put", !.copy = Read("recording"), !.seq = n]]
    /\ UNCHANGED <<session, stored, clips, answered, uploaded, silences, made>>
PutChunk(r) ==
    /\ At(r, "put")
    /\ Put({req[r].seq}, made + 1) /\ req' = [req EXCEPT ![r].step = "chunk", ![r].key = made + 1]
    /\ UNCHANGED <<session, clips, answered, uploaded, silences>>
SaveChunk(r) ==
    /\ At(r, "chunk")
    /\ session' = [session EXCEPT !.ai = [Copy(r).ai EXCEPT !.chunks = @ \cup {[seq |-> req[r].seq, key |-> req[r].key]}, !.status = "recording"]]
    /\ uploaded' = uploaded \cup {req[r].seq}
    /\ End(r) /\ UNCHANGED <<stored, clips, answered, silences, made>>

(* finalize: the chunks are read and joined, the joined file stored, the parts
   deleted, and the session saved last.  A chunk that cannot be read, or chunks of
   a kind that cannot be joined, leave the recording partial.                *)
Finalize(r) ==
    /\ session.ai.status # "completed" /\ uploaded # {}
    /\ Begin(r, "recording", IF session.ai.chunks = {} THEN "failed" ELSE "read")
    /\ UNCHANGED <<session, stored, clips, answered, uploaded, silences, made>>
ChunksOf(r) == Copy(r).ai.chunks
ReadChunks(r) ==
    /\ At(r, "read")
    /\ \/ /\ \A c \in ChunksOf(r) : Object(c.key) # {}
          /\ Goto(r, "join")
       \/ Goto(r, "partial")
    /\ UNCHANGED <<session, stored, clips, answered, uploaded, silences, made>>
DeletedFirst(r, id) == made' = id /\ stored' = {o \in stored : \A c \in ChunksOf(r) : o.id # c.key}
Join(r, id) == Put({c.seq : c \in ChunksOf(r)}, id)
PutRecording(r) ==
    /\ At(r, "join")
    /\ \/ Join(r, made + 1) /\ req' = [req EXCEPT ![r].step = "delete", ![r].key = made + 1, ![r].left = ChunksOf(r)]
       \/ Goto(r, "partial") /\ UNCHANGED <<stored, made>>
    /\ UNCHANGED <<session, clips, answered, uploaded, silences>>
DeleteChunk(r) ==
    /\ At(r, "delete")
    /\ IF req[r].left = {} THEN Goto(r, "completed") /\ UNCHANGED stored
       ELSE \E c \in req[r].left :
            /\ stored' \in {stored, stored \ Object(c.key)}
            /\ req' = [req EXCEPT ![r].left = @ \ {c}]
    /\ UNCHANGED <<session, clips, answered, uploaded, silences, made>>
SaveRecording(r) ==
    /\ req[r].step \in {"failed", "partial", "completed"}
    /\ session' = [session EXCEPT !.ai = IF At(r, "completed") THEN [Copy(r).ai EXCEPT !.chunks = {}, !.key = req[r].key, !.status = "completed"]
                                                              ELSE [Copy(r).ai EXCEPT !.status = req[r].step]]
    /\ End(r) /\ UNCHANGED <<stored, clips, answered, uploaded, silences, made>>

(* playbackDetails.                                                          *)
CanPlay == session.ai.status = "completed" /\ Object(session.ai.key) # {}

-----------------------------------------------------------------------------
(* storeClip: the cap is counted, the clip stored, the row created; clips come
   from the laptop and from the phone.                                       *)
StoreClip(r) == Cardinality(clips) < MaxClips /\ Begin(r, "clip", "clip") /\ UNCHANGED <<session, stored, clips, answered, uploaded, silences, made>>
CreateClip(r) == At(r, "clip") /\ clips' = clips \cup {Cardinality(clips) + 1} /\ End(r) /\ UNCHANGED <<session, stored, answered, uploaded, silences, made>>
PurgeForCandidate == clips # {} /\ clips' = {} /\ UNCHANGED <<session, stored, req, answered, uploaded, silences, made>>

-----------------------------------------------------------------------------
(* The integrity events and the phone; the whole of proctoring is written back. *)
Proctor(r, lane, step) == Begin(r, lane, step) /\ UNCHANGED <<session, stored, clips, answered, uploaded, silences, made>>
SaveProctoring(r, p) == session' = [session EXCEPT !.proctoring = p] /\ End(r) /\ UNCHANGED <<stored, clips, answered, uploaded, silences, made>>

ProctoringConsent(r) == Proctor(r, "consent", "consent")
SaveConsent(r) == At(r, "consent") /\ \E given \in BOOLEAN : SaveProctoring(r, [Copy(r).proctoring EXCEPT !.consent = given])

PhoneLogin(r) == Proctor(r, "phone", "login")
PhoneHeartbeat(r) == session.proctoring.phone # "none" /\ Proctor(r, "phone", "beat")
SaveBeat(r) == req[r].step \in {"login", "beat"} /\ SaveProctoring(r, [Copy(r).proctoring EXCEPT !.phone = "fresh", !.flagged = FALSE])

(* No heartbeat for the time-out.                                            *)
FallSilent ==
    /\ session.proctoring.phone = "fresh" /\ silences < MaxSilences
    /\ session' = [session EXCEPT !.proctoring.phone = "silent"] /\ silences' = silences + 1
    /\ UNCHANGED <<stored, clips, req, answered, uploaded, made>>

(* ingestProctoringEvents: a flush of the laptop looks at the phone too.      *)
FlaggedNever(p) == [p EXCEPT !.lost = @ + 1]
Flagged(p) == [p EXCEPT !.lost = @ + 1, !.flagged = TRUE]
ProctoringEvents(r) == Proctor(r, "phone", "events")
IngestEvents(r) ==
    /\ At(r, "events")
    /\ LET p == Copy(r).proctoring
       IN  SaveProctoring(r, IF p.phone = "silent" /\ ~p.flagged THEN Flagged(p) ELSE p)

Crash(r) == req[r].step # "idle" /\ End(r) /\ UNCHANGED <<session, stored, clips, answered, uploaded, silences, made>>

-----------------------------------------------------------------------------
Next ==
    \/ \E r \in Requests :
        \/ SubmitAnswer(r) \/ SaveAnswer(r) \/ VoiceIntent(r) \/ SaveIntent(r) \/ UploadAnswerAudio(r) \/ SaveAnswerAudio(r)
        \/ \E n \in Seqs : StoreChunk(r, n)
        \/ PutChunk(r) \/ SaveChunk(r)
        \/ Finalize(r) \/ ReadChunks(r) \/ PutRecording(r) \/ DeleteChunk(r) \/ SaveRecording(r)
        \/ StoreClip(r) \/ CreateClip(r)
        \/ ProctoringConsent(r) \/ SaveConsent(r) \/ PhoneLogin(r) \/ PhoneHeartbeat(r) \/ SaveBeat(r)
        \/ ProctoringEvents(r) \/ IngestEvents(r) \/ Crash(r)
    \/ PurgeForCandidate \/ FallSilent

Spec == Init /\ [][Next]_vars

-----------------------------------------------------------------------------
(* Whatever requests overlap and wherever the server stops, the footage of every
   chunk it acknowledged is in the storage, alone or joined.                 *)
FootageSurvives == \A n \in uploaded : \E o \in stored : n \in o.seqs

(* However many flushes see the phone silent, a silence is counted once.      *)
SilenceCountedOnce == session.proctoring.lost <= silences

EvidenceHolds == FootageSurvives /\ SilenceCountedOnce

(* A recording loses a stretch of itself at worst, "not the interview".       *)
AnswersSurvive == answered \subseteq session.ai.turns
=============================================================================
