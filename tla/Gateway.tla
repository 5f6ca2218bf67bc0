--------------------------------- MODULE Gateway ---------------------------------
(* The way every AI call takes to the provider (llmService.js): the tenant's
   budget, the cache, the credit latch and the circuit breaker in front of it,
   its retries, the vote of an ensemble, and the metering and the operator alert
   its callers do with what comes back.  The latch and the breaker are the
   process's own, shared by all calls; the provider may be down, and may be out
   of credit for a while.                                                      *)
EXTENDS Integers, Sequences, FiniteSets, FiniteSetsExt

CONSTANTS Calls,        \* the samples asked for, in an order (the votes')
          Ensemble,     \* call -> the call of its ensemble's first sample
          Answers, NoAnswer,
          MaxRetries, Threshold, Budget,
          MaxDry, MaxDown, MaxRounds

VARIABLES provider,  \* what it does: up, funded, and how often it was not
          breaker,   \* state, consecutive failures, and whether it cools down
          credits,   \* since which outage, whether a probe waits, the outages so far, the alerts sent
          cache,     \* first sample -> the answer kept
          calls,     \* what each call has come to
          meter      \* cents: billed by the provider, spent on answers, recorded

vars == <<provider, breaker, credits, cache, calls, meter>>

Firsts == {Ensemble[i] : i \in Calls}
Samples(e) == {i \in Calls : Ensemble[i] = e}
Idle == [step |-> "idle", tries |-> 0, reply |-> "none", value |-> NoAnswer, cached |-> FALSE]

(* The process's own breaker and credit latch, as it starts.                 *)
ClosedBreaker == [state |-> "closed", failures |-> 0, cooling |-> FALSE]
NoOutage == [since |-> 0, waiting |-> FALSE, outages |-> 0, alerted |-> 0, alerts |-> 0, restored |-> 0]

Init ==
    /\ provider = [up |-> TRUE, funded |-> TRUE, dry |-> 0, down |-> 0]
    /\ breaker = ClosedBreaker /\ credits = NoOutage
    /\ cache = [e \in Firsts |-> NoAnswer]
    /\ calls = [i \in Calls |-> Idle]
    /\ meter = [billed |-> 0, answered |-> 0, recorded |-> 0, rounds |-> 0]

TypeOK ==
    /\ breaker.state \in {"closed", "open", "half_open"} /\ breaker.failures \in Nat
    /\ credits.since \in 0 .. credits.outages /\ credits.alerted \in 0 .. credits.outages
    /\ cache \in [Firsts -> Answers \cup {NoAnswer}]
    /\ \A i \in Calls : calls[i].step \in {"idle", "asked", "sent", "sleeping", "answered", "failed"} /\ calls[i].tries \in 0 .. MaxRetries

-----------------------------------------------------------------------------
(* isOverBudget, a count read before the call and not held during it; over it,
   the caller uses its fallback and does not call.                           *)
IsOverBudget == meter.recorded >= Budget
Begin(e) ==
    /\ \A i \in Samples(e) : calls[i].step = "idle"
    /\ ~IsOverBudget /\ meter.rounds < MaxRounds
    /\ calls' = [i \in Calls |-> IF i \in Samples(e) THEN [Idle EXCEPT !.step = "asked"] ELSE calls[i]]
    /\ meter' = [meter EXCEPT !.rounds = @ + 1]
    /\ UNCHANGED <<provider, breaker, credits, cache>>

(* generateJSON: the cache, then the latch, then the breaker, which an elapsed
   cooldown leaves half open; an ensemble's other samples ask a prompt of their
   own and are not kept here.                                                *)
CacheHit(i) == i \in Firsts /\ cache[i] # NoAnswer
CreditsBlocked == credits.since # 0 /\ credits.waiting
BreakerState == IF breaker.state = "open" /\ ~breaker.cooling THEN "half_open" ELSE breaker.state
FailFast(i) == calls' = [calls EXCEPT ![i].step = "failed", ![i].reply = IF CreditsBlocked THEN "no_credits" ELSE "breaker_open"]
LookUp(i) ==
    /\ calls[i].step = "asked"
    /\ \/ CacheHit(i) /\ calls' = [calls EXCEPT ![i] = [@ EXCEPT !.step = "answered", !.value = cache[i], !.cached = TRUE]] /\ UNCHANGED breaker
       \/ ~CacheHit(i) /\ CreditsBlocked /\ FailFast(i) /\ UNCHANGED breaker
       \/ /\ ~CacheHit(i) /\ ~CreditsBlocked
          /\ breaker' = [breaker EXCEPT !.state = BreakerState]
          /\ IF BreakerState = "open" THEN FailFast(i) ELSE calls' = [calls EXCEPT ![i].step = "sent"]
    /\ UNCHANGED <<provider, credits, cache, meter>>

(* attempt: what the provider makes of it; an answer it was paid for may arrive
   late or cut short and is lost.                                            *)
Respond(i) ==
    /\ calls[i].step = "sent" /\ calls[i].reply = "none"
    /\ \E reply \in (IF ~provider.funded THEN {"no_credits"} ELSE IF ~provider.up THEN {"retryable"} ELSE {"ok", "truncated"}), v \in Answers :
        /\ calls' = [calls EXCEPT ![i].reply = reply, ![i].value = IF reply = "ok" THEN v ELSE NoAnswer]
        /\ meter' = [meter EXCEPT !.billed = @ + IF reply \in {"ok", "truncated"} THEN 1 ELSE 0]
    /\ UNCHANGED <<provider, breaker, credits, cache>>

BreakerRecordFailure ==
    breaker' = LET failures == breaker.failures + 1
               IN  IF breaker.state = "half_open" \/ failures >= Threshold
                   THEN [state |-> "open", failures |-> IF failures > Threshold THEN Threshold ELSE failures, cooling |-> TRUE]
                   ELSE [breaker EXCEPT !.failures = failures]
BreakerRecordSuccess == breaker' = [state |-> "closed", failures |-> 0, cooling |-> FALSE]

(* noteCreditsExhausted: the outage keeps the mark of its beginning.          *)
NoteAgain(c) == [c EXCEPT !.since = c.outages + 1, !.outages = @ + 1, !.waiting = TRUE]
NoteCreditsExhausted(c) ==
    IF c.since = 0 THEN [c EXCEPT !.since = c.outages + 1, !.outages = @ + 1, !.waiting = TRUE] ELSE [c EXCEPT !.waiting = TRUE]
NoteCreditsRestored(c) == IF c.since = 0 THEN c ELSE [c EXCEPT !.since = 0, !.waiting = FALSE, !.restored = @ + 1]
(* alertCreditOutage: each tenant's operators once for each outage.          *)
AlertCreditOutage(c) == IF c.since = 0 \/ c.alerted = c.since THEN c ELSE [c EXCEPT !.alerted = c.since, !.alerts = @ + 1]

Settle(i) ==
    /\ calls[i].step = "sent"
    /\ \/ /\ calls[i].reply = "ok" /\ BreakerRecordSuccess /\ credits' = NoteCreditsRestored(credits)
          /\ cache' = IF i \in Firsts THEN [cache EXCEPT ![i] = calls[i].value] ELSE cache
          /\ calls' = [calls EXCEPT ![i].step = "answered"]
       \/ /\ calls[i].reply = "no_credits" /\ credits' = NoteCreditsExhausted(credits)
          /\ calls' = [calls EXCEPT ![i].step = "failed"] /\ UNCHANGED <<breaker, cache>>
       \/ /\ calls[i].reply = "truncated"
          /\ calls' = [calls EXCEPT ![i].step = "failed"] /\ UNCHANGED <<breaker, credits, cache>>
       \/ /\ calls[i].reply = "retryable" /\ BreakerRecordFailure
          /\ calls' = [calls EXCEPT ![i] =
                 IF breaker'.state = "open" \/ calls[i].tries = MaxRetries THEN [calls[i] EXCEPT !.step = "failed"]
                 ELSE [calls[i] EXCEPT !.step = "sleeping", !.reply = "none", !.tries = @ + 1]]
          /\ UNCHANGED <<credits, cache>>
    /\ UNCHANGED <<provider, meter>>
(* The loop asks again without looking at the breaker or the latch.          *)
Retry(i) ==
    /\ calls[i].step = "sleeping"
    /\ calls' = [calls EXCEPT ![i].step = "sent"]
    /\ UNCHANGED <<provider, breaker, credits, cache, meter>>

-----------------------------------------------------------------------------
(* computeConsensus: the answer most samples gave, the first one given among as
   frequent ones.                                                            *)
Answered(e) == {i \in Samples(e) : calls[i].step = "answered"}
Votes(e, v) == {i \in Answered(e) : calls[i].value = v}
Modal(e) == {v \in Answers : Votes(e, v) # {} /\ \A w \in Answers : Cardinality(Votes(e, w)) <= Cardinality(Votes(e, v))}
Consensus(e) == CHOOSE v \in Modal(e) : \A w \in Modal(e) : Min(Votes(e, v)) <= Min(Votes(e, w))

(* generateJSONEnsemble and its caller: with a majority of its samples the
   answer is used and metered, what a hit costs being nothing; without it the
   first failure is the caller's, and what the others cost is not recorded.   *)
Majority(e) == 2 * Cardinality(Answered(e)) > Cardinality(Samples(e))
UsageOf(e) == Cardinality({i \in Answered(e) : ~calls[i].cached})
RecordUsage(e) == [meter EXCEPT !.answered = @ + UsageOf(e), !.recorded = @ + UsageOf(e)]
Join(e) ==
    /\ \A i \in Samples(e) : calls[i].step \in {"answered", "failed"}
    /\ IF Majority(e) THEN meter' = RecordUsage(e) /\ UNCHANGED credits
       ELSE /\ UNCHANGED meter
            /\ credits' = IF \E i \in Samples(e) : calls[i].reply = "no_credits" THEN AlertCreditOutage(credits) ELSE credits
    /\ calls' = [i \in Calls |-> IF i \in Samples(e) THEN Idle ELSE calls[i]]
    /\ UNCHANGED <<provider, breaker, cache>>

(* The world.                                                                *)
GoDown == /\ provider.up /\ provider.down < MaxDown
          /\ provider' = [provider EXCEPT !.up = FALSE, !.down = @ + 1] /\ UNCHANGED <<breaker, credits, cache, calls, meter>>
RunDry == /\ provider.funded /\ provider.dry < MaxDry
          /\ provider' = [provider EXCEPT !.funded = FALSE, !.dry = @ + 1] /\ UNCHANGED <<breaker, credits, cache, calls, meter>>
Recover == /\ provider' \in {[provider EXCEPT !.up = TRUE], [provider EXCEPT !.funded = TRUE]} /\ provider' # provider
           /\ UNCHANGED <<breaker, credits, cache, calls, meter>>
Cooldown == \/ breaker.cooling /\ breaker' = [breaker EXCEPT !.cooling = FALSE] /\ UNCHANGED <<provider, credits, cache, calls, meter>>
            \/ credits.waiting /\ credits' = [credits EXCEPT !.waiting = FALSE] /\ UNCHANGED <<provider, breaker, cache, calls, meter>>
Expire(e) == cache[e] # NoAnswer /\ cache' = [cache EXCEPT ![e] = NoAnswer] /\ UNCHANGED <<provider, breaker, credits, calls, meter>>

Next ==
    \/ \E e \in Firsts : Begin(e) \/ Join(e) \/ Expire(e)
    \/ \E i \in Calls : LookUp(i) \/ Respond(i) \/ Settle(i) \/ Retry(i)
    \/ GoDown \/ RunDry \/ Recover \/ Cooldown

Spec == Init /\ [][Next]_vars

-----------------------------------------------------------------------------
(* The tenant pays for answers it gets: what is recorded never passes what the
   provider billed, even if all that wait to be recorded are; an answer served
   from the cache is free; and the budget is passed by no more than the calls
   that were under way when it was reached.                                   *)
MeteringIsTrue ==
    /\ meter.recorded <= meter.billed
    /\ meter.recorded + Cardinality({i \in Calls : calls[i].step = "answered" /\ ~calls[i].cached}) <= meter.billed
    /\ meter.recorded < Budget + Cardinality(Calls)

(* An outage is told once to a tenant's operators, however many calls and probes
   run into it: a second alert needs an answer the provider gave in between.  *)
OneAlertPerOutage == credits.alerts <= 1 + credits.restored

(* No settled state locks the provider out: the breaker is closed only below its
   threshold, an open one was opened by a failure and a cooldown ends it, and a
   latch without an outage blocks nothing.                                    *)
NobodyIsLockedOut ==
    /\ breaker.state = "closed" => breaker.failures < Threshold
    /\ breaker.cooling => breaker.state = "open"
    /\ credits.waiting => credits.since # 0
    /\ \A i \in Calls : calls[i].step = "failed" /\ calls[i].reply = "breaker_open" => provider.down > 0
    /\ \A i \in Calls : calls[i].reply = "no_credits" => provider.dry > 0

(* The answer an ensemble settles on is the one most of its samples gave.    *)
MostSamplesDecide ==
    \A e \in Firsts : Answered(e) # {} =>
        /\ \E i \in Answered(e) : calls[i].value = Consensus(e)
        /\ \A v \in Answers : 2 * Cardinality(Votes(e, v)) > Cardinality(Answered(e)) => Consensus(e) = v

GatewayIsHonest == MostSamplesDecide /\ MeteringIsTrue /\ OneAlertPerOutage /\ NobodyIsLockedOut
=============================================================================
