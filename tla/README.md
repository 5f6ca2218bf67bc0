# A TLA+ model of the AptusHire backend

AptusHire is a hiring backend: an Express API over MongoDB (Mongoose), a worker process with
BullMQ queues, and a handful of cron jobs. Candidates apply, are screened by an ATS score, sit a
timed assessment and an AI voice interview, go through human rounds, and move along a pipeline of
stages to an offer and a hire. Companies sign up, pay, publish jobs to boards and read reports. This
directory models the parts of it whose correctness depends on the order of steps or on a computation
that is easy to get wrong, checks the models with TLC and proves the most important results with TLAPS.

The system's hard part is almost always the same shape. An HTTP handler, a worker or a cron run loads a
Mongoose document, decides on that copy, awaits other collections or a model call, and saves. Nothing
locks. What protects one handler from another is only what a Mongoose save checks, and that depends on
*what was written*: setting an array is version-checked, a push or a scalar is not. The models have a
load and a save as separate steps and state that discipline explicitly.

Contents: 1 the system, 2 the modules, 3 the runs, 4 the proofs, 5 overlaps the code does not survive,
6 where the code and its comments disagree, 7 assumptions, 8 not modelled, 9 plan.

## 1. The system

Paths are relative to `src/`. "partly" means that something of the component that changes state is not an
action of a module; the note says what.

| Component | Status | Modules | What is modelled |
|---|---|---|---|
| Assessment sessions (`services/assessmentService.js`, `controllers/assessmentController.js`, `controllers/assessmentPortalController.js`) | partly | `AssessmentSession`, `AssessmentPromise`, `AssessmentSessionProofs` | Every operation on the session document that decides its status, clocks, sections, answers and result: the portal, the recruiter's actions, the auth middleware, the expiry sweep, the soft lock, the pipeline's clean-up, and what follows completion. Left out: device checks, consent, reminders and login, which write fields none of those reads; the claim write-back after scoring. |
| Job capacity and lifecycle (`services/jobCapacityService.js`, `controllers/jobController.js`, `models/Job.js`) | partly | `JobCapacity`, `JobCapacityProofs` | Reconciliation of accepted offers with openings, automatic closing, release of candidates, and the recruiter's edit, publish and delete of a job, each up to the point where its handler throws. Left out: creating a job, job setup drafts and the text fields of a job; restoreJobCandidates and the release on deletion, which no handler reaches. |
| Hiring pipeline (`services/pipelineService.js`, `utils/pipeline.js`, `controllers/reviewQueueController.js`) | partly | `PipelineStages`, `HiringPipeline`, `HiringPipelineProofs` | Stages, stage moves and all their satellites (offer, siblings of a hire, review item, interview queue, interview invitation, assessment), the review queue's decisions and the queue entry's edits. Left out: notifications, rejection reports, outcome capture; candidateController's reads and application editing. |
| Screening decision (`services/atsService.js`) | partly | `HiringPipeline` | What the screening decides from its score: advance, park, assign, open for review or reject, first or repeated, from a copy minutes old. The scoring itself is a nondeterministic outcome. |
| AI interview engine (`services/aiInterviewService.js`, `models/InterviewSession.js`) | partly | `InterviewSession`, `InterviewSessionProofs`, `InterviewTurns`, `TurnActs`, `InterviewProofs` | InterviewSession: begin, plan, resume and reopen, completing, withdrawing, halts, integrity termination, the abandonment sweeps and finalization. InterviewTurns: which question is asked, must-asks, probes and anchors, talked-over questions, declines, nudges, the closing sequence and what is scored. TurnActs: how what is said is read. Left out: the prompts and the model's wording. |
| Interview portal (`controllers/interviewPortalController.js`, `middleware/candidateAuth.js`, `controllers/livekitController.js`) | partly | `InterviewSession`, `InterviewSessionProofs`, `InterviewEvidence`, `TurnActs`, `InterviewProofs`, `ServicesProofs` | The token, the auth middleware, start, answer, dialogue acts, proctoring termination and presence; consent and its withdrawal, answer audio, intents, the phone companion and evidence clips. Left out: device checks, speech synthesis. |
| Interview invitations (`services/interviewInvitationService.js`, `controllers/interviewSessionController.js`, `jobs/interviewReminderJob.js`) | partly | `InterviewSession`, `InterviewSessionProofs`, `HiringPipeline` | Resend and reschedule with and without force, the candidate's own resend, retiring an attempt and creating the next, the expiry of a link; the first invitation is in HiringPipeline. Left out: the reminders. |
| Finalization queue (`queues/finalizationQueue.js`, `workers/finalizationWorker.js`) | partly | `InterviewSession` | Jobs, their attempts and a worker that dies. Left out: the in-process fallback when there is no Redis. |
| Realtime voice (`services/livekitService.js`, `services/voiceAgentService.js`, `controllers/livekitController.js`) | partly | `VoiceLoop`, `RealtimeWindows`, `ServicesProofs` | The voice worker's calls with their question identity, retries and duplicates, holds and repeats; the windows of a realtime room and who meters them. Left out: media transport, and the worker itself, which is not in the repository. |
| Recording and evidence (`services/interviewRecordingService.js`, `services/evidenceClipService.js`, `services/r2RecordingStorage.js`) | partly | `InterviewEvidence`, `ServicesProofs` | Chunks, stitching, consent withdrawal, answer audio, clips and what each save writes over. Left out: object storage. |
| Claims and probes (`services/claimService.js`, `services/probeService.js`, `services/resumeDefenseService.js`) | partly | `Claims`, `InterviewProofs` | The claim graph's verdicts, probes and their results, the ATS decision from weighed criteria, and what a re-extraction keeps. Left out: the extraction by a model, the resume-defence wording. |
| Assessment papers (`services/assessmentPaperService.js`, `services/itemGenService.js`, `controllers/assessmentPaperController.js`) | partly | `Approvals`, `ServicesProofs` | Versions, approval, freezing and archiving. Left out: generation and the validation of single items. |
| Assessment scoring and assembly (`utils/assessmentScorer.js`, `utils/assessmentAssembly.js`, `utils/assessmentInvariants.js`) | not modelled | - | Arithmetic over one item or one paper at a time, with no state; the totals AssessmentSession scores over are a nondeterministic outcome. |
| Question sets, rubrics, personas, QA gate (`services/questionSetService.js`, `services/rubricService.js`, `services/personaService.js`) | partly | `Approvals`, `Rubrics`, `ServicesProofs`, `InterviewProofs` | Versions, approval and archiving of each kind, with the race of two approvals; the weights, tiers and thresholds of a rubric and its quality flags. Left out: generation by a model, the checks of a persona's text. |
| ATS scoring (`services/evidenceAtsService.js`, `utils/atsEngine.js`, `utils/evidenceScorer.js`) | partly | `Claims`, `InterviewProofs` | The weighing of criteria, knockouts, bands and what claims change in them. Left out: matching of text, legacy scorers. |
| Screening queues (`queues/screeningQueue.js`, `queues/rescoreQueue.js`, `workers/screeningWorker.js`) | not modelled | - | The queues add retries only; a retry is a repeated screening in HiringPipeline. |
| Scorecards (`services/scorecardService.js`, `controllers/scorecardController.js`, `controllers/scorecardPortalController.js`) | partly | `Scorecards`, `InterviewProofs` | Invitations and their links, drafts, submission, the cancelling of a card, the weighed score with its coverage and the engine's divergence alert. |
| Job publishing (`services/jobPublishService.js`, `services/connectors/index.js`, `workers/publishWorker.js`) | partly | `Publishing`, `Careers`, `JobCapacityProofs` | Publication and withdrawal per board, the queue's attempts, the circuit breaker, crashes and the nightly reconcile; the public pages and their caches. Left out: feeds' text, credentials. |
| Billing and subscriptions (`controllers/paymentController.js`, `services/razorpayService.js`, `services/subscriptionLifecycleService.js`) | partly | `Billing`, `BillingProofs` | Orders, verification, webhooks, cancelling, invoice and provisioning, expiry, grace and reminders, an admin's suspension. Left out: plan changes and the texts of invoices. |
| Quota and usage (`services/quotaService.js`, `services/usageService.js`) | partly | `Gateway`, `ServicesProofs` | The budget a call checks and the meter it moves. Left out: the per-company quotas of quotaService, which count other collections and keep no state of their own. |
| Authentication (`controllers/authController.js`, `controllers/companyAuthController.js`, `utils/authTokens.js`) | partly | `Accounts`, `ServicesProofs` | Rotation and reuse of refresh tokens, password resets, one-time codes with their attempts and resends. Left out: the company sign-up's steps, OAuth providers. |
| Applications and candidates (`controllers/publicCareersController.js`, `services/careersService.js`, `jobs/autoApplyJob.js`) | partly | `Applications`, `Autofill`, `ServicesProofs` | Applying publicly and signed in, resume files and versions shared by applications, autofill with its attribution, withdrawal; the unique indexes. Left out: the recruiter's lists and bulk import. |
| Candidate profile and dashboard (`controllers/candidateDashboardController.js`, `controllers/candidateProfileFullController.js`, `controllers/resumeController.js`) | partly | `CandidateProfile`, `NextActions`, `ServicesProofs` | Profile edits, archiving, auto-apply settings, the nightly sweep and its ranking, saved answers, the next actions a candidate is shown. Left out: field-by-field validation. |
| Notifications and email (`services/notificationService.js`, `services/emailDispatchService.js`, `queues/emailQueue.js`) | partly | `Mail`, `MailProofs`, `Inbox` | Logs, queue, retries, inline fallback, crashes, a reminder's claim and its return; notifications, preferences and the cached badge. Left out: texts, digests. |
| Retention and purge (`services/candidatePurgeService.js`, `jobs/retentionJob.js`, `controllers/dataRightsController.js`) | partly | `Applications`, `ServicesProofs` | The purge of an application and what a concurrent creation leaves. Left out: the erasure requests' records, the retention job's selection. |
| Calibration, drift and outcomes (`services/calibrationService.js`, `services/driftService.js`, `services/scoreOutcomeService.js`) | not modelled | - | Statistics over many applications: sums and rates of real numbers, out of TLC's reach. |
| LLM access and caches (`services/llmService.js`, `services/llmCache.js`, `services/redisCache.js`) | partly | `Gateway`, `Careers`, `ServicesProofs`, `JobCapacityProofs` | Calls with retries, circuit breaker, credit probes, cache, ensembles and budget; the versioned caches of the public pages. The providers are external. |
| Tenant scope (`models/plugins/tenantScope.js`, `utils/tenantContext.js`) | not modelled | - | A query filter that keeps no state; every model here is of one company. |
| Company setup and settings (`services/companyRegistrationService.js`, `services/workspaceProvisioningService.js`, `services/setupDraftService.js`) | not modelled | - | Drafts and forms; a provisioning in steps is in Billing. |
| Analytics and reports (`controllers/analyticsController.js`, `services/interviewReportPdf.js`, `utils/interviewReportEngine.js`) | partly | `Reports`, `InterviewProofs` | The interview report's legs: weighed requirements, the integrity index, unreliable audio, the claims' consistency of dates. Left out: analytics reads, the PDF's layout. |
| Dialogue and language utilities (`utils/dialogueActs.js`, `utils/conversationIntent.js`, `utils/endpointing.js`) | partly | `TurnActs`, `InterviewProofs` | The decision tables of what a candidate's turn asks for: fixed phrases, composition of sentences, the model's reading and its gates. Left out: the phrases themselves, endpointing by pauses. |
| Routes, bootstrap and scripts (`server.js`, `worker.js`, `module-registry.js`) | not modelled | - | Wiring; nothing that keeps state. |

How they interact. Applying creates a `Candidate` and queues a screening; the screening's decision, a
recruiter's move, a completed assessment, a finalized interview and a hire all go through
`applyTransition`, whose satellites touch the review item, the interview queue, the assessment and interview
sessions, the sibling applications and the job's counters; the counters may close the job, which releases
its candidates, withdraws it from boards and notifies. An interview asks what approvals, rubrics and claims
prepared, is driven by the portal and the voice worker, leaves recordings and evidence beside it, and is
finalized by a queue job that scores it and the claims again. Every model call passes the gateway, every mail
the dispatcher, every public page the cache.

### Hard behaviours

* **Two handlers on one document.** A recruiter cancels while a candidate submits; a sweep expires
  what is just being started; a recording chunk and an answer save the same interview; two final
  acceptances close the same job; two approvals archive each other.
* **Satellites.** A stage move is saved first and then, await after await, the review item, the
  interview queue, the invitation, the sibling applications and the job's counters follow.
* **Work on old copies.** A screening and an interview's finalization hold a copy for minutes, the
  auto-apply sweep works from its query's copies, a cached page was rendered from older reads.
* **Crashes and retries.** A process may die between any two awaits; queue jobs, webhooks, the voice
  worker's calls and a gateway's attempts are retried, handlers are not.
* **Repetition and reordering.** A webhook and a browser report one charge; a worker repeats a call whose
  answer it lost; a second tab presents a token that was just replaced.
* **Clocks.** Link validity, section limits, pauses that must shift a section's clock, cron sweeps, caches.
* **Rotation.** A link or token issued again must kill the old one; a retired attempt must stay retired.
* **Judgement.** What is told of a person is computed from thresholds, rounded shares and search through a
  transcript: a boundary or an order decides whom the system recommends.

## 2. The modules

| Module | Models |
|---|---|
| `AssessmentPromise` | abstract specification of a session: begun once, answers kept, scored once and for good |
| `AssessmentSession` | one assessment session and everything that writes it; refines `AssessmentPromise` |
| `JobCapacity` | one job, its candidates, all handlers that count or close |
| `PipelineStages` | the pure helpers of `utils/pipeline.js` |
| `HiringPipeline` | a person's applications and the satellites of each; extends `PipelineStages` |
| `InterviewSession` | an application's interview attempts, portal, sweeps, rotation, finalization |
| `InterviewTurns` | the turns of one interview: what is asked, repeated, declined, nudged, closed and scored |
| `TurnActs` | how what a candidate says is read: as an answer, or as something said to the interviewer |
| `VoiceLoop` | the voice worker's calls against one interview, repeated and in flight together |
| `RealtimeWindows` | the billing windows of realtime rooms, the concurrency cap and the three who meter |
| `InterviewEvidence` | recording, answer audio, intents, second camera, clips and the withdrawal of consent |
| `Claims` | claim graph, rubric match, quality gate, probes, verdicts of three sources, scores computed again |
| `Scorecards` | the human rounds: invitation, link, portal, submission, rollup, divergence alerts |
| `Reports` | what a recruiter is told: verdict, advice, coverage, integrity, stars, timeline |
| `Approvals` | the versioned documents: rubric, question set, persona, paper |
| `Rubrics` | how a rubric's weights, thresholds and flags come about |
| `Applications` | résumés, versions, applying, removal and erasure |
| `Autofill` | reading a résumé into a form, and the record of who wrote what |
| `CandidateProfile` | profile handlers and the hourly auto-apply |
| `NextActions` | what the dashboard tells a candidate to do, beside the gates that decide whether they can |
| `Accounts` | refresh-token families, one-time links and codes |
| `Billing` | orders, webhooks, invoices, provisioning, the life of a subscription |
| `Publishing` | one job on its boards: worker, breaker, nightly reconcile |
| `Careers` | the public pages and the age of what they show |
| `Gateway` | every model call: budget, cache, latch, breaker, retries, ensemble, metering |
| `Mail`, `Inbox` | mail on its way out, reminders; notifications and their cached badge |
| `AssessmentSessionProofs`, `JobCapacityProofs`, `HiringPipelineProofs`, `InterviewSessionProofs`, `BillingProofs`, `MailProofs` | the theorems of section 4 about one module each; `InterviewSessionProofs` those about `InterviewTurns` besides, `JobCapacityProofs` about `Careers` and `Publishing`, `MailProofs` about `Inbox` |
| `InterviewProofs`, `ServicesProofs` | the theorems about the other modules `Interview` and `Services` check, one part of the file for each |
| `MCAssessmentSession`, `MCAssessmentSerial`, `MCAssessmentRace`, `MCJobCapacity`, `MCCapacityRace`, `MCHiringPipeline`, `MCHiring`, `MCInterviewEndings`, `MCInterview`, `MCServices`, `MCProgress` | the instances TLC checks |

The larger modules have **request slots** (`Requests`, `Workers`, `Calls`): a slot is one handler of any
process between its load and its last save. `Load...` takes the copy, one action per save or atomic update
follows, `Fail` or `Crash` drops the slot where a death is modelled. An action's name is that of the code's
function where there is one; `PROJECT.json`, "map", gives the lines.

**Saves.** In `AssessmentSession` and `InterviewSession` `Save(r, d, bumps, next, kept)` stores a
document; `stale[r]` says that the stored version moved since `r` loaded (Mongoose compares the loaded
`__v`; it only grows, so one bit is enough). `GuardedSave` (whole array) is refused on a stale copy and
moves the version; `ElementSave` (inside one array element) is refused and does not move it; `OpenSave`
(push, scalars) is never refused. `Job` is the only model with `optimisticConcurrency`
(`JobCapacity!SaveJob`). `Candidate` saves only ever write scalars and pushes, so they write the paths
set and are never refused. `Claims`, `CandidateProfile` and `Billing` carry a version instead of a bit; `InterviewEvidence` keeps
the copy, because a whole `aiInterview` marked modified writes all of it back.

**Data.** Answers, claims, files and pages are model values, sections and items come from small sets. A
stage is the code's string. Text, wording and layout are left out: a sentence in `TurnActs` is a trigger
phrase and two word counts, a résumé in `Autofill` a set of facts. Numbers are kept where a threshold
decides: `Claims`, `Reports`, `Rubrics` and `Scorecards` compute in whole hundredths with the code's rounding. A model's answer is a
nondeterministic choice among the outcomes the code distinguishes.

### The pipeline's core

`AssessmentSession`: `doc` is the stored document, `local[r]` a handler's copy. Every portal request first passes the
middleware (`AuthPasses`) and, for a paused session past its limit, `resumeFromPause` (`ResumeSave`), then
its own handler. `FinalizeSave` is `finalizeSession`'s save, followed by `Telemetry` and `Advance` (the
stage moves). `FindStale` is the pipeline's `cancelStaleAssessment`. `used` is a history variable: the
ticks a candidate could really work in a section, against which the server's own clock is judged.

`JobCapacity`: `LoadMove`/`MoveSave` are `applyTransition` as far as capacity sees it; `LoadJob`, two counts, `Close`
(the conditional update), `WriteCounters`, `ReleaseFilled`, `Announce` are `reconcileJobCapacity`;
`LoadEdit`/`EditSave`, `LoadPublish`/`Publish`, `Delete` are the recruiter's, each as far as its handler
gets before it throws (section 6). `term` counts how often the job went public, `announced` the withdrawals
and emails of each term.

`HiringPipeline`: `MoveSave`, `FindSiblings`, `CloseSibling`, `FindItem`, `CloseItem`, `Unqueue`, `Enqueue`, `Invite`,
`AssessInvite`, `CancelStale` are `applyTransition` and its satellites in the order of the code; each caller
of `applyTransition` has its own `Load...`. `Score`, `Park`, `OpenItem`, `Record` are the screening, which
sets the stage on a copy and saves it last. Resolving a review item reuses the screening's pass.

`InterviewSession`: `docs` holds one document per attempt, `tab` the portal token in the candidate's browser.
`Authenticate` is the middleware, `StartSession`/`Plan`/`Reopen`/`Resume` are start and `beginInterview`,
`Answer` and the endings are the engine, `SweepExpired`/`SweepAway`/`Abandon` the sweeps,
`LoadRotation`/`Reissue`/`Retire`/`CreateAttempt` the recruiter's two verbs, `Schedule` .. `Advance` the
finalization. `lost` records what a crash took away, so that liveness can be stated around it.

### The interview

`InterviewTurns` follows `advance`: the transcript is append-only and every decision is a search through it,
so the module searches it too (`LastTurn`, `Due...`, `Budget`). `TurnActs` composes sentences into an act, through the fixed
phrases, the gates on a model's reading and, on the realtime path, what the portal held back. In `VoiceLoop` a call
carries the question it believes open and the copy it read, and what the interviewer asks next is an approved question (marked in its array, so the save needs the version
that was read) or one of its own (only pushed, saved whatever came between). `RealtimeWindows` has the mint's window, the room's webhook, the worker and the portal, who wins
the test-and-set that bills, and the requests that save the whole interview as they read it: a reconnect's mint, a recording chunk. `InterviewEvidence`
separates storing an object from saving the row that names it, in lanes of one request each.

`Claims` keeps the graphs, the assessments appended to one another, probes, and the work each of a screening,
an assessment, an interview and a panel has read. `Scorecards` has cards, links and the alerts a submission is due.
`Reports` has no handlers: each part of the record grows by one piece, and `InterviewReport`, `Row`, `RiskScore`,
`ScoreAxis` and `TotalMonths` say what a recruiter would be shown after it.

### The services

Each of `Accounts`, `Applications`, `Approvals`, `Autofill`, `Billing`, `CandidateProfile`, `Careers`, `Gateway`,
`Inbox`, `Mail`, `NextActions`, `Publishing` and `Rubrics` begins with a comment that says which files it models and
what one step stands for. Their environments are actions too: a provider that runs dry (`Gateway`), a Redis
that goes away (`Careers`), a board or a gateway that answers late or twice (`Publishing`, `Billing`), a database
that refuses one write (`Mail`).

## 3. The runs

`MCInterview`, `MCServices`, `MCProgress`, `MCHiring`, `MCAssessmentSerial`, `MCAssessmentRace`, `MCCapacityRace` and `MCInterviewEndings` check several instances in one run. A behaviour
takes a `part` (or instance) in its first state and stays in it; the registers `v1`, `v2`, .. hold the variables of the part
that is taken, the rest are 0. So each part is checked exactly as if alone, and a property of the run is a
conjunction or a CASE over parts. Which part a cfg takes is the constant `Parts`.

| Run | Instance | Shows |
|---|---|---|
| `AssessmentSerial` | one request at a time; `candidate`: two sections of one item, five ticks, soft-lock pauses, the sweep; `recruiter`: all operations, two values, handlers that die | `SittingIsExact` (one section at a time, the section clock is the time really available, saved answers are scored, exposure counted once, no clock gives time away), `WorkIsRespected` (no late answer, no attempt killed by a move), `SittingRunsItsCourse` (liveness), `KeepsPromise` (implements `AssessmentPromise`) |
| `AssessmentWorkRace` | two requests overlapping at every await; `working`: the candidate's operations, four of which can finalize; `handled`: soft-lock pause, resume, resend, cancel and a page that ends the session | `ScoresWhatIsStored`, `AnswersSurvive`, `ClosedSectionsStayClosed` |
| `CapacityRace` | two requests, one candidate, two publications; `overlapping`: every operation, the job's deletion included; `dying`: handlers that die at any await, no edits | `AnnouncedOnce`, `PublishedIsUnmarked` |
| `Progress` | parts `filling` (two overlapping requests), `billing` (one order, two handlers, one fault), `publishing` (one board, one worker, one fault) | `FillingIsAnnounced`, `ChargeOpensWorkspace`, `ClosedJobsComeDown` (liveness); `BillingIsExact` (an invoice or a paid order stands for a charge, an open workspace for an invoice and a subscription unless a superadmin or switched-off billing waived the payment, one reminder a day) |
| `Hiring` | two applications of one person; `serial`: every move, no failure; `failing`: recruiter's gate, queue edits, handlers that die anywhere | `SatellitesFollow`, `DecisionsCohere`, `HireClosesSiblings`, `StageMovesAreLegal` |
| `InterviewEndings` | a worker that may die; `endings`: one attempt at a time, every ending, sweep and reopening; `retiring`: an attempt resent, swept and rescheduled for another | `AttemptsAreFinal` (a retired attempt is never entered, a completed one not issued again), `EndingIsReported` (liveness: a dead link is closed, an ending evaluated, an evaluation moves the candidate on) |
| `Interview` | nine parts, below | see below |
| `Services` | twelve parts, below | see below |
| `HiringRescoreReject`, `InterviewReopened`, `CapacityRepublish`, `RecordingDropsAnswer` | expected violations | section 5 |

`Interview`:

| Part | Bounds | Property |
|---|---|---|
| `turns` | two approved questions, one of the interviewer's own, one side exchange, one talked-over question | `InterviewIsRun`: no more questions than the budget; a completed interview put every approved question, or was talked over when it did; gaps are not scored; what is said is bounded. Probes and anchors are empty here, their share of the budget is in the theorems |
| `acts` | eight kinds of sentence, three to a turn | `WordsAreHeard`: an answer of substance is neither dropped nor read as a request; a reading is believed only where the gates allow it |
| `voice`, `windows` | three calls of two in flight; two windows under a cap of one, two requests | `RealtimeIsExact`: an answer stays with the question it was given to, unless its call was saved over turns it had not read and a question that needs no version came between; a window is billed once each time it is opened |
| `recording`, `filing`, `claims` | two requests in the lanes of each; one claim, two criteria, four writers, a crash | `EvidenceHolds`: footage outlives its stitching, silence counts once, a verdict is earned by an answer, scores follow claims, what a panel submitted counts |
| `scorecards` | two recruiters, two cards, two links, two criteria, two ratings | `CardsAreFair`: one open card a seat, what is not rated is neutral, a better rating is no worse, alerts when due |
| `reports` | four turns, five pieces, three events of six kinds, four signs, three periods in five months | `ReportsAreFair`: nobody fails for a fault, shares add up, months are worked, one piece at a time |

`Services`:

| Part | Bounds | Property |
|---|---|---|
| `role` | three candidates, two openings, one request | `RoleIsConsistent`: counters are exact, a full job is closed, exits come and go with the closing |
| `accounts` | two workers, four tokens, two links, two attempts at a code | `SessionsDoNotFork`: one good refresh token a session. Links and codes are modelled and typed, no property is about their limits |
| `applications` | two requests, one file of each library, one active version | `ApplicationsAreSelfContained`: applied once, the file stays |
| `autofill`, `profile` | three facts, two of one identity, one hostile line, one upgrade, one outage; two jobs, two requests, one sweep, three operations | `CandidatesAreInCharge`: autofill cites the résumé, labels what is partial, keeps what was accepted word for word, counts and alerts truly; what a request answered was dismissed or saved stays so, and once auto-apply is off the sweeps under way make at most their limit each |
| `dashboard` | four ticks, validity of three | `DashboardTellsTheTruth`: whatever the candidate is told to do is possible when they do it |
| `approvals`, `rubrics` | two requests, two versions, two edits; three criteria | `DocumentsHold`: a version that was superseded left an approved one, one draft a source, an approved rubric or paper is not changed, shares are exact, gates weigh nothing |
| `gateway` | three calls, two answers, an ensemble of three, one retry, one outage of each kind | `GatewayIsHonest`: metering is true, one alert an outage, nobody is locked out, most samples decide |
| `mail`, `inbox` | two sweeps, two mails, two faults; two notifications, two workers | `NoticesAreAccountedFor`: reminded once, the log is true, the badge matches |
| `careers` | two processes, a term of two ticks, five ticks, one change, two reads | `PublicIsFresh`: what was cleared stays cleared, what is served is less than two terms old |

**Why the bounds are enough.** The faults these properties guard against need two overlapping handlers
on one document (two slots), two parts of one document (two sections, items or applications), one
repetition (two publications, attempts, links, windows, versions) and, for clocks, one tick on each side of each
limit: `Validity`, `StartWindow`, `SectionLimit` and `AutoResume` are one or two ticks and `MaxTime`
passes the last of them. Three candidates and two openings give a job that is not full, exactly full
and over-subscribed after an edit. A threshold of the code is kept in its own units where it compares numbers (`Claims`,
`Reports`, `Scorecards`, `Rubrics`), with enough pieces to stand on both sides of it: five pieces on two requirements reach
"3 of 3", "1 of 4" and every mixture with a verdict; four turns reach every ratio the audio rules ask about.
`MaxResponses`, `MaxItems`, `MaxTerms`, `MaxEpoch`, `MaxAnswers`, `MaxAttempts`, `MaxObjects`, `MaxScores`, `MaxOps`, `MaxReads`, `MaxFaults`
only cap counters. In the runs with one slot a request still spans several steps, between
which the clock, the worker, the candidate's assessment and the queue's edits move. Symmetry is used
only where no temporal property other than [][A] is checked: over slots and candidates (`CapacityRace`, `AssessmentWorkRace`) and over
two requests or two calls (`Alike` in `MCInterview` and `MCServices`), which no definition tells apart.

Deadlock is not checked in any run: a settled session, a deleted job, a decided application, a paid order
rightly have nothing left to do.

**Fairness.** Handlers in flight run on (`WF` of `Proceed`, `Handle`): Node finishes what it started unless the
process dies, and runs with failures check no liveness except where the recovery is the question:
`InterviewEndings`, where what a crash took is recorded in `lost` and excused by name, and `Progress`, where
webhooks are repeated and the reconcile repairs. Time passes (`WF` of `Tick`). The expiry sweeps, the nightly reconcile and
a circuit's cooling off are cron runs or timers of their own process turn, so they get their turn however busy the
slots are: `SF` (with `WF` only, a slot that is never idle at the right moment could
starve them, which is an artefact of slots, not of cron). A gateway repeats a webhook until it is told 200: `SF` of
`Webhook`. Workers take jobs (`WF` of `Work`, `SF` of taking a withdrawal, for a queue is first in, first out). The candidate,
the recruiter and the browser are never assumed to act. The fairness `Progress` assumes of publishing is weaker than
`Publishing!Fairness`; since a behaviour never leaves its part, fairness of a disjunction over parts is fairness of
each.

Each property has a mutant, a definition with a plausible bug, for which TLC finds it violated on the
same instance; the mutants stand next to the definitions they change.

## 4. The proofs

The theorems hold for every set of slots, sections, items, candidates, applications and attempts and every value of the
limits. Two kinds of hypothesis occur. The modules' own `ASSUME`s are facts of the code (a section belongs to an
item, a limit is a natural number, a missing value is no value: `NoneAssumption`, `AbsenceAssumption`, `ResultAssumption`)
and TLC evaluates them in every run. A theorem's `ASSUME` either says what the bounds of a model are (`Bounds`, `TurnBounds`, ..: natural numbers, finite sets, a missing value that is no value), or restricts what is going on at the same time; each such
restriction is one section 5 shows to be needed: without it TLC finds the run of the code that breaks the property.

### While requests overlap: `AssessmentSessionProofs`, `JobCapacityProofs`

* `TypeCorrect`: `Spec => []TypeOK`. `TypeOK` is not inductive: a save copies the local document back,
  and `resumeFromPause` subtracts `pausedAt` from the clock. `TypeInv` adds that a request at work holds a
  document and a well-formed call (`WorkOK`) and that a recorded pause began in the past
  (`PauseInPast`), without which a shifted clock may leave the naturals.
* `CompletionScoresWhatIsStored`: `Spec => ScoresWhatIsStored`.
* `ClosedSectionsNeverReopen`: `Spec => ClosedSectionsStayClosed`.
* `AnswersAreKept`: `Spec => AnswersSurvive`.

The last three rest on `SyncInv`: as long as a request's copy is not stale, its answers and its closed
sections are those stored, and a document that was never started has no section touched (`Blank`). This is
the whole point of the version discipline: any write to answers or to closed sections that could
disagree with somebody's copy moves the version (or is a push, which every later guarded save notices).
`Faithful` says what a document must satisfy to be stored, `Quiet` that storing it needs no new version;
`SaveSync` proves that a save of a faithful document which moves the version or is quiet keeps `SyncInv`, and
each handler's lemma shows its save is one of these.

`JobCapacityProofs`, with failures or without:

* `TypeCorrect`: `Spec => []TypeOK`, from `TypeInv`, which adds what a request holds at the step that is
  going to use it (`Sound`): a Job copy when it decides on one, two counts when it writes counters.
* `AnnouncesOnce`: `Spec => []AnnouncedOnce`.
* `PublishesUnmarked`: `Spec => []PublishedIsUnmarked`.

`AnnouncedOnce` says nothing of who is about to announce, so it is not inductive. `OnceInv` adds that two
handlers between `Close` and `Announce` (`Closing`) never closed the same publication, that what such a
handler is about to announce has not been, and that while the job is public nobody is closing its present
publication. The conditional update of `Close` is what keeps it; it also needs that an edit never publishes
(`EditInv`), else a closed publication could come back without a new term. `PublishedIsUnmarked` rests on
`CopyInv`: a copy that is not published, and is not stale, has the job's status and mark. The conditional
close does not move the version, so it is not obvious that a copy the version check accepts is current: it
is, because only a published job is closed that way. `CandidateAssumption` (finitely many candidates) makes
the counts numbers.

Under `OneRequest`, from `RoleInv` (what a request has read is still so, and unless it has yet to reconcile, the counters are the
board's and a public job has room):

* `OffersAreKept`: `Spec => []OffersKeepTheirPlace`, failures included.
* `RoleIsSettled`, if nothing fails: `Spec => []RoleIsConsistent` (`CountersAreExact` and `FullJobIsClosed` besides). A handler that dies between the move's save
  and its reconcile leaves the old counters until the next one, so this needs `~Failures`; two requests break
  it (section 5).

Two parts of the file, `Site` and `Board`, are about how a job is shown, and stand alone:

* `Careers`: `SiteIsTyped`, `PublicStaysFresh` (`PublicIsFresh`). `PagesInv`: a page under a version is as new as the clear that made the version (`PagesAreCleared`), and so is one on its
  way there (`PagesOnTheWay`), whichever process renders it; none is older than its terms (`PagesAreDated`).
* `Publishing`: `PublicationIsTyped`: rows, listings, tasks, copies and breakers keep their types; what the boards promise is liveness, and stays with TLC.

### One request at a time: `AssessmentSessionProofs`

Under `OneRequest` (there is one slot; its handler may still be interrupted by the clock between two saves and die at
any of them when `Failures` is set):

* `SittingsAreExact`: `Spec => []SittingIsExact`; `ClocksAreExact`, if nobody resends: `Spec => []SectionClockIsExact`.
* `WorkStaysRespected`: `Spec => WorkIsRespected`.
* `PromiseIsKept`: `Spec => KeepsPromise`, the refinement of `AssessmentPromise`, step by step.

`SerialInv` says how the fields of the stored document belong together (`DocOK`: a status and what it means for `result`,
`started`, `pausedAt`), what the server's clock says of the time a candidate really had (`ClockOK`: one section runs, its start
lies at least `used` ticks back, counted from the pause if there is one, and exactly that unless somebody resends), and what a request has read
that is still so when it writes (`RequestOK`, `Fits`). A step of the session changes the document in one of a few ways (`Phase`);
each handler's lemma names its way, and the refinement and the action properties follow from that and not from the handlers again.

### The pipeline: `HiringPipelineProofs`

* `TypeCorrect`: `Spec => []TypeOK`, however handlers overlap and wherever they die.
* Under `Serial` (the handlers of one person's applications do not overlap, and no screening is repeated), failures included:
  `StagesMoveLegally` (`StageMovesAreLegal`), `DecisionsAreCoherent` (`[]DecisionsCohere`), `SiblingsAreClosed` (`HireClosesSiblings`).
* Under `Undisturbed` (`Serial`, no handler dies, the interview queue is not edited by hand): `SatellitesAlwaysFollow`
  (`[]SatellitesCohere`).

`SerialInv` says that a handler's copy has the stored stage (`CopyOK`), that the move it is going to make is allowed from there (`PlaceOK`), that an
offer and its stage agree and whoever was decided on has no exit, and which siblings a hire has still to close (`SiblingsOK`). `SatelliteInv` is
indexed by where a handler is: `Follows(a, h)` says what of an application's label, queue entry, invitation and item already agrees with its stage when
the handler at work on it is `h`, so that each satellite's step only discharges its own part.

### The interview: `InterviewSessionProofs`

* `TypeCorrect`: `Spec => []TypeOK`, for any number of handlers and workers. `TypeInv` adds what a slot holds when it is going to use it,
  that tokens and jobs are of attempts that exist, and that attempts are numbered without a gap (`Created`), which is what makes
  `findLatestSession` return one.
* `AttemptsStayFinal`, under `OneRequest` and without `ownResend`: `Spec => []OnlyLatestIsOpen /\ AttemptsAreFinal`. `FinalInv`: no earlier attempt's link is
  valid, and a rotation has read the latest attempt and its present `ai` status (`RotationOK`). `OnlyLatestIsOpen` itself is not inductive: a
  session that is only `cancelled` is marked `expired` by the next sweep, so the invalidated link is what must be kept.
* `ReportsAreComplete`, under `OneRequest` and `NothingReopens` (no sweeps, or no link issued again): `Spec => []ReportIsComplete`, with any
  number of workers that die and retry. `ReportInv`: an ended interview without an evaluation has a job queued, lost, held by a worker, or about to be scheduled by
  the handler that ended it; an evaluation is of an ended interview and all its answers (`AttemptOK`); a worker that evaluates has every answer (`WorkerOK`), and what a
  handler read still holds when it decides on it (`RequestOK`). `InterviewReopened` is the run that breaks it when a swept interview is
  issued again.

The slots of the three interview theorems are reduced to a table: `Writes` lists the eight kinds of change a handler's save makes to a session, `ProceedWrites`
shows every handler makes one of them, and the invariants look at the table only. Workers, which do overlap with each other and with the
handler, write nothing but an evaluation (`Evaluates`).

The last part of the file is about what goes on within one attempt, and stands alone (`Turns`):

* `InterviewTurns`: `InterviewIsTyped`, `InterviewsAreRun` (`InstrumentIsRun`, and more: whoever completes was put every required question that was not talked
  over), `GapsStayUnscored` (`GapsAreNotScored`), `InterviewsAreBounded` (`InterviewIsBounded`), together `InterviewsAreConducted` (`InterviewIsRun`). `InterviewInv` is about the record `ai`, and a handler composes up to
  four changes of it before it saves, so each helper has a lemma that it keeps the invariant (`ItemsArePut`: an item marked asked has its turn;
  `FreshArePending`; `BudgetIsReserved`: what is left of the budget covers the required questions still to be put; `TurnsAreCounted`: each turn
  of the interviewer is paid for by a count or by the one before it; `GapsAreKept`). The bound on what is said is a comparison of cardinalities of turns by kind.

### Money and mail: `BillingProofs`, `MailProofs`

`Billing` and `Mail` are about any number of handlers of any process, overlapping freely. Their only hypothesis, `Bounds`, says what the modules' bounds
are (natural numbers, at least one attempt; an inline mail's attempts, 2 in the code, fit the field that counts the queue's 3).

* `Billing`: `TypeCorrect`, and `BillingStaysExact`: `Spec => []BillingIsExact`, with crashes. `ChargeInv` adds that the gateway reports
  as captured only what it charged, that whoever is issuing an invoice deals with a charged order, and whoever provisions with an invoiced one
  unless a payment was `waived` (a history variable: a superadmin set the status of a company that had not paid, or billing is not enforced):
  an order is believed from the gateway's signature or report, and never from the state of the payment. `ReminderInv`: today's reminder is
  out, or one worker holds the stamp for it, or nobody does; the stamp is written by the conditional update that reads it.
* `Mail`: `TypeCorrect`, and `MailStaysAccountedFor`: `Spec => []MailIsAccountedFor`. The invariant is about one mail and what concerns it:
  `Holding` (a request that has it: its log is fresh, the queue has no job for it, the provider took it if the request says so), `Worked`
  (the queue's attempts against the log's), `Logs` (copies against faults), `Tracked` (who will settle it). Two lemmas, `Handled` for a step of
  a request and `Delivered` for one of the queue, prove that a step about one mail leaves the others as they were; each action then shows
  only what it does to its own. That copies never exceed faults by more than one holds because the state in which a
  mail may be sent again is only reached, after a copy was taken, through a lost write or a dead worker.
* `Inbox`: `InboxIsTyped`, `BadgesMatch` (`BadgeMatches`, which is inductive with the types).

### Beside and inside the interview: `InterviewProofs`

Each part of the file instantiates one module under the name `MCInterview` gives it (`Graph`, `Panel`, `Rubric`, `Acts`, `Report`; `Rubric`, which
`Services` checks, stands beside the scorecards because both need sums, and what is filed, metered and heard by the voice worker stands in `ServicesProofs`, which needs none),
with nothing assumed of what overlaps unless it is said.

The file begins with sums. The models add with the folds of the community modules, whose definition recurs over a set through a CHOOSE. That such a recursion has a
value (`FoldsExist`) is shown by a table over the subsets of a finite set, built up one element at a time; from it follow that a sum does not depend on the order, what one element
adds, and that sums of larger terms are larger. Each is proved by a least counterexample among the subsets (`SmallerFirst`, `OneByOne`), because the library's induction theorems take an operator.

* `Claims`: `VerdictsOfTheInterviewAreEarned` (`VerdictsAreEarned`) and `VerdictsOfThePanelCount` (`SubmittedVerdictsCount`), with crashes. `ClaimInv` follows a
  verdict from its probe over the copy that carries it to the graph (`Carried`, `ProbesAreEarned`, `DeclinedAreSettled`, `VerdictsAreSaved`, `ClaimsAreEarned`), and a card's
  verdict from its submission (`VerdictsAreBorne`, `CardsAreBorne`). Hypothesis: the panel, the runs and the two machine readers are different workers.
  `ScoresMoveAsClaimsDo` (`EachScoreFollows`): `ScoreInv` says that every score stored or on its way is of the findings and the claims it was computed on (`ResultHolds`), and that one computed again is of the same
  screening (`OfScreening`, `MatchesHaveGraphs`), so that two scores differ only in the claims. That the score then moves with them is arithmetic: the best of a requirement's evidence grows (`BestGrows`), so do its points
  (`PointsGrow`), their sum and what is rounded of it (`ScoreGrows`). `DifferencesComeOfClaims` (`ScoresFollowTheClaims`) and `EvidenceStaysEarned` (`EvidenceIsEarned`, all of it) suppose one run of the screening, as
  the run does: after a second one the two scores a recruiter sees side by side may be of different readings of the résumé (section 6).
  `ClaimsAreTyped` bounds the score: points are at most 20000 for each hundredth of weight (`PointsAreBounded`), and the weights are shares of one whole
  (`WeightsAreShares`, `normalizeWeights`), so a score is of a hundred (`ScoreIsOfAHundred`) whatever the claims become; what the gate leaves of a finding is again one a screening can have (`GateKeepsFindings`).
* `Scorecards`: `CardsAreAlerted` (`OneOpenCard`, `AlertsAreDue`). `PanelInv` adds what a request read of its card and that a link is its card's. `RatingsAreFair` (`SilenceIsNeutral`, `BetterIsNoWorse`) is about the
  rollup: a weighted mean lies between the least and the greatest of what it is a mean of, and better ratings of the same criteria give no smaller a numerator over the same denominator. `RubricHolds` asks for weights of at
  least one hundredth, which is what `WeightsFollowTheLadder` leaves no criterion below. `CardsStayFair` (`CardsAreFair`) is both;
  `CardsAreTyped` follows, since a mean between ratings is within 0 and 100 (`ScoresAreScores`).
* `Rubrics`: `RubricIsTyped`, `WeightsFollowTheLadder` (`WeightsAreTheLadder`), for any labels. `RubricBounds` says the unit is at least eight times the number of criteria (the code keeps doubles, and no more
  than 20 criteria, `MAX_CRITERIA`). The shares are rounded down, so what is left for the heaviest is at most the number of criteria (`SharesAre`); a heavier tier's share is larger by more than the rounding (`HeavierHasMore`), so adding the rest
  to the heaviest changes no order, and normalising what adds up to the unit changes nothing (`ApprovalMovesNothing`).
* `TurnActs`: `ActsAreTyped`, `SpokenAnswersAreKept` (`WordsAreHeard`), for any sentences, and turns of any length. `ActsInv` adds only the type of what is recorded; the argument is in the lemmas: a
  sentence of substance is classified as content (`SubstanceIsContent`), a turn with content is neither an act nor declined (`ActsAreNoAnswers`, `DeclinesAreNoAnswers`), and of what is cut off
  with a request to end only short sentences carry anything (`KeptBeforeWithdraw`). What a reading may take is bounded by cases: a request found by its fixed phrases leaves no more than eight words beside them, however often
  they were repeated (the code strips every occurrence before it counts), one a model read is at most 25 words in all (`ReadingsAreBounded`).
* `Reports`: `ReportsAreTyped`, `ReportsStayFair` (`ReportsAreFair`), for any requirements, events of the catalogue, indicators, and any number of turns, pieces and periods. `ReportBounds`: some requirement weighs at least five thousandths, below which a bucket's weight rounds to nothing (20 criteria
  that weigh 1 together have one of fifty), months are counted from 0. There is no concurrency here; it is all computation. `NobodyFailsForAFault`: the verdict goes by counts of attempted and of responsive turns, and a turn that was declined or not
  heard is taken out of the sequence by a bijection (`OthersAreAsMany`), so the counts without it are known. `SharesAddUp`: each requirement is in one bucket, and the points that rounding leaves go round by the largest remainders (`PointsGoRound`). `MonthsAreWorked`: the
  months added up are the size of what the periods merged so far cover (`MonthsAreTabled`). `OnePieceAtATime` has one lemma for each piece the record can grow by: a rung moves by one and only with an answer that counts (`RungIsTabled`: the direction is that of the last
  answer that counted), an event never lowers a risk (`RisksGrow`), a sign moves its own axis its own way (`StarsByShare`: shares compared by
  cross-multiplication).

### The services: `ServicesProofs`

The same for `MCServices` (`Versions`, `Applying`, `Form`, `Model`, `Session`, `Profile`, `Dashboard`), and beside the interview for `Filing`, `Windows` and `Voice`.

* `Approvals`: `VersionsAreTyped`, `ApprovalsAreNeverLost` (`ApprovalsHold`). Hypothesis, besides bounds: only question sets and personas are approved while another request
  is at work, as section 7 assumes. `VersionInv`: who has archived the approved version holds the one that takes its place (`SomeoneStays`, `RetiredWere`), a request's version is still in the state it read
  (`VersionsFit`), a source has one draft (`DraftsAreSingle`).
* `Applications`: `ApplicationsAreTyped`, `ApplicationsKeepTheirResume` (`ApplicationsAreSelfContained`): `NumbersAreGivenOnce`, and `CopiesAreKept`, a file that was copied for an application is
  not the library's to delete.
* `Autofill`: `FormIsTyped`, `TheFormIsHonest` (`AutofillIsHonest`), for any facts and any identities. `FormInv`: whatever is offered, from the library, a version or the screen, quotes the file and nothing hostile, and says why when it is no
  reading (`OffersSpeak`); an outage that can be told has begun (`OutagesAreCounted`). An entry claims the first suggestion that is free (`MatchIsFree`), so no suggestion is claimed twice (`ClaimsAreOnce`) and there are as many entries of autofill as
  suggestions claimed: `CountsAddUp` is a comparison of cardinalities.
* `Gateway`: `GatewayIsTyped`, `OutagesAreToldOnce` (`OneAlertPerOutage`, `NobodyIsLockedOut`), `UsageIsBilled` (`MeteringIsTrue`). `LatchKept`, `BreakerKept` and `ProviderKept` are about the shared cells, `RepliesKept` and
  `CostsAreCovered` about what each call has had. `TheVoteIsHonest` (`MostSamplesDecide`), where calls are numbered: every sample holds an answer of the provider's or of the cache (`AnswersHeld`), and the vote takes
  the first of the most frequent (`VoteIsDecided`, a comparison of cardinalities). `TheGatewayIsHonest` (`GatewayIsHonest`) is all of them.
* `Accounts`: `AccountsAreTyped`, `SessionsStaySingle` (`SessionsDoNotFork`). That a family has one live token is not inductive, because a rotation retires the old token before it
  issues the new one. `ForkInv` adds the requests in between: a family has one live token, or one request that claimed it and has not replaced it, and never two of either.
* `CandidateProfile`: `ProfileIsTyped`, `AnswersStayKept` (`AnswersAreKept`): a copy is never ahead of the document, and one of the same version has its arrays. `OffStaysOff` (`ProfileHolds`, which adds
  `OffMeansOff`), for finitely many jobs and sweeps: with auto-apply off, what it applied to since and what the sweeps under way have still to come (`StillToCome`) are together no more than one limit each (`OffInv`).
* `NextActions`: `DashboardIsTyped`, `TheDashboardTellsTheTruth` (`DashboardTellsTheTruth`), for any length of the windows; the invariant is only `LinksAreDated`, a marked session's link ended before now.
* `InterviewEvidence`: `EvidenceIsTyped`, `EvidenceIsKept` (`EvidenceHolds`), in all lanes. `EvidenceInv` says where an uploaded chunk is: in an object named by the session, in one
  that a stitching holds, or on its way to a row; and that a silence counted in a copy is one that happened.
* `RealtimeWindows`: `WindowsAreTyped`, `WindowsAreBilledOnce` (`BilledOnce`). A window may be opened more than once, because a request that saves the whole interview writes back one that was metered meanwhile; `opening`, a history variable,
  counts how often. `BilledInv`: a bill is of an earlier opening, or of the present one and that is metered, and the conditional update bills only what is not.
* `VoiceLoop`: `VoiceIsTyped`, `AnswersKeepTheirQuestion` (`AnswersStayWithTheirQuestion`), for any number of calls in flight. `VoiceInv`: a copy is a beginning of what is stored, and all of it
  under the stored version (`IsBehind`); between an answer and the turn it was given to stands no question (`StaysWith`). A reply may be
  saved over turns its call has not read when no approved question goes with it; then it may stray, and the property says when (`Strayed`): a question that needs no version, one of the interviewer's own or the warm-up,
  stands somewhere behind the answer's question and no later than right behind the answer. A copy that has all approved questions knows there is none left to ask, which is why `IsBehind` speaks of it. That such answers exist TLC shows (section 5).

Where a run's property is a conjunction over parts (`RealtimeIsExact`, `DocumentsHold`, ..), the theorems are about each part's own definition in the component's module.

### What proving found in the models

Proving is also a reading of the models, and several were put right by it. A CASE whose conditions overlap leaves TLA+ free to take either branch: the tables of `Reports`, `Rubrics` and `TurnActs` are disjoint now, or IF chains in the order of the
code. Sorting by a key that can tie is a choice as well: periods with equal starts are taken by their index, as the code's stable sort does, and suggestions in the document's order. `ReadingsAreBounded` was once stated in words per turn and
was false: a request repeated until it passes 25 words is still a request.

### Only model-checked

Every invariant and every action property that a passing run checks is proved, part by part, under the restrictions named. What stays with TLC:

* Every liveness property, with the fairness it needs: outside the prover's fragment.
* What the runs that expect a violation refute (section 6), and what the code does where a theorem's restriction does not hold (section 5): counterexamples, which only TLC shows.
* What a fold of the community modules computes in general: of sums and maxima only the facts the theorems need are proved, through the tables above.

## 5. Overlaps the code does not survive

Writing the models turned up overlaps after which a promise stated in the code's comments does not
hold. The properties are those of the modules; those marked (run) are kept as runs, the others are
reproduced by giving the constants below to the module's MC file (kinds are defined there). All other
constants are as in the runs above.

| Property | Instance | What happens |
|---|---|---|
| `StageMovesAreLegal` (run `HiringRescoreReject`) | one request, one application, `Rescore`, `AutoReject` | a repeated screening that fails sets an application back to rejected from any stage, a hire included |
| `ReportIsComplete` (run `InterviewReopened`) | one request, one worker, `ReopenKinds` | the finalization queued by a sweep runs after the candidate came back; the real end finds an evaluation and stops |
| `ReleasedOnlyWhileClosed` (run `CapacityRepublish`) | one request, `PublishKinds` | publishing a closed job again saves it and throws before its candidates are put back |
| `AnswersSurvive` (run `RecordingDropsAnswer`) | `MCInterview`, part `recorded` | a recording chunk writes the interview back without the answer stored meanwhile |
| `AnswersNeverStray` | `MCInterview`, part `voice` | a question of the interviewer's own needs no version: a repeated submit that read the session before the first was saved leaves its answer behind the next question, and asks another (`voiceAgentService.js:576`) |
| `WindowsBilledOnce` | `MCInterview`, part `windows` | a reconnect's mint, or a recording chunk, read before a window was metered saves the whole interview after it and erases the stamp (`livekitController.js:142-143`); the next report bills the window again, though "whichever arrives first wins and the other no-ops" (lines 175-176) |
| `OnlyLatestIsOpen` | `RetiredKinds`, two attempts, two links each | the candidate's own resend revives a cancelled attempt |
| `OnlyLatestIsOpen` | two requests, two attempts, `OverlapKinds` | a resend loaded before a reschedule retired the attempt issues its link again |
| `ReportIsComplete` | two requests, `OverlapKinds` | an answer loaded before another completed the interview is pushed into the evaluated session |
| `CompletedIsFinal` | `AssessmentSession`, two requests, `CancelKinds` | a cancel loaded before the submit was saved cancels a completed session |
| `OneSectionAtATime` | two requests, `SectionKinds` | two starts both loaded before either saved leave two sections running |
| `PauseCostsNothing` | two requests, `PauseKinds` | a second flush moves `pausedAt`, the resume shifts the clock too little |
| `SavedAnswersAreScored` | two requests, `AnswerKinds` | an answer is pushed into a session already scored |
| `ExpiredMeansUntouched` | two requests, `ExpiryKinds` | the sweep expires what the candidate just started |
| `AttemptsAreNotKilled` | two requests, `MoveKinds`, target `rejected` | a stage move cancels an attempt begun after its find |
| `SectionClockIsExact` | one request, `AllKinds`, `Validity = 2` | a cancelled sitting that is resent comes back with the clock of its section having run on |
| `TerminationIsHuman` | one request, `PauseKinds`, `SoftLock = "auto_submit"` | the soft lock ends the session by itself, which the model's comment rules out |
| `FullJobIsClosed` | `JobCapacity`, two requests, `PublishKinds` | a publish counted before the last acceptance saves after its reconcile |
| `CountersAreExact`, `FullJobIsClosed` | one request, `AllKinds`, `Failures` | a handler dies after the move was saved and before its reconcile |
| `OffersKeepTheirPlace` | two requests, `LifecycleKinds` | a move to an offer keeps an exit its copy did not have |
| `DeletedRoleHasNobody` | one request, all kinds | close, delete, move: the closing's exit shields from the deletion's |
| `StageMovesAreLegal` | `HiringPipeline`, two requests, `MoveKinds` | two moves validated on one old stage |
| `OfferMatchesStage` | two requests, `MoveKinds` | a rejection loaded before the offer leaves it sent |
| `AwaitingMeansScheduled` | two requests, `MoveKinds`; or one, `ScreenKinds`, `Rescore` | the satellites of two moves in the other order; a rescore queues whoever it finds |
| `DecidedKeepTheirPlace` | two requests, two applications, `MoveKinds` | two hires of one person close each other |
| `OpenItemsAreUndecided` | one request, `ScreenKinds`, `Rescore` | a rescore that passes leaves the first one's item open |
| `ScheduledMeansInvited` | one request, `Failures` | a handler dies after the stage was saved; the move cannot be repeated |

Overlaps seen while modelling that no property states: two approvals of a rubric, or of a paper, that run together archive each
other (`rubricService.js:245`, `assessmentPaperService.js:335`), which section 7 leaves out of the model; two of a question set may
leave two versions approved, of which the newest is used; two requests may stitch one recording
(`interviewRecordingService.js:161-167`); careers slugs are allocated by
check-then-act, and the unique index refuses the loser.

## 6. Where the code and its comments disagree

Definitions the modules keep because a comment or a document states them; the code does not satisfy them. Each is
reproduced by giving `Parts` the value shown in the run's cfg and listing the one definition.

| Definition | Parts | The code, and what it says of itself |
|---|---|---|
| `RankedJobsMatch` (`MCServices`) | `{"profile"}` | `candidateRecommendations.js:44` gives a full skill score to a job that names no skills; lines 55-58 say such a job is not ranked by them |
| `OfferedIsNotOwn` | `{"autofill"}` | `candidateController.js:272-276` attributes fields "against the suggestions this résumé was offered"; it reads the cache as it is at submission (lines 138-151, 278), so a reading that was never saved or was replaced makes every accepted field the candidate's own |
| `FailureIsNotKept` | `{"autofill"}` | a saved version keeps a failed reading (`candidateController.js:174-183`); `models/Resume.js:19-23` says it is recomputed |
| `GatesAreNeverCreated` (property) | `{"rubrics"}` | `rubricService.js:178` lets an edit make a disqualifier; lines 158-160 say none is ever created that way |
| `DetailIsNobodys` | `{"careers"}` | `jobController.js:236-249` caches one candidate's "already applied" with the job's public detail |
| `HierarchyIsKept` (`MCInterview`, property) | `{"claims"}` | `assessmentService.js:687-710` and `probeService.js:285` replace a person's verdict; `models/ClaimGraph.js:36-41` says they never do |
| `DeltaIsTheInterviews` | `{"claims"}` | `candidateController.js:808-809` calls the difference of the two scores "the score changed because the interview proved something"; the second score is computed on all that is known, so an assessment's verdict alone moves it, and a rerun pairs it with a screening it was not computed from |
| `UnknownIsNoWorse` | `{"integrity"}` | with the identity unknown `candidateController.js:1302-1308` reads the band off the score, so browser events alone show "medium"; `proctoring.js:199-204` says they stay low |
| `WeakerIsNotProven` | `{"reports"}` | `interviewReportEngine.js:364-366`: probes of one requirement "resolve to the worst outcome", and so does its cell; its bucket goes by any verified probe (lines 335-337), so with one verified and one inconclusive a requirement the résumé had verified is shown as weaker and counted as proven |
| `RepeatsMoveNothing` | `{"reports"}` | `interviewReportEngine.js:651-654`: repeats "must not reach a verdict in either direction"; `reportPresentation.js` serves REVIEW for every suppressed advice, and two repeats suppress it |
| `OpenInterviewsAreUndecided` | `{"reports"}` | a report opened while the interview runs and nothing was answered yet reads "CLEAR_REJECT", High confidence, advice "Reject": no status of `computeVerdict` covers it |
| `ApprovedIsHeard` | `{"turns"}` | an approved question that was talked over counts as asked (`aiInterviewService.js:1727`) |
| `InterviewTurns!IntroductionIsUnscored` | - | with no approved question the name's answer may be scored as one; constants `Must = Probes = Anchors = {}`, `MaxQuestions = 2`, `MinQuestions = 1`, `MaxFollowUps = 0`, `ClosingLength = 1`, `MaxSide = 1`, `MaxTalkedOver = 0`, `Endings = {"abandoned"}` |
| `Mail!EveryFailureIsTold` | - | `emailDispatchService.js:5-9`: a mail whose log could not be written fails without an alert; `notificationService.js:25-36` |

Also met, and stated by no definition: `publishJob`, `updateJob` and `deleteJob` throw a ReferenceError after their save
(`jobController.js:320`, `366`, `381`); erasing a candidate leaves assessments, scores and claims (`candidatePurgeService.js:1-4`,
`dataRightsController.js:98`); the candidate's own resend reopens an expired session, though `candidateNextActions.js:91` says only the
hiring team can; a credit probe is not the one call its comment promises (`llmService.js:165-168`, `183`); pages may be 2 x 60 s old;
quality flags of a rubric are not computed again after an edit; two entries of one identity that a candidate swapped count as edited; words
held back for a "repeat" make a second reply without evidence read as a repeat again; approved phrases (`intentPhraseService`) reach the
client's policy only.

## 7. Assumptions

* `sendAssessment` and `createInterviewSessionIfNeeded` find and create in one step; both are protected by a
  unique index, and the loser's error is the handler's.
* `EditSave` waits for the release it starts; the code does not, but reconciling reads none of what the
  release writes.
* `Approvals`: a recruiter's requests on a rubric or a paper are taken one at a time, and a version is approved once at a time
  (section 5 says what happens otherwise); question sets and personas overlap.
* `Mail`: the failed-event handler's write lands before the back-off (5 s and more) ends.
* `Scorecards`: requests about one card are taken one at a time.
* `TurnActs`: one trigger phrase a sentence, of four words; the worker keeps its words buffered when a call fails
  (`voiceAgentService.js:564-565`); the portal's side answers (already answered, about the interview) are left out.
* `InterviewEndings`: the candidate's own resend is left out, for it breaks what the run checks
  (`OnlyLatestIsOpen`, section 5).
* `Claims`: one claim supports its criterion once; the quality gate's critic is nondeterministic; the probe cap
  is not reached.
* `Gateway`, `Billing`, `Publishing`, `RealtimeWindows`: provider, payment gateway, boards and LiveKit are external and may answer late, twice or never,
  as the code expects of them.

## 8. Not modelled

* `stageHistory`, audit entries, the text of notifications and mails: written beside the state modelled and read by
  none of its decisions.
* Assessment assembly and item generation, calibration and drift statistics: arithmetic without state, or sums of real
  numbers; the totals a session scores over are a nondeterministic outcome.
* Quota per company (`quotaService.js`): it counts other collections and keeps nothing; two starts at the last unit both pass.
* Screening queues: they add retries, which are repeated screenings in `HiringPipeline`.
* Tenant scope, routes, bootstrap, scripts: a query filter and wiring.
* The in-process fallback of the finalization without Redis; device checks, speech synthesis, transcription, object
  storage, PDF layout: I/O.
* The prompts and what a model makes of them.

## 9. Plan

1. Proofs: the screening run twice (`DifferencesComeOfClaims`). Properties of reset links and one-time codes in `Accounts`.
2. `VoiceLoop` over `InterviewTurns`: the calls of the worker composed with the real choice of the next question.
3. Abstract specifications beside `AssessmentPromise`: an account of single-use secrets for `Accounts`, `Scorecards` and `InterviewSession`; a
   counter that is never overdrawn for `RealtimeWindows` and quota.
4. Assessment assembly and scoring against reference definitions over bounded papers.
5. The company's setup drafts and the erasure requests' records.
