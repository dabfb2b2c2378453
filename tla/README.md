# AIDeal: TLA+ models of the intake-to-review workflow

TLA+ modules, TLC configurations and TLAPS proofs about the program in this repository: a
multi-tenant deal-intake system made of a NestJS API (`apps/api`), a database-polling worker
(`apps/worker`), a Next.js front end (`apps/web`) and a small Python scraper
(`apps/research-scraper`), all meeting in one Postgres database (`packages/db/prisma`).

Contents: [inventory](#inventory) · [how the code is abstracted](#how-the-code-is-abstracted) ·
[modules](#modules) · [runs](#runs) · [fairness](#fairness) · [proofs](#proofs) ·
[where the code disagrees with its documentation](#where-the-code-disagrees-with-its-documentation) ·
[not modelled](#not-modelled) · [plan](#plan) · [running the checks](#running-the-checks)

## Inventory

| Component | State | Operations | Talks to |
|---|---|---|---|
| Job queue (`worker/src/job-processor.ts`, `api/.../jobs.service.ts`) | `jobs` rows: status, attempts, availableAt, leaseToken, leaseExpiresAt | enqueue, operator retry, recovery sweep, claim, heartbeat, complete, retry or fail with announcement | every handler; the outbox |
| Handlers (`job-processor.ts`) | deals, documents, extractions, AI runs, research reports, SOP evaluations | `intake.finalize`, `document.extract`, `ai.generate`, `research.collect`, `sop.evaluate`, and the settling writes after a final failure | job queue, providers, internal API, outbox |
| Notification outbox (`worker/src/notification-outbox.ts`, `notifications.ts`) | `notification_outbox` rows, `notifications` rows | publish, claim, deliver, retry, dead-letter, recover, replay | producers in API and worker |
| Deal lifecycle (`api/.../deals.service.ts`, `internal-deals.controller.ts`) | deal status, status history, audit log, outbox rows | review (four actions), review-ready command, direct `failed` writes of the worker | reviewers, worker |
| Intake session (`api/.../intake-forms.service.ts`, `web/.../public-intake-wizard.tsx`) | session (draft answers, status), submission, stored objects, what each tab shows | load, save, presign and upload, confirm, submit | bucket, job queue |
| Evidence review (`api/.../intake-submissions.service.ts`) | research reports, evidence decisions in the audit log | review evidence, rerun research, accept gate | job queue, deal lifecycle |
| SOP evaluation (`worker/src/sop-evaluation.ts`) | evaluations; score, rating and recommendation of the deal | evaluate, stand down for a newer evaluation | research, evidence decisions |
| Upload verification (`api/.../r2-storage.service.ts`) | none of its own; the bucket's object | presign, HEAD, ranged reads of the object | intake session, bucket |
| Public rate limiter (`api/.../public-rate-limit.service.ts`) | a Redis key with expiry, a counter per process | count a request, admit or refuse | Redis, every public route |
| Research scraper (`research-scraper/main.py`) | text caches in Redis and in the process, next instant of a domain, fetch permits | extract (one thread per request) | worker, Redis, web sites |
| Workspace provisioning (`organizations.service.ts`, `workspace.guard.ts`, two pages) | users, organizations, memberships, deal types | guarded visit, bootstrap transaction and its recovery | Clerk, browser |
| Schema scripts (`packages/db/scripts`) | the database schema itself | upgrade, patch, job and bootstrap scripts, statement by statement | operator, the running release |
| Migration wrapper (`run-prisma-migration.ts`) | nothing but what the lead has approved | check, print a fingerprint, run Prisma | operator |
| Documents, catalogue CRUD, notifications read side, usage events, guards, web pages | one or two tables each | single requests | – |
| AI adapter, text extraction | none (providers) | calls that succeed or fail | handlers |

What is hard here, component by component, and what makes the component correct:

* **Job queue.** Workers poll, claim with a conditional write, and are recovered when a lease
  expires, perhaps while they still run. Correct means: one holder per job by the row's token;
  every terminal write fenced by it; a failure only with the budget used up; every job settles,
  whoever dies; announced outcomes are true.
* **Outbox.** At-least-once delivery out of a transaction. Correct means: a delivered mark only
  with a notification; nothing given up early; a dispatcher that lost its lock ends nothing;
  every event is notified if the faults are fewer than the attempts.
* **Deal lifecycle.** Read, decide, write later. Correct means: history, audit and outbox commit
  with the status; every recorded move is legal; whoever changes the status leaves its record.
* **Intake session.** Overlapping requests from several tabs, late and lost answers. Correct
  means: one acceptance, atomic with its job; and what the wizard adds to it has been verified.
* **Handlers.** Non-atomic chains of writes, retried as a whole. Correct means: the packet waits
  for the documents; a decision has its reason; a deal that is being processed gets one.
* **Evidence and SOP.** Decisions, reruns and re-evaluations race. Correct means: the stored result
  catches up with the evidence, an overtaken evaluation stays behind, no acceptance over open
  evidence, and a scoring in which more evidence never hurts and the reviewer's word counts.

* **Uploads.** An archive is verified from fragments of it. Correct means: the verdict on an
  object that nobody replaces is right, both ways.
* **Limiter and scraper.** Counting and spacing over a Redis that may lose a command, an answer or
  itself. Correct means: a budget is neither exceeded nor denied, a hit is too old by the duration of
  its own lookup at most, the instants given out lie apart, and nobody is refused or kept waiting for ever.
* **Provisioning, scripts, wrapper.** Overlapping first visits; scripts that die between two
  committed statements while the old release writes; a shell that changes between two commands.
  Correct means: everything exists once, a script that reports success has succeeded and can
  always be repeated, and no database is opened that nobody approved.

`PROJECT.json` lists each hazard at its source line, with the properties that cover it or the
reason why none does.

## How the code is abstracted

* **One database statement (or one transaction) is one action.** Between two statements of a
  handler any other process may run. The exception is a statement nobody else can observe
  before the next one: `document.extract` marks the document and its extraction row in two
  writes, and readers look at the second only through the first; `evaluateDealSop` adds an evaluation
  row, which no modelled step reads, before it updates the deal (`Store`), and an error between the two
  is a `Throw` before it. The write that completes a job is inside the handler's `try` and can throw too.
* **Clocks become the comparisons the code makes.** `availableAt <= now` is membership in `due`,
  an expired lease membership in `lapsed` or `expired`; the `ORDER BY availableAt` of the claim
  query is a relation between due jobs. A lease can lapse under a live holder ("stall").
* **Postgres at READ COMMITTED.** An update by id takes the row lock and is applied to the row
  as it then is. A unique index makes a second insert wait for an uncommitted first one and then
  fail. A failed statement **aborts the surrounding transaction**: the code catches Prisma's
  `P2002` inside interactive transactions (`notifications.service.ts:106`, `notifications.ts:62`,
  `notification-outbox.ts:92`), but Postgres answers every later statement with an error and
  COMMIT with a rollback. The clients use the pooled driver with real interactive transactions
  (`worker/src/main.ts:14-25`), so the models do the same: a duplicate followed by another
  statement is an exception, a duplicate in last place is a silent rollback.
* **Payloads** (answers, texts, prompts, titles) are dropped. Documents, jobs, tokens and keys are
  members of small sets.
* **Bounds** on faults, runs and retries are constants that appear in the guard of the action
  they bound and nowhere else; each is listed with its run.

## Modules

| Module | Models | State ↔ code |
|---|---|---|
| `JobLease` | what the queue promises, without tokens, polling or time: only the worker that holds a job's lease settles it, hands it back or renews the lease | `phase` (row status, `leased` for running), `holders`, `over` (leases that ran out), `task` (what a worker goes on with, holder or not) |
| `JobQueue` | `JobProcessor.processNext/process/claim/recordFailure/recoverExpiredLeases`, `renewJobLease`, `JobsService.enqueue/retry` | `status, attempts, token` are columns; `lapsed, due, earlier` the clock comparisons; `pc, claim` a worker's position and its in-memory `JobRecord`; `record` the domain row a handler writes; `retried, failures` the outbox events |
| `NotificationOutbox` | `publishWorkerNotification`, `NotificationOutboxDispatcher` | `status, attempts, lockedBy` are columns; `notified` the committed notifications; `incarnation` the random worker id of each process start |
| `DealLifecycle` | `DealsService.transition/review`, the internal command, the finalizer's first status, the worker's `failed` writes | `dealStatus`; `history` (each entry with its audit row); `outbox` keys; `stage, call` a request and what it has read; `reply` what it was told |
| `IntakeSession` | the wizard's requests and `getPublicSession … confirmUploadedDocument` | `draft, sessionStatus, submission` are columns; `shown, readOnly` the tab's React state; `step, body` requests in flight; `uploaded, verified` the bucket; `foreign` what clients other than the wizard have listed |
| `DealPipeline` | `IntakeFinalizationHandler`, `DocumentExtractionHandler`, `queueDealPacketIfReady`, `AiGenerationHandler`, `queueResearchIfConfigured`, the settling part of `recordFailure` | `deal, document, text, run, reports` are rows; `job, attempts, holder` the queue, by its contract; `pc, task, made, failing` a worker |
| `EvidenceReview` | `evaluateDealSop`, the end of `AiGenerationHandler`, `ResearchHandler`, `SopEvaluationHandler`, `reviewResearchEvidence`, `rerunResearch`, the gate of `reviewDeal` | `report` is the research reports by `createdAt`, `decision` the audit entries a reader would pick, `stored` the evidence behind the deal's rating; `lock` the advisory lock; `job, holder` the queue, by its contract; `work, call` what workers and requests have read; `version` dates it |
| `SopScoring` | `evaluateSop` as operators, and the calls of it for one deal | `template` the rules, `evidence` what the latest evaluation has collected; decisions and settling documents change the latter |
| `UploadVerification` | `createPresignedUpload`, `validateUpload`, `verifyUploadedObject`, `findRequiredDocxEntries`, `localHeaderDataOffset` | `object` is what the bucket holds, a file with the numbers and names of its archive directory; `declared` the browser's claim; `phase` the next read; `tail`, `entries` what the reads have returned |
| `PublicRateLimit` | `assertAllowed` for one key | `count, ttl` the Redis key; `local` the counters of each process; `stage, seen` a request; `current, granted` date a request and count admissions within one life of the key |
| `ResearchScraper` | `extract_source`, `wait_for_domain`, `redis_command` for the URLs of one host | `shared, cache` the two caches; `rateKey, nextRequest` the two limiters; `free` the permits; `since, wait, textAge` a thread's clocks, as durations: the clock read, the GET to Redis and the look at the process cache are three steps (`TakeUp`, `AskShared`, `LookLocally`) |
| `Workspace` | `WorkspaceGuard`, `getCurrentWorkspace`, `bootstrapOrganization`, `provisionWorkspace`, `requireWorkspace` and the bootstrap page | `email, slug` the unique columns of a sign-in; `users, orgs, member, starters` committed rows; `step, saw, open` a visit and its transaction |
| `SchemaUpgrade` | `upgrade-bootstrap-schema.ts`, `patch-notifications.ts`, `bootstrap-jobs.ts`, `bootstrap-neon.ts` with `init.sql`, the five migrations | a script is a sequence of `Statement`s; `schema, bad` the database, `history` how many migrations it has recorded; `script, next` what runs |
| `MigrationWrapper` | `run-prisma-migration.ts`, `prisma.config.ts` | `approved` fingerprints; `migrated` the last command and the database it opened |
| `JobQueueProofs`, `DealLifecycleProofs`, `NotificationOutboxProofs`, `DealPipelineProofs` | – | theorems of the module they are named for |
| `IntakeProofs`, `EvidenceReviewProofs`, `LimitProofs`, `ProvisioningProofs` | – | theorems of `IntakeSession` and `UploadVerification`; of `EvidenceReview` and `SopScoring`; of `PublicRateLimit` and `ResearchScraper`; of `Workspace`, `MigrationWrapper` and `SchemaUpgrade` |
| `MC*` | – | symmetry sets and finite inputs for TLC; `MCNotifications`, `MCIntakeSession`, `MCEvidenceReview`, `MCLimits` and `MCProvisioning` check parts that share no state side by side, one per behaviour, with a variable `running` that says which |

How they fit: `JobQueue` implements `JobLease`, and `DealPipeline` uses the queue by that contract
(`Claim`, `Complete`, `RecordFailure`, `LoseLease` are its grants, resolutions and expiries), so
that the handlers are explored without the polling. The outbox rows written by `DealLifecycle` and
by the handlers are the `Publish` of `NotificationOutbox`. `IntakeSession` ends where
`DealPipeline` starts: one submission with one `intake.finalize` job. `EvidenceReview` takes over at
the end of `ai.generate`, whose calls to `evaluateDealSop` and `queueResearchIfConfigured` it has in
full; its `stored` records which evidence the deal's result comes from, and `SopScoring` says what
result that evidence gives. `UploadVerification` is the step by which a file of `IntakeSession` gets
from `uploaded` to `verified`. A member's `queueExtraction` adds a second extraction of a document to
`DealPipeline`. `ResearchScraper` answers `collectResearch`, whose outcome `EvidenceReview` takes as any
set of sources. `PublicRateLimit`, `Workspace`, `SchemaUpgrade` and `MigrationWrapper` stand in front of
the workflow and share no state with it that a property needs.

Definitions whose comment starts with "Faulty variant" are not part of any specification. Each
replaces one definition by what a plausible mistake would make of it, and the property it is
paired with in `PROJECT.json` is violated by the replacement: evidence that the property looks at
the code.

## Runs

Each run finishes within about three minutes with two TLC workers.

| Run | Instance | Shows |
|---|---|---|
| `jobqueue` | 2 jobs, 2 workers, 2 attempts, 1 crash, 1 stall; symmetric jobs and workers | `SingleHolder`, the inductive `IInv` behind the proofs, and `FaultFreeAgreement`: without faults a settled job agrees with its domain row |
| `jobqueue_live` | 1 job, 2 workers, 2 attempts, 2 crashes, 1 stall, 1 operator retry | `ImplementsLease` (refinement), `EveryJobSettles`, `AnnouncedOutcomes`, `AttemptsAccounted` |
| `notifications` | Deal: 2 concurrent callers, 2 direct writes. Outbox: 1 row, 2 dispatchers, 4 attempts, one failure, crash, stall and replay each | `IntentMatchesHistory`, `HistoryExplainsStatus`; `DeliveredIsNotified`, `DeadLettersExhausted`, `NotifiedIsNotGivenUp`, `LockEndsByOwnerOrExpiry`, `EveryIntentNotified` |
| `intake` | Session: 2 tabs, 2 requests in flight, 3 files of which 2 are of the required type, at most 2 per submission, another client that lists one of them unconfirmed; symmetric tabs and requests. Verification: archives of 1 to 3 members of 4 kinds, with and without a comment, 9 ways of damaging one, plain files; 2 uploads, 1 outage | `UnverifiedAreForeign`, `AcceptanceIsAtomic`, `AcceptedOnce`; `VerdictIsRight` |
| `pipeline` | 2 workers, 2 AI runs, 2 attempts, up to 2 faults of any kind, 1 member's extraction, 0 to 2 documents each readable or not; documents, faults and requests together at most 3 | `PacketWaitsForDocuments`, `ReadyHasPacket`, `FailedForAReason`, `EveryDealSettles` |
| `evidence` | 1 source, 2 workers, 2 requests at a time, 2 reports, 3 queued evaluations, 2 events (a decision, a rerun, an acceptance or a fault of any kind); symmetric workers and requests. Scoring: 2 document types, 1 answer key, 5 weightings around the bands and the cap, templates without, with one and with all recommendations | `ResultCatchesUp`, `FresherEvaluationStays`, `GateHolds`, `OneCollectionAtATime`; `MoreEvidenceNeverHurts`, `ProceedIsEarned`, `EvidenceFeedsBack` |
| `limits` | Limiter: 2 requests at a time, 1 process, budget 2 in a window of 2 ticks, an outage, a lost message and a restart. Scraper: 2 threads that take one request after the other, 1 URL, 1 permit, 1 candidate per request, 1 failure of Redis, interval 1, key and cache lifetimes 2, a lookup of up to 1 tick | `WindowBound`, `RefusedOnlyWhenSpent`, `PatientClientAdmitted`; `LineIsTight`, `HitsAreFresh`, `EveryRequestAnswered` |
| `provisioning` | Schema: every legacy database with every set of bad rows, 1 crash, 1 late write. Wrapper: 3 targets that differ in host, port or database, all environments over them. Workspace: 2 visits of 2 users to 2 organizations with e-mails and slugs that are equal or not, 1 loss, 1 disabled member | `UpgradeSuffices`, `UpgradeCompletes`; `OnlyApprovedTargets`; `OneStarter`, `SameSignInGetsIn` |
| `deal_map`, `deal_trace`, `deal_rollback`, `pipeline_stuck` | as above, with the fewest faults that suffice | one documented claim each that the code does not keep (below) |

Why the bounds are enough. Two workers give every pairwise race and one crash or stall makes a
zombie meet its successor; the second crash of `jobqueue_live` hits the recovery of the first. Two
jobs exercise the claim order and the sweep over several rows. `maxAttempts` of 2 has a retry and a
final failure (production: 3, and 10 for the finalizer; the outbox 10). Tokens are as many as the
bounded faults can draw: `ClaimWrite` is never short of one. In `notifications`, four attempts outnumber
the one failure, the one crash, the one stall and the lost acknowledgement that can each cost an
attempt, which is what `EveryIntentNotified` assumes. The history in `DealLifecycle` is bounded
without a bound: each target's key is accepted once, so at most five transitions commit. Two
documents give both finishing orders and one readable, one unreadable; two runs are as many as two
workers can create concurrently; with one document there is room for two faults, or for one and a
member's extraction, with two documents for one of either. In `evidence` no behaviour asks for a
fourth evaluation; two events are a decision or a rerun beside an acceptance, another decision or a
fault, so that every pair of them meets at every point of the workers' steps. A third report is not
created: the rerun that would waits for good. The scoring starts without documents and decisions, of
which its steps bring every combination. In `intake` the archives are a few bytes long and the tail
that is read (65557 bytes in the code) is 8, so that a directory starts before, at and after the
beginning of the tail; an `ASSUME` of the run checks that the reference for sound documents
(`Proper`) covers the archives that are built the way a writer would. In `limits` two requests race
for the last place of a budget of two, and a window of two ticks lets one arrive between the other
and the expiry; two threads suffice for every pair of reserved instants and for a wait for the one
permit, and a lookup of one tick is half of a cache entry's life; threads ask again and again, so that one
candidate per request brings every order of candidates. In `provisioning` the databases are all that `UpgradeInit` names, so that every prefix of a
script meets every kind of row. `pipeline`, `pipeline_stuck`, `intake`, `evidence`, `limits` and
`provisioning` do not check deadlock: once every job is settled or every bounded input is used up,
the system rests.

`EveryDealSettles` and `FailedForAReason` name their exceptions: an orphan run, a crash in the
middle of the settling writes, a lease lost by a live worker and a member's extraction beside the
automatic one can each break the plain statement, and the code has no answer to them. `NoDealStuck`
is the plain statement and is violated. `ResultCatchesUp` needs no fairness: it is about the states
in which nothing is left to do. It exempts what nobody makes up for (`lost`): a decision whose
request broke off before it asked for an evaluation, a job that failed for good, a worker that lost
its lease and then died or threw in the middle of its writes, and a result replaced by the
evaluation of `ai.generate`, which takes no lock. `GateHolds` and `OneCollectionAtATime` allow what
may have changed between the read and the write of the request at hand, and nothing else.
`NotifiedIsNotGivenUp` is about behaviours in which no lock expires under a live dispatcher; the one in
which it does is below.
`AttemptsAccounted` counts the attempt that
a worker of the previous release had begun as one that was lost to a crash: rows of that release start
with any number of attempts up to `MaxAttempts`. `RefusedOnlyWhenSpent` holds without a lost message, outage or restart only: a command that is sent
again counts twice. `VerdictIsRight` is about an object that nobody replaces. `HitsAreFresh` grants a hit the duration of its
own lookup: `main.py` reads the clock (`:139`), asks Redis (`:143`) and compares the expiry with the clock
as it was (`:152`). `MaxLookup` bounds that duration; in the code it is a timeout per socket operation, not
a total. `EveryRequestAnswered` is about the time after the last new request (`NoTraffic`), here and at
the other processes: the `SET NX` poll (`:97-104`) and the permits have no queue, so that under lasting
traffic a thread can lose every race. It also excepts the thread that hangs in the read of a robots.txt
(`:124`), which has no timeout, and promises that such a thread holds up no other. `SameSignInGetsIn`
speaks of visits of one user to one organization; others can lose to each other and have to load the
page again.

## Fairness

* Workers: `WF(WorkerStep(w))`. `main.ts` polls in an endless loop with a one-second sleep, and a
  process that exits is started again by its supervisor; handlers end because every provider call
  either returns or throws. Strong fairness is not assumed: a worker may lose every race.
* Time: `WF(BackoffElapses)`, and `WF` of an unrenewed lease's or lock's expiry. Nothing forces the
  lease of a live holder to lapse.
* Limiter: `WF(LimitTick)` and the fairness of the requests in progress, and a client that keeps
  trying (`WF(Try)`), since the property is about such a client. Scraper: `WF(ClockTick)` and
  `WF(PromptStep(t))`, the steps of a thread whose calls end because they go to Redis or fetch the page with
  a timeout. `AskPolicy` and `Store` read a robots.txt without one (`main.py:124`), and no fairness is
  assumed of them; nor is strong fairness of taking the key in Redis or a permit. Operator of the scripts: `WF(RunStatement)`, and strong
  fairness of starting the upgrade and job scripts and of repairing what a guard named, since a
  script can only be started while none runs; the comment of the upgrade script asks for exactly that
  repetition. These three, and the dispatchers' polling and time, are premises of `PatientClientAdmitted`, `EveryRequestAnswered`, `EveryIntentNotified` and
  `UpgradeCompletes`, because the parts are checked side by side and each property assumes its own.
* Never forced: crashes, errors, stalls, heartbeats, enqueues, publishes, operator actions, clients.

Liveness is checked without symmetry reduction.

## Proofs

Checked by TLAPS for every value of the constants that satisfies the modules' `ASSUME`s: any sets
of jobs, workers, tokens, callers, requests, threads and visits, any bounds. The assumptions are that
the sentinels (`NoJob`, `NoToken`, `Nothing`, `None` ...) are not members of the sets they stand
outside of, that bounds and durations are naturals, that the requests of the limiter and the answer keys
are finitely many, that configured weights are naturals, and that the numbers in an archive are unsigned;
TLC evaluates them in the runs. Each proof follows the same plan: an inductive invariant `IInv`
(one step per action), from which the invariant or the action property of the run follows.

* **`JobQueueProofs`.** `SingleHolder` says nothing about why two workers cannot know the same
  token, so it is not inductive. `LeaseInv` adds it: a row's token is one that was drawn, sits on a
  running row and on one row only; a worker past the claim write has a drawn token of its own;
  and a token found in a row and in a worker's memory comes with that row's id and, once re-read,
  its attempt number. `IInv == TypeOK /\ LeaseInv` is inductive (`Invariance`, one step per action):
  a claim preserves it because `FreshToken` is not yet issued, every release because it clears the
  token. `MutualExclusion` follows, and `Refinement` shows that each step of the queue is a step of
  `JobLease` or a stutter: a fenced write that matches is `Resolve` by the very worker that writes,
  because `Holds` and `LeaseInv` make it the one holder; one that matches nothing is `Leave`, and so is
  a crash; a heartbeat is `Renew`, a lapsing lease `RunOut`, the sweep `Expire` of the lapsed jobs.
  A worker that lost its lease is still at work in `JobLease` (`task`) but not among the `holders`,
  so a settlement by it, also of a job that another worker holds by then, is no step of the contract.
  The other three invariants of the queue's runs have strengthenings of their own over `IInv`.
  `OutcomesInv` (`AnnouncedOutcomes`) adds the event a worker is about to write. `Entitled`
  (`AttemptsAccounted`) says that a job which will be attempted again has not used up what the faults
  so far entitle it to; it needs `Unheld`: who has recorded a failure never holds a lease again.
  `RunnersHold` and `RecordAgrees` (`FaultFreeAgreement`) say that without faults whoever runs a job
  holds its lease, so that nobody else writes its domain row, although those writes are not fenced.
* **`DealLifecycleProofs`.** `IInv` adds to the two invariants of the run that a call in memory
  is a legal entry of the transition map (`CallsConsistent`), which is what a transaction
  appends. Status, history and outbox move together or not at all, so a key is in the outbox
  exactly when its target is recorded. `ServiceLeavesATrace` proves of the same steps that each
  change of the status has its record, on the assumption that the worker makes no direct write
  (`MaxFailWrites = 0`); with one it is false, which is the run `deal_trace`.
* **`NotificationOutboxProofs`.** `DeadLettersExhausted` compares attempts that were read at the
  claim with the row's at the time of the write. `OwnerInv` bridges the two: a dispatcher that still
  owns a row works on it and has read the attempts it still has, because only a claim changes
  them and takes the ownership along. `LockInv` ties locks to processing rows and to identities that
  exist, so that a restarted dispatcher owns nothing of its former self. `PromptInv`
  (`NotifiedIsNotGivenUp`) says that, while every lock outlives its delivery, whoever delivers a row owns
  it: the fenced mark then always matches, and a notification never comes without it.
* **`IntakeProofs`.** What is accepted is what some client has sent, so `UnverifiedAreForeign`
  (`WizardAddsVerified`) needs `Trusted`: draft, tabs and every request in flight carry files that are
  verified or that a client other than the wizard has listed, except a confirm that has not verified
  its file yet. A wizard reloads drafts that others have saved, so the exception travels through it. `VerdictIsRight` rests on `EstablishedInv`, which says what
  the reads so far have shown of an object that nobody has replaced, and on `RefusalInv`: no read
  refuses a sound file. The lemmas under them are about the walk through the directory: of a sound
  document it finds the two records wherever the read tail begins (`RequiredFound`), their headers agree
  (`SoundHeaderAgrees`), and agreement is what a reader needs (`AgreementIsReadable`).
* **`DealPipelineProofs`.** `ReadyHasPacket` rests on `RunInv`: past the completion of its run a
  worker may rely on it. Another worker could take the run back only by working on the same job;
  `OwnInv` excludes that while no live worker has lost its lease, and is itself preserved because a job
  is created once (`CreateInv`) and every step that queues a job finds it absent or owned.
  `FailedForAReason` needs to know why a worker stands before the write that fails a deal. `ReasonInv` ties
  each document's status to what came of its job, as long as no live worker lost its lease and no member
  interfered; then a worker that finds nothing to read has seen every job fail for good, although it
  reads the documents while others still work on them. `PacketWaitsForDocuments` needs `WaitInv` on top:
  without faults a document waits until the one worker on its job is done with it and then has the
  status its file deserves, so that whoever is about to create a run has seen them all done.
* **`EvidenceReviewProofs`.** `version` dates the evidence. `LockInv` says that whoever is inside
  the advisory lock is its holder and has read nothing older than what a queued evaluation has
  stored; `FresherEvaluationStays` is its step. `GateInv` and `RerunInv` say that what a gate or a
  rerun has found is still so, or that the evidence changed since it began. `ResultCatchesUp` is
  about states with nothing left to do and says nothing of the way there; `CatchUpInv` does. Unless
  it was lost on record, there is a version from which on the latest evidence is what it is now:
  whoever has read since then has seen it, and a result stored since then reflects it. And the
  evaluation that reads it is still owed (by a collection, by a request that has yet to ask for it,
  or by the newest evaluation job, which is yet to read or has read no earlier than that version) or
  is stored. The scoring's three properties need that a weight grows with the categories met.
  `Weight` chooses an order of summing; `WeightIsPoints` shows that the order does not matter,
  because the sum is the number of points, as a cardinality, by a smallest counterexample
  (`MinimalSubset`) in place of induction. `ProceedsWhen` says when a template with a way forward of
  its own recommends it.
* **`LimitProofs`.** `WindowBound` is not inductive: two requests with the same count could both be let
  through. `SpentInv` adds those about to pass, and shows that together they never exceed the counter;
  `ExactInv`, without faults, that they are equal to it up to the budget, from which
  `RefusedOnlyWhenSpent` follows. For the scraper,
  `AgeInv` (a text is fetched after the clock was read for its candidate, so what an entry has left and
  its age are never more than its lifetime) gives `HitsAreFresh`, with the time that the reader has
  spent since its own clock read on top.
  `LineIsTight` says of any two sleeping threads that they wake apart, which is `SpacingInv`, and of the
  line of reserved instants that it has no gap, for which `TightInv` counts the sleepers: the next instant
  is never further away than one interval for each of them and one more.
* **`ProvisioningProofs`.** `OneWriter` makes the organization's row a lock (its upsert waits for the
  transaction that wrote it), so `CountInv` holds: what a transaction has counted is still so when it
  commits. `SameSignInGetsIn` adds that a row found to exist was committed with its membership. The
  wrapper's theorem assumes that targets are made of host, port and database, which is what makes
  a fingerprint name one target. `UpgradeSuffices` is about a script that is repeated, dies and shares
  the database with writers of the previous release. `UInv` has three parts: a unique index that exists
  keeps its duplicates out (`KeysHold`); what the statements of the upgrade that have run so far made or
  mended stays so (`SessionInv`), because nothing drops an object and late writes cannot break an
  identity whose index is in place; and the same of an upgrade that has finished (`FinishedInv`).

Every safety invariant and every action property of the passing runs is proved. Only model-checked is
liveness under fairness, which is outside this prover's reach: `EveryJobSettles`,
`EveryIntentNotified`, `EveryDealSettles`, `PatientClientAdmitted`, `EveryRequestAnswered`,
`UpgradeCompletes`.

Two proofs made the models say more. As `CASE`s with overlapping guards, rating and recommendation left
open in TLA+ which guard decides, although TLC takes the first; they are conditionals in the order of the
code now. And a count of directory records beyond the ones there are was compared with the length of a
`SubSeq`, which is that count by definition; it is compared with the directory now, and such archives
are among the damaged ones that TLC tries.

## Where the code disagrees with its documentation

Each is a run whose counterexample TLC finds; `PROJECT.json` quotes the texts in full.

1. **The worker changes a status without a record** (`deal_trace`; `README.md:13`, `README.md:106`,
   `docs/ARCHITECTURE.md:28`). It writes `failed` by itself when no document could be read or an AI job
   has failed for good (`job-processor.ts:325`, `884`), without history, audit or outbox.
2. **The transition map can be bypassed by overlap** (`deal_map`; `docs/ARCHITECTURE.md:28`).
   `transition` validates a status it read earlier and updates by id.
3. **A repeated decision is acknowledged and rolled back** (`deal_rollback`; `README.md:143`,
   `docs/NOTIFICATION-EVENTS.md:24`). The second move to a status reuses its dedupe key.
4. **An error between run and job leaves the deal stuck** (`pipeline_stuck`; `README.md:150`).

Also seen while modelling, and not stated as properties. *Queue and handlers:* two extractions that
end together can each find no active AI run and create two, each with its job (`job-processor.ts:313`),
because no unique index stands behind the read; a finalizer that runs again after its commit
is not a no-op as its comment says (`job-processor.ts:380`): the second `deal.submitted` event aborts
its transaction, and the job can end as failed with its deal in place; recovery ignores `maxAttempts` (`README.md:141`; `AttemptsAccounted` says by how much); a
submission without documents stays `submitted` for ever; an orphan research report blocks reruns.
The stand-down of `README.md:146` holds between queued evaluations (`FresherEvaluationStays`) but
`AiGenerationHandler` evaluates outside the advisory lock. The accept gate looks at the latest report
whatever its status, so it is open while a rerun is queued, running or failed, over an older report
with open sources; in the same way a failed rerun takes confirmed red flags out of the next
evaluation. A research job retried after its report was completed collects again, and the decisions
stay attached to the new sources by their ids. A follow-up leads to `manual_review`
(`docs/portfolio/WALKTHROUGH.md:105`) only on a source that a red flag cites. `README.md:126` has the
evaluator take the AI's output as input; `evaluateDealSop` does not read it, and the red flags of
research never match a configured key, because they are stored as objects and compared as strings.

*Manual extraction:* a member's extraction overwrites the status of a document that another job is
reading, and its newer row hides what the older one has found, so it can fail a deal that has been
read, or start the packet while the other extraction still runs; and when the queue refuses the job,
row and document are failed and nobody looks at the packet again.
*Outbox:* a redelivery is not the no-op of `README.md:144`. A delivery that outlives its lock commits the
notification and marks nothing; each redelivery then fails on the unique index, since the swallowed
`P2002` has aborted its transaction, and the row of a notified event ends as a dead letter.
*Intake:* save and submit are public and take the list of documents (`__documents`) from the body
(`intake-forms.service.ts:314-342`, `344-435`). They check the form of its entries, the required types and
the total size, but not that an entry was confirmed, so that only the wizard keeps unverified files out
of a submission; `UnverifiedAreForeign` says exactly that. *Uploads:* the presigned URL fixes neither size nor bytes and stays valid after the verification, so
an object can be replaced behind it; a Word file whose directory begins before the last 65557 bytes is
refused; `docs/SECURITY-VERIFICATION.md:9` is older than the check of Word files, whose directory is
unpacked now. *Limiter:* an answer that is lost between `INCR` and `EXPIRE` leaves a counter without
expiry until the next request comes; a command that the Redis client sends again counts twice; and
without Redis each process grants a budget of its own. *Scraper:* spacing is a property of the reserved
instants (`README.md:17` of the service lists "per-domain request frequency"): threads that then wait
for a permit can fetch from one host together, a switch between Redis and the process loses the
spacing, a redirect's final host takes no slot, an entry in Redis lives from its write and not from
the read of the clock, a hit in the process may be served past its five minutes by the duration of its
lookup, an error of Redis other than a `RuntimeError` skips the candidate (`main.py:101`, `:149`), the poll
for the rate key and the wait for a permit can starve, the read of a robots.txt can hang (`:124`), and
two threads may fetch one URL. *Provisioning:* two users, or two organizations, that lose to each other
see an error and must load again; every new member gets the `owner_admin` role; a bootstrap
reactivates a disabled member. *Scripts:* `init.sql` cannot be repeated after a partial run; the
migration history is looked up once, before the first statement; `bootstrap-jobs` adds the lease
columns without requeuing what runs, and an upgrade repeated after lease-aware workers have started would
requeue the jobs that are running under a live lease (the model does not tell these from the rows
without a lease; for a job this is one more lost lease, which `JobQueue` has). *Wrapper:* `::1` is not recognised as local, because a URL's
host name keeps its brackets.

## Not modelled

Catalogue CRUD, usage events, the read models and the web pages hold no protocol state: single
statements, pure calls or rendering; one model of each would restate it. Provider adapters appear as
calls that succeed or fail, with the outcomes their callers tell apart. Left out of modelled components:
creating forms and sessions (plain inserts); operator retries, and answers and documents that change,
while evidence is reviewed; address checks, robots parsing and text extraction of the scraper, which is
modelled for one host at a time; download links of the storage; the digest of the limiter's key and the
keys of other clients; URL parsing in the wrapper; objects of the schema that no script adds. Except
for `Workspace`, all models are of one organization: every query is scoped by `organizationId`, so tenants
do not interact.

## Plan

In the order in which the project was built:

1. `JobLease`, `JobQueue`, `JobQueueProofs`: the queue every other part relies on.
2. `NotificationOutbox`, `DealLifecycle`, `DealLifecycleProofs`, `IntakeSession`.
3. `DealPipeline`, over the queue's contract.
4. `SopScoring`: `evaluateSop` as operators, checked over small rule sets.
5. `EvidenceReview`: research, evidence decisions, re-evaluations and the accept gate.
6. `PublicRateLimit`, `ResearchScraper`, `SchemaUpgrade`, `MigrationWrapper`, `Workspace`,
   `UploadVerification`; unreadable files and manual extraction in `DealPipeline`.
7. The proofs of the remaining modules.

Left: several hosts in `ResearchScraper`; creation and archiving of forms and templates beside
running sessions.

## Running the checks

    tlc -workers 2 -config MCJobQueue.cfg MCJobQueue      # and so on, per cfg
    tlapm JobQueueProofs.tla                              # and so on, per *Proofs module
