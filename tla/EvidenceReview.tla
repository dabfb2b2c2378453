---------------------------- MODULE EvidenceReview ----------------------------
(***************************************************************************)
(* What happens around a deal's research: the collection of reports, the   *)
(* reviewers' decisions on their sources, reruns, the evaluations that     *)
(* turn evidence into a rating, and the gate that acceptance passes.       *)
(*                                                                         *)
(* Handlers of apps/worker/src/job-processor.ts (the end of ai.generate,   *)
(* research.collect, sop.evaluate) run beside requests to                  *)
(* intake-submissions.service.ts.  Jobs obey the contract of JobLease, as  *)
(* in DealPipeline.  The rest of an evaluation's input, answers and        *)
(* documents, does not change any more; SopScoring says what the           *)
(* evaluation makes of it.                                                 *)
(***************************************************************************)
EXTENDS Naturals, FiniteSets

CONSTANTS Sources,         \* source ids a report can have
          Workers,         \* worker processes
          Requests,        \* reviewer requests in flight at the same time
          None,            \* no job, no holder, no decision
          MaxReports, MaxEvaluations,  \* bounds: reports and sop.evaluate jobs created
          MaxEvents        \* bound: decisions, reruns and acceptances requested, errors, crashes,
                           \* lost leases, archived templates met and broken requests, in all

ASSUME BoundsAssumption ==
  /\ MaxReports \in Nat \ {0} /\ MaxEvaluations \in Nat /\ MaxEvents \in Nat
Verdicts == {"confirmed", "dismissed", "follow_up"}
ASSUME SentinelAssumption == None \notin Workers \cup Verdicts

VARIABLES
  \* the evidence: per report, in creation order, its status, its sources and those a red flag
  \* cites; per source of a report the latest research.evidence_reviewed entry; and how often any
  \* of this changed, to date what was read of it
  report, decision, version,
  deal,          \* Deal.status
  stored,        \* the evidence behind the deal's rating, score and recommendation
  job, holder,   \* per job: status, lease holder
  work,          \* per worker: next step, job, report it created, what it has read
  lock,          \* the worker that holds the advisory lock of the deal
  call,          \* per request: next step, what it is about, what it has read
  events,        \* used up so far of MaxEvents
  lost           \* an evaluation of the latest evidence was owed and can not be relied on

evidenceVars == <<report, decision, version>>
jobVars == <<job, holder>>
vars == <<evidenceVars, deal, stored, jobVars, work, lock, call, events, lost>>

Reports == 1..MaxReports
Evaluations == 1..MaxEvaluations
Generate == <<"ai.generate", 0>>
Collect(r) == <<"research.collect", r>>
Evaluate(e) == <<"sop.evaluate", e>>
Jobs == {Generate} \cup {Collect(r) : r \in Reports} \cup {Evaluate(e) : e \in Evaluations}
Type(j) == j[1]
Subject(j) == j[2]

\* What an evaluation has read so far: the report, its red-flag sources, and when.
Reading == [report : Nat, red : SUBSET Sources, at : Nat,
            confirmed : BOOLEAN, followUp : BOOLEAN]
NoReading == [report |-> 0, red |-> {}, at |-> 0, confirmed |-> FALSE, followUp |-> FALSE]
NoWork == [step |-> "idle", task |-> None, made |-> 0, seen |-> NoReading]
NoCall == [step |-> "idle", report |-> 0, source |-> None, verdict |-> None, found |-> {},
           began |-> 0]

WorkSteps == {"idle", "start", "read deal", "read decisions", "store", "check research",
              "create report", "create job", "transition", "collecting",
              "request evaluation", "done", "threw", "settle"}
CallSteps == {"idle", "record", "request evaluation", "create report", "request research",
              "gate", "approve"}

Goto(w, s) == work' = [work EXCEPT ![w].step = s]
At(w, type, s) == work[w].step = s /\ work[w].task # None /\ Type(work[w].task) = type
CallTo(c, s) == call' = [call EXCEPT ![c].step = s]
Answer(c) == call' = [call EXCEPT ![c] = NoCall]

Exists(r) == report[r].status # "absent"
Active(r) == report[r].status \in {"queued", "running"}

\* orderBy createdAt desc, take 1: whatever the status of the report.  Reports are numbered from
\* 1 in the order of createdAt.
Latest == Cardinality({r \in Reports : Exists(r)})
NextReport == Latest + 1

NextEvaluation == CHOOSE e \in Evaluations :
  job[Evaluate(e)] = "absent" /\ \A k \in Evaluations : k < e => job[Evaluate(k)] # "absent"
EvaluationLeft == \E e \in Evaluations : job[Evaluate(e)] = "absent"

\* To every reader a report that is queued is as good as one that is running.
SetStatus(r, s) ==
  /\ report' = [report EXCEPT ![r].status = s]
  /\ version' = IF report[r].status = "queued" /\ s = "running" THEN version ELSE version + 1

Spend == events < MaxEvents /\ events' = events + 1

-----------------------------------------------------------------------------
(* The queue, by its contract. *)

Superseded(w) == holder[work[w].task] # w
Drop(w) == work' = [work EXCEPT ![w] = NoWork]
Unlock(w) == lock' = IF lock = w THEN None ELSE lock
Release(w, s) ==
  /\ job' = [job EXCEPT ![work[w].task] = s]
  /\ holder' = [holder EXCEPT ![work[w].task] = None]

Claim(w, j) ==
  /\ work[w].step = "idle" /\ job[j] = "queued"
  /\ job' = [job EXCEPT ![j] = "running"]
  /\ holder' = [holder EXCEPT ![j] = w]
  /\ work' = [work EXCEPT ![w] = [NoWork EXCEPT !.task = j,
                                    !.step = IF j = Generate THEN "read deal" ELSE "start"]]
  /\ UNCHANGED <<evidenceVars, deal, stored, lock, call, events, lost>>

Complete(w) ==
  /\ work[w].step = "done"
  /\ IF Superseded(w) THEN UNCHANGED jobVars ELSE Release(w, "completed")
  /\ Drop(w)
  /\ UNCHANGED <<evidenceVars, deal, stored, lock, call, events, lost>>

\* recordFailure: another attempt, or failed and then what depends on the job.  Which of the two
\* depends on the attempts left, which JobQueue counts.  Nobody evaluates in place of a job that
\* failed for good, nor of one that failed after its lease.
RecordFailure(w) ==
  /\ work[w].step = "threw"
  /\ \/ Superseded(w) /\ Drop(w) /\ lost' = TRUE /\ UNCHANGED jobVars
     \/ /\ ~Superseded(w)
        /\ Release(w, "queued") /\ Drop(w)
        /\ UNCHANGED lost
     \/ /\ ~Superseded(w)
        /\ Release(w, "failed")
        /\ lost' = TRUE
        /\ IF Type(work[w].task) = "sop.evaluate" THEN Drop(w) ELSE Goto(w, "settle")
  /\ UNCHANGED <<evidenceVars, deal, stored, lock, call, events>>

\* The report of a failed research job is failed, whatever it already holds; a failed AI job
\* fails the deal.
Settle(w) ==
  /\ work[w].step = "settle"
  /\ \/ /\ Type(work[w].task) = "research.collect"
        /\ SetStatus(Subject(work[w].task), "failed")
        /\ UNCHANGED deal
     \/ /\ Type(work[w].task) = "ai.generate"
        /\ deal' = "failed"
        /\ UNCHANGED <<report, version>>
  /\ Drop(w)
  /\ UNCHANGED <<decision, stored, jobVars, lock, call, events, lost>>

\* A query, provider call or command fails, or the write that completes the job; an open
\* transaction rolls back and frees the lock.
Throw(w) ==
  /\ Spend
  /\ work[w].step \notin {"idle", "threw", "settle"}
  /\ work' = [work EXCEPT ![w] = [NoWork EXCEPT !.step = "threw", !.task = work[w].task]]
  /\ Unlock(w)
  /\ UNCHANGED <<evidenceVars, deal, stored, jobVars, call, lost>>

\* The process dies; a lease it held runs out and the job is recovered.  A job whose last writes
\* were under way, or whose lease was already gone, is not recovered.
Crash(w) ==
  /\ Spend
  /\ work[w].step # "idle"
  /\ IF Superseded(w) THEN lost' = TRUE /\ UNCHANGED jobVars
                      ELSE Release(w, "queued") /\ UNCHANGED lost
  /\ Drop(w) /\ Unlock(w)
  /\ UNCHANGED <<evidenceVars, deal, stored, call>>

\* The lease of a live worker runs out, the job is recovered, the handler runs on.
LoseLease(w) ==
  /\ Spend
  /\ work[w].step # "idle" /\ ~Superseded(w)
  /\ Release(w, "queued")
  /\ UNCHANGED <<evidenceVars, deal, stored, work, lock, call, lost>>

-----------------------------------------------------------------------------
(* evaluateDealSop: the deal with its latest report, then the decisions on it, then the       *)
(* result.  ai.generate runs it statement by statement; sop.evaluate in one transaction that   *)
(* holds the advisory lock of the deal, at READ COMMITTED.                                     *)

Evaluating(w, s) == At(w, "ai.generate", s) \/ At(w, "sop.evaluate", s)

\* A template that is not active ends the evaluation: ai.generate goes on without, sop.evaluate
\* fails.
ReadDeal(w) ==
  /\ Evaluating(w, "read deal")
  /\ \/ /\ LET r == Latest IN
             work' = [work EXCEPT ![w].step = "read decisions",
                        ![w].seen = [NoReading EXCEPT !.report = r, !.at = version,
                                       !.red = IF r = 0 THEN {} ELSE report[r].red]]
        /\ UNCHANGED <<lock, events>>
     \/ /\ Spend
        /\ Goto(w, IF Type(work[w].task) = "ai.generate" THEN "check research" ELSE "threw")
        /\ Unlock(w)
  /\ UNCHANGED <<evidenceVars, deal, stored, jobVars, call, lost>>

\* The latest decision on each source of this report that a red flag cites.
ReadDecisions(w) ==
  /\ Evaluating(w, "read decisions")
  /\ LET seen == work[w].seen
         Decided(v) == \E s \in seen.red : decision[seen.report][s] = v
     IN  work' = [work EXCEPT ![w].step = "store",
                    ![w].seen = [@ EXCEPT !.red = {}, !.confirmed = Decided("confirmed"),
                                          !.followUp = Decided("follow_up")]]
  /\ UNCHANGED <<evidenceVars, deal, stored, jobVars, lock, call, events, lost>>

\* The evaluation row, then the deal's columns.  Nothing here reads the row, so the second write
\* is the one that counts, and an error between the two is a Throw.  Commit frees the lock.
\* Outside the lock, an evaluation can replace the result of one that has seen more.
Store(w) ==
  /\ Evaluating(w, "store")
  /\ LET queued == Type(work[w].task) = "sop.evaluate"
         seen == work[w].seen
     IN  /\ stored' = [by |-> Type(work[w].task), at |-> seen.at, report |-> seen.report,
                       confirmed |-> seen.confirmed, followUp |-> seen.followUp]
         /\ work' = [work EXCEPT ![w].step = IF queued THEN "done" ELSE "check research",
                                 ![w].seen = NoReading]
         /\ lost' = (lost \/ (~queued /\ seen.at < stored.at))
  /\ Unlock(w)
  /\ UNCHANGED <<evidenceVars, deal, jobVars, call, events>>

-----------------------------------------------------------------------------
(* AiGenerationHandler after its run is completed: evaluateDealSop, then                       *)
(* queueResearchIfConfigured, then the review-ready command.                                   *)

CheckResearch(w) ==
  /\ At(w, "ai.generate", "check research")
  /\ IF \E r \in Reports : Active(r) \/ report[r].status = "completed"
       THEN Goto(w, "transition")
       ELSE work' = [work EXCEPT ![w].step = "create report", ![w].seen.at = version]
  /\ UNCHANGED <<evidenceVars, deal, stored, jobVars, lock, call, events, lost>>

CreateReport(w) ==
  /\ At(w, "ai.generate", "create report")
  /\ \E r \in Reports : ~Exists(r)
  /\ SetStatus(NextReport, "queued")
  /\ work' = [work EXCEPT ![w].step = "create job", ![w].made = NextReport,
                          ![w].seen = NoReading]
  /\ UNCHANGED <<decision, deal, stored, jobVars, lock, call, events, lost>>

CreateResearchJob(w) ==
  /\ At(w, "ai.generate", "create job")
  /\ job' = [job EXCEPT ![Collect(work[w].made)] = "queued"]
  /\ work' = [work EXCEPT ![w].step = "transition", ![w].made = 0]
  /\ UNCHANGED <<evidenceVars, deal, stored, holder, lock, call, events, lost>>

\* The internal command: allowed from processing, a no-op when ready, refused otherwise.
Transition(w) ==
  /\ At(w, "ai.generate", "transition")
  /\ \/ /\ deal \in {"processing", "review_ready"}
        /\ deal' = "review_ready"
        /\ Goto(w, "done")
     \/ /\ deal \notin {"processing", "review_ready"}
        /\ Goto(w, "threw")
        /\ UNCHANGED deal
  /\ UNCHANGED <<evidenceVars, stored, jobVars, lock, call, events, lost>>

-----------------------------------------------------------------------------
(* ResearchHandler.  Its writes carry no lease token, and a second attempt collects again into *)
(* the same report: same source ids, other contents, the decisions still attached.             *)

StartCollection(w) ==
  /\ At(w, "research.collect", "start")
  /\ SetStatus(Subject(work[w].task), "running")
  /\ Goto(w, "collecting")
  /\ UNCHANGED <<decision, deal, stored, jobVars, lock, call, events, lost>>

\* collectResearch: what the search finds and the scraper extracts; nothing at all is an error.
Findings == SUBSET Sources \ {{}}
\* parseResearchSynthesis: red flags cite sources of this report, or the synthesis is an error.
Citations(found) == SUBSET found

CompleteCollection(w) ==
  /\ At(w, "research.collect", "collecting")
  /\ \E found \in Findings : \E red \in Citations(found) :
       /\ report' = [report EXCEPT ![Subject(work[w].task)] =
                       [status |-> "completed", found |-> found, red |-> red]]
  /\ version' = version + 1
  /\ Goto(w, "request evaluation")
  /\ UNCHANGED <<decision, deal, stored, jobVars, lock, call, events, lost>>

NewEvaluation == job' = [job EXCEPT ![Evaluate(NextEvaluation)] = "queued"]

\* Faulty variant: a report is completed without an evaluation of it.
RequestNoEvaluation(w) ==
  /\ At(w, "research.collect", "request evaluation")
  /\ Goto(w, "done")
  /\ UNCHANGED <<evidenceVars, deal, stored, jobVars, lock, call, events, lost>>

\* After the two notifications, either of which may throw.
RequestEvaluation(w) ==
  /\ At(w, "research.collect", "request evaluation")
  /\ EvaluationLeft /\ NewEvaluation
  /\ Goto(w, "done")
  /\ UNCHANGED <<evidenceVars, deal, stored, holder, lock, call, events, lost>>

-----------------------------------------------------------------------------
(* SopEvaluationHandler. *)

\* hasNewerActiveSopEvaluation.  Jobs are numbered in the order of createdAt, ties by id.
NewerActive(e) ==
  \E k \in Evaluations : k > e /\ job[Evaluate(k)] \in {"queued", "running", "completed"}

\* Faulty variant: no advisory lock.
BeginEvaluationUnlocked(w) ==
  /\ At(w, "sop.evaluate", "start")
  /\ Goto(w, IF NewerActive(Subject(work[w].task)) THEN "done" ELSE "read deal")
  /\ UNCHANGED <<evidenceVars, deal, stored, jobVars, lock, call, events, lost>>

\* The advisory lock, which lasts to the end of the transaction, and the superseded-work check.
\* Nobody else evaluates between the two, and a job created there is one created before them.
BeginEvaluation(w) ==
  /\ At(w, "sop.evaluate", "start")
  /\ lock = None
  /\ IF NewerActive(Subject(work[w].task))
       THEN Goto(w, "done") /\ UNCHANGED lock
       ELSE Goto(w, "read deal") /\ lock' = w
  /\ UNCHANGED <<evidenceVars, deal, stored, jobVars, call, events, lost>>

-----------------------------------------------------------------------------
(* Requests.  A request that is refused at once changes nothing and is not modelled. *)

Begin(c, s) == call' = [call EXCEPT ![c].step = s, ![c].began = version]

\* reviewResearchEvidence, its reads: the report exists and has the source.  Neither the status
\* of the deal nor that of the report matters.
ReviewEvidence(c) ==
  /\ call[c].step = "idle" /\ Spend
  /\ \E r \in Reports, v \in Verdicts : \E s \in report[r].found :
       call' = [call EXCEPT ![c] = [NoCall EXCEPT !.step = "record", !.report = r, !.source = s,
                                                  !.verdict = v]]
  /\ UNCHANGED <<evidenceVars, deal, stored, jobVars, work, lock, lost>>

RecordDecision(c) ==
  /\ call[c].step = "record"
  /\ decision' = [decision EXCEPT ![call[c].report][call[c].source] = call[c].verdict]
  /\ version' = version + 1
  /\ CallTo(c, "request evaluation")
  /\ UNCHANGED <<report, deal, stored, jobVars, work, lock, events, lost>>

EnqueueEvaluation(c) ==
  /\ call[c].step = "request evaluation"
  /\ EvaluationLeft /\ NewEvaluation
  /\ Answer(c)
  /\ UNCHANGED <<evidenceVars, deal, stored, holder, work, lock, events, lost>>

\* Faulty variant: a running collection does not stand in the way of a rerun.
RerunResearchIfNotQueued(c) ==
  /\ call[c].step = "idle"
  /\ Spend
  /\ \A r \in Reports : report[r].status # "queued"
  /\ Begin(c, "create report")
  /\ UNCHANGED <<evidenceVars, deal, stored, jobVars, work, lock, lost>>

\* rerunResearch: refused while a report is queued or running.
RerunResearch(c) ==
  /\ call[c].step = "idle"
  /\ Spend
  /\ \A r \in Reports : ~Active(r)
  /\ Begin(c, "create report")
  /\ UNCHANGED <<evidenceVars, deal, stored, jobVars, work, lock, lost>>

CreateRerun(c) ==
  /\ call[c].step = "create report"
  /\ \E r \in Reports : ~Exists(r)
  /\ SetStatus(NextReport, "queued")
  /\ call' = [call EXCEPT ![c].step = "request research", ![c].report = NextReport]
  /\ UNCHANGED <<decision, deal, stored, jobVars, work, lock, events, lost>>

\* The audit entry of the rerun, which nothing reads, and the job.
EnqueueResearch(c) ==
  /\ call[c].step = "request research"
  /\ job' = [job EXCEPT ![Collect(call[c].report)] = "queued"]
  /\ Answer(c)
  /\ UNCHANGED <<evidenceVars, deal, stored, holder, work, lock, events, lost>>

\* The enqueue fails and the report is marked failed.
EnqueueResearchFails(c) ==
  /\ call[c].step = "request research"
  /\ Spend
  /\ SetStatus(call[c].report, "failed")
  /\ Answer(c)
  /\ UNCHANGED <<decision, deal, stored, jobVars, work, lock, lost>>

\* The request ends between two of its statements: a failed query, or the API process exits.  A
\* decision already recorded then has no evaluation, a report already created no job.
Break(c) ==
  /\ Spend
  /\ call[c].step # "idle"
  /\ lost' = (lost \/ call[c].step = "request evaluation")
  /\ Answer(c)
  /\ UNCHANGED <<evidenceVars, deal, stored, jobVars, work, lock>>

\* reviewDeal with the action accept: the gate reads the latest report.  A report that is not
\* completed has no sources to review.
Accept(c) ==
  /\ call[c].step = "idle" /\ deal = "review_ready"
  /\ Spend
  /\ LET r == Latest IN
       IF r # 0 /\ report[r].status = "completed"
         THEN call' = [call EXCEPT ![c] = [NoCall EXCEPT !.step = "gate", !.report = r,
                                             !.found = report[r].found, !.began = version]]
         ELSE Begin(c, "approve")
  /\ UNCHANGED <<evidenceVars, deal, stored, jobVars, work, lock, lost>>

\* Faulty variant: an undecided source is no obstacle.
PassGateUndecided(c) ==
  /\ call[c].step = "gate"
  /\ IF \A s \in call[c].found : decision[call[c].report][s] # "follow_up"
       THEN call' = [call EXCEPT ![c] = [NoCall EXCEPT !.step = "approve", !.began = call[c].began]]
       ELSE Answer(c)
  /\ UNCHANGED <<evidenceVars, deal, stored, jobVars, work, lock, events, lost>>

\* Every source of that report decided, and none for follow-up; otherwise the request is refused.
PassGate(c) ==
  /\ call[c].step = "gate"
  /\ IF \A s \in call[c].found : decision[call[c].report][s] \in {"confirmed", "dismissed"}
       THEN call' = [call EXCEPT ![c] = [NoCall EXCEPT !.step = "approve", !.began = call[c].began]]
       ELSE Answer(c)
  /\ UNCHANGED <<evidenceVars, deal, stored, jobVars, work, lock, events, lost>>

\* DealsService.review, whose own steps are in DealLifecycle.
Approve(c) ==
  /\ call[c].step = "approve"
  /\ deal' = IF deal = "review_ready" THEN "accepted" ELSE deal
  /\ Answer(c)
  /\ UNCHANGED <<evidenceVars, stored, jobVars, work, lock, events, lost>>

-----------------------------------------------------------------------------
Init ==
  /\ report = [r \in Reports |-> [status |-> "absent", found |-> {}, red |-> {}]]
  /\ decision = [r \in Reports |-> [s \in Sources |-> None]]
  /\ deal = "processing"
  /\ stored = [by |-> None, at |-> 0, report |-> 0, confirmed |-> FALSE, followUp |-> FALSE]
  /\ job = [j \in Jobs |-> IF j = Generate THEN "queued" ELSE "absent"]
  /\ holder = [j \in Jobs |-> None]
  /\ work = [w \in Workers |-> NoWork] /\ lock = None
  /\ call = [c \in Requests |-> NoCall]
  /\ version = 0 /\ events = 0 /\ lost = FALSE

HandlerStep(w) ==
  \/ CheckResearch(w) \/ CreateReport(w) \/ CreateResearchJob(w) \/ Transition(w)
  \/ StartCollection(w) \/ CompleteCollection(w) \/ RequestEvaluation(w)
  \/ BeginEvaluation(w) \/ ReadDeal(w) \/ ReadDecisions(w) \/ Store(w)

WorkerStep(w) ==
  \/ \E j \in Jobs : Claim(w, j)
  \/ HandlerStep(w) \/ Complete(w) \/ RecordFailure(w) \/ Settle(w)

\* What a request does on its own, once it has begun.
RequestStep(c) ==
  \/ RecordDecision(c) \/ EnqueueEvaluation(c)
  \/ CreateRerun(c) \/ EnqueueResearch(c)
  \/ PassGate(c) \/ Approve(c)

Next ==
  \/ \E w \in Workers : WorkerStep(w) \/ Throw(w) \/ Crash(w) \/ LoseLease(w)
  \/ \E c \in Requests :
       \/ RequestStep(c)
       \/ ReviewEvidence(c) \/ RerunResearch(c) \/ Accept(c)
       \/ EnqueueResearchFails(c) \/ Break(c)

Spec == Init /\ [][Next]_vars

-----------------------------------------------------------------------------
(* Properties *)

\* Every variable has the values its column or field can hold.
TypeOK ==
  /\ report \in [Reports -> [status : {"absent", "queued", "running", "completed", "failed"},
                             found : SUBSET Sources, red : SUBSET Sources]]
  /\ decision \in [Reports -> [Sources -> Verdicts \cup {None}]]
  /\ deal \in {"processing", "review_ready", "accepted", "failed"}
  /\ stored \in [by : {None, "ai.generate", "sop.evaluate"}, at : Nat, report : Nat,
                 confirmed : BOOLEAN, followUp : BOOLEAN]
  /\ job \in [Jobs -> {"absent", "queued", "running", "completed", "failed"}]
  /\ holder \in [Jobs -> Workers \cup {None}]
  /\ work \in [Workers -> [step : WorkSteps, task : Jobs \cup {None}, made : Nat, seen : Reading]]
  /\ lock \in Workers \cup {None}
  /\ call \in [Requests -> [step : CallSteps, report : Nat, source : Sources \cup {None},
                            verdict : Verdicts \cup {None}, found : SUBSET Sources, began : Nat]]
  /\ version \in Nat /\ events \in Nat /\ lost \in BOOLEAN

\* SopEvaluationHandler serializes the evaluations of a deal across all worker processes: of two
\* queued evaluations, retried or overtaken as they may be, none replaces the result of the
\* other by one from older evidence.
FresherEvaluationStays ==
  [][stored.by = "sop.evaluate" /\ stored'.by = "sop.evaluate" => stored'.at >= stored.at]_vars

\* The decisions that an evaluation of the latest report has to reflect.
Reflects(r) ==
  /\ stored.report = r
  /\ stored.confirmed <=> \E s \in report[r].red : decision[r][s] = "confirmed"
  /\ stored.followUp  <=> \E s \in report[r].red : decision[r][s] = "follow_up"

\* No job is left to run and no request is under way.
AtRest ==
  /\ \A j \in Jobs : job[j] \notin {"queued", "running"}
  /\ \A w \in Workers : work[w].step = "idle"
  /\ \A c \in Requests : call[c].step = "idle"

\* README: confirmed red-flag evidence and outstanding follow-ups feed back into re-evaluation.
\* Whatever the order of collections, decisions, stand-downs and retries, when all is done the
\* deal's result reflects the decisions on its latest report, unless the evaluation of them is
\* lost: its request broke off, its job failed for good, or the unlocked evaluation of
\* ai.generate replaced it.
ResultCatchesUp ==
  AtRest /\ Latest # 0 =>
    \/ report[Latest].found = {}
    \/ Reflects(Latest)
    \/ lost

\* A completed report with a source that is undecided or set aside for follow-up.
OpenEvidence ==
  /\ Latest # 0 /\ report[Latest].status = "completed"
  /\ \E s \in report[Latest].found : decision[Latest][s] \in {None, "follow_up"}

\* reviewDeal: a deal is accepted over open evidence only if a report or a decision came in
\* while the request was under way.
GateHolds ==
  [][deal # "accepted" /\ deal' = "accepted" =>
       \E c \in Requests : /\ call[c].step = "approve" /\ call'[c].step = "idle"
                           /\ ~OpenEvidence \/ call[c].began # version]_vars

\* rerunResearch and queueResearchIfConfigured: a report is added to one that is still being
\* collected only if evidence changed after the creator had looked.
OneCollectionAtATime ==
  [][\A r \in Reports : ~Exists(r) /\ report'[r].status = "queued" =>
       \/ \A k \in Reports : ~Active(k)
       \/ \E c \in Requests : /\ call[c].step = "create report"
                              /\ call'[c].step # call[c].step
                              /\ call[c].began # version
       \/ \E w \in Workers : /\ work[w].step = "create report"
                             /\ work'[w].step # work[w].step
                             /\ work[w].seen.at # version]_vars

=============================================================================
