----------------------------- MODULE DealPipeline -----------------------------
(***************************************************************************)
(* The processing of one accepted submission by the worker's handlers      *)
(* (apps/worker/src/job-processor.ts): finalization, text extraction of    *)
(* each document, the deal packet sent to the AI, the research request and *)
(* the internal command that makes the deal ready for review.              *)
(*                                                                         *)
(* Every database write of a handler is an action of its own, because a    *)
(* second handler, or the same one after a retry, may run in between.      *)
(* Jobs obey the contract of JobLease (which JobQueue implements): one     *)
(* holder at a time, whose lease may be lost while it still runs.  The     *)
(* outbox events of the handlers are NotificationOutbox's, the reviewers   *)
(* DealLifecycle's.                                                        *)
(***************************************************************************)
EXTENDS Naturals, FiniteSets

CONSTANTS Documents,     \* documents a submission can list
          Workers,       \* worker processes
          MaxRuns,       \* bound: AI runs created
          None,          \* no job in memory, no lease holder
          Research,      \* is the research provider configured?
          MaxAttempts,   \* Job.maxAttempts
          MaxManual,     \* bound: extractions that members ask for
          MaxFaults      \* bound: failed calls, crashes and lost leases, all together

ASSUME BoundsAssumption ==
  /\ MaxRuns \in Nat \ {0} /\ MaxAttempts \in Nat \ {0} /\ Research \in BOOLEAN
  /\ MaxManual \in Nat /\ MaxFaults \in Nat
ASSUME SentinelAssumption == None \notin Workers

VARIABLES
  submitted,   \* the documents of the submission
  readable,    \* those among them that extractDocument finds text in
  deal,        \* Deal.status, or "absent"
  document,    \* document[d]: Document.status, or "absent"
  text,        \* extraction jobs whose extraction row is completed
  manual,      \* documents that also have an extraction row a member asked for
  asked,       \* those whose request has still to create the job
  run,         \* run[i]: AiRun.status, or "absent"
  reports, researchJobs,  \* research reports and research.collect jobs created
  job, attempts, holder,  \* per job: status, attempts, lease holder
  pc, task, attempt, made,     \* per worker: next step, job, attempt, id of the AI run it created
  failing,     \* workers that settle the rows of a failed job
  errors, crashes, stalls  \* handler errors, crashes and lost leases so far

inputVars  == <<submitted, readable>>
manualVars == <<manual, asked>>
rowVars    == <<inputVars, deal, document, text, manualVars, run, reports, researchJobs>>
jobVars    == <<job, attempts, holder>>
workerVars == <<pc, task, attempt, made, failing>>
faultVars  == <<errors, crashes, stalls>>
vars == <<rowVars, jobVars, workerVars, faultVars>>

Runs == 1..MaxRuns
Finalize == <<"intake.finalize", None, "session">>
Extract(d) == <<"document.extract", d, "finalizer">>
ExtractAgain(d) == <<"document.extract", d, "member">>
Generate(i) == <<"ai.generate", i, "packet">>
Extractions == {Extract(d) : d \in Documents} \cup {ExtractAgain(d) : d \in Documents}
Jobs == {Finalize} \cup Extractions \cup {Generate(i) : i \in Runs}
Type(j) == j[1]
Subject(j) == j[2]

Steps == {"idle", "start", "extracting", "extracted", "packet", "fail deal", "create run",
          "create job", "generating", "research", "create report",
          "create research job", "transition", "done", "threw", "fail extraction",
          "fail document", "fail run"}

Goto(w, s) == pc' = [pc EXCEPT ![w] = s]
At(w, type, s) == pc[w] = s /\ task[w] # None /\ Type(task[w]) = type

Drop(w) ==
  /\ Goto(w, "idle")
  /\ task' = [task EXCEPT ![w] = None]
  /\ attempt' = [attempt EXCEPT ![w] = 0]
  /\ made' = [made EXCEPT ![w] = 0]
  /\ failing' = failing \ {w}

MayFault == errors + crashes + stalls < MaxFaults

-----------------------------------------------------------------------------
(* The queue, by its contract. *)

Claim(w, j) ==
  /\ pc[w] = "idle" /\ job[j] = "queued"
  /\ job' = [job EXCEPT ![j] = "running"]
  /\ attempts' = [attempts EXCEPT ![j] = @ + 1]
  /\ holder' = [holder EXCEPT ![j] = w]
  /\ Goto(w, "start")
  /\ task' = [task EXCEPT ![w] = j]
  /\ attempt' = [attempt EXCEPT ![w] = attempts[j] + 1]
  /\ UNCHANGED <<rowVars, made, failing, faultVars>>

Release(w, s) ==
  /\ job' = [job EXCEPT ![task[w]] = s]
  /\ holder' = [holder EXCEPT ![task[w]] = None]
  /\ UNCHANGED attempts

Superseded(w) == holder[task[w]] # w

Complete(w) ==
  /\ pc[w] = "done"
  /\ IF Superseded(w) THEN UNCHANGED jobVars ELSE Release(w, "completed")
  /\ Drop(w)
  /\ UNCHANGED <<rowVars, faultVars>>

\* recordFailure: another attempt, or failed and then the rows that depend on the job.
RecordFailure(w) ==
  /\ pc[w] = "threw"
  /\ \/ Superseded(w) /\ Drop(w) /\ UNCHANGED jobVars
     \/ /\ ~Superseded(w) /\ attempt[w] < MaxAttempts
        /\ Release(w, "queued")
        /\ Drop(w)
     \/ /\ ~Superseded(w) /\ attempt[w] >= MaxAttempts
        /\ Release(w, "failed")
        /\ \/ Type(task[w]) = "intake.finalize" /\ Drop(w)
           \/ /\ Type(task[w]) # "intake.finalize"
              /\ Goto(w, IF Type(task[w]) = "document.extract" THEN "fail extraction"
                                                               ELSE "fail run")
              /\ failing' = failing \cup {w}
              /\ UNCHANGED <<task, attempt, made>>
  /\ UNCHANGED <<rowVars, faultVars>>

\* A handler's storage, provider or database call fails, or the write that completes the job.
\* While a failure is being settled nothing catches the error: the worker process exits.
Throw(w) ==
  /\ MayFault /\ errors' = errors + 1
  /\ pc[w] \notin {"idle", "threw"} /\ w \notin failing
  /\ Goto(w, "threw")
  /\ UNCHANGED <<rowVars, jobVars, task, attempt, made, failing, crashes, stalls>>

\* The process dies; a lease it held runs out and the job is recovered.
Crash(w) ==
  /\ MayFault /\ crashes' = crashes + 1
  /\ pc[w] # "idle"
  /\ IF Superseded(w) THEN UNCHANGED jobVars ELSE Release(w, "queued")
  /\ Drop(w)
  /\ UNCHANGED <<rowVars, errors, stalls>>

\* The lease of a live worker runs out, the job is recovered, the handler runs on.
LoseLease(w) ==
  /\ MayFault /\ stalls' = stalls + 1
  /\ pc[w] # "idle" /\ ~Superseded(w)
  /\ Release(w, "queued")
  /\ UNCHANGED <<rowVars, workerVars, errors, crashes>>

-----------------------------------------------------------------------------
(* IntakeFinalizationHandler: one transaction.  On a committed deal its insert of the         *)
(* deal.submitted event violates the unique index and aborts the transaction: with documents  *)
(* left to look up the next statement raises, without any the commit rolls back silently.     *)

FinalizeIntake(w) ==
  /\ At(w, "intake.finalize", "start")
  /\ \/ /\ deal = "absent"
        /\ deal' = IF submitted = {} THEN "submitted" ELSE "processing"
        /\ document' = [d \in Documents |-> IF d \in submitted THEN "uploaded" ELSE "absent"]
        /\ job' = [j \in Jobs |-> IF \E d \in submitted : j = Extract(d) THEN "queued" ELSE job[j]]
        /\ Goto(w, "done")
     \/ /\ deal # "absent"
        /\ Goto(w, IF submitted = {} THEN "done" ELSE "threw")
        /\ UNCHANGED <<deal, document, job>>
  /\ UNCHANGED <<inputVars, text, manualVars, run, reports, researchJobs, attempts, holder, task,
                 attempt, made, failing, faultVars>>

-----------------------------------------------------------------------------
(* DocumentExtractionHandler.  The writes carry no lease token. *)

SetDocument(w, s) == document' = [document EXCEPT ![Subject(task[w])] = s]
SetText(w, done) ==
  text' = IF done THEN text \cup {task[w]} ELSE text \ {task[w]}

\* Document "extracting", extraction "running": nobody reads the one between the two writes.
StartExtraction(w) ==
  /\ At(w, "document.extract", "start")
  /\ SetDocument(w, "extracting") /\ SetText(w, FALSE)
  /\ Goto(w, "extracting")
  /\ UNCHANGED <<inputVars, deal, manualVars, run, reports, researchJobs, jobVars, task, attempt,
                 made, failing, faultVars>>

\* extractDocument: a file without text, or of a type it cannot read, throws every time.
FindNoText(w) ==
  /\ At(w, "document.extract", "extracting")
  /\ Subject(task[w]) \notin readable
  /\ Goto(w, "threw")
  /\ UNCHANGED <<rowVars, jobVars, task, attempt, made, failing, faultVars>>

CompleteExtraction(w) ==
  /\ At(w, "document.extract", "extracting")
  /\ Subject(task[w]) \in readable
  /\ SetText(w, TRUE)
  /\ Goto(w, "extracted")
  /\ UNCHANGED <<inputVars, deal, document, manualVars, run, reports, researchJobs, jobVars, task,
                 attempt, made, failing, faultVars>>

\* Faulty variant: the handler ends without looking whether the packet is ready.
MarkAnalyzedOnly(w) ==
  /\ At(w, "document.extract", "extracted")
  /\ SetDocument(w, "analyzed")
  /\ Goto(w, "done")
  /\ UNCHANGED <<inputVars, deal, text, manualVars, run, reports, researchJobs, jobVars, task,
                 attempt, made, failing, faultVars>>

MarkAnalyzed(w) ==
  /\ At(w, "document.extract", "extracted")
  /\ SetDocument(w, "analyzed")
  /\ Goto(w, "packet")
  /\ UNCHANGED <<inputVars, deal, text, manualVars, run, reports, researchJobs, jobVars, task,
                 attempt, made, failing, faultVars>>

-----------------------------------------------------------------------------
(* queueDealPacketIfReady: a read, and then up to two writes that rely on it.  It ends the    *)
(* extraction handler, or the settling of a failed extraction.                                *)

Return(w) ==
  IF w \in failing
    THEN Drop(w)
    ELSE Goto(w, "done") /\ UNCHANGED <<task, attempt, made, failing>>

ActiveRuns == {i \in Runs : run[i] \in {"queued", "running", "completed"}}
Unsettled == {d \in submitted : document[d] \in {"uploaded", "extracting"}}
\* Only the newest extraction row of a document counts.
Newest(d) == IF d \in manual THEN ExtractAgain(d) ELSE Extract(d)
Read == {d \in submitted : Newest(d) \in text}

\* Faulty variant: documents still in extraction do not hold the packet back.
CheckPacketEarly(w) ==
  /\ At(w, "document.extract", "packet")
  /\ \/ ActiveRuns # {} /\ Return(w)
     \/ /\ ActiveRuns = {}
        /\ Goto(w, IF Read = {} THEN "fail deal" ELSE "create run")
        /\ UNCHANGED <<task, attempt, made, failing>>
  /\ UNCHANGED <<rowVars, jobVars, faultVars>>

\* Faulty variant: one unreadable document fails the whole deal.
CheckPacketAllOrNothing(w) ==
  /\ At(w, "document.extract", "packet")
  /\ \/ ActiveRuns \cup Unsettled # {} /\ Return(w)
     \/ /\ ActiveRuns \cup Unsettled = {}
        /\ Goto(w, IF Read = submitted THEN "create run" ELSE "fail deal")
        /\ UNCHANGED <<task, attempt, made, failing>>
  /\ UNCHANGED <<rowVars, jobVars, faultVars>>

CheckPacket(w) ==
  /\ At(w, "document.extract", "packet")
  /\ \/ ActiveRuns \cup Unsettled # {} /\ Return(w)
     \/ /\ ActiveRuns \cup Unsettled = {}
        /\ Goto(w, IF Read = {} THEN "fail deal" ELSE "create run")
        /\ UNCHANGED <<task, attempt, made, failing>>
  /\ UNCHANGED <<rowVars, jobVars, faultVars>>

\* Not one readable document: the status is written directly.
FailUnreadable(w) ==
  /\ At(w, "document.extract", "fail deal")
  /\ deal' = "failed"
  /\ Return(w)
  /\ UNCHANGED <<inputVars, document, text, manualVars, run, reports, researchJobs, jobVars,
                 faultVars>>

NextRun == CHOOSE i \in Runs : run[i] = "absent"

\* aiRun.create, as long as the bound MaxRuns allows.  The worker keeps the id of the run in
\* memory for the job.create that follows.
CreateRun(w) ==
  /\ At(w, "document.extract", "create run")
  /\ \E i \in Runs : run[i] = "absent"
  /\ run' = [run EXCEPT ![NextRun] = "queued"]
  /\ made' = [made EXCEPT ![w] = NextRun]
  /\ Goto(w, "create job")
  /\ UNCHANGED <<inputVars, deal, document, text, manualVars, reports, researchJobs, jobVars,
                 task, attempt, failing, faultVars>>

CreateRunJob(w) ==
  /\ At(w, "document.extract", "create job")
  /\ job' = [job EXCEPT ![Generate(made[w])] = "queued"]
  /\ Return(w)
  /\ UNCHANGED <<rowVars, attempts, holder, faultVars>>

-----------------------------------------------------------------------------
(* AiGenerationHandler.  Its evaluateDealSop writes scores that nothing here reads: like any  *)
(* call between two steps it may throw.                                                       *)

SetRun(w, s) == run' = [run EXCEPT ![Subject(task[w])] = s]

StartGeneration(w) ==
  /\ At(w, "ai.generate", "start")
  /\ SetRun(w, "running")
  /\ Goto(w, "generating")
  /\ UNCHANGED <<inputVars, deal, document, text, manualVars, reports, researchJobs, jobVars,
                 task, attempt, made, failing, faultVars>>

\* Faulty variant: the output is not stored before the handler goes on.
CompleteGenerationUnsaved(w) ==
  /\ At(w, "ai.generate", "generating")
  /\ Goto(w, "research")
  /\ UNCHANGED <<rowVars, jobVars, task, attempt, made, failing, faultVars>>

CompleteGeneration(w) ==
  /\ At(w, "ai.generate", "generating")
  /\ SetRun(w, "completed")
  /\ Goto(w, "research")
  /\ UNCHANGED <<inputVars, deal, document, text, manualVars, reports, researchJobs, jobVars,
                 task, attempt, made, failing, faultVars>>

\* queueResearchIfConfigured: nothing if a report exists, else the report and then its job.
CheckResearch(w) ==
  /\ At(w, "ai.generate", "research")
  /\ Goto(w, IF Research /\ reports = 0 THEN "create report" ELSE "transition")
  /\ UNCHANGED <<rowVars, jobVars, task, attempt, made, failing, faultVars>>

CreateReport(w) ==
  /\ At(w, "ai.generate", "create report")
  /\ reports' = reports + 1
  /\ Goto(w, "create research job")
  /\ UNCHANGED <<inputVars, deal, document, text, manualVars, run, researchJobs, jobVars, task,
                 attempt, made, failing, faultVars>>

CreateResearchJob(w) ==
  /\ At(w, "ai.generate", "create research job")
  /\ researchJobs' = researchJobs + 1
  /\ Goto(w, "transition")
  /\ UNCHANGED <<inputVars, deal, document, text, manualVars, run, reports, jobVars, task,
                 attempt, made, failing, faultVars>>

\* The internal command: allowed from processing, a no-op when ready, refused from failed.
Transition(w) ==
  /\ At(w, "ai.generate", "transition")
  /\ \/ /\ deal \in {"processing", "review_ready"}
        /\ deal' = "review_ready"
        /\ Goto(w, "done")
     \/ /\ deal \notin {"processing", "review_ready"}
        /\ Goto(w, "threw")
        /\ UNCHANGED deal
  /\ UNCHANGED <<inputVars, document, text, manualVars, run, reports, researchJobs, jobVars, task,
                 attempt, made, failing, faultVars>>

-----------------------------------------------------------------------------
(* The last writes of recordFailure: what depended on the failed job is failed too. *)

FailExtraction(w) ==
  /\ pc[w] = "fail extraction"
  /\ SetText(w, FALSE)
  /\ Goto(w, "fail document")
  /\ UNCHANGED <<inputVars, deal, document, manualVars, run, reports, researchJobs, jobVars, task,
                 attempt, made, failing, faultVars>>

FailDocument(w) ==
  /\ pc[w] = "fail document"
  /\ SetDocument(w, "failed")
  /\ Goto(w, "packet")
  /\ UNCHANGED <<inputVars, deal, text, manualVars, run, reports, researchJobs, jobVars, task,
                 attempt, made, failing, faultVars>>

FailRun(w) ==
  /\ pc[w] = "fail run"
  /\ SetRun(w, "failed")
  /\ Goto(w, "fail deal")
  /\ UNCHANGED <<inputVars, deal, document, text, manualVars, reports, researchJobs, jobVars,
                 task, attempt, made, failing, faultVars>>

FailDealOfRun(w) ==
  /\ At(w, "ai.generate", "fail deal")
  /\ deal' = "failed"
  /\ Drop(w)
  /\ UNCHANGED <<inputVars, document, text, manualVars, run, reports, researchJobs, jobVars,
                 faultVars>>

-----------------------------------------------------------------------------
(* DocumentsService.queueExtraction: a member asks for an extraction, whatever the status of  *)
(* the document or of the deal.                                                                *)

QueueExtraction(d) ==
  /\ document[d] # "absent" /\ d \notin manual
  /\ Cardinality(manual) < MaxManual
  /\ manual' = manual \cup {d} /\ asked' = asked \cup {d}
  /\ UNCHANGED <<inputVars, deal, document, text, run, reports, researchJobs, jobVars, workerVars,
                 faultVars>>

EnqueueExtraction(d) ==
  /\ d \in asked /\ asked' = asked \ {d}
  /\ job' = [job EXCEPT ![ExtractAgain(d)] = "queued"]
  /\ UNCHANGED <<inputVars, deal, document, text, manual, run, reports, researchJobs, attempts,
                 holder, workerVars, faultVars>>

\* The queue refuses: row and document are failed, and nobody looks at the packet.
EnqueueExtractionFails(d) ==
  /\ d \in asked /\ asked' = asked \ {d}
  /\ MayFault /\ errors' = errors + 1
  /\ document' = [document EXCEPT ![d] = "failed"]
  /\ UNCHANGED <<inputVars, deal, text, manual, run, reports, researchJobs, jobVars, workerVars,
                 crashes, stalls>>

-----------------------------------------------------------------------------
Init ==
  /\ submitted \in SUBSET Documents /\ readable \in SUBSET submitted
  /\ manual = {} /\ asked = {}
  /\ deal = "absent"
  /\ document = [d \in Documents |-> "absent"] /\ text = {}
  /\ run = [i \in Runs |-> "absent"]
  /\ reports = 0 /\ researchJobs = 0
  /\ job = [j \in Jobs |-> IF j = Finalize THEN "queued" ELSE "absent"]
  /\ attempts = [j \in Jobs |-> 0] /\ holder = [j \in Jobs |-> None]
  /\ pc = [w \in Workers |-> "idle"] /\ task = [w \in Workers |-> None]
  /\ attempt = [w \in Workers |-> 0] /\ made = [w \in Workers |-> 0] /\ failing = {}
  /\ errors = 0 /\ crashes = 0 /\ stalls = 0

HandlerStep(w) ==
  \/ FinalizeIntake(w)
  \/ StartExtraction(w) \/ FindNoText(w) \/ CompleteExtraction(w) \/ MarkAnalyzed(w)
  \/ CheckPacket(w) \/ FailUnreadable(w) \/ CreateRun(w) \/ CreateRunJob(w)
  \/ StartGeneration(w) \/ CompleteGeneration(w)
  \/ CheckResearch(w) \/ CreateReport(w) \/ CreateResearchJob(w) \/ Transition(w)
  \/ FailExtraction(w) \/ FailDocument(w) \/ FailRun(w) \/ FailDealOfRun(w)

WorkerStep(w) ==
  (\E j \in Jobs : Claim(w, j)) \/ HandlerStep(w) \/ Complete(w) \/ RecordFailure(w)

Next ==
  \/ \E w \in Workers : WorkerStep(w) \/ Throw(w) \/ Crash(w) \/ LoseLease(w)
  \/ \E d \in Documents : QueueExtraction(d) \/ EnqueueExtraction(d) \/ EnqueueExtractionFails(d)

Spec == Init /\ [][Next]_vars

\* Live workers keep polling, handlers and requests end; no fault is ever forced.
Fairness ==
  /\ \A w \in Workers : WF_vars(WorkerStep(w))
  /\ \A d \in Documents : WF_vars(EnqueueExtraction(d))
FairSpec == Spec /\ Fairness

-----------------------------------------------------------------------------
(* Properties *)

\* Every variable has the values its column or field can hold.
TypeOK ==
  /\ submitted \subseteq Documents /\ readable \subseteq Documents
  /\ manual \subseteq Documents /\ asked \subseteq manual
  /\ deal \in {"absent", "submitted", "processing", "review_ready", "failed"}
  /\ document \in [Documents -> {"absent", "uploaded", "extracting", "analyzed", "failed"}]
  /\ text \subseteq Extractions
  /\ run \in [Runs -> {"absent", "queued", "running", "completed", "failed"}]
  /\ reports \in Nat /\ researchJobs \in Nat
  /\ job \in [Jobs -> {"absent", "queued", "running", "completed", "failed"}]
  /\ attempts \in [Jobs -> Nat] /\ holder \in [Jobs -> Workers \cup {None}]
  /\ pc \in [Workers -> Steps] /\ task \in [Workers -> Jobs \cup {None}]
  /\ attempt \in [Workers -> Nat] /\ made \in [Workers -> Runs \cup {0}]
  /\ failing \subseteq Workers
  /\ errors \in Nat /\ crashes \in Nat /\ stalls \in Nat

Faultless == errors + crashes + stalls = 0
Settled == deal \in {"review_ready", "failed"}

\* Without faults the AI is asked only when every document has been read or given up, although
\* the extractions of the documents end in any order on any worker.  (A member's extraction may
\* end first and count for the one that still runs.)
PacketWaitsForDocuments ==
  Faultless /\ manual = {} /\ (\E i \in Runs : run[i] # "absent") =>
    \A d \in submitted : document[d] = IF d \in readable THEN "analyzed" ELSE "failed"

\* The deal is offered for review only on the strength of a generated packet, however often the
\* handlers were retried or crashed on the way (a worker that lost its lease is another matter).
ReadyHasPacket ==
  [][deal # "review_ready" /\ deal' = "review_ready" /\ stalls = 0 =>
       \E i \in Runs : run[i] = "completed"]_vars

\* The worker gives a deal up only when every extraction, or an AI job, has used up its attempts.
\* (A member's extraction can make it give up a deal that has been read: each of two extractions
\* of a document overwrites its status, and the newer row hides what the older one has found.)
FailedForAReason ==
  [][deal # "failed" /\ deal' = "failed" /\ stalls = 0 /\ manual = {} =>
       \/ \A d \in submitted : job[Extract(d)] = "failed"
       \/ \E i \in Runs : job[Generate(i)] = "failed"]_vars

\* A run that was created and whose job was not, because the worker failed between the two
\* writes: it counts as active, and nobody will ever work on it.
OrphanRun ==
  \E i \in Runs : run[i] = "queued" /\ job[Generate(i)] = "absent" /\ \A w \in Workers : made[w] # i

\* A processing deal comes to a decision, ready or failed, whichever documents or providers
\* fail on the way; only an orphan run, a crash or a lost lease can leave it stuck.
EveryDealSettles ==
  deal = "processing" ~> Settled \/ OrphanRun \/ crashes + stalls > 0

\* README: failure paths update dependent domain state rather than leaving a deal stuck.
NoDealStuck == deal = "processing" ~> Settled

=============================================================================
