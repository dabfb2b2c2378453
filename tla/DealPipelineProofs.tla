-------------------------- MODULE DealPipelineProofs --------------------------
(***************************************************************************)
(* Theorems about DealPipeline: its types; that a deal is offered for      *)
(* review only with a generated packet; that it is given up only for a     *)
(* reason; and that the AI is asked only when every document is done with. *)
(* The first needs that, as long as no live worker loses its lease, a job  *)
(* has one worker: then nobody else takes the run back that the handler at *)
(* hand has completed.  The other two follow the rows of each document     *)
(* beside its job, on top of the same invariant.                           *)
(***************************************************************************)
EXTENDS DealPipeline, TLAPS

JobStatus == {"absent", "queued", "running", "completed", "failed"}

LEMMA JobShapes ==
  /\ Finalize \in Jobs /\ Extractions \subseteq Jobs
  /\ \A d \in Documents : Extract(d) \in Extractions /\ ExtractAgain(d) \in Extractions
  /\ \A i \in Runs : Generate(i) \in Jobs /\ Subject(Generate(i)) = i
  /\ \A j \in Jobs : Type(j) = "document.extract" => j \in Extractions /\ Subject(j) \in Documents
  /\ \A j \in Jobs : Type(j) = "ai.generate" => Subject(j) \in Runs /\ j = Generate(Subject(j))
  /\ \A j \in Extractions : Type(j) = "document.extract"
  /\ \A i \in Runs : Type(Generate(i)) = "ai.generate"
BY DEF Jobs, Extractions, Finalize, Extract, ExtractAgain, Generate, Type, Subject

LEMMA TypeStep == TypeOK /\ [Next]_vars => TypeOK'
<1> SUFFICES ASSUME TypeOK, [Next]_vars PROVE TypeOK'
  OBVIOUS
<1>t. TypeOK
  OBVIOUS
<1>j. ASSUME NEW w \in Workers, NEW s \in JobStatus, Release(w, s)
      PROVE /\ job' \in [Jobs -> JobStatus] /\ attempts' \in [Jobs -> Nat]
            /\ holder' \in [Jobs -> Workers \cup {None}]
  BY <1>j DEF Release, TypeOK, JobStatus
<1>u. ASSUME UNCHANGED jobVars
      PROVE /\ job' \in [Jobs -> JobStatus] /\ attempts' \in [Jobs -> Nat]
            /\ holder' \in [Jobs -> Workers \cup {None}]
  BY <1>u DEF jobVars, TypeOK, JobStatus
<1>g. ASSUME NEW w \in Workers, NEW s \in Steps, Goto(w, s) PROVE pc' \in [Workers -> Steps]
  BY <1>g DEF Goto, TypeOK
<1>d. ASSUME NEW w \in Workers, Drop(w)
      PROVE /\ pc' \in [Workers -> Steps] /\ task' \in [Workers -> Jobs \cup {None}]
            /\ attempt' \in [Workers -> Nat] /\ made' \in [Workers -> Runs \cup {0}]
            /\ failing' \subseteq Workers
  BY <1>d DEF Drop, Goto, TypeOK, Steps
<1>r. ASSUME NEW w \in Workers, Return(w)
      PROVE /\ pc' \in [Workers -> Steps] /\ task' \in [Workers -> Jobs \cup {None}]
            /\ attempt' \in [Workers -> Nat] /\ made' \in [Workers -> Runs \cup {0}]
            /\ failing' \subseteq Workers
  BY <1>r, <1>d DEF Return, Goto, TypeOK, Steps
<1>1. ASSUME NEW w \in Workers, NEW j \in Jobs, Claim(w, j) PROVE TypeOK'
  <2>1. pc' \in [Workers -> Steps]
    BY <1>1, <1>g DEF Claim, Steps
  <2>2. /\ job' \in [Jobs -> JobStatus] /\ attempts' \in [Jobs -> Nat]
        /\ holder' \in [Jobs -> Workers \cup {None}]
    BY <1>1 DEF Claim, TypeOK, JobStatus
  <2>3. task' \in [Workers -> Jobs \cup {None}] /\ attempt' \in [Workers -> Nat]
    BY <1>1 DEF Claim, TypeOK
  <2> QED
    BY <1>1, <2>1, <2>2, <2>3
    DEF Claim, TypeOK, rowVars, inputVars, manualVars, faultVars, JobStatus
<1>2. ASSUME NEW w \in Workers, Complete(w) PROVE TypeOK'
  BY <1>2, <1>d, <1>j, <1>u
  DEF Complete, TypeOK, rowVars, inputVars, manualVars, faultVars, JobStatus
<1>3. ASSUME NEW w \in Workers, RecordFailure(w) PROVE TypeOK'
  <2>1. CASE Superseded(w) /\ Drop(w) /\ UNCHANGED jobVars
    BY <1>3, <2>1, <1>d, <1>u
    DEF RecordFailure, TypeOK, rowVars, inputVars, manualVars, faultVars, JobStatus
  <2>2. CASE \E s \in JobStatus : Release(w, s) /\ Drop(w)
    BY <1>3, <2>2, <1>d, <1>j
    DEF RecordFailure, TypeOK, rowVars, inputVars, manualVars, faultVars, JobStatus
  <2>3. CASE /\ Release(w, "failed") /\ \E s \in Steps : Goto(w, s)
             /\ failing' = failing \cup {w} /\ UNCHANGED <<task, attempt, made>>
    <3>1. pc' \in [Workers -> Steps]
      BY <2>3, <1>g
    <3>2. "failed" \in JobStatus
      BY DEF JobStatus
    <3> QED
      BY <1>3, <2>3, <3>1, <3>2, <1>j
      DEF RecordFailure, TypeOK, rowVars, inputVars, manualVars, faultVars, JobStatus
  <2> QED
    BY <1>3, <2>1, <2>2, <2>3 DEF RecordFailure, JobStatus, Steps
<1>4. ASSUME NEW w \in Workers, Throw(w) PROVE TypeOK'
  <2>1. pc' \in [Workers -> Steps]
    BY <1>4, <1>g DEF Throw, Steps
  <2> QED
    BY <1>4, <2>1 DEF Throw, TypeOK, rowVars, inputVars, manualVars, jobVars
<1>5. ASSUME NEW w \in Workers, Crash(w) PROVE TypeOK'
  BY <1>5, <1>d, <1>j, <1>u DEF Crash, TypeOK, rowVars, inputVars, manualVars, JobStatus
<1>6. ASSUME NEW w \in Workers, LoseLease(w) PROVE TypeOK'
  BY <1>6, <1>j DEF LoseLease, TypeOK, rowVars, inputVars, manualVars, workerVars, JobStatus
<1>7. ASSUME NEW w \in Workers, FinalizeIntake(w) PROVE TypeOK'
  <2>1. job' \in [Jobs -> JobStatus]
    BY <1>7 DEF FinalizeIntake, TypeOK, JobStatus
  <2>2. document' \in [Documents -> {"absent", "uploaded", "extracting", "analyzed", "failed"}]
    BY <1>7 DEF FinalizeIntake, TypeOK
  <2>3. pc' \in [Workers -> Steps]
    BY <1>7, <1>g DEF FinalizeIntake, Steps
  <2> QED
    BY <1>7, <2>1, <2>2, <2>3
    DEF FinalizeIntake, TypeOK, inputVars, manualVars, faultVars, JobStatus
<1>8. ASSUME NEW w \in Workers, StartExtraction(w) \/ FindNoText(w) \/ MarkAnalyzed(w) \/ FailDocument(w)
      PROVE TypeOK'
  <2>1. pc' \in [Workers -> Steps]
    BY <1>8, <1>g DEF StartExtraction, FindNoText, MarkAnalyzed, FailDocument, Steps
  <2>2. document' \in [Documents -> {"absent", "uploaded", "extracting", "analyzed", "failed"}]
    BY <1>8 DEF StartExtraction, FindNoText, MarkAnalyzed, FailDocument, SetDocument, TypeOK, rowVars
  <2>3. text' \subseteq Extractions
    BY <1>8 DEF StartExtraction, FindNoText, MarkAnalyzed, FailDocument, SetText, TypeOK, rowVars
  <2> QED
    BY <1>8, <2>1, <2>2, <2>3 DEF StartExtraction, FindNoText, MarkAnalyzed, FailDocument, TypeOK,
       rowVars, inputVars, manualVars, jobVars, faultVars
<1>9. ASSUME NEW w \in Workers, CompleteExtraction(w) \/ FailExtraction(w) PROVE TypeOK'
  <2>1. pc' \in [Workers -> Steps]
    BY <1>9, <1>g DEF CompleteExtraction, FailExtraction, Steps
  <2>2. text' \subseteq Extractions
    <3>1. CASE CompleteExtraction(w)
      <4>1. task[w] \in Jobs /\ Type(task[w]) = "document.extract"
        BY <3>1 DEF CompleteExtraction, At, TypeOK
      <4>2. task[w] \in Extractions
        BY <4>1, JobShapes
      <4> QED
        BY <3>1, <4>2 DEF CompleteExtraction, SetText, TypeOK
    <3>2. CASE FailExtraction(w)
      BY <3>2 DEF FailExtraction, SetText, TypeOK
    <3> QED
      BY <1>9, <3>1, <3>2
  <2> QED
    BY <1>9, <2>1, <2>2 DEF CompleteExtraction, FailExtraction, TypeOK, inputVars, manualVars,
       jobVars, faultVars
<1>10. ASSUME NEW w \in Workers, CheckPacket(w) PROVE TypeOK'
  <2>1. CASE Return(w)
    BY <1>10, <2>1, <1>r
    DEF CheckPacket, TypeOK, rowVars, inputVars, manualVars, jobVars, faultVars
  <2>2. CASE ~Return(w)
    <3>1. pc' \in [Workers -> Steps]
      BY <1>10, <2>2, <1>g DEF CheckPacket, Steps
    <3> QED
      BY <1>10, <2>2, <3>1
      DEF CheckPacket, TypeOK, rowVars, inputVars, manualVars, jobVars, faultVars
  <2> QED
    BY <2>1, <2>2
<1>11. ASSUME NEW w \in Workers, FailUnreadable(w) PROVE TypeOK'
  BY <1>11, <1>r DEF FailUnreadable, TypeOK, inputVars, manualVars, jobVars, faultVars
<1>12. ASSUME NEW w \in Workers, CreateRun(w) PROVE TypeOK'
  <2>1. NextRun \in Runs
    BY <1>12 DEF CreateRun, NextRun
  <2>2. made' \in [Workers -> Runs \cup {0}]
    BY <1>12, <2>1 DEF CreateRun, TypeOK
  <2>3. run' \in [Runs -> {"absent", "queued", "running", "completed", "failed"}]
    BY <1>12, <2>1 DEF CreateRun, TypeOK
  <2>4. pc' \in [Workers -> Steps]
    BY <1>12, <1>g DEF CreateRun, Steps
  <2> QED
    BY <1>12, <2>2, <2>3, <2>4 DEF CreateRun, TypeOK, inputVars, manualVars, jobVars, faultVars
<1>13. ASSUME NEW w \in Workers, CreateRunJob(w) PROVE TypeOK'
  <2>1. job' \in [Jobs -> JobStatus]
    BY <1>13 DEF CreateRunJob, TypeOK, JobStatus
  <2> QED
    BY <1>13, <1>r, <2>1
    DEF CreateRunJob, TypeOK, rowVars, inputVars, manualVars, faultVars, JobStatus
<1>14. ASSUME NEW w \in Workers, StartGeneration(w) \/ CompleteGeneration(w) \/ FailRun(w)
       PROVE TypeOK'
  <2>1. pc' \in [Workers -> Steps]
    BY <1>14, <1>g DEF StartGeneration, CompleteGeneration, FailRun, Steps
  <2>2. run' \in [Runs -> {"absent", "queued", "running", "completed", "failed"}]
    BY <1>14 DEF StartGeneration, CompleteGeneration, FailRun, SetRun, TypeOK
  <2> QED
    BY <1>14, <2>1, <2>2
    DEF StartGeneration, CompleteGeneration, FailRun, TypeOK, inputVars, manualVars, jobVars, faultVars
<1>15. ASSUME NEW w \in Workers, \/ CheckResearch(w) \/ CreateReport(w) \/ CreateResearchJob(w)
                                 \/ Transition(w)
       PROVE TypeOK'
  <2>1. pc' \in [Workers -> Steps]
    BY <1>15, <1>g DEF CheckResearch, CreateReport, CreateResearchJob, Transition, Steps
  <2>2. /\ reports' \in Nat /\ researchJobs' \in Nat
        /\ deal' \in {"absent", "submitted", "processing", "review_ready", "failed"}
    <3>1. deal' \in {deal, "review_ready"}
      BY <1>15 DEF CheckResearch, CreateReport, CreateResearchJob, Transition, rowVars
    <3>2. reports' \in {reports, reports + 1} /\ researchJobs' \in {researchJobs, researchJobs + 1}
      BY <1>15 DEF CheckResearch, CreateReport, CreateResearchJob, Transition, rowVars
    <3> QED
      BY <3>1, <3>2 DEF TypeOK
  <2> QED
    BY <1>15, <2>1, <2>2 DEF CheckResearch, CreateReport, CreateResearchJob, Transition, TypeOK,
       rowVars, inputVars, manualVars, jobVars, faultVars
<1>16. ASSUME NEW w \in Workers, FailDealOfRun(w) PROVE TypeOK'
  BY <1>16, <1>d DEF FailDealOfRun, TypeOK, inputVars, manualVars, jobVars, faultVars
<1>17. ASSUME NEW d \in Documents, QueueExtraction(d) PROVE TypeOK'
  BY <1>17 DEF QueueExtraction, TypeOK, inputVars, jobVars, workerVars, faultVars
<1>18. ASSUME NEW d \in Documents, EnqueueExtraction(d) PROVE TypeOK'
  BY <1>18 DEF EnqueueExtraction, TypeOK, inputVars, workerVars, faultVars
<1>19. ASSUME NEW d \in Documents, EnqueueExtractionFails(d) PROVE TypeOK'
  BY <1>19 DEF EnqueueExtractionFails, TypeOK, inputVars, jobVars, workerVars
<1>20. CASE UNCHANGED vars
  BY <1>20 DEF vars, rowVars, inputVars, manualVars, jobVars, workerVars, faultVars, TypeOK
<1> QED
  BY <1>1, <1>2, <1>3, <1>4, <1>5, <1>6, <1>7, <1>8, <1>9, <1>10, <1>11, <1>12, <1>13, <1>14,
     <1>15, <1>16, <1>17, <1>18, <1>19, <1>20 DEF Next, WorkerStep, HandlerStep

\* Every value that the rows of a submission, its jobs and its workers' memory can have in
\* DealPipeline is one of its type, for any numbers of documents, workers, attempts and faults.
THEOREM TypeCorrect == Spec => []TypeOK
<1>1. Init => TypeOK
  BY BoundsAssumption DEF Init, TypeOK, Steps
<1> QED
  BY <1>1, TypeStep, PTL DEF Spec

-----------------------------------------------------------------------------
(* The invariant. *)

\* Only steps that settle a failed job are taken by a worker that settles one; a worker that is
\* not idle has a job.
FailSteps == {"fail extraction", "fail document", "packet", "create run", "create job",
              "fail deal", "fail run"}
BusyInv ==
  \A w \in Workers :
    /\ pc[w] # "idle" => task[w] \in Jobs
    /\ w \in failing => pc[w] \in FailSteps
    /\ pc[w] = "fail run" => Type(task[w]) = "ai.generate"

\* While no live worker has lost its lease: a worker holds the job it works on, or settles it
\* after its failure.
OwnInv ==
  \A w \in Workers : pc[w] # "idle" =>
    IF w \in failing THEN job[task[w]] = "failed" /\ holder[task[w]] = None
                     ELSE job[task[w]] = "running" /\ holder[task[w]] = w

\* Jobs that a finalizer, a member's request or a finished extraction is to create are absent,
\* and each has one creator.
CreateInv ==
  /\ deal = "absent" => \A d \in Documents : job[Extract(d)] = "absent"
  /\ \A d \in Documents : d \notin manual \/ d \in asked => job[ExtractAgain(d)] = "absent"
  /\ \A i \in Runs : run[i] = "absent" =>
       job[Generate(i)] = "absent" /\ \A w \in Workers : pc[w] = "create job" => made[w] # i
  /\ \A w \in Workers : pc[w] = "create job" => made[w] \in Runs /\ job[Generate(made[w])] = "absent"
  /\ \A w, v \in Workers : w # v /\ pc[w] = "create job" /\ pc[v] = "create job" => made[w] # made[v]

\* Past the completion of its run, ai.generate relies on it.
PastGeneration == {"research", "create report", "create research job", "transition"}
RunInv ==
  \A w \in Workers : pc[w] \in PastGeneration /\ Type(task[w]) = "ai.generate" =>
    run[Subject(task[w])] = "completed"

LeaseInv == stalls = 0 => OwnInv /\ CreateInv /\ RunInv
IInv == TypeOK /\ BusyInv /\ LeaseInv

\* The parts of the type invariant that the steps below need.
RowTypes ==
  /\ job \in [Jobs -> JobStatus] /\ holder \in [Jobs -> Workers \cup {None}]
  /\ pc \in [Workers -> Steps] /\ task \in [Workers -> Jobs \cup {None}]
  /\ made \in [Workers -> Runs \cup {0}] /\ failing \subseteq Workers
  /\ run \in [Runs -> JobStatus] /\ stalls \in Nat
LEMMA TypesOfRows == TypeOK => RowTypes
BY DEF TypeOK, RowTypes, JobStatus

\* Steps that create nothing preserve CreateInv.
LEMMA CreateStays ==
  ASSUME CreateInv, UNCHANGED <<manual, asked>>, deal' = "absent" => deal = "absent",
         \A d \in Documents : job[Extract(d)] = "absent" => job'[Extract(d)] = "absent",
         \A d \in Documents : job[ExtractAgain(d)] = "absent" => job'[ExtractAgain(d)] = "absent",
         \A i \in Runs : job[Generate(i)] = "absent" => job'[Generate(i)] = "absent",
         \A i \in Runs : run'[i] = "absent" => run[i] = "absent",
         \A v \in Workers : pc'[v] = "create job" => pc[v] = "create job" /\ made'[v] = made[v]
  PROVE  CreateInv'
<1>1. (deal = "absent" => \A d \in Documents : job[Extract(d)] = "absent")'
  BY DEF CreateInv, Extract
<1>2. (\A d \in Documents : d \notin manual \/ d \in asked => job[ExtractAgain(d)] = "absent")'
  BY DEF CreateInv, ExtractAgain
<1>3. (\A i \in Runs : run[i] = "absent" =>
        job[Generate(i)] = "absent" /\ \A w \in Workers : pc[w] = "create job" => made[w] # i)'
  <2> SUFFICES ASSUME NEW i \in Runs, run'[i] = "absent"
               PROVE /\ job'[Generate(i)] = "absent"
                     /\ \A w \in Workers : pc'[w] = "create job" => made'[w] # i
    BY DEF Generate
  <2>1. /\ job[Generate(i)] = "absent"
        /\ \A w \in Workers : pc[w] = "create job" => made[w] # i
    BY DEF CreateInv
  <2> QED
    BY <2>1
<1>4. (\A w \in Workers : pc[w] = "create job" =>
        made[w] \in Runs /\ job[Generate(made[w])] = "absent")'
  BY DEF CreateInv, Generate
<1>5. (\A w, v \in Workers : w # v /\ pc[w] = "create job" /\ pc[v] = "create job"
        => made[w] # made[v])'
  <2> SUFFICES ASSUME NEW w \in Workers, NEW v \in Workers, w # v, pc'[w] = "create job",
                      pc'[v] = "create job"
               PROVE made'[w] # made'[v]
    OBVIOUS
  <2>1. /\ pc[w] = "create job" /\ made'[w] = made[w]
        /\ pc[v] = "create job" /\ made'[v] = made[v]
    OBVIOUS
  <2> QED
    BY <2>1 DEF CreateInv
<1> QED
  BY <1>1, <1>2, <1>3, <1>4, <1>5 DEF CreateInv

\* A worker moves on within its job and creates nothing.
MovesTo(w, s) ==
  /\ pc[w] # "idle" /\ Goto(w, s) /\ s \notin {"idle", "create job", "fail run"}
  /\ w \in failing => s \in FailSteps
  /\ UNCHANGED <<task, made, failing, job, holder, manual, asked, stalls>>
  /\ deal' = "absent" => deal = "absent"
LEMMA MoveStep ==
  ASSUME RowTypes, BusyInv, LeaseInv, NEW w \in Workers, NEW s, MovesTo(w, s), UNCHANGED run,
         stalls = 0 /\ s \in PastGeneration /\ Type(task[w]) = "ai.generate" =>
           run[Subject(task[w])] = "completed"
  PROVE  BusyInv' /\ LeaseInv'
<1>1. \A v \in Workers : pc'[v] = IF v = w THEN s ELSE pc[v]
  BY DEF MovesTo, Goto, RowTypes
<1>2. BusyInv'
  BY <1>1 DEF MovesTo, BusyInv
<1>3. stalls = 0 => OwnInv'
  BY <1>1 DEF MovesTo, LeaseInv, OwnInv
<1>4. stalls = 0 => CreateInv'
  <2> SUFFICES ASSUME stalls = 0 PROVE CreateInv'
    OBVIOUS
  <2>1. UNCHANGED <<made, job, manual, asked, run>> /\ (deal' = "absent" => deal = "absent")
    BY DEF MovesTo
  <2>2. \A v \in Workers : pc'[v] = "create job" => pc[v] = "create job"
    BY <1>1 DEF MovesTo
  <2>3. CreateInv
    BY DEF LeaseInv
  <2> QED
    BY <2>1, <2>2, <2>3, CreateStays
<1>5. stalls = 0 => RunInv'
  BY <1>1 DEF MovesTo, LeaseInv, RunInv
<1> QED
  BY <1>2, <1>3, <1>4, <1>5 DEF MovesTo, LeaseInv

\* A worker is done with its job and writes nothing else.
LEMMA DropStep ==
  ASSUME RowTypes, BusyInv, LeaseInv, NEW w \in Workers, Drop(w),
         UNCHANGED <<job, holder, run, manual, asked, stalls>>, deal' = "absent" => deal = "absent"
  PROVE  BusyInv' /\ LeaseInv'
<1>1. /\ \A v \in Workers : pc'[v] = IF v = w THEN "idle" ELSE pc[v]
      /\ \A v \in Workers \ {w} : task'[v] = task[v] /\ made'[v] = made[v]
      /\ \A v \in Workers \ {w} : v \in failing' <=> v \in failing
      /\ w \notin failing'
  BY DEF Drop, Goto, RowTypes
<1>2. BusyInv'
  BY <1>1 DEF BusyInv
<1>3. stalls = 0 => OwnInv'
  BY <1>1 DEF LeaseInv, OwnInv
<1>4. stalls = 0 => CreateInv'
  <2> SUFFICES ASSUME stalls = 0 PROVE CreateInv'
    OBVIOUS
  <2>1. \A v \in Workers : pc'[v] = "create job" => pc[v] = "create job" /\ made'[v] = made[v]
    BY <1>1
  <2> QED
    BY <2>1, CreateStays DEF LeaseInv
<1>5. stalls = 0 => RunInv'
  BY <1>1 DEF LeaseInv, RunInv, PastGeneration
<1> QED
  BY <1>2, <1>3, <1>4, <1>5 DEF LeaseInv

\* A worker gives its lease up, and is done or settles the failure.
LEMMA ReleaseStep ==
  ASSUME RowTypes, BusyInv, LeaseInv, NEW w \in Workers, NEW s \in JobStatus, Release(w, s),
         pc[w] # "idle", ~Superseded(w),
         \/ Drop(w)
         \/ /\ s = "failed" /\ failing' = failing \cup {w} /\ UNCHANGED <<task, made>>
            /\ \E step \in {"fail extraction", "fail run"} :
                 Goto(w, step) /\ (step = "fail run" => Type(task[w]) = "ai.generate"),
         UNCHANGED <<run, manual, asked, stalls, deal>>
  PROVE  BusyInv' /\ LeaseInv'
<1> DEFINE t == task[w]
<1>1. /\ \A v \in Workers \ {w} : /\ pc'[v] = pc[v] /\ task'[v] = task[v] /\ made'[v] = made[v]
                                  /\ v \in failing' <=> v \in failing
      /\ \/ pc'[w] = "idle" /\ w \notin failing'
         \/ /\ pc'[w] \in {"fail extraction", "fail run"} /\ task'[w] = task[w] /\ w \in failing'
            /\ s = "failed"
            /\ pc'[w] = "fail run" => Type(task[w]) = "ai.generate"
  BY DEF Drop, Goto, RowTypes
<1>2. t \in Jobs /\ holder[t] = w
  BY DEF BusyInv, Superseded
<1>3. /\ job'[t] = s /\ \A j \in Jobs \ {t} : job'[j] = job[j] /\ holder'[j] = holder[j]
  BY <1>2 DEF Release, RowTypes
<1>4. BusyInv'
  BY <1>1, <1>2 DEF BusyInv, FailSteps
<1> SUFFICES ASSUME stalls = 0 PROVE OwnInv' /\ CreateInv' /\ RunInv'
  BY <1>4 DEF LeaseInv
<1>5. OwnInv /\ CreateInv /\ RunInv
  BY DEF LeaseInv
<1>6. job[t] = "running" /\ w \notin failing
  BY <1>2, <1>5, SentinelAssumption DEF OwnInv
<1>7. \A v \in Workers \ {w} : pc[v] # "idle" => task[v] # t
  BY <1>2, <1>5, <1>6 DEF OwnInv
<1>8. OwnInv'
  <2> SUFFICES ASSUME NEW v \in Workers, pc'[v] # "idle"
               PROVE (IF v \in failing THEN job[task[v]] = "failed" /\ holder[task[v]] = None
                      ELSE job[task[v]] = "running" /\ holder[task[v]] = v)'
    BY DEF OwnInv
  <2>1. CASE v = w
    <3>1. holder'[t] = None
      BY <1>2 DEF Release, RowTypes
    <3> QED
      BY <1>1, <1>3, <2>1, <3>1
  <2>2. CASE v # w
    <3>1. pc[v] # "idle" /\ task'[v] = task[v] /\ task[v] # t /\ task[v] \in Jobs
      BY <1>1, <1>7, <2>2 DEF BusyInv
    <3> QED
      <4>1. /\ job'[task[v]] = job[task[v]] /\ holder'[task[v]] = holder[task[v]]
            /\ v \in failing' <=> v \in failing
        BY <1>1, <1>3, <2>2, <3>1
      <4> QED
        BY <1>5, <3>1, <4>1 DEF OwnInv
  <2> QED
    BY <2>1, <2>2
<1>9. CreateInv'
  <2>1. \A j \in Jobs : job[j] = "absent" => job'[j] = "absent"
    BY <1>3, <1>6
  <2>2. \A v \in Workers : pc'[v] = "create job" => pc[v] = "create job" /\ made'[v] = made[v]
    BY <1>1
  <2> QED
    BY <1>5, <2>1, <2>2, CreateStays, JobShapes
<1>10. RunInv'
  BY <1>1, <1>5 DEF RunInv, PastGeneration
<1> QED
  BY <1>8, <1>9, <1>10

\* A worker writes the status of its run, and that is not absent.
LEMMA RunStep ==
  ASSUME RowTypes, BusyInv, LeaseInv, NEW w \in Workers, NEW s, NEW r \in JobStatus \ {"absent"},
         MovesTo(w, s), SetRun(w, r), Type(task[w]) = "ai.generate",
         s \in PastGeneration => r = "completed"
  PROVE  BusyInv' /\ LeaseInv'
<1>1. \A v \in Workers : pc'[v] = IF v = w THEN s ELSE pc[v]
  BY DEF MovesTo, Goto, RowTypes
<1>2. BusyInv'
  BY <1>1 DEF MovesTo, BusyInv
<1> SUFFICES ASSUME stalls = 0 PROVE OwnInv' /\ CreateInv' /\ RunInv'
  BY <1>2 DEF LeaseInv, MovesTo
<1>3. OwnInv /\ CreateInv /\ RunInv
  BY DEF LeaseInv
<1>4. task[w] \in Jobs /\ Subject(task[w]) \in Runs /\ task[w] = Generate(Subject(task[w]))
  BY JobShapes DEF BusyInv, MovesTo
<1>5. /\ run'[Subject(task[w])] = r
      /\ \A i \in Runs \ {Subject(task[w])} : run'[i] = run[i]
  BY <1>4 DEF SetRun, RowTypes
<1>6. OwnInv'
  BY <1>1, <1>3 DEF MovesTo, OwnInv
<1>7. CreateInv'
  <2>1. UNCHANGED <<made, job, manual, asked>> /\ (deal' = "absent" => deal = "absent")
    BY DEF MovesTo
  <2>2. \A v \in Workers : pc'[v] = "create job" => pc[v] = "create job"
    BY <1>1 DEF MovesTo
  <2>3. \A i \in Runs : run'[i] = "absent" => run[i] = "absent"
    BY <1>5
  <2> QED
    BY <1>3, <2>1, <2>2, <2>3, CreateStays
<1>8. RunInv'
  <2> SUFFICES ASSUME NEW v \in Workers, pc'[v] \in PastGeneration, Type(task[v]) = "ai.generate"
               PROVE run'[Subject(task[v])] = "completed"
    BY DEF MovesTo, RunInv
  <2>1. CASE v = w
    BY <1>1, <1>5, <2>1
  <2>2. CASE v # w
    <3>1. /\ pc[v] \in PastGeneration /\ pc[v] # "idle" /\ v \notin failing
          /\ run[Subject(task[v])] = "completed"
      BY <1>1, <1>3, <2>2 DEF RunInv, PastGeneration, BusyInv, FailSteps
    <3>2. task[v] \in Jobs /\ Subject(task[v]) \in Runs /\ task[v] = Generate(Subject(task[v]))
      BY <3>1, JobShapes DEF BusyInv
    <3>3. job[task[v]] = "running" /\ holder[task[v]] = v
      BY <1>3, <3>1 DEF OwnInv
    <3>4. task[w] # task[v]
      BY <1>3, <2>2, <3>3, SentinelAssumption DEF OwnInv, MovesTo
    <3> QED
      BY <1>4, <1>5, <3>1, <3>2, <3>4
  <2> QED
    BY <2>1, <2>2
<1> QED
  BY <1>6, <1>7, <1>8

\* Jobs that were absent are created, by no worker's step within its job or by one.
LEMMA EnqueueStep ==
  ASSUME RowTypes, BusyInv, LeaseInv, UNCHANGED <<holder, failing, run, task, stalls>>,
         job' \in [Jobs -> JobStatus],
         stalls = 0 => \A j \in Jobs : job'[j] = job[j] \/ job[j] = "absent",
         CreateInv => CreateInv',
         \/ UNCHANGED pc
         \/ \E w \in Workers : /\ pc[w] # "idle" /\ w \notin failing /\ Goto(w, "done")
  PROVE  BusyInv' /\ LeaseInv'
<1>1. \A v \in Workers : pc'[v] = pc[v] \/ (pc'[v] = "done" /\ pc[v] # "idle" /\ v \notin failing)
  BY DEF Goto, RowTypes
<1>2. BusyInv'
  BY <1>1 DEF BusyInv
<1>3. stalls = 0 => OwnInv'
  <2> SUFFICES ASSUME stalls = 0, NEW v \in Workers, pc'[v] # "idle"
               PROVE (IF v \in failing THEN job[task[v]] = "failed" /\ holder[task[v]] = None
                      ELSE job[task[v]] = "running" /\ holder[task[v]] = v)'
    BY DEF OwnInv
  <2>1. pc[v] # "idle" /\ task[v] \in Jobs
    BY <1>1 DEF BusyInv
  <2>2. IF v \in failing THEN job[task[v]] = "failed" /\ holder[task[v]] = None
                         ELSE job[task[v]] = "running" /\ holder[task[v]] = v
    BY <2>1 DEF LeaseInv, OwnInv
  <2>3. job'[task[v]] = job[task[v]]
    BY <2>1, <2>2
  <2> QED
    BY <2>2, <2>3
<1>4. stalls = 0 => RunInv'
  BY <1>1 DEF LeaseInv, RunInv, PastGeneration
<1> QED
  BY <1>2, <1>3, <1>4 DEF LeaseInv

LEMMA ClaimStep ==
  ASSUME RowTypes, BusyInv, LeaseInv, NEW w \in Workers, NEW j \in Jobs, Claim(w, j)
  PROVE  BusyInv' /\ LeaseInv'
<1>1. /\ \A v \in Workers \ {w} : pc'[v] = pc[v] /\ task'[v] = task[v]
      /\ pc'[w] = "start" /\ task'[w] = j /\ pc[w] = "idle"
      /\ UNCHANGED <<made, failing, run, manual, asked, deal, stalls>>
  BY DEF Claim, Goto, RowTypes, rowVars, manualVars, faultVars
<1>2. /\ job[j] = "queued" /\ job'[j] = "running" /\ holder'[j] = w
      /\ \A k \in Jobs \ {j} : job'[k] = job[k] /\ holder'[k] = holder[k]
  BY DEF Claim, RowTypes
<1>3. BusyInv'
  BY <1>1 DEF BusyInv, FailSteps
<1> SUFFICES ASSUME stalls = 0 PROVE OwnInv' /\ CreateInv' /\ RunInv'
  BY <1>1, <1>3 DEF LeaseInv
<1>4. OwnInv /\ CreateInv /\ RunInv
  BY DEF LeaseInv
<1>5. OwnInv'
  <2> SUFFICES ASSUME NEW v \in Workers, pc'[v] # "idle"
               PROVE (IF v \in failing THEN job[task[v]] = "failed" /\ holder[task[v]] = None
                      ELSE job[task[v]] = "running" /\ holder[task[v]] = v)'
    BY DEF OwnInv
  <2>1. CASE v = w
    <3>1. w \notin failing
      BY <1>1 DEF BusyInv, FailSteps
    <3> QED
      BY <1>1, <1>2, <2>1, <3>1
  <2>2. CASE v # w
    <3>1. IF v \in failing THEN job[task[v]] = "failed" /\ holder[task[v]] = None
                           ELSE job[task[v]] = "running" /\ holder[task[v]] = v
      BY <1>1, <1>4, <2>2 DEF OwnInv
    <3>2. task[v] \in Jobs \ {j}
      BY <1>1, <1>2, <2>2, <3>1 DEF BusyInv
    <3> QED
      BY <1>1, <1>2, <2>2, <3>1, <3>2
  <2> QED
    BY <2>1, <2>2
<1>6. CreateInv'
  <2>1. \A k \in Jobs : job[k] = "absent" => job'[k] = "absent"
    BY <1>2
  <2>2. \A v \in Workers : pc'[v] = "create job" => pc[v] = "create job" /\ made'[v] = made[v]
    BY <1>1
  <2> QED
    BY <1>1, <1>4, <2>1, <2>2, CreateStays, JobShapes
<1>7. RunInv'
  BY <1>1, <1>4 DEF RunInv, PastGeneration
<1> QED
  BY <1>5, <1>6, <1>7

LEMMA CreateRunStep ==
  ASSUME RowTypes, BusyInv, LeaseInv, NEW w \in Workers, CreateRun(w)
  PROVE  BusyInv' /\ LeaseInv'
<1> DEFINE n == NextRun
<1>1. n \in Runs /\ run[n] = "absent"
  BY DEF CreateRun, NextRun
<1> HIDE DEF n
<1>2. /\ \A v \in Workers \ {w} : pc'[v] = pc[v] /\ made'[v] = made[v]
      /\ pc[w] = "create run" /\ pc'[w] = "create job" /\ made'[w] = n
      /\ UNCHANGED <<task, failing, job, holder, manual, asked, deal, stalls>>
  BY DEF CreateRun, At, Goto, RowTypes, manualVars, jobVars, faultVars, n
<1>3. run'[n] = "queued" /\ \A i \in Runs \ {n} : run'[i] = run[i]
  BY <1>1 DEF CreateRun, RowTypes, n
<1>4. BusyInv'
  BY <1>2 DEF BusyInv, FailSteps
<1> SUFFICES ASSUME stalls = 0 PROVE OwnInv' /\ CreateInv' /\ RunInv'
  BY <1>2, <1>4 DEF LeaseInv
<1>5. OwnInv /\ CreateInv /\ RunInv
  BY DEF LeaseInv
<1>6. OwnInv'
  BY <1>2, <1>5 DEF OwnInv
<1>7. job[Generate(n)] = "absent" /\ \A v \in Workers : pc[v] = "create job" => made[v] # n
  BY <1>1, <1>5 DEF CreateInv
<1>8. CreateInv'
  <2>1. (deal = "absent" => \A d \in Documents : job[Extract(d)] = "absent")'
    BY <1>2, <1>5 DEF CreateInv, Extract
  <2>2. (\A d \in Documents : d \notin manual \/ d \in asked => job[ExtractAgain(d)] = "absent")'
    BY <1>2, <1>5 DEF CreateInv, ExtractAgain
  <2>3. ASSUME NEW i \in Runs, run'[i] = "absent"
        PROVE job'[Generate(i)] = "absent" /\ \A v \in Workers : pc'[v] = "create job" => made'[v] # i
    <3>1. i # n /\ run[i] = "absent"
      BY <1>3, <2>3
    <3>2. job[Generate(i)] = "absent" /\ \A v \in Workers : pc[v] = "create job" => made[v] # i
      BY <1>5, <3>1 DEF CreateInv
    <3> QED
      BY <1>2, <3>1, <3>2
  <2>4. ASSUME NEW v \in Workers, pc'[v] = "create job"
        PROVE made'[v] \in Runs /\ job'[Generate(made'[v])] = "absent"
    <3>1. CASE v = w
      BY <1>1, <1>2, <1>7, <3>1
    <3>2. CASE v # w
      BY <1>2, <1>5, <2>4, <3>2 DEF CreateInv
    <3> QED
      BY <3>1, <3>2
  <2>5. ASSUME NEW v \in Workers, NEW u \in Workers, v # u, pc'[v] = "create job",
               pc'[u] = "create job"
        PROVE made'[v] # made'[u]
    <3>1. CASE v # w /\ u # w
      BY <1>2, <1>5, <2>5, <3>1 DEF CreateInv
    <3>2. CASE v = w
      BY <1>2, <1>7, <2>5, <3>2
    <3>3. CASE u = w
      BY <1>2, <1>7, <2>5, <3>3
    <3> QED
      BY <3>1, <3>2, <3>3
  <2>6. /\ (\A i \in Runs : run[i] = "absent" =>
              job[Generate(i)] = "absent" /\ \A v \in Workers : pc[v] = "create job" => made[v] # i)'
        /\ (\A v \in Workers : pc[v] = "create job" =>
              made[v] \in Runs /\ job[Generate(made[v])] = "absent")'
    BY <2>3, <2>4 DEF Generate
  <2> QED
    BY <2>1, <2>2, <2>5, <2>6 DEF CreateInv
<1>9. RunInv'
  <2> SUFFICES ASSUME NEW v \in Workers, pc'[v] \in PastGeneration, Type(task[v]) = "ai.generate"
               PROVE run'[Subject(task[v])] = "completed"
    BY <1>2 DEF RunInv
  <2>1. v # w /\ pc[v] \in PastGeneration
    BY <1>2 DEF PastGeneration
  <2>2. run[Subject(task[v])] = "completed" /\ task[v] \in Jobs
    BY <1>5, <2>1 DEF RunInv, BusyInv, PastGeneration
  <2>3. Subject(task[v]) \in Runs \ {n}
    BY <1>1, <2>2, JobShapes
  <2> QED
    BY <1>3, <2>2, <2>3
<1> QED
  BY <1>6, <1>8, <1>9

LEMMA CreateRunJobStep ==
  ASSUME RowTypes, BusyInv, LeaseInv, NEW w \in Workers, CreateRunJob(w)
  PROVE  BusyInv' /\ LeaseInv'
<1>1. /\ \A v \in Workers \ {w} : /\ pc'[v] = pc[v] /\ task'[v] = task[v] /\ made'[v] = made[v]
                                  /\ v \in failing' <=> v \in failing
      /\ pc[w] = "create job"
      /\ \/ pc'[w] = "idle" /\ w \notin failing'
         \/ /\ pc'[w] = "done" /\ task'[w] = task[w] /\ w \notin failing /\ w \notin failing'
      /\ UNCHANGED <<holder, run, manual, asked, deal, stalls>>
  BY DEF CreateRunJob, At, Return, Drop, Goto, RowTypes, rowVars, manualVars, faultVars
<1>2. BusyInv'
  BY <1>1 DEF BusyInv, FailSteps
<1> SUFFICES ASSUME stalls = 0 PROVE OwnInv' /\ CreateInv' /\ RunInv'
  BY <1>1, <1>2 DEF LeaseInv
<1>3. OwnInv /\ CreateInv /\ RunInv
  BY DEF LeaseInv
<1> DEFINE g == Generate(made[w])
<1>4. made[w] \in Runs /\ g \in Jobs /\ job[g] = "absent"
  BY <1>1, <1>3, JobShapes DEF CreateInv
<1>5. job' = [job EXCEPT ![g] = "queued"]
  BY DEF CreateRunJob
<1>6. \A j \in Jobs \ {g} : job'[j] = job[j]
  BY <1>4, <1>5 DEF RowTypes
<1>7. \A i \in Runs : Generate(i) = g => i = made[w]
  BY <1>4, JobShapes
<1>8. \A d \in Documents : Extract(d) # g /\ ExtractAgain(d) # g
  BY <1>4, JobShapes
<1> HIDE DEF g
<1>9. OwnInv'
  <2> SUFFICES ASSUME NEW v \in Workers, pc'[v] # "idle"
               PROVE (IF v \in failing THEN job[task[v]] = "failed" /\ holder[task[v]] = None
                      ELSE job[task[v]] = "running" /\ holder[task[v]] = v)'
    BY DEF OwnInv
  <2>1. /\ pc[v] # "idle" /\ task'[v] = task[v] /\ task[v] \in Jobs
        /\ v \in failing' <=> v \in failing
    BY <1>1 DEF BusyInv
  <2>2. IF v \in failing THEN job[task[v]] = "failed" /\ holder[task[v]] = None
                         ELSE job[task[v]] = "running" /\ holder[task[v]] = v
    BY <1>3, <2>1 DEF OwnInv
  <2>3. job'[task[v]] = job[task[v]]
    BY <1>4, <1>6, <2>1, <2>2
  <2> QED
    BY <1>1, <2>1, <2>2, <2>3
<1>10. CreateInv'
  <2>1. ASSUME NEW d \in Documents
        PROVE /\ deal' = "absent" => job'[Extract(d)] = "absent"
              /\ d \notin manual' \/ d \in asked' => job'[ExtractAgain(d)] = "absent"
    <3>1. /\ job'[Extract(d)] = job[Extract(d)]
          /\ job'[ExtractAgain(d)] = job[ExtractAgain(d)]
      BY <1>6, <1>8, JobShapes
    <3> QED
      BY <1>1, <1>3, <3>1 DEF CreateInv
  <2>2. ASSUME NEW i \in Runs, run'[i] = "absent"
        PROVE job'[Generate(i)] = "absent" /\ \A v \in Workers : pc'[v] = "create job" => made'[v] # i
    <3>1. job[Generate(i)] = "absent" /\ \A v \in Workers : pc[v] = "create job" => made[v] # i
      BY <1>1, <1>3, <2>2 DEF CreateInv
    <3>2. Generate(i) # g
      BY <1>1, <1>7, <3>1
    <3>3. job'[Generate(i)] = "absent"
      BY <1>6, <3>1, <3>2, JobShapes
    <3> QED
      BY <1>1, <3>1, <3>3
  <2>3. ASSUME NEW v \in Workers, pc'[v] = "create job"
        PROVE made'[v] \in Runs /\ job'[Generate(made'[v])] = "absent"
    <3>1. v # w /\ pc[v] = "create job" /\ made'[v] = made[v]
      BY <1>1, <2>3
    <3>2. made[v] \in Runs /\ job[Generate(made[v])] = "absent" /\ made[v] # made[w]
      BY <1>1, <1>3, <3>1 DEF CreateInv
    <3>3. job'[Generate(made[v])] = "absent"
      BY <1>6, <1>7, <3>2, JobShapes
    <3> QED
      BY <3>1, <3>2, <3>3
  <2>4. (\A v, u \in Workers : v # u /\ pc[v] = "create job" /\ pc[u] = "create job"
          => made[v] # made[u])'
    <3> SUFFICES ASSUME NEW v \in Workers, NEW u \in Workers, v # u, pc'[v] = "create job",
                        pc'[u] = "create job"
                 PROVE made'[v] # made'[u]
      OBVIOUS
    <3>1. /\ pc[v] = "create job" /\ pc[u] = "create job"
          /\ made'[v] = made[v] /\ made'[u] = made[u]
      BY <1>1
    <3> QED
      BY <1>3, <3>1 DEF CreateInv
  <2>5. /\ (deal = "absent" => \A d \in Documents : job[Extract(d)] = "absent")'
        /\ (\A d \in Documents : d \notin manual \/ d \in asked => job[ExtractAgain(d)] = "absent")'
    BY <2>1 DEF Extract, ExtractAgain
  <2>6. /\ (\A i \in Runs : run[i] = "absent" =>
              job[Generate(i)] = "absent" /\ \A v \in Workers : pc[v] = "create job" => made[v] # i)'
        /\ (\A v \in Workers : pc[v] = "create job" =>
              made[v] \in Runs /\ job[Generate(made[v])] = "absent")'
    BY <2>2, <2>3 DEF Generate
  <2> QED
    BY <2>4, <2>5, <2>6 DEF CreateInv
<1>11. RunInv'
  BY <1>1, <1>3 DEF RunInv, PastGeneration
<1> QED
  BY <1>9, <1>10, <1>11

\* The jobs that finalization and a member's request create were absent.
LEMMA JobsApart ==
  /\ \A d, e \in Documents : Extract(d) # ExtractAgain(e)
  /\ \A d, e \in Documents : ExtractAgain(d) = ExtractAgain(e) => d = e
  /\ \A d \in Documents : \A i \in Runs : Generate(i) # Extract(d) /\ Generate(i) # ExtractAgain(d)
BY DEF Extract, ExtractAgain, Generate

LEMMA FinalizeStep ==
  ASSUME TypeOK, BusyInv, LeaseInv, NEW w \in Workers, FinalizeIntake(w)
  PROVE  BusyInv' /\ LeaseInv'
<1>1. RowTypes
  BY TypesOfRows
<1>2. w \notin failing /\ pc[w] = "start"
  BY DEF FinalizeIntake, At, BusyInv, FailSteps
<1>3. CASE deal # "absent"
  <2>1. MovesTo(w, "done") \/ MovesTo(w, "threw")
    BY <1>2, <1>3 DEF FinalizeIntake, MovesTo, manualVars, faultVars
  <2>2. UNCHANGED run
    BY <1>3 DEF FinalizeIntake
  <2> QED
    BY <1>1, <2>1, <2>2, MoveStep DEF PastGeneration
<1>4. CASE deal = "absent"
  <2>1. /\ job' = [j \in Jobs |-> IF \E d \in submitted : j = Extract(d) THEN "queued" ELSE job[j]]
        /\ UNCHANGED <<holder, failing, run, task, stalls, manual, asked, made>>
        /\ Goto(w, "done") /\ deal' # "absent"
    BY <1>4 DEF FinalizeIntake, manualVars, faultVars
  <2>2. job' \in [Jobs -> JobStatus]
    BY <1>1, <2>1 DEF RowTypes, JobStatus
  <2>3. submitted \subseteq Documents
    BY DEF TypeOK
  <2>4. ASSUME CreateInv PROVE \A j \in Jobs : job'[j] = job[j] \/ job[j] = "absent"
    BY <1>4, <2>1, <2>3, <2>4 DEF CreateInv
  <2>5. ASSUME CreateInv PROVE CreateInv'
    <3>1. \A d \in Documents : job'[ExtractAgain(d)] = job[ExtractAgain(d)]
      BY <2>1, <2>3, JobShapes, JobsApart
    <3>2. \A i \in Runs : job'[Generate(i)] = job[Generate(i)]
      BY <2>1, <2>3, JobShapes, JobsApart
    <3>3. \A v \in Workers : pc'[v] = "create job" => pc[v] = "create job"
      BY <1>1, <2>1 DEF Goto, RowTypes
    <3>4. (deal = "absent" => \A d \in Documents : job[Extract(d)] = "absent")'
      BY <2>1
    <3>5. (\A d \in Documents : d \notin manual \/ d \in asked => job[ExtractAgain(d)] = "absent")'
      BY <2>1, <2>5, <3>1 DEF CreateInv, ExtractAgain
    <3>6. (\A i \in Runs : run[i] = "absent" =>
             job[Generate(i)] = "absent" /\ \A v \in Workers : pc[v] = "create job" => made[v] # i)'
      BY <2>1, <2>5, <3>2, <3>3 DEF CreateInv, Generate
    <3>7. ASSUME NEW v \in Workers, pc'[v] = "create job"
          PROVE  made'[v] \in Runs /\ job'[Generate(made'[v])] = "absent"
      <4>1. made'[v] = made[v] /\ made[v] \in Runs /\ job[Generate(made[v])] = "absent"
        BY <2>1, <2>5, <3>3, <3>7 DEF CreateInv
      <4> QED
        BY <3>2, <4>1
    <3>8. (\A v, u \in Workers : v # u /\ pc[v] = "create job" /\ pc[u] = "create job"
             => made[v] # made[u])'
      BY <2>1, <2>5, <3>3 DEF CreateInv
    <3>9. (\A v \in Workers : pc[v] = "create job" =>
             made[v] \in Runs /\ job[Generate(made[v])] = "absent")'
      BY <3>7 DEF Generate
    <3> QED
      BY <3>4, <3>5, <3>6, <3>8, <3>9 DEF CreateInv
  <2>6. stalls = 0 => \A j \in Jobs : job'[j] = job[j] \/ job[j] = "absent"
    BY <2>4 DEF LeaseInv
  <2>7. \E v \in Workers : pc[v] # "idle" /\ v \notin failing /\ Goto(v, "done")
    BY <1>2, <2>1
  <2> QED
    BY <1>1, <2>1, <2>2, <2>5, <2>6, <2>7, EnqueueStep
<1> QED
  BY <1>3, <1>4

LEMMA RequestStep ==
  ASSUME TypeOK, BusyInv, LeaseInv, NEW d \in Documents,
         QueueExtraction(d) \/ EnqueueExtraction(d) \/ EnqueueExtractionFails(d)
  PROVE  BusyInv' /\ LeaseInv'
<1>1. RowTypes
  BY TypesOfRows
<1>2. /\ UNCHANGED <<holder, failing, run, task, stalls, pc, made, deal>>
      /\ \A e \in Documents : e \notin manual' \/ e \in asked' =>
           e \notin manual \/ e \in asked
      /\ job' = job \/ (job' = [job EXCEPT ![ExtractAgain(d)] = "queued"] /\ d \in asked /\ d \notin asked'
                          /\ UNCHANGED manual)
  BY DEF QueueExtraction, EnqueueExtraction, EnqueueExtractionFails, jobVars, workerVars, faultVars
<1>3. job' \in [Jobs -> JobStatus]
  BY <1>1, <1>2 DEF RowTypes, JobStatus
<1>4. asked \subseteq manual
  BY DEF TypeOK
<1>5. ASSUME CreateInv PROVE \A j \in Jobs : job'[j] = job[j] \/ job[j] = "absent"
  <2>1. CASE job' = job
    BY <2>1
  <2>2. CASE job' # job
    <3>1. job[ExtractAgain(d)] = "absent" /\ ExtractAgain(d) \in Jobs
      BY <1>2, <1>5, <2>2, JobShapes DEF CreateInv
    <3> QED
      BY <1>1, <1>2, <2>2, <3>1 DEF RowTypes
  <2> QED
    BY <2>1, <2>2
<1>6. ASSUME CreateInv PROVE CreateInv'
  <2>1. \A e \in Documents : job'[Extract(e)] = job[Extract(e)]
    BY <1>1, <1>2, JobShapes, JobsApart DEF RowTypes
  <2>2. \A i \in Runs : job'[Generate(i)] = job[Generate(i)]
    BY <1>1, <1>2, JobShapes, JobsApart DEF RowTypes
  <2>3. ASSUME NEW e \in Documents, e \notin manual' \/ e \in asked'
        PROVE  job'[ExtractAgain(e)] = "absent"
    <3>1. job[ExtractAgain(e)] = "absent"
      BY <1>2, <1>6, <2>3 DEF CreateInv
    <3>2. job' # job => e # d
      BY <1>2, <1>4, <2>3
    <3>3. job'[ExtractAgain(e)] = job[ExtractAgain(e)]
      BY <1>1, <1>2, <3>2, JobShapes, JobsApart DEF RowTypes
    <3> QED
      BY <3>1, <3>3
  <2>4. (deal = "absent" => \A e \in Documents : job[Extract(e)] = "absent")'
    BY <1>2, <1>6, <2>1 DEF CreateInv, Extract
  <2>5. (\A e \in Documents : e \notin manual \/ e \in asked => job[ExtractAgain(e)] = "absent")'
    BY <2>3 DEF ExtractAgain
  <2>6. /\ (\A i \in Runs : run[i] = "absent" =>
              job[Generate(i)] = "absent" /\ \A v \in Workers : pc[v] = "create job" => made[v] # i)'
        /\ (\A v, u \in Workers : v # u /\ pc[v] = "create job" /\ pc[u] = "create job"
              => made[v] # made[u])'
    BY <1>2, <1>6, <2>2 DEF CreateInv, Generate
  <2>7. (\A v \in Workers : pc[v] = "create job" =>
           made[v] \in Runs /\ job[Generate(made[v])] = "absent")'
    <3> SUFFICES ASSUME NEW v \in Workers, pc'[v] = "create job"
                 PROVE  made'[v] \in Runs /\ job'[Generate(made'[v])] = "absent"
      BY DEF Generate
    <3>1. made'[v] = made[v] /\ made[v] \in Runs /\ job[Generate(made[v])] = "absent"
      BY <1>2, <1>6 DEF CreateInv
    <3> QED
      BY <2>2, <3>1
  <2> QED
    BY <2>4, <2>5, <2>6, <2>7 DEF CreateInv
<1>7. stalls = 0 => \A j \in Jobs : job'[j] = job[j] \/ job[j] = "absent"
  BY <1>5 DEF LeaseInv
<1> QED
  BY <1>1, <1>2, <1>3, <1>6, <1>7, EnqueueStep

\* The steps of a worker within its job that change neither a job nor an AI run.
LEMMA PlainStep ==
  ASSUME TypeOK, BusyInv, LeaseInv, NEW w \in Workers,
         \/ StartExtraction(w) \/ FindNoText(w) \/ CompleteExtraction(w) \/ MarkAnalyzed(w)
         \/ CheckResearch(w) \/ CreateReport(w) \/ CreateResearchJob(w) \/ Transition(w)
         \/ FailExtraction(w) \/ FailDocument(w) \/ Throw(w)
  PROVE  BusyInv' /\ LeaseInv'
<1>1. RowTypes
  BY TypesOfRows
<1>2. PICK s \in Steps :
        /\ MovesTo(w, s)
        /\ s \in PastGeneration => pc[w] \in PastGeneration
  <2>1. CASE StartExtraction(w) \/ FindNoText(w) \/ CompleteExtraction(w) \/ MarkAnalyzed(w)
    <3>1. pc[w] \notin FailSteps
      BY <2>1 DEF StartExtraction, FindNoText, CompleteExtraction, MarkAnalyzed, At, FailSteps
    <3>2. w \notin failing
      BY <3>1 DEF BusyInv
    <3> QED
      BY <2>1, <3>2 DEF StartExtraction, FindNoText, CompleteExtraction, MarkAnalyzed, At, MovesTo,
         Steps, PastGeneration, rowVars, manualVars, jobVars, faultVars
  <2>2. CASE CheckResearch(w) \/ CreateReport(w) \/ CreateResearchJob(w) \/ Transition(w)
    <3>1. pc[w] \notin FailSteps
      BY <2>2 DEF CheckResearch, CreateReport, CreateResearchJob, Transition, At, FailSteps
    <3>2. w \notin failing
      BY <3>1 DEF BusyInv
    <3> QED
      BY <2>2, <3>2 DEF CheckResearch, CreateReport, CreateResearchJob, Transition, At, MovesTo,
         Steps, PastGeneration, rowVars, manualVars, jobVars, faultVars
  <2>3. CASE FailExtraction(w) \/ FailDocument(w)
    BY <2>3 DEF FailExtraction, FailDocument, MovesTo, FailSteps, Steps, PastGeneration, manualVars,
       jobVars, faultVars
  <2>4. CASE Throw(w)
    BY <2>4 DEF Throw, MovesTo, Steps, PastGeneration, rowVars, manualVars, jobVars
  <2> QED
    BY <2>1, <2>2, <2>3, <2>4
<1>3. UNCHANGED run
  BY DEF StartExtraction, FindNoText, CompleteExtraction, MarkAnalyzed, CheckResearch, CreateReport,
     CreateResearchJob, Transition, FailExtraction, FailDocument, Throw, rowVars
<1>4. stalls = 0 /\ s \in PastGeneration /\ Type(task[w]) = "ai.generate" =>
        run[Subject(task[w])] = "completed"
  BY <1>2 DEF LeaseInv, RunInv
<1> QED
  BY <1>1, <1>2, <1>3, <1>4, MoveStep

\* Looking at the packet, and giving an unreadable deal up.
LEMMA PacketStep ==
  ASSUME TypeOK, BusyInv, LeaseInv, NEW w \in Workers, CheckPacket(w) \/ FailUnreadable(w)
  PROVE  BusyInv' /\ LeaseInv'
<1>1. RowTypes
  BY TypesOfRows
<1>2. /\ UNCHANGED <<job, holder, run, manual, asked, stalls>> /\ (deal' = "absent" => deal = "absent")
      /\ pc[w] # "idle"
  BY DEF CheckPacket, FailUnreadable, At, rowVars, manualVars, jobVars, faultVars
<1>3. CASE Return(w) /\ w \in failing
  BY <1>1, <1>2, <1>3, DropStep DEF Return
<1>4. CASE ~(Return(w) /\ w \in failing)
  <2>1. PICK s \in {"done", "fail deal", "create run"} :
          /\ Goto(w, s) /\ UNCHANGED <<task, made, failing>>
          /\ w \in failing => s # "done"
    BY <1>4 DEF CheckPacket, FailUnreadable, Return
  <2>2. MovesTo(w, s)
    BY <1>2, <2>1 DEF MovesTo, FailSteps
  <2> QED
    BY <1>1, <1>2, <2>1, <2>2, MoveStep DEF PastGeneration
<1> QED
  BY <1>3, <1>4

\* The steps that write an AI run's status.
LEMMA GenerationStep ==
  ASSUME TypeOK, BusyInv, LeaseInv, NEW w \in Workers,
         StartGeneration(w) \/ CompleteGeneration(w) \/ FailRun(w)
  PROVE  BusyInv' /\ LeaseInv'
<1>1. RowTypes
  BY TypesOfRows
<1>2. Type(task[w]) = "ai.generate"
  BY DEF StartGeneration, CompleteGeneration, FailRun, At, BusyInv
<1>3. CASE StartGeneration(w) \/ CompleteGeneration(w)
  <2>1. w \notin failing
    BY <1>3 DEF StartGeneration, CompleteGeneration, At, BusyInv, FailSteps
  <2>2. \/ MovesTo(w, "generating") /\ SetRun(w, "running")
        \/ MovesTo(w, "research") /\ SetRun(w, "completed")
    BY <1>3, <2>1 DEF StartGeneration, CompleteGeneration, At, MovesTo, manualVars, jobVars, faultVars
  <2> QED
    BY <1>1, <1>2, <2>2, RunStep DEF PastGeneration, JobStatus
<1>4. CASE FailRun(w)
  <2>1. MovesTo(w, "fail deal") /\ SetRun(w, "failed")
    BY <1>4 DEF FailRun, MovesTo, FailSteps, manualVars, jobVars, faultVars
  <2> QED
    BY <1>1, <1>2, <2>1, RunStep DEF PastGeneration, JobStatus
<1> QED
  BY <1>3, <1>4

\* A worker's job ends, or the worker does.
LEMMA EndStep ==
  ASSUME TypeOK, BusyInv, LeaseInv, NEW w \in Workers,
         Complete(w) \/ RecordFailure(w) \/ Crash(w) \/ FailDealOfRun(w)
  PROVE  BusyInv' /\ LeaseInv'
<1>1. RowTypes
  BY TypesOfRows
<1>2. /\ UNCHANGED <<run, manual, asked, stalls>> /\ pc[w] # "idle"
      /\ deal' = deal \/ deal' = "failed"
  BY DEF Complete, RecordFailure, Crash, FailDealOfRun, At, rowVars, manualVars, faultVars
<1>3. CASE Drop(w) /\ UNCHANGED <<job, holder>>
  BY <1>1, <1>2, <1>3, DropStep
<1>4. CASE ~(Drop(w) /\ UNCHANGED <<job, holder>>)
  <2>1. ~Superseded(w) /\ UNCHANGED deal
    BY <1>4 DEF Complete, RecordFailure, Crash, FailDealOfRun, rowVars, jobVars
  <2>2. \/ \E s \in JobStatus : Release(w, s) /\ Drop(w)
        \/ /\ Release(w, "failed") /\ failing' = failing \cup {w} /\ UNCHANGED <<task, made>>
           /\ Goto(w, IF Type(task[w]) = "document.extract" THEN "fail extraction" ELSE "fail run")
           /\ Type(task[w]) # "intake.finalize"
    <3>1. CASE Complete(w) \/ Crash(w)
      BY <1>4, <2>1, <3>1 DEF Complete, Crash, JobStatus
    <3>2. CASE RecordFailure(w)
      BY <1>4, <2>1, <3>2 DEF RecordFailure, JobStatus
    <3>3. ~FailDealOfRun(w)
      BY <1>4 DEF FailDealOfRun, jobVars
    <3> QED
      BY <3>1, <3>2, <3>3
  <2>3. CASE \E s \in JobStatus : Release(w, s) /\ Drop(w)
    BY <1>1, <1>2, <2>1, <2>3, ReleaseStep
  <2>4. CASE /\ Release(w, "failed") /\ failing' = failing \cup {w} /\ UNCHANGED <<task, made>>
             /\ Goto(w, IF Type(task[w]) = "document.extract" THEN "fail extraction" ELSE "fail run")
             /\ Type(task[w]) # "intake.finalize"
    <3>1. task[w] \in Jobs
      BY <1>2 DEF BusyInv
    <3>2. Type(task[w]) \in {"document.extract", "ai.generate"}
      <4>1. \A j \in Jobs : Type(j) \in {"intake.finalize", "document.extract", "ai.generate"}
        BY DEF Jobs, Extractions, Finalize, Extract, ExtractAgain, Generate, Type
      <4> QED
        BY <2>4, <3>1, <4>1
    <3>3. \E step \in {"fail extraction", "fail run"} :
            Goto(w, step) /\ (step = "fail run" => Type(task[w]) = "ai.generate")
      BY <2>4, <3>2
    <3>4. "failed" \in JobStatus
      BY DEF JobStatus
    <3> QED
      BY <1>1, <1>2, <2>1, <2>4, <3>3, <3>4, ReleaseStep
  <2> QED
    BY <2>2, <2>3, <2>4
<1> QED
  BY <1>3, <1>4

\* While no live worker has lost its lease, every worker holds the job it works on, every job
\* that is still to be created is absent and has one creator, and a worker past the completion
\* of its AI run relies on a run that is completed.
THEOREM Invariance == Spec => []IInv
<1>1. Init => IInv
  <2> SUFFICES ASSUME Init PROVE IInv
    OBVIOUS
  <2>1. TypeOK
    BY BoundsAssumption DEF Init, TypeOK, Steps
  <2>2. \A w \in Workers : pc[w] = "idle"
    BY DEF Init
  <2>3. BusyInv /\ OwnInv /\ RunInv
    BY <2>2 DEF Init, BusyInv, OwnInv, RunInv, PastGeneration
  <2>4. /\ \A j \in Jobs : Type(j) # "intake.finalize" => job[j] = "absent"
        /\ \A d \in Documents : Type(Extract(d)) # "intake.finalize"
                               /\ Type(ExtractAgain(d)) # "intake.finalize"
        /\ \A i \in Runs : Type(Generate(i)) # "intake.finalize"
    BY DEF Init, Finalize, Extract, ExtractAgain, Generate, Type
  <2>5. CreateInv
    BY <2>2, <2>4, JobShapes DEF CreateInv
  <2> QED
    BY <2>1, <2>3, <2>5 DEF IInv, LeaseInv
<1>2. IInv /\ [Next]_vars => IInv'
  <2> SUFFICES ASSUME IInv, [Next]_vars PROVE IInv'
    OBVIOUS
  <2>1. TypeOK /\ BusyInv /\ LeaseInv /\ RowTypes
    BY TypesOfRows DEF IInv
  <2>2. TypeOK'
    BY <2>1, TypeStep
  <2>3. ASSUME NEW w \in Workers, WorkerStep(w) \/ Throw(w) \/ Crash(w)
        PROVE  BusyInv' /\ LeaseInv'
    BY <2>1, <2>3, ClaimStep, FinalizeStep, PlainStep, PacketStep, CreateRunStep, CreateRunJobStep,
       GenerationStep, EndStep DEF WorkerStep, HandlerStep
  <2>4. ASSUME NEW w \in Workers, LoseLease(w) PROVE BusyInv' /\ LeaseInv'
    <3>1. stalls' # 0
      BY <2>1, <2>4 DEF LoseLease, RowTypes
    <3>2. UNCHANGED workerVars
      BY <2>4 DEF LoseLease
    <3>3. BusyInv'
      BY <2>1, <3>2 DEF BusyInv, workerVars
    <3> QED
      BY <3>1, <3>3 DEF LeaseInv
  <2>5. ASSUME NEW d \in Documents,
               QueueExtraction(d) \/ EnqueueExtraction(d) \/ EnqueueExtractionFails(d)
        PROVE  BusyInv' /\ LeaseInv'
    BY <2>1, <2>5, RequestStep
  <2>6. CASE UNCHANGED vars
    <3>1. UNCHANGED <<pc, task, made, failing, job, holder, run, manual, asked, deal, stalls>>
      BY <2>6 DEF vars, rowVars, manualVars, jobVars, workerVars, faultVars
    <3>2. (BusyInv => BusyInv') /\ (OwnInv => OwnInv') /\ (RunInv => RunInv')
      BY <3>1 DEF BusyInv, OwnInv, RunInv, PastGeneration
    <3>3. CreateInv => CreateInv'
      BY <3>1, CreateStays
    <3>4. stalls' = stalls
      BY <3>1
    <3> QED
      BY <2>1, <2>2, <3>2, <3>3, <3>4 DEF LeaseInv, IInv
  <2> QED
    BY <2>2, <2>3, <2>4, <2>5, <2>6 DEF Next, IInv
<1> QED
  BY <1>1, <1>2, PTL DEF Spec

-----------------------------------------------------------------------------
\* However many documents, workers, retries, crashes and members' requests there are, and in
\* whatever order handlers write: a deal becomes ready for review only when an AI run of it is
\* completed, as long as no worker runs on without its lease.
THEOREM ReadyPacket == Spec => ReadyHasPacket
<1>1. IInv /\ [Next]_vars =>
        [deal # "review_ready" /\ deal' = "review_ready" /\ stalls = 0 =>
           \E i \in Runs : run[i] = "completed"]_vars
  <2> SUFFICES ASSUME IInv, Next, deal # "review_ready", deal' = "review_ready", stalls = 0
               PROVE  \E i \in Runs : run[i] = "completed"
    OBVIOUS
  <2>1. PICK w \in Workers : Transition(w)
    BY DEF Next, WorkerStep, HandlerStep, Claim, Complete, RecordFailure, Throw, Crash, LoseLease,
       FinalizeIntake, StartExtraction, FindNoText, CompleteExtraction, MarkAnalyzed, CheckPacket,
       FailUnreadable, CreateRun, CreateRunJob, StartGeneration, CompleteGeneration, CheckResearch,
       CreateReport, CreateResearchJob, FailExtraction, FailDocument, FailRun, FailDealOfRun,
       QueueExtraction, EnqueueExtraction, EnqueueExtractionFails, rowVars
  <2>2. pc[w] = "transition" /\ Type(task[w]) = "ai.generate" /\ task[w] \in Jobs
    BY <2>1 DEF Transition, At, IInv, BusyInv
  <2>3. Subject(task[w]) \in Runs
    BY <2>2, JobShapes
  <2>4. run[Subject(task[w])] = "completed"
    BY <2>2 DEF IInv, LeaseInv, RunInv, PastGeneration
  <2> QED
    BY <2>3, <2>4
<1> QED
  BY <1>1, Invariance, PTL DEF Spec, ReadyHasPacket

-----------------------------------------------------------------------------
(* Why a deal is given up, and when the AI is asked. *)

\* The last writes after a failure are made by the worker that settles it; only an extraction
\* creates a run.
SettlerInv ==
  \A w \in Workers :
    /\ pc[w] \in {"fail extraction", "fail document", "fail run"} => w \in failing
    /\ pc[w] = "fail deal" /\ Type(task[w]) = "ai.generate" => w \in failing
    /\ pc[w] \in {"fail extraction", "fail document", "create run"} =>
         Type(task[w]) = "document.extract"

\* While no live worker has lost its lease and no member asks for an extraction: a document's
\* status tells what came of its job, and a deal about to be given up has lost every one.
RunsFollow == deal = "absent" => \A i \in Runs : run[i] = "absent"
KnownDocuments == \A d \in submitted : deal # "absent" => document[d] # "absent"
ReadDocuments ==
  \A d \in submitted : document[d] = "analyzed" => Extract(d) \in text \/ job[Extract(d)] = "failed"
LostDocuments == \A d \in submitted : document[d] = "failed" => job[Extract(d)] = "failed"
TextKept == \A w \in Workers : pc[w] = "extracted" => task[w] \in text
AllLost == \A d \in submitted : job[Extract(d)] = "failed"
NothingToRead ==
  \A w \in Workers : pc[w] = "fail deal" /\ Type(task[w]) = "document.extract" => AllLost
ReasonInv ==
  stalls = 0 /\ manual = {} =>
    /\ RunsFollow /\ KnownDocuments /\ ReadDocuments /\ LostDocuments
    /\ TextKept /\ NothingToRead

\* Without any fault: a document waits until the one worker on its job is done with it, and then
\* has the status that its file deserves.
Waits(d) == document[d] \in {"uploaded", "extracting"}
Outcome(d) == IF d \in readable THEN "analyzed" ELSE "failed"
AtWork == {"start", "extracting", "extracted", "threw", "fail extraction", "fail document"}
Hopeless == {"threw", "fail extraction", "fail document"}
Decided == \A d \in submitted : deal # "absent" => Waits(d) \/ document[d] = Outcome(d)
QueuedWaits == \A d \in submitted : job[Extract(d)] = "queued" => Waits(d)
Working(w) ==
  \A d \in submitted : task[w] = Extract(d) =>
    /\ pc[w] \in AtWork => Waits(d)
    /\ pc[w] = "extracted" => d \in readable
    /\ pc[w] \in Hopeless => d \notin readable
SettlersApart == \A w, v \in failing : w # v => task[w] # task[v]
Asking == (\E w \in Workers : pc[w] = "create run") \/ (\E i \in Runs : run[i] # "absent")
AllDone == \A d \in submitted : document[d] = Outcome(d)
WaitInv ==
  Faultless /\ manual = {} =>
    /\ Decided /\ QueuedWaits /\ (\A w \in Workers : Working(w)) /\ SettlersApart
    /\ Asking => AllDone

\* A worker's step leaves the other workers alone.
LEMMA OthersKept ==
  ASSUME TypeOK, NEW w \in Workers, WorkerStep(w) \/ Throw(w) \/ Crash(w)
  PROVE  \A v \in Workers \ {w} : /\ pc'[v] = pc[v] /\ task'[v] = task[v]
                                  /\ v \in failing' <=> v \in failing
<1>t. /\ pc \in [Workers -> Steps] /\ task \in [Workers -> Jobs \cup {None}]
      /\ attempt \in [Workers -> Nat] /\ made \in [Workers -> Runs \cup {0}]
      /\ failing \subseteq Workers
  BY DEF TypeOK
<1>1. CASE Drop(w) \/ Return(w)
  BY <1>1, <1>t DEF Drop, Return, Goto
<1>2. CASE (\E j \in Jobs : Claim(w, j)) \/ Complete(w) \/ RecordFailure(w) \/ Throw(w) \/ Crash(w)
  BY <1>1, <1>2, <1>t DEF Claim, Complete, RecordFailure, Throw, Crash, Goto
<1>3. CASE \/ FinalizeIntake(w) \/ StartExtraction(w) \/ FindNoText(w) \/ CompleteExtraction(w)
           \/ MarkAnalyzed(w) \/ CheckPacket(w) \/ FailUnreadable(w) \/ CreateRun(w)
  BY <1>1, <1>3, <1>t DEF FinalizeIntake, StartExtraction, FindNoText, CompleteExtraction,
     MarkAnalyzed, CheckPacket, FailUnreadable, CreateRun, Goto
<1>4. CASE \/ CreateRunJob(w) \/ StartGeneration(w) \/ CompleteGeneration(w) \/ CheckResearch(w)
           \/ CreateReport(w) \/ CreateResearchJob(w) \/ Transition(w)
  BY <1>1, <1>4, <1>t DEF CreateRunJob, StartGeneration, CompleteGeneration, CheckResearch,
     CreateReport, CreateResearchJob, Transition, Goto
<1>5. CASE FailExtraction(w) \/ FailDocument(w) \/ FailRun(w) \/ FailDealOfRun(w)
  BY <1>1, <1>5, <1>t DEF FailExtraction, FailDocument, FailRun, FailDealOfRun, Goto
<1> QED
  BY <1>2, <1>3, <1>4, <1>5 DEF WorkerStep, HandlerStep

\* The steps of a worker by what they write: nothing but its own place ...
Quiet(w) ==
  \/ FindNoText(w) \/ CheckPacket(w) \/ FailUnreadable(w) \/ CreateRun(w) \/ StartGeneration(w)
  \/ CompleteGeneration(w) \/ CheckResearch(w) \/ CreateReport(w) \/ CreateResearchJob(w)
  \/ Transition(w) \/ FailRun(w) \/ FailDealOfRun(w)
\* ... or the rows of its document ...
Extracts(w) ==
  \/ StartExtraction(w) \/ CompleteExtraction(w) \/ MarkAnalyzed(w)
  \/ FailExtraction(w) \/ FailDocument(w)
\* ... or jobs.
Queues(w) ==
  \/ \E j \in Jobs : Claim(w, j)
  \/ Complete(w) \/ RecordFailure(w) \/ FinalizeIntake(w) \/ CreateRunJob(w) \/ Throw(w) \/ Crash(w)

LEMMA Kinds ==
  ASSUME NEW w \in Workers, WorkerStep(w) \/ Throw(w) \/ Crash(w)
  PROVE  Quiet(w) \/ Extracts(w) \/ Queues(w)
BY DEF WorkerStep, HandlerStep, Quiet, Extracts, Queues

LEMMA QuietWrites ==
  ASSUME NEW w \in Workers, Quiet(w)
  PROVE  UNCHANGED <<submitted, readable, document, text, manual, job, holder, stalls>>
BY DEF Quiet, FindNoText, CheckPacket, FailUnreadable, CreateRun, StartGeneration,
   CompleteGeneration, CheckResearch, CreateReport, CreateResearchJob, Transition, FailRun,
   FailDealOfRun, rowVars, inputVars, manualVars, jobVars, faultVars

LEMMA ExtractsWrites ==
  ASSUME NEW w \in Workers, Extracts(w)
  PROVE  /\ UNCHANGED <<submitted, readable, deal, manual, run, job, holder, stalls, task, failing>>
         /\ pc[w] # "idle"
BY DEF Extracts, StartExtraction, CompleteExtraction, MarkAnalyzed, FailExtraction, FailDocument,
   At, inputVars, manualVars, jobVars, faultVars

LEMMA QueuesWrites ==
  ASSUME NEW w \in Workers, Queues(w)
  PROVE  /\ UNCHANGED <<submitted, readable, text, manual, run, stalls>>
         /\ UNCHANGED <<deal, document>> \/ (FinalizeIntake(w) /\ deal = "absent")
<1>1. CASE FinalizeIntake(w) \/ CreateRunJob(w) \/ Throw(w) \/ Crash(w)
  BY <1>1 DEF FinalizeIntake, CreateRunJob, Throw, Crash, rowVars, inputVars, manualVars, faultVars
<1>2. CASE (\E j \in Jobs : Claim(w, j)) \/ Complete(w) \/ RecordFailure(w)
  BY <1>2 DEF Claim, Complete, RecordFailure, rowVars, inputVars, manualVars, faultVars
<1> QED
  BY <1>1, <1>2 DEF Queues

\* An extraction without members' requests: the job of a document that the finalizer listed.
LEMMA ExtractionTask ==
  ASSUME TypeOK, BusyInv, OwnInv, CreateInv, manual = {}, NEW w \in Workers, pc[w] # "idle",
         Type(task[w]) = "document.extract"
  PROVE  /\ deal # "absent" /\ job[task[w]] # "absent"
         /\ \E d \in Documents : task[w] = Extract(d) /\ Subject(task[w]) = d
<1>1. task[w] \in Extractions /\ job[task[w]] # "absent"
  BY JobShapes DEF BusyInv, OwnInv
<1>2. PICK d \in Documents : task[w] = Extract(d) \/ task[w] = ExtractAgain(d)
  BY <1>1 DEF Extractions
<1>3. task[w] = Extract(d)
  BY <1>1, <1>2 DEF CreateInv
<1>4. Subject(Extract(d)) = d
  BY DEF Extract, Subject
<1> QED
  BY <1>1, <1>3, <1>4 DEF CreateInv

\* Two workers on one job: both settle its failure.
LEMMA SharedTask ==
  ASSUME OwnInv, NEW w \in Workers, NEW v \in Workers, v # w, pc[w] # "idle", pc[v] # "idle",
         task[v] = task[w]
  PROVE  w \in failing /\ v \in failing
<1>1. None \notin Workers
  BY SentinelAssumption
<1> QED
  BY <1>1 DEF OwnInv

\* What a worker that holds no lease, or settles a failure, releases: nothing.
LEMMA Releasing ==
  ASSUME OwnInv, NEW w \in Workers, pc[w] # "idle", ~Superseded(w)
  PROVE  w \notin failing /\ job[task[w]] = "running"
BY SentinelAssumption DEF OwnInv, Superseded

\* The status of an extraction job.
LEMMA ExtractJobs ==
  ASSUME TypeOK, BusyInv, OwnInv, CreateInv, NEW w \in Workers, Queues(w), NEW d \in Documents
  PROVE  /\ job[Extract(d)] = "failed" => job'[Extract(d)] = "failed"
         /\ job'[Extract(d)] = "queued" =>
              \/ job[Extract(d)] = "queued"
              \/ FinalizeIntake(w) /\ deal = "absent"
              \/ task[w] = Extract(d) /\ (RecordFailure(w) \/ Crash(w))
<1> DEFINE e == Extract(d)
<1>1. e \in Jobs /\ job \in [Jobs -> JobStatus] /\ task \in [Workers -> Jobs \cup {None}]
  BY JobShapes DEF TypeOK, JobStatus
<1>2. ASSUME NEW s, Release(w, s), ~Superseded(w), pc[w] # "idle"
      PROVE  /\ task[w] \in Jobs /\ job[task[w]] = "running"
             /\ job' = [job EXCEPT ![task[w]] = s]
  BY <1>2, Releasing DEF Release, BusyInv
<1>3. \A i \in Runs : Generate(i) # e
  BY JobsApart
<1>4. CASE FinalizeIntake(w)
  BY <1>1, <1>4 DEF FinalizeIntake, CreateInv
<1>5. CASE \E j \in Jobs : Claim(w, j)
  BY <1>1, <1>5 DEF Claim
<1>6. CASE Throw(w)
  BY <1>6 DEF Throw, jobVars
<1>7. CASE CreateRunJob(w)
  <2>1. made[w] \in Runs
    BY <1>7 DEF CreateRunJob, At, CreateInv
  <2> QED
    BY <1>1, <1>3, <1>7, <2>1, JobShapes DEF CreateRunJob
<1>8. CASE Complete(w) \/ RecordFailure(w) \/ Crash(w)
  <2>1. CASE UNCHANGED jobVars
    BY <2>1 DEF jobVars
  <2>2. CASE ~(UNCHANGED jobVars)
    <3>1. ~Superseded(w) /\ pc[w] # "idle" /\ \E s : Release(w, s) /\ (Complete(w) => s = "completed")
      BY <1>8, <2>2 DEF Complete, RecordFailure, Crash
    <3> QED
      BY <1>1, <1>2, <1>8, <3>1
  <2> QED
    BY <2>1, <2>2
<1> QED
  BY <1>4, <1>5, <1>6, <1>7, <1>8 DEF Queues

LEMMA SettlerStep ==
  ASSUME TypeOK, BusyInv, SettlerInv, NEW w \in Workers, WorkerStep(w) \/ Throw(w) \/ Crash(w)
  PROVE  SettlerInv'
<1>1. /\ pc \in [Workers -> Steps] /\ task \in [Workers -> Jobs \cup {None}]
      /\ attempt \in [Workers -> Nat] /\ made \in [Workers -> Runs \cup {0}]
      /\ failing \subseteq Workers
  BY DEF TypeOK
<1>2. /\ pc'[w] \in {"fail extraction", "fail document", "fail run"} => w \in failing'
      /\ pc'[w] = "fail deal" /\ Type(task'[w]) = "ai.generate" => w \in failing'
      /\ pc'[w] \in {"fail extraction", "fail document", "create run"} =>
           Type(task'[w]) = "document.extract"
  <2>1. CASE Quiet(w)
    <3>1. CASE CheckPacket(w) \/ FailUnreadable(w)
      BY <1>1, <3>1 DEF CheckPacket, FailUnreadable, Return, Drop, Goto, At
    <3>2. CASE FailRun(w)
      BY <1>1, <3>2 DEF FailRun, SettlerInv, Goto
    <3>3. CASE Quiet(w) /\ ~(CheckPacket(w) \/ FailUnreadable(w) \/ FailRun(w))
      BY <1>1, <3>3 DEF Quiet, FindNoText, CreateRun, StartGeneration, CompleteGeneration,
         CheckResearch, CreateReport, CreateResearchJob, Transition, FailDealOfRun, Drop, Goto
    <3> QED
      BY <2>1, <3>1, <3>2, <3>3
  <2>2. CASE Extracts(w)
    BY <1>1, <2>2 DEF Extracts, StartExtraction, CompleteExtraction, MarkAnalyzed, FailExtraction,
       FailDocument, SettlerInv, Goto
  <2>3. CASE Queues(w)
    <3>1. CASE CreateRunJob(w)
      BY <1>1, <3>1 DEF CreateRunJob, Return, Drop, Goto
    <3>2. CASE (\E j \in Jobs : Claim(w, j)) \/ FinalizeIntake(w) \/ Throw(w)
      BY <1>1, <3>2 DEF Claim, FinalizeIntake, Throw, Goto
    <3>3. CASE Complete(w) \/ RecordFailure(w) \/ Crash(w)
      BY <1>1, <3>3 DEF Complete, RecordFailure, Crash, Drop, Goto
    <3> QED
      BY <2>3, <3>1, <3>2, <3>3 DEF Queues
  <2> QED
    BY <2>1, <2>2, <2>3, Kinds
<1> QED
  BY <1>2, OthersKept DEF SettlerInv

\* What an extraction step does to the document of its job, and to no other.
LEMMA DocumentStep ==
  ASSUME TypeOK, BusyInv, SettlerInv, OwnInv, CreateInv, manual = {}, NEW w \in Workers, Extracts(w)
  PROVE  \E e \in Documents :
           /\ task[w] = Extract(e)
           /\ \A d \in Documents \ {e} :
                document'[d] = document[d] /\ (Extract(d) \in text' <=> Extract(d) \in text)
           /\ \/ /\ pc[w] = "start" /\ pc'[w] = "extracting" /\ document'[e] = "extracting"
              \/ /\ pc[w] = "extracting" /\ pc'[w] = "extracted" /\ e \in readable
                 /\ document'[e] = document[e] /\ task[w] \in text'
              \/ /\ pc[w] = "extracted" /\ pc'[w] = "packet" /\ document'[e] = "analyzed"
                 /\ text' = text
              \/ /\ pc[w] = "fail extraction" /\ pc'[w] = "fail document"
                 /\ document'[e] = document[e]
              \/ /\ pc[w] = "fail document" /\ pc'[w] = "packet" /\ document'[e] = "failed"
                 /\ text' = text
<1>1. Type(task[w]) = "document.extract" /\ pc[w] # "idle"
  BY DEF Extracts, StartExtraction, CompleteExtraction, MarkAnalyzed, FailExtraction, FailDocument,
     At, SettlerInv
<1>2. PICK e \in Documents : task[w] = Extract(e) /\ Subject(task[w]) = e
  BY <1>1, ExtractionTask
<1>3. \A d \in Documents \ {e} : Extract(d) # Extract(e)
  BY DEF Extract
<1>4. \A d \in Documents \ {e} :
        document'[d] = document[d] /\ (Extract(d) \in text' <=> Extract(d) \in text)
  BY <1>2, <1>3 DEF Extracts, StartExtraction, CompleteExtraction, MarkAnalyzed, FailExtraction,
     FailDocument, SetDocument, SetText, TypeOK
<1>5. document \in [Documents -> {"absent", "uploaded", "extracting", "analyzed", "failed"}]
      /\ pc \in [Workers -> Steps]
  BY DEF TypeOK
<1>6. CASE StartExtraction(w) \/ CompleteExtraction(w) \/ MarkAnalyzed(w)
  BY <1>2, <1>4, <1>5, <1>6
  DEF StartExtraction, CompleteExtraction, MarkAnalyzed, SetDocument, SetText, Goto, At
<1>7. CASE FailExtraction(w) \/ FailDocument(w)
  BY <1>2, <1>4, <1>5, <1>7 DEF FailExtraction, FailDocument, SetDocument, Goto
<1> QED
  BY <1>6, <1>7 DEF Extracts

\* The finalizer's documents and jobs are all new.
LEMMA Finalized ==
  ASSUME TypeOK, CreateInv, NEW w \in Workers, FinalizeIntake(w), deal = "absent"
  PROVE  /\ deal' # "absent" /\ \A d \in submitted : document'[d] = "uploaded"
         /\ UNCHANGED <<submitted, text, run, task, failing>> /\ pc'[w] = "done"
         /\ \A v \in Workers \ {w} : pc'[v] = pc[v]
BY DEF FinalizeIntake, inputVars, Goto, TypeOK

\* Where a worker that writes no rows of a document can get to.
LEMMA QuietPlaces ==
  ASSUME TypeOK, BusyInv, NEW w \in Workers, Quiet(w)
  PROVE  /\ pc'[w] # "extracted"
         /\ pc'[w] = "fail deal" /\ Type(task'[w]) = "document.extract" =>
              CheckPacket(w) /\ Read = {} /\ ActiveRuns \cup Unsettled = {} /\ task' = task
<1>1. /\ pc \in [Workers -> Steps] /\ task \in [Workers -> Jobs \cup {None}]
  BY DEF TypeOK
<1>2. CASE CheckPacket(w)
  BY <1>1, <1>2 DEF CheckPacket, Return, Drop, Goto
<1>3. CASE FailRun(w)
  BY <1>1, <1>3 DEF FailRun, Goto, BusyInv
<1>4. CASE Quiet(w) /\ ~CheckPacket(w) /\ ~FailRun(w)
  BY <1>1, <1>4 DEF Quiet, FindNoText, CreateRun, StartGeneration, CompleteGeneration, FailUnreadable,
     CheckResearch, CreateReport, CreateResearchJob, Transition, FailDealOfRun, Drop, Return, Goto
<1> QED
  BY <1>2, <1>3, <1>4

LEMMA QueuesPlaces ==
  ASSUME TypeOK, NEW w \in Workers, Queues(w)
  PROVE  pc'[w] \notin {"extracted", "fail deal", "create run"}
<1>1. pc \in [Workers -> Steps]
  BY DEF TypeOK
<1> QED
  BY <1>1 DEF Queues, Claim, Complete, RecordFailure, FinalizeIntake, CreateRunJob, Throw, Crash,
     Drop, Return, Goto

\* A failed extraction job stays failed.
LEMMA LostStays ==
  ASSUME TypeOK, BusyInv, OwnInv, CreateInv, NEW w \in Workers, Quiet(w) \/ Extracts(w) \/ Queues(w)
  PROVE  \A d \in Documents : job[Extract(d)] = "failed" => job'[Extract(d)] = "failed"
BY QuietWrites, ExtractsWrites, ExtractJobs

\* Before the finalizer there is nothing to do.
LEMMA RunningFollows ==
  ASSUME OwnInv, CreateInv, BusyInv, RunsFollow, NEW w \in Workers, pc[w] # "idle",
         Type(task[w]) = "ai.generate"
  PROVE  deal # "absent"
<1>1. PICK i \in Runs : task[w] = Generate(i)
  BY JobShapes DEF BusyInv
<1>2. job[Generate(i)] # "absent"
  BY <1>1 DEF OwnInv
<1> QED
  BY <1>2 DEF CreateInv, RunsFollow

LEMMA QuietBefore ==
  ASSUME TypeOK, BusyInv, SettlerInv, OwnInv, CreateInv, manual = {}, RunsFollow,
         deal = "absent", NEW w \in Workers, Quiet(w)
  PROVE  UNCHANGED <<deal, run>>
<1>1. pc[w] # "idle" => ~At(w, "document.extract", pc[w]) /\ ~At(w, "ai.generate", pc[w])
  BY ExtractionTask, RunningFollows DEF At
<1>2. ~FailRun(w)
  BY RunningFollows DEF FailRun, BusyInv
<1> QED
  BY <1>1, <1>2 DEF Quiet, FindNoText, CheckPacket, FailUnreadable, CreateRun, StartGeneration,
     CompleteGeneration, CheckResearch, CreateReport, CreateResearchJob, Transition, FailDealOfRun,
     At

\* Each part of ReasonInv holds after any step of a worker.
LEMMA ReasonStep ==
  ASSUME TypeOK, BusyInv, SettlerInv, OwnInv, CreateInv, manual = {}, NEW w \in Workers,
         WorkerStep(w) \/ Throw(w) \/ Crash(w),
         RunsFollow, KnownDocuments, ReadDocuments, LostDocuments, TextKept, NothingToRead
  PROVE  RunsFollow' /\ KnownDocuments' /\ ReadDocuments' /\ LostDocuments' /\ TextKept' /\ NothingToRead'
<1>1. Quiet(w) \/ Extracts(w) \/ Queues(w)
  BY Kinds
<1>2. UNCHANGED <<submitted, readable>> /\ submitted \subseteq Documents
  BY <1>1, QuietWrites, ExtractsWrites, QueuesWrites DEF TypeOK
<1>3. \A d \in Documents : job[Extract(d)] = "failed" => job'[Extract(d)] = "failed"
  BY <1>1, LostStays
<1>4. \A v \in Workers \ {w} : pc'[v] = pc[v] /\ task'[v] = task[v]
  BY OthersKept
<1>5. NothingToRead'
  <2> SUFFICES ASSUME NEW v \in Workers, pc'[v] = "fail deal", Type(task'[v]) = "document.extract",
                      NEW d \in submitted
               PROVE  job'[Extract(d)] = "failed"
    BY <1>2 DEF NothingToRead, AllLost, Type, Extract
  <2>1. CASE v # w
    BY <1>2, <1>3, <1>4, <2>1 DEF NothingToRead, AllLost
  <2>2. CASE v = w
    <3>1. Quiet(w)
      <4>1. ~Extracts(w)
        BY <2>2, DocumentStep
      <4>2. ~Queues(w)
        BY <2>2, QueuesPlaces
      <4> QED
        BY <1>1, <4>1, <4>2
    <3>2. CheckPacket(w) /\ Read = {} /\ Unsettled = {}
      BY <2>2, <3>1, QuietPlaces
    <3>3. deal # "absent"
      BY <3>2, ExtractionTask DEF CheckPacket, At
    <3>4. Extract(d) \notin text
      BY <3>2 DEF Read, Newest
    <3>5. document[d] \in {"analyzed", "failed"}
      BY <1>2, <3>2, <3>3 DEF Unsettled, KnownDocuments, TypeOK
    <3> QED
      BY <1>2, <1>3, <3>4, <3>5 DEF ReadDocuments, LostDocuments
  <2> QED
    BY <2>1, <2>2
<1>6. CASE Quiet(w)
  <2>1. UNCHANGED <<document, text, job>>
    BY <1>6, QuietWrites
  <2>2. deal = "absent" => UNCHANGED <<deal, run>>
    BY <1>6, QuietBefore
  <2>3. KnownDocuments' /\ ReadDocuments' /\ LostDocuments'
    BY <1>2, <2>1, <2>2 DEF KnownDocuments, ReadDocuments, LostDocuments, Extract
  <2>4. TextKept'
    BY <1>4, <1>6, <2>1, QuietPlaces DEF TextKept
  <2>5. deal' = "absent" => deal = "absent"
    BY <1>6 DEF Quiet, FindNoText, CheckPacket, FailUnreadable, CreateRun, StartGeneration,
       CompleteGeneration, CheckResearch, CreateReport, CreateResearchJob, Transition, FailRun,
       FailDealOfRun, rowVars
  <2> QED
    BY <1>5, <2>2, <2>3, <2>4, <2>5 DEF RunsFollow
<1>7. CASE Extracts(w)
  <2>1. UNCHANGED <<deal, run, job, task, failing>> /\ pc[w] # "idle"
    BY <1>7, ExtractsWrites
  <2>2. PICK e \in Documents :
           /\ task[w] = Extract(e)
           /\ \A d \in Documents \ {e} :
                document'[d] = document[d] /\ (Extract(d) \in text' <=> Extract(d) \in text)
           /\ \/ /\ pc[w] = "start" /\ pc'[w] = "extracting" /\ document'[e] = "extracting"
              \/ /\ pc[w] = "extracting" /\ pc'[w] = "extracted" /\ e \in readable
                 /\ document'[e] = document[e] /\ task[w] \in text'
              \/ /\ pc[w] = "extracted" /\ pc'[w] = "packet" /\ document'[e] = "analyzed"
                 /\ text' = text
              \/ /\ pc[w] = "fail extraction" /\ pc'[w] = "fail document"
                 /\ document'[e] = document[e]
              \/ /\ pc[w] = "fail document" /\ pc'[w] = "packet" /\ document'[e] = "failed"
                 /\ text' = text
    BY <1>7, DocumentStep
  <2>3. pc[w] \in {"fail extraction", "fail document"} => job[Extract(e)] = "failed"
    BY <2>2 DEF SettlerInv, OwnInv
  <2>4. KnownDocuments'
    BY <1>2, <2>1, <2>2 DEF KnownDocuments
  <2>5. ReadDocuments'
    <3> SUFFICES ASSUME NEW d \in submitted, document'[d] = "analyzed"
                 PROVE  Extract(d) \in text' \/ job'[Extract(d)] = "failed"
      BY <1>2 DEF ReadDocuments, Extract
    <3>1. CASE d # e
      BY <1>2, <2>1, <2>2, <3>1 DEF ReadDocuments
    <3>2. CASE d = e
      BY <2>1, <2>2, <2>3, <3>2 DEF TextKept
    <3> QED
      BY <3>1, <3>2
  <2>6. LostDocuments'
    <3> SUFFICES ASSUME NEW d \in submitted, document'[d] = "failed"
                 PROVE  job'[Extract(d)] = "failed"
      BY <1>2 DEF LostDocuments, Extract
    <3>1. CASE d # e
      BY <1>2, <2>1, <2>2, <3>1 DEF LostDocuments
    <3>2. CASE d = e
      BY <2>1, <2>2, <2>3, <3>2 DEF LostDocuments
    <3> QED
      BY <3>1, <3>2
  <2>7. TextKept'
    <3> SUFFICES ASSUME NEW v \in Workers, pc'[v] = "extracted" PROVE task'[v] \in text'
      BY DEF TextKept
    <3>1. CASE v = w
      BY <2>1, <2>2, <3>1
    <3>2. CASE v # w
      <4>1. pc[v] = "extracted" /\ task'[v] = task[v] /\ task[v] \in text /\ v \notin failing
        BY <1>4, <3>2 DEF TextKept, BusyInv, FailSteps
      <4>2. task[v] # task[w]
        BY <2>1, <3>2, <4>1, SharedTask
      <4>3. text' \cup {task[w]} = text \cup {task[w]}
        BY <1>7 DEF Extracts, StartExtraction, CompleteExtraction, MarkAnalyzed, FailExtraction,
           FailDocument, SetText
      <4> QED
        BY <4>1, <4>2, <4>3
    <3> QED
      BY <3>1, <3>2
  <2> QED
    BY <1>5, <2>1, <2>4, <2>5, <2>6, <2>7 DEF RunsFollow
<1>8. CASE Queues(w)
  <2>1. UNCHANGED <<text, run>>
    BY <1>8, QueuesWrites
  <2>2. TextKept'
    BY <1>4, <1>8, <2>1, QueuesPlaces DEF TextKept
  <2>3. CASE FinalizeIntake(w) /\ deal = "absent"
    <3>1. deal' # "absent" /\ \A d \in submitted : document'[d] = "uploaded"
      BY <2>3, Finalized
    <3> QED
      BY <1>2, <1>5, <2>2, <3>1
      DEF RunsFollow, KnownDocuments, ReadDocuments, LostDocuments
  <2>4. CASE UNCHANGED <<deal, document>>
    <3>1. KnownDocuments'
      BY <1>2, <2>4 DEF KnownDocuments
    <3>2. ReadDocuments' /\ LostDocuments'
      BY <1>2, <1>3, <2>1, <2>4 DEF ReadDocuments, LostDocuments, Extract
    <3> QED
      BY <1>5, <2>1, <2>2, <2>4, <3>1, <3>2 DEF RunsFollow
  <2> QED
    BY <1>8, <2>2, <2>3, <2>4, QueuesWrites
<1> QED
  BY <1>1, <1>6, <1>7, <1>8

LEMMA ExtractsApart == \A d, e \in Documents : Extract(d) = Extract(e) => d = e
BY DEF Extract

\* What a worker's next step within a job finds out about the document.
LEMMA QuietWorking ==
  ASSUME TypeOK, BusyInv, NEW w \in Workers, Quiet(w), Working(w)
  PROVE  /\ pc'[w] \in AtWork /\ task'[w] # None => task'[w] = task[w]
         /\ \A d \in submitted : task'[w] = Extract(d) =>
              /\ pc'[w] \in AtWork => Waits(d)
              /\ pc'[w] # "extracted"
              /\ pc'[w] \in Hopeless => d \notin readable
<1>1. /\ pc \in [Workers -> Steps] /\ task \in [Workers -> Jobs \cup {None}]
  BY DEF TypeOK
<1>2. \A d \in submitted : Type(Extract(d)) = "document.extract" /\ Subject(Extract(d)) = d
  BY DEF Extract, Type, Subject
<1>3. CASE FindNoText(w)
  BY <1>1, <1>2, <1>3 DEF FindNoText, Working, Goto, At, AtWork, Hopeless
<1>4. CASE CheckPacket(w) \/ FailUnreadable(w) \/ FailDealOfRun(w)
  BY <1>1, <1>4 DEF CheckPacket, FailUnreadable, FailDealOfRun, Return, Drop, Goto, AtWork, Hopeless
<1>5. CASE \/ CreateRun(w) \/ StartGeneration(w) \/ CompleteGeneration(w) \/ CheckResearch(w)
           \/ CreateReport(w) \/ CreateResearchJob(w) \/ FailRun(w)
  BY <1>1, <1>5 DEF CreateRun, StartGeneration, CompleteGeneration, CheckResearch, CreateReport,
     CreateResearchJob, FailRun, Goto, AtWork, Hopeless
<1>6. CASE Transition(w)
  BY <1>1, <1>2, <1>6 DEF Transition, Goto, At, AtWork, Hopeless
<1> QED
  BY <1>3, <1>4, <1>5, <1>6 DEF Quiet

LEMMA QueuesWorking ==
  ASSUME TypeOK, BusyInv, NEW w \in Workers, Queues(w), ~Throw(w), ~Crash(w), Working(w), QueuedWaits
  PROVE  /\ \A d \in submitted : task'[w] = Extract(d) =>
              /\ pc'[w] \in AtWork => Waits(d)
              /\ pc'[w] # "extracted"
              /\ pc'[w] \in Hopeless => d \notin readable
<1>1. /\ pc \in [Workers -> Steps] /\ task \in [Workers -> Jobs \cup {None}]
  BY DEF TypeOK
<1>2. \A d \in submitted : Type(Extract(d)) = "document.extract" /\ Subject(Extract(d)) = d
  BY DEF Extract, Type, Subject
<1>3. CASE \E j \in Jobs : Claim(w, j)
  BY <1>1, <1>3 DEF Claim, QueuedWaits, Goto, AtWork, Hopeless
<1>4. CASE FinalizeIntake(w)
  BY <1>1, <1>2, <1>4 DEF FinalizeIntake, Goto, At, AtWork, Hopeless
<1>5. CASE Complete(w) \/ CreateRunJob(w)
  BY <1>1, <1>5 DEF Complete, CreateRunJob, Return, Drop, Goto, AtWork, Hopeless
<1>6. CASE RecordFailure(w)
  BY <1>1, <1>2, <1>6 DEF RecordFailure, Working, Drop, Goto, AtWork, Hopeless
<1> QED
  BY <1>3, <1>4, <1>5, <1>6 DEF Queues

LEMMA SettlersStep ==
  ASSUME TypeOK, BusyInv, OwnInv, NEW w \in Workers, Quiet(w) \/ Extracts(w) \/ Queues(w),
         w \in failing'
  PROVE  task'[w] = task[w] /\ (w \in failing \/ job[task[w]] = "running")
<1>1. CASE Quiet(w)
  BY <1>1 DEF Quiet, FindNoText, CheckPacket, FailUnreadable, CreateRun, StartGeneration,
     CompleteGeneration, CheckResearch, CreateReport, CreateResearchJob, Transition, FailRun,
     FailDealOfRun, Drop, Return
<1>2. CASE Extracts(w)
  BY <1>2, ExtractsWrites
<1>3. CASE Queues(w)
  <2>1. CASE RecordFailure(w)
    <3>1. pc[w] # "idle" /\ ~Superseded(w) /\ UNCHANGED task
      BY <2>1 DEF RecordFailure, Drop
    <3> QED
      BY <3>1, Releasing
  <2>2. CASE Queues(w) /\ ~RecordFailure(w)
    <3>1. CASE \E j \in Jobs : Claim(w, j)
      BY <3>1 DEF Claim, BusyInv, FailSteps
    <3>2. CASE FinalizeIntake(w) \/ Complete(w) \/ CreateRunJob(w) \/ Throw(w) \/ Crash(w)
      BY <3>2 DEF FinalizeIntake, Complete, CreateRunJob, Throw, Crash, Return, Drop
    <3> QED
      BY <2>2, <3>1, <3>2 DEF Queues
  <2> QED
    BY <1>3, <2>1, <2>2
<1> QED
  BY <1>1, <1>2, <1>3

\* The AI is asked for the first time after the last look at the documents.
LEMMA FirstAsking ==
  ASSUME TypeOK, BusyInv, SettlerInv, OwnInv, CreateInv, NEW w \in Workers,
         Quiet(w) \/ Extracts(w) \/ Queues(w),
         \A v \in Workers \ {w} : pc'[v] = pc[v], ~Asking, Asking'
  PROVE  CheckPacket(w) /\ Unsettled = {}
<1>1. /\ pc \in [Workers -> Steps] /\ run \in [Runs -> JobStatus]
  BY DEF TypeOK, JobStatus
<1>2. CASE CheckPacket(w)
  BY <1>1, <1>2 DEF CheckPacket, Return, Drop, Goto, Asking, rowVars
<1>3. CASE Extracts(w)
  <2>1. pc'[w] # "create run" /\ UNCHANGED run
    BY <1>1, <1>3 DEF Extracts, StartExtraction, CompleteExtraction, MarkAnalyzed, FailExtraction,
       FailDocument, Goto
  <2> QED
    BY <2>1 DEF Asking
<1>4. CASE Queues(w)
  BY <1>4, QueuesPlaces, QueuesWrites DEF Asking
<1>5. CASE StartGeneration(w) \/ CompleteGeneration(w) \/ FailRun(w)
  <2>1. Type(task[w]) = "ai.generate" /\ pc[w] # "idle" /\ pc'[w] # "create run"
    BY <1>1, <1>5 DEF StartGeneration, CompleteGeneration, FailRun, At, BusyInv, Goto
  <2>2. PICK i \in Runs : task[w] = Generate(i) /\ i = Subject(task[w])
    BY <2>1, JobShapes DEF BusyInv
  <2>3. run[i] # "absent"
    BY <2>1, <2>2 DEF OwnInv, CreateInv
  <2> QED
    BY <2>3 DEF Asking
<1>6. CASE CreateRun(w)
  BY <1>6 DEF CreateRun, At, Asking
<1>7. CASE \/ FindNoText(w) \/ FailUnreadable(w) \/ CheckResearch(w) \/ CreateReport(w)
           \/ CreateResearchJob(w) \/ Transition(w) \/ FailDealOfRun(w)
  <2>1. pc'[w] # "create run" /\ UNCHANGED run
    BY <1>1, <1>7 DEF FindNoText, FailUnreadable, CheckResearch, CreateReport, CreateResearchJob,
       Transition, FailDealOfRun, Return, Drop, Goto, rowVars
  <2> QED
    BY <2>1 DEF Asking
<1> QED
  BY <1>2, <1>3, <1>4, <1>5, <1>6, <1>7 DEF Quiet

\* Each part of WaitInv holds after a step of a worker that is no fault.
LEMMA WaitStep ==
  ASSUME TypeOK, TypeOK', BusyInv, SettlerInv, OwnInv, CreateInv, manual = {},
         NEW w \in Workers, Quiet(w) \/ Extracts(w) \/ Queues(w), ~Throw(w), ~Crash(w),
         \A v \in Workers \ {w} : /\ pc'[v] = pc[v] /\ task'[v] = task[v]
                                  /\ v \in failing' <=> v \in failing,
         RunsFollow, KnownDocuments,
         Decided, QueuedWaits, \A v \in Workers : Working(v), SettlersApart, Asking => AllDone
  PROVE  /\ Decided' /\ QueuedWaits' /\ (\A v \in Workers : Working(v))' /\ SettlersApart'
         /\ (Asking => AllDone)'
<1>1. /\ UNCHANGED <<submitted, readable>> /\ submitted \subseteq Documents
      /\ pc \in [Workers -> Steps] /\ task \in [Workers -> Jobs \cup {None}]
      /\ failing \subseteq Workers
  BY QuietWrites, ExtractsWrites, QueuesWrites DEF TypeOK
<1>2. \A d \in submitted : Waits(d) => document[d] # Outcome(d)
  BY DEF Waits, Outcome
<1>3. \A d \in Documents : (task[w] = Extract(d) /\ pc[w] # "idle") => job[Extract(d)] # "queued"
  BY DEF OwnInv
\* No other worker can finish a document that a worker still works on.
<1>4. \A d \in submitted : document'[d] = document[d] \/ (FinalizeIntake(w) /\ deal = "absent" /\ Waits(d)')
        \/ (Extracts(w) /\ task[w] = Extract(d) /\ pc[w] \in AtWork /\ Waits(d)
              /\ (Waits(d)' \/ document'[d] = Outcome(d)))
  <2> TAKE d \in submitted
  <2>1. CASE Quiet(w)
    BY <2>1, QuietWrites
  <2>2. CASE Queues(w)
    BY <2>2, QueuesWrites, Finalized DEF Waits
  <2>3. CASE Extracts(w)
    <3>1. PICK e \in Documents :
           /\ task[w] = Extract(e)
           /\ \A c \in Documents \ {e} : document'[c] = document[c]
           /\ \/ pc[w] = "start" /\ document'[e] = "extracting"
              \/ pc[w] = "extracting" /\ document'[e] = document[e]
              \/ pc[w] = "extracted" /\ document'[e] = "analyzed"
              \/ pc[w] = "fail extraction" /\ document'[e] = document[e]
              \/ pc[w] = "fail document" /\ document'[e] = "failed"
      BY <2>3, DocumentStep
    <3> QED
      BY <1>1, <2>3, <3>1 DEF Working, Waits, Outcome, AtWork, Hopeless
  <2> QED
    BY <2>1, <2>2, <2>3
<1>5. Decided'
  <2> SUFFICES ASSUME NEW d \in submitted, deal' # "absent" PROVE Waits(d)' \/ document'[d] = Outcome(d)
    BY <1>1 DEF Decided, Outcome, Waits
  <2>1. CASE document'[d] = document[d]
    <3>1. CASE deal # "absent"
      BY <2>1, <3>1 DEF Decided, Waits
    <3>2. CASE deal = "absent"
      <4>1. FinalizeIntake(w)
        BY <3>2, QuietBefore, ExtractsWrites, QueuesWrites
      <4> QED
        BY <3>2, <4>1, Finalized DEF Waits
    <3> QED
      BY <3>1, <3>2
  <2> QED
    BY <1>4, <2>1
<1>6. QueuedWaits'
  <2> SUFFICES ASSUME NEW d \in submitted, job'[Extract(d)] = "queued" PROVE Waits(d)'
    BY <1>1 DEF QueuedWaits, Waits, Extract
  <2>1. CASE job[Extract(d)] = "queued"
    <3>1. Waits(d) /\ ~(Extracts(w) /\ task[w] = Extract(d))
      BY <1>1, <1>3, <2>1, ExtractsWrites DEF QueuedWaits
    <3> QED
      BY <1>4, <3>1 DEF Waits
  <2>2. CASE job[Extract(d)] # "queued"
    <3>1. Queues(w)
      BY <2>2, QuietWrites, ExtractsWrites
    <3>2. CASE FinalizeIntake(w) /\ deal = "absent"
      BY <3>2, Finalized DEF Waits
    <3>3. CASE task[w] = Extract(d) /\ RecordFailure(w)
      <4>1. Waits(d)
        BY <3>3 DEF RecordFailure, Working, AtWork
      <4>2. UNCHANGED document
        BY <3>3 DEF RecordFailure, rowVars
      <4> QED
        BY <4>1, <4>2 DEF Waits
    <3> QED
      BY <1>1, <2>2, <3>1, <3>2, <3>3, ExtractJobs
  <2> QED
    BY <2>1, <2>2
<1>7. ASSUME NEW v \in Workers \ {w} PROVE Working(v)'
  <2> SUFFICES ASSUME NEW d \in submitted, task'[v] = Extract(d)
               PROVE  /\ pc'[v] \in AtWork => Waits(d)'
                      /\ pc'[v] = "extracted" => d \in readable
                      /\ pc'[v] \in Hopeless => d \notin readable
    BY <1>1 DEF Working, Extract, Waits
  <2>1. ASSUME pc[v] \in AtWork PROVE ~(Extracts(w) /\ task[w] = Extract(d) /\ pc[w] \in AtWork)
    <3> SUFFICES ASSUME Extracts(w), task[w] = Extract(d) PROVE FALSE
      OBVIOUS
    <3>1. task[v] = task[w] /\ pc[v] # "idle" /\ pc[w] # "idle"
      BY <2>1, ExtractsWrites DEF AtWork
    <3>2. w \in failing /\ v \in failing
      BY <3>1, SharedTask
    <3> QED
      BY <3>1, <3>2 DEF SettlersApart
  <2> QED
    BY <1>4, <2>1 DEF Working, Waits
<1>8. Working(w)'
  <2>1. CASE Quiet(w)
    BY <1>1, <2>1, QuietWorking, QuietWrites DEF Working, Waits, Extract
  <2>2. CASE Queues(w)
    <3>1. \A d \in submitted : Waits(d) => Waits(d)'
      BY <2>2, QueuesWrites, Finalized DEF Waits
    <3> QED
      BY <1>1, <2>2, <3>1, QueuesWorking DEF Working, Waits, Extract
  <2>3. CASE Extracts(w)
    <3> SUFFICES ASSUME NEW d \in submitted, task'[w] = Extract(d)
                 PROVE  /\ pc'[w] \in AtWork => Waits(d)'
                        /\ pc'[w] = "extracted" => d \in readable
                        /\ pc'[w] \in Hopeless => d \notin readable
      BY <1>1 DEF Working, Extract, Waits
    <3>1. task[w] = Extract(d)
      BY <2>3, ExtractsWrites
    <3>2. PICK e \in Documents :
           /\ task[w] = Extract(e)
           /\ \/ /\ pc[w] = "start" /\ pc'[w] = "extracting" /\ document'[e] = "extracting"
              \/ /\ pc[w] = "extracting" /\ pc'[w] = "extracted" /\ e \in readable
                 /\ document'[e] = document[e]
              \/ /\ pc[w] = "extracted" /\ pc'[w] = "packet"
              \/ /\ pc[w] = "fail extraction" /\ pc'[w] = "fail document"
                 /\ document'[e] = document[e]
              \/ /\ pc[w] = "fail document" /\ pc'[w] = "packet"
      BY <2>3, DocumentStep
    <3>3. e = d
      BY <1>1, <3>1, <3>2, ExtractsApart
    <3> QED
      BY <3>1, <3>2, <3>3 DEF Working, Waits, AtWork, Hopeless
  <2> QED
    BY <2>1, <2>2, <2>3
<1>9. SettlersApart'
  <2>1. \A v \in failing : job[task[v]] = "failed" /\ v \in Workers
    BY <1>1 DEF BusyInv, OwnInv, FailSteps
  <2>2. failing' \subseteq Workers
    BY DEF TypeOK
  <2>3. \A v \in failing' \ {w} : v \in failing /\ task'[v] = task[v]
    BY <2>2
  <2>4. w \in failing' => task'[w] = task[w] /\ (w \in failing \/ job[task[w]] = "running")
    BY SettlersStep
  <2>5. \A v \in failing' \ {w} : w \in failing' => task'[v] # task'[w]
    BY <2>1, <2>3, <2>4 DEF SettlersApart
  <2> QED
    BY <2>3, <2>5 DEF SettlersApart
<1>10. (Asking => AllDone)'
  <2> SUFFICES ASSUME Asking', NEW d \in submitted PROVE document'[d] = Outcome(d)
    BY <1>1 DEF AllDone, Outcome
  <2>1. CASE Asking
    <3>1. document[d] = Outcome(d) /\ ~Waits(d)
      BY <1>2, <2>1 DEF AllDone
    <3>2. deal # "absent"
      BY <2>1, ExtractionTask DEF Asking, SettlerInv, RunsFollow
    <3> QED
      BY <1>1, <1>4, <3>1, <3>2 DEF Working
  <2>2. CASE ~Asking
    <3>1. CheckPacket(w) /\ Unsettled = {}
      BY <2>2, FirstAsking
    <3>2. deal # "absent" /\ ~Waits(d) /\ document'[d] = document[d]
      BY <3>1, ExtractionTask DEF CheckPacket, At, Unsettled, Waits, rowVars
    <3> QED
      BY <3>2 DEF Decided
  <2> QED
    BY <2>1, <2>2
<1> QED
  BY <1>5, <1>6, <1>7, <1>8, <1>9, <1>10

\* The two invariants, beside IInv.
ReasonIInv == IInv /\ SettlerInv /\ ReasonInv
WaitIInv == ReasonIInv /\ WaitInv

LEMMA ReasonInvariance == Spec => []ReasonIInv
<1>1. Init => SettlerInv /\ ReasonInv
  <2> SUFFICES ASSUME Init PROVE SettlerInv /\ ReasonInv
    OBVIOUS
  <2>1. (\A w \in Workers : pc[w] = "idle") /\ (\A i \in Runs : run[i] = "absent")
    BY DEF Init
  <2>2. \A d \in submitted : document[d] = "absent"
    BY DEF Init
  <2> QED
    BY <2>1, <2>2 DEF Init, SettlerInv, ReasonInv, RunsFollow, KnownDocuments, ReadDocuments,
       LostDocuments, TextKept, NothingToRead
<1>2. IInv /\ SettlerInv /\ ReasonInv /\ [Next]_vars => SettlerInv' /\ ReasonInv'
  <2> SUFFICES ASSUME IInv, SettlerInv, ReasonInv, [Next]_vars PROVE SettlerInv' /\ ReasonInv'
    OBVIOUS
  <2>1. TypeOK /\ BusyInv /\ LeaseInv
    BY DEF IInv
  <2>2. ASSUME NEW w \in Workers, WorkerStep(w) \/ Throw(w) \/ Crash(w)
        PROVE  SettlerInv' /\ ReasonInv'
    <3>1. SettlerInv'
      BY <2>1, <2>2, SettlerStep
    <3>2. UNCHANGED <<stalls, manual>>
      BY <2>2, Kinds, QuietWrites, ExtractsWrites, QueuesWrites
    <3>3. stalls = 0 /\ manual = {} => ReasonInv'
      BY <2>1, <2>2, ReasonStep DEF LeaseInv, ReasonInv
    <3> QED
      BY <3>1, <3>2, <3>3 DEF ReasonInv
  <2>3. ASSUME NEW w \in Workers, LoseLease(w) PROVE SettlerInv' /\ ReasonInv'
    <3>1. stalls' # 0
      BY <2>1, <2>3 DEF LoseLease, TypeOK
    <3>2. SettlerInv'
      BY <2>3 DEF LoseLease, workerVars, SettlerInv
    <3> QED
      BY <3>1, <3>2 DEF ReasonInv
  <2>4. ASSUME NEW d \in Documents,
               QueueExtraction(d) \/ EnqueueExtraction(d) \/ EnqueueExtractionFails(d)
        PROVE  SettlerInv' /\ ReasonInv'
    <3>1. manual' # {}
      BY <2>1, <2>4 DEF QueueExtraction, EnqueueExtraction, EnqueueExtractionFails, TypeOK
    <3>2. SettlerInv'
      BY <2>4
      DEF QueueExtraction, EnqueueExtraction, EnqueueExtractionFails, workerVars, SettlerInv
    <3> QED
      BY <3>1, <3>2 DEF ReasonInv
  <2>5. CASE UNCHANGED vars
    BY <2>5 DEF vars, rowVars, inputVars, manualVars, jobVars, workerVars, faultVars, SettlerInv,
       ReasonInv, RunsFollow, KnownDocuments, ReadDocuments, LostDocuments, TextKept, NothingToRead,
       AllLost
  <2> QED
    BY <2>2, <2>3, <2>4, <2>5 DEF Next
<1> QED
  BY <1>1, <1>2, Invariance, PTL DEF Spec, ReasonIInv

\* However extractions of any number of documents fail, are retried, crash and interleave: the
\* worker gives a deal up only when every document's extraction job, or an AI job, has used up
\* its attempts, as long as no lease of a live worker was lost and no member interfered.
THEOREM FailedDealHasReason == Spec => FailedForAReason
<1>1. ReasonIInv /\ [Next]_vars =>
        [deal # "failed" /\ deal' = "failed" /\ stalls = 0 /\ manual = {} =>
           \/ \A d \in submitted : job[Extract(d)] = "failed"
           \/ \E i \in Runs : job[Generate(i)] = "failed"]_vars
  <2> SUFFICES ASSUME ReasonIInv, Next, deal # "failed", deal' = "failed", stalls = 0, manual = {}
               PROVE  \/ \A d \in submitted : job[Extract(d)] = "failed"
                      \/ \E i \in Runs : job[Generate(i)] = "failed"
    OBVIOUS
  <2>1. PICK w \in Workers : FailUnreadable(w) \/ FailDealOfRun(w)
    BY DEF Next, WorkerStep, HandlerStep, Claim, Complete, RecordFailure, Throw, Crash, LoseLease,
       FinalizeIntake, StartExtraction, FindNoText, CompleteExtraction, MarkAnalyzed, CheckPacket,
       CreateRun, CreateRunJob, StartGeneration, CompleteGeneration, CheckResearch,
       CreateReport, CreateResearchJob, Transition, FailExtraction, FailDocument, FailRun,
       QueueExtraction, EnqueueExtraction, EnqueueExtractionFails, rowVars
  <2>2. CASE FailUnreadable(w)
    BY <2>2 DEF FailUnreadable, At, ReasonIInv, ReasonInv, NothingToRead, AllLost
  <2>3. CASE FailDealOfRun(w)
    <3>1. Type(task[w]) = "ai.generate" /\ w \in failing /\ pc[w] # "idle" /\ task[w] \in Jobs
      BY <2>3 DEF FailDealOfRun, At, ReasonIInv, SettlerInv, IInv, BusyInv
    <3>2. job[task[w]] = "failed"
      BY <3>1 DEF ReasonIInv, IInv, LeaseInv, OwnInv
    <3> QED
      BY <3>1, <3>2, JobShapes
  <2> QED
    BY <2>1, <2>2, <2>3
<1> QED
  BY <1>1, ReasonInvariance, PTL DEF Spec, FailedForAReason

\* Whatever the order in which the workers extract the documents of a submission: without faults
\* and members' requests the AI is asked only when every readable document has been read and
\* every other one was given up.
THEOREM PacketIsComplete == Spec => []PacketWaitsForDocuments
<1>1. Init => WaitInv
  <2> SUFFICES ASSUME Init PROVE WaitInv
    OBVIOUS
  <2>1. (\A w \in Workers : pc[w] = "idle") /\ (\A i \in Runs : run[i] = "absent") /\ failing = {}
    BY DEF Init
  <2>2. \A d \in submitted : job[Extract(d)] # "queued"
    BY JobShapes DEF Init, Extract, Finalize
  <2> QED
    BY <2>1, <2>2
    DEF Init, WaitInv, Decided, QueuedWaits, Working, SettlersApart, Asking, AtWork, Hopeless
<1>2. ReasonIInv /\ WaitInv /\ TypeOK' /\ [Next]_vars => WaitInv'
  <2> SUFFICES ASSUME ReasonIInv, WaitInv, TypeOK', [Next]_vars, Faultless', manual' = {}
               PROVE  WaitInv'
    BY DEF WaitInv
  <2>1. TypeOK /\ BusyInv /\ LeaseInv /\ SettlerInv /\ ReasonInv
    BY DEF ReasonIInv, IInv
  <2>2. ASSUME NEW w \in Workers, WorkerStep(w) PROVE WaitInv'
    <3>1. UNCHANGED faultVars
      BY <2>2 DEF WorkerStep, HandlerStep, Claim, Complete, RecordFailure, FinalizeIntake,
         StartExtraction, FindNoText, CompleteExtraction, MarkAnalyzed, CheckPacket, FailUnreadable,
         CreateRun, CreateRunJob, StartGeneration, CompleteGeneration, CheckResearch, CreateReport,
         CreateResearchJob, Transition, FailExtraction, FailDocument, FailRun, FailDealOfRun
    <3>2. Quiet(w) \/ Extracts(w) \/ Queues(w)
      BY <2>2, Kinds
    <3>3. manual = {} /\ Faultless /\ stalls = 0
      BY <2>1, <3>1, <3>2, QuietWrites, ExtractsWrites, QueuesWrites
      DEF faultVars, Faultless, TypeOK
    <3>4. ~Throw(w) /\ ~Crash(w)
      BY <2>1, <3>1 DEF Throw, Crash, faultVars, TypeOK
    <3> QED
      BY <2>1, <2>2, <3>2, <3>3, <3>4, WaitStep, OthersKept DEF LeaseInv, ReasonInv, WaitInv
  <2>3. ASSUME NEW w \in Workers PROVE ~Throw(w) /\ ~Crash(w) /\ ~LoseLease(w)
    <3>1. errors' + crashes' + stalls' = 0
      BY DEF Faultless
    <3>2. errors \in Nat /\ crashes \in Nat /\ stalls \in Nat
      BY <2>1 DEF TypeOK
    <3>3. ~Throw(w)
      BY <3>1, <3>2 DEF Throw
    <3>4. ~Crash(w)
      BY <3>1, <3>2 DEF Crash
    <3>5. ~LoseLease(w)
      BY <3>1, <3>2 DEF LoseLease
    <3> QED
      BY <3>3, <3>4, <3>5
  <2>4. ASSUME NEW d \in Documents
        PROVE  ~(QueueExtraction(d) \/ EnqueueExtraction(d) \/ EnqueueExtractionFails(d))
    BY <2>1 DEF QueueExtraction, EnqueueExtraction, EnqueueExtractionFails, TypeOK
  <2>5. CASE UNCHANGED vars
    BY <2>5 DEF vars, rowVars, inputVars, manualVars, jobVars, workerVars, faultVars, WaitInv,
       Faultless, Decided, QueuedWaits, Working, SettlersApart, Asking, AllDone, Waits, Outcome
  <2> QED
    BY <2>2, <2>3, <2>4, <2>5 DEF Next
<1>3. WaitInv => PacketWaitsForDocuments
  BY DEF WaitInv, PacketWaitsForDocuments, Asking, AllDone, Outcome
<1> QED
  BY <1>1, <1>2, <1>3, ReasonInvariance, TypeCorrect, PTL DEF Spec

=============================================================================
