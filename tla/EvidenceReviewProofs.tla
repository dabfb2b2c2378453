------------------------- MODULE EvidenceReviewProofs -------------------------
(***************************************************************************)
(* Theorems about EvidenceReview: its types; the three rules its           *)
(* evaluations, its acceptance gate and its reruns keep; and that its      *)
(* result catches up with the evidence.  The three rules say that what     *)
(* somebody does was right when he looked; the invariant relates what he   *)
(* remembers to the evidence by the version it was read at.  That the      *)
(* result catches up needs to know, beside it, who still owes the          *)
(* evaluation.  And theorems about SopScoring, for any templates and any   *)
(* evidence.                                                               *)
(***************************************************************************)
EXTENDS EvidenceReview, SopScoring, FiniteSetTheorems, TLAPS

ReportRows == [status : {"absent", "queued", "running", "completed", "failed"},
               found : SUBSET Sources, red : SUBSET Sources]
Results == [by : {None, "ai.generate", "sop.evaluate"}, at : Nat, report : Nat,
            confirmed : BOOLEAN, followUp : BOOLEAN]
Work == [step : WorkSteps, task : Jobs \cup {None}, made : Nat, seen : Reading]
Calls == [step : CallSteps, report : Nat, source : Sources \cup {None},
          verdict : Verdicts \cup {None}, found : SUBSET Sources, began : Nat]

-----------------------------------------------------------------------------
(* Types. *)

LEMMA LatestType == Latest \in Nat /\ (Latest # 0 => Latest \in Reports)
<1> DEFINE S == {r \in Reports : Exists(r)}
<1>1. IsFiniteSet(1 .. MaxReports)
  BY BoundsAssumption, FS_Interval
<1>2. IsFiniteSet(S)
  BY <1>1, FS_Subset DEF Reports
<1>3. Cardinality(S) <= Cardinality(1 .. MaxReports)
  BY <1>1, FS_Subset DEF Reports
<1>4. Cardinality(1 .. MaxReports) = MaxReports
  BY BoundsAssumption, FS_Interval
<1> QED
  BY <1>2, <1>3, <1>4, BoundsAssumption, FS_CardinalityType DEF Latest, Reports

LEMMA JobTypes ==
  /\ Generate \in Jobs /\ Type(Generate) = "ai.generate"
  /\ \A j \in Jobs : Type(j) = "research.collect" => Subject(j) \in Reports
BY DEF Jobs, Generate, Collect, Evaluate, Type, Subject

LEMMA NoWorkType == NoWork \in Work /\ NoCall \in Calls /\ NoReading \in Reading
<1>1. NoReading \in Reading
  BY DEF NoReading, Reading
<1> QED
  BY <1>1 DEF NoWork, Work, NoCall, Calls, WorkSteps, CallSteps

\* What every step of a worker does to the variables it has of its own.
LEMMA GotoType ==
  ASSUME work \in [Workers -> Work], NEW w \in Workers, NEW s \in WorkSteps, Goto(w, s)
  PROVE  work' \in [Workers -> Work]
BY DEF Goto, Work

LEMMA TypeStep == TypeOK /\ [Next]_vars => TypeOK'
<1> SUFFICES ASSUME TypeOK, [Next]_vars PROVE TypeOK'
  OBVIOUS
<1> DEFINE JobStatus == {"absent", "queued", "running", "completed", "failed"}
<1>t. /\ report \in [Reports -> ReportRows]
      /\ decision \in [Reports -> [Sources -> Verdicts \cup {None}]]
      /\ deal \in {"processing", "review_ready", "accepted", "failed"}
      /\ stored \in Results
      /\ job \in [Jobs -> JobStatus]
      /\ holder \in [Jobs -> Workers \cup {None}]
      /\ work \in [Workers -> Work]
      /\ lock \in Workers \cup {None}
      /\ call \in [Requests -> Calls]
      /\ version \in Nat /\ events \in Nat /\ lost \in BOOLEAN
  BY DEF TypeOK, ReportRows, Results, Work, Calls
<1>v. version \in Nat /\ version + 1 \in Nat
  BY <1>t
<1>p. ASSUME /\ report' \in [Reports -> ReportRows]
             /\ decision' \in [Reports -> [Sources -> Verdicts \cup {None}]]
             /\ deal' \in {"processing", "review_ready", "accepted", "failed"}
             /\ stored' \in Results
             /\ job' \in [Jobs -> JobStatus]
             /\ holder' \in [Jobs -> Workers \cup {None}]
             /\ work' \in [Workers -> Work]
             /\ lock' \in Workers \cup {None}
             /\ call' \in [Requests -> Calls]
             /\ version' \in Nat /\ events' \in Nat /\ lost' \in BOOLEAN
      PROVE TypeOK'
  BY <1>p DEF TypeOK, ReportRows, Results, Work, Calls
<1>s. ASSUME NEW r, NEW s \in JobStatus, SetStatus(r, s)
      PROVE report' \in [Reports -> ReportRows] /\ version' \in Nat
  <2>1. CASE r \in Reports
    <3>1. [report[r] EXCEPT !.status = s] \in ReportRows
      BY <1>s, <1>t, <2>1 DEF ReportRows
    <3>2. report' = [report EXCEPT ![r] = [report[r] EXCEPT !.status = s]]
      BY <1>s, <1>t, <2>1 DEF SetStatus
    <3>3. report' \in [Reports -> ReportRows]
      BY <1>t, <3>1, <3>2
    <3> QED
      BY <1>s, <1>t, <3>3 DEF SetStatus
  <2>2. CASE r \notin Reports
    <3>1. report' = [q \in Reports |-> report[q]]
      BY <1>s, <1>t, <2>2 DEF SetStatus
    <3>2. version' \in Nat
      BY <1>s, <1>t DEF SetStatus
    <3> QED
      BY <1>t, <3>1, <3>2
  <2> QED
    BY <2>1, <2>2
<1>e. Spend => events' \in Nat
  BY <1>t DEF Spend
<1>r. ASSUME NEW w \in Workers, NEW s \in JobStatus, Release(w, s)
      PROVE job' \in [Jobs -> JobStatus] /\ holder' \in [Jobs -> Workers \cup {None}]
  BY <1>r, <1>t DEF Release
<1>w. ASSUME NEW w \in Workers, Drop(w) PROVE work' \in [Workers -> Work]
  BY <1>w, <1>t, NoWorkType DEF Drop
<1>u. ASSUME NEW w \in Workers, Unlock(w) PROVE lock' \in Workers \cup {None}
  BY <1>u, <1>t DEF Unlock
<1>c. ASSUME NEW c \in Requests, Answer(c) PROVE call' \in [Requests -> Calls]
  BY <1>c, <1>t, NoWorkType DEF Answer
<1>b. ASSUME NEW c \in Requests, NEW s \in CallSteps, CallTo(c, s) \/ Begin(c, s)
      PROVE call' \in [Requests -> Calls]
  <2>1. CASE CallTo(c, s)
    BY <2>1, <1>t DEF CallTo, Calls
  <2>2. CASE Begin(c, s)
    BY <2>2, <1>t DEF Begin, Calls
  <2> QED
    BY <1>b, <2>1, <2>2
<1>n. ASSUME NEW j, job' = [job EXCEPT ![j] = "queued"] PROVE job' \in [Jobs -> JobStatus]
  BY <1>n, <1>t
<1> HIDE DEF JobStatus
<1>1. ASSUME NEW w \in Workers, NEW j \in Jobs, Claim(w, j) PROVE TypeOK'
  <2>1. job' \in [Jobs -> JobStatus] /\ holder' \in [Jobs -> Workers \cup {None}]
    BY <1>1, <1>t DEF Claim, JobStatus
  <2>2. work' \in [Workers -> Work]
    BY <1>1, <1>t, NoWorkType DEF Claim, NoWork, Work, WorkSteps
  <2> QED
    BY <1>1, <1>t, <1>p, <2>1, <2>2 DEF Claim, evidenceVars
<1>2. ASSUME NEW w \in Workers, Complete(w) PROVE TypeOK'
  <2>1. job' \in [Jobs -> JobStatus] /\ holder' \in [Jobs -> Workers \cup {None}]
    BY <1>2, <1>t, <1>r DEF Complete, jobVars, JobStatus
  <2> QED
    BY <1>2, <1>t, <1>p, <1>w, <2>1 DEF Complete, evidenceVars
<1>3. ASSUME NEW w \in Workers, RecordFailure(w) PROVE TypeOK'
  <2>1. job' \in [Jobs -> JobStatus] /\ holder' \in [Jobs -> Workers \cup {None}]
    BY <1>3, <1>t, <1>r DEF RecordFailure, jobVars, JobStatus
  <2>2. work' \in [Workers -> Work] /\ lost' \in BOOLEAN
    BY <1>3, <1>t, <1>w, GotoType DEF RecordFailure, WorkSteps
  <2> QED
    BY <1>3, <1>t, <1>p, <2>1, <2>2 DEF RecordFailure, evidenceVars
<1>4. ASSUME NEW w \in Workers, Settle(w) PROVE TypeOK'
  <2>1. report' \in [Reports -> ReportRows] /\ version' \in Nat
    BY <1>4, <1>t, <1>s DEF Settle, JobStatus
  <2> QED
    BY <1>4, <1>t, <1>p, <1>w, <2>1 DEF Settle, jobVars
<1>5. ASSUME NEW w \in Workers, Throw(w) PROVE TypeOK'
  <2>1. work' \in [Workers -> Work]
    BY <1>5, <1>t, NoWorkType DEF Throw, NoWork, Work, WorkSteps
  <2> QED
    BY <1>5, <1>t, <1>p, <1>u, <1>e, <2>1 DEF Throw, evidenceVars, jobVars
<1>6. ASSUME NEW w \in Workers, Crash(w) \/ LoseLease(w) PROVE TypeOK'
  <2>1. job' \in [Jobs -> JobStatus] /\ holder' \in [Jobs -> Workers \cup {None}]
    BY <1>6, <1>t, <1>r DEF Crash, LoseLease, jobVars, JobStatus
  <2>2. work' \in [Workers -> Work] /\ lock' \in Workers \cup {None} /\ lost' \in BOOLEAN
    BY <1>6, <1>t, <1>w, <1>u DEF Crash, LoseLease
  <2> QED
    BY <1>6, <1>t, <1>p, <1>e, <2>1, <2>2 DEF Crash, LoseLease, evidenceVars
<1>7. ASSUME NEW w \in Workers, ReadDeal(w) PROVE TypeOK'
  <2>1. work' \in [Workers -> Work]
    <3>1. CASE \E s \in WorkSteps : Goto(w, s)
      BY <3>1, <1>t, GotoType
    <3>2. CASE ~ \E s \in WorkSteps : Goto(w, s)
      <4> DEFINE seen == [NoReading EXCEPT !.report = Latest, !.at = version,
                            !.red = IF Latest = 0 THEN {} ELSE report[Latest].red]
      <4>1. work' = [work EXCEPT ![w].step = "read decisions", ![w].seen = seen]
        BY <1>7, <3>2 DEF ReadDeal, WorkSteps
      <4>2. seen \in Reading
        <5>1. Latest # 0 => Latest \in Reports
          BY LatestType
        <5>2. (IF Latest = 0 THEN {} ELSE report[Latest].red) \in SUBSET Sources
          BY <1>t, <5>1 DEF ReportRows
        <5> QED
          BY <1>t, <5>2, LatestType DEF NoReading, Reading
      <4> HIDE DEF seen
      <4> QED
        BY <1>t, <4>1, <4>2 DEF Work, WorkSteps
    <3> QED
      BY <3>1, <3>2
  <2> QED
    BY <1>7, <1>t, <1>p, <1>u, <1>e, <2>1 DEF ReadDeal, evidenceVars, jobVars
<1>8. ASSUME NEW w \in Workers, ReadDecisions(w) PROVE TypeOK'
  <2> DEFINE Decided(v) == \E s \in work[w].seen.red : decision[work[w].seen.report][s] = v
             seen == [work[w].seen EXCEPT !.red = {}, !.confirmed = Decided("confirmed"),
                                          !.followUp = Decided("follow_up")]
  <2>1. work' = [work EXCEPT ![w].step = "store", ![w].seen = seen]
    BY <1>8 DEF ReadDecisions
  <2>2. seen \in Reading
    <3>1. Decided("confirmed") \in BOOLEAN /\ Decided("follow_up") \in BOOLEAN
      OBVIOUS
    <3>2. work[w].seen \in Reading
      BY <1>t DEF Work
    <3> HIDE DEF Decided
    <3> QED
      BY <3>1, <3>2 DEF Reading
  <2> HIDE DEF seen
  <2>3. work' \in [Workers -> Work]
    BY <1>t, <2>1, <2>2 DEF Work, WorkSteps
  <2> QED
    BY <1>8, <1>t, <1>p, <2>3 DEF ReadDecisions, evidenceVars, jobVars
<1>9. ASSUME NEW w \in Workers, Store(w) PROVE TypeOK'
  <2>1. work[w].seen \in Reading
    BY <1>t DEF Work
  <2>2. stored' \in Results
    BY <1>9, <2>1 DEF Store, Evaluating, At, Results, Reading
  <2>3. work' \in [Workers -> Work]
    BY <1>9, <1>t, NoWorkType DEF Store, Work, WorkSteps
  <2>4. lost' \in BOOLEAN
    BY <1>9, <1>t DEF Store
  <2> QED
    BY <1>9, <1>t, <1>p, <1>u, <2>2, <2>3, <2>4 DEF Store, evidenceVars, jobVars
<1>10. ASSUME NEW w \in Workers, CheckResearch(w) PROVE TypeOK'
  <2>1. CASE Goto(w, "transition")
    BY <1>10, <1>t, <1>p, <2>1, GotoType DEF CheckResearch, evidenceVars, jobVars, WorkSteps
  <2>2. CASE work' = [work EXCEPT ![w].step = "create report", ![w].seen.at = version]
    <3>1. work' \in [Workers -> Work]
      <4> DEFINE seen == [work[w].seen EXCEPT !.at = version]
      <4>1. seen \in Reading
        BY <1>t DEF Work, Reading
      <4>2. work' = [work EXCEPT ![w].step = "create report", ![w].seen = seen]
        BY <1>t, <2>2
      <4> HIDE DEF seen
      <4> QED
        BY <1>t, <4>1, <4>2 DEF Work, WorkSteps
    <3> QED
      BY <1>10, <1>t, <1>p, <3>1 DEF CheckResearch, evidenceVars, jobVars
  <2> QED
    BY <1>10, <2>1, <2>2 DEF CheckResearch
<1>11. ASSUME NEW w \in Workers, CreateReport(w) PROVE TypeOK'
  <2>0. NextReport \in Nat
    BY LatestType DEF NextReport
  <2>1. work' \in [Workers -> Work]
    BY <1>11, <1>t, <2>0, NoWorkType DEF CreateReport, Work, WorkSteps
  <2> QED
    BY <1>11, <1>t, <1>p, <1>s, <2>1 DEF CreateReport, jobVars, JobStatus
<1>12. ASSUME NEW w \in Workers, CreateResearchJob(w) PROVE TypeOK'
  <2>1. work' \in [Workers -> Work]
    BY <1>12, <1>t DEF CreateResearchJob, Work, WorkSteps
  <2> QED
    BY <1>12, <1>t, <1>p, <1>n, <2>1 DEF CreateResearchJob, evidenceVars
<1>13. ASSUME NEW w \in Workers, Transition(w) PROVE TypeOK'
  <2>1. work' \in [Workers -> Work]
    BY <1>13, <1>t, GotoType DEF Transition, WorkSteps
  <2> QED
    BY <1>13, <1>t, <1>p, <2>1 DEF Transition, evidenceVars, jobVars
<1>14. ASSUME NEW w \in Workers, StartCollection(w) PROVE TypeOK'
  <2>1. work' \in [Workers -> Work]
    BY <1>14, <1>t, GotoType DEF StartCollection, WorkSteps
  <2> QED
    BY <1>14, <1>t, <1>p, <1>s, <2>1 DEF StartCollection, jobVars, JobStatus
<1>15. ASSUME NEW w \in Workers, CompleteCollection(w) PROVE TypeOK'
  <2>1. work' \in [Workers -> Work]
    BY <1>15, <1>t, GotoType DEF CompleteCollection, WorkSteps
  <2>2. PICK found \in SUBSET Sources, red \in SUBSET Sources :
          report' = [report EXCEPT ![Subject(work[w].task)] =
                       [status |-> "completed", found |-> found, red |-> red]]
    BY <1>15 DEF CompleteCollection, Findings, Citations
  <2>3. [status |-> "completed", found |-> found, red |-> red] \in ReportRows
    BY <2>2 DEF ReportRows
  <2>4. report' \in [Reports -> ReportRows]
    BY <1>t, <2>2, <2>3
  <2>5. version' \in Nat
    BY <1>15, <1>v DEF CompleteCollection
  <2> QED
    BY <1>15, <1>t, <1>p, <2>1, <2>4, <2>5 DEF CompleteCollection, jobVars
<1>16. ASSUME NEW w \in Workers, RequestEvaluation(w) PROVE TypeOK'
  <2>1. work' \in [Workers -> Work]
    BY <1>16, <1>t, GotoType DEF RequestEvaluation, WorkSteps
  <2> QED
    BY <1>16, <1>t, <1>p, <1>n, <2>1 DEF RequestEvaluation, NewEvaluation, evidenceVars
<1>17. ASSUME NEW w \in Workers, BeginEvaluation(w) PROVE TypeOK'
  <2>1. work' \in [Workers -> Work] /\ lock' \in Workers \cup {None}
    BY <1>17, <1>t, GotoType DEF BeginEvaluation, WorkSteps
  <2> QED
    BY <1>17, <1>t, <1>p, <2>1 DEF BeginEvaluation, evidenceVars, jobVars
<1>18. ASSUME NEW c \in Requests, ReviewEvidence(c) PROVE TypeOK'
  <2>1. PICK r \in Reports, v \in Verdicts, s \in Sources :
          /\ s \in report[r].found
          /\ call' = [call EXCEPT ![c] = [NoCall EXCEPT !.step = "record", !.report = r,
                                               !.source = s, !.verdict = v]]
    BY <1>18, <1>t DEF ReviewEvidence, ReportRows
  <2>2. s \in Sources /\ r \in Nat
    BY <1>t, <2>1 DEF ReportRows, Reports
  <2>3. call' \in [Requests -> Calls]
    BY <1>t, <2>1, <2>2 DEF NoCall, Calls, CallSteps
  <2> QED
    BY <1>18, <1>t, <1>p, <1>e, <2>3 DEF ReviewEvidence, evidenceVars, jobVars
<1>19. ASSUME NEW c \in Requests, RecordDecision(c) PROVE TypeOK'
  <2>1. call[c].verdict \in Verdicts \cup {None}
    BY <1>t DEF Calls
  <2>2. decision' \in [Reports -> [Sources -> Verdicts \cup {None}]]
    BY <1>19, <1>t, <2>1 DEF RecordDecision
  <2>3. version' \in Nat
    BY <1>19, <1>v DEF RecordDecision
  <2>4. call' \in [Requests -> Calls]
    BY <1>19, <1>b DEF RecordDecision, CallSteps
  <2> QED
    BY <1>19, <1>t, <1>p, <2>2, <2>3, <2>4 DEF RecordDecision, jobVars
<1>20. ASSUME NEW c \in Requests, EnqueueEvaluation(c) PROVE TypeOK'
  BY <1>20, <1>t, <1>p, <1>c, <1>n DEF EnqueueEvaluation, NewEvaluation, evidenceVars
<1>21. ASSUME NEW c \in Requests, RerunResearch(c) PROVE TypeOK'
  BY <1>21, <1>t, <1>p, <1>b, <1>e DEF RerunResearch, evidenceVars, jobVars, CallSteps
<1>22. ASSUME NEW c \in Requests, CreateRerun(c) PROVE TypeOK'
  <2>0. NextReport \in Nat
    BY LatestType DEF NextReport
  <2>1. call' \in [Requests -> Calls]
    <3>1. call' = [call EXCEPT ![c].step = "request research", ![c].report = NextReport]
      BY <1>22 DEF CreateRerun
    <3>2. [call[c] EXCEPT !.step = "request research", !.report = NextReport] \in Calls
      BY <1>t, <2>0 DEF Calls, CallSteps
    <3> QED
      BY <1>t, <3>1, <3>2
  <2> QED
    BY <1>22, <1>t, <1>p, <1>s, <2>1 DEF CreateRerun, jobVars, JobStatus
<1>23. ASSUME NEW c \in Requests, EnqueueResearch(c) PROVE TypeOK'
  BY <1>23, <1>t, <1>p, <1>c, <1>n DEF EnqueueResearch, evidenceVars
<1>24. ASSUME NEW c \in Requests, EnqueueResearchFails(c) PROVE TypeOK'
  BY <1>24, <1>t, <1>p, <1>c, <1>e, <1>s DEF EnqueueResearchFails, jobVars, JobStatus
<1>25. ASSUME NEW c \in Requests, Break(c) PROVE TypeOK'
  BY <1>25, <1>t, <1>p, <1>c, <1>e DEF Break, evidenceVars, jobVars
<1>26. ASSUME NEW c \in Requests, Accept(c) PROVE TypeOK'
  <2>1. call' \in [Requests -> Calls]
    <3>1. CASE Begin(c, "approve")
      BY <1>b, <3>1 DEF CallSteps
    <3>2. CASE ~Begin(c, "approve")
      <4>1. Latest \in Reports
        BY <1>26, <3>2, LatestType DEF Accept
      <4>2. report[Latest].found \in SUBSET Sources
        BY <1>t, <4>1 DEF ReportRows
      <4>3. call' = [call EXCEPT ![c] = [NoCall EXCEPT !.step = "gate", !.report = Latest,
                                           !.found = report[Latest].found, !.began = version]]
        BY <1>26, <3>2 DEF Accept
      <4> QED
        BY <1>t, <4>2, <4>3, LatestType DEF NoCall, Calls, CallSteps
    <3> QED
      BY <3>1, <3>2
  <2> QED
    BY <1>26, <1>t, <1>p, <1>e, <2>1 DEF Accept, evidenceVars, jobVars
<1>27. ASSUME NEW c \in Requests, PassGate(c) PROVE TypeOK'
  <2>1. call' \in [Requests -> Calls]
    <3>1. call[c].began \in Nat
      BY <1>t DEF Calls
    <3>2. [NoCall EXCEPT !.step = "approve", !.began = call[c].began] \in Calls
      BY <3>1 DEF NoCall, Calls, CallSteps
    <3> QED
      BY <1>27, <1>t, <1>c, <3>2 DEF PassGate
  <2> QED
    BY <1>27, <1>t, <1>p, <2>1 DEF PassGate, evidenceVars, jobVars
<1>28. ASSUME NEW c \in Requests, Approve(c) PROVE TypeOK'
  BY <1>28, <1>t, <1>p, <1>c DEF Approve, evidenceVars, jobVars
<1>29. CASE UNCHANGED vars
  BY <1>29, <1>t, <1>p DEF vars, evidenceVars, jobVars
<1> QED
  BY <1>1, <1>2, <1>3, <1>4, <1>5, <1>6, <1>7, <1>8, <1>9, <1>10, <1>11, <1>12, <1>13, <1>14,
     <1>15, <1>16, <1>17, <1>18, <1>19, <1>20, <1>21, <1>22, <1>23, <1>24, <1>25, <1>26, <1>27,
     <1>28, <1>29
  DEF Next, WorkerStep, HandlerStep, RequestStep

\* Every value that the columns of the evidence, the jobs, the workers' memory and the requests
\* in flight of EvidenceReview can have is one of its type, for any numbers of each.
THEOREM TypeCorrect == Spec => []TypeOK
<1>1. Init => TypeOK
  <2> SUFFICES ASSUME Init PROVE TypeOK
    OBVIOUS
  <2>1. /\ work \in [Workers -> Work] /\ call \in [Requests -> Calls]
    BY NoWorkType DEF Init
  <2>2. /\ report \in [Reports -> ReportRows] /\ stored \in Results
    BY DEF Init, ReportRows, Results
  <2> QED
    BY <2>1, <2>2 DEF Init, TypeOK, Work, Calls, ReportRows, Results, Generate
<1> QED
  BY <1>1, TypeStep, PTL DEF Spec

-----------------------------------------------------------------------------
(* Who changes what. *)

\* Evidence that changes is dated anew, but for a report that goes from queued to running.
LEMMA EvidenceSteps ==
  ASSUME TypeOK, [Next]_vars
  PROVE  \/ UNCHANGED evidenceVars
         \/ version' = version + 1
         \/ UNCHANGED decision /\ \E r, s : SetStatus(r, s)
<1>1. ASSUME NEW w \in Workers, WorkerStep(w)
      PROVE \/ UNCHANGED evidenceVars \/ version' = version + 1
            \/ UNCHANGED decision /\ \E r, s : SetStatus(r, s)
  <2>1. CASE (\E j \in Jobs : Claim(w, j)) \/ Complete(w) \/ RecordFailure(w)
    BY <2>1 DEF Claim, Complete, RecordFailure
  <2>2. CASE Settle(w)
    BY <2>2 DEF Settle, evidenceVars
  <2>3. CASE HandlerStep(w)
    BY <2>3 DEF HandlerStep, CheckResearch, CreateReport, CreateResearchJob, Transition,
       StartCollection, CompleteCollection, RequestEvaluation, BeginEvaluation, ReadDeal,
       ReadDecisions, Store
  <2> QED
    BY <1>1, <2>1, <2>2, <2>3 DEF WorkerStep
<1>2. ASSUME NEW w \in Workers, Throw(w) \/ Crash(w) \/ LoseLease(w)
      PROVE UNCHANGED evidenceVars
  BY <1>2 DEF Throw, Crash, LoseLease
<1>3. ASSUME NEW c \in Requests, \/ RequestStep(c) \/ ReviewEvidence(c) \/ RerunResearch(c)
                                 \/ Accept(c) \/ EnqueueResearchFails(c) \/ Break(c)
      PROVE \/ UNCHANGED evidenceVars \/ version' = version + 1
            \/ UNCHANGED decision /\ \E r, s : SetStatus(r, s)
  BY <1>3 DEF RequestStep, ReviewEvidence, RerunResearch, Accept, EnqueueResearchFails, Break,
     RecordDecision, EnqueueEvaluation, CreateRerun, EnqueueResearch, PassGate, Approve
<1>4. CASE UNCHANGED vars
  BY <1>4 DEF vars
<1> QED
  BY <1>1, <1>2, <1>3, <1>4 DEF Next

\* What a reader of the evidence tells apart.
Collecting == \E r \in Reports : Active(r)
LEMMA SameVersion ==
  ASSUME TypeOK, [Next]_vars
  PROVE  /\ version \in Nat /\ version' \in Nat /\ version' >= version
         /\ version' = version =>
              /\ decision' = decision /\ Latest' = Latest /\ Collecting' = Collecting
              /\ \A r \in Reports :
                   /\ report'[r].found = report[r].found
                   /\ (report'[r].status = "completed") = (report[r].status = "completed")
<1>1. /\ version \in Nat
      /\ report \in [Reports -> ReportRows]
  BY DEF TypeOK, ReportRows
<1>2. CASE UNCHANGED evidenceVars
  BY <1>1, <1>2 DEF evidenceVars, Latest, Exists, Collecting, Active
<1>3. CASE version' = version + 1
  BY <1>1, <1>3
<1>4. ASSUME UNCHANGED decision, NEW r, NEW s, SetStatus(r, s), ~UNCHANGED evidenceVars,
             version' # version + 1
      PROVE /\ version' = version /\ Latest' = Latest /\ Collecting' = Collecting
            /\ \A q \in Reports :
                 /\ report'[q].found = report[q].found
                 /\ (report'[q].status = "completed") = (report[q].status = "completed")
  <2>1. report[r].status = "queued" /\ s = "running" /\ version' = version
    BY <1>4 DEF SetStatus
  <2>2. r \in Reports
    <3>1. CASE r \notin Reports
      <4>1. report' = report
        <5>1. report' = [q \in Reports |-> report[q]]
          BY <1>1, <1>4, <3>1 DEF SetStatus
        <5> QED
          BY <1>1, <5>1
      <4> QED
        BY <1>4, <2>1, <4>1 DEF evidenceVars
    <3> QED
      BY <3>1
  <2>3. /\ report'[r].status = "running" /\ report'[r].found = report[r].found
        /\ \A q \in Reports \ {r} : report'[q] = report[q]
    BY <1>1, <1>4, <2>1, <2>2 DEF SetStatus, ReportRows
  <2>4. {q \in Reports : Exists(q)}' = {q \in Reports : Exists(q)}
    BY <2>1, <2>3 DEF Exists
  <2>5. Collecting' /\ Collecting
    BY <2>1, <2>2, <2>3 DEF Collecting, Active
  <2> QED
    BY <2>1, <2>3, <2>4, <2>5 DEF Latest
<1> QED
  BY <1>1, <1>2, <1>3, <1>4, EvidenceSteps

\* Requests past a read change by their own hand only.
LEMMA RequestMoves ==
  ASSUME TypeOK, [Next]_vars, NEW c \in Requests
  PROVE  \/ call'[c] = call[c]
         \/ Accept(c) \/ PassGate(c) \/ RerunResearch(c)
         \/ /\ call'[c].step \notin {"gate", "approve", "create report"}
            /\ call'[c].began \in {0, call[c].began}
<1>t. call \in [Requests -> Calls]
  BY DEF TypeOK, Calls
<1>1. ASSUME NEW w \in Workers, WorkerStep(w) \/ Throw(w) \/ Crash(w) \/ LoseLease(w)
      PROVE UNCHANGED call
  BY <1>1 DEF WorkerStep, HandlerStep, CheckResearch, CreateReport, CreateResearchJob, Transition,
     StartCollection, CompleteCollection, RequestEvaluation, BeginEvaluation, ReadDeal,
     ReadDecisions, Store, Claim, Complete, RecordFailure, Settle, Throw, Crash, LoseLease
<1>2. ASSUME NEW b \in Requests, \/ EnqueueEvaluation(b) \/ EnqueueResearch(b) \/ Approve(b)
                                 \/ EnqueueResearchFails(b) \/ Break(b)
      PROVE \/ call'[c] = call[c]
            \/ call'[c].step = "idle" /\ call'[c].began = 0
  <2>1. Answer(b)
    BY <1>2 DEF EnqueueEvaluation, EnqueueResearch, Approve, EnqueueResearchFails, Break
  <2> QED
    BY <1>t, <2>1 DEF Answer, NoCall
<1>3. ASSUME NEW b \in Requests, ReviewEvidence(b)
      PROVE \/ call'[c] = call[c]
            \/ call'[c].step = "record" /\ call'[c].began = 0
  BY <1>t, <1>3 DEF ReviewEvidence, NoCall
<1>4. ASSUME NEW b \in Requests, RecordDecision(b)
      PROVE \/ call'[c] = call[c]
            \/ call'[c].step = "request evaluation" /\ call'[c].began = call[c].began
  BY <1>t, <1>4 DEF RecordDecision, CallTo, Calls
<1>5. ASSUME NEW b \in Requests, CreateRerun(b)
      PROVE \/ call'[c] = call[c]
            \/ call'[c].step = "request research" /\ call'[c].began = call[c].began
  BY <1>t, <1>5 DEF CreateRerun, Calls
<1>6. ASSUME NEW b \in Requests, Accept(b) \/ PassGate(b) \/ RerunResearch(b)
      PROVE call'[c] = call[c] \/ b = c
  BY <1>t, <1>6 DEF Accept, PassGate, RerunResearch, Begin, Answer
<1>7. CASE UNCHANGED vars
  BY <1>7 DEF vars
<1> QED
  BY <1>1, <1>2, <1>3, <1>4, <1>5, <1>6, <1>7 DEF Next, RequestStep

\* A queued evaluation inside its transaction.
Inside(w) ==
  /\ work[w].task # None /\ Type(work[w].task) = "sop.evaluate"
  /\ work[w].step \in {"read deal", "read decisions", "store"}

\* Workers past a read, and workers that hold the lock, change by their own hand only.
LEMMA WorkerMoves ==
  ASSUME TypeOK, [Next]_vars, NEW w \in Workers
  PROVE  \/ work'[w] = work[w] /\ (lock = w => lock' = w)
         \/ ReadDeal(w) \/ ReadDecisions(w) \/ BeginEvaluation(w) \/ CheckResearch(w)
         \/ /\ work'[w].step \notin {"read decisions", "store", "create report"}
            /\ ~Inside(w)' /\ work'[w].seen.at \in {0, work[w].seen.at}
<1> DEFINE Away == /\ work'[w].step \notin {"read decisions", "store", "create report"}
                   /\ ~Inside(w)' /\ work'[w].seen.at \in {0, work[w].seen.at}
           Untouched == work'[w] = work[w] /\ (lock = w => lock' = w)
<1>t. work \in [Workers -> Work] /\ None \notin Workers
  BY SentinelAssumption DEF TypeOK, Work
<1>g. ASSUME NEW v \in Workers, UNCHANGED lock \/ Unlock(v),
             NEW s \in {"check research", "transition", "done", "threw", "settle", "collecting",
                        "request evaluation"}, Goto(v, s)
      PROVE Away \/ Untouched
  BY <1>g, <1>t DEF Goto, Inside, Work, Unlock
<1>d. ASSUME NEW v \in Workers, UNCHANGED lock \/ Unlock(v), Drop(v) PROVE Away \/ Untouched
  BY <1>d, <1>t DEF Drop, NoWork, NoReading, Inside, Unlock
<1>u. ASSUME UNCHANGED <<work, lock>> PROVE Untouched
  BY <1>u
<1>1. ASSUME NEW v \in Workers, NEW j \in Jobs, Claim(v, j) PROVE Away \/ Untouched
  <2>1. UNCHANGED lock /\ work' = [work EXCEPT ![v] = [NoWork EXCEPT !.task = j,
                                    !.step = IF j = Generate THEN "read deal" ELSE "start"]]
    BY <1>1 DEF Claim
  <2> QED
    BY <1>t, <2>1, JobTypes DEF NoWork, NoReading, Inside
<1>2. ASSUME NEW v \in Workers, Complete(v) \/ RecordFailure(v) \/ Settle(v) \/ Crash(v)
      PROVE Away \/ Untouched
  BY <1>2, <1>g, <1>d DEF Complete, RecordFailure, Settle, Crash
<1>3. ASSUME NEW v \in Workers, Throw(v) PROVE Away \/ Untouched
  <2>1. work' = [work EXCEPT ![v] = [NoWork EXCEPT !.step = "threw", !.task = work[v].task]]
    BY <1>3 DEF Throw
  <2>2. Unlock(v)
    BY <1>3 DEF Throw
  <2> QED
    BY <1>t, <2>1, <2>2 DEF NoWork, NoReading, Inside, Unlock
<1>4. ASSUME NEW v \in Workers, \/ Transition(v) \/ StartCollection(v) \/ CompleteCollection(v)
                                \/ RequestEvaluation(v)
      PROVE Away \/ Untouched
  BY <1>4, <1>g DEF Transition, StartCollection, CompleteCollection, RequestEvaluation
<1>5. ASSUME NEW v \in Workers, CreateReport(v) PROVE Away \/ Untouched
  <2>1. UNCHANGED lock /\ work' = [work EXCEPT ![v].step = "create job", ![v].made = NextReport,
                                               ![v].seen = NoReading]
    BY <1>5 DEF CreateReport
  <2> QED
    BY <1>t, <2>1 DEF NoReading, Inside, Work
<1>6. ASSUME NEW v \in Workers, CreateResearchJob(v) PROVE Away \/ Untouched
  <2>1. UNCHANGED lock /\ work' = [work EXCEPT ![v].step = "transition", ![v].made = 0]
    BY <1>6 DEF CreateResearchJob
  <2> QED
    BY <1>t, <2>1 DEF Inside, Work
<1>7. ASSUME NEW v \in Workers, Store(v) PROVE Away \/ Untouched
  <2>1. Unlock(v)
    BY <1>7 DEF Store
  <2>2. PICK s \in {"done", "check research"} :
             work' = [work EXCEPT ![v].step = s, ![v].seen = NoReading]
    BY <1>7 DEF Store
  <2> QED
    BY <1>t, <2>1, <2>2 DEF NoReading, Inside, Work, Unlock
<1>8. ASSUME NEW v \in Workers, \/ ReadDeal(v) \/ ReadDecisions(v) \/ BeginEvaluation(v)
                                \/ CheckResearch(v)
      PROVE v = w \/ Untouched
  BY <1>8, <1>t DEF ReadDeal, ReadDecisions, BeginEvaluation, CheckResearch, Goto, Unlock
<1>9. ASSUME NEW v \in Workers, LoseLease(v) PROVE Untouched
  BY <1>9 DEF LoseLease
<1>10. ASSUME NEW c \in Requests, \/ RequestStep(c) \/ ReviewEvidence(c) \/ RerunResearch(c)
                                  \/ Accept(c) \/ EnqueueResearchFails(c) \/ Break(c)
       PROVE UNCHANGED <<work, lock>>
  BY <1>10 DEF RequestStep, ReviewEvidence, RerunResearch, Accept, EnqueueResearchFails, Break,
     RecordDecision, EnqueueEvaluation, CreateRerun, EnqueueResearch, PassGate, Approve
<1>11. UNCHANGED vars => UNCHANGED <<work, lock>>
  BY DEF vars
<1> HIDE DEF Away, Untouched
<1> DEFINE Own == ReadDeal(w) \/ ReadDecisions(w) \/ BeginEvaluation(w) \/ CheckResearch(w)
<1>12. ASSUME NEW v \in Workers, WorkerStep(v) PROVE Away \/ Untouched \/ Own
  <2>1. CASE ReadDeal(v) \/ ReadDecisions(v) \/ BeginEvaluation(v) \/ CheckResearch(v)
    BY <1>8, <2>1
  <2>2. CASE ~(ReadDeal(v) \/ ReadDecisions(v) \/ BeginEvaluation(v) \/ CheckResearch(v))
    BY <1>1, <1>2, <1>4, <1>5, <1>6, <1>7, <1>12, <2>2 DEF WorkerStep, HandlerStep
  <2> QED
    BY <2>1, <2>2
<1> HIDE DEF Own
<1>13. Away \/ Untouched \/ Own
  BY <1>2, <1>3, <1>9, <1>10, <1>11, <1>12, <1>u DEF Next
<1> QED
  BY <1>13 DEF Away, Untouched, Own

\* The result is written by evaluations only.
LEMMA ResultMoves ==
  ASSUME [Next]_vars
  PROVE  UNCHANGED stored \/ \E w \in Workers : Store(w)
<1>1. ASSUME NEW w \in Workers, WorkerStep(w) \/ Throw(w) \/ Crash(w) \/ LoseLease(w)
      PROVE UNCHANGED stored \/ Store(w)
  BY <1>1 DEF WorkerStep, HandlerStep, CheckResearch, CreateReport, CreateResearchJob, Transition,
     StartCollection, CompleteCollection, RequestEvaluation, BeginEvaluation, ReadDeal,
     ReadDecisions, Claim, Complete, RecordFailure, Settle, Throw, Crash, LoseLease
<1>2. ASSUME NEW c \in Requests, \/ RequestStep(c) \/ ReviewEvidence(c) \/ RerunResearch(c)
                                 \/ Accept(c) \/ EnqueueResearchFails(c) \/ Break(c)
      PROVE UNCHANGED stored
  BY <1>2 DEF RequestStep, ReviewEvidence, RerunResearch, Accept, EnqueueResearchFails, Break,
     RecordDecision, EnqueueEvaluation, CreateRerun, EnqueueResearch, PassGate, Approve
<1>3. CASE UNCHANGED vars
  BY <1>3 DEF vars
<1> QED
  BY <1>1, <1>2, <1>3 DEF Next

-----------------------------------------------------------------------------
(* The invariant. *)

\* Nobody remembers evidence, and no result comes from evidence, that is still to come.
DatedInv ==
  /\ stored.at <= version
  /\ \A w \in Workers : work[w].seen.at <= version
  /\ \A c \in Requests : call[c].began <= version

\* The advisory lock is held by whoever is inside, and so by one at most; what it has read is at
\* least as new as what a queued evaluation has stored.
LockInv ==
  \A w \in Workers : Inside(w) =>
    /\ lock = w
    /\ work[w].step # "read deal" /\ stored.by = "sop.evaluate" => stored.at <= work[w].seen.at

\* What the accept gate has looked at is still so, unless evidence has changed since.
GateInv ==
  \A c \in Requests :
    /\ call[c].step = "gate" =>
         \/ call[c].began < version
         \/ /\ Latest = call[c].report /\ report[Latest].status = "completed" /\ Latest # 0
            /\ call[c].found = report[Latest].found
    /\ call[c].step = "approve" => call[c].began < version \/ ~OpenEvidence

\* So is the absence of a collection that a rerun, or the end of ai.generate, has found.
RerunInv ==
  /\ \A c \in Requests : call[c].step = "create report" => call[c].began < version \/ ~Collecting
  /\ \A w \in Workers : work[w].step = "create report" => work[w].seen.at < version \/ ~Collecting

IInv == TypeOK /\ DatedInv /\ LockInv /\ GateInv /\ RerunInv

\* How the reads of one worker leave its memory.
LEMMA GotoMove ==
  ASSUME TypeOK, NEW w \in Workers, NEW s, Goto(w, s)
  PROVE  work'[w].step = s /\ work'[w].task = work[w].task /\ work'[w].seen = work[w].seen
BY DEF TypeOK, Goto

LEMMA ReadDecisionsMove ==
  ASSUME TypeOK, NEW w \in Workers, ReadDecisions(w)
  PROVE  /\ work'[w].step = "store" /\ work'[w].task = work[w].task
         /\ work'[w].seen.at = work[w].seen.at
<1> DEFINE Decided(v) == \E s \in work[w].seen.red : decision[work[w].seen.report][s] = v
           a == Decided("confirmed")
           b == Decided("follow_up")
<1>1. work' = [work EXCEPT ![w].step = "store",
                 ![w].seen = [work[w].seen EXCEPT !.red = {}, !.confirmed = a, !.followUp = b]]
  BY DEF ReadDecisions
<1> HIDE DEF a, b
<1>2. work \in [Workers -> Work] /\ work[w].seen \in Reading
  BY DEF TypeOK, Work
<1>3. /\ work'[w].step = "store" /\ work'[w].task = work[w].task
      /\ work'[w].seen = [work[w].seen EXCEPT !.red = {}, !.confirmed = a, !.followUp = b]
  BY <1>1, <1>2 DEF Work
<1> QED
  BY <1>2, <1>3 DEF Reading

LEMMA CheckResearchMove ==
  ASSUME TypeOK, NEW w \in Workers, CheckResearch(w)
  PROVE  \/ work'[w].step = "transition" /\ work'[w].seen = work[w].seen
         \/ /\ work'[w].step = "create report" /\ work'[w].seen.at = version
            /\ ~Collecting
<1>1. CASE Goto(w, "transition")
  BY <1>1, GotoMove
<1>2. CASE /\ work' = [work EXCEPT ![w].step = "create report", ![w].seen.at = version]
           /\ ~Collecting
  <2>1. work \in [Workers -> Work] /\ work[w].seen \in Reading
    BY DEF TypeOK, Work
  <2>2. /\ work'[w].step = "create report"
        /\ work'[w].seen = [work[w].seen EXCEPT !.at = version]
    BY <1>2, <2>1 DEF Work
  <2> QED
    BY <1>2, <2>1, <2>2 DEF Reading
<1> QED
  BY <1>1, <1>2 DEF CheckResearch, Collecting

LEMMA DatedStep == TypeOK /\ DatedInv /\ [Next]_vars => DatedInv'
<1> SUFFICES ASSUME TypeOK, DatedInv, [Next]_vars PROVE DatedInv'
  OBVIOUS
<1>t. /\ version \in Nat /\ version' \in Nat /\ version' >= version
      /\ work \in [Workers -> Work] /\ call \in [Requests -> Calls] /\ stored \in Results
  BY SameVersion DEF TypeOK, Work, Calls, Results
<1>1. \A w \in Workers : work[w].seen.at \in Nat /\ work[w].seen.at <= version
  BY <1>t DEF DatedInv, Work, Reading
<1>2. ASSUME NEW w \in Workers PROVE work'[w].seen.at <= version'
  <2>1. CASE work'[w].seen.at \in {0, work[w].seen.at}
    BY <1>t, <1>1, <2>1
  <2>2. CASE work'[w] = work[w]
    BY <1>t, <1>1, <2>2
  <2>3. CASE ReadDeal(w)
    <3>1. CASE \E s \in WorkSteps : Goto(w, s)
      BY <1>t, <1>1, <3>1 DEF Goto, Work
    <3>2. CASE ~ \E s \in WorkSteps : Goto(w, s)
      <4>1. /\ work' = [work EXCEPT ![w].step = "read decisions",
                          ![w].seen = [NoReading EXCEPT !.report = Latest, !.at = version,
                            !.red = IF Latest = 0 THEN {} ELSE report[Latest].red]]
        BY <2>3, <3>2 DEF ReadDeal, WorkSteps
      <4> QED
        BY <1>t, <4>1 DEF Work, NoReading
    <3> QED
      BY <3>1, <3>2
  <2>4. CASE ReadDecisions(w)
    BY <1>t, <1>1, <2>4, ReadDecisionsMove
  <2>5. CASE BeginEvaluation(w)
    <3>1. work'[w].seen = work[w].seen
      BY <2>5, GotoMove DEF BeginEvaluation
    <3> QED
      BY <1>t, <1>1, <3>1
  <2>6. CASE CheckResearch(w)
    <3>1. work'[w].seen.at \in {version, work[w].seen.at}
      BY <2>6, CheckResearchMove
    <3> QED
      BY <1>t, <1>1, <3>1
  <2> QED
    BY <2>1, <2>2, <2>3, <2>4, <2>5, <2>6, WorkerMoves
<1>3. ASSUME NEW c \in Requests PROVE call'[c].began <= version'
  <2>1. call[c].began \in Nat /\ call[c].began <= version
    BY <1>t DEF DatedInv, Calls
  <2>2. CASE call'[c] = call[c] \/ call'[c].began \in {0, call[c].began}
    BY <1>t, <2>1, <2>2
  <2>3. CASE Accept(c) \/ RerunResearch(c)
    BY <1>t, <2>1, <2>3 DEF Accept, RerunResearch, Begin, NoCall, Calls
  <2>4. CASE PassGate(c)
    <3>1. \/ call' = [call EXCEPT ![c] = NoCall]
          \/ call' = [call EXCEPT ![c] = [NoCall EXCEPT !.step = "approve", !.began = call[c].began]]
      BY <2>4 DEF PassGate, Answer
    <3>2. call'[c].began \in {0, call[c].began}
      <4>1. CASE call' = [call EXCEPT ![c] = NoCall]
        BY <1>t, <4>1 DEF NoCall
      <4>2. CASE call' = [call EXCEPT ![c] =
                            [NoCall EXCEPT !.step = "approve", !.began = call[c].began]]
        BY <1>t, <4>2 DEF NoCall
      <4> QED
        BY <3>1, <4>1, <4>2
    <3> QED
      BY <2>2, <3>2
  <2> QED
    BY <2>2, <2>3, <2>4, RequestMoves
<1>4. stored'.at <= version'
  <2>1. CASE UNCHANGED stored
    BY <1>t, <2>1 DEF DatedInv, Results
  <2>2. ASSUME NEW w \in Workers, Store(w) PROVE stored'.at <= version'
    <3>1. stored'.at = work[w].seen.at
      BY <2>2 DEF Store
    <3> QED
      BY <1>t, <1>1, <3>1
  <2> QED
    BY <2>1, <2>2, ResultMoves
<1> QED
  BY <1>2, <1>3, <1>4 DEF DatedInv

LEMMA LockStep == TypeOK /\ DatedInv /\ LockInv /\ [Next]_vars => LockInv'
<1> SUFFICES ASSUME TypeOK, DatedInv, LockInv, [Next]_vars, NEW w \in Workers, Inside(w)'
             PROVE (/\ lock = w
                    /\ work[w].step # "read deal" /\ stored.by = "sop.evaluate"
                         => stored.at <= work[w].seen.at)'
  BY DEF LockInv
<1>t. /\ work \in [Workers -> Work] /\ stored \in Results /\ version \in Nat
      /\ None \notin Workers
  BY SentinelAssumption DEF TypeOK, Work, Results
<1>1. ASSUME NEW v \in Workers, Store(v)
      PROVE v # w /\ stored'.by = "ai.generate"
  <2>1. v # w
    <3>1. CASE v = w
      <4>1. work'[w].step \in {"done", "check research"}
        BY <1>1, <1>t, <3>1 DEF Store, Work
      <4> QED
        BY <4>1 DEF Inside
    <3> QED
      BY <3>1
  <2>2. CASE Type(work[v].task) = "sop.evaluate"
    <3>1. Inside(v)
      BY <1>1, <2>2 DEF Store, Evaluating, At, Inside
    <3>2. lock = v /\ lock' = None
      BY <1>1, <3>1 DEF LockInv, Store, Unlock
    <3>3. Inside(w)
      <4>1. work'[w] = work[w]
        BY <1>1, <1>t, <2>1 DEF Store, Work
      <4> QED
        BY <4>1 DEF Inside
    <3> QED
      BY <2>1, <3>2, <3>3 DEF LockInv
  <2> QED
    BY <1>1, <2>1, <2>2 DEF Store, Evaluating, At
<1>2. stored' = stored \/ stored'.by = "ai.generate"
  BY <1>1, ResultMoves
<1>3. CASE work'[w] = work[w] /\ (lock = w => lock' = w)
  BY <1>2, <1>3 DEF LockInv, Inside
<1>4. CASE ReadDeal(w)
  <2>1. ~Goto(w, "check research") /\ ~Goto(w, "threw")
    BY <1>t DEF Goto, Inside, Work
  <2>2. /\ UNCHANGED <<lock, stored>>
        /\ work' = [work EXCEPT ![w].step = "read decisions",
                          ![w].seen = [NoReading EXCEPT !.report = Latest, !.at = version,
                            !.red = IF Latest = 0 THEN {} ELSE report[Latest].red]]
    BY <1>4, <2>1 DEF ReadDeal
  <2>3. work'[w].task = work[w].task /\ work'[w].seen.at = version
    BY <1>t, <2>2 DEF NoReading, Work
  <2>4. Inside(w)
    BY <1>4, <2>3 DEF Inside, ReadDeal, Evaluating, At
  <2> QED
    BY <1>t, <2>2, <2>3, <2>4 DEF LockInv, DatedInv
<1>5. CASE ReadDecisions(w)
  <2>1. /\ UNCHANGED <<lock, stored>> /\ work'[w].task = work[w].task
        /\ work'[w].seen.at = work[w].seen.at
    BY <1>5, ReadDecisionsMove DEF ReadDecisions
  <2>2. Inside(w) /\ work[w].step = "read decisions"
    BY <1>5, <2>1 DEF Inside, ReadDecisions, Evaluating, At
  <2> QED
    BY <2>1, <2>2 DEF LockInv
<1>6. CASE BeginEvaluation(w)
  <2>1. work'[w].step = "read deal" /\ lock' = w
    BY <1>6, <1>t DEF BeginEvaluation, Goto, Inside, Work
  <2> QED
    BY <2>1
<1>7. CASE CheckResearch(w)
  <2>1. work'[w].step \in {"transition", "create report"}
    BY <1>7, CheckResearchMove
  <2> QED
    BY <2>1 DEF Inside
<1> QED
  BY <1>3, <1>4, <1>5, <1>6, <1>7, WorkerMoves

LEMMA OpenEvidenceStays ==
  ASSUME TypeOK, [Next]_vars, version' = version
  PROVE  OpenEvidence' = OpenEvidence
<1>1. /\ decision' = decision /\ Latest' = Latest
      /\ \A r \in Reports :
           /\ report'[r].found = report[r].found
           /\ (report'[r].status = "completed") = (report[r].status = "completed")
  BY SameVersion
<1>2. CASE Latest = 0
  BY <1>1, <1>2 DEF OpenEvidence
<1>3. CASE Latest \in Reports
  BY <1>1, <1>3 DEF OpenEvidence
<1> QED
  BY <1>2, <1>3, LatestType

LEMMA GateStep == TypeOK /\ DatedInv /\ GateInv /\ [Next]_vars => GateInv'
<1> SUFFICES ASSUME TypeOK, DatedInv, GateInv, [Next]_vars, NEW c \in Requests
             PROVE (/\ call[c].step = "gate" =>
                         \/ call[c].began < version
                         \/ /\ Latest = call[c].report /\ report[Latest].status = "completed"
                            /\ Latest # 0 /\ call[c].found = report[Latest].found
                    /\ call[c].step = "approve" => call[c].began < version \/ ~OpenEvidence)'
  BY DEF GateInv
<1>t. /\ call \in [Requests -> Calls] /\ call[c].began \in Nat /\ call[c].began <= version
      /\ version \in Nat /\ version' \in Nat /\ version' >= version
  BY SameVersion DEF TypeOK, Calls, DatedInv
<1>s. version' = version => /\ OpenEvidence' = OpenEvidence /\ Latest' = Latest
                            /\ \A r \in Reports :
                                 /\ report'[r].found = report[r].found
                                 /\ (report'[r].status = "completed") = (report[r].status = "completed")
  BY SameVersion, OpenEvidenceStays
<1>1. CASE call'[c] = call[c]
  BY <1>1, <1>t, <1>s, LatestType DEF GateInv
<1>2. CASE Accept(c)
  <2>1. UNCHANGED <<report, decision, version>>
    BY <1>2 DEF Accept, evidenceVars
  <2>2. CASE Latest # 0 /\ report[Latest].status = "completed"
    <3>1. call' = [call EXCEPT ![c] = [NoCall EXCEPT !.step = "gate", !.report = Latest,
                                         !.found = report[Latest].found, !.began = version]]
      BY <1>2, <2>2 DEF Accept
    <3>2. /\ call'[c].step = "gate" /\ call'[c].report = Latest
          /\ call'[c].found = report[Latest].found
      BY <1>t, <3>1 DEF NoCall
    <3> QED
      BY <1>s, <2>1, <2>2, <3>2
  <2>3. CASE ~(Latest # 0 /\ report[Latest].status = "completed")
    <3>1. Begin(c, "approve")
      BY <1>2, <2>3 DEF Accept
    <3>2. call'[c].step = "approve"
      BY <1>t, <3>1 DEF Begin, Calls
    <3>3. ~OpenEvidence'
      BY <1>s, <2>1, <2>3 DEF OpenEvidence
    <3> QED
      BY <3>2, <3>3
  <2> QED
    BY <2>2, <2>3
<1>3. CASE PassGate(c)
  <2>1. UNCHANGED <<report, decision, version>>
    BY <1>3 DEF PassGate, evidenceVars
  <2>2. CASE \A s \in call[c].found : decision[call[c].report][s] \in {"confirmed", "dismissed"}
    <3>1. call' = [call EXCEPT ![c] = [NoCall EXCEPT !.step = "approve", !.began = call[c].began]]
      BY <1>3, <2>2 DEF PassGate
    <3>2. call'[c].step = "approve" /\ call'[c].began = call[c].began
      BY <1>t, <3>1 DEF NoCall
    <3>3. CASE call[c].began < version
      BY <1>t, <2>1, <3>2, <3>3
    <3>4. CASE ~(call[c].began < version)
      <4>1. Latest = call[c].report /\ call[c].found = report[Latest].found
        BY <1>3, <3>4 DEF PassGate, GateInv
      <4>2. ~OpenEvidence
        BY <2>2, <4>1, SentinelAssumption DEF OpenEvidence, Verdicts
      <4> QED
        BY <1>s, <2>1, <3>2, <4>2
    <3> QED
      BY <3>3, <3>4
  <2>3. CASE Answer(c)
    BY <1>t, <2>3 DEF Answer, NoCall
  <2> QED
    BY <1>3, <2>2, <2>3 DEF PassGate
<1>4. CASE RerunResearch(c)
  <2>1. call'[c].step = "create report"
    BY <1>4, <1>t DEF RerunResearch, Begin, Calls
  <2> QED
    BY <2>1
<1>5. CASE call'[c].step \notin {"gate", "approve", "create report"}
  BY <1>5
<1> QED
  BY <1>1, <1>2, <1>3, <1>4, <1>5, RequestMoves

LEMMA RerunStep == TypeOK /\ DatedInv /\ RerunInv /\ [Next]_vars => RerunInv'
<1> SUFFICES ASSUME TypeOK, DatedInv, RerunInv, [Next]_vars PROVE RerunInv'
  OBVIOUS
<1>t. /\ call \in [Requests -> Calls] /\ work \in [Workers -> Work]
      /\ version \in Nat /\ version' \in Nat /\ version' >= version
      /\ version' = version => Collecting' = Collecting
  BY SameVersion DEF TypeOK, Calls, Work
<1>1. ASSUME NEW c \in Requests, call'[c].step = "create report"
      PROVE call'[c].began < version' \/ ~Collecting'
  <2>1. call[c].began \in Nat /\ call[c].began <= version
    BY <1>t DEF Calls, DatedInv
  <2>2. CASE call'[c] = call[c]
    <3>1. call[c].began < version \/ ~Collecting
      BY <1>1, <2>2 DEF RerunInv
    <3>2. CASE version' = version
      BY <1>t, <2>2, <3>1, <3>2
    <3>3. CASE version' # version
      <4>1. call[c].began < version'
        BY <1>t, <2>1, <3>3
      <4> QED
        BY <2>2, <4>1
    <3> QED
      BY <3>2, <3>3
  <2>3. CASE RerunResearch(c)
    <3>1. UNCHANGED version /\ ~Collecting
      BY <2>3 DEF RerunResearch, Collecting, evidenceVars
    <3> QED
      BY <1>t, <3>1
  <2>4. CASE Accept(c)
    <3>1. call'[c].step \in {"gate", "approve"}
      BY <1>t, <2>4 DEF Accept, Begin, NoCall, Calls
    <3> QED
      BY <1>1, <3>1
  <2>5. CASE PassGate(c)
    <3>1. call'[c].step \in {"idle", "approve"}
      <4>1. CASE call' = [call EXCEPT ![c] = NoCall]
        BY <1>t, <4>1 DEF NoCall
      <4>2. CASE call' = [call EXCEPT ![c] =
                            [NoCall EXCEPT !.step = "approve", !.began = call[c].began]]
        BY <1>t, <4>2 DEF NoCall
      <4> QED
        BY <2>5, <4>1, <4>2 DEF PassGate, Answer
    <3> QED
      BY <1>1, <3>1
  <2> QED
    BY <1>1, <2>2, <2>3, <2>4, <2>5, RequestMoves
<1>2. ASSUME NEW w \in Workers, work'[w].step = "create report"
      PROVE work'[w].seen.at < version' \/ ~Collecting'
  <2>1. work[w].seen.at \in Nat /\ work[w].seen.at <= version
    BY <1>t DEF Work, Reading, DatedInv
  <2>2. CASE work'[w] = work[w]
    <3>1. work[w].seen.at < version \/ ~Collecting
      BY <1>2, <2>2 DEF RerunInv
    <3>2. CASE version' = version
      BY <1>t, <2>2, <3>1, <3>2
    <3>3. CASE version' # version
      <4>1. work[w].seen.at < version'
        BY <1>t, <2>1, <3>3
      <4> QED
        BY <2>2, <4>1
    <3> QED
      BY <3>2, <3>3
  <2>3. CASE CheckResearch(w)
    <3>1. UNCHANGED version /\ ~Collecting
      BY <1>2, <2>3, CheckResearchMove DEF CheckResearch, evidenceVars
    <3> QED
      BY <1>t, <3>1
  <2>4. CASE ReadDeal(w)
    <3>1. work'[w].step \in {"read decisions", "check research", "threw"}
      <4>1. CASE \E s \in {"check research", "threw"} : Goto(w, s)
        BY <4>1, GotoMove
      <4>2. CASE ~ \E s \in {"check research", "threw"} : Goto(w, s)
        <5>1. work' = [work EXCEPT ![w].step = "read decisions",
                         ![w].seen = [NoReading EXCEPT !.report = Latest, !.at = version,
                           !.red = IF Latest = 0 THEN {} ELSE report[Latest].red]]
          BY <2>4, <4>2 DEF ReadDeal
        <5> QED
          BY <1>t, <5>1 DEF Work
      <4> QED
        BY <4>1, <4>2
    <3> QED
      BY <1>2, <3>1
  <2>5. CASE ReadDecisions(w) \/ BeginEvaluation(w)
    <3>1. work'[w].step \in {"store", "done", "read deal"}
      BY <2>5, ReadDecisionsMove, GotoMove DEF BeginEvaluation
    <3> QED
      BY <1>2, <3>1
  <2> QED
    BY <1>2, <2>2, <2>3, <2>4, <2>5, WorkerMoves
<1> QED
  BY <1>1, <1>2 DEF RerunInv

\* What workers and requests have read is never newer than what is written; who is inside the
\* lock holds it; and a gate or a rerun that is under way relies on what it found, unless the
\* evidence has changed since.
THEOREM Invariance == Spec => []IInv
<1>1. Init => DatedInv /\ LockInv /\ GateInv /\ RerunInv
  <2> SUFFICES ASSUME Init PROVE DatedInv /\ LockInv /\ GateInv /\ RerunInv
    OBVIOUS
  <2>1. /\ version = 0 /\ stored.at = 0
        /\ \A w \in Workers : work[w].step = "idle" /\ work[w].seen.at = 0
        /\ \A c \in Requests : call[c].step = "idle" /\ call[c].began = 0
    BY DEF Init, NoWork, NoReading, NoCall
  <2>2. DatedInv
    BY <2>1 DEF DatedInv
  <2>3. LockInv
    BY <2>1 DEF LockInv, Inside
  <2>4. GateInv /\ RerunInv
    BY <2>1 DEF GateInv, RerunInv
  <2> QED
    BY <2>2, <2>3, <2>4
<1>2. IInv /\ [Next]_vars => IInv'
  BY TypeStep, DatedStep, LockStep, GateStep, RerunStep DEF IInv
<1>3. (TypeOK /\ DatedInv /\ LockInv /\ GateInv /\ RerunInv) <=> IInv
  BY DEF IInv
<1> QED
  BY <1>1, <1>2, <1>3, TypeCorrect, PTL DEF Spec

-----------------------------------------------------------------------------
(* What follows. *)

\* SopEvaluationHandler's lock and stand-down: of two queued evaluations none replaces the result
\* of the other by one from older evidence, for any number of workers, reports and evaluations,
\* and however often they fail, lose their leases or die.
THEOREM FresherStays == Spec => FresherEvaluationStays
<1>1. IInv /\ [Next]_vars =>
        (stored.by = "sop.evaluate" /\ stored'.by = "sop.evaluate" => stored'.at >= stored.at)
  <2> SUFFICES ASSUME IInv, [Next]_vars, stored.by = "sop.evaluate", stored'.by = "sop.evaluate"
               PROVE stored'.at >= stored.at
    OBVIOUS
  <2>t. stored.at \in Nat
    BY DEF IInv, TypeOK
  <2>1. CASE UNCHANGED stored
    BY <2>t, <2>1
  <2>2. ASSUME NEW w \in Workers, Store(w) PROVE stored'.at >= stored.at
    <3>1. stored'.at = work[w].seen.at /\ Inside(w) /\ work[w].step = "store"
      BY <2>2 DEF Store, Evaluating, At, Inside
    <3>2. stored.at <= work[w].seen.at /\ work[w].seen.at \in Nat
      BY <3>1 DEF IInv, LockInv, TypeOK, Reading
    <3> QED
      BY <2>t, <3>1, <3>2
  <2> QED
    BY <2>1, <2>2, ResultMoves
<1> QED
  BY <1>1, Invariance, PTL DEF Spec, FresherEvaluationStays

\* reviewDeal's accept gate: the deal is accepted over open evidence only if a report or a
\* decision came in while that very request was under way, for any number of requests.
THEOREM Gate == Spec => GateHolds
<1>1. IInv /\ [Next]_vars =>
        (deal # "accepted" /\ deal' = "accepted" =>
           \E c \in Requests : /\ call[c].step = "approve" /\ call'[c].step = "idle"
                               /\ ~OpenEvidence \/ call[c].began # version)
  <2> SUFFICES ASSUME IInv, [Next]_vars, deal # "accepted", deal' = "accepted"
               PROVE \E c \in Requests : /\ call[c].step = "approve" /\ call'[c].step = "idle"
                                         /\ ~OpenEvidence \/ call[c].began # version
    OBVIOUS
  <2>1. ASSUME NEW w \in Workers, WorkerStep(w) \/ Throw(w) \/ Crash(w) \/ LoseLease(w)
        PROVE deal' # "accepted" \/ deal' = deal
    BY <2>1 DEF WorkerStep, HandlerStep, CheckResearch, CreateReport, CreateResearchJob,
       Transition, StartCollection, CompleteCollection, RequestEvaluation, BeginEvaluation,
       ReadDeal, ReadDecisions, Store, Claim, Complete, RecordFailure, Settle, Throw, Crash,
       LoseLease
  <2>2. ASSUME NEW c \in Requests, \/ RequestStep(c) \/ ReviewEvidence(c) \/ RerunResearch(c)
                                   \/ Accept(c) \/ EnqueueResearchFails(c) \/ Break(c)
        PROVE Approve(c) \/ deal' = deal
    BY <2>2 DEF RequestStep, ReviewEvidence, RerunResearch, Accept, EnqueueResearchFails, Break,
       RecordDecision, EnqueueEvaluation, CreateRerun, EnqueueResearch, PassGate
  <2>3. PICK c \in Requests : Approve(c)
    BY <2>1, <2>2 DEF Next, vars
  <2>4. call[c].step = "approve" /\ call'[c].step = "idle"
    BY <2>3 DEF Approve, Answer, NoCall, IInv, TypeOK
  <2>5. call[c].began < version \/ ~OpenEvidence
    BY <2>4 DEF IInv, GateInv
  <2>6. call[c].began \in Nat /\ version \in Nat
    BY DEF IInv, TypeOK
  <2> QED
    BY <2>4, <2>5, <2>6
<1> QED
  BY <1>1, Invariance, PTL DEF Spec, GateHolds

\* rerunResearch and queueResearchIfConfigured: whoever adds a report to one that is still being
\* collected had looked before that evidence came in, for any number of requests and workers.
THEOREM OneAtATime == Spec => OneCollectionAtATime
<1> DEFINE Excused == \/ \E c \in Requests : /\ call[c].step = "create report"
                                             /\ call'[c].step # call[c].step
                                             /\ call[c].began # version
                      \/ \E w \in Workers : /\ work[w].step = "create report"
                                            /\ work'[w].step # work[w].step
                                            /\ work[w].seen.at # version
<1>1. IInv /\ [Next]_vars =>
        (\A r \in Reports : ~Exists(r) /\ report'[r].status = "queued" =>
           \/ \A k \in Reports : ~Active(k)
           \/ \E c \in Requests : /\ call[c].step = "create report"
                                  /\ call'[c].step # call[c].step
                                  /\ call[c].began # version
           \/ \E w \in Workers : /\ work[w].step = "create report"
                                 /\ work'[w].step # work[w].step
                                 /\ work[w].seen.at # version)
  <2> SUFFICES ASSUME IInv, [Next]_vars, NEW r \in Reports, ~Exists(r),
                      report'[r].status = "queued", Collecting
               PROVE Excused
    BY DEF Collecting
  <2>t. /\ report \in [Reports -> ReportRows] /\ version \in Nat
        /\ work \in [Workers -> Work] /\ call \in [Requests -> Calls]
        /\ \A c \in Requests : call[c].began \in Nat
        /\ \A w \in Workers : work[w].seen.at \in Nat
    BY DEF IInv, TypeOK, ReportRows, Work, Calls, Reading
  <2>1. report'[r] # report[r] /\ report[r].status # "queued"
    BY DEF Exists
  <2>2. ASSUME NEW q, NEW s, SetStatus(q, s), s # "queued" PROVE FALSE
    BY <2>1, <2>2, <2>t DEF SetStatus, ReportRows
  <2>3. ASSUME NEW w \in Workers, WorkerStep(w) \/ Throw(w) \/ Crash(w) \/ LoseLease(w)
        PROVE CreateReport(w)
    <3>1. ~Settle(w) /\ ~StartCollection(w)
      BY <2>1, <2>2 DEF Settle, StartCollection
    <3>2. ~CompleteCollection(w)
      <4>1. ASSUME CompleteCollection(w) PROVE FALSE
        <5>1. PICK found \in Findings, red \in SUBSET Sources :
                report' = [report EXCEPT ![Subject(work[w].task)] =
                             [status |-> "completed", found |-> found, red |-> red]]
          BY <4>1 DEF CompleteCollection, Findings, Citations
        <5>2. report'[r] = report[r] \/ report'[r].status = "completed"
          BY <2>t, <5>1
        <5> QED
          BY <2>1, <5>2
      <4> QED
        BY <4>1
    <3> QED
      BY <2>1, <2>3, <3>1, <3>2 DEF WorkerStep, HandlerStep, CheckResearch, CreateResearchJob,
         Transition, RequestEvaluation, BeginEvaluation, ReadDeal, ReadDecisions, Store, Claim,
         Complete, RecordFailure, Throw, Crash, LoseLease, evidenceVars
  <2>4. ASSUME NEW c \in Requests, \/ RequestStep(c) \/ ReviewEvidence(c) \/ RerunResearch(c)
                                   \/ Accept(c) \/ EnqueueResearchFails(c) \/ Break(c)
        PROVE CreateRerun(c)
    <3>1. ~EnqueueResearchFails(c)
      BY <2>2 DEF EnqueueResearchFails
    <3> QED
      BY <2>1, <2>4, <3>1 DEF RequestStep, ReviewEvidence, RerunResearch, Accept, Break,
         RecordDecision, EnqueueEvaluation, EnqueueResearch, PassGate, Approve, evidenceVars
  <2>5. ASSUME NEW w \in Workers, CreateReport(w) PROVE Excused
    <3>1. work[w].step = "create report" /\ work'[w].step = "create job"
      BY <2>5, <2>t DEF CreateReport, At, Work
    <3>2. work[w].seen.at < version
      BY <3>1 DEF IInv, RerunInv
    <3>3. work[w].seen.at # version
      BY <2>t, <3>2
    <3> QED
      BY <3>1, <3>3
  <2>6. ASSUME NEW c \in Requests, CreateRerun(c) PROVE Excused
    <3>1. call[c].step = "create report" /\ call'[c].step = "request research"
      BY <2>6, <2>t DEF CreateRerun, Calls
    <3>2. call[c].began < version
      BY <3>1 DEF IInv, RerunInv
    <3>3. call[c].began # version
      BY <2>t, <3>2
    <3> QED
      BY <3>1, <3>3
  <2>7. ~UNCHANGED vars
    BY <2>1 DEF vars, evidenceVars
  <2> HIDE DEF Excused
  <2> QED
    BY <2>3, <2>4, <2>5, <2>6, <2>7 DEF Next
<1> QED
  BY <1>1, Invariance, PTL DEF Spec, OneCollectionAtATime

-----------------------------------------------------------------------------
(* The result catches up with the evidence. *)

\* Reports are numbered from 1 without a gap, and so are evaluations.
NumberedInv ==
  /\ \E n \in 0 .. MaxReports : \A r \in Reports : Exists(r) <=> r <= n
  /\ \E n \in 0 .. MaxEvaluations :
       \A e \in Evaluations : job[Evaluate(e)] # "absent" <=> e <= n

\* A report that does not exist has no sources and nobody is at work for it; a job that does not
\* has no holder.
ExistInv ==
  /\ \A r \in Reports : ~Exists(r) => report[r].found = {} /\ job[Collect(r)] = "absent"
  /\ \A j \in Jobs : job[j] = "absent" => holder[j] = None
  /\ \A w \in Workers : work[w].step # "idle" =>
       work[w].task \in Jobs /\ job[work[w].task] # "absent"
  /\ \A w \in Workers : work[w].step = "create job" =>
       work[w].made \in Reports /\ Exists(work[w].made)
  /\ \A c \in Requests : call[c].step = "request research" =>
       call[c].report \in Reports /\ Exists(call[c].report)

LEMMA JobNames ==
  /\ \A r \in Reports : /\ Collect(r) \in Jobs /\ Type(Collect(r)) = "research.collect"
                        /\ Subject(Collect(r)) = r
  /\ \A e \in Evaluations : /\ Evaluate(e) \in Jobs /\ Type(Evaluate(e)) = "sop.evaluate"
                            /\ Subject(Evaluate(e)) = e
  /\ \A j \in Jobs : /\ Type(j) \in {"ai.generate", "research.collect", "sop.evaluate"}
                     /\ Type(j) = "ai.generate" => j = Generate
                     /\ Type(j) = "research.collect" =>
                          j = Collect(Subject(j)) /\ Subject(j) \in Reports
                     /\ Type(j) = "sop.evaluate" =>
                          j = Evaluate(Subject(j)) /\ Subject(j) \in Evaluations
BY DEF Jobs, Generate, Collect, Evaluate, Type, Subject

LEMMA LatestIs ==
  ASSUME NEW n \in 0 .. MaxReports, \A r \in Reports : Exists(r) <=> r <= n
  PROVE  Latest = n
<1>1. {r \in Reports : Exists(r)} = 1 .. n
  BY BoundsAssumption DEF Reports
<1>2. n \in Nat
  BY BoundsAssumption
<1>3. Cardinality(1 .. n) = n
  BY <1>2, FS_Interval
<1> QED
  BY <1>1, <1>3 DEF Latest

LEMMA NextEvaluationIs ==
  ASSUME NEW n \in 0 .. MaxEvaluations, EvaluationLeft,
         \A e \in Evaluations : job[Evaluate(e)] # "absent" <=> e <= n
  PROVE  NextEvaluation = n + 1 /\ n + 1 \in Evaluations
<1>1. n + 1 \in Evaluations
  BY BoundsAssumption DEF EvaluationLeft, Evaluations
<1>2. \A e \in Evaluations :
        job[Evaluate(e)] = "absent" /\ (\A k \in Evaluations : k < e => job[Evaluate(k)] # "absent")
          <=> e = n + 1
  BY <1>1, BoundsAssumption DEF Evaluations
<1> QED
  BY <1>1, <1>2 DEF NextEvaluation

\* Who writes what.

LEMMA LostStays == [Next]_vars /\ lost => lost'
<1> SUFFICES ASSUME [Next]_vars, lost PROVE lost'
  OBVIOUS
<1>1. ASSUME NEW w \in Workers, WorkerStep(w) \/ Throw(w) \/ Crash(w) \/ LoseLease(w)
      PROVE lost'
  BY <1>1 DEF WorkerStep, HandlerStep, CheckResearch, CreateReport, CreateResearchJob, Transition,
     StartCollection, CompleteCollection, RequestEvaluation, BeginEvaluation, ReadDeal,
     ReadDecisions, Store, Claim, Complete, RecordFailure, Settle, Throw, Crash, LoseLease
<1>2. ASSUME NEW c \in Requests, \/ RequestStep(c) \/ ReviewEvidence(c) \/ RerunResearch(c)
                                 \/ Accept(c) \/ EnqueueResearchFails(c) \/ Break(c)
      PROVE lost'
  BY <1>2 DEF RequestStep, ReviewEvidence, RerunResearch, Accept, EnqueueResearchFails, Break,
     RecordDecision, EnqueueEvaluation, CreateRerun, EnqueueResearch, PassGate, Approve
<1>3. CASE UNCHANGED vars
  BY <1>3 DEF vars
<1> QED
  BY <1>1, <1>2, <1>3 DEF Next

\* A worker's memory and a request's change by their own hand only.
LEMMA OwnWork ==
  ASSUME TypeOK, [Next]_vars, NEW w \in Workers
  PROVE  work'[w] = work[w] \/ WorkerStep(w) \/ Throw(w) \/ Crash(w)
<1>t. work \in [Workers -> Work]
  BY DEF TypeOK, Work
<1>1. ASSUME NEW v \in Workers, v # w, WorkerStep(v) \/ Throw(v) \/ Crash(v) \/ LoseLease(v)
      PROVE work'[w] = work[w]
  BY <1>1, <1>t DEF WorkerStep, HandlerStep, CheckResearch, CreateReport, CreateResearchJob,
     Transition, StartCollection, CompleteCollection, RequestEvaluation, BeginEvaluation, ReadDeal,
     ReadDecisions, Store, Claim, Complete, RecordFailure, Settle, Throw, Crash, LoseLease, Goto,
     Drop
<1>2. ASSUME NEW c \in Requests, \/ RequestStep(c) \/ ReviewEvidence(c) \/ RerunResearch(c)
                                 \/ Accept(c) \/ EnqueueResearchFails(c) \/ Break(c)
      PROVE work' = work
  BY <1>2 DEF RequestStep, ReviewEvidence, RerunResearch, Accept, EnqueueResearchFails, Break,
     RecordDecision, EnqueueEvaluation, CreateRerun, EnqueueResearch, PassGate, Approve
<1>3. CASE UNCHANGED vars
  BY <1>3 DEF vars
<1>4. LoseLease(w) => work' = work
  BY DEF LoseLease
<1> QED
  BY <1>1, <1>2, <1>3, <1>4 DEF Next

LEMMA OwnCall ==
  ASSUME TypeOK, [Next]_vars, NEW c \in Requests
  PROVE  \/ call'[c] = call[c]
         \/ RequestStep(c) \/ ReviewEvidence(c) \/ RerunResearch(c)
         \/ Accept(c) \/ EnqueueResearchFails(c) \/ Break(c)
<1>t. call \in [Requests -> Calls]
  BY DEF TypeOK, Calls
<1>1. ASSUME NEW w \in Workers, WorkerStep(w) \/ Throw(w) \/ Crash(w) \/ LoseLease(w)
      PROVE call' = call
  BY <1>1 DEF WorkerStep, HandlerStep, CheckResearch, CreateReport, CreateResearchJob, Transition,
     StartCollection, CompleteCollection, RequestEvaluation, BeginEvaluation, ReadDeal,
     ReadDecisions, Store, Claim, Complete, RecordFailure, Settle, Throw, Crash, LoseLease
<1>2. ASSUME NEW b \in Requests, b # c,
             \/ RequestStep(b) \/ ReviewEvidence(b) \/ RerunResearch(b)
             \/ Accept(b) \/ EnqueueResearchFails(b) \/ Break(b)
      PROVE call'[c] = call[c]
  BY <1>2, <1>t DEF RequestStep, ReviewEvidence, RerunResearch, Accept, EnqueueResearchFails, Break,
     RecordDecision, EnqueueEvaluation, CreateRerun, EnqueueResearch, PassGate, Approve, CallTo,
     Answer, Begin
<1>3. CASE UNCHANGED vars
  BY <1>3 DEF vars
<1> QED
  BY <1>1, <1>2, <1>3 DEF Next

\* The jobs: claimed, released by the worker that is at work on them, or created.
Creation(j) ==
  \/ \E w \in Workers : CreateResearchJob(w) /\ j = Collect(work[w].made)
  \/ \E c \in Requests : EnqueueResearch(c) /\ j = Collect(call[c].report)
  \/ /\ \/ \E w \in Workers : RequestEvaluation(w)
        \/ \E c \in Requests : EnqueueEvaluation(c)
     /\ EvaluationLeft /\ j = Evaluate(NextEvaluation)
LEMMA JobMoves ==
  ASSUME TypeOK, [Next]_vars
  PROVE  \/ UNCHANGED jobVars
         \/ \E w \in Workers, j \in Jobs : Claim(w, j)
         \/ \E w \in Workers, s \in {"queued", "completed", "failed"} :
              work[w].step # "idle" /\ ~Superseded(w) /\ Release(w, s)
         \/ \E j : Creation(j) /\ job' = [job EXCEPT ![j] = "queued"] /\ UNCHANGED holder
<1> DEFINE Released == \E w \in Workers, s \in {"queued", "completed", "failed"} :
              work[w].step # "idle" /\ ~Superseded(w) /\ Release(w, s)
<1>1. ASSUME NEW w \in Workers, Complete(w) \/ RecordFailure(w) \/ Crash(w) \/ LoseLease(w)
      PROVE UNCHANGED jobVars \/ Released
  BY <1>1 DEF Complete, RecordFailure, Crash, LoseLease
<1> HIDE DEF Released
<1>2. ASSUME NEW w \in Workers, Settle(w) \/ Throw(w)
      PROVE UNCHANGED jobVars
  BY <1>2 DEF Settle, Throw
<1>3. ASSUME NEW w \in Workers, HandlerStep(w)
      PROVE UNCHANGED jobVars \/ CreateResearchJob(w) \/ RequestEvaluation(w)
  BY <1>3 DEF HandlerStep, CheckResearch, CreateReport,
     Transition, StartCollection, CompleteCollection, BeginEvaluation, ReadDeal,
     ReadDecisions, Store
<1>4. ASSUME NEW c \in Requests, \/ RequestStep(c) \/ ReviewEvidence(c) \/ RerunResearch(c)
                                 \/ Accept(c) \/ EnqueueResearchFails(c) \/ Break(c)
      PROVE UNCHANGED jobVars \/ EnqueueResearch(c) \/ EnqueueEvaluation(c)
  BY <1>4 DEF RequestStep, ReviewEvidence, RerunResearch, Accept, EnqueueResearchFails, Break,
     RecordDecision, CreateRerun, PassGate, Approve
<1>5. ASSUME NEW w \in Workers, CreateResearchJob(w) \/ RequestEvaluation(w)
      PROVE \E j : Creation(j) /\ job' = [job EXCEPT ![j] = "queued"] /\ UNCHANGED holder
  BY <1>5 DEF CreateResearchJob, RequestEvaluation, NewEvaluation, Creation
<1>6. ASSUME NEW c \in Requests, EnqueueResearch(c) \/ EnqueueEvaluation(c)
      PROVE \E j : Creation(j) /\ job' = [job EXCEPT ![j] = "queued"] /\ UNCHANGED holder
  BY <1>6 DEF EnqueueResearch, EnqueueEvaluation, NewEvaluation, Creation
<1>7. CASE UNCHANGED vars
  BY <1>7 DEF vars, jobVars
<1> QED
  BY <1>1, <1>2, <1>3, <1>4, <1>5, <1>6, <1>7 DEF Next, WorkerStep, Released

\* The evidence: kept as it is, but for the status of a report that exists; collected; decided on;
\* or a report that is new.
EvidenceKept ==
  /\ UNCHANGED decision
  /\ \A r \in Reports : /\ Exists(r)' <=> Exists(r)
                        /\ report'[r].found = report[r].found /\ report'[r].red = report[r].red
NewReport == (\E r \in Reports : ~Exists(r)) /\ SetStatus(NextReport, "queued")
LEMMA StatusKept ==
  ASSUME TypeOK, NEW r \in Reports, Exists(r), NEW s \in {"running", "failed"}, SetStatus(r, s),
         UNCHANGED decision
  PROVE  EvidenceKept
<1>1. report \in [Reports -> ReportRows]
  BY DEF TypeOK, ReportRows
<1>2. /\ report'[r].status = s /\ report'[r].found = report[r].found
      /\ report'[r].red = report[r].red
      /\ \A q \in Reports \ {r} : report'[q] = report[q]
  BY <1>1 DEF SetStatus, ReportRows
<1> QED
  BY <1>2 DEF EvidenceKept, Exists

\* The report a research job is about exists.
LEMMA AtCollection ==
  ASSUME ExistInv, NEW w \in Workers, work[w].step # "idle",
         Type(work[w].task) = "research.collect"
  PROVE  /\ Subject(work[w].task) \in Reports /\ Exists(Subject(work[w].task))
         /\ work[w].task = Collect(Subject(work[w].task))
BY JobNames DEF ExistInv

LEMMA EvidenceMoves ==
  ASSUME TypeOK, ExistInv, [Next]_vars
  PROVE  \/ EvidenceKept
         \/ \E w \in Workers : CompleteCollection(w)
         \/ \E c \in Requests : RecordDecision(c)
         \/ NewReport
<1>t. UNCHANGED evidenceVars => EvidenceKept
  BY DEF evidenceVars, EvidenceKept, Exists
<1>1. ASSUME NEW w \in Workers, Settle(w) \/ StartCollection(w)
      PROVE EvidenceKept
  <2>1. CASE Type(work[w].task) = "research.collect"
    <3>1. Subject(work[w].task) \in Reports /\ Exists(Subject(work[w].task))
      BY <1>1, <2>1, AtCollection DEF Settle, StartCollection, At
    <3>2. UNCHANGED decision /\ \E s \in {"running", "failed"} : SetStatus(Subject(work[w].task), s)
      BY <1>1, <2>1 DEF Settle, StartCollection
    <3> QED
      BY <3>1, <3>2, StatusKept
  <2>2. CASE Type(work[w].task) # "research.collect"
    <3>1. UNCHANGED evidenceVars
      BY <1>1, <2>2 DEF Settle, StartCollection, At, evidenceVars
    <3> QED
      BY <1>t, <3>1
  <2> QED
    BY <2>1, <2>2
<1>2. ASSUME NEW w \in Workers, HandlerStep(w)
      PROVE UNCHANGED evidenceVars \/ StartCollection(w) \/ CompleteCollection(w) \/ NewReport
  BY <1>2 DEF HandlerStep, CheckResearch, CreateReport, CreateResearchJob, Transition,
     RequestEvaluation, BeginEvaluation, ReadDeal, ReadDecisions, Store, NewReport
<1>3. ASSUME NEW w \in Workers, \/ \E j \in Jobs : Claim(w, j)
                                \/ Complete(w) \/ RecordFailure(w) \/ Throw(w) \/ Crash(w)
                                \/ LoseLease(w)
      PROVE UNCHANGED evidenceVars
  BY <1>3 DEF Claim, Complete, RecordFailure, Throw, Crash, LoseLease
<1>4. ASSUME NEW c \in Requests, \/ RequestStep(c) \/ ReviewEvidence(c) \/ RerunResearch(c)
                                 \/ Accept(c) \/ EnqueueResearchFails(c) \/ Break(c)
      PROVE UNCHANGED evidenceVars \/ RecordDecision(c) \/ NewReport \/ EnqueueResearchFails(c)
  BY <1>4 DEF RequestStep, ReviewEvidence, RerunResearch, Accept, Break, EnqueueEvaluation,
     CreateRerun, EnqueueResearch, PassGate, Approve, NewReport
<1>5. ASSUME NEW c \in Requests, EnqueueResearchFails(c) PROVE EvidenceKept
  <2>1. /\ call[c].report \in Reports /\ Exists(call[c].report)
        /\ UNCHANGED decision /\ SetStatus(call[c].report, "failed")
    BY <1>5 DEF EnqueueResearchFails, ExistInv
  <2> QED
    BY <2>1, StatusKept
<1>6. CASE UNCHANGED vars
  BY <1>6, <1>t DEF vars
<1> QED
  BY <1>t, <1>1, <1>2, <1>3, <1>4, <1>5, <1>6 DEF Next, WorkerStep

\* A new report comes after those there are and has no sources.
LEMMA NewReportIs ==
  ASSUME TypeOK, NumberedInv, ExistInv, NewReport
  PROVE  /\ NextReport \in Reports /\ ~Exists(NextReport)
         /\ report'[NextReport].status = "queued" /\ report'[NextReport].found = {}
         /\ \A r \in Reports \ {NextReport} : report'[r] = report[r]
         /\ \E n \in 0 .. MaxReports : \A r \in Reports : Exists(r)' <=> r <= n
         /\ Latest' = NextReport
<1>1. report \in [Reports -> ReportRows]
  BY DEF TypeOK, ReportRows
<1>2. PICK n \in 0 .. MaxReports : \A r \in Reports : Exists(r) <=> r <= n
  BY DEF NumberedInv
<1>3. NextReport = n + 1
  BY <1>2, LatestIs DEF NextReport
<1>4. n + 1 \in Reports /\ ~Exists(n + 1) /\ n + 1 \in 0 .. MaxReports
  BY <1>2, BoundsAssumption DEF NewReport, Reports
<1>5. /\ report'[n + 1].status = "queued" /\ report'[n + 1].found = report[n + 1].found
      /\ \A r \in Reports \ {n + 1} : report'[r] = report[r]
  BY <1>1, <1>3, <1>4 DEF NewReport, SetStatus, ReportRows
<1>6. \A r \in Reports : Exists(r)' <=> r <= n + 1
  BY <1>2, <1>4, <1>5, BoundsAssumption DEF Exists, Reports
<1>8. Latest' = n + 1
  <2>1. {r \in Reports : Exists(r)}' = 1 .. n + 1
    BY <1>4, <1>6, BoundsAssumption DEF Reports
  <2>2. n + 1 \in Nat
    BY BoundsAssumption
  <2>3. Cardinality(1 .. n + 1) = n + 1
    BY <2>2, FS_Interval
  <2> QED
    BY <2>1, <2>3 DEF Latest
<1>9. report[n + 1].found = {}
  BY <1>4 DEF ExistInv
<1>10. \E m \in 0 .. MaxReports : \A r \in Reports : Exists(r)' <=> r <= m
  BY <1>4, <1>6
<1> QED
  BY <1>3, <1>4, <1>5, <1>8, <1>9, <1>10

LEMMA CollectionExists ==
  ASSUME TypeOK, ExistInv, NEW w \in Workers, CompleteCollection(w)
  PROVE  /\ \A r \in Reports : Exists(r)' <=> Exists(r)
         /\ \A r \in Reports : ~Exists(r) => report'[r] = report[r]
<1>1. report \in [Reports -> ReportRows]
  BY DEF TypeOK, ReportRows
<1>2. Subject(work[w].task) \in Reports /\ Exists(Subject(work[w].task))
  BY AtCollection DEF CompleteCollection, At
<1>3. PICK found, red :
        report' = [report EXCEPT ![Subject(work[w].task)] =
                       [status |-> "completed", found |-> found, red |-> red]]
  BY DEF CompleteCollection
<1> QED
  BY <1>1, <1>2, <1>3 DEF Exists

\* Reports once created stay.
LEMMA ReportsStay ==
  ASSUME TypeOK, NumberedInv, ExistInv, [Next]_vars
  PROVE  /\ \A r \in Reports : Exists(r) => Exists(r)'
         /\ \E n \in 0 .. MaxReports : \A r \in Reports : Exists(r)' <=> r <= n
         /\ \A r \in Reports : ~Exists(r)' => ~Exists(r) /\ report'[r].found = {}
<1>1. CASE EvidenceKept
  BY <1>1 DEF EvidenceKept, NumberedInv, ExistInv
<1>2. ASSUME NEW w \in Workers, CompleteCollection(w)
      PROVE /\ \A r \in Reports : Exists(r)' <=> Exists(r)
            /\ \A r \in Reports : ~Exists(r) => report'[r].found = {}
  BY <1>2, CollectionExists DEF ExistInv
<1>3. ASSUME NEW c \in Requests, RecordDecision(c)
      PROVE /\ \A r \in Reports : Exists(r)' <=> Exists(r)
            /\ \A r \in Reports : ~Exists(r) => report'[r].found = {}
  BY <1>3 DEF RecordDecision, Exists, ExistInv
<1>4. CASE NewReport
  BY <1>4, NewReportIs DEF ExistInv, Exists
<1>5. CASE /\ \A r \in Reports : Exists(r)' <=> Exists(r)
           /\ \A r \in Reports : ~Exists(r) => report'[r].found = {}
  BY <1>5 DEF NumberedInv, ExistInv
<1> QED
  BY <1>1, <1>2, <1>3, <1>4, <1>5, EvidenceMoves

\* Jobs once created stay, and but for a new evaluation those of evaluations are the same.
LEMMA JobsStay ==
  ASSUME TypeOK, ExistInv, [Next]_vars, NEW j \in Jobs
  PROVE  /\ job[j] # "absent" => job'[j] # "absent"
         /\ job[j] = "absent" /\ job'[j] # "absent" => Creation(j)
         /\ job'[j] = "absent" => holder'[j] = None
<1>t. DOMAIN job = Jobs /\ DOMAIN holder = Jobs
  BY DEF TypeOK
<1>1. CASE UNCHANGED jobVars
  BY <1>1 DEF jobVars, ExistInv
<1>2. ASSUME NEW w \in Workers, NEW k \in Jobs, Claim(w, k)
      PROVE /\ job'[j] = "absent" <=> job[j] = "absent"
            /\ job'[j] = "absent" => holder'[j] = None
  BY <1>2, <1>t DEF Claim, ExistInv
<1>3. ASSUME NEW w \in Workers, NEW s \in {"queued", "completed", "failed"},
             work[w].step # "idle", Release(w, s)
      PROVE /\ job'[j] = "absent" <=> job[j] = "absent"
            /\ job'[j] = "absent" => holder'[j] = None
  <2>1. work[w].task \in Jobs /\ job[work[w].task] # "absent"
    BY <1>3 DEF ExistInv
  <2> QED
    BY <1>3, <1>t, <2>1 DEF Release, ExistInv
<1>4. ASSUME NEW k, Creation(k), job' = [job EXCEPT ![k] = "queued"], UNCHANGED holder
      PROVE /\ job[j] # "absent" => job'[j] # "absent"
            /\ job[j] = "absent" /\ job'[j] # "absent" => Creation(j)
            /\ job'[j] = "absent" => holder'[j] = None
  <2>1. job'[j] = job[j] \/ (k = j /\ job'[j] = "queued")
    BY <1>4, <1>t
  <2> QED
    BY <1>4, <2>1 DEF ExistInv
<1> QED
  BY <1>1, <1>2, <1>3, <1>4, JobMoves

EvaluationRequested ==
  EvaluationLeft /\ ( \/ \E w \in Workers : RequestEvaluation(w)
                      \/ \E c \in Requests : EnqueueEvaluation(c) )
LEMMA EvaluationsStay ==
  ASSUME TypeOK, ExistInv, [Next]_vars, ~EvaluationRequested, NEW e \in Evaluations
  PROVE  job'[Evaluate(e)] = "absent" <=> job[Evaluate(e)] = "absent"
<1>1. ~Creation(Evaluate(e))
  BY DEF Creation, EvaluationRequested, Evaluate, Collect
<1> QED
  BY <1>1, JobsStay, JobNames

LEMMA NewEvaluationIs ==
  ASSUME TypeOK, NumberedInv, EvaluationRequested
  PROVE  \E n \in Evaluations :
           /\ job'[Evaluate(n)] = "queued" /\ UNCHANGED holder /\ job[Evaluate(n)] = "absent"
           /\ \A e \in Evaluations : job'[Evaluate(e)] # "absent" <=> e <= n
<1>1. PICK n \in 0 .. MaxEvaluations : \A e \in Evaluations : job[Evaluate(e)] # "absent" <=> e <= n
  BY DEF NumberedInv
<1>2. NextEvaluation = n + 1 /\ n + 1 \in Evaluations
  BY <1>1, NextEvaluationIs DEF EvaluationRequested
<1>3. job' = [job EXCEPT ![Evaluate(n + 1)] = "queued"] /\ UNCHANGED holder
  BY <1>2 DEF EvaluationRequested, RequestEvaluation, EnqueueEvaluation, NewEvaluation
<1>4. DOMAIN job = Jobs
  BY DEF TypeOK
<1>5. job'[Evaluate(n + 1)] = "queued"
  BY <1>2, <1>3, <1>4, JobNames
<1>6. \A e \in Evaluations : e # n + 1 => job'[Evaluate(e)] = job[Evaluate(e)]
  BY <1>3 DEF Evaluate
<1>7. \A e \in Evaluations : job'[Evaluate(e)] # "absent" <=> e <= n + 1
  BY <1>1, <1>2, <1>5, <1>6, BoundsAssumption DEF Evaluations
<1>8. job[Evaluate(n + 1)] = "absent"
  BY <1>1, <1>2, BoundsAssumption DEF Evaluations
<1> QED
  BY <1>2, <1>3, <1>5, <1>7, <1>8

LEMMA NumberedStep == TypeOK /\ NumberedInv /\ ExistInv /\ [Next]_vars => NumberedInv'
<1> SUFFICES ASSUME TypeOK, NumberedInv, ExistInv, [Next]_vars PROVE NumberedInv'
  OBVIOUS
<1>1. \E n \in 0 .. MaxReports : \A r \in Reports : Exists(r)' <=> r <= n
  BY ReportsStay
<1>2. CASE EvaluationRequested
  <2>1. \E n \in 0 .. MaxEvaluations :
          \A e \in Evaluations : job'[Evaluate(e)] # "absent" <=> e <= n
    BY <1>2, NewEvaluationIs, BoundsAssumption DEF Evaluations
  <2> QED
    BY <1>1, <2>1 DEF NumberedInv
<1>3. CASE ~EvaluationRequested
  <2>1. \A e \in Evaluations : job'[Evaluate(e)] = "absent" <=> job[Evaluate(e)] = "absent"
    BY <1>3, EvaluationsStay
  <2> QED
    BY <1>1, <2>1 DEF NumberedInv
<1> QED
  BY <1>2, <1>3

LEMMA ExistStep == TypeOK /\ NumberedInv /\ ExistInv /\ [Next]_vars => ExistInv'
<1> SUFFICES ASSUME TypeOK, NumberedInv, ExistInv, [Next]_vars PROVE ExistInv'
  OBVIOUS
<1>t. work \in [Workers -> Work] /\ call \in [Requests -> Calls]
  BY DEF TypeOK, Work, Calls
<1>1. ASSUME NEW r \in Reports, ~Exists(r)'
      PROVE report'[r].found = {} /\ job'[Collect(r)] = "absent"
  <2>1. ~Exists(r) /\ report'[r].found = {}
    BY <1>1, ReportsStay
  <2>2. job[Collect(r)] = "absent"
    BY <2>1 DEF ExistInv
  <2>3. ~Creation(Collect(r))
    <3>1. ASSUME NEW w \in Workers, CreateResearchJob(w) PROVE Collect(r) # Collect(work[w].made)
      BY <2>1, <3>1 DEF CreateResearchJob, At, ExistInv, Collect
    <3>2. ASSUME NEW c \in Requests, EnqueueResearch(c) PROVE Collect(r) # Collect(call[c].report)
      BY <2>1, <3>2 DEF EnqueueResearch, ExistInv, Collect
    <3> QED
      BY <3>1, <3>2 DEF Creation, Collect, Evaluate
  <2> QED
    BY <2>1, <2>2, <2>3, JobsStay, JobNames
<1>2. \A j \in Jobs : job'[j] = "absent" => holder'[j] = None
  BY JobsStay
<1>3. ASSUME NEW w \in Workers, work'[w].step # "idle"
      PROVE work'[w].task \in Jobs /\ job'[work'[w].task] # "absent"
  <2>1. CASE work[w].step # "idle" /\ work'[w].task = work[w].task
    <3>1. work[w].task \in Jobs /\ job[work[w].task] # "absent"
      BY <2>1 DEF ExistInv
    <3> QED
      BY <2>1, <3>1, JobsStay
  <2>2. ASSUME NEW j \in Jobs, Claim(w, j) PROVE work'[w].task = j /\ job'[j] = "running"
    BY <1>t, <2>2 DEF Claim, NoWork, TypeOK
  <2>3. CASE Complete(w) \/ Settle(w) \/ Crash(w)
    BY <1>3, <1>t, <2>3 DEF Complete, Settle, Crash, Drop, NoWork
  <2>4. CASE RecordFailure(w)
    BY <1>3, <1>t, <2>1, <2>4 DEF RecordFailure, Drop, NoWork, Goto, Work
  <2>5. CASE Throw(w)
    BY <1>t, <2>1, <2>5 DEF Throw, NoWork
  <2>6. CASE HandlerStep(w)
    <3>1. work[w].step # "idle"
      BY <2>6 DEF HandlerStep, CheckResearch, CreateReport, CreateResearchJob, Transition,
         StartCollection, CompleteCollection, RequestEvaluation, BeginEvaluation, ReadDeal,
         ReadDecisions, Store, Evaluating, At
    <3>2. CASE \E s : Goto(w, s)
      BY <2>1, <3>1, <3>2, GotoMove
    <3>3. CASE CreateReport(w) \/ CreateResearchJob(w) \/ Store(w)
      <4>1. work'[w].task = work[w].task
        BY <1>t, <3>3 DEF CreateReport, CreateResearchJob, Store, Work
      <4> QED
        BY <2>1, <3>1, <4>1
    <3>4. CASE CheckResearch(w) \/ ReadDeal(w) \/ ReadDecisions(w)
      <4>1. work'[w].task = work[w].task
        BY <1>t, <3>4 DEF CheckResearch, ReadDeal, ReadDecisions, Goto, Work
      <4> QED
        BY <2>1, <3>1, <4>1
    <3> QED
      BY <2>6, <3>2, <3>3, <3>4 DEF HandlerStep, Transition, StartCollection, CompleteCollection,
         RequestEvaluation, BeginEvaluation
  <2>7. CASE work'[w] = work[w]
    BY <1>3, <2>1, <2>7
  <2> QED
    BY <2>2, <2>3, <2>4, <2>5, <2>6, <2>7, OwnWork DEF WorkerStep
<1>4. ASSUME NEW w \in Workers, work'[w].step = "create job"
      PROVE work'[w].made \in Reports /\ report'[work'[w].made].status # "absent"
  <2>1. CASE work'[w] = work[w]
    BY <1>4, <2>1, ReportsStay DEF ExistInv, Exists
  <2>2. CASE CreateReport(w)
    <3>1. work'[w].made = NextReport
      BY <1>t, <2>2 DEF CreateReport, Work
    <3>2. NewReport
      BY <2>2 DEF CreateReport, NewReport
    <3> QED
      BY <3>1, <3>2, NewReportIs
  <2>3. CASE WorkerStep(w) /\ ~CreateReport(w)
    <3>1. CASE \E j \in Jobs : Claim(w, j)
      BY <1>4, <1>t, <3>1 DEF Claim, NoWork
    <3>d. ASSUME Drop(w) PROVE FALSE
      <4>1. work'[w].step = "idle"
        BY <1>t, <3>d DEF Drop, NoWork
      <4> QED
        BY <1>4, <4>1
    <3>g. ASSUME NEW s, s # "create job", Goto(w, s) PROVE FALSE
      BY <1>4, <3>g, GotoMove
    <3>2. CASE Complete(w) \/ RecordFailure(w) \/ Settle(w)
      BY <3>2, <3>d, <3>g DEF Complete, RecordFailure, Settle
    <3>3. CASE \/ Transition(w) \/ StartCollection(w) \/ CompleteCollection(w)
               \/ RequestEvaluation(w) \/ BeginEvaluation(w)
      BY <3>3, <3>g DEF Transition, StartCollection, CompleteCollection, RequestEvaluation,
         BeginEvaluation
    <3>4. CASE CreateResearchJob(w) \/ ReadDeal(w) \/ Store(w)
      BY <1>4, <1>t, <3>4 DEF CreateResearchJob, ReadDeal, Store, Goto, Work
    <3>5. CASE CheckResearch(w) \/ ReadDecisions(w)
      BY <1>4, <3>5, CheckResearchMove, ReadDecisionsMove
    <3> QED
      BY <2>3, <3>1, <3>2, <3>3, <3>4, <3>5 DEF WorkerStep, HandlerStep
  <2>4. CASE Throw(w)
    <3>1. work'[w].step = "threw"
      BY <1>t, <2>4 DEF Throw, NoWork
    <3> QED
      BY <1>4, <3>1
  <2>5. CASE Crash(w)
    <3>1. work'[w].step = "idle"
      BY <1>t, <2>5 DEF Crash, Drop, NoWork
    <3> QED
      BY <1>4, <3>1
  <2> QED
    BY <2>1, <2>2, <2>3, <2>4, <2>5, OwnWork
<1>5. ASSUME NEW c \in Requests, call'[c].step = "request research"
      PROVE call'[c].report \in Reports /\ report'[call'[c].report].status # "absent"
  <2>1. CASE call'[c] = call[c]
    BY <1>5, <2>1, ReportsStay DEF ExistInv, Exists
  <2>2. CASE CreateRerun(c)
    <3>1. call'[c].report = NextReport
      BY <1>t, <2>2 DEF CreateRerun, Calls
    <3>2. NewReport
      BY <2>2 DEF CreateRerun, NewReport
    <3> QED
      BY <3>1, <3>2, NewReportIs
  <2>3. CASE \/ RecordDecision(c) \/ EnqueueEvaluation(c) \/ EnqueueResearch(c) \/ Approve(c)
             \/ EnqueueResearchFails(c) \/ Break(c)
    <3>1. CASE Answer(c)
      BY <1>5, <1>t, <3>1 DEF Answer, NoCall
    <3>2. CASE CallTo(c, "request evaluation")
      BY <1>5, <1>t, <3>2 DEF CallTo, Calls
    <3> QED
      BY <2>3, <3>1, <3>2 DEF RecordDecision, EnqueueEvaluation, EnqueueResearch, Approve,
         EnqueueResearchFails, Break
  <2>4. CASE ReviewEvidence(c) \/ RerunResearch(c) \/ Accept(c) \/ PassGate(c)
    <3>1. CASE ReviewEvidence(c)
      BY <1>5, <1>t, <3>1 DEF ReviewEvidence, NoCall
    <3>2. ASSUME NEW s, s # "request research", Begin(c, s) PROVE FALSE
      <4>1. call'[c].step = s
        BY <1>t, <3>2 DEF Begin, Calls
      <4> QED
        BY <1>5, <3>2, <4>1
    <3>3. ASSUME NEW r, NEW f,
                 call' = [call EXCEPT ![c] = [NoCall EXCEPT !.step = "gate", !.report = r,
                                                !.found = f, !.began = version]]
          PROVE FALSE
      BY <1>5, <1>t, <3>3 DEF NoCall
    <3>4. CASE PassGate(c)
      <4>1. CASE Answer(c)
        BY <1>5, <1>t, <4>1 DEF Answer, NoCall
      <4>2. CASE call' = [call EXCEPT ![c] =
                            [NoCall EXCEPT !.step = "approve", !.began = call[c].began]]
        BY <1>5, <1>t, <4>2 DEF NoCall
      <4> QED
        BY <3>4, <4>1, <4>2 DEF PassGate
    <3> QED
      BY <2>4, <3>1, <3>2, <3>3, <3>4 DEF RerunResearch, Accept
  <2> QED
    BY <2>1, <2>2, <2>3, <2>4, OwnCall DEF RequestStep
<1> QED
  BY <1>1, <1>2, <1>3, <1>4, <1>5 DEF ExistInv, Exists

\* What of the latest evidence somebody has read who is past his reads.
Past(w) == work[w].step \in {"read decisions", "store"}
SeenCurrent(w) ==
  LET Is(v) == \E s \in report[Latest].red : decision[Latest][s] = v IN
  /\ work[w].seen.report = Latest
  /\ work[w].step = "read decisions" => work[w].seen.red = report[Latest].red
  /\ work[w].step = "store" => /\ work[w].seen.confirmed <=> Is("confirmed")
                               /\ work[w].seen.followUp <=> Is("follow_up")

\* The evaluation is still owed: by a collection, by a request, or by the newest evaluation job,
\* which is yet to read, or has read at version m or later; or it is stored and is not going to be
\* replaced.
Waiting(j) == job[j] = "queued" /\ holder[j] = None
CollectionDue ==
  \E r \in Reports :
    \/ Waiting(Collect(r))
    \/ \E w \in Workers :
         /\ work[w].task = Collect(r)
         /\ work[w].step \in {"start", "collecting", "request evaluation", "threw"}
DecisionDue == \E c \in Requests : call[c].step = "request evaluation"
Newest(n) ==
  job[Evaluate(n)] # "absent" /\ \A k \in Evaluations : k > n => job[Evaluate(k)] = "absent"
AtEvaluation(w, m) ==
  \/ work[w].step \in {"start", "read deal", "threw"}
  \/ Past(w) /\ work[w].seen.at >= m
EvaluationDue(m) ==
  \E n \in Evaluations :
    /\ Newest(n)
    /\ \/ Waiting(Evaluate(n))
       \/ \E w \in Workers : work[w].task = Evaluate(n) /\ AtEvaluation(w, m)
Stored(m) ==
  stored.at >= m /\ \A w \in Workers : Inside(w) /\ Past(w) => work[w].seen.at >= m

\* From version m on the latest evidence is what it is now, and its evaluation is owed or stored.
Settled(m) ==
  /\ \A w \in Workers : Past(w) /\ work[w].seen.at >= m => SeenCurrent(w)
  /\ stored.at >= m => Reflects(Latest)
Owed(m) == CollectionDue \/ DecisionDue \/ EvaluationDue(m) \/ Stored(m)
CatchUpInv ==
  Latest # 0 /\ report[Latest].found # {} /\ ~lost => \E m \in 0 .. version : Settled(m) /\ Owed(m)

CInv == IInv /\ NumberedInv /\ ExistInv /\ CatchUpInv

LEMMA WaitingStays ==
  ASSUME TypeOK, [Next]_vars, NEW j \in Jobs, Waiting(j)
  PROVE  Waiting(j)' \/ \E w \in Workers : Claim(w, j)
<1>t. DOMAIN job = Jobs /\ DOMAIN holder = Jobs /\ None \notin Workers
  BY SentinelAssumption DEF TypeOK
<1>1. ASSUME NEW w \in Workers, NEW k \in Jobs, Claim(w, k), k # j PROVE Waiting(j)'
  BY <1>1, <1>t DEF Claim, Waiting
<1>2. ASSUME NEW w \in Workers, ~Superseded(w), NEW s, Release(w, s) PROVE Waiting(j)'
  <2>1. work[w].task # j
    BY <1>2, <1>t DEF Superseded, Waiting
  <2> QED
    BY <1>2, <1>t, <2>1 DEF Release, Waiting
<1>3. ASSUME NEW k, job' = [job EXCEPT ![k] = "queued"], UNCHANGED holder PROVE Waiting(j)'
  BY <1>3, <1>t DEF Waiting
<1>4. CASE UNCHANGED jobVars
  BY <1>4 DEF jobVars, Waiting
<1> QED
  BY <1>1, <1>2, <1>3, <1>4, JobMoves

\* A job whose attempt fails or dies is to be done again, unless that is on record.
LEMMA HandedBack ==
  ASSUME TypeOK, NEW w \in Workers, NEW j \in Jobs, work[w].task = j,
         RecordFailure(w) \/ Crash(w), ~lost'
  PROVE  Waiting(j)'
<1>1. Release(w, "queued")
  BY DEF RecordFailure, Crash
<1> QED
  BY <1>1 DEF Release, Waiting, TypeOK

LEMMA ThrowMove ==
  ASSUME TypeOK, NEW w \in Workers, Throw(w)
  PROVE  work'[w].step = "threw" /\ work'[w].task = work[w].task
BY DEF TypeOK, Throw, NoWork

LEMMA ClaimMove ==
  ASSUME TypeOK, NEW w \in Workers, NEW j \in Jobs, Claim(w, j), j # Generate
  PROVE  work'[w].step = "start" /\ work'[w].task = j
BY DEF TypeOK, Claim, NoWork

\* What a reader reads is the latest there is.
LEMMA ReadDealMove ==
  ASSUME TypeOK, NEW w \in Workers, ReadDeal(w)
  PROVE  \/ work'[w].step \in {"check research", "threw"}
         \/ /\ work'[w].step = "read decisions" /\ work'[w].task = work[w].task
            /\ work'[w].seen.at = version /\ work'[w].seen.report = Latest
            /\ work'[w].seen.red = IF Latest = 0 THEN {} ELSE report[Latest].red
<1>1. CASE \E s \in {"check research", "threw"} : Goto(w, s)
  BY <1>1, GotoMove
<1>2. CASE ~ \E s \in {"check research", "threw"} : Goto(w, s)
  <2> DEFINE red == IF Latest = 0 THEN {} ELSE report[Latest].red
  <2>1. work' = [work EXCEPT ![w].step = "read decisions",
                   ![w].seen = [NoReading EXCEPT !.report = Latest, !.at = version, !.red = red]]
    BY <1>2 DEF ReadDeal
  <2> HIDE DEF red
  <2>2. work \in [Workers -> Work]
    BY DEF TypeOK, Work
  <2>3. /\ work'[w].step = "read decisions" /\ work'[w].task = work[w].task
        /\ work'[w].seen.at = version /\ work'[w].seen.report = Latest
        /\ work'[w].seen.red = red
    BY <2>1, <2>2 DEF NoReading, Work
  <2> QED
    BY <2>3 DEF red
<1> QED
  BY <1>1, <1>2

LEMMA CollectionMoves ==
  ASSUME TypeOK, [Next]_vars, ~lost', CollectionDue
  PROVE  CollectionDue' \/ EvaluationRequested
<1>1. PICK r \in Reports :
        \/ Waiting(Collect(r))
        \/ \E w \in Workers :
             /\ work[w].task = Collect(r)
             /\ work[w].step \in {"start", "collecting", "request evaluation", "threw"}
  BY DEF CollectionDue
<1>2. Collect(r) \in Jobs /\ Collect(r) # Generate
  BY JobNames DEF Collect, Generate
<1>3. CASE Waiting(Collect(r))
  <2>1. Waiting(Collect(r))' \/ \E w \in Workers : Claim(w, Collect(r))
    BY <1>2, <1>3, WaitingStays
  <2>2. ASSUME NEW w \in Workers, Claim(w, Collect(r))
        PROVE work'[w].step = "start" /\ work'[w].task = Collect(r)
    BY <1>2, <2>2, ClaimMove
  <2> QED
    BY <2>1, <2>2 DEF CollectionDue
<1>4. ASSUME NEW w \in Workers, work[w].task = Collect(r),
             work[w].step \in {"start", "collecting", "request evaluation", "threw"}
      PROVE CollectionDue' \/ EvaluationRequested
  <2>t. Type(work[w].task) = "research.collect"
    BY <1>4, JobNames
  <2>d. ASSUME work'[w].task = Collect(r),
               work'[w].step \in {"start", "collecting", "request evaluation", "threw"}
        PROVE CollectionDue'
    BY <2>d DEF CollectionDue
  <2>1. CASE work'[w] = work[w]
    BY <1>4, <2>1, <2>d
  <2>2. CASE Throw(w)
    BY <1>4, <2>2, <2>d, ThrowMove
  <2>3. CASE RecordFailure(w) \/ Crash(w)
    <3>1. Waiting(Collect(r))'
      BY <1>2, <1>4, <2>3, HandedBack
    <3> QED
      BY <3>1 DEF CollectionDue
  <2>4. CASE StartCollection(w) \/ CompleteCollection(w)
    <3>1. Goto(w, "collecting") \/ Goto(w, "request evaluation")
      BY <2>4 DEF StartCollection, CompleteCollection
    <3> QED
      BY <1>4, <3>1, <2>d, GotoMove
  <2>5. CASE RequestEvaluation(w)
    BY <2>5 DEF RequestEvaluation, EvaluationRequested
  <2>6. CASE WorkerStep(w) /\ ~(RecordFailure(w) \/ StartCollection(w) \/ CompleteCollection(w)
                                \/ RequestEvaluation(w))
    BY <1>4, <2>t, <2>6 DEF WorkerStep, HandlerStep, CheckResearch, CreateReport,
       CreateResearchJob, Transition, BeginEvaluation, ReadDeal, ReadDecisions, Store, Claim,
       Complete, Settle, Evaluating, At
  <2> QED
    BY <2>1, <2>2, <2>3, <2>4, <2>5, <2>6, OwnWork
<1> QED
  BY <1>1, <1>3, <1>4

LEMMA DecisionMoves ==
  ASSUME TypeOK, [Next]_vars, ~lost', DecisionDue
  PROVE  DecisionDue' \/ EvaluationRequested
<1>1. PICK c \in Requests : call[c].step = "request evaluation"
  BY DEF DecisionDue
<1>2. CASE call'[c] = call[c]
  BY <1>1, <1>2 DEF DecisionDue
<1>3. CASE EnqueueEvaluation(c)
  BY <1>3 DEF EnqueueEvaluation, EvaluationRequested
<1> QED
  BY <1>1, <1>2, <1>3, OwnCall DEF RequestStep, ReviewEvidence, RerunResearch, Accept,
     EnqueueResearchFails, Break, RecordDecision, CreateRerun, EnqueueResearch, PassGate, Approve

LEMMA RequestedMoves ==
  ASSUME TypeOK, NumberedInv, ExistInv, EvaluationRequested, NEW m
  PROVE  EvaluationDue(m)'
<1>1. PICK n \in Evaluations :
        /\ job'[Evaluate(n)] = "queued" /\ UNCHANGED holder /\ job[Evaluate(n)] = "absent"
        /\ \A e \in Evaluations : job'[Evaluate(e)] # "absent" <=> e <= n
  BY NewEvaluationIs
<1>2. Waiting(Evaluate(n))'
  BY <1>1, JobNames DEF Waiting, ExistInv
<1>3. Newest(n)'
  BY <1>1 DEF Newest, Evaluations
<1> QED
  BY <1>2, <1>3 DEF EvaluationDue

\* What has been read at the newest evaluation stays read, and is stored.
LEMMA EvaluationMoves ==
  ASSUME TypeOK, LockInv, ExistInv, [Next]_vars, ~lost', ~EvaluationRequested,
         NEW m \in 0 .. version, EvaluationDue(m)
  PROVE  EvaluationDue(m)' \/ Stored(m)'
<1>t. work \in [Workers -> Work] /\ version \in Nat /\ m \in Nat /\ m <= version
  BY DEF TypeOK, Work
<1>1. PICK n \in Evaluations :
        /\ Newest(n)
        /\ \/ Waiting(Evaluate(n))
           \/ \E w \in Workers : work[w].task = Evaluate(n) /\ AtEvaluation(w, m)
  BY DEF EvaluationDue
<1>2. Evaluate(n) \in Jobs /\ Evaluate(n) # Generate
  BY JobNames DEF Evaluate, Generate
<1>3. Newest(n)'
  BY <1>1, EvaluationsStay DEF Newest
<1>4. CASE Waiting(Evaluate(n))
  <2>1. Waiting(Evaluate(n))' \/ \E w \in Workers : Claim(w, Evaluate(n))
    BY <1>2, <1>4, WaitingStays
  <2>2. ASSUME NEW w \in Workers, Claim(w, Evaluate(n))
        PROVE work'[w].step = "start" /\ work'[w].task = Evaluate(n)
    BY <1>2, <2>2, ClaimMove
  <2> QED
    BY <1>3, <2>1, <2>2 DEF EvaluationDue, AtEvaluation
<1>5. ASSUME NEW w \in Workers, work[w].task = Evaluate(n), AtEvaluation(w, m)
      PROVE EvaluationDue(m)' \/ Stored(m)'
  <2>t. /\ Type(work[w].task) = "sop.evaluate" /\ Subject(work[w].task) = n
        /\ work[w].seen \in Reading
    BY <1>t, <1>5, JobNames DEF Work
  <2>d. ASSUME work'[w].task = Evaluate(n), AtEvaluation(w, m)' PROVE EvaluationDue(m)'
    BY <1>3, <2>d DEF EvaluationDue
  <2>1. CASE work'[w] = work[w]
    BY <1>5, <2>1, <2>d DEF AtEvaluation, Past
  <2>2. CASE Throw(w)
    BY <1>5, <2>2, <2>d, ThrowMove DEF AtEvaluation
  <2>3. CASE RecordFailure(w) \/ Crash(w)
    <3>1. Waiting(Evaluate(n))'
      BY <1>2, <1>5, <2>3, HandedBack
    <3> QED
      BY <1>3, <3>1 DEF EvaluationDue
  <2>4. CASE BeginEvaluation(w)
    <3>1. ~NewerActive(n)
      BY <1>1 DEF NewerActive, Newest
    <3>2. Goto(w, "read deal")
      BY <2>4, <2>t, <3>1 DEF BeginEvaluation
    <3> QED
      BY <1>5, <3>2, <2>d, GotoMove DEF AtEvaluation
  <2>5. CASE ReadDeal(w)
    <3>1. CASE Goto(w, "threw")
      BY <1>5, <3>1, <2>d, GotoMove DEF AtEvaluation
    <3>2. CASE ~Goto(w, "threw")
      <4>1. work' = [work EXCEPT ![w].step = "read decisions",
                       ![w].seen = [NoReading EXCEPT !.report = Latest, !.at = version,
                         !.red = IF Latest = 0 THEN {} ELSE report[Latest].red]]
        BY <2>5, <2>t, <3>2 DEF ReadDeal
      <4>2. /\ work'[w].step = "read decisions" /\ work'[w].task = work[w].task
            /\ work'[w].seen.at = version
        BY <1>t, <4>1 DEF NoReading, Work
      <4> QED
        BY <1>t, <1>5, <2>d, <4>2 DEF AtEvaluation, Past
    <3> QED
      BY <3>1, <3>2
  <2>6. CASE ReadDecisions(w)
    <3>1. work[w].seen.at >= m
      BY <1>5, <2>6 DEF AtEvaluation, ReadDecisions, Evaluating, At
    <3>2. /\ work'[w].step = "store" /\ work'[w].task = work[w].task
          /\ work'[w].seen.at = work[w].seen.at
      BY <2>6, ReadDecisionsMove
    <3> QED
      BY <1>5, <2>d, <3>1, <3>2 DEF AtEvaluation, Past
  <2>7. CASE Store(w)
    <3>1. work[w].seen.at >= m /\ stored'.at = work[w].seen.at
      BY <1>5, <2>7 DEF AtEvaluation, Store, Evaluating, At
    <3>2. Inside(w) /\ work'[w].step = "done"
      BY <1>t, <2>7, <2>t DEF Store, Evaluating, At, Inside, Work
    <3>3. ASSUME NEW v \in Workers, Inside(v)' PROVE FALSE
      <4>1. v # w
        BY <3>2, <3>3 DEF Inside
      <4>2. work'[v] = work[v]
        BY <1>t, <2>7, <4>1 DEF Store
      <4>3. Inside(v)
        BY <3>3, <4>2 DEF Inside
      <4> QED
        BY <3>2, <4>1, <4>3 DEF LockInv
    <3> QED
      BY <3>1, <3>3 DEF Stored
  <2>8. CASE WorkerStep(w) /\ ~(\/ RecordFailure(w) \/ BeginEvaluation(w) \/ ReadDeal(w)
                                \/ ReadDecisions(w) \/ Store(w))
    BY <1>5, <2>t, <2>8 DEF AtEvaluation, Past, WorkerStep, HandlerStep, CheckResearch,
       CreateReport, CreateResearchJob, Transition, StartCollection, CompleteCollection,
       RequestEvaluation, Claim, Complete, Settle, At
  <2> QED
    BY <2>1, <2>2, <2>3, <2>4, <2>5, <2>6, <2>7, <2>8, OwnWork
<1> QED
  BY <1>1, <1>4, <1>5

LEMMA StoredMoves ==
  ASSUME TypeOK, [Next]_vars, ~lost', NEW m \in 0 .. version, Stored(m)
  PROVE  Stored(m)'
<1>t. /\ work \in [Workers -> Work] /\ version \in Nat /\ m \in Nat /\ m <= version
      /\ stored.at \in Nat
  BY DEF TypeOK, Work
<1>1. stored'.at >= m
  <2>1. ASSUME NEW w \in Workers, Store(w) PROVE stored'.at >= m
    <3>1. work[w].seen.at \in Nat /\ stored'.at = work[w].seen.at
      BY <1>t, <2>1 DEF Store, Work, Reading
    <3>2. CASE At(w, "sop.evaluate", "store")
      BY <3>1, <3>2 DEF At, Stored, Inside, Past
    <3>3. CASE At(w, "ai.generate", "store")
      <4>1. ~(work[w].seen.at < stored.at)
        BY <2>1, <3>3 DEF At, Store
      <4> QED
        BY <1>t, <3>1, <4>1 DEF Stored
    <3> QED
      BY <2>1, <3>2, <3>3 DEF Store, Evaluating
  <2> QED
    BY <2>1, ResultMoves DEF Stored
<1>2. ASSUME NEW w \in Workers, Inside(w)', Past(w)' PROVE work'[w].seen.at >= m
  <2>1. CASE work'[w] = work[w]
    BY <1>2, <2>1 DEF Stored, Inside, Past
  <2>2. CASE ReadDeal(w)
    <3>1. work'[w].seen.at = version
      BY <1>2, <2>2, ReadDealMove DEF Past
    <3> QED
      BY <1>t, <3>1
  <2>3. CASE ReadDecisions(w)
    <3>1. /\ work'[w].task = work[w].task /\ work'[w].seen.at = work[w].seen.at
          /\ work[w].step = "read decisions"
      BY <2>3, ReadDecisionsMove DEF ReadDecisions, Evaluating, At
    <3> QED
      BY <1>2, <3>1 DEF Stored, Inside, Past
  <2>4. CASE BeginEvaluation(w)
    <3>1. work'[w].step \in {"done", "read deal"}
      BY <2>4, GotoMove DEF BeginEvaluation
    <3> QED
      BY <1>2, <3>1 DEF Past
  <2>5. CASE CheckResearch(w)
    BY <1>2, <2>5, CheckResearchMove DEF Past
  <2> QED
    BY <1>2, <2>1, <2>2, <2>3, <2>4, <2>5, WorkerMoves DEF Past
<1> QED
  BY <1>1, <1>2 DEF Stored

\* Evidence that is kept: what was read of it, and the result, reflect it as before.
LEMMA SettledMoves ==
  ASSUME TypeOK, [Next]_vars, EvidenceKept, Latest # 0, NEW m \in 0 .. version, Settled(m)
  PROVE  Settled(m)'
<1>t. work \in [Workers -> Work]
  BY DEF TypeOK, Work
<1> DEFINE Is(v) == \E s \in report[Latest].red : decision[Latest][s] = v
<1>e. /\ Latest' = Latest /\ Latest \in Reports /\ decision' = decision
      /\ report'[Latest].red = report[Latest].red
  <2>1. {r \in Reports : Exists(r)}' = {r \in Reports : Exists(r)}
    BY DEF EvidenceKept
  <2> QED
    BY <2>1, LatestType DEF EvidenceKept, Latest
<1>r. Reflects(Latest) <=> /\ stored.report = Latest
                           /\ stored.confirmed <=> Is("confirmed")
                           /\ stored.followUp <=> Is("follow_up")
  BY DEF Reflects
<1>p. Reflects(Latest)' <=> /\ stored'.report = Latest
                            /\ stored'.confirmed <=> Is("confirmed")
                            /\ stored'.followUp <=> Is("follow_up")
  BY <1>e DEF Reflects
<1>q. \A w \in Workers : SeenCurrent(w)' <=>
        /\ work'[w].seen.report = Latest
        /\ work'[w].step = "read decisions" => work'[w].seen.red = report[Latest].red
        /\ work'[w].step = "store" => /\ work'[w].seen.confirmed <=> Is("confirmed")
                                      /\ work'[w].seen.followUp <=> Is("follow_up")
  BY <1>e DEF SeenCurrent
<1>s. \A w \in Workers : SeenCurrent(w) <=>
        /\ work[w].seen.report = Latest
        /\ work[w].step = "read decisions" => work[w].seen.red = report[Latest].red
        /\ work[w].step = "store" => /\ work[w].seen.confirmed <=> Is("confirmed")
                                     /\ work[w].seen.followUp <=> Is("follow_up")
  BY DEF SeenCurrent
<1>1. ASSUME stored'.at >= m PROVE Reflects(Latest)'
  <2>1. CASE UNCHANGED stored
    BY <1>1, <1>r, <1>p, <2>1 DEF Settled
  <2>2. ASSUME NEW w \in Workers, Store(w) PROVE Reflects(Latest)'
    <3>1. /\ stored'.at = work[w].seen.at /\ stored'.report = work[w].seen.report
          /\ stored'.confirmed = work[w].seen.confirmed
          /\ stored'.followUp = work[w].seen.followUp /\ work[w].step = "store"
      BY <2>2 DEF Store, Evaluating, At
    <3>2. SeenCurrent(w)
      BY <1>1, <3>1 DEF Settled, Past
    <3> QED
      BY <1>p, <1>s, <3>1, <3>2
  <2> QED
    BY <2>1, <2>2, ResultMoves
<1>2. ASSUME NEW w \in Workers, Past(w)', work'[w].seen.at >= m PROVE SeenCurrent(w)'
  <2>1. CASE work'[w] = work[w]
    BY <1>2, <1>q, <1>s, <2>1 DEF Settled, Past
  <2>2. CASE ReadDeal(w)
    <3>1. /\ work'[w].step = "read decisions" /\ work'[w].seen.report = Latest
          /\ work'[w].seen.red = report[Latest].red
      BY <1>2, <2>2, ReadDealMove DEF Past
    <3> QED
      BY <1>q, <3>1
  <2>3. CASE ReadDecisions(w)
    <3>1. SeenCurrent(w) /\ work[w].step = "read decisions"
      BY <1>2, <2>3, ReadDecisionsMove DEF Settled, Past, ReadDecisions, Evaluating, At
    <3>2. work[w].seen.report = Latest /\ work[w].seen.red = report[Latest].red
      BY <1>s, <3>1
    <3>3. work' = [work EXCEPT ![w].step = "store",
                     ![w].seen = [@ EXCEPT !.red = {}, !.confirmed = Is("confirmed"),
                                           !.followUp = Is("follow_up")]]
      BY <2>3, <3>2 DEF ReadDecisions
    <3> DEFINE a == Is("confirmed")
               b == Is("follow_up")
    <3> HIDE DEF a, b
    <3>4. work' = [work EXCEPT ![w].step = "store",
                     ![w].seen = [@ EXCEPT !.red = {}, !.confirmed = a, !.followUp = b]]
      BY <3>3 DEF a, b
    <3>5. /\ work'[w].step = "store" /\ work'[w].seen.report = work[w].seen.report
          /\ work'[w].seen.confirmed = a /\ work'[w].seen.followUp = b
      BY <1>t, <3>4 DEF Work, Reading
    <3> QED
      BY <1>q, <3>2, <3>5 DEF a, b
  <2>4. CASE BeginEvaluation(w)
    <3>1. work'[w].step \in {"done", "read deal"}
      BY <2>4, GotoMove DEF BeginEvaluation
    <3> QED
      BY <1>2, <3>1 DEF Past
  <2>5. CASE CheckResearch(w)
    BY <1>2, <2>5, CheckResearchMove DEF Past
  <2> QED
    BY <1>2, <2>1, <2>2, <2>3, <2>4, <2>5, WorkerMoves DEF Past
<1> QED
  BY <1>1, <1>2 DEF Settled

\* Evidence that is new: nobody has read it and the result is of an earlier version.
LEMMA NewEvidence ==
  ASSUME TypeOK, DatedInv, NEW m, m = version', version' = version + 1,
         UNCHANGED stored, \A w \in Workers : Past(w)' => work'[w] = work[w]
  PROVE  m \in 0 .. version' /\ Settled(m)'
<1>1. /\ version \in Nat /\ stored.at \in Nat /\ stored.at <= version
      /\ \A w \in Workers : work[w].seen.at \in Nat /\ work[w].seen.at <= version
  BY DEF TypeOK, Reading, DatedInv
<1>2. ~(stored'.at >= m)
  BY <1>1
<1>3. ASSUME NEW w \in Workers, Past(w)' PROVE ~(work'[w].seen.at >= m)
  BY <1>1, <1>3
<1> QED
  BY <1>1, <1>2, <1>3 DEF Settled

LEMMA CatchUpStep ==
  IInv /\ NumberedInv /\ ExistInv /\ CatchUpInv /\ [Next]_vars => CatchUpInv'
<1> SUFFICES ASSUME TypeOK, DatedInv, LockInv, NumberedInv, ExistInv, CatchUpInv, [Next]_vars,
                    Latest' # 0, report'[Latest'].found # {}, ~lost'
             PROVE  \E m \in 0 .. version' : Settled(m)' /\ Owed(m)'
  BY DEF IInv, CatchUpInv
<1>t. /\ version \in Nat /\ version' \in Nat /\ version' >= version /\ ~lost
      /\ work \in [Workers -> Work] /\ call \in [Requests -> Calls]
  BY SameVersion, LostStays DEF TypeOK, Work, Calls
<1>1. CASE NewReport
  <2>1. Latest' = NextReport /\ report'[NextReport].found = {}
    BY <1>1, NewReportIs
  <2> QED
    BY <2>1
<1>2. ASSUME NEW w \in Workers, CompleteCollection(w)
      PROVE \E m \in 0 .. version' : Settled(m)' /\ Owed(m)'
  <2>1. version' = version + 1 /\ UNCHANGED stored /\ Goto(w, "request evaluation")
    BY <1>2 DEF CompleteCollection
  <2>2. work'[w].step = "request evaluation" /\ work'[w].task = work[w].task
    BY <2>1, GotoMove
  <2>3. \A v \in Workers : Past(v)' => work'[v] = work[v]
    BY <1>t, <2>1, <2>2 DEF Goto, Past
  <2>4. PICK m : m = version'
    OBVIOUS
  <2>5. m \in 0 .. version' /\ Settled(m)'
    BY <2>1, <2>3, <2>4, NewEvidence
  <2>6. CollectionDue'
    <3>1. /\ Subject(work[w].task) \in Reports
          /\ work[w].task = Collect(Subject(work[w].task))
      BY <1>2, AtCollection DEF CompleteCollection, At
    <3>2. PICK r \in Reports : work[w].task = Collect(r)
      BY <3>1
    <3> QED
      BY <2>2, <3>2 DEF CollectionDue
  <2> QED
    BY <2>5, <2>6 DEF Owed
<1>3. ASSUME NEW c \in Requests, RecordDecision(c)
      PROVE \E m \in 0 .. version' : Settled(m)' /\ Owed(m)'
  <2>1. version' = version + 1 /\ UNCHANGED <<stored, work>> /\ CallTo(c, "request evaluation")
    BY <1>3 DEF RecordDecision
  <2>2. call'[c].step = "request evaluation"
    BY <1>t, <2>1 DEF CallTo, Calls
  <2>3. DecisionDue'
    BY <2>2 DEF DecisionDue
  <2>4. PICK m : m = version'
    OBVIOUS
  <2>5. m \in 0 .. version' /\ Settled(m)'
    BY <2>1, <2>4, NewEvidence
  <2> QED
    BY <2>3, <2>5 DEF Owed
<1>4. CASE EvidenceKept
  <2>1. /\ Latest' = Latest /\ Latest # 0 /\ report'[Latest].found = report[Latest].found
    <3>1. {r \in Reports : Exists(r)}' = {r \in Reports : Exists(r)}
      BY <1>4 DEF EvidenceKept
    <3>2. Latest' = Latest
      BY <3>1 DEF Latest
    <3> QED
      BY <1>4, <3>2, LatestType DEF EvidenceKept
  <2>2. PICK m \in 0 .. version : Settled(m) /\ Owed(m)
    BY <1>t, <2>1 DEF CatchUpInv
  <2>3. m \in 0 .. version' /\ Settled(m)'
    BY <1>t, <1>4, <2>1, <2>2, SettledMoves
  <2>4. CASE EvaluationRequested
    BY <2>3, <2>4, RequestedMoves DEF Owed
  <2>5. CASE ~EvaluationRequested
    BY <2>2, <2>3, <2>5, CollectionMoves, DecisionMoves, EvaluationMoves, StoredMoves DEF Owed
  <2> QED
    BY <2>4, <2>5
<1> QED
  BY <1>1, <1>2, <1>3, <1>4, EvidenceMoves

\* While the deal's result does not reflect the decisions on its latest report, the evaluation
\* that will is under way, asked for, or known to be lost.
LEMMA CatchUpInvariance == Spec => []CInv
<1>1. Init => NumberedInv /\ ExistInv /\ CatchUpInv
  <2> SUFFICES ASSUME Init PROVE NumberedInv /\ ExistInv /\ CatchUpInv
    OBVIOUS
  <2>1. \A r \in Reports : ~Exists(r) /\ report[r].found = {}
    BY DEF Init, Exists
  <2>2. /\ \A r \in Reports : job[Collect(r)] = "absent"
        /\ \A e \in Evaluations : job[Evaluate(e)] = "absent"
    BY JobNames DEF Init, Collect, Evaluate, Generate
  <2>3. \A r \in Reports : Exists(r) <=> r <= 0
    BY <2>1 DEF Reports
  <2>4. \A e \in Evaluations : job[Evaluate(e)] # "absent" <=> e <= 0
    BY <2>2 DEF Evaluations
  <2>5. 0 \in 0 .. MaxReports /\ 0 \in 0 .. MaxEvaluations
    BY BoundsAssumption
  <2>6. Latest = 0
    BY <2>3, <2>5, LatestIs
  <2>7. ExistInv
    BY <2>1, <2>2 DEF Init, ExistInv, NoWork, NoCall
  <2> QED
    BY <2>3, <2>4, <2>5, <2>6, <2>7 DEF NumberedInv, CatchUpInv
<1>2. IInv /\ NumberedInv /\ ExistInv /\ CatchUpInv /\ [Next]_vars
        => (NumberedInv /\ ExistInv /\ CatchUpInv)'
  BY NumberedStep, ExistStep, CatchUpStep DEF IInv
<1>3. CInv <=> IInv /\ NumberedInv /\ ExistInv /\ CatchUpInv
  BY DEF CInv
<1> QED
  BY <1>1, <1>2, <1>3, Invariance, PTL DEF Spec

\* README: confirmed red-flag evidence and outstanding follow-ups feed back into re-evaluation.
\* With any number of workers, requests, reports and evaluations, whatever their order, retries
\* and crashes: once all is done, the result of the deal reflects the decisions on its latest
\* report, unless the evaluation of them was lost in one of the ways the model names.
THEOREM CatchesUp == Spec => []ResultCatchesUp
<1>1. CInv => ResultCatchesUp
  <2> SUFFICES ASSUME CInv, AtRest, Latest # 0, report[Latest].found # {}, ~lost
               PROVE Reflects(Latest)
    BY DEF ResultCatchesUp
  <2>1. PICK m \in 0 .. version : Settled(m) /\ Owed(m)
    BY DEF CInv, CatchUpInv
  <2>2. \A j \in Jobs : ~Waiting(j)
    BY DEF AtRest, Waiting
  <2>3. ~CollectionDue
    BY <2>2, JobNames DEF CollectionDue, AtRest
  <2>4. ~DecisionDue
    BY DEF DecisionDue, AtRest
  <2>5. ~EvaluationDue(m)
    BY <2>2, JobNames DEF EvaluationDue, AtEvaluation, Past, AtRest
  <2> QED
    BY <2>1, <2>3, <2>4, <2>5 DEF Owed, Stored, Settled
<1> QED
  BY <1>1, CatchUpInvariance, PTL

-----------------------------------------------------------------------------
(* Scoring.  The weight is defined by recursion on a set of categories; that  *)
(* it is the number of points they are worth is shown on a smallest set for   *)
(* which it is not.                                                           *)

\* A set of subsets of a finite set has one with none of the others inside.
LEMMA MinimalSubset ==
  ASSUME NEW S, IsFiniteSet(S), NEW T \in SUBSET SUBSET S, T # {}
  PROVE  \E X \in T : \A Y \in T : Y \subseteq X => Y = X
<1>1. IsWellFoundedOn(StrictSubsetOrdering(S), SUBSET S)
  BY FS_StrictSubsetOrderingWellFounded, FS_FiniteSubsetsOfFinite
<1>2. PICK X \in T : \A Y \in T : ~(<<Y, X>> \in StrictSubsetOrdering(S))
  BY <1>1, WFMin
<1>3. \A Y \in T : Y \subseteq X => Y = X
  BY <1>2 DEF StrictSubsetOrdering
<1> QED
  BY <1>3

\* The weight of a set of categories, as the number of half points they are worth.
Points(rules, C) == {p \in C \X Nat : p[2] \in 1 .. rules.weight[p[1]]}

\* The weights of these categories are numbers.
Weighs(rules, A) == \A c \in A : rules.weight[c] \in Nat

LEMMA PointsOfOneMore ==
  ASSUME NEW rules, NEW A, Weighs(rules, A), NEW C \in SUBSET A, NEW c \in C,
         IsFiniteSet(Points(rules, C \ {c}))
  PROVE  /\ IsFiniteSet(Points(rules, C))
         /\ Cardinality(Points(rules, C)) = rules.weight[c] + Cardinality(Points(rules, C \ {c}))
<1> DEFINE w == rules.weight[c]
<1> DEFINE own == {c} \X (1 .. w)
<1> DEFINE rest == Points(rules, C \ {c})
<1>1. w \in Nat
  BY DEF Weighs
<1> HIDE DEF w
<1>2. IsFiniteSet(1 .. w) /\ Cardinality(1 .. w) = w
  BY <1>1, FS_Interval
<1>3. IsFiniteSet({c}) /\ Cardinality({c}) = 1
  BY FS_Singleton
<1>4. IsFiniteSet(own) /\ Cardinality(own) = w
  <2>1. IsFiniteSet(own) /\ Cardinality(own) = Cardinality({c}) * Cardinality(1 .. w)
    BY <1>2, <1>3, FS_Product
  <2> QED
    BY <2>1, <1>1, <1>2, <1>3
<1>5. Points(rules, C) = own \cup rest
  BY <1>1 DEF Points, w
<1>6. own \cap rest = {}
  BY DEF Points
<1>7. IsFiniteSet(own \cup rest)
      /\ Cardinality(own \cup rest) = Cardinality(own) + Cardinality(rest) - Cardinality(own \cap rest)
  BY <1>4, FS_Union
<1>8. Cardinality(rest) \in Nat /\ Cardinality(own \cap rest) = 0
  BY <1>6, FS_CardinalityType, FS_EmptySet
<1> HIDE DEF own, rest
<1>9. Cardinality(own \cup rest) = w + Cardinality(rest)
  BY <1>1, <1>4, <1>7, <1>8
<1> QED
  BY <1>5, <1>7, <1>9 DEF w, rest

LEMMA PointsFinite ==
  ASSUME NEW rules, NEW A, IsFiniteSet(A), Weighs(rules, A), NEW B \in SUBSET A
  PROVE  IsFiniteSet(Points(rules, B))
<1> DEFINE T == {C \in SUBSET A : ~IsFiniteSet(Points(rules, C))}
<1> SUFFICES ASSUME T # {} PROVE FALSE
  OBVIOUS
<1>1. PICK C \in T : \A D \in T : D \subseteq C => D = C
  <2>1. T \in SUBSET SUBSET A
    OBVIOUS
  <2> HIDE DEF T
  <2> QED
    BY <2>1, MinimalSubset
<1>2. C # {}
  <2>1. Points(rules, {}) = {}
    BY DEF Points
  <2> QED
    BY <2>1, FS_EmptySet
<1>3. PICK c \in C : TRUE
  BY <1>2
<1>4. C \ {c} \notin T
  BY <1>1, <1>3
<1>5. IsFiniteSet(Points(rules, C \ {c}))
  BY <1>4
<1> QED
  BY <1>3, <1>5, PointsOfOneMore

\* The recursion of the weight is the number of points.
LEMMA WeightIsPoints ==
  ASSUME NEW rules, NEW A, IsFiniteSet(A), Weighs(rules, A)
  PROVE  Weight(rules, A) = Cardinality(Points(rules, A))
<1> DEFINE Sums(f) ==
      f = [C \in SUBSET A |->
             IF C = {} THEN 0
             ELSE LET c == CHOOSE c \in C : TRUE IN rules.weight[c] + f[C \ {c}]]
<1> DEFINE sum == CHOOSE f : Sums(f)
<1> DEFINE count == [C \in SUBSET A |-> Cardinality(Points(rules, C))]
<1>1. \A C \in SUBSET A : C # {} =>
        LET c == CHOOSE c \in C : TRUE IN count[C] = rules.weight[c] + count[C \ {c}]
  <2> SUFFICES ASSUME NEW C \in SUBSET A, C # {}
               PROVE  LET c == CHOOSE c \in C : TRUE
                      IN  count[C] = rules.weight[c] + count[C \ {c}]
    OBVIOUS
  <2> DEFINE c == CHOOSE c \in C : TRUE
  <2>1. c \in C /\ C \ {c} \in SUBSET A
    OBVIOUS
  <2>2. IsFiniteSet(Points(rules, C \ {c}))
    BY <2>1, PointsFinite
  <2> HIDE DEF c
  <2>3. Cardinality(Points(rules, C)) = rules.weight[c] + Cardinality(Points(rules, C \ {c}))
    BY <2>1, <2>2, PointsOfOneMore
  <2>4. count[C] = rules.weight[c] + count[C \ {c}]
    BY <2>1, <2>3
  <2> QED
    BY <2>4 DEF c
<1>2. count[{}] = 0
  <2>1. Points(rules, {}) = {}
    BY DEF Points
  <2> QED
    BY <2>1, FS_EmptySet
<1>3. Sums(count)
  <2> SUFFICES ASSUME NEW C \in SUBSET A
               PROVE  count[C] = IF C = {} THEN 0
                                 ELSE LET c == CHOOSE c \in C : TRUE
                                      IN  rules.weight[c] + count[C \ {c}]
    OBVIOUS
  <2> HIDE DEF count
  <2> QED
    BY <1>1, <1>2
<1>4. Sums(sum)
  <2> HIDE DEF Sums
  <2> QED
    BY <1>3
<1>5. Weight(rules, A) = sum[A]
  BY DEF Weight
<1>6. \A C \in SUBSET A : sum[C] = count[C]
  <2> DEFINE T == {C \in SUBSET A : sum[C] # count[C]}
  <2> SUFFICES ASSUME T # {} PROVE FALSE
    OBVIOUS
  <2> HIDE DEF sum, count
  <2>1. PICK C \in T : \A D \in T : D \subseteq C => D = C
    <3>1. T \in SUBSET SUBSET A
      OBVIOUS
    <3> HIDE DEF T
    <3> QED
      BY <3>1, MinimalSubset
  <2>2. C # {}
    BY <1>2, <1>4
  <2> DEFINE c == CHOOSE c \in C : TRUE
  <2>3. c \in C
    BY <2>2
  <2>4. sum[C] = rules.weight[c] + sum[C \ {c}]
    BY <1>4, <2>2
  <2>5. count[C] = rules.weight[c] + count[C \ {c}]
    BY <1>1, <2>2
  <2> HIDE DEF c
  <2>6. C \ {c} \notin T /\ C \ {c} \in SUBSET A
    BY <2>1, <2>3
  <2> QED
    BY <2>4, <2>5, <2>6
<1> QED
  BY <1>5, <1>6

LEMMA WeightGrows ==
  ASSUME NEW rules, rules.weight \in [Categories -> Nat], NEW B \in SUBSET Categories,
         NEW A \in SUBSET B
  PROVE  Weight(rules, A) \in Nat /\ Weight(rules, B) \in Nat /\ Weight(rules, A) <= Weight(rules, B)
<1>1. IsFiniteSet(Categories)
  <2>1. IsFiniteSet({"documentCompleteness"}) /\ IsFiniteSet({"companyVerification"})
    BY FS_Singleton
  <2>2. IsFiniteSet({"documentCompleteness"} \cup {"companyVerification"})
    BY <2>1, FS_Union
  <2>3. IsFiniteSet(({"documentCompleteness"} \cup {"companyVerification"}) \cup Keys)
    BY <2>2, ScoringAssumption, FS_Union
  <2>4. Categories = ({"documentCompleteness"} \cup {"companyVerification"}) \cup Keys
    BY DEF Categories
  <2> QED
    BY <2>3, <2>4
<1>2. IsFiniteSet(A) /\ IsFiniteSet(B) /\ Weighs(rules, A) /\ Weighs(rules, B)
  BY <1>1, FS_Subset DEF Weighs
<1>3. /\ Weight(rules, A) = Cardinality(Points(rules, A))
      /\ Weight(rules, B) = Cardinality(Points(rules, B))
  BY <1>2, WeightIsPoints
<1>4. IsFiniteSet(Points(rules, B))
  BY <1>2, PointsFinite
<1>5. Points(rules, A) \subseteq Points(rules, B)
  BY DEF Points
<1> QED
  BY <1>3, <1>4, <1>5, FS_Subset, FS_CardinalityType

\* What more evidence changes: less is missing, more is met, and no flag is raised.
Furthers(rules, known, more) ==
  /\ MissingDocuments(rules, more) \subseteq MissingDocuments(rules, known)
  /\ HasName(known) => HasName(more)
  /\ \A k \in Keys : known.answer[k] # "none" => more.answer[k] # "none"
  /\ RedFlags(rules, more) = RedFlags(rules, known)
  /\ more.followUp = known.followUp

LEMMA ScoreGrows ==
  ASSUME NEW rules, rules.weight \in [Categories -> Nat], NEW known, NEW more,
         Furthers(rules, known, more)
  PROVE  /\ Score(rules, known) \in Nat /\ Score(rules, more) \in Nat
         /\ Score(rules, known) <= Score(rules, more)
<1>1. MetCategories(rules, known) \subseteq MetCategories(rules, more)
  BY DEF MetCategories, Met, Furthers, Categories
<1>2. MetCategories(rules, more) \subseteq Categories
  BY DEF MetCategories
<1> DEFINE a == Weight(rules, MetCategories(rules, known))
<1> DEFINE b == Weight(rules, MetCategories(rules, more))
<1>3. a \in Nat /\ b \in Nat /\ a <= b
  BY <1>1, <1>2, WeightGrows
<1> HIDE DEF a, b
<1>4. Rounded(a) \in Nat /\ Rounded(b) \in Nat /\ Rounded(a) <= Rounded(b)
  BY <1>3 DEF Rounded
<1>5. /\ Capped(Rounded(a)) \in Nat /\ Capped(Rounded(b)) \in Nat
      /\ Capped(Rounded(a)) <= Capped(Rounded(b))
  BY <1>4 DEF Capped
<1> QED
  BY <1>5 DEF Score, a, b

LEMMA FailuresShrink ==
  ASSUME NEW rules, NEW known, NEW more, Furthers(rules, known, more)
  PROVE  Failures(rules, more) \subseteq Failures(rules, known)
BY DEF Furthers, Failures

LEMMA RatingGrows ==
  ASSUME NEW rules, rules.weight \in [Categories -> Nat], NEW known, NEW more,
         Furthers(rules, known, more)
  PROVE  Rank(Rating(rules, known)) <= Rank(Rating(rules, more))
<1> DEFINE a == Score(rules, known)
<1> DEFINE b == Score(rules, more)
<1>1. a \in Nat /\ b \in Nat /\ a <= b
  BY ScoreGrows
<1>2. RedFlags(rules, more) = RedFlags(rules, known)
  BY DEF Furthers
<1>3. Failures(rules, known) = {} => Failures(rules, more) = {}
  BY FailuresShrink
<1>4. Rank(Band(a)) <= Rank(Band(b)) /\ Rank(Band(b)) >= 1
  <2> HIDE DEF a, b
  <2> QED
    BY <1>1 DEF Rank, Band
<1> HIDE DEF a, b
<1>5. CASE RedFlags(rules, known) # {}
  BY <1>2, <1>5 DEF Rating, Rank
<1>6. CASE RedFlags(rules, known) = {} /\ Failures(rules, known) # {}
  <2>1. Rank(Rating(rules, known)) = 1
    BY <1>6 DEF Rating, Rank
  <2>2. Rating(rules, more) \in {"D", Band(b)}
    BY <1>2, <1>6 DEF Rating, b
  <2>3. Rank("D") = 1 /\ Rank(Band(b)) \in Nat
    BY DEF Rank, Band
  <2> QED
    BY <1>4, <2>1, <2>2, <2>3
<1>7. CASE RedFlags(rules, known) = {} /\ Failures(rules, known) = {}
  BY <1>2, <1>3, <1>4, <1>7 DEF Rating, a, b
<1> QED
  BY <1>5, <1>6, <1>7

\* To proceed is recommended exactly when nothing stands against it.
LEMMA ProceedsWhen ==
  ASSUME NEW rules, NEW known, HasWayForward(rules)
  PROVE  Proceeds(rules, known) <=>
           ~known.followUp /\ RedFlags(rules, known) = {} /\ Failures(rules, known) = {}
<1> DEFINE way == rules.recommend["proceed"]
<1>1. /\ way # NoRule /\ way # "manual_review" /\ way # "request_missing_information"
      /\ way # rules.recommend["missingProofOfFunds"]
      /\ way # rules.recommend["missingRequirements"]
  BY DEF HasWayForward, RuleKeys
<1>2. MissingRule(rules, known) \in {rules.recommend["missingProofOfFunds"],
                                    rules.recommend["missingRequirements"], NoRule}
  BY DEF MissingRule
<1>3. Failures(rules, known) = {} => MissingRule(rules, known) = NoRule
  BY DEF MissingRule, Failures
<1> HIDE DEF way
<1> QED
  BY <1>1, <1>2, <1>3 DEF Proceeds, Recommendation, way

LEMMA FurtheringIsNoWorse ==
  ASSUME NEW rules, rules.weight \in [Categories -> Nat], NEW known, NEW more,
         Furthers(rules, known, more)
  PROVE  NoWorse(rules, known, more)
<1>1. Proceeds(rules, known) => Proceeds(rules, more)
  <2> SUFFICES ASSUME Proceeds(rules, known) PROVE Proceeds(rules, more)
    OBVIOUS
  <2>1. HasWayForward(rules)
    BY DEF Proceeds
  <2>2. ~known.followUp /\ RedFlags(rules, known) = {} /\ Failures(rules, known) = {}
    BY <2>1, ProceedsWhen
  <2>3. ~more.followUp /\ RedFlags(rules, more) = {} /\ Failures(rules, more) = {}
    BY <2>2, FailuresShrink DEF Furthers
  <2> QED
    BY <2>1, <2>3, ProceedsWhen
<1> QED
  BY <1>1, ScoreGrows, RatingGrows DEF NoWorse

\* Rules and evidence have their fields, with natural weights, in every evaluation.
ScoringInv ==
  /\ template.weight \in [Categories -> Nat] /\ template.redFlagKeys \subseteq Keys
  /\ evidence \in Evidence

LEMMA ScoringInvariance == ScoringSpec => []ScoringInv
<1>1. ScoringInit => ScoringInv
  BY ScoringAssumption DEF ScoringInit, ScoringInv, RuleSets
<1>2. ScoringInv /\ [ScoringNext]_scoringVars => ScoringInv'
  <2> SUFFICES ASSUME ScoringInv, [ScoringNext]_scoringVars PROVE ScoringInv'
    OBVIOUS
  <2>1. CASE EvidenceDecided
    <3>1. PICK c \in BOOLEAN, f \in BOOLEAN :
            evidence' = [evidence EXCEPT !.confirmed = c, !.followUp = f]
      BY <2>1, Zenon DEF EvidenceDecided
    <3>2. evidence' \in Evidence
      BY <3>1 DEF ScoringInv, Evidence
    <3> QED
      BY <2>1, <3>2 DEF ScoringInv, EvidenceDecided
  <2>2. CASE DocumentSettled
    BY <2>2 DEF ScoringInv, DocumentSettled, Evidence
  <2>3. CASE UNCHANGED scoringVars
    BY <2>3 DEF ScoringInv, scoringVars
  <2> QED
    BY <2>1, <2>2, <2>3 DEF ScoringNext
<1> QED
  BY <1>1, <1>2, PTL DEF ScoringSpec

LEMMA MoreStep ==
  ASSUME NEW r, r.weight \in [Categories -> Nat], r.redFlagKeys \subseteq Keys,
         NEW known \in Evidence
  PROVE  /\ \A t \in DocumentTypes :
              NoWorse(r, known, [known EXCEPT !.documents = known.documents \cup {t}])
         /\ \A k \in Keys :
              known.answer[k] = "none" => NoWorse(r, known, [known EXCEPT !.answer[k] = "text"])
         /\ \A i \in 1 .. 3 : NoWorse(r, known, [known EXCEPT !.names[i] = "given"])
<1>1. known \in Evidence /\ r.weight \in [Categories -> Nat] /\ r.redFlagKeys \subseteq Keys
  OBVIOUS
<1>2. ASSUME NEW t \in DocumentTypes
      PROVE  NoWorse(r, known, [known EXCEPT !.documents = known.documents \cup {t}])
  <2> DEFINE more == [known EXCEPT !.documents = known.documents \cup {t}]
  <2>1. /\ more.answer = known.answer /\ more.names = known.names
        /\ more.confirmed = known.confirmed /\ more.followUp = known.followUp
        /\ more.documents = known.documents \cup {t}
    BY <1>1 DEF Evidence
  <2> HIDE DEF more
  <2>2. Furthers(r, known, more)
    BY <2>1 DEF Furthers, MissingDocuments, HasName, RedFlags
  <2> QED
    BY <1>1, <2>2, FurtheringIsNoWorse DEF more
<1>3. ASSUME NEW k \in Keys, known.answer[k] = "none"
      PROVE  NoWorse(r, known, [known EXCEPT !.answer[k] = "text"])
  <2> DEFINE more == [known EXCEPT !.answer[k] = "text"]
  <2>1. /\ more.names = known.names /\ more.documents = known.documents
        /\ more.confirmed = known.confirmed /\ more.followUp = known.followUp
        /\ \A x \in Keys : more.answer[x] = IF x = k THEN "text" ELSE known.answer[x]
    BY <1>1 DEF Evidence
  <2> HIDE DEF more
  <2>2. \A x \in Keys : more.answer[x] = "true" <=> known.answer[x] = "true"
    BY <1>3, <2>1
  <2>3. RedFlags(r, more) = RedFlags(r, known)
    BY <1>1, <2>1, <2>2 DEF RedFlags
  <2>4. Furthers(r, known, more)
    BY <1>3, <2>1, <2>3 DEF Furthers, MissingDocuments, HasName
  <2> QED
    BY <1>1, <2>4, FurtheringIsNoWorse DEF more
<1>4. ASSUME NEW i \in 1 .. 3
      PROVE  NoWorse(r, known, [known EXCEPT !.names[i] = "given"])
  <2> DEFINE more == [known EXCEPT !.names[i] = "given"]
  <2>1. /\ more.answer = known.answer /\ more.documents = known.documents
        /\ more.confirmed = known.confirmed /\ more.followUp = known.followUp
        /\ \A x \in 1 .. 3 : more.names[x] = IF x = i THEN "given" ELSE known.names[x]
    BY <1>1 DEF Evidence
  <2> HIDE DEF more
  <2>2. HasName(known) => HasName(more)
    <3> SUFFICES ASSUME NEW j \in 1 .. 3, known.names[j] = "given",
                        \A k \in 1 .. (j - 1) : known.names[k] = "null"
                 PROVE  HasName(more)
      BY DEF HasName
    <3>1. CASE i < j
      BY <2>1, <3>1 DEF HasName
    <3>2. CASE i >= j
      BY <2>1, <3>2 DEF HasName
    <3> QED
      BY <3>1, <3>2
  <2>3. Furthers(r, known, more)
    BY <2>1, <2>2 DEF Furthers, MissingDocuments, RedFlags
  <2> QED
    BY <1>1, <2>3, FurtheringIsNoWorse DEF more
<1> QED
  BY <1>2, <1>3, <1>4

\* More evidence never hurts, whatever the template and the deal (sop-evaluation.ts): the weight
\* of what is met only grows with it.
THEOREM MoreNeverHurts == ScoringSpec => []MoreEvidenceNeverHurts
<1>1. ScoringInv => MoreEvidenceNeverHurts
  BY MoreStep DEF ScoringInv, MoreEvidenceNeverHurts
<1> QED
  BY <1>1, ScoringInvariance, PTL

LEMMA ProceedStep ==
  ASSUME NEW r, NEW known, Proceeds(r, known)
  PROVE  /\ r.required \subseteq known.documents
         /\ r.needsName => HasName(known)
         /\ Rating(r, known) # "Reject" /\ ~known.confirmed /\ ~known.followUp
<1>1. ~known.followUp /\ RedFlags(r, known) = {} /\ Failures(r, known) = {}
  BY ProceedsWhen DEF Proceeds
<1>2. r.required \subseteq known.documents /\ (r.needsName => HasName(known))
  BY <1>1 DEF Failures, MissingDocuments
<1>3. ~known.confirmed
  BY <1>1 DEF RedFlags
<1>4. Rating(r, known) # "Reject"
  BY <1>1 DEF Rating, Band
<1> QED
  BY <1>1, <1>2, <1>3, <1>4

\* The configured way forward is recommended only of a deal with everything mandatory in place and
\* nothing held against it (sop-evaluation.ts).
THEOREM ProceedEarned == ScoringSpec => []ProceedIsEarned
<1>1. ScoringInv => ProceedIsEarned
  BY ProceedStep DEF ProceedIsEarned
<1> QED
  BY <1>1, ScoringInvariance, PTL

LEMMA DecisionStep ==
  ASSUME NEW r, NEW known \in Evidence
  PROVE  /\ known.confirmed => Rating(r, known) = "Reject"
         /\ known.followUp => Recommendation(r, known) = "manual_review"
         /\ Score(r, known) = Score(r, [known EXCEPT !.confirmed = FALSE, !.followUp = FALSE])
<1>1. known \in Evidence
  OBVIOUS
<1>2. known.confirmed => Rating(r, known) = "Reject"
  <2> SUFFICES ASSUME known.confirmed PROVE Rating(r, known) = "Reject"
    OBVIOUS
  <2>1. "research_evidence" \in RedFlags(r, known)
    BY DEF RedFlags
  <2> QED
    BY <2>1 DEF Rating
<1>3. known.followUp => Recommendation(r, known) = "manual_review"
  BY DEF Recommendation
<1>4. Score(r, known) = Score(r, [known EXCEPT !.confirmed = FALSE, !.followUp = FALSE])
  <2> DEFINE other == [known EXCEPT !.confirmed = FALSE, !.followUp = FALSE]
  <2>1. /\ other.answer = known.answer /\ other.names = known.names
        /\ other.documents = known.documents
    BY <1>1 DEF Evidence
  <2> HIDE DEF other
  <2>2. MetCategories(r, known) = MetCategories(r, other)
    BY <2>1 DEF MetCategories, Met, MissingDocuments, HasName
  <2> QED
    BY <2>2 DEF Score, other
<1> QED
  BY <1>2, <1>3, <1>4

\* What a reviewer decided of the evidence counts whatever else is known of the deal, and leaves
\* the score alone (sop-evaluation.ts, docs/portfolio/WALKTHROUGH.md).
THEOREM DecisionsFeedBack == ScoringSpec => []EvidenceFeedsBack
<1>1. ScoringInv => EvidenceFeedsBack
  BY DecisionStep, Zenon DEF ScoringInv, EvidenceFeedsBack
<1> QED
  BY <1>1, ScoringInvariance, PTL

=============================================================================
