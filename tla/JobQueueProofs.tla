--------------------------- MODULE JobQueueProofs ---------------------------
(***************************************************************************)
(* Proofs about the job queue for any sets of jobs, workers and tokens and *)
(* any bounds: type correctness, the lease invariant, mutual exclusion of  *)
(* lease holders, the refinement of the lease contract JobLease, and what  *)
(* holds of outcomes, attempts and the rows that jobs work on.             *)
(***************************************************************************)
EXTENDS JobQueue, TLAPS

\* A drawn token is new.
LEMMA FreshTokenIsNew ==
  ASSUME issued \subseteq Tokens, issued # Tokens
  PROVE  FreshToken \in Tokens /\ FreshToken \notin issued
<1>1. \E t \in Tokens : t \notin issued
  OBVIOUS
<1>2. QED
  BY <1>1 DEF FreshToken

\* Every action keeps every variable in its type, given that a worker past the poll has a job.
LEMMA TypeStep == TypeOK /\ ClaimsConsistent /\ [Next]_vars => TypeOK'
<1> SUFFICES ASSUME TypeOK, ClaimsConsistent, [Next]_vars PROVE TypeOK'
  OBVIOUS
<1> USE BoundsAssumption DEF TypeOK, Statuses, Terminal, RecordStatuses, Steps, Beating, Claims,
        NoClaim, jobVars, eventVars, faultVars
<1>0. \A w \in Workers : pc[w] \notin {"idle", "polling"} => claim[w].job \in Jobs
  BY DEF ClaimsConsistent
<1>1. ASSUME NEW j \in Jobs, Enqueue(j) PROVE TypeOK'
  BY <1>1 DEF Enqueue, BecomeDue, Without
<1>2. ASSUME NEW j \in Jobs, ManualRetry(j) PROVE TypeOK'
  BY <1>2 DEF ManualRetry, BecomeDue, Without
<1>3. ASSUME NEW j \in Jobs, BackoffElapses(j) PROVE TypeOK'
  BY <1>3 DEF BackoffElapses, BecomeDue, Without
<1>4. ASSUME NEW j \in Jobs, LeaseLapses(j) PROVE TypeOK'
  BY <1>4 DEF LeaseLapses
<1>5. ASSUME NEW w \in Workers, Recover(w) PROVE TypeOK'
  <2>1. due' \subseteq Jobs /\ earlier' \subseteq Jobs \X Jobs /\ lapsed' \subseteq Jobs
    BY <1>5 DEF Recover, BecomeDue, Without
  <2>2. status' \in [Jobs -> Statuses] /\ token' \in [Jobs -> Tokens \cup {NoToken}]
    BY <1>5 DEF Recover
  <2>3. pc' \in [Workers -> Steps]
    BY <1>5 DEF Recover, Goto
  <2>4. QED
    BY <1>5, <2>1, <2>2, <2>3 DEF Recover
<1>6. ASSUME NEW w \in Workers, Select(w) PROVE TypeOK'
  <2>1. CASE Drop(w)
    BY <1>6, <2>1 DEF Select, Drop, Goto
  <2>2. ASSUME NEW j \in Oldest, Goto(w, "selected"),
               claim' = [claim EXCEPT ![w] = [NoClaim EXCEPT !.job = j]]
        PROVE TypeOK'
    <3>1. j \in Jobs
      BY DEF Oldest
    <3>2. [NoClaim EXCEPT !.job = j] \in Claims
      BY <3>1
    <3>3. claim' \in [Workers -> Claims] /\ pc' \in [Workers -> Steps]
      BY <2>2, <3>2 DEF Goto
    <3>4. QED
      BY <1>6, <3>3 DEF Select
  <2>3. QED
    BY <1>6, <2>1, <2>2 DEF Select
<1>7. ASSUME NEW w \in Workers, ClaimWrite(w) PROVE TypeOK'
  <2>1. CASE issued # Tokens /\ TakeLease(claim[w].job, FreshToken)
             /\ issued' = issued \cup {FreshToken} /\ Goto(w, "claimed")
             /\ claim' = [claim EXCEPT ![w].token = FreshToken]
    <3>1. FreshToken \in Tokens
      BY <2>1, FreshTokenIsNew
    <3>2. pc[w] = "selected" /\ claim[w].job \in Jobs
      BY <1>0, <1>7 DEF ClaimWrite
    <3>3. claim' \in [Workers -> Claims]
      BY <2>1, <3>1
    <3>4. QED
      BY <1>7, <2>1, <3>1, <3>2, <3>3 DEF ClaimWrite, TakeLease, NotDue, Without, Goto
  <2>2. CASE Drop(w) /\ UNCHANGED <<jobVars, issued>>
    BY <1>7, <2>2 DEF ClaimWrite, Drop, Goto
  <2>3. QED
    BY <1>7, <2>1, <2>2 DEF ClaimWrite
<1>8. ASSUME NEW w \in Workers, ClaimRead(w) PROVE TypeOK'
  <2>1. claim[w].job \in Jobs
    BY <1>0, <1>8 DEF ClaimRead
  <2>2. claim' \in [Workers -> Claims] /\ pc' \in [Workers -> Steps]
    BY <1>8, <2>1 DEF ClaimRead, Goto, Drop
  <2>3. QED
    BY <1>8, <2>2 DEF ClaimRead
<1>9. ASSUME NEW w \in Workers, HandlerStart(w) \/ HandlerReturn(w) \/ HandlerThrow(w)
      PROVE TypeOK'
  <2>1. CASE HandlerStart(w)
    BY <2>1 DEF HandlerStart, MarkRecord, Goto
  <2>2. CASE HandlerReturn(w)
    BY <2>2 DEF HandlerReturn, MarkRecord, Goto
  <2>3. CASE HandlerThrow(w)
    BY <2>3 DEF HandlerThrow, Goto
  <2>4. QED
    BY <1>9, <2>1, <2>2, <2>3
<1>10. ASSUME NEW w \in Workers, Complete(w) \/ RecordFailure(w) PROVE TypeOK'
  <2>1. CASE Complete(w)
    BY <1>0, <2>1 DEF Complete, Release, Goto, Drop
  <2>2. CASE RecordFailure(w)
    <3>1. /\ status' \in [Jobs -> Statuses] /\ token' \in [Jobs -> Tokens \cup {NoToken}]
          /\ lapsed' \subseteq Jobs
      BY <1>0, <2>2 DEF RecordFailure, Release
    <3>2. pc' \in [Workers -> Steps] /\ claim' \in [Workers -> Claims]
      BY <2>2 DEF RecordFailure, Goto, Drop
    <3>3. UNCHANGED <<attempts, due, earlier, record, eventVars, issued, faultVars>>
      BY <2>2 DEF RecordFailure, Release
    <3>4. QED
      BY <3>1, <3>2, <3>3
  <2>3. QED
    BY <1>10, <2>1, <2>2
<1>11. ASSUME NEW w \in Workers, Announce(w) \/ SettleDependents(w) PROVE TypeOK'
  <2>1. CASE Announce(w)
    <3>1. claim[w].job \in Jobs /\ claim[w].attempts \in Nat
      BY <1>0, <2>1 DEF Announce
    <3>2. retried' \subseteq Jobs \X Nat /\ failures' \subseteq Jobs
      BY <2>1, <3>1 DEF Announce
    <3>3. QED
      BY <2>1, <3>2 DEF Announce, Goto, Drop
  <2>2. CASE SettleDependents(w)
    BY <1>0, <2>2 DEF SettleDependents, MarkRecord, Goto, Drop
  <2>3. QED
    BY <1>11, <2>1, <2>2
<1>12. ASSUME NEW w \in Workers, Heartbeat(w) \/ Crash(w) PROVE TypeOK'
  <2>1. CASE Heartbeat(w)
    BY <2>1 DEF Heartbeat
  <2>2. CASE Crash(w)
    BY <2>2 DEF Crash, Goto, Drop
  <2>3. QED
    BY <1>12, <2>1, <2>2
<1>13. CASE UNCHANGED vars
  BY <1>13 DEF vars
<1>14. QED
  BY <1>1, <1>2, <1>3, <1>4, <1>5, <1>6, <1>7, <1>8, <1>9, <1>10, <1>11, <1>12, <1>13
     DEF Next, WorkerStep

-----------------------------------------------------------------------------
(* The lease invariant.  Every action is one of a few moves on the rows and on the workers'   *)
(* memory; each move is shown to keep both halves of LeaseInv.                                 *)

\* What a step may do to the tokens of the rows besides granting one: take them away.
TokensWithdrawn == \A j \in Jobs : token'[j] = token[j] \/ token'[j] = NoToken

\* Withdrawing tokens from rows leaves the workers' claims consistent.
LEMMA WithdrawClaims ==
  ASSUME TypeOK, ClaimsConsistent, UNCHANGED <<claim, pc, issued, attempts>>, TokensWithdrawn
  PROVE  ClaimsConsistent'
  BY SentinelAssumption DEF TokensWithdrawn, TypeOK, ClaimsConsistent, Claims

\* So does a worker that forgets its claim: the end of an iteration, or a crash.
LEMMA DropClaims ==
  ASSUME NEW w \in Workers, TypeOK, ClaimsConsistent, Drop(w), UNCHANGED <<issued, attempts>>,
         TokensWithdrawn
  PROVE  ClaimsConsistent'
  BY SentinelAssumption
     DEF TokensWithdrawn, Drop, Goto, NoClaim, Steps, Beating, TypeOK, ClaimsConsistent, Claims

\* So does a worker that goes on to another step of process() with its claim unchanged.
LEMMA MoveClaims ==
  ASSUME NEW w \in Workers, NEW step \in Beating, TypeOK, ClaimsConsistent, pc[w] \in Beating,
         Goto(w, step), UNCHANGED <<claim, issued, attempts>>, TokensWithdrawn
  PROVE  ClaimsConsistent'
  BY SentinelAssumption
     DEF TokensWithdrawn, Goto, Steps, Beating, TypeOK, ClaimsConsistent, Claims

\* Settling or requeueing a leased row keeps the rows consistent.
LEMMA ReleaseRows ==
  ASSUME NEW w \in Workers, NEW j \in Jobs, NEW s \in Statuses \ {"running"},
         TypeOK, RowsConsistent, Holds(w, j), Release(j, s), UNCHANGED issued
  PROVE  RowsConsistent'
  BY DEF TypeOK, Holds, Release, RowsConsistent

LEMMA LeaseStep == IInv /\ [Next]_vars => LeaseInv'
<1> SUFFICES ASSUME TypeOK, LeaseInv, [Next]_vars PROVE LeaseInv'
  BY DEF IInv
<1> USE DEF TypeOK, jobVars, eventVars, faultVars
<1>1. ASSUME NEW j \in Jobs, Enqueue(j) PROVE LeaseInv'
  <2>1. RowsConsistent'
    BY <1>1 DEF Enqueue, BecomeDue, LeaseInv, RowsConsistent
  <2>2. ClaimsConsistent'
    BY <1>1, WithdrawClaims DEF TokensWithdrawn, Enqueue, LeaseInv
  <2>3. QED
    BY <2>1, <2>2 DEF LeaseInv
<1>2. ASSUME NEW j \in Jobs, ManualRetry(j) PROVE LeaseInv'
  <2>1. RowsConsistent'
    BY <1>2 DEF ManualRetry, BecomeDue, LeaseInv, RowsConsistent
  <2>2. ClaimsConsistent'
    BY <1>2, WithdrawClaims DEF TokensWithdrawn, ManualRetry, LeaseInv
  <2>3. QED
    BY <2>1, <2>2 DEF LeaseInv
<1>3. ASSUME NEW j \in Jobs, BackoffElapses(j) PROVE LeaseInv'
  <2>1. RowsConsistent'
    BY <1>3 DEF BackoffElapses, BecomeDue, LeaseInv, RowsConsistent
  <2>2. ClaimsConsistent'
    BY <1>3, WithdrawClaims DEF TokensWithdrawn, BackoffElapses, LeaseInv
  <2>3. QED
    BY <2>1, <2>2 DEF LeaseInv
<1>4. ASSUME NEW j \in Jobs, LeaseLapses(j) PROVE LeaseInv'
  <2>1. RowsConsistent'
    BY <1>4 DEF LeaseLapses, LeaseInv, RowsConsistent
  <2>2. ClaimsConsistent'
    BY <1>4, WithdrawClaims DEF TokensWithdrawn, LeaseLapses, LeaseInv
  <2>3. QED
    BY <2>1, <2>2 DEF LeaseInv
<1>5. ASSUME NEW w \in Workers, Recover(w) PROVE LeaseInv'
  <2>1. RowsConsistent'
    BY <1>5 DEF Recover, BecomeDue, LeaseInv, RowsConsistent
  <2>2. ClaimsConsistent'
    BY <1>5, SentinelAssumption
       DEF Recover, Goto, Steps, Beating, Claims, LeaseInv, ClaimsConsistent
  <2>3. QED
    BY <2>1, <2>2 DEF LeaseInv
<1>6. ASSUME NEW w \in Workers, Select(w) PROVE LeaseInv'
  <2>1. CASE Drop(w)
    BY <1>6, <2>1, DropClaims DEF Select, TokensWithdrawn, LeaseInv, RowsConsistent
  <2>2. ASSUME NEW j \in Oldest, Goto(w, "selected"),
               claim' = [claim EXCEPT ![w] = [NoClaim EXCEPT !.job = j]]
        PROVE LeaseInv'
    <3>1. RowsConsistent'
      BY <1>6 DEF Select, LeaseInv, RowsConsistent
    <3>2. j \in Jobs
      BY DEF Oldest
    <3>3. ClaimsConsistent'
      BY <1>6, <2>2, <3>2, SentinelAssumption
         DEF Select, Goto, NoClaim, Steps, Beating, Claims, LeaseInv, ClaimsConsistent
    <3>4. QED
      BY <3>1, <3>3 DEF LeaseInv
  <2>3. QED
    BY <1>6, <2>1, <2>2 DEF Select
<1>7. ASSUME NEW w \in Workers, ClaimWrite(w) PROVE LeaseInv'
  <2>1. CASE issued # Tokens /\ TakeLease(claim[w].job, FreshToken)
             /\ issued' = issued \cup {FreshToken} /\ Goto(w, "claimed")
             /\ claim' = [claim EXCEPT ![w].token = FreshToken]
    <3>1. FreshToken \in Tokens /\ FreshToken \notin issued /\ FreshToken # NoToken
      BY <2>1, FreshTokenIsNew, SentinelAssumption
    <3>2. pc[w] = "selected" /\ claim[w].job \in Jobs /\ claim[w].token = NoToken
      BY <1>7 DEF ClaimWrite, LeaseInv, ClaimsConsistent, Claims, Beating
    <3>3. RowsConsistent'
      BY <2>1, <3>1, <3>2 DEF TakeLease, NotDue, LeaseInv, RowsConsistent
    <3>4. ClaimsConsistent'
      BY <2>1, <3>1, <3>2
         DEF TakeLease, Goto, Steps, Beating, Claims, LeaseInv, ClaimsConsistent, RowsConsistent
    <3>5. QED
      BY <3>3, <3>4 DEF LeaseInv
  <2>2. CASE Drop(w) /\ UNCHANGED <<jobVars, issued>>
    BY <2>2, DropClaims DEF TokensWithdrawn, LeaseInv, RowsConsistent
  <2>3. QED
    BY <1>7, <2>1, <2>2 DEF ClaimWrite
<1>8. ASSUME NEW w \in Workers, ClaimRead(w) PROVE LeaseInv'
  <2>1. CASE Drop(w)
    BY <1>8, <2>1, DropClaims DEF ClaimRead, TokensWithdrawn, LeaseInv, RowsConsistent
  <2>2. CASE /\ token[claim[w].job] = claim[w].token
             /\ Goto(w, "working")
             /\ claim' = [claim EXCEPT ![w].attempts = attempts[claim[w].job]]
    <3>1. RowsConsistent'
      BY <1>8 DEF ClaimRead, LeaseInv, RowsConsistent
    <3>2. claim[w].job \in Jobs /\ claim[w].token # NoToken
      BY <1>8 DEF ClaimRead, LeaseInv, ClaimsConsistent, Claims
    <3>3. ClaimsConsistent'
      BY <1>8, <2>2, <3>2
         DEF ClaimRead, Goto, Steps, Beating, Claims, LeaseInv, ClaimsConsistent
    <3>4. QED
      BY <3>1, <3>3 DEF LeaseInv
  <2>3. QED
    BY <1>8, <2>1, <2>2 DEF ClaimRead
<1>9. ASSUME NEW w \in Workers, HandlerStart(w) \/ HandlerReturn(w) \/ HandlerThrow(w)
      PROVE LeaseInv'
  <2>1. PICK step \in Beating : Goto(w, step)
    BY <1>9 DEF HandlerStart, HandlerReturn, HandlerThrow, Beating
  <2>2. pc[w] \in Beating /\ UNCHANGED <<jobVars, claim, issued>>
    BY <1>9 DEF HandlerStart, HandlerReturn, HandlerThrow, Beating
  <2>3. QED
    BY <2>1, <2>2, MoveClaims DEF TokensWithdrawn, LeaseInv, RowsConsistent
<1>10. ASSUME NEW w \in Workers, Complete(w) PROVE LeaseInv'
  <2>1. ClaimsConsistent'
    BY <1>10, DropClaims DEF Complete, Release, TokensWithdrawn, LeaseInv
  <2>2. claim[w].job \in Jobs
    BY <1>10 DEF Complete, LeaseInv, ClaimsConsistent, Claims
  <2>3. RowsConsistent'
    <3>1. CASE Holds(w, claim[w].job)
      BY <1>10, <2>2, <3>1, ReleaseRows DEF Complete, LeaseInv, Statuses, Terminal
    <3>2. CASE ~Holds(w, claim[w].job)
      BY <1>10, <3>2 DEF Complete, LeaseInv, RowsConsistent
    <3>3. QED
      BY <3>1, <3>2
  <2>4. QED
    BY <2>1, <2>3 DEF LeaseInv
<1>11. ASSUME NEW w \in Workers, RecordFailure(w) PROVE LeaseInv'
  <2> DEFINE j == claim[w].job
             s == IF AttemptsLeft(w) THEN "queued" ELSE "failed"
  <2>1. pc[w] \in Beating /\ j \in Jobs /\ s \in Statuses \ {"running"}
    BY <1>11 DEF RecordFailure, LeaseInv, ClaimsConsistent, Claims, Beating, Statuses, Terminal
  <2>2. CASE Holds(w, j)
    <3>1. Release(j, s) /\ Goto(w, "announcing") /\ UNCHANGED <<claim, issued>>
      BY <1>11, <2>2 DEF RecordFailure
    <3>2. TokensWithdrawn /\ UNCHANGED attempts
      BY <3>1 DEF Release, TokensWithdrawn
    <3>3. ClaimsConsistent'
      BY <2>1, <3>1, <3>2, MoveClaims DEF LeaseInv, Beating
    <3>4. RowsConsistent'
      BY <2>1, <2>2, <3>1, ReleaseRows DEF LeaseInv
    <3>5. QED
      BY <3>3, <3>4 DEF LeaseInv
  <2>3. CASE ~Holds(w, j)
    BY <1>11, <2>3, DropClaims DEF RecordFailure, TokensWithdrawn, LeaseInv, RowsConsistent
  <2>4. QED
    BY <2>2, <2>3
<1>12. ASSUME NEW w \in Workers, Announce(w) PROVE LeaseInv'
  <2>1. CASE Drop(w)
    BY <1>12, <2>1, DropClaims DEF Announce, TokensWithdrawn, LeaseInv, RowsConsistent
  <2>2. CASE Goto(w, "settling") /\ UNCHANGED claim
    BY <1>12, <2>2, MoveClaims DEF Announce, Beating, TokensWithdrawn, LeaseInv, RowsConsistent
  <2>3. QED
    BY <1>12, <2>1, <2>2 DEF Announce
<1>13. ASSUME NEW w \in Workers, SettleDependents(w) \/ Crash(w) PROVE LeaseInv'
  <2>1. Drop(w) /\ UNCHANGED <<jobVars, issued>>
    BY <1>13 DEF SettleDependents, Crash
  <2>2. QED
    BY <2>1, DropClaims DEF TokensWithdrawn, LeaseInv, RowsConsistent
<1>14. ASSUME NEW w \in Workers, Heartbeat(w) PROVE LeaseInv'
  <2>1. RowsConsistent'
    BY <1>14 DEF Heartbeat, LeaseInv, RowsConsistent
  <2>2. ClaimsConsistent'
    BY <1>14, WithdrawClaims DEF Heartbeat, TokensWithdrawn, LeaseInv
  <2>3. QED
    BY <2>1, <2>2 DEF LeaseInv
<1>15. CASE UNCHANGED vars
  BY <1>15, WithdrawClaims DEF vars, TokensWithdrawn, LeaseInv, RowsConsistent
<1>16. QED
  BY <1>1, <1>2, <1>3, <1>4, <1>5, <1>6, <1>7, <1>8, <1>9, <1>10, <1>11, <1>12, <1>13, <1>14,
     <1>15 DEF Next, WorkerStep

\* TypeOK and LeaseInv hold in every state of every behaviour.
THEOREM Invariance == Spec => []IInv
<1>1. Init => IInv
  <2> SUFFICES ASSUME Init PROVE IInv
    OBVIOUS
  <2>1. TypeOK
    BY BoundsAssumption
       DEF Init, TypeOK, Statuses, Terminal, RecordStatuses, Steps, Claims, NoClaim
  <2>2. LeaseInv
    BY SentinelAssumption
       DEF Init, LeaseInv, RowsConsistent, ClaimsConsistent, NoClaim, Beating
  <2>3. QED
    BY <2>1, <2>2 DEF IInv
<1>2. IInv /\ [Next]_vars => IInv'
  BY TypeStep, LeaseStep DEF IInv, LeaseInv
<1>3. QED
  BY <1>1, <1>2, PTL DEF Spec

\* Every variable keeps its type.
COROLLARY TypeCorrect == Spec => []TypeOK
  BY Invariance, PTL DEF IInv

\* The lease bookkeeping of rows and workers never disagrees.
COROLLARY LeaseCorrect == Spec => []LeaseInv
  BY Invariance, PTL DEF IInv

\* Mutual exclusion: two workers never hold the lease of one job.
THEOREM MutualExclusion == Spec => []SingleHolder
<1>1. IInv => SingleHolder
  <2> SUFFICES ASSUME ClaimsConsistent, NEW j \in Jobs, NEW v \in Workers, NEW w \in Workers,
                      Holds(v, j), Holds(w, j)
               PROVE  v = w
    BY DEF IInv, LeaseInv, SingleHolder
  <2>1. claim[v].token = claim[w].token /\ claim[v].token # NoToken
    BY DEF Holds
  <2>2. QED
    BY <2>1 DEF ClaimsConsistent
<1>2. QED
  BY <1>1, Invariance, PTL

-----------------------------------------------------------------------------
(* The queue implements the lease contract. *)

\* If no row changes phase, lease or token and no worker takes up or ends a task, the contract
\* stutters.
LEMMA Stutters ==
  ASSUME TypeOK, UNCHANGED <<status, token, lapsed>>, UNCHANGED taskNow,
         \A v \in Workers, j \in Jobs : Holds(v, j)' <=> Holds(v, j)
  PROVE  UNCHANGED <<phaseNow, taskNow, holdersNow, lapsed>>
<1>1. holdersNow' = holdersNow
  BY DEF holdersNow
<1>2. QED
  BY <1>1 DEF phaseNow

\* A step that changes neither rows nor claims, and keeps a worker on its side of the settling
\* write.
LEMMA StaysAtWork ==
  ASSUME TypeOK, NEW w \in Workers, NEW step \in Steps, UNCHANGED <<status, token, lapsed>>,
         Goto(w, step), step \in AtWork <=> pc[w] \in AtWork,
         \A v \in Workers : claim'[v].job = claim[v].job /\ claim'[v].token = claim[v].token
  PROVE  UNCHANGED <<phaseNow, taskNow, holdersNow, lapsed>>
<1>1. \A v \in Workers, j \in Jobs : Holds(v, j)' <=> Holds(v, j)
  BY DEF Holds
<1>2. \A v \in Workers : pc'[v] \in AtWork <=> pc[v] \in AtWork
  BY DEF Goto, TypeOK
<1>3. taskNow' = taskNow
  BY <1>2 DEF taskNow
<1>4. QED
  BY <1>1, <1>3, Stutters

\* A worker that forgets its claim is at work no longer and holds nothing.
LEMMA DropLeaves ==
  ASSUME NEW w \in Workers, TypeOK, Drop(w), UNCHANGED <<status, token, lapsed>>
  PROVE  Lease!Leave(w)
<1>1. \A v \in Workers, j \in Jobs : Holds(v, j)' <=> Holds(v, j) /\ v # w
  BY SentinelAssumption DEF TypeOK, Drop, NoClaim, Holds
<1>2. holdersNow' = [j \in Jobs |-> holdersNow[j] \ {w}]
  BY <1>1 DEF holdersNow
<1>3. pc' = [pc EXCEPT ![w] = "idle"] /\ \A v \in Workers \ {w} : claim'[v] = claim[v]
  BY DEF Drop, Goto, TypeOK
<1>4. taskNow' = [taskNow EXCEPT ![w] = NoJob]
  BY <1>3 DEF TypeOK, taskNow, AtWork
<1>5. QED
  BY <1>2, <1>4 DEF Lease!Leave, phaseNow

\* The holder settles its job or hands it back, and is at work on it no longer.
LEMMA ReleaseResolves ==
  ASSUME NEW w \in Workers, NEW j \in Jobs, NEW s \in {"queued"} \cup Terminal, TypeOK,
         ClaimsConsistent, Holds(w, j), Release(j, s), pc[w] \in AtWork,
         (Goto(w, "announcing") /\ UNCHANGED claim) \/ Drop(w)
  PROVE  Lease!Resolve(w, j, s)
<1>1. \A v \in Workers, k \in Jobs : Holds(v, k)' <=> Holds(v, k) /\ k # j
  BY SentinelAssumption DEF TypeOK, Drop, NoClaim, Holds, Release, Terminal
<1>2. holdersNow' = [holdersNow EXCEPT ![j] = {}]
  BY <1>1 DEF holdersNow
<1>3. taskNow[w] = j /\ w \in holdersNow[j]
  BY DEF Holds, taskNow, holdersNow
<1>4. phaseNow' = [phaseNow EXCEPT ![j] = s]
  BY DEF TypeOK, phaseNow, Release, Terminal
<1>5. /\ pc'[w] \notin AtWork
      /\ \A v \in Workers \ {w} : pc'[v] = pc[v] /\ claim'[v] = claim[v]
  BY DEF TypeOK, Goto, Drop, AtWork
<1>6. taskNow' = [taskNow EXCEPT ![w] = NoJob]
  BY <1>5 DEF taskNow
<1>7. QED
  BY <1>2, <1>3, <1>4, <1>6 DEF Lease!Resolve, Release

\* A worker past the claim has a job.
LEMMA JobInHand ==
  ASSUME TypeOK, ClaimsConsistent, NEW w \in Workers, pc[w] \notin {"idle", "polling"}
  PROVE  claim[w].job \in Jobs /\ claim[w].attempts \in Nat
  BY DEF TypeOK, ClaimsConsistent, Claims

LEMMA RefinementStep == IInv /\ [Next]_vars => [Lease!LNext]_(Lease!leaseVars)
<1> SUFFICES ASSUME TypeOK, RowsConsistent, ClaimsConsistent, [Next]_vars
             PROVE  Lease!LNext \/ UNCHANGED <<phaseNow, taskNow, holdersNow, lapsed>>
  BY DEF IInv, LeaseInv, Lease!leaseVars
<1> USE DEF jobVars, eventVars, faultVars
<1>1. ASSUME NEW j \in Jobs, Enqueue(j) PROVE Lease!LNext
  <2>1. \A v \in Workers, k \in Jobs : Holds(v, k)' <=> Holds(v, k)
    BY <1>1 DEF Enqueue, Holds, TypeOK
  <2>2. holdersNow' = holdersNow
    BY <2>1 DEF holdersNow
  <2>3. Lease!Submit(j)
    BY <1>1, <2>2 DEF Enqueue, Lease!Submit, phaseNow, taskNow, TypeOK
  <2>4. QED
    BY <2>3 DEF Lease!LNext
<1>2. ASSUME NEW j \in Jobs, ManualRetry(j)
      PROVE  Lease!LNext \/ UNCHANGED <<phaseNow, taskNow, holdersNow, lapsed>>
  <2>1. token' = token
    BY <1>2 DEF ManualRetry, RowsConsistent, TypeOK
  <2>2. CASE status[j] = "queued"
    <3>1. UNCHANGED <<status, token, lapsed, pc, claim>>
      BY <1>2, <2>1, <2>2 DEF ManualRetry, TypeOK
    <3>2. QED
      BY <3>1, Stutters DEF Holds, taskNow
  <2>3. CASE status[j] \in Terminal
    <3>1. \A v \in Workers, k \in Jobs : Holds(v, k)' <=> Holds(v, k)
      BY <1>2, <2>1, <2>3 DEF ManualRetry, Holds, TypeOK, Terminal
    <3>2. holdersNow' = holdersNow
      BY <3>1 DEF holdersNow
    <3>3. Lease!Reopen(j)
      BY <1>2, <2>3, <3>2
         DEF ManualRetry, Lease!Reopen, Lease!Settled, Terminal, phaseNow, taskNow, TypeOK
    <3>4. QED
      BY <3>3 DEF Lease!LNext
  <2>4. QED
    BY <1>2, <2>2, <2>3 DEF ManualRetry, Terminal
<1>3. ASSUME NEW j \in Jobs, BackoffElapses(j) \/ LeaseLapses(j)
      PROVE  Lease!LNext \/ UNCHANGED <<phaseNow, taskNow, holdersNow, lapsed>>
  <2>1. UNCHANGED <<status, token, pc, claim>>
    BY <1>3 DEF BackoffElapses, LeaseLapses
  <2>2. UNCHANGED <<phaseNow, taskNow, holdersNow>>
    BY <2>1 DEF phaseNow, taskNow, holdersNow, Holds
  <2>3. CASE LeaseLapses(j)
    <3>1. phaseNow[j] = "leased" /\ lapsed' = lapsed \cup {j}
      BY <2>3 DEF LeaseLapses, phaseNow
    <3>2. Lease!RunOut(j)
      BY <2>2, <3>1 DEF Lease!RunOut
    <3>3. QED
      BY <3>2 DEF Lease!LNext
  <2>4. QED
    BY <1>3, <2>2, <2>3 DEF BackoffElapses
<1>4. ASSUME NEW w \in Workers, Recover(w) PROVE Lease!LNext
  <2>1. \A v \in Workers, k \in Jobs : Holds(v, k)' <=> Holds(v, k) /\ k \notin lapsed
    BY <1>4 DEF Recover, Holds, TypeOK
  <2>2. holdersNow' = [k \in Jobs |-> IF k \in lapsed THEN {} ELSE holdersNow[k]]
    BY <2>1 DEF holdersNow
  <2>3. phaseNow' = [k \in Jobs |-> IF k \in lapsed THEN "queued" ELSE phaseNow[k]]
    BY <1>4 DEF Recover, phaseNow, TypeOK
  <2>4. pc[w] = "idle" /\ Goto(w, "polling") /\ UNCHANGED claim /\ lapsed' = {}
    BY <1>4 DEF Recover
  <2>5. taskNow' = taskNow
    BY <2>4 DEF Goto, taskNow, AtWork, TypeOK
  <2>6. Lease!Expire(lapsed) /\ lapsed \in SUBSET Jobs
    BY <2>2, <2>3, <2>4, <2>5 DEF Lease!Expire, TypeOK
  <2>7. QED
    BY <2>6 DEF Lease!LNext
<1>5. ASSUME NEW w \in Workers, ClaimWrite(w) PROVE Lease!LNext
  <2>1. CASE Drop(w) /\ UNCHANGED <<jobVars, issued>>
    BY <2>1, DropLeaves DEF Lease!LNext
  <2>2. CASE issued # Tokens /\ TakeLease(claim[w].job, FreshToken)
             /\ Goto(w, "claimed") /\ claim' = [claim EXCEPT ![w].token = FreshToken]
    <3> DEFINE j == claim[w].job
    <3>1. FreshToken # NoToken /\ FreshToken \notin issued
      BY <2>2, FreshTokenIsNew, SentinelAssumption DEF TypeOK
    <3>2. j \in Jobs /\ claim[w].token = NoToken
      BY <1>5 DEF ClaimWrite, ClaimsConsistent, Beating, TypeOK, Claims
    <3>3. \A v \in Workers, k \in Jobs :
            Holds(v, k)' <=> (Holds(v, k) /\ k # j) \/ (v = w /\ k = j)
      BY <2>2, <3>1, <3>2 DEF TakeLease, Holds, TypeOK, ClaimsConsistent, Claims
    <3>4. holdersNow' = [holdersNow EXCEPT ![j] = {w}]
      BY <3>2, <3>3 DEF holdersNow
    <3>5. phaseNow[j] = "queued" /\ phaseNow' = [phaseNow EXCEPT ![j] = "leased"]
      BY <2>2, <3>2 DEF TakeLease, phaseNow, TypeOK
    <3>6. taskNow[w] = NoJob
      BY <1>5 DEF ClaimWrite, taskNow, AtWork
    <3>7. taskNow' = [taskNow EXCEPT ![w] = j]
      BY <2>2 DEF Goto, taskNow, AtWork, TypeOK, Claims
    <3>8. lapsed' = lapsed
      BY <2>2, <3>2 DEF TakeLease, RowsConsistent
    <3>9. Lease!Grant(j, w)
      BY <3>4, <3>5, <3>6, <3>7, <3>8 DEF Lease!Grant
    <3>10. QED
      BY <3>2, <3>9 DEF Lease!LNext
  <2>3. QED
    BY <1>5, <2>1, <2>2 DEF ClaimWrite
<1>6. ASSUME NEW w \in Workers, Select(w) \/ ClaimRead(w)
      PROVE  Lease!LNext \/ UNCHANGED <<phaseNow, taskNow, holdersNow, lapsed>>
  <2>1. CASE Drop(w)
    BY <1>6, <2>1, DropLeaves DEF Select, ClaimRead, Lease!LNext
  <2>2. CASE ClaimRead(w) /\ token[claim[w].job] = claim[w].token
    <3>1. /\ Goto(w, "working") /\ pc[w] = "claimed" /\ UNCHANGED <<status, token, lapsed>>
          /\ claim' = [claim EXCEPT ![w].attempts = attempts[claim[w].job]]
      BY <2>2 DEF ClaimRead
    <3>2. \A v \in Workers : claim'[v].job = claim[v].job /\ claim'[v].token = claim[v].token
      BY <3>1 DEF TypeOK, Claims
    <3>3. QED
      BY <3>1, <3>2, StaysAtWork DEF Steps, Beating, AtWork
  <2>3. ASSUME NEW j \in Oldest, Select(w),
               claim' = [claim EXCEPT ![w] = [NoClaim EXCEPT !.job = j]]
        PROVE  UNCHANGED <<phaseNow, taskNow, holdersNow, lapsed>>
    <3>1. claim[w].token = NoToken
      BY <2>3 DEF Select, ClaimsConsistent, Beating
    <3>2. \A v \in Workers, k \in Jobs : Holds(v, k)' <=> Holds(v, k)
      BY <2>3, <3>1 DEF Select, Holds, NoClaim, TypeOK
    <3>3. pc[w] = "polling" /\ UNCHANGED <<status, token, lapsed>> /\ pc' \in [Workers -> Steps]
      BY <2>3, TypeStep DEF Select, TypeOK
    <3>4. pc'[w] \notin AtWork /\ \A v \in Workers \ {w} : pc'[v] = pc[v] /\ claim'[v] = claim[v]
      BY <2>3 DEF Select, Goto, Drop, AtWork, TypeOK
    <3>5. taskNow' = taskNow
      BY <3>3, <3>4 DEF taskNow, AtWork
    <3>6. QED
      BY <3>2, <3>3, <3>5, Stutters
  <2>4. QED
    BY <1>6, <2>1, <2>2, <2>3 DEF Select, ClaimRead
<1>7. ASSUME NEW w \in Workers, HandlerStart(w) \/ HandlerReturn(w) \/ HandlerThrow(w)
      PROVE  UNCHANGED <<phaseNow, taskNow, holdersNow, lapsed>>
  <2>1. UNCHANGED <<status, token, lapsed, claim>> /\ pc[w] \in AtWork
    BY <1>7 DEF HandlerStart, HandlerReturn, HandlerThrow, AtWork
  <2>2. \E step \in {"handling", "returned", "threw"} : Goto(w, step)
    BY <1>7 DEF HandlerStart, HandlerReturn, HandlerThrow
  <2>3. QED
    BY <2>1, <2>2, StaysAtWork DEF AtWork, Steps, Beating
<1>8. ASSUME NEW w \in Workers, Heartbeat(w) PROVE Lease!LNext
  <2>1. PICK j \in Jobs : Holds(w, j) /\ lapsed' = lapsed \ {j}
    BY <1>8 DEF Heartbeat, TypeOK
  <2>2. UNCHANGED <<status, token, pc, claim>>
    BY <1>8 DEF Heartbeat
  <2>3. UNCHANGED <<phaseNow, taskNow, holdersNow>>
    BY <2>2 DEF phaseNow, taskNow, holdersNow, Holds
  <2>4. w \in holdersNow[j]
    BY <2>1 DEF holdersNow
  <2>5. Lease!Renew(w, j)
    BY <2>1, <2>3, <2>4 DEF Lease!Renew
  <2>6. QED
    BY <2>1, <2>5 DEF Lease!LNext
<1>9. ASSUME NEW w \in Workers, Complete(w) PROVE Lease!LNext
  <2>1. CASE Holds(w, claim[w].job)
    <3>1. claim[w].job \in Jobs
      BY <1>9 DEF Complete, ClaimsConsistent, TypeOK, Claims
    <3>2. Lease!Resolve(w, claim[w].job, "completed")
      BY <1>9, <2>1, <3>1, ReleaseResolves DEF Complete, Terminal, AtWork
    <3>3. QED
      BY <3>1, <3>2 DEF Lease!LNext, Lease!Settled
  <2>2. CASE ~Holds(w, claim[w].job)
    BY <1>9, <2>2, DropLeaves DEF Complete, Lease!LNext
  <2>3. QED
    BY <2>1, <2>2
<1>10. ASSUME NEW w \in Workers, RecordFailure(w) PROVE Lease!LNext
  <2> DEFINE s == IF AttemptsLeft(w) THEN "queued" ELSE "failed"
  <2>1. CASE Holds(w, claim[w].job)
    <3>1. claim[w].job \in Jobs
      BY <1>10 DEF RecordFailure, ClaimsConsistent, TypeOK, Claims
    <3>2. s \in {"queued"} \cup Terminal
      BY DEF Terminal
    <3>3. Lease!Resolve(w, claim[w].job, s)
      BY <1>10, <2>1, <3>1, <3>2, ReleaseResolves DEF RecordFailure, AtWork
    <3>4. QED
      BY <3>1, <3>2, <3>3 DEF Lease!LNext, Lease!Settled, Terminal
  <2>2. CASE ~Holds(w, claim[w].job)
    BY <1>10, <2>2, DropLeaves DEF RecordFailure, Lease!LNext
  <2>3. QED
    BY <2>1, <2>2
<1>11. ASSUME NEW w \in Workers, Announce(w)
       PROVE  Lease!LNext \/ UNCHANGED <<phaseNow, taskNow, holdersNow, lapsed>>
  <2>1. CASE AttemptsLeft(w)
    BY <1>11, <2>1, DropLeaves DEF Announce, Lease!LNext
  <2>2. CASE ~AttemptsLeft(w)
    <3>1. /\ Goto(w, "settling") /\ pc[w] = "announcing"
          /\ UNCHANGED <<status, token, lapsed, claim>>
      BY <1>11, <2>2 DEF Announce
    <3>2. QED
      BY <3>1, StaysAtWork DEF Steps, Beating, AtWork
  <2>3. QED
    BY <2>1, <2>2
<1>12. ASSUME NEW w \in Workers, SettleDependents(w) \/ Crash(w) PROVE Lease!LNext
  <2>1. Drop(w) /\ UNCHANGED <<status, token, lapsed>>
    BY <1>12 DEF SettleDependents, Crash
  <2>2. QED
    BY <2>1, DropLeaves DEF Lease!LNext
<1>13. CASE UNCHANGED vars
  BY <1>13, Stutters DEF vars, Holds, taskNow
<1>14. QED
  BY <1>1, <1>2, <1>3, <1>4, <1>5, <1>6, <1>7, <1>8, <1>9, <1>10, <1>11, <1>12, <1>13
     DEF Next, WorkerStep

\* The polling, token-fenced queue implements the lease contract: a worker settles a job only as
\* its holder, whoever else was given it before, and a lease that is not given back ends in a
\* recovery after it has run out and nowhere else.
THEOREM Refinement == Spec => ImplementsLease
<1>1. Init => Lease!LInit
  <2> SUFFICES ASSUME Init PROVE Lease!LInit
    OBVIOUS
  <2>1. phaseNow \in [Jobs -> {"absent", "queued", "leased"}]
    BY DEF Init, phaseNow
  <2>2. \A w \in Workers, j \in Jobs : ~Holds(w, j)
    BY DEF Init, Holds
  <2>3. holdersNow = [j \in Jobs |-> {}]
    BY <2>2 DEF holdersNow
  <2>4. taskNow = [w \in Workers |-> NoJob]
    BY DEF Init, taskNow, AtWork
  <2>5. QED
    BY <2>1, <2>3, <2>4 DEF Lease!LInit, Init
<1>2. QED
  BY <1>1, RefinementStep, Invariance, PTL DEF Spec, ImplementsLease, Lease!LSpec

-----------------------------------------------------------------------------
(* What a worker announces stays true. *)

\* Attempt n of job j has given its lease back: a later attempt has begun, or none has yet.
GivenBack(j, n) == n < attempts[j] \/ (n = attempts[j] /\ status[j] = "queued")

\* The event that worker w is about to write is true.
OutcomeReached(w) ==
  IF AttemptsLeft(w) THEN GivenBack(claim[w].job, claim[w].attempts)
                     ELSE attempts[claim[w].job] >= MaxAttempts

\* What makes AnnouncedOutcomes inductive: it already holds for the event that a worker is
\* about to write.
OutcomesInv ==
  /\ \A j \in Jobs : status[j] = "failed" => attempts[j] >= MaxAttempts
  /\ \A p \in retried : GivenBack(p[1], p[2])
  /\ \A j \in failures : attempts[j] >= MaxAttempts
  /\ \A w \in Workers : pc[w] = "announcing" => OutcomeReached(w)

\* Attempts never go down, and a queued row that is not counted stays queued: what was given
\* back stays given back.
LEMMA OutcomesKept ==
  ASSUME TypeOK, ClaimsConsistent, OutcomesInv, UNCHANGED eventVars,
         \A j \in Jobs : attempts'[j] \in Nat /\ attempts'[j] >= attempts[j],
         \A j \in Jobs :
           attempts'[j] = attempts[j] /\ status[j] = "queued" => status'[j] = "queued",
         \A j \in Jobs : status'[j] = "failed" => status[j] = "failed",
         \A v \in Workers : pc'[v] = "announcing" => pc[v] = "announcing" /\ claim'[v] = claim[v]
  PROVE  OutcomesInv'
<1> USE BoundsAssumption DEF TypeOK
<1>1. \A j \in Jobs, n \in Nat : GivenBack(j, n) => GivenBack(j, n)'
  BY DEF GivenBack
<1>2. ASSUME NEW v \in Workers, pc'[v] = "announcing"
      PROVE  OutcomeReached(v)'
  <2>1. pc[v] = "announcing" /\ claim'[v] = claim[v]
    BY <1>2
  <2>2. claim[v].job \in Jobs /\ claim[v].attempts \in Nat
    BY <2>1, JobInHand
  <2>3. AttemptsLeft(v)' <=> AttemptsLeft(v)
    BY <2>1 DEF AttemptsLeft
  <2>4. QED
    BY <1>1, <2>1, <2>2, <2>3 DEF OutcomesInv, OutcomeReached, GivenBack, AttemptsLeft
<1>3. \A p \in retried : GivenBack(p[1], p[2])'
  BY <1>1 DEF OutcomesInv
<1>4. \A j \in Jobs : attempts[j] >= MaxAttempts => attempts'[j] >= MaxAttempts
  OBVIOUS
<1>5. QED
  <2>1. \A j \in failures : attempts'[j] >= MaxAttempts
    BY <1>4 DEF OutcomesInv
  <2>2. \A j \in Jobs : status'[j] = "failed" => attempts'[j] >= MaxAttempts
    BY <1>4 DEF OutcomesInv
  <2>3. (\A p \in retried : GivenBack(p[1], p[2]))'
    BY <1>3 DEF eventVars, GivenBack
  <2>4. QED
    BY <1>2, <2>1, <2>2, <2>3 DEF OutcomesInv, eventVars

LEMMA OutcomesStep == IInv /\ OutcomesInv /\ [Next]_vars => OutcomesInv'
<1> SUFFICES ASSUME TypeOK, RowsConsistent, ClaimsConsistent, OutcomesInv, [Next]_vars
             PROVE  OutcomesInv'
  BY DEF IInv, LeaseInv
<1> USE DEF TypeOK, jobVars, eventVars, faultVars
<1>1. ASSUME NEW j \in Jobs, Enqueue(j) \/ ManualRetry(j) \/ BackoffElapses(j) \/ LeaseLapses(j)
      PROVE  OutcomesInv'
  BY <1>1, OutcomesKept DEF Enqueue, ManualRetry, BackoffElapses, LeaseLapses
<1>2. ASSUME NEW w \in Workers, Recover(w) \/ Select(w) PROVE OutcomesInv'
  BY <1>2, OutcomesKept DEF Recover, Select, Goto, Drop, RowsConsistent
<1>3. ASSUME NEW w \in Workers, ClaimWrite(w) PROVE OutcomesInv'
  <2>1. claim[w].job \in Jobs
    BY <1>3, JobInHand DEF ClaimWrite
  <2>2. QED
    BY <1>3, <2>1, OutcomesKept DEF ClaimWrite, TakeLease, Goto, Drop
<1>4. ASSUME NEW w \in Workers,
             ClaimRead(w) \/ HandlerStart(w) \/ HandlerReturn(w) \/ HandlerThrow(w)
      PROVE  OutcomesInv'
  BY <1>4, OutcomesKept DEF ClaimRead, HandlerStart, HandlerReturn, HandlerThrow, Goto, Drop
<1>5. ASSUME NEW w \in Workers, Complete(w) PROVE OutcomesInv'
  BY <1>5, OutcomesKept DEF Complete, Release, Holds, Goto, Drop
<1>6. ASSUME NEW w \in Workers, RecordFailure(w) PROVE OutcomesInv'
  <2> DEFINE j == claim[w].job
             s == IF AttemptsLeft(w) THEN "queued" ELSE "failed"
  <2>1. CASE ~Holds(w, j)
    BY <1>6, <2>1, OutcomesKept DEF RecordFailure, Goto, Drop
  <2>2. CASE Holds(w, j)
    <3>1. j \in Jobs /\ claim[w].attempts = attempts[j] /\ attempts[j] \in Nat
      BY <1>6, <2>2, JobInHand DEF RecordFailure, Holds, ClaimsConsistent, Beating
    <3>2. /\ status' = [status EXCEPT ![j] = s] /\ pc' = [pc EXCEPT ![w] = "announcing"]
          /\ UNCHANGED <<attempts, claim, retried, failures>>
      BY <1>6, <2>2 DEF RecordFailure, Release, Goto
    <3>3. status[j] = "running"
      BY <2>2 DEF Holds
    <3>4. \A k \in Jobs, n \in Nat : GivenBack(k, n) => GivenBack(k, n)'
      BY <3>1, <3>2, <3>3 DEF GivenBack
    <3>5. \A k \in Jobs : status'[k] = "failed" => attempts[k] >= MaxAttempts
      BY <3>1, <3>2, BoundsAssumption DEF OutcomesInv, AttemptsLeft
    <3>6. OutcomeReached(w)'
      BY <3>1, <3>2, BoundsAssumption DEF GivenBack, OutcomeReached, AttemptsLeft
    <3>7. ASSUME NEW v \in Workers, pc'[v] = "announcing" PROVE OutcomeReached(v)'
      <4>1. CASE v = w
        BY <3>6, <4>1
      <4>2. CASE v # w
        <5>1. pc[v] = "announcing"
          BY <3>2, <3>7, <4>2
        <5>2. claim[v].job \in Jobs /\ claim[v].attempts \in Nat /\ OutcomeReached(v)
          BY <5>1, JobInHand DEF OutcomesInv
        <5>3. QED
          BY <3>2, <3>4, <5>2 DEF OutcomeReached, GivenBack, AttemptsLeft
      <4>3. QED
        BY <4>1, <4>2
    <3>8. \A p \in retried : GivenBack(p[1], p[2])'
      BY <3>4 DEF OutcomesInv
    <3>9. QED
      BY <3>2, <3>5, <3>7, <3>8 DEF OutcomesInv, GivenBack
  <2>3. QED
    BY <2>1, <2>2
<1>7. ASSUME NEW w \in Workers, Announce(w) PROVE OutcomesInv'
  <2>1. claim[w].job \in Jobs /\ pc[w] = "announcing"
    BY <1>7, JobInHand DEF Announce
  <2>2. UNCHANGED <<status, attempts>>
    BY <1>7 DEF Announce
  <2>3. \A p \in retried' : GivenBack(p[1], p[2])
    BY <1>7, <2>1 DEF Announce, OutcomesInv, OutcomeReached
  <2>4. \A j \in failures' : attempts[j] >= MaxAttempts
    BY <1>7, <2>1 DEF Announce, OutcomesInv, OutcomeReached
  <2>5. \A v \in Workers : pc'[v] = "announcing" => pc[v] = "announcing" /\ claim'[v] = claim[v]
    BY <1>7 DEF Announce, Goto, Drop
  <2>6. QED
    BY <2>2, <2>3, <2>4, <2>5 DEF OutcomesInv, OutcomeReached, GivenBack, AttemptsLeft
<1>8. ASSUME NEW w \in Workers, SettleDependents(w) \/ Heartbeat(w) \/ Crash(w)
      PROVE  OutcomesInv'
  BY <1>8, OutcomesKept DEF SettleDependents, Heartbeat, Crash, Goto, Drop
<1>9. CASE UNCHANGED vars
  BY <1>9, OutcomesKept DEF vars
<1>10. QED
  BY <1>1, <1>2, <1>3, <1>4, <1>5, <1>6, <1>7, <1>8, <1>9 DEF Next, WorkerStep

\* A failed job has used up its attempts, and so has one whose failure was announced; an
\* announced retry has given the lease back.
THEOREM OutcomesAreTrue == Spec => []AnnouncedOutcomes
<1>1. Init => OutcomesInv
  BY DEF Init, OutcomesInv
<1>2. OutcomesInv => AnnouncedOutcomes
  BY DEF OutcomesInv, AnnouncedOutcomes, GivenBack
<1>3. QED
  BY <1>1, <1>2, OutcomesStep, Invariance, PTL DEF Spec

-----------------------------------------------------------------------------
(* How often a job is attempted. *)

\* Who has recorded a failure has given up the lease for good.
Unheld == \A w \in Workers, j \in Jobs : pc[w] \in {"announcing", "settling"} => ~Holds(w, j)

\* A job that will be attempted again whatever its worker does.
Reclaimable(j) == status[j] = "queued" \/ j \in lapsed \/ Orphaned(j)

\* What makes AttemptsAccounted inductive: a job that is to be attempted again has not used up
\* what the faults so far entitle it to.
Entitled ==
  \A j \in Jobs : /\ attempts[j] <= Budget(j)
                  /\ status[j] = "absent" => attempts[j] = 0
                  /\ Reclaimable(j) => attempts[j] < Budget(j)

SameBudget == \A j \in Jobs : Budget(j)' = Budget(j)

LEMMA UnheldStep == IInv /\ Unheld /\ [Next]_vars => Unheld'
<1> SUFFICES ASSUME TypeOK, RowsConsistent, ClaimsConsistent, Unheld, [Next]_vars
             PROVE  Unheld'
  BY DEF IInv, LeaseInv
<1> USE DEF TypeOK, jobVars, eventVars, faultVars
\* A step that grants no lease, and lets nobody begin to announce, grants none to those who do.
<1>0. ASSUME TokensWithdrawn,
             \A v \in Workers : pc'[v] \in {"announcing", "settling"} =>
               pc[v] \in {"announcing", "settling"} /\ claim'[v] = claim[v]
      PROVE  Unheld'
  <2>1. \A v \in Workers, j \in Jobs :
          claim'[v] = claim[v] /\ Holds(v, j)' => claim[v].token = token[j] /\ token[j] # NoToken
    BY <1>0 DEF TokensWithdrawn, Holds
  <2>2. \A v \in Workers, j \in Jobs :
          claim[v].token = token[j] /\ token[j] # NoToken => Holds(v, j)
    BY DEF ClaimsConsistent, RowsConsistent, Holds
  <2>3. QED
    BY <1>0, <2>1, <2>2 DEF Unheld
<1>1. ASSUME NEW j \in Jobs, Enqueue(j) \/ ManualRetry(j) \/ BackoffElapses(j) \/ LeaseLapses(j)
      PROVE  Unheld'
  BY <1>0, <1>1 DEF TokensWithdrawn, Enqueue, ManualRetry, BackoffElapses, LeaseLapses
<1>2. ASSUME NEW w \in Workers, Recover(w) \/ Select(w) \/ ClaimRead(w) PROVE Unheld'
  BY <1>0, <1>2 DEF TokensWithdrawn, Recover, Select, ClaimRead, Goto, Drop
<1>3. ASSUME NEW w \in Workers, ClaimWrite(w) PROVE Unheld'
  <2>1. CASE Drop(w) /\ UNCHANGED jobVars
    BY <1>0, <2>1 DEF TokensWithdrawn, Goto, Drop
  <2>2. CASE issued # Tokens /\ TakeLease(claim[w].job, FreshToken) /\ Goto(w, "claimed")
             /\ claim' = [claim EXCEPT ![w].token = FreshToken]
    <3>1. FreshToken \notin issued
      BY <2>2, FreshTokenIsNew
    <3>2. \A v \in Workers : pc'[v] \in {"announcing", "settling"} =>
            v # w /\ pc[v] \in {"announcing", "settling"} /\ claim'[v] = claim[v]
      BY <2>2 DEF Goto
    <3>3. \A v \in Workers : pc[v] \in {"announcing", "settling"} => claim[v].token # FreshToken
      BY <3>1 DEF ClaimsConsistent, Beating
    <3>4. \A k \in Jobs : token'[k] = token[k] \/ token'[k] = FreshToken
      BY <2>2 DEF TakeLease
    <3>5. \A v \in Workers, k \in Jobs :
            claim[v].token = token[k] /\ token[k] # NoToken => Holds(v, k)
      BY DEF ClaimsConsistent, RowsConsistent, Holds
    <3>6. QED
      BY <3>2, <3>3, <3>4, <3>5 DEF Unheld, Holds
  <2>3. QED
    BY <1>3, <2>1, <2>2 DEF ClaimWrite
<1>4. ASSUME NEW w \in Workers,
             \/ HandlerStart(w) \/ HandlerReturn(w) \/ HandlerThrow(w) \/ Heartbeat(w)
             \/ SettleDependents(w) \/ Crash(w)
      PROVE  Unheld'
  BY <1>0, <1>4 DEF TokensWithdrawn, HandlerStart, HandlerReturn, HandlerThrow, Heartbeat,
                    SettleDependents, Crash, Goto, Drop
<1>5. ASSUME NEW w \in Workers, Complete(w) PROVE Unheld'
  BY <1>0, <1>5 DEF TokensWithdrawn, Complete, Release, Goto, Drop
<1>6. ASSUME NEW w \in Workers, RecordFailure(w) PROVE Unheld'
  <2> DEFINE j == claim[w].job
  <2>1. CASE ~Holds(w, j)
    BY <1>0, <1>6, <2>1 DEF TokensWithdrawn, RecordFailure, Goto, Drop
  <2>2. CASE Holds(w, j)
    <3>1. j \in Jobs
      BY <1>6, JobInHand DEF RecordFailure
    <3>2. /\ token' = [token EXCEPT ![j] = NoToken] /\ pc' = [pc EXCEPT ![w] = "announcing"]
          /\ claim' = claim
      BY <1>6, <2>2 DEF RecordFailure, Release, Goto
    <3>3. \A v \in Workers, k \in Jobs :
            Holds(v, k)' => k # j /\ claim[v].token = token[k] /\ token[k] # NoToken
      BY <3>1, <3>2 DEF Holds
    <3>4. \A v \in Workers, k \in Jobs :
            claim[v].token = token[k] /\ token[k] # NoToken => Holds(v, k)
      BY DEF ClaimsConsistent, RowsConsistent, Holds
    <3>5. \A k \in Jobs : Holds(w, k) => k = j
      BY DEF Holds
    <3>6. QED
      BY <3>2, <3>3, <3>4, <3>5 DEF Unheld
  <2>3. QED
    BY <2>1, <2>2
<1>7. ASSUME NEW w \in Workers, Announce(w) PROVE Unheld'
  BY <1>0, <1>7 DEF TokensWithdrawn, Announce, Goto, Drop
<1>8. CASE UNCHANGED vars
  BY <1>0, <1>8 DEF TokensWithdrawn, vars
<1>9. QED
  BY <1>1, <1>2, <1>3, <1>4, <1>5, <1>6, <1>7, <1>8 DEF Next, WorkerStep

\* A step in which rows keep status, attempts and token, and no holder lets go of its lease.
LEMMA EntitledKept ==
  ASSUME TypeOK, Entitled, UNCHANGED <<status, attempts, token, faultVars>>,
         lapsed' \subseteq lapsed,
         \A v \in Workers, j \in Jobs : Holds(v, j) => Holds(v, j)'
  PROVE  Entitled'
<1>1. \A j \in Jobs : Reclaimable(j)' => Reclaimable(j)
  BY DEF Reclaimable, Orphaned
<1>2. QED
  BY <1>1 DEF Entitled, Budget, faultVars

\* A worker without a lease may forget its claim.
LEMMA DropHolds ==
  ASSUME TypeOK, NEW w \in Workers, Drop(w), UNCHANGED <<status, token>>,
         \A j \in Jobs : ~Holds(w, j)
  PROVE  \A v \in Workers, j \in Jobs : Holds(v, j) => Holds(v, j)'
  BY DEF Drop, Holds, TypeOK

\* Every fault pays for an attempt of every job.
LEMMA FaultEntitles ==
  ASSUME TypeOK, Entitled, UNCHANGED attempts, \A k \in Jobs : Budget(k)' = Budget(k) + 1,
         \A j \in Jobs : status'[j] = "absent" => status[j] = "absent"
  PROVE  Entitled'
  BY BoundsAssumption DEF TypeOK, Entitled, Budget, faultVars

LEMMA EntitledStep ==
  IInv /\ Unheld /\ Entitled /\ [Next]_vars => Entitled'
<1> SUFFICES ASSUME TypeOK, RowsConsistent, ClaimsConsistent, Unheld, Entitled, [Next]_vars
             PROVE  Entitled'
  BY DEF IInv, LeaseInv
<1> USE BoundsAssumption DEF TypeOK, jobVars, eventVars, faultVars
<1>0. \A j \in Jobs : Budget(j) \in Nat /\ Budget(j) >= MaxAttempts
  BY DEF Budget
<1>1. ASSUME NEW j \in Jobs, Enqueue(j) PROVE Entitled'
  <2>1. /\ status' = [status EXCEPT ![j] = "queued"] /\ status[j] = "absent"
        /\ UNCHANGED <<attempts, token, lapsed, claim>> /\ SameBudget
    BY <1>1 DEF Enqueue, Budget, SameBudget
  <2>2. \A k \in Jobs : k # j /\ Reclaimable(k)' => Reclaimable(k)
    BY <2>1 DEF Reclaimable, Orphaned, Holds
  <2>3. attempts[j] = 0
    BY <2>1 DEF Entitled
  <2>4. QED
    BY <1>0, <2>1, <2>2, <2>3 DEF Entitled, SameBudget
<1>2. ASSUME NEW j \in Jobs, ManualRetry(j) PROVE Entitled'
  <2>1. \A k \in Jobs : Budget(k)' = Budget(k) + 1
    BY <1>2 DEF ManualRetry, Budget
  <2>2. QED
    BY <1>2, <2>1, FaultEntitles DEF ManualRetry
<1>3. ASSUME NEW j \in Jobs, BackoffElapses(j) PROVE Entitled'
  BY <1>3, EntitledKept DEF BackoffElapses, Holds
<1>4. ASSUME NEW j \in Jobs, LeaseLapses(j) PROVE Entitled'
  <2>1. CASE Orphaned(j) /\ UNCHANGED stalls
    <3>1. /\ UNCHANGED <<status, attempts, token, claim>> /\ SameBudget
          /\ lapsed' = lapsed \cup {j}
      BY <1>4, <2>1 DEF LeaseLapses, Budget, SameBudget
    <3>2. \A k \in Jobs : Reclaimable(k)' => Reclaimable(k)
      BY <2>1, <3>1 DEF Reclaimable, Orphaned, Holds
    <3>3. QED
      BY <3>1, <3>2 DEF Entitled, SameBudget
  <2>2. CASE stalls' = stalls + 1
    <3>1. \A k \in Jobs : Budget(k)' = Budget(k) + 1
      BY <1>4, <2>2 DEF LeaseLapses, Budget
    <3>2. QED
      BY <1>4, <3>1, FaultEntitles DEF LeaseLapses
  <2>3. QED
    BY <1>4, <2>1, <2>2 DEF LeaseLapses
<1>5. ASSUME NEW w \in Workers, Recover(w) PROVE Entitled'
  <2>1. /\ status' = [j \in Jobs |-> IF j \in lapsed THEN "queued" ELSE status[j]]
        /\ token' = [j \in Jobs |-> IF j \in lapsed THEN NoToken ELSE token[j]]
        /\ lapsed' = {} /\ UNCHANGED <<attempts, claim>> /\ SameBudget
    BY <1>5 DEF Recover, Budget, SameBudget
  <2>2. \A k \in Jobs : Reclaimable(k)' => Reclaimable(k)
    BY <2>1 DEF Reclaimable, Orphaned, Holds
  <2>3. QED
    BY <2>1, <2>2 DEF Entitled, SameBudget
<1>6. ASSUME NEW w \in Workers, Select(w) PROVE Entitled'
  <2>1. \A j \in Jobs : ~Holds(w, j)
    BY <1>6 DEF Select, Holds, ClaimsConsistent, Beating
  <2>2. \A v \in Workers, j \in Jobs : Holds(v, j) => Holds(v, j)'
    BY <1>6, <2>1 DEF Select, Drop, Holds
  <2>3. QED
    BY <1>6, <2>2, EntitledKept DEF Select
<1>7. ASSUME NEW w \in Workers, ClaimWrite(w) PROVE Entitled'
  <2>0. PICK j \in Jobs : j = claim[w].job /\ claim[w].token = NoToken
    BY <1>7, JobInHand DEF ClaimWrite, ClaimsConsistent, Beating
  <2>1. CASE Drop(w) /\ UNCHANGED <<jobVars, issued>>
    BY <1>7, <2>0, <2>1, DropHolds, EntitledKept DEF ClaimWrite, Holds
  <2>2. CASE issued # Tokens /\ TakeLease(j, FreshToken)
             /\ claim' = [claim EXCEPT ![w].token = FreshToken]
    <3>1. FreshToken # NoToken
      BY <2>2, FreshTokenIsNew, SentinelAssumption
    <3>2. /\ status[j] = "queued" /\ status' = [status EXCEPT ![j] = "running"]
          /\ attempts' = [attempts EXCEPT ![j] = @ + 1]
          /\ token' = [token EXCEPT ![j] = FreshToken]
          /\ lapsed' = lapsed \ {j} /\ SameBudget
      BY <1>7, <2>2 DEF ClaimWrite, TakeLease, Budget, SameBudget
    <3>3. Holds(w, j)'
      BY <2>0, <2>2, <3>1, <3>2 DEF Holds, Claims
    <3>4. ~Reclaimable(j)'
      BY <2>0, <3>2, <3>3 DEF Reclaimable, Orphaned
    <3>5. \A v \in Workers, k \in Jobs : k # j /\ Holds(v, k) => Holds(v, k)'
      BY <2>0, <2>2, <3>2 DEF Holds
    <3>6. \A k \in Jobs : k # j /\ Reclaimable(k)' => Reclaimable(k)
      BY <3>2, <3>5 DEF Reclaimable, Orphaned
    <3>7. attempts[j] < Budget(j)
      BY <2>0, <3>2 DEF Entitled, Reclaimable
    <3>8. QED
      BY <1>0, <2>0, <3>2, <3>4, <3>6, <3>7 DEF Entitled, SameBudget
  <2>3. QED
    BY <1>7, <2>0, <2>1, <2>2 DEF ClaimWrite
<1>8. ASSUME NEW w \in Workers, ClaimRead(w) PROVE Entitled'
  <2>1. CASE token[claim[w].job] = claim[w].token
             /\ claim' = [claim EXCEPT ![w].attempts = attempts[claim[w].job]]
    <3>1. \A v \in Workers, j \in Jobs : Holds(v, j) => Holds(v, j)'
      BY <1>8, <2>1 DEF ClaimRead, Holds, Claims
    <3>2. QED
      BY <1>8, <3>1, EntitledKept DEF ClaimRead
  <2>2. CASE token[claim[w].job] # claim[w].token /\ Drop(w)
    BY <1>8, <2>2, DropHolds, EntitledKept DEF ClaimRead, Holds
  <2>3. QED
    BY <1>8, <2>1, <2>2 DEF ClaimRead
<1>9. ASSUME NEW w \in Workers,
             HandlerStart(w) \/ HandlerReturn(w) \/ HandlerThrow(w) \/ Heartbeat(w)
      PROVE  Entitled'
  BY <1>9, EntitledKept DEF HandlerStart, HandlerReturn, HandlerThrow, Heartbeat, Holds
\* The holder lets go of its lease in the write that ends it.
<1>10. ASSUME NEW w \in Workers, NEW j \in Jobs, NEW s \in Statuses \ {"absent", "running"},
              Holds(w, j), Release(j, s), s = "queued" => attempts[j] < Budget(j),
              UNCHANGED faultVars,
              \A v \in Workers : v # w => claim'[v] = claim[v]
       PROVE  Entitled'
  <2>1. /\ status' = [status EXCEPT ![j] = s] /\ token' = [token EXCEPT ![j] = NoToken]
        /\ lapsed' = lapsed \ {j} /\ attempts' = attempts /\ SameBudget
    BY <1>10 DEF Release, Budget, SameBudget
  <2>2. \A v \in Workers, k \in Jobs : k # j /\ Holds(v, k) => Holds(v, k)'
    BY <1>10, <2>1 DEF Holds
  <2>3. \A k \in Jobs : k # j /\ Reclaimable(k)' => Reclaimable(k)
    BY <2>1, <2>2 DEF Reclaimable, Orphaned
  <2>4. Reclaimable(j)' => s = "queued"
    BY <2>1 DEF Reclaimable, Orphaned
  <2>5. QED
    BY <1>10, <2>1, <2>3, <2>4 DEF Entitled, SameBudget
<1>11. ASSUME NEW w \in Workers, Complete(w) PROVE Entitled'
  <2>1. claim[w].job \in Jobs
    BY <1>11, JobInHand DEF Complete
  <2>2. CASE Holds(w, claim[w].job)
    BY <1>10, <1>11, <2>1, <2>2 DEF Complete, Drop, Statuses, Terminal
  <2>3. CASE ~Holds(w, claim[w].job)
    BY <1>11, <2>3, DropHolds, EntitledKept DEF Complete, Holds
  <2>4. QED
    BY <2>2, <2>3
<1>12. ASSUME NEW w \in Workers, RecordFailure(w) PROVE Entitled'
  <2> DEFINE j == claim[w].job
             s == IF AttemptsLeft(w) THEN "queued" ELSE "failed"
  <2>1. CASE Holds(w, j)
    <3>1. j \in Jobs /\ claim[w].attempts = attempts[j]
      BY <1>12, <2>1, JobInHand DEF RecordFailure, Holds, ClaimsConsistent, Beating
    <3>2. s = "queued" => attempts[j] < Budget(j)
      BY <1>0, <3>1 DEF AttemptsLeft
    <3>3. Release(j, s) /\ UNCHANGED <<claim, faultVars>> /\ s \in Statuses \ {"absent", "running"}
      BY <1>12, <2>1 DEF RecordFailure, Statuses, Terminal
    <3>4. QED
      BY <1>10, <2>1, <3>1, <3>2, <3>3
  <2>2. CASE ~Holds(w, j)
    BY <1>12, <2>2, DropHolds, EntitledKept DEF RecordFailure, Holds
  <2>3. QED
    BY <2>1, <2>2
<1>13. ASSUME NEW w \in Workers, Announce(w) \/ SettleDependents(w) PROVE Entitled'
  <2>1. \A j \in Jobs : ~Holds(w, j)
    BY <1>13 DEF Announce, SettleDependents, Unheld
  <2>2. UNCHANGED <<jobVars, faultVars>> /\ (Drop(w) \/ UNCHANGED claim)
    BY <1>13 DEF Announce, SettleDependents
  <2>3. \A v \in Workers, j \in Jobs : Holds(v, j) => Holds(v, j)'
    BY <2>1, <2>2, DropHolds DEF Holds
  <2>4. QED
    BY <2>2, <2>3, EntitledKept
<1>14. ASSUME NEW w \in Workers, Crash(w) PROVE Entitled'
  <2>1. \A k \in Jobs : Budget(k)' = Budget(k) + 1
    BY <1>14 DEF Crash, Budget
  <2>2. QED
    BY <1>14, <2>1, FaultEntitles DEF Crash
<1>15. CASE UNCHANGED vars
  BY <1>15, EntitledKept DEF vars, Holds
<1>16. QED
  BY <1>1, <1>2, <1>3, <1>4, <1>5, <1>6, <1>7, <1>8, <1>9, <1>11, <1>12, <1>13, <1>14, <1>15
     DEF Next, WorkerStep

\* Every attempt beyond maxAttempts is paid for by a crash, a stalled lease or an operator retry.
THEOREM BudgetIsKept == Spec => []AttemptsAccounted
<1> DEFINE BInv == Unheld /\ Entitled
<1>1. Init => BInv
  BY BoundsAssumption DEF Init, Unheld, Holds, Entitled, Reclaimable, Orphaned, Budget
<1>2. IInv /\ BInv /\ [Next]_vars => BInv'
  BY UnheldStep, EntitledStep
<1>3. BInv => AttemptsAccounted
  BY DEF Entitled, AttemptsAccounted, Budget
<1>4. QED
  BY <1>1, <1>2, <1>3, Invariance, PTL DEF Spec

-----------------------------------------------------------------------------
(* Without faults, a settled job and its domain row agree. *)

Calm == crashes + stalls + manualRetries = 0

Running == {"claimed", "working", "handling", "returned", "threw"}

\* Worker w has failed job j for good and has not yet written its domain row.
Failing(w, j) == /\ pc[w] \in {"announcing", "settling"} /\ ~AttemptsLeft(w)
                 /\ claim[w].job = j

\* Worker w runs a job only under its lease, and who has failed a job is the last one to
\* work on it.
Diligent(w) ==
  /\ pc[w] \in Running => Holds(w, claim[w].job)
  /\ pc[w] = "settling" => ~AttemptsLeft(w)
  /\ \A j \in Jobs : Failing(w, j) => status[j] = "failed"

RunnersHold ==
  /\ \A w \in Workers : Diligent(w)
  /\ \A j \in lapsed : Orphaned(j)

\* The domain row agrees with its job, or will when the last write of recordFailure is done.
RecordAgrees ==
  /\ \A w \in Workers : pc[w] = "returned" => record[claim[w].job] = "completed"
  /\ \A j \in Jobs : status[j] = "completed" => record[j] = "completed"
  /\ \A j \in Jobs : status[j] = "failed" =>
       record[j] = "failed" \/ \E w \in Workers : Failing(w, j)

\* A step of worker w that takes no lease from another worker.
LEMMA RunnersKept ==
  ASSUME TypeOK, ClaimsConsistent, RunnersHold, NEW w \in Workers,
         \A v \in Workers \ {w} : pc'[v] = pc[v] /\ claim'[v] = claim[v],
         \A v \in Workers \ {w}, j \in Jobs : Holds(v, j) => Holds(v, j)',
         \A j \in Jobs : status[j] = "failed" => status'[j] = "failed",
         Diligent(w)', \A j \in lapsed' : Orphaned(j)'
  PROVE  RunnersHold'
<1>1. ASSUME NEW v \in Workers \ {w} PROVE Diligent(v)'
  <2>1. Diligent(v)
    BY DEF RunnersHold
  <2>2. pc[v] \in Running => claim[v].job \in Jobs
    BY JobInHand DEF Running
  <2>3. QED
    BY <2>1, <2>2 DEF Diligent, Failing, AttemptsLeft, Holds
<1>2. QED
  BY <1>1 DEF RunnersHold

\* A step that settles no job and writes no domain row.
LEMMA RecordKept ==
  ASSUME TypeOK, RecordAgrees, UNCHANGED record,
         \A j \in Jobs : status'[j] \in Terminal => status'[j] = status[j],
         \A v \in Workers, j \in Jobs : Failing(v, j) => Failing(v, j)',
         \A v \in Workers : pc'[v] = "returned" => pc[v] = "returned" /\ claim'[v] = claim[v]
  PROVE  RecordAgrees'
  BY DEF RecordAgrees, Terminal

\* Rows whose leases nobody changes stay orphaned unless a worker draws their token.
LEMMA OrphansKept ==
  ASSUME TypeOK, ClaimsConsistent, RunnersHold, UNCHANGED <<status, token>>,
         lapsed' \subseteq lapsed,
         \A v \in Workers : \/ claim'[v].token = claim[v].token /\ claim'[v].job = claim[v].job
                            \/ claim'[v].token = NoToken
  PROVE  \A j \in lapsed' : Orphaned(j)'
  BY DEF RunnersHold, Orphaned, Holds, TypeOK

LEMMA AgreementStep ==
  IInv /\ Unheld /\ RunnersHold /\ RecordAgrees /\ Calm /\ Calm' /\ [Next]_vars
    => RunnersHold' /\ RecordAgrees'
<1> SUFFICES ASSUME TypeOK, RowsConsistent, ClaimsConsistent, Unheld, RunnersHold, RecordAgrees,
                    Calm, Calm', [Next]_vars
             PROVE  RunnersHold' /\ RecordAgrees'
  BY DEF IInv, LeaseInv
<1> USE DEF TypeOK, jobVars, eventVars, faultVars
\* Steps of no worker that change no lease and settle nothing.
<1>0. ASSUME UNCHANGED <<pc, claim, token, record>>,
             \A j \in Jobs :
               status'[j] # status[j] => status[j] = "absent" /\ status'[j] = "queued",
             \A j \in lapsed' : j \in Jobs /\ (j \in lapsed \/ Orphaned(j))
      PROVE  RunnersHold' /\ RecordAgrees'
  <2>1. \A v \in Workers, j \in Jobs :
          (Holds(v, j)' <=> Holds(v, j)) /\ (Failing(v, j)' <=> Failing(v, j))
    BY <1>0 DEF Holds, Failing, AttemptsLeft
  <2>2. \A j \in lapsed' : Orphaned(j)'
    BY <1>0, <2>1 DEF Orphaned, RunnersHold
  <2>3. ASSUME NEW v \in Workers PROVE Diligent(v)'
    <3>1. Diligent(v) /\ (pc[v] \in Running => claim[v].job \in Jobs)
      BY JobInHand DEF RunnersHold, Running
    <3>2. QED
      BY <1>0, <2>1, <3>1 DEF Diligent, AttemptsLeft, Holds, Failing
  <2>4. RecordAgrees'
    BY <1>0, <2>1, RecordKept DEF Terminal
  <2>5. QED
    BY <2>2, <2>3, <2>4 DEF RunnersHold
<1>1. ASSUME NEW j \in Jobs, Enqueue(j) PROVE RunnersHold' /\ RecordAgrees'
  BY <1>0, <1>1 DEF Enqueue
<1>2. ASSUME NEW j \in Jobs, ManualRetry(j) PROVE FALSE
  BY <1>2 DEF ManualRetry, Calm
<1>3. ASSUME NEW j \in Jobs, BackoffElapses(j) PROVE RunnersHold' /\ RecordAgrees'
  BY <1>0, <1>3 DEF BackoffElapses
<1>4. ASSUME NEW j \in Jobs, LeaseLapses(j) PROVE RunnersHold' /\ RecordAgrees'
  <2>1. Orphaned(j)
    BY <1>4 DEF LeaseLapses, Calm
  <2>2. QED
    BY <1>0, <1>4, <2>1 DEF LeaseLapses
<1>5. ASSUME NEW w \in Workers, Heartbeat(w) PROVE RunnersHold' /\ RecordAgrees'
  BY <1>0, <1>5 DEF Heartbeat
<1>6. ASSUME NEW w \in Workers, Crash(w) PROVE FALSE
  BY <1>6 DEF Crash, Calm
<1>7. ASSUME NEW w \in Workers, Recover(w) PROVE RunnersHold' /\ RecordAgrees'
  <2>1. \A v \in Workers, j \in Jobs : Holds(v, j) => j \notin lapsed
    BY DEF RunnersHold, Orphaned
  <2>2. /\ status' = [j \in Jobs |-> IF j \in lapsed THEN "queued" ELSE status[j]]
        /\ token' = [j \in Jobs |-> IF j \in lapsed THEN NoToken ELSE token[j]]
        /\ lapsed' = {} /\ UNCHANGED <<record, claim>>
        /\ pc[w] = "idle" /\ pc' = [pc EXCEPT ![w] = "polling"]
    BY <1>7 DEF Recover, Goto
  <2>3. \A v \in Workers, j \in Jobs : Holds(v, j) => Holds(v, j)'
    BY <2>1, <2>2 DEF Holds
  <2>4. \A j \in Jobs : status[j] = "failed" => status'[j] = "failed"
    BY <2>2 DEF RowsConsistent
  <2>5. Diligent(w)'
    BY <2>2 DEF Diligent, Running, Failing
  <2>6. RunnersHold'
    BY <2>2, <2>3, <2>4, <2>5, RunnersKept
  <2>7. \A v \in Workers, j \in Jobs : Failing(v, j) => Failing(v, j)'
    BY <2>2 DEF Failing, AttemptsLeft
  <2>8. RecordAgrees'
    BY <2>2, <2>7, RecordKept DEF Terminal
  <2>9. QED
    BY <2>6, <2>8
\* A worker that holds nothing and has failed nothing goes back to the start, or selects a job.
<1>8. ASSUME NEW w \in Workers, UNCHANGED <<jobVars, record>>,
             pc[w] \in {"idle", "polling", "selected"} \/ AttemptsLeft(w),
             \A j \in Jobs : ~Holds(w, j), pc[w] # "settling",
             pc'[w] \in {"idle", "selected"}, claim'[w].token = NoToken,
             \A v \in Workers \ {w} : pc'[v] = pc[v] /\ claim'[v] = claim[v]
      PROVE  RunnersHold' /\ RecordAgrees'
  <2>1. \A v \in Workers, j \in Jobs : Holds(v, j) => v # w /\ Holds(v, j)'
    BY <1>8 DEF Holds
  <2>2. Diligent(w)'
    BY <1>8 DEF Diligent, Running, Failing
  <2>3. \A j \in lapsed' : Orphaned(j)'
    BY <1>8, OrphansKept
  <2>4. RunnersHold'
    BY <1>8, <2>1, <2>2, <2>3, RunnersKept
  <2>5. \A v \in Workers, j \in Jobs : Failing(v, j) => Failing(v, j)'
    BY <1>8 DEF Failing, AttemptsLeft
  <2>6. RecordAgrees'
    BY <1>8, <2>5, RecordKept
  <2>7. QED
    BY <2>4, <2>6
<1>9. ASSUME NEW w \in Workers, Select(w) PROVE RunnersHold' /\ RecordAgrees'
  <2>1. pc[w] = "polling" /\ UNCHANGED <<jobVars, record>>
    BY <1>9 DEF Select
  <2>2. \A j \in Jobs : ~Holds(w, j)
    BY <2>1 DEF Holds, ClaimsConsistent, Beating
  <2>3. /\ pc'[w] \in {"idle", "selected"} /\ claim'[w].token = NoToken
        /\ \A v \in Workers \ {w} : pc'[v] = pc[v] /\ claim'[v] = claim[v]
    BY <1>9 DEF Select, Drop, Goto, NoClaim
  <2>4. QED
    BY <1>8, <2>1, <2>2, <2>3
<1>10. ASSUME NEW w \in Workers, ClaimWrite(w) PROVE RunnersHold' /\ RecordAgrees'
  <2>0. PICK j \in Jobs : j = claim[w].job /\ claim[w].token = NoToken /\ pc[w] = "selected"
    BY <1>10, JobInHand DEF ClaimWrite, ClaimsConsistent, Beating
  <2>1. CASE Drop(w) /\ UNCHANGED jobVars
    <3>1. \A k \in Jobs : ~Holds(w, k)
      BY <2>0 DEF Holds
    <3>2. /\ pc'[w] = "idle" /\ claim'[w].token = NoToken
          /\ \A v \in Workers \ {w} : pc'[v] = pc[v] /\ claim'[v] = claim[v]
      BY <2>1 DEF Drop, Goto, NoClaim
    <3>3. QED
      BY <1>8, <1>10, <2>0, <2>1, <3>1, <3>2 DEF ClaimWrite
  <2>2. CASE issued # Tokens /\ TakeLease(j, FreshToken) /\ Goto(w, "claimed")
             /\ claim' = [claim EXCEPT ![w].token = FreshToken]
    <3>1. FreshToken # NoToken /\ FreshToken \notin issued
      BY <2>2, FreshTokenIsNew, SentinelAssumption
    <3>2. /\ status[j] = "queued" /\ status' = [status EXCEPT ![j] = "running"]
          /\ token' = [token EXCEPT ![j] = FreshToken] /\ lapsed' = lapsed \ {j}
          /\ pc' = [pc EXCEPT ![w] = "claimed"] /\ UNCHANGED record
      BY <1>10, <2>2 DEF ClaimWrite, TakeLease, Goto
    <3>3. Holds(w, j)' /\ claim'[w].job = j
      BY <2>0, <2>2, <3>1, <3>2 DEF Holds, Claims
    <3>4. \A v \in Workers, k \in Jobs : Holds(v, k) => Holds(v, k)'
      BY <2>0, <2>2, <3>2 DEF Holds
    <3>5. \A v \in Workers, k \in Jobs : k # j /\ Holds(v, k)' => Holds(v, k)
      BY <2>0, <2>2, <3>2, <3>3 DEF Holds
    <3>6. \A k \in lapsed' : Orphaned(k)'
      BY <3>2, <3>5 DEF RunnersHold, Orphaned
    <3>7. Diligent(w)'
      BY <3>2, <3>3 DEF Diligent, Running, Failing
    <3>8. RunnersHold'
      BY <2>2, <3>2, <3>4, <3>6, <3>7, RunnersKept
    <3>9. \A v \in Workers, k \in Jobs : Failing(v, k) => Failing(v, k)'
      BY <2>0, <2>2, <3>2 DEF Failing, AttemptsLeft
    <3>10. RecordAgrees'
      BY <2>2, <3>2, <3>9, RecordKept DEF Terminal
    <3>11. QED
      BY <3>8, <3>10
  <2>3. QED
    BY <1>10, <2>0, <2>1, <2>2 DEF ClaimWrite
\* The holder goes on to another step and may write the domain row of its job.
<1>11. ASSUME NEW w \in Workers, NEW j \in Jobs, claim[w].job = j, Holds(w, j),
              pc[w] \in Running, pc'[w] \in Running,
              pc' = [pc EXCEPT ![w] = pc'[w]], UNCHANGED jobVars,
              claim'[w].job = j, claim'[w].token = claim[w].token,
              \A v \in Workers \ {w} : claim'[v] = claim[v],
              \A k \in Jobs \ {j} : record'[k] = record[k],
              pc'[w] = "returned" => record'[j] = "completed"
       PROVE  RunnersHold' /\ RecordAgrees'
  <2>1. \A v \in Workers, k \in Jobs : Holds(v, k)' <=> Holds(v, k)
    BY <1>11 DEF Holds
  <2>2. Diligent(w)'
    BY <1>11, <2>1 DEF Diligent, Running, Failing, Holds
  <2>3. \A k \in lapsed' : Orphaned(k)'
    BY <1>11, <2>1 DEF RunnersHold, Orphaned
  <2>4. RunnersHold'
    BY <1>11, <2>1, <2>2, <2>3, RunnersKept
  <2>5. \A v \in Workers, k \in Jobs : Failing(v, k) => Failing(v, k)'
    BY <1>11 DEF Failing, AttemptsLeft, Running
  <2>6. \A v \in Workers \ {w} : pc[v] = "returned" => claim[v].job # j /\ claim[v].job \in Jobs
    BY <1>11, JobInHand DEF RunnersHold, Diligent, Running, Holds, ClaimsConsistent
  <2>7. status[j] = "running"
    BY <1>11 DEF Holds
  <2>8. \A v \in Workers : pc'[v] = "returned" => record'[claim'[v].job] = "completed"
    BY <1>11, <2>6 DEF RecordAgrees
  <2>9. RecordAgrees'
    BY <1>11, <2>5, <2>7, <2>8 DEF RecordAgrees
  <2>10. QED
    BY <2>4, <2>9
<1>12. ASSUME NEW w \in Workers,
              ClaimRead(w) \/ HandlerStart(w) \/ HandlerReturn(w) \/ HandlerThrow(w)
       PROVE  RunnersHold' /\ RecordAgrees'
  <2>0. PICK j \in Jobs : j = claim[w].job /\ pc[w] \in Running
    BY <1>12, JobInHand DEF ClaimRead, HandlerStart, HandlerReturn, HandlerThrow, Running
  <2>1. Holds(w, j) /\ token[j] = claim[w].token
    BY <2>0 DEF RunnersHold, Diligent, Holds
  <2>2. CASE ClaimRead(w)
    BY <1>11, <2>0, <2>1, <2>2 DEF ClaimRead, Goto, Claims, Running
  <2>3. CASE HandlerStart(w) \/ HandlerReturn(w)
    BY <1>11, <2>0, <2>1, <2>3 DEF HandlerStart, HandlerReturn, MarkRecord, Goto, Running
  <2>4. CASE HandlerThrow(w)
    BY <1>11, <2>0, <2>1, <2>4 DEF HandlerThrow, Goto, Running
  <2>5. QED
    BY <1>12, <2>2, <2>3, <2>4
\* The holder gives the lease back.
<1>13. ASSUME NEW w \in Workers, NEW j \in Jobs, NEW s \in {"queued", "completed", "failed"},
              Holds(w, j), Release(j, s), UNCHANGED record,
              \A v \in Workers \ {w} : pc'[v] = pc[v] /\ claim'[v] = claim[v],
              pc[w] \in Running,
              \/ Drop(w) /\ s = "completed" /\ record[j] = "completed"
              \/ /\ pc'[w] = "announcing" /\ claim'[w] = claim[w] /\ s # "completed"
                 /\ ~AttemptsLeft(w) <=> s = "failed"
       PROVE  RunnersHold' /\ RecordAgrees'
  <2>1. /\ status' = [status EXCEPT ![j] = s] /\ token' = [token EXCEPT ![j] = NoToken]
        /\ lapsed' = lapsed \ {j} /\ claim[w].job = j /\ status[j] = "running"
    BY <1>13 DEF Release, Holds
  <2>2. \A v \in Workers \ {w}, k \in Jobs : Holds(v, k) => Holds(v, k)'
    BY <1>13, <2>1 DEF Holds, ClaimsConsistent
  <2>3. \A v \in Workers, k \in Jobs : Holds(v, k)' => Holds(v, k)
    BY <1>13, <2>1 DEF Holds, Drop, NoClaim
  <2>4. \A k \in lapsed' : Orphaned(k)'
    BY <2>1, <2>3 DEF RunnersHold, Orphaned
  <2>5. \A k \in Jobs : Failing(w, k)' => k = j /\ s = "failed"
    BY <1>13, <2>1 DEF Failing, AttemptsLeft, Drop, Goto
  <2>6. Diligent(w)'
    BY <1>13, <2>1, <2>5 DEF Diligent, Running, Drop, Goto
  <2>7. RunnersHold'
    BY <1>13, <2>1, <2>2, <2>4, <2>6, RunnersKept
  <2>8. \A v \in Workers, k \in Jobs : Failing(v, k) => Failing(v, k)'
    BY <1>13 DEF Failing, AttemptsLeft, Running
  <2>9. s = "failed" => Failing(w, j)'
    BY <1>13, <2>1 DEF Failing, AttemptsLeft
  <2>10. \A v \in Workers : pc'[v] = "returned" => pc[v] = "returned" /\ claim'[v] = claim[v]
    BY <1>13 DEF Drop, Goto
  <2>11. QED
    BY <1>13, <2>1, <2>7, <2>8, <2>9, <2>10 DEF RecordAgrees
<1>14. ASSUME NEW w \in Workers, Complete(w) PROVE RunnersHold' /\ RecordAgrees'
  <2>1. PICK j \in Jobs : j = claim[w].job /\ pc[w] = "returned"
    BY <1>14, JobInHand DEF Complete
  <2>2. Holds(w, j) /\ record[j] = "completed"
    BY <2>1 DEF RunnersHold, Diligent, Running, RecordAgrees
  <2>3. Release(j, "completed") /\ Drop(w) /\ UNCHANGED record
    BY <1>14, <2>1, <2>2 DEF Complete
  <2>4. \A v \in Workers \ {w} : pc'[v] = pc[v] /\ claim'[v] = claim[v]
    BY <2>3 DEF Drop, Goto
  <2>5. QED
    BY <1>13, <2>1, <2>2, <2>3, <2>4 DEF Running
<1>15. ASSUME NEW w \in Workers, RecordFailure(w) PROVE RunnersHold' /\ RecordAgrees'
  <2> DEFINE s == IF AttemptsLeft(w) THEN "queued" ELSE "failed"
  <2>1. PICK j \in Jobs : j = claim[w].job /\ pc[w] = "threw"
    BY <1>15, JobInHand DEF RecordFailure
  <2>2. Holds(w, j)
    BY <2>1 DEF RunnersHold, Diligent, Running
  <2>3. Release(j, s) /\ pc' = [pc EXCEPT ![w] = "announcing"] /\ UNCHANGED <<claim, record>>
    BY <1>15, <2>1, <2>2 DEF RecordFailure, Goto
  <2>4. QED
    BY <1>13, <2>1, <2>2, <2>3 DEF Running
<1>16. ASSUME NEW w \in Workers, Announce(w) PROVE RunnersHold' /\ RecordAgrees'
  <2>1. pc[w] = "announcing" /\ UNCHANGED <<jobVars, record>> /\ \A j \in Jobs : ~Holds(w, j)
    BY <1>16 DEF Announce, Unheld
  <2>2. CASE AttemptsLeft(w)
    <3>1. Drop(w)
      BY <1>16, <2>2 DEF Announce
    <3>2. /\ pc'[w] = "idle" /\ claim'[w].token = NoToken
          /\ \A v \in Workers \ {w} : pc'[v] = pc[v] /\ claim'[v] = claim[v]
      BY <3>1 DEF Drop, Goto, NoClaim
    <3>3. QED
      BY <1>8, <2>1, <2>2, <3>2
  <2>3. CASE ~AttemptsLeft(w)
    <3>1. pc' = [pc EXCEPT ![w] = "settling"] /\ claim' = claim
      BY <1>16, <2>3 DEF Announce, Goto
    <3>2. \A v \in Workers, j \in Jobs :
            (Holds(v, j)' <=> Holds(v, j)) /\ (Failing(v, j)' <=> Failing(v, j))
      BY <2>1, <3>1 DEF Holds, Failing, AttemptsLeft
    <3>3. Diligent(w)'
      BY <2>1, <2>3, <3>1, <3>2 DEF RunnersHold, Diligent, Running, AttemptsLeft
    <3>4. \A j \in lapsed' : Orphaned(j)'
      BY <2>1, <3>2 DEF RunnersHold, Orphaned
    <3>5. RunnersHold'
      BY <2>1, <3>1, <3>2, <3>3, <3>4, RunnersKept
    <3>6. RecordAgrees'
      BY <2>1, <3>1, <3>2, RecordKept
    <3>7. QED
      BY <3>5, <3>6
  <2>4. QED
    BY <2>2, <2>3
<1>17. ASSUME NEW w \in Workers, SettleDependents(w) PROVE RunnersHold' /\ RecordAgrees'
  <2>1. PICK j \in Jobs : j = claim[w].job /\ pc[w] = "settling"
    BY <1>17, JobInHand DEF SettleDependents
  <2>2. Failing(w, j) /\ status[j] = "failed"
    BY <2>1 DEF RunnersHold, Diligent, Failing
  <2>3. /\ UNCHANGED jobVars /\ record' = [record EXCEPT ![j] = "failed"]
        /\ pc' = [pc EXCEPT ![w] = "idle"] /\ claim' = [claim EXCEPT ![w] = NoClaim]
    BY <1>17, <2>1 DEF SettleDependents, MarkRecord, Drop, Goto
  <2>4. \A k \in Jobs : ~Holds(w, k)
    BY <2>1 DEF Unheld
  <2>5. \A v \in Workers, k \in Jobs : Holds(v, k) => Holds(v, k)'
    BY <2>3, <2>4 DEF Holds
  <2>6. \A k \in lapsed' : Orphaned(k)'
    BY <2>3, OrphansKept DEF NoClaim
  <2>7. Diligent(w)'
    BY <2>3 DEF Diligent, Running, Failing
  <2>8. RunnersHold'
    BY <2>3, <2>5, <2>6, <2>7, RunnersKept
  <2>9. \A v \in Workers, k \in Jobs : k # j /\ Failing(v, k) => Failing(v, k)'
    BY <2>2, <2>3 DEF Failing, AttemptsLeft
  <2>10. \A v \in Workers : pc[v] = "returned" => claim[v].job # j /\ claim[v].job \in Jobs
    BY <2>2, JobInHand DEF RunnersHold, Diligent, Running, Holds
  <2>11. \A v \in Workers : pc'[v] = "returned" => v # w /\ record'[claim'[v].job] = "completed"
    BY <2>3, <2>10 DEF RecordAgrees
  <2>12. RecordAgrees'
    BY <2>2, <2>3, <2>9, <2>11 DEF RecordAgrees
  <2>13. QED
    BY <2>8, <2>12
<1>18. CASE UNCHANGED vars
  BY <1>0, <1>18 DEF vars
<1>19. QED
  BY <1>1, <1>2, <1>3, <1>4, <1>5, <1>6, <1>7, <1>9, <1>10, <1>12, <1>14, <1>15, <1>16, <1>17,
     <1>18 DEF Next, WorkerStep

\* There is no calm after a fault.
LEMMA CalmBefore == TypeOK /\ [Next]_vars /\ Calm' => Calm
<1> SUFFICES ASSUME TypeOK, [Next]_vars, Calm' PROVE Calm
  OBVIOUS
<1> USE DEF TypeOK, Calm, faultVars
<1>1. ASSUME NEW j \in Jobs, Enqueue(j) \/ BackoffElapses(j) PROVE Calm
  BY <1>1 DEF Enqueue, BackoffElapses
<1>2. ASSUME NEW j \in Jobs, ManualRetry(j) \/ LeaseLapses(j) PROVE Calm
  BY <1>2 DEF ManualRetry, LeaseLapses
<1>3. ASSUME NEW w \in Workers, Crash(w) PROVE Calm
  BY <1>3 DEF Crash
<1>4. ASSUME NEW w \in Workers, WorkerStep(w) \/ Heartbeat(w) PROVE Calm
  <2>1. UNCHANGED faultVars
    BY <1>4 DEF WorkerStep, Heartbeat, Recover, Select, ClaimWrite, ClaimRead, HandlerStart,
                HandlerReturn, HandlerThrow, Complete, RecordFailure, Announce, SettleDependents
  <2>2. QED
    BY <2>1
<1>5. CASE UNCHANGED vars
  BY <1>5 DEF vars
<1>6. QED
  BY <1>1, <1>2, <1>3, <1>4, <1>5 DEF Next

\* Without crashes, stalls and operator retries, a settled job that nobody is busy with agrees
\* with the row it worked on.
THEOREM SettledRowsAgree == Spec => []FaultFreeAgreement
<1> DEFINE AInv == Unheld /\ (Calm => RunnersHold /\ RecordAgrees)
<1>1. Init => AInv
  BY BoundsAssumption DEF Init, Unheld, RunnersHold, Diligent, Running, Failing, RecordAgrees
<1>2. IInv /\ AInv /\ [Next]_vars => AInv'
  BY UnheldStep, AgreementStep, CalmBefore DEF IInv
<1>3. AInv => FaultFreeAgreement
  <2> SUFFICES ASSUME RecordAgrees, NEW j \in Jobs, status[j] \in Terminal, ~Engaged(j)
               PROVE  record[j] = status[j]
    BY DEF FaultFreeAgreement, Calm
  <2>1. \A w \in Workers : ~Failing(w, j)
    BY DEF Engaged, Failing
  <2>2. QED
    BY <2>1 DEF RecordAgrees, Terminal
<1>4. QED
  BY <1>1, <1>2, <1>3, Invariance, PTL DEF Spec

=============================================================================
