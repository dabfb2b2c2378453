------------------------------ MODULE JobQueue ------------------------------
(***************************************************************************)
(* The Postgres job queue of apps/worker/src/job-processor.ts together     *)
(* with the two API operations that write job rows (jobs.service.ts).      *)
(*                                                                         *)
(* Each database statement is one action, because any other process may    *)
(* run between two statements of the same worker.  Clocks are abstracted   *)
(* to the comparisons the code makes: "availableAt <= now" is membership   *)
(* of due, "leaseExpiresAt <= now" is membership of lapsed, and the        *)
(* ORDER BY availableAt is the relation earlier.                           *)
(***************************************************************************)
EXTENDS Naturals, FiniteSets

CONSTANTS Jobs,              \* job rows
          Workers,           \* worker processes
          Tokens,            \* values randomUUID can return, each at most once
          NoJob, NoToken,    \* the worker has no candidate / leaseToken IS NULL
          MaxAttempts,       \* Job.maxAttempts
          MaxCrashes,        \* bound: worker crashes in a behaviour
          MaxStalls,         \* bound: leases that lapse under a live holder
          MaxManualRetries   \* bound: operator retries in a behaviour

ASSUME BoundsAssumption ==
  /\ MaxAttempts \in Nat \ {0}
  /\ MaxCrashes \in Nat /\ MaxStalls \in Nat /\ MaxManualRetries \in Nat
ASSUME SentinelAssumption == NoJob \notin Jobs /\ NoToken \notin Tokens

VARIABLES
  status,     \* status[j]: Job.status, or "absent" before the row exists
  attempts,   \* attempts[j]: Job.attempts
  token,      \* token[j]: Job.leaseToken
  lapsed,     \* running jobs whose lease is over at the database's clock
  due,        \* queued jobs with availableAt <= now
  earlier,    \* <<j, k>>: both due and j has the smaller availableAt
  record,     \* record[j]: status of the domain row the job works on (extraction, run, report)
  retried,    \* <<j, n>>: a job.retry_scheduled event of attempt n is in the outbox
  failures,   \* jobs with a job.failed event in the outbox
  pc, claim,  \* per worker: the next step, and the candidate or claimed row it has in memory
  issued,     \* tokens drawn so far
  inherited,  \* jobs that were left running before the first state, by a worker that is gone
  crashes, stalls, manualRetries   \* used up so far of the bounds

jobVars    == <<status, attempts, token, lapsed, due, earlier>>
faultVars  == <<inherited, crashes, stalls, manualRetries>>
eventVars  == <<retried, failures>>
vars == <<jobVars, record, eventVars, pc, claim, issued, faultVars>>

Terminal == {"completed", "failed"}
Statuses == {"absent", "queued", "running"} \cup Terminal
RecordStatuses == {"queued", "running", "completed", "failed"}

\* process() renews the lease from the moment claim() returns until its finally block.
Beating == {"working", "handling", "returned", "threw", "announcing", "settling"}
\* From the claim to the write that settles the job.
AtWork == {"claimed", "working", "handling", "returned", "threw"}
Steps == {"idle", "polling", "selected", "claimed"} \cup Beating

Claims == [job : Jobs \cup {NoJob}, token : Tokens \cup {NoToken}, attempts : Nat]
NoClaim == [job |-> NoJob, token |-> NoToken, attempts |-> 0]

\* Worker w holds the lease of job j: its in-memory token is the one in the row.
Holds(w, j) ==
  /\ claim[w].job = j
  /\ status[j] = "running"
  /\ token[j] # NoToken
  /\ token[j] = claim[w].token

Orphaned(j) == status[j] = "running" /\ \A w \in Workers : ~Holds(w, j)

-----------------------------------------------------------------------------
(* The due set and the order of availableAt.  A job becomes due when the    *)
(* clock reaches its availableAt, or is written with availableAt = now, so  *)
(* the order of availableAt is the order of becoming due; the jobs of one   *)
(* recovery sweep share the same instant and stay unordered.                *)

Without(S) == {p \in earlier : p[1] \notin S /\ p[2] \notin S}

BecomeDue(S) ==
  /\ due' = due \cup S
  /\ earlier' = Without(S) \cup ((due \ S) \X S)

NotDue(S) ==
  /\ due' = due \ S
  /\ earlier' = Without(S)

\* findFirst orders by availableAt ascending; ties go either way.
Oldest == {j \in due : \A k \in due : <<k, j>> \notin earlier}

Goto(w, step) == pc' = [pc EXCEPT ![w] = step]
Drop(w) == Goto(w, "idle") /\ claim' = [claim EXCEPT ![w] = NoClaim]

-----------------------------------------------------------------------------
(* The API side. *)

\* JobsService.enqueue (and the job.create calls of the handlers): a new row, due at once.
Enqueue(j) ==
  /\ status[j] = "absent"
  /\ status' = [status EXCEPT ![j] = "queued"]
  /\ BecomeDue({j})
  /\ UNCHANGED <<attempts, token, lapsed, record, eventVars, pc, claim, issued, faultVars>>

\* JobsService.retry: refused for a running job by the read and again by the where clause of
\* the write, so the write decides.  attempts and the domain row keep their values.
ManualRetry(j) ==
  /\ manualRetries < MaxManualRetries
  /\ status[j] \in {"queued", "completed", "failed"}
  /\ status' = [status EXCEPT ![j] = "queued"]
  /\ token' = [token EXCEPT ![j] = NoToken]
  /\ BecomeDue({j})
  /\ manualRetries' = manualRetries + 1
  /\ UNCHANGED <<attempts, lapsed, record, eventVars, pc, claim, issued, inherited, crashes, stalls>>

-----------------------------------------------------------------------------
(* One iteration of a worker's loop: processNext, process, recordFailure.  *)

\* Faulty variant: the sweep looks only at rows that carry a lease token.
RecoverTokensOnly(w) ==
  /\ pc[w] = "idle"
  /\ Goto(w, "polling")
  /\ LET swept == {j \in lapsed : token[j] # NoToken} IN
       /\ status' = [j \in Jobs |-> IF j \in swept THEN "queued" ELSE status[j]]
       /\ token' = [j \in Jobs |-> IF j \in swept THEN NoToken ELSE token[j]]
       /\ BecomeDue(swept)
       /\ lapsed' = lapsed \ swept
  /\ UNCHANGED <<attempts, record, eventVars, claim, issued, faultVars>>

\* recoverExpiredLeases: one updateMany over every running row whose lease is over.
\* maxAttempts plays no part in it.
Recover(w) ==
  /\ pc[w] = "idle"
  /\ Goto(w, "polling")
  /\ status' = [j \in Jobs |-> IF j \in lapsed THEN "queued" ELSE status[j]]
  /\ token' = [j \in Jobs |-> IF j \in lapsed THEN NoToken ELSE token[j]]
  /\ BecomeDue(lapsed)
  /\ lapsed' = {}
  /\ UNCHANGED <<attempts, record, eventVars, claim, issued, faultVars>>

\* findFirst: the due job with the smallest availableAt, or the loop sleeps.
Select(w) ==
  /\ pc[w] = "polling"
  /\ \/ /\ due = {}
        /\ Drop(w)
     \/ \E j \in Oldest :
          /\ Goto(w, "selected")
          /\ claim' = [claim EXCEPT ![w] = [NoClaim EXCEPT !.job = j]]
  /\ UNCHANGED <<jobVars, record, eventVars, issued, faultVars>>

\* Faulty variant: the same lease token for every claim.
SameToken == CHOOSE t \in Tokens : TRUE

\* randomUUID never returns a token twice.  Tokens are only compared for equality, so which of
\* the unused ones it returns does not matter.
FreshToken == CHOOSE t \in Tokens : t \notin issued

\* The conditional updateMany of claim().
TakeLease(j, t) ==
  /\ status[j] = "queued" /\ j \in due
  /\ status' = [status EXCEPT ![j] = "running"]
  /\ attempts' = [attempts EXCEPT ![j] = @ + 1]
  /\ token' = [token EXCEPT ![j] = t]
  /\ lapsed' = lapsed \ {j}
  /\ NotDue({j})

ClaimWrite(w) ==
  /\ pc[w] = "selected"
  /\ LET j == claim[w].job IN
       \/ /\ issued # Tokens
          /\ TakeLease(j, FreshToken)
          /\ issued' = issued \cup {FreshToken}
          /\ Goto(w, "claimed")
          /\ claim' = [claim EXCEPT ![w].token = FreshToken]
       \/ /\ ~(status[j] = "queued" /\ j \in due)
          /\ Drop(w)
          /\ UNCHANGED <<jobVars, issued>>
  /\ UNCHANGED <<record, eventVars, faultVars>>

\* The re-read of claim(): the row must still carry this worker's token.
ClaimRead(w) ==
  /\ pc[w] = "claimed"
  /\ LET j == claim[w].job IN
       IF token[j] = claim[w].token
         THEN /\ Goto(w, "working")
              /\ claim' = [claim EXCEPT ![w].attempts = attempts[j]]
         ELSE Drop(w)
  /\ UNCHANGED <<jobVars, record, eventVars, issued, faultVars>>

\* renewJobLease, on a timer while process() runs.  A heartbeat that finds the lease gone is
\* only logged: it does not stop the handler.
Heartbeat(w) ==
  /\ pc[w] \in Beating
  /\ \E j \in lapsed :
       /\ Holds(w, j)
       /\ lapsed' = lapsed \ {j}
  /\ UNCHANGED <<status, attempts, token, due, earlier, record, eventVars, pc, claim, issued,
                 faultVars>>

\* The handlers write their domain row by id alone: not fenced by the lease.
MarkRecord(w, s) == record' = [record EXCEPT ![claim[w].job] = s]

HandlerStart(w) ==
  /\ pc[w] = "working"
  /\ Goto(w, "handling")
  /\ MarkRecord(w, "running")
  /\ UNCHANGED <<jobVars, eventVars, claim, issued, faultVars>>

HandlerReturn(w) ==
  /\ pc[w] = "handling"
  /\ Goto(w, "returned")
  /\ MarkRecord(w, "completed")
  /\ UNCHANGED <<jobVars, eventVars, claim, issued, faultVars>>

\* The handler throws before, during or after it has written its result (a later step of the
\* same handler may fail), or the completing write itself throws.
HandlerThrow(w) ==
  /\ pc[w] \in {"working", "handling", "returned"}
  /\ Goto(w, "threw")
  /\ UNCHANGED <<jobVars, record, eventVars, claim, issued, faultVars>>

\* Faulty variant: the lease token stays in the row.
ReleaseKeepsToken(j, s) ==
  /\ status' = [status EXCEPT ![j] = s]
  /\ lapsed' = lapsed \ {j}
  /\ UNCHANGED <<attempts, token, due, earlier>>

\* The fenced write every terminal update of process() and recordFailure() uses.
Release(j, s) ==
  /\ status' = [status EXCEPT ![j] = s]
  /\ token' = [token EXCEPT ![j] = NoToken]
  /\ lapsed' = lapsed \ {j}
  /\ UNCHANGED <<attempts, due, earlier>>

\* Faulty variant: completion matches the job id and status but not the lease token.
CompleteUnfenced(w) ==
  /\ pc[w] = "returned"
  /\ LET j == claim[w].job IN
       IF status[j] = "running" THEN Release(j, "completed") ELSE UNCHANGED jobVars
  /\ Drop(w)
  /\ UNCHANGED <<record, eventVars, issued, faultVars>>

Complete(w) ==
  /\ pc[w] = "returned"
  /\ LET j == claim[w].job IN
       IF Holds(w, j) THEN Release(j, "completed") ELSE UNCHANGED jobVars
  /\ Drop(w)
  /\ UNCHANGED <<record, eventVars, issued, faultVars>>

\* Faulty variant: off by one in the attempt budget.
AttemptsLeftOffByOne(w) == claim[w].attempts + 1 < MaxAttempts

\* Faulty variant: off by one the other way.
AttemptsLeftGenerous(w) == claim[w].attempts <= MaxAttempts

\* recordFailure compares the attempts it read when it claimed.
AttemptsLeft(w) == claim[w].attempts < MaxAttempts

\* recordFailure, first write: requeue with backoff (availableAt in the future) or fail.
RecordFailure(w) ==
  /\ pc[w] = "threw"
  /\ LET j == claim[w].job IN
       IF Holds(w, j)
         THEN /\ Release(j, IF AttemptsLeft(w) THEN "queued" ELSE "failed")
              /\ Goto(w, "announcing")
              /\ UNCHANGED claim
         ELSE /\ UNCHANGED jobVars
              /\ Drop(w)
  /\ UNCHANGED <<record, eventVars, issued, faultVars>>

\* recordFailure, second write: the outbox row, at most one per dedupe key.
Announce(w) ==
  /\ pc[w] = "announcing"
  /\ IF AttemptsLeft(w)
       THEN /\ retried' = retried \cup {<<claim[w].job, claim[w].attempts>>}
            /\ Drop(w)
            /\ UNCHANGED failures
       ELSE /\ failures' = failures \cup {claim[w].job}
            /\ Goto(w, "settling")
            /\ UNCHANGED <<retried, claim>>
  /\ UNCHANGED <<jobVars, record, issued, faultVars>>

\* Faulty variant: the last step forgets the domain row.
SettleDependentsSkipped(w) ==
  /\ pc[w] = "settling"
  /\ Drop(w)
  /\ UNCHANGED <<jobVars, record, eventVars, issued, faultVars>>

\* recordFailure, last writes: the domain row of the failed job is marked failed.
SettleDependents(w) ==
  /\ pc[w] = "settling"
  /\ MarkRecord(w, "failed")
  /\ Drop(w)
  /\ UNCHANGED <<jobVars, eventVars, issued, faultVars>>

-----------------------------------------------------------------------------
(* Time and failures. *)

BackoffElapses(j) ==
  /\ status[j] = "queued" /\ j \notin due
  /\ BecomeDue({j})
  /\ UNCHANGED <<status, attempts, token, lapsed, record, eventVars, pc, claim, issued, faultVars>>

\* A lease runs out: always if nobody renews it, and also under a holder whose heartbeats
\* stall for a whole lease window.
LeaseLapses(j) ==
  /\ status[j] = "running" /\ j \notin lapsed
  /\ lapsed' = lapsed \cup {j}
  /\ \/ Orphaned(j) /\ UNCHANGED stalls
     \/ ~Orphaned(j) /\ stalls < MaxStalls /\ stalls' = stalls + 1
  /\ UNCHANGED <<status, attempts, token, due, earlier, record, eventVars, pc, claim, issued,
                 inherited, crashes, manualRetries>>

\* A worker process dies and is started again: its memory is gone, the rows stay.
Crash(w) ==
  /\ crashes < MaxCrashes
  /\ pc[w] # "idle"
  /\ Drop(w)
  /\ crashes' = crashes + 1
  /\ UNCHANGED <<jobVars, record, eventVars, issued, inherited, stalls, manualRetries>>

-----------------------------------------------------------------------------
\* A database of the previous release may hold running rows without a lease token, in any of
\* their attempts.
Init ==
  /\ status \in [Jobs -> {"absent", "running"}]
  /\ inherited = {j \in Jobs : status[j] = "running"}
  /\ attempts \in [Jobs -> 0 .. MaxAttempts]
  /\ \A j \in Jobs : attempts[j] = 0 <=> status[j] = "absent"
  /\ token = [j \in Jobs |-> NoToken]
  /\ lapsed = {} /\ due = {} /\ earlier = {}
  /\ record = [j \in Jobs |-> IF status[j] = "running" THEN "running" ELSE "queued"]
  /\ retried = {} /\ failures = {}
  /\ pc = [w \in Workers |-> "idle"]
  /\ claim = [w \in Workers |-> NoClaim]
  /\ issued = {}
  /\ crashes = 0 /\ stalls = 0 /\ manualRetries = 0

WorkerStep(w) ==
  \/ Recover(w) \/ Select(w) \/ ClaimWrite(w) \/ ClaimRead(w)
  \/ HandlerStart(w) \/ HandlerReturn(w) \/ HandlerThrow(w)
  \/ Complete(w) \/ RecordFailure(w) \/ Announce(w) \/ SettleDependents(w)

Next ==
  \/ \E j \in Jobs : Enqueue(j) \/ ManualRetry(j) \/ BackoffElapses(j) \/ LeaseLapses(j)
  \/ \E w \in Workers : WorkerStep(w) \/ Heartbeat(w) \/ Crash(w)

Spec == Init /\ [][Next]_vars

\* A live process keeps taking steps, and time passes: a backoff ends and an unrenewed lease
\* lapses.  Nothing forces a heartbeat, an enqueue, a crash or an operator.
Fairness ==
  /\ \A w \in Workers : WF_vars(WorkerStep(w))
  /\ \A j \in Jobs : WF_vars(BackoffElapses(j)) /\ WF_vars(LeaseLapses(j) /\ Orphaned(j))

FairSpec == Spec /\ Fairness

-----------------------------------------------------------------------------
(* Properties *)

\* Every variable has the values its column or field can hold.
TypeOK ==
  /\ status \in [Jobs -> Statuses]
  /\ attempts \in [Jobs -> Nat]
  /\ token \in [Jobs -> Tokens \cup {NoToken}]
  /\ lapsed \subseteq Jobs /\ due \subseteq Jobs
  /\ earlier \subseteq Jobs \X Jobs
  /\ record \in [Jobs -> RecordStatuses]
  /\ retried \subseteq Jobs \X Nat /\ failures \subseteq Jobs
  /\ pc \in [Workers -> Steps]
  /\ claim \in [Workers -> Claims]
  /\ issued \subseteq Tokens /\ inherited \subseteq Jobs
  /\ crashes \in Nat /\ stalls \in Nat /\ manualRetries \in Nat

\* The bookkeeping of rows: a lease token only on a running row, only running rows lapse,
\* only queued rows are due, and no token serves two rows.
RowsConsistent ==
  /\ \A j \in Jobs : token[j] # NoToken => status[j] = "running" /\ token[j] \in issued
  /\ \A j \in lapsed : status[j] = "running"
  /\ \A j \in due : status[j] = "queued"
  /\ \A j, k \in Jobs : token[j] # NoToken /\ token[j] = token[k] => j = k

\* The bookkeeping of workers: a step past the claim has a job and a token drawn for it, no
\* two workers share a token, and a token found in a row sits in the memory of a worker only
\* next to that row's id and (once re-read) its attempt number.
ClaimsConsistent ==
  /\ \A w \in Workers : pc[w] \in {"idle", "polling"} <=> claim[w].job = NoJob
  /\ \A w \in Workers : pc[w] \in {"claimed"} \cup Beating <=> claim[w].token # NoToken
  /\ \A w \in Workers : claim[w].token # NoToken => claim[w].token \in issued
  /\ \A v, w \in Workers : claim[v].token = claim[w].token /\ claim[v].token # NoToken => v = w
  /\ \A w \in Workers, j \in Jobs :
       token[j] # NoToken /\ claim[w].token = token[j]
         => /\ claim[w].job = j
            /\ pc[w] \in Beating => claim[w].attempts = attempts[j]

LeaseInv == RowsConsistent /\ ClaimsConsistent

\* Rows and workers never disagree about a lease, in any order of claims, crashes, stalls and
\* recoveries: with the types, the strengthening that makes SingleHolder inductive.
IInv == TypeOK /\ LeaseInv

\* At most one worker holds the lease of a job, whatever crashes, stalls, recoveries and
\* retries went before: the mutual exclusion process() relies on.
SingleHolder ==
  \A j \in Jobs : \A v, w \in Workers : Holds(v, j) /\ Holds(w, j) => v = w

\* A job fails only when its attempts are used up, and an announced retry is one that really
\* gave the lease back: the attempt it names is over.
AnnouncedOutcomes ==
  /\ \A j \in Jobs : status[j] = "failed" => attempts[j] >= MaxAttempts
  /\ \A p \in retried : p[2] < attempts[p[1]] \/ (p[2] = attempts[p[1]] /\ status[p[1]] = "queued")
  /\ \A j \in failures : attempts[j] >= MaxAttempts

Engaged(j) == \E w \in Workers : claim[w].job = j

\* Without crashes, stalls and operator retries, a settled job and its domain row agree as
\* soon as no worker is busy with it.
FaultFreeAgreement ==
  crashes + stalls + manualRetries = 0 =>
    \A j \in Jobs : status[j] \in Terminal /\ ~Engaged(j) => record[j] = status[j]

\* The queue implements the lease contract: a worker settles a job, or hands it back, only as
\* the holder of the current token, never while another worker holds the job; a lease is renewed
\* by its holder alone; and an orphaned lease ends by recovery alone, once it has run out.
taskNow == [w \in Workers |-> IF pc[w] \in AtWork THEN claim[w].job ELSE NoJob]
holdersNow == [j \in Jobs |-> {w \in Workers : Holds(w, j)}]
phaseNow == [j \in Jobs |-> IF status[j] = "running" THEN "leased" ELSE status[j]]
Lease == INSTANCE JobLease WITH phase <- phaseNow, task <- taskNow, holders <- holdersNow,
                                over <- lapsed
ImplementsLease == Lease!LSpec

\* Every job that is queued or running is settled in the end: completed, or failed with its
\* attempts used up, even if its worker died.
EveryJobSettles ==
  \A j \in Jobs : status[j] \in {"queued", "running"} ~> status[j] \in Terminal

\* The attempts that a job is entitled to: the one its crashed worker had begun before the first
\* state counts as a crash.
Budget(j) ==
  MaxAttempts + crashes + stalls + manualRetries + (IF j \in inherited THEN 1 ELSE 0)

\* README: "retries use bounded exponential backoff up to a per-job maxAttempts".  recordFailure
\* keeps that bound; recovery and operator retries do not look at it, so every attempt beyond
\* maxAttempts is paid for by one crash, one stalled lease or one operator retry.
AttemptsAccounted == \A j \in Jobs : attempts[j] <= Budget(j)

=============================================================================
