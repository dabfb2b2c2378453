------------------------------ MODULE JobLease ------------------------------
(***************************************************************************)
(* What the job queue promises, without tokens, polling or clocks: a job   *)
(* is submitted, leased to one worker at a time, and settled by the worker *)
(* that holds its lease and by nobody else, another worker that was given  *)
(* the job before least of all.  A lease that its holder does not give     *)
(* back ends in one way only: it runs out, and recovery puts the job back  *)
(* in the queue.                                                           *)
(*                                                                         *)
(* A worker may go on with a job whose lease it has lost, so what a worker *)
(* is at work on is kept apart from what it holds.                         *)
(*                                                                         *)
(* JobQueue implements this module (see the instance Lease there).         *)
(***************************************************************************)
CONSTANTS Jobs, Workers, NoJob

VARIABLES phase,     \* phase[j]: where job j stands
          task,      \* task[w]: the job worker w was given and is still at work on
          holders,   \* holders[j]: the workers that hold job j's lease
          over       \* jobs whose lease has run out

leaseVars == <<phase, task, holders, over>>

Settled == {"completed", "failed"}
Phases == {"absent", "queued", "leased"} \cup Settled

\* The contract starts with rows of the previous release: some jobs queued, some leased
\* to a worker that no longer exists.
LInit ==
  /\ phase \in [Jobs -> {"absent", "queued", "leased"}]
  /\ task = [w \in Workers |-> NoJob]
  /\ holders = [j \in Jobs |-> {}]
  /\ over = {}

Submit(j) ==
  /\ phase[j] = "absent"
  /\ phase' = [phase EXCEPT ![j] = "queued"]
  /\ UNCHANGED <<task, holders, over>>

Grant(j, w) ==
  /\ phase[j] = "queued" /\ task[w] = NoJob
  /\ phase' = [phase EXCEPT ![j] = "leased"]
  /\ task' = [task EXCEPT ![w] = j]
  /\ holders' = [holders EXCEPT ![j] = {w}]
  /\ UNCHANGED over

\* Worker w ends its work on job j, and settles it or hands it back: only as its holder.
Resolve(w, j, outcome) ==
  /\ task[w] = j /\ w \in holders[j]
  /\ phase' = [phase EXCEPT ![j] = outcome]
  /\ task' = [task EXCEPT ![w] = NoJob]
  /\ holders' = [holders EXCEPT ![j] = {}]
  /\ over' = over \ {j}

\* Worker w ends its work without a word: it died, or it was too late.  A lease it held stays.
Leave(w) ==
  /\ task' = [task EXCEPT ![w] = NoJob]
  /\ holders' = [j \in Jobs |-> holders[j] \ {w}]
  /\ UNCHANGED <<phase, over>>

RunOut(j) ==
  /\ phase[j] = "leased"
  /\ over' = over \cup {j}
  /\ UNCHANGED <<phase, task, holders>>

\* A lease is renewed by its holder, also one that ran out and was not recovered yet.
Renew(w, j) ==
  /\ w \in holders[j]
  /\ over' = over \ {j}
  /\ UNCHANGED <<phase, task, holders>>

\* One recovery sweep requeues jobs whose lease has run out, whoever is at work on them.
Expire(S) ==
  /\ S \subseteq over
  /\ phase' = [j \in Jobs |-> IF j \in S THEN "queued" ELSE phase[j]]
  /\ holders' = [j \in Jobs |-> IF j \in S THEN {} ELSE holders[j]]
  /\ over' = over \ S
  /\ UNCHANGED task

\* An operator asks for a settled job to run again.
Reopen(j) ==
  /\ phase[j] \in Settled
  /\ phase' = [phase EXCEPT ![j] = "queued"]
  /\ UNCHANGED <<task, holders, over>>

LNext ==
  \/ \E j \in Jobs : Submit(j) \/ RunOut(j) \/ Reopen(j)
  \/ \E j \in Jobs, w \in Workers : Grant(j, w) \/ Renew(w, j)
  \/ \E j \in Jobs, w \in Workers, outcome \in {"queued"} \cup Settled : Resolve(w, j, outcome)
  \/ \E w \in Workers : Leave(w)
  \/ \E S \in SUBSET Jobs : Expire(S)

LSpec == LInit /\ [][LNext]_leaseVars

=============================================================================
