------------------------- MODULE NotificationOutbox -------------------------
(***************************************************************************)
(* The transactional outbox: producers write one outbox row per dedupe key *)
(* inside their own transaction, and the dispatchers of the worker         *)
(* processes (apps/worker/src/notification-outbox.ts) turn rows into       *)
(* notifications.                                                          *)
(*                                                                         *)
(* A row is identified with its tenant-scoped dedupe key: both tables have *)
(* the unique index (organizationId, dedupeKey).  Clocks are abstracted as *)
(* in JobQueue: due is "availableAt <= now", expired is "lockedAt older    *)
(* than the lease".                                                        *)
(***************************************************************************)
EXTENDS Naturals, FiniteSets

CONSTANTS Rows,          \* dedupe keys
          Workers,       \* dispatcher processes
          NoRow, NoOne,  \* no candidate in memory / lockedBy IS NULL
          MaxAttempts,   \* NOTIFICATION_OUTBOX_MAX_ATTEMPTS
          MaxFailures,   \* bound: transactions that fail for a reason of their own
          MaxCrashes,    \* bound: process crashes
          MaxStalls,     \* bound: locks that expire under a live dispatcher
          MaxReplays     \* bound: operator replays

ASSUME BoundsAssumption ==
  /\ MaxAttempts \in Nat \ {0}
  /\ MaxFailures \in Nat /\ MaxCrashes \in Nat /\ MaxStalls \in Nat /\ MaxReplays \in Nat
ASSUME SentinelAssumption == NoRow \notin Rows /\ NoOne \notin Workers \X Nat

VARIABLES
  status,     \* status[r]: NotificationOutbox.status, or "absent"
  attempts,   \* attempts[r]
  lockedBy,   \* lockedBy[r]: the dispatcher identity that claimed the row
  expired,    \* processing rows whose lockedAt is older than the lease
  due,        \* pending rows with availableAt <= now
  notified,   \* keys that have a committed Notification row
  pc, claim,  \* per process: next step, and the row it works on with the attempts it read
  incarnation, \* incarnation[w]: workerId is a fresh random id at every process start
  failures, crashes, stalls, replays   \* used up so far of the bounds

rowVars   == <<status, attempts, lockedBy, expired, due>>
faultVars == <<failures, crashes, stalls, replays>>
vars == <<rowVars, notified, pc, claim, incarnation, faultVars>>

Statuses == {"absent", "pending", "processing", "delivered", "dead_letter"}
Steps == {"idle", "polling", "selected", "claimed", "delivering", "inserted", "failed"}
Claims == [row : Rows \cup {NoRow}, attempts : Nat]
NoClaim == [row |-> NoRow, attempts |-> 0]

Me(w) == <<w, incarnation[w]>>
Owns(w, r) == status[r] = "processing" /\ lockedBy[r] = Me(w)

Goto(w, step) == pc' = [pc EXCEPT ![w] = step]
Drop(w) == Goto(w, "idle") /\ claim' = [claim EXCEPT ![w] = NoClaim]

-----------------------------------------------------------------------------
(* Producers and the operator. *)

\* publishWorkerNotification / NotificationsService.enqueue: the unique index turns a second
\* publish of the key into { duplicate: true }, which changes nothing here.
Publish(r) ==
  /\ status[r] = "absent"
  /\ status' = [status EXCEPT ![r] = "pending"]
  /\ due' = due \cup {r}
  /\ UNCHANGED <<attempts, lockedBy, expired, notified, pc, claim, incarnation, faultVars>>

Replay(r) ==
  /\ replays < MaxReplays
  /\ status[r] = "dead_letter"
  /\ status' = [status EXCEPT ![r] = "pending"]
  /\ attempts' = [attempts EXCEPT ![r] = 0]
  /\ lockedBy' = [lockedBy EXCEPT ![r] = NoOne]
  /\ due' = due \cup {r}
  /\ replays' = replays + 1
  /\ UNCHANGED <<expired, notified, pc, claim, incarnation, failures, crashes, stalls>>

-----------------------------------------------------------------------------
(* One iteration of a dispatcher: processNext and deliver. *)

\* Faulty variant: an expired lock is cleared, but the row is not put back to pending.
RecoverLocksOnly(w) ==
  /\ pc[w] = "idle"
  /\ Goto(w, "polling")
  /\ lockedBy' = [r \in Rows |-> IF r \in expired THEN NoOne ELSE lockedBy[r]]
  /\ expired' = {}
  /\ UNCHANGED <<status, attempts, due, notified, claim, incarnation, faultVars>>

\* recoverExpiredLeases: every processing row locked too long ago goes back to pending.
Recover(w) ==
  /\ pc[w] = "idle"
  /\ Goto(w, "polling")
  /\ status' = [r \in Rows |-> IF r \in expired THEN "pending" ELSE status[r]]
  /\ lockedBy' = [r \in Rows |-> IF r \in expired THEN NoOne ELSE lockedBy[r]]
  /\ due' = due \cup expired
  /\ expired' = {}
  /\ UNCHANGED <<attempts, notified, claim, incarnation, faultVars>>

\* findFirst of a pending row that is due.  No property depends on which one.
Select(w) ==
  /\ pc[w] = "polling"
  /\ \/ due = {} /\ Drop(w)
     \/ \E r \in due : /\ Goto(w, "selected")
                       /\ claim' = [claim EXCEPT ![w] = [NoClaim EXCEPT !.row = r]]
  /\ UNCHANGED <<rowVars, notified, incarnation, faultVars>>

ClaimWrite(w) ==
  /\ pc[w] = "selected"
  /\ LET r == claim[w].row IN
       \/ /\ status[r] = "pending" /\ r \in due
          /\ status' = [status EXCEPT ![r] = "processing"]
          /\ attempts' = [attempts EXCEPT ![r] = @ + 1]
          /\ lockedBy' = [lockedBy EXCEPT ![r] = Me(w)]
          /\ expired' = expired \ {r}
          /\ due' = due \ {r}
          /\ Goto(w, "claimed")
          /\ UNCHANGED claim
       \/ /\ ~(status[r] = "pending" /\ r \in due)
          /\ Drop(w)
          /\ UNCHANGED rowVars
  /\ UNCHANGED <<notified, incarnation, faultVars>>

ClaimRead(w) ==
  /\ pc[w] = "claimed"
  /\ LET r == claim[w].row IN
       IF Owns(w, r)
         THEN /\ Goto(w, "delivering")
              /\ claim' = [claim EXCEPT ![w].attempts = attempts[r]]
         ELSE Drop(w)
  /\ UNCHANGED <<rowVars, notified, incarnation, faultVars>>

\* First statement of the delivery transaction.  An insert of a key whose insert is still
\* uncommitted waits for that transaction; an insert of a committed key conflicts.  The code
\* swallows the conflict (P2002), but Postgres has aborted the transaction, so the next
\* statement raises and the whole transaction is rolled back.
InsertNotification(w) ==
  /\ pc[w] = "delivering"
  /\ \A v \in Workers \ {w} : ~(pc[v] = "inserted" /\ claim[v].row = claim[w].row)
  /\ Goto(w, IF claim[w].row \in notified THEN "failed" ELSE "inserted")
  /\ UNCHANGED <<rowVars, notified, claim, incarnation, faultVars>>

\* Faulty variant: the row is matched by id and status, without the lock owner.
FinishUnfenced(w, s) ==
  LET r == claim[w].row IN
    IF status[r] = "processing"
      THEN /\ status' = [status EXCEPT ![r] = s]
           /\ lockedBy' = [lockedBy EXCEPT ![r] = NoOne]
           /\ expired' = expired \ {r}
      ELSE UNCHANGED <<status, lockedBy, expired>>

\* The updateMany that ends a delivery, fenced by lockedBy.  Its count is not looked at.
Finish(w, s) ==
  LET r == claim[w].row IN
    IF Owns(w, r)
      THEN /\ status' = [status EXCEPT ![r] = s]
           /\ lockedBy' = [lockedBy EXCEPT ![r] = NoOne]
           /\ expired' = expired \ {r}
      ELSE UNCHANGED <<status, lockedBy, expired>>

\* Faulty variant: the delivered mark is written without the notification committed.
CommitWithoutNotification(w) ==
  /\ pc[w] = "inserted"
  /\ Finish(w, "delivered")
  /\ Drop(w)
  /\ UNCHANGED <<notified, attempts, due, incarnation, faultVars>>

\* Faulty variant: notification and mark are two transactions, of which the second may fail.
CommitInTwo(w) ==
  /\ pc[w] = "inserted"
  /\ notified' = notified \cup {claim[w].row}
  /\ \/ Finish(w, "delivered") /\ Drop(w)
     \/ Goto(w, "failed") /\ UNCHANGED <<status, lockedBy, expired, claim>>
  /\ UNCHANGED <<attempts, due, incarnation, faultVars>>

\* Second statement and commit.  A dispatcher that lost its lock still commits the
\* notification.  The commit may succeed with its acknowledgement lost, which the code takes
\* for a failure.
Commit(w) ==
  /\ pc[w] = "inserted"
  /\ notified' = notified \cup {claim[w].row}
  /\ Finish(w, "delivered")
  /\ \/ Drop(w)
     \/ Goto(w, "failed") /\ UNCHANGED claim
  /\ UNCHANGED <<attempts, due, incarnation, faultVars>>

\* The transaction fails by itself: a lost connection, a timeout, a rejected statement.
TransactionFails(w) ==
  /\ failures < MaxFailures
  /\ pc[w] \in {"delivering", "inserted"}
  /\ Goto(w, "failed")
  /\ failures' = failures + 1
  /\ UNCHANGED <<rowVars, notified, claim, incarnation, crashes, stalls, replays>>

\* Faulty variant: off by one in the attempt budget.
TerminalEarly(w) == claim[w].attempts + 1 >= MaxAttempts

\* The attempts read at the claim decide, not those of the row now.
Terminal(w) == claim[w].attempts >= MaxAttempts

\* The catch of deliver(): dead letter on the last attempt, else pending with a backoff.
RecordFailure(w) ==
  /\ pc[w] = "failed"
  /\ Finish(w, IF Terminal(w) THEN "dead_letter" ELSE "pending")
  /\ Drop(w)
  /\ UNCHANGED <<attempts, due, notified, incarnation, faultVars>>

-----------------------------------------------------------------------------
(* Time and failures. *)

BackoffElapses(r) ==
  /\ status[r] = "pending" /\ r \notin due
  /\ due' = due \cup {r}
  /\ UNCHANGED <<status, attempts, lockedBy, expired, notified, pc, claim, incarnation, faultVars>>

Abandoned(r) == status[r] = "processing" /\ \A w \in Workers : lockedBy[r] # Me(w)

\* Dispatchers do not renew their lock: it expires under a slow delivery too.
LockExpires(r) ==
  /\ status[r] = "processing" /\ r \notin expired
  /\ expired' = expired \cup {r}
  /\ \/ Abandoned(r) /\ UNCHANGED stalls
     \/ ~Abandoned(r) /\ stalls < MaxStalls /\ stalls' = stalls + 1
  /\ UNCHANGED <<status, attempts, lockedBy, due, notified, pc, claim, incarnation, failures,
                 crashes, replays>>

\* A crash rolls back an open transaction; the restarted process has a new workerId.
Crash(w) ==
  /\ crashes < MaxCrashes
  /\ pc[w] # "idle"
  /\ Drop(w)
  /\ incarnation' = [incarnation EXCEPT ![w] = @ + 1]
  /\ crashes' = crashes + 1
  /\ UNCHANGED <<rowVars, notified, failures, stalls, replays>>

-----------------------------------------------------------------------------
Init ==
  /\ status = [r \in Rows |-> "absent"]
  /\ attempts = [r \in Rows |-> 0]
  /\ lockedBy = [r \in Rows |-> NoOne]
  /\ expired = {} /\ due = {} /\ notified = {}
  /\ pc = [w \in Workers |-> "idle"]
  /\ claim = [w \in Workers |-> NoClaim]
  /\ incarnation = [w \in Workers |-> 0]
  /\ failures = 0 /\ crashes = 0 /\ stalls = 0 /\ replays = 0

DispatcherStep(w) ==
  \/ Recover(w) \/ Select(w) \/ ClaimWrite(w) \/ ClaimRead(w)
  \/ InsertNotification(w) \/ Commit(w) \/ RecordFailure(w)

Next ==
  \/ \E r \in Rows : Publish(r) \/ Replay(r) \/ BackoffElapses(r) \/ LockExpires(r)
  \/ \E w \in Workers : DispatcherStep(w) \/ TransactionFails(w) \/ Crash(w)

Spec == Init /\ [][Next]_vars

\* Processes keep polling and time passes; failures, publishes and replays are never forced.
Fairness ==
  /\ \A w \in Workers : WF_vars(DispatcherStep(w))
  /\ \A r \in Rows : WF_vars(BackoffElapses(r)) /\ WF_vars(LockExpires(r) /\ Abandoned(r))

-----------------------------------------------------------------------------
(* Properties *)

\* Every variable has the values its column or field can hold.
TypeOK ==
  /\ status \in [Rows -> Statuses]
  /\ attempts \in [Rows -> Nat]
  /\ lockedBy \in [Rows -> (Workers \X Nat) \cup {NoOne}]
  /\ expired \subseteq Rows /\ due \subseteq Rows /\ notified \subseteq Rows
  /\ pc \in [Workers -> Steps]
  /\ claim \in [Workers -> Claims]
  /\ incarnation \in [Workers -> Nat]
  /\ failures \in Nat /\ crashes \in Nat /\ stalls \in Nat /\ replays \in Nat

\* The delivered mark and the notification are one transaction: a row is never marked
\* delivered without its notification.
DeliveredIsNotified == \A r \in Rows : status[r] = "delivered" => r \in notified

\* A row is given up only with its attempts used up, whoever did the attempts.
DeadLettersExhausted == \A r \in Rows : status[r] = "dead_letter" => attempts[r] >= MaxAttempts

\* A lock ends in one of two ways: its lease had expired, or its owner finished the delivery
\* it was locked for.  A dispatcher that lost its lock never touches the row again.
LockEndsByOwnerOrExpiry ==
  [][\A r \in Rows :
       status[r] = "processing" /\ status'[r] # "processing" =>
         \/ r \in expired
         \/ \E w \in Workers : lockedBy[r] = Me(w) /\ claim[w].row = r /\ pc'[w] # pc[w]]_vars

\* An event that has its notification is given up only after a delivery that outlived its lock:
\* that one commits the notification without the mark, and whoever delivers the row again fails
\* on the unique index, attempt after attempt.  As long as every dispatcher finishes within its
\* lock, whatever fails or crashes, no dead letter stands for a delivered event.
NotifiedIsNotGivenUp ==
  stalls = 0 => \A r \in Rows : status[r] = "dead_letter" => r \notin notified

\* With fewer faults than attempts, every accepted event becomes a notification.
EveryIntentNotified == Fairness => \A r \in Rows : status[r] = "pending" ~> r \in notified

=============================================================================
