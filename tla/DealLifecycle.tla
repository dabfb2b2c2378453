----------------------------- MODULE DealLifecycle -----------------------------
(***************************************************************************)
(* The status of one deal (deals.service.ts) and everybody who moves it:   *)
(* reviewers and the worker's internal command through                     *)
(* DealsService.transition, the intake finalizer, and the worker's direct  *)
(* "failed" writes.                                                        *)
(*                                                                         *)
(* transition reads the status, decides, and writes in a transaction of    *)
(* its own: the read and the transaction are two actions.  Inside the      *)
(* transaction the update takes the row lock first, so transactions on one *)
(* deal are serial and each is one action.                                 *)
(*                                                                         *)
(* A statement that violates a unique index aborts its Postgres            *)
(* transaction even though the code swallows the error (P2002).  In        *)
(* transition the outbox insert is the last statement, so nothing raises   *)
(* afterwards: COMMIT is answered with a rollback and the call returns the *)
(* new status all the same.                                                *)
(***************************************************************************)
EXTENDS Naturals, Sequences

CONSTANTS Callers,       \* concurrent requests in flight, of reviewers and of the worker
          Nothing,       \* no call in memory
          MaxFailWrites  \* bound: direct "failed" writes of the worker

ASSUME DealAssumption == MaxFailWrites \in Nat

VARIABLES
  dealStatus, \* Deal.status, or "absent"
  history,    \* DealStatusHistory rows in the order written, each with its AuditLog row
  outbox,     \* dedupe keys of the deal in NotificationOutbox
  stage, call, \* per caller: "idle" or "writing", and the command with the status it read
  reply,      \* per caller: what its last finished call was told
  failWrites  \* direct "failed" writes so far

dealVars == <<dealStatus, history, outbox, stage, call, reply, failWrites>>

transitions ==
  [submitted       |-> {"processing", "failed"},
   processing      |-> {"review_ready", "failed", "action_required", "manual_review"},
   review_ready    |-> {"accepted", "rejected", "action_required", "manual_review"},
   action_required |-> {"processing", "review_ready", "manual_review", "rejected"},
   manual_review   |-> {"processing", "review_ready", "accepted", "rejected", "action_required"},
   accepted        |-> {"archived"},
   rejected        |-> {"archived", "manual_review"},
   failed          |-> {"processing", "archived"},
   archived        |-> {}]

DealStatuses == DOMAIN transitions
Decisions == {"accepted", "rejected", "action_required", "manual_review"}

\* What a caller can ask for: a review action, or the one command the worker may send.
Targets == Decisions \cup {"review_ready"}

\* The outbox keys: one per deal for submission and readiness, one per decided status.
KeyOf(target) ==
  IF target = "review_ready" THEN <<"deal.review_ready">> ELSE <<"deal.decision_recorded", target>>
Keys == {<<"deal.submitted">>} \cup {KeyOf(t) : t \in Targets}

Entry(from, to) == [from |-> from, to |-> to]
Entries == [from : DealStatuses, to : DealStatuses]

-----------------------------------------------------------------------------
\* The finalizer's transaction: the deal, its submitted event and, if it has documents, the
\* move to processing.  A second run inserts the same outbox key and changes nothing.
FinalizeIntake(hasDocuments) ==
  /\ dealStatus = "absent"
  /\ outbox' = outbox \cup {<<"deal.submitted">>}
  /\ dealStatus' = IF hasDocuments THEN "processing" ELSE "submitted"
  /\ history' = IF hasDocuments THEN <<Entry("submitted", "processing")>> ELSE <<>>
  /\ UNCHANGED <<stage, call, reply, failWrites>>

Answer(a, r) ==
  /\ reply' = [reply EXCEPT ![a] = r]
  /\ stage' = [stage EXCEPT ![a] = "idle"]
  /\ call' = [call EXCEPT ![a] = Nothing]

\* Faulty variant: the transition map is not consulted.
ReadUnvalidated(a, target) ==
  /\ stage[a] = "idle"
  /\ dealStatus # "absent"
  /\ \/ dealStatus = target /\ Answer(a, "ok")
     \/ /\ dealStatus # target
        /\ stage' = [stage EXCEPT ![a] = "writing"]
        /\ call' = [call EXCEPT ![a] = Entry(dealStatus, target)]
        /\ reply' = [reply EXCEPT ![a] = "none"]
  /\ UNCHANGED <<dealStatus, history, outbox, failWrites>>

\* transition up to the transaction: an unchanged status is success, an illegal one an error.
Read(a, target) ==
  /\ stage[a] = "idle"
  /\ dealStatus # "absent"
  /\ \/ /\ dealStatus = target
        /\ Answer(a, "ok")
     \/ /\ dealStatus # target /\ target \notin transitions[dealStatus]
        /\ Answer(a, "refused")
     \/ /\ target \in transitions[dealStatus]
        /\ stage' = [stage EXCEPT ![a] = "writing"]
        /\ call' = [call EXCEPT ![a] = Entry(dealStatus, target)]
        /\ reply' = [reply EXCEPT ![a] = "none"]
  /\ UNCHANGED <<dealStatus, history, outbox, failWrites>>

\* NotificationsService.enqueue: a key that is there already aborts the transaction; the error is
\* swallowed, and COMMIT rolls back.
Duplicate(a) == KeyOf(call[a].to) \in outbox

\* Faulty variant: the transaction leaves the notification to a later write.
WriteOutboxApart(a) ==
  /\ stage[a] = "writing"
  /\ dealStatus' = call[a].to
  /\ history' = Append(history, call[a])
  /\ UNCHANGED outbox
  /\ Answer(a, "ok")
  /\ UNCHANGED failWrites

\* The transaction: the update by id alone (the status read before is not compared again), the
\* history and audit rows with the status read as fromStatus, and the outbox row.
Write(a) ==
  /\ stage[a] = "writing"
  /\ IF Duplicate(a)
       THEN UNCHANGED <<dealStatus, history, outbox>>
       ELSE /\ dealStatus' = call[a].to
            /\ history' = Append(history, call[a])
            /\ outbox' = outbox \cup {KeyOf(call[a].to)}
  /\ Answer(a, "ok")
  /\ UNCHANGED failWrites

\* The transaction fails as a whole, or the process dies before it: nothing is written.
WriteFails(a) ==
  /\ stage[a] = "writing"
  /\ Answer(a, "error")
  /\ UNCHANGED <<dealStatus, history, outbox, failWrites>>

\* queueDealPacketIfReady without a completed document, and recordFailure of an AI job: the
\* worker writes the status itself, from whatever it is, without history or audit.
FailDirectly ==
  /\ dealStatus \notin {"absent", "failed"}
  /\ failWrites < MaxFailWrites
  /\ dealStatus' = "failed"
  /\ failWrites' = failWrites + 1
  /\ UNCHANGED <<history, outbox, stage, call, reply>>

-----------------------------------------------------------------------------
DealInit ==
  /\ dealStatus = "absent" /\ history = <<>> /\ outbox = {}
  /\ stage = [a \in Callers |-> "idle"]
  /\ call = [a \in Callers |-> Nothing]
  /\ reply = [a \in Callers |-> "none"]
  /\ failWrites = 0

DealNext ==
  \/ \E hasDocuments \in BOOLEAN : FinalizeIntake(hasDocuments)
  \/ \E a \in Callers : Write(a) \/ WriteFails(a) \/ \E target \in Targets : Read(a, target)
  \/ FailDirectly

DealSpec == DealInit /\ [][DealNext]_dealVars

-----------------------------------------------------------------------------
(* Properties *)

\* Every variable has the values its column or field can hold.
DealTypeOK ==
  /\ dealStatus \in DealStatuses \cup {"absent"}
  /\ history \in Seq(Entries)
  /\ outbox \subseteq Keys
  /\ stage \in [Callers -> {"idle", "writing"}]
  /\ call \in [Callers -> Entries \cup {Nothing}]
  /\ reply \in [Callers -> {"none", "ok", "refused", "error"}]
  /\ failWrites \in Nat

LastEntry == history[Len(history)]
Recorded == {history[i].to : i \in DOMAIN history}

\* Intent and fact commit together: the outbox holds the event of a status exactly when the
\* history shows that the deal was moved there.
IntentMatchesHistory ==
  \A t \in Targets : KeyOf(t) \in outbox <=> t \in Recorded

\* Whatever overlaps, every recorded move is one the transition map allows, from the status
\* its caller saw; and the deal stands where the last record says unless the worker has
\* written "failed" over it.
HistoryExplainsStatus ==
  /\ \A i \in DOMAIN history : history[i].to \in transitions[history[i].from]
  /\ failWrites = 0 /\ history # <<>> => dealStatus = LastEntry.to

\* README.md:13: "Every state change is recorded", and README.md:106: "The worker cannot move a
\* deal's status directly."  A step that changes the status appends the record of that very
\* change.  The transitions of DealsService do; the worker's direct "failed" write does not.
ChangesLeaveATrace ==
  [][dealStatus' # dealStatus /\ dealStatus # "absent" =>
       /\ Len(history') = Len(history) + 1
       /\ LastEntry'.to = dealStatus']_dealVars

\* The status of the deal only ever takes steps of the transition map (docs/ARCHITECTURE.md:
\* status changes use a validated transition map).
FollowsTransitionMap ==
  [][dealStatus' # dealStatus /\ dealStatus # "absent" =>
       dealStatus' \in transitions[dealStatus]]_dealVars

\* README: recording a notification can never fail or silently roll back the change it is
\* about: a transition that is told "ok" by its transaction leaves the deal where it asked.
AcknowledgedTakesEffect ==
  [][\A a \in Callers : stage[a] = "writing" /\ reply'[a] = "ok" => dealStatus' = call[a].to]_dealVars

=============================================================================
