-------------------------- MODULE DealLifecycleProofs --------------------------
(***************************************************************************)
(* What overlapping transitions of one deal cannot do, for any number of   *)
(* concurrent requests and of direct writes by the worker.                 *)
(***************************************************************************)
EXTENDS DealLifecycle, SequenceTheorems, TLAPS

\* A request between its read and its transaction carries a move the map allows, and there is
\* nothing before the deal exists.
CallsConsistent ==
  /\ \A a \in Callers : stage[a] = "writing" =>
       call[a] \in Entries /\ call[a].to \in Targets /\ call[a].to \in transitions[call[a].from]
  /\ dealStatus = "absent" =>
       history = <<>> /\ outbox = {} /\ \A a \in Callers : stage[a] = "idle"

IInv == DealTypeOK /\ CallsConsistent /\ IntentMatchesHistory /\ HistoryExplainsStatus

-----------------------------------------------------------------------------
(* Facts about the constants of the module. *)

\* The statuses the code names are statuses of the map, and the finalizer's own move is one
\* the map allows.
LEMMA StatusFacts ==
  /\ {"submitted", "processing", "failed"} \cup Targets \subseteq DealStatuses
  /\ "absent" \notin DealStatuses
  /\ "processing" \in transitions["submitted"] /\ "processing" \notin Targets
BY DEF DealStatuses, transitions, Targets, Decisions

\* No two targets share an outbox key, and none uses the key of the submission.
LEMMA KeyFacts ==
  /\ \A t \in Targets : KeyOf(t) \in Keys /\ KeyOf(t) # <<"deal.submitted">>
  /\ \A t, u \in Targets : KeyOf(t) = KeyOf(u) => t = u
  /\ <<"deal.submitted">> \in Keys
BY DEF Targets, Decisions, KeyOf, Keys

\* Appending one record to the history adds one entry at its end.
LEMMA AppendFacts ==
  ASSUME NEW h \in Seq(Entries), NEW e \in Entries
  PROVE  /\ Append(h, e) \in Seq(Entries)
         /\ Len(Append(h, e)) = Len(h) + 1 /\ Append(h, e) # <<>>
         /\ Append(h, e)[Len(h) + 1] = e
         /\ \A i \in DOMAIN h : Append(h, e)[i] = h[i]
         /\ DOMAIN h = 1..Len(h) /\ DOMAIN Append(h, e) = DOMAIN h \cup {Len(h) + 1}
BY AppendProperties, LenProperties

-----------------------------------------------------------------------------
(* The invariant. *)

\* The moves a transaction can record keep intent and history in step: the record and the
\* outbox row are written together.
LEMMA RecordingKeepsPace ==
  ASSUME DealTypeOK, IntentMatchesHistory,
         NEW e \in Entries, e.to \in Targets,
         history' = Append(history, e), outbox' = outbox \cup {KeyOf(e.to)}
  PROVE  IntentMatchesHistory'
<1>1. history \in Seq(Entries)
  BY DEF DealTypeOK
<1>2. Recorded' = Recorded \cup {e.to}
  BY <1>1, AppendFacts DEF Recorded
<1>3. \A t \in Targets : KeyOf(t) \in outbox' <=> KeyOf(t) \in outbox \/ t = e.to
  BY KeyFacts
<1>. QED
  BY <1>2, <1>3 DEF IntentMatchesHistory

\* The invariant holds in every reachable state: deals.service.ts's read and transaction may be
\* separated by any number of other requests' steps.
THEOREM Invariance == DealSpec => []IInv
<1>1. DealInit => IInv
  <2>. SUFFICES ASSUME DealInit PROVE IInv
    OBVIOUS
  <2>1. DealTypeOK
    BY DEF DealInit, DealTypeOK
  <2>2. CallsConsistent
    BY DEF DealInit, CallsConsistent
  <2>3. IntentMatchesHistory /\ HistoryExplainsStatus
    BY DEF DealInit, IntentMatchesHistory, HistoryExplainsStatus, Recorded
  <2>. QED
    BY <2>1, <2>2, <2>3 DEF IInv
<1>2. IInv /\ [DealNext]_dealVars => IInv'
  <2>. SUFFICES ASSUME IInv, [DealNext]_dealVars PROVE IInv'
    OBVIOUS
  <2>. USE DEF IInv
  <2>a. CASE \E hasDocuments \in BOOLEAN : FinalizeIntake(hasDocuments)
    <3>. PICK hasDocuments \in BOOLEAN : FinalizeIntake(hasDocuments)
      BY <2>a
    <3>0. /\ dealStatus = "absent" /\ history = <<>> /\ outbox = {}
          /\ \A a \in Callers : stage[a] = "idle"
      BY DEF FinalizeIntake, CallsConsistent
    <3>1. Entry("submitted", "processing") \in Entries
      BY StatusFacts DEF Entry, Entries
    <3>2. history' \in Seq(Entries) /\ Recorded' \subseteq {"processing"}
      <4>1. CASE hasDocuments
        <5>1. history' = <<Entry("submitted", "processing")>>
          BY <4>1 DEF FinalizeIntake
        <5>. QED
          BY <3>1, <5>1 DEF Recorded, Entry
      <4>2. CASE ~hasDocuments
        <5>1. history' = <<>>
          BY <4>2 DEF FinalizeIntake
        <5>. QED
          BY <5>1 DEF Recorded
      <4>. QED
        BY <4>1, <4>2
    <3>3. DealTypeOK'
      BY <3>0, <3>2, StatusFacts, KeyFacts DEF FinalizeIntake, DealTypeOK
    <3>4. CallsConsistent'
      BY <3>0 DEF FinalizeIntake, CallsConsistent
    <3>5. IntentMatchesHistory'
      BY <3>0, <3>2, StatusFacts, KeyFacts DEF FinalizeIntake, IntentMatchesHistory
    <3>6. HistoryExplainsStatus'
      BY <3>1, StatusFacts DEF FinalizeIntake, HistoryExplainsStatus, LastEntry, Entry
    <3>. QED
      BY <3>3, <3>4, <3>5, <3>6
  <2>b. ASSUME NEW a \in Callers, NEW target \in Targets, Read(a, target)
        PROVE  IInv'
    <3>1. UNCHANGED <<dealStatus, history, outbox, failWrites>> /\ dealStatus # "absent"
      BY <2>b DEF Read
    <3>2. dealStatus \in DealStatuses /\ target \in DealStatuses
      BY <3>1, StatusFacts DEF DealTypeOK
    <3>3. Entry(dealStatus, target) \in Entries
      BY <3>2 DEF Entry, Entries
    <3>4. DealTypeOK'
      BY <2>b, <3>1, <3>3 DEF Read, Answer, DealTypeOK
    <3>5. CallsConsistent'
      BY <2>b, <3>1, <3>3 DEF Read, Answer, CallsConsistent, DealTypeOK, Entry
    <3>6. IntentMatchesHistory' /\ HistoryExplainsStatus'
      BY <3>1 DEF IntentMatchesHistory, HistoryExplainsStatus, Recorded, LastEntry
    <3>. QED
      BY <3>4, <3>5, <3>6
  <2>c. ASSUME NEW a \in Callers, Write(a)
        PROVE  IInv'
    <3>0. /\ stage[a] = "writing" /\ dealStatus # "absent"
          /\ call[a] \in Entries /\ call[a].to \in Targets
          /\ call[a].to \in transitions[call[a].from]
          /\ history \in Seq(Entries)
      BY <2>c DEF Write, Duplicate, CallsConsistent, DealTypeOK
    <3>1. stage' = [stage EXCEPT ![a] = "idle"] /\ call' = [call EXCEPT ![a] = Nothing]
          /\ reply' = [reply EXCEPT ![a] = "ok"] /\ failWrites' = failWrites
      BY <2>c DEF Write, Duplicate, Answer
    <3>2. CASE KeyOf(call[a].to) \in outbox
      <4>0. UNCHANGED <<dealStatus, history, outbox>>
        BY <2>c, <3>2 DEF Write, Duplicate
      <4>1. DealTypeOK'
        BY <3>1, <4>0 DEF DealTypeOK
      <4>2. CallsConsistent'
        BY <3>0, <3>1, <4>0 DEF CallsConsistent, DealTypeOK
      <4>3. IntentMatchesHistory' /\ HistoryExplainsStatus'
        BY <3>1, <4>0 DEF IntentMatchesHistory, HistoryExplainsStatus, Recorded, LastEntry
      <4>. QED
        BY <4>1, <4>2, <4>3
    <3>3. CASE KeyOf(call[a].to) \notin outbox
      <4>0. /\ dealStatus' = call[a].to
            /\ history' = Append(history, call[a])
            /\ outbox' = outbox \cup {KeyOf(call[a].to)}
        BY <2>c, <3>3 DEF Write, Duplicate
      <4>1. DealTypeOK'
        <5>1. call[a].to \in DealStatuses /\ KeyOf(call[a].to) \in Keys
          BY <3>0, StatusFacts, KeyFacts
        <5>2. history' \in Seq(Entries)
          BY <3>0, <4>0, AppendFacts
        <5>. QED
          BY <3>1, <4>0, <5>1, <5>2 DEF DealTypeOK
      <4>2. CallsConsistent'
        <5>1. dealStatus' # "absent"
          BY <3>0, <4>0, StatusFacts
        <5>. QED
          BY <3>1, <5>1 DEF CallsConsistent, DealTypeOK
      <4>3. IntentMatchesHistory'
        BY <3>0, <4>0, RecordingKeepsPace
      <4>4. HistoryExplainsStatus'
        <5>1. \A i \in DOMAIN history' : history'[i].to \in transitions[history'[i].from]
          BY <3>0, <4>0, AppendFacts DEF HistoryExplainsStatus
        <5>2. dealStatus' = LastEntry'.to
          BY <3>0, <4>0, AppendFacts DEF LastEntry
        <5>. QED
          BY <5>1, <5>2 DEF HistoryExplainsStatus
      <4>. QED
        BY <4>1, <4>2, <4>3, <4>4
    <3>. QED
      BY <3>2, <3>3
  <2>d. ASSUME NEW a \in Callers, WriteFails(a)
        PROVE  IInv'
    <3>1. DealTypeOK'
      BY <2>d DEF WriteFails, Answer, DealTypeOK
    <3>2. CallsConsistent'
      BY <2>d DEF WriteFails, Answer, CallsConsistent, DealTypeOK
    <3>3. IntentMatchesHistory' /\ HistoryExplainsStatus'
      BY <2>d DEF WriteFails, IntentMatchesHistory, HistoryExplainsStatus, Recorded, LastEntry
    <3>. QED
      BY <3>1, <3>2, <3>3
  <2>e. CASE FailDirectly
    <3>1. DealTypeOK' /\ failWrites' # 0
      BY <2>e, StatusFacts DEF FailDirectly, DealTypeOK
    <3>2. CallsConsistent'
      BY <2>e DEF FailDirectly, CallsConsistent
    <3>3. IntentMatchesHistory' /\ HistoryExplainsStatus'
      BY <2>e, <3>1 DEF FailDirectly, IntentMatchesHistory, HistoryExplainsStatus, Recorded
    <3>. QED
      BY <3>1, <3>2, <3>3
  <2>f. CASE UNCHANGED dealVars
    BY <2>f DEF dealVars, DealTypeOK, CallsConsistent, IntentMatchesHistory, HistoryExplainsStatus,
                Recorded, LastEntry
  <2>. QED
    BY <2>a, <2>b, <2>c, <2>d, <2>e, <2>f DEF DealNext
<1>. QED
  BY <1>1, <1>2, PTL DEF DealSpec

\* Every variable keeps the values its column or field can hold.
COROLLARY TypeCorrect == DealSpec => []DealTypeOK
<1>1. IInv => DealTypeOK
  BY DEF IInv
<1>. QED
  BY <1>1, Invariance, PTL

\* Intent and fact commit together, however many requests overlap.
COROLLARY OutboxInStep == DealSpec => []IntentMatchesHistory
<1>1. IInv => IntentMatchesHistory
  BY DEF IInv
<1>. QED
  BY <1>1, Invariance, PTL

\* Every record is a move of the transition map, and the last one is where the deal stands
\* until the worker writes over it.
COROLLARY HistoryIsLegal == DealSpec => []HistoryExplainsStatus
<1>1. IInv => HistoryExplainsStatus
  BY DEF IInv
<1>. QED
  BY <1>1, Invariance, PTL

-----------------------------------------------------------------------------
(* The action property. *)

\* Only the worker's direct writes change the status of a deal without a record: where there
\* are none, that is in DealsService and the finalizer by themselves, every change has its own,
\* although the status may have moved on between the read and the transaction.
THEOREM ServiceLeavesATrace ==
  ASSUME MaxFailWrites = 0
  PROVE  DealSpec => ChangesLeaveATrace
<1> DEFINE Traced ==
      dealStatus' # dealStatus /\ dealStatus # "absent" =>
        /\ Len(history') = Len(history) + 1
        /\ LastEntry'.to = dealStatus'
<1>1. IInv /\ [DealNext]_dealVars => [Traced]_dealVars
  <2>. SUFFICES ASSUME IInv, DealNext PROVE Traced
    BY DEF Traced
  <2>1. CASE \E hasDocuments \in BOOLEAN : FinalizeIntake(hasDocuments)
    BY <2>1 DEF FinalizeIntake
  <2>2. ASSUME NEW a \in Callers, Write(a)
        PROVE  Traced
    <3>1. call[a] \in Entries /\ history \in Seq(Entries)
      BY <2>2 DEF Write, Duplicate, IInv, CallsConsistent, DealTypeOK
    <3>2. CASE KeyOf(call[a].to) \in outbox
      BY <2>2, <3>2 DEF Write, Duplicate
    <3>3. CASE KeyOf(call[a].to) \notin outbox
      <4>1. history' = Append(history, call[a]) /\ dealStatus' = call[a].to
        BY <2>2, <3>3 DEF Write, Duplicate
      <4>. QED
        BY <3>1, <4>1, AppendFacts DEF LastEntry
    <3>. QED
      BY <3>2, <3>3
  <2>3. ASSUME NEW a \in Callers, WriteFails(a) \/ \E target \in Targets : Read(a, target)
        PROVE  Traced
    BY <2>3 DEF WriteFails, Read
  <2>4. CASE FailDirectly
    BY <2>4 DEF FailDirectly, IInv, DealTypeOK
  <2>. QED
    BY <2>1, <2>2, <2>3, <2>4 DEF DealNext
<1>. QED
  BY <1>1, Invariance, PTL DEF DealSpec, ChangesLeaveATrace

=============================================================================
