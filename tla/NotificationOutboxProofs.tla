------------------------ MODULE NotificationOutboxProofs ------------------------
(***************************************************************************)
(* Proofs about NotificationOutbox, for any number of rows, dispatchers,   *)
(* attempts and faults.                                                    *)
(***************************************************************************)
EXTENDS NotificationOutbox, TLAPS

\* A dispatcher past its selection works on a row.
ClaimInv == \A w \in Workers : pc[w] \notin {"idle", "polling"} => claim[w].row \in Rows

\* Only a processing row is locked or can expire, only a pending row can be due, and no lock
\* names a dispatcher identity that has not existed yet.
LockInv ==
  /\ \A r \in Rows : lockedBy[r] # NoOne => status[r] = "processing"
  /\ \A r \in expired : status[r] = "processing"
  /\ \A r \in due : status[r] = "pending"
  /\ \A r \in Rows, w \in Workers, n \in Nat : lockedBy[r] = <<w, n>> => n <= incarnation[w]

\* A dispatcher that owns a row works on it, and decides on the attempts the row still has.
OwnerInv ==
  \A r \in Rows, w \in Workers :
    Owns(w, r) =>
      /\ pc[w] \in {"claimed", "delivering", "inserted", "failed"}
      /\ claim[w].row = r
      /\ pc[w] # "claimed" => claim[w].attempts = attempts[r]

\* As long as no lock has expired under its dispatcher, whoever delivers a row owns it, and a
\* notification comes with its mark.
PromptInv ==
  stalls = 0 =>
    /\ \A w \in Workers : pc[w] \in {"delivering", "inserted"} => Owns(w, claim[w].row)
    /\ \A r \in expired, w \in Workers : ~Owns(w, r)
    /\ \A r \in Rows : r \in notified => status[r] = "delivered"

IInv == TypeOK /\ ClaimInv /\ LockInv /\ OwnerInv /\ DeliveredIsNotified /\ DeadLettersExhausted

LEMMA InitIInv == Init => IInv
  BY BoundsAssumption, SentinelAssumption
  DEF Init, IInv, TypeOK, ClaimInv, LockInv, OwnerInv, DeliveredIsNotified, DeadLettersExhausted,
      Owns, Me, Statuses, Steps, Claims, NoClaim

\* What dropping a claim leaves of pc and claim.
LEMMA Dropped ==
  ASSUME TypeOK, NEW w \in Workers, Drop(w)
  PROVE  /\ pc' \in [Workers -> Steps] /\ claim' \in [Workers -> Claims]
         /\ pc'[w] = "idle"
         /\ \A v \in Workers \ {w} : pc'[v] = pc[v] /\ claim'[v] = claim[v]
  BY DEF TypeOK, Drop, Goto, NoClaim, Claims, Steps

\* What the fenced update that ends a delivery does to the locks.
LEMMA Finished ==
  ASSUME TypeOK, NEW w \in Workers, claim[w].row \in Rows, NEW s \in Statuses, Finish(w, s)
  PROVE  /\ status' \in [Rows -> Statuses]
         /\ lockedBy' \in [Rows -> (Workers \X Nat) \cup {NoOne}]
         /\ expired' \subseteq expired
         /\ \A r \in Rows :
              \/ status'[r] = status[r] /\ lockedBy'[r] = lockedBy[r]
                 /\ ~(Owns(w, r) /\ r = claim[w].row)
              \/ /\ Owns(w, r) /\ r = claim[w].row /\ r \notin expired'
                 /\ status'[r] = s /\ lockedBy'[r] = NoOne
<1> USE DEF TypeOK, Finish
<1>1. CASE Owns(w, claim[w].row)
  BY <1>1
<1>2. CASE ~Owns(w, claim[w].row)
  BY <1>2
<1> QED
  BY <1>1, <1>2

\* Types and claims, one step per action.
LEMMA TypeStep == TypeOK /\ ClaimInv /\ [Next]_vars => (TypeOK /\ ClaimInv)'
<1> SUFFICES ASSUME TypeOK, ClaimInv, [Next]_vars PROVE (TypeOK /\ ClaimInv)'
  OBVIOUS
<1> USE BoundsAssumption
    DEF TypeOK, ClaimInv, Statuses, Steps, Claims, rowVars, faultVars, Me, NoClaim
<1>1. ASSUME NEW r \in Rows, Publish(r) PROVE (TypeOK /\ ClaimInv)'
  BY <1>1 DEF Publish
<1>2. ASSUME NEW r \in Rows, Replay(r) PROVE (TypeOK /\ ClaimInv)'
  BY <1>2 DEF Replay
<1>3. ASSUME NEW r \in Rows, BackoffElapses(r) PROVE (TypeOK /\ ClaimInv)'
  BY <1>3 DEF BackoffElapses
<1>4. ASSUME NEW r \in Rows, LockExpires(r) PROVE (TypeOK /\ ClaimInv)'
  BY <1>4 DEF LockExpires
<1>5. ASSUME NEW w \in Workers, Recover(w) PROVE (TypeOK /\ ClaimInv)'
  BY <1>5 DEF Recover, Goto
<1>6. ASSUME NEW w \in Workers, Select(w) PROVE (TypeOK /\ ClaimInv)'
  <2>1. CASE Drop(w)
    BY <1>6, <2>1, Dropped DEF Select
  <2>2. ASSUME NEW r \in due, claim' = [claim EXCEPT ![w] = [NoClaim EXCEPT !.row = r]],
               Goto(w, "selected")
        PROVE (TypeOK /\ ClaimInv)'
    <3>1. [NoClaim EXCEPT !.row = r] = [row |-> r, attempts |-> 0] /\ r \in Rows
      OBVIOUS
    <3> QED
      BY <1>6, <2>2, <3>1 DEF Select, Goto
  <2> QED
    BY <1>6, <2>1, <2>2 DEF Select
<1>7. ASSUME NEW w \in Workers, ClaimWrite(w) PROVE (TypeOK /\ ClaimInv)'
  <2>1. CASE Drop(w) /\ UNCHANGED rowVars
    BY <1>7, <2>1, Dropped DEF ClaimWrite
  <2>2. CASE ~(Drop(w) /\ UNCHANGED rowVars)
    <3> DEFINE q == claim[w].row
    <3>1. q \in Rows /\ <<w, incarnation[w]>> \in Workers \X Nat /\ attempts[q] + 1 \in Nat
      BY <1>7 DEF ClaimWrite
    <3>2. /\ status' = [status EXCEPT ![q] = "processing"]
          /\ attempts' = [attempts EXCEPT ![q] = attempts[q] + 1]
          /\ lockedBy' = [lockedBy EXCEPT ![q] = <<w, incarnation[w]>>]
          /\ expired' = expired \ {q} /\ due' = due \ {q}
          /\ pc' = [pc EXCEPT ![w] = "claimed"] /\ claim' = claim /\ pc[w] = "selected"
          /\ UNCHANGED <<notified, incarnation, faultVars>>
      BY <1>7, <2>2 DEF ClaimWrite, Goto
    <3>3. /\ status' \in [Rows -> Statuses] /\ attempts' \in [Rows -> Nat]
          /\ lockedBy' \in [Rows -> (Workers \X Nat) \cup {NoOne}]
          /\ pc' \in [Workers -> Steps]
      BY <3>1, <3>2
    <3> QED
      BY <3>1, <3>2, <3>3
  <2> QED
    BY <2>1, <2>2
<1>8. ASSUME NEW w \in Workers, ClaimRead(w) PROVE (TypeOK /\ ClaimInv)'
  <2>1. CASE Drop(w)
    BY <1>8, <2>1, Dropped DEF ClaimRead
  <2>2. CASE ~Drop(w)
    <3> DEFINE read == [claim[w] EXCEPT !.attempts = attempts[claim[w].row]]
    <3>1. claim[w].row \in Rows /\ attempts[claim[w].row] \in Nat
      BY <1>8 DEF ClaimRead
    <3>2. read \in Claims /\ read.row = claim[w].row
      BY <3>1
    <3>3. /\ claim' = [claim EXCEPT ![w] = read] /\ pc' = [pc EXCEPT ![w] = "delivering"]
          /\ pc[w] = "claimed" /\ UNCHANGED <<rowVars, notified, incarnation, faultVars>>
      BY <1>8, <2>2 DEF ClaimRead, Goto
    <3> HIDE DEF read
    <3> QED
      BY <3>1, <3>2, <3>3
  <2> QED
    BY <2>1, <2>2
<1>9. ASSUME NEW w \in Workers, InsertNotification(w) PROVE (TypeOK /\ ClaimInv)'
  BY <1>9 DEF InsertNotification, Goto
<1>10. ASSUME NEW w \in Workers, Commit(w) PROVE (TypeOK /\ ClaimInv)'
  <2>1. claim[w].row \in Rows /\ "delivered" \in Statuses /\ Finish(w, "delivered")
    BY <1>10 DEF Commit
  <2>2. /\ status' \in [Rows -> Statuses]
        /\ lockedBy' \in [Rows -> (Workers \X Nat) \cup {NoOne}]
        /\ expired' \subseteq expired
    BY <2>1, Finished
  <2>3. CASE Drop(w)
    BY <1>10, <2>1, <2>2, <2>3, Dropped DEF Commit
  <2>4. CASE Goto(w, "failed") /\ UNCHANGED claim
    BY <1>10, <2>1, <2>2, <2>4 DEF Commit, Goto
  <2> QED
    BY <1>10, <2>3, <2>4 DEF Commit
<1>11. ASSUME NEW w \in Workers, RecordFailure(w) PROVE (TypeOK /\ ClaimInv)'
  BY <1>11, Finished, Dropped DEF RecordFailure, Terminal, Goto
<1>12. ASSUME NEW w \in Workers, TransactionFails(w) PROVE (TypeOK /\ ClaimInv)'
  BY <1>12 DEF TransactionFails, Goto
<1>13. ASSUME NEW w \in Workers, Crash(w) PROVE (TypeOK /\ ClaimInv)'
  BY <1>13 DEF Crash, Goto, Drop
<1>14. ASSUME UNCHANGED vars PROVE (TypeOK /\ ClaimInv)'
  BY <1>14 DEF vars
<1> QED
  BY <1>1, <1>2, <1>3, <1>4, <1>5, <1>6, <1>7, <1>8, <1>9, <1>10, <1>11, <1>12, <1>13, <1>14
  DEF Next, DispatcherStep

\* Locks, one step per action.
LEMMA LockStep == TypeOK /\ ClaimInv /\ LockInv /\ [Next]_vars => LockInv'
<1> SUFFICES ASSUME TypeOK, ClaimInv, LockInv, [Next]_vars PROVE LockInv'
  OBVIOUS
<1> USE SentinelAssumption
    DEF TypeOK, ClaimInv, LockInv, Statuses, Steps, Claims, rowVars, faultVars, Me
<1>1. ASSUME NEW r \in Rows, Publish(r) PROVE LockInv'
  BY <1>1 DEF Publish
<1>2. ASSUME NEW r \in Rows, Replay(r) PROVE LockInv'
  BY <1>2 DEF Replay
<1>3. ASSUME NEW r \in Rows, BackoffElapses(r) PROVE LockInv'
  BY <1>3 DEF BackoffElapses
<1>4. ASSUME NEW r \in Rows, LockExpires(r) PROVE LockInv'
  BY <1>4 DEF LockExpires
<1>5. ASSUME NEW w \in Workers, Recover(w) PROVE LockInv'
  <2>1. \A r \in Rows : lockedBy'[r] = IF r \in expired THEN NoOne ELSE lockedBy[r]
    BY <1>5 DEF Recover
  <2>2. \A r \in Rows : status'[r] = IF r \in expired THEN "pending" ELSE status[r]
    BY <1>5 DEF Recover
  <2>3. due' = due \cup expired /\ expired' = {} /\ incarnation' = incarnation
    BY <1>5 DEF Recover
  <2>4. \A r \in Rows : lockedBy'[r] # NoOne => status'[r] = "processing"
    BY <2>1, <2>2
  <2>5. \A r \in due' : status'[r] = "pending"
    BY <2>2, <2>3
  <2>6. ASSUME NEW r \in Rows, NEW v \in Workers, NEW n \in Nat, lockedBy'[r] = <<v, n>>
        PROVE n <= incarnation'[v]
    <3>1. <<v, n>> \in Workers \X Nat
      OBVIOUS
    <3>2. lockedBy[r] = <<v, n>>
      BY <2>1, <2>6, <3>1
    <3> QED
      BY <2>3, <3>2
  <2> QED
    BY <2>3, <2>4, <2>5, <2>6
<1>6. ASSUME NEW w \in Workers, Select(w) PROVE LockInv'
  BY <1>6 DEF Select, Goto, Drop
<1>7. ASSUME NEW w \in Workers, ClaimWrite(w) PROVE LockInv'
  <2>1. CASE UNCHANGED rowVars
    BY <1>7, <2>1 DEF ClaimWrite
  <2>2. CASE ~UNCHANGED rowVars
    <3> DEFINE q == claim[w].row
    <3>1. q \in Rows /\ incarnation[w] \in Nat
      BY <1>7 DEF ClaimWrite
    <3>2. /\ status'[q] = "processing" /\ lockedBy'[q] = <<w, incarnation[w]>>
          /\ expired' = expired \ {q} /\ due' = due \ {q} /\ incarnation' = incarnation
      BY <1>7, <2>2, <3>1 DEF ClaimWrite
    <3>3. \A r \in Rows \ {q} : status'[r] = status[r] /\ lockedBy'[r] = lockedBy[r]
      BY <1>7, <2>2, <3>1 DEF ClaimWrite
    <3> HIDE DEF q
    <3> QED
      BY <3>1, <3>2, <3>3
  <2> QED
    BY <2>1, <2>2
<1>8. ASSUME NEW w \in Workers, ClaimRead(w) PROVE LockInv'
  BY <1>8 DEF ClaimRead, Goto, Drop
<1>9. ASSUME NEW w \in Workers, InsertNotification(w) PROVE LockInv'
  BY <1>9 DEF InsertNotification, Goto
<1>10. ASSUME NEW w \in Workers, Commit(w) PROVE LockInv'
  <2>1. claim[w].row \in Rows /\ "delivered" \in Statuses /\ Finish(w, "delivered")
    BY <1>10 DEF Commit
  <2>2. /\ expired' \subseteq expired
        /\ \A r \in Rows :
             \/ status'[r] = status[r] /\ lockedBy'[r] = lockedBy[r]
             \/ /\ status[r] = "processing" /\ r \notin expired' /\ lockedBy'[r] = NoOne
    BY <2>1, Finished DEF Owns
  <2>3. due' = due /\ incarnation' = incarnation
    BY <1>10 DEF Commit
  <2>4. \A r \in due : status'[r] = "pending"
    BY <2>2
  <2>5. \A r \in expired' : status'[r] = "processing"
    BY <2>2
  <2>6. ASSUME NEW r \in Rows, NEW v \in Workers, NEW n \in Nat, lockedBy'[r] = <<v, n>>
        PROVE n <= incarnation[v]
    <3>1. <<v, n>> \in Workers \X Nat
      OBVIOUS
    <3>2. lockedBy[r] = <<v, n>>
      BY <2>2, <2>6, <3>1
    <3> QED
      BY <3>2
  <2>7. \A r \in Rows : lockedBy'[r] # NoOne => status'[r] = "processing"
    BY <2>2
  <2> QED
    BY <2>3, <2>4, <2>5, <2>6, <2>7
<1>11. ASSUME NEW w \in Workers, RecordFailure(w) PROVE LockInv'
  <2>1. claim[w].row \in Rows
    BY <1>11 DEF RecordFailure
  <2> QED
    BY <1>11, <2>1, Finished DEF RecordFailure, Terminal, Owns
<1>12. ASSUME NEW w \in Workers, TransactionFails(w) PROVE LockInv'
  BY <1>12 DEF TransactionFails, Goto
<1>13. ASSUME NEW w \in Workers, Crash(w) PROVE LockInv'
  BY <1>13 DEF Crash, Goto, Drop
<1>14. ASSUME UNCHANGED vars PROVE LockInv'
  BY <1>14 DEF vars
<1> QED
  BY <1>1, <1>2, <1>3, <1>4, <1>5, <1>6, <1>7, <1>8, <1>9, <1>10, <1>11, <1>12, <1>13, <1>14
  DEF Next, DispatcherStep

\* Ownership, one step per action: a lock is given with its claim, taken away without it, and a
\* restarted process has an identity that no lock names.
LEMMA OwnerStep == TypeOK /\ ClaimInv /\ LockInv /\ OwnerInv /\ [Next]_vars => OwnerInv'
<1> SUFFICES ASSUME TypeOK, ClaimInv, LockInv, OwnerInv, [Next]_vars,
                    NEW r \in Rows, NEW w \in Workers, Owns(w, r)'
             PROVE /\ pc'[w] \in {"claimed", "delivering", "inserted", "failed"}
                   /\ claim'[w].row = r
                   /\ pc'[w] # "claimed" => claim'[w].attempts = attempts'[r]
  BY DEF OwnerInv
<1> DEFINE Held == /\ pc'[w] \in {"claimed", "delivering", "inserted", "failed"}
                   /\ claim'[w].row = r
                   /\ pc'[w] # "claimed" => claim'[w].attempts = attempts'[r]
<1> USE SentinelAssumption
    DEF TypeOK, ClaimInv, LockInv, OwnerInv, Statuses, Steps, Claims, rowVars, faultVars, Owns, Me
<1>1. ASSUME NEW q \in Rows, Publish(q) \/ Replay(q) PROVE Held
  BY <1>1 DEF Publish, Replay
<1>2. ASSUME NEW q \in Rows, BackoffElapses(q) \/ LockExpires(q) PROVE Held
  BY <1>2 DEF BackoffElapses, LockExpires
<1>3. ASSUME NEW v \in Workers, Recover(v) PROVE Held
  BY <1>3 DEF Recover, Goto
<1>4. ASSUME NEW v \in Workers, Select(v) PROVE Held
  BY <1>4 DEF Select, Goto, Drop
<1>5. ASSUME NEW v \in Workers, ClaimWrite(v) PROVE Held
  <2>1. CASE Drop(v) /\ UNCHANGED rowVars
    <3>1. Owns(w, r) /\ w # v
      BY <1>5, <2>1 DEF ClaimWrite
    <3>2. pc'[w] = pc[w] /\ claim'[w] = claim[w] /\ attempts' = attempts
      BY <2>1, <3>1, Dropped
    <3> QED
      BY <3>1, <3>2
  <2>2. CASE ~(Drop(v) /\ UNCHANGED rowVars)
    <3>1. claim[v].row \in Rows
      BY <1>5 DEF ClaimWrite
    <3>2. CASE claim[v].row = r
      BY <1>5, <2>2, <3>1, <3>2 DEF ClaimWrite, Goto
    <3>3. CASE claim[v].row # r
      <4>1. Owns(w, r)
        BY <1>5, <2>2, <3>1, <3>3 DEF ClaimWrite
      <4> QED
        BY <1>5, <2>2, <3>1, <3>3, <4>1 DEF ClaimWrite, Goto
    <3> QED
      BY <3>2, <3>3
  <2> QED
    BY <2>1, <2>2
<1>6. ASSUME NEW v \in Workers, ClaimRead(v) PROVE Held
  BY <1>6 DEF ClaimRead, Goto, Drop
<1>7. ASSUME NEW v \in Workers, InsertNotification(v) PROVE Held
  BY <1>7 DEF InsertNotification, Goto
<1>8. ASSUME NEW v \in Workers, Commit(v) PROVE Held
  <2>1. claim[v].row \in Rows /\ "delivered" \in Statuses /\ Finish(v, "delivered")
    BY <1>8 DEF Commit
  <2>2. \/ /\ status'[r] = status[r] /\ lockedBy'[r] = lockedBy[r]
           /\ ~(Owns(v, r) /\ r = claim[v].row)
        \/ lockedBy'[r] = NoOne
    BY <2>1, Finished
  <2>3. <<w, incarnation'[w]>> # NoOne /\ incarnation' = incarnation
    BY <1>8 DEF Commit
  <2>4. Owns(w, r) /\ w # v
    BY <2>2, <2>3
  <2> QED
    BY <1>8, <2>4, Dropped DEF Commit, Goto
<1>9. ASSUME NEW v \in Workers, RecordFailure(v) PROVE Held
  <2>1. claim[v].row \in Rows /\ {"pending", "dead_letter"} \subseteq Statuses
    BY <1>9 DEF RecordFailure
  <2>2. \/ /\ status'[r] = status[r] /\ lockedBy'[r] = lockedBy[r]
           /\ ~(Owns(v, r) /\ r = claim[v].row)
        \/ lockedBy'[r] = NoOne
    <3>1. CASE Finish(v, "dead_letter")
      BY <2>1, <3>1, Finished
    <3>2. CASE Finish(v, "pending")
      BY <2>1, <3>2, Finished
    <3> QED
      BY <1>9, <3>1, <3>2 DEF RecordFailure
  <2>3. <<w, incarnation'[w]>> # NoOne /\ incarnation' = incarnation
    BY <1>9 DEF RecordFailure
  <2>4. Owns(w, r) /\ w # v
    BY <2>2, <2>3
  <2> QED
    BY <1>9, <2>4, Dropped DEF RecordFailure
<1>10. ASSUME NEW v \in Workers, TransactionFails(v) PROVE Held
  BY <1>10 DEF TransactionFails, Goto
<1>11. ASSUME NEW v \in Workers, Crash(v) PROVE Held
  BY <1>11 DEF Crash, Goto, Drop
<1>12. ASSUME UNCHANGED vars PROVE Held
  BY <1>12 DEF vars
<1> QED
  BY <1>1, <1>2, <1>3, <1>4, <1>5, <1>6, <1>7, <1>8, <1>9, <1>10, <1>11, <1>12
  DEF Next, DispatcherStep

\* The two safety properties of the run.
LEMMA OutcomeStep ==
  IInv /\ [Next]_vars => (DeliveredIsNotified /\ DeadLettersExhausted)'
<1> SUFFICES ASSUME IInv, [Next]_vars PROVE (DeliveredIsNotified /\ DeadLettersExhausted)'
  OBVIOUS
<1> USE BoundsAssumption
    DEF IInv, TypeOK, ClaimInv, LockInv, Statuses, Steps, Claims, rowVars, faultVars,
        DeliveredIsNotified, DeadLettersExhausted
<1>1. ASSUME NEW w \in Workers, Commit(w) PROVE (DeliveredIsNotified /\ DeadLettersExhausted)'
  BY <1>1 DEF Commit, Finish
<1>2. ASSUME NEW w \in Workers, RecordFailure(w)
      PROVE (DeliveredIsNotified /\ DeadLettersExhausted)'
  BY <1>2 DEF RecordFailure, Finish, Terminal, OwnerInv
<1>3. ASSUME NEW w \in Workers, ClaimWrite(w) PROVE (DeliveredIsNotified /\ DeadLettersExhausted)'
  BY <1>3 DEF ClaimWrite
<1>4. ASSUME NEW w \in Workers, Recover(w) PROVE (DeliveredIsNotified /\ DeadLettersExhausted)'
  BY <1>4 DEF Recover
<1>5. ASSUME NEW r \in Rows, Publish(r) \/ Replay(r)
      PROVE (DeliveredIsNotified /\ DeadLettersExhausted)'
  BY <1>5 DEF Publish, Replay
<1>6. CASE UNCHANGED <<status, attempts, notified>>
  BY <1>6
<1> QED
  BY <1>1, <1>2, <1>3, <1>4, <1>5, <1>6
  DEF Next, DispatcherStep, vars, BackoffElapses, LockExpires, Select, ClaimRead,
      InsertNotification, TransactionFails, Crash

LEMMA Step == IInv /\ [Next]_vars => IInv'
  BY TypeStep, LockStep, OwnerStep, OutcomeStep DEF IInv

LEMMA Invariance == Spec => []IInv
<1>1. Init => IInv
  BY InitIInv
<1>2. IInv /\ [Next]_vars => IInv'
  BY Step
<1> QED
  BY <1>1, <1>2, PTL DEF Spec

\* Rows, dispatchers and counters keep the values their columns and fields can hold.
THEOREM TypeCorrect == Spec => []TypeOK
  BY Invariance, PTL DEF IInv

\* No row is marked delivered before its notification is committed.
THEOREM Delivered == Spec => []DeliveredIsNotified
  BY Invariance, PTL DEF IInv

\* No row is given up before its attempt budget is used, although the decision is made on the
\* attempts read at the claim: a dispatcher that still owns the row has read the current ones.
THEOREM Exhausted == Spec => []DeadLettersExhausted
  BY Invariance, PTL DEF IInv

\* Deliveries within their locks, one step per action: a lock is taken from a live dispatcher
\* by its own last write alone, and that one marks what the same transaction has notified.
LEMMA PromptStep == IInv /\ PromptInv /\ [Next]_vars => PromptInv'
<1> SUFFICES ASSUME IInv, PromptInv, [Next]_vars, stalls' = 0 PROVE PromptInv'
  BY DEF PromptInv
<1> USE SentinelAssumption
    DEF IInv, TypeOK, ClaimInv, LockInv, PromptInv, Statuses, Steps, Claims, rowVars, faultVars,
        Owns, Me
<1>1. ASSUME NEW q \in Rows, Publish(q) \/ Replay(q) \/ BackoffElapses(q) PROVE PromptInv'
  BY <1>1 DEF Publish, Replay, BackoffElapses
<1>2. ASSUME NEW q \in Rows, LockExpires(q) PROVE PromptInv'
  BY <1>2 DEF LockExpires, Abandoned
<1>3. ASSUME NEW v \in Workers, Recover(v) PROVE PromptInv'
  <2>1. /\ stalls = 0 /\ expired' = {} /\ notified' = notified
        /\ claim' = claim /\ incarnation' = incarnation
        /\ \A w \in Workers : pc'[w] \in {"delivering", "inserted"} => pc'[w] = pc[w]
    BY <1>3 DEF Recover, Goto
  <2>2. \A r \in Rows : status'[r] = IF r \in expired THEN "pending" ELSE status[r]
    BY <1>3 DEF Recover
  <2>3. \A r \in Rows : lockedBy'[r] = IF r \in expired THEN NoOne ELSE lockedBy[r]
    BY <1>3 DEF Recover
  <2>4. \A w \in Workers : pc'[w] \in {"delivering", "inserted"} => Owns(w, claim[w].row)'
    BY <2>1, <2>2, <2>3
  <2>5. \A r \in Rows : r \in notified' => status'[r] = "delivered"
    BY <2>1, <2>2
  <2> QED
    BY <2>1, <2>4, <2>5
<1>4. ASSUME NEW v \in Workers, Select(v) PROVE PromptInv'
  BY <1>4 DEF Select, Goto, Drop
<1>5. ASSUME NEW v \in Workers, ClaimWrite(v) PROVE PromptInv'
  <2> DEFINE q == claim[v].row
  <2>1. /\ q \in Rows /\ stalls = 0 /\ notified' = notified /\ incarnation' = incarnation
        /\ \A w \in Workers \ {v} : pc'[w] = pc[w] /\ claim'[w] = claim[w]
        /\ pc'[v] \in {"idle", "claimed"}
    BY <1>5 DEF ClaimWrite, Goto, Drop
  <2>2. CASE UNCHANGED rowVars
    BY <2>1, <2>2
  <2>3. CASE ~UNCHANGED rowVars
    <3>1. /\ status[q] = "pending" /\ expired' = expired \ {q}
          /\ \A r \in Rows \ {q} : status'[r] = status[r] /\ lockedBy'[r] = lockedBy[r]
      BY <1>5, <2>1, <2>3 DEF ClaimWrite
    <3> HIDE DEF q
    <3>2. ASSUME NEW w \in Workers, pc'[w] \in {"delivering", "inserted"}
          PROVE Owns(w, claim[w].row)'
      <4>1. w # v /\ claim[w].row \in Rows /\ Owns(w, claim[w].row) /\ claim'[w] = claim[w]
        BY <2>1, <3>2
      <4>2. claim[w].row # q
        BY <3>1, <4>1
      <4> QED
        BY <2>1, <3>1, <4>1, <4>2
    <3>3. \A r \in expired', w \in Workers : ~Owns(w, r)'
      BY <2>1, <3>1
    <3>4. \A r \in Rows : r \in notified' => status'[r] = "delivered"
      <4>1. \A r \in Rows : r \in notified => status[r] = "delivered" /\ r # q
        BY <2>1, <3>1
      <4> QED
        BY <2>1, <3>1, <4>1
    <3> QED
      BY <3>2, <3>3, <3>4
  <2> QED
    BY <2>2, <2>3
<1>6. ASSUME NEW v \in Workers, ClaimRead(v) PROVE PromptInv'
  BY <1>6 DEF ClaimRead, Goto, Drop
<1>7. ASSUME NEW v \in Workers, InsertNotification(v) PROVE PromptInv'
  BY <1>7 DEF InsertNotification, Goto
<1>8. ASSUME NEW v \in Workers, Commit(v) PROVE PromptInv'
  <2> DEFINE q == claim[v].row
  <2>1. /\ q \in Rows /\ stalls = 0 /\ notified' = notified \cup {q}
        /\ incarnation' = incarnation /\ pc'[v] \in {"idle", "failed"}
        /\ \A w \in Workers \ {v} : pc'[w] = pc[w] /\ claim'[w] = claim[w]
    BY <1>8 DEF Commit, Goto, Drop
  <2>2. Owns(v, q)
    BY <1>8, <2>1 DEF Commit
  <2>3. /\ status'[q] = "delivered" /\ lockedBy'[q] = NoOne /\ expired' \subseteq expired \ {q}
        /\ \A r \in Rows \ {q} : status'[r] = status[r] /\ lockedBy'[r] = lockedBy[r]
    BY <1>8, <2>1, <2>2 DEF Commit, Finish
  <2> HIDE DEF q
  <2>4. ASSUME NEW w \in Workers, pc'[w] \in {"delivering", "inserted"}
        PROVE Owns(w, claim[w].row)'
    <3>1. w # v /\ claim[w].row \in Rows /\ Owns(w, claim[w].row) /\ claim'[w] = claim[w]
      BY <2>1, <2>4
    <3>2. claim[w].row # q
      BY <2>2, <3>1
    <3> QED
      BY <2>1, <2>3, <3>1, <3>2
  <2>5. ASSUME NEW r \in expired', NEW w \in Workers PROVE ~Owns(w, r)'
    <3>1. r \in Rows /\ r # q /\ ~Owns(w, r)
      BY <2>1, <2>3, <2>5
    <3> QED
      BY <2>1, <2>3, <3>1
  <2>6. \A r \in Rows : r \in notified' => status'[r] = "delivered"
    BY <2>1, <2>3
  <2> QED
    BY <2>4, <2>5, <2>6
<1>9. ASSUME NEW v \in Workers, RecordFailure(v) PROVE PromptInv'
  <2>1. claim[v].row \in Rows /\ {"pending", "dead_letter"} \subseteq Statuses
    BY <1>9 DEF RecordFailure
  <2>2. /\ expired' \subseteq expired
        /\ \A r \in Rows :
             \/ status'[r] = status[r] /\ lockedBy'[r] = lockedBy[r]
             \/ Owns(v, r) /\ lockedBy'[r] = NoOne
    <3>1. CASE Finish(v, "dead_letter")
      BY <2>1, <3>1, Finished
    <3>2. CASE Finish(v, "pending")
      BY <2>1, <3>2, Finished
    <3> QED
      BY <1>9, <3>1, <3>2 DEF RecordFailure
  <2>3. /\ pc'[v] = "idle" /\ notified' = notified /\ incarnation' = incarnation
        /\ \A w \in Workers \ {v} : pc'[w] = pc[w] /\ claim'[w] = claim[w]
    BY <1>9, Dropped DEF RecordFailure
  <2>4. stalls = 0
    BY <1>9 DEF RecordFailure
  <2>5. ASSUME NEW w \in Workers, pc'[w] \in {"delivering", "inserted"}
        PROVE Owns(w, claim[w].row)' /\ w # v
    <3>1. w # v /\ Owns(w, claim[w].row) /\ claim[w].row \in Rows
      BY <2>3, <2>4, <2>5
    <3>2. ~Owns(v, claim[w].row)
      BY <3>1
    <3> QED
      BY <2>2, <2>3, <3>1, <3>2
  <2>6. ASSUME NEW r \in expired', NEW w \in Workers PROVE ~Owns(w, r)'
    <3>1. r \in Rows /\ ~Owns(w, r) /\ <<w, incarnation[w]>> # NoOne
      BY <2>2, <2>4, <2>6
    <3> QED
      BY <2>2, <2>3, <3>1
  <2>7. \A r \in Rows : r \in notified' => status'[r] = "delivered"
    BY <2>2, <2>3, <2>4
  <2> QED
    BY <2>5, <2>6, <2>7
<1>10. ASSUME NEW v \in Workers, TransactionFails(v) PROVE PromptInv'
  BY <1>10 DEF TransactionFails, Goto
<1>11. ASSUME NEW v \in Workers, Crash(v) PROVE PromptInv'
  <2>1. /\ UNCHANGED <<rowVars, notified>> /\ stalls = 0 /\ pc'[v] = "idle"
        /\ incarnation'[v] = incarnation[v] + 1
        /\ \A w \in Workers \ {v} :
             pc'[w] = pc[w] /\ claim'[w] = claim[w] /\ incarnation'[w] = incarnation[w]
    BY <1>11, Dropped DEF Crash
  <2>2. ASSUME NEW r \in Rows PROVE ~Owns(v, r)'
    <3>1. incarnation[v] \in Nat /\ ~(incarnation[v] + 1 <= incarnation[v])
      OBVIOUS
    <3>2. lockedBy[r] # <<v, incarnation[v] + 1>>
      BY <3>1
    <3> QED
      BY <2>1, <3>2
  <2>3. \A w \in Workers \ {v}, r \in Rows : Owns(w, r)' <=> Owns(w, r)
    BY <2>1
  <2>4. \A w \in Workers : pc'[w] \in {"delivering", "inserted"} => Owns(w, claim[w].row)'
    BY <2>1, <2>3
  <2>5. \A r \in expired', w \in Workers : ~Owns(w, r)'
    BY <2>1, <2>2, <2>3
  <2> QED
    BY <2>1, <2>4, <2>5
<1>12. CASE UNCHANGED vars
  BY <1>12 DEF vars
<1> QED
  BY <1>1, <1>2, <1>3, <1>4, <1>5, <1>6, <1>7, <1>8, <1>9, <1>10, <1>11, <1>12
  DEF Next, DispatcherStep

\* A delivered event ends as a dead letter only after a delivery that outlived its lock: the
\* unique index meets a redelivery in no other case, although answers of commits are lost,
\* transactions fail and processes die.
THEOREM GivenUpIsUndelivered == Spec => []NotifiedIsNotGivenUp
<1>1. Init => PromptInv
  BY DEF Init, PromptInv
<1>2. IInv /\ IInv' /\ PromptInv /\ [Next]_vars => PromptInv'
  BY PromptStep
<1>3. PromptInv => NotifiedIsNotGivenUp
  BY DEF PromptInv, NotifiedIsNotGivenUp
<1> QED
  BY <1>1, <1>2, <1>3, Invariance, PTL DEF Spec

\* A lock ends by expiry or by the dispatcher that holds it.
THEOREM LockEnds == Spec => LockEndsByOwnerOrExpiry
<1> DEFINE Ends ==
      \A r \in Rows :
        status[r] = "processing" /\ status'[r] # "processing" =>
          \/ r \in expired
          \/ \E w \in Workers : lockedBy[r] = Me(w) /\ claim[w].row = r /\ pc'[w] # pc[w]
<1>1. IInv /\ [Next]_vars => [Ends]_vars
  <2> SUFFICES ASSUME IInv, Next, NEW r \in Rows,
                      status[r] = "processing", status'[r] # "processing", r \notin expired
               PROVE \E w \in Workers : lockedBy[r] = Me(w) /\ claim[w].row = r /\ pc'[w] # pc[w]
    OBVIOUS
  <2> USE DEF IInv, TypeOK, ClaimInv, LockInv
  <2>1. ASSUME NEW w \in Workers, Commit(w) \/ RecordFailure(w)
        PROVE lockedBy[r] = Me(w) /\ claim[w].row = r /\ pc'[w] # pc[w]
    BY <2>1 DEF Commit, RecordFailure, Finish, Owns, Goto, Drop
  <2>2. ASSUME NEW w \in Workers,
               \/ Recover(w) \/ Select(w) \/ ClaimWrite(w) \/ ClaimRead(w)
               \/ InsertNotification(w) \/ TransactionFails(w) \/ Crash(w)
        PROVE FALSE
    BY <2>2 DEF Recover, Select, ClaimWrite, ClaimRead, InsertNotification, TransactionFails,
      Crash, rowVars
  <2>3. ASSUME NEW q \in Rows, Publish(q) \/ Replay(q) \/ BackoffElapses(q) \/ LockExpires(q)
        PROVE FALSE
    BY <2>3 DEF Publish, Replay, BackoffElapses, LockExpires
  <2> QED
    BY <2>1, <2>2, <2>3 DEF Next, DispatcherStep
<1> QED
  BY <1>1, Invariance, PTL DEF Spec, LockEndsByOwnerOrExpiry

=============================================================================
