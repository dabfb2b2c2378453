------------------------------ MODULE LimitProofs ------------------------------
(***************************************************************************)
(* Proofs about PublicRateLimit, for any number of requests, processes and *)
(* faults, and any limit and window, and about ResearchScraper, for any    *)
(* number of threads and URLs and any interval and lifetime.               *)
(***************************************************************************)
EXTENDS PublicRateLimit, ResearchScraper, FiniteSetTheorems, TLAPS

\* A request of the present window has been counted, at most as high as the key stands now.
CurrentInv ==
  \A r \in current : stage[r] \in {"expiring", "deciding", "falling back"} /\ seen[r] \in 1 .. count

\* What was let through or is about to be has been counted.
SpentInv == Spent \in Nat /\ Spent <= count /\ Spent <= Limit

NoFaults == lost = 0 /\ restarts = 0 /\ outages = 0

\* Without faults the key has counted nothing else.
ExactInv ==
  NoFaults =>
    /\ reachable /\ \A r \in Requests : stage[r] # "falling back"
    /\ Spent = IF count > Limit THEN Limit ELSE count

LInv == LimitTypeOK /\ CurrentInv /\ SpentInv /\ ExactInv

-----------------------------------------------------------------------------
(* Counting requests. *)

LEMMA PassingFinite ==
  ASSUME current \subseteq Requests
  PROVE  IsFiniteSet(Passing) /\ Cardinality(Passing) \in Nat
<1>1. Passing \in SUBSET Requests
  BY DEF Passing
<1>2. IsFiniteSet(Passing)
  BY <1>1, FS_Subset, LimitAssumption
<1> QED
  BY <1>2, FS_CardinalityType

LEMMA LimitInitInv == LimitInit => LInv
<1> SUFFICES ASSUME LimitInit PROVE LInv
  OBVIOUS
<1> USE LimitAssumption DEF LimitInit
<1>1. LimitTypeOK
  BY DEF LimitTypeOK, Counters, Stages, NoTtl, NoCounter
<1>2. Passing = {}
  BY DEF Passing
<1>3. Spent = 0
  BY <1>2, FS_EmptySet DEF Spent
<1> QED
  BY <1>1, <1>3 DEF LInv, CurrentInv, SpentInv, ExactInv

\* What Redis's answers can be.
LEMMA OutcomeFacts ==
  ASSUME NEW o \in Outcomes
  PROVE  /\ o.applied \in 0 .. 2 /\ o.answered \in BOOLEAN /\ o.faults \in {0, 1}
         /\ o.answered => o.applied > 0 /\ reachable
         /\ o.faults = 1 => lost < MaxLost
         /\ reachable /\ o.faults = 0 => o.applied = 1 /\ o.answered
  BY DEF Outcomes

LEMMA SaturatedFacts ==
  ASSUME NEW n \in 0 .. Limit + 1, NEW k \in 0 .. 2
  PROVE  /\ Saturated(n + k) \in 0 .. Limit + 1 /\ Saturated(n + k) >= n
         /\ k > 0 => Saturated(n + k) > n \/ (n = Limit + 1 /\ Saturated(n + k) = n)
         /\ k = 1 /\ n <= Limit => Saturated(n + k) = n + 1
  BY LimitAssumption DEF Saturated

\* The types, but for the bound of granted, which follows from SpentInv: the Redis side ...
LEMMA RedisTypes ==
  ASSUME count \in 0 .. Limit + 1, ttl \in 1 .. NoTtl, count = 0 => ttl = NoTtl,
         reachable \in BOOLEAN, lost \in 0 .. MaxLost, [LimitNext]_limitVars
  PROVE  /\ count' \in 0 .. Limit + 1 /\ ttl' \in 1 .. NoTtl /\ (count' = 0 => ttl' = NoTtl)
         /\ reachable' \in BOOLEAN /\ lost' \in 0 .. MaxLost
<1> DEFINE Typed == /\ count' \in 0 .. Limit + 1 /\ ttl' \in 1 .. NoTtl
                    /\ (count' = 0 => ttl' = NoTtl)
                    /\ reachable' \in BOOLEAN /\ lost' \in 0 .. MaxLost
<1> USE LimitAssumption DEF limitRedis, limitFaults, NoTtl
<1>1. ASSUME NEW r \in Requests, Increment(r) PROVE Typed
  <2>1. PICK o \in Outcomes : count' = Saturated(count + o.applied) /\ lost' = lost + o.faults
    BY <1>1 DEF Increment
  <2>2. /\ o.applied \in 0 .. 2 /\ o.faults \in {0, 1} /\ (o.faults = 1 => lost < MaxLost)
    BY OutcomeFacts
  <2>3. count' \in 0 .. Limit + 1 /\ count' >= count
    BY <2>1, <2>2, SaturatedFacts
  <2>4. lost' \in 0 .. MaxLost
    BY <2>1, <2>2
  <2>5. ttl' = ttl /\ reachable' = reachable
    BY <1>1 DEF Increment
  <2> QED
    BY <2>3, <2>4, <2>5
<1>2. ASSUME NEW r \in Requests, Expire(r) PROVE Typed
  <2>1. PICK o \in Outcomes :
          /\ ttl' = IF o.applied > 0 /\ count > 0 /\ ttl = NoTtl THEN Window ELSE ttl
          /\ lost' = lost + o.faults
    BY <1>2 DEF Expire
  <2>2. /\ o.applied \in 0 .. 2 /\ o.faults \in {0, 1} /\ (o.faults = 1 => lost < MaxLost)
    BY OutcomeFacts
  <2>3. lost' \in 0 .. MaxLost
    BY <2>1, <2>2
  <2>4. ttl' \in {ttl, Window} /\ (ttl' # ttl => count > 0)
    BY <2>1
  <2>5. count' = count /\ reachable' = reachable
    BY <1>2 DEF Expire
  <2> QED
    BY <2>3, <2>4, <2>5
<1>3. ASSUME LimitTick PROVE Typed
  BY <1>3 DEF LimitTick
<1>4. ASSUME GoDown \/ ComeBack PROVE Typed
  BY <1>4 DEF GoDown, ComeBack
<1>5. CASE UNCHANGED <<count, ttl, reachable, lost>>
  BY <1>5
<1> QED
  BY <1>1, <1>2, <1>3, <1>4, <1>5
  DEF LimitNext, Try, RequestStep, Arrive, Decide, FallBack, Restart, limitVars

LEMMA RequestTypes ==
  ASSUME count' \in 0 .. Limit + 1, current \subseteq Requests,
         stage \in [Requests -> Stages], seen \in [Requests -> 0 .. Limit + 1],
         at \in [Requests -> Processes \cup {Nowhere}],
         [LimitNext]_limitVars
  PROVE  /\ current' \subseteq Requests
         /\ stage' \in [Requests -> Stages] /\ seen' \in [Requests -> 0 .. Limit + 1]
         /\ at' \in [Requests -> Processes \cup {Nowhere}]
<1> DEFINE Counts == 0 .. Limit + 1
<1> DEFINE Typed == /\ current' \subseteq Requests
                    /\ stage' \in [Requests -> Stages] /\ seen' \in [Requests -> Counts]
                    /\ at' \in [Requests -> Processes \cup {Nowhere}]
<1>c. count' \in Counts /\ 0 \in Counts /\ seen \in [Requests -> Counts]
  BY LimitAssumption
<1> SUFFICES Typed
  OBVIOUS
<1> HIDE DEF Counts
<1> USE DEF requestVars, Proceed
<1>1. ASSUME NEW r \in Requests, NEW p \in Processes, Arrive(r, p) PROVE Typed
  BY <1>1, <1>c DEF Arrive, Stages
<1>2. ASSUME NEW r \in Requests, Increment(r) PROVE Typed
  <2>1. PICK o \in Outcomes :
          /\ current' = IF o.answered THEN current \cup {r} ELSE current
          /\ seen' = [seen EXCEPT ![r] = IF o.answered THEN count' ELSE 0]
          /\ stage' = [stage EXCEPT ![r] = IF o.answered THEN "expiring" ELSE "falling back"]
          /\ at' = at
    BY <1>2 DEF Increment
  <2>2. seen' \in [Requests -> Counts]
    BY <1>c, <2>1
  <2>3. stage' \in [Requests -> Stages]
    BY <2>1 DEF Stages
  <2> QED
    BY <2>1, <2>2, <2>3
<1>3. ASSUME NEW r \in Requests, Expire(r) PROVE Typed
  <2>1. PICK o \in Outcomes :
          stage' = [stage EXCEPT ![r] = IF o.answered THEN "deciding" ELSE "falling back"]
    BY <1>3 DEF Expire
  <2>2. stage' \in [Requests -> Stages]
    BY <2>1 DEF Stages
  <2> QED
    BY <1>3, <1>c, <2>2 DEF Expire
<1>4. ASSUME NEW S \in SUBSET Requests, Leave(S), current' \subseteq current PROVE Typed
  <2>1. stage' \in [Requests -> Stages]
    BY <1>4 DEF Leave, Stages
  <2>2. seen' \in [Requests -> Counts]
    BY <1>4, <1>c DEF Leave
  <2>3. at' \in [Requests -> Processes \cup {Nowhere}]
    BY <1>4 DEF Leave
  <2> QED
    BY <1>4, <2>1, <2>2, <2>3
<1>5. ASSUME NEW r \in Requests, Decide(r) \/ FallBack(r) PROVE Typed
  BY <1>4, <1>5 DEF Decide, FallBack, Tell
<1>6. ASSUME NEW p \in Processes, Restart(p) PROVE Typed
  BY <1>4, <1>6 DEF Restart
<1>7. CASE UNCHANGED <<stage, seen, at>> /\ current' \subseteq current
  BY <1>7, <1>c
<1> QED
  BY <1>1, <1>2, <1>3, <1>5, <1>6, <1>7
  DEF LimitNext, Try, RequestStep, LimitTick, GoDown, ComeBack, limitVars

\* ... and the process side.
LEMMA ProcessTypes ==
  ASSUME local \in [Processes -> Counters], lastAnswer \in {"none", "admitted", "refused"},
         outages \in 0 .. MaxOutages, restarts \in 0 .. MaxRestarts, [LimitNext]_limitVars
  PROVE  /\ local' \in [Processes -> Counters]
         /\ lastAnswer' \in {"none", "admitted", "refused"}
         /\ outages' \in 0 .. MaxOutages /\ restarts' \in 0 .. MaxRestarts
<1> DEFINE Bounded == outages' \in 0 .. MaxOutages /\ restarts' \in 0 .. MaxRestarts
<1>1. Bounded
  <2> USE LimitAssumption
  <2>1. CASE GoDown
    BY <2>1 DEF GoDown
  <2>2. CASE \E p \in Processes : Restart(p)
    BY <2>2 DEF Restart
  <2>3. CASE UNCHANGED <<outages, restarts>>
    BY <2>3
  <2> QED
    BY <2>1, <2>2, <2>3 DEF LimitNext, Try, RequestStep, Arrive, Increment, Expire, Decide, FallBack,
      LimitTick, ComeBack, limitFaults, limitVars
<1>2. lastAnswer' \in {"none", "admitted", "refused"}
  BY DEF LimitNext, Try, RequestStep, Arrive, Increment, Expire, Decide, FallBack, Tell, LimitTick,
    GoDown, ComeBack, Restart, limitVars
<1>3. local' \in [Processes -> Counters]
  <2>1. NoCounter \in Counters
    BY LimitAssumption DEF NoCounter, Counters
  <2>2. ASSUME NEW r \in Requests, FallBack(r) PROVE local' \in [Processes -> Counters]
    <3> DEFINE c == local[at[r]]
               n == IF c.left = 0 THEN [count |-> 1, left |-> Window]
                                  ELSE [c EXCEPT !.count = Saturated(@ + 1)]
    <3>1. local' = [local EXCEPT ![at[r]] = n]
      BY <2>2 DEF FallBack
    <3>2. ASSUME at[r] \in Processes PROVE n \in Counters
      <4>1. c \in Counters
        BY <3>2
      <4>2. c.count \in 0 .. Limit + 1 /\ c.left \in 0 .. Window
        BY <4>1 DEF Counters
      <4>3. Saturated(c.count + 1) \in 0 .. Limit + 1
        BY <4>2, LimitAssumption DEF Saturated
      <4>4. [count |-> 1, left |-> Window] \in Counters
        BY LimitAssumption DEF Counters
      <4>5. [c EXCEPT !.count = Saturated(@ + 1)] \in Counters
        BY <4>1, <4>3 DEF Counters
      <4> QED
        BY <4>4, <4>5
    <3> HIDE DEF n
    <3> QED
      BY <3>1, <3>2
  <2>3. ASSUME LimitTick PROVE local' \in [Processes -> Counters]
    <3>1. ASSUME NEW p \in Processes, local[p].left > 1
          PROVE [local[p] EXCEPT !.left = @ - 1] \in Counters
      BY <3>1, LimitAssumption DEF Counters
    <3>2. local' = [p \in Processes |-> IF local[p].left > 1 THEN [local[p] EXCEPT !.left = @ - 1]
                                                             ELSE NoCounter]
      BY <2>3 DEF LimitTick
    <3> QED
      BY <2>1, <3>1, <3>2
  <2>4. ASSUME NEW p \in Processes, Restart(p) PROVE local' \in [Processes -> Counters]
    BY <2>1, <2>4 DEF Restart
  <2>5. CASE UNCHANGED local
    BY <2>5
  <2> QED
    BY <2>2, <2>3, <2>4, <2>5 DEF LimitNext, Try, RequestStep, Arrive, Increment, Expire, Decide,
      GoDown, ComeBack, limitVars
<1> QED
  BY <1>1, <1>2, <1>3

-----------------------------------------------------------------------------
(* What each kind of step does to the window. *)

\* Requests that leave take what they were about to get with them.
LEMMA Leaving ==
  ASSUME LInv, current' \subseteq current, UNCHANGED <<count, granted>>,
         \A r \in current' : seen'[r] = seen[r]
  PROVE  SpentInv' /\ (current' = current => Spent' = Spent)
<1>1. current \subseteq Requests /\ count \in Nat /\ granted \in Nat
  BY LimitAssumption DEF LInv, LimitTypeOK
<1>2. Passing' \subseteq Passing /\ (current' = current => Passing' = Passing)
  BY DEF Passing
<1>3. /\ IsFiniteSet(Passing) /\ Cardinality(Passing) \in Nat
      /\ Cardinality(Passing') \in Nat /\ Cardinality(Passing') <= Cardinality(Passing)
  <2>1. IsFiniteSet(Passing) /\ Cardinality(Passing) \in Nat
    BY <1>1, PassingFinite
  <2>2. IsFiniteSet(Passing') /\ Cardinality(Passing') <= Cardinality(Passing)
    BY <1>2, <2>1, FS_Subset
  <2> QED
    BY <2>1, <2>2, FS_CardinalityType
<1>4. Spent = granted + Cardinality(Passing) /\ Spent' = granted + Cardinality(Passing')
  BY DEF Spent
<1>5. Spent \in Nat /\ Spent <= count /\ Spent <= Limit
  BY DEF LInv, SpentInv
<1>6. SpentInv'
  <2>1. Spent' \in Nat /\ Spent' <= count /\ Spent' <= Limit
    BY <1>1, <1>3, <1>4, <1>5, LimitAssumption
  <2> QED
    BY <2>1 DEF SpentInv
<1> QED
  BY <1>2, <1>4, <1>6

\* INCR without the record of its outcome: it takes effect up to twice, and is answered or not.
Answered(r) ==
  /\ current' = current \cup {r} /\ seen' = [seen EXCEPT ![r] = count']
  /\ stage' = [stage EXCEPT ![r] = "expiring"]
Unanswered(r) ==
  /\ current' = current /\ seen' = [seen EXCEPT ![r] = 0]
  /\ stage' = [stage EXCEPT ![r] = "falling back"]

LEMMA IncrementCases ==
  ASSUME NEW r \in Requests, Increment(r)
  PROVE  \E k \in 0 .. 2, f \in {0, 1} :
           /\ count' = Saturated(count + k) /\ lost' = lost + f
           /\ (k > 0 /\ Answered(r)) \/ ((f = 1 \/ ~reachable) /\ Unanswered(r))
           /\ reachable /\ f = 0 => k = 1
<1>1. PICK o \in Outcomes :
        /\ count' = Saturated(count + o.applied)
        /\ current' = IF o.answered THEN current \cup {r} ELSE current
        /\ seen' = [seen EXCEPT ![r] = IF o.answered THEN count' ELSE 0]
        /\ stage' = [stage EXCEPT ![r] = IF o.answered THEN "expiring" ELSE "falling back"]
        /\ lost' = lost + o.faults
  BY DEF Increment, Proceed
<1>2. o.applied \in 0 .. 2 /\ o.faults \in {0, 1}
  BY OutcomeFacts
<1>3. reachable /\ o.faults = 0 => o.applied = 1
  BY OutcomeFacts
<1>4. (o.applied > 0 /\ Answered(r)) \/ ((o.faults = 1 \/ ~reachable) /\ Unanswered(r))
  <2>1. CASE o.answered
    <3>1. o.applied > 0
      BY <2>1, OutcomeFacts
    <3> QED
      <4>1. current' = current \cup {r}
        BY <1>1, <2>1
      <4>2. seen' = [seen EXCEPT ![r] = count']
        BY <1>1, <2>1
      <4>3. stage' = [stage EXCEPT ![r] = "expiring"]
        BY <1>1, <2>1
      <4>4. Answered(r)
        BY <4>1, <4>2, <4>3 DEF Answered
      <4> QED
        BY <3>1, <4>4
  <2>2. CASE ~o.answered
    <3>1. o.faults = 1 \/ ~reachable
      BY <1>2, <2>2, OutcomeFacts
    <3> QED
      <4>1. current' = current
        BY <1>1, <2>2
      <4>2. seen' = [seen EXCEPT ![r] = 0]
        BY <1>1, <2>2
      <4>3. stage' = [stage EXCEPT ![r] = "falling back"]
        BY <1>1, <2>2
      <4>4. Unanswered(r)
        BY <4>1, <4>2, <4>3 DEF Unanswered
      <4> QED
        BY <3>1, <4>4
  <2> QED
    BY <2>1, <2>2
<1> QED
  BY <1>1, <1>2, <1>3, <1>4

\* INCR counts a request once, and once at most it is about to be let through.
LEMMA Counting ==
  ASSUME LInv, NEW r \in Requests, Increment(r)
  PROVE  (CurrentInv /\ SpentInv /\ ExactInv)'
<1>1. /\ current \subseteq Requests /\ granted \in Nat
      /\ stage \in [Requests -> Stages] /\ seen \in [Requests -> 0 .. Limit + 1]
  BY LimitAssumption DEF LInv, LimitTypeOK
<1>2. /\ Limit \in Nat /\ Limit > 0 /\ count \in Nat /\ count <= Limit + 1 /\ lost \in Nat
  BY LimitAssumption DEF LInv, LimitTypeOK
<1>3. r \notin current
  BY DEF LInv, CurrentInv, Increment
<1>4. PICK k \in 0 .. 2, f \in {0, 1} :
        /\ count' = Saturated(count + k) /\ lost' = lost + f
        /\ (k > 0 /\ Answered(r)) \/ ((f = 1 \/ ~reachable) /\ Unanswered(r))
        /\ reachable /\ f = 0 => k = 1
  BY IncrementCases
<1>5. UNCHANGED <<reachable, granted, outages, restarts>>
  BY DEF Increment
<1>6. /\ count' \in Nat /\ count' <= Limit + 1 /\ count' >= count
      /\ k > 0 => count' > 0 /\ (count' <= Limit => count' > count)
      /\ k = 1 /\ count <= Limit => count' = count + 1
  <2>1. count' = IF count + k > Limit + 1 THEN Limit + 1 ELSE count + k
    BY <1>4 DEF Saturated
  <2> QED
    BY <1>2, <2>1
<1>7. \A q \in Requests \ {r} : seen'[q] = seen[q] /\ stage'[q] = stage[q]
  BY <1>1, <1>4 DEF Answered, Unanswered
<1>8. NoFaults' => NoFaults /\ f = 0
  BY <1>2, <1>4, <1>5 DEF NoFaults
<1>9. NoFaults => /\ reachable /\ \A q \in Requests : stage[q] # "falling back"
                  /\ Spent = IF count > Limit THEN Limit ELSE count
  BY DEF LInv, ExactInv
<1>10. Spent \in Nat /\ Spent <= count /\ Spent <= Limit
  BY DEF LInv, SpentInv
<1>11. IsFiniteSet(Passing) /\ Cardinality(Passing) \in Nat
  BY <1>1, PassingFinite
<1>12. \A q \in current : /\ q \in Requests /\ q # r /\ seen[q] \in 1 .. count
                          /\ stage[q] \in {"expiring", "deciding", "falling back"}
  BY <1>1, <1>3 DEF LInv, CurrentInv
<1>13. \A q \in current : /\ seen'[q] = seen[q] /\ seen'[q] \in 1 .. count'
                          /\ stage'[q] \in {"expiring", "deciding", "falling back"}
  <2>1. ASSUME NEW q \in current PROVE seen[q] \in 1 .. count'
    <3>1. seen[q] \in 1 .. count
      BY <1>12
    <3>2. count' \in Nat /\ count' >= count
      BY <1>6
    <3> QED
      BY <1>2, <3>1, <3>2
  <2> QED
    BY <1>7, <1>12, <2>1
<1>14. CASE Unanswered(r)
  <2>1. current' = current
    BY <1>14 DEF Unanswered
  <2>2. CurrentInv'
    BY <1>13, <2>1 DEF CurrentInv
  <2>3. Passing' = Passing
    BY <1>13, <2>1 DEF Passing
  <2>4. Spent' = Spent
    BY <1>5, <2>3 DEF Spent
  <2>5. SpentInv'
    BY <1>2, <1>6, <1>10, <2>4 DEF SpentInv
  <2>6. ~NoFaults'
    <3>1. stage'[r] = "falling back" /\ seen'[r] = 0
      BY <1>1, <1>14 DEF Unanswered
    <3>2. ~Answered(r)
      BY <1>3, <2>1 DEF Answered
    <3>3. f = 1 \/ ~reachable
      BY <1>4, <3>2
    <3>4. f = 0 => ~reachable
      BY <3>3
    <3> QED
      BY <1>8, <1>9, <3>4
  <2> QED
    BY <2>2, <2>5, <2>6 DEF ExactInv
<1>15. CASE k > 0 /\ Answered(r)
  <2>1. /\ current' = current \cup {r} /\ seen'[r] = count' /\ stage'[r] = "expiring"
    BY <1>1, <1>15 DEF Answered
  <2>2. count' \in 1 .. count'
    BY <1>6, <1>15
  <2>3. CurrentInv'
    BY <1>13, <2>1, <2>2 DEF CurrentInv
  <2>4. ASSUME NoFaults' PROVE reachable' /\ (\A q \in Requests : stage'[q] # "falling back")
                               /\ Spent = (IF count > Limit THEN Limit ELSE count) /\ k = 1
    BY <1>4, <1>5, <1>7, <1>8, <1>9, <2>1, <2>4
  <2>5. CASE count' <= Limit
    <3>1. Passing' = Passing \cup {r} /\ r \notin Passing
      <4>1. seen'[r] \in 1 .. Limit
        BY <1>2, <1>6, <2>1, <2>2, <2>5
      <4> QED
        BY <1>3, <1>13, <2>1, <4>1 DEF Passing
    <3>2. Cardinality(Passing') = Cardinality(Passing) + 1
      BY <1>11, <3>1, FS_AddElement
    <3>3. Spent' = Spent + 1
      BY <1>1, <1>5, <1>11, <3>2 DEF Spent
    <3>4. count' > count
      BY <1>6, <1>15, <2>5
    <3>5. Spent' \in Nat /\ Spent' <= count' /\ Spent' <= Limit
      BY <1>2, <1>6, <1>10, <2>5, <3>3, <3>4
    <3>6. ASSUME NoFaults' PROVE Spent' = IF count' > Limit THEN Limit ELSE count'
      <4>1. k = 1 /\ Spent = (IF count > Limit THEN Limit ELSE count) /\ count' \in Nat
        BY <1>6, <2>4, <3>6
      <4>2. count <= Limit
        BY <1>2, <2>5, <3>4, <4>1
      <4>3. count' = count + 1
        BY <1>6, <4>1, <4>2
      <4> QED
        BY <1>2, <2>5, <3>3, <4>1, <4>2, <4>3
    <3> QED
      BY <2>3, <2>4, <3>5, <3>6 DEF SpentInv, ExactInv
  <2>6. CASE count' > Limit
    <3>1. Passing' = Passing
      <4>1. seen'[r] \notin 1 .. Limit
        BY <1>2, <1>6, <2>1, <2>6
      <4> QED
        BY <1>3, <1>13, <2>1, <4>1 DEF Passing
    <3>2. Spent' = Spent
      BY <1>5, <3>1 DEF Spent
    <3>3. Spent' \in Nat /\ Spent' <= count' /\ Spent' <= Limit
      BY <1>2, <1>6, <1>10, <3>2
    <3>4. ASSUME NoFaults' PROVE Spent' = IF count' > Limit THEN Limit ELSE count'
      <4>1. k = 1 /\ Spent = (IF count > Limit THEN Limit ELSE count)
        BY <2>4, <3>4
      <4>2. count <= Limit => count' = count + 1
        BY <1>6, <4>1
      <4>3. count >= Limit
        BY <1>2, <2>6, <4>2
      <4> QED
        BY <1>2, <2>6, <3>2, <4>1, <4>3
    <3> QED
      BY <2>3, <2>4, <3>3, <3>4 DEF SpentInv, ExactInv
  <2> QED
    BY <1>2, <1>6, <2>5, <2>6
<1> QED
  BY <1>4, <1>14, <1>15

\* A request that Redis lets through was about to be.
LEMMA Deciding ==
  ASSUME LInv, NEW r \in Requests, Decide(r)
  PROVE  (CurrentInv /\ SpentInv /\ ExactInv)'
<1>1. /\ current \subseteq Requests /\ granted \in Nat /\ count \in Nat
      /\ stage \in [Requests -> Stages] /\ seen \in [Requests -> 0 .. Limit + 1]
  BY LimitAssumption DEF LInv, LimitTypeOK
<1>2. /\ current' = current \ {r} /\ UNCHANGED <<count, reachable, lost, outages, restarts>>
      /\ granted' = IF r \in current /\ seen[r] <= Limit THEN granted + 1 ELSE granted
  BY DEF Decide, limitRedis, limitFaults
<1>3. /\ \A q \in Requests \ {r} : stage'[q] = stage[q] /\ seen'[q] = seen[q]
      /\ stage'[r] = "idle"
  BY <1>1 DEF Decide, Tell, Leave
<1>4. CurrentInv'
  BY <1>1, <1>2, <1>3 DEF LInv, CurrentInv
<1>5. IsFiniteSet(Passing) /\ Cardinality(Passing) \in Nat
  BY <1>1, PassingFinite
<1>6. Passing' = Passing \ {r}
  BY <1>1, <1>2, <1>3 DEF Passing
<1>7. r \in Passing <=> r \in current /\ seen[r] <= Limit
  <2>1. r \in current => seen[r] \in 1 .. count
    BY DEF LInv, CurrentInv
  <2>2. Limit \in Nat
    BY LimitAssumption
  <2>3. r \in current => (seen[r] \in 1 .. Limit <=> seen[r] <= Limit)
    BY <1>1, <2>1, <2>2
  <2> QED
    BY <2>3 DEF Passing
<1>8. Cardinality(Passing') = IF r \in Passing THEN Cardinality(Passing) - 1 ELSE Cardinality(Passing)
  BY <1>5, <1>6, FS_RemoveElement
<1>9. Spent' = Spent
  BY <1>1, <1>2, <1>5, <1>7, <1>8 DEF Spent
<1>10. SpentInv'
  BY <1>2, <1>9 DEF LInv, SpentInv
<1>11. ExactInv'
  BY <1>1, <1>2, <1>3, <1>9 DEF LInv, ExactInv, NoFaults
<1> QED
  BY <1>4, <1>10, <1>11

\* The other steps of a request, and the faults, count nothing and let nothing through.
LEMMA NotCounting ==
  ASSUME LInv, current' \subseteq current, UNCHANGED <<count, granted>>,
         \A r \in current' : seen'[r] = seen[r]
                             /\ stage'[r] \in {"expiring", "deciding", "falling back"},
         NoFaults' => /\ NoFaults /\ reachable' /\ current' = current
                      /\ \A r \in Requests : stage'[r] # "falling back"
  PROVE  (CurrentInv /\ SpentInv /\ ExactInv)'
<1>1. CurrentInv'
  BY DEF LInv, CurrentInv
<1>2. SpentInv' /\ (current' = current => Spent' = Spent)
  BY Leaving
<1>3. ExactInv'
  BY <1>2 DEF LInv, ExactInv
<1> QED
  BY <1>1, <1>2, <1>3

LEMMA WindowStep == LInv /\ [LimitNext]_limitVars => (CurrentInv /\ SpentInv /\ ExactInv)'
<1> SUFFICES ASSUME LInv, [LimitNext]_limitVars PROVE (CurrentInv /\ SpentInv /\ ExactInv)'
  OBVIOUS
<1> DEFINE Goal == CurrentInv /\ SpentInv /\ ExactInv
           Quiet == /\ UNCHANGED <<count, granted>>
                    /\ \A r \in current' : r \in current /\ seen'[r] = seen[r]
                         /\ stage'[r] \in {"expiring", "deciding", "falling back"}
                    /\ NoFaults' => /\ NoFaults /\ reachable' /\ current' = current
                                    /\ \A r \in Requests : stage'[r] # "falling back"
<1>q. Quiet => Goal'
  BY NotCounting
<1>t. /\ current \subseteq Requests /\ stage \in [Requests -> Stages]
      /\ seen \in [Requests -> 0 .. Limit + 1]
      /\ lost \in Nat /\ outages \in Nat /\ restarts \in Nat
  BY LimitAssumption DEF LInv, LimitTypeOK
<1>c. \A r \in current : stage[r] \in {"expiring", "deciding", "falling back"}
  BY DEF LInv, CurrentInv
<1>e. NoFaults => reachable /\ \A r \in Requests : stage[r] # "falling back"
  BY DEF LInv, ExactInv
<1>1. ASSUME NEW r \in Requests, NEW p \in Processes, Arrive(r, p) PROVE Goal'
  <2>1. UNCHANGED <<count, granted, current, seen, reachable, lost, outages, restarts>>
    BY <1>1 DEF Arrive, limitRedis, limitFaults
  <2>2. stage[r] = "idle" /\ stage' = [stage EXCEPT ![r] = "counting"]
    BY <1>1 DEF Arrive, Proceed
  <2>3. \A q \in Requests : stage'[q] = IF q = r THEN "counting" ELSE stage[q]
    BY <1>t, <2>2
  <2> QED
    BY <1>q, <1>t, <1>c, <1>e, <2>1, <2>2, <2>3 DEF NoFaults
<1>2. ASSUME NEW r \in Requests, Increment(r) PROVE Goal'
  BY <1>2, Counting
<1>3. ASSUME NEW r \in Requests, Expire(r) PROVE Goal'
  <2>1. UNCHANGED <<count, granted, current, seen, reachable, outages, restarts>>
    BY <1>3 DEF Expire
  <2>2. PICK o \in Outcomes :
          /\ stage' = [stage EXCEPT ![r] = IF o.answered THEN "deciding" ELSE "falling back"]
          /\ lost' = lost + o.faults
    BY <1>3 DEF Expire, Proceed
  <2>3. \A q \in Requests \ {r} : stage'[q] = stage[q]
    BY <1>t, <2>2
  <2>4. stage'[r] \in {"deciding", "falling back"}
    BY <1>t, <2>2
  <2>5. NoFaults' => NoFaults /\ o.faults = 0
    <3>1. o.faults \in {0, 1}
      BY OutcomeFacts
    <3>2. lost' = 0 => lost = 0 /\ o.faults = 0
      <4>1. lost' = lost + o.faults
        BY <2>2
      <4> QED
        BY <1>t, <3>1, <4>1
    <3> QED
      BY <2>1, <3>2 DEF NoFaults
  <2>6. NoFaults' => stage'[r] = "deciding"
    <3> SUFFICES ASSUME NoFaults' PROVE stage'[r] = "deciding"
      OBVIOUS
    <3>1. o.answered
      BY <1>e, <2>5, OutcomeFacts
    <3> QED
      BY <1>t, <2>2, <3>1
  <2> QED
    BY <1>q, <1>t, <1>c, <1>e, <2>1, <2>3, <2>4, <2>5, <2>6
<1>4. ASSUME NEW r \in Requests, Decide(r) PROVE Goal'
  BY <1>4, Deciding
<1>5. ASSUME NEW r \in Requests, FallBack(r) PROVE Goal'
  <2>1. /\ UNCHANGED <<count, granted, reachable, lost, outages, restarts>>
        /\ current' = current \ {r} /\ stage[r] = "falling back"
    BY <1>5 DEF FallBack, limitRedis, limitFaults
  <2>2. \A q \in Requests \ {r} : stage'[q] = stage[q] /\ seen'[q] = seen[q]
    BY <1>5 DEF FallBack, Tell, Leave
  <2>3. ~NoFaults'
    BY <1>e, <2>1 DEF NoFaults
  <2> QED
    BY <1>q, <1>t, <1>c, <2>1, <2>2, <2>3
<1>6. ASSUME LimitTick PROVE Goal'
  <2>1. UNCHANGED <<reachable, stage, seen, lost, outages, restarts>>
    BY <1>6 DEF LimitTick, limitFaults
  <2>2. CASE UNCHANGED <<count, current, granted>>
    BY <1>q, <1>c, <1>e, <2>1, <2>2 DEF NoFaults
  <2>3. CASE count' = 0 /\ current' = {} /\ granted' = 0
    <3>1. Passing' = {}
      BY <2>3 DEF Passing
    <3>2. Spent' = 0
      BY <2>3, <3>1, FS_EmptySet DEF Spent
    <3>3. CurrentInv'
      BY <2>3 DEF CurrentInv
    <3>4. SpentInv'
      BY <2>3, <3>2, LimitAssumption DEF SpentInv
    <3>5. ~(count' > Limit)
      BY <2>3, LimitAssumption
    <3>6. ExactInv'
      BY <1>e, <2>1, <2>3, <3>2, <3>5 DEF ExactInv, NoFaults
    <3> QED
      BY <3>3, <3>4, <3>6
  <2> QED
    BY <1>6, <2>2, <2>3 DEF LimitTick
<1>7. ASSUME GoDown PROVE Goal'
  <2>1. UNCHANGED <<count, granted, current, seen, stage>> /\ outages' = outages + 1
    BY <1>7 DEF GoDown, requestVars
  <2>2. ~NoFaults'
    BY <1>t, <2>1 DEF NoFaults
  <2> QED
    BY <1>q, <1>c, <2>1, <2>2
<1>8. ASSUME ComeBack PROVE Goal'
  BY <1>8, <1>q, <1>c, <1>e DEF ComeBack, requestVars, limitFaults, NoFaults
<1>9. ASSUME NEW p \in Processes, Restart(p) PROVE Goal'
  <2> DEFINE gone == {r \in Requests : at[r] = p}
  <2>1. UNCHANGED <<count, granted>> /\ current' = current \ gone /\ restarts' = restarts + 1
    BY <1>9 DEF Restart, limitRedis
  <2>2. \A q \in Requests \ gone : stage'[q] = stage[q] /\ seen'[q] = seen[q]
    BY <1>9 DEF Restart, Leave
  <2>3. ~NoFaults'
    BY <1>t, <2>1 DEF NoFaults
  <2> HIDE DEF gone
  <2> QED
    BY <1>q, <1>t, <1>c, <2>1, <2>2, <2>3
<1>10. ASSUME UNCHANGED limitVars PROVE Goal'
  BY <1>10, <1>q, <1>c, <1>e DEF limitVars, limitRedis, requestVars, limitFaults, NoFaults
<1> QED
  BY <1>1, <1>2, <1>3, <1>4, <1>5, <1>6, <1>7, <1>8, <1>9, <1>10 DEF LimitNext, Try, RequestStep

LEMMA LimitStep == LInv /\ [LimitNext]_limitVars => LInv'
<1> SUFFICES ASSUME LInv, [LimitNext]_limitVars PROVE LInv'
  OBVIOUS
<1>1. (CurrentInv /\ SpentInv /\ ExactInv)'
  BY WindowStep
<1>2. /\ count' \in 0 .. Limit + 1 /\ ttl' \in 1 .. NoTtl /\ (count' = 0 => ttl' = NoTtl)
      /\ reachable' \in BOOLEAN /\ lost' \in 0 .. MaxLost
  BY RedisTypes DEF LInv, LimitTypeOK
<1>3. /\ current' \subseteq Requests
      /\ stage' \in [Requests -> Stages] /\ seen' \in [Requests -> 0 .. Limit + 1]
      /\ at' \in [Requests -> Processes \cup {Nowhere}]
  BY <1>2, RequestTypes DEF LInv, LimitTypeOK
<1>4. /\ local' \in [Processes -> Counters]
      /\ lastAnswer' \in {"none", "admitted", "refused"}
      /\ outages' \in 0 .. MaxOutages /\ restarts' \in 0 .. MaxRestarts
  BY ProcessTypes DEF LInv, LimitTypeOK
<1>5. granted' \in 0 .. Limit
  <2>1. granted' \in Nat
    <3>1. granted \in Nat
      BY LimitAssumption DEF LInv, LimitTypeOK
    <3>2. granted' \in {0, granted, granted + 1}
      BY DEF LimitNext, Try, RequestStep, Arrive, Increment, Expire, Decide, FallBack,
        LimitTick, GoDown, ComeBack, Restart, limitVars
    <3> QED
      BY <3>1, <3>2
  <2>2. Cardinality(Passing)' \in Nat
    <3>1. Passing' \in SUBSET Requests
      BY <1>3 DEF Passing
    <3>2. IsFiniteSet(Passing')
      BY <3>1, FS_Subset, LimitAssumption
    <3> QED
      BY <3>2, FS_CardinalityType
  <2>3. granted' + Cardinality(Passing)' <= Limit
    BY <1>1 DEF SpentInv, Spent
  <2> QED
    BY <2>1, <2>2, <2>3, LimitAssumption
<1> QED
  BY <1>1, <1>2, <1>3, <1>4, <1>5 DEF LInv, LimitTypeOK

LEMMA LimitInvariance == LimitSpec => []LInv
<1>1. LimitInit => LInv
  BY LimitInitInv
<1>2. LInv /\ [LimitNext]_limitVars => LInv'
  BY LimitStep
<1> QED
  BY <1>1, <1>2, PTL DEF LimitSpec

\* Redis lets at most Limit requests of one window through, whatever interleaves, is sent twice or
\* fails: no two admitted requests have been given the same count.
THEOREM WindowBounded == LimitSpec => []WindowBound
<1>1. LInv => WindowBound
  BY LimitAssumption DEF LInv, LimitTypeOK, WindowBound
<1> QED
  BY <1>1, LimitInvariance, PTL

\* Without faults a refusal means that the window's budget is spent: the key has counted exactly
\* the requests it lets through.
THEOREM RefusalsAreDue == LimitSpec => []RefusedOnlyWhenSpent
<1>1. LInv => RefusedOnlyWhenSpent
  <2> SUFFICES ASSUME LInv, NoFaults, NEW r \in current, seen[r] > Limit PROVE Spent = Limit
    BY DEF RefusedOnlyWhenSpent, NoFaults
  <2>1. seen[r] \in 1 .. count /\ count \in Nat /\ Limit \in Nat
    <3>1. count \in Nat /\ Limit \in Nat
      BY LimitAssumption DEF LInv, LimitTypeOK
    <3> QED
      BY <3>1 DEF LInv, CurrentInv
  <2>2. count > Limit
    BY <2>1
  <2> QED
    BY <2>2 DEF LInv, ExactInv
<1> QED
  BY <1>1, LimitInvariance, PTL

-----------------------------------------------------------------------------
(* The scraper. *)

\* The types of the scraper: no variable of it can leave its range.
LEMMA ScraperTypeStep == ScraperTypeOK /\ [ScraperNext]_scraperVars => ScraperTypeOK'
<1> SUFFICES ASSUME ScraperTypeOK, [ScraperNext]_scraperVars PROVE ScraperTypeOK'
  OBVIOUS
<1>a. /\ Interval \in Nat \ {0} /\ RedisInterval \in Nat \ {0} /\ CacheTtl \in Nat \ {0}
      /\ MaxUrls \in Nat /\ MaxLookup \in Nat /\ MaxFailures \in Nat /\ Horizon \in Nat
  BY ScraperAssumption DEF Horizon
\* What is left when a thread takes a step.
<1>t. ASSUME NEW t \in Threads, NEW step \in Steps, At(t, step),
             \/ Done(t) /\ step = "next"
             \/ UNCHANGED <<url, since, textAge>> /\ url[t] = NoUrl /\ step \in {"idle", "next"}
             \/ UNCHANGED <<url, since, textAge>> /\ url[t] # NoUrl /\ step \notin {"idle", "next"}
             \/ /\ UNCHANGED <<since, textAge>> /\ step \notin {"idle", "next"}
                /\ \E u \in Urls : url' = [url EXCEPT ![t] = u]
      PROVE  /\ pc' \in [Threads -> Steps] /\ url' \in [Threads -> Urls \cup {NoUrl}]
             /\ \A q \in Threads : url'[q] = NoUrl <=> pc'[q] \in {"idle", "next"}
             /\ since' \in [Threads -> 0 .. Horizon] /\ textAge' \in [Threads -> 0 .. Horizon]
  <2>1. pc' \in [Threads -> Steps] /\ \A q \in Threads : pc'[q] = IF q = t THEN step ELSE pc[q]
    BY <1>t DEF At, ScraperTypeOK
  <2>2. since' \in [Threads -> 0 .. Horizon] /\ textAge' \in [Threads -> 0 .. Horizon]
    BY <1>t, <1>a DEF Done, ScraperTypeOK
  <2>3. /\ url' \in [Threads -> Urls \cup {NoUrl}]
        /\ \A q \in Threads \ {t} : url'[q] = url[q]
        /\ url'[t] = NoUrl <=> step \in {"idle", "next"}
    BY <1>t, ScraperAssumption DEF Done, ScraperTypeOK
  <2> QED
    BY <2>1, <2>2, <2>3 DEF ScraperTypeOK
<1>1. ASSUME NEW t \in Threads, Post(t) \/ Reply(t) PROVE ScraperTypeOK'
  <2>1. todo' \in [Threads -> 0 .. MaxUrls]
    BY <1>1, <1>a DEF Post, Reply, ScraperTypeOK
  <2>2. url[t] = NoUrl
    BY <1>1 DEF Post, Reply, ScraperTypeOK
  <2>3. /\ pc' \in [Threads -> Steps] /\ url' \in [Threads -> Urls \cup {NoUrl}]
        /\ \A q \in Threads : url'[q] = NoUrl <=> pc'[q] \in {"idle", "next"}
        /\ since' \in [Threads -> 0 .. Horizon] /\ textAge' \in [Threads -> 0 .. Horizon]
    BY <1>1, <1>t, <2>2 DEF Post, Reply, Steps
  <2> QED
    BY <1>1, <2>1, <2>3 DEF Post, Reply, ScraperTypeOK, scraperRedis, storeVars
<1>2. ASSUME NEW t \in Threads, TakeUp(t) PROVE ScraperTypeOK'
  <2>1. todo' \in [Threads -> 0 .. MaxUrls]
    <3>1. todo[t] \in 1 .. MaxUrls
      BY <1>2, <1>a DEF TakeUp, ScraperTypeOK
    <3> QED
      BY <1>2, <1>a, <3>1 DEF TakeUp, ScraperTypeOK
  <2>2. CASE UNCHANGED <<pc, url>>
    BY <1>2, <2>1, <2>2 DEF TakeUp, ScraperTypeOK, scraperRedis, storeVars
  <2>3. CASE \E u \in Urls : At(t, "asking") /\ url' = [url EXCEPT ![t] = u]
    <3>1. "asking" \in Steps /\ UNCHANGED <<since, textAge>>
      BY <1>2 DEF TakeUp, Steps
    <3>2. /\ pc' \in [Threads -> Steps] /\ url' \in [Threads -> Urls \cup {NoUrl}]
          /\ \A q \in Threads : url'[q] = NoUrl <=> pc'[q] \in {"idle", "next"}
          /\ since' \in [Threads -> 0 .. Horizon] /\ textAge' \in [Threads -> 0 .. Horizon]
      BY <1>t, <2>3, <3>1
    <3> QED
      BY <1>2, <2>1, <3>2 DEF TakeUp, ScraperTypeOK, scraperRedis, storeVars
  <2> QED
    BY <1>2, <2>2, <2>3 DEF TakeUp
<1>3. ASSUME NEW t \in Threads,
             \/ AskShared(t) \/ LookLocally(t) \/ AskPolicy(t)
             \/ TryAgain(t) \/ WakeUp(t) \/ Acquire(t) \/ Fetch(t)
      PROVE ScraperTypeOK'
  <2>1. free' \in Nat /\ failures' \in 0 .. MaxFailures
    <3>1. free' \in Nat
      BY <1>3 DEF AskShared, LookLocally, AskPolicy, TryAgain, WakeUp, Acquire, Fetch,
         ScraperTypeOK, storeVars
    <3>2. failures' = failures \/ (failures < MaxFailures /\ failures' = failures + 1)
      BY <1>3 DEF AskShared, LookLocally, AskPolicy, TryAgain, WakeUp, Acquire, Fetch
    <3> QED
      BY <1>a, <3>1, <3>2 DEF ScraperTypeOK
  <2>2. url[t] # NoUrl
    BY <1>3 DEF AskShared, LookLocally, AskPolicy, TryAgain, WakeUp, Acquire, Fetch, ScraperTypeOK
  <2>3. PICK step \in Steps :
          /\ At(t, step)
          /\ \/ Done(t) /\ step = "next"
             \/ UNCHANGED <<url, since, textAge>> /\ step \notin {"idle", "next"}
    BY <1>3 DEF AskShared, LookLocally, AskPolicy, TryAgain, WakeUp, Acquire, Fetch, Done, Steps
  <2>4. /\ pc' \in [Threads -> Steps] /\ url' \in [Threads -> Urls \cup {NoUrl}]
        /\ \A q \in Threads : url'[q] = NoUrl <=> pc'[q] \in {"idle", "next"}
        /\ since' \in [Threads -> 0 .. Horizon] /\ textAge' \in [Threads -> 0 .. Horizon]
    BY <1>t, <2>2, <2>3
  <2> QED
    BY <1>3, <2>1, <2>4
    DEF AskShared, LookLocally, AskPolicy, TryAgain, WakeUp, Acquire, Fetch, ScraperTypeOK,
        scraperRedis, storeVars
<1>4. ASSUME NEW t \in Threads, TakeSlot(t) PROVE ScraperTypeOK'
  <2>1. url[t] # NoUrl
    BY <1>4 DEF TakeSlot, ScraperTypeOK
  <2>2. PICK step \in Steps :
          /\ At(t, step)
          /\ \/ Done(t) /\ step = "next"
             \/ UNCHANGED <<url, since, textAge>> /\ step \notin {"idle", "next"}
    BY <1>4 DEF TakeSlot, ReserveSlot, Done, Steps
  <2>3. /\ pc' \in [Threads -> Steps] /\ url' \in [Threads -> Urls \cup {NoUrl}]
        /\ \A q \in Threads : url'[q] = NoUrl <=> pc'[q] \in {"idle", "next"}
        /\ since' \in [Threads -> 0 .. Horizon] /\ textAge' \in [Threads -> 0 .. Horizon]
    BY <1>t, <2>1, <2>2
  <2>4. wait' \in [Threads -> Nat] /\ nextRequest' \in Nat
    BY <1>4, <1>a DEF TakeSlot, ReserveSlot, ScraperTypeOK
  <2>5. rateKey' \in 0 .. RedisInterval /\ failures' \in 0 .. MaxFailures
    <3>1. rateKey' \in {rateKey, RedisInterval}
      BY <1>4 DEF TakeSlot
    <3>2. failures' = failures \/ (failures < MaxFailures /\ failures' = failures + 1)
      BY <1>4 DEF TakeSlot
    <3> QED
      BY <1>a, <3>1, <3>2 DEF ScraperTypeOK
  <2> QED
    BY <1>4, <2>3, <2>4, <2>5 DEF TakeSlot, ScraperTypeOK
<1>5. ASSUME NEW t \in Threads, Store(t) \/ Share(t) PROVE ScraperTypeOK'
  <2>1. url[t] # NoUrl
    BY <1>5 DEF Store, Share, ScraperTypeOK
  <2>2. PICK step \in Steps :
          /\ At(t, step)
          /\ \/ Done(t) /\ step = "next"
             \/ UNCHANGED <<url, since, textAge>> /\ step \notin {"idle", "next"}
    BY <1>5 DEF Store, Share, Done, Steps
  <2>3. /\ pc' \in [Threads -> Steps] /\ url' \in [Threads -> Urls \cup {NoUrl}]
        /\ \A q \in Threads : url'[q] = NoUrl <=> pc'[q] \in {"idle", "next"}
        /\ since' \in [Threads -> 0 .. Horizon] /\ textAge' \in [Threads -> 0 .. Horizon]
    BY <1>t, <2>1, <2>2
  <2>4. since[t] \in 0 .. Horizon /\ textAge[t] \in 0 .. Horizon
    BY DEF ScraperTypeOK
  <2>5. [left |-> CacheTtl - since[t], age |-> textAge[t]] \in Entries
    BY <1>a, <2>4 DEF Entries, Horizon
  <2>6. cache' = cache \/ \E e \in Entries : cache' = [cache EXCEPT ![url[t]] = e]
    BY <1>5, <2>5 DEF Store, Share, storeVars
  <2>7. shared' = shared \/ shared' = [shared EXCEPT ![url[t]] = CacheTtl]
    BY <1>5 DEF Store, Share, scraperRedis
  <2>8. cache' \in [Urls -> Entries] /\ shared' \in [Urls -> 0 .. CacheTtl]
    BY <1>a, <2>6, <2>7 DEF ScraperTypeOK
  <2>9. failures' \in 0 .. MaxFailures
    <3>1. failures' = failures \/ (failures < MaxFailures /\ failures' = failures + 1)
      BY <1>5 DEF Store, Share
    <3> QED
      BY <1>a, <3>1 DEF ScraperTypeOK
  <2> QED
    BY <1>5, <2>3, <2>8, <2>9 DEF Store, Share, ScraperTypeOK, scraperRedis, storeVars
<1>6. ASSUME RedisFails \/ Elsewhere PROVE ScraperTypeOK'
  <2>1. CASE RedisFails
    <3>1. answering' = FALSE /\ failures < MaxFailures /\ failures' = failures + 1
      BY <2>1 DEF RedisFails
    <3>2. failures' \in 0 .. MaxFailures
      BY <1>a, <3>1 DEF ScraperTypeOK
    <3>3. answering' \in BOOLEAN
      BY <3>1
    <3> QED
      BY <2>1, <3>2, <3>3 DEF RedisFails, ScraperTypeOK, storeVars, threadVars
  <2>2. CASE Elsewhere
    <3>1. rateKey' \in {rateKey, RedisInterval}
      BY <2>2 DEF Elsewhere
    <3>2. rateKey' \in 0 .. RedisInterval
      BY <1>a, <3>1 DEF ScraperTypeOK
    <3>3. shared' \in [Urls -> 0 .. CacheTtl]
      BY <2>2, <1>a DEF Elsewhere, ScraperTypeOK
    <3> QED
      BY <2>2, <3>2, <3>3 DEF Elsewhere, ScraperTypeOK, storeVars, threadVars
  <2> QED
    BY <1>6, <2>1, <2>2
<1>7. ASSUME ClockTick PROVE ScraperTypeOK'
  <2>1. /\ \A n \in 0 .. Horizon : Older(n) \in 0 .. Horizon
        /\ \A n \in Nat : Less(n) \in Nat /\ Less(n) <= n
    BY <1>a DEF Older, Less
  <2>2. \A e \in Entries : Passed(e) \in Entries
    BY <1>a, <2>1 DEF Passed, Absent, Entries
  <2>3. shared' \in [Urls -> 0 .. CacheTtl] /\ cache' \in [Urls -> Entries]
    <3>1. \A n \in 0 .. CacheTtl : Less(n) \in 0 .. CacheTtl
      BY <1>a DEF Less
    <3> QED
      BY <1>7, <2>2, <3>1 DEF ClockTick, ScraperTypeOK
  <2>4. since' \in [Threads -> 0 .. Horizon] /\ textAge' \in [Threads -> 0 .. Horizon]
    BY <1>7, <1>a, <2>1 DEF ClockTick, ScraperTypeOK
  <2>5. wait' \in [Threads -> Nat] /\ nextRequest' \in Nat /\ rateKey' \in 0 .. RedisInterval
    BY <1>7, <1>a, <2>1 DEF ClockTick, ScraperTypeOK
  <2> QED
    BY <1>7, <2>3, <2>4, <2>5 DEF ClockTick, ScraperTypeOK
<1>8. CASE UNCHANGED scraperVars
  BY <1>8 DEF scraperVars, scraperRedis, storeVars, threadVars, ScraperTypeOK
<1> QED
  BY <1>1, <1>2, <1>3, <1>4, <1>5, <1>6, <1>7, <1>8 DEF ScraperNext, ThreadStep, PromptStep

\* Limiter, caches and threads of the scraper keep the values their fields can hold, and a thread
\* has a candidate exactly while it works on one, whatever fails.
THEOREM ScraperTypes == ScraperSpec => []ScraperTypeOK
<1>1. ScraperInit => ScraperTypeOK
  BY ScraperAssumption DEF ScraperInit, ScraperTypeOK, Entries, Absent, Horizon, Steps
<1> QED
  BY <1>1, ScraperTypeStep, PTL DEF ScraperSpec

\* A text is fetched after the clock was read for its candidate, so what an entry has left and
\* the age of its text never come to more than the life of an entry.
AgeInv ==
  /\ cache \in [Urls -> Entries]
  /\ \A u \in Urls : cache[u].left + cache[u].age <= CacheTtl
  /\ since \in [Threads -> 0 .. Horizon] /\ textAge \in [Threads -> 0 .. Horizon]
  /\ url \in [Threads -> Urls \cup {NoUrl}]
  /\ \A t \in Threads : textAge[t] <= since[t] /\ (url[t] = NoUrl => pc[t] \in {"idle", "next"})
  /\ pc \in [Threads -> Steps]

\* The instants that the process's limiter has promised lie Interval apart, and the next one
\* beyond them.
SpacingInv ==
  /\ wait \in [Threads -> Nat] /\ nextRequest \in Nat
  /\ \A t, s \in Sleepers : t # s =>
       wait[t] + Interval <= wait[s] \/ wait[s] + Interval <= wait[t]
  /\ \A t \in Sleepers : wait[t] + Interval <= nextRequest

LEMMA AgeStep == AgeInv /\ [ScraperNext]_scraperVars => AgeInv'
<1> SUFFICES ASSUME AgeInv, [ScraperNext]_scraperVars PROVE AgeInv'
  OBVIOUS
<1> DEFINE Life == 0 .. Horizon
<1>l. Life \subseteq Nat /\ CacheTtl \in Nat /\ MaxLookup \in Nat /\ Horizon \in Nat /\ 0 \in Life
  BY ScraperAssumption DEF Horizon
<1>i. /\ cache \in [Urls -> Entries] /\ since \in [Threads -> Life]
      /\ textAge \in [Threads -> Life] /\ url \in [Threads -> Urls \cup {NoUrl}]
      /\ pc \in [Threads -> Steps] /\ \A u \in Urls : cache[u].left + cache[u].age <= CacheTtl
      /\ \A t \in Threads : textAge[t] <= since[t] /\ (url[t] = NoUrl => pc[t] \in {"idle", "next"})
  BY DEF AgeInv
\* A step of one thread that leaves the cache alone.
<1>1. ASSUME NEW t \in Threads, UNCHANGED cache,
             \/ Done(t)
             \/ /\ UNCHANGED <<since, textAge>> /\ pc' \in [Threads -> Steps]
                /\ \A q \in Threads \ {t} : url'[q] = url[q] /\ pc'[q] = pc[q]
                /\ url' \in [Threads -> Urls \cup {NoUrl}]
                /\ url'[t] # NoUrl \/ pc'[t] \in {"idle", "next"}
      PROVE AgeInv'
  <2>1. CASE Done(t)
    BY <1>1, <1>i, <1>l, <2>1 DEF Done, At, AgeInv, Steps
  <2>2. CASE ~Done(t)
    BY <1>1, <1>i, <2>2 DEF AgeInv
  <2> QED
    BY <2>1, <2>2
<1>2. ASSUME NEW t \in Threads, Post(t) PROVE AgeInv'
  BY <1>1, <1>2, <1>i DEF Post, At, Steps, storeVars
<1>3. ASSUME NEW t \in Threads, Reply(t) PROVE AgeInv'
  BY <1>1, <1>3, <1>i DEF Reply, At, Steps, storeVars
<1>4. ASSUME NEW t \in Threads, TakeUp(t) PROVE AgeInv'
  <2>1. UNCHANGED <<cache, since, textAge>> /\ pc[t] = "next"
    BY <1>4 DEF TakeUp, storeVars
  <2>2. CASE UNCHANGED <<pc, url>>
    BY <1>1, <1>i, <2>1, <2>2
  <2>3. CASE \E u \in Urls : At(t, "asking") /\ url' = [url EXCEPT ![t] = u]
    BY <1>1, <1>i, <2>1, <2>3, ScraperAssumption DEF At, Steps
  <2> QED
    BY <1>4, <2>2, <2>3 DEF TakeUp
<1>5. ASSUME NEW t \in Threads, AskShared(t) \/ LookLocally(t) \/ AskPolicy(t) PROVE AgeInv'
  BY <1>1, <1>5, <1>i DEF AskShared, LookLocally, AskPolicy, At, Steps, storeVars
<1>6. ASSUME NEW t \in Threads, TakeSlot(t) PROVE AgeInv'
  <2>1. UNCHANGED cache /\ pc[t] = "slot"
    BY <1>6 DEF TakeSlot
  <2>2. \/ Done(t)
        \/ /\ UNCHANGED <<since, textAge, url>>
           /\ \E step \in {"queued", "retry", "sleeping"} : At(t, step)
    BY <1>6 DEF TakeSlot, ReserveSlot
  <2> QED
    BY <1>1, <1>i, <2>1, <2>2 DEF At, Steps
<1>7. ASSUME NEW t \in Threads, TryAgain(t) \/ WakeUp(t) \/ Acquire(t)
      PROVE AgeInv'
  BY <1>1, <1>7, <1>i DEF TryAgain, WakeUp, Acquire, At, Steps, storeVars
<1>8. ASSUME NEW t \in Threads, Fetch(t) PROVE AgeInv'
  BY <1>1, <1>8, <1>i DEF Fetch, At, Steps
<1>9. ASSUME NEW t \in Threads, Share(t) PROVE AgeInv'
  BY <1>1, <1>9 DEF Share, storeVars
<1>10. ASSUME NEW t \in Threads, Store(t) PROVE AgeInv'
  <2>1. CASE Done(t) /\ UNCHANGED cache
    BY <1>1, <2>1
  <2>2. CASE ~(Done(t) /\ UNCHANGED cache)
    <3> DEFINE e == [left |-> CacheTtl - since[t], age |-> textAge[t]]
    <3>1. cache' = [cache EXCEPT ![url[t]] = e]
      BY <1>10, <2>2 DEF Store
    <3>2. since[t] \in Life /\ textAge[t] \in Life /\ textAge[t] <= since[t]
      BY <1>i
    <3>3. e \in Entries /\ e.left + e.age <= CacheTtl
      BY <1>l, <3>2 DEF Entries, Horizon
    <3> HIDE DEF e
    <3>4. cache' \in [Urls -> Entries] /\ \A u \in Urls : cache'[u] = cache[u] \/ cache'[u] = e
      BY <1>i, <3>1, <3>3
    <3>5. \A u \in Urls : cache'[u].left + cache'[u].age <= CacheTtl
      BY <1>i, <3>3, <3>4
    <3>6. UNCHANGED <<since, textAge, url>> /\ pc[t] = "checking"
          /\ pc' = [pc EXCEPT ![t] = "sharing"]
      BY <1>10, <2>2 DEF Store, At
    <3>7. pc' \in [Threads -> Steps] /\ \A q \in Threads : pc[q] \in {"idle", "next"} => pc'[q] = pc[q]
      BY <1>i, <3>6 DEF Steps
    <3> QED
      BY <1>i, <3>4, <3>5, <3>6, <3>7 DEF AgeInv
  <2> QED
    BY <2>1, <2>2
<1>11. ASSUME ClockTick PROVE AgeInv'
  <2>1. \A n \in Life : Older(n) \in Life /\ Older(n) <= n + 1 /\ \A k \in Life : k <= n => Older(k) <= Older(n)
    BY <1>l DEF Older
  <2>2. since' = [t \in Threads |-> IF url[t] = NoUrl THEN 0 ELSE Older(since[t])]
    BY <1>11 DEF ClockTick
  <2>3. textAge' = [t \in Threads |-> IF pc[t] \in {"checking", "sharing"} THEN Older(textAge[t]) ELSE 0]
    BY <1>11 DEF ClockTick
  <2>4. since' \in [Threads -> Life] /\ textAge' \in [Threads -> Life]
    BY <1>i, <1>l, <2>1, <2>2, <2>3
  <2>5. \A t \in Threads : textAge'[t] <= since'[t]
    <3> TAKE t \in Threads
    <3>1. since[t] \in Life /\ textAge[t] \in Life /\ textAge[t] <= since[t]
      BY <1>i
    <3>2. CASE pc[t] \in {"checking", "sharing"}
      BY <1>i, <2>1, <2>2, <2>3, <3>1, <3>2
    <3>3. CASE pc[t] \notin {"checking", "sharing"}
      <4>1. textAge'[t] = 0 /\ since'[t] \in Life
        BY <2>3, <2>4, <3>3
      <4> QED
        BY <4>1
    <3> QED
      BY <3>2, <3>3
  <2>6. ASSUME NEW u \in Urls PROVE cache'[u] \in Entries /\ cache'[u].left + cache'[u].age <= CacheTtl
    <3>1. cache[u] \in Entries /\ cache[u].left + cache[u].age <= CacheTtl
      BY <1>i
    <3>2. cache'[u] = Passed(cache[u])
      BY <1>11 DEF ClockTick
    <3>3. Older(cache[u].age) \in Life /\ Older(cache[u].age) <= cache[u].age + 1
      BY <2>1, <3>1 DEF Entries
    <3> QED
      BY <1>l, <3>1, <3>2, <3>3 DEF Passed, Absent, Entries, Horizon
  <2>7. cache' \in [Urls -> Entries]
    BY <1>11, <2>6 DEF ClockTick
  <2>8. UNCHANGED <<pc, url>>
    BY <1>11 DEF ClockTick
  <2> QED
    BY <1>i, <2>4, <2>5, <2>6, <2>7, <2>8 DEF AgeInv
<1>12. CASE UNCHANGED <<cache, since, textAge, url, pc>>
  BY <1>12, <1>i DEF AgeInv
<1> QED
  BY <1>2, <1>3, <1>4, <1>5, <1>6, <1>7, <1>8, <1>9, <1>10, <1>11, <1>12
  DEF ScraperNext, ThreadStep, PromptStep, RedisFails, Elsewhere, scraperVars, storeVars, threadVars

\* A text served from the process cache was fetched less than CACHE_TTL_SECONDS before its reader
\* read the clock, since the expiry of an entry of text_cache counts from the start of the
\* extract_source that stored it: for any number of threads, URLs and permits, any durations,
\* that of the reader's own lookup included, and any failures of Redis.
THEOREM HitsFresh == ScraperSpec => []HitsAreFresh
<1>1. ScraperInit => AgeInv
  BY ScraperAssumption DEF ScraperInit, AgeInv, Entries, Absent, Horizon, Steps
<1>2. AgeInv /\ [ScraperNext]_scraperVars => AgeInv'
  BY AgeStep
<1>3. AgeInv => HitsAreFresh
  <2> SUFFICES ASSUME AgeInv, NEW t \in Threads, pc[t] = "looking", ProcessHit(t)
               PROVE cache[url[t]].age < CacheTtl + since[t]
    BY DEF HitsAreFresh
  <2>1. url[t] \in Urls /\ since[t] \in Int
    BY DEF AgeInv
  <2>2. cache[url[t]] \in Entries /\ cache[url[t]].left + cache[url[t]].age <= CacheTtl
    BY <2>1 DEF AgeInv
  <2> QED
    BY <2>1, <2>2, ScraperAssumption DEF ProcessHit, Entries
<1> QED
  BY <1>1, <1>2, <1>3, PTL DEF ScraperSpec

LEMMA SpacingStep == AgeInv /\ SpacingInv /\ [ScraperNext]_scraperVars => SpacingInv'
<1> SUFFICES ASSUME AgeInv, SpacingInv, [ScraperNext]_scraperVars
             PROVE SpacingInv'
  OBVIOUS
<1>i. /\ pc \in [Threads -> Steps] /\ wait \in [Threads -> Nat]
      /\ nextRequest \in Nat /\ Interval \in Nat \ {0}
      /\ \A t, s \in Threads : t # s /\ pc[t] = "sleeping" /\ pc[s] = "sleeping"
           /\ wait[t] > 0 /\ wait[s] > 0
           => wait[t] + Interval <= wait[s] \/ wait[s] + Interval <= wait[t]
      /\ \A t \in Threads : pc[t] = "sleeping" /\ wait[t] > 0 => wait[t] + Interval <= nextRequest
  BY ScraperAssumption DEF AgeInv, SpacingInv, Sleepers
\* What is left to show of a step.
<1>g. ASSUME /\ wait' \in [Threads -> Nat] /\ nextRequest' \in Nat
             /\ \A t, s \in Threads : t # s /\ pc'[t] = "sleeping" /\ pc'[s] = "sleeping"
                  /\ wait'[t] > 0 /\ wait'[s] > 0
                  => wait'[t] + Interval <= wait'[s] \/ wait'[s] + Interval <= wait'[t]
             /\ \A t \in Threads : pc'[t] = "sleeping" /\ wait'[t] > 0
                  => wait'[t] + Interval <= nextRequest'
      PROVE SpacingInv'
  BY <1>g DEF SpacingInv, Sleepers
\* A step that neither sends a thread to sleep nor touches the line.
<1>1. ASSUME UNCHANGED <<wait, nextRequest>>,
             \A t \in Threads : pc'[t] = "sleeping" => pc[t] = "sleeping"
      PROVE SpacingInv'
  BY <1>1, <1>i, <1>g
<1>2. ASSUME NEW t \in Threads, ReserveSlot(t), pc[t] = "slot" PROVE SpacingInv'
  <2>1. /\ wait' = [wait EXCEPT ![t] = nextRequest]
        /\ nextRequest' = nextRequest + Interval
        /\ pc' = [pc EXCEPT ![t] = "sleeping"]
    BY <1>2 DEF ReserveSlot, At
  <2>2. wait'[t] = nextRequest /\ \A s \in Threads \ {t} : wait'[s] = wait[s] /\ pc'[s] = pc[s]
    BY <1>i, <2>1
  <2>3. wait' \in [Threads -> Nat] /\ nextRequest' \in Nat
    BY <1>i, <2>1
  <2> QED
    BY <1>i, <1>g, <2>1, <2>2, <2>3
<1>3. ASSUME NEW t \in Threads, TakeSlot(t) PROVE SpacingInv'
  <2>1. pc[t] = "slot"
    BY <1>3 DEF TakeSlot
  <2>2. CASE ReserveSlot(t)
    BY <1>2, <2>1, <2>2
  <2>3. CASE At(t, "queued") /\ UNCHANGED <<wait, nextRequest>>
    BY <1>1, <1>i, <2>3 DEF At
  <2>4. CASE Done(t) /\ UNCHANGED <<wait, nextRequest>>
    BY <1>1, <1>i, <2>4 DEF Done, At
  <2>5. CASE At(t, "retry") /\ wait' = [wait EXCEPT ![t] = Interval] /\ UNCHANGED nextRequest
    <3>1. /\ wait' \in [Threads -> Nat] /\ pc'[t] = "retry" /\ nextRequest' = nextRequest
          /\ \A s \in Threads \ {t} : wait'[s] = wait[s] /\ pc'[s] = pc[s]
      BY <1>i, <2>5 DEF At
    <3> QED
      BY <1>i, <1>g, <3>1
  <2> QED
    BY <1>3, <2>2, <2>3, <2>4, <2>5 DEF TakeSlot
<1>4. ASSUME NEW t \in Threads, Post(t) \/ Reply(t) \/ TryAgain(t) \/ WakeUp(t)
      PROVE SpacingInv'
  BY <1>1, <1>4, <1>i DEF Post, Reply, TryAgain, WakeUp, At, storeVars
<1>5. ASSUME NEW t \in Threads, TakeUp(t) \/ AskShared(t) \/ LookLocally(t) \/ AskPolicy(t)
      PROVE SpacingInv'
  <2>1. UNCHANGED <<wait, nextRequest>>
    BY <1>5 DEF TakeUp, AskShared, LookLocally, AskPolicy, storeVars
  <2>2. UNCHANGED pc \/ \E step \in {"asking", "looking", "policy", "slot", "next"} : At(t, step)
    BY <1>5 DEF TakeUp, AskShared, LookLocally, AskPolicy, Done
  <2> QED
    BY <1>1, <1>i, <2>1, <2>2 DEF At
<1>6. ASSUME NEW t \in Threads, Acquire(t) \/ Fetch(t) \/ Store(t) \/ Share(t)
      PROVE SpacingInv'
  <2>1. UNCHANGED <<wait, nextRequest>>
    BY <1>6 DEF Acquire, Fetch, Store, Share, storeVars
  <2>2. \E step \in {"fetching", "checking", "sharing", "next"} : At(t, step)
    BY <1>6 DEF Acquire, Fetch, Store, Share, Done
  <2> QED
    BY <1>1, <1>i, <2>1, <2>2 DEF At
<1>7. CASE ClockTick
  <2>1. /\ pc' = pc /\ nextRequest' = Less(nextRequest)
        /\ wait' = [t \in Threads |-> Less(wait[t])]
    BY <1>7 DEF ClockTick
  <2>2. \A n \in Nat : Less(n) \in Nat /\ (n > 0 => Less(n) = n - 1) /\ (Less(n) > 0 => n > 1)
    BY DEF Less
  <2>3. wait' \in [Threads -> Nat] /\ nextRequest' \in Nat
    BY <1>i, <2>1, <2>2
  <2>4. ASSUME NEW t \in Threads, pc'[t] = "sleeping", wait'[t] > 0
        PROVE wait[t] > 0 /\ wait'[t] = wait[t] - 1 /\ wait[t] \in Nat
    BY <1>i, <2>1, <2>2, <2>4
  <2>5. ASSUME NEW t \in Threads, pc'[t] = "sleeping", wait'[t] > 0
        PROVE wait'[t] + Interval <= nextRequest'
    <3>1. wait[t] > 0 /\ wait'[t] = wait[t] - 1 /\ wait[t] \in Nat
      BY <2>4, <2>5
    <3>2. wait[t] + Interval <= nextRequest
      BY <1>i, <2>1, <2>5, <3>1
    <3>3. nextRequest > 0
      BY <1>i, <3>1, <3>2
    <3>4. nextRequest' = nextRequest - 1
      BY <1>i, <2>1, <2>2, <3>3
    <3> QED
      BY <1>i, <3>1, <3>2, <3>4
  <2>6. ASSUME NEW t \in Threads, NEW s \in Threads, t # s, pc'[t] = "sleeping",
               pc'[s] = "sleeping", wait'[t] > 0, wait'[s] > 0
        PROVE wait'[t] + Interval <= wait'[s] \/ wait'[s] + Interval <= wait'[t]
    <3>1. /\ wait[t] > 0 /\ wait'[t] = wait[t] - 1 /\ wait[t] \in Nat
          /\ wait[s] > 0 /\ wait'[s] = wait[s] - 1 /\ wait[s] \in Nat
      BY <2>4, <2>6
    <3>2. wait[t] + Interval <= wait[s] \/ wait[s] + Interval <= wait[t]
      BY <1>i, <2>1, <2>6, <3>1
    <3> QED
      BY <1>i, <3>1, <3>2
  <2> QED
    BY <1>g, <2>3, <2>5, <2>6
<1>8. CASE UNCHANGED <<wait, nextRequest, pc>>
  BY <1>1, <1>8
<1> QED
  BY <1>3, <1>4, <1>5, <1>6, <1>7, <1>8
  DEF ScraperNext, ThreadStep, PromptStep, RedisFails, Elsewhere, scraperVars, storeVars, threadVars

\* The line has no gap: x from now, the next free instant is no further than one interval for each
\* thread that will still be asleep, and one more.
Asleep(x) == {t \in Sleepers : wait[t] > x}
TightInv ==
  /\ IsFiniteSet(Sleepers)
  /\ \A x \in Nat : nextRequest <= x + Interval * (Cardinality(Asleep(x)) + 1)

\* The line moves when a thread joins it and with the clock.
LEMMA LineMoves ==
  ASSUME AgeInv, SpacingInv, [ScraperNext]_scraperVars
  PROVE  \/ /\ Sleepers' = Sleepers /\ nextRequest' = nextRequest
            /\ \A t \in Sleepers : wait'[t] = wait[t]
         \/ \E t \in Threads : ReserveSlot(t) /\ pc[t] = "slot"
         \/ ClockTick
<1> DEFINE Still == /\ Sleepers' = Sleepers /\ nextRequest' = nextRequest
                    /\ \A t \in Sleepers : wait'[t] = wait[t]
<1>i. pc \in [Threads -> Steps] /\ wait \in [Threads -> Nat] /\ nextRequest \in Nat
  BY DEF AgeInv, SpacingInv
\* A step of one thread that is not asleep, before or after it.
<1>1. ASSUME NEW t \in Threads, UNCHANGED nextRequest,
             pc[t] # "sleeping" \/ wait[t] = 0, NEW step \in Steps \ {"sleeping"}, At(t, step),
             \A s \in Threads \ {t} : wait'[s] = wait[s]
      PROVE Still
  <2>1. pc'[t] = step /\ \A s \in Threads \ {t} : pc'[s] = pc[s]
    BY <1>1, <1>i DEF At
  <2>2. t \notin Sleepers /\ t \notin Sleepers'
    BY <1>1, <2>1 DEF Sleepers
  <2>3. Sleepers' = Sleepers
    BY <1>1, <2>1, <2>2 DEF Sleepers
  <2> QED
    BY <1>1, <2>2, <2>3 DEF Sleepers
<1>2. ASSUME UNCHANGED <<pc, wait, nextRequest>> PROVE Still
  BY <1>2 DEF Sleepers
<1> HIDE DEF Still
<1>3. ASSUME NEW t \in Threads, TakeSlot(t) PROVE Still \/ (ReserveSlot(t) /\ pc[t] = "slot")
  <2>1. pc[t] = "slot" /\ \/ ReserveSlot(t)
                          \/ At(t, "queued") /\ UNCHANGED <<wait, nextRequest>>
                          \/ At(t, "next") /\ UNCHANGED <<wait, nextRequest>>
                          \/ /\ At(t, "retry") /\ wait' = [wait EXCEPT ![t] = Interval]
                             /\ UNCHANGED nextRequest
    BY <1>3 DEF TakeSlot, Done
  <2>2. CASE (At(t, "queued") \/ At(t, "next")) /\ UNCHANGED <<wait, nextRequest>>
    BY <1>1, <2>1, <2>2 DEF Steps
  <2>3. CASE /\ At(t, "retry") /\ wait' = [wait EXCEPT ![t] = Interval]
             /\ UNCHANGED nextRequest
    <3>1. \A s \in Threads \ {t} : wait'[s] = wait[s]
      BY <1>i, <2>3
    <3> QED
      BY <1>1, <2>1, <2>3, <3>1 DEF Steps
  <2> QED
    BY <2>1, <2>2, <2>3
<1>4. ASSUME NEW t \in Threads,
             \/ Post(t) \/ Reply(t) \/ TakeUp(t) \/ AskShared(t) \/ LookLocally(t) \/ AskPolicy(t)
             \/ TryAgain(t) \/ WakeUp(t) \/ Acquire(t) \/ Fetch(t) \/ Store(t) \/ Share(t)
      PROVE Still
  <2>1. UNCHANGED <<wait, nextRequest>> /\ (pc[t] # "sleeping" \/ wait[t] = 0)
    BY <1>4 DEF Post, Reply, TakeUp, AskShared, LookLocally, AskPolicy, TryAgain, WakeUp, Acquire,
       Fetch, Store, Share, storeVars
  <2>2. UNCHANGED pc \/ \E step \in Steps \ {"sleeping"} : At(t, step)
    BY <1>4 DEF Post, Reply, TakeUp, AskShared, LookLocally, AskPolicy, TryAgain, WakeUp, Acquire,
       Fetch, Store, Share, Done, Steps
  <2> QED
    BY <1>1, <1>2, <2>1, <2>2
<1>5. ASSUME UNCHANGED scraperVars \/ RedisFails \/ Elsewhere PROVE Still
  BY <1>2, <1>5 DEF RedisFails, Elsewhere, scraperVars, storeVars, threadVars
<1>6. Still \/ (\E t \in Threads : ReserveSlot(t) /\ pc[t] = "slot") \/ ClockTick
  BY <1>3, <1>4, <1>5 DEF ScraperNext, ThreadStep, PromptStep
<1> QED
  BY <1>6 DEF Still

LEMMA TightStep ==
  AgeInv /\ SpacingInv /\ TightInv /\ [ScraperNext]_scraperVars => TightInv'
<1> SUFFICES ASSUME AgeInv, SpacingInv, TightInv, [ScraperNext]_scraperVars
             PROVE TightInv'
  OBVIOUS
<1>i. /\ pc \in [Threads -> Steps] /\ wait \in [Threads -> Nat]
      /\ nextRequest \in Nat /\ Interval \in Nat /\ Interval > 0
  BY ScraperAssumption DEF AgeInv, SpacingInv
<1>c. \A x \in Nat : /\ IsFiniteSet(Asleep(x)) /\ Cardinality(Asleep(x)) \in Nat
                     /\ nextRequest <= x + Interval * (Cardinality(Asleep(x)) + 1)
  BY FS_Subset, FS_CardinalityType DEF TightInv, Asleep
<1>1. CASE /\ Sleepers' = Sleepers /\ nextRequest' = nextRequest
           /\ \A t \in Sleepers : wait'[t] = wait[t]
  <2>1. \A x \in Nat : Asleep(x)' = Asleep(x)
    BY <1>1 DEF Asleep
  <2> QED
    BY <1>1, <2>1 DEF TightInv
<1>2. ASSUME NEW t \in Threads, ReserveSlot(t), pc[t] = "slot" PROVE TightInv'
  <2>1. /\ wait'[t] = nextRequest /\ \A s \in Threads \ {t} : wait'[s] = wait[s]
        /\ nextRequest' = nextRequest + Interval
        /\ pc'[t] = "sleeping" /\ \A s \in Threads \ {t} : pc'[s] = pc[s]
    BY <1>2, <1>i DEF ReserveSlot, At
  <2>2. t \notin Sleepers /\ Sleepers' = IF nextRequest > 0 THEN Sleepers \cup {t} ELSE Sleepers
    BY <1>2, <2>1 DEF Sleepers
  <2>3. IsFiniteSet(Sleepers')
    BY <2>2, FS_AddElement DEF TightInv
  <2>4. ASSUME NEW x \in Nat
        PROVE nextRequest' <= x + Interval * (Cardinality(Asleep(x)') + 1)
    <3> DEFINE n == Cardinality(Asleep(x))
    <3>1. n \in Nat /\ nextRequest <= x + Interval * (n + 1)
      BY <1>c
    <3>2. t \notin Asleep(x) /\ IsFiniteSet(Asleep(x))
      BY <1>c, <2>2 DEF Asleep
    <3> HIDE DEF n
    <3>3. CASE x < nextRequest
      <4>1. Asleep(x)' = Asleep(x) \cup {t}
        BY <1>i, <2>1, <2>2, <3>3 DEF Asleep, Sleepers
      <4>2. Cardinality(Asleep(x)') = n + 1
        BY <3>2, <4>1, FS_AddElement DEF n
      <4>3. Interval * ((n + 1) + 1) = Interval * (n + 1) + Interval
        BY <1>i, <3>1
      <4>4. Interval * (n + 1) \in Nat
        BY <1>i, <3>1
      <4> QED
        BY <1>i, <2>1, <3>1, <4>2, <4>3, <4>4
    <3>4. CASE ~(x < nextRequest)
      <4>1. Asleep(x)' = Asleep(x)
        BY <1>i, <2>1, <2>2, <3>4 DEF Asleep, Sleepers
      <4>2. Interval * (n + 1) >= Interval
        BY <1>i, <3>1
      <4>3. Interval * (n + 1) \in Nat
        BY <1>i, <3>1
      <4> QED
        BY <1>i, <2>1, <3>4, <4>1, <4>2, <4>3 DEF n
    <3> QED
      BY <3>3, <3>4
  <2> QED
    BY <2>3, <2>4 DEF TightInv
<1>3. CASE ClockTick
  <2>1. /\ pc' = pc /\ nextRequest' = Less(nextRequest)
        /\ \A t \in Threads : wait'[t] = Less(wait[t])
    BY <1>3 DEF ClockTick
  <2>2. \A k \in Nat : Less(k) \in Nat /\ (k > 0 => Less(k) = k - 1) /\ (k = 0 => Less(k) = 0)
    BY DEF Less
  <2>3. Sleepers' \subseteq Sleepers
    BY <1>i, <2>1, <2>2 DEF Sleepers
  <2>4. IsFiniteSet(Sleepers')
    BY <2>3, FS_Subset DEF TightInv
  <2>5. ASSUME NEW x \in Nat
        PROVE nextRequest' <= x + Interval * (Cardinality(Asleep(x)') + 1)
    <3> DEFINE n == Cardinality(Asleep(x + 1))
    <3>1. Asleep(x)' = Asleep(x + 1)
      <4>1. \A t \in Threads : wait'[t] > x <=> wait[t] > x + 1
        BY <1>i, <2>1, <2>2
      <4>2. \A t \in Threads : wait[t] > x + 1 => wait[t] > 0 /\ wait'[t] > 0
        BY <1>i, <2>1, <2>2
      <4> QED
        BY <2>1, <2>3, <4>1, <4>2 DEF Asleep, Sleepers
    <3>2. n \in Nat /\ nextRequest <= (x + 1) + Interval * (n + 1)
      BY <1>c
    <3>3. Interval * (n + 1) \in Nat
      BY <1>i, <3>2
    <3> HIDE DEF n
    <3>4. nextRequest' <= x + Interval * (n + 1)
      BY <1>i, <2>1, <2>2, <3>2, <3>3
    <3> QED
      BY <3>1, <3>4 DEF n
  <2> QED
    BY <2>4, <2>5 DEF TightInv
<1> QED
  BY <1>1, <1>2, <1>3, LineMoves

\* limit_domain hands out the instants of one host in a line without a gap: threads that sleep for
\* one wake MIN_DOMAIN_INTERVAL_SECONDS apart, and nobody sleeps longer than those ahead of him
\* need, for any number of threads and through any failures of Redis.
THEOREM LineTight == ScraperSpec => []LineIsTight
<1>1. ScraperInit => AgeInv /\ SpacingInv /\ TightInv
  <2> SUFFICES ASSUME ScraperInit PROVE TightInv
    BY ScraperAssumption DEF ScraperInit, AgeInv, Entries, Absent, Horizon, Steps,
       SpacingInv, Sleepers
  <2>1. Sleepers = {} /\ \A x \in Nat : Asleep(x) = {}
    BY DEF ScraperInit, Sleepers, Asleep
  <2>2. IsFiniteSet({}) /\ Cardinality({}) = 0
    BY FS_EmptySet
  <2>3. nextRequest = 0 /\ Interval \in Nat
    BY ScraperAssumption DEF ScraperInit
  <2> QED
    BY <2>1, <2>2, <2>3 DEF TightInv
<1>2. AgeInv /\ [ScraperNext]_scraperVars => AgeInv'
  BY AgeStep
<1>3. AgeInv /\ SpacingInv /\ [ScraperNext]_scraperVars => SpacingInv'
  BY SpacingStep
<1>4. AgeInv /\ SpacingInv /\ TightInv /\ [ScraperNext]_scraperVars => TightInv'
  BY TightStep
<1>5. SpacingInv /\ TightInv => LineIsTight
  <2> SUFFICES ASSUME SpacingInv, TightInv PROVE LineIsTight
    OBVIOUS
  <2>1. Asleep(0) = Sleepers
    BY DEF Asleep, Sleepers
  <2>2. nextRequest <= 0 + Interval * (Cardinality(Sleepers) + 1)
    BY <2>1 DEF TightInv
  <2>3. Cardinality(Sleepers) \in Nat /\ Interval \in Nat
    BY FS_CardinalityType, ScraperAssumption DEF TightInv
  <2>4. nextRequest <= Interval * (Cardinality(Sleepers) + 1)
    BY <2>2, <2>3
  <2> QED
    BY <2>4 DEF SpacingInv, LineIsTight
<1> QED
  BY <1>1, <1>2, <1>3, <1>4, <1>5, PTL DEF ScraperSpec

=============================================================================
