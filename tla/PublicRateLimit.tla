-------------------------- MODULE PublicRateLimit --------------------------
(***************************************************************************)
(* The limiter in front of the public intake routes                        *)
(* (apps/api/src/modules/intake-forms/public-rate-limit.service.ts), for   *)
(* one key: a scope, a client address and a form or session token.         *)
(*                                                                         *)
(* Counting is shared in Redis and falls back to a window per API process  *)
(* when Redis fails.  Expiry instants are kept as what is left of them, so *)
(* that time can pass for ever in finitely many states.                    *)
(***************************************************************************)
EXTENDS Naturals, FiniteSets

CONSTANTS Requests,      \* requests that can be in progress at once
          Processes,     \* API processes
          Nowhere,       \* the process of no request
          Limit,         \* assertAllowed's limit
          Window,        \* assertAllowed's windowSeconds, in ticks of the clock
          MaxOutages,    \* bound: times Redis becomes unreachable
          MaxLost,       \* bound: commands of a reachable Redis that lose a message
          MaxRestarts    \* bound: restarts of API processes

ASSUME LimitAssumption ==
  /\ Limit \in Nat \ {0} /\ Window \in Nat \ {0}
  /\ Nowhere \notin Processes /\ IsFiniteSet(Requests)
  /\ MaxOutages \in Nat /\ MaxLost \in Nat /\ MaxRestarts \in Nat

VARIABLES
  count,     \* the value of the Redis key, 0 when there is none
  ttl,       \* ticks until the key expires, NoTtl when it has no expiry
  reachable, \* Redis answers
  local,     \* local[p]: localCounters of process p
  stage,     \* stage[r]: the next step of request r
  at,        \* at[r]: the process that serves r, Nowhere when r is not in progress
  seen,      \* seen[r]: the count that INCR returned to r
  current,   \* requests whose INCR went to the key that is there now
  granted,   \* requests that Redis admitted since the key came to be
  lastAnswer,   \* what the client was told last: "none", "admitted" or "refused"
  outages, lost, restarts   \* used up so far of the bounds

limitRedis == <<count, ttl, reachable>>
requestVars == <<stage, at, seen, current>>
limitFaults == <<outages, lost, restarts>>
limitVars == <<limitRedis, local, requestVars, granted, lastAnswer, limitFaults>>

NoTtl == Window + 1
\* INCR goes on counting; above Limit + 1 the code cannot tell one value from another.
Saturated(n) == IF n > Limit + 1 THEN Limit + 1 ELSE n
Stages == {"idle", "counting", "expiring", "deciding", "falling back"}
Counters == [count : 0 .. Limit + 1, left : 0 .. Window]
NoCounter == [count |-> 0, left |-> 0]

LimitInit ==
  /\ count = 0 /\ ttl = NoTtl /\ reachable = TRUE
  /\ local = [p \in Processes |-> NoCounter]
  /\ stage = [r \in Requests |-> "idle"]
  /\ at = [r \in Requests |-> Nowhere]
  /\ seen = [r \in Requests |-> 0]
  /\ current = {} /\ granted = 0 /\ lastAnswer = "none"
  /\ outages = 0 /\ lost = 0 /\ restarts = 0

Proceed(r, s) == stage' = [stage EXCEPT ![r] = s]
Leave(S) ==
  /\ stage' = [r \in Requests |-> IF r \in S THEN "idle" ELSE stage[r]]
  /\ at' = [r \in Requests |-> IF r \in S THEN Nowhere ELSE at[r]]
  /\ seen' = [r \in Requests |-> IF r \in S THEN 0 ELSE seen[r]]
Tell(r, answer) == Leave({r}) /\ lastAnswer' = answer

-----------------------------------------------------------------------------
(* Redis.  The client is configured to send a command again once: a command *)
(* can take effect twice, and can fail after it took effect.                *)

Outcomes ==
  {o \in [applied : 0 .. 2, answered : BOOLEAN, faults : 0 .. 1] :
     IF reachable
     THEN \/ o = [applied |-> 1, answered |-> TRUE, faults |-> 0]
          \/ /\ lost < MaxLost /\ o.faults = 1
             /\ o.answered => o.applied > 0
     ELSE o = [applied |-> 0, answered |-> FALSE, faults |-> 0]}

\* A request reaches assertAllowed.
Arrive(r, p) ==
  /\ stage[r] = "idle"
  /\ Proceed(r, "counting")
  /\ at' = [at EXCEPT ![r] = p]
  /\ UNCHANGED <<limitRedis, local, seen, current, granted, lastAnswer, limitFaults>>

\* Faulty variant: the count compared with the limit is the one before this request.
IncrementReturnsPrevious(r) ==
  /\ stage[r] = "counting"
  /\ \E o \in Outcomes :
       /\ count' = Saturated(count + o.applied)
       /\ current' = IF o.answered THEN current \cup {r} ELSE current
       /\ seen' = [seen EXCEPT ![r] = IF o.answered THEN count ELSE 0]
       /\ Proceed(r, IF o.answered THEN "expiring" ELSE "falling back")
       /\ lost' = lost + o.faults
  /\ UNCHANGED <<ttl, reachable, local, at, granted, lastAnswer, outages, restarts>>

\* INCR creates the key without an expiry when there is none.
Increment(r) ==
  /\ stage[r] = "counting"
  /\ \E o \in Outcomes :
       /\ count' = Saturated(count + o.applied)
       /\ current' = IF o.answered THEN current \cup {r} ELSE current
       /\ seen' = [seen EXCEPT ![r] = IF o.answered THEN count' ELSE 0]
       /\ Proceed(r, IF o.answered THEN "expiring" ELSE "falling back")
       /\ lost' = lost + o.faults
  /\ UNCHANGED <<ttl, reachable, local, at, granted, lastAnswer, outages, restarts>>

\* Faulty variant: every request starts the window again.
ExpireAlways(r) ==
  /\ stage[r] = "expiring"
  /\ \E o \in Outcomes :
       /\ ttl' = IF o.applied > 0 /\ count > 0 THEN Window ELSE ttl
       /\ Proceed(r, IF o.answered THEN "deciding" ELSE "falling back")
       /\ lost' = lost + o.faults
  /\ UNCHANGED <<count, reachable, local, at, seen, current, granted, lastAnswer, outages, restarts>>

\* EXPIRE key windowSeconds NX: only a key that has no expiry gets one.
Expire(r) ==
  /\ stage[r] = "expiring"
  /\ \E o \in Outcomes :
       /\ ttl' = IF o.applied > 0 /\ count > 0 /\ ttl = NoTtl THEN Window ELSE ttl
       /\ Proceed(r, IF o.answered THEN "deciding" ELSE "falling back")
       /\ lost' = lost + o.faults
  /\ UNCHANGED <<count, reachable, local, at, seen, current, granted, lastAnswer, outages, restarts>>

\* Faulty variant: a request that uses the budget up is refused as well.
DecideTooEarly(r) ==
  /\ stage[r] = "deciding"
  /\ Tell(r, IF seen[r] >= Limit THEN "refused" ELSE "admitted")
  /\ granted' = IF r \in current /\ seen[r] < Limit THEN granted + 1 ELSE granted
  /\ current' = current \ {r}
  /\ UNCHANGED <<limitRedis, local, limitFaults>>

\* A breach is thrown as an HttpException, which the catch block passes on.
Decide(r) ==
  /\ stage[r] = "deciding"
  /\ Tell(r, IF seen[r] > Limit THEN "refused" ELSE "admitted")
  /\ granted' = IF r \in current /\ seen[r] <= Limit THEN granted + 1 ELSE granted
  /\ current' = current \ {r}
  /\ UNCHANGED <<limitRedis, local, limitFaults>>

\* Any other error of the two commands counts the request in the process's own window.
FallBack(r) ==
  /\ stage[r] = "falling back"
  /\ LET c == local[at[r]]
         next == IF c.left = 0 THEN [count |-> 1, left |-> Window]
                               ELSE [c EXCEPT !.count = Saturated(@ + 1)]
     IN  /\ local' = [local EXCEPT ![at[r]] = next]
         /\ Tell(r, IF next.count > Limit THEN "refused" ELSE "admitted")
  /\ current' = current \ {r}
  /\ UNCHANGED <<limitRedis, granted, limitFaults>>

-----------------------------------------------------------------------------
(* The clock and the faults. *)

\* A second passes: keys and local counters whose time is up are as good as absent.
LimitTick ==
  /\ \/ ttl = NoTtl /\ UNCHANGED <<count, ttl, current, granted>>
     \/ ttl \in 2 .. Window /\ ttl' = ttl - 1 /\ UNCHANGED <<count, current, granted>>
     \/ ttl = 1 /\ count' = 0 /\ ttl' = NoTtl /\ current' = {} /\ granted' = 0
  /\ local' = [p \in Processes |-> IF local[p].left > 1 THEN [local[p] EXCEPT !.left = @ - 1]
                                                        ELSE NoCounter]
  /\ UNCHANGED <<reachable, stage, at, seen, lastAnswer, limitFaults>>

GoDown ==
  /\ reachable /\ outages < MaxOutages
  /\ reachable' = FALSE /\ outages' = outages + 1
  /\ UNCHANGED <<count, ttl, local, requestVars, granted, lastAnswer, lost, restarts>>

ComeBack ==
  /\ ~reachable /\ reachable' = TRUE
  /\ UNCHANGED <<count, ttl, local, requestVars, granted, lastAnswer, limitFaults>>

\* localCounters live in the process; its requests end without an answer.
Restart(p) ==
  /\ restarts < MaxRestarts /\ restarts' = restarts + 1
  /\ local' = [local EXCEPT ![p] = NoCounter]
  /\ LET gone == {r \in Requests : at[r] = p} IN
       /\ Leave(gone)
       /\ current' = current \ gone
  /\ UNCHANGED <<limitRedis, granted, lastAnswer, outages, lost>>

RequestStep(r) == Increment(r) \/ Expire(r) \/ Decide(r) \/ FallBack(r)
Try == \E r \in Requests, p \in Processes : Arrive(r, p)

LimitNext ==
  \/ Try
  \/ \E r \in Requests : RequestStep(r)
  \/ LimitTick
  \/ GoDown
  \/ ComeBack
  \/ \E p \in Processes : Restart(p)

LimitSpec == LimitInit /\ [][LimitNext]_limitVars

\* Time passes and the handlers' awaits end; nothing forces Redis to come back.
LimitFairness == WF_limitVars(LimitTick) /\ \A r \in Requests : WF_limitVars(RequestStep(r))

-----------------------------------------------------------------------------
(* Properties. *)

\* Counters stay in their ranges, and only a counted key has an expiry.
LimitTypeOK ==
  /\ count \in 0 .. Limit + 1 /\ ttl \in 1 .. NoTtl /\ reachable \in BOOLEAN
  /\ count = 0 => ttl = NoTtl
  /\ local \in [Processes -> Counters]
  /\ stage \in [Requests -> Stages] /\ at \in [Requests -> Processes \cup {Nowhere}]
  /\ seen \in [Requests -> 0 .. Limit + 1]
  /\ current \in SUBSET Requests /\ granted \in 0 .. Limit
  /\ lastAnswer \in {"none", "admitted", "refused"}
  /\ outages \in 0 .. MaxOutages /\ lost \in 0 .. MaxLost /\ restarts \in 0 .. MaxRestarts

\* Requests of the present window that Redis has let through or is about to.
Passing == {r \in current : seen[r] \in 1 .. Limit}
Spent == granted + Cardinality(Passing)

\* However requests of several processes interleave between INCR, EXPIRE and the comparison,
\* and whatever is sent twice, Redis lets at most Limit of them through while one key lives.
WindowBound == granted <= Limit

\* While Redis can be reached, and without a lost message or a restart, nobody is refused too
\* early: each request that the key has counted has been let through, is about to be, or has itself
\* been told that it came too late.  So a refusal means that the budget of this window is spent.
RefusedOnlyWhenSpent ==
  lost = 0 /\ restarts = 0 /\ outages = 0 =>
    \A r \in current : seen[r] > Limit => Spent = Limit

\* A client that keeps trying is not shut out for ever: the key it is counted under goes away
\* although each of its attempts is counted, and whether or not Redis can be reached.
PatientClientAdmitted ==
  LimitFairness /\ WF_limitVars(Try) => (lastAnswer = "refused" ~> lastAnswer = "admitted")
=============================================================================
