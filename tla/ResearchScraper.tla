-------------------------- MODULE ResearchScraper --------------------------
(***************************************************************************)
(* The extraction service of apps/research-scraper/main.py: one thread per *)
(* POST /extract, each working through the candidates of its request.      *)
(* Threads share the text cache, the limiter and the fetch slots of their  *)
(* process, and share a cache and a limiter in Redis with other processes. *)
(* The model is of the URLs of one host: hosts have limiters of their own, *)
(* and a thread that fetches from another host is one more thread that     *)
(* takes a slot.                                                           *)
(*                                                                         *)
(* Instants are kept as what is left until them.  robots_allowed may give  *)
(* any answer, cached or not, each time it is asked, or none: its read has *)
(* no timeout.                                                             *)
(***************************************************************************)
EXTENDS Integers, FiniteSets

CONSTANTS Threads,        \* request threads of the process
          Urls,           \* candidate URLs in canonical form, all of one host
          NoUrl,          \* the thread works on no candidate
          Interval,       \* MIN_DOMAIN_INTERVAL_SECONDS
          RedisInterval,  \* seconds the rate key of Redis lives
          CacheTtl,       \* CACHE_TTL_SECONDS
          Slots,          \* permits of fetch_slots
          MaxUrls,        \* MAX_URLS
          MaxLookup,      \* bound: time from reading the clock to testing the process cache
          MaxFailures     \* bound: times Redis stops answering, and lost or broken answers

ASSUME ScraperAssumption ==
  /\ NoUrl \notin Urls
  /\ Interval \in Nat \ {0} /\ RedisInterval \in Nat \ {0} /\ CacheTtl \in Nat \ {0}
  /\ Slots \in Nat \ {0} /\ MaxUrls \in Nat \ {0}
  /\ MaxLookup \in Nat /\ MaxFailures \in Nat

VARIABLES
  answering,  \* Redis is configured and answers
  rateKey,    \* time the host's rate key has left, 0 when it is absent
  shared,     \* shared[u]: time the entry of u in Redis has left, 0 when there is none
  cache,      \* cache[u]: the entry of u in the process, Absent once no reader can hit it
  nextRequest,  \* domain_next_request of the host - now, 0 when it is past
  free,       \* permits left in fetch_slots
  pc,         \* pc[t]: the next step of thread t
  todo,       \* todo[t]: candidates of the request t has still to take up
  url,        \* url[t]: the candidate at hand
  since,      \* since[t]: time since t read the clock for it, up to Horizon
  wait,       \* wait[t]: time t has still to sleep
  textAge,    \* textAge[t]: time since t fetched the text it holds, up to Horizon
  failures    \* used up so far of the bound

storeVars  == <<cache, nextRequest, free>>
scraperRedis  == <<answering, rateKey, shared>>
threadVars == <<pc, todo, url, since, wait, textAge>>
scraperVars == <<scraperRedis, storeVars, threadVars, failures>>

Steps == {"idle", "next", "asking", "looking", "policy", "slot", "retry", "sleeping", "queued",
          "fetching", "checking", "sharing"}
\* The longest duration that matters.  A reader compares the expiry of an entry with a clock it
\* has read before, so an entry may be hit for MaxLookup after it expired.
Horizon == CacheTtl + MaxLookup
Entries == [left : -MaxLookup .. CacheTtl, age : 0 .. Horizon]
Absent == [left |-> -MaxLookup, age |-> 0]

\* A duration that stops counting at the longest one that matters.
Older(n) == IF n < Horizon THEN n + 1 ELSE n
Less(n) == IF n > 0 THEN n - 1 ELSE 0

ScraperInit ==
  /\ answering \in BOOLEAN /\ rateKey = 0 /\ shared = [u \in Urls |-> 0]
  /\ cache = [u \in Urls |-> Absent] /\ nextRequest = 0 /\ free = Slots
  /\ pc = [t \in Threads |-> "idle"] /\ todo = [t \in Threads |-> 0]
  /\ url = [t \in Threads |-> NoUrl]
  /\ since = [t \in Threads |-> 0] /\ wait = [t \in Threads |-> 0]
  /\ textAge = [t \in Threads |-> 0]
  /\ failures = 0

At(t, step) == pc' = [pc EXCEPT ![t] = step]
\* The candidate is done with, its source appended to sources or to skipped.
Done(t) ==
  /\ At(t, "next")
  /\ url' = [url EXCEPT ![t] = NoUrl]
  /\ since' = [since EXCEPT ![t] = 0]
  /\ textAge' = [textAge EXCEPT ![t] = 0]

-----------------------------------------------------------------------------
(* One request. *)

\* do_POST with 1 to MAX_URLS candidates.  Any other body is answered at once.
Post(t) ==
  /\ pc[t] = "idle"
  /\ \E n \in 1 .. MaxUrls : todo' = [todo EXCEPT ![t] = n]
  /\ At(t, "next")
  /\ UNCHANGED <<scraperRedis, storeVars, url, since, wait, textAge, failures>>

\* The loop is over and the reply sent.
Reply(t) ==
  /\ pc[t] = "next" /\ todo[t] = 0
  /\ At(t, "idle")
  /\ UNCHANGED <<scraperRedis, storeVars, todo, url, since, wait, textAge, failures>>

\* extract_source: an invalid candidate is skipped; for a valid one the clock is read.
TakeUp(t) ==
  /\ pc[t] = "next" /\ todo[t] > 0
  /\ todo' = [todo EXCEPT ![t] = @ - 1]
  /\ \/ UNCHANGED <<pc, url>>
     \/ \E u \in Urls : At(t, "asking") /\ url' = [url EXCEPT ![t] = u]
  /\ UNCHANGED <<scraperRedis, storeVars, since, wait, textAge, failures>>

\* GET cache_key, with a timeout.  An error of the kinds that are caught counts as a miss, any
\* other skips the candidate.
AskShared(t) ==
  /\ pc[t] = "asking"
  /\ \/ answering /\ shared[url[t]] > 0 /\ Done(t) /\ UNCHANGED failures
     \/ /\ answering => shared[url[t]] = 0
        /\ At(t, "looking") /\ UNCHANGED <<url, since, textAge, failures>>
     \/ /\ answering /\ failures < MaxFailures /\ failures' = failures + 1
        /\ \/ At(t, "looking") /\ UNCHANGED <<url, since, textAge>>
           \/ Done(t)
  /\ UNCHANGED <<scraperRedis, storeVars, todo, wait>>

\* The expiry in the entry is compared with the clock as it was read before the GET.
ProcessHit(t) == cache[url[t]].left + since[t] > 0

LookLocally(t) ==
  /\ pc[t] = "looking"
  /\ \/ ProcessHit(t) /\ Done(t)
     \/ ~ProcessHit(t) /\ At(t, "policy") /\ UNCHANGED <<url, since, textAge>>
  /\ UNCHANGED <<scraperRedis, storeVars, todo, wait, failures>>

\* robots_allowed: disallowed, or allowed for want of an answer or by one.
AskPolicy(t) ==
  /\ pc[t] = "policy"
  /\ \/ Done(t)
     \/ At(t, "slot") /\ UNCHANGED <<url, since, textAge>>
  /\ UNCHANGED <<scraperRedis, storeVars, todo, wait, failures>>

\* Faulty variant: the next instant is counted from now, not from the last one promised.
ReserveSlotFromNow(t) ==
  /\ wait' = [wait EXCEPT ![t] = nextRequest]
  /\ nextRequest' = Interval
  /\ At(t, "sleeping")

\* Under policy_lock: the reserved instant is this thread's, and the next is Interval later.
ReserveSlot(t) ==
  /\ wait' = [wait EXCEPT ![t] = nextRequest]
  /\ nextRequest' = nextRequest + Interval
  /\ At(t, "sleeping")

\* SET key NX EX 2, and a second of sleep when the key is there.  A RuntimeError, also when the
\* key has been set, leaves the loop for the limiter of the process; any other error skips the
\* candidate.
TakeSlot(t) ==
  /\ pc[t] = "slot"
  /\ \/ /\ answering /\ rateKey = 0 /\ rateKey' = RedisInterval
        /\ At(t, "queued") /\ UNCHANGED <<wait, nextRequest, failures, url, since, textAge>>
     \/ /\ answering /\ rateKey > 0
        /\ At(t, "retry") /\ wait' = [wait EXCEPT ![t] = Interval]
        /\ UNCHANGED <<rateKey, nextRequest, failures, url, since, textAge>>
     \/ /\ answering /\ failures < MaxFailures /\ failures' = failures + 1
        /\ \/ UNCHANGED rateKey
           \/ rateKey = 0 /\ rateKey' = RedisInterval
        /\ \/ ReserveSlot(t) /\ UNCHANGED <<url, since, textAge>>
           \/ Done(t) /\ UNCHANGED <<wait, nextRequest>>
     \/ ~answering /\ ReserveSlot(t) /\ UNCHANGED <<rateKey, failures, url, since, textAge>>
  /\ UNCHANGED <<answering, shared, cache, free, todo>>

TryAgain(t) ==
  /\ pc[t] = "retry" /\ wait[t] = 0
  /\ At(t, "slot")
  /\ UNCHANGED <<scraperRedis, storeVars, todo, url, since, wait, textAge, failures>>

WakeUp(t) ==
  /\ pc[t] = "sleeping" /\ wait[t] = 0
  /\ At(t, "queued")
  /\ UNCHANGED <<scraperRedis, storeVars, todo, url, since, wait, textAge, failures>>

Acquire(t) ==
  /\ pc[t] = "queued" /\ free > 0
  /\ free' = free - 1
  /\ At(t, "fetching")
  /\ UNCHANGED <<scraperRedis, cache, nextRequest, todo, url, since, wait, textAge, failures>>

\* Faulty variant: a fetch that throws keeps its permit.
FetchKeepsPermit(t) ==
  /\ pc[t] = "fetching"
  /\ \/ /\ free' = free + 1
        /\ At(t, "checking") /\ UNCHANGED <<url, since, textAge>>
     \/ Done(t) /\ UNCHANGED free
  /\ UNCHANGED <<scraperRedis, cache, nextRequest, todo, wait, failures>>

\* Fetcher.get returns a page or throws; the with block gives the permit back either way.
Fetch(t) ==
  /\ pc[t] = "fetching"
  /\ free' = free + 1
  /\ \/ At(t, "checking") /\ UNCHANGED <<url, since, textAge>>
     \/ Done(t)
  /\ UNCHANGED <<scraperRedis, cache, nextRequest, todo, wait, failures>>

\* Faulty variant: the entry's time counts from the write.
StoreFromNow(t) ==
  /\ pc[t] = "checking"
  /\ \/ Done(t) /\ UNCHANGED cache
     \/ /\ cache' = [cache EXCEPT ![url[t]] = [left |-> CacheTtl, age |-> textAge[t]]]
        /\ At(t, "sharing") /\ UNCHANGED <<url, since, textAge>>
  /\ UNCHANGED <<scraperRedis, nextRequest, free, todo, wait, failures>>

\* The URL the page was served from is public and allowed by its robots policy, or the
\* candidate is skipped.  The entry's time counts from the start of extract_source.
Store(t) ==
  /\ pc[t] = "checking"
  /\ \/ Done(t) /\ UNCHANGED cache
     \/ /\ cache' = [cache EXCEPT ![url[t]] = [left |-> CacheTtl - since[t], age |-> textAge[t]]]
        /\ At(t, "sharing") /\ UNCHANGED <<url, since, textAge>>
  /\ UNCHANGED <<scraperRedis, nextRequest, free, todo, wait, failures>>

\* SET cache_key EX 300; a failure leaves the process cache alone.
Share(t) ==
  /\ pc[t] = "sharing"
  /\ \/ /\ answering
        /\ shared' = [shared EXCEPT ![url[t]] = CacheTtl]
        /\ UNCHANGED failures
     \/ ~answering /\ UNCHANGED <<shared, failures>>
     \/ answering /\ failures < MaxFailures /\ failures' = failures + 1 /\ UNCHANGED shared
  /\ Done(t)
  /\ UNCHANGED <<answering, rateKey, storeVars, todo, wait>>

-----------------------------------------------------------------------------
(* Redis, its other clients, and the clock. *)

\* Another process takes the host's rate key, or leaves a text it has just fetched.
Elsewhere ==
  /\ answering
  /\ \/ rateKey = 0 /\ rateKey' = RedisInterval /\ UNCHANGED shared
     \/ /\ \E u \in Urls : shared' = [shared EXCEPT ![u] = CacheTtl]
        /\ UNCHANGED rateKey
  /\ UNCHANGED <<answering, storeVars, threadVars, failures>>

RedisFails ==
  /\ answering /\ failures < MaxFailures
  /\ answering' = FALSE /\ failures' = failures + 1
  /\ UNCHANGED <<rateKey, shared, storeVars, threadVars>>

Passed(entry) ==
  IF entry.left > 1 - MaxLookup THEN [left |-> entry.left - 1, age |-> Older(entry.age)] ELSE Absent

ClockTick ==
  /\ \A t \in Threads : pc[t] \in {"asking", "looking"} => since[t] < MaxLookup
  /\ rateKey' = Less(rateKey) /\ nextRequest' = Less(nextRequest)
  /\ shared' = [u \in Urls |-> Less(shared[u])]
  /\ cache' = [u \in Urls |-> Passed(cache[u])]
  /\ since' = [t \in Threads |-> IF url[t] = NoUrl THEN 0 ELSE Older(since[t])]
  /\ wait' = [t \in Threads |-> Less(wait[t])]
  /\ textAge' = [t \in Threads |-> IF pc[t] \in {"checking", "sharing"}
                                   THEN Older(textAge[t]) ELSE 0]
  /\ UNCHANGED <<answering, free, pc, todo, url, failures>>

\* The steps whose calls return or throw in the end: those to Redis and of the fetch have timeouts.
\* AskPolicy and Store are not among them, since the read of a robots.txt has none.
PromptStep(t) ==
  \/ Reply(t) \/ TakeUp(t) \/ AskShared(t) \/ LookLocally(t) \/ TakeSlot(t) \/ TryAgain(t)
  \/ WakeUp(t) \/ Acquire(t) \/ Fetch(t) \/ Share(t)

ThreadStep(t) == PromptStep(t) \/ AskPolicy(t) \/ Store(t)

ScraperNext ==
  \/ \E t \in Threads : Post(t) \/ ThreadStep(t)
  \/ RedisFails
  \/ Elsewhere
  \/ ClockTick

ScraperSpec == ScraperInit /\ [][ScraperNext]_scraperVars
\* Time passes, and threads run, except where a call of theirs may take for ever.
ScraperFairness == WF_scraperVars(ClockTick) /\ \A t \in Threads : WF_scraperVars(PromptStep(t))

-----------------------------------------------------------------------------
(* Properties. *)

\* Variables stay in their ranges, and a thread has a candidate exactly while it works on one.
ScraperTypeOK ==
  /\ answering \in BOOLEAN /\ rateKey \in 0 .. RedisInterval
  /\ shared \in [Urls -> 0 .. CacheTtl] /\ cache \in [Urls -> Entries]
  /\ nextRequest \in Nat /\ free \in Nat
  /\ pc \in [Threads -> Steps] /\ todo \in [Threads -> 0 .. MaxUrls]
  /\ url \in [Threads -> Urls \cup {NoUrl}]
  /\ \A t \in Threads : url[t] = NoUrl <=> pc[t] \in {"idle", "next"}
  /\ since \in [Threads -> 0 .. Horizon] /\ wait \in [Threads -> Nat]
  /\ textAge \in [Threads -> 0 .. Horizon]
  /\ failures \in 0 .. MaxFailures

Sleepers == {t \in Threads : pc[t] = "sleeping" /\ wait[t] > 0}

\* The process's limiter gives out a line of instants: any two threads that still sleep for
\* the host wake at least Interval apart, the next free instant is at least Interval after the
\* last of them, and the line has no gap, so nobody sleeps for an instant no one is using.
LineIsTight ==
  /\ \A t, s \in Sleepers : t # s =>
       wait[t] + Interval <= wait[s] \/ wait[s] + Interval <= wait[t]
  /\ \A t \in Sleepers : wait[t] + Interval <= nextRequest
  /\ nextRequest <= Interval * (Cardinality(Sleepers) + 1)

\* A hit of the process cache was fetched less than CACHE_TTL_SECONDS before its reader read the
\* clock, however long the thread that stored it waited for the policy, the host, a permit and the
\* page.  What the reader then waits for Redis comes on top, since it compares with the old clock.
HitsAreFresh ==
  \A t \in Threads : pc[t] = "looking" /\ ProcessHit(t) => cache[url[t]].age < CacheTtl + since[t]

\* No new request, here or at the other processes.
NoTraffic == ~Elsewhere /\ \A t \in Threads : ~Post(t)

\* Once the traffic ends every request is answered, whatever has failed, or its thread hangs in the
\* read of a robots.txt: no permit is lost, nobody waits for the host for ever, and a thread that
\* hangs holds up no other.  Neither the key in Redis nor the permits are given out in turn, so
\* while others keep taking them a thread may wait for ever: hence the premise.
EveryRequestAnswered ==
  ScraperFairness /\ <>[][NoTraffic]_scraperVars =>
    \A t \in Threads : []<>(pc[t] = "idle") \/ <>[](pc[t] \in {"policy", "checking"})
=============================================================================
