------------------------------ MODULE TokenBucket ------------------------------
(***************************************************************************)
(* The token bucket of one client: the script of cache/redis.go and its    *)
(* caller.  The caller takes the time, then runs the script; scripts run   *)
(* one at a time, in an order that need not be that of the times they      *)
(* carry.  A caller that has no answer lets its request through.  Time is  *)
(* counted in ticks, tokens in parts of one: each tick adds one part and a *)
(* request costs Cost of them.                                             *)
(***************************************************************************)
EXTENDS Integers, FiniteSets

CONSTANTS
  Cost,        \* ticks that make one token: 1 / RATE_LIMIT_RPS
  Burst,       \* RATE_LIMIT_BURST
  Hits,        \* requests of the client
  MaxDelay,    \* ticks within which a script runs or its caller gives up
  MaxTime,     \* bound on the clock
  BucketFaults \* what may happen: "redis", it fails, loses an answer or starts again

ASSUME BucketAssumption == Cost \in Nat \ {0} /\ Burst \in Nat \ {0} /\ MaxTime \in Nat

Never == -1

VARIABLES
  clock,
  stamp,       \* time each request carries, Never before it is taken
  ran,         \* requests that Redis has answered
  admitted,    \* requests that Redis has let through
  open,        \* requests let through without an answer of Redis: fail-open
  tokens, ts,  \* the hash in Redis; ts is Never when there is none
  ttl,         \* ticks until Redis drops it
  born,        \* when Redis has last started; it keeps nothing on a disk
  reordered    \* history: since then a script ran after one with a later time

kVars == <<clock, stamp, ran, admitted, open, tokens, ts, ttl, born, reordered>>

KTypeOK ==
  /\ clock \in 0..MaxTime
  /\ stamp \in [Hits -> Never..MaxTime]
  /\ admitted \subseteq ran /\ ran \subseteq Hits /\ open \subseteq Hits \ ran
  /\ tokens \in 0..(Burst * Cost)
  /\ ts \in Never..clock
  /\ born \in Never..clock
  /\ reordered \in BOOLEAN

KInit ==
  /\ clock = 0 /\ stamp = [h \in Hits |-> Never]
  /\ ran = {} /\ admitted = {} /\ open = {} /\ born = Never
  /\ tokens = 0 /\ ts = Never /\ ttl = 0 /\ reordered = FALSE

\* Redis drops the hash when its time to live has passed.
Tick ==
  /\ clock < MaxTime
  /\ \A h \in Hits \ (ran \cup open) : stamp[h] # Never => clock - stamp[h] < MaxDelay
  /\ clock' = clock + 1
  /\ ttl' = IF ttl > 0 THEN ttl - 1 ELSE 0
  /\ ts' = IF ts # Never /\ ttl = 0 THEN Never ELSE ts
  /\ UNCHANGED <<stamp, ran, admitted, open, tokens, born, reordered>>

\* Allow: the caller reads its clock.
Arrive(h) ==
  /\ stamp[h] = Never
  /\ stamp' = [stamp EXCEPT ![h] = clock]
  /\ UNCHANGED <<clock, ran, admitted, open, tokens, ts, ttl, born, reordered>>

Least(a, b) == IF a < b THEN a ELSE b
Most(a, b)  == IF a < b THEN b ELSE a

\* Mutant: the bucket is not capped.
FilledUncapped(h) ==
  IF ts = Never THEN Burst * Cost ELSE tokens + Most(0, stamp[h] - ts)

\* The bucket as the script finds it at the time it is given.
Filled(h) ==
  IF ts = Never THEN Burst * Cost
  ELSE Least(Burst * Cost, tokens + Most(0, stamp[h] - ts))

\* The script: fill, take one token if there is one, keep the time.
Script(h) ==
  /\ tokens' = IF Filled(h) >= Cost THEN Filled(h) - Cost ELSE Filled(h)
  /\ ts' = stamp[h]
  /\ ttl' = Burst * Cost + 1
  /\ reordered' = (reordered \/ ts > stamp[h])
  /\ UNCHANGED <<clock, stamp, born>>

\* The script runs and Allow answers what it has found.
RunScript(h) ==
  /\ stamp[h] # Never /\ h \notin ran \cup open
  /\ ran' = ran \cup {h}
  /\ admitted' = IF Filled(h) >= Cost THEN admitted \cup {h} ELSE admitted
  /\ Script(h)
  /\ UNCHANGED open

\* The answer is lost.  The client of Redis sends the script again; one that was
\* given up, or sent twice, still takes a token.
LoseAnswer(h) ==
  /\ "redis" \in BucketFaults
  /\ stamp[h] # Never /\ clock - stamp[h] <= MaxDelay
  /\ Script(h)
  /\ UNCHANGED <<ran, admitted, open>>

\* Allow has an error in place of an answer and lets the request through.
GiveUp(h) ==
  /\ "redis" \in BucketFaults
  /\ stamp[h] # Never /\ h \notin ran \cup open
  /\ open' = open \cup {h}
  /\ UNCHANGED <<clock, stamp, ran, admitted, tokens, ts, ttl, born, reordered>>

\* Redis starts again, with no buckets.
RedisRestarts ==
  /\ "redis" \in BucketFaults
  /\ born' = clock /\ ts' = Never /\ tokens' = 0 /\ ttl' = 0 /\ reordered' = FALSE
  /\ UNCHANGED <<clock, stamp, ran, admitted, open>>

KNext ==
  \/ Tick \/ RedisRestarts
  \/ \E h \in Hits : Arrive(h) \/ RunScript(h) \/ LoseAnswer(h) \/ GiveUp(h)

KSpec == KInit /\ [][KNext]_kVars

\* In any stretch of time since Redis has started, a client gets a burst and what
\* the rate adds, and beyond that only requests that Redis did not answer for:
\* however long it has been idle, whenever Redis forgets it and however often a
\* script is sent again.  Times that reach Redis in the wrong order may be
\* credited twice.
RateIsBounded ==
  ~reordered =>
    \A from, to \in 0..clock : born < from /\ from <= to =>
      LET through == {h \in admitted \cup open : stamp[h] \in from..to}
      IN Cardinality(through) * Cost <= Burst * Cost + (to - from) + Cardinality(through \cap open) * Cost
================================================================================
