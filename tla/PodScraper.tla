------------------------------ MODULE PodScraper ------------------------------
(***************************************************************************)
(* Serving metrics from the pods' own counters: serving/scraper.go, run by *)
(* the loop runServingScraper of cmd/server/main.go.                       *)
(*                                                                         *)
(* A round lists the pods, reads one after the other, adds up the counters *)
(* of those that answered and publishes the difference to the sum of the   *)
(* round before.  Pods serve and restart meanwhile.                        *)
(***************************************************************************)
EXTENDS Naturals, FiniteSets, Functions

CONSTANTS
  Pods,
  Unread,        \* no sum yet: prev is nil
  MaxServed,     \* bound on the requests of a pod, over its restarts
  MaxRestarts,   \* bound on the restarts of a pod
  ScrapeFaults   \* which of "read" may strike

ASSUME ScraperAssumption == IsFiniteSet(Pods) /\ \A list \in SUBSET Pods : Unread # list

VARIABLES
  running,   \* pods in phase Running
  count,     \* e2e_request_latency_seconds_count of each pod
  restarts,  \* restarts of each pod so far
  served,    \* history: requests that each pod has served over its restarts
  mark,      \* history: served when the pod was read in the last round published
  toRead,    \* pods of the list that are still to be read; Unread between rounds
  answered,  \* pods of this round that have been read, with what they answered
  prev,      \* sum of the last round published, and the pods it was made of
  latest     \* the difference published, and what was served in between

sVars == <<running, count, restarts, served, mark, toRead, answered, prev, latest>>

NoRound == [sum |-> Unread, of |-> {}]
Answered == {a.pod : a \in answered}

ScTypeOK ==
  /\ running \subseteq Pods
  /\ count \in [Pods -> 0..MaxServed] /\ served \in [Pods -> 0..MaxServed]
  /\ mark \in [Pods -> 0..MaxServed] /\ restarts \in [Pods -> 0..MaxRestarts]
  /\ toRead = Unread \/ toRead \subseteq Pods
  /\ answered \subseteq [pod : Pods, count : 0..MaxServed, served : 0..MaxServed]
  /\ prev # NoRound => prev.sum \in 0..(MaxServed * Cardinality(Pods)) /\ prev.of \subseteq Pods
  /\ latest.grown \in BOOLEAN /\ latest.gain \in Nat /\ latest.earned \in Nat

ScInit ==
  /\ running = Pods /\ count = [p \in Pods |-> 0]
  /\ served = count /\ mark = count /\ restarts = count
  /\ toRead = Unread /\ answered = {} /\ prev = NoRound
  /\ latest = [gain |-> 0, earned |-> 0, grown |-> FALSE]

--------------------------------------------------------------------------------
Serve(p) ==
  /\ p \in running /\ served[p] < MaxServed
  /\ count' = [count EXCEPT ![p] = @ + 1] /\ served' = [served EXCEPT ![p] = @ + 1]
  /\ UNCHANGED <<running, restarts, mark, toRead, answered, prev, latest>>

\* The process starts again from zero; until it does, the pod is not Running.
PodStops(p) ==
  /\ p \in running /\ restarts[p] < MaxRestarts
  /\ running' = running \ {p} /\ count' = [count EXCEPT ![p] = 0]
  /\ restarts' = [restarts EXCEPT ![p] = @ + 1]
  /\ UNCHANGED <<served, mark, toRead, answered, prev, latest>>

PodRuns(p) ==
  /\ p \notin running /\ running' = running \cup {p}
  /\ UNCHANGED <<count, restarts, served, mark, toRead, answered, prev, latest>>

\* Pods: the vllm pods that run; a list that fails ends the round.
ScrapeBegins ==
  /\ toRead = Unread /\ toRead' = running
  /\ UNCHANGED <<running, count, restarts, served, mark, answered, prev, latest>>

\* ProxyGetPodMetrics and add; a pod that fails is left out of this round.
ReadPod(p) ==
  /\ IF toRead = Unread THEN FALSE ELSE p \in toRead
  /\ toRead' = toRead \ {p}
  /\ \/ p \in running /\ answered' = answered \cup {[pod |-> p, count |-> count[p], served |-> served[p]]}
     \/ (p \notin running \/ "read" \in ScrapeFaults) /\ UNCHANGED answered
  /\ UNCHANGED <<running, count, restarts, served, mark, prev, latest>>

SumOf(field) == SumFunction([p \in Answered |-> (CHOOSE a \in answered : a.pod = p)[field]])

\* Mutant: a sum that has fallen is taken for a counter that was reset.
GainReset(sum) ==
  IF prev.sum = Unread THEN 0 ELSE IF sum < prev.sum THEN sum ELSE sum - prev.sum

\* compute: the first round has no rate and a sum that has fallen has none.
Gain(sum) == IF prev.sum = Unread \/ sum < prev.sum THEN 0 ELSE sum - prev.sum

\* A round without an answer keeps what was published and what it compares with.
Publish ==
  /\ toRead = {} /\ toRead' = Unread /\ answered' = {}
  /\ IF answered = {} THEN UNCHANGED <<mark, prev, latest>>
     ELSE /\ prev' = [sum |-> SumOf("count"), of |-> Answered]
          /\ mark' = [p \in Pods |-> IF p \in Answered THEN (CHOOSE a \in answered : a.pod = p).served ELSE mark[p]]
          /\ latest' = [gain |-> Gain(SumOf("count")),
                        earned |-> SumOf("served") - SumFunction([p \in Answered |-> mark[p]]),
                        grown |-> ~ Answered \subseteq prev.of]
  /\ UNCHANGED <<running, count, restarts, served>>

ScNext ==
  \/ ScrapeBegins \/ Publish
  \/ \E p \in Pods : Serve(p) \/ PodStops(p) \/ PodRuns(p) \/ ReadPod(p)

ScSpec == ScInit /\ [][ScNext]_sVars

--------------------------------------------------------------------------------
\* The rate that is published never counts more than the pods that were read have
\* served since the rounds that read them last, through restarts, rounds without
\* an answer and requests served between two reads of one round; provided every
\* one of them was read in the round before as well.
QpsIsEarned == ~latest.grown => latest.gain <= latest.earned
================================================================================
