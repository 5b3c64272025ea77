----------------------------- MODULE ServiceGraph -----------------------------
(***************************************************************************)
(* The call graph of obs/servicegraph.go: every span that ends adds to the *)
(* edge it crossed, and each edge keeps one bucket a second for the last   *)
(* graphWindowSeconds of them, emptied lazily.                             *)
(*                                                                         *)
(* OnEnd and Snapshot read the clock before they take the mutex, so spans  *)
(* and snapshots reach an edge out of order.                               *)
(***************************************************************************)
EXTENDS Naturals, FiniteSets, Functions

CONSTANTS
  Links,       \* edges of the graph
  Window,      \* graphWindowSeconds
  LastSecond,  \* bound on the clock
  MaxWait,     \* seconds that a span or a snapshot may wait for the mutex
  MaxSpans     \* bound on the spans

ASSUME ServiceGraphAssumption == Window \in Nat \ {0} /\ MaxWait \in 0..(Window - 1)

VARIABLES
  second,    \* the clock
  waiting,   \* spans that have ended and are not counted: edge, second, error, number
  looking,   \* the second of a snapshot that waits, 0 when none does
  reqs,      \* rollingRate.reqs of each edge
  errs,      \* rollingRate.errs
  lastSec,   \* rollingRate.lastSec
  counted    \* history: spans counted so far

gVars == <<second, waiting, looking, reqs, errs, lastSec, counted>>

Span == [link : Links, sec : 1..LastSecond, bad : BOOLEAN, n : 1..MaxSpans]

SgTypeOK ==
  /\ second \in 1..LastSecond
  /\ waiting \subseteq Span /\ counted \subseteq Span
  /\ looking \in 0..LastSecond
  /\ reqs \in [Links -> [0..(Window - 1) -> 0..MaxSpans]]
  /\ errs \in [Links -> [0..(Window - 1) -> 0..MaxSpans]]
  /\ lastSec \in [Links -> 0..LastSecond]

Zero == [i \in 0..(Window - 1) |-> 0]

SgInit ==
  /\ second = 1 /\ waiting = {} /\ looking = 0 /\ counted = {}
  /\ reqs = [e \in Links |-> Zero] /\ errs = reqs
  /\ lastSec = [e \in Links |-> 0]

--------------------------------------------------------------------------------
Spans == waiting \cup counted

\* The second that is next must not leave anything waiting for too long.
SgTick ==
  /\ second < LastSecond
  /\ \A s \in waiting : s.sec + MaxWait > second
  /\ looking # 0 => looking + MaxWait > second
  /\ second' = second + 1
  /\ UNCHANGED <<waiting, looking, reqs, errs, lastSec, counted>>

\* OnEnd: the clock is read.
SpanEnds(e, bad) ==
  /\ Cardinality(Spans) < MaxSpans
  /\ waiting' = waiting \cup {[link |-> e, sec |-> second, bad |-> bad, n |-> Cardinality(Spans) + 1]}
  /\ UNCHANGED <<second, looking, reqs, errs, lastSec, counted>>

\* Mutant: the second that has come keeps what its bucket held.
StaleOneShort(e, sec) ==
  IF lastSec[e] = 0 \/ sec <= lastSec[e] THEN {}
  ELSE IF sec - lastSec[e] >= Window THEN 0..(Window - 1)
  ELSE {s % Window : s \in (lastSec[e] + 1)..(sec - 1)}

\* advance: the buckets of the seconds that were skipped, and of this one.
Stale(e, sec) ==
  IF lastSec[e] = 0 \/ sec <= lastSec[e] THEN {}
  ELSE IF sec - lastSec[e] >= Window THEN 0..(Window - 1)
  ELSE {s % Window : s \in (lastSec[e] + 1)..sec}

Emptied(bucket, e, sec) == [i \in 0..(Window - 1) |-> IF i \in Stale(e, sec) THEN 0 ELSE bucket[i]]

\* One of the buckets counts more.
Counts(buckets, i, more) == [buckets EXCEPT ![i] = @ + more]

\* A second of the past leaves the ring as it is.
Latest(e, sec) == IF sec > lastSec[e] THEN sec ELSE lastSec[e]

\* record and observe, under the mutex.
Record(s) ==
  LET e == s.link IN
    /\ s \in waiting
    /\ reqs' = [reqs EXCEPT ![e] = Counts(Emptied(@, e, s.sec), s.sec % Window, 1)]
    /\ errs' = [errs EXCEPT ![e] = Counts(Emptied(@, e, s.sec), s.sec % Window, IF s.bad THEN 1 ELSE 0)]
    /\ lastSec' = [lastSec EXCEPT ![e] = Latest(e, s.sec)]
    /\ waiting' = waiting \ {s} /\ counted' = counted \cup {s}
    /\ UNCHANGED <<second, looking>>

SnapshotBegins ==
  /\ looking = 0 /\ looking' = second
  /\ UNCHANGED <<second, waiting, reqs, errs, lastSec, counted>>

\* Snapshot: every edge that is known is advanced and summed.
Snapshot ==
  LET known == {s.link : s \in counted} IN
    /\ looking # 0
    /\ reqs' = [e \in Links |-> IF e \in known THEN Emptied(reqs[e], e, looking) ELSE reqs[e]]
    /\ errs' = [e \in Links |-> IF e \in known THEN Emptied(errs[e], e, looking) ELSE errs[e]]
    /\ lastSec' = [e \in Links |-> IF e \in known THEN Latest(e, looking) ELSE lastSec[e]]
    /\ looking' = 0
    /\ UNCHANGED <<second, waiting, counted>>

SgNext ==
  \/ SgTick \/ SnapshotBegins \/ Snapshot
  \/ \E e \in Links, bad \in BOOLEAN : SpanEnds(e, bad)
  \/ \E s \in waiting : Record(s)

SgSpec == SgInit /\ [][SgNext]_gVars

--------------------------------------------------------------------------------
\* sum, of one edge.
Total(bucket) == SumFunction(bucket)

\* Whatever order spans and snapshots reach an edge in and however long it was
\* left alone, its ring holds the spans of the window that ends with the latest
\* second it has heard of, none of the round before and none of them lost.
WindowIsExact ==
  \A e \in Links :
    LET recent == {s \in counted : s.link = e /\ s.sec + Window > lastSec[e]} IN
      /\ Total(reqs[e]) = Cardinality(recent)
      /\ Total(errs[e]) = Cardinality({s \in recent : s.bad})
================================================================================
