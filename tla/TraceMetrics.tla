----------------------------- MODULE TraceMetrics -----------------------------
(***************************************************************************)
(* What the control plane makes of request_traces: metrics/service.go and  *)
(* metrics/percentile.go over the newest rows of the window, and the rules *)
(* on error rate and latency that httpx/alerts.go puts to the result.      *)
(*                                                                         *)
(* A row names no endpoint when the request did not come to one.  The      *)
(* aggregates are of sets of rows, each row known by its place in the      *)
(* list.  Rates are in percent, quantiles in hundredths of a millisecond.  *)
(***************************************************************************)
EXTENDS Integers, FiniteSets, Sequences

CONSTANTS
  EndpointIds,
  NoEndpoint,            \* endpoint_id is NULL
  Latencies,             \* values of total_ms
  NoLatency,             \* total_ms is NULL
  TraceLimit,            \* LIMIT of Current
  MaxRows,               \* bound on the rows
  RateWarns, RateIsCritical,        \* thresholds on the error rate, in percent
  LatencyWarns, LatencyIsCritical   \* thresholds on the p95 latency

ASSUME TraceMetricsAssumption ==
  /\ TraceLimit \in Nat \ {0} /\ MaxRows \in Nat /\ Latencies \subseteq Nat
  /\ RateWarns \in Nat /\ RateIsCritical \in Nat /\ RateWarns <= RateIsCritical
  /\ LatencyWarns \in Nat /\ LatencyIsCritical \in Nat /\ LatencyWarns <= LatencyIsCritical

VARIABLES
  traces,    \* rows of the last ten minutes, the newest first
  inserted   \* rows inserted so far

mtVars == <<traces, inserted>>

TraceRow == [endpoint : EndpointIds \cup {NoEndpoint}, ok : BOOLEAN, total : Latencies \cup {NoLatency}]

MtTypeOK == traces \in Seq(TraceRow) /\ inserted \in 0..MaxRows

MtInit == traces = <<>> /\ inserted = 0

--------------------------------------------------------------------------------
\* recordRequestTrace and appendBenchmarkTrace.
TraceArrives(r) ==
  /\ inserted < MaxRows /\ inserted' = inserted + 1
  /\ traces' = <<r>> \o traces

\* The oldest row leaves the window.
TraceExpires ==
  /\ traces # <<>> /\ traces' = SubSeq(traces, 1, Len(traces) - 1)
  /\ UNCHANGED inserted

MtNext == TraceExpires \/ \E r \in TraceRow : TraceArrives(r)

MtSpec == MtInit /\ [][MtNext]_mtVars

--------------------------------------------------------------------------------
(* Current *)

\* The rows that are read.
Rows == 1..(IF Len(traces) < TraceLimit THEN Len(traces) ELSE TraceLimit)

\* Mutant: a row without an endpoint belongs to no group.
GroupsNamed(rows) == {traces[i].endpoint : i \in rows} \ {NoEndpoint}

\* groupStats: the groups; the rows without an endpoint are one of them.
Groups(rows) == {traces[i].endpoint : i \in rows}

RowsOfGroup(rows, g) == {i \in rows : traces[i].endpoint = g}

NotOk(rows) == {i \in rows : ~traces[i].ok}

\* Per cent of the rows that are not ok.
ErrorRate(rows) == IF rows = {} THEN 0 ELSE (100 * Cardinality(NotOk(rows))) \div Cardinality(rows)

\* collect: the rows that have a value.
Collected(rows) == {i \in rows : traces[i].total # NoLatency}

\* How many rows i is not before, in the order of their values.
Rank(rows, i) ==
  Cardinality({j \in rows : traces[j].total < traces[i].total \/ (traces[j].total = traces[i].total /\ j <= i)})

Sorted(rows) == [k \in 1..Cardinality(rows) |-> traces[CHOOSE i \in rows : Rank(rows, i) = k].total]

\* Pct, of values that are there: linear between two of them.
Pct(rows, p) ==
  LET s == Sorted(rows)
      rank == (Cardinality(rows) - 1) * p
      low == rank \div 100 + 1
      high == IF low < Cardinality(rows) THEN low + 1 ELSE low
  IN s[low] * (100 - (rank % 100)) + s[high] * (rank % 100)

--------------------------------------------------------------------------------
(* evaluateAlerts: 0 is no alert, 1 a warning, 2 critical *)

Severity(value, warns, critical) == IF value > critical THEN 2 ELSE IF value > warns THEN 1 ELSE 0

RateAlert(rows) == Severity(ErrorRate(rows), RateWarns, RateIsCritical)

LatencyAlert(rows) ==
  IF Collected(rows) = {} THEN 0
  ELSE Severity(Pct(Collected(rows), 95), 100 * LatencyWarns, 100 * LatencyIsCritical)

\* An error alert on the whole always names an endpoint that is at least as bad.
\* The rounding to whole per cents keeps this, for it is the same for both.
ErrorHasCulprit ==
  LET worst == RateAlert(Rows) IN
    worst > 0 => \E g \in Groups(Rows) : RateAlert(RowsOfGroup(Rows, g)) >= worst

\* Quantiles are in order, lie between the least and the greatest value, and a
\* latency alert on the whole is the work of some endpoint that has at least one
\* request as slow.
QuantilesAreInOrder ==
  LET v == Collected(Rows) IN
    v # {} =>
      /\ \A i \in v : Pct(v, 0) <= 100 * traces[i].total /\ 100 * traces[i].total <= Pct(v, 100)
      /\ \A p, q \in {0, 50, 95, 99, 100} : p <= q => Pct(v, p) <= Pct(v, q)
      /\ LatencyAlert(Rows) > 0 =>
           \E i \in v : Severity(traces[i].total, LatencyWarns, LatencyIsCritical) >= LatencyAlert(Rows)

\* What is reported of the whole can be found in its parts.
AggregatesInv == ErrorHasCulprit /\ QuantilesAreInOrder
================================================================================
