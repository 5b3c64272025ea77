--------------------------- MODULE BenchmarkVerdict ---------------------------
(***************************************************************************)
(* Four judgements of one serving benchmark, each with thresholds of its   *)
(* own: the bottleneck labels and the best scenario that                   *)
(* httpx/benchmark_runner.go puts into the summary, the gate that          *)
(* httpx/inference_release_handlers.go makes of it, and the category that  *)
(* _inference_diagnose of aiservice/diagnose.py finds.                     *)
(*                                                                         *)
(* Rates are in percent and times in milliseconds.                         *)
(***************************************************************************)
EXTENDS Naturals, Sequences, FiniteSets

CONSTANTS
  Plan,         \* context length and concurrency of each scenario, in order
  MaxNumSeqs,   \* config.vllm.max_num_seqs of the run, 0 when it is not given
  Missing,      \* a metric without a sample
  Rates,        \* values of success_rate and quality_gate_pass_rate
  Memories,     \* max_memory_utilization_percent after the scenario
  Ttfts, Tpots  \* values of p95_ttft_ms and p95_tpot_ms

\* setDefaults leaves no benchmark without a scenario.
ASSUME VerdictAssumption ==
  /\ Plan \in Seq([context : Nat, concurrency : Nat]) /\ Len(Plan) > 0
  /\ Rates \subseteq Nat /\ Ttfts \subseteq Nat /\ Tpots \subseteq Nat

VARIABLES
  scenarios   \* summaries in the order in which the scenarios ran

bvVars == <<scenarios>>

\* Without a request that succeeded there is no time and no rate above zero.
Summary(n) ==
  {s \in [context : {Plan[n].context}, concurrency : {Plan[n].concurrency}, success : Rates, quality : Rates,
          memory : Memories, ttft : Ttfts \cup {Missing}, tpot : Tpots \cup {Missing}, tail : BOOLEAN] :
     /\ s.quality <= s.success
     /\ (s.ttft = Missing) = (s.success = 0)
     /\ s.success = 0 => s.tpot = Missing /\ ~s.tail}

BvTypeOK == \A n \in DOMAIN scenarios : scenarios[n] \in Summary(n)

BvInit == scenarios = <<>>

\* runScenario ends; tail: p95_ms exceeds one and a half times mean_ms.
ScenarioSummarised ==
  /\ Len(scenarios) < Len(Plan)
  /\ \E s \in Summary(Len(scenarios) + 1) : scenarios' = Append(scenarios, s)

BvSpec == BvInit /\ [][ScenarioSummarised]_bvVars

--------------------------------------------------------------------------------
(* benchmark_runner.go *)

Value(m) == IF m = Missing THEN 0 ELSE m

\* attributeBottleneck; none of them is "balanced-or-insufficient-evidence".
Findings(s) ==
  {l \in {"stability-risk", "quality-check-failed", "memory-pressure", "prefill-bound", "decode-bound", "scheduler-saturation"} :
     \/ l = "stability-risk" /\ s.success < 99
     \/ l = "quality-check-failed" /\ s.quality < 99
     \/ l = "memory-pressure" /\ s.memory >= 90
     \/ l = "prefill-bound" /\ Value(s.ttft) > 500 /\ Value(s.ttft) > 8 * Value(s.tpot) /\ s.context >= 1024
     \/ l = "decode-bound" /\ Value(s.tpot) > 80
     \/ l = "scheduler-saturation" /\ s.concurrency >= 8 /\ s.tail}

Score(s) == s.ttft + 10 * s.tpot

\* bestScenario: those it compares.
Admissible ==
  {n \in DOMAIN scenarios :
     LET s == scenarios[n] IN s.success >= 99 /\ s.quality >= 99 /\ s.ttft # Missing /\ s.tpot # Missing}

\* The first of the lowest score; 0 when there is none.
Best ==
  IF Admissible = {} THEN 0
  ELSE CHOOSE n \in Admissible : \A m \in Admissible :
         Score(scenarios[n]) < Score(scenarios[m]) \/ (Score(scenarios[n]) = Score(scenarios[m]) /\ n <= m)

--------------------------------------------------------------------------------
(* inference_release_handlers.go *)

\* summarizeReleaseCandidate: a metric without a sample counts as 0.
GatePassed ==
  /\ scenarios # <<>>
  /\ \A n \in DOMAIN scenarios :
       LET s == scenarios[n] IN
         s.success >= 99 /\ s.quality >= 99 /\ Value(s.ttft) <= 5000 /\ Value(s.tpot) <= 150

--------------------------------------------------------------------------------
(* diagnose.py *)

\* The first of the scenarios with the longest time to the first token.
Worst ==
  CHOOSE n \in DOMAIN scenarios : \A m \in DOMAIN scenarios :
    \/ Value(scenarios[n].ttft) > Value(scenarios[m].ttft)
    \/ Value(scenarios[n].ttft) = Value(scenarios[m].ttft) /\ n <= m

Labels == UNION {Findings(scenarios[n]) : n \in DOMAIN scenarios}

Some(Test(_)) == \E n \in DOMAIN scenarios : Test(scenarios[n])

\* Mutant: the gates look at the worst scenario alone.
CategoryOfWorst ==
  LET w == scenarios[Worst] IN
    CASE w.success < 99 -> "request_failure"
      [] w.success >= 99 /\ w.quality < 99 -> "quality_regression"
      [] OTHER -> "inference_healthy"

\* _inference_diagnose, the branches in their order.
Category ==
  LET w == scenarios[Worst]
      branch == <<
        [holds |-> Some(LAMBDA s : s.success < 99), is |-> "request_failure"],
        [holds |-> Some(LAMBDA s : s.quality < 99), is |-> "quality_regression"],
        [holds |-> "scheduler-saturation" \in Labels \/ (MaxNumSeqs > 0 /\ w.concurrency > MaxNumSeqs), is |-> "scheduler_saturation"],
        [holds |-> "memory-pressure" \in Labels \/ Some(LAMBDA s : s.memory >= 95), is |-> "memory_pressure"],
        [holds |-> "decode-bound" \in Labels \/ Value(w.tpot) >= 100, is |-> "decode_bottleneck"],
        [holds |-> "prefill-bound" \in Labels \/ Value(w.ttft) >= 3000, is |-> "prefill_bottleneck"],
        [holds |-> TRUE, is |-> "inference_healthy"]>>
  IN branch[CHOOSE i \in 1..7 : branch[i].holds /\ \A j \in 1..(i - 1) : ~branch[j].holds].is

Done == Len(scenarios) = Len(Plan)

\* The two judges agree on what is wrong: what the diagnosis calls a failure or a
\* regression the summary has labelled so, and a run called healthy has no finding.
VerdictsAgree ==
  Done =>
    /\ (Category = "request_failure") = ("stability-risk" \in Labels)
    /\ Category = "quality_regression" => "quality-check-failed" \in Labels
    /\ Category = "inference_healthy" => Labels = {}

\* The scenario that is recommended as the best is none that a finding of either
\* judge forbids to accept, and there is one unless every scenario is.
BestIsAcceptable ==
  /\ Best # 0 => Findings(scenarios[Best]) \cap {"stability-risk", "quality-check-failed"} = {}
  /\ Done /\ Best = 0 /\ (\A n \in DOMAIN scenarios : scenarios[n].tpot # Missing) =>
       Category \in {"request_failure", "quality_regression"}

\* What the gate lets into production neither judge calls a failure or a
\* regression, and some scenario of it can be recommended unless none has a time
\* per token.
GateIsJust ==
  Done /\ GatePassed =>
    /\ {"stability-risk", "quality-check-failed"} \cap Labels = {}
    /\ Category \notin {"request_failure", "quality_regression"}
    /\ Best = 0 => \A n \in DOMAIN scenarios : scenarios[n].tpot = Missing

\* The summary, the diagnosis and the gate, which judge the same numbers in three
\* places, do not contradict one another.
JudgesAgree == VerdictsAgree /\ BestIsAcceptable /\ GateIsJust
================================================================================
