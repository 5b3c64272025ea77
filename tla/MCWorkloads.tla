----------------------------- MODULE MCWorkloads -------------------------------
(* Small instances of the jobs and of what is measured of them: training jobs,   *)
(* benchmarks, direct starts of the runtime, launch configurations, the verdict  *)
(* on a benchmark, trace metrics, the pod scraper, the service graph and the     *)
(* container rates.  A behaviour takes the steps of one part.                    *)
EXTENDS TrainingJob, BenchmarkRun, InferenceRuntime, LaunchConfig,
        BenchmarkVerdict, TraceMetrics, PodScraper, ServiceGraph, Cadvisor, TLC

CONSTANTS j1, j2, n1, n2, r1, r2, m1, m2, c1, c2, e1, e2, p1, p2, q1, q2,
          Parts   \* the parts a run explores

OwnNames    == j1 :> n1 @@ j2 :> n2
OwnVersions == j1 :> "v1" @@ j2 :> "v2"
OwnConfigs  == m1 :> c1 @@ m2 :> c2
NoField     == [f \in {} |-> 0]
Sizes       == {[seqs |-> 8, tokens |-> 4096], [seqs |-> 16, tokens |-> 8192], [seqs |-> 16, tokens |-> 4096]}
Cores       == Sizes \cup {("prefix" :> b) @@ z : b \in BOOLEAN, z \in Sizes}
Others      == {NoField, [layers |-> "32,32", tp |-> 1, pp |-> 2], [spec |-> "ngram"], [spec |-> "ngram", async |-> FALSE]}
SomeOverrides == {o @@ c : o \in Others, c \in Cores \cup {NoField, [seqs |-> 10, tokens |-> 4096], [prefix |-> FALSE]}}
SomeDeclarations == Cores \cup {NoField, [seqs |-> 16, tokens |-> 8192, layers |-> "32,32"]}
TwoPoints   == <<[context |-> 1024, concurrency |-> 1], [context |-> 2048, concurrency |-> 16]>>

VARIABLE part

jobVars == <<jVars, bVars, rtVars>>
resultVars == <<lcVars, bvVars, mtVars>>
metricVars == <<sVars, gVars, cvVars>>
allVars == <<part, jobVars, resultVars, metricVars>>

Init ==
  /\ part \in Parts
  /\ JInit /\ BInit /\ RtInit
  /\ LcInit /\ BvInit /\ MtInit
  /\ ScInit /\ SgInit /\ CvInit

JobStep ==
  /\ UNCHANGED <<part, resultVars, metricVars>>
  /\ \/ part = "training" /\ JNext /\ UNCHANGED <<bVars, rtVars>>
     \/ part = "benchmark" /\ BNext /\ UNCHANGED <<jVars, rtVars>>
     \/ part = "runtime" /\ RtNext /\ UNCHANGED <<jVars, bVars>>

ResultStep ==
  /\ UNCHANGED <<part, jobVars, metricVars>>
  /\ \/ part = "launch" /\ LcNext /\ UNCHANGED <<bvVars, mtVars>>
     \/ part = "verdict" /\ ScenarioSummarised /\ UNCHANGED <<lcVars, mtVars>>
     \/ part = "traces" /\ MtNext /\ UNCHANGED <<lcVars, bvVars>>

MetricStep ==
  /\ UNCHANGED <<part, jobVars, resultVars>>
  /\ \/ part = "scraper" /\ ScNext /\ UNCHANGED <<gVars, cvVars>>
     \/ part = "graph" /\ SgNext /\ UNCHANGED <<sVars, cvVars>>
     \/ part = "cadvisor" /\ CvNext /\ UNCHANGED <<sVars, gVars>>

Next == JobStep \/ ResultStep \/ MetricStep

Spec == Init /\ [][Next]_allVars

\* The variables of every part keep their types.
TypeOK ==
  /\ JTypeOK /\ BTypeOK /\ RtTypeOK
  /\ LcTypeOK /\ BvTypeOK /\ MtTypeOK
  /\ ScTypeOK /\ SgTypeOK /\ CvTypeOK
================================================================================
