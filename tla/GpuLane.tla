-------------------------------- MODULE GpuLane --------------------------------
(***************************************************************************)
(* The single-machine GPU lane: training jobs, serving benchmarks,         *)
(* inference releases and the operators' direct control of the vLLM        *)
(* container, each reading the others' ledger before it writes its own.    *)
(*                                                                         *)
(* The guards are reads: activeTrainingJob and activeBenchmarkRun look for *)
(* active rows, the training form also looks at the GPUs' memory, and      *)
(* nothing is held between a guard and the INSERT it protects.  Here every *)
(* guard that the component modules leave as a parameter is given its      *)
(* value from the state of the others.                                     *)
(***************************************************************************)
EXTENDS TrainingJob, BenchmarkRun, InferenceRelease

CONSTANTS
  RunConfig,   \* the configuration each benchmark run declares
  Core,        \* the three parameters of a configuration the gate compares
  Concurrent   \* several operators, who do not wait for each other's answers

ASSUME RunConfigAssumption  == RunConfig \in [Runs -> Configs]
ASSUME CoreAssumption       == DOMAIN Core = Configs
ASSUME ConcurrentAssumption == Concurrent \in BOOLEAN

laneVars == <<jVars, bVars, relAll>>

LaneInit == JInit /\ BInit /\ RelInit

SomeTraining == \E j \in Jobs : Training(j)

\* benchmarkGPUSnapshot: a loaded model holds its memory; one that is loading and
\* a training pod may not have taken theirs yet; without the agent there is no
\* snapshot and no objection.
MemoryReadings ==
  {busy \in BOOLEAN :
     IF busy THEN Up \/ SomeTraining
             ELSE container.state # "ready" \/ "agent" \in RtFaults}

\* validateLocalInferenceConfig
EndpointMatches(r) == container = [state |-> "ready", cfg |-> RunConfig[r]]

\* loadInferenceReleaseCandidate: a completed run with the same core parameters.
GateOpen(r) ==
  \E b \in Runs : bStatus[b] = "completed" /\ Core[RunConfig[b]] = Core[ReleaseConfig[r]]

--------------------------------------------------------------------------------
(* What an operator does.  One who waits for answers sends one request at a    *)
(* time; one who, without Overlap, also waits for outcomes starts nothing in   *)
(* the lane while a runtime or a release is still on its way up.               *)

Answering ==
  \/ RelBusy
  \/ \E j \in Jobs : request[j] # "idle" \/ j \in cancelling
  \/ \E b \in Runs : bRequest[b] # "idle" \/ bCancel[b] # "idle"

Unsettled ==
  \/ ReleaseRunning \/ container.state = "starting"
  \/ \E m \in Manuals : Pending(m)

MayAsk   == Concurrent \/ ~Answering
MayStart == MayAsk /\ (Overlap \/ ~Unsettled)

TrainingHandler(j) ==
  \/ MayStart /\ SubmitLaneCheck(j, BenchmarkActive)
  \/ \E busy \in MemoryReadings : SubmitGpuCheck(j, busy) \/ SubmitRefused(j, busy)
  \/ SubmitInsert(j)
  \/ MayAsk /\ CancelDelete(j)
  \/ CancelWrite(j)

TrainingActor ==
  /\ \/ \E j \in Jobs : TrainingHandler(j) \/ RunnerStep(j) \/ RunnerLate(j)
     \/ \E n \in Names : JobEnds(n)
  /\ UNCHANGED <<bVars, relAll>>

BenchmarkHandler(b) ==
  \/ MayStart /\ CreateLaneCheck(b, LedgerActive)
  \/ CreateEndpointCheck(b, EndpointMatches(b))
  \/ CreateRefused(b, EndpointMatches(b))
  \/ CreateInsert(b) \/ CreateLaunch(b)
  \/ MayAsk /\ CancelRead(b)
  \/ CancelFire(b) \/ BCancelWrite(b)

BenchmarkActor ==
  /\ \E b \in Runs : BenchmarkHandler(b) \/ BRunnerStep(b)
  /\ UNCHANGED <<jVars, relAll>>

ReleaseHandler(r) ==
  \/ MayStart /\ ReleaseLaneCheck(r, GateOpen(r) /\ ~LedgerActive)
  \/ ReleaseBenchmarkCheck(r, BenchmarkActive)
  \/ ReleaseAloneCheck(r) \/ ReleaseCapture(r) \/ ReleaseLink(r) \/ ReleaseInsert(r)
  \/ MayAsk /\ OfflineCheck(r, BenchmarkActive)
  \/ OfflineStep(r)

RuntimeHandler ==
  \/ \E m \in Manuals :
       \/ MayStart /\ ManualLaneCheck(m, LedgerActive)
       \/ ManualStep(m) \/ MonitorLate(m)
  \/ MayStart /\ StopCheck(BenchmarkActive)
  \/ StopStep

InferenceActor ==
  /\ \/ \E r \in Releases : ReleaseHandler(r) \/ ReleaseStep(r) \/ ReleaseLate(r)
     \/ (RuntimeHandler \/ Boot \/ Die) /\ UNCHANGED relVars
  /\ UNCHANGED <<jVars, bVars>>

\* One process: a restart takes the handlers and goroutines of all three.
LaneCrash == JCrash /\ BCrash /\ RelCrash

LaneNext == TrainingActor \/ BenchmarkActor \/ InferenceActor \/ LaneCrash

LaneSpec == LaneInit /\ [][LaneNext]_laneVars

\* Nothing here takes a step away from a component: goroutines run on as they do
\* in the components alone.
LaneFairSpec == LaneSpec /\ JFairness /\ BFairness /\ RtFairness /\ RelFairness

--------------------------------------------------------------------------------
(* Properties *)

\* Training and inference experiments never overlap in the ledger.
LaneExclusive == ~(LedgerActive /\ BenchmarkActive)

\* A training pod and the vLLM container never hold the GPUs together, but for a
\* job whose runner gave up on it at the deadline and left it training.
GpuExclusive == \A j \in Jobs : Training(j) /\ Up => j \in late

\* Nothing this control plane does removes the container under a benchmark that
\* has not been cancelled and still sends requests.
LoadKeepsRuntime ==
  [][\A b \in Runs : Loading(b) /\ b \notin ctxDone /\ Up =>
       container'.state # "absent"]_container

\* Every release rests on a completed benchmark of the very configuration that
\* it puts into production.
GateIsAboutConfig ==
  \A r \in Inserted :
    \E b \in Runs : bStatus[b] = "completed" /\ RunConfig[b] = ReleaseConfig[r]

\* The lane: one kind of work in the ledger, one on the GPUs, and releases that
\* rest on what was measured there.
LaneInv == LaneExclusive /\ GpuExclusive /\ GateIsAboutConfig

================================================================================
