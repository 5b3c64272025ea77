----------------------------- MODULE GpuLane_proofs -----------------------------
(***************************************************************************)
(* The lane as a whole, for any number of jobs, benchmarks, releases and   *)
(* direct starts: it implements each of its components, whose invariants   *)
(* it therefore inherits, and the guards that each handler evaluates one   *)
(* by one keep training and inference apart.                               *)
(*                                                                         *)
(* It is proved for one operator who waits for answers and outcomes, the   *)
(* use under which the components are right (Disciplined, StartedOnly,     *)
(* Settled), and an agent that answers: its silence lets a training job in *)
(* beside a loaded model.                                                  *)
(***************************************************************************)
EXTENDS GpuLane, Jobs_proofs, InferenceRelease_proofs

OneOperator == ~Concurrent /\ Disciplined /\ StartedOnly /\ Settled /\ "agent" \notin RtFaults

\* The three parameters that the gate compares tell configurations apart.
CoreIsWhole == \A c, d \in Configs : Core[c] = Core[d] => c = d

--------------------------------------------------------------------------------
(* The lane implements its components.                                       *)

\* The lane starts as its components do.
LEMMA LaneInitImplements == LaneInit => JInit /\ BInit /\ RelInit
  BY DEF LaneInit

\* A step of the lane is a step of each component, or leaves it alone.
LEMMA LaneStepImplements ==
  ASSUME ~Concurrent, ~Overlap, LaneNext
  PROVE  [JNext]_jVars /\ [BNext]_bVars /\ [RelNext]_relAll
<1>1. CASE TrainingActor
  <2>1. ASSUME NEW j \in Jobs, TrainingHandler(j) PROVE JHandler(j)
    BY <2>1 DEF TrainingHandler, JHandler, SubmitLaneCheck, MemoryReadings
  <2>. QED
    BY <1>1, <2>1 DEF TrainingActor, JNext
<1>2. CASE BenchmarkActor
  <2>1. ASSUME NEW b \in Runs, BenchmarkHandler(b) PROVE BHandler(b)
    BY <2>1 DEF BenchmarkHandler, BHandler, CreateLaneCheck, CreateEndpointCheck, CreateRefused, EndpointMatches
  <2>. QED
    BY <1>2, <2>1 DEF BenchmarkActor, BNext
<1>3. CASE InferenceActor
  <2>1. (MayAsk => ~RelBusy) /\ (MayStart => ~RelBusy /\ ~ReleaseRunning /\ \A m \in Manuals : ~Pending(m))
    BY ConcurrentAssumption, OverlapAssumption DEF MayAsk, MayStart, Answering, Unsettled
  <2>2. ASSUME NEW r \in Releases, ReleaseHandler(r) \/ ReleaseStep(r) \/ ReleaseLate(r) PROVE RelNext
    <3>1. MayStart /\ ReleaseLaneCheck(r, GateOpen(r) /\ ~LedgerActive) => RelNext
      BY <2>1 DEF RelNext, ReleaseLaneCheck
    <3>2. ReleaseBenchmarkCheck(r, BenchmarkActive) => RelNext
      <4>1. BenchmarkActive \in BOOLEAN
        BY DEF BenchmarkActive
      <4>. QED
        BY <4>1 DEF RelNext, SubmitStep
    <3>3. MayAsk /\ OfflineCheck(r, BenchmarkActive) => RelNext
      BY <2>1 DEF RelNext, OfflineCheck
    <3>. QED
      BY <2>2, <3>1, <3>2, <3>3 DEF ReleaseHandler, RelNext, SubmitStep
  <2>3. ASSUME RuntimeHandler \/ Boot \/ Die, UNCHANGED relVars PROVE RelNext
    <3>1. ASSUME NEW m \in Manuals, MayStart /\ ManualLaneCheck(m, LedgerActive) PROVE RelNext
      BY <2>1, <2>3, <3>1 DEF RelNext, ManualLaneCheck
    <3>2. MayStart /\ StopCheck(BenchmarkActive) => RelNext
      BY <2>1, <2>3 DEF RelNext, StopCheck
    <3>. QED
      BY <2>3, <3>1, <3>2 DEF RuntimeHandler, RelNext
  <2>. QED
    BY <1>3, <2>2, <2>3 DEF InferenceActor
<1>4. CASE LaneCrash
  BY <1>4 DEF LaneCrash, JNext, BNext, RelNext
<1>. QED
  BY <1>1, <1>2, <1>3, <1>4 DEF LaneNext

\* In the lane each component does what it does alone: what is said of all its
\* behaviours holds beside the others.
THEOREM LaneImplements ==
  ASSUME ~Concurrent, ~Overlap PROVE LaneSpec => JSpec /\ BSpec /\ RelSpec
<1>1. [LaneNext]_laneVars => [JNext]_jVars /\ [BNext]_bVars /\ [RelNext]_relAll
  BY LaneStepImplements DEF laneVars
<1>. QED
  BY <1>1, LaneInitImplements, PTL DEF LaneSpec, JSpec, BSpec, RelSpec

--------------------------------------------------------------------------------
(* What keeps the components apart.                                          *)

\* One request at a time, whatever it asks for.
RequestInv ==
  /\ \A j \in Jobs : request[j] # "idle" =>
       /\ ~RelBusy
       /\ \A b \in Runs : bRequest[b] = "idle"
       /\ \A k \in Jobs : request[k] # "idle" => k = j
  /\ \A b \in Runs : bRequest[b] # "idle" =>
       /\ ~RelBusy
       /\ \A c \in Runs : bRequest[c] # "idle" => c = b

\* What a guard has read of the other ledger is still true when its row is
\* inserted, and a benchmark becomes active by its INSERT alone.
LedgerInv ==
  /\ LaneExclusive
  /\ \A j \in Jobs : request[j] # "idle" => ~BenchmarkActive
  /\ \A b \in Runs : bRequest[b] \in {"lane", "checked"} => ~LedgerActive
  /\ \A b \in Runs : bRunner[b] \in {"starting", "marking"} =>
       bStatus[b] = "queued" /\ bCancel[b] = "idle"

\* From the admission of a training job to the end of its row no runtime is on
\* its way up, and none is up.
Trains == LedgerActive \/ \E j \in Jobs : request[j] # "idle"

GpuInv ==
  /\ Trains =>
       /\ container.state # "starting" /\ ~ReleaseRunning
       /\ \A m \in Manuals : ~Pending(m)
       /\ \A r \in Releases : rRequest[r] = "idle"
  /\ LedgerActive \/ (\E j \in Jobs : request[j] = "checked") => ~Up

\* From the admission of a benchmark to the end of its row nobody is about to
\* remove the container.
LoadInv ==
  /\ BenchmarkActive \/ (\E b \in Runs : bRequest[b] # "idle") => ~ReleaseRunning
  /\ BenchmarkActive =>
       /\ rtStop # "checked"
       /\ \A r \in Releases : rStop[r] # "current" /\ rRequest[r] \in {"idle", "lane"}

\* The benchmark that opened the gate of a release stays completed: nobody was
\* cancelling it then, and nobody cancels a run that has ended.
GateInv ==
  \A r \in Releases : rRequest[r] # "idle" \/ r \in Inserted =>
    \E b \in Runs : /\ bStatus[b] = "completed" /\ bCancel[b] = "idle"
                    /\ RunConfig[b] = ReleaseConfig[r]

LaneOwnInv == RequestInv /\ LedgerInv /\ GpuInv /\ LoadInv /\ GateInv

LaneIInv == JInv /\ BInv /\ ReleaseIInv /\ LaneOwnInv

\* With nothing asked for and no row, the guards have nothing to keep apart.
LEMMA LaneOwnInit == LaneInit => LaneOwnInv
  BY DEF LaneInit, JInit, BInit, RelInit, RtInit, LaneOwnInv, RequestInv, LedgerInv, GpuInv, LoadInv, GateInv,
         Trains, LaneExclusive, LedgerActive, BenchmarkActive, Active, BActive, RelBusy, RtBusy, ReleaseRunning,
         Pending, Inserted, Up, Absent

--------------------------------------------------------------------------------
(* Training.                                                                  *)

\* What the ledger of training says may change by an INSERT; every other step of
\* a job leaves its requests alone and at most ends its row.
LEMMA TrainingStep ==
  ASSUME OneOperator, LaneIInv, TrainingActor
  PROVE  \/ \E j \in Jobs :
              /\ MayStart /\ ~BenchmarkActive
              /\ request' = [request EXCEPT ![j] = "lane"] /\ UNCHANGED status
         \/ \E j \in Jobs :
              /\ request[j] = "lane" /\ container.state # "ready"
              /\ request' = [request EXCEPT ![j] = "checked"] /\ UNCHANGED status
         \/ \E j \in Jobs :
              request[j] = "lane" /\ request' = [request EXCEPT ![j] = "idle"] /\ UNCHANGED status
         \/ \E j \in Jobs :
              /\ request[j] = "checked" /\ request' = [request EXCEPT ![j] = "idle"]
              /\ status' = [status EXCEPT ![j] = "pending"]
         \/ UNCHANGED request /\ (LedgerActive' => LedgerActive)
<1> USE DEF OneOperator
<1>1. ASSUME NEW j \in Jobs, TrainingHandler(j)
      PROVE  \/ /\ MayStart /\ ~BenchmarkActive
                /\ request' = [request EXCEPT ![j] = "lane"] /\ UNCHANGED status
             \/ /\ request[j] = "lane" /\ container.state # "ready"
                /\ request' = [request EXCEPT ![j] = "checked"] /\ UNCHANGED status
             \/ request[j] = "lane" /\ request' = [request EXCEPT ![j] = "idle"] /\ UNCHANGED status
             \/ /\ request[j] = "checked" /\ request' = [request EXCEPT ![j] = "idle"]
                /\ status' = [status EXCEPT ![j] = "pending"]
             \/ UNCHANGED request /\ (LedgerActive' => LedgerActive)
  <2>1. CASE CancelWrite(j)
    <3>1. UNCHANGED request /\ status' \in {status, [status EXCEPT ![j] = "cancelled"]}
      BY <2>1 DEF CancelWrite, WriteStatus
    <3>. QED
      BY <3>1 DEF LaneIInv, JInv, JTypeInv, JTypeOK, LedgerActive, Active
  <2>2. ASSUME NEW busy \in MemoryReadings, SubmitGpuCheck(j, busy) PROVE container.state # "ready"
    BY <2>2 DEF MemoryReadings, SubmitGpuCheck
  <2>. QED
    BY <1>1, <2>1, <2>2 DEF TrainingHandler, SubmitLaneCheck, SubmitGpuCheck, SubmitRefused, SubmitInsert, CancelDelete,
       LedgerActive
<1>2. ASSUME NEW j \in Jobs, RunnerStep(j) \/ RunnerLate(j)
      PROVE  UNCHANGED request /\ (LedgerActive' => LedgerActive)
  <2>1. /\ UNCHANGED request
        /\ \/ UNCHANGED status
           \/ status' = [status EXCEPT ![j] = "failed"]
           \/ runner[j] = "submitted" /\ status' = [status EXCEPT ![j] = "running"]
           \/ runner[j] = "finishing" /\ status' = [status EXCEPT ![j] = verdict[j]]
    BY <1>2 DEF RunnerStep, RunnerCreate, RunnerCreateError, RunnerRefused, RunnerMarkRunning, RunnerTick, RunnerSeesEnd,
       RunnerSeesNothing, RunnerTimesOut, RunnerFinish, RunnerRegister, RunnerLate, WriteStatus
  <2>2. runner[j] = "submitted" => status[j] = "pending"
    BY DEF LaneIInv, JInv, StartInv, Starting
  <2>3. runner[j] = "finishing" => verdict[j] \in {"succeeded", "failed"}
    BY DEF LaneIInv, JInv, RegisteredHasArtifact, VerdictInv
  <2>4. status \in [Jobs -> {"absent"} \cup Active \cup Terminal]
    BY DEF LaneIInv, JInv, JTypeInv, JTypeOK
  <2>. QED
    BY <2>1, <2>2, <2>3, <2>4 DEF LedgerActive, Active
<1>3. ASSUME NEW n \in Names, JobEnds(n) PROVE UNCHANGED request /\ (LedgerActive' => LedgerActive)
  BY <1>3 DEF JobEnds, LedgerActive
<1>. QED
  BY <1>1, <1>2, <1>3 DEF TrainingActor

\* What training does keeps the components apart.
LEMMA TrainingKeeps ==
  ASSUME OneOperator, LaneIInv, TrainingActor
  PROVE  LaneOwnInv'
<1> USE DEF LaneIInv, LaneOwnInv, Trains
<1>1. UNCHANGED <<bVars, relAll>>
  BY DEF TrainingActor
<1>2. /\ UNCHANGED <<bRequest, bStatus, bRunner, bCancel, container, mPc, rtStop, stopRows, rStatus, rRequest, rRunner, rStop>>
      /\ BenchmarkActive' = BenchmarkActive /\ RelBusy' = RelBusy /\ ReleaseRunning' = ReleaseRunning
      /\ Inserted' = Inserted /\ Up' = Up /\ \A m \in Manuals : Pending(m)' = Pending(m)
  BY <1>1 DEF bVars, relAll, rtVars, manualVars, stopVars, relVars, rowVars, submitVars, runnerVars,
     BenchmarkActive, RelBusy, RtBusy, ReleaseRunning, Inserted, Up, Pending
<1>3. LoadInv' /\ GateInv'
  BY <1>2 DEF LoadInv, GateInv
<1>4. request \in [Jobs -> {"idle", "lane", "checked"}] /\ status \in [Jobs -> {"absent"} \cup Active \cup Terminal]
  BY DEF JInv, JTypeInv, JTypeOK
<1>5. ASSUME NEW j \in Jobs, MayStart, ~BenchmarkActive, request' = [request EXCEPT ![j] = "lane"], UNCHANGED status
      PROVE  LaneOwnInv'
  <2>1. /\ ~RelBusy /\ (\A k \in Jobs : request[k] = "idle") /\ (\A b \in Runs : bRequest[b] = "idle")
        /\ ~ReleaseRunning /\ container.state # "starting" /\ \A m \in Manuals : ~Pending(m)
    BY <1>5, ConcurrentAssumption, OverlapAssumption DEF OneOperator, Settled, MayStart, MayAsk, Answering, Unsettled
  <2>2. LedgerActive' = LedgerActive
    BY <1>5 DEF LedgerActive
  <2>3. \A k \in Jobs : request'[k] = IF k = j THEN "lane" ELSE "idle"
    BY <1>4, <1>5, <2>1
  <2>4. RequestInv'
    BY <1>2, <2>1, <2>3 DEF RequestInv
  <2>5. LedgerInv'
    BY <1>2, <1>5, <2>1, <2>2 DEF LedgerInv, LaneExclusive
  <2>6. GpuInv'
    <3>1. \A r \in Releases : rRequest[r] = "idle"
      BY <2>1 DEF RelBusy
    <3>. QED
      BY <1>2, <2>1, <2>2, <2>3, <3>1 DEF GpuInv
  <2>. QED
    BY <1>3, <2>4, <2>5, <2>6
<1>6. ASSUME NEW j \in Jobs, request[j] # "idle", NEW q \in {"checked", "idle"}, request' = [request EXCEPT ![j] = q],
             q = "checked" => request[j] = "lane" /\ container.state # "ready",
             \/ UNCHANGED status
             \/ request[j] = "checked" /\ q = "idle" /\ status' = [status EXCEPT ![j] = "pending"]
      PROVE  LaneOwnInv'
  <2>1. /\ ~RelBusy /\ ~BenchmarkActive /\ ~ReleaseRunning /\ container.state # "starting"
        /\ \A b \in Runs : bRequest[b] = "idle"
        /\ \A m \in Manuals : ~Pending(m)
        /\ \A r \in Releases : rRequest[r] = "idle"
        /\ \A k \in Jobs : k # j => request[k] = "idle"
    BY <1>6 DEF RequestInv, LedgerInv, GpuInv
  <2>2. \A k \in Jobs : request'[k] = IF k = j THEN q ELSE "idle"
    BY <1>4, <1>6, <2>1
  <2>3. RequestInv'
    BY <1>2, <2>1, <2>2 DEF RequestInv
  <2>4. LedgerInv'
    BY <1>2, <2>1, <2>2 DEF LedgerInv, LaneExclusive
  <2>5. LedgerActive' => LedgerActive \/ request[j] = "checked"
    BY <1>6 DEF LedgerActive
  <2>6. (LedgerActive \/ request[j] = "checked" \/ q = "checked") => ~Up
    BY <1>6, <2>1 DEF GpuInv, Up
  <2>7. GpuInv'
    BY <1>2, <2>1, <2>2, <2>5, <2>6 DEF GpuInv
  <2>. QED
    BY <1>3, <2>3, <2>4, <2>7
<1>7. ASSUME UNCHANGED request, LedgerActive' => LedgerActive PROVE LaneOwnInv'
  <2>1. RequestInv' /\ LedgerInv'
    BY <1>2, <1>7 DEF RequestInv, LedgerInv, LaneExclusive
  <2>2. GpuInv'
    BY <1>2, <1>7 DEF GpuInv
  <2>. QED
    BY <1>3, <2>1, <2>2
<1>. QED
  BY <1>5, <1>6, <1>7, TrainingStep

--------------------------------------------------------------------------------
(* Benchmarks.                                                                *)

\* What a benchmark does keeps the components apart.
LEMMA BenchmarkKeeps ==
  ASSUME OneOperator, LaneIInv, BenchmarkActor
  PROVE  LaneOwnInv'
<1> USE DEF LaneIInv, LaneOwnInv, Trains, OneOperator
<1>1. UNCHANGED <<jVars, relAll>>
  BY DEF BenchmarkActor
<1>2. /\ UNCHANGED <<request, container, mPc, rtStop, stopRows, rStatus, rRequest, rRunner, rStop>>
      /\ LedgerActive' = LedgerActive /\ RelBusy' = RelBusy /\ ReleaseRunning' = ReleaseRunning
      /\ Inserted' = Inserted /\ Up' = Up /\ \A m \in Manuals : Pending(m)' = Pending(m)
  BY <1>1 DEF jVars, relAll, rtVars, manualVars, stopVars, relVars, rowVars, submitVars, runnerVars,
     LedgerActive, RelBusy, RtBusy, ReleaseRunning, Inserted, Up, Pending
<1>3. GpuInv'
  BY <1>2 DEF GpuInv
<1>4. PICK b \in Runs : BenchmarkHandler(b) \/ BRunnerStep(b)
  BY DEF BenchmarkActor
<1>5. /\ bRequest \in [Runs -> {"idle", "lane", "checked", "inserted"}]
      /\ bStatus \in [Runs -> {"absent"} \cup BActive \cup BTerminal]
      /\ bRunner \in [Runs -> BRunners] /\ bCancel \in [Runs -> {"idle", "read", "fired"}]
  BY DEF BInv, BTypeOK
\* The requests of clients.
<1>6. ASSUME MayStart, CreateLaneCheck(b, LedgerActive) PROVE LaneOwnInv'
  <2>1. /\ ~RelBusy /\ (\A k \in Jobs : request[k] = "idle") /\ (\A c \in Runs : bRequest[c] = "idle")
        /\ ~ReleaseRunning
    BY <1>6, ConcurrentAssumption, OverlapAssumption DEF Settled, MayStart, MayAsk, Answering, Unsettled
  <2>2. /\ ~LedgerActive /\ UNCHANGED <<bStatus, bRunner, bCancel>> /\ BenchmarkActive' = BenchmarkActive
        /\ \A c \in Runs : bRequest'[c] = IF c = b THEN "lane" ELSE "idle"
    BY <1>5, <1>6, <2>1 DEF CreateLaneCheck, BenchmarkActive
  <2>3. RequestInv' /\ LedgerInv'
    BY <1>2, <2>1, <2>2 DEF RequestInv, LedgerInv, LaneExclusive
  <2>4. LoadInv' /\ GateInv'
    BY <1>2, <2>1, <2>2 DEF LoadInv, GateInv
  <2>. QED
    BY <1>3, <2>3, <2>4
<1>7. ASSUME \/ CreateEndpointCheck(b, EndpointMatches(b)) \/ CreateRefused(b, EndpointMatches(b))
             \/ CreateInsert(b) \/ CreateLaunch(b)
      PROVE  LaneOwnInv'
  <2>1. /\ bRequest[b] # "idle" /\ UNCHANGED bCancel
        /\ \E q \in {"checked", "idle", "inserted"} : bRequest' = [bRequest EXCEPT ![b] = q]
        /\ \/ UNCHANGED bStatus
           \/ bRequest[b] = "checked" /\ bStatus' = [bStatus EXCEPT ![b] = "queued"]
        /\ \/ UNCHANGED bRunner
           \/ bRequest[b] = "inserted" /\ bRunner' = [bRunner EXCEPT ![b] = "starting"]
        /\ UNCHANGED bStatus \/ UNCHANGED bRunner
        /\ bRequest'[b] \in {"lane", "checked"} => bRequest[b] = "lane"
    <3>1. CASE CreateEndpointCheck(b, EndpointMatches(b))
      BY <1>5, <3>1 DEF CreateEndpointCheck
    <3>2. CASE CreateRefused(b, EndpointMatches(b))
      BY <1>5, <3>2 DEF CreateRefused
    <3>3. CASE CreateInsert(b)
      BY <1>5, <3>3 DEF CreateInsert
    <3>4. CASE CreateLaunch(b)
      BY <1>5, <3>4 DEF CreateLaunch, BGoto
    <3>. QED
      BY <1>7, <3>1, <3>2, <3>3, <3>4
  <2>2. PICK q \in {"checked", "idle", "inserted"} : bRequest' = [bRequest EXCEPT ![b] = q]
    BY <2>1
  <2>3. /\ ~RelBusy /\ ~ReleaseRunning /\ (\A k \in Jobs : request[k] = "idle")
        /\ \A c \in Runs : c # b => bRequest[c] = "idle"
    BY <2>1 DEF RequestInv, LoadInv
  <2>4. \A c \in Runs : bRequest'[c] = IF c = b THEN q ELSE "idle"
    BY <1>5, <2>2, <2>3
  <2>5. bRequest[b] = "checked" => bStatus[b] = "absent" /\ bRunner[b] = "none" /\ bCancel[b] = "idle"
    BY DEF BInv, BStartInv
  <2>6. bRequest[b] = "inserted" => bStatus[b] = "queued" /\ bCancel[b] = "idle"
    BY DEF BInv, BStartInv
  <2>7. BenchmarkActive' => BenchmarkActive \/ bRequest[b] = "checked"
    BY <2>1 DEF BenchmarkActive
  <2>8. RequestInv'
    BY <1>2, <2>3, <2>4 DEF RequestInv
  <2>9. LedgerInv'
    <3>1. \A c \in Runs : bRunner'[c] \in {"starting", "marking"} =>
             bStatus'[c] = "queued" /\ bCancel'[c] = "idle"
      BY <1>5, <2>1, <2>5, <2>6 DEF LedgerInv
    <3>2. bRequest[b] \in {"lane", "checked"} => ~LedgerActive
      BY DEF LedgerInv
    <3>3. \A c \in Runs : bRequest'[c] \in {"lane", "checked"} => ~LedgerActive
      BY <2>1, <2>4, <3>2
    <3>4. LaneExclusive'
      BY <1>2, <2>7, <3>2 DEF LedgerInv, LaneExclusive
    <3>. QED
      BY <1>2, <2>3, <3>1, <3>3, <3>4 DEF LedgerInv
  <2>10. LoadInv'
    <3>1. rtStop = "idle" /\ \A r \in Releases : rStop[r] = "idle" /\ rRequest[r] = "idle"
      BY <2>3 DEF RelBusy, RtBusy
    <3>. QED
      BY <1>2, <2>3, <3>1 DEF LoadInv
  <2>11. GateInv'
    <3>1. \A c \in Runs : bStatus[c] = "completed" => bStatus'[c] = "completed"
      BY <1>5, <2>1, <2>5
    <3>. QED
      BY <1>2, <2>1, <3>1 DEF GateInv
  <2>. QED
    BY <1>3, <2>8, <2>9, <2>10, <2>11
\* Cancellations and the goroutine: the row is at most ended.
<1>8. ASSUME CancelRead(b) \/ CancelFire(b) \/ BCancelWrite(b) \/ BRunnerStep(b) PROVE LaneOwnInv'
  <2>1. /\ UNCHANGED bRequest
        /\ BenchmarkActive' => BenchmarkActive
        /\ \A c \in Runs : bRunner'[c] \in {"starting", "marking"} =>
             bStatus'[c] = "queued" /\ bCancel'[c] = "idle"
        /\ \A c \in Runs : bStatus[c] = "completed" /\ bCancel[c] = "idle" =>
             bStatus'[c] = "completed" /\ bCancel'[c] = "idle"
    <3>1. CASE CancelRead(b) \/ CancelFire(b)
      <4>1. UNCHANGED <<bRequest, bStatus, bRunner>> /\ \E q \in {"read", "fired"} : bCancel' = [bCancel EXCEPT ![b] = q]
        BY <3>1 DEF CancelRead, CancelFire
      <4>2. /\ bStatus[b] # "completed" \/ bCancel[b] # "idle"
            /\ bRunner[b] \notin {"starting", "marking"}
        BY <3>1 DEF CancelRead, CancelFire, BActive, StartedOnly, LedgerInv
      <4>. QED
        BY <1>5, <4>1, <4>2 DEF LedgerInv, BenchmarkActive
    <3>2. CASE BCancelWrite(b)
      <4>1. /\ UNCHANGED <<bRequest, bRunner>> /\ bCancel' = [bCancel EXCEPT ![b] = "idle"] /\ bCancel[b] = "fired"
            /\ bStatus' \in {bStatus, [bStatus EXCEPT ![b] = "cancelled"]}
        BY <3>2 DEF BCancelWrite, BWrite
      <4>2. bRunner[b] \notin {"starting", "marking"}
        BY <4>1 DEF LedgerInv
      <4>. QED
        BY <1>5, <4>1, <4>2 DEF LedgerInv, BenchmarkActive, BActive
    <3>3. CASE BRunnerStep(b)
      <4>1. /\ UNCHANGED <<bRequest, bCancel>>
            /\ \E s \in {"failed", "completed", "cancelled"} :
                 bStatus' \in {bStatus, [bStatus EXCEPT ![b] = s]} \/ bRunner[b] = "marking"
            /\ bStatus' # bStatus => bStatus[b] # "completed"
            /\ bRunner[b] = "marking" => bStatus' \in {bStatus, [bStatus EXCEPT ![b] = "running"]}
            /\ \E q \in BRunners : /\ bRunner' = [bRunner EXCEPT ![b] = q]
                                  /\ q # "starting" /\ (q = "marking" => bRunner[b] = "starting" /\ UNCHANGED bStatus)
        <5>1. CASE BRunnerMarked(b)
          BY <5>1 DEF BRunnerMarked, BLand, BWrite, BGoto, BRunners, BInv, BWholeInv
        <5>2. CASE FinishCancelled(b)
          BY <5>2 DEF FinishCancelled, BWrite, BGoto, BRunners
        <5>3. CASE Completed(b)
          BY <5>3 DEF Completed, BLand, BWrite, BGoto, BRunners, BInv, BWholeInv
        <5>4. CASE \/ BRunnerStart(b) \/ ScenarioStart(b) \/ ScenarioEnd(b) \/ LoopCancelled(b)
                   \/ LoopFinished(b) \/ SendCompleted(b) \/ BRunnerExit(b)
          BY <5>4 DEF BRunnerStart, ScenarioStart, ScenarioEnd, LoopCancelled, LoopFinished, SendCompleted,
             BRunnerExit, BGoto, BRunners
        <5>. QED
          BY <3>3, <5>1, <5>2, <5>3, <5>4 DEF BRunnerStep
      <4>2. bRunner[b] = "marking" => bStatus[b] = "queued"
        BY DEF LedgerInv
      <4>3. BenchmarkActive' => BenchmarkActive
        BY <1>5, <4>1, <4>2 DEF BenchmarkActive, BActive
      <4>4. \A c \in Runs : bRunner'[c] \in {"starting", "marking"} =>
              bStatus'[c] = "queued" /\ bCancel'[c] = "idle"
        BY <1>5, <4>1 DEF LedgerInv
      <4>5. \A c \in Runs : bStatus[c] = "completed" => bStatus'[c] = "completed"
        BY <1>5, <4>1, <4>2
      <4>. QED
        BY <4>1, <4>3, <4>4, <4>5
    <3>. QED
      BY <1>8, <3>1, <3>2, <3>3
  <2>2. RequestInv' /\ LedgerInv' /\ LoadInv' /\ GateInv'
    BY <1>2, <2>1 DEF RequestInv, LedgerInv, LoadInv, GateInv, LaneExclusive
  <2>. QED
    BY <1>3, <2>2
<1>. QED
  BY <1>4, <1>6, <1>7, <1>8 DEF BenchmarkHandler

--------------------------------------------------------------------------------
(* Inference.                                                                 *)

\* What a stop leaves is not on its way up, unless it was.
LEMMA StopStarts ==
  ASSUME container \in Containers, NEW ok \in BOOLEAN, AgentStop(ok), container.state # "starting"
  PROVE  container'.state # "starting" /\ (Up' => Up)
  BY DEF AgentStop, Containers, Up, Absent

\* While a training job is asked for or in the ledger, inference takes no step
\* towards a start.
LEMMA InferenceBesideTraining ==
  ASSUME LaneIInv, InferenceActor, OneOperator, Trains
  PROVE  /\ UNCHANGED <<mPc, rRequest, rRunner>>
         /\ container'.state # "starting" /\ (Up' => Up)
         /\ (\E j \in Jobs : request[j] # "idle") => UNCHANGED <<rtStop, stopRows, rStop>>
<1> USE DEF LaneIInv, LaneOwnInv, Trains
<1>1. /\ container.state # "starting" /\ ~ReleaseRunning /\ container \in Containers
      /\ \A m \in Manuals : ~Pending(m)
      /\ \A r \in Releases : rRequest[r] = "idle"
      /\ (\E j \in Jobs : request[j] # "idle") => ~RelBusy /\ ~MayAsk
  BY ConcurrentAssumption
     DEF GpuInv, RequestInv, ReleaseIInv, RelTypeOK, RtTypeOK, MayAsk, Answering, OneOperator
<1>2. ~(MayStart /\ ~LedgerActive)
  BY <1>1 DEF MayStart
<1>3. ASSUME NEW r \in Releases, ReleaseHandler(r)
      PROVE  /\ UNCHANGED <<mPc, rRequest, rRunner, rtStop, stopRows>>
             /\ UNCHANGED container \/ \E ok \in BOOLEAN : AgentStop(ok)
             /\ MayAsk \/ RelBusy
  <2>1. OfflineStep(r) \/ (MayAsk /\ OfflineCheck(r, BenchmarkActive))
    BY <1>1, <1>2, <1>3
       DEF ReleaseHandler, ReleaseLaneCheck, ReleaseBenchmarkCheck, ReleaseAloneCheck, ReleaseCapture, ReleaseLink,
           ReleaseInsert
  <2>. QED
    BY <2>1 DEF OfflineCheck, OfflineStep, OfflineStop, OfflineMark, OfflineModel, rtVars, manualVars, stopVars, rowVars,
                submitVars, runnerVars, RelBusy
<1>4. ASSUME NEW r \in Releases, ReleaseStep(r) \/ ReleaseLate(r) PROVE FALSE
  BY <1>1, <1>4
     DEF ReleaseRunning, ReleaseStep, ReleaseOpen, ReleaseReplace, ReleaseLaunch, ReleasePoll, FailStop, FailRestore,
         FinishPromote, FinishSupersede, FinishClose, ReleaseLate
<1>5. ASSUME RuntimeHandler
      PROVE  /\ UNCHANGED mPc /\ (MayAsk \/ RelBusy)
             /\ UNCHANGED container \/ \E ok \in BOOLEAN : AgentStop(ok)
  <2>1. ASSUME NEW m \in Manuals PROVE ~(ManualStep(m) \/ MonitorLate(m))
    BY <1>1 DEF Pending, ManualStep, ManualCreate, ManualLaunch, MonitorTick, MonitorLook, ManualClose, MonitorLate
  <2>2. ASSUME NEW m \in Manuals PROVE ~(MayStart /\ ManualLaneCheck(m, LedgerActive))
    BY <1>2 DEF ManualLaneCheck
  <2>3. StopStep \/ (MayAsk /\ StopCheck(BenchmarkActive))
    BY <1>5, <2>1, <2>2 DEF RuntimeHandler, MayStart
  <2>4. ASSUME NEW m \in Manuals, StopMark(m)
        PROVE  UNCHANGED <<mPc, container>> /\ RelBusy
    BY <2>4 DEF StopMark, RelBusy, RtBusy
  <2>5. ASSUME StopContainer \/ StopSelect \/ StopCheck(BenchmarkActive)
        PROVE  /\ UNCHANGED mPc
               /\ UNCHANGED container \/ \E ok \in BOOLEAN : AgentStop(ok)
    BY <2>5 DEF StopContainer, StopSelect, StopCheck, manualVars
  <2>6. StopContainer \/ StopSelect => RelBusy
    BY DEF StopContainer, StopSelect, RelBusy, RtBusy
  <2>. QED
    BY <2>3, <2>4, <2>5, <2>6 DEF StopStep
<1>6. ASSUME Boot \/ Die
      PROVE  UNCHANGED <<mPc, rtStop, stopRows>> /\ container'.state # "starting" /\ (Up' => Up)
  BY <1>1, <1>6 DEF Boot, Die, Up, manualVars, stopVars, Containers, Absent
<1>7. CASE \E r \in Releases : ReleaseHandler(r)
  <2>1. container'.state # "starting" /\ (Up' => Up)
    BY <1>1, <1>3, <1>7, StopStarts DEF Up
  <2>. QED
    BY <1>1, <1>3, <1>7, <2>1
<1>8. CASE RuntimeHandler /\ UNCHANGED relVars
  <2>1. container'.state # "starting" /\ (Up' => Up)
    BY <1>1, <1>5, <1>8, StopStarts DEF Up
  <2>. QED
    BY <1>1, <1>5, <1>8, <2>1 DEF relVars, submitVars, runnerVars
<1>9. CASE (Boot \/ Die) /\ UNCHANGED relVars
  BY <1>6, <1>9 DEF relVars, submitVars, runnerVars
<1>. QED
  BY <1>4, <1>7, <1>8, <1>9 DEF InferenceActor

\* While a benchmark is asked for or in the ledger, inference takes no step
\* towards the removal of the container.
LEMMA InferenceBesideBenchmark ==
  ASSUME LaneIInv, InferenceActor, OneOperator,
         BenchmarkActive \/ \E b \in Runs : bRequest[b] # "idle"
  PROVE  /\ ~ReleaseRunning'
         /\ BenchmarkActive =>
              /\ rtStop' # "checked"
              /\ \A r \in Releases : rStop'[r] # "current" /\ rRequest'[r] \in {"idle", "lane"}
         /\ (\E b \in Runs : bRequest[b] # "idle") => ~RelBusy'
<1> USE DEF LaneIInv, LaneOwnInv
<1>1. /\ ~ReleaseRunning
      /\ (\E b \in Runs : bRequest[b] # "idle") => ~RelBusy /\ ~MayAsk
      /\ BenchmarkActive =>
              /\ rtStop # "checked"
              /\ \A r \in Releases : rStop[r] # "current" /\ rRequest[r] \in {"idle", "lane"}
  BY ConcurrentAssumption DEF LoadInv, RequestInv, MayAsk, Answering, OneOperator
<1>2. /\ rRequest \in [Releases -> Submits] /\ rStop \in [Releases -> {"idle", "current", "stopped", "marked"}]
      /\ rRunner \in [Releases -> RelRunners]
      /\ mPc \in [Manuals -> {"idle", "checked", "created", "monitoring", "looking", "closing", "done"}]
  BY DEF ReleaseIInv, RelTypeOK, RtTypeOK
<1>3. ASSUME NEW r \in Releases, ReleaseStep(r) \/ ReleaseLate(r) PROVE FALSE
  BY <1>1, <1>3
     DEF ReleaseRunning, ReleaseStep, ReleaseOpen, ReleaseReplace, ReleaseLaunch, ReleasePoll, FailStop, FailRestore,
         FinishPromote, FinishSupersede, FinishClose, ReleaseLate
<1>4. ASSUME NEW r \in Releases, ReleaseHandler(r)
      PROVE  /\ UNCHANGED <<rRunner, rtStop>> /\ BenchmarkActive /\ ~\E b \in Runs : bRequest[b] # "idle"
             /\ \A k \in Releases : rStop'[k] # "current" /\ rRequest'[k] \in {"idle", "lane"}
  <2>1. MayAsk \/ RelBusy
    BY <1>4 DEF ReleaseHandler, ReleaseBenchmarkCheck, ReleaseAloneCheck, ReleaseCapture, ReleaseLink, ReleaseInsert,
       OfflineStep, OfflineStop, OfflineMark, OfflineModel, MayStart, RelBusy
  <2>2. BenchmarkActive /\ ~\E b \in Runs : bRequest[b] # "idle"
    BY <1>1, <2>1
  <2>3. CASE ReleaseLaneCheck(r, GateOpen(r) /\ ~LedgerActive)
    BY <1>1, <1>2, <2>2, <2>3 DEF ReleaseLaneCheck, RAt, rtVars, stopVars, runnerVars
  <2>4. CASE ReleaseBenchmarkCheck(r, BenchmarkActive)
    BY <1>1, <1>2, <2>2, <2>4 DEF ReleaseBenchmarkCheck, RAt, rtVars, stopVars, runnerVars
  <2>5. CASE OfflineMark(r) \/ OfflineModel(r)
    BY <1>1, <1>2, <2>2, <2>5 DEF OfflineMark, OfflineModel, rtVars, stopVars, runnerVars, submitVars
  <2>. QED
    BY <1>1, <1>4, <2>2, <2>3, <2>4, <2>5
       DEF ReleaseHandler, ReleaseAloneCheck, ReleaseCapture, ReleaseLink, ReleaseInsert, OfflineStep, OfflineStop,
           OfflineCheck
<1>5. ASSUME RuntimeHandler \/ Boot \/ Die, UNCHANGED relVars
      PROVE  /\ rtStop' = rtStop \/ (BenchmarkActive /\ RelBusy /\ rtStop' = "idle")
             /\ RelBusy' => RelBusy \/ MayAsk
  <2>1. ASSUME NEW m \in Manuals, ManualStep(m) \/ MonitorLate(m)
        PROVE  UNCHANGED <<rtStop, stopRows>>
               /\ \A k \in Manuals : mPc'[k] \in {"checked", "created"} => mPc[k] \in {"checked", "created"}
    <3>1. CASE ManualLaunch(m)
      BY <1>2, <3>1 DEF ManualLaunch, MGoto, stopVars
    <3>2. CASE MonitorLook(m)
      BY <1>2, <3>2 DEF MonitorLook, MGoto, stopVars
    <3>. QED
      BY <1>2, <2>1, <3>1, <3>2 DEF ManualStep, ManualCreate, MonitorTick, ManualClose, MonitorLate, MGoto, stopVars
  <2>2. ASSUME NEW m \in Manuals, MayStart, ManualLaneCheck(m, LedgerActive)
        PROVE  UNCHANGED rtStop /\ MayAsk
    BY <2>2 DEF ManualLaneCheck, stopVars, MayStart
  <2>3. ASSUME MayStart, StopCheck(BenchmarkActive) PROVE FALSE
    BY <1>1, <2>3 DEF StopCheck, MayStart
  <2>4. ASSUME StopStep
        PROVE  RelBusy /\ BenchmarkActive /\ rtStop' \in {rtStop, "idle"}
    <3>1. RelBusy
      BY <2>4 DEF StopStep, StopContainer, StopSelect, StopMark, RelBusy, RtBusy
    <3>2. BenchmarkActive
      BY <1>1, <3>1
    <3>. QED
      BY <1>1, <2>4, <3>1, <3>2 DEF StopStep, StopContainer, StopSelect, StopMark
  <2>5. ASSUME Boot \/ Die PROVE UNCHANGED <<rtStop, stopRows, mPc>>
    BY <2>5 DEF Boot, Die, stopVars, manualVars
  <2>6. UNCHANGED <<rRequest, rStop>>
    BY <1>5 DEF relVars, submitVars
  <2>7. CASE \E m \in Manuals : ManualStep(m) \/ MonitorLate(m)
    BY <2>1, <2>6, <2>7 DEF RelBusy, RtBusy
  <2>8. CASE Boot \/ Die
    BY <2>5, <2>6, <2>8 DEF RelBusy, RtBusy
  <2>. QED
    BY <1>5, <2>2, <2>3, <2>4, <2>7, <2>8 DEF RuntimeHandler
<1>6. CASE \E r \in Releases : ReleaseHandler(r)
  BY <1>1, <1>4, <1>6 DEF ReleaseRunning
<1>7. CASE (RuntimeHandler \/ Boot \/ Die) /\ UNCHANGED relVars
  <2>1. UNCHANGED <<rRequest, rRunner, rStop>>
    BY <1>7 DEF relVars, submitVars, runnerVars
  <2>. QED
    BY <1>1, <1>5, <1>7, <2>1 DEF ReleaseRunning
<1>. QED
  BY <1>3, <1>6, <1>7 DEF InferenceActor

\* What the releases and the direct control of the runtime do keeps them apart.
LEMMA InferenceKeeps ==
  ASSUME OneOperator, CoreIsWhole, LaneIInv, InferenceActor
  PROVE  LaneOwnInv'
<1> USE DEF LaneIInv, LaneOwnInv
<1>1. UNCHANGED <<request, status, bRequest, bStatus, bRunner, bCancel>>
  BY DEF InferenceActor, jVars, bVars
<1>2. LedgerActive' = LedgerActive /\ BenchmarkActive' = BenchmarkActive /\ (Trains <=> Trains')
  BY <1>1 DEF LedgerActive, BenchmarkActive, Trains
<1>3. RequestInv'
  <2>1. ASSUME NEW j \in Jobs, request[j] # "idle" PROVE ~RelBusy'
    <3>1. Trains
      BY <2>1 DEF Trains
    <3>2. UNCHANGED <<mPc, rRequest, rtStop, stopRows, rStop>>
      BY <2>1, <3>1, InferenceBesideTraining
    <3>. QED
      BY <2>1, <3>2 DEF RequestInv, RelBusy, RtBusy
  <2>2. ASSUME NEW b \in Runs, bRequest[b] # "idle" PROVE ~RelBusy'
    BY <2>2, InferenceBesideBenchmark
  <2>. QED
    BY <1>1, <2>1, <2>2 DEF RequestInv
<1>4. LedgerInv'
  BY <1>1, <1>2 DEF LedgerInv, LaneExclusive
<1>5. GpuInv'
  <2>1. CASE Trains
    <3>1. UNCHANGED <<mPc, rRequest, rRunner>> /\ container'.state # "starting" /\ (Up' => Up)
      BY <2>1, InferenceBesideTraining
    <3>. QED
      BY <1>1, <1>2, <2>1, <3>1 DEF GpuInv, ReleaseRunning, Pending
  <2>2. CASE ~Trains
    BY <1>1, <1>2, <2>2 DEF GpuInv, Trains
  <2>. QED
    BY <2>1, <2>2
<1>6. LoadInv'
  BY <1>1, <1>2, InferenceBesideBenchmark DEF LoadInv
<1>7. GateInv'
  <2>1. SUFFICES ASSUME NEW r \in Releases, rRequest'[r] # "idle" \/ r \in Inserted'
                 PROVE  \E b \in Runs : /\ bStatus[b] = "completed" /\ bCancel[b] = "idle"
                                        /\ RunConfig[b] = ReleaseConfig[r]
    BY <1>1 DEF GateInv
  <2>2. CASE MayStart /\ ReleaseLaneCheck(r, GateOpen(r) /\ ~LedgerActive)
    <3>1. PICK b \in Runs : bStatus[b] = "completed" /\ Core[RunConfig[b]] = Core[ReleaseConfig[r]]
      BY <2>2 DEF ReleaseLaneCheck, GateOpen
    <3>2. bCancel[b] = "idle"
      BY <2>2, ConcurrentAssumption DEF MayStart, MayAsk, Answering, OneOperator
    <3>3. RunConfig[b] = ReleaseConfig[r]
      BY <3>1, RunConfigAssumption, ReleaseConfigAssumption DEF CoreIsWhole
    <3>. QED
      BY <3>1, <3>2, <3>3
  <2>3. CASE rRequest[r] # "idle" \/ r \in Inserted
    BY <2>3 DEF GateInv
  <2>4. CASE UNCHANGED <<rRequest, rStatus>>
    BY <2>1, <2>3, <2>4 DEF Inserted
  <2>5. ASSUME NEW k \in Releases, ReleaseHandler(k), k # r \/ ~(MayStart /\ ReleaseLaneCheck(r, GateOpen(r) /\ ~LedgerActive))
        PROVE  rRequest[r] # "idle" \/ r \in Inserted
    <3>1. /\ rRequest \in [Releases -> Submits]
          /\ rStatus \in [Releases -> {"absent", "running", "success", "failed", "rolled_back"}]
      BY DEF ReleaseIInv, RelTypeOK
    <3>2. CASE ReleaseInsert(k)
      BY <2>1, <3>1, <3>2 DEF ReleaseInsert, RAt, Inserted
    <3>3. CASE OfflineStep(k)
      <4>1. UNCHANGED rRequest /\ rStatus' \in {rStatus, [rStatus EXCEPT ![k] = "rolled_back"]}
        BY <3>3 DEF OfflineStep, OfflineStop, OfflineMark, OfflineModel, RtWrite, submitVars, rowVars
      <4>2. OfflineMark(k) => rStatus[k] = "success"
        BY DEF OfflineMark, ReleaseIInv, ProgressInv
      <4>3. ~OfflineMark(k) => rStatus' = rStatus
        BY <3>3 DEF OfflineStep, OfflineStop, OfflineModel, rowVars
      <4>. QED
        BY <2>1, <3>1, <4>1, <4>2, <4>3 DEF Inserted
    <3>4. CASE MayStart /\ ReleaseLaneCheck(k, GateOpen(k) /\ ~LedgerActive)
      BY <2>1, <2>5, <3>1, <3>4 DEF ReleaseLaneCheck, RAt, rowVars, Inserted
    <3>5. CASE OfflineCheck(k, BenchmarkActive)
      BY <2>1, <3>5 DEF OfflineCheck, rowVars, submitVars, Inserted
    <3>6. CASE \/ ReleaseBenchmarkCheck(k, BenchmarkActive) \/ ReleaseAloneCheck(k)
               \/ ReleaseCapture(k) \/ ReleaseLink(k)
      <4>1. UNCHANGED rStatus /\ rRequest[k] # "idle" /\ \E q : rRequest' = [rRequest EXCEPT ![k] = q]
        BY <3>6 DEF ReleaseBenchmarkCheck, ReleaseAloneCheck, ReleaseCapture, ReleaseLink, RAt, rowVars
      <4>. QED
        BY <2>1, <3>1, <4>1 DEF Inserted
    <3>. QED
      BY <2>5, <3>2, <3>3, <3>4, <3>5, <3>6 DEF ReleaseHandler
  <2>6. ASSUME NEW k \in Releases, ReleaseStep(k) \/ ReleaseLate(k)
        PROVE  rRequest[r] # "idle" \/ r \in Inserted
    <3>1. UNCHANGED rRequest /\ \A j \in Releases : rStatus'[j] # "absent" => rStatus[j] # "absent"
      <4>1. CASE FinishSupersede(k) \/ FinishClose(k)
        <5>1. \A j \in Releases : rStatus[j] = "absent" => ~Working(j) /\ ~(j = previousId[k] /\ Supersedes(k))
          BY DEF ReleaseIInv, ProgressInv, ProductionInv, Working
        <5>2. UNCHANGED rRequest /\ Working(k) /\ (FinishSupersede(k) => Supersedes(k))
          BY <4>1 DEF FinishSupersede, FinishClose, submitVars, Working, Supersedes
        <5>3. rStatus \in [Releases -> {"absent", "running", "success", "failed", "rolled_back"}]
          BY DEF ReleaseIInv, RelTypeOK
        <5>4. CASE FinishSupersede(k)
          BY <5>1, <5>2, <5>3, <5>4 DEF FinishSupersede, RtWrite
        <5>5. CASE FinishClose(k)
          BY <5>1, <5>2, <5>3, <5>5 DEF FinishClose, RtWrite
        <5>. QED
          BY <4>1, <5>2, <5>4, <5>5
      <4>2. CASE ~(FinishSupersede(k) \/ FinishClose(k))
        BY <2>6, <4>2 DEF ReleaseStep, ReleaseOpen, ReleaseReplace, ReleaseLaunch, ReleasePoll, FailStop, FailRestore,
           FinishPromote, ReleaseLate, submitVars, rowVars
      <4>. QED
        BY <4>1, <4>2
    <3>. QED
      BY <2>1, <3>1 DEF Inserted
  <2>7. UNCHANGED relVars => UNCHANGED <<rRequest, rStatus>>
    BY DEF relVars, submitVars, rowVars
  <2>. QED
    BY <2>2, <2>3, <2>4, <2>5, <2>6, <2>7 DEF InferenceActor
<1>. QED
  BY <1>3, <1>4, <1>5, <1>6, <1>7

--------------------------------------------------------------------------------
(* The theorems.                                                              *)

\* One process: what was asked for and not answered is forgotten by all three.
LEMMA LaneCrashKeeps == ASSUME LaneIInv, LaneCrash PROVE LaneOwnInv'
<1> USE DEF LaneIInv, LaneOwnInv
<1>1. /\ UNCHANGED <<status, bStatus, container, rStatus>>
      /\ request' = [j \in Jobs |-> "idle"]
      /\ bRequest' = [b \in Runs |-> "idle"] /\ bCancel' = [b \in Runs |-> "idle"]
      /\ bRunner' = [b \in Runs |-> IF bRunner[b] = "none" THEN "none" ELSE "done"]
      /\ rtStop' = "idle" /\ rRequest' = [r \in Releases |-> "idle"] /\ rStop' = [r \in Releases |-> "idle"]
      /\ rRunner' = [r \in Releases |-> IF rRunner[r] = "none" THEN "none" ELSE "done"]
      /\ mPc' = [m \in Manuals |-> IF mPc[m] \in {"idle", "checked"} THEN "idle" ELSE "done"]
  BY DEF LaneCrash, JCrash, BCrash, RelCrash, RtCrash, rowVars
<1>2. /\ LedgerActive' = LedgerActive /\ BenchmarkActive' = BenchmarkActive /\ Inserted' = Inserted /\ Up' = Up
      /\ ~ReleaseRunning' /\ \A m \in Manuals : ~Pending(m)'
  BY <1>1 DEF LedgerActive, BenchmarkActive, Inserted, Up, ReleaseRunning, Pending
<1>3. RequestInv' /\ LedgerInv'
  BY <1>1, <1>2 DEF RequestInv, LedgerInv, LaneExclusive
<1>4. GpuInv'
  BY <1>1, <1>2 DEF GpuInv, Trains
<1>5. LoadInv' /\ GateInv'
  BY <1>1, <1>2 DEF LoadInv, GateInv
<1>. QED
  BY <1>3, <1>4, <1>5

\* Every step keeps the lane's invariant, its components' invariants included.
LEMMA LaneStepHolds ==
  ASSUME OneOperator, CoreIsWhole, LaneIInv, [LaneNext]_laneVars
  PROVE  LaneIInv'
<1>1. LaneOwnInv'
  <2>1. CASE UNCHANGED laneVars
    BY <2>1 DEF laneVars, jVars, bVars, relAll, relVars, rowVars, submitVars, runnerVars, rtVars, manualVars, stopVars,
       LaneIInv, LaneOwnInv, RequestInv, LedgerInv, GpuInv, LoadInv, GateInv, Trains, LaneExclusive, LedgerActive,
       BenchmarkActive, RelBusy, RtBusy, ReleaseRunning, Pending, Inserted, Up
  <2>. QED
    BY <2>1, TrainingKeeps, BenchmarkKeeps, InferenceKeeps, LaneCrashKeeps DEF LaneNext
<1>2. [JNext]_jVars /\ [BNext]_bVars /\ [RelNext]_relAll
  BY LaneStepImplements DEF OneOperator, Settled, laneVars
<1>3. JInv' /\ ReleaseIInv'
  BY <1>2, InvStep, ReleaseStepHolds DEF LaneIInv, OneOperator
<1>4. BInv'
  <2>1. CASE UNCHANGED bVars
    BY <2>1 DEF LaneIInv, bVars, BInv, BTypeOK, BStartInv, BLoopInv, BWholeInv, BMapInv, CancelReachesRunner, Live
  <2>. QED
    BY <1>2, <2>1, BHandlerStep, BRunnerStepHolds, BCrashHolds DEF BNext, LaneIInv, OneOperator
<1>. QED
  BY <1>1, <1>3, <1>4 DEF LaneIInv

\* The invariant holds throughout.
LEMMA LaneAlways ==
  ASSUME OneOperator, CoreIsWhole PROVE LaneSpec => []LaneIInv
<1>1. LaneInit => LaneIInv
  BY LaneInitImplements, JInitHolds, BInitHolds, ReleaseInitHolds, LaneOwnInit DEF LaneIInv
<1>. QED
  BY <1>1, LaneStepHolds, PTL DEF LaneSpec

\* Training and inference never overlap in the ledger nor on the GPUs, and every
\* release rests on a completed benchmark of its own configuration
\* (activeTrainingJob, activeBenchmarkRun, loadInferenceReleaseCandidate).
THEOREM LaneHolds ==
  ASSUME OneOperator, CoreIsWhole PROVE LaneSpec => []LaneInv
<1>1. LaneIInv => LaneInv
  <2>1. ASSUME LaneIInv, NEW j \in Jobs, Training(j), Up PROVE j \in late
    BY <2>1 DEF LaneIInv, LaneOwnInv, JInv, TrainingIsVisible, GpuInv, LedgerActive
  <2>2. LaneIInv => GateIsAboutConfig
    BY DEF LaneIInv, LaneOwnInv, GateInv, GateIsAboutConfig, Inserted
  <2>. QED
    BY <2>1, <2>2 DEF LaneInv, GpuExclusive, LaneIInv, LaneOwnInv, LedgerInv
<1>. QED
  BY <1>1, LaneAlways, PTL

\* With a Docker that answers, nothing removes the container under a benchmark
\* that still sends requests and was not cancelled.
THEOREM LoadHolds ==
  ASSUME OneOperator, CoreIsWhole, "docker" \notin RtFaults PROVE LaneSpec => LoadKeepsRuntime
<1> DEFINE Kept == \A b \in Runs : Loading(b) /\ b \notin ctxDone /\ Up => container'.state # "absent"
<1>1. ASSUME LaneIInv, [LaneNext]_laneVars PROVE [Kept]_container
  <2>1. SUFFICES ASSUME NEW b \in Runs, Loading(b), b \notin ctxDone, Up, container'.state = "absent", LaneNext
                 PROVE  FALSE
    BY <1>1 DEF laneVars, relAll, rtVars
  <2>2. BenchmarkActive
    BY <1>1, <2>1 DEF LaneIInv, BInv, BLoopInv, Loading, BenchmarkActive
  <2>3. ~ReleaseRunning /\ rtStop # "checked" /\ \A r \in Releases : rStop[r] # "current"
    BY <1>1, <2>2 DEF LaneIInv, LaneOwnInv, LoadInv
  <2>4. container.state # "absent"
    BY <2>1 DEF Up
  <2>5. ASSUME NEW c, NEW ok, AgentStart(c, ok) PROVE FALSE
    BY <2>1, <2>4, <2>5 DEF AgentStart, Launched
  <2>6. ASSUME NEW r \in Releases, ReleaseStep(r) \/ OfflineStop(r) PROVE FALSE
    BY <2>3, <2>6 DEF ReleaseRunning, OfflineStop, ReleaseStep, ReleaseOpen, ReleaseReplace, ReleaseLaunch, ReleasePoll,
       FailStop, FailRestore, FinishPromote, FinishSupersede, FinishClose
  <2>7. ASSUME NEW m \in Manuals, ManualLaunch(m) PROVE FALSE
    BY <2>5, <2>7 DEF ManualLaunch
  <2>8. ~StopContainer /\ ~Boot /\ ~Die
    BY <1>1, <2>1, <2>3 DEF StopContainer, Boot, Die, LaneIInv, ReleaseIInv, RelTypeOK, RtTypeOK, Containers, Absent
  <2>9. container' = container
    <3>1. TrainingActor \/ BenchmarkActor \/ LaneCrash => UNCHANGED container
      BY DEF TrainingActor, BenchmarkActor, LaneCrash, RelCrash, RtCrash, relAll, rtVars
    <3>2. ASSUME NEW r \in Releases, ReleaseHandler(r) \/ ReleaseLate(r), ~OfflineStop(r) PROVE UNCHANGED container
      BY <3>2 DEF ReleaseHandler, ReleaseLaneCheck, ReleaseBenchmarkCheck, ReleaseAloneCheck, ReleaseCapture,
         ReleaseLink, ReleaseInsert, OfflineCheck, OfflineStep, OfflineMark, OfflineModel, ReleaseLate, rtVars
    <3>3. ASSUME RuntimeHandler PROVE UNCHANGED container
      BY <2>7, <2>8, <3>3 DEF RuntimeHandler, ManualLaneCheck, ManualStep, ManualCreate, MonitorTick, MonitorLook,
         ManualClose, MonitorLate, StopCheck, StopStep, StopSelect, StopMark
    <3>. QED
      BY <2>1, <2>6, <2>8, <3>1, <3>2, <3>3 DEF LaneNext, InferenceActor
  <2>. QED
    BY <2>1, <2>4, <2>9
<1>. QED
  BY <1>1, LaneAlways, PTL DEF LaneSpec, LoadKeepsRuntime
================================================================================
