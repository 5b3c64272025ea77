----------------------------- MODULE BenchmarkRun -----------------------------
(***************************************************************************)
(* One serving benchmark from the POST that inserts its row to the last    *)
(* write of its runner: httpx/benchmarks.go (create, cancel) and           *)
(* httpx/benchmark_runner.go (the goroutine that walks the matrix of       *)
(* scenarios).                                                             *)
(*                                                                         *)
(* Cancellation travels on two paths that are not one step: the cancel     *)
(* function of the runner's context, kept in the process-wide map          *)
(* benchmarkCancels, and the row's status.  The runner's own UPDATEs use   *)
(* that context, so one that has not been sent when it is cancelled fails, *)
(* and one that is on its way may or may not take effect.                  *)
(***************************************************************************)
EXTENDS Naturals, FiniteSets

CONSTANTS
  Runs,          \* rows of benchmark_runs that may be created
  Scenarios,     \* size of the matrix: context lengths times concurrency levels
  BCancelFrom,   \* ledger statuses at which a client sends DELETE
  BFaults,       \* which of "crash", "panic", "db", "disconnect" may strike
  BMaxCrashes    \* bound: restarts of the control plane in one behaviour

BActive   == {"queued", "running"}
BTerminal == {"completed", "failed", "cancelled"}

ASSUME ScenariosAssumption == Scenarios \in Nat \ {0}
ASSUME BCancelAssumption   == BCancelFrom \subseteq BActive \cup BTerminal
ASSUME BCrashAssumption    == BMaxCrashes \in Nat

VARIABLES
  bRequest,   \* create handler of each run: how far it is
  bStatus,    \* benchmark_runs.status
  cancels,    \* runs with an entry in benchmarkCancels
  ctxDone,    \* runs whose context has been cancelled
  bRunner,    \* program counter of the run's goroutine
  done,       \* scenarios summarised so far
  cut,        \* some scenario stopped before its last request
  bCancel,    \* cancel handler of each run: how far it is
  bCrashes

bVars == <<bRequest, bStatus, cancels, ctxDone, bRunner, done, cut, bCancel,
           bCrashes>>

BRunners == {"none", "starting", "marking", "loop", "scenario", "stopping",
             "report", "completing", "exit", "done"}

BTypeOK ==
  /\ bRequest \in [Runs -> {"idle", "lane", "checked", "inserted"}]
  /\ bStatus \in [Runs -> {"absent"} \cup BActive \cup BTerminal]
  /\ cancels \subseteq Runs
  /\ ctxDone \subseteq Runs
  /\ bRunner \in [Runs -> BRunners]
  /\ done \in [Runs -> 0..Scenarios]
  /\ cut \subseteq Runs
  /\ bCancel \in [Runs -> {"idle", "read", "fired"}]
  /\ bCrashes \in 0..BMaxCrashes

BInit ==
  /\ bRequest = [r \in Runs |-> "idle"]
  /\ bStatus = [r \in Runs |-> "absent"]
  /\ cancels = {}
  /\ ctxDone = {}
  /\ bRunner = [r \in Runs |-> "none"]
  /\ done = [r \in Runs |-> 0]
  /\ cut = {}
  /\ bCancel = [r \in Runs |-> "idle"]
  /\ bCrashes = 0

\* What the other components of the lane look at: activeBenchmarkRun finds a row.
BenchmarkActive == \E r \in Runs : bStatus[r] \in BActive

\* The runner is sending requests to the endpoint.
Loading(r) == bRunner[r] = "scenario"

Live(r) == bRunner[r] \notin {"none", "done"}

BGoto(r, pc) == bRunner' = [bRunner EXCEPT ![r] = pc]

\* ctx.Err() # nil, as the runner asks it.
CtxErr(r) == r \in ctxDone

\* UPDATE benchmark_runs SET status; the runner drops the error it may return.
BWrite(r, s) ==
  \/ bStatus' = [bStatus EXCEPT ![r] = s]
  \/ "db" \in BFaults /\ UNCHANGED bStatus

\* An UPDATE that was sent with a live context: if the context is cancelled
\* before the answer, it may have taken effect or not.
BLand(r, s) == BWrite(r, s) \/ (CtxErr(r) /\ UNCHANGED bStatus)

--------------------------------------------------------------------------------
(* createServingBenchmark *)

CreateLaneCheck(r, trainingActive) ==
  /\ bStatus[r] = "absent" /\ bRequest[r] = "idle"
  /\ ~trainingActive
  /\ bRequest' = [bRequest EXCEPT ![r] = "lane"]
  /\ UNCHANGED <<bStatus, cancels, ctxDone, bRunner, done, cut, bCancel, bCrashes>>

\* resolveEndpoint and validateLocalInferenceConfig: the endpoint answers with
\* the configuration the request names.
CreateEndpointCheck(r, endpointReady) ==
  /\ bRequest[r] = "lane"
  /\ endpointReady
  /\ bRequest' = [bRequest EXCEPT ![r] = "checked"]
  /\ UNCHANGED <<bStatus, cancels, ctxDone, bRunner, done, cut, bCancel, bCrashes>>

CreateRefused(r, endpointReady) ==
  /\ bRequest[r] = "lane"
  /\ ~endpointReady
  /\ bRequest' = [bRequest EXCEPT ![r] = "idle"]
  /\ UNCHANGED <<bStatus, cancels, ctxDone, bRunner, done, cut, bCancel, bCrashes>>

CreateInsert(r) ==
  /\ bRequest[r] = "checked"
  /\ bRequest' = [bRequest EXCEPT ![r] = "inserted"]
  /\ bStatus' = [bStatus EXCEPT ![r] = "queued"]
  /\ UNCHANGED <<cancels, ctxDone, bRunner, done, cut, bCancel, bCrashes>>

\* The row has been visible for a while when its cancel function is stored.
CreateLaunch(r) ==
  /\ bRequest[r] = "inserted"
  /\ bRequest' = [bRequest EXCEPT ![r] = "idle"]
  /\ cancels' = cancels \cup {r}
  /\ BGoto(r, "starting")
  /\ UNCHANGED <<bStatus, ctxDone, done, cut, bCancel, bCrashes>>

--------------------------------------------------------------------------------
(* runServingBenchmark *)

\* UPDATE ... 'running': sent, or refused at once by a cancelled context.
BRunnerStart(r) ==
  /\ bRunner[r] = "starting"
  /\ BGoto(r, IF CtxErr(r) THEN "loop" ELSE "marking")
  /\ UNCHANGED <<bRequest, bStatus, cancels, ctxDone, done, cut, bCancel, bCrashes>>

BRunnerMarked(r) ==
  /\ bRunner[r] = "marking"
  /\ BLand(r, "running")
  /\ BGoto(r, "loop")
  /\ UNCHANGED <<bRequest, cancels, ctxDone, done, cut, bCancel, bCrashes>>

ScenarioStart(r) ==
  /\ bRunner[r] = "loop"
  /\ done[r] < Scenarios /\ ~CtxErr(r)
  /\ BGoto(r, "scenario")
  /\ UNCHANGED <<bRequest, bStatus, cancels, ctxDone, done, cut, bCancel, bCrashes>>

\* A context cancelled while the scenario ran may have cut it short: its summary
\* then counts requests that were never sent as neither errors nor successes.
ScenarioEnd(r) ==
  /\ bRunner[r] = "scenario"
  /\ done' = [done EXCEPT ![r] = @ + 1]
  /\ \/ UNCHANGED cut
     \/ r \in ctxDone /\ cut' = cut \cup {r}
  /\ BGoto(r, "loop")
  /\ UNCHANGED <<bRequest, bStatus, cancels, ctxDone, bCancel, bCrashes>>

LoopCancelled(r) ==
  /\ bRunner[r] = "loop"
  /\ CtxErr(r)
  /\ BGoto(r, "stopping")
  /\ UNCHANGED <<bRequest, bStatus, cancels, ctxDone, done, cut, bCancel, bCrashes>>

\* finishCancelledBenchmark: with a fresh context, and only if not yet ended.
FinishCancelled(r) ==
  /\ bRunner[r] = "stopping"
  /\ IF bStatus[r] \in {"completed", "failed"}
       THEN UNCHANGED bStatus
       ELSE BWrite(r, "cancelled")
  /\ BGoto(r, "exit")
  /\ UNCHANGED <<bRequest, cancels, ctxDone, done, cut, bCancel, bCrashes>>

LoopFinished(r) ==
  /\ bRunner[r] = "loop"
  /\ done[r] = Scenarios /\ ~CtxErr(r)
  /\ BGoto(r, "report")
  /\ UNCHANGED <<bRequest, bStatus, cancels, ctxDone, done, cut, bCancel, bCrashes>>

\* After the report is uploaded: UPDATE ... 'completed' with the run's context.
SendCompleted(r) ==
  /\ bRunner[r] = "report"
  /\ BGoto(r, IF CtxErr(r) THEN "exit" ELSE "completing")
  /\ UNCHANGED <<bRequest, bStatus, cancels, ctxDone, done, cut, bCancel, bCrashes>>

Completed(r) ==
  /\ bRunner[r] = "completing"
  /\ BLand(r, "completed")
  /\ BGoto(r, "exit")
  /\ UNCHANGED <<bRequest, cancels, ctxDone, done, cut, bCancel, bCrashes>>

\* recover(): failBenchmark, with a fresh context and unconditionally.
Panic(r) ==
  /\ "panic" \in BFaults
  /\ bRunner[r] \in {"starting", "loop", "scenario", "report"}
  /\ BWrite(r, "failed")
  /\ BGoto(r, "exit")
  /\ UNCHANGED <<bRequest, cancels, ctxDone, done, cut, bCancel, bCrashes>>

\* The deferred benchmarkCancels.Delete.
BRunnerExit(r) ==
  /\ bRunner[r] = "exit"
  /\ cancels' = cancels \ {r}
  /\ BGoto(r, "done")
  /\ UNCHANGED <<bRequest, bStatus, ctxDone, done, cut, bCancel, bCrashes>>

BRunnerStep(r) ==
  \/ BRunnerStart(r) \/ BRunnerMarked(r) \/ ScenarioStart(r) \/ ScenarioEnd(r)
  \/ LoopCancelled(r) \/ FinishCancelled(r) \/ LoopFinished(r)
  \/ SendCompleted(r) \/ Completed(r) \/ BRunnerExit(r)

--------------------------------------------------------------------------------
(* cancelServingBenchmark: read the status, call the cancel function if the  *)
(* map has one, write 'cancelled' whatever the status is by then.            *)

\* Mutant: the row is written without calling the cancel function.
CancelReadSkipsFire(r) ==
  /\ bStatus[r] \in BCancelFrom \cap BActive
  /\ bCancel[r] = "idle"
  /\ bCancel' = [bCancel EXCEPT ![r] = "fired"]
  /\ UNCHANGED <<bRequest, bStatus, cancels, ctxDone, bRunner, done, cut, bCrashes>>

\* A run that already ended answers with its status and changes nothing.
CancelRead(r) ==
  /\ bStatus[r] \in BCancelFrom \cap BActive
  /\ bCancel[r] = "idle"
  /\ bCancel' = [bCancel EXCEPT ![r] = "read"]
  /\ UNCHANGED <<bRequest, bStatus, cancels, ctxDone, bRunner, done, cut, bCrashes>>

CancelFire(r) ==
  /\ bCancel[r] = "read"
  /\ ctxDone' = IF r \in cancels THEN ctxDone \cup {r} ELSE ctxDone
  /\ bCancel' = [bCancel EXCEPT ![r] = "fired"]
  /\ UNCHANGED <<bRequest, bStatus, cancels, bRunner, done, cut, bCrashes>>

\* Mutant: the last word on a run that was told to stop is left to its runner.
BCancelWriteLeavesIt(r) ==
  /\ bCancel[r] = "fired"
  /\ IF r \in ctxDone THEN UNCHANGED bStatus ELSE BWrite(r, "cancelled")
  /\ bCancel' = [bCancel EXCEPT ![r] = "idle"]
  /\ UNCHANGED <<bRequest, cancels, ctxDone, bRunner, done, cut, bCrashes>>

BCancelWrite(r) ==
  /\ bCancel[r] = "fired"
  /\ BWrite(r, "cancelled")
  /\ bCancel' = [bCancel EXCEPT ![r] = "idle"]
  /\ UNCHANGED <<bRequest, cancels, ctxDone, bRunner, done, cut, bCrashes>>

\* The client goes away: r.Context() is cancelled and the UPDATE fails.
CancelDisconnect(r) ==
  /\ "disconnect" \in BFaults
  /\ bCancel[r] = "fired"
  /\ bCancel' = [bCancel EXCEPT ![r] = "idle"]
  /\ UNCHANGED <<bRequest, bStatus, cancels, ctxDone, bRunner, done, cut, bCrashes>>

--------------------------------------------------------------------------------

\* Goroutines, handlers and the map die with the process; rows stay as they are.
BCrash ==
  /\ "crash" \in BFaults
  /\ bCrashes < BMaxCrashes
  /\ bCrashes' = bCrashes + 1
  /\ bRequest' = [r \in Runs |-> "idle"]
  /\ bRunner' = [r \in Runs |-> IF bRunner[r] = "none" THEN "none" ELSE "done"]
  /\ cancels' = {}
  /\ bCancel' = [r \in Runs |-> "idle"]
  /\ UNCHANGED <<bStatus, ctxDone, done, cut>>

BHandler(r) ==
  \/ CreateLaneCheck(r, FALSE)
  \/ \E ready \in BOOLEAN : CreateEndpointCheck(r, ready) \/ CreateRefused(r, ready)
  \/ CreateInsert(r) \/ CreateLaunch(r)
  \/ CancelRead(r) \/ CancelFire(r) \/ BCancelWrite(r) \/ CancelDisconnect(r)

BNext ==
  \/ \E r \in Runs : BHandler(r) \/ BRunnerStep(r) \/ Panic(r)
  \/ BCrash

BSpec == BInit /\ [][BNext]_bVars

\* A goroutine runs on, and so does a handler that has begun: requests have a
\* timeout of 120 s and database calls return.
BFairness ==
  \A r \in Runs : /\ WF_bVars(BRunnerStep(r))
                  /\ WF_bVars(CreateLaunch(r))
                  /\ WF_bVars(CancelFire(r))
                  /\ WF_bVars(BCancelWrite(r))

--------------------------------------------------------------------------------
(* Properties *)

\* A completed run measured its whole matrix: the release gate reads rates that
\* were computed over every request of every scenario, so a run whose scenario
\* was cut short by a cancellation must never be recorded as completed.
CompletedIsWhole ==
  \A r \in Runs : bStatus[r] = "completed" => done[r] = Scenarios /\ r \notin cut

\* A runner that still sends load can be seen in the ledger by the lane's
\* guards, or has been told to stop.
LoadIsVisible ==
  \A r \in Runs : Loading(r) => bStatus[r] \in BActive \/ r \in ctxDone

\* benchmarkCancels holds exactly the runs that can be cancelled: no live runner
\* escapes it and no finished one stays in it.
CancelsAreLive == cancels = {r \in Runs : Live(r)}

\* The cancel handler of a run in flight reaches its runner.
CancelReachesRunner ==
  \A r \in Runs : bCancel[r] = "fired" /\ Live(r) => r \in ctxDone

\* The three books of a run agree: its row, the map of cancel functions and what
\* its runner is doing.
BenchmarkInv ==
  CompletedIsWhole /\ LoadIsVisible /\ CancelsAreLive /\ CancelReachesRunner

\* Every accepted run leaves the active rows, by its runner or its cancellation:
\* also when the cancellation lands between the runner's last look at its
\* context and its last UPDATE, which then fails.
EveryRunEnds ==
  \A r \in Runs : bStatus[r] = "queued" ~> bStatus[r] \in BTerminal

================================================================================
