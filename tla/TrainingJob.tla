------------------------------ MODULE TrainingJob ------------------------------
(***************************************************************************)
(* One training job from submission to its ledger's last word:             *)
(* httpx/training_handlers.go (submit, cancel), httpx/training_runner.go   *)
(* (the goroutine that owns the job), store/training.go (the ledger) and   *)
(* the PyTorchJob custom resource the runner creates and polls.            *)
(*                                                                         *)
(* Three actors write training_jobs.status with an unconditional UPDATE:   *)
(* the submit handler (INSERT 'pending'), the runner and the cancel        *)
(* handler.  None of them holds a lock, so every gap between two of their  *)
(* calls is a step boundary here.                                          *)
(***************************************************************************)
EXTENDS Naturals, FiniteSets

CONSTANTS
  Jobs,        \* rows of training_jobs that may be submitted
  Names,       \* namespace/name of PyTorchJobs
  NameOf,      \* the name each submission asks for (req.Name is not unique)
  VersionOf,   \* the (model_id, version) each submission registers as
  CancelFrom,  \* ledger statuses at which a client sends DELETE
  Faults,      \* which of "crash", "db", "lost_reply" may strike
  MaxCrashes   \* bound: restarts of the control plane in one behaviour

Active   == {"pending", "running"}
Terminal == {"succeeded", "failed", "cancelled"}
Verdicts == {"none", "succeeded", "failed"}
NoJob    == "nojob"

ASSUME JobsAssumption   == NoJob \notin Jobs
ASSUME NameOfAssumption == NameOf \in [Jobs -> Names]
ASSUME CancelAssumption == CancelFrom \subseteq Active \cup Terminal
ASSUME CrashAssumption  == MaxCrashes \in Nat

VARIABLES
  request,     \* submit handler of each job: which checks it has passed
  status,      \* training_jobs.status
  crd,         \* the PyTorchJob of each name: phase, and the job it runs for
  runner,      \* program counter of the job's runner goroutine
  verdict,     \* the status argument of the pending finishTraining call
  late,        \* jobs whose runner is past its deadline of 6 h
  cancelling,  \* jobs whose cancel handler has deleted but not yet written
  artifacts,   \* jobs whose container wrote its adapter to OUTPUT_URI
  registered,  \* jobs whose output is a model version in the registry
  crashes

jVars == <<request, status, crd, runner, verdict, late, cancelling,
          artifacts, registered, crashes>>

Phases  == {"absent", "active", "succeeded", "failed"}
Runners == {"none", "submitting", "refused", "submitted", "polling", "ticked",
            "finishing", "registering", "done"}

JTypeOK ==
  /\ request \in [Jobs -> {"idle", "lane", "checked"}]
  /\ status \in [Jobs -> {"absent"} \cup Active \cup Terminal]
  /\ crd \in [Names -> [phase : Phases, by : Jobs \cup {NoJob}]]
  /\ runner \in [Jobs -> Runners]
  /\ verdict \in [Jobs -> Verdicts]
  /\ late \subseteq Jobs
  /\ cancelling \subseteq Jobs
  /\ artifacts \subseteq Jobs
  /\ registered \subseteq Jobs
  /\ crashes \in 0..MaxCrashes

JInit ==
  /\ request = [j \in Jobs |-> "idle"]
  /\ status = [j \in Jobs |-> "absent"]
  /\ crd = [n \in Names |-> [phase |-> "absent", by |-> NoJob]]
  /\ runner = [j \in Jobs |-> "none"]
  /\ verdict = [j \in Jobs |-> "none"]
  /\ late = {}
  /\ cancelling = {}
  /\ artifacts = {}
  /\ registered = {}
  /\ crashes = 0

\* Mutant: a job that waits for its pods is forgotten.
LedgerActiveRunningOnly == \E j \in Jobs : status[j] = "running"

\* What the other components of the lane look at: activeTrainingJob finds a row.
LedgerActive == \E j \in Jobs : status[j] \in Active

\* The PyTorchJob that job j created is still training.
Training(j) == crd[NameOf[j]].phase = "active" /\ crd[NameOf[j]].by = j

JGoto(j, pc) == runner' = [runner EXCEPT ![j] = pc]

\* UPDATE training_jobs SET status; the runner drops the error it may return.
WriteStatus(j, s) ==
  \/ status' = [status EXCEPT ![j] = s]
  \/ "db" \in Faults /\ UNCHANGED status

--------------------------------------------------------------------------------
(* submitTrainingJob: two checks of the lane, then the INSERT and the `go`. *)

SubmitLaneCheck(j, benchmarkActive) ==
  /\ status[j] = "absent" /\ request[j] = "idle"
  /\ ~benchmarkActive
  /\ request' = [request EXCEPT ![j] = "lane"]
  /\ UNCHANGED <<status, crd, runner, verdict, late, cancelling, artifacts,
                 registered, crashes>>

\* An unavailable GPU snapshot skips the memory check.
SubmitGpuCheck(j, gpuBusy) ==
  /\ request[j] = "lane"
  /\ ~gpuBusy
  /\ request' = [request EXCEPT ![j] = "checked"]
  /\ UNCHANGED <<status, crd, runner, verdict, late, cancelling, artifacts,
                 registered, crashes>>

\* 409 gpu_lane_busy: the request ends without a row.
SubmitRefused(j, gpuBusy) ==
  /\ request[j] = "lane"
  /\ gpuBusy
  /\ request' = [request EXCEPT ![j] = "idle"]
  /\ UNCHANGED <<status, crd, runner, verdict, late, cancelling, artifacts,
                 registered, crashes>>

SubmitInsert(j) ==
  /\ request[j] = "checked"
  /\ request' = [request EXCEPT ![j] = "idle"]
  /\ status' = [status EXCEPT ![j] = "pending"]
  /\ JGoto(j, "submitting")
  /\ UNCHANGED <<crd, verdict, late, cancelling, artifacts, registered, crashes>>

--------------------------------------------------------------------------------
(* runTrainingJob: create the PyTorchJob, then poll it. *)

\* The name is free: the custom resource is created.  A lost reply looks like a
\* refusal to the runner although the job is now training.
RunnerCreate(j) ==
  /\ runner[j] = "submitting"
  /\ crd[NameOf[j]].phase = "absent"
  /\ crd' = [crd EXCEPT ![NameOf[j]] = [phase |-> "active", by |-> j]]
  /\ \/ JGoto(j, "submitted")
     \/ "lost_reply" \in Faults /\ JGoto(j, "refused")
  /\ UNCHANGED <<request, status, verdict, late, cancelling, artifacts,
                 registered, crashes>>

\* AlreadyExists, or any other error of the Kubernetes API.
RunnerCreateError(j) ==
  /\ runner[j] = "submitting"
  /\ JGoto(j, "refused")
  /\ UNCHANGED <<request, status, crd, verdict, late, cancelling, artifacts,
                 registered, crashes>>

RunnerRefused(j) ==
  /\ runner[j] = "refused"
  /\ WriteStatus(j, "failed")
  /\ JGoto(j, "done")
  /\ UNCHANGED <<request, crd, verdict, late, cancelling, artifacts,
                 registered, crashes>>

\* Unconditional: whatever the row says by now becomes 'running'.
RunnerMarkRunning(j) ==
  /\ runner[j] = "submitted"
  /\ WriteStatus(j, "running")
  /\ JGoto(j, "polling")
  /\ UNCHANGED <<request, crd, verdict, late, cancelling, artifacts,
                 registered, crashes>>

\* A tick reads the ledger; 'cancelled' ends the runner without another write.
RunnerTick(j) ==
  /\ runner[j] = "polling"
  /\ \/ status[j] = "cancelled" /\ JGoto(j, "done")
     \/ (status[j] # "cancelled" \/ "db" \in Faults) /\ JGoto(j, "ticked")
  /\ UNCHANGED <<request, status, crd, verdict, late, cancelling, artifacts,
                 registered, crashes>>

\* GetJob sees the PyTorchJob of that name ended, whoever created it.
RunnerSeesEnd(j) ==
  /\ runner[j] = "ticked"
  /\ crd[NameOf[j]].phase \in {"succeeded", "failed"}
  /\ verdict' = [verdict EXCEPT ![j] = crd[NameOf[j]].phase]
  /\ JGoto(j, "finishing")
  /\ UNCHANGED <<request, status, crd, late, cancelling, artifacts,
                 registered, crashes>>

\* Mutant: the progress a tick stores sets the row to 'running' as well.
RunnerSeesNothingMarks(j) ==
  /\ runner[j] = "ticked"
  /\ j \notin late
  /\ WriteStatus(j, "running")
  /\ JGoto(j, "polling")
  /\ UNCHANGED <<request, crd, verdict, late, cancelling, artifacts,
                 registered, crashes>>

\* The read failed, or the job is still training, and there is time left.
RunnerSeesNothing(j) ==
  /\ runner[j] = "ticked"
  /\ j \notin late
  /\ JGoto(j, "polling")
  /\ UNCHANGED <<request, status, crd, verdict, late, cancelling, artifacts,
                 registered, crashes>>

\* Mutant: a job that is still training is waited for past the deadline.
RunnerTimesOutUnlessActive(j) ==
  /\ runner[j] = "ticked"
  /\ j \in late
  /\ crd[NameOf[j]].phase # "active"
  /\ verdict' = [verdict EXCEPT ![j] = "failed"]
  /\ JGoto(j, "finishing")
  /\ UNCHANGED <<request, status, crd, late, cancelling, artifacts,
                 registered, crashes>>

\* The same past the deadline, on either branch: the PyTorchJob is not deleted.
RunnerTimesOut(j) ==
  /\ runner[j] = "ticked"
  /\ j \in late
  /\ verdict' = [verdict EXCEPT ![j] = "failed"]
  /\ JGoto(j, "finishing")
  /\ UNCHANGED <<request, status, crd, late, cancelling, artifacts,
                 registered, crashes>>

RunnerFinish(j) ==
  /\ runner[j] = "finishing"
  /\ WriteStatus(j, verdict[j])
  /\ JGoto(j, IF verdict[j] = "succeeded" THEN "registering" ELSE "done")
  /\ UNCHANGED <<request, crd, verdict, late, cancelling, artifacts,
                 registered, crashes>>

\* The unique key (model_id, version) turns a second registration into a note.
RunnerRegister(j) ==
  /\ runner[j] = "registering"
  /\ \/ /\ \A k \in registered : VersionOf[k] # VersionOf[j]
        /\ registered' = registered \cup {j}
     \/ /\ "db" \in Faults \/ \E k \in registered : VersionOf[k] = VersionOf[j]
        /\ UNCHANGED registered
  /\ JGoto(j, "done")
  /\ UNCHANGED <<request, status, crd, verdict, late, cancelling, artifacts,
                 crashes>>

RunnerStep(j) ==
  \/ RunnerCreate(j) \/ RunnerCreateError(j) \/ RunnerRefused(j)
  \/ RunnerMarkRunning(j) \/ RunnerTick(j) \/ RunnerSeesEnd(j)
  \/ RunnerSeesNothing(j) \/ RunnerTimesOut(j) \/ RunnerFinish(j)
  \/ RunnerRegister(j)

--------------------------------------------------------------------------------
(* cancelTrainingJob: delete by name, then write 'cancelled', whatever the   *)
(* row or the runner does meanwhile.                                         *)

\* Mutant: an error of the delete is ignored.
CancelDeleteIgnored(j) ==
  /\ status[j] \in CancelFrom
  /\ j \notin cancelling
  /\ cancelling' = cancelling \cup {j}
  /\ UNCHANGED <<request, status, crd, runner, verdict, late, artifacts,
                 registered, crashes>>

CancelDelete(j) ==
  /\ status[j] \in CancelFrom
  /\ j \notin cancelling
  /\ crd' = [crd EXCEPT ![NameOf[j]] = [phase |-> "absent", by |-> NoJob]]
  /\ cancelling' = cancelling \cup {j}
  /\ UNCHANGED <<request, status, runner, verdict, late, artifacts,
                 registered, crashes>>

\* With a failing UPDATE the client gets a 500 and the row keeps its status.
CancelWrite(j) ==
  /\ j \in cancelling
  /\ WriteStatus(j, "cancelled")
  /\ cancelling' = cancelling \ {j}
  /\ UNCHANGED <<request, crd, runner, verdict, late, artifacts,
                 registered, crashes>>

--------------------------------------------------------------------------------
(* The environment: the training operator, the clock, the process itself.   *)

\* The master pod ends; a successful container has uploaded its adapter first.
JobEnds(n) ==
  /\ crd[n].phase = "active"
  /\ \/ /\ crd' = [crd EXCEPT ![n].phase = "succeeded"]
        /\ artifacts' = artifacts \cup {crd[n].by}
     \/ /\ crd' = [crd EXCEPT ![n].phase = "failed"]
        /\ UNCHANGED artifacts
  /\ UNCHANGED <<request, status, runner, verdict, late, cancelling,
                 registered, crashes>>

RunnerLate(j) ==
  /\ runner[j] \in {"polling", "ticked"}
  /\ j \notin late
  /\ late' = late \cup {j}
  /\ UNCHANGED <<request, status, crd, runner, verdict, cancelling, artifacts,
                 registered, crashes>>

\* Handlers and runners die with the process and nothing restarts them.
JCrash ==
  /\ "crash" \in Faults
  /\ crashes < MaxCrashes
  /\ crashes' = crashes + 1
  /\ request' = [j \in Jobs |-> "idle"]
  /\ runner' = [j \in Jobs |-> IF runner[j] = "none" THEN "none" ELSE "done"]
  /\ cancelling' = {}
  /\ UNCHANGED <<status, crd, verdict, late, artifacts, registered>>

JHandler(j) ==
  \/ SubmitLaneCheck(j, FALSE)
  \/ \E busy \in BOOLEAN : SubmitGpuCheck(j, busy) \/ SubmitRefused(j, busy)
  \/ SubmitInsert(j)
  \/ CancelDelete(j)
  \/ CancelWrite(j)

JNext ==
  \/ \E j \in Jobs : JHandler(j) \/ RunnerStep(j) \/ RunnerLate(j)
  \/ \E n \in Names : JobEnds(n)
  \/ JCrash

JSpec == JInit /\ [][JNext]_jVars

\* A goroutine runs on, its calls return, and six hours pass.
JFairness ==
  \A j \in Jobs : /\ WF_jVars(RunnerStep(j))
                  /\ WF_jVars(RunnerLate(j))
                  /\ WF_jVars(CancelWrite(j))

--------------------------------------------------------------------------------
(* Properties *)

\* A PyTorchJob that still trains is one the lane's guards can see: its row is
\* pending or running, unless its runner gave up on it after six hours
\* (training_runner.go finishTraining does not delete the resource).
TrainingIsVisible ==
  \A j \in Jobs : Training(j) => status[j] \in Active \/ j \in late

\* A cancelled job trains no more: cancelTrainingJob deletes the PyTorchJob
\* before it writes the row, and nobody creates it again.
CancelledIsGone ==
  \A j \in Jobs : status[j] = "cancelled" => ~Training(j)

\* Once its runner and its cancel handlers are through, a cancelled job has given
\* its GPUs back.
CancelFreesGpu ==
  \A j \in Jobs :
    status[j] = "cancelled" /\ runner[j] = "done" /\ j \notin cancelling =>
      ~Training(j)

\* Every model version the runner registers has the adapter its own training
\* container wrote: success is never read from another job's resource.
RegisteredHasArtifact == registered \subseteq artifacts

\* The three together: what the ledger, the cluster and the registry of models
\* say of one job agrees, whatever restarts and cancellations come between.
TrainingInv == TrainingIsVisible /\ CancelledIsGone /\ RegisteredHasArtifact

\* A row that was cancelled never occupies the lane again, and one that ended
\* by itself is rewritten at most to 'cancelled'.
EndedStaysEnded ==
  [][\A j \in Jobs :
       /\ status[j] = "cancelled" => status'[j] \in Terminal
       /\ status[j] \in {"succeeded", "failed"} =>
            status'[j] \in {status[j], "cancelled"}]_status

\* Every accepted job leaves the lane, if only by the deadline: a job nobody
\* can read (a deleted resource, an unreachable API) does not block it forever.
EveryJobSettles ==
  \A j \in Jobs : status[j] = "pending" ~> status[j] \in Terminal

================================================================================
