---------------------------- MODULE InferenceRelease ----------------------------
(***************************************************************************)
(* A production release of an inference configuration, from the gate to    *)
(* the last write of its row, and its being taken offline:                 *)
(* httpx/inference_release_handlers.go (submit, runner, failure path with  *)
(* the restore of the previous runtime, finish, stop).                     *)
(*                                                                         *)
(* Releases share the container of InferenceRuntime with each other and    *)
(* with the operators' direct starts and stops.  Every call of the agent   *)
(* and every write of a row is a step; the guards that a handler evaluates *)
(* one after the other are steps of their own where another actor can      *)
(* change their answer in between.                                         *)
(***************************************************************************)
EXTENDS InferenceRuntime

CONSTANTS
  Releases,        \* rows of mode inference_runtime
  ReleaseConfig,   \* the configuration each release asks for
  ReleaseVersion,  \* the model version each release puts into service
  Presets,         \* configurations launched by the name of a fixed profile
  NoRelease,
  StopFrom         \* statuses at which an operator takes a release offline

Versions == {ReleaseVersion[r] : r \in Releases}

ASSUME ReleasesAssumption     == IsFiniteSet(Releases)
ASSUME ReleaseConfigAssumption == ReleaseConfig \in [Releases -> Configs]
ASSUME PresetsAssumption       == Presets \subseteq Configs
ASSUME NoReleaseAssumption     == NoRelease \notin Releases
ASSUME StopFromAssumption      == StopFrom \subseteq {"running", "success"}

VARIABLES
  rStatus,     \* deployments.status of each release
  rank,        \* started_at, as a rank; 0 before the INSERT
  rRequest,    \* submitInferenceRelease: which checks it has passed
  previous,    \* metadata.previous_runtime
  previousId,  \* metadata.previous_release_id
  rRunner,     \* program counter of runInferenceRelease
  rSeen,       \* metadata.runtime: the last report the runner stored
  rVerdict,    \* what finishInferenceRelease is called with
  rLate,       \* the runner's 10 min deadline is behind it
  serving,     \* model versions whose status is 'serving'
  endpoint,    \* service_instances.status of the endpoint
  rStop        \* stopInferenceRelease of each release: how far it is

rowVars    == <<rStatus, rank, serving, endpoint>>
submitVars == <<rRequest, previous, previousId>>
runnerVars == <<rRunner, rSeen, rVerdict, rLate>>
relVars    == <<rowVars, submitVars, runnerVars, rStop>>
relAll     == <<rtVars, relVars>>

Submits == {"idle", "lane", "quiet", "alone", "captured", "linked"}
RelRunners == {"none", "opening", "replacing", "launching", "polling", "stopping",
               "restoring", "promoting", "superseding", "closing", "done"}

RelTypeOK ==
  /\ RtTypeOK
  /\ rStatus \in [Releases -> {"absent", "running", "success", "failed", "rolled_back"}]
  /\ rank \in [Releases -> 0..Cardinality(Releases)]
  /\ rRequest \in [Releases -> Submits]
  /\ previous \in [Releases -> ReportSet]
  /\ previousId \in [Releases -> Releases \cup {NoRelease}]
  /\ rRunner \in [Releases -> RelRunners]
  /\ rSeen \in [Releases -> ReportSet]
  /\ rVerdict \in [Releases -> {"none", "success", "failed"}]
  /\ rLate \in [Releases -> BOOLEAN]
  /\ serving \subseteq Versions
  /\ endpoint \in {"healthy", "unreachable"}
  /\ rStop \in [Releases -> {"idle", "current", "stopped", "marked"}]

RelInit ==
  /\ RtInit
  /\ rStatus = [r \in Releases |-> "absent"]
  /\ rank = [r \in Releases |-> 0]
  /\ rRequest = [r \in Releases |-> "idle"]
  /\ previous = [r \in Releases |-> Unknown]
  /\ previousId = [r \in Releases |-> NoRelease]
  /\ rRunner = [r \in Releases |-> "none"]
  /\ rSeen = [r \in Releases |-> Unknown]
  /\ rVerdict = [r \in Releases |-> "none"]
  /\ rLate = [r \in Releases |-> FALSE]
  /\ serving = {}
  /\ endpoint = "unreachable"
  /\ rStop = [r \in Releases |-> "idle"]

\* agent/inference.go start replaces the name "scheduler" by one that spells out
\* the parameters; the container is labelled with it and status reports it.
ProfileLabel(c) == IF c \in Presets THEN "preset" ELSE "scheduler-tp-pp-l-dbo-s-t"

\* runtimeRequestForRestore: a ready runtime, started under a name it knows.
Restorable(p) ==
  /\ p.state = "ready"
  /\ ProfileLabel(p.cfg) \in {"preset", "scheduler"}

\* The row with the latest started_at among those of a set.
Latest(rows) == CHOOSE r \in rows : \A k \in rows : rank[k] <= rank[r]

Inserted  == {r \in Releases : rStatus[r] # "absent"}
Succeeded == {r \in Releases : rStatus[r] = "success"}

\* UPDATE service_instances; its error is dropped.
WriteEndpoint(s) ==
  \/ endpoint' = s
  \/ "db" \in RtFaults /\ UNCHANGED endpoint

RGoto(r, pc) == rRunner' = [rRunner EXCEPT ![r] = pc]
RAt(r, pc) == rRequest' = [rRequest EXCEPT ![r] = pc]

--------------------------------------------------------------------------------
(* submitInferenceRelease: gate and lane, then the snapshot, then the row.    *)

\* The release gate and activeTrainingJob.
ReleaseLaneCheck(r, admitted) ==
  /\ rStatus[r] = "absent" /\ rRequest[r] = "idle"
  /\ admitted
  /\ RAt(r, "lane")
  /\ UNCHANGED <<rtVars, rowVars, previous, previousId, runnerVars, rStop>>

ReleaseBenchmarkCheck(r, benchmarkActive) ==
  /\ rRequest[r] = "lane"
  /\ RAt(r, IF benchmarkActive THEN "idle" ELSE "quiet")
  /\ UNCHANGED <<rtVars, rowVars, previous, previousId, runnerVars, rStop>>

\* 409 release_in_progress while any release row is running.
ReleaseAloneCheck(r) ==
  /\ rRequest[r] = "quiet"
  /\ RAt(r, IF \E k \in Releases : rStatus[k] = "running" THEN "idle" ELSE "alone")
  /\ UNCHANGED <<rtVars, rowVars, previous, previousId, runnerVars, rStop>>

ReleaseCapture(r) ==
  /\ rRequest[r] = "alone"
  /\ \E rep \in Reports : previous' = [previous EXCEPT ![r] = rep]
  /\ RAt(r, "captured")
  /\ UNCHANGED <<rtVars, rowVars, previousId, runnerVars, rStop>>

\* Mutant: the release before this one, whatever became of it.
ReleaseLinkLatest(r) ==
  /\ rRequest[r] = "captured"
  /\ previousId' = [previousId EXCEPT ![r] =
                      IF Inserted = {} THEN NoRelease ELSE Latest(Inserted)]
  /\ RAt(r, "linked")
  /\ UNCHANGED <<rtVars, rowVars, previous, runnerVars, rStop>>

ReleaseLink(r) ==
  /\ rRequest[r] = "captured"
  /\ previousId' = [previousId EXCEPT ![r] =
                      IF Succeeded = {} THEN NoRelease ELSE Latest(Succeeded)]
  /\ RAt(r, "linked")
  /\ UNCHANGED <<rtVars, rowVars, previous, runnerVars, rStop>>

ReleaseInsert(r) ==
  /\ rRequest[r] = "linked"
  /\ RAt(r, "idle")
  /\ rStatus' = [rStatus EXCEPT ![r] = "running"]
  /\ rank' = [rank EXCEPT ![r] = Cardinality(Inserted) + 1]
  /\ RGoto(r, "opening")
  /\ UNCHANGED <<rtVars, serving, endpoint, previous, previousId, rSeen, rVerdict,
                 rLate, rStop>>

SubmitStep(r) ==
  \/ \E busy \in BOOLEAN : ReleaseBenchmarkCheck(r, busy)
  \/ ReleaseAloneCheck(r) \/ ReleaseCapture(r) \/ ReleaseLink(r) \/ ReleaseInsert(r)

--------------------------------------------------------------------------------
(* runInferenceRelease *)

ReleaseOpen(r) ==
  /\ rRunner[r] = "opening"
  /\ \E rep \in Reports :
       RGoto(r, IF rep.state \in {"ready", "starting"} THEN "replacing" ELSE "launching")
  /\ UNCHANGED <<rtVars, rowVars, submitVars, rSeen, rVerdict, rLate, rStop>>

ReleaseReplace(r) ==
  /\ rRunner[r] = "replacing"
  /\ \E ok \in BOOLEAN : /\ AgentStop(ok)
                         /\ RGoto(r, IF ok THEN "launching" ELSE "stopping")
  /\ UNCHANGED <<manualVars, stopVars, rtCrashes, rowVars, submitVars, rSeen,
                 rVerdict, rLate, rStop>>

ReleaseLaunch(r) ==
  /\ rRunner[r] = "launching"
  /\ \E ok \in BOOLEAN : /\ AgentStart(ReleaseConfig[r], ok)
                         /\ RGoto(r, IF ok THEN "polling" ELSE "stopping")
  /\ UNCHANGED <<manualVars, stopVars, rtCrashes, rowVars, submitVars, rSeen,
                 rVerdict, rLate, rStop>>

\* Mutant: the runner has no deadline.
ReleasePollForever(r) ==
  /\ rRunner[r] = "polling"
  /\ \E rep \in Reports :
       /\ rSeen' = [rSeen EXCEPT ![r] = IF rep = Unknown THEN @ ELSE rep]
       /\ \/ /\ rep.state = "ready"
             /\ rVerdict' = [rVerdict EXCEPT ![r] = "success"]
             /\ RGoto(r, "promoting")
          \/ /\ rep.state \in {"error", "stopped"}
             /\ RGoto(r, "stopping")
             /\ UNCHANGED rVerdict
          \/ /\ rep.state \in {"starting", "unavailable"}
             /\ UNCHANGED <<rRunner, rVerdict>>
  /\ UNCHANGED <<rtVars, rowVars, submitVars, rLate, rStop>>

\* One tick.  The report is not compared with the configuration of the release.
ReleasePoll(r) ==
  /\ rRunner[r] = "polling"
  /\ \E rep \in Reports :
       /\ rSeen' = [rSeen EXCEPT ![r] = IF rep = Unknown THEN @ ELSE rep]
       /\ \/ /\ rep.state = "ready"
             /\ rVerdict' = [rVerdict EXCEPT ![r] = "success"]
             /\ RGoto(r, "promoting")
          \/ /\ rep.state \in {"error", "stopped"} \/ (rep.state # "ready" /\ rLate[r])
             /\ RGoto(r, "stopping")
             /\ UNCHANGED rVerdict
          \/ /\ rep.state \in {"starting", "unavailable"} /\ ~rLate[r]
             /\ UNCHANGED <<rRunner, rVerdict>>
  /\ UNCHANGED <<rtVars, rowVars, submitVars, rLate, rStop>>

ReleaseLate(r) ==
  /\ rRunner[r] = "polling"
  /\ ~rLate[r]
  /\ rLate' = [rLate EXCEPT ![r] = TRUE]
  /\ UNCHANGED <<rtVars, rowVars, submitVars, rRunner, rSeen, rVerdict, rStop>>

\* Mutant: the previous runtime is started beside the one that failed.
FailStopKeeps(r) ==
  /\ rRunner[r] = "stopping"
  /\ rVerdict' = [rVerdict EXCEPT ![r] = "failed"]
  /\ RGoto(r, IF Restorable(previous[r]) THEN "restoring" ELSE "closing")
  /\ UNCHANGED <<rtVars, rowVars, submitVars, rSeen, rLate, rStop>>

\* failInferenceRelease: DELETE whatever runs, errors ignored, then restore.
FailStop(r) ==
  /\ rRunner[r] = "stopping"
  /\ \E ok \in BOOLEAN : AgentStop(ok)
  /\ rVerdict' = [rVerdict EXCEPT ![r] = "failed"]
  /\ RGoto(r, IF Restorable(previous[r]) THEN "restoring" ELSE "closing")
  /\ UNCHANGED <<manualVars, stopVars, rtCrashes, rowVars, submitVars, rSeen,
                 rLate, rStop>>

FailRestore(r) ==
  /\ rRunner[r] = "restoring"
  /\ \E ok \in BOOLEAN : AgentStart(previous[r].cfg, ok)
  /\ RGoto(r, "closing")
  /\ UNCHANGED <<manualVars, stopVars, rtCrashes, rowVars, submitVars, rSeen,
                 rVerdict, rLate, rStop>>

\* finishInferenceRelease, success: model version, previous release and endpoint,
\* then the row itself; every error is dropped.
FinishPromote(r) ==
  /\ rRunner[r] = "promoting"
  /\ \/ serving' = serving \cup {ReleaseVersion[r]}
     \/ "db" \in RtFaults /\ UNCHANGED serving
  /\ RGoto(r, "superseding")
  /\ UNCHANGED <<rtVars, rStatus, rank, endpoint, submitVars, rSeen, rVerdict,
                 rLate, rStop>>

\* Mutant: the previous release keeps its row.
FinishSupersedeNone(r) ==
  /\ rRunner[r] = "superseding"
  /\ WriteEndpoint("healthy")
  /\ RGoto(r, "closing")
  /\ UNCHANGED <<rtVars, rStatus, rank, serving, submitVars, rSeen, rVerdict, rLate,
                 rStop>>

FinishSupersede(r) ==
  /\ rRunner[r] = "superseding"
  /\ IF previousId[r] \notin {NoRelease, r}
       THEN RtWrite(rStatus, previousId[r], "rolled_back")
       ELSE UNCHANGED rStatus
  /\ WriteEndpoint("healthy")
  /\ RGoto(r, "closing")
  /\ UNCHANGED <<rtVars, rank, serving, submitVars, rSeen, rVerdict, rLate, rStop>>

FinishClose(r) ==
  /\ rRunner[r] = "closing"
  /\ RtWrite(rStatus, r, rVerdict[r])
  /\ RGoto(r, "done")
  /\ UNCHANGED <<rtVars, rank, serving, endpoint, submitVars, rSeen, rVerdict,
                 rLate, rStop>>

ReleaseStep(r) ==
  \/ ReleaseOpen(r) \/ ReleaseReplace(r) \/ ReleaseLaunch(r) \/ ReleasePoll(r)
  \/ FailStop(r) \/ FailRestore(r)
  \/ FinishPromote(r) \/ FinishSupersede(r) \/ FinishClose(r)

--------------------------------------------------------------------------------
(* stopInferenceRelease *)

\* The latest row only, and only if it is running or a success.
OfflineCheck(r, benchmarkActive) ==
  /\ rStop[r] = "idle"
  /\ ~benchmarkActive
  /\ Inserted # {} /\ r = Latest(Inserted)
  /\ rStatus[r] \in StopFrom
  /\ rStop' = [rStop EXCEPT ![r] = "current"]
  /\ UNCHANGED <<rtVars, rowVars, submitVars, runnerVars>>

OfflineStop(r) ==
  /\ rStop[r] = "current"
  /\ \E ok \in BOOLEAN : /\ AgentStop(ok)
                         /\ rStop' = [rStop EXCEPT ![r] = IF ok THEN "stopped" ELSE "idle"]
  /\ UNCHANGED <<manualVars, stopVars, rtCrashes, rowVars, submitVars, runnerVars>>

OfflineMark(r) ==
  /\ rStop[r] = "stopped"
  /\ RtWrite(rStatus, r, "rolled_back")
  /\ rStop' = [rStop EXCEPT ![r] = "marked"]
  /\ UNCHANGED <<rtVars, rank, serving, endpoint, submitVars, runnerVars>>

OfflineModel(r) ==
  /\ rStop[r] = "marked"
  /\ \/ serving' = serving \ {ReleaseVersion[r]}
     \/ "db" \in RtFaults /\ UNCHANGED serving
  /\ WriteEndpoint("unreachable")
  /\ rStop' = [rStop EXCEPT ![r] = "idle"]
  /\ UNCHANGED <<rtVars, rStatus, rank, submitVars, runnerVars>>

OfflineStep(r) == OfflineStop(r) \/ OfflineMark(r) \/ OfflineModel(r)

--------------------------------------------------------------------------------

RelCrash ==
  /\ RtCrash
  /\ rRequest' = [r \in Releases |-> "idle"]
  /\ rRunner' = [r \in Releases |-> IF rRunner[r] = "none" THEN "none" ELSE "done"]
  /\ rStop' = [r \in Releases |-> "idle"]
  /\ UNCHANGED <<rowVars, previous, previousId, rSeen, rVerdict, rLate>>

RelBusy ==
  \/ RtBusy
  \/ \E r \in Releases : rRequest[r] # "idle" \/ rStop[r] # "idle"

ReleaseRunning == \E r \in Releases : rRunner[r] \notin {"none", "done"}

\* One operator who waits for answers; unless Overlap, direct starts and stops of
\* the runtime keep clear of a release that has not settled, and the reverse.
RelNext ==
  \/ \E r \in Releases :
       \/ /\ ~RelBusy
          /\ Overlap \/ \A m \in Manuals : ~Pending(m)
          /\ ReleaseLaneCheck(r, TRUE)
       \/ ~RelBusy /\ OfflineCheck(r, FALSE)
       \/ SubmitStep(r) \/ ReleaseStep(r) \/ ReleaseLate(r) \/ OfflineStep(r)
  \/ RelCrash
  \/ /\ \/ /\ ~RelBusy
           /\ Overlap \/ ~ReleaseRunning
           /\ \/ StopCheck(FALSE)
              \/ \E m \in Manuals :
                   /\ Overlap \/ \A k \in Manuals : ~Pending(k)
                   /\ ManualLaneCheck(m, FALSE)
        \/ \E m \in Manuals : ManualStep(m) \/ ManualAbandoned(m) \/ MonitorLate(m)
        \/ StopStep \/ Boot \/ Die
     /\ UNCHANGED relVars

RelSpec == RelInit /\ [][RelNext]_relAll

RelFairness ==
  \A r \in Releases : /\ WF_relAll(ReleaseStep(r))
                      /\ WF_relAll(ReleaseLate(r))
                      /\ WF_relAll(OfflineStep(r))

RelFairSpec == RelSpec /\ RtFairness /\ RelFairness

--------------------------------------------------------------------------------
(* Properties *)

\* The lane has one production release: a new success supersedes the one before
\* it, whatever failed, died or was taken offline in between.
OneSuccess == Cardinality(Succeeded) <= 1

\* A release is a success only if the runtime its runner saw ready was the one
\* it asked for: the evidence of the gate is about no other.
ReleaseSawItself ==
  \A r \in Succeeded : rSeen[r] = Report("ready", ReleaseConfig[r])

\* The model version of the release in production is marked as serving.
ServingMatches == \A r \in Succeeded : ReleaseVersion[r] \in serving

\* The row, the runtime and the model version of the release in production agree.
ReleaseInv == RelTypeOK /\ OneSuccess /\ ReleaseSawItself /\ ServingMatches

\* A release that fails leaves the container with the configuration that was
\* serving before it, when that had been started from a fixed profile.
FailedRestores ==
  \A r \in Releases :
    rRunner[r] = "closing" /\ rVerdict[r] = "failed" /\ Restorable(previous[r]) =>
      container.cfg = previous[r].cfg

\* The same for every configuration that was serving.
FailedRestoresAny ==
  \A r \in Releases :
    rRunner[r] = "closing" /\ rVerdict[r] = "failed" /\ previous[r].state = "ready" =>
      container.cfg = previous[r].cfg

\* A release taken offline or superseded, or failed, is never rewritten.
ReleaseStaysEnded ==
  [][\A r \in Releases :
       rStatus[r] \in {"failed", "rolled_back"} => rStatus'[r] = rStatus[r]]_rStatus

\* No release stays in progress, which would refuse every later one.
EveryReleaseSettles ==
  \A r \in Releases : rStatus[r] = "running" ~> rStatus[r] # "running"

\* Nor does a direct start: nothing stays 'running' in the records.
EveryLaunchSettles == EveryReleaseSettles /\ EveryStartSettles

================================================================================
