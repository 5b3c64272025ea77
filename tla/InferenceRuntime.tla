---------------------------- MODULE InferenceRuntime ----------------------------
(***************************************************************************)
(* The one vLLM container of the inference lane and the operators' direct  *)
(* control over it: agent/inference.go (start, stop, status, as one call   *)
(* each) and httpx/inference_runtime_handlers.go (start, stop and the      *)
(* goroutine that follows a start until the endpoint is ready).            *)
(*                                                                         *)
(* Each start has a row in deployments (mode inference_runtime_manual).    *)
(* The agent knows nothing of the rows and the rows nothing of the agent:  *)
(* a stop finds "its" rows by their status.                                *)
(***************************************************************************)
EXTENDS Naturals, FiniteSets

CONSTANTS
  Manuals,       \* rows of mode inference_runtime_manual
  Configs,       \* launch configurations
  ManualConfig,  \* the configuration each manual start asks for
  NoConfig,      \* the configuration of a container that was removed
  Overlap,       \* operators start again before an earlier start has settled
  RtFaults,      \* of "crash", "db", "agent", "docker", "lost_reply", "disconnect"
  RtMaxCrashes   \* bound: restarts of the control plane in one behaviour

ASSUME NoConfigAssumption     == NoConfig \notin Configs
ASSUME ManualConfigAssumption == ManualConfig \in [Manuals -> Configs]
ASSUME OverlapAssumption      == Overlap \in BOOLEAN
ASSUME RtCrashAssumption      == RtMaxCrashes \in Nat

VARIABLES
  container,   \* the vLLM container: its state, and the configuration it runs
  mStatus,     \* deployments.status of each manual start
  mPc,         \* its handler, then its monitor
  mSeen,       \* metadata.runtime: the last status report the monitor stored
  mVerdict,    \* status argument of the pending FinishDeployment
  mLate,       \* the monitor's 10 min deadline is behind it
  rtStop,      \* stopInferenceRuntime: how far the handler is
  stopRows,    \* rows it has selected and not yet marked
  rtCrashes

manualVars == <<mStatus, mPc, mSeen, mVerdict, mLate>>
stopVars   == <<rtStop, stopRows>>
rtVars     == <<container, manualVars, stopVars, rtCrashes>>

Absent == [state |-> "absent", cfg |-> NoConfig]

Containers == [state : {"starting", "ready", "exited"}, cfg : Configs]
                \cup {Absent}

\* What a GET of the agent returns.
Report(s, c) == [state |-> s, cfg |-> c]
ReportSet == [state : {"stopped", "starting", "ready", "error", "unavailable"},
              cfg : Configs \cup {NoConfig}]
Unknown == Report("unavailable", NoConfig)

RtTypeOK ==
  /\ container \in Containers
  /\ mStatus \in [Manuals -> {"absent", "running", "success", "failed", "rolled_back"}]
  /\ mPc \in [Manuals -> {"idle", "checked", "created", "monitoring", "looking",
                          "closing", "done"}]
  /\ mSeen \in [Manuals -> ReportSet]
  /\ mVerdict \in [Manuals -> {"none", "success", "failed"}]
  /\ mLate \in [Manuals -> BOOLEAN]
  /\ rtStop \in {"idle", "checked", "stopped"}
  /\ stopRows \subseteq Manuals
  /\ rtCrashes \in 0..RtMaxCrashes

RtInit ==
  /\ container = Absent
  /\ mStatus = [m \in Manuals |-> "absent"]
  /\ mPc = [m \in Manuals |-> "idle"]
  /\ mSeen = [m \in Manuals |-> Unknown]
  /\ mVerdict = [m \in Manuals |-> "none"]
  /\ mLate = [m \in Manuals |-> FALSE]
  /\ rtStop = "idle"
  /\ stopRows = {}
  /\ rtCrashes = 0

--------------------------------------------------------------------------------
(* Calls of the agent.                                                       *)

Up == container.state \in {"starting", "ready"}

\* status(): a container that exited is "stopped"; Docker not answering is "error".
Answers ==
  {Report(IF Up THEN container.state ELSE "stopped", container.cfg)}
    \cup {Report("error", NoConfig) : f \in RtFaults \cap {"docker"}}

\* GET as its caller sees it: the agent may not answer.
Reports == Answers \cup {Unknown : f \in RtFaults \cap {"agent"}}

Launched(c) == [state |-> "starting", cfg |-> c]

\* Mutant: a start is answered with the status of whatever runs.
AgentStartAny(c, ok) ==
  /\ ok
  /\ container' = IF Up THEN container ELSE Launched(c)

\* POST: idempotent for the configuration that already runs, refused for another;
\* otherwise the old container is removed, a new one created and started.  Docker
\* may fail before, between or after these, and when it fails to answer the first
\* question, what runs counts as not running and is replaced.
AgentStart(c, ok) ==
  \/ /\ Up /\ container.cfg # c
     /\ ~ok
     /\ UNCHANGED container
  \/ /\ Up /\ container.cfg = c
     /\ ok \/ "lost_reply" \in RtFaults
     /\ UNCHANGED container
  \/ /\ ~Up \/ "docker" \in RtFaults
     /\ ok \/ "lost_reply" \in RtFaults
     /\ container' = Launched(c)
  \/ /\ "docker" \in RtFaults
     /\ ~ok
     /\ container' \in {Absent, [state |-> "exited", cfg |-> c]}
  \/ /\ RtFaults \cap {"agent", "docker"} # {}
     /\ ~ok
     /\ UNCHANGED container

\* DELETE: whatever runs is stopped, then removed.
AgentStop(ok) ==
  \/ /\ ok \/ "lost_reply" \in RtFaults
     /\ container' = Absent
  \/ /\ "docker" \in RtFaults /\ Up
     /\ ~ok
     /\ container' = [container EXCEPT !.state = "exited"]
  \/ /\ RtFaults \cap {"agent", "docker"} # {}
     /\ ~ok
     /\ UNCHANGED container

RtWrite(rows, m, s) ==
  \/ rows' = [rows EXCEPT ![m] = s]
  \/ "db" \in RtFaults /\ UNCHANGED rows

MGoto(m, pc) == mPc' = [mPc EXCEPT ![m] = pc]

--------------------------------------------------------------------------------
(* startInferenceRuntime *)

ManualLaneCheck(m, trainingActive) ==
  /\ mStatus[m] = "absent" /\ mPc[m] = "idle"
  /\ ~trainingActive
  /\ MGoto(m, "checked")
  /\ UNCHANGED <<container, mStatus, mSeen, mVerdict, mLate, stopVars, rtCrashes>>

ManualCreate(m) ==
  /\ mPc[m] = "checked"
  /\ mStatus' = [mStatus EXCEPT ![m] = "running"]
  /\ MGoto(m, "created")
  /\ UNCHANGED <<container, mSeen, mVerdict, mLate, stopVars, rtCrashes>>

\* Mutant: a refused start is closed without a verdict.
ManualLaunchNoVerdict(m) ==
  /\ mPc[m] = "created"
  /\ \E ok \in BOOLEAN :
       /\ AgentStart(ManualConfig[m], ok)
       /\ IF ok THEN \E rep \in Answers' : mSeen' = [mSeen EXCEPT ![m] = rep]
                ELSE UNCHANGED mSeen
       /\ MGoto(m, IF ok /\ mSeen'[m].state # "ready" THEN "monitoring" ELSE "closing")
  /\ UNCHANGED <<mStatus, mVerdict, mLate, stopVars, rtCrashes>>

\* A ready endpoint ends the row at once, a refusal too; else it is monitored.
ManualLaunch(m) ==
  /\ mPc[m] = "created"
  /\ \/ /\ AgentStart(ManualConfig[m], FALSE)
        /\ mVerdict' = [mVerdict EXCEPT ![m] = "failed"]
        /\ MGoto(m, "closing")
        /\ UNCHANGED mSeen
     \/ /\ AgentStart(ManualConfig[m], TRUE)
        /\ \E rep \in Answers' :
             /\ mSeen' = [mSeen EXCEPT ![m] = rep]
             /\ \/ /\ rep.state = "ready"
                   /\ mVerdict' = [mVerdict EXCEPT ![m] = "success"]
                   /\ MGoto(m, "closing")
                \/ /\ rep.state # "ready"
                   /\ MGoto(m, "monitoring")
                   /\ UNCHANGED mVerdict
  /\ UNCHANGED <<mStatus, mLate, stopVars, rtCrashes>>

\* The client goes away: the call may have taken effect, and with the request's
\* context dead the row is neither finished nor monitored.
ManualAbandoned(m) ==
  /\ "disconnect" \in RtFaults
  /\ mPc[m] = "created"
  /\ \E ok \in BOOLEAN : AgentStart(ManualConfig[m], ok) \/ UNCHANGED container
  /\ MGoto(m, "done")
  /\ UNCHANGED <<mStatus, mSeen, mVerdict, mLate, stopVars, rtCrashes>>

--------------------------------------------------------------------------------
(* monitorManualInferenceRuntime: first the row, then the agent, then the row. *)

MonitorTick(m) ==
  /\ mPc[m] = "monitoring"
  /\ \/ mStatus[m] = "rolled_back" /\ MGoto(m, "done")
     \/ (mStatus[m] # "rolled_back" \/ "db" \in RtFaults) /\ MGoto(m, "looking")
  /\ UNCHANGED <<container, mStatus, mSeen, mVerdict, mLate, stopVars, rtCrashes>>

MonitorLook(m) ==
  /\ mPc[m] = "looking"
  /\ \E rep \in Reports :
       /\ mSeen' = [mSeen EXCEPT ![m] = IF rep = Unknown THEN @ ELSE rep]
       /\ \/ /\ rep.state = "ready"
             /\ mVerdict' = [mVerdict EXCEPT ![m] = "success"]
             /\ MGoto(m, "closing")
          \/ /\ rep.state \in {"error", "stopped"} \/ (rep.state # "ready" /\ mLate[m])
             /\ mVerdict' = [mVerdict EXCEPT ![m] = "failed"]
             /\ MGoto(m, "closing")
          \/ /\ rep.state \in {"starting", "unavailable"} /\ ~mLate[m]
             /\ MGoto(m, "monitoring")
             /\ UNCHANGED mVerdict
  /\ UNCHANGED <<container, mStatus, mLate, stopVars, rtCrashes>>

\* FinishDeployment: unconditional, whatever a stop has written meanwhile.
ManualClose(m) ==
  /\ mPc[m] = "closing"
  /\ RtWrite(mStatus, m, mVerdict[m])
  /\ MGoto(m, "done")
  /\ UNCHANGED <<container, mSeen, mVerdict, mLate, stopVars, rtCrashes>>

MonitorLate(m) ==
  /\ mPc[m] \in {"monitoring", "looking"}
  /\ ~mLate[m]
  /\ mLate' = [mLate EXCEPT ![m] = TRUE]
  /\ UNCHANGED <<container, mStatus, mPc, mSeen, mVerdict, stopVars, rtCrashes>>

ManualStep(m) ==
  \/ ManualCreate(m) \/ ManualLaunch(m)
  \/ MonitorTick(m) \/ MonitorLook(m) \/ ManualClose(m)

--------------------------------------------------------------------------------
(* stopInferenceRuntime *)

\* Mutant: the runtime is stopped without asking for benchmarks.
StopCheckNone(benchmarkActive) ==
  /\ rtStop = "idle" /\ stopRows = {}
  /\ rtStop' = "checked"
  /\ UNCHANGED <<container, manualVars, stopRows, rtCrashes>>

StopCheck(benchmarkActive) ==
  /\ rtStop = "idle" /\ stopRows = {}
  /\ ~benchmarkActive
  /\ rtStop' = "checked"
  /\ UNCHANGED <<container, manualVars, stopRows, rtCrashes>>

StopContainer ==
  /\ rtStop = "checked"
  /\ \E ok \in BOOLEAN : /\ AgentStop(ok)
                         /\ rtStop' = IF ok THEN "stopped" ELSE "idle"
  /\ UNCHANGED <<manualVars, stopRows, rtCrashes>>

StopSelect ==
  /\ rtStop = "stopped"
  /\ stopRows' = {m \in Manuals : mStatus[m] \in {"running", "success"}}
  /\ rtStop' = "idle"
  /\ UNCHANGED <<container, manualVars, rtCrashes>>

StopMark(m) ==
  /\ m \in stopRows
  /\ RtWrite(mStatus, m, "rolled_back")
  /\ stopRows' = stopRows \ {m}
  /\ UNCHANGED <<container, mPc, mSeen, mVerdict, mLate, rtStop, rtCrashes>>

StopStep == StopContainer \/ StopSelect \/ \E m \in Manuals : StopMark(m)

--------------------------------------------------------------------------------
(* The environment *)

\* /health answers 200, some minutes after the start.
Boot ==
  /\ container.state = "starting"
  /\ container' = [container EXCEPT !.state = "ready"]
  /\ UNCHANGED <<manualVars, stopVars, rtCrashes>>

Die ==
  /\ Up
  /\ container' = [container EXCEPT !.state = "exited"]
  /\ UNCHANGED <<manualVars, stopVars, rtCrashes>>

\* The container outlives the control plane; handlers and monitors do not.
RtCrash ==
  /\ "crash" \in RtFaults
  /\ rtCrashes < RtMaxCrashes
  /\ rtCrashes' = rtCrashes + 1
  /\ mPc' = [m \in Manuals |-> IF mPc[m] \in {"idle", "checked"} THEN "idle" ELSE "done"]
  /\ rtStop' = "idle"
  /\ stopRows' = {}
  /\ UNCHANGED <<container, mStatus, mSeen, mVerdict, mLate>>

\* A handler of this module has not answered yet.
RtBusy ==
  \/ rtStop # "idle" \/ stopRows # {}
  \/ \E m \in Manuals : mPc[m] \in {"checked", "created"}

\* A start that has not had its final word yet.
Pending(m) == mPc[m] \notin {"idle", "done"}

\* One operator, who waits for an answer before the next request and, unless
\* Overlap, for the outcome of one start before the next.
RtNext ==
  \/ \E m \in Manuals :
       \/ /\ ~RtBusy
          /\ Overlap \/ \A k \in Manuals : ~Pending(k)
          /\ ManualLaneCheck(m, FALSE)
       \/ ManualStep(m) \/ ManualAbandoned(m) \/ MonitorLate(m)
  \/ ~RtBusy /\ StopCheck(FALSE)
  \/ StopStep
  \/ Boot \/ Die \/ RtCrash

RtSpec == RtInit /\ [][RtNext]_rtVars

RtFairness ==
  /\ \A m \in Manuals : WF_rtVars(ManualStep(m)) /\ WF_rtVars(MonitorLate(m))
  /\ WF_rtVars(StopStep)

--------------------------------------------------------------------------------
(* Properties *)

\* A start that is recorded as a success saw its own configuration ready: the
\* agent serves every row alike, and a start it answers with the status of
\* another configuration must not be taken for its own.
ManualSawItself ==
  \A m \in Manuals :
    mStatus[m] = "success" => mSeen[m] = Report("ready", ManualConfig[m])

\* Every start gets a final word: ready, failed, stopped, or the 10 min deadline.
EveryStartSettles ==
  \A m \in Manuals : mStatus[m] = "running" ~> mStatus[m] # "running"

================================================================================
