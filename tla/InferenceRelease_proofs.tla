------------------------ MODULE InferenceRelease_proofs ------------------------
(***************************************************************************)
(* What holds of any number of releases, direct starts and configurations, *)
(* whatever the agent, Docker and the network do and whenever the control  *)
(* plane is restarted: the rows tell the truth about the one container.    *)
(*                                                                         *)
(* It is proved for one operator who waits for outcomes (not Overlap), who *)
(* takes releases offline that have succeeded, and for UPDATEs that land.  *)
(* The README lists the counterexamples that each of the three excludes.   *)
(***************************************************************************)
EXTENDS InferenceRelease, FiniteSetTheorems, TLAPS

--------------------------------------------------------------------------------
(* The container and what the agent reports of it.                           *)

\* A start that is answered well leaves the container with what was asked for;
\* any other leaves it as it was, removed or with what was asked for.
LEMMA StartOutcome ==
  ASSUME container \in Containers, NEW c \in Configs, NEW ok \in BOOLEAN, AgentStart(c, ok)
  PROVE  /\ container' \in Containers
         /\ ok => container'.cfg = c
<1> USE NoConfigAssumption DEF Containers, Absent, Launched, Up
<1>1. CASE UNCHANGED container /\ (ok => container.cfg = c)
  BY <1>1
<1>2. CASE container' = Launched(c)
  BY <1>2
<1>3. CASE container' \in {Absent, [state |-> "exited", cfg |-> c]} /\ ~ok
  BY <1>3
<1>. QED
  BY <1>1, <1>2, <1>3 DEF AgentStart

\* A stop never leaves another configuration behind.
LEMMA StopOutcome ==
  ASSUME container \in Containers, NEW ok \in BOOLEAN, AgentStop(ok)
  PROVE  /\ container' \in Containers
         /\ container'.cfg \in {container.cfg, NoConfig}
<1> USE NoConfigAssumption DEF Containers, Absent, Up
<1>1. CASE UNCHANGED container
  BY <1>1
<1>2. CASE container' = Absent
  BY <1>2
<1>3. CASE container' = [container EXCEPT !.state = "exited"] /\ Up
  BY <1>3
<1>. QED
  BY <1>1, <1>2, <1>3 DEF AgentStop

\* The container comes up and dies with the configuration that it has.
LEMMA LifeOutcome ==
  ASSUME container \in Containers, Boot \/ Die
  PROVE  container' \in Containers /\ container'.cfg = container.cfg
  BY NoConfigAssumption DEF Boot, Die, Up, Containers, Absent

\* Ready is only ever said of the configuration in the container.
LEMMA ReportIsOfContainer ==
  ASSUME container \in Containers, NEW rep \in Reports
  PROVE  /\ rep \in ReportSet
         /\ rep.state = "ready" => rep = Report("ready", container.cfg) /\ container.cfg \in Configs
  BY NoConfigAssumption DEF Reports, Answers, Report, ReportSet, Unknown, Up, Containers, Absent

\* So is the answer of a start or a stop that the caller gets.
LEMMA AnswerIsOfContainer ==
  ASSUME container' \in Containers, NEW rep \in Answers'
  PROVE  /\ rep \in ReportSet
         /\ rep.state = "ready" => rep = Report("ready", container'.cfg)
  BY NoConfigAssumption DEF Answers, Report, ReportSet, Up, Containers, Absent
--------------------------------------------------------------------------------
(* Direct control alone.                                                      *)

\* What a manual start knows: until it is decided it has no verdict, the
\* container has no other configuration than its own while it is followed, and a
\* verdict of success is about the report it has stored.
ManualInv ==
  \A m \in Manuals :
    /\ mPc[m] \notin {"closing", "done"} => mVerdict[m] = "none"
    /\ mPc[m] = "closing" => mVerdict[m] # "none"
    /\ mPc[m] \in {"monitoring", "looking"} => container.cfg \in {ManualConfig[m], NoConfig}
    /\ mVerdict[m] = "success" => mSeen[m] = Report("ready", ManualConfig[m])
    /\ mStatus[m] = "success" => mVerdict[m] = "success"

\* One start at a time.
OneStart == \A m, k \in Manuals : Pending(m) /\ Pending(k) => m = k

RtInv == RtTypeOK /\ ManualInv /\ OneStart

\* The steps of the direct control; a start begins when none is pending.
RtOwnStep ==
  \/ \E m \in Manuals :
       \/ (\A k \in Manuals : ~Pending(k)) /\ ManualLaneCheck(m, FALSE)
       \/ ManualStep(m) \/ ManualAbandoned(m) \/ MonitorLate(m)
  \/ StopCheck(FALSE) \/ StopStep
  \/ Boot \/ Die \/ RtCrash

\* What changes the container under a start that is followed.
LEMMA ContainerStep ==
  ASSUME RtInv, container' \in Containers, UNCHANGED <<mStatus, mPc, mSeen, mVerdict, mLate>>,
         \/ container'.cfg \in {container.cfg, NoConfig}
         \/ \A m \in Manuals : ~Pending(m)
  PROVE  container' \in Containers /\ ManualInv' /\ OneStart'
  BY DEF RtInv, ManualInv, OneStart, Pending, RtTypeOK

\* A direct start, its monitor and a stop keep what the runtime promises.
LEMMA ManualHandlerStep ==
  ASSUME RtInv, NEW m \in Manuals,
         \/ (\A k \in Manuals : ~Pending(k)) /\ ManualLaneCheck(m, FALSE)
         \/ ManualStep(m) \/ ManualAbandoned(m) \/ MonitorLate(m)
  PROVE  RtInv'
<1> USE DEF RtInv, MGoto, stopVars
<1>0. container \in Containers /\ ManualConfig[m] \in Configs
  BY ManualConfigAssumption DEF RtTypeOK
<1>1. CASE (\A k \in Manuals : ~Pending(k)) /\ ManualLaneCheck(m, FALSE)
  BY <1>1 DEF ManualLaneCheck, RtTypeOK, ManualInv, OneStart, Pending
<1>2. CASE ManualCreate(m)
  BY <1>2 DEF ManualCreate, RtTypeOK, ManualInv, OneStart, Pending
<1>3. CASE ManualLaunch(m)
  <2>1. CASE /\ AgentStart(ManualConfig[m], FALSE)
             /\ mVerdict' = [mVerdict EXCEPT ![m] = "failed"]
             /\ MGoto(m, "closing")
             /\ UNCHANGED mSeen
    <3>1. container' \in Containers
      BY <2>1, <1>0, StartOutcome
    <3>. QED
      BY <1>3, <2>1, <3>1 DEF ManualLaunch, RtTypeOK, ManualInv, OneStart, Pending
  <2>2. CASE /\ AgentStart(ManualConfig[m], TRUE)
             /\ \E rep \in Answers' :
                  /\ mSeen' = [mSeen EXCEPT ![m] = rep]
                  /\ \/ /\ rep.state = "ready"
                        /\ mVerdict' = [mVerdict EXCEPT ![m] = "success"]
                        /\ MGoto(m, "closing")
                     \/ /\ rep.state # "ready"
                        /\ MGoto(m, "monitoring")
                        /\ UNCHANGED mVerdict
    <3>1. container' \in Containers /\ container'.cfg = ManualConfig[m]
      BY <2>2, <1>0, StartOutcome
    <3>2. PICK rep \in Answers' :
                  /\ mSeen' = [mSeen EXCEPT ![m] = rep]
                  /\ \/ /\ rep.state = "ready"
                        /\ mVerdict' = [mVerdict EXCEPT ![m] = "success"]
                        /\ MGoto(m, "closing")
                     \/ /\ rep.state # "ready"
                        /\ MGoto(m, "monitoring")
                        /\ UNCHANGED mVerdict
      BY <2>2
    <3>3. rep \in ReportSet /\ (rep.state = "ready" => rep = Report("ready", ManualConfig[m]))
      BY <3>1, AnswerIsOfContainer
    <3>. QED
      BY <1>3, <3>1, <3>2, <3>3 DEF ManualLaunch, RtTypeOK, ManualInv, OneStart, Pending
  <2>. QED
    BY <1>3, <2>1, <2>2 DEF ManualLaunch
<1>4. CASE ManualAbandoned(m)
  <2>1. container' \in Containers
    BY <1>0, <1>4, StartOutcome DEF ManualAbandoned
  <2>. QED
    BY <1>4, <2>1 DEF ManualAbandoned, RtTypeOK, ManualInv, OneStart, Pending
<1>5. CASE MonitorTick(m)
  BY <1>5 DEF MonitorTick, RtTypeOK, ManualInv, OneStart, Pending
<1>6. CASE MonitorLook(m)
  <2>1. PICK rep \in Reports :
       /\ mSeen' = [mSeen EXCEPT ![m] = IF rep = Unknown THEN @ ELSE rep]
       /\ \/ /\ rep.state = "ready"
             /\ mVerdict' = [mVerdict EXCEPT ![m] = "success"]
             /\ MGoto(m, "closing")
          \/ /\ rep.state # "ready"
             /\ mVerdict' = [mVerdict EXCEPT ![m] = "failed"]
             /\ MGoto(m, "closing")
          \/ /\ rep.state # "ready"
             /\ MGoto(m, "monitoring")
             /\ UNCHANGED mVerdict
    BY <1>6 DEF MonitorLook
  <2>2. /\ rep \in ReportSet
        /\ rep.state = "ready" => rep = Report("ready", ManualConfig[m])
    BY <1>0, <1>6, NoConfigAssumption, ReportIsOfContainer DEF ManualInv, MonitorLook
  <2>3. rep.state = "ready" => rep # Unknown
    BY DEF Unknown, Report
  <2>. QED
    BY <1>6, <2>1, <2>2, <2>3 DEF MonitorLook, RtTypeOK, ManualInv, OneStart, Pending
<1>7. CASE ManualClose(m)
  BY <1>7 DEF ManualClose, RtWrite, RtTypeOK, ManualInv, OneStart, Pending
<1>8. CASE MonitorLate(m)
  BY <1>8 DEF MonitorLate, RtTypeOK, ManualInv, OneStart, Pending
<1>. QED
  BY <1>1, <1>2, <1>3, <1>4, <1>5, <1>6, <1>7, <1>8 DEF ManualStep

\* So does every step of the runtime.
LEMMA RtStepHolds == ASSUME RtInv, RtOwnStep PROVE RtInv'
<1> USE DEF RtInv, manualVars, stopVars
<1>0. container \in Containers
  BY DEF RtTypeOK
<1>1. CASE StopCheck(FALSE)
  BY <1>1 DEF StopCheck, RtTypeOK, ManualInv, OneStart, Pending
<1>2. CASE StopContainer
  <2>1. container' \in Containers /\ container'.cfg \in {container.cfg, NoConfig}
    BY <1>0, <1>2, StopOutcome DEF StopContainer
  <2>. QED
    BY <1>2, <2>1, ContainerStep DEF StopContainer, RtTypeOK
<1>3. CASE StopSelect
  BY <1>3 DEF StopSelect, RtTypeOK, ManualInv, OneStart, Pending
<1>4. ASSUME NEW m \in Manuals, StopMark(m) PROVE RtInv'
  BY <1>4 DEF StopMark, RtWrite, RtTypeOK, ManualInv, OneStart, Pending
<1>5. CASE Boot \/ Die
  <2>1. container' \in Containers /\ container'.cfg \in {container.cfg, NoConfig}
    BY <1>0, <1>5, LifeOutcome
  <2>. QED
    BY <1>5, <2>1, ContainerStep DEF Boot, Die, RtTypeOK
<1>6. CASE RtCrash
  BY <1>6, RtCrashAssumption DEF RtCrash, RtTypeOK, ManualInv, OneStart, Pending
<1>. QED
  BY <1>1, <1>2, <1>3, <1>4, <1>5, <1>6, ManualHandlerStep DEF RtOwnStep, StopStep

\* A platform that has just started has an empty lane.
LEMMA RtInitHolds == RtInit => RtInv
  BY RtCrashAssumption
     DEF RtInit, RtInv, RtTypeOK, ManualInv, OneStart, Pending, Containers, ReportSet, Unknown, Report

\* A direct start is recorded as a success only for its own configuration, which
\* its monitor saw ready (inference_runtime_handlers.go), whatever the agent
\* answers and whichever UPDATE fails.
THEOREM ManualHolds ==
  ASSUME ~Overlap PROVE RtSpec => [](RtTypeOK /\ ManualSawItself)
<1>1. RtInv /\ [RtNext]_rtVars => RtInv'
  <2>1. RtInv /\ RtNext => RtInv'
    BY RtStepHolds, OverlapAssumption DEF RtNext, RtOwnStep
  <2>2. RtInv /\ UNCHANGED rtVars => RtInv'
    BY DEF rtVars, manualVars, stopVars, RtInv, RtTypeOK, ManualInv, OneStart, Pending
  <2>. QED
    BY <2>1, <2>2
<1>2. RtInv => RtTypeOK /\ ManualSawItself
  BY DEF RtInv, ManualInv, ManualSawItself
<1>. QED
  BY <1>1, <1>2, RtInitHolds, PTL DEF RtSpec
--------------------------------------------------------------------------------
(* Releases.                                                                  *)

\* Operators wait for outcomes, a release is taken offline once it has succeeded,
\* and UPDATEs land.
Settled ==
  /\ ~Overlap
  /\ "running" \notin StopFrom
  /\ "db" \notin RtFaults

Working(r) == rRunner[r] \notin {"none", "done"}

\* From the moment the release before it is known until that one is superseded.
Supersedes(r) ==
  rRequest[r] = "linked" \/ (Working(r) /\ rRunner[r] # "closing")

\* One request at a time, and none beside direct control; a release at work
\* excludes direct control too.
AloneInv ==
  /\ \A r, k \in Releases :
       /\ rRequest[r] # "idle" /\ rRequest[k] # "idle" => r = k
       /\ rStop[r] # "idle" /\ rStop[k] # "idle" => r = k
       /\ rRequest[r] # "idle" => rStop[k] = "idle"
       /\ Working(r) => rStop[k] = "idle"
  /\ \A r \in Releases : rRequest[r] # "idle" \/ Working(r) =>
       rtStop = "idle" /\ stopRows = {} /\ \A m \in Manuals : ~Pending(m)

\* Ranks order the rows by their insertion, and a row that is running is the
\* latest one: it is the only one.
RankInv ==
  /\ \A r \in Releases : rank[r] \in 0..Cardinality(Inserted)
  /\ \A r \in Releases : rank[r] = 0 <=> rStatus[r] = "absent"
  /\ \A r, k \in Releases : rStatus[r] = "running" /\ k # r => rank[k] < rank[r]

\* How far a release is, in its request and in its runner, and what its row says.
ProgressInv ==
  \A r \in Releases :
    /\ rRequest[r] # "idle" => rStatus[r] = "absent"
    /\ rRequest[r] \in {"alone", "captured", "linked"} =>
         \A k \in Releases : rStatus[k] # "running"
    /\ rStatus[r] = "absent" <=> rRunner[r] = "none"
    /\ Working(r) => rStatus[r] = "running"
    /\ rStop[r] \in {"current", "stopped"} => rStatus[r] = "success"
    /\ rStop[r] = "marked" => Succeeded = {}

\* What the runner has decided, and what that rests on.
RelVerdictInv ==
  \A r \in Releases :
    /\ rRunner[r] \in {"none", "opening", "replacing", "launching", "polling", "stopping"} =>
         rVerdict[r] = "none"
    /\ rRunner[r] = "restoring" => rVerdict[r] = "failed" /\ previous[r].state = "ready"
    /\ previous[r].state = "ready" => previous[r].cfg \in Configs
    /\ rRunner[r] \in {"promoting", "superseding"} => rVerdict[r] = "success"
    /\ rRunner[r] = "closing" => rVerdict[r] # "none"
    /\ rStatus[r] = "success" => rVerdict[r] = "success"
    /\ rRunner[r] = "polling" => container.cfg \in {ReleaseConfig[r], NoConfig}
    /\ rVerdict[r] = "success" => rSeen[r] = Report("ready", ReleaseConfig[r])
    /\ rRunner[r] \in {"superseding", "closing"} /\ rVerdict[r] = "success" =>
         ReleaseVersion[r] \in serving

\* The one release in production, and who is about to supersede it.
ProductionInv ==
  /\ \A r, k \in Succeeded : r = k
  /\ \A r \in Releases : Supersedes(r) =>
       /\ previousId[r] # r
       /\ \A k \in Releases : rStatus[k] = "success" <=> k = previousId[r]
  /\ \A r \in Releases : rRunner[r] = "closing" /\ rVerdict[r] = "success" => Succeeded = {}

ReleaseIInv ==
  /\ RtInv /\ RelTypeOK
  /\ AloneInv /\ RankInv /\ ProgressInv /\ RelVerdictInv /\ ProductionInv /\ ServingMatches

\* With no release and no run, the invariant holds.
LEMMA ReleaseInitHolds == RelInit => ReleaseIInv
<1> SUFFICES ASSUME RelInit PROVE ReleaseIInv
  OBVIOUS
<1>1. RtInv /\ RelTypeOK
  <2>1. Cardinality(Releases) \in Nat
    BY ReleasesAssumption, FS_CardinalityType
  <2>2. RtInv
    BY RtInitHolds DEF RelInit
  <2>3. Unknown \in ReportSet
    BY DEF Unknown, Report, ReportSet
  <2>. QED
    BY <2>1, <2>2, <2>3 DEF RelInit, RtInv, RelTypeOK, Submits, RelRunners
<1>2. Inserted = {} /\ Succeeded = {}
  BY DEF RelInit, Inserted, Succeeded
<1>3. RankInv
  BY <1>2, FS_EmptySet DEF RelInit, RankInv
<1>. QED
  BY <1>1, <1>2, <1>3
     DEF RelInit, ReleaseIInv, AloneInv, ProgressInv, RelVerdictInv, ProductionInv, Supersedes,
         ServingMatches, Working, Unknown, Report

--------------------------------------------------------------------------------
(* The direct control, as operators use it beside releases.                   *)

DirectStep ==
  \/ /\ ~RelBusy /\ ~ReleaseRunning
     /\ \/ StopCheck(FALSE)
        \/ \E m \in Manuals : (\A k \in Manuals : ~Pending(k)) /\ ManualLaneCheck(m, FALSE)
  \/ \E m \in Manuals : ManualStep(m) \/ ManualAbandoned(m) \/ MonitorLate(m)
  \/ StopStep \/ Boot \/ Die

\* None of it moves while a release is asked for or at work.
LEMMA DirectControlWaits ==
  ASSUME AloneInv, RtTypeOK, NEW r \in Releases, rRequest[r] # "idle" \/ Working(r), DirectStep
  PROVE  Boot \/ Die
<1>1. rtStop = "idle" /\ stopRows = {} /\ \A m \in Manuals : ~Pending(m)
  BY DEF AloneInv
<1>2. ~(~RelBusy /\ ~ReleaseRunning)
  BY DEF RelBusy, ReleaseRunning, Working
<1>3. ASSUME NEW m \in Manuals PROVE ~(ManualStep(m) \/ ManualAbandoned(m) \/ MonitorLate(m))
  BY <1>1 DEF Pending, ManualStep, ManualCreate, ManualLaunch, MonitorTick, MonitorLook, ManualClose,
              ManualAbandoned, MonitorLate
<1>4. ~StopStep
  BY <1>1 DEF StopStep, StopContainer, StopSelect, StopMark
<1>. QED
  BY <1>2, <1>3, <1>4 DEF DirectStep

\* What the direct control does keeps the invariant of the releases.
LEMMA DirectStepHolds ==
  ASSUME ReleaseIInv, DirectStep, UNCHANGED relVars
  PROVE  ReleaseIInv'
<1> USE DEF ReleaseIInv, relVars, rowVars, submitVars, runnerVars
<1>1. RtInv'
  <2>1. RtOwnStep
    BY DEF DirectStep, RtOwnStep
  <2>. QED
    BY <2>1, RtStepHolds
<1>2. RelTypeOK'
  BY <1>1 DEF RtInv, RelTypeOK
<1>3. Inserted' = Inserted /\ Succeeded' = Succeeded
  BY DEF Inserted, Succeeded
<1>4. ASSUME NEW r \in Releases, rRequest[r] # "idle" \/ Working(r)
      PROVE  UNCHANGED <<rtStop, stopRows, mPc>> /\ container'.cfg = container.cfg
  <2>1. Boot \/ Die
    BY <1>4, DirectControlWaits DEF RelTypeOK
  <2>. QED
    BY <2>1, LifeOutcome DEF Boot, Die, manualVars, stopVars, RelTypeOK, RtTypeOK
<1>5. AloneInv'
  BY <1>4 DEF AloneInv, Working, Pending
<1>6. RelVerdictInv'
  <2>. SUFFICES ASSUME NEW r \in Releases, rRunner[r] = "polling"
                PROVE  container'.cfg \in {ReleaseConfig[r], NoConfig}
    BY DEF RelVerdictInv
  <2>. QED
    BY <1>4 DEF RelVerdictInv, Working
<1>7. RankInv' /\ ProgressInv' /\ ProductionInv' /\ ServingMatches'
  BY <1>3 DEF RankInv, ProgressInv, ProductionInv, ServingMatches, Supersedes, Working
<1>. QED
  BY <1>1, <1>2, <1>5, <1>6, <1>7

--------------------------------------------------------------------------------
(* The request of a release.                                                  *)

\* A request that has passed its guards is for a row of its own; no other row is
\* running once it has looked.
LEMMA RequestStep ==
  ASSUME Settled, ReleaseIInv, NEW r \in Releases,
         \/ ~RelBusy /\ (\A m \in Manuals : ~Pending(m)) /\ ReleaseLaneCheck(r, TRUE)
         \/ \E busy \in BOOLEAN : ReleaseBenchmarkCheck(r, busy)
         \/ ReleaseAloneCheck(r) \/ ReleaseCapture(r) \/ ReleaseLink(r)
  PROVE  ReleaseIInv'
<1> USE DEF ReleaseIInv
<1>1. /\ UNCHANGED <<rtVars, rowVars, runnerVars, rStop>>
      /\ \E pc \in Submits :
           /\ rRequest' = [rRequest EXCEPT ![r] = pc]
           /\ pc # "idle" /\ rRequest[r] = "idle" =>
                ~RelBusy /\ (\A m \in Manuals : ~Pending(m)) /\ rStatus[r] = "absent"
           /\ pc \in {"alone", "captured", "linked"} /\ rRequest[r] \notin {"alone", "captured", "linked"} =>
                \A k \in Releases : rStatus[k] # "running"
           /\ pc = "linked" => rRequest[r] = "captured"
  BY DEF ReleaseLaneCheck, ReleaseBenchmarkCheck, ReleaseAloneCheck, ReleaseCapture, ReleaseLink, RAt, Submits
<1>2. PICK pc \in Submits :
           /\ rRequest' = [rRequest EXCEPT ![r] = pc]
           /\ pc # "idle" /\ rRequest[r] = "idle" =>
                ~RelBusy /\ (\A m \in Manuals : ~Pending(m)) /\ rStatus[r] = "absent"
           /\ pc \in {"alone", "captured", "linked"} /\ rRequest[r] \notin {"alone", "captured", "linked"} =>
                \A k \in Releases : rStatus[k] # "running"
           /\ pc = "linked" => rRequest[r] = "captured"
  BY <1>1
<1>3. UNCHANGED <<container, mStatus, mPc, mSeen, mVerdict, mLate, rtStop, stopRows, rtCrashes,
                  rStatus, rank, serving, endpoint, rRunner, rSeen, rVerdict, rLate, rStop>>
  BY <1>1 DEF rtVars, manualVars, stopVars, rowVars, runnerVars
<1>4. Inserted' = Inserted /\ Succeeded' = Succeeded
  BY <1>3 DEF Inserted, Succeeded
<1>5. RtInv' /\ RtTypeOK'
  BY <1>3 DEF RtInv, RtTypeOK, ManualInv, OneStart, Pending
<1>6. /\ previous' \in [Releases -> ReportSet]
      /\ \A k \in Releases : previous'[k].state = "ready" => previous'[k].cfg \in Configs
      /\ \A k \in Releases : Working(k) => previous'[k] = previous[k]
  <2>1. CASE ReleaseCapture(r)
    <3>1. PICK rep \in Reports : previous' = [previous EXCEPT ![r] = rep]
      BY <2>1 DEF ReleaseCapture
    <3>2. rep \in ReportSet /\ (rep.state = "ready" => rep.cfg \in Configs)
      BY ReportIsOfContainer DEF RelTypeOK, RtTypeOK, Report
    <3>3. ~Working(r)
      BY <2>1 DEF ReleaseCapture, ProgressInv
    <3>. QED
      BY <3>1, <3>2, <3>3 DEF RelTypeOK, RelVerdictInv
  <2>2. CASE UNCHANGED previous
    BY <2>2 DEF RelTypeOK, RelVerdictInv
  <2>. QED
    BY <2>1, <2>2 DEF ReleaseLaneCheck, ReleaseBenchmarkCheck, ReleaseAloneCheck, ReleaseLink
<1>7. ASSUME pc = "linked"
      PROVE  /\ previousId' \in [Releases -> Releases \cup {NoRelease}]
             /\ previousId'[r] # r
             /\ \A k \in Releases : rStatus[k] = "success" <=> k = previousId'[r]
             /\ \A k \in Releases \ {r} : previousId'[k] = previousId[k]
  <2>1. previousId' = [previousId EXCEPT ![r] = IF Succeeded = {} THEN NoRelease ELSE Latest(Succeeded)]
    BY <1>2, <1>7 DEF ReleaseLaneCheck, ReleaseBenchmarkCheck, ReleaseAloneCheck, ReleaseCapture, ReleaseLink,
                      RAt, RelTypeOK
  <2>2. CASE Succeeded = {}
    BY <2>1, <2>2, NoReleaseAssumption DEF Succeeded, RelTypeOK
  <2>3. CASE Succeeded # {}
    <3>1. PICK k \in Releases : Succeeded = {k}
      BY <2>3 DEF ProductionInv, Succeeded
    <3>2. rank[k] <= rank[k]
      <4>1. rank[k] \in 0..Cardinality(Releases)
        BY DEF RelTypeOK
      <4>2. Cardinality(Releases) \in Nat
        BY ReleasesAssumption, FS_CardinalityType
      <4>. QED
        BY <4>1, <4>2
    <3>3. Latest(Succeeded) = k
      BY <3>1, <3>2 DEF Latest
    <3>4. rStatus[k] = "success" /\ k # r
      BY <1>2, <1>7, <3>1 DEF Succeeded, ProgressInv
    <3>. QED
      BY <2>1, <2>3, <3>1, <3>3, <3>4 DEF Succeeded, RelTypeOK
  <2>. QED
    BY <2>2, <2>3
<1>8. pc # "linked" => previousId' = previousId
  BY <1>2 DEF ReleaseLaneCheck, ReleaseBenchmarkCheck, ReleaseAloneCheck, ReleaseCapture, ReleaseLink, RAt, RelTypeOK
<1>9. RelTypeOK'
  BY <1>2, <1>3, <1>5, <1>6, <1>7, <1>8 DEF RelTypeOK
<1>10. AloneInv'
  BY <1>2, <1>3 DEF AloneInv, Working, RelTypeOK, RelBusy, RtBusy, Pending
<1>11. RankInv' /\ ServingMatches' /\ RelVerdictInv'
  BY <1>3, <1>4, <1>6 DEF RankInv, ServingMatches, RelVerdictInv, Working
<1>12. ProgressInv'
  BY <1>2, <1>3, <1>4 DEF ProgressInv, Working, RelTypeOK, Submits
<1>13. ProductionInv'
  BY <1>2, <1>3, <1>4, <1>7, <1>8 DEF ProductionInv, Supersedes, Working, RelTypeOK, ProgressInv
<1>. QED
  BY <1>5, <1>9, <1>10, <1>11, <1>12, <1>13

\* The row is inserted: the latest, the only one running, with its runner.
LEMMA InsertStep ==
  ASSUME Settled, ReleaseIInv, NEW r \in Releases, ReleaseInsert(r)
  PROVE  ReleaseIInv'
<1> USE DEF ReleaseIInv
<1>1. /\ rRequest[r] = "linked"
      /\ rRequest' = [rRequest EXCEPT ![r] = "idle"]
      /\ rStatus' = [rStatus EXCEPT ![r] = "running"]
      /\ rank' = [rank EXCEPT ![r] = Cardinality(Inserted) + 1]
      /\ rRunner' = [rRunner EXCEPT ![r] = "opening"]
  BY DEF ReleaseInsert, RAt, RGoto
<1>2. UNCHANGED <<container, mStatus, mPc, mSeen, mVerdict, mLate, rtStop, stopRows, rtCrashes,
                  serving, endpoint, previous, previousId, rSeen, rVerdict, rLate, rStop>>
  BY DEF ReleaseInsert, rtVars, manualVars, stopVars
<1>3. rStatus[r] = "absent" /\ rRunner[r] = "none" /\ \A k \in Releases : rStatus[k] # "running"
  BY <1>1 DEF ProgressInv
<1>4. Inserted' = Inserted \cup {r} /\ r \notin Inserted /\ Succeeded' = Succeeded
  BY <1>1, <1>3 DEF Inserted, Succeeded, RelTypeOK
<1>5. /\ Cardinality(Inserted) \in Nat
      /\ Cardinality(Inserted') = Cardinality(Inserted) + 1
      /\ Cardinality(Inserted') <= Cardinality(Releases)
      /\ Cardinality(Releases) \in Nat
  <2>1. IsFiniteSet(Inserted) /\ Inserted' \subseteq Releases
    BY <1>4, ReleasesAssumption, FS_Subset DEF Inserted
  <2>. QED
    BY <1>4, <2>1, ReleasesAssumption, FS_AddElement, FS_Subset, FS_CardinalityType
<1>6. RtInv' /\ RtTypeOK'
  BY <1>2 DEF RtInv, RtTypeOK, ManualInv, OneStart, Pending
<1>7. rank' \in [Releases -> 0..Cardinality(Releases)]
  BY <1>1, <1>5 DEF RelTypeOK
<1>8. RelTypeOK'
  BY <1>1, <1>2, <1>6, <1>7 DEF RelTypeOK, RelRunners, Submits
<1>9. RankInv'
  <2>1. \A k \in Releases : rank[k] \in 0..Cardinality(Inserted)
    BY DEF RankInv
  <2>2. rank'[r] = Cardinality(Inserted) + 1 /\ \A k \in Releases \ {r} : rank'[k] = rank[k]
    BY <1>1 DEF RelTypeOK
  <2>3. rStatus'[r] = "running" /\ \A k \in Releases \ {r} : rStatus'[k] = rStatus[k]
    BY <1>1 DEF RelTypeOK
  <2>. QED
    BY <1>3, <1>5, <2>1, <2>2, <2>3 DEF RankInv
<1>10. AloneInv' /\ ProgressInv'
  BY <1>1, <1>2, <1>3, <1>4 DEF AloneInv, ProgressInv, Working, RelTypeOK, Pending
<1>11. RelVerdictInv' /\ ServingMatches'
  BY <1>1, <1>2, <1>3, <1>4 DEF RelVerdictInv, ServingMatches, RelTypeOK
<1>12. ProductionInv'
  BY <1>1, <1>2, <1>3, <1>4 DEF ProductionInv, Supersedes, Working, RelTypeOK
<1>. QED
  BY <1>6, <1>8, <1>9, <1>10, <1>11, <1>12

--------------------------------------------------------------------------------
(* The runner.                                                                *)

\* A step of the runner that writes no row: what it does to the container and to
\* its own state decides, the rest stays.
LEMMA WorkStep ==
  ASSUME ReleaseIInv, NEW r \in Releases, Working(r), NEW pc \in RelRunners \ {"none", "done"},
         rRunner' = [rRunner EXCEPT ![r] = pc], container' \in Containers,
         NEW v \in {"none", "success", "failed"}, rVerdict' = [rVerdict EXCEPT ![r] = v],
         rSeen' \in [Releases -> ReportSet], rLate' \in [Releases -> BOOLEAN],
         UNCHANGED <<manualVars, stopVars, rtCrashes, rStatus, rank, endpoint, submitVars, rStop>>,
         serving' \in {serving, serving \cup {ReleaseVersion[r]}},
         rRunner[r] # "closing", pc = "closing" => v = "failed",
         RelVerdictInv'
  PROVE  ReleaseIInv'
<1> USE DEF ReleaseIInv
<1>1. /\ \A m \in Manuals : ~Pending(m)
      /\ rStatus[r] = "running"
  BY DEF AloneInv, ProgressInv
<1>2. RtTypeOK'
  BY DEF RelTypeOK, RtTypeOK, manualVars, stopVars
<1>3. RtInv'
  BY <1>1, <1>2, ContainerStep DEF RtInv, manualVars
<1>4. serving' \subseteq Versions /\ serving \subseteq serving'
  BY DEF RelTypeOK, Versions
<1>5. RelTypeOK'
  BY <1>2, <1>4 DEF RelTypeOK, submitVars
<1>6. Inserted' = Inserted /\ Succeeded' = Succeeded
  BY DEF Inserted, Succeeded
<1>7. RankInv'
  BY <1>6 DEF RankInv
<1>8. ServingMatches'
  BY <1>4, <1>6 DEF ServingMatches
<1>9. AloneInv'
  BY DEF AloneInv, Working, RelTypeOK, submitVars, stopVars, manualVars, Pending
<1>10. ProgressInv'
  BY <1>1, <1>6 DEF ProgressInv, Working, RelTypeOK, submitVars
<1>11. ProductionInv'
  <2>1. \A k \in Releases : Supersedes(k)' => Supersedes(k)
    BY DEF Supersedes, Working, submitVars, RelTypeOK
  <2>. QED
    BY <1>6, <2>1 DEF ProductionInv, submitVars, RelTypeOK
<1>. QED
  BY <1>3, <1>5, <1>7, <1>8, <1>9, <1>10, <1>11

\* Only one release is at work: its row is the one that is running.
LEMMA OneAtWork ==
  ASSUME ReleaseIInv, NEW r \in Releases, NEW k \in Releases, Working(r), Working(k)
  PROVE  r = k
<1>1. rStatus[r] = "running" /\ rStatus[k] = "running"
  BY DEF ReleaseIInv, ProgressInv
<1>2. rank[r] \in Nat /\ rank[k] \in Nat
  <2>1. Cardinality(Releases) \in Nat
    BY ReleasesAssumption, FS_CardinalityType
  <2>. QED
    BY <2>1 DEF ReleaseIInv, RelTypeOK
<1>3. r # k => rank[r] < rank[k] /\ rank[k] < rank[r]
  BY <1>1 DEF ReleaseIInv, RankInv
<1>. QED
  BY <1>2, <1>3

\* The runner's steps up to its verdict keep the invariant.
LEMMA RunnerStepHolds ==
  ASSUME Settled, ReleaseIInv, NEW r \in Releases,
         \/ ReleaseOpen(r) \/ ReleaseReplace(r) \/ ReleaseLaunch(r) \/ ReleasePoll(r) \/ ReleaseLate(r)
         \/ FailStop(r) \/ FailRestore(r) \/ FinishPromote(r)
  PROVE  ReleaseIInv'
<1> USE DEF RGoto
<1>0. /\ Working(r)
      /\ \A k \in Releases : Working(k) => k = r
      /\ container \in Containers /\ ReleaseConfig[r] \in Configs
      /\ rVerdict[r] \in {"none", "success", "failed"}
      /\ rRunner \in [Releases -> RelRunners] /\ rVerdict \in [Releases -> {"none", "success", "failed"}]
      /\ rSeen \in [Releases -> ReportSet] /\ rLate \in [Releases -> BOOLEAN]
      /\ rVerdict = [rVerdict EXCEPT ![r] = rVerdict[r]]
  <2>1. Working(r)
    BY DEF Working, ReleaseOpen, ReleaseReplace, ReleaseLaunch, ReleasePoll, ReleaseLate, FailStop,
           FailRestore, FinishPromote
  <2>. QED
    BY <2>1, OneAtWork, ReleaseConfigAssumption DEF ReleaseIInv, RelTypeOK, RtTypeOK
<1>1. CASE ReleaseOpen(r)
  <2>1. PICK pc \in {"replacing", "launching"} : rRunner' = [rRunner EXCEPT ![r] = pc]
    BY <1>1 DEF ReleaseOpen
  <2>2. UNCHANGED <<rtVars, rowVars, submitVars, rSeen, rVerdict, rLate, rStop>> /\ rRunner[r] = "opening"
    BY <1>1 DEF ReleaseOpen
  <2>3. RelVerdictInv'
    BY <1>0, <2>1, <2>2 DEF ReleaseIInv, RelVerdictInv, rtVars, rowVars, submitVars
  <2>. QED
    BY <1>0, <2>1, <2>2, <2>3, WorkStep DEF rtVars, rowVars, RelRunners
<1>2. CASE ReleaseReplace(r)
  <2>0. PICK ok \in BOOLEAN : AgentStop(ok) /\ rRunner' = [rRunner EXCEPT ![r] = IF ok THEN "launching" ELSE "stopping"]
    BY <1>2 DEF ReleaseReplace
  <2>1. PICK pc \in {"launching", "stopping"} : rRunner' = [rRunner EXCEPT ![r] = pc]
    BY <2>0
  <2>2. UNCHANGED <<manualVars, stopVars, rtCrashes, rowVars, submitVars, rSeen, rVerdict, rLate, rStop>>
        /\ rRunner[r] = "replacing"
    BY <1>2 DEF ReleaseReplace
  <2>3. container' \in Containers
    BY <1>0, <2>0, StopOutcome
  <2>4. RelVerdictInv'
    BY <1>0, <2>1, <2>2 DEF ReleaseIInv, RelVerdictInv, rowVars, submitVars, Working
  <2>. QED
    BY <1>0, <2>1, <2>2, <2>3, <2>4, WorkStep DEF rowVars, RelRunners
<1>3. CASE ReleaseLaunch(r)
  <2>0. PICK ok \in BOOLEAN : AgentStart(ReleaseConfig[r], ok)
                              /\ rRunner' = [rRunner EXCEPT ![r] = IF ok THEN "polling" ELSE "stopping"]
    BY <1>3 DEF ReleaseLaunch
  <2>1. PICK pc \in {"polling", "stopping"} : rRunner' = [rRunner EXCEPT ![r] = pc] /\ (pc = "polling" => ok)
    BY <2>0
  <2>2. UNCHANGED <<manualVars, stopVars, rtCrashes, rowVars, submitVars, rSeen, rVerdict, rLate, rStop>>
        /\ rRunner[r] = "launching"
    BY <1>3 DEF ReleaseLaunch
  <2>3. container' \in Containers /\ (ok => container'.cfg = ReleaseConfig[r])
    BY <1>0, <2>0, StartOutcome
  <2>4. RelVerdictInv'
    BY <1>0, <2>1, <2>2, <2>3 DEF ReleaseIInv, RelVerdictInv, rowVars, submitVars, Working
  <2>. QED
    BY <1>0, <2>1, <2>2, <2>3, <2>4, WorkStep DEF rowVars, RelRunners
<1>4. CASE ReleasePoll(r)
  <2>1. PICK rep \in Reports :
       /\ rSeen' = [rSeen EXCEPT ![r] = IF rep = Unknown THEN @ ELSE rep]
       /\ \/ /\ rep.state = "ready"
             /\ rVerdict' = [rVerdict EXCEPT ![r] = "success"]
             /\ rRunner' = [rRunner EXCEPT ![r] = "promoting"]
          \/ /\ rep.state # "ready"
             /\ rRunner' = [rRunner EXCEPT ![r] = "stopping"]
             /\ UNCHANGED rVerdict
          \/ /\ rep.state # "ready"
             /\ UNCHANGED <<rRunner, rVerdict>>
    BY <1>4 DEF ReleasePoll
  <2>2. UNCHANGED <<rtVars, rowVars, submitVars, rLate, rStop>> /\ rRunner[r] = "polling"
    BY <1>4 DEF ReleasePoll
  <2>3. rep \in ReportSet /\ (rep.state = "ready" => rep = Report("ready", ReleaseConfig[r]) /\ rep # Unknown)
    <3>1. rep \in ReportSet /\ (rep.state = "ready" => rep = Report("ready", container.cfg) /\ container.cfg \in Configs)
      BY <1>0, ReportIsOfContainer
    <3>2. container.cfg \in {ReleaseConfig[r], NoConfig}
      BY <2>2 DEF ReleaseIInv, RelVerdictInv
    <3>. QED
      BY <3>1, <3>2, NoConfigAssumption DEF Unknown, Report
  <2>4. rSeen' \in [Releases -> ReportSet]
    BY <1>0, <2>1, <2>3
  <2>5. RelVerdictInv'
    BY <1>0, <2>1, <2>2, <2>3 DEF ReleaseIInv, RelVerdictInv, rtVars, rowVars, submitVars, Working
  <2>9. /\ container' \in Containers /\ rVerdict = [rVerdict EXCEPT ![r] = "none"]
        /\ UNCHANGED <<manualVars, stopVars, rtCrashes, rStatus, rank, serving, endpoint, submitVars, rStop>>
        /\ rLate' \in [Releases -> BOOLEAN]
    BY <1>0, <2>2 DEF rtVars, rowVars, ReleaseIInv, RelVerdictInv
  <2>6. CASE rep.state = "ready"
    BY <1>0, <2>1, <2>2, <2>4, <2>5, <2>6, <2>9, WorkStep DEF RelRunners
  <2>7. CASE rRunner' = [rRunner EXCEPT ![r] = "stopping"] /\ UNCHANGED rVerdict
    <3>1. rVerdict' = [rVerdict EXCEPT ![r] = "none"] /\ "stopping" \in RelRunners \ {"none", "done"}
      BY <2>7, <2>9 DEF RelRunners
    <3>. QED
      BY <1>0, <2>2, <2>4, <2>5, <2>7, <2>9, <3>1, WorkStep
  <2>8. CASE UNCHANGED <<rRunner, rVerdict>>
    <3>1. rRunner' = [rRunner EXCEPT ![r] = "polling"]
      BY <1>0, <2>2, <2>8
    <3>. QED
      BY <1>0, <2>1, <2>2, <2>4, <2>5, <2>8, <2>9, <3>1, WorkStep DEF RelRunners
  <2>. QED
    BY <2>1, <2>6, <2>7, <2>8
<1>5. CASE ReleaseLate(r)
  <2>1. UNCHANGED <<rtVars, rowVars, submitVars, rRunner, rSeen, rVerdict, rStop>> /\ rRunner[r] = "polling"
        /\ rLate' \in [Releases -> BOOLEAN]
    BY <1>0, <1>5 DEF ReleaseLate
  <2>2. rRunner' = [rRunner EXCEPT ![r] = "polling"]
    BY <1>0, <2>1
  <2>3. RelVerdictInv'
    BY <1>0, <2>1 DEF ReleaseIInv, RelVerdictInv, rtVars, rowVars, submitVars
  <2>. QED
    BY <1>0, <2>1, <2>2, <2>3, WorkStep DEF rtVars, rowVars, RelRunners
<1>6. CASE FailStop(r)
  <2>1. PICK ok \in BOOLEAN : AgentStop(ok)
    BY <1>6 DEF FailStop
  <2>2. PICK pc \in {"restoring", "closing"} :
          rRunner' = [rRunner EXCEPT ![r] = pc] /\ (pc = "restoring" => previous[r].state = "ready")
    BY <1>6 DEF FailStop, Restorable
  <2>3. UNCHANGED <<manualVars, stopVars, rtCrashes, rowVars, submitVars, rSeen, rLate, rStop>>
        /\ rVerdict' = [rVerdict EXCEPT ![r] = "failed"] /\ rRunner[r] = "stopping"
    BY <1>6 DEF FailStop
  <2>4. container' \in Containers
    BY <1>0, <2>1, StopOutcome
  <2>5. RelVerdictInv'
    BY <1>0, <2>2, <2>3 DEF ReleaseIInv, RelVerdictInv, ProgressInv, rowVars, submitVars, Working
  <2>. QED
    BY <1>0, <2>2, <2>3, <2>4, <2>5, WorkStep DEF rowVars, RelRunners
<1>7. CASE FailRestore(r)
  <2>1. PICK ok \in BOOLEAN : AgentStart(previous[r].cfg, ok)
    BY <1>7 DEF FailRestore
  <2>2. UNCHANGED <<manualVars, stopVars, rtCrashes, rowVars, submitVars, rSeen, rVerdict, rLate, rStop>>
        /\ rRunner' = [rRunner EXCEPT ![r] = "closing"] /\ rRunner[r] = "restoring" /\ rVerdict[r] = "failed"
    BY <1>7 DEF FailRestore, ReleaseIInv, RelVerdictInv
  <2>3. container' \in Containers
    BY <1>0, <2>1, <2>2, StartOutcome DEF ReleaseIInv, RelVerdictInv
  <2>4. RelVerdictInv'
    BY <1>0, <2>2 DEF ReleaseIInv, RelVerdictInv, rowVars, submitVars, Working
  <2>. QED
    BY <1>0, <2>2, <2>3, <2>4, WorkStep DEF rowVars, RelRunners
<1>8. CASE FinishPromote(r)
  <2>1. UNCHANGED <<rtVars, rStatus, rank, endpoint, submitVars, rSeen, rVerdict, rLate, rStop>>
        /\ rRunner' = [rRunner EXCEPT ![r] = "superseding"] /\ rRunner[r] = "promoting"
        /\ serving' = serving \cup {ReleaseVersion[r]}
    BY <1>8 DEF FinishPromote, Settled
  <2>3. /\ container' \in Containers /\ rVerdict' = [rVerdict EXCEPT ![r] = rVerdict[r]]
        /\ UNCHANGED <<manualVars, stopVars, rtCrashes, rStatus, rank, endpoint, submitVars, rStop>>
        /\ rSeen' \in [Releases -> ReportSet] /\ rLate' \in [Releases -> BOOLEAN]
    BY <1>0, <2>1 DEF rtVars
  <2>2. RelVerdictInv'
    BY <1>0, <2>1 DEF ReleaseIInv, RelVerdictInv, rtVars, rowVars, submitVars
  <2>. QED
    <3>1. "superseding" \in RelRunners \ {"none", "done"}
      BY DEF RelRunners
    <3>. QED
      BY <1>0, <2>1, <2>2, <2>3, <3>1, WorkStep
<1>. QED
  BY <1>1, <1>2, <1>3, <1>4, <1>5, <1>6, <1>7, <1>8

\* A row that is there is written: rows, ranks and what is inserted stay.
LEMMA RowWritten ==
  ASSUME RelTypeOK, RankInv, NEW k \in Releases, rStatus[k] # "absent",
         NEW s \in {"success", "failed", "rolled_back"}, rStatus' = [rStatus EXCEPT ![k] = s],
         UNCHANGED rank
  PROVE  /\ rStatus' \in [Releases -> {"absent", "running", "success", "failed", "rolled_back"}]
         /\ Inserted' = Inserted
         /\ RankInv'
<1>1. rStatus' \in [Releases -> {"absent", "running", "success", "failed", "rolled_back"}]
  BY DEF RelTypeOK
<1>2. Inserted' = Inserted
  BY DEF Inserted, RelTypeOK
<1>. QED
  BY <1>1, <1>2 DEF RankInv, RelTypeOK

\* The three writes of a success, and what a failure restores, keep it.
LEMMA FinishStep ==
  ASSUME Settled, ReleaseIInv, NEW r \in Releases, FinishSupersede(r) \/ FinishClose(r)
  PROVE  /\ ReleaseIInv'
         /\ \A k \in Releases : rStatus[k] \in {"failed", "rolled_back"} => rStatus'[k] = rStatus[k]
<1> USE DEF ReleaseIInv, RGoto, RtWrite, Settled
<1>0. /\ Working(r) /\ \A k \in Releases : Working(k) => k = r
      /\ UNCHANGED <<container, mStatus, mPc, mSeen, mVerdict, mLate, rtStop, stopRows, rtCrashes,
                     rank, serving, rRequest, previous, previousId, rSeen, rVerdict, rLate, rStop>>
      /\ endpoint' \in {"healthy", "unreachable"}
      /\ rStatus[r] = "running"
      /\ \A k \in Releases : rRequest[k] # "linked"
  <2>1. Working(r)
    BY DEF Working, FinishSupersede, FinishClose
  <2>2. rStatus[r] = "running" /\ \A k \in Releases : rRequest[k] # "linked"
    BY <2>1 DEF ProgressInv
  <2>. QED
    BY <2>1, <2>2, OneAtWork DEF FinishSupersede, FinishClose, WriteEndpoint, RelTypeOK, rtVars,
       manualVars, stopVars, submitVars
<1>1. RtInv' /\ RtTypeOK'
  BY <1>0 DEF RtInv, RtTypeOK, ManualInv, OneStart, Pending
<1>2. CASE FinishSupersede(r)
  <2>1. /\ rRunner[r] = "superseding" /\ rRunner' = [rRunner EXCEPT ![r] = "closing"]
        /\ rVerdict[r] = "success" /\ ReleaseVersion[r] \in serving
    BY <1>2 DEF FinishSupersede, RelVerdictInv
  <2>2. /\ previousId[r] # r /\ previousId[r] \in Releases \cup {NoRelease}
        /\ \A k \in Releases : rStatus[k] = "success" <=> k = previousId[r]
    BY <2>1 DEF ProductionInv, Supersedes, Working, RelTypeOK
  <2>3. CASE previousId[r] = NoRelease
    <3>1. rStatus' = rStatus
      BY <1>2, <2>3 DEF FinishSupersede
    <3>2. Succeeded = {} /\ Succeeded' = {} /\ Inserted' = Inserted
      BY <2>2, <2>3, <3>1, NoReleaseAssumption DEF Succeeded, Inserted
    <3>3. RelTypeOK' /\ RankInv' /\ ServingMatches'
      BY <1>0, <1>1, <2>1, <3>1, <3>2 DEF RelTypeOK, RankInv, ServingMatches, RelRunners
    <3>4. AloneInv' /\ ProgressInv'
      BY <1>0, <2>1, <3>1, <3>2 DEF AloneInv, ProgressInv, Working, Pending, RelTypeOK
    <3>5. RelVerdictInv'
      BY <1>0, <2>1, <3>1 DEF RelVerdictInv, RelTypeOK
    <3>6. ProductionInv'
      BY <1>0, <2>1, <3>2 DEF ProductionInv, Supersedes, Working, RelTypeOK
    <3>. QED
      BY <1>1, <3>1, <3>3, <3>4, <3>5, <3>6
  <2>4. CASE previousId[r] # NoRelease
    <3>1. previousId[r] \in Releases /\ rStatus[previousId[r]] = "success"
      BY <2>2, <2>4
    <3>2. rStatus' = [rStatus EXCEPT ![previousId[r]] = "rolled_back"]
      BY <1>2, <2>2, <2>4 DEF FinishSupersede
    <3>3. /\ rStatus' \in [Releases -> {"absent", "running", "success", "failed", "rolled_back"}]
          /\ Inserted' = Inserted /\ RankInv'
      BY <1>0, <3>1, <3>2, RowWritten
    <3>4. Succeeded' = {}
      BY <2>2, <3>1, <3>2 DEF Succeeded, RelTypeOK
    <3>5. RelTypeOK' /\ ServingMatches'
      BY <1>0, <1>1, <2>1, <3>3, <3>4 DEF RelTypeOK, ServingMatches, RelRunners
    <3>6. AloneInv' /\ ProgressInv'
      BY <1>0, <2>1, <3>1, <3>2, <3>4 DEF AloneInv, ProgressInv, Working, Pending, RelTypeOK
    <3>7. RelVerdictInv'
      BY <1>0, <2>1, <3>1, <3>2 DEF RelVerdictInv, RelTypeOK
    <3>8. ProductionInv'
      BY <1>0, <2>1, <3>4 DEF ProductionInv, Supersedes, Working, RelTypeOK
    <3>. QED
      BY <1>1, <3>1, <3>2, <3>3, <3>5, <3>6, <3>7, <3>8 DEF RelTypeOK
  <2>. QED
    BY <2>3, <2>4
<1>3. CASE FinishClose(r)
  <2>1. /\ rRunner[r] = "closing" /\ rRunner' = [rRunner EXCEPT ![r] = "done"]
        /\ rStatus' = [rStatus EXCEPT ![r] = rVerdict[r]]
        /\ rVerdict[r] \in {"success", "failed"}
    BY <1>3 DEF FinishClose, RelVerdictInv, RelTypeOK
  <2>2. /\ rStatus' \in [Releases -> {"absent", "running", "success", "failed", "rolled_back"}]
        /\ Inserted' = Inserted /\ RankInv'
    BY <1>0, <2>1, RowWritten
  <2>3. rVerdict[r] = "success" =>
          ReleaseVersion[r] \in serving /\ Succeeded = {} /\ Succeeded' = {r}
    BY <2>1 DEF RelVerdictInv, ProductionInv, Succeeded, RelTypeOK
  <2>4. rVerdict[r] = "failed" => Succeeded' = Succeeded
    BY <1>0, <2>1 DEF Succeeded, RelTypeOK
  <2>5. RelTypeOK' /\ ServingMatches'
    BY <1>0, <1>1, <2>1, <2>2, <2>3, <2>4 DEF RelTypeOK, ServingMatches, RelRunners
  <2>6. AloneInv'
    BY <1>0, <2>1 DEF AloneInv, Working, Pending, RelTypeOK
  <2>7. ProgressInv'
    BY <1>0, <2>1, <2>3, <2>4 DEF AloneInv, ProgressInv, Working, RelTypeOK
  <2>8. RelVerdictInv'
    BY <1>0, <2>1 DEF RelVerdictInv, RelTypeOK
  <2>9. ProductionInv'
    <3>1. \A k \in Releases : ~Supersedes(k)'
      BY <1>0, <2>1 DEF Supersedes, Working, RelTypeOK
    <3>2. \A k \in Releases : rRunner'[k] # "closing"
      BY <1>0, <2>1 DEF Working, RelTypeOK
    <3>3. \A j, k \in Succeeded' : j = k
      BY <2>1, <2>3, <2>4 DEF ProductionInv
    <3>. QED
      BY <3>1, <3>2, <3>3 DEF ProductionInv
  <2>. QED
    BY <1>0, <1>1, <2>1, <2>2, <2>5, <2>6, <2>7, <2>8, <2>9 DEF RelTypeOK
<1>. QED
  BY <1>2, <1>3

--------------------------------------------------------------------------------
(* Taking a release offline, and restarts.                                    *)

\* What is latest has no row above it.
LEMMA LatestIsLast ==
  ASSUME RelTypeOK, NEW r \in Releases, NEW k \in Inserted, r = Latest(Inserted),
         NEW top \in Inserted, \A j \in Inserted : rank[j] <= rank[top]
  PROVE  rank[k] <= rank[r]
  BY DEF Latest

\* Taking a release offline, step by step, keeps it.
LEMMA OfflineStepHolds ==
  ASSUME Settled, ReleaseIInv, NEW r \in Releases,
         (~RelBusy /\ OfflineCheck(r, FALSE)) \/ OfflineStep(r)
  PROVE  /\ ReleaseIInv'
         /\ \A k \in Releases : rStatus[k] \in {"failed", "rolled_back"} => rStatus'[k] = rStatus[k]
<1> USE DEF ReleaseIInv, Settled
<1>0. /\ UNCHANGED <<manualVars, stopVars, rtCrashes, rank, submitVars, runnerVars>>
      /\ container' \in Containers /\ container'.cfg \in {container.cfg, NoConfig}
  <2>1. CASE OfflineStop(r)
    BY <2>1, StopOutcome DEF OfflineStop, RelTypeOK, RtTypeOK, rowVars
  <2>. QED
    BY <2>1 DEF OfflineCheck, OfflineStep, OfflineMark, OfflineModel, RelTypeOK, RtTypeOK, rtVars, rowVars
<1>1. RtTypeOK' /\ RtInv'
  <2>1. RtTypeOK'
    BY <1>0 DEF RelTypeOK, RtTypeOK, manualVars, stopVars
  <2>. QED
    BY <1>0, <2>1, ContainerStep DEF RtInv, manualVars
<1>2. UNCHANGED <<rRequest, previous, previousId, rRunner, rSeen, rVerdict, rLate, rtStop, stopRows, mPc>>
  BY <1>0 DEF submitVars, runnerVars, stopVars, manualVars
<1>3. CASE ~RelBusy /\ OfflineCheck(r, FALSE)
  <2>1. /\ rStop' = [rStop EXCEPT ![r] = "current"] /\ UNCHANGED <<rStatus, rank, serving, endpoint>>
        /\ rStatus[r] = "success" /\ Inserted # {} /\ r = Latest(Inserted)
        /\ \A k \in Releases : rRequest[k] = "idle" /\ rStop[k] = "idle"
    BY <1>3, StopFromAssumption DEF OfflineCheck, rowVars, RelBusy
  <2>2. \A k \in Releases : ~Working(k)
    <3>1. SUFFICES ASSUME NEW k \in Releases, Working(k) PROVE FALSE
      OBVIOUS
    <3>2. rStatus[k] = "running" /\ k # r
      BY <2>1, <3>1 DEF ProgressInv
    <3>3. Cardinality(Releases) \in Nat
      BY ReleasesAssumption, FS_CardinalityType
    <3>4. rank[k] \in Nat /\ rank[r] \in Nat /\ \A j \in Releases : rank[j] \in Nat
      BY <3>3 DEF RelTypeOK
    <3>5. \A j \in Inserted : rank[j] <= rank[k]
      BY <3>2, <3>4 DEF RankInv, Inserted
    <3>6. k \in Inserted
      BY <3>2 DEF Inserted
    <3>7. rank[k] <= rank[r]
      BY <2>1, <3>5, <3>6, LatestIsLast
    <3>8. rank[r] < rank[k]
      BY <3>2 DEF RankInv
    <3>. QED
      BY <3>4, <3>7, <3>8
  <2>3. Inserted' = Inserted /\ Succeeded' = Succeeded
    BY <2>1 DEF Inserted, Succeeded
  <2>4. RelTypeOK' /\ RankInv' /\ ServingMatches'
    BY <1>1, <1>2, <2>1, <2>3 DEF RelTypeOK, RankInv, ServingMatches
  <2>5. AloneInv' /\ ProgressInv'
    BY <1>2, <2>1, <2>2, <2>3 DEF AloneInv, ProgressInv, Working, Pending, RelTypeOK
  <2>6. RelVerdictInv' /\ ProductionInv'
    BY <1>0, <1>2, <2>1, <2>3 DEF RelVerdictInv, ProductionInv, Supersedes, Working
  <2>. QED
    BY <1>1, <2>1, <2>4, <2>5, <2>6
<1>4. CASE OfflineStep(r)
  <2>1. rStop[r] # "idle" /\ \A k \in Releases : ~Working(k) /\ rRequest[k] = "idle"
    BY <1>4 DEF OfflineStep, OfflineStop, OfflineMark, OfflineModel, AloneInv
  <2>2. rStop' \in [Releases -> {"idle", "current", "stopped", "marked"}]
        /\ (\A k \in Releases : rStop'[k] # "idle" => rStop[k] # "idle")
        /\ (\A k \in Releases \ {r} : rStop'[k] = rStop[k])
    BY <1>4 DEF OfflineStep, OfflineStop, OfflineMark, OfflineModel, RelTypeOK
  <2>3. AloneInv'
    BY <1>2, <2>1, <2>2 DEF AloneInv, Working, Pending
  <2>4. ASSUME Inserted' = Inserted, Succeeded' \subseteq Succeeded,
               \A k \in Succeeded' : ReleaseVersion[k] \in serving'
        PROVE  ProductionInv' /\ ServingMatches'
    BY <1>2, <2>1, <2>4 DEF ProductionInv, ServingMatches, Supersedes, Working
  <2>5. CASE OfflineStop(r)
    <3>1. UNCHANGED <<rStatus, rank, serving, endpoint>> /\ rStop[r] = "current" /\ rStop'[r] \in {"stopped", "idle"}
      BY <2>5 DEF OfflineStop, rowVars, RelTypeOK
    <3>2. Inserted' = Inserted /\ Succeeded' = Succeeded
      BY <3>1 DEF Inserted, Succeeded
    <3>3. RelTypeOK' /\ RankInv'
      BY <1>1, <1>2, <2>2, <3>1, <3>2 DEF RelTypeOK, RankInv
    <3>4. ProgressInv'
      BY <1>2, <2>2, <3>1, <3>2 DEF ProgressInv, Working
    <3>5. RelVerdictInv'
      BY <1>0, <1>2, <2>1, <3>1 DEF RelVerdictInv
    <3>6. ProductionInv' /\ ServingMatches'
      BY <2>4, <3>1, <3>2 DEF ServingMatches
    <3>. QED
      BY <1>1, <2>3, <3>1, <3>3, <3>4, <3>5, <3>6
  <2>6. CASE OfflineMark(r)
    <3>1. /\ UNCHANGED <<rank, serving, endpoint>> /\ rStop[r] = "stopped" /\ rStop'[r] = "marked"
          /\ rStatus' = [rStatus EXCEPT ![r] = "rolled_back"] /\ rStatus[r] = "success"
      BY <2>6 DEF OfflineMark, RtWrite, RelTypeOK, ProgressInv
    <3>2. /\ rStatus' \in [Releases -> {"absent", "running", "success", "failed", "rolled_back"}]
          /\ Inserted' = Inserted /\ RankInv'
      BY <3>1, RowWritten
    <3>3. Succeeded' = {}
      BY <3>1 DEF ProductionInv, Succeeded, RelTypeOK
    <3>4. RelTypeOK'
      BY <1>1, <1>2, <2>2, <3>1, <3>2 DEF RelTypeOK
    <3>5. ProgressInv'
      BY <1>2, <2>1, <2>2, <3>1, <3>3 DEF ProgressInv, AloneInv, Working, RelTypeOK
    <3>6. RelVerdictInv'
      BY <1>0, <1>2, <2>1, <3>1 DEF RelVerdictInv, Working, RelTypeOK
    <3>7. ProductionInv' /\ ServingMatches'
      BY <2>4, <3>1, <3>2, <3>3
    <3>. QED
      BY <1>1, <2>3, <3>1, <3>2, <3>4, <3>5, <3>6, <3>7 DEF RelTypeOK
  <2>7. CASE OfflineModel(r)
    <3>1. /\ UNCHANGED <<rStatus, rank>> /\ rStop[r] = "marked" /\ rStop'[r] = "idle"
          /\ serving' \subseteq serving /\ endpoint' \in {"healthy", "unreachable"}
      BY <2>7 DEF OfflineModel, WriteEndpoint, RelTypeOK
    <3>2. Inserted' = Inserted /\ Succeeded' = Succeeded /\ Succeeded = {}
      BY <3>1 DEF Inserted, Succeeded, ProgressInv
    <3>3. RelTypeOK' /\ RankInv'
      BY <1>1, <1>2, <2>2, <3>1, <3>2 DEF RelTypeOK, RankInv
    <3>4. ProgressInv'
      BY <1>2, <2>2, <3>1, <3>2 DEF ProgressInv, Working
    <3>5. RelVerdictInv'
      BY <1>0, <1>2, <2>1, <3>1 DEF RelVerdictInv, Working
    <3>6. ProductionInv' /\ ServingMatches'
      BY <2>4, <3>2
    <3>. QED
      BY <1>1, <2>3, <3>1, <3>3, <3>4, <3>5, <3>6
  <2>. QED
    BY <1>4, <2>5, <2>6, <2>7 DEF OfflineStep
<1>. QED
  BY <1>3, <1>4

\* A restart of the control plane keeps it.
LEMMA CrashStep == ASSUME ReleaseIInv, RelCrash PROVE ReleaseIInv'
<1> USE DEF ReleaseIInv
<1>1. RtInv'
  BY RtStepHolds DEF RelCrash, RtOwnStep
<1>2. /\ UNCHANGED <<container, rStatus, rank, serving, endpoint, previous, previousId, rSeen, rVerdict, rLate>>
      /\ rRequest' = [k \in Releases |-> "idle"] /\ rStop' = [k \in Releases |-> "idle"]
      /\ rRunner' = [k \in Releases |-> IF rRunner[k] = "none" THEN "none" ELSE "done"]
  BY DEF RelCrash, RtCrash, rowVars
<1>3. Inserted' = Inserted /\ Succeeded' = Succeeded
  BY <1>2 DEF Inserted, Succeeded
<1>4. RelTypeOK' /\ RankInv' /\ ServingMatches'
  BY <1>1, <1>2, <1>3 DEF RtInv, RelTypeOK, RankInv, ServingMatches, Submits, RelRunners
<1>5. \A k \in Releases : ~Working(k)'
  BY <1>2 DEF Working
<1>6. AloneInv' /\ ProgressInv' /\ ProductionInv'
  BY <1>2, <1>3, <1>5 DEF AloneInv, ProgressInv, ProductionInv, Supersedes, Working, RelTypeOK
<1>7. RelVerdictInv'
  BY <1>2 DEF RelVerdictInv
<1>. QED
  BY <1>1, <1>4, <1>6, <1>7

--------------------------------------------------------------------------------
(* The theorems.                                                              *)

\* Every step keeps it.
LEMMA ReleaseStepHolds ==
  ASSUME Settled, ReleaseIInv, [RelNext]_relAll
  PROVE  /\ ReleaseIInv'
         /\ \A k \in Releases : rStatus[k] \in {"failed", "rolled_back"} => rStatus'[k] = rStatus[k]
<1>1. ASSUME NEW r \in Releases,
             \/ ~RelBusy /\ (\A m \in Manuals : ~Pending(m)) /\ ReleaseLaneCheck(r, TRUE)
             \/ \E busy \in BOOLEAN : ReleaseBenchmarkCheck(r, busy)
             \/ ReleaseAloneCheck(r) \/ ReleaseCapture(r) \/ ReleaseLink(r)
      PROVE  ReleaseIInv' /\ UNCHANGED rStatus
  BY <1>1, RequestStep DEF ReleaseLaneCheck, ReleaseBenchmarkCheck, ReleaseAloneCheck, ReleaseCapture,
     ReleaseLink, rowVars
<1>2. ASSUME NEW r \in Releases, ReleaseInsert(r)
      PROVE  ReleaseIInv' /\ \A k \in Releases : rStatus[k] # "absent" => rStatus'[k] = rStatus[k]
  <2>1. rStatus[r] = "absent" /\ rStatus' = [rStatus EXCEPT ![r] = "running"]
    BY <1>2 DEF ReleaseInsert, ReleaseIInv, ProgressInv
  <2>. QED
    BY <1>2, <2>1, InsertStep DEF ReleaseIInv, RelTypeOK
<1>3. ASSUME NEW r \in Releases,
             \/ ReleaseOpen(r) \/ ReleaseReplace(r) \/ ReleaseLaunch(r) \/ ReleasePoll(r) \/ ReleaseLate(r)
             \/ FailStop(r) \/ FailRestore(r) \/ FinishPromote(r)
      PROVE  ReleaseIInv' /\ UNCHANGED rStatus
  BY <1>3, RunnerStepHolds DEF ReleaseOpen, ReleaseReplace, ReleaseLaunch, ReleasePoll, ReleaseLate, FailStop,
     FailRestore, FinishPromote, rowVars
<1>4. ASSUME DirectStep, UNCHANGED relVars PROVE ReleaseIInv' /\ UNCHANGED rStatus
  BY <1>4, DirectStepHolds DEF relVars, rowVars
<1>5. ASSUME RelCrash PROVE ReleaseIInv' /\ UNCHANGED rStatus
  BY <1>5, CrashStep DEF RelCrash, rowVars
<1>6. ASSUME UNCHANGED relAll PROVE ReleaseIInv' /\ UNCHANGED rStatus
  <2>1. Inserted' = Inserted /\ Succeeded' = Succeeded
    BY <1>6 DEF relAll, relVars, rowVars, Inserted, Succeeded
  <2>. QED
    BY <1>6, <2>1
       DEF relAll, relVars, rowVars, submitVars, runnerVars, rtVars, manualVars, stopVars, ReleaseIInv, RtInv,
           RtTypeOK, ManualInv, OneStart, Pending, RelTypeOK, AloneInv, RankInv, ProgressInv, RelVerdictInv,
           ProductionInv, Supersedes, Working, ServingMatches
<1>7. ASSUME RelNext
      PROVE  \/ \E r \in Releases :
                  \/ ~RelBusy /\ (\A m \in Manuals : ~Pending(m)) /\ ReleaseLaneCheck(r, TRUE)
                  \/ \E busy \in BOOLEAN : ReleaseBenchmarkCheck(r, busy)
                  \/ ReleaseAloneCheck(r) \/ ReleaseCapture(r) \/ ReleaseLink(r)
             \/ \E r \in Releases : ReleaseInsert(r)
             \/ \E r \in Releases :
                  \/ ReleaseOpen(r) \/ ReleaseReplace(r) \/ ReleaseLaunch(r) \/ ReleasePoll(r) \/ ReleaseLate(r)
                  \/ FailStop(r) \/ FailRestore(r) \/ FinishPromote(r)
             \/ \E r \in Releases : FinishSupersede(r) \/ FinishClose(r)
             \/ \E r \in Releases : (~RelBusy /\ OfflineCheck(r, FALSE)) \/ OfflineStep(r)
             \/ DirectStep /\ UNCHANGED relVars
             \/ RelCrash
  BY <1>7, OverlapAssumption DEF Settled, RelNext, SubmitStep, ReleaseStep, DirectStep
<1>. QED
  BY <1>1, <1>2, <1>3, <1>4, <1>5, <1>6, <1>7, FinishStep, OfflineStepHolds

\* The invariant holds throughout.
LEMMA ReleaseAlways == ASSUME Settled PROVE RelSpec => []ReleaseIInv
  BY ReleaseInitHolds, ReleaseStepHolds, PTL DEF RelSpec

\* Of any number of releases at most one is in production, its runner saw the
\* configuration it asked for become ready, and its model version is marked as
\* serving (finishInferenceRelease); a direct start beside them is recorded as a
\* success only for its own configuration.
THEOREM ReleaseHolds ==
  ASSUME Settled PROVE RelSpec => [](ReleaseInv /\ ManualSawItself)
<1>1. ReleaseIInv => ReleaseInv /\ ManualSawItself
  <2>1. ASSUME ReleaseIInv PROVE OneSuccess
    <3>1. CASE Succeeded = {}
      <4>1. Cardinality({}) = 0
        BY FS_EmptySet
      <4>. QED
        BY <3>1, <4>1 DEF OneSuccess
    <3>2. CASE Succeeded # {}
      <4>1. PICK r : Succeeded = {r}
        BY <2>1, <3>2 DEF ReleaseIInv, ProductionInv
      <4>2. Cardinality({r}) = 1
        BY FS_Singleton
      <4>. QED
        BY <4>1, <4>2 DEF OneSuccess
    <3>. QED
      BY <3>1, <3>2
  <2>2. ASSUME ReleaseIInv PROVE ReleaseSawItself
    BY <2>2 DEF ReleaseIInv, RelVerdictInv, ReleaseSawItself, Succeeded
  <2>. QED
    BY <2>1, <2>2 DEF ReleaseInv, ReleaseIInv, RtInv, ManualInv, ManualSawItself
<1>. QED
  BY <1>1, ReleaseAlways, PTL

\* A row that was superseded, taken offline or failed keeps that status: neither
\* a runner nor an operator's stop rewrites it.
THEOREM ReleaseEnds == ASSUME Settled PROVE RelSpec => ReleaseStaysEnded
<1>1. Settled /\ ReleaseIInv /\ [RelNext]_relAll =>
        [\A r \in Releases :
           rStatus[r] \in {"failed", "rolled_back"} => rStatus'[r] = rStatus[r]]_rStatus
  BY ReleaseStepHolds
<1>. QED
  BY <1>1, ReleaseAlways, PTL DEF RelSpec, ReleaseStaysEnded

--------------------------------------------------------------------------------
(* The restore of the runtime that a failed release replaced.                 *)

\* The agent and Docker answer: what fails is the runtime, not the calls.
CallsLand == RtFaults \cap {"agent", "docker"} = {}

\* A release restores into an empty place, and what it restored stays.
RestoreInv ==
  \A r \in Releases :
    /\ rRunner[r] = "restoring" => container = Absent
    /\ rRunner[r] = "closing" /\ rVerdict[r] = "failed" /\ Restorable(previous[r]) =>
         container.cfg = previous[r].cfg

\* Beside its own runner nothing changes the container of a release at work.
LEMMA NobodyElse ==
  ASSUME Settled, ReleaseIInv, [RelNext]_relAll, NEW r \in Releases, Working(r)
  PROVE  \/ ReleaseStep(r) \/ RelCrash
         \/ Boot /\ UNCHANGED relVars
         \/ Die /\ UNCHANGED relVars
         \/ UNCHANGED <<container, previous, rRunner, rVerdict>>
<1>1. \A k \in Releases : Working(k) => k = r
  BY OneAtWork
<1>2. ASSUME NEW k \in Releases, ReleaseStep(k) PROVE k = r
  BY <1>1, <1>2 DEF Working, ReleaseStep, ReleaseOpen, ReleaseReplace, ReleaseLaunch, ReleasePoll, FailStop,
     FailRestore, FinishPromote, FinishSupersede, FinishClose
<1>3. ASSUME NEW k \in Releases, OfflineStep(k) PROVE FALSE
  BY <1>3 DEF ReleaseIInv, AloneInv, OfflineStep, OfflineStop, OfflineMark, OfflineModel
<1>4. ASSUME DirectStep PROVE Boot \/ Die
  BY <1>4, DirectControlWaits DEF ReleaseIInv, RelTypeOK
<1>5. ASSUME NEW k \in Releases,
             \/ ReleaseLaneCheck(k, TRUE) \/ (\E busy \in BOOLEAN : ReleaseBenchmarkCheck(k, busy))
             \/ ReleaseAloneCheck(k) \/ ReleaseLink(k) \/ ReleaseLate(k) \/ OfflineCheck(k, FALSE)
      PROVE  UNCHANGED <<container, previous, rRunner, rVerdict>>
  BY <1>5 DEF ReleaseLaneCheck, ReleaseBenchmarkCheck, ReleaseAloneCheck, ReleaseLink, ReleaseLate, OfflineCheck,
     rtVars, runnerVars, submitVars
<1>6. ASSUME NEW k \in Releases, ReleaseCapture(k) \/ ReleaseInsert(k) PROVE FALSE
  BY <1>6 DEF ReleaseCapture, ReleaseInsert, ReleaseIInv, ProgressInv
<1>7. ASSUME UNCHANGED relAll PROVE UNCHANGED <<container, previous, rRunner, rVerdict>>
  BY <1>7 DEF relAll, relVars, rtVars, runnerVars, submitVars
<1>. QED
  BY <1>2, <1>3, <1>4, <1>5, <1>6, <1>7, OverlapAssumption
     DEF RelNext, SubmitStep, Settled, DirectStep

\* A step of a failing release keeps the account of what it has to put back.
LEMMA RestoreStep ==
  ASSUME Settled, CallsLand, ReleaseIInv, RestoreInv, [RelNext]_relAll
  PROVE  RestoreInv'
<1>1. SUFFICES ASSUME NEW r \in Releases, rRunner'[r] \in {"restoring", "closing"}
      PROVE  /\ rRunner'[r] = "restoring" => container' = Absent
             /\ rRunner'[r] = "closing" /\ rVerdict'[r] = "failed" /\ Restorable(previous'[r]) =>
                  container'.cfg = previous'[r].cfg
  BY DEF RestoreInv, Restorable
<1> USE DEF RGoto
<1>2. rRunner \in [Releases -> RelRunners] /\ container \in Containers
  BY DEF ReleaseIInv, RelTypeOK, RtTypeOK
<1>3. Working(r)
  <2>1. CASE \E k \in Releases : ReleaseInsert(k)
    BY <1>1, <1>2, <2>1 DEF ReleaseInsert, Working
  <2>2. CASE \E k \in Releases : ReleaseStep(k)
    BY <1>1, <1>2, <2>2
       DEF Working, ReleaseStep, ReleaseOpen, ReleaseReplace, ReleaseLaunch, ReleasePoll, FailStop, FailRestore,
           FinishPromote, FinishSupersede, FinishClose
  <2>3. CASE RelCrash
    BY <1>1, <2>3 DEF RelCrash
  <2>4. CASE UNCHANGED rRunner
    BY <1>1, <2>4 DEF Working
  <2>5. ASSUME NEW k \in Releases,
               \/ ReleaseLaneCheck(k, TRUE) \/ (\E busy \in BOOLEAN : ReleaseBenchmarkCheck(k, busy))
               \/ ReleaseAloneCheck(k) \/ ReleaseCapture(k) \/ ReleaseLink(k) \/ ReleaseLate(k)
               \/ OfflineCheck(k, FALSE) \/ OfflineStep(k)
        PROVE  UNCHANGED rRunner
    BY <2>5
       DEF ReleaseLaneCheck, ReleaseBenchmarkCheck, ReleaseAloneCheck, ReleaseCapture, ReleaseLink, ReleaseLate,
           OfflineCheck, OfflineStep, OfflineStop, OfflineMark, OfflineModel, runnerVars
  <2>. QED
    BY <2>1, <2>2, <2>3, <2>4, <2>5 DEF RelNext, SubmitStep, relAll, relVars, runnerVars
<1>4. CASE ReleaseStep(r)
  <2>1. CASE FailStop(r)
    <3>1. container' = Absent
      BY <2>1 DEF FailStop, AgentStop, CallsLand
    <3>. QED
      BY <1>2, <2>1, <3>1 DEF FailStop, submitVars
  <2>2. CASE FailRestore(r)
    <3>1. container = Absent /\ ~Up
      BY <2>2 DEF FailRestore, RestoreInv, Absent, Up
    <3>2. container' = Launched(previous[r].cfg)
      BY <2>2, <3>1 DEF FailRestore, AgentStart, CallsLand
    <3>. QED
      BY <1>2, <2>2, <3>2 DEF FailRestore, Launched, submitVars
  <2>3. CASE FinishSupersede(r)
    BY <1>2, <2>3 DEF FinishSupersede, ReleaseIInv, RelVerdictInv
  <2>. QED
    BY <1>1, <1>2, <1>4, <2>1, <2>2, <2>3
       DEF ReleaseStep, ReleaseOpen, ReleaseReplace, ReleaseLaunch, ReleasePoll, FinishPromote, FinishClose
<1>5. CASE RelCrash
  BY <1>1, <1>5 DEF RelCrash
<1>6. CASE (Boot \/ Die) /\ UNCHANGED relVars
  <2>1. UNCHANGED <<rRunner, rVerdict, previous>>
    BY <1>6 DEF relVars, runnerVars, submitVars
  <2>2. container'.cfg = container.cfg /\ container # Absent
    BY <1>2, <1>6, LifeOutcome DEF Boot, Die, Up, Absent
  <2>. QED
    BY <1>1, <2>1, <2>2 DEF RestoreInv
<1>7. CASE UNCHANGED <<container, previous, rRunner, rVerdict>>
  BY <1>1, <1>7 DEF RestoreInv
<1>. QED
  BY <1>3, <1>4, <1>5, <1>6, <1>7, NobodyElse

\* When a release fails and the calls of the agent go through, the container is
\* left with the configuration that served before, if the agent knows how to
\* start it again (failInferenceRelease, runtimeRequestForRestore).
THEOREM RestoreHolds ==
  ASSUME Settled, CallsLand PROVE RelSpec => []FailedRestores
<1>1. RelInit => RestoreInv
  BY DEF RelInit, RestoreInv
<1>2. RestoreInv => FailedRestores
  BY DEF RestoreInv, FailedRestores
<1>. QED
  BY <1>1, <1>2, RestoreStep, ReleaseAlways, PTL DEF RelSpec
================================================================================
