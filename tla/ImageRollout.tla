----------------------------- MODULE ImageRollout -----------------------------
(***************************************************************************)
(* Deployments of the platform: the records (httpx/ops_handlers.go,        *)
(* store/deployment.go), the goroutine that rolls an image out and back    *)
(* (httpx/deploy_runner.go), the other writes to Kubernetes and the guard  *)
(* before all of them (httpx/k8s_write_handlers.go), and the calls they    *)
(* make (internal/k8s/client.go).                                          *)
(*                                                                         *)
(* Nothing serialises two rollouts of one Deployment: each runner reads    *)
(* the image it may have to put back, patches, and polls a status that is  *)
(* the Deployment's, not its own.                                          *)
(***************************************************************************)
EXTENDS Naturals, FiniteSets

CONSTANTS
  Rows,        \* rows of deployments that may be created
  Workloads,   \* Deployments of the cluster: pairs <<namespace, name>>
  Images,
  Offered,     \* images a client may ask for, for each row
  Broken,      \* images whose pods never become ready
  Current,     \* image every workload runs at first
  Serving,     \* words that contain a protected substring (vllm, mooncake, ...)
  Allowlist,   \* K8S_WRITE_NAMESPACES
  Hpas,        \* names a client may give an autoscaler
  ScaleTo,     \* replica counts a client may ask for
  Judged,      \* rows that clients finish by hand
  Nothing,     \* no image, no row, no workload
  RFaults      \* which of "k8s", "lost_reply", "db", "panic", "crash" may strike

SystemNs == {"kube-system", "kube-public", "kube-node-lease"}
Ended    == {"success", "failed", "rolled_back"}

ASSUME ImagesAssumption == Broken \subseteq Images /\ Current \in Images \ Broken
ASSUME OfferedAssumption == \A d \in Rows : Offered[d] \subseteq Images
ASSUME ScaleAssumption == ScaleTo \subseteq 0..2
ASSUME NothingAssumption == Nothing \notin Images \cup Rows \cup Workloads

VARIABLES
  \* the cluster
  image,      \* spec.template: image of the first container
  running,    \* image whose pods are all there, updated and ready
  observed,   \* status.observedGeneration has caught up
  full,       \* status counts: updated = ready = available = spec.replicas
  stalled,    \* condition Progressing says ProgressDeadlineExceeded
  replicas,   \* spec.replicas, at most 2
  hpa,        \* workload each autoscaler drives
  \* the ledger
  status,     \* deployments.status
  mode,       \* metadata.mode: "record" or "rollout"
  target,     \* metadata.target_namespace and target_name
  wanted,     \* metadata.image
  metaPrev,   \* metadata.previous_image as persisted
  \* the runners and the rollback handler
  pc,
  prev,       \* the runner's previous image
  reported,   \* runners whose metadata tells of a failed patch
  undoes,     \* row each rollback handler's new row is to undo
  \* history of the live runners
  before,     \* image that the runner's patch replaced
  crossed,    \* rows during whose rollout another one patched the workload
  lost        \* rows whose last UPDATE failed or whose process died

cluster == <<image, running, observed, full, stalled, replicas, hpa>>
ledger  == <<status, mode, target, wanted, metaPrev>>
runner  == <<pc, prev, undoes, reported>>
history == <<before, crossed, lost>>
rVars   == <<cluster, ledger, runner, history>>

Stages == {"none", "queued", "patch", "persist", "poll", "succeed", "revert",
           "fail", "mark", "done"}

RTypeOK ==
  /\ image \in [Workloads -> Images] /\ running \in [Workloads -> Images]
  /\ observed \in [Workloads -> BOOLEAN] /\ full \in [Workloads -> BOOLEAN]
  /\ stalled \in [Workloads -> BOOLEAN] /\ replicas \in [Workloads -> 0..2]
  /\ hpa \in [Hpas -> Workloads \cup {Nothing}]
  /\ status \in [Rows -> Ended \cup {"absent", "running"}]
  /\ mode \in [Rows -> {"record", "rollout"}]
  /\ target \in [Rows -> Workloads \cup {Nothing}]
  /\ wanted \in [Rows -> Images \cup {Nothing}]
  /\ metaPrev \in [Rows -> Images \cup {Nothing}]
  /\ pc \in [Rows -> Stages]
  /\ prev \in [Rows -> Images \cup {Nothing}]
  /\ undoes \in [Rows -> Rows \cup {Nothing}]
  /\ before \in [Rows -> Images \cup {Nothing}]
  /\ reported \cup crossed \cup lost \subseteq Rows

RInit ==
  /\ image = [w \in Workloads |-> Current] /\ running = image
  /\ observed = [w \in Workloads |-> TRUE] /\ full = observed
  /\ stalled = [w \in Workloads |-> FALSE]
  /\ replicas = [w \in Workloads |-> 1]
  /\ hpa = [h \in Hpas |-> Nothing]
  /\ status = [d \in Rows |-> "absent"] /\ mode = [d \in Rows |-> "record"]
  /\ target = [d \in Rows |-> Nothing]
  /\ wanted = [d \in Rows |-> Nothing] /\ metaPrev = wanted
  /\ pc = [d \in Rows |-> "none"]
  /\ prev = wanted /\ before = wanted
  /\ undoes = [d \in Rows |-> Nothing]
  /\ reported = {} /\ crossed = {} /\ lost = {}

--------------------------------------------------------------------------------
(* The guard of every write to Kubernetes *)

\* guardNamespace: an empty list of writable namespaces admits nothing.
GuardNamespace(ns, name) ==
  /\ ns \notin SystemNs \cup Serving \cup {""}
  /\ name \notin Serving
  /\ ns \in Allowlist

GuardOf(w) == GuardNamespace(w[1], w[2])

--------------------------------------------------------------------------------
(* The cluster: Deployment and autoscaler controllers *)

\* A write to the spec: a new generation, which the controller has yet to see.
Specify(w, i, n) ==
  /\ image' = [image EXCEPT ![w] = i]
  /\ replicas' = [replicas EXCEPT ![w] = n]
  /\ observed' = [observed EXCEPT ![w] =
                    @ /\ i = image[w] /\ n = replicas[w]]
  /\ UNCHANGED <<running, full, stalled, hpa>>

Counts(w, i, n) == n = 0 \/ running[w] = i

ControllerObserves(w) ==
  /\ ~observed[w]
  /\ observed' = [observed EXCEPT ![w] = TRUE]
  /\ full' = [full EXCEPT ![w] = Counts(w, image[w], replicas[w])]
  /\ stalled' = [stalled EXCEPT ![w] = FALSE]
  /\ UNCHANGED <<image, running, replicas, hpa, ledger, runner, history>>

PodsReady(w) ==
  /\ observed[w] /\ ~full[w] /\ image[w] \notin Broken
  /\ running' = [running EXCEPT ![w] = image[w]]
  /\ full' = [full EXCEPT ![w] = TRUE]
  /\ stalled' = [stalled EXCEPT ![w] = FALSE]
  /\ UNCHANGED <<image, observed, replicas, hpa, ledger, runner, history>>

\* progressDeadlineSeconds pass without progress.
ProgressStalls(w) ==
  /\ observed[w] /\ ~full[w] /\ ~stalled[w]
  /\ stalled' = [stalled EXCEPT ![w] = TRUE]
  /\ UNCHANGED <<image, running, observed, full, replicas, hpa, ledger, runner, history>>

\* An autoscaler leaves a workload that was scaled to zero alone.
Autoscale(h) ==
  /\ hpa[h] # Nothing /\ replicas[hpa[h]] > 0
  /\ \E n \in 1..2 : Specify(hpa[h], image[hpa[h]], n)
  /\ UNCHANGED <<ledger, runner, history>>

--------------------------------------------------------------------------------
(* scaleDeployment, upsertHPA, deleteHPA *)

\* Get and update of the scale subresource carry one resourceVersion: another
\* write in between makes the update fail, so the two are one step.
ScaleDeployment(w, n) ==
  /\ GuardOf(w)
  /\ Specify(w, image[w], n)
  /\ UNCHANGED <<ledger, runner, history>>

\* Create, or replace the spec of what has the name.
UpsertHPA(h, w) ==
  /\ GuardNamespace(w[1], h) /\ GuardOf(w)
  /\ hpa' = [hpa EXCEPT ![h] = w]
  /\ UNCHANGED <<image, running, observed, full, stalled, replicas, ledger, runner, history>>

\* Deleting what is not there is no error.
DeleteHPA(h) ==
  /\ \E w \in Workloads : hpa[h] = w /\ GuardNamespace(w[1], h)
  /\ hpa' = [hpa EXCEPT ![h] = Nothing]
  /\ UNCHANGED <<image, running, observed, full, stalled, replicas, ledger, runner, history>>

--------------------------------------------------------------------------------
(* triggerDeployment, finishDeployment, rollbackDeployment *)

\* A row is inserted as running.
Insert(d, m, w, i) ==
  /\ status[d] = "absent" /\ pc[d] = "none"
  /\ status' = [status EXCEPT ![d] = "running"]
  /\ mode' = [mode EXCEPT ![d] = m]
  /\ target' = [target EXCEPT ![d] = w]
  /\ wanted' = [wanted EXCEPT ![d] = i]

Goto(d, stage) == pc' = [pc EXCEPT ![d] = stage]

\* Without an image the platform keeps a record and touches nothing.
TriggerRecord(d) ==
  /\ Insert(d, "record", Nothing, Nothing)
  /\ UNCHANGED <<cluster, metaPrev, runner, history>>

TriggerRollout(d, w, i) ==
  /\ GuardOf(w)
  /\ Insert(d, "rollout", w, i)
  /\ Goto(d, "queued")
  /\ UNCHANGED <<cluster, metaPrev, prev, undoes, reported, history>>

\* finishDeployment writes whatever the row's status is, also when its runner is
\* at work.
FinishByHand(d, s) ==
  /\ status[d] # "absent"
  /\ status' = [status EXCEPT ![d] = s]
  /\ UNCHANGED <<cluster, mode, target, wanted, metaPrev, runner, history>>

\* Store.RollbackDeployment: one transaction, whatever the row's status is.
UndoRecord(o, d) ==
  /\ status[o] # "absent" /\ mode[o] = "record"
  /\ status[d] = "absent" /\ pc[d] = "none"
  /\ status' = [status EXCEPT ![o] = "rolled_back", ![d] = "running"]
  /\ UNCHANGED <<mode, target, wanted>>
  /\ UNCHANGED <<cluster, metaPrev, runner, history>>

\* Mutant: what the old row deployed is deployed, not what it replaced.
UndoRolloutSameImage(o, d) ==
  /\ status[o] # "absent" /\ mode[o] = "rollout"
  /\ metaPrev[o] # Nothing /\ GuardOf(target[o])
  /\ Insert(d, "rollout", target[o], wanted[o])
  /\ undoes' = [undoes EXCEPT ![d] = o]
  /\ Goto(d, "mark")
  /\ UNCHANGED <<cluster, metaPrev, reported, prev, history>>

\* A rollout is undone by another one, also while its runner is at work: the new
\* row first, ...
UndoRollout(o, d) ==
  /\ status[o] # "absent" /\ mode[o] = "rollout"
  /\ metaPrev[o] # Nothing /\ GuardOf(target[o])
  /\ Insert(d, "rollout", target[o], metaPrev[o])
  /\ undoes' = [undoes EXCEPT ![d] = o]
  /\ Goto(d, "mark")
  /\ UNCHANGED <<cluster, metaPrev, reported, prev, history>>

\* ... then the old one, then the goroutine.
UndoMark(d) ==
  /\ pc[d] = "mark"
  /\ \/ /\ status' = [status EXCEPT ![undoes[d]] = "rolled_back"]
        /\ Goto(d, "queued") /\ UNCHANGED lost
     \/ /\ "db" \in RFaults /\ UNCHANGED status
        /\ Goto(d, "done") /\ lost' = lost \cup {d}
  /\ UNCHANGED <<cluster, mode, target, wanted, metaPrev, prev, undoes, reported, before, crossed>>

--------------------------------------------------------------------------------
(* runDeploymentRollout, rollbackRollout, PatchDeploymentImage, RolloutStatus *)

Watching == {"patch", "persist", "poll", "succeed", "revert", "fail"}

\* The rollouts that runner d crosses when it patches.
Others(d) == {e \in Rows \ {d} : target[e] = target[d] /\ pc[e] \in Watching}

Patch(d, i) ==
  /\ Specify(target[d], i, replicas[target[d]])
  /\ crossed' = crossed \cup Others(d) \cup {e \in {d} : Others(d) # {}}

\* What a patch can come back with: done, refused, or done without an answer.
PatchAnswers(d, i, next, failed) ==
  \/ Patch(d, i) /\ Goto(d, next) /\ UNCHANGED reported
  \/ /\ "k8s" \in RFaults /\ UNCHANGED <<cluster, crossed>>
     /\ Goto(d, failed) /\ reported' = reported \cup {d}
  \/ /\ "lost_reply" \in RFaults /\ Patch(d, i)
     /\ Goto(d, failed) /\ reported' = reported \cup {d}

\* PatchDeploymentImage first reads the image it will return.
RunnerRead(d) ==
  /\ pc[d] = "queued"
  /\ \/ /\ prev' = [prev EXCEPT ![d] = image[target[d]]]
        /\ Goto(d, "patch") /\ UNCHANGED reported
     \/ /\ "k8s" \in RFaults /\ UNCHANGED prev
        /\ Goto(d, "fail") /\ reported' = reported \cup {d}
  /\ UNCHANGED <<cluster, status, mode, target, wanted, metaPrev, undoes, history>>

RunnerPatch(d) ==
  /\ pc[d] = "patch"
  /\ PatchAnswers(d, wanted[d], "persist", "fail")
  /\ before' = [before EXCEPT ![d] = image[target[d]]]
  /\ UNCHANGED <<status, mode, target, wanted, metaPrev, prev, undoes, lost>>

\* UPDATE deployments SET metadata: the whole of it, every time.
PersistMeta(d) ==
  \/ metaPrev' = [metaPrev EXCEPT ![d] = prev[d]]
  \/ "db" \in RFaults /\ UNCHANGED metaPrev

RunnerPersist(d) ==
  /\ pc[d] = "persist"
  /\ PersistMeta(d) /\ Goto(d, "poll")
  /\ UNCHANGED <<cluster, status, mode, target, wanted, prev, undoes, reported, history>>

\* Mutant: the counts are taken without the generation they belong to.
CompleteAnyGeneration(w) == full[w]

\* The generation has been observed and all replicas are updated, ready and
\* available.
Complete(w) == observed[w] /\ full[w]

\* The condition is read without the generation it belongs to.
Failed(w) == stalled[w]

\* One tick before the deadline; a status that cannot be read is no verdict.
RunnerPoll(d) ==
  /\ pc[d] = "poll"
  /\ PersistMeta(d)
  /\ Goto(d, IF Complete(target[d]) THEN "succeed"
             ELSE IF Failed(target[d]) THEN "revert" ELSE "poll")
  /\ UNCHANGED <<cluster, status, mode, target, wanted, prev, undoes, reported, history>>

\* Mutant: the deadline is looked at when the condition has been read as failed.
RunnerPollLateIfFailed(d) ==
  /\ pc[d] = "poll" /\ Failed(target[d])
  /\ PersistMeta(d)
  /\ Goto(d, "revert")
  /\ UNCHANGED <<cluster, status, mode, target, wanted, prev, undoes, reported, history>>

\* The first tick after the 180 s: complete, or rolled back whether the status
\* could be read or not.
RunnerPollLate(d) ==
  /\ pc[d] = "poll"
  /\ PersistMeta(d)
  /\ \/ Goto(d, IF Complete(target[d]) THEN "succeed" ELSE "revert")
     \/ "k8s" \in RFaults /\ Goto(d, "revert")
  /\ UNCHANGED <<cluster, status, mode, target, wanted, prev, undoes, reported, history>>

\* Mutant: the result of the second patch is kept as the previous image.
RunnerRevertReads(d) ==
  /\ pc[d] = "revert"
  /\ PatchAnswers(d, prev[d], "fail", "fail")
  /\ metaPrev' = [metaPrev EXCEPT ![d] = image[target[d]]]
  /\ UNCHANGED <<status, mode, target, wanted, prev, undoes, before, lost>>

\* The automatic rollback: whatever its patch answers, the rollout has failed.
RunnerRevert(d) ==
  /\ pc[d] = "revert"
  /\ PatchAnswers(d, prev[d], "fail", "fail") /\ PersistMeta(d)
  /\ UNCHANGED <<status, mode, target, wanted, prev, undoes, before, lost>>

\* The goroutines of these rows are gone, and what they knew with them.
Leave(gone) ==
  /\ pc' = [d \in Rows |-> IF d \in gone THEN "done" ELSE pc[d]]
  /\ prev' = [d \in Rows |-> IF d \in gone THEN Nothing ELSE prev[d]]
  /\ before' = [d \in Rows |-> IF d \in gone THEN Nothing ELSE before[d]]
  /\ reported' = reported \ gone /\ crossed' = crossed \ gone
  /\ UNCHANGED undoes

\* FinishDeployment: the error of its UPDATE is dropped.
Finish(d, s) ==
  /\ \/ status' = [status EXCEPT ![d] = s] /\ UNCHANGED lost
     \/ "db" \in RFaults /\ UNCHANGED status /\ lost' = lost \cup {d}
  /\ Leave({d})

RunnerFinish(d) ==
  /\ \/ pc[d] = "succeed" /\ Finish(d, "success")
     \/ pc[d] = "fail" /\ Finish(d, "failed")
  /\ UNCHANGED <<cluster, mode, target, wanted, metaPrev>>

\* The deferred handler marks the row; nothing is put back.
RunnerPanic(d) ==
  /\ "panic" \in RFaults /\ pc[d] \notin {"none", "mark", "done"}
  /\ Finish(d, "failed")
  /\ UNCHANGED <<cluster, mode, target, wanted, metaPrev>>

\* A restart of the server: nothing takes the rows up again.
RCrash ==
  /\ "crash" \in RFaults /\ \E d \in Rows : pc[d] \notin {"none", "done"}
  /\ LET gone == {d \in Rows : pc[d] \notin {"none", "done"}}
     IN lost' = lost \cup gone /\ Leave(gone)
  /\ UNCHANGED <<cluster, ledger>>

--------------------------------------------------------------------------------
Cluster ==
  \/ \E w \in Workloads : ControllerObserves(w) \/ PodsReady(w) \/ ProgressStalls(w)
  \/ \E h \in Hpas : Autoscale(h)

KubernetesWrites ==
  \/ \E w \in Workloads, n \in ScaleTo : ScaleDeployment(w, n)
  \/ \E h \in Hpas, w \in Workloads : UpsertHPA(h, w)
  \/ \E h \in Hpas : DeleteHPA(h)

Handler(d) ==
  \/ TriggerRecord(d)
  \/ \E w \in Workloads, i \in Offered[d] : TriggerRollout(d, w, i)
  \/ d \in Judged /\ \E s \in {"success", "failed"} : FinishByHand(d, s)
  \/ \E o \in Rows : UndoRecord(o, d) \/ UndoRollout(o, d)

RunnerStep(d) ==
  \/ UndoMark(d) \/ RunnerRead(d) \/ RunnerPatch(d) \/ RunnerPersist(d)
  \/ RunnerPoll(d) \/ RunnerPollLate(d) \/ RunnerRevert(d) \/ RunnerFinish(d)

RNext ==
  \/ Cluster \/ KubernetesWrites \/ RCrash
  \/ \E d \in Rows : Handler(d) \/ RunnerStep(d) \/ RunnerPanic(d)

RSpec == RInit /\ [][RNext]_rVars

\* Goroutines run and clocks advance; the cluster owes nothing.
RFairSpec == RSpec /\ \A d \in Rows : WF_rVars(RunnerStep(d))

--------------------------------------------------------------------------------
(* Properties *)

\* A runner finds its rollout complete only when the Deployment asks for its
\* own image and the pods run it, however stale the status it has read; unless
\* another rollout has patched the same Deployment meanwhile.
VerdictIsOwn ==
  [][\A d \in Rows : LET w == target[d] IN
       pc[d] # "succeed" /\ pc'[d] = "succeed" /\ d \notin crossed
         => image[w] = wanted[d] /\ (running[w] = wanted[d] \/ replicas[w] = 0)]_rVars

\* A rollout that fails, by its status, its deadline or the condition of the
\* rollout before it, leaves the image that it replaced, unless its metadata
\* tells of a failed patch or another rollout has crossed it.
FailurePutsBack ==
  \A d \in Rows : pc[d] = "fail" /\ d \notin reported \cup crossed
                    => image[target[d]] = before[d]

\* The image that an operator's rollback will deploy is the one the rollout
\* replaced: the later writes of the whole metadata never change it.
PreviousIsReplaced ==
  \A d \in Rows : metaPrev[d] # Nothing /\ pc[d] # "done" /\ d \notin crossed
                    => metaPrev[d] = before[d]

Shielded(w) == w[1] \in SystemNs \cup Serving \/ w[2] \in Serving

\* No image, replica count or autoscaler of the platform reaches a workload of
\* the serving stack or of a system namespace, whatever the list of writable
\* namespaces says.
ServingIsLeftAlone ==
  [][\A w \in Workloads : Shielded(w) =>
       image'[w] = image[w] /\ replicas'[w] = replicas[w]]_rVars

\* What a rollout finds on record and on the cluster it can always put back.
RolloutInv == RTypeOK /\ FailurePutsBack /\ PreviousIsReplaced

\* No step passes a verdict on another's rollout or touches the serving stack.
RolloutSteps == VerdictIsOwn /\ ServingIsLeftAlone

\* Every accepted rollout comes to its end within the deadline, even if the status
\* can never be read, and its row is not left running, whoever judged it before;
\* unless its last write failed or the server was restarted.
EveryRolloutSettles ==
  \A d \in Rows : pc[d] = "queued" ~> (pc[d] = "done" /\ (status[d] \in Ended \/ d \in lost))

\* How far each rollout is: what its runner may still write.
Phase ==
  [stage \in Stages |-> CASE stage \in {"none", "done"} -> "none"
                          [] stage = "mark"   -> "marking"
                          [] stage = "queued" -> "waiting"
                          [] stage = "patch"  -> "looked"
                          [] stage = "fail"   -> "over"
                          [] OTHER            -> "deployed"]
Progress == [d \in Rows |-> Phase[pc[d]]]

Ledger == INSTANCE DeploymentLedger
            WITH None <- Nothing, place <- target, asked <- wanted, kept <- metaPrev,
                 at <- Progress, found <- prev

\* The runners, both kinds of rollback, what clients judge by hand and every fault
\* implement the ledger: an image is written for a rollout at work on it, asked
\* for once, put back once, and never after the verdict; a rollback deploys what
\* the rollout it undoes had found, and begins when that one is marked.
ImplementsLedger == Ledger!LedgerSpec
================================================================================
