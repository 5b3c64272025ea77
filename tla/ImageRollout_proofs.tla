-------------------------- MODULE ImageRollout_proofs --------------------------
(***************************************************************************)
(* What holds of any number of rollouts, workloads and images, whichever   *)
(* call fails, whenever the server is restarted and whatever clients judge *)
(* or roll back meanwhile: a rollout puts back what it replaced, finds its *)
(* own image complete, leaves the serving stack alone, and the rows and    *)
(* their runners implement the abstract ledger.                            *)
(***************************************************************************)
EXTENDS ImageRollout, TLAPS

\* What is rolled out was admitted by the guard, and the new row of a rollback
\* inherits that from the old one; so was what an autoscaler drives.
GuardInv ==
  /\ \A d \in Rows : mode[d] = "rollout" =>
       target[d] \in Workloads /\ wanted[d] \in Images /\ GuardOf(target[d])
  /\ \A h \in Hpas : hpa[h] # Nothing => GuardOf(hpa[h])

\* No step touches what the guard shields.
ShieldedStay ==
  \A w \in Workloads : Shielded(w) => image'[w] = image[w] /\ replicas'[w] = replicas[w]

--------------------------------------------------------------------------------
(* What a rollout puts back, and whose rollout it finds complete. *)

\* Who is at work rolls out what a client or an operator's rollback asked for.
RunsInv ==
  \A d \in Rows :
    /\ pc[d] \notin {"none", "done"} => mode[d] = "rollout"
    /\ mode[d] = "rollout" => target[d] \in Workloads /\ wanted[d] \in Images
    /\ pc[d] \in {"patch", "persist", "poll", "revert"} => prev[d] \in Images

\* Nobody has patched the workload of a row that no other has crossed, from the
\* read of the image that it may have to put back.
PutBackInv ==
  \A d \in Rows :
    /\ pc[d] \in {"none", "queued", "mark", "patch"} => metaPrev[d] = Nothing
    /\ d \notin crossed =>
         /\ pc[d] = "patch" => image[target[d]] = prev[d]
         /\ pc[d] \in {"persist", "poll", "succeed", "revert"} =>
              image[target[d]] = wanted[d] /\ before[d] = prev[d]
         /\ pc[d] = "fail" /\ d \notin reported => image[target[d]] = before[d]
         /\ metaPrev[d] # Nothing /\ pc[d] # "done" => metaPrev[d] = before[d]

\* The counts of an observed generation are about the image that it asks for.
CountsInv ==
  \A w \in Workloads : observed[w] /\ full[w] => replicas[w] = 0 \/ running[w] = image[w]

RolloutIInv == RTypeOK /\ RunsInv /\ GuardInv /\ PutBackInv /\ CountsInv

\* A verdict of a step: what VerdictIsOwn says of it.
OwnVerdicts ==
  \A d \in Rows : LET w == target[d] IN
    pc[d] # "succeed" /\ pc'[d] = "succeed" /\ d \notin crossed
      => image[w] = wanted[d] /\ (running[w] = wanted[d] \/ replicas[w] = 0)

\* A write to the spec asks for a generation that no count is about yet.
LEMMA SpecifyStep ==
  ASSUME RTypeOK, CountsInv, NEW w \in Workloads, NEW i \in Images, NEW n \in 0..2, Specify(w, i, n)
  PROVE  /\ image' \in [Workloads -> Images] /\ replicas' \in [Workloads -> 0..2]
         /\ observed' \in [Workloads -> BOOLEAN]
         /\ image' = [image EXCEPT ![w] = i] /\ replicas' = [replicas EXCEPT ![w] = n]
         /\ UNCHANGED <<running, full, stalled, hpa>>
         /\ CountsInv'
<1>1. /\ image' = [image EXCEPT ![w] = i] /\ replicas' = [replicas EXCEPT ![w] = n]
      /\ UNCHANGED <<running, full, stalled, hpa>>
  BY DEF Specify
<1>2. observed' = [observed EXCEPT ![w] = observed[w] /\ i = image[w] /\ n = replicas[w]]
  BY DEF Specify
<1>3. /\ image' \in [Workloads -> Images] /\ replicas' \in [Workloads -> 0..2]
      /\ observed' \in [Workloads -> BOOLEAN]
  BY <1>1, <1>2 DEF RTypeOK
<1>4. ASSUME NEW v \in Workloads, observed'[v] PROVE observed[v] /\ image'[v] = image[v] /\ replicas'[v] = replicas[v]
  BY <1>1, <1>2, <1>4 DEF RTypeOK
<1>. QED
  BY <1>1, <1>3, <1>4 DEF CountsInv

\* The cluster and its clients leave images, rows and runners alone.
LEMMA ClusterStep ==
  ASSUME RolloutIInv, Cluster \/ KubernetesWrites
  PROVE  RolloutIInv' /\ pc' = pc /\ ShieldedStay
<1> USE DEF RolloutIInv, ledger, runner, history
<1>1. ASSUME NEW w \in Workloads, NEW n \in 0..2, GuardOf(w),
             Specify(w, image[w], n), UNCHANGED <<ledger, runner, history>>
      PROVE  RolloutIInv' /\ pc' = pc /\ ShieldedStay
  <2>1. image[w] \in Images
    BY DEF RTypeOK
  <2>2. /\ image' = image /\ hpa' = hpa /\ RTypeOK' /\ CountsInv'
        /\ replicas' = [replicas EXCEPT ![w] = n]
    BY <1>1, <2>1, SpecifyStep DEF RTypeOK
  <2>. QED
    BY <1>1, <2>2 DEF RTypeOK, RunsInv, GuardInv, PutBackInv, ShieldedStay, Shielded, GuardOf, GuardNamespace
<1>2. ASSUME UNCHANGED <<image, ledger, runner, history>>, RTypeOK', CountsInv', GuardInv', replicas' = replicas
      PROVE  RolloutIInv' /\ pc' = pc /\ ShieldedStay
  BY <1>2 DEF RunsInv, PutBackInv, ShieldedStay
<1>3. ASSUME NEW w \in Workloads, ControllerObserves(w) PROVE RolloutIInv' /\ pc' = pc /\ ShieldedStay
  <2>1. /\ UNCHANGED <<image, running, replicas, hpa, ledger, runner, history>>
        /\ observed' = [observed EXCEPT ![w] = TRUE]
        /\ full' = [full EXCEPT ![w] = (replicas[w] = 0 \/ running[w] = image[w])]
        /\ stalled' = [stalled EXCEPT ![w] = FALSE]
    BY <1>3 DEF ControllerObserves, Counts
  <2>2. RTypeOK' /\ GuardInv'
    BY <2>1 DEF RTypeOK, GuardInv
  <2>3. ASSUME NEW v \in Workloads, observed'[v], full'[v] PROVE replicas[v] = 0 \/ running[v] = image[v]
    <3>1. CASE v = w
      BY <2>1, <2>3, <3>1 DEF RTypeOK
    <3>2. CASE v # w
      BY <2>1, <2>3, <3>2 DEF RTypeOK, CountsInv
    <3>. QED
      BY <3>1, <3>2
  <2>. QED
    BY <1>2, <2>1, <2>2, <2>3 DEF CountsInv
<1>4. ASSUME NEW w \in Workloads, PodsReady(w) PROVE RolloutIInv' /\ pc' = pc /\ ShieldedStay
  <2>1. /\ UNCHANGED <<image, observed, replicas, hpa, ledger, runner, history>>
        /\ running' = [running EXCEPT ![w] = image[w]]
        /\ full' = [full EXCEPT ![w] = TRUE]
        /\ stalled' = [stalled EXCEPT ![w] = FALSE]
    BY <1>4 DEF PodsReady
  <2>2. RTypeOK' /\ GuardInv'
    BY <2>1 DEF RTypeOK, GuardInv
  <2>3. ASSUME NEW v \in Workloads, observed[v], full'[v] PROVE replicas[v] = 0 \/ running'[v] = image[v]
    <3>1. CASE v = w
      BY <2>1, <3>1 DEF RTypeOK
    <3>2. CASE v # w
      BY <2>1, <2>3, <3>2 DEF RTypeOK, CountsInv
    <3>. QED
      BY <3>1, <3>2
  <2>. QED
    BY <1>2, <2>1, <2>2, <2>3 DEF CountsInv
<1>5. ASSUME NEW w \in Workloads, ProgressStalls(w) PROVE RolloutIInv' /\ pc' = pc /\ ShieldedStay
  <2>1. /\ UNCHANGED <<image, running, observed, full, replicas, hpa, ledger, runner, history>>
        /\ stalled' = [stalled EXCEPT ![w] = TRUE]
    BY <1>5 DEF ProgressStalls
  <2>. QED
    BY <1>2, <2>1 DEF RTypeOK, GuardInv, CountsInv
<1>6. ASSUME NEW h \in Hpas, Autoscale(h) PROVE RolloutIInv' /\ pc' = pc /\ ShieldedStay
  <2>1. PICK n \in 0..2 : Specify(hpa[h], image[hpa[h]], n)
    BY <1>6 DEF Autoscale
  <2>2. hpa[h] \in Workloads /\ GuardOf(hpa[h])
    BY <1>6 DEF Autoscale, RTypeOK, GuardInv
  <2>. QED
    BY <1>1, <1>6, <2>1, <2>2 DEF Autoscale
<1>7. ASSUME NEW w \in Workloads, NEW n \in ScaleTo, ScaleDeployment(w, n)
      PROVE  RolloutIInv' /\ pc' = pc /\ ShieldedStay
  BY <1>1, <1>7, ScaleAssumption DEF ScaleDeployment
<1>8. ASSUME NEW h \in Hpas, (\E w \in Workloads : UpsertHPA(h, w)) \/ DeleteHPA(h)
      PROVE  RolloutIInv' /\ pc' = pc /\ ShieldedStay
  <2>1. UNCHANGED <<image, running, observed, full, stalled, replicas, ledger, runner, history>>
    BY <1>8 DEF UpsertHPA, DeleteHPA
  <2>2. PICK w \in Workloads \cup {Nothing} : hpa' = [hpa EXCEPT ![h] = w] /\ (w # Nothing => GuardOf(w))
    BY <1>8 DEF UpsertHPA, DeleteHPA
  <2>3. RTypeOK'
    BY <2>1, <2>2 DEF RTypeOK
  <2>4. GuardInv'
    BY <2>1, <2>2 DEF RTypeOK, GuardInv
  <2>. QED
    BY <1>2, <2>1, <2>3, <2>4 DEF CountsInv
<1>. QED
  BY <1>3, <1>4, <1>5, <1>6, <1>7, <1>8 DEF Cluster, KubernetesWrites

\* A request concerns rows whose runner has not begun.
LEMMA RequestKeeps ==
  ASSUME RolloutIInv, NEW d \in Rows, Handler(d)
  PROVE  RolloutIInv' /\ UNCHANGED <<image, replicas>> /\ (pc' = pc \/ pc'[d] \in {"queued", "mark"})
<1> USE DEF RolloutIInv, Goto, cluster, history
<1>1. /\ UNCHANGED <<image, running, observed, full, stalled, replicas, hpa,
                     metaPrev, prev, reported, before, crossed, lost>>
  BY DEF Handler, TriggerRecord, TriggerRollout, FinishByHand, UndoRecord, UndoRollout, runner
<1>2. CountsInv'
  BY <1>1 DEF CountsInv
<1>3. CASE TriggerRecord(d) \/ (\E s \in {"success", "failed"} : FinishByHand(d, s))
           \/ (\E o \in Rows : UndoRecord(o, d))
  <2>1. /\ UNCHANGED <<pc, undoes>> /\ status' \in [Rows -> Ended \cup {"absent", "running"}]
        /\ \/ UNCHANGED <<mode, target, wanted>>
           \/ /\ pc[d] = "none"
              /\ mode' = [mode EXCEPT ![d] = "record"] /\ target' = [target EXCEPT ![d] = Nothing]
              /\ wanted' = [wanted EXCEPT ![d] = Nothing]
    BY <1>3 DEF TriggerRecord, FinishByHand, UndoRecord, Insert, RTypeOK, Ended, runner
  <2>2. RTypeOK'
    BY <1>1, <2>1 DEF RTypeOK
  <2>3. RunsInv' /\ GuardInv' /\ PutBackInv'
    BY <1>1, <2>1 DEF RTypeOK, RunsInv, GuardInv, PutBackInv
  <2>. QED
    BY <1>1, <1>2, <2>1, <2>2, <2>3
<1>4. CASE (\E w \in Workloads, i \in Offered[d] : TriggerRollout(d, w, i)) \/ (\E o \in Rows : UndoRollout(o, d))
  <2>1. PICK w \in Workloads, i \in Images, s \in {"queued", "mark"} :
           /\ pc[d] = "none" /\ GuardOf(w)
           /\ status' = [status EXCEPT ![d] = "running"]
           /\ mode' = [mode EXCEPT ![d] = "rollout"] /\ target' = [target EXCEPT ![d] = w]
           /\ wanted' = [wanted EXCEPT ![d] = i] /\ pc' = [pc EXCEPT ![d] = s]
           /\ undoes' \in [Rows -> Rows \cup {Nothing}]
    <3>1. CASE \E w \in Workloads, i \in Offered[d] : TriggerRollout(d, w, i)
      BY <3>1, OfferedAssumption DEF TriggerRollout, Insert, RTypeOK
    <3>2. ASSUME NEW o \in Rows, UndoRollout(o, d) PROVE target[o] \in Workloads /\ metaPrev[o] \in Images
      BY <3>2 DEF UndoRollout, RTypeOK, RunsInv
    <3>. QED
      BY <1>4, <3>1, <3>2 DEF UndoRollout, Insert, RTypeOK
  <2>2. RTypeOK'
    BY <1>1, <2>1 DEF RTypeOK, Stages
  <2>3. RunsInv' /\ GuardInv' /\ PutBackInv'
    BY <1>1, <2>1 DEF RTypeOK, RunsInv, GuardInv, PutBackInv
  <2>4. pc'[d] \in {"queued", "mark"}
    BY <2>1 DEF RTypeOK
  <2>. QED
    BY <1>1, <1>2, <2>2, <2>3, <2>4
<1>. QED
  BY <1>3, <1>4 DEF Handler

\* A runner that patches crosses every other that watches the same workload.
LEMMA PatchKeeps ==
  ASSUME RolloutIInv, NEW d \in Rows, RunnerPatch(d) \/ RunnerRevert(d)
  PROVE  RolloutIInv' /\ ShieldedStay /\ pc'[d] # "succeed" /\ \A e \in Rows \ {d} : pc'[e] = pc[e]
<1> USE DEF RolloutIInv, Goto, cluster
<1> DEFINE w == target[d]
           i == IF pc[d] = "patch" THEN wanted[d] ELSE prev[d]
<1>1. /\ pc[d] \in {"patch", "revert"} /\ w \in Workloads /\ i \in Images /\ GuardOf(w)
      /\ prev[d] \in Images /\ wanted[d] \in Images
  BY DEF RunnerPatch, RunnerRevert, RunsInv, GuardInv
<1>2. /\ UNCHANGED <<status, mode, target, wanted, prev, undoes, lost>>
      /\ before' = IF pc[d] = "patch" THEN [before EXCEPT ![d] = image[w]] ELSE before
      /\ metaPrev' = metaPrev \/ (pc[d] = "revert" /\ metaPrev' = [metaPrev EXCEPT ![d] = prev[d]])
  BY DEF RunnerPatch, RunnerRevert, PersistMeta
<1>8. metaPrev' \in [Rows -> Images \cup {Nothing}] /\ \A e \in Rows \ {d} : metaPrev'[e] = metaPrev[e]
  BY <1>1, <1>2 DEF RTypeOK
<1>3. \/ /\ Patch(d, i) /\ pc' = [pc EXCEPT ![d] = IF pc[d] = "patch" THEN "persist" ELSE "fail"]
         /\ reported' = reported
      \/ /\ UNCHANGED <<image, running, observed, full, stalled, replicas, hpa, crossed>>
         /\ pc' = [pc EXCEPT ![d] = "fail"] /\ reported' = reported \cup {d}
      \/ /\ Patch(d, i) /\ pc' = [pc EXCEPT ![d] = "fail"] /\ reported' = reported \cup {d}
  BY DEF RunnerPatch, RunnerRevert, PatchAnswers
<1>4. Patch(d, i) => /\ Specify(w, i, replicas[w])
                     /\ crossed' = crossed \cup Others(d) \cup {e \in {d} : Others(d) # {}}
  BY DEF Patch
<1> HIDE DEF i
<1>5. before' \in [Rows -> Images \cup {Nothing}] /\ pc' \in [Rows -> Stages] /\ reported' \subseteq Rows
  BY <1>1, <1>2, <1>3 DEF RTypeOK, Stages
<1>6. CASE Patch(d, i)
  <2>1. /\ image' = [image EXCEPT ![w] = i] /\ replicas' = [replicas EXCEPT ![w] = replicas[w]]
        /\ image' \in [Workloads -> Images] /\ replicas' \in [Workloads -> 0..2]
        /\ observed' \in [Workloads -> BOOLEAN]
        /\ UNCHANGED <<running, full, stalled, hpa>> /\ CountsInv'
    BY <1>1, <1>4, <1>6, SpecifyStep DEF RTypeOK
  <2>2. crossed' \subseteq Rows /\ crossed \subseteq crossed'
    BY <1>4, <1>6 DEF RTypeOK, Others
  <2>3. RTypeOK'
    BY <1>8, <1>2, <1>5, <2>1, <2>2 DEF RTypeOK
  <2>4. RunsInv' /\ GuardInv'
    BY <1>1, <1>2, <1>3, <2>1 DEF RTypeOK, RunsInv, GuardInv
  <2>5. ASSUME NEW e \in Rows, e # d, e \notin crossed', pc[e] \in Watching PROVE target[e] # w
    BY <1>4, <1>6, <2>5 DEF Others
  <2>6. pc' = [pc EXCEPT ![d] = "fail"] \/ pc' = [pc EXCEPT ![d] = "persist"]
    BY <1>3
  <2>7. /\ pc'[d] # "done" => metaPrev[d] = Nothing \/ pc[d] = "revert"
        /\ d \notin crossed => image[w] = prev[d] \/ pc[d] = "revert"
    BY <1>1 DEF PutBackInv
  <2>8. ASSUME NEW e \in Rows, e # d
        PROVE  /\ pc'[e] = pc[e] /\ before'[e] = before[e] /\ (e \in reported' <=> e \in reported)
               /\ e \notin crossed' /\ pc[e] \in Watching => image'[target[e]] = image[target[e]]
    <3>1. pc'[e] = pc[e] /\ before'[e] = before[e] /\ (e \in reported' <=> e \in reported)
      BY <1>2, <1>3, <2>8 DEF RTypeOK
    <3>2. target[e] # w => image'[target[e]] = image[target[e]]
      BY <2>1 DEF RTypeOK
    <3>. QED
      BY <2>5, <2>8, <3>1, <3>2
  <2>9. ASSUME NEW e \in Rows, e # d PROVE
             /\ pc'[e] \in {"none", "queued", "mark", "patch"} => metaPrev'[e] = Nothing
             /\ e \notin crossed' =>
                 /\ pc'[e] = "patch" => image'[target'[e]] = prev'[e]
                 /\ pc'[e] \in {"persist", "poll", "succeed", "revert"} =>
                      image'[target'[e]] = wanted'[e] /\ before'[e] = prev'[e]
                 /\ pc'[e] = "fail" /\ e \notin reported' => image'[target'[e]] = before'[e]
                 /\ metaPrev'[e] # Nothing /\ pc'[e] # "done" => metaPrev'[e] = before'[e]
    <3>1. e \notin crossed' => e \notin crossed
      BY <2>2
    <3>. QED
      BY <1>8, <1>2, <2>8, <2>9, <3>1 DEF PutBackInv, Watching
  <2>10. /\ pc'[d] \in {"persist", "fail"} /\ image'[w] = i
         /\ pc'[d] = "persist" => pc[d] = "patch"
         /\ pc'[d] = "fail" /\ d \notin reported' => pc[d] = "revert"
         /\ pc[d] = "patch" => before'[d] = image[w] /\ i = wanted[d] /\ metaPrev[d] = Nothing
         /\ pc[d] = "revert" => before'[d] = before[d] /\ i = prev[d]
    <3>1. pc'[d] \in {"persist", "fail"} /\ image'[w] = i /\ (pc'[d] = "persist" => pc[d] = "patch")
      BY <1>1, <1>3, <2>1 DEF RTypeOK
    <3>2. pc'[d] = "fail" /\ d \notin reported' => pc[d] = "revert"
      BY <1>1, <1>3 DEF RTypeOK
    <3>3. /\ pc[d] = "patch" => before'[d] = image[w] /\ i = wanted[d] /\ metaPrev[d] = Nothing
          /\ pc[d] = "revert" => before'[d] = before[d] /\ i = prev[d]
      BY <1>1, <1>2 DEF i, RTypeOK, PutBackInv
    <3>. QED
      BY <3>1, <3>2, <3>3
  <2>11. ASSUME d \notin crossed'
         PROVE  /\ pc'[d] = "persist" => image'[target'[d]] = wanted'[d] /\ before'[d] = prev'[d]
                /\ pc'[d] = "fail" /\ d \notin reported' => image'[target'[d]] = before'[d]
                /\ metaPrev'[d] # Nothing => metaPrev'[d] = before'[d]
    <3>1. d \notin crossed
      BY <2>2, <2>11
    <3>2. pc[d] = "patch" => image[w] = prev[d]
      BY <3>1 DEF PutBackInv
    <3>3. pc[d] = "revert" => before[d] = prev[d] /\ (metaPrev[d] # Nothing => metaPrev[d] = before[d])
      BY <3>1 DEF PutBackInv
    <3>4. metaPrev'[d] = metaPrev[d] \/ (pc[d] = "revert" /\ metaPrev'[d] = prev[d])
      BY <1>2 DEF RTypeOK
    <3>. QED
      BY <1>1, <1>2, <2>10, <3>2, <3>3, <3>4
  <2>12. PutBackInv'
    BY <2>9, <2>10, <2>11 DEF PutBackInv
  <2>13. ShieldedStay
    BY <1>1, <2>1 DEF ShieldedStay, Shielded, GuardOf, GuardNamespace, RTypeOK
  <2>. QED
    BY <2>1, <2>3, <2>4, <2>8, <2>10, <2>12, <2>13
<1>7. CASE UNCHANGED <<image, running, observed, full, stalled, replicas, hpa, crossed>>
           /\ pc' = [pc EXCEPT ![d] = "fail"] /\ reported' = reported \cup {d}
  <2>1. RTypeOK' /\ CountsInv'
    BY <1>8, <1>2, <1>5, <1>7 DEF RTypeOK, CountsInv
  <2>2. RunsInv' /\ GuardInv' /\ ShieldedStay
    BY <1>1, <1>2, <1>7 DEF RTypeOK, RunsInv, GuardInv, ShieldedStay
  <2>3. pc[d] = "patch" => metaPrev[d] = Nothing
    BY DEF PutBackInv
  <2>4. metaPrev'[d] = metaPrev[d] \/ (pc[d] = "revert" /\ metaPrev'[d] = prev[d])
    BY <1>2 DEF RTypeOK
  <2>6. PutBackInv'
    BY <1>8, <1>1, <1>2, <1>7, <2>3, <2>4 DEF RTypeOK, PutBackInv
  <2>5. pc'[d] # "succeed" /\ \A e \in Rows \ {d} : pc'[e] = pc[e]
    BY <1>7 DEF RTypeOK
  <2>. QED
    BY <2>1, <2>2, <2>5, <2>6
<1>. QED
  BY <1>3, <1>6, <1>7

\* Marking, reading, persisting and polling touch no image, and a rollout is
\* found complete by its own image.
LEMMA WatchKeeps ==
  ASSUME RolloutIInv, NEW d \in Rows,
         UndoMark(d) \/ RunnerRead(d) \/ RunnerPersist(d) \/ RunnerPoll(d) \/ RunnerPollLate(d)
  PROVE  RolloutIInv' /\ UNCHANGED <<image, replicas>> /\ OwnVerdicts
<1> USE DEF RolloutIInv, Goto, cluster
<1>1. UNCHANGED <<image, running, observed, full, stalled, replicas, hpa, mode, target, wanted, undoes, before, crossed>>
  BY DEF UndoMark, RunnerRead, RunnerPersist, RunnerPoll, RunnerPollLate, history
<1>2. \/ /\ pc[d] = "mark" /\ UNCHANGED <<metaPrev, prev, reported>>
         /\ \E s \in {"queued", "done"} : pc' = [pc EXCEPT ![d] = s]
      \/ /\ pc[d] = "queued" /\ UNCHANGED metaPrev
         /\ \/ prev' = [prev EXCEPT ![d] = image[target[d]]] /\ pc' = [pc EXCEPT ![d] = "patch"]
                 /\ UNCHANGED reported
            \/ prev' = prev /\ pc' = [pc EXCEPT ![d] = "fail"] /\ reported' = reported \cup {d}
      \/ /\ pc[d] \in {"persist", "poll"} /\ UNCHANGED <<prev, reported>>
         /\ metaPrev' = metaPrev \/ metaPrev' = [metaPrev EXCEPT ![d] = prev[d]]
         /\ \E s \in {"poll", "succeed", "revert"} : pc' = [pc EXCEPT ![d] = s]
  BY DEF UndoMark, RunnerRead, RunnerPersist, RunnerPoll, RunnerPollLate, PersistMeta, history
<1>3. /\ status' = status /\ lost' = lost
      \/ /\ undoes[d] \in Rows \cup {Nothing}
         /\ \/ status' = [status EXCEPT ![undoes[d]] = "rolled_back"] /\ lost' = lost
            \/ status' = status /\ lost' = lost \cup {d}
  BY DEF UndoMark, RunnerRead, RunnerPersist, RunnerPoll, RunnerPollLate, history, RTypeOK
<1>4. status' \in [Rows -> Ended \cup {"absent", "running"}] /\ lost' \subseteq Rows
  BY <1>3 DEF RTypeOK, Ended
<1>5. target[d] \in Workloads /\ image[target[d]] \in Images
  BY <1>2 DEF RunsInv, RTypeOK
<1>6. RTypeOK'
  BY <1>1, <1>2, <1>4, <1>5 DEF RTypeOK, Stages
<1>7. RunsInv' /\ GuardInv' /\ CountsInv'
  BY <1>1, <1>2, <1>5 DEF RTypeOK, RunsInv, GuardInv, CountsInv
<1>8. PutBackInv'
  BY <1>1, <1>2, <1>5 DEF RTypeOK, PutBackInv
<1>9. OwnVerdicts
  <2>1. ASSUME NEW e \in Rows, pc[e] # "succeed", pc'[e] = "succeed" PROVE e = d
    BY <1>2, <2>1 DEF RTypeOK
  <2>2. pc'[d] = "succeed" => Complete(target[d]) /\ pc[d] = "poll"
    BY <1>2 DEF UndoMark, RunnerRead, RunnerPersist, RunnerPoll, RunnerPollLate, RTypeOK
  <2>3. ASSUME pc'[d] = "succeed", d \notin crossed
        PROVE  /\ image[target[d]] = wanted[d]
               /\ running[target[d]] = wanted[d] \/ replicas[target[d]] = 0
    BY <1>5, <2>2, <2>3 DEF PutBackInv, CountsInv, Complete
  <2>. QED
    BY <2>1, <2>3 DEF OwnVerdicts
<1>. QED
  BY <1>1, <1>6, <1>7, <1>8, <1>9

\* A goroutine that ends leaves the cluster as it is.
LEMMA LeaveKeeps ==
  ASSUME RolloutIInv, (\E d \in Rows : RunnerFinish(d) \/ RunnerPanic(d)) \/ RCrash
  PROVE  /\ RolloutIInv' /\ UNCHANGED <<image, replicas>>
         /\ \A e \in Rows : pc'[e] = pc[e] \/ pc'[e] = "done"
<1> USE DEF RolloutIInv, cluster, ledger
<1>1. PICK gone \in SUBSET Rows :
        /\ Leave(gone) /\ status' \in [Rows -> Ended \cup {"absent", "running"}] /\ lost' \subseteq Rows
        /\ UNCHANGED <<image, running, observed, full, stalled, replicas, hpa, mode, target, wanted, metaPrev>>
  <2>1. CASE RCrash
    BY <2>1 DEF RCrash, RTypeOK
  <2>2. ASSUME NEW d \in Rows, RunnerFinish(d) \/ RunnerPanic(d)
        PROVE  /\ Leave({d}) /\ status' \in [Rows -> Ended \cup {"absent", "running"}] /\ lost' \subseteq Rows
               /\ UNCHANGED <<image, running, observed, full, stalled, replicas, hpa, mode, target, wanted, metaPrev>>
    BY <2>2 DEF RunnerFinish, RunnerPanic, Finish, RTypeOK, Ended
  <2>. QED
    BY <2>1, <2>2
<1>2. /\ pc' = [d \in Rows |-> IF d \in gone THEN "done" ELSE pc[d]]
      /\ prev' = [d \in Rows |-> IF d \in gone THEN Nothing ELSE prev[d]]
      /\ before' = [d \in Rows |-> IF d \in gone THEN Nothing ELSE before[d]]
      /\ reported' = reported \ gone /\ crossed' = crossed \ gone /\ undoes' = undoes
  BY <1>1 DEF Leave
<1>3. RTypeOK'
  BY <1>1, <1>2 DEF RTypeOK, Stages
<1>4. RunsInv' /\ GuardInv' /\ CountsInv'
  BY <1>1, <1>2 DEF RTypeOK, RunsInv, GuardInv, CountsInv
<1>5. PutBackInv'
  BY <1>1, <1>2 DEF RTypeOK, PutBackInv
<1>. QED
  BY <1>1, <1>2, <1>3, <1>4, <1>5 DEF RTypeOK

\* Every step keeps the invariant, passes no verdict on another's rollout and
\* leaves the serving stack alone.
LEMMA RolloutStepHolds ==
  ASSUME RolloutIInv, [RNext]_rVars
  PROVE  RolloutIInv' /\ OwnVerdicts /\ ShieldedStay
<1>1. CASE Cluster \/ KubernetesWrites
  BY <1>1, ClusterStep DEF OwnVerdicts
<1>2. ASSUME NEW d \in Rows, Handler(d) PROVE RolloutIInv' /\ OwnVerdicts /\ ShieldedStay
  <2>1. pc' = pc \/ \E s \in {"queued", "mark"} : pc' = [pc EXCEPT ![d] = s]
    BY <1>2 DEF Handler, TriggerRecord, TriggerRollout, FinishByHand, UndoRecord, UndoRollout, runner, Goto
  <2>. QED
    BY <1>2, <2>1, RequestKeeps DEF OwnVerdicts, ShieldedStay, RolloutIInv, RTypeOK
<1>3. ASSUME NEW d \in Rows, RunnerPatch(d) \/ RunnerRevert(d)
      PROVE  RolloutIInv' /\ OwnVerdicts /\ ShieldedStay
  BY <1>3, PatchKeeps DEF OwnVerdicts
<1>4. ASSUME NEW d \in Rows,
             UndoMark(d) \/ RunnerRead(d) \/ RunnerPersist(d) \/ RunnerPoll(d) \/ RunnerPollLate(d)
      PROVE  RolloutIInv' /\ OwnVerdicts /\ ShieldedStay
  BY <1>4, WatchKeeps DEF ShieldedStay
<1>5. CASE (\E d \in Rows : RunnerFinish(d) \/ RunnerPanic(d)) \/ RCrash
  BY <1>5, LeaveKeeps DEF OwnVerdicts, ShieldedStay
<1>6. CASE UNCHANGED rVars
  BY <1>6 DEF rVars, cluster, ledger, runner, history, RolloutIInv, RTypeOK, RunsInv, GuardInv, PutBackInv,
              CountsInv, OwnVerdicts, ShieldedStay
<1>. QED
  BY <1>1, <1>2, <1>3, <1>4, <1>5, <1>6 DEF RNext, RunnerStep

\* Nobody is at work at first, and every workload runs its image.
LEMMA RolloutInitHolds == RInit => RolloutIInv
<1>1. Current \in Images
  BY ImagesAssumption
<1>. QED
  BY <1>1 DEF RInit, RolloutIInv, RTypeOK, RunsInv, GuardInv, PutBackInv, CountsInv, Stages

\* A rollout that fails leaves the image that it replaced, and the image on
\* record for an operator's rollback is that one (runDeploymentRollout,
\* rollbackRollout), unless another rollout has crossed it or its metadata tells
\* of a failed patch; whatever clients finish by hand.
THEOREM RolloutHolds == RSpec => []RolloutInv
<1>1. RolloutIInv => RolloutInv
  BY DEF RolloutIInv, PutBackInv, RolloutInv, FailurePutsBack, PreviousIsReplaced
<1>. QED
  BY <1>1, RolloutInitHolds, RolloutStepHolds, PTL DEF RSpec

\* A runner finds its rollout complete by its own image alone (RolloutStatus),
\* and no image and no replica count of the serving stack or of a system
\* namespace is ever written, by a runner, a client or an autoscaler that a
\* client has made (guardNamespace).
THEOREM RolloutStepsHold == RSpec => RolloutSteps
<1>1. RolloutIInv /\ [RNext]_rVars => OwnVerdicts /\ ShieldedStay /\ RolloutIInv'
  BY RolloutStepHolds
<1>2. OwnVerdicts <=> \A d \in Rows : LET w == target[d] IN
        pc[d] # "succeed" /\ pc'[d] = "succeed" /\ d \notin crossed
          => image[w] = wanted[d] /\ (running[w] = wanted[d] \/ replicas[w] = 0)
  BY DEF OwnVerdicts
<1>3. ShieldedStay <=> \A w \in Workloads : Shielded(w) =>
        image'[w] = image[w] /\ replicas'[w] = replicas[w]
  BY DEF ShieldedStay
<1>. QED
  BY <1>1, <1>2, <1>3, RolloutInitHolds, PTL DEF RSpec, RolloutSteps, VerdictIsOwn, ServingIsLeftAlone

--------------------------------------------------------------------------------
(* The abstract ledger. *)

\* A row without a rollout names no workload and no image, and a runner that has
\* not read knows no image to put back.
RowsInv ==
  \A d \in Rows :
    /\ status[d] = "absent" => mode[d] = "record"
    /\ mode[d] = "record" => target[d] = Nothing /\ wanted[d] = Nothing
    /\ pc[d] \in {"none", "mark", "queued"} => prev[d] = Nothing

\* What the stages of a runner are to the ledger.
LEMMA Phases ==
  /\ Phase["none"] = "none" /\ Phase["done"] = "none" /\ Phase["mark"] = "marking"
  /\ Phase["queued"] = "waiting" /\ Phase["patch"] = "looked" /\ Phase["fail"] = "over"
  /\ \A s \in {"persist", "poll", "succeed", "revert"} : Phase[s] = "deployed"
  BY DEF Phase, Stages

\* A runner that goes on moves in the ledger alone.
LEMMA ProgressStep ==
  ASSUME pc \in [Rows -> Stages], NEW d \in Rows, NEW s \in Stages, pc' = [pc EXCEPT ![d] = s]
  PROVE  Progress' = [Progress EXCEPT ![d] = Phase[s]] /\ Progress[d] = Phase[pc[d]]
  BY DEF Progress

\* A runner that moves within a phase does not move in the ledger.
LEMMA ProgressSame ==
  ASSUME pc \in [Rows -> Stages], NEW d \in Rows, NEW s \in Stages, pc' = [pc EXCEPT ![d] = s],
         Phase[s] = Phase[pc[d]]
  PROVE  Progress' = Progress
<1>1. \A e \in Rows : Phase[pc'[e]] = Phase[pc[e]]
  OBVIOUS
<1>. QED
  BY <1>1 DEF Progress

\* Runners that end are gone from the ledger.
LEMMA ProgressLeave ==
  ASSUME NEW gone \in SUBSET Rows, Leave(gone)
  PROVE  /\ Progress' = [d \in Rows |-> IF d \in gone THEN "none" ELSE Progress[d]]
         /\ prev' = [d \in Rows |-> IF d \in gone THEN Nothing ELSE prev[d]]
         /\ undoes' = undoes
<1>1. pc' = [d \in Rows |-> IF d \in gone THEN "done" ELSE pc[d]]
  BY DEF Leave
<1>2. Progress' = [d \in Rows |-> IF d \in gone THEN "none" ELSE Progress[d]]
  BY <1>1, Phases DEF Progress
<1>. QED
  BY <1>2 DEF Leave

LedgerStays == UNCHANGED <<status, metaPrev, target, wanted, undoes, Progress, prev, image>>

\* The requests.
LEMMA HandlerRefines ==
  ASSUME RTypeOK, RowsInv, NEW d \in Rows, Handler(d) PROVE Ledger!LedgerNext
<1> USE DEF Goto, cluster, runner
<1>0. pc \in [Rows -> Stages] /\ {"queued", "mark"} \subseteq Stages
  BY DEF RTypeOK, Stages
<1>1. CASE TriggerRecord(d)
  <2>1. target' = target /\ wanted' = wanted
    BY <1>1 DEF TriggerRecord, Insert, RowsInv, RTypeOK
  <2>2. Progress' = Progress
    BY <1>1 DEF TriggerRecord, Progress
  <2>3. Ledger!BeginRecord(d)
    BY <1>1, <2>1, <2>2 DEF TriggerRecord, Insert, Ledger!BeginRecord, Ledger!said
  <2>. QED
    BY <2>3 DEF Ledger!LedgerNext
<1>2. ASSUME NEW w \in Workloads, NEW i \in Offered[d], TriggerRollout(d, w, i) PROVE Ledger!LedgerNext
  <2>1. i \in Images
    BY OfferedAssumption
  <2>2. Progress' = [Progress EXCEPT ![d] = "waiting"]
    <3>1. Progress' = [Progress EXCEPT ![d] = Phase["queued"]]
      BY <1>0, <1>2, ProgressStep DEF TriggerRollout
    <3>. QED
      BY <3>1, Phases
  <2>3. Ledger!BeginRollout(d, w, i)
    BY <1>2, <2>2 DEF TriggerRollout, Insert, Ledger!BeginRollout, Ledger!Begin
  <2>. QED
    BY <2>1, <2>3 DEF Ledger!LedgerNext
<1>3. ASSUME NEW s \in {"success", "failed"}, FinishByHand(d, s) PROVE Ledger!LedgerNext
  <2>1. Progress' = Progress
    BY <1>3 DEF FinishByHand, Progress
  <2>2. Ledger!Judge(d)
    BY <1>3, <2>1 DEF FinishByHand, Ledger!Judge, Ledger!said
  <2>. QED
    BY <2>2 DEF Ledger!LedgerNext
<1>4. ASSUME NEW o \in Rows, UndoRecord(o, d) PROVE Ledger!LedgerNext
  <2>1. Progress' = Progress /\ target[o] = Nothing
    BY <1>4 DEF UndoRecord, Progress, RowsInv
  <2>2. Ledger!UndoRecord(o, d)
    BY <1>4, <2>1 DEF UndoRecord, Ledger!UndoRecord, Ledger!said
  <2>. QED
    BY <2>2 DEF Ledger!LedgerNext
<1>5. ASSUME NEW o \in Rows, UndoRollout(o, d) PROVE Ledger!LedgerNext
  <2>1. Progress' = [Progress EXCEPT ![d] = "marking"]
    <3>1. Progress' = [Progress EXCEPT ![d] = Phase["mark"]]
      BY <1>0, <1>5, ProgressStep DEF UndoRollout
    <3>. QED
      BY <3>1, Phases
  <2>2. Ledger!BeginUndo(o, d)
    BY <1>5, <2>1 DEF UndoRollout, Insert, Ledger!BeginUndo, Ledger!Begin
  <2>. QED
    BY <2>2 DEF Ledger!LedgerNext
<1>. QED
  BY <1>1, <1>2, <1>3, <1>4, <1>5 DEF Handler

\* A runner marks, reads and patches.
LEMMA RunnerRefines ==
  ASSUME RTypeOK, RowsInv, NEW d \in Rows,
         UndoMark(d) \/ RunnerRead(d) \/ RunnerPatch(d) \/ RunnerRevert(d)
  PROVE  Ledger!LedgerNext
<1> USE DEF Goto, cluster
<1>0. pc \in [Rows -> Stages] /\ {"queued", "done", "patch", "persist", "fail"} \subseteq Stages
  BY DEF RTypeOK, Stages
<1>1. CASE UndoMark(d)
  <2>1. /\ pc[d] = "mark" /\ UNCHANGED <<image, target, wanted, metaPrev, prev, undoes>>
        /\ \/ status' = [status EXCEPT ![undoes[d]] = "rolled_back"] /\ pc' = [pc EXCEPT ![d] = "queued"]
           \/ status' = status /\ pc' = [pc EXCEPT ![d] = "done"]
    BY <1>1 DEF UndoMark
  <2>2. CASE status' = [status EXCEPT ![undoes[d]] = "rolled_back"] /\ pc' = [pc EXCEPT ![d] = "queued"]
    <3>0. Progress' = [Progress EXCEPT ![d] = Phase["queued"]] /\ Progress[d] = Phase["mark"]
      BY <1>0, <2>1, <2>2, ProgressStep
    <3>1. Progress' = [Progress EXCEPT ![d] = "waiting"] /\ Progress[d] = "marking"
      BY <3>0, Phases
    <3>2. Ledger!Mark(d)
      BY <2>1, <2>2, <3>1 DEF Ledger!Mark, Ledger!said
    <3>. QED
      BY <3>2 DEF Ledger!LedgerNext
  <2>3. CASE status' = status /\ pc' = [pc EXCEPT ![d] = "done"]
    <3>1. prev[d] = Nothing /\ prev \in [Rows -> Images \cup {Nothing}]
      BY <2>1 DEF RowsInv, RTypeOK
    <3>0. Progress' = [Progress EXCEPT ![d] = Phase["done"]] /\ Progress[d] = Phase["mark"]
      BY <1>0, <2>1, <2>3, ProgressStep
    <3>2. Progress' = [Progress EXCEPT ![d] = "none"] /\ Progress[d] = "marking"
      BY <3>0, Phases
    <3>3. /\ Progress' = [e \in Rows |-> IF e \in {d} THEN "none" ELSE Progress[e]]
          /\ prev' = [e \in Rows |-> IF e \in {d} THEN Nothing ELSE prev[e]]
      BY <2>1, <3>1, <3>2 DEF Progress
    <3>4. Ledger!Retire({d}) /\ {d} \in SUBSET {e \in Rows : Progress[e] # "none"}
      BY <2>1, <3>2, <3>3 DEF Ledger!Retire, Ledger!said
    <3>5. Ledger!Die
      BY <2>3, <3>4 DEF Ledger!Die
    <3>. QED
      BY <3>5 DEF Ledger!LedgerNext
  <2>. QED
    BY <2>1, <2>2, <2>3
<1>2. CASE RunnerRead(d)
  <2>1. pc[d] = "queued" /\ UNCHANGED <<image, status, target, wanted, metaPrev, undoes>>
    BY <1>2 DEF RunnerRead
  <2>2. CASE prev' = [prev EXCEPT ![d] = image[target[d]]] /\ pc' = [pc EXCEPT ![d] = "patch"]
    <3>0. Progress' = [Progress EXCEPT ![d] = Phase["patch"]] /\ Progress[d] = Phase["queued"]
      BY <1>0, <2>1, <2>2, ProgressStep
    <3>1. Progress' = [Progress EXCEPT ![d] = "looked"] /\ Progress[d] = "waiting"
      BY <3>0, Phases
    <3>2. Ledger!Look(d)
      BY <2>1, <2>2, <3>1 DEF Ledger!Look, Ledger!said
    <3>. QED
      BY <3>2 DEF Ledger!LedgerNext
  <2>3. CASE prev' = prev /\ pc' = [pc EXCEPT ![d] = "fail"]
    <3>0. Progress' = [Progress EXCEPT ![d] = Phase["fail"]] /\ Progress[d] = Phase["queued"]
      BY <1>0, <2>1, <2>3, ProgressStep
    <3>1. Progress' = [Progress EXCEPT ![d] = "over"] /\ Progress[d] = "waiting"
      BY <3>0, Phases
    <3>2. Ledger!GiveUp(d)
      BY <2>1, <2>3, <3>1 DEF Ledger!GiveUp, Ledger!said
    <3>. QED
      BY <3>2 DEF Ledger!LedgerNext
  <2>. QED
    BY <1>2, <2>2, <2>3 DEF RunnerRead
<1>3. CASE RunnerPatch(d)
  <2>1. pc[d] = "patch" /\ UNCHANGED <<status, target, wanted, metaPrev, prev, undoes>>
    BY <1>3 DEF RunnerPatch
  <2>2. /\ image' = image \/ image' = [image EXCEPT ![target[d]] = wanted[d]]
        /\ image' = image => pc' = [pc EXCEPT ![d] = "fail"] \/ image' = [image EXCEPT ![target[d]] = wanted[d]]
        /\ \E s \in {"persist", "fail"} : pc' = [pc EXCEPT ![d] = s]
    BY <1>3 DEF RunnerPatch, PatchAnswers, Patch, Specify
  <2>3. PICK s \in {"persist", "fail"} : pc' = [pc EXCEPT ![d] = s]
    BY <2>2
  <2>4. /\ Progress' = [Progress EXCEPT ![d] = Phase[s]] /\ Progress[d] = "looked"
        /\ Phase[s] \in {"deployed", "over"}
    <3>1. Progress' = [Progress EXCEPT ![d] = Phase[s]] /\ Progress[d] = Phase["patch"]
      BY <1>0, <2>1, <2>3, ProgressStep
    <3>. QED
      BY <3>1, Phases
  <2>5. CASE image' = [image EXCEPT ![target[d]] = wanted[d]]
    <3>1. Ledger!Deploy(d)
      BY <2>1, <2>4, <2>5 DEF Ledger!Deploy, Ledger!said
    <3>. QED
      BY <3>1 DEF Ledger!LedgerNext
  <2>6. CASE image' = image /\ pc' = [pc EXCEPT ![d] = "fail"]
    <3>1. Progress' = [Progress EXCEPT ![d] = "over"]
      BY <1>0, <2>6, Phases, ProgressStep
    <3>2. Ledger!GiveUp(d)
      BY <2>1, <2>4, <2>6, <3>1 DEF Ledger!GiveUp, Ledger!said
    <3>. QED
      BY <3>2 DEF Ledger!LedgerNext
  <2>. QED
    BY <2>2, <2>5, <2>6
<1>4. CASE RunnerRevert(d)
  <2>1. /\ pc[d] = "revert" /\ UNCHANGED <<status, target, wanted, prev, undoes>>
        /\ metaPrev' = metaPrev \/ metaPrev' = [metaPrev EXCEPT ![d] = prev[d]]
    BY <1>4 DEF RunnerRevert, PersistMeta
  <2>2. /\ image' = image \/ image' = [image EXCEPT ![target[d]] = prev[d]]
        /\ pc' = [pc EXCEPT ![d] = "fail"]
    BY <1>4 DEF RunnerRevert, PatchAnswers, Patch, Specify
  <2>3. Progress' = [Progress EXCEPT ![d] = "over"] /\ Progress[d] = "deployed"
    <3>1. Progress' = [Progress EXCEPT ![d] = Phase["fail"]] /\ Progress[d] = Phase["revert"]
      BY <1>0, <2>1, <2>2, ProgressStep
    <3>. QED
      BY <3>1, Phases
  <2>4. Ledger!Restore(d)
    BY <2>1, <2>2, <2>3 DEF Ledger!Restore, Ledger!said
  <2>. QED
    BY <2>4 DEF Ledger!LedgerNext
<1>. QED
  BY <1>1, <1>2, <1>3, <1>4

\* A runner that persists and polls keeps on record what it had found.
LEMMA WatchRefines ==
  ASSUME RTypeOK, NEW d \in Rows, RunnerPersist(d) \/ RunnerPoll(d) \/ RunnerPollLate(d)
  PROVE  Ledger!LedgerNext \/ LedgerStays
<1> USE DEF Goto, cluster
<1>1. /\ pc[d] \in {"persist", "poll"} /\ UNCHANGED <<image, status, target, wanted, prev, undoes>>
      /\ metaPrev' = metaPrev \/ metaPrev' = [metaPrev EXCEPT ![d] = prev[d]]
      /\ \E s \in {"poll", "succeed", "revert"} : pc' = [pc EXCEPT ![d] = s]
  BY DEF RunnerPersist, RunnerPoll, RunnerPollLate, PersistMeta
<1>2. PICK s \in {"poll", "succeed", "revert"} : pc' = [pc EXCEPT ![d] = s]
  BY <1>1
<1>3. pc \in [Rows -> Stages] /\ s \in Stages /\ Phase[s] = "deployed" /\ Phase[pc[d]] = "deployed"
  BY <1>1, Phases DEF RTypeOK, Stages
<1>4. Progress' = Progress /\ Progress[d] = "deployed"
  BY <1>2, <1>3, ProgressSame DEF Progress
<1>5. LedgerStays \/ Ledger!Keep(d)
  BY <1>1, <1>4 DEF LedgerStays, Ledger!Keep, Ledger!said
<1>. QED
  BY <1>5 DEF Ledger!LedgerNext

\* The end of runners: a verdict, or none.
LEMMA EndRefines ==
  ASSUME RTypeOK, (\E d \in Rows : RunnerFinish(d) \/ RunnerPanic(d)) \/ RCrash
  PROVE  Ledger!LedgerNext
<1> USE DEF cluster, ledger
<1>1. ASSUME NEW gone \in SUBSET Rows, Leave(gone), UNCHANGED <<image, target, wanted, metaPrev>>
      PROVE  Ledger!Retire(gone)
  BY <1>1, ProgressLeave DEF Ledger!Retire, Ledger!said
<1>2. ASSUME NEW d \in Rows, RunnerFinish(d) \/ RunnerPanic(d) PROVE Ledger!LedgerNext
  <2>1. PICK s \in {"success", "failed"} :
          Finish(d, s) /\ (s = "success" => pc[d] = "succeed") /\ pc[d] \notin {"none", "mark", "done"}
    BY <1>2 DEF RunnerFinish, RunnerPanic
  <2>2. Ledger!Retire({d})
    BY <1>1, <1>2, <2>1 DEF RunnerFinish, RunnerPanic, Finish
  <2>3. /\ s = "success" => Progress[d] = "deployed"
        /\ Progress[d] \notin {"none", "marking"}
    BY <2>1, Phases DEF Progress, RTypeOK, Stages
  <2>4. status' = status \/ status' = [status EXCEPT ![d] = s]
    BY <2>1 DEF Finish
  <2>5. CASE status' = status
    <3>1. {d} \in SUBSET {e \in Rows : Progress[e] # "none"}
      BY <2>3
    <3>2. Ledger!Die
      BY <2>2, <2>5, <3>1 DEF Ledger!Die
    <3>. QED
      BY <3>2 DEF Ledger!LedgerNext
  <2>6. CASE status' = [status EXCEPT ![d] = s]
    <3>1. Ledger!Close(d)
      BY <2>2, <2>3, <2>6 DEF Ledger!Close
    <3>. QED
      BY <3>1 DEF Ledger!LedgerNext
  <2>. QED
    BY <2>4, <2>5, <2>6
<1>3. CASE RCrash
  <2> DEFINE gone == {d \in Rows : pc[d] \notin {"none", "done"}}
  <2>1. Leave(gone) /\ UNCHANGED <<image, status, target, wanted, metaPrev>>
    BY <1>3 DEF RCrash
  <2>2. Ledger!Retire(gone)
    BY <1>1, <2>1
  <2>3. gone \in SUBSET {e \in Rows : Progress[e] # "none"}
    BY Phases DEF Progress, RTypeOK, Stages
  <2>4. Ledger!Die
    BY <2>1, <2>2, <2>3 DEF Ledger!Die
  <2>. QED
    BY <2>4 DEF Ledger!LedgerNext
<1>. QED
  BY <1>2, <1>3

\* Rows without a rollout stay so.
LEMMA RowsStay ==
  ASSUME RTypeOK, RowsInv, [RNext]_rVars PROVE RowsInv'
<1> USE DEF Goto, cluster, ledger, runner, history
<1>1. ASSUME NEW d \in Rows, Handler(d) PROVE RowsInv'
  <2>1. \/ UNCHANGED <<mode, target, wanted, pc, prev>> /\ \A e \in Rows : status'[e] = "absent" => status[e] = "absent"
        \/ /\ status' = [status EXCEPT ![d] = "running"] /\ prev' = prev /\ pc[d] = "none"
           /\ \/ /\ mode' = [mode EXCEPT ![d] = "record"] /\ target' = [target EXCEPT ![d] = Nothing]
                 /\ wanted' = [wanted EXCEPT ![d] = Nothing] /\ pc' = pc
              \/ /\ mode' = [mode EXCEPT ![d] = "rollout"] /\ \E w : target' = [target EXCEPT ![d] = w]
                 /\ \E i : wanted' = [wanted EXCEPT ![d] = i]
                 /\ \E s \in {"queued", "mark"} : pc' = [pc EXCEPT ![d] = s]
    BY <1>1 DEF Handler, TriggerRecord, TriggerRollout, FinishByHand, UndoRecord, UndoRollout, Insert, RTypeOK
  <2>. QED
    BY <2>1 DEF RowsInv, RTypeOK
<1>2. ASSUME NEW d \in Rows, UndoMark(d) \/ RunnerRead(d) \/ RunnerPatch(d) \/ RunnerRevert(d)
                             \/ RunnerPersist(d) \/ RunnerPoll(d) \/ RunnerPollLate(d)
      PROVE  RowsInv'
  <2>1. /\ UNCHANGED <<mode, target, wanted>>
        /\ \A e \in Rows : status'[e] = "absent" => status[e] = "absent"
    BY <1>2 DEF UndoMark, RunnerRead, RunnerPatch, RunnerRevert, RunnerPersist, RunnerPoll, RunnerPollLate, RTypeOK
  <2>2. /\ \E s \in Stages \ {"none", "mark"} : pc' = [pc EXCEPT ![d] = s] /\ (s = "queued" => pc[d] = "mark" /\ prev' = prev)
        /\ prev' = prev \/ prev' = [prev EXCEPT ![d] = image[target[d]]]
    BY <1>2 DEF UndoMark, RunnerRead, RunnerPatch, RunnerRevert, RunnerPersist, RunnerPoll, RunnerPollLate,
                PatchAnswers, Stages
  <2>. QED
    BY <2>1, <2>2 DEF RowsInv, RTypeOK
<1>3. CASE (\E d \in Rows : RunnerFinish(d) \/ RunnerPanic(d)) \/ RCrash
  <2>1. PICK gone \in SUBSET Rows : Leave(gone)
    BY <1>3 DEF RunnerFinish, RunnerPanic, RCrash, Finish
  <2>2. UNCHANGED <<mode, target, wanted>> /\ \A e \in Rows : status'[e] = "absent" => status[e] = "absent"
    BY <1>3 DEF RunnerFinish, RunnerPanic, RCrash, Finish, RTypeOK
  <2>3. \A e \in Rows : pc'[e] \in {"none", "mark", "queued"} => pc[e] = pc'[e] /\ prev'[e] = prev[e]
    BY <2>1 DEF Leave
  <2>. QED
    BY <2>2, <2>3 DEF RowsInv
<1>4. CASE Cluster \/ KubernetesWrites \/ UNCHANGED rVars
  <2>1. UNCHANGED <<status, mode, target, wanted, pc, prev>>
    BY <1>4 DEF Cluster, KubernetesWrites, ControllerObserves, PodsReady, ProgressStalls, Autoscale,
                ScaleDeployment, UpsertHPA, DeleteHPA, rVars
  <2>. QED
    BY <2>1 DEF RowsInv
<1>. QED
  BY <1>1, <1>2, <1>3, <1>4 DEF RNext, RunnerStep

\* Every step is a step of the ledger or none.
LEMMA LedgerStep ==
  ASSUME RolloutIInv, RowsInv, [RNext]_rVars PROVE [Ledger!LedgerNext]_Ledger!ledgerVars
<1>1. RTypeOK
  BY DEF RolloutIInv
<1>2. CASE Cluster \/ KubernetesWrites \/ UNCHANGED rVars
  <2>1. UNCHANGED <<status, metaPrev, target, wanted, undoes, pc, prev>>
    BY <1>2 DEF Cluster, KubernetesWrites, ControllerObserves, PodsReady, ProgressStalls, Autoscale,
                ScaleDeployment, UpsertHPA, DeleteHPA, rVars, ledger, runner
  <2>2. image' = image
    <3>1. ASSUME NEW w \in Workloads, NEW n, Specify(w, image[w], n) PROVE image' = image
      BY <1>1, <3>1 DEF Specify, RTypeOK
    <3>2. ASSUME NEW h \in Hpas, Autoscale(h) PROVE image' = image
      BY <1>1, <3>1, <3>2 DEF Autoscale, RTypeOK
    <3>. QED
      BY <1>2, <3>1, <3>2 DEF Cluster, KubernetesWrites, ControllerObserves, PodsReady, ProgressStalls,
                  ScaleDeployment, UpsertHPA, DeleteHPA, rVars, cluster
  <2>3. Progress' = Progress
    BY <2>1 DEF Progress
  <2>. QED
    BY <2>1, <2>2, <2>3 DEF Ledger!ledgerVars, Ledger!said
<1>3. ASSUME NEW d \in Rows, RunnerPersist(d) \/ RunnerPoll(d) \/ RunnerPollLate(d)
      PROVE  [Ledger!LedgerNext]_Ledger!ledgerVars
  BY <1>1, <1>3, WatchRefines DEF LedgerStays, Ledger!ledgerVars, Ledger!said
<1>4. ASSUME NEW d \in Rows, Handler(d) \/ UndoMark(d) \/ RunnerRead(d) \/ RunnerPatch(d) \/ RunnerRevert(d)
      PROVE  Ledger!LedgerNext
  BY <1>1, <1>4, HandlerRefines, RunnerRefines
<1>5. CASE (\E d \in Rows : RunnerFinish(d) \/ RunnerPanic(d)) \/ RCrash
  BY <1>1, <1>5, EndRefines
<1>. QED
  BY <1>2, <1>3, <1>4, <1>5 DEF RNext, RunnerStep

\* The rows and runners of deployments implement the abstract ledger, whatever
\* clients judge and roll back meanwhile: an image changes on behalf of a rollout
\* at work on it, to what was asked for once and back to what it had found once,
\* never after its verdict; and a rollback deploys what the rollout it undoes had
\* found (rollbackDeployment, runDeploymentRollout, rollbackRollout).
THEOREM RefinesLedger == RSpec => ImplementsLedger
<1>1. RInit => RolloutIInv /\ RowsInv /\ Ledger!LedgerInit
  <2>1. RInit => RowsInv
    BY DEF RInit, RowsInv
  <2>2. RInit => Ledger!LedgerInit
    <3>1. RInit => Progress = [d \in Rows |-> "none"]
      BY Phases DEF RInit, Progress
    <3>. QED
      BY <3>1, ImagesAssumption DEF RInit, Ledger!LedgerInit
  <2>. QED
    BY <2>1, <2>2, RolloutInitHolds
<1>2. RolloutIInv /\ RowsInv /\ [RNext]_rVars => RolloutIInv' /\ RowsInv' /\ [Ledger!LedgerNext]_Ledger!ledgerVars
  BY RolloutStepHolds, RowsStay, LedgerStep DEF RolloutIInv
<1>. QED
  BY <1>1, <1>2, PTL DEF RSpec, ImplementsLedger, Ledger!LedgerSpec
================================================================================
