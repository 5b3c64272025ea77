------------------------------- MODULE Jobs_proofs ------------------------------
(***************************************************************************)
(* What holds of any number of training jobs and of benchmarks, whichever  *)
(* UPDATE fails and however often the server is restarted.  MCWorkloads    *)
(* checks them on small instances, and GpuLane_proofs builds on them.      *)
(***************************************************************************)
EXTENDS TrainingJob, BenchmarkRun, TLAPS

--------------------------------------------------------------------------------
(* Training jobs.  Type correctness holds unconditionally, the rest for        *)
(* disciplined use: every submission has a PyTorchJob name of its own, nobody  *)
(* cancels a job whose row still says 'pending', and no answer of the          *)
(* Kubernetes API to a create is lost.  The README lists the counterexamples   *)
(* that each of the three excludes.                                            *)

Disciplined ==
  /\ \A i, j \in Jobs : NameOf[i] = NameOf[j] => i = j
  /\ "pending" \notin CancelFrom
  /\ "lost_reply" \notin Faults

\* Until its runner has seen the create succeed, a job's row is pending.
Starting == {"submitting", "refused", "submitted"}

\* A resource belongs to the job of its name; one that succeeded has uploaded.
OwnerInv ==
  \A n \in Names :
    /\ crd[n].phase # "absent" => crd[n].by \in Jobs /\ NameOf[crd[n].by] = n
    /\ crd[n].phase = "succeeded" => crd[n].by \in artifacts

\* The row exists exactly from the moment its runner does, and no request of a
\* job is open any more then.
RowInv ==
  \A j \in Jobs : /\ status[j] = "absent" <=> runner[j] = "none"
                  /\ request[j] # "idle" => status[j] = "absent"

\* A runner that has not created its resource yet finds its name free, and its
\* row is as it was inserted.
StartInv ==
  \A j \in Jobs :
    /\ runner[j] \in {"none", "submitting", "refused"} => crd[NameOf[j]].phase = "absent"
    /\ runner[j] \in Starting => status[j] = "pending"

\* Between the two steps of a cancel the resource is gone for good.
CancelInv ==
  \A j \in cancelling :
    /\ status[j] # "absent"
    /\ runner[j] \notin Starting
    /\ ~Training(j)

\* What the runner is about to write is true of its own resource.
VerdictInv ==
  \A j \in Jobs :
    /\ verdict[j] = "succeeded" => j \in artifacts
    /\ runner[j] = "finishing" =>
         verdict[j] \in {"succeeded", "failed"} /\ (Training(j) => j \in late)
    /\ runner[j] = "registering" => verdict[j] = "succeeded"
    /\ status[j] \in {"succeeded", "failed"} => runner[j] \in {"registering", "done"}

\* The types alone are not inductive: a runner that finishes has a verdict, and a
\* resource that exists was created for a job.
JTypeInv ==
  /\ JTypeOK
  /\ \A j \in Jobs : runner[j] = "finishing" => verdict[j] # "none"
  /\ \A n \in Names : crd[n].phase # "absent" => crd[n].by \in Jobs

JInv ==
  /\ JTypeInv
  /\ OwnerInv
  /\ RowInv
  /\ StartInv
  /\ CancelInv
  /\ VerdictInv
  /\ TrainingIsVisible
  /\ CancelledIsGone
  /\ RegisteredHasArtifact

--------------------------------------------------------------------------------

\* An end changes the phase of one resource and nothing else of it.
LEMMA EndOfJob ==
  ASSUME JTypeOK, NEW n \in Names, JobEnds(n)
  PROVE  \E e \in {"succeeded", "failed"} :
           /\ crd' = [crd EXCEPT ![n] = [phase |-> e, by |-> crd[n].by]]
           /\ artifacts' = IF e = "succeeded" THEN artifacts \cup {crd[n].by}
                                             ELSE artifacts
<1>1. crd[n] \in [phase : Phases, by : Jobs \cup {NoJob}]
  BY DEF JTypeOK
<1>2. \A e \in Phases : [crd[n] EXCEPT !.phase = e] = [phase |-> e, by |-> crd[n].by]
  BY <1>1
<1>3. CASE /\ crd' = [crd EXCEPT ![n].phase = "succeeded"]
           /\ artifacts' = artifacts \cup {crd[n].by}
  BY <1>2, <1>3 DEF Phases
<1>4. CASE crd' = [crd EXCEPT ![n].phase = "failed"] /\ UNCHANGED artifacts
  BY <1>2, <1>4 DEF Phases
<1>. QED
  BY <1>3, <1>4 DEF JobEnds

\* No step leaves the types, whatever the constants.
LEMMA TypeStep ==
  ASSUME JTypeInv, [JNext]_jVars
  PROVE  JTypeInv'
<1> USE NameOfAssumption, CancelAssumption, CrashAssumption
      DEF JTypeInv, JTypeOK, Active, Terminal, Verdicts, Phases, Runners
<1>1. ASSUME NEW j \in Jobs, SubmitLaneCheck(j, FALSE) PROVE JTypeInv'
  BY <1>1 DEF SubmitLaneCheck
<1>2. ASSUME NEW j \in Jobs, NEW busy \in BOOLEAN, SubmitGpuCheck(j, busy) PROVE JTypeInv'
  BY <1>2 DEF SubmitGpuCheck
<1>3. ASSUME NEW j \in Jobs, NEW busy \in BOOLEAN, SubmitRefused(j, busy) PROVE JTypeInv'
  BY <1>3 DEF SubmitRefused
<1>4. ASSUME NEW j \in Jobs, SubmitInsert(j) PROVE JTypeInv'
  BY <1>4 DEF SubmitInsert, JGoto
<1>5. ASSUME NEW j \in Jobs, RunnerCreate(j) PROVE JTypeInv'
  BY <1>5 DEF RunnerCreate, JGoto
<1>6. ASSUME NEW j \in Jobs, RunnerCreateError(j) PROVE JTypeInv'
  BY <1>6 DEF RunnerCreateError, JGoto
<1>7. ASSUME NEW j \in Jobs, RunnerRefused(j) PROVE JTypeInv'
  BY <1>7 DEF RunnerRefused, JGoto, WriteStatus
<1>8. ASSUME NEW j \in Jobs, RunnerMarkRunning(j) PROVE JTypeInv'
  BY <1>8 DEF RunnerMarkRunning, JGoto, WriteStatus
<1>9. ASSUME NEW j \in Jobs, RunnerTick(j) PROVE JTypeInv'
  BY <1>9 DEF RunnerTick, JGoto
<1>10. ASSUME NEW j \in Jobs, RunnerSeesEnd(j) PROVE JTypeInv'
  BY <1>10 DEF RunnerSeesEnd, JGoto
<1>11. ASSUME NEW j \in Jobs, RunnerSeesNothing(j) PROVE JTypeInv'
  BY <1>11 DEF RunnerSeesNothing, JGoto
<1>12. ASSUME NEW j \in Jobs, RunnerTimesOut(j) PROVE JTypeInv'
  BY <1>12 DEF RunnerTimesOut, JGoto
<1>13. ASSUME NEW j \in Jobs, RunnerFinish(j) PROVE JTypeInv'
  BY <1>13 DEF RunnerFinish, JGoto, WriteStatus
<1>14. ASSUME NEW j \in Jobs, RunnerRegister(j) PROVE JTypeInv'
  BY <1>14 DEF RunnerRegister, JGoto
<1>15. ASSUME NEW j \in Jobs, RunnerLate(j) PROVE JTypeInv'
  BY <1>15 DEF RunnerLate
<1>16. ASSUME NEW j \in Jobs, CancelDelete(j) PROVE JTypeInv'
  BY <1>16 DEF CancelDelete
<1>17. ASSUME NEW j \in Jobs, CancelWrite(j) PROVE JTypeInv'
  BY <1>17 DEF CancelWrite, WriteStatus
<1>18. ASSUME NEW n \in Names, JobEnds(n) PROVE JTypeInv'
  <2>1. PICK e \in {"succeeded", "failed"} :
           /\ crd' = [crd EXCEPT ![n] = [phase |-> e, by |-> crd[n].by]]
           /\ artifacts' = IF e = "succeeded" THEN artifacts \cup {crd[n].by}
                                             ELSE artifacts
    BY <1>18, EndOfJob
  <2>. QED
    BY <1>18, <2>1 DEF JobEnds
<1>19. CASE JCrash
  BY <1>19 DEF JCrash
<1>20. CASE UNCHANGED jVars
  BY <1>20 DEF jVars
<1>. QED
  BY <1>1, <1>2, <1>3, <1>4, <1>5, <1>6, <1>7, <1>8, <1>9, <1>10, <1>11, <1>12, <1>13, <1>14, <1>15, <1>16, <1>17, <1>18, <1>19, <1>20
     DEF JNext, JHandler, RunnerStep

\* Every variable keeps its type: in particular a verdict that is written is one
\* of the ledger's statuses.
THEOREM JTypeCorrect == JSpec => []JTypeOK
<1>1. JInit => JTypeInv
  BY NameOfAssumption, CrashAssumption
     DEF JInit, JTypeInv, JTypeOK, Active, Terminal, Verdicts, Phases, Runners
<1>2. JTypeInv /\ [JNext]_jVars => JTypeInv'
  BY TypeStep
<1>3. JTypeInv => JTypeOK
  BY DEF JTypeInv
<1>. QED
  BY <1>1, <1>2, <1>3, PTL DEF JSpec

\* Only a create gives a resource an owner, and the owner is the job of that name.
LEMMA OwnerStep ==
  ASSUME JTypeOK, OwnerInv, [JNext]_jVars
  PROVE  OwnerInv'
<1> USE JobsAssumption, NameOfAssumption
      DEF JTypeOK, OwnerInv, Phases
<1>1. ASSUME NEW j \in Jobs, RunnerCreate(j) PROVE OwnerInv'
  BY <1>1 DEF RunnerCreate, JGoto
<1>2. ASSUME NEW j \in Jobs, CancelDelete(j) PROVE OwnerInv'
  BY <1>2 DEF CancelDelete
<1>3. ASSUME NEW n \in Names, JobEnds(n) PROVE OwnerInv'
  <2>1. PICK e \in {"succeeded", "failed"} :
           /\ crd' = [crd EXCEPT ![n] = [phase |-> e, by |-> crd[n].by]]
           /\ artifacts' = IF e = "succeeded" THEN artifacts \cup {crd[n].by}
                                             ELSE artifacts
    BY <1>3, EndOfJob
  <2>. QED
    BY <1>3, <2>1 DEF JobEnds
<1>4. CASE UNCHANGED <<crd, artifacts>>
  BY <1>4
<1> HIDE DEF JTypeOK, OwnerInv, Phases
<1>. QED
  BY <1>1, <1>2, <1>3, <1>4
     DEF JNext, JHandler, RunnerStep, jVars, SubmitLaneCheck, SubmitGpuCheck,
         SubmitRefused, SubmitInsert, RunnerCreateError, RunnerRefused,
         RunnerMarkRunning, RunnerTick, RunnerSeesEnd, RunnerSeesNothing,
         RunnerTimesOut, RunnerFinish, RunnerRegister, RunnerLate, CancelWrite,
         JCrash

\* A row is inserted together with its runner; it is never removed.
LEMMA RowStep ==
  ASSUME JTypeInv, JTypeOK, RowInv, StartInv, CancelInv, [JNext]_jVars
  PROVE  RowInv'
<1> USE NameOfAssumption
      DEF JTypeInv, JTypeOK, RowInv, StartInv, CancelInv, Starting, Verdicts
<1>1. ASSUME NEW j \in Jobs, SubmitLaneCheck(j, FALSE) PROVE RowInv'
  BY <1>1 DEF SubmitLaneCheck
<1>2. ASSUME NEW j \in Jobs, NEW busy \in BOOLEAN, SubmitGpuCheck(j, busy) PROVE RowInv'
  BY <1>2 DEF SubmitGpuCheck
<1>3. ASSUME NEW j \in Jobs, NEW busy \in BOOLEAN, SubmitRefused(j, busy) PROVE RowInv'
  BY <1>3 DEF SubmitRefused
<1>4. ASSUME NEW j \in Jobs, SubmitInsert(j) PROVE RowInv'
  BY <1>4 DEF SubmitInsert, JGoto
<1>5. ASSUME NEW j \in Jobs, RunnerCreate(j) PROVE RowInv'
  BY <1>5 DEF RunnerCreate, JGoto
<1>6. ASSUME NEW j \in Jobs, RunnerCreateError(j) PROVE RowInv'
  BY <1>6 DEF RunnerCreateError, JGoto
<1>7. ASSUME NEW j \in Jobs, RunnerRefused(j) PROVE RowInv'
  BY <1>7 DEF RunnerRefused, JGoto, WriteStatus
<1>8. ASSUME NEW j \in Jobs, RunnerMarkRunning(j) PROVE RowInv'
  BY <1>8 DEF RunnerMarkRunning, JGoto, WriteStatus
<1>9. ASSUME NEW j \in Jobs, RunnerTick(j) PROVE RowInv'
  BY <1>9 DEF RunnerTick, JGoto
<1>10. ASSUME NEW j \in Jobs, RunnerSeesEnd(j) PROVE RowInv'
  BY <1>10 DEF RunnerSeesEnd, JGoto
<1>11. ASSUME NEW j \in Jobs, RunnerSeesNothing(j) PROVE RowInv'
  BY <1>11 DEF RunnerSeesNothing, JGoto
<1>12. ASSUME NEW j \in Jobs, RunnerTimesOut(j) PROVE RowInv'
  BY <1>12 DEF RunnerTimesOut, JGoto
<1>13. ASSUME NEW j \in Jobs, RunnerFinish(j) PROVE RowInv'
  BY <1>13 DEF RunnerFinish, JGoto, WriteStatus
<1>14. ASSUME NEW j \in Jobs, RunnerRegister(j) PROVE RowInv'
  BY <1>14 DEF RunnerRegister, JGoto
<1>15. ASSUME NEW j \in Jobs, CancelWrite(j) PROVE RowInv'
  BY <1>15 DEF CancelWrite, WriteStatus
<1>16. CASE JCrash
  BY <1>16 DEF JCrash
<1>17. CASE UNCHANGED <<status, runner, request>>
  BY <1>17
<1> HIDE DEF JTypeInv, JTypeOK, RowInv, StartInv, CancelInv, Starting, Verdicts
<1>. QED
  BY <1>1, <1>2, <1>3, <1>4, <1>5, <1>6, <1>7, <1>8, <1>9, <1>10, <1>11, <1>12, <1>13, <1>14, <1>15, <1>16, <1>17
     DEF JNext, JHandler, RunnerStep, jVars, RunnerLate, CancelDelete, JobEnds

\* Nobody but the runner touches a job that has not started: its name is its own
\* and its row cannot be cancelled.
LEMMA StartStep ==
  ASSUME Disciplined, JTypeOK, OwnerInv, RowInv, StartInv, CancelInv, [JNext]_jVars
  PROVE  StartInv'
<1> USE NameOfAssumption
      DEF Disciplined, JTypeOK, OwnerInv, RowInv, StartInv, CancelInv, Starting
<1>1. ASSUME NEW j \in Jobs, SubmitInsert(j) PROVE StartInv'
  BY <1>1 DEF SubmitInsert, JGoto
<1>2. ASSUME NEW j \in Jobs, RunnerCreate(j) PROVE StartInv'
  BY <1>2 DEF RunnerCreate, JGoto
<1>3. ASSUME NEW j \in Jobs, RunnerCreateError(j) PROVE StartInv'
  BY <1>3 DEF RunnerCreateError, JGoto
<1>4. ASSUME NEW j \in Jobs, RunnerRefused(j) PROVE StartInv'
  BY <1>4 DEF RunnerRefused, JGoto, WriteStatus
<1>5. ASSUME NEW j \in Jobs, RunnerMarkRunning(j) PROVE StartInv'
  BY <1>5 DEF RunnerMarkRunning, JGoto, WriteStatus
<1>6. ASSUME NEW j \in Jobs, RunnerTick(j) PROVE StartInv'
  BY <1>6 DEF RunnerTick, JGoto
<1>7. ASSUME NEW j \in Jobs, RunnerSeesEnd(j) PROVE StartInv'
  BY <1>7 DEF RunnerSeesEnd, JGoto
<1>8. ASSUME NEW j \in Jobs, RunnerSeesNothing(j) PROVE StartInv'
  BY <1>8 DEF RunnerSeesNothing, JGoto
<1>9. ASSUME NEW j \in Jobs, RunnerTimesOut(j) PROVE StartInv'
  BY <1>9 DEF RunnerTimesOut, JGoto
<1>10. ASSUME NEW j \in Jobs, RunnerFinish(j) PROVE StartInv'
  BY <1>10 DEF RunnerFinish, JGoto, WriteStatus
<1>11. ASSUME NEW j \in Jobs, RunnerRegister(j) PROVE StartInv'
  BY <1>11 DEF RunnerRegister, JGoto
<1>12. ASSUME NEW j \in Jobs, CancelDelete(j) PROVE StartInv'
  BY <1>12 DEF CancelDelete
<1>13. ASSUME NEW j \in Jobs, CancelWrite(j) PROVE StartInv'
  BY <1>13 DEF CancelWrite, WriteStatus
<1>14. ASSUME NEW n \in Names, JobEnds(n) PROVE StartInv'
  <2>1. PICK e \in {"succeeded", "failed"} :
           /\ crd' = [crd EXCEPT ![n] = [phase |-> e, by |-> crd[n].by]]
           /\ artifacts' = IF e = "succeeded" THEN artifacts \cup {crd[n].by}
                                             ELSE artifacts
    BY <1>14, EndOfJob
  <2>. QED
    BY <1>14, <2>1 DEF JobEnds
<1>15. CASE JCrash
  BY <1>15 DEF JCrash
<1>16. CASE UNCHANGED <<runner, crd, status>>
  BY <1>16
<1> HIDE DEF Disciplined, JTypeOK, OwnerInv, RowInv, StartInv, CancelInv, Starting
<1>. QED
  BY <1>1, <1>2, <1>3, <1>4, <1>5, <1>6, <1>7, <1>8, <1>9, <1>10, <1>11, <1>12, <1>13, <1>14, <1>15, <1>16
     DEF JNext, JHandler, RunnerStep, jVars, SubmitLaneCheck, SubmitGpuCheck,
         SubmitRefused, RunnerLate

\* A deleted resource is not created again: its runner is past the create.
LEMMA CancelStep ==
  ASSUME Disciplined, JTypeOK, RowInv, StartInv, CancelInv, [JNext]_jVars
  PROVE  CancelInv'
<1> USE NameOfAssumption, CancelAssumption
      DEF Disciplined, JTypeOK, RowInv, StartInv, CancelInv, Starting, Training, Active, Terminal, Verdicts
<1>1. ASSUME NEW j \in Jobs, SubmitInsert(j) PROVE CancelInv'
  BY <1>1 DEF SubmitInsert, JGoto
<1>2. ASSUME NEW j \in Jobs, RunnerCreate(j) PROVE CancelInv'
  BY <1>2 DEF RunnerCreate, JGoto
<1>3. ASSUME NEW j \in Jobs, RunnerCreateError(j) PROVE CancelInv'
  BY <1>3 DEF RunnerCreateError, JGoto
<1>4. ASSUME NEW j \in Jobs, RunnerRefused(j) PROVE CancelInv'
  BY <1>4 DEF RunnerRefused, JGoto, WriteStatus
<1>5. ASSUME NEW j \in Jobs, RunnerMarkRunning(j) PROVE CancelInv'
  BY <1>5 DEF RunnerMarkRunning, JGoto, WriteStatus
<1>6. ASSUME NEW j \in Jobs, RunnerTick(j) PROVE CancelInv'
  BY <1>6 DEF RunnerTick, JGoto
<1>7. ASSUME NEW j \in Jobs, RunnerSeesEnd(j) PROVE CancelInv'
  BY <1>7 DEF RunnerSeesEnd, JGoto
<1>8. ASSUME NEW j \in Jobs, RunnerSeesNothing(j) PROVE CancelInv'
  BY <1>8 DEF RunnerSeesNothing, JGoto
<1>9. ASSUME NEW j \in Jobs, RunnerTimesOut(j) PROVE CancelInv'
  BY <1>9 DEF RunnerTimesOut, JGoto
<1>10. ASSUME NEW j \in Jobs, RunnerFinish(j) PROVE CancelInv'
  BY <1>10 DEF RunnerFinish, JGoto, WriteStatus
<1>11. ASSUME NEW j \in Jobs, RunnerRegister(j) PROVE CancelInv'
  BY <1>11 DEF RunnerRegister, JGoto
<1>12. ASSUME NEW j \in Jobs, CancelDelete(j) PROVE CancelInv'
  BY <1>12 DEF CancelDelete
<1>13. ASSUME NEW j \in Jobs, CancelWrite(j) PROVE CancelInv'
  BY <1>13 DEF CancelWrite, WriteStatus
<1>14. ASSUME NEW n \in Names, JobEnds(n) PROVE CancelInv'
  <2>1. PICK e \in {"succeeded", "failed"} :
           /\ crd' = [crd EXCEPT ![n] = [phase |-> e, by |-> crd[n].by]]
           /\ artifacts' = IF e = "succeeded" THEN artifacts \cup {crd[n].by}
                                             ELSE artifacts
    BY <1>14, EndOfJob
  <2>. QED
    BY <1>14, <2>1 DEF JobEnds
<1>15. CASE JCrash
  BY <1>15 DEF JCrash
<1>16. CASE UNCHANGED <<cancelling, status, runner, crd>>
  BY <1>16
<1> HIDE DEF Disciplined, JTypeOK, RowInv, StartInv, CancelInv, Starting, Training, Active, Terminal, Verdicts
<1>. QED
  BY <1>1, <1>2, <1>3, <1>4, <1>5, <1>6, <1>7, <1>8, <1>9, <1>10, <1>11, <1>12, <1>13, <1>14, <1>15, <1>16
     DEF JNext, JHandler, RunnerStep, jVars, SubmitLaneCheck, SubmitGpuCheck,
         SubmitRefused, RunnerLate

\* A verdict is read from the job's own resource, after which it trains no more.
LEMMA VerdictStep ==
  ASSUME Disciplined, JTypeOK, OwnerInv, RowInv, StartInv, VerdictInv, [JNext]_jVars
  PROVE  VerdictInv'
<1> USE NameOfAssumption, JobsAssumption
      DEF Disciplined, JTypeOK, OwnerInv, RowInv, StartInv, VerdictInv, Starting, Training
<1>1. ASSUME NEW j \in Jobs, SubmitInsert(j) PROVE VerdictInv'
  BY <1>1 DEF SubmitInsert, JGoto
<1>2. ASSUME NEW j \in Jobs, RunnerCreate(j) PROVE VerdictInv'
  BY <1>2 DEF RunnerCreate, JGoto
<1>3. ASSUME NEW j \in Jobs, RunnerCreateError(j) PROVE VerdictInv'
  BY <1>3 DEF RunnerCreateError, JGoto
<1>4. ASSUME NEW j \in Jobs, RunnerRefused(j) PROVE VerdictInv'
  BY <1>4 DEF RunnerRefused, JGoto, WriteStatus
<1>5. ASSUME NEW j \in Jobs, RunnerMarkRunning(j) PROVE VerdictInv'
  BY <1>5 DEF RunnerMarkRunning, JGoto, WriteStatus
<1>6. ASSUME NEW j \in Jobs, RunnerTick(j) PROVE VerdictInv'
  BY <1>6 DEF RunnerTick, JGoto
<1>7. ASSUME NEW j \in Jobs, RunnerSeesEnd(j) PROVE VerdictInv'
  BY <1>7 DEF RunnerSeesEnd, JGoto
<1>8. ASSUME NEW j \in Jobs, RunnerSeesNothing(j) PROVE VerdictInv'
  BY <1>8 DEF RunnerSeesNothing, JGoto
<1>9. ASSUME NEW j \in Jobs, RunnerTimesOut(j) PROVE VerdictInv'
  BY <1>9 DEF RunnerTimesOut, JGoto
<1>10. ASSUME NEW j \in Jobs, RunnerFinish(j) PROVE VerdictInv'
  BY <1>10 DEF RunnerFinish, JGoto, WriteStatus
<1>11. ASSUME NEW j \in Jobs, RunnerRegister(j) PROVE VerdictInv'
  BY <1>11 DEF RunnerRegister, JGoto
<1>12. ASSUME NEW j \in Jobs, RunnerLate(j) PROVE VerdictInv'
  BY <1>12 DEF RunnerLate
<1>13. ASSUME NEW j \in Jobs, CancelDelete(j) PROVE VerdictInv'
  BY <1>13 DEF CancelDelete
<1>14. ASSUME NEW j \in Jobs, CancelWrite(j) PROVE VerdictInv'
  BY <1>14 DEF CancelWrite, WriteStatus
<1>15. ASSUME NEW n \in Names, JobEnds(n) PROVE VerdictInv'
  <2>1. PICK e \in {"succeeded", "failed"} :
           /\ crd' = [crd EXCEPT ![n] = [phase |-> e, by |-> crd[n].by]]
           /\ artifacts' = IF e = "succeeded" THEN artifacts \cup {crd[n].by}
                                             ELSE artifacts
    BY <1>15, EndOfJob
  <2>. QED
    BY <1>15, <2>1 DEF JobEnds
<1>16. CASE JCrash
  BY <1>16 DEF JCrash
<1>17. CASE UNCHANGED <<verdict, artifacts, runner, crd, late, status>>
  BY <1>17
<1> HIDE DEF Disciplined, JTypeOK, OwnerInv, RowInv, StartInv, VerdictInv, Starting, Training
<1>. QED
  BY <1>1, <1>2, <1>3, <1>4, <1>5, <1>6, <1>7, <1>8, <1>9, <1>10, <1>11, <1>12, <1>13, <1>14, <1>15, <1>16, <1>17
     DEF JNext, JHandler, RunnerStep, jVars, SubmitLaneCheck, SubmitGpuCheck,
         SubmitRefused

\* A row leaves the active statuses only when its resource is gone or given up.
LEMMA VisibleStep ==
  ASSUME Disciplined, JTypeOK, StartInv, CancelInv, VerdictInv, TrainingIsVisible, [JNext]_jVars
  PROVE  TrainingIsVisible'
<1> USE NameOfAssumption
      DEF Disciplined, JTypeOK, StartInv, CancelInv, VerdictInv, TrainingIsVisible, Starting, Training, Active
<1>1. ASSUME NEW j \in Jobs, SubmitInsert(j) PROVE TrainingIsVisible'
  BY <1>1 DEF SubmitInsert, JGoto
<1>2. ASSUME NEW j \in Jobs, RunnerCreate(j) PROVE TrainingIsVisible'
  BY <1>2 DEF RunnerCreate, JGoto
<1>3. ASSUME NEW j \in Jobs, RunnerRefused(j) PROVE TrainingIsVisible'
  BY <1>3 DEF RunnerRefused, JGoto, WriteStatus
<1>4. ASSUME NEW j \in Jobs, RunnerMarkRunning(j) PROVE TrainingIsVisible'
  BY <1>4 DEF RunnerMarkRunning, JGoto, WriteStatus
<1>5. ASSUME NEW j \in Jobs, RunnerFinish(j) PROVE TrainingIsVisible'
  BY <1>5 DEF RunnerFinish, JGoto, WriteStatus
<1>6. ASSUME NEW j \in Jobs, RunnerLate(j) PROVE TrainingIsVisible'
  BY <1>6 DEF RunnerLate
<1>7. ASSUME NEW j \in Jobs, CancelDelete(j) PROVE TrainingIsVisible'
  BY <1>7 DEF CancelDelete
<1>8. ASSUME NEW j \in Jobs, CancelWrite(j) PROVE TrainingIsVisible'
  BY <1>8 DEF CancelWrite, WriteStatus
<1>9. ASSUME NEW n \in Names, JobEnds(n) PROVE TrainingIsVisible'
  <2>1. PICK e \in {"succeeded", "failed"} :
           /\ crd' = [crd EXCEPT ![n] = [phase |-> e, by |-> crd[n].by]]
           /\ artifacts' = IF e = "succeeded" THEN artifacts \cup {crd[n].by}
                                             ELSE artifacts
    BY <1>9, EndOfJob
  <2>. QED
    BY <1>9, <2>1 DEF JobEnds
<1>10. CASE UNCHANGED <<crd, status, late>>
  BY <1>10
<1> HIDE DEF Disciplined, JTypeOK, StartInv, CancelInv, VerdictInv, TrainingIsVisible, Starting, Training, Active
<1>. QED
  BY <1>1, <1>2, <1>3, <1>4, <1>5, <1>6, <1>7, <1>8, <1>9, <1>10
     DEF JNext, JHandler, RunnerStep, jVars, SubmitLaneCheck, SubmitGpuCheck,
         SubmitRefused, RunnerCreateError, RunnerTick, RunnerSeesEnd,
         RunnerSeesNothing, RunnerTimesOut, RunnerRegister, JCrash

\* A create needs a pending row, and so does every write of 'running'.
LEMMA GoneStep ==
  ASSUME Disciplined, JTypeOK, StartInv, CancelInv, VerdictInv, CancelledIsGone, [JNext]_jVars
  PROVE  CancelledIsGone'
<1> USE NameOfAssumption
      DEF Disciplined, JTypeOK, StartInv, CancelInv, VerdictInv, CancelledIsGone, Starting, Training
<1>1. ASSUME NEW j \in Jobs, SubmitInsert(j) PROVE CancelledIsGone'
  BY <1>1 DEF SubmitInsert, JGoto
<1>2. ASSUME NEW j \in Jobs, RunnerCreate(j) PROVE CancelledIsGone'
  BY <1>2 DEF RunnerCreate, JGoto
<1>3. ASSUME NEW j \in Jobs, RunnerRefused(j) PROVE CancelledIsGone'
  BY <1>3 DEF RunnerRefused, JGoto, WriteStatus
<1>4. ASSUME NEW j \in Jobs, RunnerMarkRunning(j) PROVE CancelledIsGone'
  BY <1>4 DEF RunnerMarkRunning, JGoto, WriteStatus
<1>5. ASSUME NEW j \in Jobs, RunnerFinish(j) PROVE CancelledIsGone'
  BY <1>5 DEF RunnerFinish, JGoto, WriteStatus
<1>6. ASSUME NEW j \in Jobs, CancelDelete(j) PROVE CancelledIsGone'
  BY <1>6 DEF CancelDelete
<1>7. ASSUME NEW j \in Jobs, CancelWrite(j) PROVE CancelledIsGone'
  BY <1>7 DEF CancelWrite, WriteStatus
<1>8. ASSUME NEW n \in Names, JobEnds(n) PROVE CancelledIsGone'
  <2>1. PICK e \in {"succeeded", "failed"} :
           /\ crd' = [crd EXCEPT ![n] = [phase |-> e, by |-> crd[n].by]]
           /\ artifacts' = IF e = "succeeded" THEN artifacts \cup {crd[n].by}
                                             ELSE artifacts
    BY <1>8, EndOfJob
  <2>. QED
    BY <1>8, <2>1 DEF JobEnds
<1>9. CASE UNCHANGED <<crd, status>>
  BY <1>9
<1> HIDE DEF Disciplined, JTypeOK, StartInv, CancelInv, VerdictInv, CancelledIsGone, Starting, Training
<1>. QED
  BY <1>1, <1>2, <1>3, <1>4, <1>5, <1>6, <1>7, <1>8, <1>9
     DEF JNext, JHandler, RunnerStep, jVars, SubmitLaneCheck, SubmitGpuCheck,
         SubmitRefused, RunnerCreateError, RunnerTick, RunnerSeesEnd,
         RunnerSeesNothing, RunnerTimesOut, RunnerRegister, RunnerLate, JCrash

\* Only a verdict read from the job's own success registers its output.
LEMMA RegisteredStep ==
  ASSUME JTypeOK, VerdictInv, RegisteredHasArtifact, [JNext]_jVars
  PROVE  RegisteredHasArtifact'
<1> USE NameOfAssumption
      DEF JTypeOK, VerdictInv, RegisteredHasArtifact
<1>1. ASSUME NEW j \in Jobs, RunnerRegister(j) PROVE RegisteredHasArtifact'
  BY <1>1 DEF RunnerRegister, JGoto
<1>2. ASSUME NEW n \in Names, JobEnds(n) PROVE RegisteredHasArtifact'
  <2>1. PICK e \in {"succeeded", "failed"} :
           /\ crd' = [crd EXCEPT ![n] = [phase |-> e, by |-> crd[n].by]]
           /\ artifacts' = IF e = "succeeded" THEN artifacts \cup {crd[n].by}
                                             ELSE artifacts
    BY <1>2, EndOfJob
  <2>. QED
    BY <1>2, <2>1 DEF JobEnds
<1>3. CASE UNCHANGED <<registered, artifacts>>
  BY <1>3
<1> HIDE DEF JTypeOK, VerdictInv, RegisteredHasArtifact
<1>. QED
  BY <1>1, <1>2, <1>3
     DEF JNext, JHandler, RunnerStep, jVars, SubmitLaneCheck, SubmitGpuCheck,
         SubmitRefused, SubmitInsert, RunnerCreate, RunnerCreateError,
         RunnerRefused, RunnerMarkRunning, RunnerTick, RunnerSeesEnd,
         RunnerSeesNothing, RunnerTimesOut, RunnerFinish, RunnerLate,
         CancelDelete, CancelWrite, JCrash

\* The invariant is inductive in disciplined use.
LEMMA InvStep ==
  ASSUME Disciplined, JInv, [JNext]_jVars
  PROVE  JInv'
<1>1. JTypeOK
  BY DEF JInv, JTypeInv
<1>. QED
  BY <1>1, TypeStep, OwnerStep, RowStep, StartStep, CancelStep, VerdictStep,
     VisibleStep, GoneStep, RegisteredStep DEF JInv

\* A platform that has just started has no job.
LEMMA JInitHolds == JInit => JInv
  BY NameOfAssumption, CrashAssumption, JobsAssumption
     DEF JInit, JInv, JTypeInv, JTypeOK, Active, Terminal, Verdicts, Phases, Runners,
         OwnerInv, RowInv, StartInv, CancelInv, VerdictInv, TrainingIsVisible,
         CancelledIsGone, RegisteredHasArtifact, Training, Starting

\* The inductive invariant holds throughout.
LEMMA InvHolds == ASSUME Disciplined PROVE JSpec => []JInv
  BY JInitHolds, InvStep, PTL DEF JSpec

\* The ledger never loses sight of a training pod before the runner's deadline, a
\* cancelled job holds no GPU, and every registered model version has the adapter
\* that its own training wrote.
THEOREM JTraining == ASSUME Disciplined PROVE JSpec => []TrainingInv
<1>1. JInv => TrainingInv
  BY DEF JInv, TrainingInv
<1>. QED
  BY <1>1, InvHolds, PTL

\* A row that ended stays ended, although nobody who writes it looks first.
THEOREM JEnded == ASSUME Disciplined PROVE JSpec => EndedStaysEnded
<1> DEFINE Kept ==
      \A j \in Jobs :
        /\ status[j] = "cancelled" => status'[j] \in Terminal
        /\ status[j] \in {"succeeded", "failed"} => status'[j] \in {status[j], "cancelled"}
<1>1. ASSUME JInv, [JNext]_jVars PROVE Kept
  <2> USE DEF JInv, JTypeInv, JTypeOK, RowInv, StartInv, VerdictInv, Starting, Terminal
  <2>1. ASSUME NEW j \in Jobs, SubmitInsert(j) PROVE Kept
    BY <1>1, <2>1 DEF SubmitInsert
  <2>2. ASSUME NEW j \in Jobs, RunnerRefused(j) PROVE Kept
    BY <1>1, <2>2 DEF RunnerRefused, WriteStatus
  <2>3. ASSUME NEW j \in Jobs, RunnerMarkRunning(j) PROVE Kept
    BY <1>1, <2>3 DEF RunnerMarkRunning, WriteStatus
  <2>4. ASSUME NEW j \in Jobs, RunnerFinish(j) PROVE Kept
    BY <1>1, <2>4 DEF RunnerFinish, WriteStatus
  <2>5. ASSUME NEW j \in Jobs, CancelWrite(j) PROVE Kept
    BY <1>1, <2>5 DEF CancelWrite, WriteStatus
  <2>6. CASE UNCHANGED status
    BY <1>1, <2>6
  <2> HIDE DEF Kept, JInv, JTypeInv, JTypeOK, RowInv, StartInv, VerdictInv
  <2>. QED
    BY <1>1, <2>1, <2>2, <2>3, <2>4, <2>5, <2>6
       DEF JNext, JHandler, RunnerStep, jVars, SubmitLaneCheck, SubmitGpuCheck,
           SubmitRefused, RunnerCreate, RunnerCreateError, RunnerTick, RunnerSeesEnd,
           RunnerSeesNothing, RunnerTimesOut, RunnerRegister, RunnerLate, CancelDelete,
           JobEnds, JCrash
<1>2. JInv /\ [JNext]_jVars => [Kept]_status
  BY <1>1
<1>. QED
  BY <1>2, InvHolds, PTL DEF JSpec, EndedStaysEnded

--------------------------------------------------------------------------------
(* Benchmarks: any number of them of any size, as long as nobody cancels a run *)
(* whose row still says 'queued': such a cancellation may come before the      *)
(* run's cancel function has been stored.                                      *)

StartedOnly == "queued" \notin BCancelFrom

\* A row is absent, then queued, until its goroutine starts; nobody cancels it,
\* nor tells it to stop, before.
BStartInv ==
  \A r \in Runs :
    /\ bRequest[r] \in {"lane", "checked"} => bStatus[r] = "absent"
    /\ bRequest[r] = "inserted" => bStatus[r] = "queued" /\ bRunner[r] = "none"
    /\ bStatus[r] = "absent" => bRunner[r] = "none"
    /\ bRunner[r] = "none" =>
         /\ bStatus[r] \in {"absent", "queued"} /\ bCancel[r] = "idle"
         /\ r \notin ctxDone

\* Until a runner has finished its matrix, its row is active or it has been told
\* to stop; only one that was told to stop has cut a scenario short.
BLoopInv ==
  \A r \in Runs :
    /\ bRunner[r] \in {"starting", "marking", "loop", "scenario"}
         => bStatus[r] \in BActive \/ r \in ctxDone
    /\ bRunner[r] = "scenario" => done[r] < Scenarios
    /\ r \in cut => r \in ctxDone

\* What is about to be recorded as completed has measured everything, and what
\* has been recorded so is not measured any more.
BWholeInv ==
  \A r \in Runs :
    /\ bRunner[r] \in {"report", "completing"} => done[r] = Scenarios /\ r \notin cut
    /\ bStatus[r] = "completed" =>
         bRunner[r] \in {"exit", "done"} /\ done[r] = Scenarios /\ r \notin cut

BMapInv == \A r \in Runs : r \in cancels <=> Live(r)

BInv == BTypeOK /\ BStartInv /\ BLoopInv /\ BWholeInv /\ BMapInv /\ CancelReachesRunner

--------------------------------------------------------------------------------
\* The requests of clients.
LEMMA BHandlerStep ==
  ASSUME StartedOnly, BInv, NEW r \in Runs, BHandler(r)
  PROVE  BInv'
<1> USE DEF BInv, BActive, BTerminal
<1>1. ASSUME NEW ready \in BOOLEAN, CreateLaneCheck(r, FALSE) \/ CreateEndpointCheck(r, ready) \/ CreateRefused(r, ready)
      PROVE  BInv'
  BY <1>1 DEF CreateLaneCheck, CreateEndpointCheck, CreateRefused, BTypeOK, BStartInv, BLoopInv, BWholeInv,
              BMapInv, CancelReachesRunner, Live
<1>2. CASE CreateInsert(r)
  BY <1>2 DEF CreateInsert, BTypeOK, BStartInv, BLoopInv, BWholeInv, BMapInv, CancelReachesRunner, Live
<1>3. CASE CreateLaunch(r)
  BY <1>3 DEF CreateLaunch, BGoto, BRunners, BTypeOK, BStartInv, BLoopInv, BWholeInv, BMapInv, CancelReachesRunner, Live
<1>4. CASE CancelRead(r)
  BY <1>4 DEF CancelRead, StartedOnly, BTypeOK, BStartInv, BLoopInv, BWholeInv, BMapInv, CancelReachesRunner, Live
<1>5. CASE CancelFire(r)
  BY <1>5 DEF CancelFire, BTypeOK, BStartInv, BLoopInv, BWholeInv, BMapInv, CancelReachesRunner, Live
<1>6. CASE BCancelWrite(r)
  BY <1>6 DEF BCancelWrite, BWrite, BTypeOK, BStartInv, BLoopInv, BWholeInv, BMapInv, CancelReachesRunner, Live
<1>7. CASE CancelDisconnect(r)
  BY <1>7 DEF CancelDisconnect, BTypeOK, BStartInv, BLoopInv, BWholeInv, BMapInv, CancelReachesRunner, Live
<1>. QED
  BY <1>1, <1>2, <1>3, <1>4, <1>5, <1>6, <1>7 DEF BHandler

\* The goroutine of a run, and its panic.
LEMMA BRunnerStepHolds ==
  ASSUME BInv, NEW r \in Runs, BRunnerStep(r) \/ Panic(r)
  PROVE  BInv'
<1> USE ScenariosAssumption DEF BInv, BActive, BTerminal, BRunners, BGoto, CtxErr
<1>1. CASE BRunnerStart(r) \/ LoopCancelled(r) \/ ScenarioStart(r) \/ LoopFinished(r) \/ SendCompleted(r)
  <2>1. UNCHANGED <<bRequest, bStatus, cancels, ctxDone, done, cut, bCancel, bCrashes>>
    BY <1>1 DEF BRunnerStart, LoopCancelled, ScenarioStart, LoopFinished, SendCompleted
  <2>2. \/ bRunner[r] = "starting" /\ bRunner' = [bRunner EXCEPT ![r] = "loop"]
        \/ bRunner[r] = "starting" /\ bRunner' = [bRunner EXCEPT ![r] = "marking"]
        \/ bRunner[r] = "loop" /\ bRunner' = [bRunner EXCEPT ![r] = "stopping"]
        \/ bRunner[r] = "loop" /\ done[r] < Scenarios /\ bRunner' = [bRunner EXCEPT ![r] = "scenario"]
        \/ bRunner[r] = "loop" /\ done[r] = Scenarios /\ r \notin ctxDone
           /\ bRunner' = [bRunner EXCEPT ![r] = "report"]
        \/ bRunner[r] = "report" /\ bRunner' = [bRunner EXCEPT ![r] = "exit"]
        \/ bRunner[r] = "report" /\ bRunner' = [bRunner EXCEPT ![r] = "completing"]
    BY <1>1 DEF BRunnerStart, LoopCancelled, ScenarioStart, LoopFinished, SendCompleted
  <2>. QED
    BY <2>1, <2>2 DEF BTypeOK, BStartInv, BLoopInv, BWholeInv, BMapInv, CancelReachesRunner, Live
<1>2. CASE BRunnerMarked(r)
  BY <1>2 DEF BRunnerMarked, BLand, BWrite, BTypeOK, BStartInv, BLoopInv, BWholeInv, BMapInv,
              CancelReachesRunner, Live
<1>3. CASE ScenarioEnd(r)
  BY <1>3 DEF ScenarioEnd, BTypeOK, BStartInv, BLoopInv, BWholeInv, BMapInv, CancelReachesRunner, Live
<1>4. CASE FinishCancelled(r)
  BY <1>4 DEF FinishCancelled, BWrite, BTypeOK, BStartInv, BLoopInv, BWholeInv, BMapInv,
              CancelReachesRunner, Live
<1>5. CASE Completed(r)
  BY <1>5 DEF Completed, BLand, BWrite, BTypeOK, BStartInv, BLoopInv, BWholeInv, BMapInv,
              CancelReachesRunner, Live
<1>6. CASE Panic(r)
  BY <1>6 DEF Panic, BWrite, BTypeOK, BStartInv, BLoopInv, BWholeInv, BMapInv, CancelReachesRunner, Live
<1>7. CASE BRunnerExit(r)
  BY <1>7 DEF BRunnerExit, BTypeOK, BStartInv, BLoopInv, BWholeInv, BMapInv, CancelReachesRunner, Live
<1>. QED
  BY <1>1, <1>2, <1>3, <1>4, <1>5, <1>6, <1>7 DEF BRunnerStep

\* A restart: what was executing is gone, the map with it.
LEMMA BCrashHolds == ASSUME BInv, BCrash PROVE BInv'
  BY BCrashAssumption
     DEF BCrash, BInv, BRunners, BTypeOK, BStartInv, BLoopInv, BWholeInv, BMapInv,
         CancelReachesRunner, Live

\* A service that has just started has no run and no runner.
LEMMA BInitHolds == BInit => BInv
  BY ScenariosAssumption, BCrashAssumption
     DEF BInit, BInv, BRunners, BTypeOK, BStartInv, BLoopInv, BWholeInv, BMapInv,
         CancelReachesRunner, Live

\* In every state of every behaviour the row of a benchmark, the map of cancel
\* functions and the goroutine agree (benchmark_handlers.go, benchmark_runner.go):
\* a completed run measured its whole matrix, load is visible, and the map holds
\* the live runs.
THEOREM BenchmarkHolds == ASSUME StartedOnly PROVE BSpec => [](BTypeOK /\ BenchmarkInv)
<1>1. BInit => BInv
  BY BInitHolds
<1>2. BInv /\ [BNext]_bVars => BInv'
  <2>1. CASE UNCHANGED bVars
    BY <2>1 DEF bVars, BInv, BTypeOK, BStartInv, BLoopInv, BWholeInv, BMapInv,
                CancelReachesRunner, Live
  <2>. QED
    BY <2>1, BHandlerStep, BRunnerStepHolds, BCrashHolds DEF BNext
<1>3. BInv => BTypeOK /\ BenchmarkInv
  <2>1. BInv => cancels = {r \in Runs : Live(r)}
    BY DEF BInv, BTypeOK, BMapInv
  <2>. QED
    BY <2>1 DEF BInv, BLoopInv, BWholeInv, BenchmarkInv, CompletedIsWhole, LoadIsVisible, Loading,
                CancelsAreLive
<1>. QED
  BY <1>1, <1>2, <1>3, PTL DEF BSpec
================================================================================
