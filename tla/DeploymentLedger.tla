--------------------------- MODULE DeploymentLedger ---------------------------
(***************************************************************************)
(* What the page of deployments promises, without polls, faults and the    *)
(* cluster's own steps.  A workload changes its image only on behalf of a  *)
(* rollout at work on it: to what was asked for, once, and from then back  *)
(* to what the rollout had found, once; never after its verdict.  A        *)
(* rollback is a rollout to what the one it undoes had found, and begins   *)
(* when that one has been marked.                                          *)
(*                                                                         *)
(* Of the status of a row it promises little: anybody may judge a row that *)
(* is there, as often as he likes, also one that is still at work, and     *)
(* whoever comes last is believed.                                         *)
(***************************************************************************)
CONSTANTS Rows, Workloads, Images, None

VARIABLES
  status, place, asked, kept, undoes,  \* each row: what it says of its rollout
  at, found,                           \* each rollout: how far it is
  image                                \* each workload

said       == <<place, asked, undoes>>
ledgerVars == <<status, kept, said, at, found, image>>

LedgerInit ==
  /\ status = [d \in Rows |-> "absent"] /\ at = [d \in Rows |-> "none"]
  /\ place = [d \in Rows |-> None] /\ asked = place /\ kept = place
  /\ undoes = place /\ found = place
  /\ image \in [Workloads -> Images]

--------------------------------------------------------------------------------
\* A record without a rollout.
BeginRecord(d) ==
  /\ status[d] = "absent"
  /\ status' = [status EXCEPT ![d] = "running"]
  /\ UNCHANGED <<kept, said, at, found, image>>

Begin(d, w, i, stage) ==
  /\ status[d] = "absent"
  /\ status' = [status EXCEPT ![d] = "running"]
  /\ place' = [place EXCEPT ![d] = w] /\ asked' = [asked EXCEPT ![d] = i]
  /\ at' = [at EXCEPT ![d] = stage]
  /\ UNCHANGED <<kept, found, image>>

BeginRollout(d, w, i) == Begin(d, w, i, "waiting") /\ UNCHANGED undoes

\* A rollback deploys what the other had found, where that one was at work.
BeginUndo(o, d) ==
  /\ status[o] # "absent" /\ kept[o] # None
  /\ Begin(d, place[o], kept[o], "marking")
  /\ undoes' = [undoes EXCEPT ![d] = o]

\* The rollback of a record: both rows in one transaction.
UndoRecord(o, d) ==
  /\ status[o] # "absent" /\ place[o] = None /\ status[d] = "absent"
  /\ status' = [status EXCEPT ![o] = "rolled_back", ![d] = "running"]
  /\ UNCHANGED <<kept, said, at, found, image>>

\* Nothing is written to the cluster before the old row has been marked.
Mark(d) ==
  /\ at[d] = "marking" /\ at' = [at EXCEPT ![d] = "waiting"]
  /\ status' = [status EXCEPT ![undoes[d]] = "rolled_back"]
  /\ UNCHANGED <<kept, said, found, image>>

\* By hand.
Judge(d) ==
  /\ status[d] # "absent"
  /\ \E s \in {"success", "failed"} : status' = [status EXCEPT ![d] = s]
  /\ UNCHANGED <<kept, said, at, found, image>>

--------------------------------------------------------------------------------
Look(d) ==
  /\ at[d] = "waiting" /\ at' = [at EXCEPT ![d] = "looked"]
  /\ found' = [found EXCEPT ![d] = image[place[d]]]
  /\ UNCHANGED <<status, kept, said, image>>

Deploy(d) ==
  /\ at[d] = "looked" /\ \E stage \in {"deployed", "over"} : at' = [at EXCEPT ![d] = stage]
  /\ image' = [image EXCEPT ![place[d]] = asked[d]]
  /\ UNCHANGED <<status, kept, said, found>>

Keep(d) ==
  /\ at[d] = "deployed" /\ kept' = [kept EXCEPT ![d] = found[d]]
  /\ UNCHANGED <<status, said, at, found, image>>

\* Put back, or left as it is; what had been found may be kept only now.
Restore(d) ==
  /\ at[d] = "deployed" /\ at' = [at EXCEPT ![d] = "over"]
  /\ \/ image' = [image EXCEPT ![place[d]] = found[d]]
     \/ UNCHANGED image
  /\ \/ kept' = [kept EXCEPT ![d] = found[d]]
     \/ UNCHANGED kept
  /\ UNCHANGED <<status, said, found>>

GiveUp(d) ==
  /\ at[d] \in {"waiting", "looked"} /\ at' = [at EXCEPT ![d] = "over"]
  /\ UNCHANGED <<status, kept, said, found, image>>

\* These rollouts write nothing any more.
Retire(gone) ==
  /\ at' = [d \in Rows |-> IF d \in gone THEN "none" ELSE at[d]]
  /\ found' = [d \in Rows |-> IF d \in gone THEN None ELSE found[d]]
  /\ UNCHANGED <<kept, said, image>>

\* Success is what is still deployed; whoever gives up has failed.
Close(d) ==
  /\ \/ at[d] = "deployed" /\ status' = [status EXCEPT ![d] = "success"]
     \/ at[d] \notin {"none", "marking"} /\ status' = [status EXCEPT ![d] = "failed"]
  /\ Retire({d})

\* The server restarts, or the verdict cannot be written.
Die == UNCHANGED status /\ \E gone \in SUBSET {d \in Rows : at[d] # "none"} : Retire(gone)

LedgerNext ==
  \/ Die
  \/ \E d \in Rows : Look(d) \/ Deploy(d) \/ Keep(d) \/ Restore(d) \/ GiveUp(d) \/ Close(d)
  \/ \E d \in Rows : BeginRecord(d) \/ Mark(d) \/ Judge(d)
  \/ \E o, d \in Rows : BeginUndo(o, d) \/ UndoRecord(o, d)
  \/ \E d \in Rows, w \in Workloads, i \in Images : BeginRollout(d, w, i)

LedgerSpec == LedgerInit /\ [][LedgerNext]_ledgerVars
================================================================================
