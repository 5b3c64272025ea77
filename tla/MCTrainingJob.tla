----------------------------- MODULE MCTrainingJob -----------------------------
(* A small instance of TrainingJob. *)
EXTENDS TrainingJob, TLC

CONSTANTS j1, j2, n1, n2

OwnNames    == j1 :> n1 @@ j2 :> n2
OwnVersions == j1 :> "v1" @@ j2 :> "v2"
================================================================================
