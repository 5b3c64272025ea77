------------------------------- MODULE MCGpuLane -------------------------------
(* Small instances of GpuLane: one direct start of the runtime, one training     *)
(* job, one release and one benchmark.                                           *)
EXTENDS GpuLane, TLC

CONSTANTS j1, n1, b1, m1, a, c1, c2

OwnNames      == j1 :> n1
OwnVersions   == j1 :> "v1"
ManualC1      == m1 :> c1
RunC1         == b1 :> c1
ReleaseC1     == a :> c1
NoConfigs     == [r \in {} |-> c1]
AVersion      == a :> "v2"
NoVersions    == [r \in {} |-> "v2"]
OwnCore       == c1 :> "core1" @@ c2 :> "core2"
================================================================================
