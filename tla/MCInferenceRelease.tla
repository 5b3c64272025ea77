--------------------------- MODULE MCInferenceRelease ---------------------------
(* Small instances of InferenceRelease: a preset (balanced) and a scheduler     *)
(* configuration (high_throughput), released in turn.                           *)
EXTENDS InferenceRelease, TLC

CONSTANTS m1, a, b, c, preset, sched

OneManual     == m1 :> preset
NoManual      == [m \in {} |-> preset]
OneConfig     == a :> sched
OneVersion    == a :> "v1"
SchedFirst    == a :> sched @@ b :> preset
ThreeConfigs  == a :> preset @@ b :> sched @@ c :> preset
TwoVersions   == a :> "v1" @@ b :> "v2"
ThreeVersions == a :> "v1" @@ b :> "v2" @@ c :> "v1"
================================================================================
