---------------------------- MODULE ServiceRegistry ----------------------------
(***************************************************************************)
(* Registered service instances: registration, heartbeats and              *)
(* deregistration (httpx/registry_handlers.go, store/service_instance.go), *)
(* the sweep of the server's reaper (cmd/server/main.go) and the active    *)
(* probe (httpx/healthcheck_handlers.go), which reads the row, calls the   *)
(* service for seconds and then writes its verdict by name.                *)
(***************************************************************************)
EXTENDS Naturals, FiniteSets

CONSTANTS
  Instances,
  Seeds        \* rows of the migrations: they never send a heartbeat

ASSUME SeedsAssumption == Seeds \subseteq Instances

VARIABLES
  gStatus,   \* service_instances.status, "absent" while there is no row
  beat,      \* last_heartbeat_at: never, within the TTL or older
  alive,     \* the process of the instance answers
  probe,     \* how far the health check of each name is
  retired    \* processes that will not be started again

gVars == <<gStatus, beat, alive, probe, retired>>

GTypeOK ==
  /\ gStatus \in [Instances -> {"absent", "unknown", "healthy", "unreachable"}]
  /\ beat \in [Instances -> {"never", "fresh", "stale"}]
  /\ alive \in [Instances -> BOOLEAN]
  /\ probe \in [Instances -> {"none", "calling", "up", "down"}]
  /\ retired \subseteq Instances

GInit ==
  /\ gStatus = [n \in Instances |-> IF n \in Seeds THEN "unknown" ELSE "absent"]
  /\ beat = [n \in Instances |-> "never"]
  /\ alive = [n \in Instances |-> FALSE]
  /\ probe = [n \in Instances |-> "none"]
  /\ retired = {}

--------------------------------------------------------------------------------
(* The instances and the clock *)

Starts(n) ==
  /\ ~alive[n] /\ n \notin retired
  /\ alive' = [alive EXCEPT ![n] = TRUE]
  /\ UNCHANGED <<gStatus, beat, probe, retired>>

Stops(n) ==
  /\ alive[n]
  /\ alive' = [alive EXCEPT ![n] = FALSE]
  /\ retired' \in {retired, retired \cup {n}}
  /\ UNCHANGED <<gStatus, beat, probe>>

TtlPasses(n) ==
  /\ beat[n] = "fresh"
  /\ beat' = [beat EXCEPT ![n] = "stale"]
  /\ UNCHANGED <<gStatus, alive, probe, retired>>

--------------------------------------------------------------------------------
(* The registry *)

\* Mutant: the upsert leaves last_heartbeat_at to the first heartbeat.
RegisterUnstamped(n) ==
  /\ alive[n] /\ n \notin Seeds
  /\ gStatus' = [gStatus EXCEPT ![n] = "healthy"]
  /\ UNCHANGED <<beat, alive, probe, retired>>

\* An upsert by name: a name that registers again takes the row over.
Register(n) ==
  /\ alive[n] /\ n \notin Seeds
  /\ gStatus' = [gStatus EXCEPT ![n] = "healthy"]
  /\ beat' = [beat EXCEPT ![n] = "fresh"]
  /\ UNCHANGED <<alive, probe, retired>>

\* A heartbeat revives a row; of a name without one it is answered 404.
Heartbeat(n) ==
  /\ alive[n] /\ n \notin Seeds /\ gStatus[n] # "absent"
  /\ gStatus' = [gStatus EXCEPT ![n] = "healthy"]
  /\ beat' = [beat EXCEPT ![n] = "fresh"]
  /\ UNCHANGED <<alive, probe, retired>>

Deregister(n) ==
  /\ gStatus[n] # "absent"
  /\ gStatus' = [gStatus EXCEPT ![n] = "absent"]
  /\ beat' = [beat EXCEPT ![n] = "never"]
  /\ UNCHANGED <<alive, probe, retired>>

Expired == {n \in Instances : beat[n] = "stale" /\ gStatus[n] \notin {"absent", "unreachable"}}

\* SweepStaleServiceInstances: one UPDATE over all names.
Sweep ==
  /\ Expired # {}
  /\ gStatus' = [n \in Instances |-> IF n \in Expired THEN "unreachable" ELSE gStatus[n]]
  /\ UNCHANGED <<beat, alive, probe, retired>>

--------------------------------------------------------------------------------
(* serviceInstanceHealthcheck *)

ProbeRead(n) ==
  /\ probe[n] = "none" /\ gStatus[n] # "absent"
  /\ probe' = [probe EXCEPT ![n] = "calling"]
  /\ UNCHANGED <<gStatus, beat, alive, retired>>

\* The paths are tried in turn, 5 s each; none may answer in time.
ProbeAnswer(n) ==
  /\ probe[n] = "calling"
  /\ \E verdict \in {"up", "down"} :
       /\ verdict = "up" => alive[n]
       /\ probe' = [probe EXCEPT ![n] = verdict]
  /\ UNCHANGED <<gStatus, beat, alive, retired>>

\* persistHealthResult: an UPDATE by name, whatever happened since.
ProbePersist(n) ==
  /\ probe[n] \in {"up", "down"}
  /\ gStatus' = [gStatus EXCEPT ![n] = IF @ = "absent" THEN @
                   ELSE IF probe[n] = "up" THEN "healthy" ELSE "unreachable"]
  /\ probe' = [probe EXCEPT ![n] = "none"]
  /\ UNCHANGED <<beat, alive, retired>>

GNext ==
  \/ Sweep
  \/ \E n \in Instances :
       \/ Starts(n) \/ Stops(n) \/ TtlPasses(n)
       \/ Register(n) \/ Heartbeat(n) \/ Deregister(n)
       \/ ProbeRead(n) \/ ProbeAnswer(n) \/ ProbePersist(n)

GSpec == GInit /\ [][GNext]_gVars

--------------------------------------------------------------------------------
\* A verdict that comes late never brings a deregistered name back: a row
\* appears with the stamp of its own registration only.
RowsAreRegistered ==
  [][\A n \in Instances : gStatus[n] = "absent" /\ gStatus'[n] # "absent"
       => alive[n] /\ beat'[n] = "fresh"]_gVars

\* An instance that is gone for good is unreachable or deregistered in the end,
\* and no probe that saw it alive makes it healthy for ever.
DeadIsNoticed ==
  \A n \in Instances \ Seeds :
    <>[](n \in retired) => <>[](gStatus[n] \in {"absent", "unreachable"})

\* An instance that lives on and beats is healthy again and again, however often
\* a sweep or a probe has called it unreachable.
AliveRecovers ==
  \A n \in Instances \ Seeds :
    <>[](alive[n] /\ gStatus[n] # "absent") => []<>(gStatus[n] = "healthy")

\* The health of a row follows that of its instance.
HealthIsFollowed == RowsAreRegistered /\ DeadIsNoticed /\ AliveRecovers
================================================================================
