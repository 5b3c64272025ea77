------------------------------- MODULE Incidents -------------------------------
(***************************************************************************)
(* Incidents and the diagnoses that raise them: store/incident.go,         *)
(* store/diagnose.go, the handlers of httpx/ops_handlers.go and the end of *)
(* diagnose in httpx/ai_handlers.go.                                       *)
(*                                                                         *)
(* A diagnosis of a workload looks for an incident of that workload which  *)
(* is not resolved and opens one if there is none; what it found may be    *)
(* resolved, and another may be opened, before it writes.                  *)
(***************************************************************************)
EXTENDS Naturals, FiniteSets

CONSTANTS
  Ids,         \* incidents that may be created
  Loads,       \* training jobs and benchmark runs that are diagnosed
  Diagnoses,   \* requests to diagnose; each inserts one row of diagnoses
  About,       \* workload each of them is about
  AckFrom,     \* statuses in which an operator acknowledges an incident
  IFaults,     \* which of "db", "ai" may strike
  NoIncident   \* no incident; no workload; no diagnosis

ASSUME NoIncidentAssumption == NoIncident \notin Ids \cup Loads \cup Diagnoses
ASSUME AboutAssumption      == About \in [Diagnoses -> Loads]

VARIABLES
  iStatus,     \* incidents.status, "absent" while there is no row
  marker,      \* workload named in the summary
  linked,      \* incidents.diagnosis_id
  timeline,    \* diagnoses with a diagnosis_linked event of the incident
  resolvedAt,  \* incidents with a resolved_at
  dStatus,     \* diagnoses.status
  step,        \* how far each request is
  found,       \* incident its SELECT returned
  doubled      \* history: workloads with two overlapping diagnoses

iVars == <<iStatus, marker, linked, timeline, resolvedAt, dStatus, step, found, doubled>>

ITypeOK ==
  /\ iStatus \in [Ids -> {"absent", "open", "acknowledged", "resolved"}]
  /\ marker \in [Ids -> Loads \cup {NoIncident}]
  /\ linked \in [Ids -> Diagnoses \cup {NoIncident}]
  /\ timeline \in [Ids -> SUBSET Diagnoses]
  /\ resolvedAt \subseteq Ids
  /\ dStatus \in [Diagnoses -> {"absent", "completed", "failed"}]
  /\ step \in [Diagnoses -> {"idle", "reasoning", "inserted", "selected", "done"}]
  /\ found \in [Diagnoses -> Ids \cup {NoIncident}]
  /\ doubled \subseteq Loads

IInit ==
  /\ iStatus = [i \in Ids |-> "absent"]
  /\ marker = [i \in Ids |-> NoIncident] /\ linked = marker
  /\ timeline = [i \in Ids |-> {}]
  /\ resolvedAt = {}
  /\ dStatus = [d \in Diagnoses |-> "absent"]
  /\ step = [d \in Diagnoses |-> "idle"]
  /\ found = [d \in Diagnoses |-> NoIncident]
  /\ doubled = {}

Unresolved(w) == {i \in Ids : marker[i] = w /\ iStatus[i] \in {"open", "acknowledged"}}

IGoto(d, s) == step' = [step EXCEPT ![d] = s]

--------------------------------------------------------------------------------
(* Operators *)

\* An incident raised by hand names no workload.
CreateIncident(i) ==
  /\ iStatus[i] = "absent"
  /\ iStatus' = [iStatus EXCEPT ![i] = "open"]
  /\ UNCHANGED <<marker, linked, timeline, resolvedAt, dStatus, step, found, doubled>>

\* The UPDATE does not look at the status; resolved_at stays.
AckIncident(i) ==
  /\ iStatus[i] \in AckFrom
  /\ iStatus' = [iStatus EXCEPT ![i] = "acknowledged"]
  /\ UNCHANGED <<marker, linked, timeline, resolvedAt, dStatus, step, found, doubled>>

ResolveIncident(i) ==
  /\ iStatus[i] # "absent"
  /\ iStatus' = [iStatus EXCEPT ![i] = "resolved"]
  /\ resolvedAt' = resolvedAt \cup {i}
  /\ UNCHANGED <<marker, linked, timeline, dStatus, step, found, doubled>>

--------------------------------------------------------------------------------
(* diagnose *)

\* Evidence is gathered and the AI service is asked.
DiagnoseAsk(d) ==
  /\ step[d] = "idle"
  /\ IGoto(d, "reasoning")
  /\ doubled' = doubled \cup {About[e] : e \in
       {e \in Diagnoses : step[e] \notin {"idle", "done"} /\ About[e] = About[d]}}
  /\ UNCHANGED <<iStatus, marker, linked, timeline, resolvedAt, dStatus, found>>

\* The AI service failed: a failed diagnosis is kept, no incident.
DiagnoseUpstreamFailed(d) ==
  /\ "ai" \in IFaults /\ step[d] = "reasoning"
  /\ IGoto(d, "done")
  /\ dStatus' = [dStatus EXCEPT ![d] = "failed"]
  /\ UNCHANGED <<iStatus, marker, linked, timeline, resolvedAt, found, doubled>>

\* The diagnosis is stored; it is serious enough to raise an incident, or not.
DiagnoseStore(d) ==
  /\ step[d] = "reasoning"
  /\ dStatus' = [dStatus EXCEPT ![d] = "completed"]
  /\ IGoto(d, "inserted") \/ IGoto(d, "done")
  /\ UNCHANGED <<iStatus, marker, linked, timeline, resolvedAt, found, doubled>>

\* Mutant: an incident that was acknowledged is no longer looked for.
EnsureSelectOpenOnly(d) ==
  /\ step[d] = "inserted"
  /\ LET those == {i \in Unresolved(About[d]) : iStatus[i] = "open"} IN
       found' \in {[found EXCEPT ![d] = i] : i \in
                    IF those = {} THEN {NoIncident} ELSE those}
  /\ IGoto(d, "selected")
  /\ UNCHANGED <<iStatus, marker, linked, timeline, resolvedAt, dStatus, doubled>>

\* EnsureWorkloadIncident: the newest incident of the workload not resolved.
EnsureSelect(d) ==
  /\ step[d] = "inserted"
  /\ found' \in {[found EXCEPT ![d] = i] : i \in
                  IF Unresolved(About[d]) = {} THEN {NoIncident} ELSE Unresolved(About[d])}
  /\ IGoto(d, "selected")
  /\ UNCHANGED <<iStatus, marker, linked, timeline, resolvedAt, dStatus, doubled>>

\* Its commit: a new incident, or another diagnosis of the one found, even if
\* that has been resolved since; the event of the timeline goes with it.
EnsureWrite(d, i) ==
  /\ step[d] = "selected"
  /\ \/ found[d] = i /\ UNCHANGED <<iStatus, marker>>
     \/ /\ found[d] = NoIncident /\ iStatus[i] = "absent"
        /\ iStatus' = [iStatus EXCEPT ![i] = "open"]
        /\ marker' = [marker EXCEPT ![i] = About[d]]
  /\ linked' = [linked EXCEPT ![i] = d]
  /\ timeline' = [timeline EXCEPT ![i] = @ \cup {d}]
  /\ IGoto(d, "done")
  /\ UNCHANGED <<resolvedAt, dStatus, found, doubled>>

\* The request named the incident: LinkIncidentDiagnosis, one transaction.
LinkDiagnosis(d, i) ==
  /\ step[d] = "inserted" /\ iStatus[i] # "absent"
  /\ linked' = [linked EXCEPT ![i] = d]
  /\ timeline' = [timeline EXCEPT ![i] = @ \cup {d}]
  /\ IGoto(d, "done")
  /\ UNCHANGED <<iStatus, marker, resolvedAt, dStatus, found, doubled>>

\* The transaction fails or its client goes away: the diagnosis remains.
DiagnoseAbort(d) ==
  /\ "db" \in IFaults /\ step[d] \in {"reasoning", "inserted", "selected"}
  /\ IGoto(d, "done")
  /\ UNCHANGED <<iStatus, marker, linked, timeline, resolvedAt, dStatus, found, doubled>>

INext ==
  \/ \E i \in Ids : CreateIncident(i) \/ AckIncident(i) \/ ResolveIncident(i)
  \/ \E d \in Diagnoses :
       \/ DiagnoseAsk(d) \/ DiagnoseUpstreamFailed(d) \/ DiagnoseStore(d)
       \/ EnsureSelect(d) \/ DiagnoseAbort(d)
       \/ \E i \in Ids : EnsureWrite(d, i) \/ LinkDiagnosis(d, i)

ISpec == IInit /\ [][INext]_iVars

--------------------------------------------------------------------------------
\* Repeated diagnoses of a workload share one unresolved incident; only two that
\* overlap, each looking before the other has written, can open two.
OneIncidentPerWorkload ==
  \A w \in Loads \ doubled : Cardinality(Unresolved(w)) <= 1

\* What an incident is linked to is a diagnosis that was stored and completed,
\* and its timeline tells of it: no failure leaves one without the other.
LinksAreOnRecord ==
  \A i \in Ids : linked[i] # NoIncident =>
    dStatus[linked[i]] = "completed" /\ linked[i] \in timeline[i]

\* Incidents, diagnoses and timelines tell the same story.
IncidentInv == OneIncidentPerWorkload /\ LinksAreOnRecord
================================================================================
