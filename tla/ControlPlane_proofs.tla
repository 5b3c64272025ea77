-------------------------- MODULE ControlPlane_proofs --------------------------
(***************************************************************************)
(* What holds of the parts of the control plane with any number of rows,   *)
(* requests and instances: configurations, incidents, kept answers, the    *)
(* token bucket, the container, the model registry, endpoints, knowledge   *)
(* and the archiver.  MCControlPlane checks them on small instances.  Each *)
(* part says before its invariant what it takes its requests to do.        *)
(***************************************************************************)
EXTENDS MCControlPlane, DataLemmas, TLAPS

--------------------------------------------------------------------------------
(* The configuration center.                                                 *)

\* Rows are numbered from one, and one of them has the highest number.
CRowsInv ==
  /\ number \in [RowIds -> Nat] /\ current \in Nat
  /\ active \subseteq Committed
  /\ \E m \in Committed : \A r \in Committed : number[r] <= number[m]

\* A transaction writes its row at its end; until then it knows a number to
\* publish or rows to go back to.
CTxInv ==
  /\ stage \in [Txs -> {"idle", "read", "archive", "wait", "write", "done"}]
  /\ kind \in [Txs -> ({"publish"} \X {None}) \cup ({"rollback"} \X Nat)]
  /\ next \in [Txs -> Nat] /\ prior \in [Txs -> SUBSET RowIds] /\ overlap \in BOOLEAN
  /\ \A t \in Txs :
       /\ number[t] # None => stage[t] = "done"
       /\ stage[t] = "idle" => kind[t] = <<"publish", None>>
       /\ Begun(t) /\ kind[t][1] = "publish" => next[t] # None
       /\ Begun(t) /\ kind[t][1] = "rollback" => Numbered(kind[t][2]) # {}

\* What a transaction has read is still so, if nobody else has committed.
CAloneInv ==
  ~overlap =>
    \A t \in Txs :
      /\ Begun(t) /\ kind[t][1] = "publish" => \A r \in Committed : number[r] < next[t]
      /\ stage[t] \in {"wait", "write"} => prior[t] = Committed

ConfigIInv == CRowsInv /\ CTxInv /\ CAloneInv /\ CurrentIsActive /\ OneVersionInForce

\* MAX(version)
Highest == Max({number[r] : r \in Committed})

\* It is that of rows one of which has the highest number.
LEMMA HighestNumber ==
  ASSUME CRowsInv PROVE Highest \in Nat /\ \A r \in Committed : number[r] <= Highest
<1> DEFINE S == {number[r] : r \in Committed}
<1>1. \E x \in S : \A y \in S : x >= y
  BY DEF CRowsInv, Committed
<1>2. Max(S) \in S /\ \A y \in S : Max(S) >= y
  BY <1>1 DEF Max
<1>3. S \subseteq Nat
  BY DEF CRowsInv, Committed
<1>. QED
  BY <1>2, <1>3 DEF Highest

\* The steps of a transaction before its end write no row.
LEMMA CReadStep ==
  ASSUME ConfigIInv, NEW t \in Txs,
         \/ PublishRead(t) \/ ArchiveFind(t) \/ ArchiveLock(t) \/ CAbort(t)
         \/ \E v \in ConfigVersions : RollbackRead(t, v)
  PROVE  ConfigIInv'
<1> USE DEF ConfigIInv, CGoto, None
<1>1. UNCHANGED <<number, active, current, overlap>>
  BY DEF PublishRead, ArchiveFind, ArchiveLock, CAbort, RollbackRead
<1>2. Committed' = Committed /\ CRowsInv' /\ CurrentIsActive' /\ OneVersionInForce' /\ \A v : Numbered(v)' = Numbered(v)
  BY <1>1 DEF CRowsInv, Committed, Numbered, CurrentIsActive, OneVersionInForce
<1>3. CASE PublishRead(t)
  <2>1. PICK n \in Nat : /\ next' = [next EXCEPT ![t] = n] /\ n # 0
                         /\ \A r \in Committed : number[r] < n
    <3>1. Highest + 1 \in Nat /\ Highest + 1 # 0 /\ \A r \in Committed : number[r] < Highest + 1
      BY HighestNumber DEF CRowsInv, Committed
    <3>2. next' = [next EXCEPT ![t] = Highest + 1]
      BY <1>3 DEF PublishRead, Highest
    <3>. QED
      BY <3>1, <3>2
  <2>2. stage[t] = "idle" /\ stage' = [stage EXCEPT ![t] = "archive"] /\ UNCHANGED <<kind, prior>>
    BY <1>3 DEF PublishRead
  <2>3. CTxInv'
    BY <1>1, <1>2, <2>1, <2>2 DEF CTxInv, Begun
  <2>4. CAloneInv'
    BY <1>1, <1>2, <2>1, <2>2 DEF CTxInv, CAloneInv, Begun
  <2>. QED
    BY <1>2, <2>3, <2>4
<1>4. ASSUME NEW v \in ConfigVersions, RollbackRead(t, v) PROVE ConfigIInv'
  <2>1. /\ stage[t] = "idle" /\ stage' = [stage EXCEPT ![t] = "archive"] /\ UNCHANGED <<next, prior>>
        /\ kind' = [kind EXCEPT ![t] = <<"rollback", v>>] /\ Numbered(v) # {} /\ v \in Nat
    BY <1>4 DEF RollbackRead, ConfigVersions, Numbered, CRowsInv, Committed
  <2>2. CTxInv'
    BY <1>1, <1>2, <2>1 DEF CTxInv, Begun
  <2>3. CAloneInv'
    BY <1>1, <1>2, <2>1 DEF CTxInv, CAloneInv, Begun
  <2>. QED
    BY <1>2, <2>2, <2>3
<1>5. CASE ArchiveFind(t)
  <2>1. /\ stage[t] = "archive" /\ stage' = [stage EXCEPT ![t] = "wait"] /\ UNCHANGED <<next, kind>>
        /\ prior' = [prior EXCEPT ![t] = Committed] /\ Committed \subseteq RowIds
    BY <1>5 DEF ArchiveFind, Committed
  <2>2. CTxInv' /\ CAloneInv'
    BY <1>1, <1>2, <2>1 DEF CTxInv, CAloneInv, Begun
  <2>. QED
    BY <1>2, <2>2
<1>6. CASE ArchiveLock(t) \/ CAbort(t)
  <2>1. /\ Begun(t) /\ UNCHANGED <<next, kind>>
        /\ \/ stage[t] = "wait" /\ stage' = [stage EXCEPT ![t] = "write"] /\ prior' = prior
           \/ stage' = [stage EXCEPT ![t] = "done"] /\ prior' = [prior EXCEPT ![t] = {}]
    BY <1>6 DEF ArchiveLock, CAbort, Begun
  <2>2. CTxInv' /\ CAloneInv'
    BY <1>1, <1>2, <2>1 DEF CTxInv, CAloneInv, Begun
  <2>. QED
    BY <1>2, <2>2
<1>. QED
  BY <1>3, <1>4, <1>5, <1>6

\* A commit puts one version in force; alone, the only one.
LEMMA CCommitStep ==
  ASSUME ConfigIInv, NEW t \in Txs, PublishCommit(t) \/ RollbackCommit(t)
  PROVE  ConfigIInv'
<1> USE DEF ConfigIInv, CGoto, CEnd, None
<1>1. /\ stage[t] = "write" /\ stage' = [stage EXCEPT ![t] = "done"]
      /\ prior' = [prior EXCEPT ![t] = {}] /\ UNCHANGED <<kind, next>>
      /\ overlap' = (overlap \/ \E u \in Txs \ {t} : Begun(u))
  BY DEF PublishCommit, RollbackCommit
<1>2. number[t] = 0 /\ t \in RowIds /\ Begun(t)
  BY <1>1 DEF CTxInv, RowIds, Begun
<1>3. ASSUME ~overlap' PROVE ~overlap /\ \A u \in Txs \ {t} : ~Begun(u)
  BY <1>1, <1>3
<1>4. \A u \in Txs : Begun(u)' => Begun(u) /\ u # t
  BY <1>1 DEF Begun, CTxInv
<1>5. ASSUME ~overlap' PROVE \A u \in Txs : ~Begun(u)' /\ stage'[u] \notin {"wait", "write"}
  <2>1. \A u \in Txs : ~Begun(u)'
    BY <1>3, <1>4, <1>5
  <2>. QED
    BY <2>1 DEF Begun
<1>6. CAloneInv'
  BY <1>5 DEF CAloneInv
<1>7. overlap' \in BOOLEAN
  BY <1>1 DEF CTxInv
<1>8. CASE PublishCommit(t)
  <2>1. /\ number' = [number EXCEPT ![t] = next[t]] /\ active' = (active \ prior[t]) \cup {t}
        /\ current' = next[t] /\ kind[t][1] = "publish"
    BY <1>8 DEF PublishCommit
  <2>2. next[t] \in Nat /\ next[t] # 0
    BY <1>2, <2>1 DEF CTxInv
  <2>3. /\ number' \in [RowIds -> Nat] /\ number'[t] = next[t]
        /\ \A r \in RowIds \ {t} : number'[r] = number[r]
    BY <1>2, <2>1, <2>2 DEF CRowsInv
  <2>4. Committed' = Committed \cup {t} /\ t \notin Committed
    BY <1>2, <2>2, <2>3 DEF Committed
  <2>5. CRowsInv'
    <3>1. PICK m \in Committed : \A r \in Committed : number[r] <= number[m]
      BY DEF CRowsInv
    <3>2. CASE next[t] <= number[m]
      BY <2>1, <2>2, <2>3, <2>4, <3>1, <3>2 DEF CRowsInv, Committed
    <3>3. CASE ~(next[t] <= number[m])
      <4>1. \A r \in Committed' : number'[r] <= number'[t]
        BY <2>2, <2>3, <2>4, <3>1, <3>3 DEF CRowsInv, Committed
      <4>. QED
        BY <2>1, <2>2, <2>3, <2>4, <4>1 DEF CRowsInv
    <3>. QED
      BY <3>2, <3>3
  <2>6. \A v : Numbered(v) \subseteq Numbered(v)'
    BY <1>2, <2>3, <2>4 DEF Numbered, Committed
  <2>7. CTxInv'
    <3>1. \A u \in Txs : /\ number'[u] # 0 => stage'[u] = "done"
                         /\ stage'[u] = "idle" => kind'[u] = <<"publish", 0>>
      BY <1>1, <2>3 DEF CTxInv, RowIds
    <3>2. \A u \in Txs : /\ Begun(u)' /\ kind'[u][1] = "publish" => next'[u] # 0
                         /\ Begun(u)' /\ kind'[u][1] = "rollback" =>
                              {r \in Committed' : number'[r] = kind'[u][2]} # {}
      <4>1. SUFFICES ASSUME NEW u \in Txs, Begun(u)'
                     PROVE  /\ kind[u][1] = "publish" => next[u] # 0
                            /\ kind[u][1] = "rollback" => {r \in Committed' : number'[r] = kind[u][2]} # {}
        BY <1>1
      <4>2. Begun(u)
        BY <1>4, <4>1
      <4>3. /\ kind[u][1] = "publish" => next[u] # 0
            /\ kind[u][1] = "rollback" => {r \in Committed : number[r] = kind[u][2]} # {}
        BY <4>2 DEF CTxInv, Numbered
      <4>4. \A r \in Committed : r \in Committed' /\ number'[r] = number[r]
        BY <2>3, <2>4 DEF Committed
      <4>. QED
        BY <4>3, <4>4
    <3>3. /\ stage' \in [Txs -> {"idle", "read", "archive", "wait", "write", "done"}]
          /\ prior' \in [Txs -> SUBSET RowIds]
      BY <1>1 DEF CTxInv
    <3>. QED
      BY <1>1, <1>7, <3>1, <3>2, <3>3 DEF CTxInv, Numbered
  <2>8. t \in Numbered(current)' /\ t \in active'
    BY <2>1, <2>3, <2>4 DEF Numbered
  <2>9. OneVersionInForce'
    <3>1. SUFFICES ASSUME ~overlap' PROVE (\A r, s \in Committed : number[r] = number[s] => r = s)'
                                         /\ active' = Numbered(current)'
      BY DEF OneVersionInForce
    <3>2. prior[t] = Committed /\ \A r \in Committed : number[r] < next[t]
      BY <1>1, <1>2, <1>3, <2>1, <3>1 DEF CAloneInv
    <3>3. active' = {t}
      BY <2>1, <3>2 DEF CRowsInv
    <3>4. Numbered(current)' = {t}
      BY <2>1, <2>2, <2>3, <2>4, <3>2 DEF Numbered, CRowsInv, Committed
    <3>5. \A r, s \in Committed' : number'[r] = number'[s] => r = s
      BY <1>3, <2>2, <2>3, <2>4, <3>1, <3>2 DEF OneVersionInForce, CRowsInv, Committed
    <3>. QED
      BY <3>3, <3>4, <3>5
  <2>. QED
    BY <1>6, <2>5, <2>7, <2>8, <2>9 DEF CurrentIsActive
<1>9. CASE RollbackCommit(t)
  <2>1. /\ number' = number /\ active' = (active \ prior[t]) \cup Numbered(kind[t][2])
        /\ current' = kind[t][2] /\ kind[t][1] = "rollback"
    BY <1>9 DEF RollbackCommit
  <2>2. Committed' = Committed /\ (\A v : Numbered(v)' = Numbered(v)) /\ kind[t][2] \in Nat
        /\ Numbered(kind[t][2]) # {}
    BY <1>2, <2>1 DEF Committed, Numbered, CTxInv
  <2>3. CRowsInv' /\ CurrentIsActive'
    BY <2>1, <2>2 DEF CRowsInv, Numbered, CurrentIsActive
  <2>4. CTxInv'
    BY <1>1, <1>4, <1>7, <2>1, <2>2 DEF CTxInv
  <2>5. OneVersionInForce'
    <3>1. SUFFICES ASSUME ~overlap' PROVE (\A r, s \in Committed : number[r] = number[s] => r = s)'
                                         /\ active' = Numbered(current)'
      BY DEF OneVersionInForce
    <3>2. prior[t] = Committed
      BY <1>1, <1>3, <3>1 DEF CAloneInv
    <3>. QED
      BY <1>3, <2>1, <2>2, <3>1, <3>2 DEF CRowsInv, OneVersionInForce
  <2>. QED
    BY <1>6, <2>3, <2>4, <2>5
<1>. QED
  BY <1>8, <1>9

\* ConfigIInv holds all the time.
LEMMA ConfigKeeps == CSpec => []ConfigIInv
<1>1. CInit => ConfigIInv
  <2>1. SUFFICES ASSUME CInit PROVE ConfigIInv
    OBVIOUS
  <2>2. Committed = {First} /\ number[First] = 1
    BY <2>1 DEF CInit, Committed, RowIds, None
  <2>3. \A t \in Txs : number[t] = 0 /\ stage[t] = "idle"
    BY <2>1, FirstAssumption DEF CInit, RowIds, None
  <2>4. Numbered(1) = {First}
    BY <2>2 DEF Numbered
  <2>5. CRowsInv /\ CurrentIsActive /\ OneVersionInForce
    BY <2>1, <2>2, <2>4 DEF CInit, CRowsInv, CurrentIsActive, OneVersionInForce, RowIds, None
  <2>6. CTxInv /\ CAloneInv
    BY <2>1, <2>3 DEF CInit, CTxInv, CAloneInv, Begun, None
  <2>. QED
    BY <2>5, <2>6 DEF ConfigIInv
<1>2. ConfigIInv /\ [CNext]_cVars => ConfigIInv'
  <2>1. ASSUME ConfigIInv, UNCHANGED cVars PROVE ConfigIInv'
    BY <2>1 DEF cVars, ConfigIInv, CRowsInv, CTxInv, CAloneInv, CurrentIsActive, OneVersionInForce, Begun,
       Committed, Numbered
  <2>. QED
    BY <2>1, CReadStep, CCommitStep DEF CNext
<1>. QED
  BY <1>1, <1>2, PTL DEF CSpec

\* There is always a version in force, however publications and rollbacks
\* overlap; and one only, with a number of its own, as long as no transaction has
\* committed during another one (PublishConfigVersion, RollbackConfigVersion).
THEOREM ConfigHolds == CSpec => []ConfigInv
<1>1. ConfigIInv => ConfigInv
  BY DEF ConfigIInv, ConfigInv
<1>. QED
  BY <1>1, ConfigKeeps, PTL

--------------------------------------------------------------------------------
(* Incidents.                                                                *)

\* Operators acknowledge what they see unresolved; acknowledging a resolved
\* incident opens it again beside the one that took its place.
NoReopening == AckFrom \subseteq {"open", "acknowledged"}

AtWork(d) == step[d] \notin {"idle", "done"}

IRowsInv ==
  /\ iStatus \in [Ids -> {"absent", "open", "acknowledged", "resolved"}]
  /\ marker \in [Ids -> Loads \cup {NoIncident}]
  /\ linked \in [Ids -> Diagnoses \cup {NoIncident}]
  /\ timeline \in [Ids -> SUBSET Diagnoses]
  /\ dStatus \in [Diagnoses -> {"absent", "completed", "failed"}]
  /\ step \in [Diagnoses -> {"idle", "reasoning", "inserted", "selected", "done"}]
  /\ found \in [Diagnoses -> Ids \cup {NoIncident}]
  /\ \A i \in Ids : iStatus[i] = "absent" => marker[i] = NoIncident

\* What an incident is linked to has been stored before, and will not change.
LinkInv ==
  /\ \A d \in Diagnoses : step[d] \in {"inserted", "selected"} => dStatus[d] = "completed"
  /\ \A i \in Ids : linked[i] # NoIncident =>
       step[linked[i]] = "done" /\ dStatus[linked[i]] = "completed" /\ linked[i] \in timeline[i]

\* Of a workload whose diagnoses never overlapped one at most is at work, one
\* incident at most is unresolved, and what has been looked for and not found is
\* still not there.
OneInv ==
  \A w \in Loads \ doubled :
    /\ \A d, e \in Diagnoses : About[d] = w /\ About[e] = w /\ AtWork(d) /\ AtWork(e) => d = e
    /\ \A i, j \in Unresolved(w) : i = j
    /\ \A d \in Diagnoses :
         About[d] = w /\ step[d] = "selected" /\ found[d] = NoIncident => Unresolved(w) = {}

IncidentIInv == IRowsInv /\ LinkInv /\ OneInv

\* Operators raise, acknowledge and resolve.
LEMMA OperatorStep ==
  ASSUME NoReopening, IncidentIInv, NEW i \in Ids,
         CreateIncident(i) \/ AckIncident(i) \/ ResolveIncident(i)
  PROVE  IncidentIInv'
<1> USE DEF IncidentIInv
<1>1. /\ UNCHANGED <<marker, linked, timeline, dStatus, step, found, doubled>>
      /\ \/ iStatus[i] = "absent" /\ iStatus' = [iStatus EXCEPT ![i] = "open"]
         \/ iStatus[i] \in {"open", "acknowledged"} /\ iStatus' = [iStatus EXCEPT ![i] = "acknowledged"]
         \/ iStatus[i] # "absent" /\ iStatus' = [iStatus EXCEPT ![i] = "resolved"]
  BY DEF CreateIncident, AckIncident, ResolveIncident, NoReopening
<1>2. IRowsInv'
  BY <1>1 DEF IRowsInv
<1>3. LinkInv'
  BY <1>1 DEF LinkInv
<1>4. \A w \in Loads : Unresolved(w)' \subseteq Unresolved(w)
  BY <1>1, NoIncidentAssumption DEF Unresolved, IRowsInv
<1>5. OneInv'
  BY <1>1, <1>4 DEF OneInv, AtWork
<1>. QED
  BY <1>2, <1>3, <1>5

\* A diagnosis before its write: what it is linked to and what is open stay.
LEMMA LookStep ==
  ASSUME IncidentIInv, NEW d \in Diagnoses,
         \/ DiagnoseAsk(d) \/ DiagnoseUpstreamFailed(d) \/ DiagnoseStore(d)
         \/ EnsureSelect(d) \/ DiagnoseAbort(d)
  PROVE  IncidentIInv'
<1> USE DEF IncidentIInv, IGoto
<1>1. UNCHANGED <<iStatus, marker, linked, timeline>> /\ About[d] \in Loads
  BY AboutAssumption DEF DiagnoseAsk, DiagnoseUpstreamFailed, DiagnoseStore, EnsureSelect, DiagnoseAbort
<1>2. \A w : Unresolved(w)' = Unresolved(w)
  BY <1>1 DEF Unresolved
<1>3. CASE DiagnoseAsk(d)
  <2>1. /\ step[d] = "idle" /\ step' = [step EXCEPT ![d] = "reasoning"] /\ UNCHANGED <<dStatus, found>>
        /\ doubled \subseteq doubled'
        /\ \A e \in Diagnoses : AtWork(e) /\ About[e] = About[d] => About[d] \in doubled'
    BY <1>3 DEF DiagnoseAsk, AtWork
  <2>2. IRowsInv' /\ LinkInv'
    BY <1>1, <2>1 DEF IRowsInv, LinkInv
  <2>3. ASSUME NEW w \in Loads \ doubled'
        PROVE  \A a, b \in Diagnoses : About[a] = w /\ About[b] = w /\ AtWork(a)' /\ AtWork(b)' => a = b
    BY <2>1, <2>3 DEF OneInv, AtWork, IRowsInv
  <2>4. \A e \in Diagnoses : step'[e] = "selected" => step[e] = "selected"
    BY <2>1 DEF IRowsInv
  <2>5. OneInv'
    BY <1>2, <2>1, <2>3, <2>4 DEF OneInv
  <2>. QED
    BY <2>2, <2>5
<1>4. CASE DiagnoseUpstreamFailed(d) \/ DiagnoseStore(d) \/ DiagnoseAbort(d)
  <2>1. /\ AtWork(d) /\ UNCHANGED <<found, doubled>>
        /\ \/ /\ step[d] = "reasoning"
              /\ \/ dStatus' = [dStatus EXCEPT ![d] = "failed"] /\ step' = [step EXCEPT ![d] = "done"]
                 \/ /\ dStatus' = [dStatus EXCEPT ![d] = "completed"]
                    /\ step' = [step EXCEPT ![d] = "inserted"] \/ step' = [step EXCEPT ![d] = "done"]
           \/ dStatus' = dStatus /\ step' = [step EXCEPT ![d] = "done"]
    BY <1>4 DEF DiagnoseUpstreamFailed, DiagnoseStore, DiagnoseAbort, AtWork
  <2>2. IRowsInv' /\ LinkInv'
    BY <1>1, <2>1 DEF IRowsInv, LinkInv
  <2>3. \A e \in Diagnoses : (AtWork(e)' => AtWork(e)) /\ (step'[e] = "selected" => step[e] = "selected")
    BY <2>1 DEF AtWork, IRowsInv
  <2>4. OneInv'
    BY <1>2, <2>1, <2>3 DEF OneInv
  <2>. QED
    BY <2>2, <2>4
<1>5. CASE EnsureSelect(d)
  <2>1. PICK i \in Ids \cup {NoIncident} :
           /\ step[d] = "inserted" /\ step' = [step EXCEPT ![d] = "selected"]
           /\ found' = [found EXCEPT ![d] = i] /\ UNCHANGED <<dStatus, doubled>>
           /\ i = NoIncident => Unresolved(About[d]) = {}
    <3>1. Unresolved(About[d]) \subseteq Ids
      BY DEF Unresolved
    <3>. QED
      BY <1>5, <3>1, NoIncidentAssumption DEF EnsureSelect
  <2>2. IRowsInv' /\ LinkInv'
    BY <1>1, <2>1 DEF IRowsInv, LinkInv
  <2>3. /\ \A e \in Diagnoses : AtWork(e)' => AtWork(e)
        /\ \A e \in Diagnoses \ {d} : step'[e] = step[e] /\ found'[e] = found[e]
        /\ found'[d] = i
    BY <2>1 DEF AtWork, IRowsInv
  <2>4. OneInv'
    BY <1>2, <2>1, <2>3 DEF OneInv
  <2>. QED
    BY <2>2, <2>4
<1>. QED
  BY <1>3, <1>4, <1>5

\* The write opens an incident only when there is none to share.
LEMMA LinkStep ==
  ASSUME IncidentIInv, NEW d \in Diagnoses, NEW i \in Ids, EnsureWrite(d, i) \/ LinkDiagnosis(d, i)
  PROVE  IncidentIInv'
<1> USE DEF IncidentIInv, IGoto
<1>1. /\ step[d] \in {"inserted", "selected"} /\ step' = [step EXCEPT ![d] = "done"]
      /\ linked' = [linked EXCEPT ![i] = d] /\ timeline' = [timeline EXCEPT ![i] = timeline[i] \cup {d}]
      /\ UNCHANGED <<dStatus, found, doubled>> /\ About[d] \in Loads
  BY AboutAssumption DEF EnsureWrite, LinkDiagnosis
<1>2. \/ UNCHANGED <<iStatus, marker>>
      \/ /\ step[d] = "selected" /\ found[d] = NoIncident /\ iStatus[i] = "absent"
         /\ iStatus' = [iStatus EXCEPT ![i] = "open"] /\ marker' = [marker EXCEPT ![i] = About[d]]
  BY DEF EnsureWrite, LinkDiagnosis
<1>3. IRowsInv'
  BY <1>1, <1>2 DEF IRowsInv
<1>4. LinkInv'
  BY <1>1 DEF LinkInv, IRowsInv
<1>5. /\ \A e \in Diagnoses : (AtWork(e)' => AtWork(e) /\ e # d) /\ (step'[e] = "selected" => step[e] = "selected")
      /\ AtWork(d)
  BY <1>1 DEF AtWork, IRowsInv
<1>6. CASE UNCHANGED <<iStatus, marker>>
  <2>1. \A w : Unresolved(w)' = Unresolved(w)
    BY <1>6 DEF Unresolved
  <2>2. OneInv'
    BY <1>1, <1>5, <2>1 DEF OneInv
  <2>. QED
    BY <1>3, <1>4, <2>2
<1>7. CASE /\ step[d] = "selected" /\ found[d] = NoIncident /\ iStatus[i] = "absent"
           /\ iStatus' = [iStatus EXCEPT ![i] = "open"] /\ marker' = [marker EXCEPT ![i] = About[d]]
  <2>1. /\ \A w \in Loads \ {About[d]} : Unresolved(w)' = Unresolved(w)
        /\ Unresolved(About[d])' = Unresolved(About[d]) \cup {i}
    BY <1>1, <1>7, NoIncidentAssumption DEF Unresolved, IRowsInv
  <2>2. ASSUME About[d] \notin doubled
        PROVE  /\ Unresolved(About[d])' = {i}
               /\ \A e \in Diagnoses : About[e] = About[d] => ~AtWork(e)'
    BY <1>1, <1>5, <1>7, <2>1, <2>2 DEF OneInv
  <2>3. \A e \in Diagnoses : step'[e] = "selected" => AtWork(e)'
    BY DEF AtWork
  <2>4. OneInv'
    BY <1>1, <1>5, <2>1, <2>2, <2>3 DEF OneInv
  <2>. QED
    BY <1>3, <1>4, <2>4
<1>. QED
  BY <1>2, <1>6, <1>7

\* Repeated diagnoses of a workload share one unresolved incident unless two
\* overlapped, and what an incident is linked to is a diagnosis on record
\* (EnsureWorkloadIncident, LinkIncidentDiagnosis).
THEOREM IncidentHolds == ASSUME NoReopening PROVE ISpec => []IncidentInv
<1>1. IInit => IncidentIInv
  BY NoIncidentAssumption DEF IInit, IncidentIInv, IRowsInv, LinkInv, OneInv, Unresolved, AtWork
<1>2. IncidentIInv /\ [INext]_iVars => IncidentIInv'
  <2>1. ASSUME IncidentIInv, UNCHANGED iVars PROVE IncidentIInv'
    BY <2>1 DEF iVars, IncidentIInv, IRowsInv, LinkInv, OneInv, Unresolved, AtWork
  <2>. QED
    BY <2>1, OperatorStep, LookStep, LinkStep DEF INext
<1>3. IncidentIInv => IncidentInv
  <2>1. SUFFICES ASSUME IncidentIInv, NEW w \in Loads \ doubled PROVE Cardinality(Unresolved(w)) <= 1
    BY DEF IncidentIInv, LinkInv, IncidentInv, OneIncidentPerWorkload, LinksAreOnRecord
  <2>2. Unresolved(w) = {} \/ \E i : Unresolved(w) = {i}
    BY <2>1 DEF IncidentIInv, OneInv
  <2>3. Cardinality({}) = 0 /\ \A i : Cardinality({i}) = 1
    BY FS_EmptySet, FS_Singleton
  <2>. QED
    BY <2>2, <2>3
<1>. QED
  BY <1>1, <1>2, <1>3, PTL DEF ISpec

--------------------------------------------------------------------------------
(* Answers kept in Redis.                                                    *)

HShape ==
  /\ data \in Nat \ {0}
  /\ kept \in [Keys -> Nat] /\ runs \in [Keys -> Nat]
  /\ post \in [Posts -> {"idle", "execute", "invalidate", "store", "done"}]

\* Of a key whose answers were all kept and whose requests never overlapped one
\* request at most is under way: before its write nothing is kept and nothing has
\* run, and what has run is kept or about to be.
OnceInv ==
  \A k \in Keys \ excused :
    /\ \A p, q \in Under(k) : p = q
    /\ runs[k] <= 1
    /\ \A p \in Under(k) : post[p] = "execute" => runs[k] = 0 /\ kept[k] = Absent
    /\ runs[k] = 0 \/ kept[k] # Absent \/ \E p \in Under(k) : post[p] \in {"invalidate", "store"}

CacheIInv == HShape /\ PageIsCurrent /\ OnceInv

\* The requests for the page, and answers that expire.
LEMMA PageStep ==
  ASSUME CacheIInv,
         \/ PageExpires \/ \E k \in Keys : AnswerExpires(k)
         \/ \E g \in Gets : GetHit(g) \/ GetMiss(g) \/ GetCompute(g) \/ GetStore(g)
  PROVE  CacheIInv'
<1> USE DEF CacheIInv
<1>1. UNCHANGED <<data, post, runs>>
  BY DEF PageExpires, AnswerExpires, GetHit, GetMiss, GetCompute, GetStore
<1>2. \/ UNCHANGED <<kept, excused>>
      \/ \E k \in Keys : kept' = [kept EXCEPT ![k] = Absent] /\ excused' = excused \cup {k}
  BY DEF PageExpires, AnswerExpires, GetHit, GetMiss, GetCompute, GetStore
<1>3. \/ UNCHANGED <<page, stale>> \/ page' = Absent
      \/ \E g \in Gets : page' = fresh[g] /\ stale' = (fresh[g] # data)
  BY DEF PageExpires, AnswerExpires, GetHit, GetMiss, GetCompute, GetStore
<1>4. PageIsCurrent'
  BY <1>1, <1>3 DEF PageIsCurrent
<1>5. HShape'
  BY <1>1, <1>2 DEF HShape, Absent
<1>6. \A k \in Keys : Under(k)' = Under(k)
  BY <1>1 DEF Under
<1>7. \A k \in Keys \ excused' : kept'[k] = kept[k] /\ k \notin excused
  BY <1>2 DEF HShape
<1>8. OnceInv'
  BY <1>1, <1>6, <1>7 DEF OnceInv
<1>. QED
  BY <1>4, <1>5, <1>8

\* A request that writes, step by step.
LEMMA PostStep ==
  ASSUME CacheIInv, NEW p \in Posts,
         \/ PostReplay(p) \/ PostMiss(p) \/ PostExecute(p) \/ PostRefused(p)
         \/ ClientLeaves(p) \/ PostInvalidate(p) \/ PostStore(p)
  PROVE  CacheIInv'
<1> USE DEF CacheIInv, PGoto
<1> DEFINE key == KeyOf[p]
<1>1. CASE PostReplay(p) \/ ClientLeaves(p)
  <2>1. /\ UNCHANGED <<data, page, stale, kept, runs, excused>>
        /\ post' = post \/ (post[p] = "idle" /\ post' = [post EXCEPT ![p] = "done"])
    BY <1>1 DEF PostReplay, ClientLeaves
  <2>2. \A q \in Posts : post'[q] = post[q] \/ (post[q] = "idle" /\ post'[q] = "done")
    BY <2>1 DEF HShape
  <2>3. \A k \in Keys : Under(k)' = Under(k)
    BY <2>2 DEF Under
  <2>4. HShape' /\ PageIsCurrent'
    BY <2>1, <2>2 DEF HShape, PageIsCurrent
  <2>5. \A k \in Keys : \A q \in Under(k) : post'[q] = post[q]
    BY <2>2 DEF Under
  <2>6. OnceInv'
    BY <2>1, <2>3, <2>5 DEF OnceInv
  <2>. QED
    BY <2>4, <2>6
<1>2. ASSUME NEW s \in {"execute", "invalidate", "store", "done"}, post' = [post EXCEPT ![p] = s]
      PROVE  /\ \A k \in Keys : k # key => Under(k)' = Under(k)
             /\ key \in Keys => Under(key)' = IF s = "done" THEN Under(key) \ {p} ELSE Under(key) \cup {p}
             /\ \A q \in Posts \ {p} : post'[q] = post[q]
             /\ post'[p] = s /\ post' \in [Posts -> {"idle", "execute", "invalidate", "store", "done"}]
  BY <1>2 DEF Under, HShape
<1>3. ASSUME \A k \in Keys \ excused' : k # key => k \notin excused /\ kept'[k] = kept[k] /\ runs'[k] = runs[k],
             NEW s \in {"execute", "invalidate", "store", "done"}, post' = [post EXCEPT ![p] = s],
             key \in Keys \ excused' =>
               /\ \A q, r \in Under(key)' : q = r
               /\ runs'[key] <= 1
               /\ \A q \in Under(key)' : post'[q] = "execute" => runs'[key] = 0 /\ kept'[key] = Absent
               /\ runs'[key] = 0 \/ kept'[key] # Absent
                    \/ \E q \in Under(key)' : post'[q] \in {"invalidate", "store"}
      PROVE  OnceInv'
  <2>1. ASSUME NEW k \in Keys \ excused', k # key
        PROVE  /\ \A q, r \in Under(k)' : q = r
               /\ runs'[k] <= 1
               /\ \A q \in Under(k)' : post'[q] = "execute" => runs'[k] = 0 /\ kept'[k] = Absent
               /\ runs'[k] = 0 \/ kept'[k] # Absent
                    \/ \E q \in Under(k)' : post'[q] \in {"invalidate", "store"}
    <3>1. Under(k)' = Under(k) /\ k \notin excused /\ kept'[k] = kept[k] /\ runs'[k] = runs[k]
      BY <1>2, <1>3, <2>1
    <3>2. \A q \in Under(k) : post'[q] = post[q]
      BY <1>2, <1>3, <2>1 DEF Under
    <3>. QED
      BY <3>1, <3>2 DEF OnceInv
  <2>. QED
    BY <1>3, <2>1 DEF OnceInv
<1>4. p \in Under(key) <=> post[p] \notin {"idle", "done"}
  BY DEF Under
<1>5. key \in Keys \ excused /\ post[p] \notin {"idle", "done"} => Under(key) = {p}
  BY <1>4 DEF OnceInv
<1>6. CASE PostMiss(p)
  <2>1. /\ UNCHANGED <<data, page, stale, kept, runs>> /\ post' = [post EXCEPT ![p] = "execute"]
        /\ excused \subseteq excused' /\ post[p] = "idle"
        /\ key \in Keys \ excused' => Under(key) = {} /\ kept[key] = Absent
    BY <1>6 DEF PostMiss
  <2>2. HShape' /\ PageIsCurrent'
    BY <2>1 DEF HShape, PageIsCurrent
  <2>3. key \in Keys \ excused' => Under(key)' = {p} /\ runs[key] = 0
    BY <1>2, <2>1 DEF OnceInv, HShape
  <2>4. OnceInv'
    BY <1>2, <1>3, <2>1, <2>3 DEF HShape
  <2>. QED
    BY <2>2, <2>4
<1>7. CASE PostExecute(p)
  <2>1. /\ UNCHANGED <<page, stale, kept, excused>> /\ post' = [post EXCEPT ![p] = "invalidate"]
        /\ data' = data + 1 /\ post[p] = "execute"
        /\ runs' = IF key \in Keys THEN [runs EXCEPT ![key] = runs[key] + 1] ELSE runs
    BY <1>7 DEF PostExecute
  <2>2. /\ runs' \in [Keys -> Nat] /\ \A k \in Keys : k # key => runs'[k] = runs[k]
        /\ key \in Keys => runs'[key] = runs[key] + 1
    BY <2>1 DEF HShape
  <2>3. HShape' /\ PageIsCurrent'
    BY <1>2, <2>1, <2>2 DEF HShape, PageIsCurrent
  <2>4. key \in Keys \ excused => Under(key)' = {p} /\ runs[key] = 0 /\ post'[p] = "invalidate"
    BY <1>2, <1>4, <1>5, <2>1 DEF OnceInv
  <2>5. OnceInv'
    BY <1>3, <2>1, <2>2, <2>4
  <2>. QED
    BY <2>3, <2>5
<1>8. CASE PostRefused(p)
  <2>1. /\ UNCHANGED <<data, page, stale, kept, excused, runs>> /\ post' = [post EXCEPT ![p] = "done"]
        /\ post[p] = "execute"
    BY <1>8 DEF PostRefused
  <2>2. HShape' /\ PageIsCurrent'
    BY <1>2, <2>1 DEF HShape, PageIsCurrent
  <2>3. key \in Keys \ excused => Under(key)' = {} /\ runs[key] = 0
    BY <1>2, <1>4, <1>5, <2>1 DEF OnceInv
  <2>4. OnceInv'
    BY <1>3, <2>1, <2>3
  <2>. QED
    BY <2>2, <2>4
<1>9. CASE PostInvalidate(p)
  <2>1. /\ UNCHANGED <<data, kept, excused, runs>> /\ post' = [post EXCEPT ![p] = "store"]
        /\ post[p] = "invalidate" /\ (page' = Absent \/ stale' = TRUE)
    BY <1>9 DEF PostInvalidate
  <2>2. HShape' /\ PageIsCurrent'
    BY <1>2, <2>1 DEF HShape, PageIsCurrent
  <2>3. key \in Keys \ excused => Under(key)' = {p} /\ runs[key] <= 1 /\ post'[p] = "store"
    BY <1>2, <1>4, <1>5, <2>1 DEF OnceInv
  <2>4. OnceInv'
    BY <1>3, <2>1, <2>3
  <2>. QED
    BY <2>2, <2>4
<1>10. CASE PostStore(p)
  <2>1. /\ UNCHANGED <<data, page, stale, runs>> /\ post' = [post EXCEPT ![p] = "done"]
        /\ post[p] = "store" /\ excused \subseteq excused'
        /\ \/ kept' = [k \in Keys |-> IF k = key THEN data ELSE kept[k]]
           \/ kept' = kept /\ (key \in Keys => key \in excused')
    BY <1>10 DEF PostStore, Excuse
  <2>2. HShape' /\ PageIsCurrent'
    BY <1>2, <2>1 DEF HShape, PageIsCurrent
  <2>3. /\ \A k \in Keys : k # key => kept'[k] = kept[k]
        /\ key \in Keys \ excused' => kept'[key] # Absent
    BY <2>1 DEF HShape, Absent
  <2>4. key \in Keys \ excused' => Under(key)' = {} /\ runs[key] <= 1
    BY <1>2, <1>4, <1>5, <2>1 DEF OnceInv
  <2>5. OnceInv'
    BY <1>3, <2>1, <2>3, <2>4
  <2>. QED
    BY <2>2, <2>5
<1>. QED
  BY <1>1, <1>6, <1>7, <1>8, <1>9, <1>10

\* CacheIInv holds all the time.
LEMMA CacheKeeps == HSpec => []CacheIInv
<1>1. HInit => CacheIInv
  BY DEF HInit, CacheIInv, HShape, PageIsCurrent, OnceInv, Under, Absent
<1>2. CacheIInv /\ [HNext]_hVars => CacheIInv'
  <2>1. ASSUME CacheIInv, UNCHANGED hVars PROVE CacheIInv'
    BY <2>1 DEF hVars, CacheIInv, HShape, PageIsCurrent, OnceInv, Under
  <2>. QED
    BY <2>1, PageStep, PostStep DEF HNext
<1>. QED
  BY <1>1, <1>2, PTL DEF HSpec

\* No order of writes leaves an old page behind by itself, and a request that is
\* sent again with its key runs once unless the two overlapped or the first
\* answer was not kept (cached, Idempotency).
THEOREM CacheHolds == HSpec => []CacheInv
<1>1. CacheIInv => CacheInv
  BY DEF CacheIInv, OnceInv, CacheInv, OncePerKey
<1>. QED
  BY <1>1, CacheKeeps, PTL

--------------------------------------------------------------------------------
(* The token bucket.                                                         *)

\* A script runs, or its caller gives up, within the second that the time to live
\* adds to the time in which a bucket fills, and the tick after it.
AnswersInTime == MaxDelay \in Nat /\ MaxDelay <= 2

Full == Burst * Cost
Used(S) == Cardinality(S) * Cost

Since(from)       == {h \in admitted : from <= stamp[h]}
Between(from, to) == {h \in admitted : from <= stamp[h] /\ stamp[h] <= to}

KShape ==
  /\ clock \in Nat /\ ttl \in Nat /\ reordered \in BOOLEAN
  /\ ts \in Int /\ Never <= ts /\ ts <= clock
  /\ tokens \in Nat /\ tokens <= Full
  /\ stamp \in [Hits -> Int] /\ \A h \in Hits : Never <= stamp[h] /\ stamp[h] <= clock
  /\ admitted \subseteq ran /\ ran \subseteq Hits /\ IsFiniteSet(admitted)
  /\ \A h \in ran : stamp[h] # Never
  /\ open \subseteq Hits \ ran /\ IsFiniteSet(open)
  /\ born \in Int /\ Never <= born /\ born <= clock
  /\ \A h \in Hits \ (ran \cup open) : stamp[h] # Never => clock - stamp[h] <= MaxDelay

\* Since Redis has started, no stretch of time had more than a burst and what the
\* rate adds; of the stretches that reach to the last request the tokens that are
\* left are paid too; and what has been forgotten is longer ago than a bucket takes
\* to fill.
RateInv ==
  /\ \A from, to \in Nat : born < from /\ from <= to => Used(Between(from, to)) <= Full + (to - from)
  /\ ts # Never =>
       /\ \A h \in admitted : stamp[h] <= ts \/ stamp[h] <= born
       /\ \A from \in Nat : born < from /\ from <= ts => Used(Since(from)) + tokens <= Full + (ts - from)
       /\ ttl + (clock - ts) >= Full + 1
  /\ ts = Never => \A h \in admitted : stamp[h] + Full + 2 <= clock \/ stamp[h] <= born

RateIInv == KShape /\ (~reordered => RateInv)

\* Tokens that requests have used.
LEMMA UsedIs ==
  /\ Full \in Nat /\ Used({}) = 0
  /\ \A S : IsFiniteSet(S) => Used(S) \in Nat
  /\ \A S, h : IsFiniteSet(S) /\ h \notin S => Used(S \cup {h}) = Used(S) + Cost
<1>1. Full \in Nat
  BY BucketAssumption DEF Full
<1>2. Used({}) = 0
  BY FS_EmptySet, BucketAssumption DEF Used
<1>3. ASSUME NEW S, IsFiniteSet(S) PROVE Used(S) \in Nat
  <2>1. Cardinality(S) \in Nat
    BY <1>3, FS_CardinalityType
  <2>. QED
    BY <2>1, BucketAssumption DEF Used
<1>4. ASSUME NEW S, IsFiniteSet(S), NEW h, h \notin S PROVE Used(S \cup {h}) = Used(S) + Cost
  <2>1. Cardinality(S) \in Nat /\ Cardinality(S \cup {h}) = Cardinality(S) + 1
    BY <1>4, FS_CardinalityType, FS_AddElement
  <2>2. ASSUME NEW n \in Nat PROVE (n + 1) * Cost = n * Cost + Cost
    BY BucketAssumption
  <2>. QED
    BY <2>1, <2>2 DEF Used
<1>. QED
  BY <1>1, <1>2, <1>3, <1>4

\* The bucket as the script finds it.
LEMMA FilledIs ==
  ASSUME KShape, NEW h \in Hits, stamp[h] # Never
  PROVE  /\ Filled(h) \in Nat /\ Filled(h) <= Full
         /\ ts = Never => Filled(h) = Full
         /\ ts # Never /\ ts <= stamp[h] => Filled(h) <= tokens + (stamp[h] - ts)
<1>1. Full \in Nat /\ Burst * Cost = Full
  BY UsedIs DEF Full
<1>2. stamp[h] \in Int /\ ts \in Int /\ tokens \in Nat
  BY DEF KShape
<1>3. Most(0, stamp[h] - ts) \in Nat /\ (ts <= stamp[h] => Most(0, stamp[h] - ts) = stamp[h] - ts)
  BY <1>2 DEF Most
<1>. QED
  BY <1>1, <1>2, <1>3 DEF Filled, Least, KShape

\* Time passes, and a request takes its time or is given up.
LEMMA TimeStep ==
  ASSUME AnswersInTime, RateIInv, Tick \/ \E h \in Hits : Arrive(h) \/ GiveUp(h)
  PROVE  RateIInv'
<1> USE DEF RateIInv, Never
<1>0. Full \in Nat
  BY UsedIs
<1>1. CASE Tick
  <2>1. /\ clock' = clock + 1 /\ UNCHANGED <<stamp, ran, admitted, open, tokens, born, reordered>>
        /\ ttl' = (IF ttl > 0 THEN ttl - 1 ELSE 0)
        /\ ts' = (IF ts # Never /\ ttl = 0 THEN Never ELSE ts)
        /\ \A h \in Hits \ (ran \cup open) : stamp[h] # Never => clock - stamp[h] < MaxDelay
    BY <1>1 DEF Tick
  <2>2. KShape'
    BY <2>1 DEF KShape, AnswersInTime
  <2>3. \A from, to : Between(from, to)' = Between(from, to) /\ Since(from)' = Since(from)
    BY <2>1 DEF Between, Since
  <2>4. ASSUME ~reordered PROVE RateInv'
    BY <1>0, <2>1, <2>3, <2>4 DEF RateInv, KShape
  <2>. QED
    BY <2>1, <2>2, <2>4
<1>2. ASSUME NEW h \in Hits, Arrive(h) \/ GiveUp(h) PROVE RateIInv'
  <2>1. /\ UNCHANGED <<clock, ran, admitted, tokens, ts, ttl, born, reordered>>
        /\ \/ stamp[h] = Never /\ stamp' = [stamp EXCEPT ![h] = clock] /\ UNCHANGED open
           \/ h \notin ran /\ open' = open \cup {h} /\ UNCHANGED stamp
    BY <1>2 DEF Arrive, GiveUp
  <2>2. \A g \in admitted : stamp'[g] = stamp[g]
    BY <2>1 DEF KShape
  <2>3. KShape'
    <3>1. IsFiniteSet(open')
      BY <2>1, FS_AddElement DEF KShape
    <3>. QED
      BY <2>1, <2>2, <3>1 DEF KShape, AnswersInTime
  <2>4. \A from, to : Between(from, to)' = Between(from, to) /\ Since(from)' = Since(from)
    BY <2>1, <2>2 DEF Between, Since
  <2>5. ASSUME ~reordered PROVE RateInv'
    BY <2>1, <2>2, <2>4, <2>5 DEF RateInv
  <2>. QED
    BY <2>1, <2>3, <2>5
<1>. QED
  BY <1>1, <1>2

\* Nothing that is asked after Redis has started has been let through yet.
LEMMA RestartStep ==
  ASSUME RateIInv, RedisRestarts PROVE RateIInv'
<1>1. /\ born' = clock /\ ts' = Never /\ tokens' = 0 /\ ttl' = 0 /\ reordered' = FALSE
      /\ UNCHANGED <<clock, stamp, ran, admitted, open>>
  BY DEF RedisRestarts
<1>0. Full \in Nat
  BY UsedIs
<1>2. KShape'
  <2>1. clock \in Nat /\ tokens' \in Nat /\ tokens' <= Full /\ ttl' \in Nat /\ reordered' \in BOOLEAN
    <3>1. clock \in Nat
      BY DEF RateIInv, KShape
    <3>2. reordered' \in BOOLEAN
      BY <1>1
    <3>3. tokens' \in Nat /\ tokens' <= Full /\ ttl' \in Nat
      BY <1>0, <1>1
    <3>. QED
      BY <3>1, <3>2, <3>3
  <2>2. /\ ts' \in Int /\ Never <= ts' /\ ts' <= clock
        /\ born' \in Int /\ Never <= born' /\ born' <= clock
    BY <1>1, <2>1 DEF Never
  <2>. QED
    BY <1>1, <2>1, <2>2 DEF RateIInv, KShape
<1>3. \A g \in admitted' : stamp'[g] <= born'
  BY <1>1 DEF RateIInv, KShape
<1>4. ASSUME NEW from \in Nat, NEW to \in Nat, born' < from, from <= to
      PROVE  Used(Between(from, to)') <= Full + (to - from)
  <2>1. \A g \in admitted' : stamp'[g] \in Int /\ born' \in Int
    BY <1>1 DEF RateIInv, KShape
  <2>2. Between(from, to)' = {}
    BY <1>3, <1>4, <2>1 DEF Between
  <2>. QED
    BY <1>4, <2>2, UsedIs
<1>5. RateInv'
  BY <1>1, <1>3, <1>4 DEF RateInv
<1>. QED
  BY <1>2, <1>5 DEF RateIInv

\* What a request is let through with is what the bucket held, or what filled it;
\* a script nobody hears of only takes from it.
LEMMA ScriptStep ==
  ASSUME AnswersInTime, RateIInv, NEW h \in Hits, RunScript(h) \/ LoseAnswer(h)
  PROVE  RateIInv'
<1> USE DEF RateIInv
<1> DEFINE s == stamp[h]
           F == Filled(h)
<1>1. /\ s # Never /\ ts' = s
      /\ UNCHANGED <<clock, stamp, open, born>> /\ reordered' = (reordered \/ ts > s)
      /\ \/ F >= Cost /\ h \notin ran \cup open /\ ran' = ran \cup {h} /\ admitted' = admitted \cup {h} /\ tokens' = F - Cost
         \/ /\ ran' = ran \/ (h \notin ran \cup open /\ ran' = ran \cup {h})
            /\ admitted' = admitted /\ tokens' = (IF F >= Cost THEN F - Cost ELSE F)
  BY DEF RunScript, LoseAnswer, Script
<1>2. ttl' = Full + 1
  BY DEF RunScript, LoseAnswer, Script, Full
<1>3. /\ s \in Nat /\ s <= clock /\ clock - s <= 2 /\ ts \in Int /\ clock \in Nat
      /\ IsFiniteSet(admitted)
  BY <1>1 DEF KShape, AnswersInTime, Never, RunScript, LoseAnswer
<1>4. /\ F \in Nat /\ F <= Full /\ (ts = Never => F = Full)
      /\ ts # Never /\ ts <= s => F <= tokens + (s - ts)
  BY <1>1, FilledIs
<1>5. Full \in Nat /\ Cost \in Nat
  BY UsedIs, BucketAssumption
<1>6. IsFiniteSet(admitted \cup {h})
  BY <1>3, FS_AddElement
<1> HIDE DEF F
<1>a. \/ /\ F >= Cost /\ h \notin admitted /\ h \in admitted'
         /\ admitted' = admitted \cup {h} /\ tokens' = F - Cost
      \/ admitted' = admitted /\ tokens' \in Nat /\ tokens' <= F
  BY <1>1, <1>4, <1>5 DEF KShape
<1>7. KShape'
  <2>1. ttl' \in Nat /\ reordered' \in BOOLEAN /\ tokens' \in Nat /\ tokens' <= Full
    BY <1>1, <1>2, <1>3, <1>4, <1>5 DEF KShape
  <2>2. admitted' \subseteq ran' /\ ran' \subseteq Hits /\ IsFiniteSet(admitted')
    BY <1>1, <1>3, <1>6 DEF KShape
  <2>3. ts' \in Int /\ Never <= ts' /\ ts' <= clock'
    BY <1>1, <1>3 DEF Never
  <2>4. \A g \in ran' : stamp'[g] # Never
    BY <1>1 DEF KShape
  <2>5. \A g \in Hits \ (ran' \cup open') : stamp'[g] # Never => clock' - stamp'[g] <= MaxDelay
    BY <1>1 DEF KShape
  <2>6. open' \subseteq Hits \ ran' /\ IsFiniteSet(open') /\ born' \in Int /\ Never <= born' /\ born' <= clock'
    BY <1>1 DEF KShape
  <2>. QED
    BY <1>1, <2>1, <2>2, <2>3, <2>4, <2>5, <2>6 DEF KShape
<1>8. ASSUME ~reordered' PROVE RateInv'
  <2>1. RateInv /\ ts <= s
    <3>1. ~reordered /\ ~(ts > s)
      BY <1>1, <1>8, Zenon
    <3>. QED
      BY <1>3, <3>1
  <2>2. born \in Int /\ \A g \in admitted : stamp[g] \in Nat /\ (stamp[g] <= s \/ stamp[g] <= born)
    <3>1. born \in Int /\ \A g \in admitted : stamp[g] \in Nat
      BY DEF KShape, Never
    <3>2. CASE ts # Never
      BY <1>3, <2>1, <3>1, <3>2 DEF RateInv
    <3>3. CASE ts = Never
      BY <1>3, <1>5, <2>1, <3>1, <3>3 DEF RateInv
    <3>. QED
      BY <3>1, <3>2, <3>3
  <2>3. ASSUME NEW from \in Nat, born < from, from <= s PROVE Used(Since(from)) + F <= Full + (s - from)
    <3>0. IsFiniteSet(Since(from)) /\ Used(Since(from)) \in Nat
      <4>1. IsFiniteSet(Since(from))
        BY <1>3, FS_Subset DEF Since
      <4>. QED
        BY <4>1, UsedIs
    <3>1. CASE ts # Never /\ from <= ts
      BY <1>3, <1>4, <1>5, <2>1, <2>3, <3>0, <3>1 DEF RateInv, KShape
    <3>2. CASE Since(from) = {}
      BY <1>3, <1>4, <1>5, <2>3, <3>2, UsedIs
    <3>3. CASE ts # Never /\ ~(from <= ts)
      <4>1. \A g \in admitted : stamp[g] \in Nat /\ (stamp[g] <= ts \/ stamp[g] <= born)
        BY <2>1, <2>2, <3>3 DEF RateInv
      <4>2. \A g \in admitted : ~(from <= stamp[g])
        BY <1>3, <2>2, <2>3, <3>3, <4>1
      <4>3. Since(from) = {}
        BY <4>2 DEF Since
      <4>. QED
        BY <3>2, <4>3
    <3>4. CASE ts = Never /\ Since(from) # {}
      <4>1. PICK g \in admitted : from <= stamp[g]
        BY <3>4 DEF Since
      <4> DEFINE to == clock - Full - 2
      <4>2. \A e \in admitted : from <= stamp[e] => stamp[e] <= to
        BY <1>3, <1>5, <2>1, <2>2, <2>3, <3>4 DEF RateInv
      <4>3. to \in Nat /\ from <= to
        BY <1>3, <1>5, <2>2, <4>1, <4>2
      <4>4. Since(from) = Between(from, to)
        BY <4>2 DEF Since, Between
      <4>5. Used(Between(from, to)) <= Full + (to - from)
        BY <2>1, <2>3, <4>3 DEF RateInv
      <4>. QED
        BY <1>3, <1>4, <1>5, <3>0, <3>4, <4>3, <4>4, <4>5
    <3>. QED
      BY <3>1, <3>2, <3>3, <3>4
  <2>4. ASSUME NEW from \in Nat, born < from, from <= s PROVE Used(Since(from)') + tokens' <= Full + (s - from)
    <3>0. IsFiniteSet(Since(from)) /\ Used(Since(from)) \in Nat
      <4>1. IsFiniteSet(Since(from))
        BY <1>3, FS_Subset DEF Since
      <4>. QED
        BY <4>1, UsedIs
    <3>1. CASE F >= Cost /\ h \notin admitted /\ admitted' = admitted \cup {h} /\ tokens' = F - Cost
      <4>1. Since(from)' = Since(from) \cup {h} /\ h \notin Since(from)
        BY <1>1, <1>3, <2>4, <3>1 DEF Since
      <4>2. Used(Since(from)') = Used(Since(from)) + Cost
        BY <3>0, <4>1, UsedIs
      <4>. QED
        BY <1>3, <1>4, <1>5, <2>3, <2>4, <3>0, <3>1, <4>2
    <3>2. CASE admitted' = admitted /\ tokens' \in Nat /\ tokens' <= F
      <4>1. Since(from)' = Since(from)
        BY <1>1, <3>2 DEF Since
      <4>. QED
        BY <1>3, <1>4, <1>5, <2>3, <2>4, <3>0, <3>2, <4>1
    <3>. QED
      BY <1>a, <3>1, <3>2
  <2>5. \A g \in admitted' : stamp'[g] \in Nat /\ (stamp'[g] <= s \/ stamp'[g] <= born)
    BY <1>1, <1>3, <2>2
  <2>6. ASSUME NEW from \in Nat, NEW to \in Nat, born < from, from <= to
        PROVE  Used(Between(from, to)') <= Full + (to - from)
    <3>1. CASE h \in admitted' /\ from <= s /\ s <= to
      <4>1. Between(from, to)' = Since(from)'
        BY <1>3, <2>2, <2>5, <2>6, <3>1 DEF Between, Since
      <4>2. IsFiniteSet(Since(from)')
        <5>1. IsFiniteSet(admitted')
          BY <1>7 DEF KShape
        <5>2. Since(from)' \subseteq admitted'
          BY DEF Since
        <5>. QED
          BY <5>1, <5>2, FS_Subset
      <4>3. Used(Since(from)') \in Nat
        BY <4>2, UsedIs
      <4>4. tokens' \in Nat
        BY <1>7 DEF KShape
      <4>. QED
        BY <1>3, <1>5, <2>4, <2>6, <3>1, <4>1, <4>3, <4>4
    <3>2. CASE ~(h \in admitted' /\ from <= s /\ s <= to)
      <4>1. Between(from, to)' = Between(from, to)
        BY <1>1, <3>2 DEF Between
      <4>. QED
        BY <2>1, <2>6, <4>1 DEF RateInv
    <3>. QED
      BY <3>1, <3>2
  <2>7. ttl' + (clock' - ts') >= Full + 1
    BY <1>1, <1>2, <1>3, <1>5
  <2>8. s \in Nat /\ ts' # Never
    BY <1>1, <1>3 DEF Never
  <2>. QED
    BY <1>1, <2>4, <2>5, <2>6, <2>7, <2>8 DEF RateInv
<1>. QED
  BY <1>7, <1>8

\* In any stretch of time since Redis has started a client gets a burst and what the
\* rate adds, and beyond that only requests that Redis did not answer for: however
\* long it has been idle, whenever Redis forgets it and however often a script is
\* sent again, as long as the scripts run in the order of the times they carry (the
\* script and Allow of cache/redis.go).
THEOREM BucketHolds == ASSUME AnswersInTime PROVE KSpec => []RateIsBounded
<1>1. KInit => RateIInv
  <2>1. SUFFICES ASSUME KInit PROVE RateIInv
    OBVIOUS
  <2>2. \A from, to : Between(from, to) = {}
    BY <2>1 DEF KInit, Between
  <2>3. IsFiniteSet({})
    BY FS_EmptySet
  <2>4. KShape
    <3>1. Full \in Nat
      BY UsedIs
    <3>2. clock = 0 /\ ttl = 0 /\ ts = -1 /\ tokens = 0
      BY <2>1 DEF KInit, Never
    <3>3. stamp \in [Hits -> Int] /\ \A h \in Hits : stamp[h] = -1
      BY <2>1 DEF KInit, Never
    <3>4. admitted = {} /\ ran = {} /\ open = {} /\ born = -1
      BY <2>1 DEF KInit, Never
    <3>. QED
      <4>1. \A h \in Hits : ~(stamp[h] # Never) /\ Never <= stamp[h] /\ stamp[h] <= clock
        BY <3>2, <3>3 DEF Never
      <4>2. IsFiniteSet(admitted) /\ admitted \subseteq ran /\ ran \subseteq Hits /\ (\A h \in ran : stamp[h] # Never)
           /\ open \subseteq Hits \ ran /\ IsFiniteSet(open)
        BY <2>3, <3>4
      <4>3. clock \in Nat /\ ttl \in Nat /\ ts \in Int /\ Never <= ts /\ ts <= clock
        BY <3>2 DEF Never
      <4>4. tokens \in Nat /\ tokens <= Full
        BY <3>1, <3>2
      <4>5. reordered \in BOOLEAN
        BY <2>1 DEF KInit
      <4>6. born \in Int /\ Never <= born /\ born <= clock
        BY <3>2, <3>4 DEF Never
      <4>. QED
        BY <3>3, <4>1, <4>2, <4>3, <4>4, <4>5, <4>6 DEF KShape
  <2>5. RateInv
    BY <2>1, <2>2, UsedIs DEF KInit, RateInv
  <2>. QED
    BY <2>4, <2>5 DEF RateIInv
<1>2. RateIInv /\ [KNext]_kVars => RateIInv'
  <2>1. ASSUME RateIInv, UNCHANGED kVars PROVE RateIInv'
    BY <2>1 DEF kVars, RateIInv, KShape, RateInv, Between, Since
  <2>. QED
    BY <2>1, TimeStep, RestartStep, ScriptStep DEF KNext
<1>3. RateIInv => RateIsBounded
  <2>1. SUFFICES ASSUME RateIInv, ~reordered, NEW from \in 0..clock, NEW to \in 0..clock, born < from, from <= to,
                        NEW through, through = {h \in admitted \cup open : stamp[h] \in from..to}
                 PROVE  Cardinality(through) * Cost <= Burst * Cost + (to - from) + Cardinality(through \cap open) * Cost
    BY DEF RateIsBounded
  <2>2. from \in Nat /\ to \in Nat /\ admitted \cap open = {} /\ IsFiniteSet(admitted) /\ IsFiniteSet(open)
    BY <2>1 DEF RateIInv, KShape
  <2>3. through \ open = Between(from, to)
    <3>1. \A h \in admitted : stamp[h] \in Int
      BY <2>1 DEF RateIInv, KShape
    <3>. QED
      BY <2>1, <2>2, <3>1 DEF Between
  <2>4. Used(Between(from, to)) <= Full + (to - from)
    BY <2>1, <2>2 DEF RateIInv, RateInv
  <2>5. IsFiniteSet(through)
    BY <2>1, <2>2, FS_Union, FS_Subset
  <2>6. PICK a \in Nat, b \in Nat : a = Cardinality(through \ open) /\ b = Cardinality(through \cap open)
                                    /\ Cardinality(through) = a + b
    <3>1. IsFiniteSet(through \ open) /\ Cardinality(through \ open) = Cardinality(through) - Cardinality(through \cap open)
      BY <2>5, FS_Difference
    <3>2. IsFiniteSet(through \cap open)
      BY <2>5, FS_Intersection
    <3>3. Cardinality(through) \in Nat /\ Cardinality(through \ open) \in Nat /\ Cardinality(through \cap open) \in Nat
      BY <2>5, <3>1, <3>2, FS_CardinalityType
    <3>. QED
      BY <3>1, <3>3
  <2>7. (a + b) * Cost = a * Cost + b * Cost
    BY BucketAssumption
  <2>8. a * Cost \in Nat /\ b * Cost \in Nat /\ Full \in Nat
    BY BucketAssumption, UsedIs
  <2>9. a * Cost <= Full + (to - from)
    BY <2>3, <2>4, <2>6 DEF Used
  <2>. QED
    BY <2>2, <2>6, <2>7, <2>8, <2>9 DEF Full
<1>. QED
  BY <1>1, <1>2, <1>3, PTL DEF KSpec

--------------------------------------------------------------------------------
(* The container of the inference runtime.                                   *)

SlotRecords ==
  [id : Starts, cfg : Launches, state : {"created", "starting", "ready", "exited"},
   by : Requests \cup {NoOne}]

Replies ==
  [is : {"none", "error", "status"}, cfg : Launches \cup {NoOne},
   state : {"none", "starting", "ready", "stopped", "left over", "error"}]

SlotShape ==
  /\ slot \in SlotRecords \cup {NoOne}
  /\ slot # NoOne => slot.cfg = WantOf[slot.id]
  /\ reqAt \in [Requests -> {"idle", "look", "stop", "remove", "removing", "create", "start", "answer", "over"}]
  /\ tries \in [Requests -> Nat] /\ \A r \in Requests : tries[r] < MaxAttempts
  /\ reply \in [Requests -> Replies]
  /\ spared \in [Starts -> Starts \cup {NoOne}] /\ crossed \subseteq Requests

\* Who has met nobody is alone.
SoloInv == \A r, q \in InFlight : r \notin crossed => q = r

\* Alone, what one has created stays, and what one has removed is gone.
OwnInv ==
  \A r \in Requests \ crossed :
    /\ r \in Starts /\ reqAt[r] \in {"start", "answer"} => slot # NoOne /\ slot.id = r /\ slot.by = NoOne
    /\ reqAt[r] = "removing" => slot = NoOne \/ slot.by = r
    /\ r \notin Starts /\ reqAt[r] = "answer" => slot = NoOne

\* Who has not looked removes nothing; nor does, ever, who saw a runtime.
SparedInv ==
  \A s \in Starts : reqAt[s] \in {"idle", "look"} \/ spared[s] # NoOne =>
    /\ slot = NoOne \/ slot.by # s
    /\ spared[s] # NoOne => reqAt[s] = "over"

\* The status that was read is of what one has done.
ToldInv ==
  \A r \in Requests \ crossed :
    reply[r].is = "status" /\ reply[r].state # "error" =>
      IF r \in Starts THEN reply[r].cfg = WantOf[r] ELSE reply[r].state = "stopped"

SlotIInv == SlotShape /\ SoloInv /\ OwnInv /\ SparedInv /\ ToldInv

\* What an answer says.
LEMMA StatusIs ==
  ASSUME SlotShape
  PROVE  /\ Status \in Replies /\ Status.is = "status" /\ Error \in Replies /\ Error.is = "error"
         /\ Unread \in Replies /\ Unread.state = "error"
         /\ slot # NoOne => Status.cfg = slot.cfg
         /\ slot = NoOne => Status.state = "stopped"
<1>0. Error \in Replies /\ Error.is = "error"
  <2>1. Error = [is |-> "error", cfg |-> NoOne, state |-> "none"]
    BY DEF Error, NoReply
  <2>. QED
    BY <2>1 DEF Replies
<1>3. Unread \in Replies /\ Unread.state = "error"
  BY BaselineAssumption DEF Unread, Replies
<1>1. CASE slot = NoOne
  <2>1. Status = [is |-> "status", cfg |-> Baseline, state |-> "stopped"]
    BY <1>1 DEF Status, Running
  <2>. QED
    BY <1>0, <1>1, <1>3, <2>1, BaselineAssumption DEF Replies
<1>2. CASE slot # NoOne
  <2>1. slot.cfg \in Launches /\ slot.state \in {"created", "starting", "ready", "exited"}
    BY <1>2 DEF SlotShape, SlotRecords
  <2>2. PICK t \in {"starting", "ready", "left over"} : Status = [is |-> "status", cfg |-> slot.cfg, state |-> t]
    <3>1. CASE Running
      BY <1>2, <3>1 DEF Status, Running
    <3>2. CASE ~Running
      BY <1>2, <3>2 DEF Status
    <3>. QED
      BY <3>1, <3>2
  <2>. QED
    BY <1>0, <1>2, <1>3, <2>1, <2>2 DEF Replies
<1>. QED
  BY <1>0, <1>1, <1>2

\* No container is no container's record.
LEMMA NoRecord == NoOne \notin SlotRecords
  BY NoContainerAssumption DEF SlotRecords, Requests

\* The end of a request whose answer is right.
LEMMA EndStep ==
  ASSUME SlotIInv, NEW r \in InFlight, NEW a \in Replies, Ends(r, a), UNCHANGED <<slot, crossed>>,
         spared' = spared \/ (r \in Starts /\ reqAt[r] = "look" /\ \E c \in Starts \cup {NoOne} : spared' = [spared EXCEPT ![r] = c]),
         r \notin crossed /\ a.is = "status" /\ a.state # "error" =>
           IF r \in Starts THEN a.cfg = WantOf[r] ELSE a.state = "stopped"
  PROVE  SlotIInv'
<1> USE DEF SlotIInv
<1>1. /\ reqAt' = [reqAt EXCEPT ![r] = "over"] /\ reply' = [reply EXCEPT ![r] = a]
      /\ tries' = [tries EXCEPT ![r] = 0] /\ r \in Requests /\ reqAt[r] \notin {"idle", "over"}
  BY DEF Ends, InFlight
<1>2. SlotShape'
  BY <1>1, MaxAttemptsAssumption DEF SlotShape
<1>3. InFlight' \subseteq InFlight /\ r \notin InFlight'
  BY <1>1 DEF InFlight, SlotShape
<1>4. SoloInv'
  BY <1>3 DEF SoloInv
<1>5. OwnInv'
  BY <1>1 DEF OwnInv, SlotShape
<1>6. SparedInv'
  BY <1>1 DEF SparedInv, SlotShape
<1>7. ToldInv'
  BY <1>1 DEF ToldInv, SlotShape
<1>. QED
  BY <1>2, <1>4, <1>5, <1>6, <1>7

\* A request that goes on alone or beside others.
LEMMA GoStep ==
  ASSUME SlotIInv, NEW r \in InFlight,
         NEW a \in {"remove", "removing", "create", "start", "answer"}, GoesTo(r, a), crossed' = crossed,
         slot' \in SlotRecords \cup {NoOne}, slot' # NoOne => slot'.cfg = WantOf[slot'.id],
         spared' = spared \/ (r \in Starts /\ spared' = [spared EXCEPT ![r] = NoOne]),
         r \notin crossed =>
           /\ r \in Starts /\ a \in {"start", "answer"} => slot' # NoOne /\ slot'.id = r /\ slot'.by = NoOne
           /\ a = "removing" => slot' = NoOne \/ slot'.by = r
           /\ r \notin Starts /\ a = "answer" => slot' = NoOne,
         slot' = NoOne \/ slot'.by \in {r, NoOne} \/ (slot # NoOne /\ slot'.by = slot.by)
  PROVE  SlotIInv'
<1> USE DEF SlotIInv
<1>1. /\ reqAt' = [reqAt EXCEPT ![r] = a] /\ UNCHANGED <<reply, tries>>
      /\ r \in Requests /\ reqAt[r] \notin {"idle", "over"}
  BY DEF GoesTo, InFlight
<1>2. SlotShape'
  BY <1>1 DEF SlotShape
<1>3. InFlight' = InFlight
  BY <1>1 DEF InFlight, SlotShape
<1>4. SoloInv'
  BY <1>3 DEF SoloInv
<1>5. ASSUME NEW q \in Requests \ crossed, q # r PROVE reqAt'[q] \notin {"start", "answer", "removing"}
  BY <1>1, <1>5 DEF SoloInv, InFlight, SlotShape
<1>6. OwnInv'
  BY <1>1, <1>5 DEF OwnInv, SlotShape
<1>7. SparedInv'
  <2>1. SUFFICES ASSUME NEW s \in Starts, reqAt'[s] \in {"idle", "look"} \/ spared'[s] # NoOne
                 PROVE  (slot' = NoOne \/ slot'.by # s) /\ (spared'[s] # NoOne => reqAt'[s] = "over")
    BY DEF SparedInv
  <2>2. s # r
    BY <1>1, <2>1 DEF SparedInv, SlotShape
  <2>3. reqAt'[s] = reqAt[s] /\ spared'[s] = spared[s] /\ s # NoOne
    BY <1>1, <2>1, <2>2, NoOneAssumption DEF SlotShape
  <2>. QED
    BY <2>1, <2>2, <2>3 DEF SparedInv
<1>8. ToldInv'
  BY <1>1 DEF ToldInv
<1>. QED
  BY <1>2, <1>4, <1>6, <1>7, <1>8

\* The engine by itself.
LEMMA EngineStep ==
  ASSUME SlotIInv, RemovalEnds \/ EngineBoots \/ EngineExits
  PROVE  SlotIInv'
<1> USE DEF SlotIInv
<1>1. UNCHANGED <<reqAt, tries, reply, spared, crossed>>
  BY DEF RemovalEnds, EngineBoots, EngineExits
<1>2. \/ slot # NoOne /\ slot.by # NoOne /\ slot' = NoOne
      \/ /\ slot # NoOne /\ slot' \in SlotRecords
         /\ slot'.id = slot.id /\ slot'.cfg = slot.cfg /\ slot'.by = slot.by
  <2>1. slot # NoOne => slot \in SlotRecords
    BY DEF SlotShape
  <2>2. ASSUME NEW t \in {"ready", "exited"}, slot # NoOne, slot' = [slot EXCEPT !.state = t]
        PROVE  slot' \in SlotRecords /\ slot'.id = slot.id /\ slot'.cfg = slot.cfg /\ slot'.by = slot.by
    BY <2>1, <2>2 DEF SlotRecords
  <2>. QED
    BY <2>2 DEF RemovalEnds, EngineBoots, EngineExits, Removing, Running
<1>3. SlotShape'
  BY <1>1, <1>2 DEF SlotShape
<1>4. SoloInv' /\ ToldInv'
  BY <1>1 DEF SoloInv, ToldInv, InFlight
<1>5. OwnInv' /\ SparedInv'
  BY <1>1, <1>2, NoRecord DEF OwnInv, SparedInv
<1>. QED
  BY <1>3, <1>4, <1>5

\* A request arrives alone, or has met everyone under way.
LEMMA ArriveStep ==
  ASSUME SlotIInv, NEW r \in Requests, Arrives(r) PROVE SlotIInv'
<1> USE DEF SlotIInv
<1>1. PICK a \in {"look", "stop"} : reqAt' = [reqAt EXCEPT ![r] = a] /\ (r \in Starts => a = "look")
  BY DEF Arrives, GoesTo
<1>2. /\ reqAt[r] = "idle" /\ UNCHANGED <<reply, tries, slot, spared>>
      /\ crossed' = IF InFlight = {} THEN crossed ELSE crossed \cup InFlight \cup {r}
  BY DEF Arrives, GoesTo
<1>3. InFlight' = InFlight \cup {r} /\ InFlight \subseteq Requests
  BY <1>1, <1>2 DEF InFlight, SlotShape
<1>4. SlotShape'
  BY <1>1, <1>2, <1>3 DEF SlotShape
<1>5. SoloInv'
  BY <1>2, <1>3 DEF SoloInv
<1>6. OwnInv'
  <2>1. ASSUME NEW q \in Requests \ crossed', reqAt'[q] \in {"start", "answer", "removing"}
        PROVE  q \notin crossed /\ reqAt'[q] = reqAt[q]
    BY <1>1, <1>2, <2>1 DEF SlotShape
  <2>. QED
    BY <1>2, <2>1 DEF OwnInv
<1>7. SparedInv'
  <2>1. ASSUME NEW s \in Starts, reqAt'[s] \in {"idle", "look"} PROVE reqAt[s] \in {"idle", "look"}
    BY <1>1, <1>2, <2>1 DEF SlotShape, Requests
  <2>2. ASSUME NEW s \in Starts, reqAt[s] = "over" PROVE reqAt'[s] = "over"
    BY <1>1, <1>2, <2>2 DEF SlotShape, Requests
  <2>. QED
    BY <1>2, <2>1, <2>2 DEF SparedInv
<1>8. ToldInv'
  BY <1>2 DEF ToldInv
<1>. QED
  BY <1>4, <1>5, <1>6, <1>7, <1>8

\* The calls of a request, one by one.
LEMMA CallStep ==
  ASSUME SlotIInv, NEW r \in Requests,
         \/ RemoveCall(r) \/ RemoveReply(r) \/ AnswerStatus(r) \/ CallFails(r)
         \/ (r \in Starts /\ (Look(r) \/ Create(r) \/ Launch(r)))
         \/ (r \in Stops /\ StopCall(r))
  PROVE  SlotIInv'
<1>1. r \in InFlight
  BY DEF InFlight, RemoveCall, RemoveReply, AnswerStatus, CallFails, Look, Create, Launch, StopCall
<1>2. SlotShape /\ OwnInv
  BY DEF SlotIInv
<1>3. /\ Status \in Replies /\ Status.is = "status" /\ Error \in Replies /\ Error.is = "error"
      /\ Unread \in Replies /\ Unread.state = "error"
      /\ slot # NoOne => Status.cfg = slot.cfg
      /\ slot = NoOne => Status.state = "stopped"
  BY <1>2, StatusIs
<1>4. slot # NoOne => /\ slot \in SlotRecords /\ slot.cfg = WantOf[slot.id]
                      /\ slot.id \in Starts /\ slot.by \in Requests \cup {NoOne}
  BY <1>2 DEF SlotShape, SlotRecords
<1>5. ASSUME NEW t \in {"created", "starting", "ready", "exited"}, slot # NoOne
      PROVE  LET c == [slot EXCEPT !.state = t] IN
             c \in SlotRecords /\ c.cfg = WantOf[c.id] /\ c.id = slot.id /\ c.by = slot.by
  BY <1>4, <1>5 DEF SlotRecords
<1>6. CASE r \in Starts /\ Look(r)
  <2>1. UNCHANGED <<slot, crossed>> /\ reqAt[r] = "look"
    BY <1>6 DEF Look
  <2>2. CASE /\ spared' = [spared EXCEPT ![r] = IF Running THEN slot.id ELSE NoOne]
             /\ Running /\ Ends(r, IF slot.cfg = WantOf[r] THEN Status ELSE Error)
    <3>1. slot # NoOne /\ spared' = [spared EXCEPT ![r] = slot.id] /\ slot.id \in Starts
      BY <1>4, <2>2 DEF Running
    <3>2. PICK a \in Replies : Ends(r, a) /\ (a.is = "status" => a.cfg = WantOf[r])
      BY <1>3, <2>2, <3>1
    <3>. QED
      BY <1>1, <1>6, <2>1, <3>1, <3>2, EndStep
  <2>3. CASE GoesTo(r, "remove") /\ (spared' = spared \/ spared' = [spared EXCEPT ![r] = NoOne])
    BY <1>1, <1>2, <1>6, <2>1, <2>3, GoStep DEF SlotShape
  <2>. QED
    BY <1>6, <2>2, <2>3 DEF Look
<1>7. CASE r \in Stops /\ StopCall(r)
  <2>1. /\ GoesTo(r, "remove") /\ UNCHANGED <<spared, crossed>>
        /\ slot' = slot \/ (slot # NoOne /\ slot' = [slot EXCEPT !.state = "exited"])
    BY <1>7 DEF StopCall, Running
  <2>2. /\ slot' \in SlotRecords \cup {NoOne}
        /\ slot' # NoOne => slot'.cfg = WantOf[slot'.id]
        /\ slot' = NoOne \/ (slot # NoOne /\ slot'.by = slot.by)
    BY <1>2, <1>5, <2>1 DEF SlotShape
  <2>. QED
    BY <1>1, <2>1, <2>2, GoStep
<1>8. CASE RemoveCall(r)
  <2>1. UNCHANGED <<spared, crossed>> /\ reqAt[r] = "remove"
    BY <1>8 DEF RemoveCall
  <2>2. CASE slot = NoOne /\ GoesTo(r, AfterRemove(r)) /\ UNCHANGED slot
    <3>1. PICK a \in {"create", "answer"} : GoesTo(r, a) /\ (r \in Starts => a = "create")
      BY <2>2 DEF AfterRemove
    <3>. QED
      BY <1>1, <2>1, <2>2, <3>1, GoStep
  <2>3. CASE UNCHANGED slot /\ Ends(r, Error)
    BY <1>1, <1>3, <2>1, <2>3, EndStep
  <2>4. CASE UNCHANGED <<slot, reqAt, reply>> /\ tries[r] + 1 # MaxAttempts /\ tries' = [tries EXCEPT ![r] = tries[r] + 1]
    <3>1. SlotShape'
      BY <1>2, <2>1, <2>4, MaxAttemptsAssumption DEF SlotShape
    <3>. QED
      BY <2>1, <2>4, <3>1 DEF SlotIInv, SoloInv, InFlight, OwnInv, SparedInv, ToldInv
  <2>5. CASE slot # NoOne /\ slot' = [slot EXCEPT !.by = r] /\ GoesTo(r, "removing")
    <3>1. slot' \in SlotRecords /\ slot'.cfg = WantOf[slot'.id] /\ slot'.by = r
      BY <1>4, <2>5 DEF SlotRecords
    <3>. QED
      BY <1>1, <2>1, <2>5, <3>1, GoStep
  <2>. QED
    BY <1>8, <2>2, <2>3, <2>4, <2>5 DEF RemoveCall
<1>9. CASE RemoveReply(r)
  <2>1. PICK a \in {"create", "answer"} : GoesTo(r, a) /\ (r \in Starts => a = "create")
    BY <1>9 DEF RemoveReply, AfterRemove
  <2>2. UNCHANGED <<slot, spared, crossed>> /\ (r \notin crossed => slot = NoOne)
    BY <1>2, <1>9 DEF RemoveReply, OwnInv
  <2>. QED
    BY <1>1, <1>2, <1>4, <2>1, <2>2, GoStep DEF SlotShape
<1>10. CASE r \in Starts /\ (Create(r) \/ Launch(r))
  <2>1. UNCHANGED <<spared, crossed>>
    BY <1>10 DEF Create, Launch
  <2>2. CASE UNCHANGED slot /\ Ends(r, Error)
    BY <1>1, <1>3, <2>1, <2>2, EndStep
  <2>3. CASE slot' = [id |-> r, cfg |-> WantOf[r], state |-> "created", by |-> NoOne] /\ GoesTo(r, "start")
    <3>1. slot' \in SlotRecords /\ slot'.cfg = WantOf[slot'.id] /\ slot'.by = NoOne /\ slot'.id = r
      BY <1>10, <2>3, WantOfAssumption DEF SlotRecords
    <3>. QED
      BY <1>1, <1>10, <2>1, <2>3, <3>1, NoRecord, GoStep
  <2>4. CASE /\ slot # NoOne /\ slot.id = r /\ slot.by = NoOne
             /\ slot' = [slot EXCEPT !.state = "starting"] /\ GoesTo(r, "answer")
    <3>1. slot' \in SlotRecords /\ slot'.cfg = WantOf[slot'.id] /\ slot'.by = NoOne /\ slot'.id = r
      BY <1>5, <2>4
    <3>. QED
      BY <1>1, <1>10, <2>1, <2>4, <3>1, NoRecord, GoStep
  <2>. QED
    BY <1>10, <2>2, <2>3, <2>4 DEF Create, Launch, Removing
<1>11. CASE AnswerStatus(r)
  <2>1. reqAt[r] = "answer" /\ UNCHANGED <<slot, spared, crossed>> /\ (Ends(r, Status) \/ Ends(r, Unread))
    BY <1>11 DEF AnswerStatus
  <2>2. r \notin crossed => IF r \in Starts THEN Status.cfg = WantOf[r] ELSE Status.state = "stopped"
    BY <1>2, <1>3, <1>4, <2>1 DEF OwnInv
  <2>3. CASE Ends(r, Status)
    BY <1>1, <1>3, <2>1, <2>2, <2>3, EndStep
  <2>4. CASE Ends(r, Unread)
    BY <1>1, <1>3, <2>1, <2>4, EndStep
  <2>. QED
    BY <2>1, <2>3, <2>4
<1>12. CASE CallFails(r)
  BY <1>1, <1>3, <1>12, EndStep DEF CallFails
<1>. QED
  BY <1>6, <1>7, <1>8, <1>9, <1>10, <1>11, <1>12

\* SlotIInv holds all the time.
LEMMA SlotKeeps == SlotSpec => []SlotIInv
<1>1. SlotInit => SlotIInv
  <2>1. NoReply \in Replies /\ NoReply.is = "none"
    <3>1. NoReply = [is |-> "none", cfg |-> NoOne, state |-> "none"]
      BY DEF NoReply
    <3>. QED
      BY <3>1 DEF Replies
  <2>. QED
    BY <2>1, MaxAttemptsAssumption DEF SlotInit, SlotIInv, SlotShape, SoloInv, OwnInv, SparedInv, ToldInv, InFlight,
       Requests
<1>2. SlotIInv /\ [SlotNext]_slotVars => SlotIInv'
  <2>1. ASSUME SlotIInv, UNCHANGED slotVars PROVE SlotIInv'
    BY <2>1 DEF slotVars, SlotIInv, SlotShape, SoloInv, OwnInv, SparedInv, ToldInv, InFlight
  <2>2. ASSUME SlotIInv, SlotNext PROVE SlotIInv'
    BY <2>2, EngineStep, ArriveStep, CallStep DEF SlotNext, Requests
  <2>. QED
    BY <2>1, <2>2
<1>. QED
  BY <1>1, <1>2, PTL DEF SlotSpec

\* Unless another request was under way, a POST that is accepted has its own
\* container there, a DELETE has left none, and the status they answer with is of
\* that where it could be read; and a POST never removes a container that it has
\* seen loading or serving (start, stop and remove of agent/inference.go).
THEOREM SlotHolds == SlotSpec => []SlotInv
<1>1. SlotIInv => SlotInv
  <2>1. ASSUME SlotIInv, NEW s \in Starts, slot # NoOne, slot.by = s PROVE spared[s] # slot.id
    <3>1. slot.id \in Starts /\ spared[s] = NoOne
      BY <2>1 DEF SlotIInv, SlotShape, SlotRecords, SparedInv
    <3>. QED
      BY <3>1, NoOneAssumption
  <2>2. SlotIInv => AnswersAreOwn
    BY DEF SlotIInv, SlotShape, OwnInv, ToldInv, AnswersAreOwn
  <2>. QED
    BY <2>1, <2>2 DEF SlotInv, SeenIsSpared
<1>. QED
  BY <1>1, SlotKeeps, PTL

--------------------------------------------------------------------------------
(* The model registry.                                                       *)

\* A row has an artifact only while it is there, under a key of its own name.
MShape ==
  /\ name \in [RowsOf -> Versions \cup {NoVersion}] /\ spent \subseteq RowsOf \ Live
  /\ artifact \in [RowsOf -> ObjectKeys \cup {NoObject}]
  /\ bucket \in [ObjectKeys -> RowsOf \cup {NoObject}] /\ stray \subseteq ObjectKeys
  /\ \A i, j \in Live : name[i] = name[j] => i = j
  /\ \A i \in RowsOf : i \notin Live => artifact[i] = NoObject
  /\ \A i \in Live : artifact[i] # NoObject => artifact[i][1] = name[i]

Carries(u) == upload[u].at \in {"put", "set"}

\* An upload keeps to the key of the row it has read, which has kept its name or
\* is gone for good.
UploadInv ==
  /\ upload \in [Uploads -> [at : {"idle", "put", "set", "done"},
                             id : RowsOf \cup {NoObject}, key : ObjectKeys \cup {NoObject}]]
  /\ \A u \in Uploads : Carries(u) =>
       /\ upload[u].id \in Live \cup spent /\ upload[u].key \in ObjectKeys
       /\ upload[u].id \in Live => upload[u].key[1] = name[upload[u].id]

\* What is under key k is there, and if row i has the name in it, it is of row i.
Holds(k, i) == bucket[k] # NoObject /\ (i \in Live /\ k \notin stray => bucket[k] = i)

WillHold(k, i) == bucket'[k] # NoObject /\ (i \in Live' /\ k \notin stray' => bucket'[k] = i)

\* It is so from the moment the object store has taken an object.
HeldInv ==
  /\ \A u \in Uploads : upload[u].at = "set" => Holds(upload[u].key, upload[u].id)
  /\ \A i \in Live : artifact[i] # NoObject => Holds(artifact[i], i)

ModelIInv == MShape /\ UploadInv /\ HeldInv

\* Putting an object disturbs nobody who has the same key: a row that is there is
\* the only one of its name, and for one that is gone the key becomes stray.
LEMMA PutStep ==
  ASSUME ModelIInv, NEW u \in Uploads, upload[u].at = "put", Written(u),
         UNCHANGED <<name, spent>>
  PROVE  /\ bucket' \in [ObjectKeys -> RowsOf \cup {NoObject}] /\ stray' \subseteq ObjectKeys
         /\ WillHold(upload[u].key, upload[u].id)
         /\ \A k \in ObjectKeys, i \in RowsOf :
              Holds(k, i) /\ (i \in Live => k[1] = name[i]) => WillHold(k, i)
<1> DEFINE k0 == upload[u].key  i0 == upload[u].id
<1>1. /\ k0 \in ObjectKeys /\ i0 \in RowsOf /\ i0 \in Live \cup spent
      /\ i0 \in Live => k0[1] = name[i0]
  BY DEF ModelIInv, MShape, UploadInv, Carries, Live
<1>2. bucket' = [bucket EXCEPT ![k0] = i0] /\ stray' = IF i0 \in spent THEN stray \cup {k0} ELSE stray
  BY DEF Written
<1>3. Live' = Live
  BY DEF Live
<1>4. bucket' \in [ObjectKeys -> RowsOf \cup {NoObject}] /\ stray' \subseteq ObjectKeys
  BY <1>1, <1>2 DEF ModelIInv, MShape
<1>5. bucket'[k0] = i0 /\ i0 # NoObject
  BY <1>1, <1>2, ModelAssumption DEF ModelIInv, MShape
<1>6. ASSUME NEW k \in ObjectKeys, NEW i \in RowsOf, Holds(k, i), i \in Live => k[1] = name[i]
      PROVE  WillHold(k, i)
  <2>1. CASE k = k0
    <3>1. i \in Live /\ k0 \notin stray' => i = i0
      BY <1>1, <1>2, <1>3, <1>6, <2>1 DEF ModelIInv, MShape
    <3>. QED
      BY <1>3, <1>5, <2>1, <3>1 DEF WillHold
  <2>2. CASE k # k0
    BY <1>2, <1>3, <1>6, <2>2 DEF Holds, WillHold, ModelIInv, MShape
  <2>. QED
    BY <2>1, <2>2
<1>7. WillHold(k0, i0)
  BY <1>5 DEF Holds, WillHold
<1>. QED
  BY <1>4, <1>6, <1>7

\* The steps of an upload.
LEMMA UploadStep ==
  ASSUME ModelIInv, NEW u \in Uploads, UploadPut(u) \/ UploadSet(u) \/ \E i \in RowsOf, f \in Files : UploadRead(u, i, f)
  PROVE  ModelIInv'
<1>1. MShape /\ UploadInv /\ HeldInv
  BY DEF ModelIInv
<1>2. CASE \E i \in RowsOf, f \in Files : UploadRead(u, i, f)
  <2>1. PICK i \in RowsOf, f \in Files : UploadRead(u, i, f)
    BY <1>2
  <2>2. /\ i \in Live /\ UNCHANGED <<name, artifact, spent, bucket, stray>> /\ Live' = Live
        /\ upload' = [upload EXCEPT ![u] = [at |-> "put", id |-> i, key |-> <<name[i], f>>]]
    BY <2>1 DEF UploadRead, ObjectKey, Live
  <2>3. <<name[i], f>> \in ObjectKeys
    BY <1>1, <2>2 DEF MShape, Live, ObjectKeys
  <2>4. UploadInv'
    BY <1>1, <2>2, <2>3 DEF UploadInv, Carries
  <2>5. HeldInv' /\ MShape'
    BY <1>1, <2>2 DEF HeldInv, Holds, MShape, UploadInv
  <2>. QED
    BY <2>4, <2>5 DEF ModelIInv
<1>3. CASE UploadPut(u)
  <2>1. /\ upload[u].at = "put" /\ UNCHANGED <<name, artifact, spent>> /\ Live' = Live
        /\ Carries(u) /\ upload[u].key \in ObjectKeys
    BY <1>1, <1>3 DEF UploadPut, Live, UploadInv, Carries
  <2>2. /\ Written(u) \/ UNCHANGED <<bucket, stray>>
        /\ \/ upload' = [upload EXCEPT ![u] = [@ EXCEPT !.at = "set"]] /\ Written(u)
           \/ upload' = [upload EXCEPT ![u] = [Idle EXCEPT !.at = "done"]]
    BY <1>3 DEF UploadPut, UGoto
  <2>3. UploadInv'
    BY <1>1, <2>1, <2>2 DEF UploadInv, Carries, Idle
  <2>4. MShape'
    BY <1>1, <2>1, <2>2, PutStep DEF MShape, ModelIInv
  <2>5. ASSUME NEW i \in Live', artifact'[i] # NoObject PROVE WillHold(artifact'[i], i)
    <3>1. i \in RowsOf /\ artifact[i] \in ObjectKeys /\ artifact[i][1] = name[i] /\ Holds(artifact[i], i)
      BY <1>1, <2>1, <2>5 DEF MShape, HeldInv, Live
    <3>2. CASE Written(u)
      BY <2>1, <3>1, <3>2, PutStep
    <3>3. CASE UNCHANGED <<bucket, stray>>
      BY <2>1, <3>1, <3>3 DEF Holds, WillHold
    <3>. QED
      BY <2>2, <3>2, <3>3
  <2>6. ASSUME NEW v \in Uploads, upload'[v].at = "set" PROVE WillHold(upload'[v].key, upload'[v].id)
    <3>1. CASE v = u
      <4>1. /\ upload' = [upload EXCEPT ![u] = [@ EXCEPT !.at = "set"]] /\ Written(u)
        BY <1>1, <2>2, <2>6, <3>1 DEF UploadInv, Idle
      <4>2. upload'[v].key = upload[u].key /\ upload'[v].id = upload[u].id
        BY <1>1, <3>1, <4>1 DEF UploadInv
      <4>3. WillHold(upload[u].key, upload[u].id)
        BY <2>1, <4>1, PutStep
      <4>. QED
        BY <4>2, <4>3 DEF Holds, WillHold
    <3>2. CASE v # u
      <4>1. upload'[v] = upload[v] /\ upload[v].at = "set"
        BY <1>1, <2>2, <2>6, <3>2 DEF UploadInv
      <4>2. /\ upload[v].key \in ObjectKeys /\ upload[v].id \in RowsOf /\ Holds(upload[v].key, upload[v].id)
            /\ upload[v].id \in Live => upload[v].key[1] = name[upload[v].id]
        BY <1>1, <4>1 DEF UploadInv, Carries, HeldInv, MShape, Live
      <4>3. CASE Written(u)
        BY <2>1, <4>1, <4>2, <4>3, PutStep
      <4>4. CASE UNCHANGED <<bucket, stray>>
        BY <2>1, <4>1, <4>2, <4>4 DEF Holds, WillHold
      <4>. QED
        BY <2>2, <4>3, <4>4
    <3>. QED
      BY <3>1, <3>2
  <2>7. HeldInv'
    BY <2>5, <2>6 DEF HeldInv, Holds, WillHold
  <2>. QED
    BY <2>3, <2>4, <2>7 DEF ModelIInv
<1>4. CASE UploadSet(u)
  <2>1. /\ upload[u].at = "set" /\ UNCHANGED <<name, spent, bucket, stray>> /\ Live' = Live
        /\ upload' = [upload EXCEPT ![u] = [Idle EXCEPT !.at = "done"]]
        /\ \/ artifact' = [artifact EXCEPT ![upload[u].id] = IF upload[u].id \in Live THEN upload[u].key ELSE @]
           \/ artifact' = artifact
    BY <1>4 DEF UploadSet, UGoto, Live
  <2>2. /\ upload[u].id \in RowsOf /\ upload[u].key \in ObjectKeys /\ Holds(upload[u].key, upload[u].id)
        /\ upload[u].id \in Live => upload[u].key[1] = name[upload[u].id]
    BY <1>1, <2>1 DEF UploadInv, Carries, HeldInv, MShape, Live
  <2>3. UploadInv'
    BY <1>1, <2>1 DEF UploadInv, Carries, Idle
  <2>4. MShape'
    <3>1. artifact' \in [RowsOf -> ObjectKeys \cup {NoObject}]
      BY <1>1, <2>1, <2>2 DEF MShape
    <3>2. \A i \in RowsOf : artifact'[i] = artifact[i] \/ (i = upload[u].id /\ i \in Live /\ artifact'[i] = upload[u].key)
      BY <1>1, <2>1 DEF MShape
    <3>3. Live \subseteq RowsOf
      BY DEF Live
    <3>. QED
      BY <1>1, <2>1, <2>2, <3>1, <3>2, <3>3 DEF MShape
  <2>5. HeldInv'
    <3>1. ASSUME NEW i \in Live', artifact'[i] # NoObject PROVE WillHold(artifact'[i], i)
      <4>1. i \in RowsOf /\ Holds(artifact'[i], i)
        BY <1>1, <2>1, <2>2, <3>1 DEF MShape, HeldInv, Live
      <4>. QED
        BY <2>1, <4>1 DEF Holds, WillHold
    <3>2. ASSUME NEW v \in Uploads, upload'[v].at = "set" PROVE WillHold(upload'[v].key, upload'[v].id)
      BY <1>1, <2>1, <3>2 DEF UploadInv, HeldInv, Holds, WillHold, Idle
    <3>. QED
      BY <3>1, <3>2 DEF HeldInv, Holds, WillHold
  <2>. QED
    BY <2>3, <2>4, <2>5 DEF ModelIInv
<1>. QED
  BY <1>2, <1>3, <1>4

\* The walk that the lineage of a row is the end of.
WalkFrom(i) ==
  CHOOSE walk : walk = [n \in 0..Cardinality(Versions) |->
    IF n = 0 THEN [cur |-> parent[i], seen |-> {name[i]}, chain |-> <<>>] ELSE Climb(walk[n - 1])]

\* There is one: it begins with the row and takes a turn for every version.
LEMMA WalkIs ==
  ASSUME NEW i
  PROVE  /\ LineageChain(i) = WalkFrom(i)[Cardinality(Versions)].chain
         /\ WalkFrom(i)[0] = [cur |-> parent[i], seen |-> {name[i]}, chain |-> <<>>]
         /\ \A n \in 1..Cardinality(Versions) : WalkFrom(i)[n] = Climb(WalkFrom(i)[n - 1])
<1> DEFINE V == Cardinality(Versions)
           base == [cur |-> parent[i], seen |-> {name[i]}, chain |-> <<>>]
           isWalk(f, n) == f[0] = base /\ \A k \in 1..n : f[k] = Climb(f[k - 1])
           N == {n \in Nat : \E f : isWalk(f, n)}
<1>1. V \in Nat
  BY ModelAssumption, FS_CardinalityType
<1> HIDE DEF V, base
<1>2. 0 \in N
  <2>1. isWalk([k \in 0..0 |-> base], 0)
    OBVIOUS
  <2>. QED
    BY <2>1
<1>3. ASSUME NEW n \in N PROVE n + 1 \in N
  <2>1. PICK f : isWalk(f, n)
    OBVIOUS
  <2> DEFINE g == [k \in 0..(n + 1) |-> IF k = n + 1 THEN Climb(f[n]) ELSE f[k]]
  <2>2. /\ n \in Nat /\ g[0] = f[0] /\ g[n + 1] = Climb(f[n])
        /\ \A k \in 0..n : g[k] = f[k]
    OBVIOUS
  <2> HIDE DEF g
  <2>3. ASSUME NEW k \in 1..(n + 1) PROVE g[k] = Climb(g[k - 1])
    <3>1. k - 1 \in 0..n /\ g[k - 1] = f[k - 1]
      BY <2>2
    <3>2. CASE k = n + 1
      BY <2>2, <3>1, <3>2
    <3>3. CASE k # n + 1
      BY <2>1, <2>2, <3>1, <3>3
    <3>. QED
      BY <3>2, <3>3
  <2>. QED
    BY <2>1, <2>2, <2>3
<1>4. V \in N
  <2> HIDE DEF N
  <2>1. N \in SUBSET Nat
    BY DEF N
  <2>. QED
    BY <1>1, <1>2, <1>3, <2>1, EveryNumber
<1>5. PICK f : isWalk(f, V)
  BY <1>4
<1> DEFINE Turn(w) == [n \in 0..V |-> IF n = 0 THEN base ELSE Climb(w[n - 1])]
           walk == [n \in 0..V |-> f[n]]
<1>6. walk = Turn(walk)
  <2>1. ASSUME NEW n \in 0..V PROVE walk[n] = IF n = 0 THEN base ELSE Climb(walk[n - 1])
    BY <1>1, <1>5
  <2> DEFINE again == Turn(walk)
  <2>2. \A n \in 0..V : again[n] = IF n = 0 THEN base ELSE Climb(walk[n - 1])
    OBVIOUS
  <2>3. DOMAIN again = 0..V /\ again = [n \in 0..V |-> again[n]]
    OBVIOUS
  <2> HIDE DEF again
  <2>4. \A n \in 0..V : walk[n] = again[n] /\ walk[n] = f[n]
    BY <2>1, <2>2
  <2>5. walk = again
    BY <2>3, <2>4
  <2>. QED
    BY <2>5 DEF again
<1>7. WalkFrom(i) = Turn(WalkFrom(i))
  BY <1>6 DEF WalkFrom, V, base
<1>8. ASSUME NEW n \in 0..V PROVE Turn(WalkFrom(i))[n] = IF n = 0 THEN base ELSE Climb(WalkFrom(i)[n - 1])
  OBVIOUS
<1> HIDE DEF Turn
<1>9. \A n \in 0..V : WalkFrom(i)[n] = IF n = 0 THEN base ELSE Climb(WalkFrom(i)[n - 1])
  BY <1>7, <1>8
<1>10. LineageChain(i) = WalkFrom(i)[V].chain
  BY DEF LineageChain, WalkFrom, V
<1>11. WalkFrom(i)[0] = base /\ \A n \in 1..V : WalkFrom(i)[n] = Climb(WalkFrom(i)[n - 1])
  BY <1>1, <1>9
<1>. QED
  BY <1>10, <1>11 DEF V, base

\* The parent of the version before the n-th of a chain.
Above(i, chain, n) == parent[IF n = 1 THEN i ELSE RowNamed(chain[n - 1])]

\* What the walk has found: ancestors, each of them once.
Climbed(i, w) ==
  /\ w.chain \in Seq(LiveNames) /\ w.seen = {name[i]} \cup ToSet(w.chain)
  /\ IsFiniteSet(w.seen) /\ Cardinality(w.seen) = Len(w.chain) + 1
  /\ IsInjective(w.chain) /\ name[i] \notin ToSet(w.chain)
  /\ \A n \in DOMAIN w.chain : w.chain[n] = Above(i, w.chain, n)
  /\ w.cur = Above(i, w.chain, Len(w.chain) + 1)

\* One turn finds one more, or there is none.
LEMMA ClimbStep ==
  ASSUME NEW i, NEW w, Climbed(i, w)
  PROVE  /\ Climbed(i, Climb(w))
         /\ IF w.cur \in LiveNames \ w.seen THEN Len(Climb(w).chain) = Len(w.chain) + 1 ELSE Climb(w) = w
<1>1. CASE w.cur \notin LiveNames \ w.seen
  BY <1>1 DEF Climb
<1>2. CASE w.cur \in LiveNames \ w.seen
  <2> DEFINE c == w.chain
             d == Append(c, w.cur)
             L == Len(c)
  <2>1. /\ Climb(w).cur = parent[RowNamed(w.cur)] /\ Climb(w).seen = w.seen \cup {w.cur} /\ Climb(w).chain = d
    BY <1>2 DEF Climb
  <2>2. /\ L \in Nat /\ DOMAIN c = 1..L /\ d \in Seq(LiveNames) /\ Len(d) = L + 1 /\ DOMAIN d = 1..(L + 1)
        /\ d[L + 1] = w.cur /\ \A n \in 1..L : d[n] = c[n]
    BY <1>2 DEF Climbed
  <2>3. /\ w.seen = {name[i]} \cup ToSet(c) /\ IsInjective(c) /\ name[i] \notin ToSet(c)
        /\ \A n \in 1..L : c[n] = Above(i, c, n)
        /\ w.cur = Above(i, c, L + 1)
    BY <2>2 DEF Climbed
  <2> HIDE DEF c, d, L
  <2>4. ToSet(d) = ToSet(c) \cup {w.cur}
    <3>1. ToSet(d) = {d[n] : n \in 1..(L + 1)} /\ ToSet(c) = {c[n] : n \in 1..L}
      BY <2>2 DEF ToSet
    <3>2. \A n \in 1..(L + 1) : n \in 1..L \/ n = L + 1
      BY <2>2
    <3>3. \A n \in 1..L : n \in 1..(L + 1)
      BY <2>2
    <3>4. L + 1 \in 1..(L + 1)
      BY <2>2
    <3>. QED
      BY <2>2, <3>1, <3>2, <3>3, <3>4
  <2>5. IsInjective(d)
    <3>1. \A n \in 1..L : c[n] \in ToSet(c)
      BY <2>2 DEF ToSet
    <3>2. w.cur \notin ToSet(c)
      BY <1>2, <2>3
    <3>. QED
      BY <2>2, <2>3, <3>1, <3>2 DEF IsInjective
  <2>6. name[i] \notin ToSet(d) /\ Climb(w).seen = {name[i]} \cup ToSet(d)
    BY <1>2, <2>1, <2>3, <2>4
  <2>7. IsFiniteSet(Climb(w).seen) /\ Cardinality(Climb(w).seen) = Len(d) + 1
    <3>1. IsFiniteSet(w.seen) /\ Cardinality(w.seen) = L + 1 /\ w.cur \notin w.seen
      BY <1>2 DEF Climbed, L, c
    <3>2. IsFiniteSet(w.seen \cup {w.cur}) /\ Cardinality(w.seen \cup {w.cur}) = Cardinality(w.seen) + 1
      BY <3>1, FS_AddElement
    <3>. QED
      BY <2>1, <2>2, <3>1, <3>2
  <2>8. ASSUME NEW n \in 1..(L + 1) PROVE d[n] = Above(i, d, n)
    <3>1. n # 1 => n - 1 \in 1..L /\ d[n - 1] = c[n - 1]
      BY <2>2
    <3>2. Above(i, d, n) = Above(i, c, n)
      BY <3>1 DEF Above
    <3>3. d[n] = Above(i, c, n)
      BY <2>2, <2>3
    <3>. QED
      BY <3>2, <3>3
  <2>9. Climb(w).cur = Above(i, d, Len(d) + 1)
    <3>1. Len(d) + 1 # 1 /\ (Len(d) + 1) - 1 = L + 1
      BY <2>2
    <3>. QED
      BY <2>1, <2>2, <3>1 DEF Above
  <2>10. Climbed(i, Climb(w))
    BY <2>1, <2>2, <2>5, <2>6, <2>7, <2>8, <2>9 DEF Climbed
  <2>11. Len(Climb(w).chain) = Len(w.chain) + 1
    BY <2>1, <2>2 DEF L, c
  <2>. QED
    BY <1>2, <2>10, <2>11
<1>. QED
  BY <1>1, <1>2

\* The walk takes as many turns as there are versions, which is enough.
LEMMA LineageHolds == ASSUME MShape PROVE LineageIsAncestry
<1> SUFFICES ASSUME NEW i \in Live
             PROVE  LET chain == LineageChain(i)
                        above == [n \in 1..(Len(chain) + 1) |-> parent[IF n = 1 THEN i ELSE RowNamed(chain[n - 1])]]
                    IN /\ \A n \in DOMAIN chain : chain[n] = above[n]
                       /\ IsInjective(chain) /\ name[i] \notin ToSet(chain)
                       /\ above[Len(chain) + 1] \notin LiveNames \ (ToSet(chain) \cup {name[i]})
  BY DEF LineageIsAncestry
<1> DEFINE V == Cardinality(Versions)
           Stopped(w) == w.cur \notin LiveNames \ w.seen
           N == {n \in Nat : n <= V => LET w == WalkFrom(i)[n] IN Climbed(i, w) /\ (Len(w.chain) = n \/ Stopped(w))}
<1>1. V \in Nat /\ LiveNames \subseteq Versions /\ name[i] \in Versions
  BY ModelAssumption, FS_CardinalityType DEF MShape, Live, LiveNames
<1>2. 0 \in N
  <2> DEFINE w == [cur |-> parent[i], seen |-> {name[i]}, chain |-> <<>>]
  <2>1. w.cur = parent[i] /\ w.seen = {name[i]} /\ w.chain = <<>>
    OBVIOUS
  <2> HIDE DEF w
  <2>2. ToSet(<<>>) = {} /\ IsInjective(<<>>) /\ Len(<<>>) = 0
    BY DEF ToSet, IsInjective
  <2>3. IsFiniteSet({name[i]}) /\ Cardinality({name[i]}) = 1
    BY FS_Singleton
  <2>4. w.cur = Above(i, w.chain, Len(w.chain) + 1)
    BY <2>1, <2>2 DEF Above
  <2>5. Climbed(i, w)
    BY <2>1, <2>2, <2>3, <2>4 DEF Climbed
  <2>6. WalkFrom(i)[0] = w
    BY WalkIs DEF w
  <2>. QED
    BY <2>1, <2>2, <2>5, <2>6
<1>3. ASSUME NEW n \in N PROVE n + 1 \in N
  <2> SUFFICES ASSUME n + 1 <= V
               PROVE  LET w == WalkFrom(i)[n + 1] IN Climbed(i, w) /\ (Len(w.chain) = n + 1 \/ Stopped(w))
    OBVIOUS
  <2> DEFINE v == WalkFrom(i)[n]
             w == WalkFrom(i)[n + 1]
  <2>1. n \in Nat /\ Climbed(i, v) /\ (Len(v.chain) = n \/ Stopped(v))
    BY <1>1
  <2>2. w = Climb(v)
    <3>1. n + 1 \in 1..V /\ (n + 1) - 1 = n
      BY <1>1, <2>1
    <3>. QED
      BY <3>1, WalkIs
  <2> HIDE DEF v, w
  <2>3. Climbed(i, w) /\ IF Stopped(v) THEN w = v ELSE Len(w.chain) = Len(v.chain) + 1
    BY <2>1, <2>2, ClimbStep
  <2>. QED
    BY <2>1, <2>3 DEF w
<1>4. N = Nat
  <2> HIDE DEF N
  <2>1. N \in SUBSET Nat
    BY DEF N
  <2>. QED
    BY <1>2, <1>3, <2>1, EveryNumber
<1> DEFINE w == WalkFrom(i)[V]
<1>5. Climbed(i, w) /\ (Len(w.chain) = V \/ Stopped(w))
  BY <1>1, <1>4
<1>6. LineageChain(i) = w.chain
  BY WalkIs
<1> HIDE DEF w
<1>7. Stopped(w)
  <2>1. w.seen \subseteq Versions
    BY <1>1, <1>5 DEF Climbed, ToSet
  <2>2. Cardinality(w.seen) <= V
    BY <2>1, ModelAssumption, FS_Subset
  <2>3. Len(w.chain) \in Nat
    BY <1>5 DEF Climbed
  <2>. QED
    BY <1>1, <1>5, <2>2, <2>3 DEF Climbed
<1> DEFINE chain == LineageChain(i)
           above == [n \in 1..(Len(chain) + 1) |-> parent[IF n = 1 THEN i ELSE RowNamed(chain[n - 1])]]
<1>8. /\ Len(w.chain) \in Nat /\ DOMAIN w.chain = 1..Len(w.chain)
      /\ \A n \in 1..(Len(w.chain) + 1) : above[n] = Above(i, w.chain, n)
  BY <1>5, <1>6 DEF Above, Climbed
<1> HIDE DEF above
<1>9. \A n \in DOMAIN chain : chain[n] = above[n]
  BY <1>5, <1>6, <1>8 DEF Climbed
<1>10. above[Len(chain) + 1] \notin LiveNames \ (ToSet(chain) \cup {name[i]})
  <2>1. Len(w.chain) + 1 \in 1..(Len(w.chain) + 1)
    BY <1>8
  <2>2. above[Len(chain) + 1] = w.cur
    BY <1>5, <1>6, <1>8, <2>1 DEF Climbed
  <2>. QED
    BY <1>5, <1>6, <1>7, <2>2 DEF Climbed
<1>11. IsInjective(chain) /\ name[i] \notin ToSet(chain)
  BY <1>5, <1>6 DEF Climbed
<1>. QED
  BY <1>9, <1>10, <1>11 DEF above

\* ModelIInv holds all the time.
LEMMA ModelKeeps == MSpec => []ModelIInv
<1>1. MInit => ModelIInv
  BY DEF MInit, ModelIInv, MShape, UploadInv, HeldInv, Carries, Idle, Live
<1>2. ModelIInv /\ [MNext]_mVars => ModelIInv'
  <2>1. ASSUME ModelIInv, UNCHANGED mVars PROVE ModelIInv'
    BY <2>1 DEF mVars, ModelIInv, MShape, UploadInv, HeldInv, Holds, Carries, Live
  <2>2. ASSUME ModelIInv, NEW i \in RowsOf, NEW v \in Versions, NEW p \in Versions \cup {NoVersion},
               RegisterModelVersion(i, v, p)
        PROVE  ModelIInv'
    <3>1. /\ Live' = Live \cup {i} /\ i \notin Live /\ i \notin spent /\ artifact[i] = NoObject
          /\ name' = [name EXCEPT ![i] = v] /\ \A j \in Live : name[j] # v
          /\ UNCHANGED <<artifact, spent, bucket, upload, stray>>
      BY <2>2, ModelAssumption DEF RegisterModelVersion, ModelIInv, MShape, Live
    <3>2. MShape'
      BY <2>2, <3>1 DEF ModelIInv, MShape
    <3>3. UploadInv' /\ HeldInv'
      BY <2>2, <3>1 DEF ModelIInv, MShape, UploadInv, HeldInv, Holds, Carries
    <3>. QED
      BY <3>2, <3>3 DEF ModelIInv
  <2>3. ASSUME ModelIInv, NEW i \in RowsOf, DeleteModelVersion(i) PROVE ModelIInv'
    <3>1. /\ Live' = Live \ {i} /\ i \in Live /\ spent' = spent \cup {i}
          /\ name' = [name EXCEPT ![i] = NoVersion] /\ artifact' = [artifact EXCEPT ![i] = NoObject]
          /\ UNCHANGED <<bucket, upload, stray>>
      BY <2>3 DEF DeleteModelVersion, ModelIInv, MShape, Live
    <3>2. MShape'
      BY <2>3, <3>1 DEF ModelIInv, MShape
    <3>3. UploadInv' /\ HeldInv'
      BY <2>3, <3>1 DEF ModelIInv, MShape, UploadInv, HeldInv, Holds, Carries
    <3>. QED
      BY <3>2, <3>3 DEF ModelIInv
  <2>. QED
    BY <2>1, <2>2, <2>3, UploadStep DEF MNext
<1>. QED
  BY <1>1, <1>2, PTL DEF MSpec

\* The lineage of a version is its ancestry, and what it names as its artifact is
\* in the bucket and was uploaded for that version, unless an upload for a deleted
\* one came late (lineageChain, uploadModelArtifact, SetModelArtifact).
THEOREM ModelHolds == MSpec => []ModelInv
<1>1. ModelIInv => ModelInv
  BY LineageHolds DEF ModelInv, ModelIInv, HeldInv, Holds, ArtifactIsStored, ArtifactIsOwn
<1>. QED
  BY <1>1, ModelKeeps, PTL

--------------------------------------------------------------------------------
(* Endpoints.                                                                *)

\* A round robin is given each of its targets once.
EachTargetOnce == \A i, j \in DOMAIN Targets : Targets[i] = Targets[j] => i = j

\* The places among the first k targets where st has a row, and their number.
Places(st, k) == {j \in 1..k : st[Targets[j]] # "absent"}
Count(st, k)  == Cardinality(Places(st, k))
Whole(st)     == Count(st, Len(Targets))

\* "no available endpoint"
Refusal(a) == a = 503

EShape ==
  /\ state \in [EndpointNames -> {"up", "down", "absent"}] /\ turn \in Nat
  /\ at \in [Proxied -> {"idle", "auto", "targets", "calling", "done"}]
  /\ left \in [Proxied -> Seq(EndpointNames)] /\ got \in [Proxied -> Seq(EndpointNames)]
  /\ answer = [r \in Proxied |-> answer[r]]
  /\ turns \in [ToSet(Targets) -> Nat]
  /\ steady \in [Proxied -> SUBSET EndpointNames] /\ torn \subseteq Proxied

\* A request for the automatic router has read, or has yet to read, every
\* candidate that has been available all the time.
AutoOK(r) ==
  /\ \A n \in steady[r] : Available(n)
  /\ at[r] = "idle" => ~Refusal(answer[r])
  /\ Refusal(answer[r]) /\ r \notin torn => steady[r] = {}
  /\ at[r] = "auto" /\ r \notin torn => \A n \in steady[r] : Contains(left[r], n) \/ Contains(got[r], n)

\* s is what has been read of the targets up to the k-th, rest what is to come.
ReadTo(k, s, rest) ==
  /\ Len(rest) = Len(Targets) - k /\ \A m \in 1..Len(rest) : rest[m] = Targets[k + m]
  /\ Len(s) = Count(state, k)
  /\ \A m \in 1..Len(s) : \E j \in Places(state, k) : Count(state, j) = m /\ s[m] = Targets[j]

\* A request for the round robin has the targets that are there, in their order.
GotOK(r) == at[r] = "targets" /\ r \notin torn => \E k \in 0..Len(Targets) : ReadTo(k, got[r], left[r])

\* Place i of a circle is between b and e.
WithinCircle(b, e, i) == IF b <= e THEN b <= i /\ i < e ELSE b <= i \/ i < e

\* The targets from place b to the one whose turn it is are one turn ahead.
Ahead(st, t, places, b, q) ==
  \A j \in Places(st, Len(Targets)) :
    places[Targets[j]] = IF WithinCircle(b, t % Whole(st), Count(st, j) - 1) THEN q + 1 ELSE q

EvenAt(st, t, places) == Whole(st) > 0 => \E b \in 0..(Whole(st) - 1), q \in Nat : Ahead(st, t, places, b, q)

TurnInv == EvenAt(state, turn, turns)

EIInv == EShape /\ TurnInv /\ \A r \in Proxied : AutoOK(r) /\ GotOK(r)

\* The name of an endpoint is not taken for an answer.
LEMMA NamesAreNames == ASSUME NEW n \in EndpointNames PROVE ~Refusal(n)
  BY CandidatesAssumption, Zenon DEF Refusal

\* The targets are counted one by one.
LEMMA CountNext ==
  ASSUME NEW st, NEW k \in Nat
  PROVE  /\ IsFiniteSet(Places(st, k)) /\ Count(st, k) \in Nat /\ Count(st, 0) = 0
         /\ Count(st, k + 1) = Count(st, k) + IF st[Targets[k + 1]] # "absent" THEN 1 ELSE 0
<1>1. IsFiniteSet(1..k)
  BY FS_Interval
<1>2. Places(st, k) \subseteq 1..k /\ k + 1 \notin Places(st, k) /\ Places(st, 0) = {}
  BY DEF Places
<1>3. IsFiniteSet(Places(st, k)) /\ Count(st, k) \in Nat
  BY <1>1, <1>2, FS_Subset, FS_CardinalityType DEF Count
<1>4. Count(st, 0) = 0
  BY <1>2, FS_EmptySet DEF Count
<1>5. Places(st, k + 1) = IF st[Targets[k + 1]] # "absent" THEN Places(st, k) \cup {k + 1} ELSE Places(st, k)
  BY DEF Places
<1>6. Cardinality(Places(st, k) \cup {k + 1}) = Cardinality(Places(st, k)) + 1
  BY <1>2, <1>3, FS_AddElement
<1>. QED
  BY <1>3, <1>4, <1>5, <1>6 DEF Count

\* A place has a number of its own.
LEMMA CountLess ==
  ASSUME NEW st, NEW n \in Nat, NEW j \in Places(st, n)
  PROVE  /\ Count(st, j) \in 1..Count(st, n)
         /\ \A i \in Places(st, n) : Count(st, i) = Count(st, j) => i = j
<1>1. ASSUME NEW k \in Nat, NEW i \in Places(st, k) PROVE i \in Nat /\ Count(st, i) <= Count(st, k) /\ Count(st, i) > 0
  <2>1. i \in 1..k /\ i \in Nat /\ Places(st, i) \subseteq Places(st, k) /\ i \in Places(st, i)
    BY <1>1 DEF Places
  <2>2. IsFiniteSet(Places(st, k)) /\ IsFiniteSet(Places(st, i)) /\ Count(st, i) \in Nat
    BY <2>1, CountNext
  <2>3. Cardinality(Places(st, i)) <= Cardinality(Places(st, k))
    BY <2>1, <2>2, FS_Subset
  <2>4. Cardinality(Places(st, i)) # 0
    BY <2>1, <2>2, FS_EmptySet
  <2>. QED
    BY <2>1, <2>2, <2>3, <2>4 DEF Count
<1>2. ASSUME NEW i \in Places(st, n), NEW k \in Places(st, n), i < k PROVE Count(st, i) # Count(st, k)
  <2>1. i \in Nat /\ k \in Nat /\ k - 1 \in Nat /\ i \in Places(st, k - 1) /\ st[Targets[k]] # "absent"
    BY <1>2 DEF Places
  <2>2. Count(st, k) = Count(st, k - 1) + 1 /\ Count(st, k - 1) \in Nat
    <3>1. (k - 1) + 1 = k
      BY <2>1
    <3>2. Count(st, (k - 1) + 1) = Count(st, k - 1) + 1 /\ Count(st, k - 1) \in Nat
      BY <2>1, <3>1, CountNext
    <3>. QED
      BY <3>1, <3>2
  <2>3. Count(st, i) <= Count(st, k - 1) /\ Count(st, i) \in Nat
    BY <2>1, <1>1, CountNext
  <2>. QED
    BY <2>2, <2>3
<1>3. Count(st, j) \in 1..Count(st, n)
  <2>1. j \in Nat
    BY DEF Places
  <2>2. Count(st, j) \in Nat /\ Count(st, n) \in Nat
    BY <2>1, CountNext
  <2>. QED
    BY <1>1, <2>2
<1>4. ASSUME NEW i \in Places(st, n), Count(st, i) = Count(st, j) PROVE i = j
  <2>1. i \in Nat /\ j \in Nat
    BY DEF Places
  <2>. QED
    BY <1>2, <1>4, <2>1
<1>. QED
  BY <1>3, <1>4

\* The places of the targets depend on the targets that are there only.
LEMMA SamePlaces ==
  ASSUME NEW st, NEW su, \A n \in ToSet(Targets) : st[n] = "absent" <=> su[n] = "absent",
         NEW k \in 0..Len(Targets)
  PROVE  Places(su, k) = Places(st, k) /\ Count(su, k) = Count(st, k)
<1>1. \A j \in 1..k : Targets[j] \in ToSet(Targets)
  BY CandidatesAssumption DEF ToSet
<1>2. Places(su, k) = Places(st, k)
  BY <1>1 DEF Places
<1>. QED
  BY <1>2 DEF Count

\* Turns that were even stay so when targets become healthy or ill.
LEMMA TurnsKept ==
  ASSUME NEW st, NEW su, \A n \in ToSet(Targets) : st[n] = "absent" <=> su[n] = "absent",
         NEW t, NEW places, EvenAt(st, t, places)
  PROVE  EvenAt(su, t, places)
<1>1. Len(Targets) \in 0..Len(Targets)
  BY CandidatesAssumption
<1>2. Whole(su) = Whole(st) /\ Places(su, Len(Targets)) = Places(st, Len(Targets))
  BY <1>1, SamePlaces DEF Whole
<1>3. \A j \in Places(st, Len(Targets)) : j \in 0..Len(Targets)
  BY CandidatesAssumption DEF Places
<1>4. \A j \in Places(st, Len(Targets)) : Count(su, j) = Count(st, j)
  BY <1>3, SamePlaces
<1>. QED
  BY <1>2, <1>4 DEF EvenAt, Ahead

\* The places of all targets.
LEMMA WholeIs ==
  ASSUME NEW st
  PROVE  /\ Len(Targets) \in Nat /\ Whole(st) \in Nat
         /\ \A j \in Places(st, Len(Targets)) :
              /\ j \in DOMAIN Targets /\ Targets[j] \in ToSet(Targets)
              /\ Count(st, j) \in 1..Whole(st)
              /\ \A i \in Places(st, Len(Targets)) : Count(st, i) = Count(st, j) => i = j
<1>1. Len(Targets) \in Nat /\ DOMAIN Targets = 1..Len(Targets)
  BY CandidatesAssumption
<1>2. Whole(st) \in Nat
  BY <1>1, CountNext DEF Whole
<1>3. \A j \in Places(st, Len(Targets)) : j \in DOMAIN Targets /\ Targets[j] \in ToSet(Targets)
  BY <1>1 DEF Places, ToSet
<1>4. ASSUME NEW j \in Places(st, Len(Targets))
      PROVE  /\ Count(st, j) \in 1..Whole(st)
             /\ \A i \in Places(st, Len(Targets)) : Count(st, i) = Count(st, j) => i = j
  BY <1>1, CountLess DEF Whole
<1>. QED
  BY <1>1, <1>2, <1>3, <1>4

\* When they start again, they are even.
LEMMA TurnsReset ==
  ASSUME NEW st, NEW t \in Nat
  PROVE  EvenAt(st, t, [n \in ToSet(Targets) |-> 0])
<1> DEFINE places == [n \in ToSet(Targets) |-> 0]
           N == Len(Targets)
<1>1. SUFFICES ASSUME Whole(st) > 0 PROVE \E b \in 0..(Whole(st) - 1), q \in Nat : Ahead(st, t, places, b, q)
  BY DEF EvenAt
<1>2. Whole(st) \in Nat
  BY WholeIs
<1>3. t % Whole(st) \in 0..(Whole(st) - 1)
  BY <1>1, <1>2, ModRange
<1>4. ASSUME NEW j \in Places(st, N)
      PROVE  places[Targets[j]] = 0 /\ Count(st, j) - 1 \in 0..(Whole(st) - 1)
  <2>1. Targets[j] \in ToSet(Targets)
    BY WholeIs
  <2>2. Count(st, j) \in 1..Whole(st)
    BY WholeIs
  <2>. QED
    BY <1>2, <2>1, <2>2
<1>5. \A i \in 0..(Whole(st) - 1) : ~WithinCircle(t % Whole(st), t % Whole(st), i)
  BY <1>2, <1>3 DEF WithinCircle
<1> HIDE DEF places
<1>6. Ahead(st, t, places, t % Whole(st), 0)
  BY <1>4, <1>5 DEF Ahead
<1>. QED
  BY <1>3, <1>6

\* The target at the place whose turn it is takes it: the turns stay even.
LEMMA TurnTaken ==
  ASSUME EachTargetOnce, NEW st, NEW t \in Nat, NEW places \in [ToSet(Targets) -> Nat], EvenAt(st, t, places),
         NEW j0 \in Places(st, Len(Targets)), Count(st, j0) = (t % Whole(st)) + 1
  PROVE  EvenAt(st, t + 1, [places EXCEPT ![Targets[j0]] = @ + 1])
<1> DEFINE N == Len(Targets)
           W == Whole(st)
           e == t % W
           f == (t + 1) % W
           tu == [places EXCEPT ![Targets[j0]] = @ + 1]
           P(j) == Count(st, j) - 1
<1>1. W \in Nat /\ \A j \in Places(st, N) : j \in DOMAIN Targets /\ Targets[j] \in ToSet(Targets)
  BY WholeIs
<1>2. \A j \in Places(st, N) : P(j) \in 0..(W - 1) /\ (P(j) = P(j0) => j = j0)
  <2>1. ASSUME NEW j \in Places(st, N) PROVE Count(st, j) \in 1..W /\ (Count(st, j) = Count(st, j0) => j = j0)
    BY WholeIs
  <2>. QED
    BY <1>1, <2>1
<1>3. W > 0
  BY <1>1, <1>2
<1>4. e \in 0..(W - 1) /\ f = (IF e = W - 1 THEN 0 ELSE e + 1) /\ P(j0) = e
  <2>1. Count(st, j0) \in 1..W
    BY WholeIs
  <2> HIDE DEF W
  <2>2. W \in Nat \ {0}
    BY <1>1, <1>3
  <2>3. e \in 0..(W - 1)
    BY <2>2, ModRange
  <2>4. f = (IF e = W - 1 THEN 0 ELSE e + 1)
    BY <2>2, ModNext
  <2>5. Count(st, j0) = e + 1
    BY DEF W
  <2>. QED
    BY <1>1, <2>1, <2>3, <2>4, <2>5
<1>5. PICK b \in 0..(W - 1), q \in Nat : Ahead(st, t, places, b, q)
  BY <1>3 DEF EvenAt
<1>6. \A j \in Places(st, N) : tu[Targets[j]] = places[Targets[j]] + IF j = j0 THEN 1 ELSE 0
  BY <1>1 DEF EachTargetOnce
<1>7. \A j \in Places(st, N) : places[Targets[j]] = IF WithinCircle(b, e, P(j)) THEN q + 1 ELSE q
  BY <1>5 DEF Ahead
<1> HIDE DEF W, e, f, tu, P
<1>8. ~WithinCircle(b, e, e)
  BY <1>4 DEF WithinCircle
<1>9. CASE f = b
  <2>1. \A i \in 0..(W - 1) : i # e => WithinCircle(b, e, i)
    BY <1>1, <1>4, <1>9 DEF WithinCircle
  <2>2. \A j \in Places(st, N) : tu[Targets[j]] = q + 1
    BY <1>2, <1>4, <1>6, <1>7, <1>8, <2>1
  <2>3. \A i \in 0..(W - 1) : ~WithinCircle(b, f, i)
    BY <1>1, <1>9 DEF WithinCircle
  <2>4. Ahead(st, t + 1, tu, b, q + 1)
    BY <1>2, <2>2, <2>3 DEF Ahead, P, f, W
  <2>. QED
    BY <2>4 DEF EvenAt, W, tu
<1>10. CASE f # b
  <2>1. \A i \in 0..(W - 1) : WithinCircle(b, f, i) <=> WithinCircle(b, e, i) \/ i = e
    BY <1>1, <1>4, <1>10 DEF WithinCircle
  <2>2. \A j \in Places(st, N) : tu[Targets[j]] = IF WithinCircle(b, f, P(j)) THEN q + 1 ELSE q
    BY <1>2, <1>4, <1>6, <1>7, <1>8, <2>1
  <2>3. Ahead(st, t + 1, tu, b, q)
    BY <2>2 DEF Ahead, P, f, W
  <2>. QED
    BY <2>3 DEF EvenAt, W, tu
<1>. QED
  BY <1>9, <1>10

\* Instances come, go and change.
LEMMA InstanceStep ==
  ASSUME EIInv, NEW n \in Restless, InstanceChanges(n)
  PROVE  EIInv'
<1>1. PICK s \in {"up", "down", "absent"} \ {state[n]} :
        LET membership == n \in ToSet(Targets) /\ "absent" \in {s, state[n]} IN
        /\ state' = [state EXCEPT ![n] = s]
        /\ turns' = IF membership THEN [t \in ToSet(Targets) |-> 0] ELSE turns
        /\ torn' = IF membership THEN torn \cup Resolving ELSE torn
        /\ steady' = [r \in Proxied |-> IF s = "up" THEN steady[r] ELSE steady[r] \ {n}]
        /\ UNCHANGED <<turn, at, left, got, answer>>
  BY DEF InstanceChanges
<1> DEFINE membership == n \in ToSet(Targets) /\ "absent" \in {s, state[n]}
<1>2. ToSet(Targets) \subseteq EndpointNames
  BY DEF EndpointNames
<1>3. EShape'
  BY <1>1 DEF EIInv, EShape, Resolving
<1>4. ~membership => \A m \in ToSet(Targets) : state[m] = "absent" <=> state'[m] = "absent"
  BY <1>1, <1>2 DEF EIInv, EShape
<1>5. TurnInv'
  <2>1. CASE membership
    BY <1>1, <1>3, <2>1, TurnsReset DEF TurnInv, EShape
  <2>2. CASE ~membership
    BY <1>1, <1>4, <2>2, TurnsKept DEF EIInv, TurnInv
  <2>. QED
    BY <2>1, <2>2
<1>6. ASSUME NEW r \in Proxied PROVE AutoOK(r)'
  <2>1. steady'[r] \subseteq steady[r] /\ (s # "up" => n \notin steady'[r]) /\ torn \subseteq torn'
    BY <1>1
  <2>2. steady'[r] \subseteq EndpointNames
    BY <2>1 DEF EIInv, EShape
  <2>3. \A m \in steady'[r] : state'[m] = "up"
    BY <1>1, <2>1, <2>2 DEF EIInv, EShape, AutoOK, Available
  <2>. QED
    BY <1>1, <2>1, <2>3 DEF EIInv, AutoOK, Available
<1>7. ASSUME NEW r \in Proxied PROVE GotOK(r)'
  <2>1. SUFFICES ASSUME at[r] = "targets", r \notin torn' PROVE \E k \in 0..Len(Targets) : ReadTo(k, got[r], left[r])'
    BY <1>1 DEF GotOK
  <2>2. ~membership /\ r \notin torn
    BY <1>1, <2>1 DEF Resolving
  <2>3. PICK k \in 0..Len(Targets) : ReadTo(k, got[r], left[r])
    BY <2>1, <2>2 DEF EIInv, GotOK
  <2>4. /\ Places(state', k) = Places(state, k) /\ Count(state', k) = Count(state, k)
        /\ \A j \in Places(state, k) : Count(state', j) = Count(state, j)
    <3>1. Len(Targets) \in Nat
      BY WholeIs
    <3>2. \A j \in Places(state, k) : j \in 0..Len(Targets)
      BY <3>1 DEF Places
    <3>. QED
      BY <1>4, <2>2, <3>2, SamePlaces
  <2>5. Len(got[r]) = Count(state', k) /\ \A m \in 1..Len(got[r]) :
          \E j \in Places(state', k) : Count(state', j) = m /\ got[r][m] = Targets[j]
    BY <2>3, <2>4 DEF ReadTo
  <2>6. Len(left[r]) = Len(Targets) - k /\ \A m \in 1..Len(left[r]) : left[r][m] = Targets[k + m]
    BY <2>3 DEF ReadTo
  <2>7. left' = left /\ got' = got
    BY <1>1
  <2>. QED
    BY <2>5, <2>6, <2>7 DEF ReadTo
<1>. QED
  BY <1>3, <1>5, <1>6, <1>7 DEF EIInv

\* A step of one request leaves what the others have read.
LEMMA OtherRequests ==
  ASSUME EIInv, NEW r \in Proxied, NEW p \in Proxied, p # r,
         UNCHANGED state, EShape',
         at'[p] = at[p], left'[p] = left[p], got'[p] = got[p], answer'[p] = answer[p], steady'[p] = steady[p],
         p \in torn' <=> p \in torn
  PROVE  AutoOK(p)' /\ GotOK(p)'
<1>1. AutoOK(p) /\ GotOK(p)
  BY DEF EIInv
<1>2. AutoOK(p)'
  BY <1>1 DEF AutoOK, Available
<1>3. GotOK(p)'
  BY <1>1 DEF GotOK, ReadTo
<1>. QED
  BY <1>2, <1>3

\* A request begins.
LEMMA AskEndpoint ==
  ASSUME EIInv, NEW r \in Proxied, AskAuto(r) \/ AskRoundRobin(r)
  PROVE  EIInv'
<1>1. PICK tier \in {"auto", "targets"}, names \in Seq(EndpointNames) :
        /\ at[r] = "idle" /\ at' = [at EXCEPT ![r] = tier]
        /\ left' = [left EXCEPT ![r] = names] /\ got' = [got EXCEPT ![r] = <<>>]
        /\ UNCHANGED <<state, turn, answer, turns, torn>>
        /\ \/ /\ tier = "auto" /\ names = Candidates
              /\ steady' = [steady EXCEPT ![r] = {n \in ToSet(Candidates) : Available(n)}]
           \/ tier = "targets" /\ names = Targets /\ steady' = steady
  BY CandidatesAssumption DEF AskAuto, AskRoundRobin, BeginWith
<1>2. <<>> \in Seq(EndpointNames) /\ Len(<<>>) = 0
  OBVIOUS
<1>3. ToSet(Candidates) \subseteq EndpointNames
  BY DEF EndpointNames
<1>4. EShape'
  BY <1>1, <1>2, <1>3 DEF EIInv, EShape
<1>5. TurnInv'
  BY <1>1 DEF EIInv, TurnInv
<1>6. ASSUME NEW p \in Proxied, p # r PROVE AutoOK(p)' /\ GotOK(p)'
  BY <1>1, <1>4, <1>6, OtherRequests DEF EIInv, EShape
<1>7. /\ at'[r] = tier /\ left'[r] = names /\ got'[r] = <<>> /\ ~Refusal(answer'[r])
      /\ \A n \in steady'[r] : Available(n) /\ (tier = "auto" => n \in ToSet(Candidates))
  BY <1>1 DEF EIInv, EShape, AutoOK
<1>8. AutoOK(r)'
  <2>1. \A n \in ToSet(Candidates) : Contains(Candidates, n)
    BY CandidatesAssumption DEF ToSet, Contains
  <2>2. tier = "auto" => names = Candidates
    BY <1>1
  <2>3. tier = "auto" => \A n \in steady'[r] : Contains(left'[r], n)
    BY <1>7, <2>1, <2>2
  <2>4. \A n \in steady'[r] : Available(n)'
    BY <1>1, <1>7 DEF Available
  <2>. QED
    BY <1>7, <2>3, <2>4 DEF AutoOK
<1>9. GotOK(r)'
  <2>1. SUFFICES ASSUME tier = "targets" PROVE ReadTo(0, <<>>, Targets)' /\ 0 \in 0..Len(Targets)
    BY <1>1, <1>7 DEF GotOK
  <2>2. Len(Targets) \in Nat
    BY WholeIs
  <2>3. Count(state', 0) = 0
    BY CountNext
  <2>. QED
    BY <1>2, <2>2, <2>3 DEF ReadTo
<1>. QED
  BY <1>4, <1>5, <1>6, <1>8, <1>9 DEF EIInv

\* A row is read: what has been read grows by the target if it is there.
LEMMA ReadOne ==
  ASSUME NEW k \in 0..Len(Targets), NEW s \in Seq(EndpointNames), NEW rest \in Seq(EndpointNames), rest # <<>>,
         ReadTo(k, s, rest)
  PROVE  k + 1 \in 0..Len(Targets)
         /\ ReadTo(k + 1, IF state[Head(rest)] # "absent" THEN Append(s, Head(rest)) ELSE s, Tail(rest))
<1>1. Len(Targets) \in Nat /\ k \in Nat
  BY WholeIs
<1>2. /\ Len(rest) \in Nat \ {0} /\ Len(Tail(rest)) = Len(rest) - 1 /\ Head(rest) = rest[1]
      /\ \A m \in 1..Len(Tail(rest)) : Tail(rest)[m] = rest[m + 1]
  OBVIOUS
<1>3. /\ Len(rest) = Len(Targets) - k /\ \A m \in 1..Len(rest) : rest[m] = Targets[k + m]
      /\ Len(s) = Count(state, k)
      /\ \A m \in 1..Len(s) : \E j \in Places(state, k) : Count(state, j) = m /\ s[m] = Targets[j]
  BY DEF ReadTo
<1>4. k + 1 \in 0..Len(Targets) /\ Head(rest) = Targets[k + 1]
  BY <1>1, <1>2, <1>3
<1>5. /\ Len(Tail(rest)) = Len(Targets) - (k + 1)
      /\ \A m \in 1..Len(Tail(rest)) : Tail(rest)[m] = Targets[(k + 1) + m]
  BY <1>1, <1>2, <1>3
<1>6. Count(state, k) \in Nat /\ Count(state, k + 1) = Count(state, k) + IF state[Targets[k + 1]] # "absent" THEN 1 ELSE 0
  BY <1>1, CountNext
<1>7. Places(state, k) \subseteq Places(state, k + 1) /\ (state[Targets[k + 1]] # "absent" => k + 1 \in Places(state, k + 1))
  BY <1>1 DEF Places
<1>8. CASE state[Head(rest)] # "absent"
  <2> DEFINE t == Append(s, Head(rest))
  <2>1. Head(rest) \in EndpointNames
    BY <1>2
  <2>2. Len(t) = Len(s) + 1 /\ (\A m \in 1..Len(s) : t[m] = s[m]) /\ t[Len(s) + 1] = Head(rest) /\ Len(s) \in Nat
    BY <2>1
  <2>3. Len(t) = Count(state, k + 1)
    BY <1>3, <1>4, <1>6, <1>8, <2>2
  <2>4. ASSUME NEW m \in 1..Len(t)
        PROVE  \E j \in Places(state, k + 1) : Count(state, j) = m /\ t[m] = Targets[j]
    <3>1. CASE m = Len(s) + 1
      BY <1>4, <1>7, <1>8, <2>2, <2>3, <3>1
    <3>2. CASE m # Len(s) + 1
      BY <1>3, <1>7, <2>2, <2>4, <3>2
    <3>. QED
      BY <3>1, <3>2
  <2>. QED
    BY <1>4, <1>5, <1>8, <2>3, <2>4 DEF ReadTo
<1>9. CASE state[Head(rest)] = "absent"
  <2>1. Len(s) = Count(state, k + 1)
    BY <1>3, <1>4, <1>6, <1>9
  <2>2. \A m \in 1..Len(s) : \E j \in Places(state, k + 1) : Count(state, j) = m /\ s[m] = Targets[j]
    BY <1>3, <1>7
  <2>. QED
    BY <1>4, <1>5, <1>9, <2>1, <2>2 DEF ReadTo
<1>. QED
  BY <1>8, <1>9

\* A request reads a row.
LEMMA ReadStep ==
  ASSUME EIInv, NEW r \in Proxied, ReadRow(r)
  PROVE  EIInv'
<1> DEFINE n == Head(left[r])
<1>1. /\ at[r] \in {"auto", "targets"} /\ left[r] # <<>> /\ left' = [left EXCEPT ![r] = Tail(@)]
      /\ \/ /\ got' = [got EXCEPT ![r] = IF Usable(r, n) THEN Append(@, n) ELSE @]
            /\ torn' = torn
         \/ torn' = torn \cup {r} /\ got' = got
      /\ UNCHANGED <<state, turn, at, answer, turns, steady>>
  BY DEF ReadRow, Resolving
<1>2. left[r] \in Seq(EndpointNames) /\ got[r] \in Seq(EndpointNames)
  BY DEF EIInv, EShape
<1>3. n \in EndpointNames /\ Tail(left[r]) \in Seq(EndpointNames) /\ Append(got[r], n) \in Seq(EndpointNames)
  BY <1>1, <1>2
<1>4. EShape'
  BY <1>1, <1>2, <1>3 DEF EIInv, EShape
<1>5. TurnInv'
  BY <1>1 DEF EIInv, TurnInv
<1>6. ASSUME NEW p \in Proxied, p # r PROVE AutoOK(p)' /\ GotOK(p)'
  BY <1>1, <1>4, <1>6, OtherRequests DEF EIInv, EShape
<1>7. /\ at'[r] = at[r] /\ left'[r] = Tail(left[r]) /\ answer'[r] = answer[r] /\ steady'[r] = steady[r]
      /\ r \notin torn' => /\ got'[r] = (IF Usable(r, n) THEN Append(got[r], n) ELSE got[r])
                           /\ r \notin torn
  BY <1>1 DEF EIInv, EShape
<1>8. AutoOK(r)'
  <2>1. ASSUME at[r] = "auto", r \notin torn', NEW m \in steady[r]
        PROVE  Contains(Tail(left[r]), m) \/ Contains(got'[r], m)
    <3>1. Contains(left[r], m) \/ Contains(got[r], m)
      BY <1>7, <2>1 DEF EIInv, AutoOK
    <3>2. CASE m = n
      <4>1. got'[r] = Append(got[r], n)
        BY <1>7, <2>1, <3>2 DEF Usable, EIInv, AutoOK
      <4>2. Append(got[r], n)[Len(got[r]) + 1] = n /\ Len(Append(got[r], n)) = Len(got[r]) + 1 /\ Len(got[r]) \in Nat
        BY <1>2, <1>3
      <4>. QED
        BY <3>2, <4>1, <4>2 DEF Contains
    <3>3. CASE m # n /\ Contains(left[r], m)
      <4>1. PICK i \in 1..Len(left[r]) : left[r][i] = m
        BY <3>3 DEF Contains
      <4>2. i - 1 \in 1..Len(Tail(left[r])) /\ Tail(left[r])[i - 1] = m
        BY <1>1, <1>2, <3>3, <4>1
      <4>. QED
        BY <4>2 DEF Contains
    <3>4. CASE Contains(got[r], m)
      <4>1. PICK i \in 1..Len(got[r]) : got[r][i] = m
        BY <3>4 DEF Contains
      <4>2. /\ Append(got[r], n)[i] = m
            /\ i \in 1..Len(Append(got[r], n))
        BY <1>2, <1>3, <4>1
      <4>. QED
        BY <1>7, <2>1, <4>1, <4>2 DEF Contains
    <3>. QED
      BY <3>1, <3>2, <3>3, <3>4
  <2>2. /\ \A m \in steady'[r] : Available(m)'
        /\ at'[r] # "idle"
        /\ Refusal(answer'[r]) /\ r \notin torn' => steady'[r] = {}
    BY <1>1, <1>7 DEF EIInv, AutoOK, Available
  <2>. QED
    BY <1>7, <2>1, <2>2 DEF AutoOK
<1>9. GotOK(r)'
  <2>1. SUFFICES ASSUME at[r] = "targets", r \notin torn'
                 PROVE  \E k \in 0..Len(Targets) : ReadTo(k, got'[r], left'[r])
    BY <1>1, <1>7 DEF GotOK, ReadTo
  <2>2. PICK k \in 0..Len(Targets) : ReadTo(k, got[r], left[r])
    BY <1>7, <2>1 DEF EIInv, GotOK
  <2>3. got'[r] = IF state[Head(left[r])] # "absent" THEN Append(got[r], Head(left[r])) ELSE got[r]
    BY <1>7, <2>1 DEF Usable
  <2>. QED
    BY <1>1, <1>2, <1>7, <2>2, <2>3, ReadOne
<1>. QED
  BY <1>4, <1>5, <1>6, <1>8, <1>9 DEF EIInv

\* A request goes to another tier, without a turn.
LEMMA MoveStep ==
  ASSUME EIInv, NEW r \in Proxied, NEW tier \in {"targets", "calling", "done"},
         NEW names \in Seq(EndpointNames), NEW rows \in Seq(EndpointNames), NEW a,
         UNCHANGED <<state, turn, turns>>,
         at' = [at EXCEPT ![r] = tier], left' = [left EXCEPT ![r] = names], got' = [got EXCEPT ![r] = rows],
         answer' = [answer EXCEPT ![r] = a],
         torn' = torn \/ torn' = torn \ {r}, steady' = steady \/ steady' = [steady EXCEPT ![r] = {}],
         tier = "targets" => names = Targets /\ rows = <<>>,
         Refusal(a) => torn' = torn /\ (r \notin torn => steady'[r] = {})
  PROVE  EIInv'
<1>1. EShape'
  <2>1. answer = [p \in Proxied |-> answer[p]]
    BY DEF EIInv, EShape
  <2>2. answer' = [p \in Proxied |-> answer'[p]]
    BY <2>1
  <2>3. /\ at' \in [Proxied -> {"idle", "auto", "targets", "calling", "done"}]
        /\ left' \in [Proxied -> Seq(EndpointNames)] /\ got' \in [Proxied -> Seq(EndpointNames)]
    BY DEF EIInv, EShape
  <2>4. steady' \in [Proxied -> SUBSET EndpointNames] /\ torn' \subseteq Proxied
    BY DEF EIInv, EShape
  <2>. QED
    BY <2>2, <2>3, <2>4 DEF EIInv, EShape
<1>2. TurnInv'
  BY DEF EIInv, TurnInv
<1>3. ASSUME NEW p \in Proxied, p # r PROVE AutoOK(p)' /\ GotOK(p)'
  <2>1. /\ at'[p] = at[p] /\ left'[p] = left[p] /\ got'[p] = got[p] /\ answer'[p] = answer[p]
        /\ steady'[p] = steady[p] /\ (p \in torn' <=> p \in torn)
    BY <1>3 DEF EIInv, EShape
  <2>. QED
    BY <1>1, <1>3, <2>1, OtherRequests
<1>4. at'[r] = tier /\ left'[r] = names /\ got'[r] = rows /\ answer'[r] = a /\ steady'[r] \subseteq steady[r]
  BY DEF EIInv, EShape
<1>5. AutoOK(r)'
  BY <1>4 DEF EIInv, AutoOK, Available
<1>6. GotOK(r)'
  <2>1. SUFFICES ASSUME tier = "targets" PROVE ReadTo(0, <<>>, Targets)' /\ 0 \in 0..Len(Targets)
    BY <1>4 DEF GotOK
  <2>2. Len(Targets) \in Nat /\ Len(<<>>) = 0
    BY WholeIs
  <2>3. Count(state', 0) = 0
    BY CountNext
  <2>. QED
    BY <2>2, <2>3 DEF ReadTo
<1>. QED
  BY <1>1, <1>2, <1>3, <1>5, <1>6 DEF EIInv

\* A choice is made, or the answer is given.
LEMMA ChooseStep ==
  ASSUME EIInv, NEW r \in Proxied, ChooseAuto(r) \/ NoTargets(r) \/ UpstreamAnswers(r)
  PROVE  EIInv'
<1>1. /\ left[r] \in Seq(EndpointNames) /\ got[r] \in Seq(EndpointNames)
      /\ <<>> \in Seq(EndpointNames) /\ Targets \in Seq(EndpointNames)
  BY CandidatesAssumption DEF EIInv, EShape
<1>2. \A m \in 1..Len(got[r]) : got[r][m] \in EndpointNames
  BY <1>1
<1>3. left = [left EXCEPT ![r] = left[r]] /\ got = [got EXCEPT ![r] = got[r]] /\ answer = [answer EXCEPT ![r] = answer[r]]
  BY DEF EIInv, EShape
<1>4. CASE UpstreamAnswers(r) \/ NoTargets(r)
  <2>1. PICK a \in {200, 502, 404} :
          /\ at' = [at EXCEPT ![r] = "done"] /\ answer' = [answer EXCEPT ![r] = a] /\ UNCHANGED <<left, got>>
          /\ UNCHANGED <<state, turn, turns>>
          /\ torn' = torn \/ torn' = torn \ {r}
          /\ steady' = steady \/ steady' = [steady EXCEPT ![r] = {}]
    BY <1>4 DEF UpstreamAnswers, NoTargets, Answer
  <2>2. PICK names \in Seq(EndpointNames), rows \in Seq(EndpointNames) :
          left' = [left EXCEPT ![r] = names] /\ got' = [got EXCEPT ![r] = rows]
    BY <1>1, <1>3, <2>1
  <2>3. ~Refusal(a) /\ "done" \in {"targets", "calling", "done"} /\ "done" # "targets"
    BY <2>1 DEF Refusal
  <2>. QED
    BY <1>1, <2>1, <2>2, <2>3, MoveStep
<1>5. CASE ChooseAuto(r)
  <2>1. left[r] = <<>> /\ at[r] = "auto" /\ UNCHANGED <<state, turn, turns, steady, torn>>
    BY <1>5 DEF ChooseAuto
  <2>2. CASE \E n \in EndpointNames : Call(r, n)
    <3>1. PICK n \in EndpointNames : Call(r, n)
      BY <2>2
    <3>2. ~Refusal(n)
      BY NamesAreNames
    <3>3. /\ at' = [at EXCEPT ![r] = "calling"] /\ answer' = [answer EXCEPT ![r] = n]
          /\ got' = [got EXCEPT ![r] = <<>>] /\ left' = [left EXCEPT ![r] = left[r]]
      BY <1>3, <3>1 DEF Call
    <3>. QED
      BY <1>1, <2>1, <3>2, <3>3, MoveStep
  <2>3. CASE BeginWith(r, "targets", Targets) /\ UNCHANGED answer
    <3>1. Refusal(answer[r]) => r \in torn \/ steady[r] = {}
      BY DEF EIInv, AutoOK
    <3>2. /\ at' = [at EXCEPT ![r] = "targets"] /\ answer' = [answer EXCEPT ![r] = answer[r]]
          /\ got' = [got EXCEPT ![r] = <<>>] /\ left' = [left EXCEPT ![r] = Targets]
      BY <1>3, <2>3 DEF BeginWith
    <3>. QED
      BY <1>1, <2>1, <3>1, <3>2, MoveStep
  <2>4. CASE got[r] = <<>> /\ Answer(r, 503)
    <3>1. ASSUME r \notin torn PROVE steady[r] = {}
      <4>1. Len(left[r]) = 0 /\ Len(got[r]) = 0
        BY <2>1, <2>4
      <4>2. \A n : ~Contains(left[r], n) /\ ~Contains(got[r], n)
        BY <4>1 DEF Contains
      <4>. QED
        BY <2>1, <3>1, <4>2 DEF EIInv, AutoOK
    <3>2. PICK a : at' = [at EXCEPT ![r] = "done"] /\ answer' = [answer EXCEPT ![r] = a] /\ got' = got /\ left' = left
      BY <2>4 DEF Answer
    <3>3. got' = [got EXCEPT ![r] = <<>>] /\ left' = [left EXCEPT ![r] = left[r]]
      BY <1>3, <2>4, <3>2
    <3>4. "done" \in {"targets", "calling", "done"} /\ "done" # "targets"
          /\ torn' = torn /\ (r \notin torn => steady'[r] = {})
      BY <2>1, <3>1
    <3>. QED
      BY <1>1, <2>1, <3>2, <3>3, <3>4, MoveStep
  <2>5. (\E n \in EndpointNames : Call(r, n)) \/ (BeginWith(r, "targets", Targets) /\ UNCHANGED answer)
          \/ (got[r] = <<>> /\ Answer(r, 503))
    <3>1. got[r] # <<>> => Head(got[r]) \in EndpointNames
      BY <1>1
    <3>2. Contains(got[r], Gateway) => Gateway \in EndpointNames
      BY <1>2 DEF Contains
    <3>. QED
      BY <1>5, <3>1, <3>2 DEF ChooseAuto
  <2>. QED
    BY <2>2, <2>3, <2>4, <2>5
<1>. QED
  BY <1>4, <1>5

\* A turn is taken.
LEMMA TurnStep ==
  ASSUME EIInv, EachTargetOnce, NEW r \in Proxied, TakeTurn(r)
  PROVE  EIInv'
<1> DEFINE n == got[r][(turn % Len(got[r])) + 1]
<1>1. /\ at[r] = "targets" /\ left[r] = <<>> /\ got[r] # <<>> /\ turn' = turn + 1
      /\ UNCHANGED <<state, steady, torn, left>>
      /\ at' = [at EXCEPT ![r] = "calling"] /\ answer' = [answer EXCEPT ![r] = n] /\ got' = [got EXCEPT ![r] = <<>>]
      /\ turns' = IF r \in torn THEN [t \in ToSet(Targets) |-> 0] ELSE [turns EXCEPT ![n] = @ + 1]
  BY DEF TakeTurn, Call
<1>2. left[r] \in Seq(EndpointNames) /\ got[r] \in Seq(EndpointNames) /\ turn \in Nat /\ <<>> \in Seq(EndpointNames)
  BY DEF EIInv, EShape
<1>3. Len(got[r]) \in Nat \ {0}
  BY <1>1, <1>2
<1>4. (turn % Len(got[r])) + 1 \in 1..Len(got[r])
  <2>1. turn % Len(got[r]) \in 0..(Len(got[r]) - 1)
    BY <1>2, <1>3, ModRange
  <2>. QED
    BY <1>3, <2>1
<1>5. r \notin torn => \E j \in Places(state, Len(Targets)) :
                         Count(state, j) = (turn % Whole(state)) + 1 /\ n = Targets[j]
  <2>1. SUFFICES ASSUME r \notin torn
                 PROVE  \E j \in Places(state, Len(Targets)) :
                          Count(state, j) = (turn % Whole(state)) + 1 /\ n = Targets[j]
    OBVIOUS
  <2>2. PICK k \in 0..Len(Targets) : ReadTo(k, got[r], left[r])
    BY <1>1, <2>1 DEF EIInv, GotOK
  <2>3. k = Len(Targets) /\ Len(got[r]) = Whole(state)
    <3>1. Len(Targets) \in Nat /\ Len(left[r]) = 0
      BY <1>1, WholeIs
    <3>. QED
      BY <2>2, <3>1 DEF ReadTo, Whole
  <2>. QED
    BY <1>4, <2>2, <2>3 DEF ReadTo
<1>6. n \in EndpointNames /\ ~Refusal(n)
  <2>1. \A i \in 1..Len(got[r]) : got[r][i] \in EndpointNames
    BY <1>2
  <2>2. n \in EndpointNames
    BY <1>4, <2>1
  <2>3. \A x \in EndpointNames : ~Refusal(x)
    BY NamesAreNames
  <2> HIDE DEF n
  <2>. QED
    BY <2>2, <2>3
<1>7. turns' \in [ToSet(Targets) -> Nat]
  <2>1. turns \in [ToSet(Targets) -> Nat]
    BY DEF EIInv, EShape
  <2>2. ASSUME NEW x \in ToSet(Targets) PROVE [turns EXCEPT ![x] = turns[x] + 1] \in [ToSet(Targets) -> Nat]
    BY <2>1
  <2>3. [t \in ToSet(Targets) |-> 0] \in [ToSet(Targets) -> Nat]
    OBVIOUS
  <2>4. r \notin torn => n \in ToSet(Targets)
    BY <1>5, WholeIs
  <2> HIDE DEF n
  <2>. QED
    BY <1>1, <2>2, <2>3, <2>4
<1>8. EShape'
  <2>1. answer = [p \in Proxied |-> answer[p]]
    BY DEF EIInv, EShape
  <2>2. answer' = [p \in Proxied |-> answer'[p]]
    BY <1>1, <2>1
  <2>3. at' \in [Proxied -> {"idle", "auto", "targets", "calling", "done"}] /\ got' \in [Proxied -> Seq(EndpointNames)]
    BY <1>1, <1>2 DEF EIInv, EShape
  <2>4. turn' \in Nat
    BY <1>1, <1>2
  <2>. QED
    BY <1>1, <1>7, <2>2, <2>3, <2>4 DEF EIInv, EShape
<1>9. TurnInv'
  <2>1. CASE r \in torn
    BY <1>1, <1>2, <2>1, TurnsReset DEF TurnInv
  <2>2. CASE r \notin torn
    <3>3. PICK j \in Places(state, Len(Targets)) :
            Count(state, j) = (turn % Whole(state)) + 1 /\ n = Targets[j]
      BY <1>5, <2>2
    <3>4. EvenAt(state, turn + 1, [turns EXCEPT ![Targets[j]] = @ + 1])
      BY <1>2, <3>3, TurnTaken DEF EIInv, EShape, TurnInv
    <3>. QED
      BY <1>1, <2>2, <3>3, <3>4 DEF TurnInv
  <2>. QED
    BY <2>1, <2>2
<1>10. ASSUME NEW p \in Proxied, p # r PROVE AutoOK(p)' /\ GotOK(p)'
  BY <1>1, <1>8, <1>10, OtherRequests DEF EIInv, EShape
<1>11. at'[r] = "calling" /\ answer'[r] = n
  BY <1>1 DEF EIInv, EShape
<1>12. AutoOK(r)' /\ GotOK(r)'
  BY <1>1, <1>6, <1>11 DEF EIInv, AutoOK, GotOK, Available
<1>. QED
  BY <1>8, <1>9, <1>10, <1>12 DEF EIInv

\* The automatic router finds what is available, and the turns of the round robin
\* stay even, however many requests are resolved at once (selectAuto,
\* selectRoundRobin).
THEOREM ChoiceHolds == ASSUME EachTargetOnce PROVE ESpec => []ChoiceInv
<1>1. EInit => EIInv
  <2>1. SUFFICES ASSUME EInit PROVE EIInv
    OBVIOUS
  <2>2. <<>> \in Seq(EndpointNames)
    OBVIOUS
  <2>3. turn = 0 /\ torn = {}
    BY <2>1 DEF EInit
  <2>4. EShape
    <3>1. left \in [Proxied -> Seq(EndpointNames)] /\ got \in [Proxied -> Seq(EndpointNames)]
      BY <2>1, <2>2 DEF EInit
    <3>2. turns \in [ToSet(Targets) -> Nat] /\ state \in [EndpointNames -> {"up", "down", "absent"}]
      BY <2>1 DEF EInit
    <3>3. answer = [r \in Proxied |-> answer[r]]
      BY <2>1 DEF EInit
    <3>. QED
      BY <2>1, <2>3, <3>1, <3>2, <3>3 DEF EInit, EShape
  <2>5. TurnInv
    BY <2>1, <2>3, TurnsReset DEF EInit, TurnInv
  <2>6. \A r \in Proxied : AutoOK(r) /\ GotOK(r)
    BY <2>1 DEF EInit, AutoOK, GotOK, Refusal
  <2>. QED
    BY <2>4, <2>5, <2>6 DEF EIInv
<1>2. EIInv /\ [ENext]_eVars => EIInv'
  <2>1. ASSUME EIInv, UNCHANGED eVars PROVE EIInv'
    <3>1. EShape' /\ TurnInv'
      BY <2>1 DEF eVars, EIInv, EShape, TurnInv
    <3>2. \A r \in Proxied : AutoOK(r)' /\ GotOK(r)'
      BY <2>1 DEF eVars, EIInv, AutoOK, GotOK, ReadTo, Available
    <3>. QED
      BY <3>1, <3>2 DEF EIInv
  <2>. QED
    BY <2>1, InstanceStep, AskEndpoint, ReadStep, ChooseStep, TurnStep DEF ENext
<1>3. EIInv => ChoiceInv
  <2>1. EIInv => AutoFindsAvailable
    BY DEF EIInv, AutoOK, AutoFindsAvailable, Refusal
  <2>2. ASSUME EIInv, NEW s \in ToSet(Targets), NEW t \in ToSet(Targets), "absent" \notin {state[s], state[t]}
        PROVE  turns[s] <= turns[t] + 1
    <3>1. PICK i \in 1..Len(Targets), j \in 1..Len(Targets) : s = Targets[i] /\ t = Targets[j]
      BY CandidatesAssumption DEF ToSet
    <3>2. i \in Places(state, Len(Targets)) /\ j \in Places(state, Len(Targets))
      BY <2>2, <3>1 DEF Places
    <3>3. Whole(state) > 0
      BY <3>2, WholeIs
    <3>4. PICK b, q \in Nat : Ahead(state, turn, turns, b, q)
      BY <2>2, <3>3 DEF EIInv, TurnInv, EvenAt
    <3>5. turns[s] \in {q, q + 1} /\ turns[t] \in {q, q + 1}
      BY <3>1, <3>2, <3>4 DEF Ahead
    <3>. QED
      BY <3>5
  <2>. QED
    BY <2>1, <2>2 DEF ChoiceInv, TurnsAreEven
<1>. QED
  BY <1>1, <1>2, <1>3, PTL DEF ESpec

--------------------------------------------------------------------------------
(* The knowledge base.                                                       *)

Items   == [doc : Docs, version : KbVersions, text : 1..MaxText]
Working == {"upsert"} \cup Writing

\* The documents that are on a list.
On(s) == {s[i].doc : i \in DOMAIN s}

KbShape ==
  /\ source \in [Derived -> 1..MaxText] /\ content \in [Docs -> NoText..MaxText]
  /\ docVersion \in [Docs -> KbVersions] /\ chunks \subseteq Chunk
  /\ wAt \in [Writers -> {"idle", "upsert", "others", "done", "failed"} \cup Writing]
  /\ todo \in [Writers -> Seq(Items)] /\ seen \in [Writers -> SUBSET Chunk]
  /\ began = [w \in Writers |-> began[w]] /\ missed \in [Writers -> SUBSET Derived]
  /\ mixed \subseteq Writers /\ dirty \subseteq Docs

\* The last document on its list is the last benchmark run.
RunsFirst(s) == s # <<>> /\ Last(s).doc = Last(BenchDocs)

\* A rebuild writes benchmark runs up to the last one, then other documents.
Rebuilds(w) ==
  /\ DOMAIN began[w] = Derived /\ On(todo[w]) \subseteq Derived
  /\ RunsFirst(todo[w]) \/ On(todo[w]) \subseteq ToSet(OtherDocs)

\* A client writes one document.
Writes(w) == \E d \in Manual : DOMAIN began[w] = {d} /\ On(todo[w]) = {d} /\ Len(todo[w]) = 1 /\ wAt[w] # "others"

\* A request at work has something on its list; unless it is mixed, the row of the
\* document it is at is as it has written it, and what its DELETE has found is all
\* there is.
RequestOK(w) ==
  /\ wAt[w] \in Working <=> todo[w] # <<>>
  /\ w \in Active => Rebuilds(w) \/ Writes(w)
  /\ wAt[w] = "done" => DOMAIN began[w] = Derived \/ DOMAIN began[w] = {}
  /\ wAt[w] = "insert" => \A c \in seen[w] : c.doc = Item(w).doc
  /\ wAt[w] \in Writing /\ w \notin mixed =>
       content[Item(w).doc] = Item(w).text /\ docVersion[Item(w).doc] = Item(w).version
  /\ wAt[w] = "insert" /\ w \notin mixed =>
       seen[w] = {c \in chunks : c.doc = Item(w).doc /\ c.version = Item(w).version}

\* Requests at work on the same documents are mixed.
MixedInv ==
  \A v, w \in Active : v # w /\ DOMAIN began[v] \cap DOMAIN began[w] # {} => v \in mixed /\ w \in mixed

\* What a rebuild has yet to write, or will not write.
Pending(w) == On(todo[w]) \cup missed[w] \cup IF wAt[w] = "others" \/ RunsFirst(todo[w]) THEN ToSet(OtherDocs) ELSE {}

\* Nothing older than what a rebuild found when it began is written after it, and
\* what is not pending is not older.
CurrentOK(w) ==
  (w \in Active \/ wAt[w] = "done") /\ DOMAIN began[w] = Derived /\ w \notin mixed =>
    /\ \A d \in Derived : began[w][d] \in Nat /\ began[w][d] <= source[d]
    /\ \A v \in Writers : \A i \in DOMAIN todo[v] :
         todo[v][i].doc \in Derived => began[w][todo[v][i].doc] <= todo[v][i].text
    /\ \A d \in Derived \ Pending(w) :
         /\ content[d] >= began[w][d]
         /\ d \notin dirty => \E c \in chunks : c.doc = d /\ c.text >= began[w][d]

Resting(d) == d \notin dirty /\ content[d] # NoText /\ \A w \in Writers : wAt[w] \in Writing => Item(w).doc # d

\* A document at rest has one chunk of its version, and that has its text.
IndexOK(d) ==
  Resting(d) => \E c \in chunks : /\ c.text = content[d]
                                  /\ {x \in chunks : x.doc = d /\ x.version = docVersion[d]} = {c}

KbIInv ==
  /\ KbShape /\ MixedInv
  /\ \A w \in Writers : RequestOK(w) /\ CurrentOK(w)
  /\ \A d \in Docs : IndexOK(d)

\* The head of a list is taken off it.
LEMMA PopList ==
  ASSUME NEW s \in Seq(Items), s # <<>>
  PROVE  /\ Head(s) = s[1] /\ Head(s) \in Items /\ 1 \in DOMAIN s /\ Tail(s) \in Seq(Items)
         /\ Len(s) \in Nat
         /\ On(s) = {Head(s).doc} \cup On(Tail(s))
         /\ \A i \in DOMAIN Tail(s) : \E j \in DOMAIN s : Tail(s)[i] = s[j]
         /\ Len(s) > 1 => Tail(s) # <<>> /\ Last(Tail(s)) = Last(s)
         /\ Len(s) <= 1 => Len(s) = 1 /\ Tail(s) = <<>> /\ Last(s) = Head(s)
<1>1. /\ Len(s) \in Nat \ {0} /\ DOMAIN s = 1..Len(s) /\ Head(s) = s[1] /\ Head(s) \in Items
      /\ Tail(s) \in Seq(Items) /\ Len(Tail(s)) = Len(s) - 1 /\ DOMAIN Tail(s) = 1..(Len(s) - 1)
      /\ \A i \in 1..(Len(s) - 1) : Tail(s)[i] = s[i + 1]
  OBVIOUS
<1> DEFINE n == Len(s)
           t == Tail(s)
<1>2. /\ n \in Nat /\ n >= 1 /\ DOMAIN t = 1..(n - 1)
      /\ \A i \in 1..(n - 1) : i + 1 \in 1..n /\ t[i] = s[i + 1]
  BY <1>1
<1>3. ASSUME NEW j \in 1..n, j # 1 PROVE j - 1 \in 1..(n - 1) /\ t[j - 1] = s[j]
  <2>1. j - 1 \in 1..(n - 1) /\ (j - 1) + 1 = j
    BY <1>2, <1>3
  <2>. QED
    BY <1>2, <2>1
<1>4. On(s) = {Head(s).doc} \cup On(t)
  <2>1. /\ \A d : d \in On(s) <=> \E j \in 1..n : d = s[j].doc
        /\ \A d : d \in On(t) <=> \E i \in 1..(n - 1) : d = t[i].doc
    BY <1>1, <1>2 DEF On
  <2>2. ASSUME NEW j \in 1..n PROVE s[j].doc \in {Head(s).doc} \cup On(t)
    BY <1>1, <1>3, <2>1
  <2>3. Head(s).doc \in On(s)
    BY <1>1, <2>1
  <2>4. ASSUME NEW i \in 1..(n - 1) PROVE t[i].doc \in On(s)
    BY <1>2, <2>1
  <2>5. On(s) \subseteq {Head(s).doc} \cup On(t)
    BY <2>1, <2>2
  <2>6. On(t) \subseteq On(s)
    BY <2>1, <2>4
  <2> HIDE DEF t
  <2>. QED
    BY <2>3, <2>5, <2>6
<1>5. Len(s) > 1 => Tail(s) # <<>> /\ Last(Tail(s)) = Last(s)
  <2>1. SUFFICES ASSUME n > 1 PROVE t # <<>> /\ Last(t) = Last(s)
    OBVIOUS
  <2>2. n - 1 \in 1..(n - 1) /\ (n - 1) + 1 = n /\ Len(t) = n - 1
    BY <1>1, <1>2, <2>1
  <2>3. t[n - 1] = s[n]
    BY <1>2, <2>2
  <2>4. Last(t) = Last(s)
    BY <2>2, <2>3 DEF Last
  <2>. QED
    BY <1>1, <2>1, <2>4
<1>6. Len(s) <= 1 => Len(s) = 1 /\ Tail(s) = <<>> /\ Last(s) = Head(s)
  BY <1>1 DEF Last
<1>7. \A i \in DOMAIN Tail(s) : \E j \in DOMAIN s : Tail(s)[i] = s[j]
  BY <1>1, <1>2
<1>. QED
  BY <1>1, <1>4, <1>5, <1>6, <1>7

\* A list is made of documents as their rows are.
LEMMA ListIs ==
  ASSUME KbShape, NEW ds \in Seq(Docs), ds # <<>>, ToSet(ds) \subseteq Derived
  PROVE  /\ Listed(ds) \in Seq(Items) /\ Listed(ds) # <<>> /\ On(Listed(ds)) = ToSet(ds)
         /\ Last(Listed(ds)).doc = Last(ds) /\ Last(ds) \in ToSet(ds)
         /\ \A i \in DOMAIN Listed(ds) : Listed(ds)[i].text = source[Listed(ds)[i].doc]
<1> DEFINE l == Listed(ds)
<1>1. /\ Len(ds) \in Nat \ {0} /\ DOMAIN ds = 1..Len(ds) /\ DOMAIN l = 1..Len(ds)
      /\ \A i \in 1..Len(ds) : /\ ds[i] \in ToSet(ds)
                               /\ l[i] = [doc |-> ds[i], version |-> Default, text |-> source[ds[i]]]
  BY DEF Listed, ToSet
<1>2. \A i \in 1..Len(ds) : l[i] \in Items /\ l[i].doc = ds[i] /\ l[i].text = source[l[i].doc]
  BY <1>1, KnowledgeAssumption DEF KbShape, Items, Docs
<1>3. l = [i \in 1..Len(ds) |-> l[i]]
  BY <1>1 DEF Listed
<1> HIDE DEF l
<1>4. l \in Seq(Items) /\ Len(l) = Len(ds)
  BY <1>1, <1>2, <1>3
<1>5. l # <<>> /\ Last(l).doc = Last(ds) /\ Last(ds) \in ToSet(ds)
  BY <1>1, <1>2, <1>4 DEF Last
<1>6. On(l) = ToSet(ds)
  BY <1>1, <1>2 DEF On, ToSet
<1>. QED
  BY <1>1, <1>2, <1>4, <1>5, <1>6 DEF l

\* The document that a request at work is at.
LEMMA ItemIs ==
  ASSUME KbIInv, NEW w \in Writers, wAt[w] \in Working
  PROVE  /\ Item(w) \in Items /\ Item(w) = todo[w][1] /\ 1 \in DOMAIN todo[w]
         /\ Item(w).doc \in On(todo[w]) /\ Item(w).doc \in Docs /\ Item(w).doc \in DOMAIN began[w]
         /\ w \in Active
<1>1. todo[w] \in Seq(Items) /\ todo[w] # <<>> /\ (Rebuilds(w) \/ Writes(w)) /\ w \in Active
  BY DEF KbIInv, KbShape, RequestOK, Active, Working, Writing
<1>2. Head(todo[w]) \in Items /\ Head(todo[w]) = todo[w][1] /\ 1 \in DOMAIN todo[w]
  BY <1>1, PopList
<1>3. Item(w).doc \in On(todo[w])
  BY <1>2 DEF Item, On
<1>. QED
  BY <1>1, <1>2, <1>3 DEF Item, Rebuilds, Writes, Items

\* A document is not written by two requests at a time, unless they are mixed.
LEMMA WritersApart ==
  ASSUME KbIInv, NEW v \in Writers, NEW w \in Active, v # w, wAt[v] \in Working, v \notin mixed \/ w \notin mixed
  PROVE  Item(v).doc \notin DOMAIN began[w] /\ (wAt[w] \in Working => Item(w).doc # Item(v).doc)
<1>1. Item(v).doc \in DOMAIN began[v] /\ v \in Active
  BY ItemIs
<1>2. w \in Writers /\ (wAt[w] \in Working => Item(w).doc \in DOMAIN began[w])
  BY ItemIs DEF Active
<1>. QED
  BY <1>1, <1>2 DEF KbIInv, MixedInv

\* What a request at work does leaves the other requests' lists alone.
Apart(w) ==
  \A v \in Writers \ {w} : /\ wAt'[v] = wAt[v] /\ todo'[v] = todo[v]
                            /\ seen'[v] = seen[v] /\ began'[v] = began[v] /\ missed'[v] = missed[v]

\* Nothing is on an empty list.
LEMMA NothingListed == On(<<>>) = {} /\ ~RunsFirst(<<>>)
  BY DEF On, RunsFirst

\* A row that changes makes what is written of it older, not what has been read.
LEMMA SourceStep ==
  ASSUME KbIInv, NEW e \in Derived, SourceChanges(e) PROVE KbIInv'
<1>1. /\ source' \in [Derived -> 1..MaxText] /\ \A d \in Derived : source[d] <= source'[d]
      /\ UNCHANGED <<content, docVersion, chunks, wAt, todo, seen, began, missed, mixed, dirty>>
  BY KnowledgeAssumption DEF KbIInv, KbShape, SourceChanges
<1>2. KbShape' /\ MixedInv'
  BY <1>1 DEF KbIInv, KbShape, MixedInv, Active
<1>3. ASSUME NEW w \in Writers PROVE RequestOK(w)'
  BY <1>1 DEF KbIInv, RequestOK, Active, Rebuilds, Writes, Item
<1>4. ASSUME NEW w \in Writers PROVE CurrentOK(w)'
  <2>1. \A d \in Derived : source[d] \in Nat /\ source'[d] \in Nat
    BY <1>1, KnowledgeAssumption DEF KbIInv, KbShape
  <2>. QED
    BY <1>1, <2>1 DEF KbIInv, CurrentOK, Active, Pending
<1>5. ASSUME NEW d \in Docs PROVE IndexOK(d)'
  BY <1>1 DEF KbIInv, IndexOK, Resting, Item
<1>. QED
  BY <1>2, <1>3, <1>4, <1>5 DEF KbIInv

\* A request begins: whom it overlaps is mixed with it.
LEMMA BeginStep ==
  ASSUME KbIInv, NEW w \in Writers, wAt[w] = "idle",
         NEW l \in Seq(Items), l # <<>>, NEW docs \in SUBSET Docs, NEW known, DOMAIN known = docs,
         todo' = [todo EXCEPT ![w] = l], WGoto(w, "upsert"), Begin(w, docs, known),
         UNCHANGED <<source, content, docVersion, chunks, seen, missed, dirty>>,
         \/ /\ docs = Derived /\ known = source /\ RunsFirst(l) /\ On(l) = ToSet(BenchDocs)
            /\ \A i \in DOMAIN l : l[i].text = source[l[i].doc]
         \/ \E d \in Manual : docs = {d} /\ On(l) = {d} /\ Len(l) = 1
  PROVE  KbIInv'
<1>1. /\ wAt' = [wAt EXCEPT ![w] = "upsert"] /\ began' = [began EXCEPT ![w] = known]
      /\ mixed' = mixed \cup {v \in Active : DOMAIN began[v] \cap docs # {}}
                  \cup {x \in {w} : {v \in Active : DOMAIN began[v] \cap docs # {}} # {}}
  BY DEF WGoto, Begin
<1>2. KbShape'
  BY <1>1 DEF KbIInv, KbShape, Active
<1>3. /\ Apart(w) /\ wAt'[w] = "upsert" /\ todo'[w] = l /\ began'[w] = known
      /\ mixed \subseteq mixed' /\ w \notin Active /\ Active' = Active \cup {w}
      /\ \A v \in Active : DOMAIN began[v] \cap docs # {} => v \in mixed' /\ w \in mixed'
  BY <1>1 DEF KbIInv, KbShape, Apart, Active
<1>4. MixedInv'
  <2>1. \A v \in Active : began'[v] = began[v]
    BY <1>3 DEF Apart, Active
  <2>. QED
    BY <1>3, <2>1 DEF KbIInv, MixedInv
<1>5. ASSUME NEW v \in Writers \ {w} PROVE RequestOK(v)'
  <2>1. /\ wAt'[v] = wAt[v] /\ todo'[v] = todo[v] /\ seen'[v] = seen[v] /\ began'[v] = began[v]
        /\ v \in Active' <=> v \in Active
    BY <1>3 DEF Apart
  <2>2. Rebuilds(v)' = Rebuilds(v) /\ Writes(v)' = Writes(v) /\ Item(v)' = Item(v)
    BY <2>1 DEF Rebuilds, Writes, Item
  <2>3. RequestOK(v)
    BY DEF KbIInv
  <2>. QED
    BY <1>3, <2>1, <2>2, <2>3 DEF RequestOK
<1>6. RequestOK(w)'
  BY <1>3 DEF RequestOK, Rebuilds, Writes, Working, Writing, Derived
<1>7. ASSUME NEW v \in Writers, NEW i \in DOMAIN todo[v], todo[v][i].doc \in Derived
      PROVE  v \in Active /\ DOMAIN began[v] = Derived
  <2>1. todo[v] \in Seq(Items) /\ todo[v] # <<>> /\ todo[v][i].doc \in On(todo[v])
    BY <1>7 DEF KbIInv, KbShape, On
  <2>2. v \in Active /\ (Rebuilds(v) \/ Writes(v))
    BY <2>1 DEF KbIInv, RequestOK, Active, Working, Writing
  <2>3. ~Writes(v)
    BY <1>7, <2>1, KnowledgeAssumption DEF Writes
  <2>. QED
    BY <2>2, <2>3 DEF Rebuilds
<1>8. CurrentOK(w)'
  <2>1. SUFFICES ASSUME docs = Derived, w \notin mixed' PROVE CurrentOK(w)'
    BY <1>3 DEF CurrentOK
  <2>2. /\ known = source /\ RunsFirst(l) /\ On(l) = ToSet(BenchDocs)
        /\ \A i \in DOMAIN l : l[i].text = source[l[i].doc]
    BY <2>1, KnowledgeAssumption
  <2>3. Derived \ Pending(w)' = {}
    BY <1>3, <2>2 DEF Pending, Derived
  <2>4. \A d \in Derived : source[d] \in Nat
    BY KnowledgeAssumption DEF KbIInv, KbShape
  <2>5. ToSet(BenchDocs) # {}
    <3>1. 1 \in DOMAIN BenchDocs
      BY KnowledgeAssumption
    <3>. QED
      BY <3>1 DEF ToSet
  <2>6. ASSUME NEW v \in Writers, NEW i \in DOMAIN todo'[v], todo'[v][i].doc \in Derived PROVE v = w
    BY <1>3, <1>7, <2>1, <2>5, <2>6 DEF Apart, Derived
  <2>. QED
    BY <1>3, <2>2, <2>3, <2>4, <2>6 DEF CurrentOK
<1>9. ASSUME NEW v \in Writers \ {w} PROVE CurrentOK(v)'
  <2>1. SUFFICES ASSUME v \in Active \/ wAt[v] = "done", DOMAIN began[v] = Derived, v \notin mixed PROVE CurrentOK(v)'
    BY <1>3 DEF CurrentOK, Apart
  <2>2. CurrentOK(v)
    BY DEF KbIInv
  <2>3. Pending(v)' = Pending(v) /\ began'[v] = began[v]
    BY <1>3 DEF Pending, Apart
  <2>4. ASSUME NEW i \in DOMAIN l, l[i].doc \in Derived PROVE began[v][l[i].doc] <= l[i].text
    <3>1. l[i].doc \in On(l)
      BY DEF On
    <3>2. l[i].text = source[l[i].doc]
      BY <2>4, <3>1, KnowledgeAssumption
    <3>. QED
      BY <2>1, <2>2, <2>4, <3>2 DEF CurrentOK
  <2>. QED
    BY <1>3, <2>1, <2>2, <2>3, <2>4 DEF CurrentOK, Apart
<1>10. ASSUME NEW d \in Docs PROVE IndexOK(d)'
  <2>1. \A v \in Writers : wAt[v] \in Writing => wAt'[v] = wAt[v] /\ Item(v)' = Item(v)
    BY <1>3 DEF Apart, Item, Writing
  <2>2. Resting(d)' => Resting(d)
    BY <2>1 DEF Resting
  <2>. QED
    BY <2>2 DEF KbIInv, IndexOK
<1>. QED
  BY <1>2, <1>4, <1>5, <1>6, <1>8, <1>9, <1>10 DEF KbIInv

\* The requests beside the one that moves.
LEMMA OtherRequest ==
  ASSUME KbIInv, NEW w \in Writers, NEW v \in Writers \ {w}, Apart(w), mixed' = mixed,
         wAt[v] \in Writing /\ v \notin mixed =>
           /\ content'[Item(v).doc] = content[Item(v).doc]
           /\ docVersion'[Item(v).doc] = docVersion[Item(v).doc]
           /\ {c \in chunks : c.doc = Item(v).doc} = {c \in chunks' : c.doc = Item(v).doc}
  PROVE  RequestOK(v)'
<1>1. /\ wAt'[v] = wAt[v] /\ todo'[v] = todo[v] /\ seen'[v] = seen[v] /\ began'[v] = began[v]
      /\ v \in Active' <=> v \in Active
  BY DEF Apart, Active
<1>2. Rebuilds(v)' = Rebuilds(v) /\ Writes(v)' = Writes(v) /\ Item(v)' = Item(v)
  BY <1>1 DEF Rebuilds, Writes, Item
<1>3. RequestOK(v) /\ ("insert" \in Writing)
  BY DEF KbIInv, Writing
<1>. QED
  BY <1>1, <1>2, <1>3 DEF RequestOK

\* Requests that go on or end overlap no others than before.
LEMMA MixedStep ==
  ASSUME KbIInv, NEW w \in Active, Apart(w), mixed' = mixed, w \in Active' => began'[w] = began[w]
  PROVE  MixedInv'
<1>1. \A v \in Active' : v \in Active /\ began'[v] = began[v]
  BY DEF Apart, Active
<1>. QED
  BY <1>1 DEF KbIInv, MixedInv

\* What a request at work writes is not older than what a rebuild beside it found.
LEMMA CurrentStep ==
  ASSUME KbIInv, NEW w \in Writers, wAt[w] \in Working, Apart(w), mixed' = mixed, source' = source,
         NEW v \in Writers, began'[v] = began[v],
         v \in Active' \/ wAt'[v] = "done" => v \in Active \/ wAt[v] = "done",
         \A i \in DOMAIN todo'[w] : \E j \in DOMAIN todo[w] : todo'[w][i] = todo[w][j],
         \A d \in Derived \ Pending(v)' :
           /\ \/ d = Item(w).doc /\ content'[d] = Item(w).text
              \/ d \notin Pending(v) /\ content'[d] = content[d]
           /\ d \notin dirty' =>
                \/ d = Item(w).doc /\ \E c \in chunks' : c.doc = d /\ c.text = Item(w).text
                \/ d \notin Pending(v) /\ d \notin dirty /\ \A c \in chunks : c.doc = d => c \in chunks'
  PROVE  CurrentOK(v)'
<1>1. SUFFICES ASSUME v \in Active \/ wAt[v] = "done", DOMAIN began[v] = Derived, v \notin mixed PROVE CurrentOK(v)'
  BY DEF CurrentOK
<1>2. CurrentOK(v)
  BY DEF KbIInv
<1>3. Item(w).doc \in Derived => began[v][Item(w).doc] <= Item(w).text
  BY <1>1, <1>2, ItemIs DEF CurrentOK
<1>4. ASSUME NEW u \in Writers, NEW i \in DOMAIN todo'[u], todo'[u][i].doc \in Derived
      PROVE  began[v][todo'[u][i].doc] <= todo'[u][i].text
  <2>1. CASE u = w
    BY <1>1, <1>2, <1>4, <2>1 DEF CurrentOK
  <2>2. CASE u # w
    BY <1>1, <1>2, <1>4, <2>2 DEF CurrentOK, Apart
  <2>. QED
    BY <2>1, <2>2
<1>5. ASSUME NEW d \in Derived \ Pending(v)'
      PROVE  /\ content'[d] >= began[v][d]
             /\ d \notin dirty' => \E c \in chunks' : c.doc = d /\ c.text >= began[v][d]
  <2>1. began[v][d] \in Nat /\ (d = Item(w).doc => began[v][d] <= Item(w).text /\ Item(w).text \in Nat)
    BY <1>1, <1>2, <1>3, ItemIs, KnowledgeAssumption DEF CurrentOK, Items
  <2>2. d \notin Pending(v) => /\ content[d] >= began[v][d]
                               /\ d \notin dirty => \E c \in chunks : c.doc = d /\ c.text >= began[v][d]
    BY <1>1, <1>2 DEF CurrentOK
  <2>. QED
    BY <2>1, <2>2
<1>. QED
  BY <1>1, <1>2, <1>4, <1>5 DEF CurrentOK

\* A document that is not written stays as it is.
LEMMA IndexStep ==
  ASSUME KbIInv, NEW w \in Writers, Apart(w), NEW d \in Docs,
         d \in dirty => d \in dirty', content'[d] = content[d], docVersion'[d] = docVersion[d],
         {c \in chunks : c.doc = d} = {c \in chunks' : c.doc = d},
         wAt[w] \in Writing /\ Item(w).doc = d => d \in dirty' \/ (wAt'[w] \in Writing /\ Item(w)' = Item(w))
  PROVE  IndexOK(d)'
<1>1. SUFFICES ASSUME Resting(d)' PROVE IndexOK(d)'
  BY DEF IndexOK
<1>2. \A v \in Writers \ {w} : wAt'[v] = wAt[v] /\ Item(v)' = Item(v)
  BY DEF Apart, Item
<1>3. Resting(d)
  BY <1>1, <1>2 DEF Resting
<1>4. \E c \in chunks : /\ c.text = content[d]
                        /\ {x \in chunks : x.doc = d /\ x.version = docVersion[d]} = {c}
  BY <1>3 DEF KbIInv, IndexOK
<1>5. {x \in chunks : x.doc = d /\ x.version = docVersion[d]} = {x \in chunks' : x.doc = d /\ x.version = docVersion'[d]}
  OBVIOUS
<1>6. \E c \in chunks' : /\ c.text = content'[d]
                         /\ {x \in chunks' : x.doc = d /\ x.version = docVersion'[d]} = {c}
  BY <1>4, <1>5
<1>. QED
  BY <1>6 DEF IndexOK

\* What is left of a list names documents of it.
LEMMA PartIs ==
  ASSUME KbShape, NEW ds \in Seq(Docs), ToSet(ds) \subseteq Derived, NEW s \in PartsOf(ds)
  PROVE  s \in Seq(Docs) /\ ToSet(s) \subseteq ToSet(ds)
<1>1. PICK m \in 0..Len(ds) : s \in [1..m -> ToSet(ds)]
  BY DEF PartsOf, SeqOf
<1>2. ToSet(ds) \subseteq Docs /\ m \in Nat
  BY DEF Docs
<1>3. s \in Seq(Docs) /\ DOMAIN s = 1..m
  BY <1>1, <1>2
<1>4. ToSet(s) \subseteq ToSet(ds)
  BY <1>1, <1>3 DEF ToSet
<1>. QED
  BY <1>3, <1>4

\* The other rows are listed as they are by then, those that are read.
LEMMA ListStep ==
  ASSUME KbIInv, NEW w \in Writers, RebuildListOthers(w) PROVE KbIInv'
<1>0. PICK ds \in {OtherDocs} \cup PartsOf(OtherDocs) :
        /\ todo' = [todo EXCEPT ![w] = Listed(ds)]
        /\ missed' = [missed EXCEPT ![w] = @ \cup (ToSet(OtherDocs) \ ToSet(ds))]
        /\ WGoto(w, IF ds = <<>> THEN "done" ELSE "upsert")
  BY DEF RebuildListOthers
<1>d. ds \in Seq(Docs) /\ ToSet(ds) \subseteq ToSet(OtherDocs) /\ ToSet(OtherDocs) \subseteq Derived
  BY PartIs, KnowledgeAssumption DEF KbIInv, Derived
<1> DEFINE l == Listed(ds)
<1>1. /\ l \in Seq(Items) /\ (l = <<>> <=> ds = <<>>) /\ On(l) = ToSet(ds)
      /\ \A i \in DOMAIN l : l[i].text = source[l[i].doc]
  <2>1. CASE ds # <<>>
    BY <1>d, <2>1, ListIs DEF KbIInv
  <2>2. CASE ds = <<>>
    <3>1. DOMAIN ds = {} /\ l = <<>>
      BY <2>2 DEF Listed
    <3>2. ToSet(ds) = {} /\ On(l) = {}
      BY <3>1, <2>2, NothingListed DEF ToSet
    <3>3. l \in Seq(Items) /\ \A i \in DOMAIN l : FALSE
      BY <3>1
    <3>. QED
      BY <2>2, <3>1, <3>2, <3>3
  <2>. QED
    BY <2>1, <2>2
<1>2. l = Listed(ds)
  OBVIOUS
<1> HIDE DEF l
<1>3. /\ wAt[w] = "others" /\ wAt' = [wAt EXCEPT ![w] = IF ds = <<>> THEN "done" ELSE "upsert"]
      /\ todo' = [todo EXCEPT ![w] = l]
      /\ missed' = [missed EXCEPT ![w] = @ \cup (ToSet(OtherDocs) \ ToSet(ds))]
      /\ UNCHANGED <<source, content, docVersion, chunks, seen, began, mixed, dirty>>
  BY <1>0, <1>2 DEF RebuildListOthers, WGoto
<1>4. /\ Apart(w) /\ wAt'[w] = (IF ds = <<>> THEN "done" ELSE "upsert") /\ todo'[w] = l
      /\ missed'[w] = missed[w] \cup (ToSet(OtherDocs) \ ToSet(ds))
      /\ w \in Active /\ (w \in Active' <=> ds # <<>>)
  BY <1>3 DEF KbIInv, KbShape, Apart, Active
<1>5. Rebuilds(w) /\ todo[w] = <<>>
  BY <1>3, <1>4 DEF KbIInv, RequestOK, Writes, Working, Writing
<1>6. KbShape' /\ MixedInv'
  <2>1. missed' \in [Writers -> SUBSET Derived]
    BY <1>3, <1>d DEF KbIInv, KbShape
  <2>. QED
    BY <1>1, <1>3, <1>4, <2>1, MixedStep DEF KbIInv, KbShape
<1>7. RequestOK(w)'
  <2>1. wAt'[w] \in Working <=> l # <<>>
    BY <1>1, <1>4 DEF Working, Writing
  <2>2. DOMAIN began'[w] = Derived /\ On(l) \subseteq ToSet(OtherDocs)
    BY <1>1, <1>3, <1>5, <1>d DEF Rebuilds
  <2>. QED
    BY <1>4, <1>d, <2>1, <2>2 DEF RequestOK, Rebuilds, Writing
<1>8. ASSUME NEW v \in Writers PROVE CurrentOK(v)'
  <2>1. SUFFICES ASSUME v \in Active \/ wAt[v] = "done", DOMAIN began[v] = Derived, v \notin mixed PROVE CurrentOK(v)'
    BY <1>3, <1>4 DEF CurrentOK, Apart, Active
  <2>2. CurrentOK(v) /\ began' = began
    BY <1>3 DEF KbIInv
  <2>3. Pending(v)' = Pending(v)
    <3>1. v = w => Pending(v) = ToSet(OtherDocs) \cup missed[w]
      BY <1>3, <1>5, NothingListed DEF Pending
    <3>2. v = w => Pending(v)' = ToSet(OtherDocs) \cup missed[w]
      BY <1>1, <1>4, <1>d DEF Pending
    <3>3. v # w => Pending(v)' = Pending(v)
      BY <1>4 DEF Pending, Apart
    <3>. QED
      BY <3>1, <3>2, <3>3
  <2>4. ASSUME NEW i \in DOMAIN l PROVE began[v][l[i].doc] <= l[i].text
    <3>1. l[i].doc \in On(l)
      BY DEF On
    <3>. QED
      BY <1>1, <1>d, <2>1, <2>2, <3>1 DEF CurrentOK
  <2>. QED
    BY <1>3, <1>4, <2>1, <2>2, <2>3, <2>4 DEF CurrentOK, Apart
<1>9. ASSUME NEW d \in Docs PROVE IndexOK(d)'
  BY <1>3, <1>4, IndexStep DEF Writing
<1>. QED
  BY <1>3, <1>4, <1>6, <1>7, <1>8, <1>9, OtherRequest DEF KbIInv

\* The text of a document is written.
LEMMA UpsertStep ==
  ASSUME KbIInv, NEW w \in Writers, UpsertDocument(w) PROVE KbIInv'
<1>1. /\ wAt[w] = "upsert" /\ wAt' = [wAt EXCEPT ![w] = "embed"]
      /\ content' = [content EXCEPT ![Item(w).doc] = Item(w).text]
      /\ docVersion' = [docVersion EXCEPT ![Item(w).doc] = Item(w).version]
      /\ UNCHANGED <<source, chunks, todo, seen, began, missed, mixed, dirty>>
  BY DEF UpsertDocument, WGoto
<1>2. /\ w \in Active /\ w \in Active' /\ Apart(w) /\ wAt'[w] = "embed" /\ Item(w)' = Item(w)
      /\ "embed" \in Writing /\ wAt[w] \in Working /\ wAt[w] \notin Writing
  BY <1>1 DEF KbIInv, KbShape, Active, Apart, Item, Writing, Working
<1>3. /\ Item(w).doc \in Docs /\ Item(w).text \in 1..MaxText /\ Item(w).version \in KbVersions
      /\ todo[w] # <<>>
  BY <1>1, <1>2, ItemIs DEF Items, KbIInv, RequestOK
<1>4. /\ content'[Item(w).doc] = Item(w).text /\ docVersion'[Item(w).doc] = Item(w).version
      /\ \A d \in Docs : d # Item(w).doc => content'[d] = content[d] /\ docVersion'[d] = docVersion[d]
  BY <1>1, <1>3 DEF KbIInv, KbShape
<1>5. KbShape' /\ MixedInv'
  <2>1. content' \in [Docs -> NoText..MaxText] /\ docVersion' \in [Docs -> KbVersions]
    BY <1>1, <1>3, KnowledgeAssumption DEF KbIInv, KbShape, NoText
  <2>. QED
    BY <1>1, <1>2, <2>1, MixedStep DEF KbIInv, KbShape, Writing
<1>6. RequestOK(w)'
  <2>1. Rebuilds(w)' = Rebuilds(w) /\ (Writes(w) => Writes(w)')
    BY <1>1, <1>2 DEF Rebuilds, Writes
  <2>. QED
    BY <1>1, <1>2, <1>3, <1>4, <2>1 DEF KbIInv, RequestOK, Working
<1>7. ASSUME NEW v \in Writers \ {w} PROVE RequestOK(v)'
  <2>1. ASSUME wAt[v] \in Writing, v \notin mixed PROVE Item(v).doc # Item(w).doc /\ Item(v).doc \in Docs
    <3>1. v \in Active /\ wAt[v] \in Working /\ Item(v).doc \in Docs
      BY <2>1, ItemIs DEF Working
    <3>. QED
      BY <1>2, <2>1, <3>1, WritersApart
  <2>. QED
    BY <1>1, <1>2, <1>4, <2>1, OtherRequest
<1>8. ASSUME NEW v \in Writers PROVE CurrentOK(v)'
  <2>1. Pending(v)' = Pending(v)
    BY <1>1, <1>2 DEF Pending, Apart
  <2>2. v = w => Item(w).doc \in Pending(v)
    BY <1>2, ItemIs DEF Pending
  <2>3. Derived \subseteq Docs
    BY DEF Docs
  <2>. QED
    BY <1>1, <1>2, <1>4, <2>1, <2>2, <2>3, CurrentStep DEF Active, Apart
<1>9. ASSUME NEW d \in Docs PROVE IndexOK(d)'
  <2>1. CASE d = Item(w).doc
    BY <1>2, <2>1 DEF IndexOK, Resting
  <2>2. CASE d # Item(w).doc
    BY <1>1, <1>2, <1>4, <2>2, IndexStep
  <2>. QED
    BY <2>1, <2>2
<1>. QED
  BY <1>5, <1>6, <1>7, <1>8, <1>9 DEF KbIInv

\* The AI service answers, or the DELETE finds what is there.
LEMMA WorkStep ==
  ASSUME KbIInv, NEW w \in Writers, Embed(w) \/ DeleteChunks(w) PROVE KbIInv'
<1> DEFINE rows == {c \in chunks : c.doc = Item(w).doc /\ c.version = Item(w).version}
<1>1. /\ \/ wAt[w] = "embed" /\ wAt' = [wAt EXCEPT ![w] = "delete"] /\ seen' = seen
         \/ wAt[w] = "delete" /\ wAt' = [wAt EXCEPT ![w] = "insert"] /\ seen' = [seen EXCEPT ![w] = rows]
      /\ UNCHANGED <<source, content, docVersion, chunks, todo, began, missed, mixed, dirty>>
  BY DEF Embed, DeleteChunks, WGoto
<1>2. /\ wAt[w] \in Writing /\ wAt'[w] \in Writing /\ wAt'[w] # "others" /\ Apart(w)
      /\ Item(w)' = Item(w)
      /\ wAt'[w] = "insert" => seen'[w] = rows
  BY <1>1 DEF KbIInv, KbShape, Apart, Item, Writing
<1>3. w \in Active /\ w \in Active' /\ todo[w] # <<>> /\ wAt[w] \in Working /\ wAt'[w] \in Working
  BY <1>2 DEF KbIInv, RequestOK, Active, Working, Writing
<1>4. KbShape' /\ MixedInv'
  <2>1. rows \subseteq Chunk
    BY DEF KbIInv, KbShape
  <2>2. seen' \in [Writers -> SUBSET Chunk]
    BY <1>1, <2>1 DEF KbIInv, KbShape
  <2>. QED
    BY <1>1, <1>2, <1>3, <2>2, MixedStep DEF KbIInv, KbShape, Writing
<1>5. RequestOK(w)'
  <2>1. Rebuilds(w)' = Rebuilds(w) /\ (Writes(w) => Writes(w)')
    BY <1>1, <1>2 DEF Rebuilds, Writes
  <2>2. wAt'[w] # "done"
    BY <1>1, <1>2 DEF Writing
  <2>. QED
    BY <1>1, <1>2, <1>3, <2>1, <2>2 DEF KbIInv, RequestOK
<1>6. ASSUME NEW v \in Writers PROVE CurrentOK(v)'
  <2>1. Pending(v)' = Pending(v)
    BY <1>1, <1>2 DEF Pending, Apart, Writing
  <2>. QED
    BY <1>1, <1>2, <1>3, <2>1, CurrentStep DEF Active, Apart
<1>7. ASSUME NEW d \in Docs PROVE IndexOK(d)'
  BY <1>1, <1>2, IndexStep
<1>. QED
  BY <1>1, <1>2, <1>4, <1>5, <1>6, <1>7, OtherRequest DEF KbIInv

\* A request that breaks off leaves a document that it was writing behind.
LEMMA FailStep ==
  ASSUME KbIInv, NEW w \in Writers, WriteFails(w) PROVE KbIInv'
<1>1. /\ wAt[w] \in Writing \cup {"upsert", "others"}
      /\ dirty' = (IF wAt[w] \in Writing THEN dirty \cup {Item(w).doc} ELSE dirty)
      /\ wAt' = [wAt EXCEPT ![w] = "failed"] /\ todo' = [todo EXCEPT ![w] = <<>>]
      /\ seen' = [seen EXCEPT ![w] = {}]
      /\ began' = [began EXCEPT ![w] = [d \in {} |-> NoText]]
      /\ UNCHANGED <<source, content, docVersion, chunks, missed, mixed>>
  BY DEF WriteFails, WGoto, Writing
<1>2. /\ w \in Active /\ w \notin Active' /\ Apart(w) /\ wAt'[w] = "failed" /\ todo'[w] = <<>> /\ seen'[w] = {}
      /\ wAt[w] \in Writing => Item(w).doc \in Docs
  BY <1>1, ItemIs DEF KbIInv, KbShape, Active, Apart, Writing, Working
<1>3. KbShape' /\ MixedInv'
  <2>1. dirty' \subseteq Docs /\ todo' \in [Writers -> Seq(Items)] /\ seen' \in [Writers -> SUBSET Chunk]
    BY <1>1, <1>2 DEF KbIInv, KbShape
  <2>. QED
    BY <1>1, <1>2, <2>1, MixedStep DEF KbIInv, KbShape
<1>4. RequestOK(w)'
  BY <1>2 DEF RequestOK, Working, Writing
<1>5. ASSUME NEW v \in Writers PROVE CurrentOK(v)'
  <2>1. CASE v = w
    BY <1>2, <2>1 DEF CurrentOK
  <2>2. CASE v # w
    <3>1. Pending(v)' = Pending(v)
      BY <1>1, <1>2, <2>2 DEF Pending, Apart
    <3>2. /\ wAt'[v] = wAt[v] /\ began'[v] = began[v] /\ dirty \subseteq dirty'
          /\ v \in Active' <=> v \in Active
          /\ \A u \in Writers : \A i \in DOMAIN todo'[u] : i \in DOMAIN todo[u] /\ todo'[u][i] = todo[u][i]
      BY <1>1, <1>2, <2>2 DEF Apart, Active
    <3>3. CurrentOK(v)
      BY DEF KbIInv
    <3>4. SUFFICES ASSUME v \in Active \/ wAt[v] = "done", DOMAIN began[v] = Derived, v \notin mixed
                   PROVE  CurrentOK(v)'
      BY <1>1, <3>2 DEF CurrentOK
    <3>5. ASSUME NEW u \in Writers, NEW i \in DOMAIN todo'[u], todo'[u][i].doc \in Derived
          PROVE  began[v][todo'[u][i].doc] <= todo'[u][i].text
      BY <3>2, <3>3, <3>4, <3>5 DEF CurrentOK
    <3>6. ASSUME NEW d \in Derived \ Pending(v)
          PROVE  /\ content[d] >= began[v][d]
                 /\ d \notin dirty' => \E c \in chunks : c.doc = d /\ c.text >= began[v][d]
      BY <3>2, <3>3, <3>4 DEF CurrentOK
    <3>7. \A d \in Derived : began[v][d] \in Nat /\ began[v][d] <= source[d]
      BY <3>3, <3>4 DEF CurrentOK
    <3>. QED
      BY <1>1, <3>1, <3>2, <3>5, <3>6, <3>7 DEF CurrentOK
  <2>. QED
    BY <2>1, <2>2
<1>6. ASSUME NEW d \in Docs PROVE IndexOK(d)'
  BY <1>1, <1>2, IndexStep
<1>. QED
  BY <1>1, <1>2, <1>3, <1>4, <1>5, <1>6, OtherRequest DEF KbIInv

\* The chunks of a document are committed, and the next document is taken up.
LEMMA InsertStep ==
  ASSUME KbIInv, NEW w \in Writers, InsertChunks(w) PROVE KbIInv'
<1> DEFINE it == Item(w)
           s == todo[w]
<1>1. /\ wAt[w] = "insert" /\ chunks' = (chunks \ seen[w]) \cup {Row(w)}
      /\ dirty' = (IF w \in mixed THEN dirty \cup {it.doc} ELSE dirty \ {it.doc})
      /\ todo' = [todo EXCEPT ![w] = Tail(@)] /\ seen' = [seen EXCEPT ![w] = {}]
      /\ WGoto(w, CASE Len(s) > 1 -> "upsert"
                    [] Len(s) = 1 /\ it.doc = Last(BenchDocs) -> "others"
                    [] OTHER -> "done")
      /\ began' = IF it.doc \in Manual THEN [began EXCEPT ![w] = [d \in {} |-> NoText]] ELSE began
      /\ UNCHANGED <<source, content, docVersion, missed, mixed>>
  BY DEF InsertChunks, NextItem
<1>2. /\ wAt[w] \in Writing /\ wAt[w] \in Working /\ w \in Active /\ w \in Writers
  BY <1>1 DEF Writing, Working, Active
<1>3. /\ s \in Seq(Items) /\ s # <<>> /\ it = Head(s) /\ it \in Items /\ it.doc \in On(s) /\ it.doc \in Docs
  BY <1>2, ItemIs DEF KbIInv, KbShape, RequestOK, Item
<1>4. /\ Len(s) \in Nat /\ Tail(s) \in Seq(Items) /\ On(s) = {it.doc} \cup On(Tail(s))
      /\ \A i \in DOMAIN Tail(s) : \E j \in DOMAIN s : Tail(s)[i] = s[j]
      /\ Len(s) > 1 => Tail(s) # <<>> /\ Last(Tail(s)) = Last(s)
      /\ Len(s) <= 1 => Len(s) = 1 /\ Tail(s) = <<>> /\ Last(s) = it
  BY <1>3, PopList
<1>5. PICK aim \in {"upsert", "others", "done"} :
        /\ WGoto(w, aim)
        /\ aim = "upsert" <=> Len(s) > 1
        /\ aim = "others" <=> ~(Len(s) > 1) /\ it.doc = Last(BenchDocs)
  <2> DEFINE a == CASE Len(s) > 1 -> "upsert"
                    [] Len(s) = 1 /\ it.doc = Last(BenchDocs) -> "others"
                    [] OTHER -> "done"
  <2>1. WGoto(w, a)
    BY <1>1
  <2>2. Len(s) > 1 \/ Len(s) = 1
    BY <1>4, <1>3
  <2>3. /\ a \in {"upsert", "others", "done"}
        /\ a = "upsert" <=> Len(s) > 1
        /\ a = "others" <=> ~(Len(s) > 1) /\ it.doc = Last(BenchDocs)
    <3>1. Len(s) > 1 => a = "upsert" /\ Len(s) # 1
      <4>1. Len(s) > 1 => Len(s) # 1
        BY <1>4
      <4>2. Len(s) > 1 /\ Len(s) # 1 => a = "upsert"
        BY Zenon
      <4>. QED
        BY <4>1, <4>2
    <3>2. Len(s) = 1 /\ it.doc = Last(BenchDocs) => a = "others"
      BY <1>3
    <3>3. Len(s) = 1 /\ it.doc # Last(BenchDocs) => a = "done"
      BY <1>3
    <3> HIDE DEF a
    <3>. QED
      BY <2>2, <3>1, <3>2, <3>3
  <2> HIDE DEF a
  <2>. QED
    BY <2>1, <2>3
<1>6. /\ wAt'[w] \in {"upsert", "others", "done"}
      /\ wAt'[w] = "upsert" <=> Len(s) > 1
      /\ wAt'[w] = "others" <=> ~(Len(s) > 1) /\ it.doc = Last(BenchDocs)
      /\ todo'[w] = Tail(s) /\ seen'[w] = {} /\ Apart(w)
      /\ it.doc \in Manual => DOMAIN began'[w] = {}
      /\ it.doc \notin Manual => began' = began
  BY <1>1, <1>5 DEF KbIInv, KbShape, Apart, WGoto
<1>7. Row(w) \in Chunk /\ Row(w).doc = it.doc /\ Row(w).version = it.version /\ Row(w).text = it.text
  BY <1>3 DEF Row, Chunk, Items
<1>8. \A c \in seen[w] : c.doc = it.doc
  BY <1>1 DEF KbIInv, RequestOK
<1>9. \A d \in Docs : d # it.doc => {c \in chunks : c.doc = d} = {c \in chunks' : c.doc = d}
  BY <1>1, <1>7, <1>8
<1>10. /\ Rebuilds(w) \/ Writes(w)
       /\ it.doc \in Manual <=> Writes(w)
       /\ Writes(w) => Len(s) = 1 /\ it.doc # Last(BenchDocs)
  <2>1. Rebuilds(w) \/ Writes(w)
    BY <1>2 DEF KbIInv, RequestOK
  <2>2. Last(BenchDocs) \in Derived /\ Derived \cap Manual = {}
    BY KnowledgeAssumption, ListIs DEF KbIInv, Derived
  <2>3. Writes(w) => Len(s) = 1 /\ it.doc \in Manual
    BY <1>3 DEF Writes
  <2>4. Rebuilds(w) => it.doc \in Derived
    BY <1>3 DEF Rebuilds
  <2>. QED
    BY <2>1, <2>2, <2>3, <2>4
<1>11. it = Item(w) /\ s = todo[w]
  OBVIOUS
<1> HIDE DEF it, s
<1>12. KbShape' /\ MixedInv'
  <2>1. chunks' \subseteq Chunk /\ dirty' \subseteq Docs
    BY <1>1, <1>3, <1>7 DEF KbIInv, KbShape
  <2>2. todo' \in [Writers -> Seq(Items)] /\ seen' \in [Writers -> SUBSET Chunk]
    BY <1>1, <1>4, <1>11 DEF KbIInv, KbShape
  <2>3. /\ began' = [v \in Writers |-> began'[v]]
        /\ wAt' \in [Writers -> {"idle", "upsert", "others", "done", "failed"} \cup Writing]
    BY <1>1, <1>5 DEF KbIInv, KbShape, WGoto
  <2>4. w \in Active' => began'[w] = began[w]
    BY <1>4, <1>6, <1>10 DEF Active
  <2>. QED
    BY <1>1, <1>2, <1>6, <2>1, <2>2, <2>3, <2>4, MixedStep DEF KbIInv, KbShape
<1>13. RequestOK(w)'
  <2>1. wAt'[w] \in Working <=> todo'[w] # <<>>
    BY <1>4, <1>6 DEF Working, Writing
  <2>2. wAt'[w] \in {"upsert", "others"} => Rebuilds(w)'
    <3>1. SUFFICES ASSUME wAt'[w] \in {"upsert", "others"} PROVE Rebuilds(w)'
      OBVIOUS
    <3>2. Rebuilds(w) /\ began'[w] = began[w]
      BY <1>4, <1>6, <1>10, <3>1
    <3>3. RunsFirst(todo'[w]) \/ On(todo'[w]) \subseteq ToSet(OtherDocs)
      <4>1. RunsFirst(s) \/ On(s) \subseteq ToSet(OtherDocs)
        BY <1>11, <3>2 DEF Rebuilds
      <4>2. CASE RunsFirst(s) /\ Len(s) > 1
        BY <1>4, <1>6, <4>2 DEF RunsFirst
      <4>3. CASE ~(Len(s) > 1)
        <5>1. Len(s) <= 1
          BY <1>4, <4>3
        <5>2. todo'[w] = <<>>
          BY <1>4, <1>6, <5>1
        <5>3. On(todo'[w]) = {}
          BY <5>2, NothingListed
        <5>. QED
          BY <5>3
      <4>4. CASE On(s) \subseteq ToSet(OtherDocs)
        BY <1>4, <1>6, <4>4
      <4>. QED
        BY <4>1, <4>2, <4>3, <4>4
    <3>. QED
      BY <1>4, <1>6, <1>11, <3>2, <3>3 DEF Rebuilds
  <2>3. wAt'[w] = "done" => DOMAIN began'[w] = Derived \/ DOMAIN began'[w] = {}
    BY <1>6, <1>10 DEF Rebuilds
  <2>. QED
    BY <1>6, <2>1, <2>2, <2>3 DEF RequestOK, Active, Writing
<1>14. ASSUME NEW v \in Writers \ {w} PROVE RequestOK(v)'
  <2>1. ASSUME wAt[v] \in Writing, v \notin mixed PROVE Item(v).doc # it.doc /\ Item(v).doc \in Docs
    <3>1. v \in Active /\ wAt[v] \in Working /\ Item(v).doc \in Docs
      BY <2>1, ItemIs DEF Working
    <3>. QED
      BY <1>2, <1>11, <2>1, <3>1, WritersApart
  <2>. QED
    BY <1>1, <1>6, <1>9, <2>1, OtherRequest
<1>15. ASSUME w \notin mixed
       PROVE  /\ content[it.doc] = it.text /\ docVersion[it.doc] = it.version
              /\ seen[w] = {c \in chunks : c.doc = it.doc /\ c.version = it.version}
  BY <1>1, <1>2, <1>11, <1>15 DEF KbIInv, RequestOK
<1>16. ASSUME NEW v \in Writers PROVE CurrentOK(v)'
  <2>1. CASE v = w /\ w \in mixed
    BY <1>1, <2>1 DEF CurrentOK
  <2>2. CASE v = w /\ Writes(w)
    <3>1. DOMAIN began'[w] = {} /\ Derived # {}
      <4>1. Derived # {}
        BY KnowledgeAssumption, ListIs DEF KbIInv, Derived
      <4>. QED
        BY <1>6, <1>10, <2>2, <4>1
    <3>. QED
      BY <2>2, <3>1 DEF CurrentOK
  <2>3. CASE v # w \/ (w \notin mixed /\ Rebuilds(w) /\ ~Writes(w))
    <3>1. began'[v] = began[v] /\ (v \in Active' \/ wAt'[v] = "done" => v \in Active \/ wAt[v] = "done")
      BY <1>2, <1>6, <1>10, <2>3 DEF Apart, Active
    <3>2. v # w => Pending(v)' = Pending(v)
      BY <1>6 DEF Pending, Apart
    <3>3. Pending(w) \subseteq Pending(w)' \cup {it.doc}
      <4>1. RunsFirst(s) => RunsFirst(Tail(s)) \/ wAt'[w] = "others"
        BY <1>4, <1>6 DEF RunsFirst
      <4>2. wAt[w] # "others"
        BY <1>1
      <4>3. missed' = missed
        BY <1>1
      <4>. QED
        BY <1>4, <1>6, <1>11, <4>1, <4>2, <4>3 DEF Pending
    <3>4. ASSUME NEW d \in Derived \ Pending(v)'
          PROVE  /\ \/ d = it.doc /\ content'[d] = it.text
                    \/ d \notin Pending(v) /\ content'[d] = content[d]
                 /\ d \notin dirty' =>
                      \/ d = it.doc /\ \E c \in chunks' : c.doc = d /\ c.text = it.text
                      \/ d \notin Pending(v) /\ d \notin dirty /\ \A c \in chunks : c.doc = d => c \in chunks'
      <4>1. CASE d = it.doc
        <5>1. \E c \in chunks' : c.doc = d /\ c.text = it.text
          BY <1>1, <1>7, <4>1
        <5>2. v = w => content'[d] = it.text
          BY <1>1, <1>15, <2>3, <4>1
        <5>3. v # w => d \notin Pending(v) /\ content'[d] = content[d]
          BY <1>1, <3>2, <3>4
        <5>. QED
          BY <4>1, <5>1, <5>2, <5>3
      <4>2. CASE d # it.doc
        <5>1. d \notin Pending(v) /\ content'[d] = content[d]
          BY <1>1, <3>2, <3>3, <3>4, <4>2
        <5>2. d \notin dirty' => d \notin dirty
          BY <1>1, <4>2
        <5>3. \A c \in chunks : c.doc = d => c \in chunks'
          BY <1>1, <1>8, <4>2
        <5>. QED
          BY <5>1, <5>2, <5>3
      <4>. QED
        BY <4>1, <4>2
    <3>5. \A i \in DOMAIN todo'[w] : \E j \in DOMAIN todo[w] : todo'[w][i] = todo[w][j]
      BY <1>4, <1>6, <1>11
    <3>. QED
      BY <1>1, <1>2, <1>6, <1>11, <3>1, <3>4, <3>5, CurrentStep
  <2>. QED
    BY <1>10, <2>1, <2>2, <2>3
<1>17. ASSUME NEW d \in Docs PROVE IndexOK(d)'
  <2>1. CASE d # it.doc
    <3>1. d \in dirty => d \in dirty'
      BY <1>1, <2>1
    <3>. QED
      BY <1>1, <1>6, <1>9, <1>11, <2>1, <3>1, IndexStep
  <2>2. CASE d = it.doc
    <3>1. SUFFICES ASSUME w \notin mixed PROVE IndexOK(d)'
      BY <1>1, <2>2 DEF IndexOK, Resting
    <3>2. {x \in chunks' : x.doc = d /\ x.version = docVersion'[d]} = {Row(w)}
      BY <1>1, <1>7, <1>15, <2>2, <3>1
    <3>3. Row(w) \in chunks' /\ Row(w).text = content'[d]
      BY <1>1, <1>7, <1>15, <2>2, <3>1
    <3>. QED
      BY <3>2, <3>3 DEF IndexOK
  <2>. QED
    BY <2>1, <2>2
<1>. QED
  BY <1>12, <1>13, <1>14, <1>16, <1>17 DEF KbIInv

\* KbIInv holds all the time.
LEMMA IndexKeeps == KbSpec => []KbIInv
<1>1. KbInit => KbIInv
  <2>1. SUFFICES ASSUME KbInit PROVE KbIInv
    OBVIOUS
  <2>2. /\ Active = {} /\ chunks = {} /\ mixed = {} /\ dirty = {}
        /\ \A w \in Writers : /\ wAt[w] = "idle" /\ wAt[w] \notin Working /\ wAt[w] \notin Writing
                             /\ todo[w] = <<>> /\ seen[w] = {} /\ w \notin Active
        /\ \A d \in Docs : content[d] = NoText
    BY <2>1 DEF KbInit, Active, Working, Writing
  <2>3. KbShape
    <3>1. source \in [Derived -> 1..MaxText] /\ content \in [Docs -> NoText..MaxText]
      BY <2>1, KnowledgeAssumption DEF KbInit, NoText
    <3>2. docVersion \in [Docs -> KbVersions]
      BY <2>1, KnowledgeAssumption DEF KbInit
    <3>3. /\ todo \in [Writers -> Seq(Items)] /\ seen \in [Writers -> SUBSET Chunk]
          /\ wAt \in [Writers -> {"idle", "upsert", "others", "done", "failed"} \cup Writing]
      BY <2>1 DEF KbInit
    <3>4. began = [w \in Writers |-> began[w]] /\ missed \in [Writers -> SUBSET Derived]
      BY <2>1 DEF KbInit
    <3>. QED
      BY <2>2, <3>1, <3>2, <3>3, <3>4 DEF KbShape
  <2>4. MixedInv
    BY <2>2 DEF MixedInv
  <2>5. ASSUME NEW w \in Writers PROVE RequestOK(w) /\ CurrentOK(w)
    BY <2>2 DEF RequestOK, CurrentOK
  <2>6. ASSUME NEW d \in Docs PROVE IndexOK(d)
    BY <2>2 DEF IndexOK, Resting
  <2>. QED
    BY <2>3, <2>4, <2>5, <2>6 DEF KbIInv
<1>2. KbIInv /\ [KbNext]_kbVars => KbIInv'
  <2>1. ASSUME KbIInv, NEW w \in Writers, RebuildBegin(w) PROVE KbIInv'
    <3>1. /\ Listed(BenchDocs) \in Seq(Items) /\ Listed(BenchDocs) # <<>> /\ On(Listed(BenchDocs)) = ToSet(BenchDocs)
          /\ RunsFirst(Listed(BenchDocs))
          /\ \A i \in DOMAIN Listed(BenchDocs) : Listed(BenchDocs)[i].text = source[Listed(BenchDocs)[i].doc]
      BY <2>1, ListIs, KnowledgeAssumption DEF KbIInv, Derived, RunsFirst
    <3>2. Derived \in SUBSET Docs /\ DOMAIN source = Derived
      BY <2>1 DEF KbIInv, KbShape, Docs
    <3>. QED
      BY <2>1, <3>1, <3>2, BeginStep DEF RebuildBegin
  <2>2. ASSUME KbIInv, NEW w \in Writers, NEW d \in Manual, NEW v \in KbVersions, NEW x \in 1..MaxText,
               ManualBegin(w, d, v, x)
        PROVE  KbIInv'
    <3> DEFINE l == <<[doc |-> d, version |-> v, text |-> x]>>
    <3>1. [doc |-> d, version |-> v, text |-> x] \in Items
      BY DEF Items, Docs
    <3>2. l \in Seq(Items) /\ l # <<>> /\ Len(l) = 1
      BY <3>1
    <3>3. On(l) = {d}
      BY DEF On
    <3>4. {d} \in SUBSET Docs /\ DOMAIN [e \in {d} |-> x] = {d}
      BY DEF Docs
    <3>. QED
      BY <2>2, <3>2, <3>3, <3>4, BeginStep DEF ManualBegin
  <2>3. ASSUME KbIInv, UNCHANGED kbVars PROVE KbIInv'
    <3>1. KbShape' /\ MixedInv'
      BY <2>3 DEF KbIInv, kbVars, KbShape, MixedInv, Active
    <3>2. ASSUME NEW w \in Writers PROVE RequestOK(w)' /\ CurrentOK(w)'
      BY <2>3 DEF KbIInv, kbVars, RequestOK, CurrentOK, Active, Rebuilds, Writes, Item, Pending
    <3>3. ASSUME NEW d \in Docs PROVE IndexOK(d)'
      BY <2>3 DEF KbIInv, kbVars, IndexOK, Resting, Item
    <3>. QED
      BY <3>1, <3>2, <3>3 DEF KbIInv
  <2>. QED
    BY <2>1, <2>2, <2>3, SourceStep, ListStep, UpsertStep, WorkStep, InsertStep, FailStep DEF KbNext
<1>. QED
  BY <1>1, <1>2, PTL DEF KbSpec

\* Every document that is not being written is found by its text, and a rebuild
\* that nothing overlapped leaves nothing older than it has found.
THEOREM IndexHolds == KbSpec => []IndexInv
<1>1. KbIInv => IndexInv
  <2>1. ASSUME KbIInv PROVE IndexFollowsText
    <3>1. SUFFICES ASSUME NEW d \in Docs \ dirty, Resting(d)
                   PROVE  LET rows == {c \in chunks : c.doc = d /\ c.version = docVersion[d]} IN
                            Cardinality(rows) = 1 /\ \A c \in rows : c.text = content[d]
      BY DEF IndexFollowsText, Resting
    <3>2. PICK c \in chunks : c.text = content[d] /\ {x \in chunks : x.doc = d /\ x.version = docVersion[d]} = {c}
      BY <2>1, <3>1 DEF KbIInv, IndexOK
    <3>. QED
      BY <3>2, FS_Singleton
  <2>2. ASSUME KbIInv PROVE RebuildIsCurrent
    <3>1. SUFFICES ASSUME NEW w \in Writers \ mixed, wAt[w] = "done", NEW d \in (DOMAIN began[w] \cap Derived) \ missed[w]
                   PROVE  /\ content[d] >= began[w][d]
                          /\ d \notin dirty => \E c \in chunks : c.doc = d /\ c.text >= began[w][d]
      BY DEF RebuildIsCurrent
    <3>2. RequestOK(w) /\ CurrentOK(w)
      BY <2>1, <2>2 DEF KbIInv
    <3>3. DOMAIN began[w] = Derived /\ todo[w] = <<>>
      BY <3>1, <3>2 DEF RequestOK, Working, Writing
    <3>4. Pending(w) = missed[w]
      BY <3>1, <3>3, NothingListed DEF Pending
    <3>. QED
      BY <3>1, <3>2, <3>3, <3>4 DEF CurrentOK
  <2>. QED
    BY <2>1, <2>2 DEF IndexInv
<1>. QED
  BY <1>1, IndexKeeps, PTL

--------------------------------------------------------------------------------
(* The archiver: any number of sweeps that overlap, fail and are restarted in  *)
(* any way, as long as one batch takes every row of the table.  The run        *)
(* ArchiverLimit shows what happens when it does not.                          *)

\* archiveBatchLimit is never reached.
OneBatch == MaxRow <= BatchLimit

\* The types, but for the size of a batch, which follows from them.
Shape ==
  /\ inserted \in 0..MaxRow /\ expired \in 0..inserted
  /\ table \subseteq 1..inserted
  /\ sweep \in [Sweeps -> {"idle", "read", "upload", "delete"}]
  /\ cutoff \in [Sweeps -> 0..expired]
  /\ batch \in [Sweeps -> SUBSET TableRows]
  /\ stored \subseteq TableRows
  /\ archived \subseteq stored /\ twice \subseteq archived
  /\ together \in BOOLEAN

\* Between its SELECT and its DELETE a sweep holds every row before its cutoff,
\* but for those that another sweep has archived.
BatchInv ==
  \A s \in Sweeps :
    /\ sweep[s] = "delete" => batch[s] \subseteq stored
    /\ batch[s] \subseteq 1..cutoff[s]
    /\ sweep[s] \in {"upload", "delete"} => 1..cutoff[s] \subseteq batch[s] \cup archived

\* A manifest's rows leave the table in its transaction.
MovedInv == archived \subseteq 1..inserted /\ table \cap archived = {}

\* One sweep at a time holds rows that nobody has archived.
SoleInv ==
  ~together =>
    /\ \A s, t \in Sweeps : sweep[s] # "idle" /\ sweep[t] # "idle" => s = t
    /\ \A s \in Sweeps : /\ batch[s] \cap archived = {}
                         /\ sweep[s] = "idle" => batch[s] = {}

AInv == Shape /\ BatchInv /\ MovedInv /\ SoleInv /\ ArchiveInv

--------------------------------------------------------------------------------
\* A set of rows is no larger than a batch.
LEMMA RowsFit ==
  ASSUME OneBatch, NEW rows \in SUBSET TableRows
  PROVE  Cardinality(rows) \in Nat /\ Cardinality(rows) <= BatchLimit
<1>1. IsFiniteSet(1..MaxRow) /\ Cardinality(1..MaxRow) = MaxRow
  BY FS_Interval, ArchiverAssumption
<1>2. IsFiniteSet(rows) /\ Cardinality(rows) <= MaxRow
  BY <1>1, FS_Subset DEF TableRows
<1>. QED
  BY <1>2, FS_CardinalityType, ArchiverAssumption DEF OneBatch

\* The limit leaves nothing out.
LEMMA OldestIsAll ==
  ASSUME OneBatch, NEW rows \in SUBSET TableRows
  PROVE  Oldest(rows) = rows
<1>1. ASSUME NEW r \in rows PROVE Cardinality({q \in rows : q < r}) < BatchLimit
  <2> DEFINE lower == {q \in rows : q < r}
  <2>1. r \in 1..MaxRow
    BY <1>1 DEF TableRows
  <2>2. \A q \in lower : q \in 1..(r - 1)
    <3>1. \A q \in rows : q \in 1..MaxRow
      BY DEF TableRows
    <3>. QED
      BY <2>1, <3>1, ArchiverAssumption
  <2>3. IsFiniteSet(1..(r - 1)) /\ Cardinality(1..(r - 1)) = r - 1
    BY <2>1, FS_Interval, ArchiverAssumption
  <2>4. IsFiniteSet(lower) /\ Cardinality(lower) <= r - 1
    <3>1. lower \subseteq 1..(r - 1)
      BY <2>2
    <3> HIDE DEF lower
    <3>. QED
      BY <2>3, <3>1, FS_Subset
  <2>5. Cardinality(lower) \in Nat
    BY <2>4, FS_CardinalityType
  <2>. QED
    BY <2>1, <2>4, <2>5, ArchiverAssumption DEF OneBatch
<1>. QED
  BY <1>1 DEF Oldest

\* Before the first sweep nothing is stored and nothing is held.
LEMMA ArchiveInit == ASSUME OneBatch PROVE AInit => AInv
<1> SUFFICES ASSUME AInit PROVE AInv
  OBVIOUS
<1>1. Shape
  <2>1. inserted \in 0..MaxRow /\ expired \in 0..inserted
    BY ArchiverAssumption DEF AInit
  <2>2. sweep \in [Sweeps -> {"idle", "read", "upload", "delete"}]
        /\ cutoff \in [Sweeps -> 0..expired]
    BY DEF AInit
  <2>3. batch \in [Sweeps -> SUBSET TableRows]
    BY DEF AInit
  <2>. QED
    BY <2>1, <2>2, <2>3 DEF AInit, Shape
<1>2. BatchInv
  <2>1. \A s \in Sweeps : batch[s] = {} /\ sweep[s] = "idle"
    BY DEF AInit
  <2>. QED
    BY <2>1 DEF BatchInv
<1>3. MovedInv /\ SoleInv /\ ArchiveInv
  BY DEF AInit, MovedInv, SoleInv, ArchiveInv, NothingLost, CountedOnce
<1>. QED
  BY <1>1, <1>2, <1>3 DEF AInv

\* Every step keeps the invariant.
LEMMA ArchiveStep == ASSUME OneBatch PROVE AInv /\ [ANext]_aVars => AInv'
<1> SUFFICES ASSUME AInv, [ANext]_aVars PROVE AInv'
  OBVIOUS
<1> USE ArchiverAssumption DEF AInv
<1>1. CASE RowWritten
  <2>1. Shape'
    BY <1>1 DEF RowWritten, Shape, TableRows
  <2>2. BatchInv' /\ SoleInv'
    BY <1>1 DEF RowWritten, BatchInv, SoleInv
  <2>3. MovedInv' /\ ArchiveInv'
    BY <1>1 DEF RowWritten, MovedInv, ArchiveInv, NothingLost, CountedOnce, Shape
  <2>. QED
    BY <2>1, <2>2, <2>3
<1>2. CASE RowExpires
  <2>1. Shape'
    BY <1>2 DEF RowExpires, Shape, TableRows
  <2>. QED
    BY <1>2, <2>1 DEF RowExpires, BatchInv, SoleInv, MovedInv, ArchiveInv, NothingLost, CountedOnce
<1>3. CASE ACrash
  <2>1. Shape'
    BY <1>3 DEF ACrash, Shape, TableRows
  <2>. QED
    BY <1>3, <2>1 DEF ACrash, BatchInv, SoleInv, MovedInv, ArchiveInv, NothingLost, CountedOnce
<1>4. ASSUME NEW s \in Sweeps, SweepBegin(s) PROVE AInv'
  <2>1. Shape'
    BY <1>4 DEF SweepBegin, Goes, Shape
  <2>2. BatchInv'
    BY <1>4 DEF SweepBegin, Goes, BatchInv, Shape
  <2>. QED
    BY <1>4, <2>1, <2>2
       DEF SweepBegin, Goes, Shape, SoleInv, MovedInv, ArchiveInv, NothingLost, CountedOnce
<1>5. ASSUME NEW s \in Sweeps, SweepRead(s) PROVE AInv'
  <2> DEFINE rows == table \cap 1..cutoff[s]
  <2>1. rows \in SUBSET TableRows /\ 1..cutoff[s] \subseteq 1..inserted
    BY DEF Shape, TableRows
  <2>2. Oldest(rows) = rows
    BY <2>1, OldestIsAll
  <2>3. 1..cutoff[s] \subseteq rows \cup archived /\ rows \cap archived = {}
    BY <2>1 DEF MovedInv, ArchiveInv, NothingLost
  <2>4. \/ Rest(s)
        \/ Goes(s, "upload") /\ batch' = [batch EXCEPT ![s] = rows] /\ UNCHANGED cutoff
    BY <1>5, <2>2 DEF SweepRead
  <2>5. UNCHANGED <<inserted, expired, table, stored, archived, twice, together>>
    BY <1>5 DEF SweepRead
  <2>6. sweep[s] = "read"
    BY <1>5 DEF SweepRead
  <2> HIDE DEF rows
  <2>7. Shape'
    BY <2>1, <2>2, <2>4, <2>5 DEF Rest, Goes, Shape
  <2>8. BatchInv'
    <3>1. rows \subseteq 1..cutoff[s]
      BY DEF rows
    <3>. QED
      BY <2>3, <2>4, <2>5, <3>1 DEF Rest, Goes, BatchInv, Shape
  <2>9. SoleInv'
    BY <2>3, <2>4, <2>5, <2>6 DEF Rest, Goes, SoleInv, Shape
  <2>. QED
    BY <2>5, <2>7, <2>8, <2>9 DEF MovedInv, ArchiveInv, NothingLost, CountedOnce
<1>6. ASSUME NEW s \in Sweeps, SweepUpload(s) PROVE AInv'
  <2>1. Shape'
    BY <1>6 DEF SweepUpload, Rest, Goes, Shape
  <2>2. BatchInv'
    BY <1>6 DEF SweepUpload, Rest, Goes, BatchInv, Shape
  <2>3. SoleInv'
    BY <1>6 DEF SweepUpload, Rest, Goes, SoleInv, Shape
  <2>. QED
    BY <1>6, <2>1, <2>2, <2>3 DEF SweepUpload, MovedInv, ArchiveInv, NothingLost, CountedOnce
<1>7. ASSUME NEW s \in Sweeps, SweepDelete(s) PROVE AInv'
  <2>1. sweep[s] = "delete" /\ batch[s] \subseteq stored /\ batch[s] \subseteq 1..cutoff[s]
        /\ 1..cutoff[s] \subseteq batch[s] \cup archived /\ 1..cutoff[s] \subseteq 1..inserted
    BY <1>7 DEF SweepDelete, BatchInv, Shape
  <2>2. Shape'
    <3>1. table' \subseteq 1..inserted' /\ stored' \subseteq TableRows
          /\ archived' \subseteq stored' /\ twice' \subseteq archived'
      BY <1>7, <2>1 DEF SweepDelete, Shape
    <3>2. sweep' \in [Sweeps -> {"idle", "read", "upload", "delete"}]
          /\ cutoff' \in [Sweeps -> 0..expired'] /\ batch' \in [Sweeps -> SUBSET TableRows]
      BY <1>7 DEF SweepDelete, Rest, Goes, Shape
    <3>. QED
      BY <1>7, <3>1, <3>2 DEF SweepDelete, Shape
  <2>3. BatchInv'
    BY <1>7 DEF SweepDelete, Rest, Goes, BatchInv, Shape
  <2>4. MovedInv' /\ NothingLost'
    BY <1>7, <2>1 DEF SweepDelete, MovedInv, ArchiveInv, NothingLost
  <2>5. SoleInv' /\ CountedOnce'
    BY <1>7, <2>1 DEF SweepDelete, Rest, Goes, SoleInv, ArchiveInv, CountedOnce, Shape
  <2>. QED
    BY <2>2, <2>3, <2>4, <2>5 DEF ArchiveInv
<1>8. CASE UNCHANGED aVars
  BY <1>8 DEF aVars, Shape, BatchInv, MovedInv, SoleInv, ArchiveInv, NothingLost, CountedOnce, TableRows
<1>. QED
  BY <1>1, <1>2, <1>3, <1>4, <1>5, <1>6, <1>7, <1>8 DEF ANext

\* No row is lost, and none counted twice by sweeps that do not overlap, for any
\* number of sweeps, rows, failures and restarts (archiveTable uploads before it
\* deletes, and deletes and records in one transaction).
THEOREM ArchiveSafe == ASSUME OneBatch PROVE ASpec => [](ATypeOK /\ ArchiveInv)
<1>1. AInv => ATypeOK /\ ArchiveInv
  <2>1. ASSUME AInv, NEW s \in Sweeps PROVE Cardinality(batch[s]) <= BatchLimit
    BY <2>1, RowsFit DEF AInv, Shape
  <2>. QED
    BY <2>1 DEF AInv, Shape, ATypeOK
<1>. QED
  BY <1>1, ArchiveInit, ArchiveStep, PTL DEF ASpec

--------------------------------------------------------------------------------
(* The types of the configuration center.                                    *)

\* The transactions that have published a version.
Published == {t \in Txs : number[t] # None}

\* Rows are numbered without leaving out a number: none is higher than the number
\* of publications allows, nor is the next.
CountInv ==
  /\ CTypeOK
  /\ \A r \in RowIds : number[r] <= Cardinality(Published) + 1
  /\ \A t \in Txs : Begun(t) /\ kind[t][1] = "publish" => next[t] <= Cardinality(Published) + 2

\* Of finitely many transactions those that have published can be counted, and
\* one that has yet to publish is not among them.
LEMMA PublishedIs ==
  ASSUME IsFiniteSet(Txs)
  PROVE  /\ IsFiniteSet(Published) /\ Cardinality(Published) \in Nat /\ Cardinality(Txs) \in Nat
         /\ Cardinality(Published) <= Cardinality(Txs)
         /\ \A t \in Txs \ Published :
              /\ Cardinality(Published \cup {t}) = Cardinality(Published) + 1
              /\ Cardinality(Published) + 1 <= Cardinality(Txs)
<1>1. Published \subseteq Txs
  BY DEF Published
<1>2. IsFiniteSet(Published) /\ Cardinality(Published) \in Nat /\ Cardinality(Txs) \in Nat
      /\ Cardinality(Published) <= Cardinality(Txs)
  BY <1>1, FS_Subset, FS_CardinalityType
<1>3. ASSUME NEW t \in Txs \ Published
      PROVE  /\ Cardinality(Published \cup {t}) = Cardinality(Published) + 1
             /\ Cardinality(Published) + 1 <= Cardinality(Txs)
  <2>1. Cardinality(Published \cup {t}) = Cardinality(Published) + 1
    BY <1>2, <1>3, FS_AddElement
  <2>2. Published \cup {t} \subseteq Txs
    BY <1>1, <1>3
  <2>. QED
    BY <2>1, <2>2, FS_Subset
<1>. QED
  BY <1>2, <1>3

\* The numbers of the configuration center and its other variables keep their types.
LEMMA ConfigTypes == ASSUME IsFiniteSet(Txs) PROVE CSpec => [](ConfigIInv /\ CountInv)
<1>1. CInit => CountInv
  <2>1. SUFFICES ASSUME CInit PROVE CountInv
    OBVIOUS
  <2>2. Cardinality(Txs) \in Nat /\ Cardinality(Published) \in Nat
    BY PublishedIs
  <2>3. \A r \in RowIds : number[r] \in {0, 1}
    BY <2>1 DEF CInit, None
  <2>4. number \in [RowIds -> ConfigVersions \cup {None}] /\ current \in ConfigVersions /\ active \subseteq Committed
    BY <2>1, <2>2 DEF CInit, ConfigVersions, None, RowIds, Committed
  <2>5. CTypeOK
    BY <2>1, <2>4 DEF CInit, CTypeOK
  <2>6. \A t \in Txs : ~Begun(t)
    BY <2>1 DEF CInit, Begun
  <2>. QED
    BY <2>2, <2>3, <2>5, <2>6 DEF CountInv
<1>2. ConfigIInv /\ CountInv /\ [CNext]_cVars => CountInv'
  <2> SUFFICES ASSUME ConfigIInv, CountInv, [CNext]_cVars PROVE CountInv'
    OBVIOUS
  <2>1. PICK n \in Nat, k \in Nat : n = Cardinality(Txs) /\ k = Cardinality(Published) /\ k <= n
    BY PublishedIs
  <2>2. ConfigVersions = 1..(n + 1)
    BY <2>1 DEF ConfigVersions
  <2>3. ASSUME UNCHANGED cVars PROVE CountInv'
    BY <2>3 DEF cVars, CountInv, CTypeOK, Begun, Published, Committed
  <2>4. ASSUME NEW t \in Txs, PublishRead(t) \/ ArchiveFind(t) \/ ArchiveLock(t) \/ CAbort(t)
                               \/ \E v \in ConfigVersions : RollbackRead(t, v)
        PROVE  CountInv'
    <3>1. UNCHANGED <<number, active, current, overlap>>
      BY <2>4 DEF PublishRead, ArchiveFind, ArchiveLock, CAbort, RollbackRead
    <3>2. Published' = Published /\ Committed' = Committed
      BY <3>1 DEF Published, Committed
    <3>3. PICK m \in Nat : m = Highest /\ \A r \in Committed : number[r] <= m
      BY HighestNumber DEF ConfigIInv
    <3>4. m <= k + 1
      <4>1. PICK r \in Committed : number[r] = m
        <5>1. Highest \in {number[r] : r \in Committed}
          <6>1. \E x \in {number[r] : r \in Committed} : \A y \in {number[r] : r \in Committed} : x >= y
            BY DEF ConfigIInv, CRowsInv, Committed
          <6>. QED
            BY <6>1 DEF Highest, Max
        <5>. QED
          BY <3>3, <5>1
      <4>. QED
        BY <2>1, <4>1 DEF CountInv, Committed
    <3>5. ASSUME PublishRead(t) PROVE k + 1 <= n
      <4>1. t \notin Published
        BY <3>5 DEF PublishRead, Published, ConfigIInv, CTxInv
      <4>. QED
        BY <2>1, <4>1, PublishedIs
    <3>6. PICK j \in ConfigVersions : /\ next' = next \/ (next' = [next EXCEPT ![t] = j] /\ PublishRead(t))
                                      /\ j <= k + 2
      <4>1. CASE PublishRead(t)
        <5>1. next' = [next EXCEPT ![t] = m + 1]
          BY <3>3, <4>1 DEF PublishRead, Highest
        <5>2. m + 1 \in ConfigVersions /\ m + 1 <= k + 2
          BY <2>2, <3>4, <3>5, <4>1
        <5>. QED
          BY <4>1, <5>1, <5>2
      <4>2. CASE ~PublishRead(t)
        <5>1. next' = next
          BY <2>4, <4>2 DEF ArchiveFind, ArchiveLock, CAbort, RollbackRead
        <5>2. 1 \in ConfigVersions /\ 1 <= k + 2
          BY <2>2
        <5>. QED
          BY <5>1, <5>2
      <4>. QED
        BY <4>1, <4>2
    <3>7. /\ \/ stage' = [stage EXCEPT ![t] = "archive"]
             \/ stage' = [stage EXCEPT ![t] = "wait"]
             \/ stage' = [stage EXCEPT ![t] = "write"]
             \/ stage' = [stage EXCEPT ![t] = "done"]
          /\ kind' = kind \/ \E v \in ConfigVersions : kind' = [kind EXCEPT ![t] = <<"rollback", v>>]
      BY <2>4 DEF PublishRead, ArchiveFind, ArchiveLock, CAbort, RollbackRead, CGoto
    <3>8. prior' \in [Txs -> SUBSET RowIds] /\ locks' \in [Txs -> SUBSET RowIds]
      BY <2>4 DEF PublishRead, ArchiveFind, ArchiveLock, CAbort, RollbackRead, CountInv, CTypeOK, Committed
    <3>9. next' \in [Txs -> ConfigVersions \cup {None}]
      BY <3>6 DEF CountInv, CTypeOK
    <3>10. /\ stage' \in [Txs -> {"idle", "read", "archive", "wait", "write", "done"}]
           /\ kind' \in [Txs -> {"publish"} \X {None} \cup {"rollback"} \X ConfigVersions]
      <4>1. stage' \in [Txs -> {"idle", "read", "archive", "wait", "write", "done"}]
        BY <3>7 DEF CountInv, CTypeOK
      <4>2. \A v \in ConfigVersions : <<"rollback", v>> \in {"rollback"} \X ConfigVersions
        OBVIOUS
      <4>. QED
        BY <3>7, <4>1, <4>2 DEF CountInv, CTypeOK
    <3>11. CTypeOK'
      BY <3>1, <3>2, <3>8, <3>9, <3>10 DEF CountInv, CTypeOK, ConfigVersions
    <3>12. ASSUME NEW u \in Txs, Begun(u)', kind'[u][1] = "publish" PROVE next'[u] <= k + 2
      <4>1. CASE u = t /\ PublishRead(t)
        <5>1. next' = [next EXCEPT ![t] = m + 1]
          BY <3>3, <4>1 DEF PublishRead, Highest
        <5>. QED
          BY <3>4, <4>1, <5>1 DEF CountInv, CTypeOK
      <4>2. CASE u # t
        <5>1. Begun(u) /\ kind[u][1] = "publish" /\ next'[u] = next[u]
          BY <3>6, <3>7, <3>12, <4>2 DEF Begun, CountInv, CTypeOK
        <5>. QED
          BY <2>1, <5>1 DEF CountInv
      <4>3. CASE u = t /\ ~PublishRead(t)
        <5>1. ~\E v \in ConfigVersions : RollbackRead(t, v)
          BY <3>12, <4>3 DEF RollbackRead, CountInv, CTypeOK
        <5>2. Begun(u) /\ kind' = kind /\ next' = next
          BY <2>4, <4>3, <5>1 DEF ArchiveFind, ArchiveLock, CAbort, Begun
        <5>. QED
          BY <2>1, <3>12, <5>2 DEF CountInv
      <4>. QED
        BY <4>1, <4>2, <4>3
    <3>. QED
      BY <2>1, <3>1, <3>2, <3>11, <3>12 DEF CountInv
  <2>5. ASSUME NEW t \in Txs, PublishCommit(t) PROVE CountInv'
    <3>1. /\ stage[t] = "write" /\ kind[t][1] = "publish"
          /\ number' = [number EXCEPT ![t] = next[t]] /\ active' = (active \ prior[t]) \cup {t}
          /\ current' = next[t] /\ UNCHANGED <<kind, next>>
          /\ stage' = [stage EXCEPT ![t] = "done"]
          /\ locks' = [locks EXCEPT ![t] = {}] /\ prior' = [prior EXCEPT ![t] = {}]
          /\ overlap' \in BOOLEAN
      BY <2>5 DEF PublishCommit, CEnd, CGoto, CountInv, CTypeOK
    <3>2. Begun(t) /\ number[t] = None /\ t \in RowIds
      BY <3>1 DEF Begun, ConfigIInv, CTxInv, RowIds
    <3>3. PICK j \in ConfigVersions : j = next[t] /\ j # None /\ j <= k + 2
      BY <2>1, <3>1, <3>2 DEF ConfigIInv, CTxInv, CountInv, CTypeOK
    <3>4. t \notin Published /\ Published' = Published \cup {t} /\ Committed' = Committed \cup {t}
      BY <3>1, <3>2, <3>3 DEF Published, Committed, CountInv, CTypeOK, RowIds
    <3>5. Cardinality(Published') = k + 1
      BY <2>1, <3>4, PublishedIs
    <3>6. number' \in [RowIds -> ConfigVersions \cup {None}]
      BY <3>1, <3>3 DEF CountInv, CTypeOK
    <3>7. prior' \in [Txs -> SUBSET RowIds] /\ locks' \in [Txs -> SUBSET RowIds]
      BY <3>1 DEF CountInv, CTypeOK
    <3>8. stage' \in [Txs -> {"idle", "read", "archive", "wait", "write", "done"}]
      BY <3>1 DEF CountInv, CTypeOK
    <3>9. CTypeOK'
      BY <3>1, <3>3, <3>4, <3>6, <3>7, <3>8 DEF CountInv, CTypeOK, ConfigVersions
    <3>10. ASSUME NEW r \in RowIds PROVE number'[r] <= k + 2
      <4>1. number[r] \in Nat /\ number[r] <= k + 1
        BY <2>1, <2>2 DEF CountInv, CTypeOK, None
      <4>. QED
        BY <3>1, <3>3, <4>1 DEF CountInv, CTypeOK
    <3>11. ASSUME NEW u \in Txs, Begun(u)', kind'[u][1] = "publish" PROVE next'[u] <= k + 3
      <4>1. Begun(u)
        BY <3>1, <3>11 DEF Begun, CountInv, CTypeOK
      <4>2. next[u] \in Nat /\ next[u] <= k + 2
        BY <2>1, <2>2, <3>1, <3>11, <4>1 DEF CountInv, CTypeOK, None
      <4>. QED
        BY <3>1, <4>2
    <3>. QED
      BY <3>5, <3>9, <3>10, <3>11 DEF CountInv
  <2>6. ASSUME NEW t \in Txs, RollbackCommit(t) PROVE CountInv'
    <3>1. /\ stage[t] = "write" /\ kind[t][1] = "rollback" /\ UNCHANGED <<number, kind, next>>
          /\ active' = (active \ prior[t]) \cup Numbered(kind[t][2]) /\ current' = kind[t][2]
          /\ stage' = [stage EXCEPT ![t] = "done"]
          /\ locks' = [locks EXCEPT ![t] = {}] /\ prior' = [prior EXCEPT ![t] = {}]
          /\ overlap' \in BOOLEAN
      BY <2>6 DEF RollbackCommit, CEnd, CGoto, CountInv, CTypeOK
    <3>2. Published' = Published /\ Committed' = Committed
      BY <3>1 DEF Published, Committed
    <3>3. kind[t][2] \in ConfigVersions
      BY <3>1 DEF CountInv, CTypeOK
    <3>4. prior' \in [Txs -> SUBSET RowIds] /\ locks' \in [Txs -> SUBSET RowIds]
          /\ stage' \in [Txs -> {"idle", "read", "archive", "wait", "write", "done"}]
      BY <3>1 DEF CountInv, CTypeOK
    <3>5. CTypeOK'
      BY <3>1, <3>2, <3>3, <3>4 DEF CountInv, CTypeOK, ConfigVersions, Numbered
    <3>6. \A u \in Txs : Begun(u)' => Begun(u)
      BY <3>1 DEF Begun, CountInv, CTypeOK
    <3>. QED
      BY <3>1, <3>2, <3>5, <3>6 DEF CountInv
  <2>. QED
    BY <2>3, <2>4, <2>5, <2>6 DEF CNext
<1>. QED
  BY <1>1, <1>2, ConfigKeeps, PTL DEF CSpec
--------------------------------------------------------------------------------
(* The types of incidents and of the archiver, whatever operators do and however *)
(* small a batch is.                                                             *)

\* Incidents and diagnoses keep their types.
LEMMA IncidentTypes == ISpec => []ITypeOK
<1>1. IInit => ITypeOK
  BY DEF IInit, ITypeOK
<1>2. ITypeOK /\ [INext]_iVars => ITypeOK'
  <2> SUFFICES ASSUME ITypeOK, [INext]_iVars PROVE ITypeOK'
    OBVIOUS
  <2> USE DEF ITypeOK
  <2>1. ASSUME UNCHANGED iVars PROVE ITypeOK'
    BY <2>1 DEF iVars
  <2>2. ASSUME NEW i \in Ids, CreateIncident(i) \/ AckIncident(i) \/ ResolveIncident(i) PROVE ITypeOK'
    BY <2>2 DEF CreateIncident, AckIncident, ResolveIncident
  <2>3. ASSUME NEW d \in Diagnoses, DiagnoseAsk(d) PROVE ITypeOK'
    <3>1. step' = [step EXCEPT ![d] = "reasoning"] /\ UNCHANGED <<iStatus, marker, linked, timeline, resolvedAt, dStatus, found>>
      BY <2>3 DEF DiagnoseAsk, IGoto
    <3>2. doubled' \subseteq Loads
      BY <2>3, AboutAssumption DEF DiagnoseAsk
    <3>. QED
      BY <3>1, <3>2
  <2>4. ASSUME NEW d \in Diagnoses, DiagnoseUpstreamFailed(d) \/ DiagnoseStore(d) \/ DiagnoseAbort(d) PROVE ITypeOK'
    BY <2>4 DEF DiagnoseUpstreamFailed, DiagnoseStore, DiagnoseAbort, IGoto
  <2>5. ASSUME NEW d \in Diagnoses, EnsureSelect(d) PROVE ITypeOK'
    BY <2>5 DEF EnsureSelect, IGoto, Unresolved
  <2>6. ASSUME NEW d \in Diagnoses, NEW i \in Ids, EnsureWrite(d, i) PROVE ITypeOK'
    BY <2>6, AboutAssumption DEF EnsureWrite, IGoto
  <2>7. ASSUME NEW d \in Diagnoses, NEW i \in Ids, LinkDiagnosis(d, i) PROVE ITypeOK'
    BY <2>7 DEF LinkDiagnosis, IGoto
  <2>. QED
    BY <2>1, <2>2, <2>3, <2>4, <2>5, <2>6, <2>7 DEF INext
<1>. QED
  BY <1>1, <1>2, PTL DEF ISpec

\* A sweep never reads more than one batch: the newest row it reads has fewer
\* older ones than a batch has rows.
LEMMA OldestIsABatch ==
  ASSUME NEW R \in SUBSET TableRows
  PROVE  Oldest(R) \subseteq R /\ Cardinality(Oldest(R)) <= BatchLimit
<1> DEFINE O == Oldest(R)
<1>1. R \in SUBSET Nat /\ IsFiniteSet(R)
  <2>1. TableRows \subseteq Nat /\ IsFiniteSet(TableRows)
    BY ArchiverAssumption, FS_Interval DEF TableRows
  <2>. QED
    BY <2>1, FS_Subset
<1>2. O \subseteq R /\ O \in SUBSET Nat /\ IsFiniteSet(O)
  BY <1>1, FS_Subset DEF Oldest
<1>3. CASE O = {}
  BY <1>2, <1>3, FS_EmptySet, ArchiverAssumption
<1>4. CASE O # {}
  <2>1. PICK m \in O : \A k \in O : k <= m
    <3>1. PICK b \in Nat : \A k \in O : k <= b
      BY <1>2, ArchiverAssumption DEF TableRows
    <3> DEFINE T == {b - k : k \in O}
    <3>2. T \in SUBSET Nat /\ T # {}
      BY <1>2, <1>4, <3>1
    <3>3. PICK t \in T : \A u \in T : t <= u
      <4> HIDE DEF T
      <4>. QED
        BY <3>2, LeastNumber
    <3>4. PICK m \in O : t = b - m
      BY <3>3
    <3>5. \A k \in O : k <= m
      BY <1>2, <3>1, <3>3, <3>4
    <3>. QED
      BY <3>4, <3>5
  <2> DEFINE L == {q \in R : q < m}
  <2>2. m \in R /\ m \in Nat /\ Cardinality(L) < BatchLimit
    BY <1>2, <2>1 DEF Oldest
  <2>3. IsFiniteSet(L) /\ O \ {m} \subseteq L
    <3>1. \A k \in O \ {m} : k \in R /\ k < m
      BY <1>2, <2>1, <2>2
    <3>. QED
      BY <1>1, <3>1, FS_Subset
  <2>4. Cardinality(O \ {m}) <= Cardinality(L) /\ Cardinality(L) \in Nat
    BY <2>3, FS_Subset, FS_CardinalityType
  <2>5. Cardinality(O \ {m}) = Cardinality(O) - 1 /\ Cardinality(O) \in Nat
    BY <1>2, <2>1, FS_RemoveElement, FS_CardinalityType
  <2>. QED
    BY <1>2, <2>2, <2>4, <2>5, ArchiverAssumption
<1>. QED
  BY <1>3, <1>4

\* What a sweep is about to delete is in the bucket.
StoredInv == \A s \in Sweeps : sweep[s] = "delete" => batch[s] \subseteq stored

\* The archiver keeps its types.
LEMMA ArchiveTypes == ASpec => []ATypeOK
<1>1. AInit => ATypeOK /\ StoredInv
  <2>1. SUFFICES ASSUME AInit PROVE ATypeOK /\ StoredInv
    OBVIOUS
  <2>2. \A s \in Sweeps : Cardinality(batch[s]) <= BatchLimit
    BY <2>1, FS_EmptySet, ArchiverAssumption DEF AInit
  <2>3. inserted \in 0..MaxRow /\ expired \in 0..inserted /\ cutoff \in [Sweeps -> 0..expired]
    BY <2>1, ArchiverAssumption DEF AInit
  <2>. QED
    BY <2>1, <2>2, <2>3 DEF AInit, ATypeOK, StoredInv
<1>2. ATypeOK /\ StoredInv /\ [ANext]_aVars => (ATypeOK /\ StoredInv)'
  <2> SUFFICES ASSUME ATypeOK, StoredInv, [ANext]_aVars PROVE ATypeOK' /\ StoredInv'
    OBVIOUS
  <2> USE DEF ATypeOK, StoredInv
  <2>0. PICK n \in Nat : n = MaxRow
    BY ArchiverAssumption
  <2>1. ASSUME UNCHANGED aVars PROVE ATypeOK' /\ StoredInv'
    BY <2>1 DEF aVars
  <2>2. CASE RowWritten
    BY <2>0, <2>2 DEF RowWritten
  <2>3. CASE RowExpires
    BY <2>0, <2>3 DEF RowExpires
  <2>4. CASE ACrash
    <3>1. Cardinality({}) <= BatchLimit
      BY FS_EmptySet, ArchiverAssumption
    <3>. QED
      BY <2>0, <2>4, <3>1 DEF ACrash
  <2>5. ASSUME NEW s \in Sweeps, SweepBegin(s) PROVE ATypeOK' /\ StoredInv'
    BY <2>0, <2>5 DEF SweepBegin, Goes
  <2>6. ASSUME NEW s \in Sweeps, SweepRead(s) PROVE ATypeOK' /\ StoredInv'
    <3>1. PICK rows \in SUBSET TableRows : /\ Cardinality(rows) <= BatchLimit
                                           /\ batch' = [batch EXCEPT ![s] = rows] \/ (batch' = [batch EXCEPT ![s] = {}])
      <4>1. table \cap 1..cutoff[s] \in SUBSET TableRows
        BY <2>0 DEF TableRows
      <4>. QED
        BY <2>6, <4>1, OldestIsABatch DEF SweepRead, Rest
    <3>2. Cardinality({}) <= BatchLimit
      BY FS_EmptySet, ArchiverAssumption
    <3>3. /\ sweep' = [sweep EXCEPT ![s] = "idle"] \/ sweep' = [sweep EXCEPT ![s] = "upload"]
          /\ cutoff' = cutoff \/ cutoff' = [cutoff EXCEPT ![s] = 0]
          /\ UNCHANGED <<inserted, expired, table, stored, archived, twice, together>>
      BY <2>6 DEF SweepRead, Rest, Goes
    <3>. QED
      BY <2>0, <3>1, <3>2, <3>3
  <2>7. ASSUME NEW s \in Sweeps, SweepUpload(s) PROVE ATypeOK' /\ StoredInv'
    <3>1. Cardinality({}) <= BatchLimit
      BY FS_EmptySet, ArchiverAssumption
    <3>. QED
      <4>1. /\ stored' \in {stored, stored \cup batch[s]}
            /\ UNCHANGED <<inserted, expired, table, archived, twice, together>>
            /\ \/ /\ stored' = stored \cup batch[s]
                  /\ sweep' = [sweep EXCEPT ![s] = "delete"] /\ UNCHANGED <<batch, cutoff>>
               \/ /\ sweep' = [sweep EXCEPT ![s] = "idle"]
                  /\ batch' = [batch EXCEPT ![s] = {}] /\ cutoff' = [cutoff EXCEPT ![s] = 0]
        BY <2>7 DEF SweepUpload, Rest, Goes
      <4>2. stored' \subseteq TableRows /\ stored \subseteq stored'
        BY <4>1
      <4>3. sweep' \in [Sweeps -> {"idle", "read", "upload", "delete"}]
        BY <4>1
      <4>4. batch' \in [Sweeps -> SUBSET TableRows] /\ \A o \in Sweeps : Cardinality(batch'[o]) <= BatchLimit
        BY <3>1, <4>1
      <4>5. cutoff' \in [Sweeps -> 0..expired]
        BY <2>0, <4>1
      <4>6. StoredInv'
        BY <4>1, <4>2
      <4>. QED
        BY <4>1, <4>2, <4>3, <4>4, <4>5, <4>6
  <2>8. ASSUME NEW s \in Sweeps, SweepDelete(s) PROVE ATypeOK' /\ StoredInv'
    <3>1. Cardinality({}) <= BatchLimit
      BY FS_EmptySet, ArchiverAssumption
    <3>2. batch[s] \subseteq stored
      BY <2>8 DEF SweepDelete
    <3>3. /\ table' \subseteq table /\ archived' \subseteq stored /\ twice' \subseteq archived'
          /\ UNCHANGED <<inserted, expired, stored, together>>
          /\ sweep' = [sweep EXCEPT ![s] = "idle"]
          /\ batch' = [batch EXCEPT ![s] = {}] /\ cutoff' = [cutoff EXCEPT ![s] = 0]
      BY <2>8, <3>2 DEF SweepDelete, Rest, Goes
    <3>4. sweep' \in [Sweeps -> {"idle", "read", "upload", "delete"}]
      BY <3>3
    <3>5. batch' \in [Sweeps -> SUBSET TableRows] /\ \A o \in Sweeps : Cardinality(batch'[o]) <= BatchLimit
      BY <3>1, <3>3
    <3>6. cutoff' \in [Sweeps -> 0..expired]
      BY <2>0, <3>3
    <3>7. StoredInv'
      BY <3>3
    <3>. QED
      BY <3>3, <3>4, <3>5, <3>6, <3>7
  <2>. QED
    BY <2>1, <2>2, <2>3, <2>4, <2>5, <2>6, <2>7, <2>8 DEF ANext
<1>. QED
  BY <1>1, <1>2, PTL DEF ASpec
--------------------------------------------------------------------------------
(* The types of endpoints, of kept answers and of the token bucket.          *)

\* The requests that have left the rows behind: each has taken one turn at most.
Through == {r \in Proxied : at[r] \in {"calling", "done"}}

\* Of finitely many requests those can be counted.
LEMMA ThroughIs ==
  ASSUME IsFiniteSet(Proxied)
  PROVE  /\ IsFiniteSet(Through) /\ Cardinality(Through) \in Nat
         /\ Cardinality(Through) <= Cardinality(Proxied) /\ Cardinality(Proxied) \in Nat
         /\ \A r \in Proxied \ Through : Cardinality(Through \cup {r}) = Cardinality(Through) + 1
<1>1. IsFiniteSet(Through) /\ Cardinality(Through) \in Nat
      /\ Cardinality(Through) <= Cardinality(Proxied) /\ Cardinality(Proxied) \in Nat
  BY FS_Subset, FS_CardinalityType DEF Through
<1>. QED
  BY <1>1, FS_AddElement

\* The rows, the lists and the places of requests.
RowsAndLists ==
  /\ state \in [EndpointNames -> {"up", "down", "absent"}]
  /\ at \in [Proxied -> {"idle", "auto", "targets", "calling", "done"}]
  /\ left \in [Proxied -> Seq(EndpointNames)] /\ got \in [Proxied -> Seq(EndpointNames)]
  /\ steady \in [Proxied -> SUBSET EndpointNames] /\ torn \subseteq Proxied

ListTypes == RowsAndLists /\ turn \in Nat /\ turn <= Cardinality(Through)

\* A list of names stays one when its head is taken off, or a name is added.
LEMMA NameLists ==
  /\ <<>> \in Seq(EndpointNames)
  /\ \A s \in Seq(EndpointNames) :
       /\ ToSet(s) \subseteq EndpointNames
       /\ s # <<>> => Head(s) \in EndpointNames /\ Tail(s) \in Seq(EndpointNames)
       /\ \A n \in EndpointNames : Append(s, n) \in Seq(EndpointNames)
<1> DEFINE N == EndpointNames
<1> HIDE DEF N
<1>1. <<>> \in Seq(N)
  OBVIOUS
<1>2. ASSUME NEW s \in Seq(N)
      PROVE  /\ ToSet(s) \subseteq N
             /\ s # <<>> => Head(s) \in N /\ Tail(s) \in Seq(N)
             /\ \A n \in N : Append(s, n) \in Seq(N)
  <2>1. ToSet(s) \subseteq N
    BY DEF ToSet
  <2>2. ASSUME s # <<>> PROVE Head(s) \in N /\ Tail(s) \in Seq(N)
    BY <2>2
  <2>3. \A n \in N : Append(s, n) \in Seq(N)
    OBVIOUS
  <2>. QED
    BY <2>1, <2>2, <2>3
<1>. QED
  BY <1>1, <1>2 DEF N

\* A request reads: the rows it has and those to come stay lists of names.
LEMMA ReadTypes ==
  ASSUME ListTypes, NEW r \in Proxied, AskAuto(r) \/ AskRoundRobin(r) \/ ReadRow(r)
  PROVE  RowsAndLists' /\ turn' = turn /\ Through' = Through
<1> USE DEF ListTypes, RowsAndLists
<1>1. UNCHANGED <<state, turn, answer, turns>>
  BY DEF AskAuto, AskRoundRobin, ReadRow
<1>2. CASE AskAuto(r) \/ AskRoundRobin(r)
  <2>1. /\ at[r] = "idle" /\ torn' = torn /\ got' = [got EXCEPT ![r] = <<>>]
        /\ at' = [at EXCEPT ![r] = "auto"] \/ at' = [at EXCEPT ![r] = "targets"]
        /\ left' = [left EXCEPT ![r] = Candidates] \/ left' = [left EXCEPT ![r] = Targets]
        /\ \/ steady' = steady
           \/ steady' = [steady EXCEPT ![r] = {n \in ToSet(Candidates) : Available(n)}]
    BY <1>2 DEF AskAuto, AskRoundRobin, BeginWith
  <2>2. left' \in [Proxied -> Seq(EndpointNames)] /\ got' \in [Proxied -> Seq(EndpointNames)]
    <3> DEFINE Lists == Seq(EndpointNames)
    <3>1. Candidates \in Lists /\ Targets \in Lists /\ \E e \in Lists : e = <<>>
      BY NameLists, CandidatesAssumption
    <3>2. left \in [Proxied -> Lists] /\ got \in [Proxied -> Lists]
      OBVIOUS
    <3>3. PICK e \in Lists : got' = [got EXCEPT ![r] = e] \/ got' = got
      BY <2>1, <3>1
    <3> HIDE DEF Lists
    <3>4. left' \in [Proxied -> Lists] /\ got' \in [Proxied -> Lists]
      BY <2>1, <3>1, <3>2, <3>3
    <3>. QED
      BY <3>4 DEF Lists
  <2>3. {n \in ToSet(Candidates) : Available(n)} \in SUBSET EndpointNames
    BY DEF EndpointNames
  <2>4. steady' \in [Proxied -> SUBSET EndpointNames]
    BY <2>1, <2>3
  <2>5. at' \in [Proxied -> {"idle", "auto", "targets", "calling", "done"}] /\ Through' = Through
    BY <2>1 DEF Through
  <2>. QED
    BY <1>1, <2>1, <2>2, <2>4, <2>5
<1>3. CASE ReadRow(r)
  <2>1. /\ at' = at /\ steady' = steady /\ left[r] # <<>> /\ left' = [left EXCEPT ![r] = Tail(left[r])]
        /\ \/ torn' = torn /\ got' = [got EXCEPT ![r] = IF Usable(r, Head(left[r])) THEN Append(got[r], Head(left[r])) ELSE got[r]]
           \/ torn' = torn \cup {r} /\ got' = got
    BY <1>3 DEF ReadRow
  <2>2. left' \in [Proxied -> Seq(EndpointNames)]
    BY <2>1, NameLists
  <2>3. got' \in [Proxied -> Seq(EndpointNames)]
    <3>1. got[r] \in Seq(EndpointNames) /\ Append(got[r], Head(left[r])) \in Seq(EndpointNames)
      BY <2>1, NameLists
    <3>. QED
      BY <2>1, <3>1
  <2>4. Through' = Through
    BY <2>1 DEF Through
  <2>. QED
    BY <1>1, <2>1, <2>2, <2>3, <2>4
<1>. QED
  BY <1>2, <1>3

\* A request goes on with what it has read.
LEMMA GoTypes ==
  ASSUME ListTypes, NEW r \in Proxied, ChooseAuto(r) \/ TakeTurn(r) \/ NoTargets(r) \/ UpstreamAnswers(r)
  PROVE  /\ RowsAndLists' /\ Through \subseteq Through'
         /\ \/ turn' = turn
            \/ turn' = turn + 1 /\ r \notin Through /\ Through' = Through \cup {r}
<1> USE DEF ListTypes, RowsAndLists
<1>1. CASE ChooseAuto(r)
  <2>1. /\ at[r] = "auto" /\ UNCHANGED <<state, turn, steady, torn>>
        /\ \/ at' = [at EXCEPT ![r] = "calling"] /\ got' = [got EXCEPT ![r] = <<>>] /\ left' = left
           \/ at' = [at EXCEPT ![r] = "targets"] /\ got' = [got EXCEPT ![r] = <<>>] /\ left' = [left EXCEPT ![r] = Targets]
           \/ at' = [at EXCEPT ![r] = "done"] /\ got' = got /\ left' = left
    BY <1>1, Zenon DEF ChooseAuto, Call, Answer, BeginWith
  <2>2. left' \in [Proxied -> Seq(EndpointNames)] /\ got' \in [Proxied -> Seq(EndpointNames)]
    <3> DEFINE Lists == Seq(EndpointNames)
    <3>1. Candidates \in Lists /\ Targets \in Lists /\ \E e \in Lists : e = <<>>
      BY NameLists, CandidatesAssumption
    <3>2. left \in [Proxied -> Lists] /\ got \in [Proxied -> Lists]
      OBVIOUS
    <3>3. PICK e \in Lists : got' = [got EXCEPT ![r] = e] \/ got' = got
      BY <2>1, <3>1
    <3> HIDE DEF Lists
    <3>4. left' \in [Proxied -> Lists] /\ got' \in [Proxied -> Lists]
      BY <2>1, <3>1, <3>2, <3>3
    <3>. QED
      BY <3>4 DEF Lists
  <2>3. at' \in [Proxied -> {"idle", "auto", "targets", "calling", "done"}] /\ Through \subseteq Through'
    BY <2>1 DEF Through
  <2>. QED
    BY <2>1, <2>2, <2>3
<1>2. CASE TakeTurn(r)
  <2>1. /\ at[r] = "targets" /\ UNCHANGED <<state, left, steady, torn>> /\ turn' = turn + 1
        /\ at' = [at EXCEPT ![r] = "calling"] /\ got' = [got EXCEPT ![r] = <<>>]
    BY <1>2 DEF TakeTurn, Call
  <2>2. got' \in [Proxied -> Seq(EndpointNames)]
    BY <2>1, NameLists
  <2>3. at' \in [Proxied -> {"idle", "auto", "targets", "calling", "done"}]
        /\ r \notin Through /\ Through' = Through \cup {r}
    BY <2>1 DEF Through
  <2>. QED
    BY <2>1, <2>2, <2>3
<1>3. CASE NoTargets(r) \/ UpstreamAnswers(r)
  <2>1. /\ UNCHANGED <<state, turn, left, got>> /\ at' = [at EXCEPT ![r] = "done"] /\ torn' \subseteq torn
        /\ steady' = steady \/ steady' = [steady EXCEPT ![r] = {}]
    BY <1>3 DEF NoTargets, UpstreamAnswers, Answer
  <2>2. at' \in [Proxied -> {"idle", "auto", "targets", "calling", "done"}] /\ Through \subseteq Through'
    BY <2>1 DEF Through
  <2>. QED
    BY <2>1, <2>2
<1>. QED
  BY <1>1, <1>2, <1>3

\* Rows, requests and the counter of the round robin keep their types, whatever
\* the list of targets repeats.
LEMMA EndpointTypes == ASSUME IsFiniteSet(Proxied) PROVE ESpec => []ETypeOK
<1>1. EInit => ListTypes
  <2>1. SUFFICES ASSUME EInit PROVE ListTypes
    OBVIOUS
  <2>2. left \in [Proxied -> Seq(EndpointNames)] /\ got \in [Proxied -> Seq(EndpointNames)]
    BY <2>1, NameLists DEF EInit
  <2>3. turn \in Nat /\ turn <= Cardinality(Through)
    BY <2>1, ThroughIs DEF EInit
  <2>. QED
    BY <2>1, <2>2, <2>3 DEF EInit, ListTypes, RowsAndLists
<1>2. ListTypes /\ [ENext]_eVars => ListTypes'
  <2> SUFFICES ASSUME ListTypes, [ENext]_eVars PROVE ListTypes'
    OBVIOUS
  <2>1. SUFFICES /\ RowsAndLists' /\ IsFiniteSet(Through') /\ Through \subseteq Through'
                 /\ \/ turn' = turn
                    \/ turn' = turn + 1 /\ \E r \in Proxied \ Through : Through' = Through \cup {r}
    <3>1. Cardinality(Through) <= Cardinality(Through') /\ Cardinality(Through') \in Nat
      BY <2>1, FS_Subset, FS_CardinalityType
    <3>2. CASE turn' = turn
      BY <2>1, <3>1, <3>2, ThroughIs DEF ListTypes
    <3>3. CASE turn' = turn + 1 /\ \E r \in Proxied \ Through : Through' = Through \cup {r}
      <4>1. Cardinality(Through') = Cardinality(Through) + 1
        BY <3>3, ThroughIs
      <4>. QED
        BY <2>1, <3>3, <4>1, ThroughIs DEF ListTypes
    <3>. QED
      BY <2>1, <3>2, <3>3
  <2>2. IsFiniteSet(Through')
    BY FS_Subset DEF Through
  <2>3. CASE UNCHANGED eVars
    BY <2>2, <2>3 DEF eVars, ListTypes, RowsAndLists, Through
  <2>4. ASSUME NEW n \in Restless, InstanceChanges(n) PROVE RowsAndLists' /\ turn' = turn /\ Through' = Through
    <3>1. PICK s \in {"up", "down", "absent"} \ {state[n]} :
            /\ state' = [state EXCEPT ![n] = s] /\ torn' \in {torn, torn \cup Resolving}
            /\ steady' = [r \in Proxied |-> IF s = "up" THEN steady[r] ELSE steady[r] \ {n}]
            /\ UNCHANGED <<turn, at, left, got, answer>>
      BY <2>4 DEF InstanceChanges
    <3>2. steady' \in [Proxied -> SUBSET EndpointNames]
      BY <3>1 DEF ListTypes, RowsAndLists
    <3>3. state' \in [EndpointNames -> {"up", "down", "absent"}]
      BY <3>1 DEF ListTypes, RowsAndLists
    <3>. QED
      BY <3>1, <3>2, <3>3 DEF ListTypes, RowsAndLists, Resolving, Through
  <2>. QED
    BY <2>2, <2>3, <2>4, ReadTypes, GoTypes DEF ENext
<1>3. ListTypes => ETypeOK
  BY NameLists, ThroughIs DEF ListTypes, RowsAndLists, ETypeOK
<1>. QED
  BY <1>1, <1>2, <1>3, PTL DEF ESpec
\* The requests that have written: each has made one write at most.
Settled == {p \in Posts : post[p] \in {"invalidate", "store", "done"}}

\* Of finitely many requests those can be counted.
LEMMA SettledIs ==
  ASSUME IsFiniteSet(Posts)
  PROVE  /\ IsFiniteSet(Settled) /\ Cardinality(Settled) \in Nat
         /\ Cardinality(Settled) <= Cardinality(Posts) /\ Cardinality(Posts) \in Nat
         /\ \A p \in Posts \ Settled : Cardinality(Settled \cup {p}) = Cardinality(Settled) + 1
<1>1. IsFiniteSet(Settled) /\ Cardinality(Settled) \in Nat
      /\ Cardinality(Settled) <= Cardinality(Posts) /\ Cardinality(Posts) \in Nat
  BY FS_Subset, FS_CardinalityType DEF Settled
<1>. QED
  BY <1>1, FS_AddElement

\* What is kept was computed from what there is or was.
KeptTypes ==
  /\ data \in Nat \ {0} /\ page \in Nat /\ page <= data
  /\ kept \in [Keys -> Nat] /\ \A k \in Keys : kept[k] <= data
  /\ fresh \in [Gets -> Nat] /\ \A g \in Gets : fresh[g] <= data
  /\ post \in [Posts -> {"idle", "execute", "invalidate", "store", "done"}]
  /\ get \in [Gets -> {"idle", "compute", "store", "done"}]
  /\ clients \subseteq Posts
  /\ excused \subseteq Keys /\ stale \in BOOLEAN

\* A request writes once; nothing else does.
LEMMA KeptStep ==
  ASSUME KeptTypes, HNext
  PROVE  /\ KeptTypes' /\ Settled \subseteq Settled'
         /\ \/ data' = data
            \/ data' = data + 1 /\ \E p \in Posts \ Settled : Settled' = Settled \cup {p}
<1> USE DEF KeptTypes, Absent
<1>1. ASSUME PageExpires PROVE KeptTypes' /\ Settled' = Settled /\ data' = data
  <2>1. page' = 0 /\ stale' = FALSE /\ UNCHANGED <<data, kept, post, get, fresh, clients, runs, excused>>
    BY <1>1 DEF PageExpires
  <2>2. 0 \in Nat /\ 0 <= data
    OBVIOUS
  <2>. QED
    BY <2>1, <2>2 DEF Settled
<1>2. ASSUME NEW k \in Keys, AnswerExpires(k) PROVE KeptTypes' /\ Settled' = Settled /\ data' = data
  BY <1>2 DEF AnswerExpires, Settled
<1>3. ASSUME NEW p \in Posts, PostReplay(p) \/ PostRefused(p) \/ ClientLeaves(p)
      PROVE  KeptTypes' /\ Settled \subseteq Settled' /\ data' = data
  BY <1>3 DEF PostReplay, PostRefused, ClientLeaves, PGoto, Settled
<1>4. ASSUME NEW p \in Posts, PostMiss(p) PROVE KeptTypes' /\ Settled \subseteq Settled' /\ data' = data
  <2>1. /\ excused' \subseteq Keys /\ post' = [post EXCEPT ![p] = "execute"] /\ post[p] = "idle"
        /\ UNCHANGED <<data, page, kept, get, fresh, clients, runs, stale>>
    BY <1>4 DEF PostMiss, PGoto
  <2>. QED
    BY <2>1 DEF Settled
<1>5. ASSUME NEW p \in Posts, PostExecute(p)
      PROVE  /\ KeptTypes' /\ Settled \subseteq Settled' /\ data' = data + 1
             /\ \E r \in Posts \ Settled : Settled' = Settled \cup {r}
  <2>1. /\ post[p] = "execute" /\ data' = data + 1 /\ post' = [post EXCEPT ![p] = "invalidate"]
        /\ UNCHANGED <<page, kept, get, fresh, clients, excused, stale>>
    BY <1>5 DEF PostExecute, PGoto
  <2>2. p \notin Settled /\ Settled' = Settled \cup {p}
    BY <2>1 DEF Settled
  <2>3. data' \in Nat \ {0} /\ data <= data'
    BY <2>1
  <2>4. page' <= data' /\ (\A k \in Keys : kept'[k] <= data') /\ \A g \in Gets : fresh'[g] <= data'
    BY <2>1, <2>3
  <2>. QED
    BY <2>1, <2>2, <2>3, <2>4
<1>6. ASSUME NEW p \in Posts, PostInvalidate(p) \/ PostStore(p)
      PROVE  KeptTypes' /\ Settled \subseteq Settled' /\ data' = data
  <2>1. /\ post[p] \in {"invalidate", "store"} /\ UNCHANGED <<data, get, fresh, clients>>
        /\ post' = [post EXCEPT ![p] = "store"] \/ post' = [post EXCEPT ![p] = "done"]
        /\ page' \in {0, page} /\ stale' \in BOOLEAN /\ excused' \subseteq Keys
        /\ kept' = kept \/ kept' = [k \in Keys |-> IF k = KeyOf[p] THEN data ELSE kept[k]]
    BY <1>6 DEF PostInvalidate, PostStore, PGoto, Excuse
  <2>2. Settled \subseteq Settled' /\ post' \in [Posts -> {"idle", "execute", "invalidate", "store", "done"}]
    BY <2>1 DEF Settled
  <2>3. kept' \in [Keys -> Nat] /\ \A k \in Keys : kept'[k] <= data
    BY <2>1
  <2>. QED
    BY <2>1, <2>2, <2>3
<1>7. ASSUME NEW g \in Gets, GetHit(g) \/ GetMiss(g) \/ GetCompute(g) \/ GetStore(g)
      PROVE  KeptTypes' /\ Settled' = Settled /\ data' = data
  <2>1. /\ UNCHANGED <<data, kept, post, clients, excused>>
        /\ \E s \in {"compute", "store", "done"} : get' = [get EXCEPT ![g] = s]
        /\ fresh' = fresh \/ fresh' = [fresh EXCEPT ![g] = data] \/ fresh' = [fresh EXCEPT ![g] = 0]
        /\ page' \in {page, fresh[g]} /\ stale' \in BOOLEAN
    BY <1>7 DEF GetHit, GetMiss, GetCompute, GetStore, GGoto
  <2>2. fresh' \in [Gets -> Nat] /\ \A x \in Gets : fresh'[x] <= data
    BY <2>1
  <2>3. get' \in [Gets -> {"idle", "compute", "store", "done"}] /\ page' \in Nat /\ page' <= data
    BY <2>1
  <2>. QED
    BY <2>1, <2>2, <2>3 DEF Settled
<1>. QED
  BY <1>1, <1>2, <1>3, <1>4, <1>5, <1>6, <1>7 DEF HNext

\* Kept answers and pages are no newer than what is written.
LEMMA CacheTypes == ASSUME IsFiniteSet(Posts) PROVE HSpec => []HTypeOK
<1> DEFINE HTypes == KeptTypes /\ data <= Cardinality(Settled) + 1
<1>1. HInit => HTypes
  <2>1. SUFFICES ASSUME HInit PROVE HTypes
    OBVIOUS
  <2>2. data <= Cardinality(Settled) + 1
    BY <2>1, SettledIs DEF HInit
  <2>3. data \in Nat \ {0} /\ page \in Nat /\ page <= data
    BY <2>1 DEF HInit, Absent
  <2>4. kept \in [Keys -> Nat] /\ \A k \in Keys : kept[k] <= data
    BY <2>1 DEF HInit, Absent
  <2>5. fresh \in [Gets -> Nat] /\ \A g \in Gets : fresh[g] <= data
    BY <2>1 DEF HInit, Absent
  <2>. QED
    BY <2>1, <2>2, <2>3, <2>4, <2>5 DEF HInit, KeptTypes
<1>2. HTypes /\ [HNext]_hVars => HTypes'
  <2> SUFFICES ASSUME HTypes, [HNext]_hVars PROVE HTypes'
    OBVIOUS
  <2>1. CASE UNCHANGED hVars
    BY <2>1 DEF hVars, KeptTypes, Settled
  <2>2. CASE HNext
    <3>1. KeptTypes' /\ data \in Nat /\ Settled \subseteq Settled' /\ IsFiniteSet(Settled')
      BY <2>2, KeptStep, FS_Subset DEF KeptTypes, Settled
    <3>2. Cardinality(Settled) <= Cardinality(Settled') /\ Cardinality(Settled') \in Nat
      BY <3>1, FS_Subset, FS_CardinalityType
    <3>3. CASE data' = data
      BY <3>1, <3>2, <3>3, SettledIs
    <3>4. CASE data' = data + 1 /\ \E p \in Posts \ Settled : Settled' = Settled \cup {p}
      <4>1. Cardinality(Settled') = Cardinality(Settled) + 1
        BY <3>4, SettledIs
      <4>. QED
        BY <3>1, <3>4, <4>1, SettledIs
    <3>. QED
      BY <2>2, <3>3, <3>4, KeptStep
  <2>. QED
    BY <2>1, <2>2
<1>3. HTypes => HTypeOK
  <2>1. SUFFICES ASSUME HTypes PROVE HTypeOK
    OBVIOUS
  <2>2. data \in 1..(Cardinality(Posts) + 1)
    BY <2>1, SettledIs DEF KeptTypes
  <2>3. page \in 0..data /\ kept \in [Keys -> 0..data] /\ fresh \in [Gets -> 0..data]
    BY <2>1 DEF KeptTypes
  <2>. QED
    BY <2>1, <2>2, <2>3 DEF KeptTypes, HTypeOK
<1> HIDE DEF HTypes
<1>. QED
  BY <1>1, <1>2, <1>3, PTL DEF HSpec

\* The bucket is never more than full, whatever the delays of Redis.
LEMMA BucketTypes == KSpec => []KTypeOK
<1> DEFINE KTypes == KTypeOK /\ \A h \in Hits : stamp[h] <= clock
<1>1. PICK full \in Nat, c \in Nat, n \in Nat : full = Burst * Cost /\ c = Cost /\ n = MaxTime
  BY BucketAssumption, UsedIs DEF Full
<1>2. KInit => KTypes
  <2>1. SUFFICES ASSUME KInit PROVE KTypes
    OBVIOUS
  <2>2. tokens \in 0..(Burst * Cost) /\ clock \in 0..MaxTime /\ ts \in Never..clock /\ born \in Never..clock
    BY <1>1, <2>1 DEF KInit, Never
  <2>3. stamp \in [Hits -> Never..MaxTime] /\ \A h \in Hits : stamp[h] <= clock
    BY <1>1, <2>1 DEF KInit, Never
  <2>. QED
    BY <2>1, <2>2, <2>3 DEF KInit, KTypeOK
<1>3. KTypes /\ [KNext]_kVars => KTypes'
  <2> SUFFICES ASSUME KTypes, [KNext]_kVars PROVE KTypes'
    OBVIOUS
  <2> USE DEF KTypeOK, Never
  <2>1. CASE UNCHANGED kVars
    BY <2>1 DEF kVars
  <2>2. CASE Tick
    BY <1>1, <2>2 DEF Tick
  <2>3. ASSUME NEW h \in Hits, Arrive(h) PROVE KTypes'
    BY <1>1, <2>3 DEF Arrive
  <2>4. ASSUME NEW h \in Hits, GiveUp(h) PROVE KTypes'
    BY <1>1, <2>4 DEF GiveUp
  <2>5. CASE RedisRestarts
    <3>1. tokens' \in 0..full /\ clock \in Int
      BY <1>1, <2>5 DEF RedisRestarts
    <3>2. ts' \in Never..clock' /\ born' \in Never..clock'
      BY <1>1, <2>5 DEF RedisRestarts
    <3>. QED
      BY <1>1, <2>5, <3>1, <3>2 DEF RedisRestarts
  <2>6. ASSUME NEW h \in Hits, RunScript(h) \/ LoseAnswer(h) PROVE KTypes'
    <3>1. tokens \in 0..full /\ stamp[h] \in -1..n /\ ts \in Int
      BY <1>1
    <3>2. Filled(h) \in 0..full
      BY <1>1, <3>1 DEF Filled, Least, Most
    <3>3. tokens' \in 0..full
      BY <1>1, <2>6, <3>2 DEF RunScript, LoseAnswer, Script
    <3>4. ts' \in Never..clock /\ UNCHANGED <<clock, stamp, born>>
      BY <1>1, <2>6, <3>1 DEF RunScript, LoseAnswer, Script
    <3>5. admitted' \subseteq ran' /\ ran' \subseteq Hits /\ open' \subseteq Hits \ ran' /\ reordered' \in BOOLEAN
      BY <2>6 DEF RunScript, LoseAnswer, Script
    <3>. QED
      BY <1>1, <3>3, <3>4, <3>5
  <2>. QED
    BY <2>1, <2>2, <2>3, <2>4, <2>5, <2>6 DEF KNext
<1>4. KTypes => KTypeOK
  OBVIOUS
<1> HIDE DEF KTypes
<1>. QED
  BY <1>2, <1>3, <1>4, PTL DEF KSpec
--------------------------------------------------------------------------------
(* The parts together.                                                       *)

\* The knowledge base keeps its types.
LEMMA KnowledgeTypes == KbIInv => KbTypeOK
<1>1. SUFFICES ASSUME KbIInv PROVE KbTypeOK
  OBVIOUS
<1>2. KbShape
  BY <1>1 DEF KbIInv
<1>3. \A w \in Writers : seen[w] \subseteq Chunk
  BY <1>2 DEF KbShape
<1>. QED
  BY <1>2, <1>3 DEF KbShape, KbTypeOK

\* Parents are versions, or none, and only rows have them.
ParentType == parent \in [RowsOf -> Versions \cup {NoVersion}]

\* It is so all the time.
LEMMA ParentTypes == MSpec => []ParentType
<1>1. MInit => ParentType
  BY DEF MInit, ParentType
<1>2. ParentType /\ [MNext]_mVars => ParentType'
  BY DEF ParentType, MNext, mVars, RegisterModelVersion, DeleteModelVersion, UploadRead, UploadPut, UploadSet
<1>. QED
  BY <1>1, <1>2, PTL DEF MSpec

\* The model registry keeps its types.
LEMMA RegistryTypes == ModelIInv /\ ParentType => MTypeOK
  BY DEF ModelIInv, MShape, UploadInv, ParentType, MTypeOK

\* The container and the requests about it keep their types.
LEMMA SlotTypes == SlotIInv => SlotTypeOK
<1>1. SUFFICES ASSUME SlotIInv PROVE SlotTypeOK
  OBVIOUS
<1>2. PICK n \in Nat : n = MaxAttempts
  BY MaxAttemptsAssumption
<1>3. tries \in [Requests -> 0..MaxAttempts]
  BY <1>1, <1>2 DEF SlotIInv, SlotShape
<1>4. slot # NoOne => /\ slot.id \in Starts /\ slot.cfg = WantOf[slot.id]
                      /\ slot.state \in {"created", "starting", "ready", "exited"}
                      /\ slot.by \in Requests \cup {NoOne}
  BY <1>1 DEF SlotIInv, SlotShape, SlotRecords
<1>5. reply \in [Requests -> [is : {"none", "error", "status"}, cfg : Launches \cup {NoOne},
                              state : {"none", "starting", "ready", "stopped", "left over", "error"}]]
  BY <1>1 DEF SlotIInv, SlotShape, Replies
<1>. QED
  BY <1>1, <1>3, <1>4, <1>5 DEF SlotIInv, SlotShape, SlotTypeOK

\* A step of the pack is a step of one part and leaves the others alone.
LEMMA StepOfOnePart ==
  ASSUME [Next]_allVars
  PROVE  /\ [CNext]_cVars /\ [INext]_iVars /\ [ANext]_aVars
         /\ [ENext]_eVars /\ [HNext]_hVars /\ [KNext]_kVars
         /\ [KbNext]_kbVars /\ [MNext]_mVars /\ [SlotNext]_slotVars
<1>1. CASE LedgerStep
  BY <1>1 DEF LedgerStep, requestVars, storeVars
<1>2. CASE RequestStep
  BY <1>2 DEF RequestStep, ledgerVars, storeVars
<1>3. CASE StoreStep
  BY <1>3 DEF StoreStep, ledgerVars, requestVars
<1>4. CASE UNCHANGED allVars
  BY <1>4 DEF allVars, ledgerVars, requestVars, storeVars
<1>. QED
  BY <1>1, <1>2, <1>3, <1>4 DEF Next

\* So are its behaviours.
LEMMA BehavioursOfParts ==
  Spec => CSpec /\ ISpec /\ ASpec /\ ESpec /\ HSpec /\ KSpec /\ KbSpec /\ MSpec /\ SlotSpec
<1>1. Init => /\ CInit /\ IInit /\ AInit /\ EInit /\ HInit /\ KInit
              /\ KbInit /\ MInit /\ SlotInit
  BY DEF Init
<1>2. [Next]_allVars => /\ [CNext]_cVars /\ [INext]_iVars /\ [ANext]_aVars
                        /\ [ENext]_eVars /\ [HNext]_hVars /\ [KNext]_kVars
                        /\ [KbNext]_kbVars /\ [MNext]_mVars /\ [SlotNext]_slotVars
  BY StepOfOnePart
<1>. QED
  BY <1>1, <1>2, PTL DEF Spec, CSpec, ISpec, ASpec, ESpec, HSpec, KSpec, KbSpec, MSpec, SlotSpec

\* Transactions, proxied requests and POSTs are finitely many, however many.
FiniteRequests == IsFiniteSet(Txs) /\ IsFiniteSet(Proxied) /\ IsFiniteSet(Posts)

\* The variables of the nine parts keep their types: version numbers grow by one
\* with each publication, the counter of the round robin with each request, a page
\* that is kept is no newer than the writes, and no sweep holds more than a batch.
THEOREM ControlPlaneKeepsTypes == ASSUME FiniteRequests PROVE Spec => []TypeOK
<1>1. IsFiniteSet(Txs) /\ IsFiniteSet(Proxied) /\ IsFiniteSet(Posts)
  BY DEF FiniteRequests
<1>2. CSpec => [](ConfigIInv /\ CountInv)
  BY <1>1, ConfigTypes
<1>3. ESpec => []ETypeOK
  BY <1>1, EndpointTypes
<1>4. HSpec => []HTypeOK
  BY <1>1, CacheTypes
<1>5. CountInv => CTypeOK
  BY DEF CountInv
<1>6. /\ CTypeOK /\ ITypeOK /\ ATypeOK /\ ETypeOK /\ HTypeOK /\ KTypeOK /\ KbTypeOK /\ MTypeOK /\ SlotTypeOK
      => TypeOK
  BY DEF TypeOK
<1>. QED
  BY <1>2, <1>3, <1>4, <1>5, <1>6, BehavioursOfParts, IncidentTypes, ArchiveTypes, BucketTypes, IndexKeeps,
     KnowledgeTypes, ModelKeeps, ParentTypes, RegistryTypes, SlotKeeps, SlotTypes, PTL

\* A behaviour of MCControlPlane is one of each part, so that what is proved of the
\* parts is true of it: a version is in force, diagnoses of a workload share an
\* incident, a row that the archiver deletes has a copy, turns are even, no page is
\* older than the last write, rates are bounded, documents are found by their
\* text, lineage is ancestry, and the agent answers with one's own container.
THEOREM ControlPlaneHolds ==
  ASSUME NoReopening, OneBatch, EachTargetOnce, AnswersInTime
  PROVE  Spec => /\ []ConfigInv /\ []IncidentInv /\ []ArchiveInv
                 /\ []ChoiceInv /\ []CacheInv /\ []RateIsBounded
                 /\ []IndexInv /\ []ModelInv /\ []SlotInv
<1>1. ISpec => []IncidentInv
  BY IncidentHolds
<1>2. ASpec => [](ATypeOK /\ ArchiveInv)
  BY ArchiveSafe
<1>3. ESpec => []ChoiceInv
  BY ChoiceHolds
<1>4. KSpec => []RateIsBounded
  BY BucketHolds
<1>. QED
  BY <1>1, <1>2, <1>3, <1>4, BehavioursOfParts, ConfigHolds, CacheHolds, IndexHolds, ModelHolds, SlotHolds, PTL
================================================================================
