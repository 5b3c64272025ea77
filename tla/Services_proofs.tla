---------------------------- MODULE Services_proofs ----------------------------
(***************************************************************************)
(* What holds of any number of registered instances, of requests to one    *)
(* routing policy and of chat turns in one session, whatever fails between *)
(* two calls, and of a run of the diagnosis agent with any tools and       *)
(* limits.  MCServices checks them on small instances.                     *)
(***************************************************************************)
EXTENDS MCServices, DataLemmas, TLAPS

--------------------------------------------------------------------------------
(* The service registry.                                                     *)

\* What a step does to the rows, to the stamps and to the probes.
LEMMA RegistryStep ==
  ASSUME GTypeOK, [GNext]_gVars
  PROVE  /\ GTypeOK'
         /\ \A n \in Instances : gStatus[n] = "absent" /\ gStatus'[n] # "absent"
              => alive[n] /\ beat'[n] = "fresh"
<1>1. CASE Sweep
  BY <1>1 DEF Sweep, Expired, GTypeOK
<1>2. ASSUME NEW n \in Instances, Starts(n) \/ Stops(n) \/ TtlPasses(n) PROVE GTypeOK' /\ gStatus' = gStatus
  <2>1. CASE Starts(n)
    BY <2>1 DEF Starts, GTypeOK
  <2>2. CASE Stops(n)
    BY <2>2 DEF Stops, GTypeOK
  <2>3. CASE TtlPasses(n)
    BY <2>3 DEF TtlPasses, GTypeOK
  <2>. QED
    BY <1>2, <2>1, <2>2, <2>3
<1>3. ASSUME NEW n \in Instances, Register(n) \/ Heartbeat(n)
      PROVE  /\ GTypeOK' /\ alive[n] /\ beat'[n] = "fresh"
             /\ \A m \in Instances \ {n} : gStatus'[m] = gStatus[m]
  BY <1>3 DEF Register, Heartbeat, GTypeOK
<1>4. ASSUME NEW n \in Instances, Deregister(n)
      PROVE  GTypeOK' /\ gStatus'[n] = "absent" /\ \A m \in Instances \ {n} : gStatus'[m] = gStatus[m]
  BY <1>4 DEF Deregister, GTypeOK
<1>5. ASSUME NEW n \in Instances, ProbeRead(n) \/ ProbeAnswer(n) PROVE GTypeOK' /\ gStatus' = gStatus
  BY <1>5 DEF ProbeRead, ProbeAnswer, GTypeOK
<1>6. ASSUME NEW n \in Instances, ProbePersist(n)
      PROVE  GTypeOK' /\ \A m \in Instances : gStatus[m] = "absent" => gStatus'[m] = "absent"
  BY <1>6 DEF ProbePersist, GTypeOK
<1>7. CASE UNCHANGED gVars
  BY <1>7 DEF gVars, GTypeOK
<1>. QED
  BY <1>1, <1>2, <1>3, <1>4, <1>5, <1>6, <1>7 DEF GNext, Sweep, Expired

\* A row appears only by the registration of an instance that is alive, with its
\* stamp: no sweep and no verdict of a probe, however late, brings one back; for
\* any number of instances and whichever of them the migrations seed.
THEOREM RegistrationHolds == GSpec => RowsAreRegistered /\ []GTypeOK
<1>1. GInit => GTypeOK
  BY DEF GInit, GTypeOK
<1>2. GTypeOK /\ [GNext]_gVars => GTypeOK'
  BY RegistryStep
<1>3. GTypeOK /\ [GNext]_gVars =>
        [\A n \in Instances : gStatus[n] = "absent" /\ gStatus'[n] # "absent"
           => alive[n] /\ beat'[n] = "fresh"]_gVars
  BY RegistryStep
<1>. QED
  BY <1>1, <1>2, <1>3, PTL DEF GSpec, RowsAreRegistered

--------------------------------------------------------------------------------
(* A routing policy.                                                         *)

\* A row has variants while it is there; what a rollback would bring back is what
\* the last promotion replaced, as long as that is known.
RowInv ==
  /\ exists => Valid(variants)
  /\ ~exists => variants = NoVariants
  /\ before # NoVariants /\ snapshot # NoVariants => snapshot = before

\* The row as it is.
TheRow == [enabled |-> enabled, shadow |-> shadow, variants |-> variants, snapshot |-> snapshot]

\* A change that has loaded the row has been accepted for what it saw, which is
\* still the row unless another write has overtaken it.
EditOK(o) ==
  /\ Valid(saw[o].variants)
  /\ ask[o].do \in {"update", "promote", "rollback"}
  /\ ask[o].do = "update" /\ ask[o].variants # NoVariants => Valid(ask[o].variants)
  /\ ask[o].do = "promote" => ask[o].label \in DOMAIN saw[o].variants
  /\ ask[o].do = "rollback" => Valid(saw[o].snapshot)
  /\ o \notin raced => exists /\ saw[o] = TheRow

EditShape ==
  /\ edit \in [Edits -> {"idle", "loaded", "done"}]
  /\ \E S : ask \in [Edits -> S] /\ saw \in [Edits -> S]

PolicyIInv == EditShape /\ RowInv /\ \A o \in Loaded : EditOK(o)

\* All weight on one label is a list that can be picked from.
LEMMA OnlyThisIsValid ==
  ASSUME NEW vs, NEW l \in DOMAIN vs PROVE Valid(OnlyThis(l, vs))
<1> DEFINE ws == OnlyThis(l, vs)
<1>1. DOMAIN ws = DOMAIN vs /\ \A x \in DOMAIN vs : ws[x] = IF x = l THEN 100 ELSE 0
  BY DEF OnlyThis, Full
<1> HIDE DEF ws
<1>2. (\A x \in DOMAIN ws : ws[x] >= 0) /\ ws[l] > 0
  BY <1>1
<1>3. Valid(ws)
  BY <1>1, <1>2 DEF Valid
<1>. QED
  BY <1>3 DEF ws

\* A statement that writes the row leaves no change that has loaded it unmarked.
LEMMA OvertakeStep ==
  ASSUME PolicyIInv, NEW o \in Edits, Overtake(o)
  PROVE  EditShape' /\ \A p \in Loaded' : EditOK(p)'
<1>1. /\ edit' = [edit EXCEPT ![o] = "done"]
      /\ ask' = [ask EXCEPT ![o] = NoVariants] /\ saw' = [saw EXCEPT ![o] = NoVariants]
      /\ raced' = (raced \cup Loaded) \ {o}
  BY DEF Overtake
<1>2. EditShape'
  <2>1. PICK S : ask \in [Edits -> S] /\ saw \in [Edits -> S]
    BY DEF PolicyIInv, EditShape
  <2>2. ask' \in [Edits -> S \cup {NoVariants}] /\ saw' \in [Edits -> S \cup {NoVariants}]
    BY <1>1, <2>1
  <2>3. edit' \in [Edits -> {"idle", "loaded", "done"}]
    BY <1>1 DEF PolicyIInv, EditShape
  <2>. QED
    BY <2>2, <2>3 DEF EditShape
<1>3. ASSUME NEW p \in Loaded' PROVE p \in Loaded /\ p \in raced' /\ ask'[p] = ask[p] /\ saw'[p] = saw[p]
  <2>1. p \in Edits /\ p # o
    BY <1>1, <1>3 DEF PolicyIInv, EditShape, Loaded
  <2>. QED
    BY <1>1, <1>3, <2>1 DEF PolicyIInv, EditShape, Loaded
<1>4. ASSUME NEW p \in Loaded' PROVE EditOK(p)'
  <2>1. EditOK(p) /\ p \in raced' /\ ask'[p] = ask[p] /\ saw'[p] = saw[p]
    BY <1>3, <1>4 DEF PolicyIInv
  <2>. QED
    BY <2>1 DEF EditOK
<1>. QED
  BY <1>2, <1>4

\* What a write that was loaded puts into the row.
LEMMA WriteStep ==
  ASSUME PolicyIInv, NEW o \in Edits, UpdateWrite(o) \/ PromoteWrite(o) \/ RollbackWrite(o)
  PROVE  PolicyIInv'
<1>1. o \in Loaded /\ EditOK(o) /\ EditShape /\ RowInv
  BY DEF PolicyIInv, UpdateWrite, PromoteWrite, RollbackWrite, Loaded
<1>2. Overtake(o) /\ exists' = exists
  BY DEF UpdateWrite, PromoteWrite, RollbackWrite, Put
<1>3. EditShape' /\ \A p \in Loaded' : EditOK(p)'
  BY <1>2, OvertakeStep
<1>4. CASE ~exists
  <2>1. variants' = variants /\ snapshot' = snapshot /\ (before' = before \/ before' = NoVariants \/ before' = variants)
    BY <1>4 DEF UpdateWrite, PromoteWrite, RollbackWrite, Put
  <2>. QED
    BY <1>1, <1>2, <1>3, <1>4, <2>1 DEF PolicyIInv, RowInv
<1>5. CASE exists /\ UpdateWrite(o)
  <2>1. /\ snapshot' = snapshot /\ before' = before /\ ask[o].do = "update"
        /\ variants' = IF ask[o].variants = NoVariants THEN saw[o].variants ELSE ask[o].variants
    BY <1>5 DEF UpdateWrite, Put
  <2>2. Valid(variants')
    BY <1>1, <2>1 DEF EditOK
  <2>3. RowInv'
    BY <1>1, <1>2, <1>5, <2>1, <2>2 DEF RowInv, Valid
  <2>. QED
    BY <1>3, <2>3 DEF PolicyIInv
<1>6. CASE exists /\ PromoteWrite(o)
  <2>1. /\ variants' = OnlyThis(ask[o].label, saw[o].variants) /\ snapshot' = saw[o].variants
        /\ before' = (IF o \in raced THEN NoVariants ELSE variants) /\ ask[o].do = "promote"
    BY <1>6 DEF PromoteWrite, Put
  <2>2. Valid(variants')
    BY <1>1, <2>1, OnlyThisIsValid DEF EditOK
  <2>3. o \notin raced => before' = snapshot'
    BY <1>1, <2>1 DEF EditOK, TheRow
  <2>4. RowInv'
    BY <1>2, <1>6, <2>1, <2>2, <2>3 DEF RowInv, Valid
  <2>. QED
    BY <1>3, <2>4 DEF PolicyIInv
<1>7. CASE exists /\ RollbackWrite(o)
  <2>1. variants' = saw[o].snapshot /\ snapshot' = NoVariants /\ ask[o].do = "rollback"
    BY <1>7 DEF RollbackWrite, Put
  <2>2. Valid(variants')
    BY <1>1, <2>1 DEF EditOK
  <2>3. RowInv'
    BY <1>2, <1>7, <2>1, <2>2 DEF RowInv, Valid
  <2>. QED
    BY <1>3, <2>3 DEF PolicyIInv
<1>. QED
  BY <1>4, <1>5, <1>6, <1>7

\* Changes of the policy that come, load it, or end without a write.
LEMMA AskStep ==
  ASSUME PolicyIInv, NEW o \in Edits,
         EditAbort(o) \/ \E k \in Asks : CreatePolicy(o, k) \/ DeletePolicy(o, k) \/ LoadPolicy(o, k)
  PROVE  PolicyIInv'
<1>1. EditShape /\ RowInv /\ \A p \in Loaded : EditOK(p)
  BY DEF PolicyIInv
<1>2. CASE \E k \in Asks : CreatePolicy(o, k) \/ DeletePolicy(o, k)
  <2>1. EditShape' /\ \A p \in Loaded' : EditOK(p)'
    BY <1>2, OvertakeStep DEF CreatePolicy, DeletePolicy
  <2>2. RowInv'
    BY <1>2 DEF CreatePolicy, DeletePolicy, RowInv, Valid
  <2>. QED
    BY <2>1, <2>2 DEF PolicyIInv
<1>3. CASE \E k \in Asks : LoadPolicy(o, k)
  <2>0. PICK k \in Asks : LoadPolicy(o, k)
    BY <1>3
  <2>1. /\ edit[o] = "idle" /\ exists /\ Accepted(k)
        /\ edit' = [edit EXCEPT ![o] = "loaded"] /\ ask' = [ask EXCEPT ![o] = k]
        /\ saw' = [saw EXCEPT ![o] = TheRow]
        /\ UNCHANGED <<exists, enabled, shadow, variants, snapshot, before, raced>>
    BY <2>0 DEF LoadPolicy, TheRow, row
  <2>2. TheRow' = TheRow
    BY <2>1 DEF TheRow
  <2>3. RowInv'
    BY <1>1, <2>1 DEF RowInv, Valid
  <2>4. EditShape'
    <3>1. PICK S : ask \in [Edits -> S] /\ saw \in [Edits -> S]
      BY <1>1 DEF EditShape
    <3>2. ask' \in [Edits -> S \cup {k, TheRow}] /\ saw' \in [Edits -> S \cup {k, TheRow}]
      BY <2>1, <3>1
    <3>3. edit' \in [Edits -> {"idle", "loaded", "done"}]
      BY <1>1, <2>1 DEF EditShape
    <3>. QED
      BY <3>2, <3>3 DEF EditShape
  <2>5. ask'[o] = k /\ saw'[o] = TheRow
    BY <1>1, <2>1 DEF EditShape
  <2>6. ASSUME NEW p \in Loaded' PROVE EditOK(p)'
    <3>1. CASE p = o
      <4>1. /\ TheRow.variants = variants /\ TheRow.snapshot = snapshot /\ Valid(variants)
        BY <1>1, <2>1 DEF TheRow, RowInv
      <4>2. /\ k.do \in {"update", "promote", "rollback"}
            /\ k.do = "update" /\ k.variants # NoVariants => Valid(k.variants)
            /\ k.do = "promote" => k.label \in DOMAIN variants
            /\ k.do = "rollback" => Valid(snapshot)
        BY <2>1, AsksAssumption DEF Accepted, AskTypes
      <4>. QED
        BY <2>1, <2>2, <2>5, <3>1, <4>1, <4>2 DEF EditOK
    <3>2. CASE p # o
      <4>1. p \in Loaded /\ ask'[p] = ask[p] /\ saw'[p] = saw[p]
        BY <1>1, <2>1, <2>6, <3>2 DEF EditShape, Loaded
      <4>. QED
        BY <1>1, <2>1, <2>2, <4>1 DEF EditOK
    <3>. QED
      BY <3>1, <3>2
  <2>. QED
    BY <2>3, <2>4, <2>6 DEF PolicyIInv
<1>4. CASE EditAbort(o)
  <2>1. /\ edit' = [edit EXCEPT ![o] = "done"] /\ ask' = [ask EXCEPT ![o] = NoVariants]
        /\ saw' = [saw EXCEPT ![o] = NoVariants] /\ raced' = raced \ {o}
        /\ UNCHANGED <<exists, enabled, shadow, variants, snapshot, before>>
    BY <1>4 DEF EditAbort, row
  <2>2. TheRow' = TheRow
    BY <2>1 DEF TheRow
  <2>3. RowInv'
    BY <1>1, <2>1 DEF RowInv, Valid
  <2>4. EditShape'
    <3>1. PICK S : ask \in [Edits -> S] /\ saw \in [Edits -> S]
      BY <1>1 DEF EditShape
    <3>2. ask' \in [Edits -> S \cup {NoVariants}] /\ saw' \in [Edits -> S \cup {NoVariants}]
      BY <2>1, <3>1
    <3>3. edit' \in [Edits -> {"idle", "loaded", "done"}]
      BY <1>1, <2>1 DEF EditShape
    <3>. QED
      BY <3>2, <3>3 DEF EditShape
  <2>5. ASSUME NEW p \in Loaded' PROVE EditOK(p)'
    <3>1. p # o /\ p \in Loaded /\ ask'[p] = ask[p] /\ saw'[p] = saw[p]
      BY <1>1, <2>1, <2>5 DEF EditShape, Loaded
    <3>. QED
      BY <1>1, <2>1, <2>2, <3>1 DEF EditOK
  <2>. QED
    BY <2>3, <2>4, <2>5 DEF PolicyIInv
<1>. QED
  BY <1>2, <1>3, <1>4

\* Calls and restarts leave the row alone.
LEMMA CallsStep ==
  ASSUME PolicyIInv, PCrash \/ (\E c \in Calls : PickVariant(c) \/ CallStep(c) \/ ShadowEnds(c)) \/ UNCHANGED pVars
  PROVE  PolicyIInv' /\ UNCHANGED row /\ UNCHANGED before
<1>1. CASE PCrash
  <2>1. UNCHANGED <<exists, enabled, shadow, variants, snapshot, before>> /\ Loaded' = {}
    BY <1>1 DEF PCrash, row, Loaded, PolicyIInv, EditShape
  <2>2. RowInv'
    BY <2>1 DEF PolicyIInv, RowInv, Valid
  <2>3. EditShape'
    <3>1. edit' \in [Edits -> {"idle", "loaded", "done"}]
      BY <1>1 DEF PCrash, PolicyIInv, EditShape
    <3>2. ask' \in [Edits -> {NoVariants}] /\ saw' \in [Edits -> {NoVariants}]
      BY <1>1 DEF PCrash
    <3>. QED
      BY <3>1, <3>2 DEF EditShape
  <2>. QED
    BY <2>1, <2>2, <2>3 DEF PolicyIInv, row
<1>2. CASE (\E c \in Calls : PickVariant(c) \/ CallStep(c) \/ ShadowEnds(c)) \/ UNCHANGED pVars
  <2>1. UNCHANGED <<exists, enabled, shadow, variants, snapshot, edit, ask, saw, before, raced>>
    BY <1>2 DEF PickVariant, CallStep, ShadowEnds, Resolves, ResolveFails, Dispatch, CallerLeaves, AnswerBegins, UpstreamFails, AnswerEnds, Collect, pVars, row, edits
  <2>2. Loaded' = Loaded /\ TheRow' = TheRow
    BY <2>1 DEF Loaded, TheRow
  <2>3. RowInv' /\ EditShape'
    BY <2>1 DEF PolicyIInv, RowInv, Valid, EditShape
  <2>4. \A o \in Loaded : EditOK(o)'
    BY <2>1, <2>2 DEF PolicyIInv, EditOK
  <2>. QED
    BY <2>1, <2>2, <2>3, <2>4 DEF PolicyIInv, row
<1>. QED
  BY <1>1, <1>2

\* Every step.
LEMMA PolicyStep == ASSUME PolicyIInv, [PNext]_pVars PROVE PolicyIInv'
<1>1. CASE \E o \in Edits : UpdateWrite(o) \/ PromoteWrite(o) \/ RollbackWrite(o)
  BY <1>1, WriteStep
<1>2. CASE \E o \in Edits : EditAbort(o) \/ \E k \in Asks : CreatePolicy(o, k) \/ DeletePolicy(o, k) \/ LoadPolicy(o, k)
  BY <1>2, AskStep
<1>3. CASE PCrash \/ (\E c \in Calls : PickVariant(c) \/ CallStep(c) \/ ShadowEnds(c)) \/ UNCHANGED pVars
  BY <1>3, CallsStep
<1>. QED
  BY <1>1, <1>2, <1>3 DEF PNext

\* There is no policy at first.
LEMMA PolicyBegins == ASSUME PInit PROVE PolicyIInv
<1>1. ask \in [Edits -> {NoVariants}] /\ saw \in [Edits -> {NoVariants}] /\ edit \in [Edits -> {"idle"}]
  BY DEF PInit
<1>2. EditShape /\ Loaded = {}
  BY <1>1 DEF EditShape, Loaded
<1>. QED
  BY <1>2 DEF PInit, PolicyIInv, RowInv

\* What operators asked of a policy is what it does, however their changes
\* overlap: there is always a variant to pick, a rollback brings back what the
\* last promotion replaced, and a policy that was switched off stays off
\* (updateRoutingPolicy, promoteRoutingVariant, rollbackRoutingPolicy).
THEOREM PolicyHolds == PSpec => PolicyIsKept
<1>1. PInit => PolicyIInv
  BY PolicyBegins
<1>2. PolicyIInv /\ [PNext]_pVars => PolicyIInv'
  BY PolicyStep
<1>3. PolicyIInv => AlwaysPickable
  BY DEF PolicyIInv, RowInv, AlwaysPickable
<1>4. ASSUME PolicyIInv, [PNext]_pVars, NEW o \in Edits,
             edit[o] = "loaded", edit'[o] = "done", ask[o].do = "rollback", o \notin raced,
             before # NoVariants, exists', snapshot # NoVariants, snapshot' = NoVariants
      PROVE  variants' = before
  <2>1. EditOK(o) /\ RowInv
    BY <1>4 DEF PolicyIInv, Loaded
  <2>2. saw[o].snapshot = snapshot /\ snapshot = before
    BY <1>4, <2>1 DEF EditOK, RowInv, TheRow
  <2>3. CASE \E p \in Edits : UpdateWrite(p) \/ PromoteWrite(p) \/ RollbackWrite(p)
    <3>1. PICK p \in Edits : UpdateWrite(p) \/ PromoteWrite(p) \/ RollbackWrite(p)
      BY <2>3
    <3>2. p = o
      BY <1>4, <3>1 DEF UpdateWrite, PromoteWrite, RollbackWrite, Put, Overtake, PolicyIInv, EditShape
    <3>3. RollbackWrite(o)
      BY <1>4, <3>1, <3>2 DEF UpdateWrite, PromoteWrite
    <3>4. exists /\ variants' = saw[o].snapshot
      BY <1>4, <3>3 DEF RollbackWrite, Put
    <3>. QED
      BY <2>2, <3>4
  <2>4. CASE \E p \in Edits, k \in Asks : CreatePolicy(p, k) \/ DeletePolicy(p, k) \/ LoadPolicy(p, k) \/ EditAbort(p)
    <3>1. PICK p \in Edits, k \in Asks : CreatePolicy(p, k) \/ DeletePolicy(p, k) \/ LoadPolicy(p, k) \/ EditAbort(p)
      BY <2>4
    <3>2. p = o \/ LoadPolicy(p, k) \/ edit'[o] = edit[o]
      BY <1>4, <3>1 DEF CreatePolicy, DeletePolicy, LoadPolicy, EditAbort, Overtake, PolicyIInv, EditShape
    <3>. QED
      BY <1>4, <3>1, <3>2 DEF CreatePolicy, DeletePolicy, LoadPolicy, EditAbort, row
  <2>5. CASE \E p \in Edits : EditAbort(p)
    BY <1>4, <2>5 DEF EditAbort, row
  <2>6. CASE PCrash \/ (\E c \in Calls : PickVariant(c) \/ CallStep(c) \/ ShadowEnds(c)) \/ UNCHANGED pVars
    BY <1>4, <2>6, CallsStep DEF row
  <2>. QED
    BY <1>4, <2>3, <2>4, <2>5, <2>6 DEF PNext
<1>5. ASSUME PolicyIInv, [PNext]_pVars, exists, ~enabled, enabled'
      PROVE  \E o \in Edits : /\ edit[o] = "loaded" /\ ask[o].do = "update"
                              /\ ask[o].enabled = "on" \/ o \in raced
  <2>1. enabled' # enabled
    BY <1>5
  <2>2. ~ UNCHANGED row
    BY <2>1 DEF row
  <2>3. ~ (PCrash \/ (\E c \in Calls : PickVariant(c) \/ CallStep(c) \/ ShadowEnds(c)) \/ UNCHANGED pVars)
    BY <1>5, <2>2, CallsStep
  <2>4. PICK o \in Edits : UpdateWrite(o)
    <3>1. \A p \in Edits : ~PromoteWrite(p) /\ ~RollbackWrite(p) /\ ~EditAbort(p)
      BY <2>1 DEF PromoteWrite, RollbackWrite, EditAbort, Put, row
    <3>2. \A p \in Edits, k \in Asks : ~CreatePolicy(p, k) /\ ~DeletePolicy(p, k) /\ ~LoadPolicy(p, k)
      BY <1>5, <2>1 DEF CreatePolicy, DeletePolicy, LoadPolicy, row
    <3>. QED
      BY <1>5, <2>3, <3>1, <3>2 DEF PNext
  <2>5. /\ edit[o] = "loaded" /\ ask[o].do = "update"
        /\ enabled' = Pick(ask[o].enabled, saw[o].enabled)
    BY <1>5, <2>4 DEF UpdateWrite, Put
  <2>6. o \notin raced => saw[o].enabled = enabled
    BY <1>5, <2>5 DEF PolicyIInv, Loaded, EditOK, TheRow
  <2>7. ask[o].enabled = "on" \/ o \in raced
    BY <1>5, <2>5, <2>6 DEF Pick
  <2>. QED
    BY <2>5, <2>7
<1>6. PSpec => []PolicyIInv
  BY <1>1, <1>2, PTL DEF PSpec
<1>7. PolicyIInv /\ [PNext]_pVars =>
        [\A o \in Edits :
           edit[o] = "loaded" /\ edit'[o] = "done" /\ ask[o].do = "rollback"
           /\ o \notin raced /\ before # NoVariants
           /\ exists' /\ snapshot # NoVariants /\ snapshot' = NoVariants
             => variants' = before]_pVars
  BY <1>4
<1>8. PolicyIInv /\ [PNext]_pVars =>
        [exists /\ ~enabled /\ enabled' =>
           \E o \in Edits : /\ edit[o] = "loaded" /\ ask[o].do = "update"
                            /\ ask[o].enabled = "on" \/ o \in raced]_pVars
  BY <1>5
<1>9. PSpec => RollbackUndoes
  BY <1>6, <1>7, PTL DEF PSpec, RollbackUndoes
<1>10. PSpec => StaysOff
  BY <1>6, <1>8, PTL DEF PSpec, StaysOff
<1>11. PSpec => []AlwaysPickable
  BY <1>3, <1>6, PTL
<1>. QED
  BY <1>9, <1>10, <1>11 DEF PolicyIsKept

--------------------------------------------------------------------------------
(* Chat turns.                                                               *)

Says(i, t, r) == i \in DOMAIN log /\ log[i] = Message(t, r)

\* A message is stored once; a turn stores its question first, and its answer at
\* its end.
LogInv ==
  /\ log \in Seq([turn : Turns, role : {"user", "assistant"}])
  /\ \A i, j \in DOMAIN log : log[i] = log[j] => i = j
  /\ \A i \in DOMAIN log :
       /\ log[i].role = "user" => tAt[log[i].turn] \notin {"idle", "ask"}
       /\ log[i].role = "assistant" => tAt[log[i].turn] \in {"trace", "done"}
  /\ \A t \in Turns, i, j \in DOMAIN log : Says(i, t, "user") /\ Says(j, t, "assistant") => i < j

\* What a turn has not stored is excused.
StoredInv ==
  \A t \in Turns \ excused :
    /\ tAt[t] \notin {"idle", "ask"} => Has(t, "user")
    /\ tAt[t] \in {"trace", "done"} => Has(t, "assistant")

\* A turn that has overlapped no other is alone while it runs, and whatever is
\* asked after its question is asked after its end.
AloneInv ==
  \A t \in Turns \ overlapped :
    /\ InTurn(t) => \A o \in Turns : InTurn(o) => o = t
    /\ \A i, j \in DOMAIN log : Says(i, t, "user") /\ log[j].role = "user" /\ i < j =>
         /\ tAt[t] = "done"
         /\ \A k \in DOMAIN log : Says(k, t, "assistant") => k < j

TurnShape ==
  /\ tAt \in [Turns -> {"idle", "ask", "retrieve", "decide", "stream", "answer", "trace", "done"}]
  /\ memory \in [Turns -> SUBSET Turns] /\ overlapped \subseteq Turns
  /\ \A t \in rated : t \in Turns /\ tAt[t] = "done" /\ Has(t, "assistant")

ChatIInv == TurnShape /\ LogInv /\ StoredInv /\ AloneInv /\ QuestionIsShownOnce

\* The messages of a session are messages of its turns.
LEMMA MessageOf ==
  ASSUME LogInv, NEW i \in DOMAIN log
  PROVE  log[i] \in [turn : Turns, role : {"user", "assistant"}] /\ log[i].turn \in Turns
<1> DEFINE M == [turn : Turns, role : {"user", "assistant"}]
<1>1. log \in Seq(M)
  BY DEF LogInv
<1> HIDE DEF M
<1>2. log[i] \in M
  BY <1>1
<1>. QED
  BY <1>2 DEF M

\* A step that stores nothing and takes turns on, or cuts them off and excuses
\* them, keeps the messages paired.
LEMMA QuietStep ==
  ASSUME ChatIInv, UNCHANGED log,
         tAt' \in [Turns -> {"idle", "ask", "retrieve", "decide", "stream", "answer", "trace", "done"}],
         \A t \in Turns : \/ tAt'[t] = tAt[t]
                          \/ tAt[t] \in {"retrieve", "decide", "stream"} /\ tAt'[t] \in {"decide", "stream", "answer"}
                          \/ tAt[t] \notin {"idle", "done"} /\ tAt'[t] = "done" /\ (tAt[t] = "trace" \/ t \in excused'),
         excused \subseteq excused', UNCHANGED overlapped,
         \A t \in rated' : t \in rated \/ (t \in Turns /\ tAt[t] = "done" /\ Has(t, "assistant")),
         memory' \in [Turns -> SUBSET Turns], \A t \in Turns : memory'[t] \subseteq memory[t]
  PROVE  ChatIInv'
<1>1. TurnShape /\ LogInv /\ StoredInv /\ AloneInv /\ QuestionIsShownOnce
  BY DEF ChatIInv
<1>2. \A t, r : Has(t, r)' <=> Has(t, r)
  BY DEF Has, Message
<1>3. \A i, t, r : Says(i, t, r)' <=> Says(i, t, r)
  BY DEF Says, Message
<1>4. TurnShape'
  BY <1>1, <1>2 DEF TurnShape
<1>5. LogInv'
  <2>1. \A i \in DOMAIN log : log[i].turn \in Turns
    BY <1>1, MessageOf
  <2>. QED
    BY <1>1, <1>3, <2>1 DEF LogInv
<1>6. StoredInv'
  BY <1>1, <1>2 DEF StoredInv
<1>7. AloneInv'
  <2>1. \A t \in Turns : InTurn(t)' => InTurn(t)
    BY DEF InTurn
  <2>. QED
    BY <1>1, <1>3, <2>1 DEF AloneInv
<1>8. QuestionIsShownOnce'
  BY <1>1 DEF QuestionIsShownOnce
<1>. QED
  BY <1>4, <1>5, <1>6, <1>7, <1>8 DEF ChatIInv

\* A turn begins: the memory it is shown holds nothing of its own, since nothing
\* of it is stored.
LEMMA BeginStep ==
  ASSUME ChatIInv, NEW t \in Turns, NEW k, TurnBegin(t, k)
  PROVE  ChatIInv'
<1>1. TurnShape /\ LogInv /\ StoredInv /\ AloneInv /\ QuestionIsShownOnce
  BY DEF ChatIInv
<1>2. /\ tAt[t] = "idle" /\ tAt' = [tAt EXCEPT ![t] = "ask"]
      /\ UNCHANGED <<log, rated, excused>>
  BY DEF TurnBegin, TGoto
<1>3. \A u, r : Has(u, r)' <=> Has(u, r)
  BY <1>2 DEF Has, Message
<1>4. \A i, u, r : Says(i, u, r)' <=> Says(i, u, r)
  BY <1>2 DEF Says, Message
<1>5. Recent \subseteq Turns \ {t}
  <2>1. ASSUME NEW i \in DOMAIN log PROVE log[i].turn \in Turns /\ log[i].turn # t
    BY <1>1, <1>2, MessageOf DEF LogInv
  <2>. QED
    BY <2>1 DEF Recent
<1>6. memory' \in [Turns -> SUBSET Turns] /\ \A u \in Turns : u \notin memory'[u]
  BY <1>1, <1>5 DEF TurnBegin, TurnShape, QuestionIsShownOnce
<1>7. TurnShape'
  <2>1. overlapped' \subseteq Turns
    BY <1>1 DEF TurnBegin, TurnShape
  <2>. QED
    BY <1>1, <1>2, <1>3, <1>6, <2>1 DEF TurnShape
<1>8. LogInv'
  <2>1. \A i \in DOMAIN log : log[i].turn \in Turns
    BY <1>1, MessageOf
  <2>. QED
    BY <1>1, <1>2, <1>4, <2>1 DEF LogInv, TurnShape
<1>9. StoredInv'
  BY <1>1, <1>2, <1>3 DEF StoredInv, TurnShape
<1>10. AloneInv'
  <2>1. /\ overlapped \subseteq overlapped'
        /\ (\E o \in Turns : InTurn(o)) => {t} \cup {o \in Turns : InTurn(o)} \subseteq overlapped'
    BY DEF TurnBegin
  <2>2. \A o \in Turns : InTurn(o)' <=> InTurn(o) \/ o = t
    BY <1>1, <1>2 DEF InTurn, TurnShape
  <2>3. ASSUME NEW u \in Turns \ overlapped', InTurn(u)', NEW o \in Turns, InTurn(o)' PROVE o = u
    BY <2>1, <2>2, <2>3
  <2>4. ASSUME NEW u \in Turns \ overlapped', NEW i \in DOMAIN log, NEW j \in DOMAIN log,
               Says(i, u, "user"), log[j].role = "user", i < j
        PROVE  /\ tAt'[u] = "done" /\ \A n \in DOMAIN log : Says(n, u, "assistant") => n < j
    BY <1>1, <1>2, <2>1, <2>4 DEF AloneInv, TurnShape
  <2>5. log' = log
    BY <1>2
  <2>. QED
    BY <1>4, <2>3, <2>4, <2>5 DEF AloneInv
<1>. QED
  BY <1>6, <1>7, <1>8, <1>9, <1>10 DEF ChatIInv, QuestionIsShownOnce

\* A message is stored, at the stage that is for it, or its turn is excused.
LEMMA StoreStep ==
  ASSUME ChatIInv, NEW t \in Turns, StoreQuestion(t) \/ StoreAnswer(t)
  PROVE  ChatIInv'
<1>1. TurnShape /\ LogInv /\ StoredInv /\ AloneInv /\ QuestionIsShownOnce
  BY DEF ChatIInv
<1>2. PICK r \in {"user", "assistant"} :
        /\ Insert(t, r) /\ UNCHANGED <<memory, rated, overlapped>>
        /\ r = "user" => tAt[t] = "ask" /\ tAt' = [tAt EXCEPT ![t] = "retrieve"]
        /\ r = "assistant" => tAt[t] = "answer" /\ tAt' = [tAt EXCEPT ![t] = "trace"]
  BY DEF StoreQuestion, StoreAnswer, TGoto
<1>3. \A u \in Turns : InTurn(u)' <=> InTurn(u)
  BY <1>1, <1>2 DEF InTurn, TurnShape
<1>4. InTurn(t) /\ \A u \in Turns : u # t => tAt'[u] = tAt[u]
  BY <1>1, <1>2 DEF InTurn, TurnShape
<1>5. CASE excused' = excused \cup {t} /\ UNCHANGED log
  <2>1. \A u, s : Has(u, s)' <=> Has(u, s)
    BY <1>5 DEF Has, Message
  <2>2. \A i, u, s : Says(i, u, s)' <=> Says(i, u, s)
    BY <1>5 DEF Says, Message
  <2>3. TurnShape'
    BY <1>1, <1>2, <2>1 DEF TurnShape
  <2>4. LogInv'
    <3>1. \A i \in DOMAIN log : log[i].turn \in Turns
      BY <1>1, MessageOf
    <3>2. \A u \in Turns : /\ tAt[u] \notin {"idle", "ask"} => tAt'[u] \notin {"idle", "ask"}
                           /\ tAt[u] \in {"trace", "done"} => tAt'[u] \in {"trace", "done"}
      BY <1>1, <1>2 DEF TurnShape
    <3>. QED
      BY <1>1, <1>5, <2>2, <3>1, <3>2 DEF LogInv
  <2>5. StoredInv'
    BY <1>1, <1>4, <1>5, <2>1 DEF StoredInv
  <2>6. AloneInv'
    <3>1. \A u \in Turns : tAt[u] = "done" => tAt'[u] = "done"
      BY <1>1, <1>2 DEF TurnShape
    <3>. QED
      BY <1>1, <1>2, <1>3, <1>5, <2>2, <3>1 DEF AloneInv
  <2>. QED
    BY <1>1, <1>2, <2>3, <2>4, <2>5, <2>6 DEF ChatIInv, QuestionIsShownOnce
<1>6. CASE log' = Append(log, Message(t, r)) /\ UNCHANGED excused
  <2> DEFINE n == Len(log) + 1
  <2>1. /\ Message(t, r) \in [turn : Turns, role : {"user", "assistant"}]
        /\ Message(t, r).turn = t /\ Message(t, r).role = r
    BY DEF Message
  <2>2. /\ log' \in Seq([turn : Turns, role : {"user", "assistant"}])
        /\ n \in Nat /\ DOMAIN log = 1..(n - 1) /\ DOMAIN log' = 1..n
        /\ \A i \in DOMAIN log : log'[i] = log[i] /\ log[i].turn \in Turns
        /\ log'[n] = Message(t, r)
    <3> DEFINE M == [turn : Turns, role : {"user", "assistant"}]
    <3>1. log \in Seq(M) /\ Message(t, r) \in M
      BY <1>1, <2>1 DEF LogInv
    <3> HIDE DEF M
    <3>2. log' \in Seq(M) /\ n \in Nat /\ DOMAIN log = 1..(n - 1) /\ DOMAIN log' = 1..n
      BY <1>6, <3>1
    <3>3. (\A i \in DOMAIN log : log'[i] = log[i]) /\ log'[n] = Message(t, r)
      BY <1>6, <3>1
    <3>. QED
      BY <1>1, <3>2, <3>3, MessageOf DEF M
  <2>3. \A i \in DOMAIN log : log[i] # Message(t, r)
    BY <1>1, <1>2, <2>1 DEF LogInv
  <2>4. \A u \in Turns, s \in {"user", "assistant"} : Has(u, s)' <=> Has(u, s) \/ (u = t /\ s = r)
    BY <2>2 DEF Has, Message
  <2>5. TurnShape'
    BY <1>1, <1>2, <1>4, <2>4 DEF TurnShape
  <2>6. StoredInv'
    BY <1>1, <1>2, <1>4, <1>6, <2>4 DEF StoredInv, TurnShape
  <2>7. \A i \in DOMAIN log : /\ log[i].role = "user" => tAt'[log[i].turn] \notin {"idle", "ask"}
                              /\ log[i].role = "assistant" => tAt'[log[i].turn] \in {"trace", "done"}
    BY <1>1, <1>2, <1>4, <2>2 DEF LogInv, TurnShape
  <2>8. /\ r = "user" => tAt'[t] \notin {"idle", "ask"}
        /\ r = "assistant" => tAt'[t] \in {"trace", "done"}
    BY <1>1, <1>2 DEF TurnShape
  <2>9. \A u \in Turns, i, j \in DOMAIN log' :
          log'[i] = Message(u, "user") /\ log'[j] = Message(u, "assistant") => i < j
    <3>1. SUFFICES ASSUME NEW u \in Turns, NEW i \in DOMAIN log', NEW j \in DOMAIN log',
                          log'[i] = Message(u, "user"), log'[j] = Message(u, "assistant")
                   PROVE  i < j
      OBVIOUS
    <3>2. CASE i \in DOMAIN log /\ j \in DOMAIN log
      BY <1>1, <2>2, <3>1, <3>2 DEF LogInv, Says
    <3>3. CASE i \in DOMAIN log /\ j = n
      BY <2>2, <3>3
    <3>4. CASE i = n
      <4>1. r = "user" /\ u = t /\ j \in DOMAIN log
        BY <2>2, <3>1, <3>4 DEF Message
      <4>2. log[j].role = "assistant" /\ log[j].turn = t
        BY <2>2, <3>1, <4>1 DEF Message
      <4>. QED
        BY <1>1, <1>2, <4>1, <4>2 DEF LogInv
    <3>. QED
      BY <2>2, <3>2, <3>3, <3>4
  <2>10. LogInv'
    <3>1. \A i, j \in DOMAIN log' : log'[i] = log'[j] => i = j
      BY <1>1, <2>2, <2>3 DEF LogInv
    <3>2. \A i \in DOMAIN log' : /\ log'[i].role = "user" => tAt'[log'[i].turn] \notin {"idle", "ask"}
                                 /\ log'[i].role = "assistant" => tAt'[log'[i].turn] \in {"trace", "done"}
      BY <2>1, <2>2, <2>7, <2>8
    <3>. QED
      BY <2>2, <2>9, <3>1, <3>2 DEF LogInv, Says, Message
  <2>11. ASSUME NEW u \in Turns \ overlapped, NEW i \in DOMAIN log', NEW j \in DOMAIN log',
                log'[i] = Message(u, "user"), log'[j].role = "user", i < j
         PROVE  tAt'[u] = "done" /\ \A k \in DOMAIN log' : log'[k] = Message(u, "assistant") => k < j
    <3>1. i \in DOMAIN log /\ log[i] = Message(u, "user")
      BY <2>2, <2>11
    <3>2. CASE j \in DOMAIN log
      <4>1. tAt[u] = "done" /\ \A k \in DOMAIN log : log[k] = Message(u, "assistant") => k < j
        BY <1>1, <2>2, <2>11, <3>1, <3>2 DEF AloneInv, Says
      <4>2. u # t
        BY <1>2, <4>1
      <4>3. log'[n] # Message(u, "assistant")
        BY <2>2, <4>2 DEF Message
      <4>. QED
        BY <1>4, <2>2, <4>1, <4>2, <4>3
    <3>3. CASE j = n
      <4>1. r = "user"
        BY <2>1, <2>2, <2>11, <3>3
      <4>2. u # t
        BY <2>3, <3>1, <4>1
      <4>3. tAt[u] \notin {"idle", "ask"}
        BY <1>1, <3>1 DEF LogInv, Message
      <4>4. ~InTurn(u)
        BY <1>1, <1>4, <4>2 DEF AloneInv
      <4>5. tAt[u] = "done"
        BY <4>3, <4>4 DEF InTurn
      <4>6. log'[n] # Message(u, "assistant")
        BY <2>2, <4>2 DEF Message
      <4>. QED
        BY <1>4, <2>2, <3>3, <4>2, <4>5, <4>6
    <3>. QED
      BY <2>2, <3>2, <3>3
  <2>12. AloneInv'
    BY <1>1, <1>2, <1>3, <2>11 DEF AloneInv, Says, Message
  <2>. QED
    BY <1>1, <1>2, <2>5, <2>6, <2>10, <2>12 DEF ChatIInv, QuestionIsShownOnce
<1>. QED
  BY <1>2, <1>5, <1>6 DEF Insert

\* The question of a rated answer is that of its turn: no other is between them.
LEMMA QuestionFound ==
  ASSUME ChatIInv, NEW t \in rated, t \notin overlapped, Has(t, "user")
  PROVE  QuestionOf(t) = {t}
<1> DEFINE answer == CHOOSE i \in DOMAIN log : log[i] = Message(t, "assistant")
           questions == {i \in DOMAIN log : i < answer /\ log[i].role = "user"}
           Latest(i) == \A j \in questions : j <= i
<1>1. TurnShape /\ LogInv /\ AloneInv /\ t \in Turns
  BY DEF ChatIInv, TurnShape
<1>2. answer \in DOMAIN log /\ log[answer] = Message(t, "assistant")
  BY <1>1 DEF TurnShape, Has
<1>3. PICK q \in DOMAIN log : log[q] = Message(t, "user")
  BY DEF Has
<1>4. DOMAIN log \subseteq Nat
  BY <1>1 DEF LogInv
<1>5. q \in questions
  BY <1>1, <1>2, <1>3 DEF LogInv, Says, Message
<1>6. \A j \in questions : j <= q
  BY <1>1, <1>2, <1>3, <1>4 DEF AloneInv, Says
<1> HIDE DEF questions, answer
<1>7. \A i \in questions : Latest(i) => i = q
  BY <1>4, <1>5, <1>6 DEF questions
<1>8. (CHOOSE i \in questions : Latest(i)) = q
  BY <1>5, <1>6, <1>7
<1>9. QuestionOf(t) = {log[CHOOSE i \in questions : Latest(i)].turn}
  BY <1>5 DEF QuestionOf, questions, answer
<1>10. log[q].turn = t
  BY <1>3 DEF Message
<1>. QED
  BY <1>8, <1>9, <1>10

\* Questions, answers and ratings of a session stay paired, whichever statements
\* fail, whoever leaves and wherever the server is restarted (chatCompletions,
\* InsertChatMessage, FeedbackDataset).
THEOREM ChatHolds == TSpec => []ChatInv
<1>1. TInit => ChatIInv
  <2>1. <<>> \in Seq([turn : Turns, role : {"user", "assistant"}]) /\ DOMAIN <<>> = {}
    OBVIOUS
  <2>. QED
    BY <2>1 DEF TInit, ChatIInv, TurnShape, LogInv, StoredInv, AloneInv, QuestionIsShownOnce, InTurn, Says
<1>2. ChatIInv /\ [TNext]_tVars => ChatIInv'
  <2>1. ASSUME ChatIInv, UNCHANGED tVars PROVE ChatIInv'
    BY <2>1, QuietStep DEF tVars, ChatIInv, TurnShape
  <2>2. ASSUME ChatIInv, NEW t \in Turns,
               Retrieve(t) \/ Decide(t) \/ Trace(t) \/ StreamEnds(t) \/ StreamBreaks(t) \/ Rate(t)
                 \/ ChatClientLeaves(t) \/ ChatCrash
        PROVE  ChatIInv'
    <3>1. tAt \in [Turns -> {"idle", "ask", "retrieve", "decide", "stream", "answer", "trace", "done"}]
          /\ memory \in [Turns -> SUBSET Turns]
      BY <2>2 DEF ChatIInv, TurnShape
    <3>2. CASE Retrieve(t) \/ Decide(t) \/ StreamEnds(t) \/ StreamBreaks(t)
      <4>1. /\ UNCHANGED <<log, memory, rated, excused, overlapped>>
            /\ tAt[t] \in {"retrieve", "decide", "stream"}
            /\ \E s \in {"decide", "stream", "answer"} : tAt' = [tAt EXCEPT ![t] = s]
        BY <3>2 DEF Retrieve, Decide, StreamEnds, StreamBreaks, TGoto
      <4>. QED
        BY <2>2, <3>1, <4>1, QuietStep
    <3>3. CASE Trace(t)
      <4>1. /\ tAt[t] = "trace" /\ UNCHANGED <<log, rated, excused, overlapped>>
            /\ tAt' = [u \in Turns |-> IF u \in {t} THEN "done" ELSE tAt[u]]
            /\ memory' = [u \in Turns |-> IF u \in {t} THEN {} ELSE memory[u]]
        BY <3>3 DEF Trace, Over
      <4>. QED
        BY <2>2, <3>1, <4>1, QuietStep
    <3>4. CASE Rate(t) \/ ChatClientLeaves(t)
      <4>1. /\ UNCHANGED <<log, tAt, memory, excused, overlapped>>
            /\ rated' = rated \/ (rated' = rated \cup {t} /\ tAt[t] = "done" /\ Has(t, "assistant"))
        BY <3>4 DEF Rate, ChatClientLeaves
      <4>. QED
        BY <2>2, <3>1, <4>1, QuietStep
    <3>5. CASE ChatCrash
      <4> DEFINE stopped == {u \in Turns : InTurn(u)}
      <4>1. /\ UNCHANGED <<log, rated, overlapped>> /\ excused' = excused \cup stopped
            /\ tAt' = [u \in Turns |-> IF u \in stopped THEN "done" ELSE tAt[u]]
            /\ memory' = [u \in Turns |-> IF u \in stopped THEN {} ELSE memory[u]]
        BY <3>5 DEF ChatCrash, Over
      <4>2. \A u \in stopped : tAt[u] \notin {"idle", "done"}
        BY DEF InTurn
      <4> HIDE DEF stopped
      <4>. QED
        BY <2>2, <3>1, <4>1, <4>2, QuietStep
    <3>. QED
      BY <2>2, <3>2, <3>3, <3>4, <3>5
  <2>3. ASSUME ChatIInv, TNext, ~ChatCrash PROVE ChatIInv'
    BY <2>2, <2>3, BeginStep, StoreStep DEF TNext, TurnStep
  <2>4. ASSUME ChatIInv, ChatCrash PROVE ChatIInv'
    BY <2>2, <2>4 DEF ChatCrash
  <2>. QED
    BY <2>1, <2>3, <2>4
<1>3. ChatIInv => ChatInv
  <2>1. ChatIInv => QuestionIsOwn
    BY QuestionFound DEF QuestionIsOwn
  <2>. QED
    BY <2>1 DEF ChatIInv, ChatInv, TurnIsAnswered, StoredInv
<1>. QED
  BY <1>1, <1>2, <1>3, PTL DEF TSpec

--------------------------------------------------------------------------------
(* A run of the diagnosis agent.                                             *)

OnlyScript == \A i \in DOMAIN asked : asked[i].by = "script"

\* The first of the tools have been called, in their order.
FirstTools ==
  /\ Len(asked) <= StubMaxTools /\ Len(asked) <= Len(Tools)
  /\ \A i \in DOMAIN asked : asked[i].tool = Tools[i]

\* The loop has rounds left when it asks, and the trace is of what was called.
LoopInv ==
  /\ DTypeOK
  /\ trace = asked
  /\ dAt \in {"idle", "ask"} => round < MaxAgentSteps
  /\ dRow.status = "none" \/ dAt = "done"
  /\ EvidenceIsComplete

\* A tool that the script asks for is the only one of its answer and has not been
\* called; when nobody else has called any, the tools are called in their order.
ScriptInv ==
  /\ \A i, j \in DOMAIN asked : i < j /\ asked[j].by = "script" => asked[i].tool # asked[j].tool
  /\ \A k \in DOMAIN todo : todo[k].by = "script" =>
       /\ dAt = "tools" => Len(todo) = 1 /\ todo[k].tool \notin Called
       /\ dAt = "tools" /\ OnlyScript =>
            Len(asked) < StubMaxTools /\ Len(asked) < Len(Tools) /\ todo[k].tool = Tools[Len(asked) + 1]
  /\ OnlyScript => FirstTools

AgentIInv == LoopInv /\ ScriptInv

\* The empty list.
LEMMA EmptyList == ASSUME NEW S PROVE <<>> \in Seq(S)
  OBVIOUS

\* Short lists.
LEMMA ShortLists ==
  ASSUME NEW S, NEW x \in S, NEW y \in S
  PROVE  /\ <<>> \in Seq(S) /\ DOMAIN <<>> = {} /\ Len(<<>>) = 0
         /\ <<x>> \in Seq(S) /\ <<x>> # <<>> /\ DOMAIN <<x>> = {1} /\ Len(<<x>>) = 1 /\ <<x>>[1] = x
         /\ <<x, y>> \in Seq(S) /\ <<x, y>> # <<>> /\ DOMAIN <<x, y>> = {1, 2}
         /\ <<x, y>>[1] = x /\ <<x, y>>[2] = y
  OBVIOUS

\* There is a first element of every set of places.
LEMMA FirstPlace ==
  ASSUME NEW n \in Nat, NEW S \in SUBSET (1..n), S # {}
  PROVE  \E i \in S : \A j \in S : i <= j
<1>1. PICK i \in S : \A j \in S : i <= j
  BY LeastNumber
<1>. QED
  BY <1>1

\* The list of the tools.
LEMMA ToolsAre ==
  /\ DOMAIN Tools = 1..Len(Tools) /\ Len(Tools) \in Nat
  /\ \A i \in DOMAIN Tools : Tools[i] \in ToSet(Tools)
  /\ \A i, j \in DOMAIN Tools : Tools[i] = Tools[j] => i = j
  /\ MaxAgentSteps \in Nat /\ MaxAgentSteps > 0 /\ StubMaxTools \in Nat /\ StubMaxTools > 0
<1> DEFINE all == ToSet(Tools)
<1>1. Tools \in Seq(all)
  BY DiagnosisAgentAssumption
<1>2. \A i \in DOMAIN Tools : Tools[i] \in all
  <2> HIDE DEF all
  <2>. QED
    BY <1>1
<1>3. DOMAIN Tools = 1..Len(Tools) /\ Len(Tools) \in Nat
  <2> HIDE DEF all
  <2>. QED
    BY <1>1
<1>. QED
  BY <1>2, <1>3, DiagnosisAgentAssumption

\* The conversation is a list of calls.
LEMMA AskedAre ==
  ASSUME AgentIInv
  PROVE  asked \in Seq(ToolCalls) /\ DOMAIN asked = 1..Len(asked) /\ Len(asked) \in Nat
<1>1. asked \in Seq(ToolCalls)
  BY DEF AgentIInv, LoopInv, DTypeOK
<1>. QED
  BY <1>1

\* As many tools have been called as there are calls, when the first tools were
\* called in their order.
LEMMA CalledAre ==
  ASSUME AgentIInv, OnlyScript
  PROVE  Cardinality(Called) = Len(asked)
<1>1. PICK n \in Nat : n = Len(asked) /\ DOMAIN asked = 1..n
  BY AskedAre
<1>2. PICK k \in Nat : k = Len(Tools) /\ DOMAIN Tools = 1..k
  BY ToolsAre
<1>3. n <= k /\ \A i \in 1..n : asked[i].tool = Tools[i]
  BY <1>1, <1>2 DEF AgentIInv, ScriptInv, FirstTools
<1> DEFINE f == [i \in 1..n |-> asked[i].tool]
<1>4. f \in Surjection(1..n, Called)
  BY <1>1 DEF Surjection, Called
<1>5. f \in Injection(1..n, Called)
  <2>1. \A i \in 1..n : i \in DOMAIN Tools /\ f[i] = Tools[i]
    BY <1>2, <1>3
  <2>. QED
    BY <1>4, <2>1, ToolsAre DEF Injection, IsInjective, Surjection
<1>6. IsFiniteSet(1..n) /\ Cardinality(1..n) = n
  BY FS_Interval
<1>. QED
  BY <1>1, <1>4, <1>5, <1>6, FS_Surjection

\* What the script asks for next.
LEMMA StubIs ==
  ASSUME AgentIInv, StubNext(Tools) # <<>>
  PROVE  \E t \in ToSet(Tools) :
           /\ StubNext(Tools) = <<t>> /\ t \notin Called
           /\ OnlyScript =>
                Len(asked) < StubMaxTools /\ Len(asked) < Len(Tools) /\ t = Tools[Len(asked) + 1]
<1>1. PICK k \in Nat : k = Len(Tools) /\ DOMAIN Tools = 1..k
  BY ToolsAre
<1>2. PICK m \in Nat : m = StubMaxTools
  BY ToolsAre
<1> DEFINE rest == {i \in DOMAIN Tools : Tools[i] \notin Called}
           least == CHOOSE i \in rest : \A j \in rest : i <= j
<1>3. /\ rest # {} /\ Cardinality(Called) < IF m < k THEN m ELSE k
      /\ StubNext(Tools) = <<Tools[least]>>
  BY <1>1, <1>2 DEF StubNext
<1>4. least \in rest /\ \A j \in rest : least <= j
  <2>1. \E i \in rest : \A j \in rest : i <= j
    BY <1>1, <1>3, FirstPlace
  <2>. QED
    BY <2>1, Zenon
<1>5. PICK e \in 1..k : e = least
  BY <1>1, <1>4
<1>6. ASSUME OnlyScript
      PROVE  Len(asked) < StubMaxTools /\ Len(asked) < Len(Tools) /\ e = Len(asked) + 1
  <2>1. PICK n \in Nat : n = Len(asked) /\ DOMAIN asked = 1..n
    BY AskedAre
  <2>2. n < m /\ n < k
    <3>1. n < IF m < k THEN m ELSE k
      BY <1>3, <1>6, <2>1, CalledAre
    <3>. QED
      BY <3>1
  <2>3. \A i \in 1..n : asked[i].tool = Tools[i]
    BY <1>6, <2>1 DEF AgentIInv, ScriptInv, FirstTools
  <2>4. \A i \in 1..n : Tools[i] \in Called
    BY <2>1, <2>3 DEF Called
  <2>5. n + 1 \in rest
    <3>1. n + 1 \in 1..k /\ \A i \in 1..n : i \in 1..k /\ i # n + 1
      BY <2>2
    <3>2. \A i \in 1..n : Tools[i] # Tools[n + 1]
      BY <1>1, <3>1, ToolsAre
    <3>3. Called = {Tools[i] : i \in 1..n}
      BY <2>1, <2>3 DEF Called
    <3>. QED
      BY <1>1, <3>1, <3>2, <3>3
  <2>6. e \notin 1..n /\ e <= n + 1
    BY <1>4, <1>5, <2>4, <2>5
  <2>7. e = n + 1
    BY <2>6
  <2>. QED
    BY <1>1, <1>2, <2>1, <2>2, <2>7
<1>7. e \in DOMAIN Tools /\ Tools[e] \notin Called
  BY <1>4, <1>5
<1>8. Tools[e] \in ToSet(Tools) /\ StubNext(Tools) = <<Tools[e]>>
  BY <1>3, <1>5, <1>7, ToolsAre
<1> HIDE DEF rest, least
<1>. QED
  BY <1>6, <1>7, <1>8

Verdicts == {"", "model", "script", "text", "outage"}

\* A call of the script, and where it leads when nobody else has called a tool.
NextByScript(c) ==
  /\ c.tool \notin Called
  /\ OnlyScript =>
       Len(asked) < StubMaxTools /\ Len(asked) < Len(Tools) /\ c.tool = Tools[Len(asked) + 1]

\* The calls of an answer: those of a model, or one of the script.
CallsOf(s) ==
  /\ s \in Seq(ToolCalls) /\ s # <<>>
  /\ \A k \in DOMAIN s : s[k].by = "script" => Len(s) = 1 /\ NextByScript(s[k])

\* Calls of a model.
LEMMA ModelCalls ==
  ASSUME NEW s \in Seq(ToolCalls), s # <<>>, \A k \in DOMAIN s : s[k].by = "model" PROVE CallsOf(s)
  BY DEF CallsOf

\* An answer concludes, or it has calls.
LEMMA AnswerIs ==
  ASSUME AgentIInv, NEW a \in Answers(Tools)
  PROVE  \/ \E v \in Verdicts \ {""} : a = Answer(<<>>, v)
         \/ \E s : CallsOf(s) /\ a = Answer(s, "")
<1>1. CASE a \in ByModel
  <2>1. CASE a \in {Answer(<<>>, "model"), Answer(<<>>, "text")}
    BY <2>1 DEF Verdicts
  <2>2. ASSUME NEW t \in ToolNames PROVE CallsOf(<<[tool |-> t, by |-> "model"]>>)
    <3> DEFINE c == [tool |-> t, by |-> "model"]
    <3>1. c \in ToolCalls /\ c.by = "model"
      BY DEF ToolCalls
    <3> HIDE DEF c
    <3>2. <<c>> \in Seq(ToolCalls) /\ <<c>> # <<>> /\ \A k \in DOMAIN <<c>> : <<c>>[k].by = "model"
      BY <3>1, ShortLists
    <3>3. CallsOf(<<c>>)
      BY <3>2, ModelCalls
    <3>. QED
      BY <3>3 DEF c
  <2>3. ASSUME NEW t \in ToolNames
        PROVE  CallsOf(<<[tool |-> t, by |-> "model"], [tool |-> Unknown, by |-> "model"]>>)
    <3> DEFINE c == [tool |-> t, by |-> "model"]
               d == [tool |-> Unknown, by |-> "model"]
    <3>1. c \in ToolCalls /\ c.by = "model" /\ d \in ToolCalls /\ d.by = "model"
      BY DEF ToolCalls, ToolNames
    <3> HIDE DEF c, d
    <3>2. <<c, d>> \in Seq(ToolCalls) /\ <<c, d>> # <<>> /\ \A k \in DOMAIN <<c, d>> : <<c, d>>[k].by = "model"
      BY <3>1, ShortLists
    <3>3. CallsOf(<<c, d>>)
      BY <3>2, ModelCalls
    <3>. QED
      BY <3>3 DEF c, d
  <2>. QED
    BY <1>1, <2>1, <2>2, <2>3, Zenon DEF ByModel
<1>2. CASE a = ByScript(Tools)
  <2>1. CASE StubNext(Tools) = <<>>
    BY <1>2, <2>1 DEF ByScript, Verdicts
  <2>2. CASE StubNext(Tools) # <<>>
    <3>1. PICK t \in ToSet(Tools) :
            /\ StubNext(Tools) = <<t>> /\ t \notin Called
            /\ OnlyScript =>
                 Len(asked) < StubMaxTools /\ Len(asked) < Len(Tools) /\ t = Tools[Len(asked) + 1]
      BY <2>2, StubIs
    <3> DEFINE c == [tool |-> t, by |-> "script"]
    <3>2. c \in ToolCalls /\ NextByScript(c)
      BY <3>1 DEF ToolCalls, ToolNames, NextByScript
    <3>3. a = Answer(<<c>>, "")
      <4>1. <<t>>[1] = t
        OBVIOUS
      <4>2. a = Answer(<<[tool |-> StubNext(Tools)[1], by |-> "script"]>>, "")
        BY <1>2, <2>2, Zenon DEF ByScript
      <4>. QED
        BY <3>1, <4>1, <4>2, Zenon
    <3> HIDE DEF c
    <3>4. CallsOf(<<c>>)
      BY <3>2, ShortLists DEF CallsOf
    <3>. QED
      BY <3>3, <3>4
  <2>. QED
    BY <2>1, <2>2
<1>3. CASE a = Answer(<<>>, "outage")
  BY <1>3 DEF Verdicts
<1>4. a \in ByModel \/ a = ByScript(Tools) \/ a = Answer(<<>>, "outage")
  <2>1. stubMode = "on" \/ stubMode = "auto" \/ stubMode = "off"
    BY DEF AgentIInv, LoopInv, DTypeOK
  <2>. QED
    BY <2>1, Zenon DEF Answers
<1>. QED
  BY <1>1, <1>2, <1>3, <1>4

\* Offered nothing, an answer has a verdict or none.
LEMMA LastAnswerIs ==
  ASSUME AgentIInv, NEW a \in Answers(<<>>) PROVE a.verdict \in Verdicts
<1> DEFINE none == <<>>
<1>1. a \in ByModel \/ a = ByScript(none) \/ a = Answer(<<>>, "outage")
  <2>1. stubMode = "on" \/ stubMode = "auto" \/ stubMode = "off"
    BY DEF AgentIInv, LoopInv, DTypeOK
  <2>. QED
    BY <2>1, Zenon DEF Answers
<1>2. \E s, v : v \in Verdicts /\ a = Answer(s, v)
  <2>1. "" \in Verdicts /\ "model" \in Verdicts /\ "text" \in Verdicts /\ "script" \in Verdicts /\ "outage" \in Verdicts
    BY DEF Verdicts
  <2>2. CASE a \in ByModel
    BY <2>1, <2>2, Zenon DEF ByModel
  <2>3. CASE a = ByScript(none)
    BY <2>1, <2>3, Zenon DEF ByScript
  <2>. QED
    BY <1>1, <2>1, <2>2, <2>3, Zenon
<1>3. PICK s, v : v \in Verdicts /\ a = Answer(s, v)
  BY <1>2
<1>. QED
  BY <1>3 DEF Answer

\* An ask is answered.
LEMMA AnswerStep ==
  ASSUME AgentIInv, AgentAsk PROVE AgentIInv'
<1>1. PICK a \in Answers(Tools) :
        /\ todo' = a.calls /\ verdict' = a.verdict
        /\ dAt' = IF a.verdict = "" THEN "tools" ELSE "store"
  BY DEF AgentAsk
<1>2. /\ dAt = "ask" /\ round' = round + 1
      /\ UNCHANGED <<stubMode, asked, trace, dRow, away, cut>>
  BY DEF AgentAsk
<1>3. /\ verdict' \in Verdicts
      /\ \/ todo' = <<>> /\ dAt' = "store"
         \/ CallsOf(todo') /\ dAt' = "tools"
  <2>1. ASSUME NEW v \in Verdicts \ {""}, a = Answer(<<>>, v)
        PROVE  todo' = <<>> /\ verdict' = v /\ dAt' = "store"
    BY <1>1, <2>1 DEF Answer
  <2>2. ASSUME NEW s, a = Answer(s, "") PROVE todo' = s /\ verdict' = "" /\ dAt' = "tools"
    BY <1>1, <2>2 DEF Answer
  <2>3. "" \in Verdicts
    BY DEF Verdicts
  <2>. QED
    <3>1. CASE \E v \in Verdicts \ {""} : a = Answer(<<>>, v)
      <4>1. PICK v \in Verdicts \ {""} : a = Answer(<<>>, v)
        BY <3>1
      <4>2. todo' = <<>> /\ verdict' = v /\ dAt' = "store" /\ v \in Verdicts
        BY <2>1, <4>1
      <4>. QED
        BY <4>2
    <3>2. CASE \E s : CallsOf(s) /\ a = Answer(s, "")
      <4>1. PICK s : CallsOf(s) /\ a = Answer(s, "")
        BY <3>2
      <4>2. todo' = s /\ verdict' = "" /\ dAt' = "tools"
        BY <2>2, <4>1
      <4>. QED
        BY <2>3, <4>1, <4>2, Zenon
    <3>. QED
      BY <3>1, <3>2, AnswerIs
<1>4. LoopInv'
  <2>1. todo' \in Seq(ToolCalls)
    BY <1>3, EmptyList, Zenon DEF CallsOf
  <2>2. round' \in 0..MaxAgentSteps
    <3>1. PICK n \in Nat : n = MaxAgentSteps
      BY ToolsAre
    <3>2. PICK r \in 0..n : r = round /\ r < n
      BY <1>2, <3>1 DEF AgentIInv, LoopInv, DTypeOK
    <3>. QED
      BY <1>2, <3>1, <3>2
  <2>. QED
    BY <1>2, <1>3, <2>1, <2>2 DEF AgentIInv, LoopInv, DTypeOK, EvidenceIsComplete, Verdicts
<1>5. Called' = Called /\ (OnlyScript <=> OnlyScript') /\ (FirstTools <=> FirstTools')
  BY <1>2 DEF Called, OnlyScript, FirstTools
<1>6. \A k \in DOMAIN todo' : todo'[k].by = "script" => Len(todo') = 1 /\ NextByScript(todo'[k])
  BY <1>3 DEF CallsOf
<1>7. ScriptInv'
  BY <1>2, <1>5, <1>6 DEF AgentIInv, ScriptInv, NextByScript
<1>. QED
  BY <1>4, <1>7 DEF AgentIInv

\* A tool is run.
LEMMA ToolStep ==
  ASSUME AgentIInv, RunTool PROVE AgentIInv'
<1>1. /\ dAt = "tools" /\ todo # <<>> /\ todo' = Tail(todo)
      /\ asked' = Append(asked, Head(todo)) /\ trace' = Append(trace, Head(todo))
      /\ dAt' \in {"tools", "ask", "forced"} /\ (dAt' = "ask" => round < MaxAgentSteps)
      /\ (dAt' = "tools" => Len(todo) > 1)
      /\ UNCHANGED <<stubMode, round, verdict, dRow, away, cut>>
  BY DEF RunTool, NextAsk
<1>2. /\ asked \in Seq(ToolCalls) /\ todo \in Seq(ToolCalls) /\ round \in 0..MaxAgentSteps
      /\ trace = asked /\ dRow.status = "none"
  BY <1>1 DEF AgentIInv, LoopInv, DTypeOK
<1>3. /\ Head(todo) = todo[1] /\ 1 \in DOMAIN todo /\ todo[1] \in ToolCalls /\ Tail(todo) \in Seq(ToolCalls)
      /\ \A k \in DOMAIN Tail(todo) : k + 1 \in DOMAIN todo /\ Tail(todo)[k] = todo[k + 1]
      /\ Len(Tail(todo)) = Len(todo) - 1 /\ Len(todo) \in Nat
  BY <1>1, <1>2
<1>4. /\ asked' \in Seq(ToolCalls) /\ Len(asked') = Len(asked) + 1 /\ Len(asked) \in Nat
      /\ DOMAIN asked = 1..Len(asked) /\ DOMAIN asked' = 1..(Len(asked) + 1)
      /\ asked'[Len(asked) + 1] = todo[1] /\ \A i \in DOMAIN asked : asked'[i] = asked[i]
  BY <1>1, <1>2, <1>3
<1>5. LoopInv'
  BY <1>1, <1>2, <1>3, <1>4 DEF AgentIInv, LoopInv, DTypeOK, EvidenceIsComplete
<1>6. \A i, j \in DOMAIN asked' : i < j /\ asked'[j].by = "script" => asked'[i].tool # asked'[j].tool
  <2>1. todo[1].by = "script" => \A i \in DOMAIN asked : asked[i].tool # todo[1].tool
    BY <1>1, <1>3 DEF AgentIInv, ScriptInv, Called
  <2>. QED
    BY <1>4, <2>1 DEF AgentIInv, ScriptInv
<1>7. \A k \in DOMAIN todo' : todo'[k].by # "script"
  BY <1>1, <1>3 DEF AgentIInv, ScriptInv
<1>8. OnlyScript' => FirstTools'
  <2>1. SUFFICES ASSUME OnlyScript' PROVE FirstTools'
    OBVIOUS
  <2>2. OnlyScript /\ todo[1].by = "script"
    BY <1>4, <2>1 DEF OnlyScript
  <2>3. FirstTools /\ Len(asked) < StubMaxTools /\ Len(asked) < Len(Tools) /\ todo[1].tool = Tools[Len(asked) + 1]
    BY <1>1, <1>3, <2>2 DEF AgentIInv, ScriptInv
  <2>4. Len(Tools) \in Nat /\ StubMaxTools \in Nat
    BY ToolsAre
  <2>. QED
    BY <1>4, <2>3, <2>4 DEF FirstTools
<1>. QED
  BY <1>5, <1>6, <1>7, <1>8 DEF AgentIInv, ScriptInv

\* The end of a run, and what may happen to it at any time.
LEMMA EndStep ==
  ASSUME AgentIInv,
         \/ AgentBegins \/ AgentAskFails \/ AgentForced \/ StoreVerdict \/ StoreFailure
         \/ AgentClientLeaves \/ AgentCrash \/ UNCHANGED dVars
  PROVE  AgentIInv'
<1>1. UNCHANGED <<asked, todo, trace, round, stubMode>> /\ (dAt' = "tools" => dAt = "tools")
  BY DEF AgentBegins, AgentAskFails, AgentForced, StoreVerdict, StoreFailure, Keep, AgentClientLeaves, AgentCrash, dVars
<1>2. Called' = Called /\ (OnlyScript <=> OnlyScript') /\ (FirstTools <=> FirstTools')
  BY <1>1 DEF Called, OnlyScript, FirstTools
<1>3. ScriptInv'
  BY <1>1, <1>2 DEF AgentIInv, ScriptInv
<1>4. verdict' \in {"", "model", "script", "text", "outage"}
  <2>1. CASE AgentForced
    <3>1. PICK a \in Answers(<<>>) : verdict' = IF a.verdict = "" THEN "text" ELSE a.verdict
      BY <2>1 DEF AgentForced
    <3>2. a.verdict \in Verdicts
      BY LastAnswerIs
    <3>. QED
      BY <3>1, <3>2 DEF Verdicts
  <2>2. CASE ~AgentForced
    BY <2>2 DEF AgentBegins, AgentAskFails, StoreVerdict, StoreFailure, Keep, AgentClientLeaves, AgentCrash,
                dVars, AgentIInv, LoopInv, DTypeOK
  <2>. QED
    BY <2>1, <2>2
<1>5. \/ dRow' = dRow
      \/ dAt' = "done" /\ dRow' = [status |-> "completed", evidence |-> trace]
      \/ dAt' = "done" /\ dRow' = [status |-> "failed", evidence |-> <<>>]
  BY DEF AgentBegins, AgentAskFails, AgentForced, StoreVerdict, StoreFailure, Keep, AgentClientLeaves, AgentCrash, dVars
<1>6. /\ dAt' \in {"idle", "ask", "tools", "forced", "store", "fail", "done"}
      /\ dAt' \in {"idle", "ask"} => dAt \in {"idle", "ask"}
      /\ dAt = "done" => dAt' = "done"
      /\ away' \in BOOLEAN /\ cut' \in BOOLEAN
  BY DEF AgentBegins, AgentAskFails, AgentForced, StoreVerdict, StoreFailure, Keep, AgentClientLeaves, AgentCrash,
         dVars, AgentIInv, LoopInv, DTypeOK
<1>7. LoopInv'
  <2>1. dRow'.status \in {"none", "failed", "completed"} /\ dRow'.evidence \in Seq(ToolCalls)
    <3> DEFINE none == <<>>
    <3>1. none \in Seq(ToolCalls)
      BY EmptyList
    <3> HIDE DEF none
    <3>2. /\ \/ dRow' = dRow
             \/ dRow' = [status |-> "completed", evidence |-> trace]
             \/ dRow' = [status |-> "failed", evidence |-> none]
          /\ trace \in Seq(ToolCalls) /\ dRow.evidence \in Seq(ToolCalls)
          /\ dRow.status \in {"none", "failed", "completed"}
      BY <1>5 DEF AgentIInv, LoopInv, DTypeOK, none
    <3>. QED
      BY <3>1, <3>2
  <2>2. dRow'.status = "none" \/ dAt' = "done"
    BY <1>5, <1>6 DEF AgentIInv, LoopInv
  <2>3. EvidenceIsComplete'
    BY <1>1, <1>5 DEF AgentIInv, LoopInv, EvidenceIsComplete
  <2>. QED
    BY <1>1, <1>4, <1>6, <2>1, <2>2, <2>3 DEF AgentIInv, LoopInv, DTypeOK
<1>. QED
  BY <1>3, <1>7 DEF AgentIInv

\* A run begins with nothing, and no step breaks the invariant.
LEMMA AgentHolds == DInit => AgentIInv
<1> SUFFICES ASSUME DInit PROVE AgentIInv
  OBVIOUS
<1>1. asked = <<>> /\ todo = <<>> /\ trace = <<>> /\ dRow.evidence = <<>> /\ dRow.status = "none"
  BY DEF DInit, NoRow
<1>2. Len(asked) = 0 /\ DOMAIN asked = {} /\ DOMAIN todo = {}
  BY <1>1
<1>3. <<>> \in Seq(ToolCalls)
  BY EmptyList
<1>4. round = 0 /\ 0 \in 0..MaxAgentSteps /\ 0 < MaxAgentSteps
  <2>1. round = 0
    BY DEF DInit
  <2>2. PICK n \in Nat : n = MaxAgentSteps /\ n > 0
    BY ToolsAre
  <2>. QED
    BY <2>1, <2>2
<1>5. LoopInv
  BY <1>1, <1>3, <1>4 DEF DInit, LoopInv, DTypeOK, EvidenceIsComplete
<1>6. ScriptInv
  BY <1>2, ToolsAre DEF ScriptInv, FirstTools
<1>. QED
  BY <1>5, <1>6 DEF AgentIInv

\* No step breaks it.
LEMMA AgentKeeps == AgentIInv /\ [DNext]_dVars => AgentIInv'
  BY AnswerStep, ToolStep, EndStep, Zenon DEF DNext, AgentStep

\* A stored diagnosis shows all that its author was shown, and the script neither
\* asks twice nor, alone, collects anything but the first of the tools; for any
\* list of distinct tools, any limits and whatever a model answers.
THEOREM DiagnosisHolds == DSpec => [](EvidenceIsComplete /\ ScriptCollectsFirst)
<1>1. AgentIInv => EvidenceIsComplete /\ ScriptCollectsFirst
  <2> SUFFICES ASSUME AgentIInv PROVE ScriptCollectsFirst
    BY DEF AgentIInv, LoopInv
  <2>1. ASSUME OnlyScript, NEW i \in 1..Len(asked) PROVE i <= StubMaxTools /\ asked[i].tool = Tools[i]
    BY <2>1, AskedAre, ToolsAre DEF AgentIInv, ScriptInv, FirstTools
  <2>2. \A i, j \in DOMAIN asked : i < j /\ asked[j].by = "script" => asked[i].tool # asked[j].tool
    BY DEF AgentIInv, ScriptInv
  <2>. QED
    BY <2>1, <2>2 DEF OnlyScript, ScriptCollectsFirst
<1>. QED
  BY <1>1, AgentHolds, AgentKeeps, PTL DEF DSpec

--------------------------------------------------------------------------------
(* The types of the four parts, and of the behaviours that MCServices explores.  *)

\* What a change has loaded of the switches of a policy is what a row can hold.
SwitchesOK == \A o \in Loaded : saw[o].enabled \in BOOLEAN /\ saw[o].shadow \in BOOLEAN

PolicyTypes == PolicyIInv /\ PTypeOK /\ SwitchesOK

\* Changes keep the types of a policy.  A list of variants to pick from is there
\* exactly with the row, for no list at all cannot be picked from.
LEMMA EditTypes ==
  ASSUME PolicyTypes, ~Valid(NoVariants), NEW o \in Edits,
         \/ UpdateWrite(o) \/ PromoteWrite(o) \/ RollbackWrite(o) \/ EditAbort(o)
         \/ \E k \in Asks : CreatePolicy(o, k) \/ DeletePolicy(o, k) \/ LoadPolicy(o, k)
  PROVE  PTypeOK' /\ SwitchesOK'
<1>1. PolicyIInv /\ PTypeOK /\ SwitchesOK /\ EditShape
  BY DEF PolicyTypes, PolicyIInv
<1>2. PolicyIInv'
  BY <1>1, WriteStep, AskStep
<1>3. UNCHANGED <<call, mirror, hungUp, sampled, lost>>
  BY DEF UpdateWrite, PromoteWrite, RollbackWrite, EditAbort, CreatePolicy, DeletePolicy, LoadPolicy, Put, calls
<1>4. exists' <=> variants' # NoVariants
  BY <1>2 DEF PolicyIInv, RowInv
<1>5. exists' \in BOOLEAN /\ enabled' \in BOOLEAN /\ shadow' \in BOOLEAN
  <2>1. CASE UpdateWrite(o)
    <3>1. saw[o].enabled \in BOOLEAN /\ saw[o].shadow \in BOOLEAN
      BY <1>1, <2>1 DEF UpdateWrite, SwitchesOK, Loaded
    <3>2. Pick(ask[o].enabled, saw[o].enabled) \in BOOLEAN /\ Pick(ask[o].shadow, saw[o].shadow) \in BOOLEAN
      BY <3>1 DEF Pick
    <3>. QED
      BY <1>1, <2>1, <3>2 DEF UpdateWrite, Put, PTypeOK
  <2>2. CASE PromoteWrite(o) \/ RollbackWrite(o)
    BY <1>1, <2>2 DEF PromoteWrite, RollbackWrite, Put, PTypeOK
  <2>3. CASE EditAbort(o) \/ \E k \in Asks : CreatePolicy(o, k) \/ DeletePolicy(o, k) \/ LoadPolicy(o, k)
    BY <1>1, <2>3 DEF EditAbort, CreatePolicy, DeletePolicy, LoadPolicy, PTypeOK, row
  <2>. QED
    BY <2>1, <2>2, <2>3
<1>6. raced' \subseteq Edits
  BY <1>1 DEF UpdateWrite, PromoteWrite, RollbackWrite, EditAbort, CreatePolicy, DeletePolicy, LoadPolicy, Put,
              Overtake, Loaded, PTypeOK
<1>7. PTypeOK'
  BY <1>1, <1>2, <1>3, <1>4, <1>5, <1>6 DEF PTypeOK, PolicyIInv, EditShape
<1>8. ASSUME NEW p \in Loaded' PROVE saw'[p].enabled \in BOOLEAN /\ saw'[p].shadow \in BOOLEAN
  <2>1. CASE \E k \in Asks : LoadPolicy(o, k)
    <3>1. /\ edit' = [edit EXCEPT ![o] = "loaded"]
          /\ saw' = [saw EXCEPT ![o] = TheRow]
      BY <2>1 DEF LoadPolicy, TheRow
    <3>2. TheRow.enabled \in BOOLEAN /\ TheRow.shadow \in BOOLEAN
      BY <1>1 DEF TheRow, PTypeOK
    <3>. QED
      BY <1>1, <1>8, <3>1, <3>2 DEF EditShape, Loaded, SwitchesOK
  <2>2. CASE ~ \E k \in Asks : LoadPolicy(o, k)
    <3>1. edit' = [edit EXCEPT ![o] = "done"] /\ saw' = [saw EXCEPT ![o] = NoVariants]
      BY <2>2 DEF UpdateWrite, PromoteWrite, RollbackWrite, EditAbort, CreatePolicy, DeletePolicy, Put, Overtake
    <3>. QED
      BY <1>1, <1>8, <3>1 DEF EditShape, Loaded, SwitchesOK
  <2>. QED
    BY <2>1, <2>2
<1>. QED
  BY <1>7, <1>8 DEF SwitchesOK

\* So do the steps of calls, and a restart.
LEMMA CallTypes ==
  ASSUME PolicyTypes, PCrash \/ (\E c \in Calls : PickVariant(c) \/ CallStep(c) \/ ShadowEnds(c)) \/ UNCHANGED pVars
  PROVE  PTypeOK' /\ SwitchesOK'
<1>1. PTypeOK /\ SwitchesOK /\ PolicyIInv /\ EditShape
  BY DEF PolicyTypes, PolicyIInv
<1>2. UNCHANGED row /\ UNCHANGED <<exists, enabled, shadow, variants>>
  BY <1>1, CallsStep DEF row
<1>3. CASE PCrash
  <2>1. edit' \in [Edits -> {"idle", "done"}] /\ raced' = {} /\ sampled' = sampled
    BY <1>1, <1>3 DEF PCrash, PTypeOK, Loaded
  <2>2. call' \in [Calls -> Stages] /\ mirror' \in [Calls -> {"none", "wanted", "running", "ended"}] /\ lost' \subseteq Calls
        /\ hungUp' = {}
    BY <1>1, <1>3 DEF PCrash, PTypeOK, Stages
  <2>. QED
    BY <1>1, <1>2, <2>1, <2>2 DEF PTypeOK, SwitchesOK, Loaded
<1>4. ASSUME NEW c \in Calls, PickVariant(c) \/ CallStep(c) \/ ShadowEnds(c) PROVE PTypeOK' /\ SwitchesOK'
  <2>1. UNCHANGED <<edit, saw, raced>>
    BY <1>4 DEF PickVariant, CallStep, ShadowEnds, Resolves, ResolveFails, Dispatch, CallerLeaves, AnswerBegins, UpstreamFails, AnswerEnds, Collect, edits
  <2>2. call' \in [Calls -> Stages] /\ mirror' \in [Calls -> {"none", "wanted", "running", "ended"}]
        /\ hungUp' \subseteq Calls /\ sampled' \subseteq Calls /\ lost' \subseteq Calls
    BY <1>1, <1>4 DEF PickVariant, CallStep, ShadowEnds, Resolves, ResolveFails, Dispatch, CallerLeaves, AnswerBegins, UpstreamFails, AnswerEnds, Collect, Sample, At, PTypeOK, Stages
  <2>. QED
    BY <1>1, <1>2, <2>1, <2>2 DEF PTypeOK, SwitchesOK, Loaded
<1>5. CASE UNCHANGED pVars
  BY <1>1, <1>5 DEF pVars, row, edits, calls, PTypeOK, SwitchesOK, Loaded
<1>. QED
  BY <1>3, <1>4, <1>5

\* Every step of a policy.
LEMMA PolicyTypesStep ==
  ASSUME PolicyTypes, ~Valid(NoVariants), [PNext]_pVars PROVE PolicyTypes'
<1>1. PolicyIInv'
  BY PolicyStep DEF PolicyTypes
<1>2. CASE \E o \in Edits : \/ UpdateWrite(o) \/ PromoteWrite(o) \/ RollbackWrite(o) \/ EditAbort(o)
                            \/ \E k \in Asks : CreatePolicy(o, k) \/ DeletePolicy(o, k) \/ LoadPolicy(o, k)
  BY <1>1, <1>2, EditTypes DEF PolicyTypes
<1>3. CASE PCrash \/ (\E c \in Calls : PickVariant(c) \/ CallStep(c) \/ ShadowEnds(c)) \/ UNCHANGED pVars
  BY <1>1, <1>3, CallTypes DEF PolicyTypes
<1>. QED
  BY <1>2, <1>3 DEF PNext

\* What a turn that is over has forgotten.
LEMMA OverTypes ==
  ASSUME TTypeOK, NEW ts, Over(ts)
  PROVE  /\ tAt' \in [Turns -> {"idle", "ask", "retrieve", "decide", "stream", "answer", "trace", "done"}]
         /\ sort' \in [Turns -> {"plain", "greeting", "sensitive"}]
         /\ memory' \in [Turns -> SUBSET Turns]
         /\ reason' \in [Turns -> {"", "greeting", "no_hit", "handoff", "endpoint"}]
         /\ text' \in [Turns -> {"", "part", "model", "fixed"}]
         /\ docs' \cup gone' \subseteq Turns
  BY DEF Over, TTypeOK

\* Every step of a turn keeps its types.
LEMMA TurnTypes ==
  ASSUME TTypeOK, NEW t \in Turns,
         \/ \E k \in {"plain", "greeting", "sensitive"} : TurnBegin(t, k)
         \/ TurnStep(t) \/ StreamEnds(t) \/ StreamBreaks(t) \/ Rate(t) \/ ChatClientLeaves(t)
  PROVE  TTypeOK'
<1>1. CASE \E k \in {"plain", "greeting", "sensitive"} : TurnBegin(t, k)
  <2>1. Recent \subseteq Turns
    <3> DEFINE M == [turn : Turns, role : {"user", "assistant"}]
    <3>1. log \in Seq(M)
      BY DEF TTypeOK
    <3>2. \A i \in DOMAIN log : log[i] \in M
      <4> HIDE DEF M
      <4>. QED
        BY <3>1
    <3>. QED
      BY <3>2 DEF Recent
  <2>2. PICK k \in {"plain", "greeting", "sensitive"} : TurnBegin(t, k)
    BY <1>1
  <2>3. \E m \in SUBSET Turns : memory' = [memory EXCEPT ![t] = m]
    <3>1. PICK m \in {Recent} \cup {x \in {{}} : Fails(t)} : memory' = [memory EXCEPT ![t] = m]
      BY <2>2 DEF TurnBegin
    <3>. QED
      BY <2>1, <3>1
  <2>4. overlapped' \subseteq Turns
    BY <2>2 DEF TurnBegin, TTypeOK
  <2>5. /\ tAt' = [tAt EXCEPT ![t] = "ask"] /\ sort' = [sort EXCEPT ![t] = k]
        /\ UNCHANGED <<log, docs, reason, text, gone, rated, traced, excused, untraced>>
    BY <2>2 DEF TurnBegin, TGoto
  <2>6. /\ tAt' \in [Turns -> {"idle", "ask", "retrieve", "decide", "stream", "answer", "trace", "done"}]
        /\ sort' \in [Turns -> {"plain", "greeting", "sensitive"}]
    BY <2>5 DEF TTypeOK
  <2>7. memory' \in [Turns -> SUBSET Turns]
    BY <2>3 DEF TTypeOK
  <2>. QED
    BY <2>4, <2>5, <2>6, <2>7 DEF TTypeOK
<1>2. CASE StoreQuestion(t) \/ StoreAnswer(t)
  <2>1. PICK r \in {"user", "assistant"} : Insert(t, r)
    BY <1>2 DEF StoreQuestion, StoreAnswer
  <2>2. log' \in Seq([turn : Turns, role : {"user", "assistant"}])
    <3> DEFINE M == [turn : Turns, role : {"user", "assistant"}]
               m == Message(t, r)
    <3>1. log \in Seq(M) /\ m \in M
      BY DEF Message, TTypeOK
    <3>2. log' = log \/ log' = Append(log, m)
      BY <2>1 DEF Insert
    <3> HIDE DEF M, m
    <3>3. log' \in Seq(M)
      BY <3>1, <3>2
    <3>. QED
      BY <3>3 DEF M
  <2>3. excused' \subseteq Turns
    BY <2>1 DEF Insert, TTypeOK
  <2>4. /\ tAt' = [tAt EXCEPT ![t] = "retrieve"] \/ tAt' = [tAt EXCEPT ![t] = "trace"]
        /\ UNCHANGED <<sort, memory, docs, reason, text, gone, rated, traced, untraced, overlapped>>
    BY <1>2 DEF StoreQuestion, StoreAnswer, TGoto
  <2>5. tAt' \in [Turns -> {"idle", "ask", "retrieve", "decide", "stream", "answer", "trace", "done"}]
    BY <2>4 DEF TTypeOK
  <2>6. docs' \cup gone' \cup rated' \cup traced' \cup excused' \cup untraced' \cup overlapped' \subseteq Turns
    BY <2>3, <2>4 DEF TTypeOK
  <2>. QED
    BY <2>2, <2>4, <2>5, <2>6 DEF TTypeOK
<1>3. CASE Retrieve(t) \/ StreamEnds(t) \/ StreamBreaks(t) \/ Rate(t) \/ ChatClientLeaves(t)
  <2>1. UNCHANGED <<log, sort, memory, traced, excused, untraced, overlapped>>
    BY <1>3 DEF Retrieve, StreamEnds, StreamBreaks, Rate, ChatClientLeaves
  <2>2. \/ tAt' = tAt
        \/ \E s \in {"decide", "answer"} : tAt' = [tAt EXCEPT ![t] = s]
    BY <1>3 DEF Retrieve, StreamEnds, StreamBreaks, Rate, ChatClientLeaves, TGoto
  <2>3. tAt' \in [Turns -> {"idle", "ask", "retrieve", "decide", "stream", "answer", "trace", "done"}]
    BY <2>2 DEF TTypeOK
  <2>4. reason' = reason \/ reason' = [reason EXCEPT ![t] = "endpoint"]
    BY <1>3 DEF Retrieve, StreamEnds, StreamBreaks, Rate, ChatClientLeaves
  <2>5. reason' \in [Turns -> {"", "greeting", "no_hit", "handoff", "endpoint"}]
    BY <2>4 DEF TTypeOK
  <2>6. text' = text \/ \E x \in {"", "model", "part", "fixed"} : text' = [text EXCEPT ![t] = x]
    BY <1>3 DEF Retrieve, StreamEnds, StreamBreaks, Rate, ChatClientLeaves
  <2>7. text' \in [Turns -> {"", "part", "model", "fixed"}]
    BY <2>6 DEF TTypeOK
  <2>8. docs' \cup gone' \cup rated' \subseteq docs \cup gone \cup rated \cup {t}
    BY <1>3 DEF Retrieve, StreamEnds, StreamBreaks, Rate, ChatClientLeaves
  <2>9. docs' \cup gone' \cup rated' \cup traced' \cup excused' \cup untraced' \cup overlapped' \subseteq Turns
    BY <2>1, <2>8 DEF TTypeOK
  <2>. QED
    BY <2>1, <2>3, <2>5, <2>7, <2>9 DEF TTypeOK
<1>4. CASE Decide(t)
  <2>1. FallbackOf(t) \in {"", "greeting", "no_hit", "handoff"}
    BY Zenon DEF FallbackOf
  <2>. QED
    BY <1>4, <2>1 DEF Decide, TGoto, TTypeOK
<1>5. CASE Trace(t)
  <2>1. UNCHANGED <<log, rated, excused, overlapped>> /\ traced' \cup untraced' \subseteq Turns
    BY <1>5 DEF Trace, TTypeOK
  <2> DEFINE this == {t}
  <2>2. Over(this)
    BY <1>5, Zenon DEF Trace
  <2> HIDE DEF this
  <2>3. /\ tAt' \in [Turns -> {"idle", "ask", "retrieve", "decide", "stream", "answer", "trace", "done"}]
        /\ sort' \in [Turns -> {"plain", "greeting", "sensitive"}] /\ memory' \in [Turns -> SUBSET Turns]
        /\ reason' \in [Turns -> {"", "greeting", "no_hit", "handoff", "endpoint"}]
        /\ text' \in [Turns -> {"", "part", "model", "fixed"}] /\ docs' \cup gone' \subseteq Turns
    BY <2>2, OverTypes
  <2>4. /\ log' \in Seq([turn : Turns, role : {"user", "assistant"}])
        /\ rated' \cup traced' \cup excused' \cup untraced' \cup overlapped' \subseteq Turns
    BY <2>1 DEF TTypeOK
  <2>. QED
    BY <2>3, <2>4 DEF TTypeOK
<1>. QED
  BY <1>1, <1>2, <1>3, <1>4, <1>5 DEF TurnStep

\* So do a restart and a step that changes nothing.
LEMMA ChatTypesStep == ASSUME TTypeOK, [TNext]_tVars PROVE TTypeOK'
<1>1. CASE ChatCrash
  <2> DEFINE under == {u \in Turns : InTurn(u)}
  <2>1. /\ Over(under) /\ excused' = excused \cup under /\ untraced' = untraced \cup under
        /\ UNCHANGED <<log, rated, traced, overlapped>>
    BY <1>1 DEF ChatCrash
  <2>2. under \subseteq Turns
    OBVIOUS
  <2> HIDE DEF under
  <2>3. docs' \cup gone' \cup rated' \cup traced' \cup excused' \cup untraced' \cup overlapped' \subseteq Turns
    BY <2>1, <2>2, OverTypes DEF TTypeOK
  <2>. QED
    BY <2>1, <2>3, OverTypes DEF TTypeOK
<1>2. CASE UNCHANGED tVars
  BY <1>2 DEF tVars, TTypeOK
<1>. QED
  BY <1>1, <1>2, TurnTypes DEF TNext

AllTypes == GTypeOK /\ PolicyTypes /\ TTypeOK /\ AgentIInv

\* What the behaviours of MCServices begin with.
LEMMA ServicesBegin == ASSUME ~Valid(NoVariants), Init PROVE AllTypes
<1>1. GInit /\ PInit /\ TInit /\ DInit
  BY DEF Init
<1>2. GTypeOK
  BY <1>1 DEF GInit, GTypeOK
<1>3. PolicyTypes
  <2>1. PolicyIInv
    BY <1>1, PolicyBegins
  <2>2. Loaded = {}
    BY <1>1 DEF PInit, Loaded
  <2>3. PTypeOK
    BY <1>1 DEF PInit, PTypeOK, Stages
  <2>. QED
    BY <2>1, <2>2, <2>3 DEF PolicyTypes, SwitchesOK
<1>4. TTypeOK
  <2>1. log \in Seq([turn : Turns, role : {"user", "assistant"}])
    BY <1>1, EmptyList DEF TInit
  <2>2. /\ tAt \in [Turns -> {"idle"}] /\ sort \in [Turns -> {"plain"}]
        /\ memory \in [Turns -> {{}}] /\ reason \in [Turns -> {""}] /\ text \in [Turns -> {""}]
        /\ docs \cup gone \cup rated \cup traced \cup excused \cup untraced \cup overlapped = {}
    BY <1>1 DEF TInit
  <2>. QED
    BY <2>1, <2>2 DEF TTypeOK
<1>. QED
  BY <1>1, <1>2, <1>3, <1>4, AgentHolds DEF AllTypes

\* A step is a step of one part and leaves the others alone.
LEMMA StepOfAPart ==
  ASSUME [Next]_allVars PROVE [GNext]_gVars /\ [PNext]_pVars /\ [TNext]_tVars /\ [DNext]_dVars
<1>1. CASE Registry(GNext)
  BY <1>1 DEF Registry
<1>2. CASE Router(PNext)
  BY <1>2 DEF Router
<1>3. CASE Chats(TNext)
  BY <1>3 DEF Chats
<1>4. CASE Agent(DNext)
  BY <1>4 DEF Agent
<1>5. CASE UNCHANGED allVars
  BY <1>5 DEF allVars
<1>. QED
  BY <1>1, <1>2, <1>3, <1>4, <1>5 DEF Next

\* The variables of the registry, of the router, of chat turns and of the
\* diagnosis agent keep their types; NoVariants stands for the absence of a list
\* and cannot be picked from.
THEOREM ServicesKeepTypes == ASSUME ~Valid(NoVariants) PROVE Spec => []TypeOK
<1>1. Init => AllTypes
  BY ServicesBegin
<1>2. AllTypes /\ [Next]_allVars => AllTypes'
  BY StepOfAPart, RegistryStep, PolicyTypesStep, ChatTypesStep, AgentKeeps DEF AllTypes
<1>3. AllTypes => TypeOK
  BY DEF AllTypes, PolicyTypes, AgentIInv, LoopInv, TypeOK
<1>. QED
  BY <1>1, <1>2, <1>3, PTL DEF Spec

\* The behaviours of MCServices are behaviours of each part, so that all that is
\* proved of the parts is true of them: rows are registered, policies are kept,
\* questions and answers stay paired and diagnoses show their evidence.
THEOREM PartsHold ==
  Spec => /\ RowsAreRegistered /\ PolicyIsKept
          /\ []ChatInv /\ [](EvidenceIsComplete /\ ScriptCollectsFirst)
<1>1. Init => GInit /\ PInit /\ TInit /\ DInit
  BY DEF Init
<1>2. [Next]_allVars => [GNext]_gVars /\ [PNext]_pVars /\ [TNext]_tVars /\ [DNext]_dVars
  BY StepOfAPart
<1>3. Spec => GSpec /\ PSpec /\ TSpec /\ DSpec
  BY <1>1, <1>2, PTL DEF Spec, GSpec, PSpec, TSpec, DSpec
<1>4. Spec => RowsAreRegistered
  BY <1>3, RegistrationHolds
<1>. QED
  BY <1>3, <1>4, PolicyHolds, ChatHolds, DiagnosisHolds
================================================================================
