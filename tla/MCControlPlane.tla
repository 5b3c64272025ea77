---------------------------- MODULE MCControlPlane -----------------------------
(* Small instances of nine parts of the platform that neither call one another   *)
(* nor share a table.  A behaviour takes the steps of one part, so that a run    *)
(* explores each of them alone instead of their product.                         *)
EXTENDS ConfigCenter, Incidents, Archiver, Endpoints, ResponseCache,
        TokenBucket, Knowledge, ModelRegistry, AgentContainer, TLC

CONSTANTS tx1, tx2, tx3, v1, i1, i2, i3, w1, q1, q2, s1, s2, gw, rr, direct, ta,
          tb, p1, p2, a1, a2, a3, k1, g1, g2, h1, h2, h3, b1, o1, m1, u1, u2,
          va, vb, vc, r1, r2, r3, f1, l1, l2, d1, d2,
          Parts   \* the parts a run explores

AboutW1       == q1 :> w1 @@ q2 :> w1
CandidateList == <<gw, rr, direct>>
TargetList    == <<ta, tb>>
SomeKeys      == a1 :> k1 @@ a2 :> k1 @@ a3 :> NoKey
BenchList     == <<b1>>
OtherList     == <<o1>>
WantOwn       == s1 :> l1 @@ s2 :> l2

VARIABLE part

ledgerVars == <<cVars, iVars, aVars>>
requestVars == <<eVars, hVars, kVars>>
storeVars == <<kbVars, mVars, slotVars>>
allVars == <<part, ledgerVars, requestVars, storeVars>>

Init ==
  /\ part \in Parts
  /\ CInit /\ IInit /\ AInit
  /\ EInit /\ HInit /\ KInit
  /\ KbInit /\ MInit /\ SlotInit
  /\ part # "endpoints" => \A n \in EndpointNames : state[n] = "up"

LedgerStep ==
  /\ UNCHANGED <<part, requestVars, storeVars>>
  /\ \/ part = "config" /\ CNext /\ UNCHANGED <<iVars, aVars>>
     \/ part = "incidents" /\ INext /\ UNCHANGED <<cVars, aVars>>
     \/ part = "archiver" /\ ANext /\ UNCHANGED <<cVars, iVars>>

RequestStep ==
  /\ UNCHANGED <<part, ledgerVars, storeVars>>
  /\ \/ part = "endpoints" /\ ENext /\ UNCHANGED <<hVars, kVars>>
     \/ part = "cache" /\ HNext /\ UNCHANGED <<eVars, kVars>>
     \/ part = "bucket" /\ KNext /\ UNCHANGED <<eVars, hVars>>

StoreStep ==
  /\ UNCHANGED <<part, ledgerVars, requestVars>>
  /\ \/ part = "knowledge" /\ KbNext /\ UNCHANGED <<mVars, slotVars>>
     \/ part = "models" /\ MNext /\ UNCHANGED <<kbVars, slotVars>>
     \/ part = "container" /\ SlotNext /\ UNCHANGED <<kbVars, mVars>>

Next == LedgerStep \/ RequestStep \/ StoreStep

Spec == Init /\ [][Next]_allVars

\* The variables of every part keep their types.
TypeOK ==
  /\ CTypeOK /\ ITypeOK /\ ATypeOK
  /\ ETypeOK /\ HTypeOK /\ KTypeOK
  /\ KbTypeOK /\ MTypeOK /\ SlotTypeOK
================================================================================
