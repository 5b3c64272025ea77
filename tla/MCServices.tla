--------------------------------- MODULE MCServices ---------------------------------
(* Small instances of four parts whose goroutines and handlers must get to an    *)
(* end: the service registry with its probes, routed calls, chat turns and the   *)
(* diagnosis loop.  They neither call one another nor share a table, and a       *)
(* behaviour takes the steps of one of them.                                     *)
EXTENDS ServiceRegistry, Routing, Chat, DiagnosisAgent, TLC

CONSTANTS n1, n2, la, lb, o1, o2, o3, o4, c1, t1, t2, m1, m2, m3,
          Parts   \* the parts a run explores

ToolList == <<m1, m2, m3>>

\* What operators ask of the routing policies: two variants, one, and none that
\* can be picked.
TwoVariants == la :> 1 @@ lb :> 2
AskSet ==
  {[do |-> "create", variants |-> TwoVariants, enabled |-> "on", shadow |-> "on"],
   [do |-> "update", variants |-> NoVariants, enabled |-> "off", shadow |-> "on"],
   [do |-> "update", variants |-> la :> 1, enabled |-> "as is", shadow |-> "as is"],
   [do |-> "update", variants |-> TwoVariants, enabled |-> "on", shadow |-> "on"],
   [do |-> "update", variants |-> la :> 0 @@ lb :> 0, enabled |-> "on", shadow |-> "on"],
   [do |-> "promote", label |-> lb],
   [do |-> "rollback"], [do |-> "delete"]}

VARIABLE part

allVars == <<part, gVars, pVars, tVars, dVars>>

Init ==
  /\ part \in Parts
  /\ GInit /\ PInit /\ TInit /\ DInit
  /\ part # "agent" => stubMode = "auto"

Registry(A) == part = "registry" /\ A /\ UNCHANGED <<part, pVars, tVars, dVars>>
Router(A)   == part = "routing" /\ A /\ UNCHANGED <<part, gVars, tVars, dVars>>
Chats(A)    == part = "chat" /\ A /\ UNCHANGED <<part, gVars, pVars, dVars>>
Agent(A)    == part = "agent" /\ A /\ UNCHANGED <<part, gVars, pVars, tVars>>

Next == Registry(GNext) \/ Router(PNext) \/ Chats(TNext) \/ Agent(DNext)

\* The reaper's ticker fires, instances send their heartbeats and probes end by
\* their timeouts; handlers run on; an upstream call or a stream ends when its
\* client has left, and the client does leave in the end.
Fairness ==
  /\ WF_allVars(Registry(Sweep))
  /\ \A n \in Instances :
       /\ WF_allVars(Registry(TtlPasses(n))) /\ WF_allVars(Registry(Heartbeat(n)))
       /\ WF_allVars(Registry(ProbeAnswer(n))) /\ WF_allVars(Registry(ProbePersist(n)))
  /\ \A c \in Calls :
       /\ WF_allVars(Router(Resolves(c))) /\ WF_allVars(Router(Collect(c)))
       /\ WF_allVars(Router(call[c] \in {"calling", "streaming"} /\ CallerLeaves(c)))
       /\ WF_allVars(Router(CutOff(c)))
  /\ \A t \in Turns :
       /\ WF_allVars(Chats(TurnStep(t)))
       /\ WF_allVars(Chats(t \in gone /\ StreamBreaks(t)))
       /\ WF_allVars(Chats(tAt[t] = "stream" /\ ChatClientLeaves(t)))
  /\ WF_allVars(Agent(AgentStep))

Spec == Init /\ [][Next]_allVars /\ Fairness

\* The variables of every part keep their types.
TypeOK == GTypeOK /\ PTypeOK /\ TTypeOK /\ DTypeOK
================================================================================
