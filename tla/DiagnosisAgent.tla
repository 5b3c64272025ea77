---------------------------- MODULE DiagnosisAgent ----------------------------
(***************************************************************************)
(* One run of the diagnosis agent: the loop of httpx/diagnose_agent.go and *)
(* the steps that aiservice/agent.py answers it with.                      *)
(*                                                                         *)
(* Go keeps the conversation and runs the tools; the AI service answers    *)
(* each ask with tool calls, a verdict or plain text, by a model or by a   *)
(* script that reads the conversation to see what has been called.         *)
(***************************************************************************)
EXTENDS Naturals, FiniteSets, Sequences, SequencesExt

CONSTANTS
  Tools,          \* the tools in the order of agentTools
  Unknown,        \* a name that no tool has
  MaxAgentSteps,
  StubMaxTools,   \* STUB_MAX_TOOLS
  AgentFaults     \* which of "llm", "service", "db", "leaves", "crash" may strike

\* agentTools names each tool once.
ASSUME DiagnosisAgentAssumption ==
  /\ MaxAgentSteps \in Nat \ {0} /\ StubMaxTools \in Nat \ {0}
  /\ Tools \in Seq(ToSet(Tools)) /\ \A i, j \in DOMAIN Tools : Tools[i] = Tools[j] => i = j

VARIABLES
  dAt,        \* "idle", "ask", "tools", "forced", "store", "fail" or "done"
  stubMode,   \* the configuration of the AI service: "on", "auto" or "off"
  round,      \* asks of the loop that have been answered
  asked,      \* tool messages of the conversation
  todo,       \* calls of the last answer still to run, by whom
  trace,      \* the trace of the run
  verdict,    \* who has concluded: "", "model", "script", "text" or "outage"
  dRow,       \* the diagnosis stored: its status and evidence
  away,       \* the client has left
  cut         \* history: a statement failed or the server was restarted

dVars == <<dAt, stubMode, round, asked, todo, trace, verdict, dRow, away, cut>>

NoRow == [status |-> "none", evidence |-> <<>>]
ToolNames == ToSet(Tools) \cup {Unknown}
ToolCalls == [tool : ToolNames, by : {"model", "script"}]

DTypeOK ==
  /\ dAt \in {"idle", "ask", "tools", "forced", "store", "fail", "done"}
  /\ stubMode \in {"on", "auto", "off"} /\ round \in 0..MaxAgentSteps
  /\ asked \in Seq(ToolCalls) /\ todo \in Seq(ToolCalls) /\ trace \in Seq(ToolCalls)
  /\ verdict \in {"", "model", "script", "text", "outage"}
  /\ dRow.status \in {"none", "failed", "completed"} /\ dRow.evidence \in Seq(ToolCalls)
  /\ away \in BOOLEAN /\ cut \in BOOLEAN

DInit ==
  /\ dAt = "idle" /\ stubMode \in {"on", "auto", "off"} /\ round = 0
  /\ asked = <<>> /\ todo = <<>> /\ trace = <<>> /\ verdict = "" /\ dRow = NoRow
  /\ away = FALSE /\ cut = FALSE

--------------------------------------------------------------------------------
(* What the AI service answers *)

Called == {asked[i].tool : i \in DOMAIN asked}

\* _stub_step: the first tool offered that is not in the conversation, a few of
\* them, then the verdict.
StubNext(offered) ==
  LET few == IF StubMaxTools < Len(offered) THEN StubMaxTools ELSE Len(offered)
      rest == {i \in DOMAIN offered : offered[i] \notin Called}
  IN IF rest # {} /\ Cardinality(Called) < few
     THEN <<offered[CHOOSE i \in rest : \A j \in rest : i <= j]>> ELSE <<>>

Answer(calls, v) == [calls |-> calls, verdict |-> v]

ByScript(offered) ==
  LET next == StubNext(offered) IN
    IF next = <<>> THEN Answer(<<>>, "script")
    ELSE Answer(<<[tool |-> next[1], by |-> "script"]>>, "")

\* _live_step: what a model may say; offered no tool it can still name one.
ByModel ==
  {Answer(<<>>, "model"), Answer(<<>>, "text")}
    \cup {Answer(<<[tool |-> n, by |-> "model"]>>, "") : n \in ToolNames}
    \cup {Answer(<<[tool |-> n, by |-> "model"], [tool |-> Unknown, by |-> "model"]>>, "") : n \in ToolNames}

\* run_agent_step: without a model the mode decides between script and outage.
Answers(offered) ==
  CASE stubMode = "on"   -> {ByScript(offered)}
    [] stubMode = "auto" -> ByModel \cup {ByScript(offered)}
    [] stubMode = "off"  -> ByModel \cup {Answer(<<>>, "outage") : f \in {"llm"} \cap AgentFaults}

--------------------------------------------------------------------------------
(* runDiagnoseAgent *)

AgentBegins ==
  /\ dAt = "idle" /\ dAt' = "ask"
  /\ UNCHANGED <<stubMode, round, asked, todo, trace, verdict, dRow, away, cut>>

\* ToolCalls to run before a verdict, the verdict, or text that stands for one.
AgentAsk ==
  /\ dAt = "ask" /\ ~away
  /\ \E a \in Answers(Tools) :
       /\ todo' = a.calls /\ verdict' = a.verdict
       /\ dAt' = IF a.verdict = "" THEN "tools" ELSE "store"
  /\ round' = round + 1
  /\ UNCHANGED <<stubMode, asked, trace, dRow, away, cut>>

\* AgentStep returns an error: the service fails or the client has left.
AgentAskFails ==
  /\ dAt \in {"ask", "forced"} /\ (away \/ "service" \in AgentFaults)
  /\ dAt' = "fail"
  /\ UNCHANGED <<stubMode, round, asked, todo, trace, verdict, dRow, away, cut>>

\* Mutant: the loop runs one round more than it may.
NextAskOneMore == IF round <= MaxAgentSteps THEN "ask" ELSE "forced"

NextAsk == IF round < MaxAgentSteps THEN "ask" ELSE "forced"

\* A tool reports its own errors as its result, and so is an unknown name answered.
RunTool ==
  /\ dAt = "tools" /\ todo # <<>>
  /\ todo' = Tail(todo) /\ asked' = Append(asked, Head(todo))
  /\ trace' = Append(trace, Head(todo))
  /\ dAt' = IF Len(todo) > 1 THEN "tools" ELSE NextAsk
  /\ UNCHANGED <<stubMode, round, verdict, dRow, away, cut>>

\* Mutant: without a verdict the limit ends the run.
AgentForcedEnds ==
  /\ dAt = "forced" /\ ~away
  /\ \E a \in Answers(<<>>) : verdict' = a.verdict /\ dAt' = IF a.verdict = "" THEN "done" ELSE "store"
  /\ UNCHANGED <<stubMode, round, asked, todo, trace, dRow, away, cut>>

\* The last ask offers no tool; calls in its answer are not looked at.
AgentForced ==
  /\ dAt = "forced" /\ ~away
  /\ \E a \in Answers(<<>>) : verdict' = IF a.verdict = "" THEN "text" ELSE a.verdict
  /\ dAt' = "store"
  /\ UNCHANGED <<stubMode, round, asked, todo, trace, dRow, away, cut>>

--------------------------------------------------------------------------------
(* diagnoseAgent *)

\* InsertDiagnosis on the request's context; the failing one is answered 502 or 500.
Keep(row) ==
  /\ \/ ~away /\ dRow' = row /\ UNCHANGED cut
     \/ (away \/ "db" \in AgentFaults) /\ cut' = TRUE /\ UNCHANGED dRow
  /\ dAt' = "done"
  /\ UNCHANGED <<stubMode, round, asked, todo, trace, verdict, away>>

StoreVerdict == dAt = "store" /\ Keep([status |-> "completed", evidence |-> trace])
StoreFailure == dAt = "fail" /\ Keep([status |-> "failed", evidence |-> <<>>])

AgentClientLeaves ==
  /\ "leaves" \in AgentFaults /\ dAt \notin {"idle", "done"} /\ ~away
  /\ away' = TRUE
  /\ UNCHANGED <<dAt, stubMode, round, asked, todo, trace, verdict, dRow, cut>>

AgentCrash ==
  /\ "crash" \in AgentFaults /\ dAt \notin {"idle", "done"}
  /\ dAt' = "done" /\ cut' = TRUE
  /\ UNCHANGED <<stubMode, round, asked, todo, trace, verdict, dRow, away>>

AgentStep == AgentAsk \/ AgentAskFails \/ RunTool \/ AgentForced \/ StoreVerdict \/ StoreFailure

DNext == AgentBegins \/ AgentStep \/ AgentClientLeaves \/ AgentCrash

DSpec == DInit /\ [][DNext]_dVars

--------------------------------------------------------------------------------
\* A stored diagnosis shows all the evidence its author was shown, tools that do
\* not exist and rounds beyond the last verdict included, and nothing else.
EvidenceIsComplete == dRow.status = "completed" => dRow.evidence = asked

\* The script never asks for what is in the conversation, whether a model or the
\* script has put it there; alone, it has collected the first tools of the list
\* when it concludes, although the limit of the loop is reached before it does.
ScriptCollectsFirst ==
  /\ \A i, j \in DOMAIN asked : i < j /\ asked[j].by = "script" => asked[i].tool # asked[j].tool
  /\ verdict = "script" /\ (\A i \in DOMAIN asked : asked[i].by = "script")
       => \A i \in 1..Len(asked) : i <= StubMaxTools /\ asked[i].tool = Tools[i]

\* A run ends and is kept, concluded or failed, whatever a model keeps asking for;
\* unless its client leaves, the statement fails or the server is restarted.
EveryAgentRunIsKept == dAt = "ask" ~> (dRow.status # "none" \/ cut)

\* A run is kept, with all the evidence that it was led by.
DiagnosisIsKept == []EvidenceIsComplete /\ []ScriptCollectsFirst /\ EveryAgentRunIsKept
================================================================================
