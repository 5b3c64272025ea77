--------------------------------- MODULE Chat ---------------------------------
(***************************************************************************)
(* Turns of one chat session with retrieval: httpx/chat_handlers.go and    *)
(* chat_rag.go, store/chat.go, and the samples that store/rag_feedback.go  *)
(* derives from rated answers.                                             *)
(*                                                                         *)
(* A turn runs on its request's context: once the client has left, every   *)
(* statement and every call of it fails, and the handler goes on to its    *)
(* end all the same.  The trace is left to a goroutine with a context of   *)
(* its own.                                                                *)
(***************************************************************************)
EXTENDS Naturals, Sequences, FiniteSets

CONSTANTS
  Turns,        \* requests of the session
  MemoryLimit,  \* messages of the past that a turn is shown
  ChatFaults    \* which of "db", "upstream", "leaves", "crash" may strike

ASSUME ChatAssumption == MemoryLimit \in Nat \ {0}

VARIABLES
  log,         \* chat_messages in the order of created_at
  tAt,         \* how far each turn is
  sort,        \* what its question is: "plain", "greeting" or "sensitive"
  memory,      \* the turns whose messages it was shown
  docs,        \* turns whose retrieval has found documents
  reason,      \* fallback_reason
  text,        \* what the answer holds: "", "part", "model" or "fixed"
  gone,        \* turns whose client has left
  rated,       \* turns whose answer has been rated "up"
  traced,      \* turns with a row in request_traces
  excused,     \* history: turns of which a message could not be stored
  untraced,    \* history: turns whose trace could not be written
  overlapped   \* history: turns that have run beside another one

tVars == <<log, tAt, sort, memory, docs, reason, text, gone, rated, traced, excused, untraced, overlapped>>

Message(t, r) == [turn |-> t, role |-> r]
Has(t, r) == \E i \in DOMAIN log : log[i] = Message(t, r)
InTurn(t) == tAt[t] \notin {"idle", "done"}

TTypeOK ==
  /\ log \in Seq([turn : Turns, role : {"user", "assistant"}])
  /\ tAt \in [Turns -> {"idle", "ask", "retrieve", "decide", "stream", "answer", "trace", "done"}]
  /\ sort \in [Turns -> {"plain", "greeting", "sensitive"}]
  /\ memory \in [Turns -> SUBSET Turns]
  /\ reason \in [Turns -> {"", "greeting", "no_hit", "handoff", "endpoint"}]
  /\ text \in [Turns -> {"", "part", "model", "fixed"}]
  /\ docs \cup gone \cup rated \cup traced \cup excused \cup untraced \cup overlapped \subseteq Turns

TInit ==
  /\ log = <<>>
  /\ tAt = [t \in Turns |-> "idle"] /\ sort = [t \in Turns |-> "plain"]
  /\ memory = [t \in Turns |-> {}]
  /\ reason = [t \in Turns |-> ""] /\ text = reason
  /\ docs = {} /\ gone = {} /\ rated = {} /\ traced = {} /\ excused = {} /\ untraced = {} /\ overlapped = {}

--------------------------------------------------------------------------------
TGoto(t, s) == tAt' = [tAt EXCEPT ![t] = s]

\* A statement on the request's context.
Fails(t) == t \in gone \/ "db" \in ChatFaults

\* FetchMemory: the latest messages, whoever wrote them.
Recent == {log[i].turn : i \in {j \in DOMAIN log : j > Len(log) - MemoryLimit}}

\* The session is there and the stream is opened; a failing read is no memory.
TurnBegin(t, k) ==
  /\ tAt[t] = "idle" /\ TGoto(t, "ask")
  /\ sort' = [sort EXCEPT ![t] = k]
  /\ \E m \in {Recent} \cup {x \in {{}} : Fails(t)} : memory' = [memory EXCEPT ![t] = m]
  /\ LET others == {o \in Turns : InTurn(o)} IN
       overlapped' = IF others = {} THEN overlapped ELSE overlapped \cup others \cup {t}
  /\ UNCHANGED <<log, docs, reason, text, gone, rated, traced, excused, untraced>>

\* InsertChatMessage: message and updated_at in one transaction, the error dropped.
Insert(t, r) ==
  \/ t \notin gone /\ log' = Append(log, Message(t, r)) /\ UNCHANGED excused
  \/ Fails(t) /\ excused' = excused \cup {t} /\ UNCHANGED log

StoreQuestion(t) ==
  /\ tAt[t] = "ask" /\ TGoto(t, "retrieve")
  /\ Insert(t, "user")
  /\ UNCHANGED <<sort, memory, docs, reason, text, gone, rated, traced, untraced, overlapped>>

\* Embed and retrieveDocs: an error is a retrieval without a hit.
Retrieve(t) ==
  /\ tAt[t] = "retrieve" /\ TGoto(t, "decide")
  /\ docs' \in {docs} \cup {docs \cup {x} : x \in {t} \ gone}
  /\ UNCHANGED <<log, sort, memory, reason, text, gone, rated, traced, excused, untraced, overlapped>>

\* decideFallback, in the order of the code.
FallbackOf(t) ==
  CASE sort[t] = "greeting"  -> "greeting"
    [] t \notin docs         -> "no_hit"
    [] sort[t] = "sensitive" -> "handoff"
    [] OTHER                 -> ""

Decide(t) ==
  /\ tAt[t] = "decide"
  /\ reason' = [reason EXCEPT ![t] = FallbackOf(t)]
  /\ IF FallbackOf(t) = "" THEN TGoto(t, "stream") /\ UNCHANGED text
     ELSE TGoto(t, "answer") /\ text' = [text EXCEPT ![t] = "fixed"]
  /\ UNCHANGED <<log, sort, memory, docs, gone, rated, traced, excused, untraced, overlapped>>

\* streamUpstreamChat has come to its end; even a stream without a token is one.
StreamEnds(t) ==
  /\ tAt[t] = "stream" /\ t \notin gone /\ TGoto(t, "answer")
  /\ \E x \in {"", "model"} : text' = [text EXCEPT ![t] = x]
  /\ UNCHANGED <<log, sort, memory, docs, reason, gone, rated, traced, excused, untraced, overlapped>>

\* No endpoint, an error, or the client has left: what has come of the answer
\* stays, and the fixed text stands in when there is nothing.
StreamBreaks(t) ==
  /\ tAt[t] = "stream" /\ (t \in gone \/ "upstream" \in ChatFaults) /\ TGoto(t, "answer")
  /\ reason' = [reason EXCEPT ![t] = "endpoint"]
  /\ \E x \in {"part", "fixed"} : text' = [text EXCEPT ![t] = x]
  /\ UNCHANGED <<log, sort, memory, docs, gone, rated, traced, excused, untraced, overlapped>>

StoreAnswer(t) ==
  /\ tAt[t] = "answer" /\ TGoto(t, "trace")
  /\ Insert(t, "assistant")
  /\ UNCHANGED <<sort, memory, docs, reason, text, gone, rated, traced, untraced, overlapped>>

\* What a handler that has ended knew is gone.
Over(ts) ==
  /\ tAt' = [t \in Turns |-> IF t \in ts THEN "done" ELSE tAt[t]]
  /\ memory' = [t \in Turns |-> IF t \in ts THEN {} ELSE memory[t]]
  /\ reason' = [t \in Turns |-> IF t \in ts THEN "" ELSE reason[t]]
  /\ text' = [t \in Turns |-> IF t \in ts THEN "" ELSE text[t]]
  /\ sort' = [t \in Turns |-> IF t \in ts THEN "plain" ELSE sort[t]]
  /\ docs' = docs \ ts /\ gone' = gone \ ts

\* Mutant: the trace is written on the context of the request.
TraceOnRequest(t) ==
  /\ tAt[t] = "trace" /\ Over({t})
  /\ \/ t \notin gone /\ traced' = traced \cup {t} /\ UNCHANGED untraced
     \/ t \notin gone /\ Fails(t) /\ untraced' = untraced \cup {t} /\ UNCHANGED traced
     \/ t \in gone /\ UNCHANGED <<traced, untraced>>
  /\ UNCHANGED <<log, rated, excused, overlapped>>

\* recordRequestTrace: three seconds of its own, the error only logged.
Trace(t) ==
  /\ tAt[t] = "trace" /\ Over({t})
  /\ \/ traced' = traced \cup {t} /\ UNCHANGED untraced
     \/ "db" \in ChatFaults /\ untraced' = untraced \cup {t} /\ UNCHANGED traced
  /\ UNCHANGED <<log, rated, excused, overlapped>>

\* createMessageFeedback, of an answer that is there.
Rate(t) ==
  /\ tAt[t] = "done" /\ Has(t, "assistant") /\ t \notin rated
  /\ rated' = rated \cup {t}
  /\ UNCHANGED <<log, tAt, sort, memory, docs, reason, text, gone, traced, excused, untraced, overlapped>>

ChatClientLeaves(t) ==
  /\ "leaves" \in ChatFaults /\ InTurn(t) /\ t \notin gone
  /\ gone' = gone \cup {t}
  /\ UNCHANGED <<log, tAt, sort, memory, docs, reason, text, rated, traced, excused, untraced, overlapped>>

ChatCrash ==
  /\ "crash" \in ChatFaults /\ \E t \in Turns : InTurn(t)
  /\ LET cut == {t \in Turns : InTurn(t)} IN
       Over(cut) /\ excused' = excused \cup cut /\ untraced' = untraced \cup cut
  /\ UNCHANGED <<log, rated, traced, overlapped>>

TurnStep(t) ==
  StoreQuestion(t) \/ Retrieve(t) \/ Decide(t) \/ StoreAnswer(t) \/ Trace(t)

TNext ==
  \/ ChatCrash
  \/ \E t \in Turns :
       \/ \E k \in {"plain", "greeting", "sensitive"} : TurnBegin(t, k)
       \/ TurnStep(t) \/ StreamEnds(t) \/ StreamBreaks(t) \/ Rate(t) \/ ChatClientLeaves(t)

TSpec == TInit /\ [][TNext]_tVars

--------------------------------------------------------------------------------
\* Mutant: the first user message of the session.
QuestionOfFirst(t) ==
  LET answer == CHOOSE i \in DOMAIN log : log[i] = Message(t, "assistant")
      asked == {i \in DOMAIN log : i < answer /\ log[i].role = "user"}
  IN IF asked = {} THEN {} ELSE {log[CHOOSE i \in asked : \A j \in asked : i <= j].turn}

\* FeedbackDataset: the question of a rated answer is the latest user message
\* stored before it.
QuestionOf(t) ==
  LET answer == CHOOSE i \in DOMAIN log : log[i] = Message(t, "assistant")
      asked == {i \in DOMAIN log : i < answer /\ log[i].role = "user"}
  IN IF asked = {} THEN {} ELSE {log[CHOOSE i \in asked : \A j \in asked : j <= i].turn}

\* A rated answer trains retrieval with the question it was given to, unless its
\* turn ran beside another one or the question could not be stored.
QuestionIsOwn ==
  \A t \in rated : t \notin overlapped /\ Has(t, "user") => QuestionOf(t) = {t}

\* A turn that has ended has kept its answer beside its question, fixed text and
\* broken stream included, unless its client left or a statement failed.
TurnIsAnswered ==
  \A t \in Turns : tAt[t] \in {"trace", "done"} /\ t \notin excused
                     => Has(t, "user") /\ Has(t, "assistant")

\* A question is shown to the model once: the memory that is put before it does
\* not hold the question itself.
QuestionIsShownOnce == \A t \in Turns : t \notin memory[t]

\* Questions, answers and ratings of a session stay paired.
ChatInv == QuestionIsOwn /\ TurnIsAnswered /\ QuestionIsShownOnce

\* Every turn is traced in the end: a client that leaves, which is all that ends a
\* stream without a deadline, does not take the trace along; only a restart or
\* the statement itself can.
EveryTurnIsTraced == \A t \in Turns : tAt[t] = "ask" ~> (t \in traced \/ t \in untraced)
================================================================================
