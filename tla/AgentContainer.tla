---------------------------- MODULE AgentContainer ----------------------------
(***************************************************************************)
(* One POST or DELETE of the inference runtime, call by call:              *)
(* agent/inference.go.  A start asks Docker for the container, removes it, *)
(* creates one of the same name and starts that; a stop stops and removes. *)
(* Nothing in the agent keeps two requests apart: only the engine does, by *)
(* the name of the container and by the id a start was given.  Every call  *)
(* is made on the request's context, so a client that leaves ends its      *)
(* request between two calls; a removal the engine has begun goes on.      *)
(*                                                                         *)
(* InferenceRuntime takes these requests as one call each.                 *)
(***************************************************************************)
EXTENDS Naturals

CONSTANTS
  Starts, Stops,   \* POST and DELETE requests
  Launches,        \* launch configurations
  WantOf,          \* the configuration each POST asks for
  Baseline,        \* the configuration of the default profile
  NoOne,           \* no container, no request
  MaxAttempts,     \* attempts to remove (20 in the code)
  EngineFaults     \* of "docker", "leaves", "exits"

ASSUME WantOfAssumption      == WantOf \in [Starts -> Launches]
ASSUME BaselineAssumption    == Baseline \in Launches
ASSUME NoOneAssumption       == NoOne \notin Starts \cup Stops \cup Launches
ASSUME NoContainerAssumption ==
  NoOne \notin [id : Starts, cfg : Launches, state : {"created", "starting", "ready", "exited"},
                by : Starts \cup Stops \cup {NoOne}]
ASSUME MaxAttemptsAssumption == MaxAttempts \in Nat \ {0}

VARIABLES
  slot,     \* the container of that name; its id is the POST that created it
  reqAt,    \* each request: the call it makes next
  tries,    \* attempts to remove it has made
  reply,    \* the answer: an error, or the status that was read last, if it could be
  spared,   \* ghost: the container a POST has seen running
  crossed   \* ghost: requests that were under way together with another

slotVars == <<slot, reqAt, tries, reply, spared, crossed>>

Requests == Starts \cup Stops
NoReply  == [is |-> "none", cfg |-> NoOne, state |-> "none"]
Error    == [NoReply EXCEPT !.is = "error"]

Running == slot # NoOne /\ slot.state \in {"starting", "ready"}
Removing == slot # NoOne /\ slot.by # NoOne

\* status(): only the engine's "running" counts; the rest is "stopped", and
\* where there is no container it is the default configuration.
Status ==
  [is |-> "status", cfg |-> IF slot = NoOne THEN Baseline ELSE slot.cfg,
   state |-> CASE Running -> slot.state
               [] slot = NoOne -> "stopped"
               [] OTHER -> "left over"]

\* status() when the engine cannot be asked: no error, but a status that says so
\* and the default configuration, whatever is there.
Unread == [is |-> "status", cfg |-> Baseline, state |-> "error"]

InFlight == {r \in Requests : reqAt[r] \notin {"idle", "over"}}

SlotTypeOK ==
  /\ slot # NoOne => /\ slot.id \in Starts /\ slot.cfg = WantOf[slot.id]
                     /\ slot.state \in {"created", "starting", "ready", "exited"}
                     /\ slot.by \in Requests \cup {NoOne}
  /\ reqAt \in [Requests -> {"idle", "look", "stop", "remove", "removing", "create", "start", "answer", "over"}]
  /\ tries \in [Requests -> 0..MaxAttempts]
  /\ reply \in [Requests -> [is : {"none", "error", "status"}, cfg : Launches \cup {NoOne},
                             state : {"none", "starting", "ready", "stopped", "left over", "error"}]]
  /\ spared \in [Starts -> Starts \cup {NoOne}] /\ crossed \subseteq Requests

SlotInit ==
  /\ slot = NoOne
  /\ reqAt = [r \in Requests |-> "idle"] /\ tries = [r \in Requests |-> 0]
  /\ reply = [r \in Requests |-> NoReply]
  /\ spared = [s \in Starts |-> NoOne] /\ crossed = {}

--------------------------------------------------------------------------------
Ends(r, a) == /\ reqAt' = [reqAt EXCEPT ![r] = "over"] /\ reply' = [reply EXCEPT ![r] = a]
              /\ tries' = [tries EXCEPT ![r] = 0]
GoesTo(r, a) == reqAt' = [reqAt EXCEPT ![r] = a] /\ UNCHANGED <<reply, tries>>

Arrives(r) ==
  /\ reqAt[r] = "idle" /\ GoesTo(r, IF r \in Starts THEN "look" ELSE "stop")
  /\ crossed' = IF InFlight = {} THEN crossed ELSE crossed \cup InFlight \cup {r}
  /\ UNCHANGED <<slot, spared>>

\* Mutant: a container that is still loading does not count.
LookReadyOnly(s) ==
  /\ reqAt[s] = "look"
  /\ spared' = [spared EXCEPT ![s] = IF Running THEN slot.id ELSE NoOne]
  /\ \/ Running /\ slot.state = "ready" /\ Ends(s, IF slot.cfg = WantOf[s] THEN Status ELSE Error)
     \/ ~(Running /\ slot.state = "ready") /\ GoesTo(s, "remove")
  /\ UNCHANGED <<slot, crossed>>

\* What runs is answered with, or refused when it is not what was asked for.  An
\* engine that does not answer counts as nothing running.
Look(s) ==
  /\ reqAt[s] = "look"
  /\ \/ /\ spared' = [spared EXCEPT ![s] = IF Running THEN slot.id ELSE NoOne]
        /\ \/ Running /\ Ends(s, IF slot.cfg = WantOf[s] THEN Status ELSE Error)
           \/ ~Running /\ GoesTo(s, "remove")
     \/ "docker" \in EngineFaults /\ GoesTo(s, "remove") /\ UNCHANGED spared
  /\ UNCHANGED <<slot, crossed>>

\* stop?t=20; a container that is not there or not running is as good.
StopCall(d) ==
  /\ reqAt[d] = "stop" /\ GoesTo(d, "remove")
  /\ slot' = IF Running THEN [slot EXCEPT !.state = "exited"] ELSE slot
  /\ UNCHANGED <<spared, crossed>>

AfterRemove(r) == IF r \in Starts THEN "create" ELSE "answer"

\* Nothing there; a removal in progress, to be asked about again; or one that starts.
RemoveCall(r) ==
  /\ reqAt[r] = "remove"
  /\ \/ slot = NoOne /\ GoesTo(r, AfterRemove(r)) /\ UNCHANGED slot
     \/ /\ Removing /\ UNCHANGED slot
        /\ IF tries[r] + 1 = MaxAttempts THEN Ends(r, Error)
           ELSE tries' = [tries EXCEPT ![r] = @ + 1] /\ UNCHANGED <<reqAt, reply>>
     \/ slot # NoOne /\ ~Removing /\ slot' = [slot EXCEPT !.by = r] /\ GoesTo(r, "removing")
  /\ UNCHANGED <<spared, crossed>>

RemoveReply(r) ==
  /\ reqAt[r] = "removing" /\ (slot # NoOne => slot.by # r)
  /\ GoesTo(r, AfterRemove(r)) /\ UNCHANGED <<slot, spared, crossed>>

\* The name is taken when another request was faster.
Create(s) ==
  /\ reqAt[s] = "create"
  /\ IF slot # NoOne THEN Ends(s, Error) /\ UNCHANGED slot
     ELSE /\ slot' = [id |-> s, cfg |-> WantOf[s], state |-> "created", by |-> NoOne]
          /\ GoesTo(s, "start")
  /\ UNCHANGED <<spared, crossed>>

\* Started by id: it may have been removed since.
Launch(s) ==
  /\ reqAt[s] = "start"
  /\ IF slot # NoOne /\ slot.id = s /\ ~Removing
     THEN slot' = [slot EXCEPT !.state = "starting"] /\ GoesTo(s, "answer")
     ELSE Ends(s, Error) /\ UNCHANGED slot
  /\ UNCHANGED <<spared, crossed>>

\* What was asked for has been done: the request is answered as accepted, also
\* when the last look at the container fails (or its client has left).
AnswerStatus(r) ==
  /\ reqAt[r] = "answer"
  /\ \/ Ends(r, Status)
     \/ EngineFaults \cap {"docker", "leaves"} # {} /\ Ends(r, Unread)
  /\ UNCHANGED <<slot, spared, crossed>>

--------------------------------------------------------------------------------
\* A call that fails before that ends the request, and so does the client that leaves.
CallFails(r) ==
  /\ EngineFaults \cap {"docker", "leaves"} # {}
  /\ r \in InFlight /\ reqAt[r] # "answer" /\ Ends(r, Error) /\ UNCHANGED <<slot, spared, crossed>>

RemovalEnds == Removing /\ slot' = NoOne /\ UNCHANGED <<reqAt, tries, reply, spared, crossed>>

EngineBoots ==
  /\ slot # NoOne /\ slot.state = "starting" /\ slot' = [slot EXCEPT !.state = "ready"]
  /\ UNCHANGED <<reqAt, tries, reply, spared, crossed>>

EngineExits ==
  /\ "exits" \in EngineFaults /\ Running /\ slot' = [slot EXCEPT !.state = "exited"]
  /\ UNCHANGED <<reqAt, tries, reply, spared, crossed>>

SlotNext ==
  \/ \E r \in Requests : Arrives(r) \/ RemoveCall(r) \/ RemoveReply(r) \/ AnswerStatus(r) \/ CallFails(r)
  \/ \E s \in Starts : Look(s) \/ Create(s) \/ Launch(s)
  \/ \E d \in Stops : StopCall(d)
  \/ RemovalEnds \/ EngineBoots \/ EngineExits

SlotSpec == SlotInit /\ [][SlotNext]_slotVars

--------------------------------------------------------------------------------
\* Unless another request was under way at the same time: a POST that is accepted
\* has its own container there and a DELETE has left none (a conflict with the
\* removal that an earlier client has left behind is waited for, not taken for an
\* end), and the status they answer with is of that, where it could be read.
AnswersAreOwn ==
  \A r \in Requests \ crossed :
    /\ reqAt[r] = "answer" =>
         IF r \in Starts THEN slot # NoOne /\ slot.cfg = WantOf[r] ELSE slot = NoOne
    /\ reply[r].is = "status" /\ reply[r].state # "error" =>
         IF r \in Starts THEN reply[r].cfg = WantOf[r] ELSE reply[r].state = "stopped"

\* Whatever else runs, a POST never removes a container it has seen loading or
\* serving; one that came up after it had looked is removed.
SeenIsSpared ==
  \A s \in Starts : slot # NoOne /\ slot.by = s => spared[s] # slot.id

\* What requests are told, and what they do, is about the container they saw.
SlotInv == AnswersAreOwn /\ SeenIsSpared
================================================================================
