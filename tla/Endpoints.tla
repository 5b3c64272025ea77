------------------------------- MODULE Endpoints -------------------------------
(***************************************************************************)
(* Resolution of the endpoint a chat completion names, and the call to it: *)
(* httpx/proxy_chat.go.                                                    *)
(*                                                                         *)
(* An automatic router reads its candidates one row after the other and    *)
(* prefers the gateway, then the round robin, then the first that is not   *)
(* down; the round robin reads its targets and takes turns by a counter of *)
(* the process.  Instances come, go and change while they are read.        *)
(***************************************************************************)
EXTENDS Naturals, Sequences, SequencesExt, FiniteSets

CONSTANTS
  Gateway, RoundRobin,   \* "aibrix-gateway", "direct-round-robin"
  Candidates,  \* candidate_endpoints of the automatic router, in order
  Targets,     \* target_instances of the round robin, in order
  Restless,    \* names whose instances come, go and change
  Proxied,     \* requests
  EFaults      \* which of "db", "upstream" may strike

EndpointNames == ToSet(Candidates) \cup ToSet(Targets)

ASSUME CandidatesAssumption ==
  /\ Candidates \in Seq(EndpointNames) /\ Targets \in Seq(EndpointNames)
  /\ {Gateway, RoundRobin} \cap ToSet(Targets) = {}
  /\ 503 \notin EndpointNames   \* a name is never a status

VARIABLES
  state,    \* service_instances.status of each name: "up", "down", "absent"
  turn,     \* rrPositions of the round robin
  at,       \* how far each request is: "idle", "auto", "targets", "calling", "done"
  left,     \* names it has yet to read
  got,      \* rows it has read and may use
  answer,   \* endpoint called, then the status answered; 0 before
  turns,    \* history: turns each target has had since the targets last changed
  steady,   \* history: candidates available ever since the request began
  torn      \* history: requests that missed a row by an error, or saw targets change

eVars == <<state, turn, at, left, got, answer, turns, steady, torn>>

Available(n) == state[n] = "up"

ETypeOK ==
  /\ state \in [EndpointNames -> {"up", "down", "absent"}]
  /\ turn \in 0..Cardinality(Proxied)
  /\ at \in [Proxied -> {"idle", "auto", "targets", "calling", "done"}]
  /\ \A r \in Proxied : ToSet(left[r]) \cup ToSet(got[r]) \cup steady[r] \subseteq EndpointNames
  /\ torn \subseteq Proxied

EInit ==
  /\ state \in [EndpointNames -> {"up", "down"}]
  /\ turn = 0
  /\ at = [r \in Proxied |-> "idle"]
  /\ left = [r \in Proxied |-> <<>>] /\ got = left
  /\ answer = [r \in Proxied |-> 0]
  /\ turns = [t \in ToSet(Targets) |-> 0]
  /\ steady = [r \in Proxied |-> {}] /\ torn = {}

Resolving == {r \in Proxied : at[r] \in {"auto", "targets"}}

\* A sweep, a probe, a registration or a deregistration: the registry's work.
InstanceChanges(n) ==
  /\ \E s \in {"up", "down", "absent"} \ {state[n]} :
       /\ state' = [state EXCEPT ![n] = s]
       /\ LET membership == n \in ToSet(Targets) /\ "absent" \in {s, state[n]} IN
            /\ turns' = IF membership THEN [t \in ToSet(Targets) |-> 0] ELSE turns
            /\ torn' = IF membership THEN torn \cup Resolving ELSE torn
       /\ steady' = [r \in Proxied |-> IF s = "up" THEN steady[r] ELSE steady[r] \ {n}]
  /\ UNCHANGED <<turn, at, left, got, answer>>

--------------------------------------------------------------------------------
(* resolveEndpoint, selectAuto, selectRoundRobin *)

BeginWith(r, stage, names) ==
  /\ at' = [at EXCEPT ![r] = stage]
  /\ left' = [left EXCEPT ![r] = names] /\ got' = [got EXCEPT ![r] = <<>>]

AskAuto(r) ==
  /\ at[r] = "idle"
  /\ BeginWith(r, "auto", Candidates)
  /\ steady' = [steady EXCEPT ![r] = {n \in ToSet(Candidates) : Available(n)}]
  /\ UNCHANGED <<state, turn, answer, turns, torn>>

\* Asked for by name, the round robin may be marked down itself.
AskRoundRobin(r) ==
  /\ at[r] = "idle" /\ state[RoundRobin] # "absent"
  /\ BeginWith(r, "targets", Targets)
  /\ UNCHANGED <<state, turn, answer, turns, steady, torn>>

\* endpointAvailable is asked of candidates; a target need only be there.
Usable(r, n) == IF at[r] = "auto" THEN Available(n) ELSE state[n] # "absent"

\* One row is read; an error counts as a row that is not there.
ReadRow(r) ==
  /\ r \in Resolving /\ left[r] # <<>>
  /\ LET n == Head(left[r]) IN
       \/ /\ got' = [got EXCEPT ![r] = IF Usable(r, n) THEN Append(@, n) ELSE @]
          /\ UNCHANGED torn
       \/ "db" \in EFaults /\ torn' = torn \cup {r} /\ UNCHANGED got
  /\ left' = [left EXCEPT ![r] = Tail(@)]
  /\ UNCHANGED <<state, turn, at, answer, turns, steady>>

Call(r, n) ==
  /\ at' = [at EXCEPT ![r] = "calling"] /\ answer' = [answer EXCEPT ![r] = n]
  /\ got' = [got EXCEPT ![r] = <<>>] /\ UNCHANGED left

Answer(r, s) ==
  /\ at' = [at EXCEPT ![r] = "done"] /\ answer' = [answer EXCEPT ![r] = s]
  /\ UNCHANGED <<left, got>>

ChooseAuto(r) ==
  /\ at[r] = "auto" /\ left[r] = <<>>
  /\ CASE Contains(got[r], Gateway)    -> Call(r, Gateway)
       [] Contains(got[r], RoundRobin) -> BeginWith(r, "targets", Targets) /\ UNCHANGED answer
       [] got[r] = <<>>                -> Answer(r, 503)
       [] OTHER                        -> Call(r, Head(got[r]))
  /\ UNCHANGED <<state, turn, turns, steady, torn>>

\* Mutant: the counter starts again one turn too early.
TakeTurnWrapsEarly(r) ==
  /\ at[r] = "targets" /\ left[r] = <<>> /\ got[r] # <<>>
  /\ LET n == got[r][(turn % Len(got[r])) + 1] IN
       /\ Call(r, n)
       /\ turns' = IF r \in torn THEN turns ELSE [turns EXCEPT ![n] = @ + 1]
  /\ turn' = IF turn + 2 >= Len(got[r]) THEN 0 ELSE turn + 1
  /\ UNCHANGED <<state, steady, torn>>

\* The turn is taken under the mutex, the row by its remainder.  A request that
\* has not seen the same targets as the others is left out of the count.
TakeTurn(r) ==
  /\ at[r] = "targets" /\ left[r] = <<>> /\ got[r] # <<>>
  /\ LET n == got[r][(turn % Len(got[r])) + 1] IN
       /\ Call(r, n)
       /\ turns' = IF r \in torn THEN [t \in ToSet(Targets) |-> 0]
                   ELSE [turns EXCEPT ![n] = @ + 1]
  /\ turn' = turn + 1
  /\ UNCHANGED <<state, steady, torn>>

\* No target is there: 404, even when the router has other candidates.
NoTargets(r) ==
  /\ at[r] = "targets" /\ left[r] = <<>> /\ got[r] = <<>>
  /\ Answer(r, 404)
  /\ UNCHANGED <<state, turn, turns, steady, torn>>

\* dispatchUpstream and streamCopy: the endpoint answers, or 502.
UpstreamAnswers(r) ==
  /\ at[r] = "calling"
  /\ \E s \in {200} \cup {s \in {502} : "upstream" \in EFaults} : Answer(r, s)
  /\ torn' = torn \ {r} /\ steady' = [steady EXCEPT ![r] = {}]
  /\ UNCHANGED <<state, turn, turns>>

ENext ==
  \/ \E n \in Restless : InstanceChanges(n)
  \/ \E r \in Proxied :
       \/ AskAuto(r) \/ AskRoundRobin(r) \/ ReadRow(r) \/ ChooseAuto(r)
       \/ TakeTurn(r) \/ NoTargets(r) \/ UpstreamAnswers(r)

ESpec == EInit /\ [][ENext]_eVars

--------------------------------------------------------------------------------
\* The automatic router answers 503 only when no candidate was available all
\* the time while its rows were read, unless a read failed.
AutoFindsAvailable ==
  \A r \in Proxied : answer[r] = 503 /\ r \notin torn => steady[r] = {}

\* Turns stay even for as long as the targets are the same, whatever their health
\* and however many requests are resolved at once.
TurnsAreEven ==
  \A s, t \in ToSet(Targets) :
    "absent" \notin {state[s], state[t]} => turns[s] <= turns[t] + 1

\* The automatic and the round-robin choice are both fair to what is available.
ChoiceInv == AutoFindsAvailable /\ TurnsAreEven
================================================================================
