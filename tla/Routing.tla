-------------------------------- MODULE Routing --------------------------------
(***************************************************************************)
(* One routing policy: the handlers that change it                         *)
(* (httpx/routing_handlers.go) and the calls it routes                     *)
(* (httpx/routing_proxy.go, httpx/proxy_chat.go).                          *)
(*                                                                         *)
(* A change loads the row and writes it back later; some write all of it,  *)
(* some a part.  A call picks a variant by weight, may mirror its request  *)
(* to a shadow target, and leaves one sample when both have ended.  The    *)
(* answer is streamed for as long as upstream and client like: nothing but *)
(* the wait for its first byte has a deadline.                             *)
(***************************************************************************)
EXTENDS Integers, FiniteSets

CONSTANTS
  Asks,        \* changes that clients ask for (see AskTypes)
  Edits,       \* requests that change the policy
  Calls,       \* routed chat completions
  Mirrors,     \* ROUTING_SHADOW_ENABLED
  NoVariants,  \* no list of variants: none given, or none kept
  PFaults      \* which of "db", "upstream", "crash" may strike

\* A list of variants is a function from labels to weights.
AskTypes == {"update", "promote", "rollback", "delete", "create"}
ASSUME AsksAssumption == \A k \in Asks : k.do \in AskTypes

Full == 100

VARIABLES
  exists, enabled, variants, shadow,   \* the row of the policy
  snapshot,  \* metadata.prev_variants
  edit,      \* how far each change is: "idle", "loaded", "done"
  ask,       \* what it asks for
  saw,       \* the row as it loaded it
  call,      \* how far each call is
  mirror,    \* its shadow: "none", "wanted", "running", "ended"
  hungUp,    \* calls whose client has left
  sampled,   \* calls with a row in routing_samples
  before,    \* history: variants the last promotion replaced
  raced,     \* history: changes that another write has overtaken
  lost       \* history: calls whose sample could not be written

row   == <<exists, enabled, variants, shadow, snapshot>>
edits == <<edit, ask, saw, before, raced>>
calls == <<call, mirror, hungUp, sampled, lost>>
pVars == <<row, edits, calls>>

\* validateVariants: at least one, no negative weight, and a positive sum, which
\* weights that are not negative have when one of them is positive.
Valid(vs) ==
  /\ DOMAIN vs # {} /\ \A l \in DOMAIN vs : vs[l] >= 0
  /\ \E l \in DOMAIN vs : vs[l] > 0

Stages == {"idle", "picked", "calling", "streaming", "collecting", "done"}

PTypeOK ==
  /\ exists \in BOOLEAN /\ enabled \in BOOLEAN /\ shadow \in BOOLEAN
  /\ exists <=> variants # NoVariants
  /\ edit \in [Edits -> {"idle", "loaded", "done"}]
  /\ call \in [Calls -> Stages]
  /\ mirror \in [Calls -> {"none", "wanted", "running", "ended"}]
  /\ hungUp \subseteq Calls /\ sampled \subseteq Calls /\ raced \subseteq Edits /\ lost \subseteq Calls

PInit ==
  /\ exists = FALSE /\ enabled = TRUE /\ shadow = TRUE
  /\ variants = NoVariants /\ snapshot = NoVariants
  /\ edit = [o \in Edits |-> "idle"]
  /\ ask = [o \in Edits |-> NoVariants]
  /\ saw = [o \in Edits |-> NoVariants]
  /\ call = [c \in Calls |-> "idle"]
  /\ mirror = [c \in Calls |-> "none"]
  /\ hungUp = {} /\ sampled = {} /\ before = NoVariants /\ raced = {} /\ lost = {}

--------------------------------------------------------------------------------
(* create, update, promote, rollback, delete *)

Loaded == {o \in Edits : edit[o] = "loaded"}

\* A statement that writes the row overtakes every change that has loaded it.
Overtake(o) ==
  /\ edit' = [edit EXCEPT ![o] = "done"]
  /\ ask' = [ask EXCEPT ![o] = NoVariants] /\ saw' = [saw EXCEPT ![o] = NoVariants]
  /\ raced' = (raced \cup Loaded) \ {o}

\* A name that is taken is answered 409.
CreatePolicy(o, k) ==
  /\ edit[o] = "idle" /\ k.do = "create"
  /\ Valid(k.variants) /\ ~exists
  /\ exists' = TRUE /\ enabled' = (k.enabled = "on") /\ shadow' = (k.shadow = "on")
  /\ variants' = k.variants /\ snapshot' = NoVariants
  /\ before' = NoVariants
  /\ Overtake(o) /\ UNCHANGED calls

DeletePolicy(o, k) ==
  /\ edit[o] = "idle" /\ k.do = "delete" /\ exists
  /\ exists' = FALSE /\ variants' = NoVariants /\ snapshot' = NoVariants
  /\ before' = NoVariants
  /\ Overtake(o) /\ UNCHANGED <<enabled, shadow, calls>>

\* What the handlers check between loading the row and writing it.
Accepted(k) ==
  CASE k.do = "update"   -> k.variants # NoVariants => Valid(k.variants)
    [] k.do = "promote"  -> k.label \in DOMAIN variants
    [] k.do = "rollback" -> snapshot # NoVariants /\ Valid(snapshot)
    [] OTHER             -> FALSE

LoadPolicy(o, k) ==
  /\ edit[o] = "idle" /\ exists /\ Accepted(k)
  /\ edit' = [edit EXCEPT ![o] = "loaded"]
  /\ ask' = [ask EXCEPT ![o] = k]
  /\ saw' = [saw EXCEPT ![o] = [enabled |-> enabled, shadow |-> shadow,
                                variants |-> variants, snapshot |-> snapshot]]
  /\ UNCHANGED <<row, before, raced, calls>>

\* What the UPDATE of a row that is there does; one that is gone is no error.
Put(o, e, s, vs, snap) ==
  /\ \/ exists /\ enabled' = e /\ shadow' = s /\ variants' = vs /\ snapshot' = snap
     \/ ~exists /\ UNCHANGED <<enabled, shadow, variants, snapshot>>
  /\ Overtake(o) /\ UNCHANGED <<exists, calls>>

Pick(asked, seen) == IF asked = "as is" THEN seen ELSE asked = "on"

\* updateRoutingPolicy: what the request leaves out is written as it was loaded.
UpdateWrite(o) ==
  /\ edit[o] = "loaded" /\ ask[o].do = "update"
  /\ LET vs == IF ask[o].variants = NoVariants THEN saw[o].variants ELSE ask[o].variants
     IN Put(o, Pick(ask[o].enabled, saw[o].enabled), Pick(ask[o].shadow, saw[o].shadow), vs, snapshot)
  /\ UNCHANGED before

OnlyThis(l, vs) == [x \in DOMAIN vs |-> IF x = l THEN Full ELSE 0]

\* Mutant: the snapshot is taken of the new weights.
PromoteWriteNext(o) ==
  /\ edit[o] = "loaded" /\ ask[o].do = "promote"
  /\ Put(o, enabled, shadow, OnlyThis(ask[o].label, saw[o].variants), OnlyThis(ask[o].label, saw[o].variants))
  /\ before' = IF o \in raced THEN NoVariants ELSE variants

\* promoteRoutingVariant: all weight to one label, the loaded list kept.
PromoteWrite(o) ==
  /\ edit[o] = "loaded" /\ ask[o].do = "promote"
  /\ Put(o, enabled, shadow, OnlyThis(ask[o].label, saw[o].variants), saw[o].variants)
  /\ before' = IF o \in raced THEN NoVariants ELSE variants

\* rollbackRoutingPolicy: the list kept by the last promotion, once.
RollbackWrite(o) ==
  /\ edit[o] = "loaded" /\ ask[o].do = "rollback"
  /\ Put(o, enabled, shadow, saw[o].snapshot, NoVariants)
  /\ UNCHANGED before

\* A statement fails or the client goes away.
EditAbort(o) ==
  /\ "db" \in PFaults /\ edit[o] = "loaded"
  /\ edit' = [edit EXCEPT ![o] = "done"]
  /\ ask' = [ask EXCEPT ![o] = NoVariants] /\ saw' = [saw EXCEPT ![o] = NoVariants]
  /\ raced' = raced \ {o}
  /\ UNCHANGED <<row, before, calls>>

--------------------------------------------------------------------------------
(* routedChatCompletions, shadowCall, collectAndRecord *)

At(c, stage) == call' = [call EXCEPT ![c] = stage]

\* pickVariant; a policy that is not there or is off is refused before.
PickVariant(c) ==
  /\ call[c] = "idle" /\ exists /\ enabled
  /\ \E l \in DOMAIN variants : variants[l] > 0
  /\ mirror' = [mirror EXCEPT ![c] = IF Mirrors /\ shadow THEN "wanted" ELSE "none"]
  /\ At(c, "picked")
  /\ UNCHANGED <<row, edits, hungUp, sampled, lost>>

\* Until it has the answer a client may hang up; the request's context ends.
CallerLeaves(c) ==
  /\ call[c] \in {"picked", "calling", "streaming"} /\ c \notin hungUp
  /\ hungUp' = hungUp \cup {c}
  /\ UNCHANGED <<row, edits, call, mirror, sampled, lost>>

\* What an upstream fails of: a fault of its own, or the end of the context.
Broken(c) == "upstream" \in PFaults \/ c \in hungUp

\* recordRoutingSample: its own 5 s, its error is dropped.
Sample(c) ==
  /\ \/ sampled' = sampled \cup {c} /\ UNCHANGED lost
     \/ "db" \in PFaults /\ lost' = lost \cup {c} /\ UNCHANGED sampled
  /\ At(c, "done") /\ mirror' = [mirror EXCEPT ![c] = "none"] /\ hungUp' = hungUp \ {c}

\* The variant's endpoint cannot be resolved: a failed sample, no shadow call.
ResolveFails(c) ==
  /\ Broken(c) /\ call[c] = "picked"
  /\ Sample(c)
  /\ UNCHANGED <<row, edits>>

\* The shadow call is begun, then the upstream is called.
Dispatch(c) ==
  /\ call[c] = "picked"
  /\ At(c, "calling")
  /\ mirror' = [mirror EXCEPT ![c] = IF @ = "wanted" THEN "running" ELSE @]
  /\ UNCHANGED <<row, edits, hungUp, sampled, lost>>

\* It answers, with whatever status, and the answer is streamed to the client.
AnswerBegins(c) ==
  /\ call[c] = "calling"
  /\ At(c, "streaming")
  /\ UNCHANGED <<row, edits, mirror, hungUp, sampled, lost>>

\* It cannot be reached, or is silent for 60 s: the client has an error, and the
\* sample is left to a goroutine.
UpstreamFails(c) ==
  /\ Broken(c) /\ call[c] = "calling"
  /\ At(c, "collecting")
  /\ UNCHANGED <<row, edits, mirror, hungUp, sampled, lost>>

\* The stream ends or breaks off, at either side.
AnswerEnds(c) ==
  /\ call[c] = "streaming"
  /\ At(c, "collecting")
  /\ UNCHANGED <<row, edits, mirror, hungUp, sampled, lost>>

\* The shadow call ends; its channel holds the result.
ShadowEnds(c) ==
  /\ call[c] \in {"calling", "streaming", "collecting"} /\ mirror[c] = "running"
  /\ mirror' = [mirror EXCEPT ![c] = "ended"]
  /\ UNCHANGED <<row, edits, call, hungUp, sampled, lost>>

\* Mutant: only the result ends the wait.
CollectOnlyResult(c) ==
  /\ call[c] = "collecting" /\ mirror[c] # "running"
  /\ Sample(c)
  /\ UNCHANGED <<row, edits>>

\* The result or 65 s, whichever comes first.
Collect(c) ==
  /\ call[c] = "collecting"
  /\ Sample(c)
  /\ UNCHANGED <<row, edits>>

\* A restart drops every change and call that was under way.
PCrash ==
  /\ "crash" \in PFaults
  /\ \E c \in Calls : call[c] \notin {"idle", "done"}
  /\ LET under == {c \in Calls : call[c] \notin {"idle", "done"}} IN
       /\ call' = [c \in Calls |-> IF c \in under THEN "done" ELSE call[c]]
       /\ mirror' = [c \in Calls |-> "none"]
       /\ lost' = lost \cup under /\ hungUp' = {}
  /\ edit' = [o \in Edits |-> IF o \in Loaded THEN "done" ELSE edit[o]]
  /\ ask' = [o \in Edits |-> NoVariants] /\ saw' = ask'
  /\ raced' = {}
  /\ UNCHANGED <<row, before, sampled>>

\* The steps of the server's own code.
Resolves(c) == ResolveFails(c) \/ Dispatch(c)

\* What an upstream must do when its client has left.
CutOff(c) == c \in hungUp /\ (UpstreamFails(c) \/ AnswerEnds(c))

CallStep(c) ==
  \/ Resolves(c) \/ Collect(c) \/ CallerLeaves(c)
  \/ AnswerBegins(c) \/ UpstreamFails(c) \/ AnswerEnds(c)

PNext ==
  \/ PCrash
  \/ \E o \in Edits :
       \/ \E k \in Asks : CreatePolicy(o, k) \/ DeletePolicy(o, k) \/ LoadPolicy(o, k)
       \/ UpdateWrite(o) \/ PromoteWrite(o) \/ RollbackWrite(o) \/ EditAbort(o)
  \/ \E c \in Calls : PickVariant(c) \/ CallStep(c) \/ ShadowEnds(c)

PSpec == PInit /\ [][PNext]_pVars

--------------------------------------------------------------------------------
\* However changes overlap, an enabled policy always has a variant to pick: no
\* promotion of a label that is gone and no rollback leaves a list of zeros.
AlwaysPickable == exists => Valid(variants)

\* A rollback brings back the list that the last promotion replaced, whatever was
\* written since, unless another change has overtaken one of the two.
RollbackUndoes ==
  [][\A o \in Edits :
       edit[o] = "loaded" /\ edit'[o] = "done" /\ ask[o].do = "rollback"
       /\ o \notin raced /\ before # NoVariants
       /\ exists' /\ snapshot # NoVariants /\ snapshot' = NoVariants
         => variants' = before]_pVars

\* A policy that was switched off takes no call until a client has asked for it
\* to be on: a promotion or rollback that loaded it earlier does not undo the
\* switch, and only an overtaken update that leaves the switch out does.
StaysOff ==
  [][exists /\ ~enabled /\ enabled' =>
       \E o \in Edits : /\ edit[o] = "loaded" /\ ask[o].do = "update"
                        /\ ask[o].enabled = "on" \/ o \in raced]_pVars

\* What operators asked of a policy is what it does, however changes overlap.
PolicyIsKept == []AlwaysPickable /\ RollbackUndoes /\ StaysOff

\* Every call that was given a variant leaves a sample in the end: when its
\* endpoint cannot be resolved, when the upstream fails or never ends its answer
\* (the client leaves then), and without any help of its shadow; unless the insert
\* failed or the server was restarted.
EveryCallIsSampled ==
  \A c \in Calls : call[c] = "picked" ~> (c \in sampled \/ c \in lost)
================================================================================
