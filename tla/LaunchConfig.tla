----------------------------- MODULE LaunchConfig -----------------------------
(***************************************************************************)
(* What a launch configuration goes through: the agent (agent/inference.go) *)
(* turns a request into the configuration of a container and labels it, a  *)
(* serving benchmark (httpx/benchmarks.go) declares what it ran on, and a   *)
(* release (httpx/inference_release_handlers.go) asks for evidence of its   *)
(* parameters, launches its own request and restores the previous one.      *)
(*                                                                          *)
(* Eight fields of the configuration are kept.  Those left out are each     *)
(* checked against a list of their own, as seqs and tokens are, except      *)
(* enable_dbo, which no request may set.  When the steps of several callers *)
(* interleave is the matter of InferenceRelease and AgentContainer.         *)
(***************************************************************************)
EXTENDS Integers

CONSTANTS
  Overrides,      \* the fields that manual and custom requests may give
  Declarations,   \* the fields of config.vllm that benchmarks may give
  Nothing

VARIABLES
  service,   \* label and configuration of what the agent runs
  evidence,    \* the last benchmark that completed
  release      \* the release, once it is submitted

lcVars == <<service, evidence, release>>

Fields == {"tp", "pp", "layers", "seqs", "tokens", "prefix", "async", "spec"}

\* A number that is 0 and a string that is empty count as not given; the
\* Booleans are pointers.
Given(over) ==
  {f \in DOMAIN over :
     CASE f \in {"prefix", "async"} -> TRUE [] f \in {"layers", "spec"} -> over[f] # "" [] OTHER -> over[f] # 0}

--------------------------------------------------------------------------------
(* The agent *)

Defaults(profile) ==
  [tp |-> 2, pp |-> 1, layers |-> "", seqs |-> 8, tokens |-> 4096, prefix |-> profile # "baseline",
   async |-> TRUE, spec |-> "none"]

Config(q) ==
  [f \in Fields |-> IF f \in Given(q.over) THEN q.over[f] ELSE Defaults(q.profile)[f]]

SeqsAllowed   == {8, 12, 16, 24, 32}
TokensAllowed == {2048, 4096, 8192}

Fits(c) ==
  /\ c.seqs \in SeqsAllowed /\ c.tokens \in TokensAllowed /\ c.spec \in {"none", "ngram"}
  /\ c.tp >= 1 /\ c.pp >= 1 /\ c.tp * c.pp = 2
  /\ c.layers # "" => c.pp = 2 /\ c.layers \in {"32,32", "34,30", "35,29", "36,28"}

\* normalizeInferenceStart returns no error.
Launchable(q) ==
  IF q.profile = "scheduler" THEN Fits(Config(q)) /\ ~(Config(q).spec # "none" /\ Config(q).async)
  ELSE Given(q.over) = {}

\* A scheduler label spells out the configuration, so that it is never "scheduler".
Label(q) == IF q.profile = "scheduler" THEN "scheduler-tp-pp-l-dbo-s-t" ELSE q.profile

Started(q) == [label |-> Label(q), cfg |-> Config(q)]

\* What runs with the same configuration is left as it is, label included.
ManualStart ==
  /\ release = Nothing
  /\ \E p \in {"baseline", "prefix_cache", "scheduler"}, over \in Overrides :
       LET q == [profile |-> p, over |-> over] IN
         Launchable(q) /\ service = Nothing /\ service' = Started(q)
  /\ UNCHANGED <<evidence, release>>

ManualStop == release = Nothing /\ service' = Nothing /\ UNCHANGED <<evidence, release>>

--------------------------------------------------------------------------------
(* The benchmark *)

\* validateLocalInferenceConfig: what is declared is what runs.
Declares(d) == \A f \in Given(d) : d[f] = service.cfg[f]

BenchmarkRuns ==
  /\ release = Nothing /\ service # Nothing
  /\ \E d \in Declarations : Declares(d) /\ evidence' = [declared |-> d, ran |-> service.cfg]
  /\ UNCHANGED <<service, release>>

--------------------------------------------------------------------------------
(* The release *)

Nil == [f \in {} |-> 0]

Balanced == [core |-> [seqs |-> 8, tokens |-> 4096, prefix |-> TRUE],
             q    |-> [profile |-> "prefix_cache", over |-> Nil], custom |-> FALSE]

HighThroughput ==
  [core |-> [seqs |-> 16, tokens |-> 8192, prefix |-> TRUE],
   q    |-> [profile |-> "scheduler",
             over |-> [seqs |-> 16, tokens |-> 8192, prefix |-> TRUE, async |-> TRUE, spec |-> "none"]],
   custom |-> FALSE]

Get(over, f, d) == IF f \in Given(over) THEN over[f] ELSE d

Filled(with, over) == [f \in DOMAIN with \cup DOMAIN over |-> IF f \in DOMAIN with THEN with[f] ELSE over[f]]

\* customInferenceReleaseProfile; only these five fields are looked at.
Custom(over) ==
  LET with == [tp |-> Get(over, "tp", 2), pp |-> Get(over, "pp", 1), prefix |-> Get(over, "prefix", TRUE)] IN
    [core |-> [seqs |-> over.seqs, tokens |-> over.tokens, prefix |-> with.prefix],
     q    |-> [profile |-> "scheduler", over |-> Filled(with, over)], custom |-> TRUE]

CustomAllowed(over) ==
  /\ Get(over, "seqs", 0) \in SeqsAllowed /\ Get(over, "tokens", 0) \in TokensAllowed
  /\ Get(over, "tp", 2) * Get(over, "pp", 1) = 2

\* Mutant: what the benchmark does not declare matches everything.
MatchesUndeclared(core) == \A f \in Given(evidence.declared) \cap DOMAIN core : evidence.declared[f] = core[f]

\* The WHERE of loadInferenceReleaseCandidate: a field that is not declared is 0
\* or false.
Matches(core) ==
  LET d == evidence.declared IN
    Get(d, "seqs", 0) = core.seqs /\ Get(d, "tokens", 0) = core.tokens /\ Get(d, "prefix", FALSE) = core.prefix

Submit ==
  /\ release = Nothing /\ evidence # Nothing
  /\ \E p \in {Balanced, HighThroughput} \cup {Custom(over) : over \in {o \in Overrides : CustomAllowed(o)}} :
       /\ Matches(p.core)
       /\ release' = [q |-> p.q, custom |-> p.custom, ran |-> evidence.ran, before |-> service, at |-> "queued"]
  /\ UNCHANGED <<service, evidence>>

At(a) == release' = [release EXCEPT !.at = a]

\* The previous container is stopped before the agent looks at the request.
Launch ==
  /\ release # Nothing /\ release.at = "queued"
  /\ \/ Launchable(release.q) /\ service' = Started(release.q) /\ At("warming")
     \/ ~Launchable(release.q) /\ service' = Nothing /\ At("refused")
  /\ UNCHANGED evidence

Succeed ==
  /\ release # Nothing /\ release.at = "warming" /\ At("succeeded") /\ UNCHANGED <<service, evidence>>

\* failInferenceRelease: only the two plain profiles can be asked for again.
Fail ==
  /\ release # Nothing /\ release.at \in {"warming", "refused"}
  /\ LET b == release.before
         q == [profile |-> b.label, over |-> Nil] IN
       IF b # Nothing /\ b.label \in {"baseline", "prefix_cache"} /\ Launchable(q)
       THEN service' = Started(q) /\ At("restored")
       ELSE service' = Nothing /\ At("given up")
  /\ UNCHANGED evidence

LcTypeOK ==
  /\ service # Nothing => DOMAIN service.cfg = Fields /\ Fits(service.cfg)
  /\ release # Nothing => release.at \in {"queued", "warming", "refused", "succeeded", "restored", "given up"}

LcInit == service = Nothing /\ evidence = Nothing /\ release = Nothing

LcNext == ManualStart \/ ManualStop \/ BenchmarkRuns \/ Submit \/ Launch \/ Succeed \/ Fail

LcSpec == LcInit /\ [][LcNext]_lcVars

--------------------------------------------------------------------------------
\* A release launches the numbers of sequences and of batched tokens that ran in
\* the benchmark it cites, and prefix caching only when it ran there.
MeasuredIsReleased ==
  release # Nothing /\ release.at \in {"warming", "succeeded"} =>
    LET c == Config(release.q) IN
      /\ c.seqs = release.ran.seqs /\ c.tokens = release.ran.tokens
      /\ c.prefix => release.ran.prefix

\* No preset is refused by the agent after the previous container is stopped: the
\* lists of the server and of the agent agree on it.
PresetsLaunch == release # Nothing /\ release.at = "refused" => release.custom

\* What a failed release restores is the container it replaced.
RestoresPrevious == release # Nothing /\ release.at = "restored" => service = release.before

\* Of one release: what was measured, what is launched and what is put back.
LaunchInv == MeasuredIsReleased /\ PresetsLaunch /\ RestoresPrevious
================================================================================
