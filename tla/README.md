# Formal models of the cloud-native infrastructure platform

The platform is a Go control plane (`src/server`) over PostgreSQL, Redis, MinIO
and the Kubernetes API, a host agent (`src/agent`) that runs one vLLM container,
a Python service for AI calls (`src/apps/ai-service`) and a web console
(`src/apps/web`). On one machine with two GPUs the same hardware trains, serves
and is measured, and the control plane decides from rows in its ledger who may
start. Around that lane it rolls out images, keeps configurations, policies,
incidents, knowledge and models, answers chats, and derives metrics and
judgements from what it has measured. These modules model all of it that keeps
state or decides something, alone and together where it interacts.

Contents: [inventory](#inventory), [modules](#modules), [runs](#runs),
[bounds](#bounds), [fairness](#fairness), [what TLC found](#what-the-violation-runs-show),
[divergences met while modelling](#behaviour-met-while-modelling),
[proofs](#proofs), [not modelled](#not-modelled), [plan](#plan).

## Inventory

Paths are under `src/`; `httpx/`, `store/` and so on stand for
`server/internal/httpx/`, `server/internal/store/`.

| component | state | operations | talks to | hard part | what makes it correct |
|---|---|---|---|---|---|
| training jobs: `httpx/training_handlers.go`, `training_runner.go`, `store/training.go`, `training/client.go` | row of `training_jobs`; PyTorchJob; goroutine per job | submit (lane check, GPU check, INSERT, go), runner (create, mark, poll every tick, finish, register), cancel (delete, UPDATE) | Kubernetes API, database, model registry | three writers of one status without a lock; resources known by a name that is not unique; replies lost; restart | a pod that trains is visible in the ledger; a cancelled job is gone; registered versions have artifacts; every job settles |
| serving benchmarks: `httpx/benchmarks.go`, `benchmark_runner.go` | row of `benchmark_runs`; map `benchmarkCancels`; context and goroutine per run; the summary | create, runner, cancel; labels and best scenario | vLLM endpoint, database, MinIO | cancellation on two paths; UPDATEs on the context that is cancelled; panics; thresholds that differ from those of other judges | a completed run is whole; load is visible or told to stop; the map is exact; every run ends; the judges agree |
| inference runtime: `agent/inference.go`, `httpx/inference_runtime_handlers.go`, `agentcli/client.go` | the container; rows `inference_runtime_manual`; monitor goroutine per start | start, stop, status, each several Docker calls; monitor for 10 min; validation, defaults and label of a configuration | Docker, database | requests that interleave between Docker calls; status answered for another's container; 30 s client timeout; stop writes into rows that a monitor owns | success means: saw my own configuration ready; nobody removes what he has seen running; every start settles |
| inference releases: `httpx/inference_release_handlers.go` | rows `inference_runtime` with metadata; model version status; endpoint status; goroutine per release | submit (gate, lane, alone, capture, link, INSERT), runner (DELETE, POST, poll), failure (stop, restore, close), finish (promote, supersede, endpoint, close), take offline | agent, database | four writes without a transaction; captured state minutes old; restart in between; direct control of the same container; two lists of valid parameters | one release in production, saw itself, its model serving, what was measured is launched; failure restores; ended rows stay; every release settles |
| the GPU lane: the guards in the four above | the three ledgers and the container together | every guard reads the others' rows, then writes its own | database, agent GPU snapshot | check-then-act without a lock; readings that are stale while vLLM loads | training and inference never overlap; the container is not removed under load; the gate is about the configuration released |
| Kubernetes rollouts: `httpx/deploy_runner.go`, `ops_handlers.go`, `k8s_write_handlers.go`, `k8s/client.go` | rows of `deployments`; images, replicas, generations, HPAs of the cluster; goroutine per rollout | trigger (INSERT, read, patch, persist, poll, finish, put back), finish by hand and rollback of a row whatever its status is (of a record: both rows in one transaction; of a rollout: the new row, then the mark), scale, restart, HPA | Kubernetes API, database | rollouts of one Deployment that cross; a status read for another's generation; a row judged or rolled back beside its runner; crash with a running row | a failure puts back what it replaced; a verdict is about one's own rollout; no image is written after the verdict; the serving stack is never touched; every row settles |
| configuration center: `store/config.go`, `db/query/config.sql` | items, versions (`draft`, `active`, `archived`) | create, publish, rollback | database (READ COMMITTED) | two publications at once; numbers are not unique in the schema | there is an active version; one, for changes in turn |
| storage archiver: `httpx/storage_archiver.go`, `blob/minio.go` | rows by age, objects, manifests | sweep: read a batch, upload, DELETE older than the cutoff with the manifest in one transaction; by hand and periodically | database, MinIO | the DELETE is not limited to what was read; two sweeps at once; crash between upload and commit | every deleted row is in an object with a manifest, and counted once |
| idempotency and response cache: `httpx/idempotency.go`, `cache.go`, `cache/redis.go` | Redis keys | check, execute, store; read-through, invalidate | Redis | check-then-act; an answer computed before an invalidation stored after it; a context that ends with its client | a key executes once; no page older than the last write |
| rate limiting: `httpx/ratelimit.go`, `cache/redis.go` | token bucket in Redis | refill and take in one script | Redis | clocks of several callers; a script whose answer is lost, a Redis that fails (the request is let through) or starts empty | a burst and the rate in any stretch of time, beside what Redis did not answer for |
| routing and endpoints: `httpx/routing_handlers.go`, `routing_proxy.go`, `proxy_chat.go` | policy (mode, weights, snapshot, switch); turn counter; samples | create, update, promote, rollback, delete; pick a variant, mirror, sample; resolve an endpoint by rows | database, endpoints | read-modify-write without a version; one snapshot; rows read one by one while they change | always something to pick; rollback undoes the promotion; what is off stays off; every call sampled; turns even |
| service registry: `store/service_instance.go`, `httpx/registry_handlers.go`, `healthcheck_handlers.go`, reaper in `cmd/server/main.go` | rows with status and heartbeat time | register, heartbeat, deregister, probe, sweep | database, endpoints | a probe's verdict written after a later heartbeat or a deregistration | the dead are noticed, the living recover, nobody is revived |
| incidents and diagnosis: `store/incident.go`, `diagnose.go`, `httpx/diagnose_agent.go`, `ai_handlers.go`, `alerts.go`; `aiservice/agent.py`, `diagnose.py` | incidents, diagnoses, links, timeline; the conversation of an agent run | ack, resolve, link, ensure for a workload; tool loop with a scripted fallback; rules | database, AI service | select-then-insert; ack after resolve; a loop limit equal to the script's; a run whose client leaves | one open incident per workload; links on record; a diagnosis kept with all its evidence |
| model registry: `store/model.go`, `httpx/model_registry_handlers.go`, `blob/minio.go` | versions with status, parent, artifact; objects | register, delete, upload, lineage | database, MinIO | upload of three steps over a key made of names; parents in circles or deleted | an artifact named is stored and one's own; lineage is ancestry |
| knowledge base: `httpx/knowledge_handlers.go`, `store/knowledge.go` | documents, chunks with versions | manual document, rebuild of everything | AI service, database | text, embedding and chunks committed one by one; two rebuilds at once; sources that change; rows that a swallowed error leaves out | the index follows the text; a rebuild is current for what it has read |
| chat: `httpx/chat_handlers.go`, `chat_rag.go`, `store/chat.go`, `store/rag_feedback.go` | messages, ratings, traces | a turn (memory, retrieval, question, ask or stream, answer, trace), rating, dataset | database, endpoints | statements on the request's context; overlapping turns; a stream without a deadline | question, answer and rating stay paired; every turn is traced |
| observability: `obs/servicegraph.go`, `serving/scraper.go`, `metrics/*.go`, `alerts.go` | ring of buckets per edge; sum of the last round; last container reading | span, snapshot; round; fetch and compare; aggregate | Prometheus text, cAdvisor, database | clock read before or after the mutex; samples whose own time is dropped; restarts of counters; percentiles of few samples | what is published was really served, used, measured |
| authentication, CI, logs, topology, model lists, host agent views, web console, deployment assets | - | - | - | - | see [not modelled](#not-modelled) |

`PROJECT.json` lists the components with their status, and every place in the
code where one of these difficulties bites under `hazards`.

## Modules

| module | models |
|---|---|
| `TrainingJob` | a training job from POST to its last status |
| `BenchmarkRun` | a benchmark from POST to the last write of its runner |
| `BenchmarkVerdict` | the labels and the best scenario of a summary, the category of its diagnosis and the gate of a release, over the same numbers |
| `InferenceRuntime` | the vLLM container as one agent call sees it, direct starts and stops, the monitor |
| `InferenceRelease` (extends `InferenceRuntime`) | a release from its gate to its end, and its being taken offline |
| `GpuLane` (extends `TrainingJob`, `BenchmarkRun`, `InferenceRelease`) | the four together, every guard read from the others' state |
| `LaunchConfig` | what happens to the parameters: validation and defaults of server and agent, what a benchmark declares, what the gate compares, what is launched and restored |
| `AgentContainer` | the Docker calls behind one POST or DELETE of the agent, interleaved |
| `DeploymentLedger` | abstract: an image changes only for a rollout at work on it, to what was asked for once, back to what was found once, never after the verdict; a rollback deploys what the row it undoes had found, after marking it; the status is what whoever judged last has said |
| `ImageRollout` | rollouts with their runners, rollbacks, scaling, restart and HPA; implements `DeploymentLedger` |
| `ConfigCenter` | publication and rollback, statement by statement at READ COMMITTED |
| `Archiver` | sweeps of one table |
| `ResponseCache`, `TokenBucket` | pages and kept answers in Redis; the bucket's script |
| `Routing`, `Endpoints` | policies and routed calls; the choice of an endpoint |
| `ServiceRegistry` | registered instances, sweep and probes |
| `Incidents`, `DiagnosisAgent` | incidents and their diagnoses; the agent's loop and the script that stands in for a model |
| `Knowledge`, `Chat` | documents and chunks; the turns of a session |
| `ModelRegistry` | versions, uploads, lineage |
| `ServiceGraph`, `PodScraper`, `Cadvisor`, `TraceMetrics` | the call graph's ring, pod rates, container CPU, aggregates of traces and their alerts |
| `MCWorkloads`, `MCControlPlane`, `MCServices` | packs: several of the above side by side in one run |
| `MCTrainingJob`, `MCInferenceRelease`, `MCGpuLane`, `MCImageRollout` | instances of one module |
| `Jobs_proofs`, `InferenceRelease_proofs`, `GpuLane_proofs`, `ImageRollout_proofs`, `ControlPlane_proofs`, `Services_proofs`, `Workloads_proofs` | theorems |
| `DataLemmas` | lemmas about numbers, finite sets, sums and remainders that the proofs share |

A pack has a variable `part` that is chosen in the initial state; a behaviour
takes the steps of that part only, the others stay as they were. So a pack
checks each of its modules fully and by itself (they share no state in the
code), and costs the sum of their states, not the product. Where components do
share state they are composed for real: `InferenceRelease` on top of
`InferenceRuntime`, and `GpuLane` of the four.

How the modules correspond to the code:

- **A handler or goroutine is a program counter** (`request`, `runner`, `mPc`,
  `rRunner`, `pc`, `wAt`, `tAt`, `edit`, `call`, ...). A step goes from one call
  that leaves the process (database, Redis, MinIO, Kubernetes, agent, AI
  service) to the next; code between two calls belongs to the step of the
  first. What the code holds in local variables across calls (`verdict`,
  `previous`, `prev`, `batch`, `fresh`, `seen`, `memory`, ...) is a variable.
- **A row is its status** and those fields that later code reads. Time stamps
  are ranks, or `"fresh"` and `"stale"` when only a TTL is asked.
- **A transaction is one step**, except in `ConfigCenter` and `Incidents`, where
  the interleaving of its statements at READ COMMITTED matters.
- **An UPDATE whose error the code drops** either takes effect or, with `"db"`
  among the faults, does not.
- **A call of another system** takes effect or not and answers or not: with
  `"lost_reply"` it takes effect and the caller is told that it failed.
- **A context that ends** (`ctxDone`, `"leaves"`) makes the later statements on
  it fail; one that is under way at that moment may do either.
- **A deadline** is a step of its own (`RunnerLate`, `MonitorLate`,
  `ReleaseLate`, `RunnerPollLate`) that may come at any time while the loop runs.
  Clocks appear only where the code computes with them (`TokenBucket`,
  `ServiceGraph`, `Cadvisor`).
- **A restart** ends every handler and goroutine and empties the maps, and
  leaves rows, objects, cluster and container. The code has no recovery on
  startup.
- **Guards on other components are parameters** of the component's actions
  (`SubmitLaneCheck(j, BenchmarkActive)`), which `GpuLane` supplies.
- **Mutants** stand before the definition they vary, marked `Mutant`; no
  specification uses them.
- **Ghost variables** (`overlap`, `doubled`, `together`, `excused`, `raced`,
  `crossed`, `mixed`, `stray`, `reordered`, `open`, `missed`,
  `torn`, `lost`, `cut`) record that
  something happened for which the code makes no promise: two transactions that
  overlap, a client that left, a failed statement, an error that is swallowed. Properties exempt exactly
  those rows and requests, not the whole behaviour, so that what overlapped
  once must be right again after the next change that did not.

What a module abstracts from, beside texts and layouts:

- `ImageRollout`: the resource version of an object (a patch never conflicts);
  phases and texts in the metadata of a row.
- `ServiceRegistry`: the probe of a row that is itself a router, which probes an
  endpoint chosen by `resolveEndpoint` and writes the same verdicts. `Endpoints`: a
  request for a row by its own name that is not there (404) or has no address
  (400), which reads one row and decides nothing.
- `InferenceRuntime` makes one step of an agent start, with an outcome for
  every Docker call at which it may stop; `AgentContainer` shows these calls
  interleaved.
- `LaunchConfig`: eight fields of the configuration; each of the others is
  checked against a list of its own just as `seqs` and `tokens` are.
- `Knowledge`: the LIMITs of the listings; a text is the number of a state of
  what it describes. Manual documents are distinct from derived ones.
- `Routing`: lists, reads and statistics. `ModelRegistry`: an artifact address
  given at registration; the status of a version, which `InferenceRelease` has.
- `TraceMetrics`: alerts on GPUs and instances, which are thresholds of one
  reading each.

## Runs

Twelve runs; states are distinct states found. Most properties are
conjunctions, so that one name stands for what one component promises; the
parts are defined, with a comment each, just before it.

| run | question | properties (parts) | states |
|---|---|---|---|
| `Workloads` | jobs and what is measured of them | `TrainingInv` (`TrainingIsVisible`, `CancelledIsGone`, `RegisteredHasArtifact`), `EndedStaysEnded`, `BenchmarkInv` (`CompletedIsWhole`, `LoadIsVisible`, `CancelsAreLive`, `CancelReachesRunner`), `ManualSawItself`, `LaunchInv` (`MeasuredIsReleased`, `PresetsLaunch`, `RestoresPrevious`), `JudgesAgree` (`VerdictsAgree`, `BestIsAcceptable`, `GateIsJust`), `AggregatesInv` (`ErrorHasCulprit`, `QuantilesAreInOrder`), `QpsIsEarned`, `WindowIsExact`, `CpuIsEarned`, `TypeOK` | 902 000 |
| `ControlPlane` | components with records of their own | `ConfigInv` (`CurrentIsActive`, `OneVersionInForce`), `IncidentInv` (`OneIncidentPerWorkload`, `LinksAreOnRecord`), `ArchiveInv` (`NothingLost`, `CountedOnce`), `ChoiceInv` (`AutoFindsAvailable`, `TurnsAreEven`), `CacheInv` (`PageIsCurrent`, `OncePerKey`), `RateIsBounded`, `IndexInv` (`IndexFollowsText`, `RebuildIsCurrent`), `ModelInv` (`LineageIsAncestry`, `ArtifactIsStored`, `ArtifactIsOwn`), `SlotInv` (`AnswersAreOwn`, `SeenIsSpared`), `TypeOK` | 1 423 000 |
| `Services` | services under fair schedulers | `HealthIsFollowed` (`RowsAreRegistered`, `DeadIsNoticed`, `AliveRecovers`), `PolicyIsKept` (`AlwaysPickable`, `RollbackUndoes`, `StaysOff`), `EveryCallIsSampled`, `ChatInv` (`QuestionIsOwn`, `TurnIsAnswered`, `QuestionIsShownOnce`), `EveryTurnIsTraced`, `DiagnosisIsKept` (`EvidenceIsComplete`, `ScriptCollectsFirst`, `EveryAgentRunIsKept`), `TypeOK` | 155 000 |
| `ImageRollout` | a rollout of a Deployment and the one that undoes it, every fault | `RolloutInv` (`RTypeOK`, `FailurePutsBack`, `PreviousIsReplaced`), `RolloutSteps` (`VerdictIsOwn`, `ServingIsLeftAlone`), `ImplementsLedger`, `EveryRolloutSettles` | 85 000 |
| `InferenceRelease` | three releases in turn, restarts | `ReleaseInv` (`RelTypeOK`, `OneSuccess`, `ReleaseSawItself`, `ServingMatches`), `FailedRestores`, `ReleaseStaysEnded` | 333 000 |
| `InferenceReleaseLive` | a release against direct control | `EveryLaunchSettles` (`EveryReleaseSettles`, `EveryStartSettles`) | 372 000 |
| `GpuLane` | the lane, one operator, a restart | `LaneInv` (`LaneExclusive`, `GpuExclusive`, `GateIsAboutConfig`), `LoadKeepsRuntime` | 1 080 000 |
| `GpuLaneLive` | the lane never stays blocked | `EveryJobSettles`, `EveryRunEnds` | 148 000 |
| `TrainingJobOrphan` | | `CancelFreesGpu`, violated | |
| `InferenceReleaseScheduler` | | `FailedRestoresAny`, violated | |
| `ArchiverLimit` | | `NothingLost`, violated | |
| `GpuLaneConcurrent` | | `LaneExclusive`, violated | |

Every property of a passing run is violated when one named definition is
replaced by its mutant (`PROJECT.json`, `mutants`), so none holds by the shape
of the model.

`CHECK_DEADLOCK FALSE` everywhere: jobs, runs, releases and requests come to an
end and their number is bounded, so every behaviour may stop.

### The refinement

`ImageRollout` implements `DeploymentLedger` with `status`, `image` and `undoes`
mapped to themselves, the fields of a row to `place`, `asked` and `kept`, what the
runner has read to `found`, and the program counter of its runner to `at`, the
phase it is in (`Progress`): the polls, both deadlines, lost replies, panics and
restarts are steps of the ledger or stutter. `DeploymentLedger` says what the page of
deployments may rely on:

- an image is written only for a rollout at work on that workload: what was asked
  for, once, and from then the image it had found, once; nothing after its verdict;
- a runner says `success` only of a rollout it has not put back;
- a rollback rolls out what the row it undoes had found, and touches nothing
  before that row is marked.

It promises nothing about the order of statuses, because the code keeps none:
`finishDeployment`, `rollbackDeployment` and `Store.RollbackDeployment` look at no
status, so a row may be judged again or rolled back while its runner is at work, and
the runner's verdict is written over what they wrote.

### Disciplined use

The code is not correct for every order of requests, so the safety runs state
for which it is. The limits are constants, and each is needed: change the
constant in the run's `.cfg`, and TLC finds the property violated (where two names
or configurations are to be one, the `MC` module needs a definition that says so).

| run | limit | without it |
|---|---|---|
| `Workloads` | `CancelFrom` excludes `"pending"` | `CancelledIsGone`; `CancelFreesGpu` (run `TrainingJobOrphan`); `EndedStaysEnded`: the runner's unconditional write of `running` revives a cancelled row |
| `Workloads` | `NameOf <- OwnNames` | `RegisteredHasArtifact`: with one name for both jobs a job takes the success of a later submission for its own |
| `Workloads` | no `"lost_reply"` in `Faults` | `TrainingIsVisible`: the row is failed, the resource trains |
| `Workloads` | `BCancelFrom` excludes `"queued"` | `CancelReachesRunner`: the row is inserted before the cancel function is stored |
| `ControlPlane` | `BatchLimit = MaxRow` | `NothingLost` (run `ArchiverLimit`) |
| `ControlPlane` | `AckFrom` excludes `"resolved"` | `OneIncidentPerWorkload`: acknowledging a resolved incident opens it again beside the one that took its place |
| `ControlPlane` | `MaxDelay` is at most 2 ticks | `RateIsBounded`: with `MaxDelay = 3`, `Cost = 2`, `Burst = 2`, five hits and `MaxTime = 12` the key, which lives as long as a bucket takes to fill and one second (`cache/redis.go:44`), expires before the last request that was stamped early, and what has been forgotten is granted again |
| `ControlPlane` | `Targets` names each target once | `TurnsAreEven`: the round robin counts places, and a name given twice gets two turns |
| `InferenceRelease` | `StopFrom` excludes `"running"` | `ReleaseStaysEnded` and `OneSuccess`: the runner lives on and finishes over the operator's `rolled_back` |
| `InferenceRelease` | `Overlap = FALSE` | `FailedRestores`: an operator's stop removes the container that a failing release has just restored |
| `InferenceRelease` | no `"db"` in `RtFaults` | `ServingMatches`: the UPDATE that marks the model is lost and the release still ends as a success |
| `InferenceRelease` | neither `"agent"` nor `"docker"` in `RtFaults` | `FailedRestores`: the call that restores fails too |
| `Workloads` | `Overlap = FALSE` | `ManualSawItself`: the monitor of one start takes the ready container of another for its own |
| `GpuLane` | `Concurrent = FALSE` (one request at a time) | `LaneExclusive` (run `GpuLaneConcurrent`) |
| `GpuLane` | `Overlap = FALSE` (starts wait until a runtime or release has settled) | `GpuExclusive`: the memory check passes while vLLM is still loading; `LoadKeepsRuntime`: a benchmark is created between a release's admission and its DELETE |
| `GpuLane` | no `"agent"` in `RtFaults` | `GpuExclusive`: an agent that does not answer counts as no memory in use, and a training job is let in beside a loaded model |
| `GpuLane` | `Core <- OwnCore` | `GateIsAboutConfig`: the gate compares three parameters only, so a benchmark of one configuration admits a release of another with the same three |

### What the violation runs show

1. `TrainingJobOrphan`: DELETE while the row is `pending` finds no PyTorchJob (not
   found counts as deleted). Before its handler writes `cancelled`, the runner
   creates the PyTorchJob and marks the row `running`; then `cancelled` is
   written, and the runner reads it at its next tick and returns without
   deleting. The GPUs stay taken by a job the ledger calls cancelled. (In the
   other order, `cancelled` before the runner marks the row, its unconditional
   UPDATE revives the row and the runner goes on: that is the case which
   `CancelFrom` keeps from `EndedStaysEnded`.)
2. `InferenceReleaseScheduler`: the agent reports a scheduler configuration
   under its label `scheduler-tp..-pp..`, and `runtimeRequestForRestore` accepts
   the name `scheduler` only: when a release fails over such a runtime nothing is
   restored.
3. `ArchiverLimit`: with more expired rows than one batch, a sweep uploads the
   batch and its DELETE takes every row before the cutoff.
4. `GpuLaneConcurrent`: two requests read each other's table before either has
   inserted its row, and a training job and a benchmark are active together.

### Behaviour met while modelling

The models contain the following; no document or comment of the repository
forbids it, so no run claims a violation. The properties are stated for the
rows and requests it does not concern.

- Release A succeeds, B fails and A is restored: A is in production, but B's row
  was started last and taking A offline is refused
  (`inference_release_handlers.go:607`).
- A container not labelled with a preset is replaced by a release whose failure
  leaves nothing running; a declaration without `prefix_caching` counts as
  false; the agent validates a custom request after the old container has been
  stopped (`LaunchConfig`).
- A row of deployments is finished by hand or rolled back whatever its status is:
  one that has ended is ended again, and a row whose runner is at work is
  overwritten by that runner's verdict (`ops_handlers.go:210-295`,
  `store/deployment.go:47-73`; `ImageRollout`).
- The agent answers 200 or 202 also when its last look at the container fails: the
  status is `error` and the configuration that of the default profile, whatever
  runs (`agent/inference.go:410-415, 546, 557`). `SlotInv` is about the answers
  that do not say so (`AgentContainer`).
- Two POSTs to the agent that overlap may be answered with one another's
  container; one sent while an abandoned removal goes on may be answered 202 for
  the container being removed (`AgentContainer`).
- Two publications that overlap get the same number and both are active; a
  rollback to that number activates both (`ConfigCenter`).
- Two diagnoses of one workload that overlap open two incidents (`Incidents`).
- A second promotion overwrites the snapshot of the first; promoting a policy
  deleted meanwhile is recorded as a success; an update that was loaded before a
  switch-off and leaves the switch out turns the policy on again (`Routing`).
- A round robin ignores the status of its targets, and an automatic router whose
  round robin has no target answers 404 though other candidates are there
  (`Endpoints`).
- A page computed before a write is stored after its invalidation; two POSTs
  with one key that overlap both run; invalidation and the kept answer are lost
  with the client (`ResponseCache`). Time stamps that reach Redis out of order
  are credited twice; a request that Redis does not answer for is let through
  (`cache/redis.go:122-131`), and a Redis that starts again has full buckets, for
  it keeps nothing on a disk (`TokenBucket`).
- A failed embedding leaves the new text over the old chunk, two replacements of
  one document leave two chunks, a slower rebuild overwrites a newer one, and
  chunks of a former version stay. A rebuild answers `rebuilt` also when the
  training jobs could not be read, or a list broke off before its end
  (`knowledge_handlers.go:199, 224, 226-240`; `Knowledge`).
- cAdvisor answers with its last sample, taken every 5 to 10 s
  (`deploy/observability/cadvisor.yaml:29-30`); `metrics/cadvisor.go` drops the time
  of that sample (`:20`) and divides by its own clock (`:104`), so two requests a
  second apart may show the CPU time of ten as that of one (`Cadvisor`).
- A turn whose client left loses its answer; overlapping turns pair an answer
  with the other's question; a stream without a token is kept as an empty
  message (`Chat`).
- The loop of the agent and the script have the same limit, so a scripted run
  always ends by the forced ask; without the agent mode a failed model call is
  stored as a completed diagnosis (`DiagnosisAgent`).
- An upload for a row deleted meanwhile answers 200, may overwrite the object of
  its successor, and objects of deleted versions stay (`ModelRegistry`).
- A pod that misses one round makes the next rate jump by all it has ever
  counted (`PodScraper`). The p95 of all requests may exceed that of each
  endpoint (`TraceMetrics`).

## Bounds

| constant | value | why it is enough |
|---|---|---|
| `Jobs`, `Runs`, `Manuals` | 2 (1 in `GpuLane*`) | every interaction of two rows: names, the lane, one cancelled while another runs |
| `Releases` | 3 in turn | the third sees a previous release that itself replaced one, and a preset returns after a scheduler configuration |
| `Configs` | a preset and a scheduler one | the two kinds that the restore distinguishes |
| `Scenarios`, `Plan` | 2 (1 in `GpuLane*`) | a cut in the first, between the two, in the last; one scenario better than the other |
| `MaxCrashes`, `BMaxCrashes`, `RtMaxCrashes` | 1 | after a restart only rows and resources are left and new rows start from there. The other modules need no bound: a restart ends what is under way and rows are few |
| `Rows` (rollouts), `Offered` | 2; images are offered for the first | a rollout and the row that undoes it, which may run beside it and cross it; `Images` 3: before, asked, broken. That any number of rollouts may cross is in the proofs |
| `Judged`, `ScaleTo` | the first row, 0 | who judges by hand writes a row that has ended, one at work, and one that is being undone; a workload scaled to zero is complete without a pod, and an autoscaler moves the count of one that is not; either writes a generation that no runner has asked for |
| `Txs` | 3 | two publications that overlap and a rollback after them |
| `Ids`, `Diagnoses` | 3, 2 | two open incidents of a workload and a third after both are resolved |
| `MaxRow`, `BatchLimit`, `Sweeps` | 3, 3, 2 (3, 2, 1 in `ArchiverLimit`) | rows written before, between and after two cutoffs; in `ArchiverLimit` the third row is beyond the limit |
| `Posts`, `Gets` | 3, 2 | two POSTs of a key and one beside them; a page read across a write |
| `Hits`, `MaxTime`, `BucketFaults` | 3, 4, `{"redis"}` | with `Burst` 1 and `Cost` 2, more requests than a burst, time for two refills and for the key to expire; a script that runs without an answer, a request let through, a Redis that starts again |
| `Edits` | 4 | promotion, a second one, update and rollback |
| `Writers`, `MaxText`, `OtherDocs` | 2, 2, 1 | two rebuilds or a rebuild and a manual document, each of an old and a new text; the second list is read whole or not at all |
| `Turns`, `MemoryLimit` | 2, 2 | a turn that is shown another, or that overlaps it |
| `MaxAgentSteps`, `StubMaxTools` | 2, 2 | the code has 5 and 5: what matters is that they are equal and that the list of tools is longer |
| `MaxAttempts` | 2 of 20 | one conflict, and giving up |
| `Window`, `LastSecond` | 3 of 60, 6 | every bucket is used twice |
| `MaxSpans`, `MaxServed`, `TraceLimit`, `MaxRows` | 3, 2, 3, 4 | a bucket with two spans, a counter that falls below its last value, a row beyond the limit |
| `LastTick`, `MaxFetch`, `MaxAge` | 4, 1, 1 | two snapshots that overlap and reach the mutex in either order, with a third after them; a sample of this tick or the last, in an answer of this tick or the last |
| `Rates`, `Memories`, `Ttfts`, `Tpots` | 3, 3, 3, 2 values | on both sides of every threshold that the four judges use |

Counters beside these (`rank`, `done`, `turn`, generations) are bounded by the
number of rows and requests that move them.

## Fairness

Safety is checked without fairness. The liveness properties assume weak
fairness of what a goroutine does next, of its deadline, and of the rest of a
handler that has begun: goroutines are scheduled and every call they make has a
timeout (30 s for the agent, 120 s for a request of a benchmark, the context of
a handler). Nothing is assumed of operators, of the outcome of a training job,
of vLLM becoming ready, of an image that starts, or of the agent or the cluster
being reachable.

- `JFairness`, `BFairness`, `RtFairness`, `RelFairness`: the four of the lane.
  `GpuLaneLive` uses those of the components unchanged: the lane restricts what
  starts, not what has started. Restarts and failing UPDATEs are left out of
  these runs, since the code does not recover from them: a row whose goroutine
  died stays active until somebody acts on it.
- `RFairSpec`: the runner of a rollout, `RunnerStep`, of which the first tick after
  the deadline is one. Restarts and failing
  statements stay in; the rows they strike are those of the ghost variable
  `lost`, and the property is about the others.
- `MCServices!Fairness`: the reaper's ticker (`Sweep`), the passing of a TTL, the
  timeouts of probes, the handlers of calls (`Resolves`, `Collect`), turns and
  agent runs. That instances send heartbeats (`Heartbeat`) is what a client of the
  registry is required to do; the property is about those that do. A routed call
  or a stream has no overall deadline in the code (`proxy_chat.go:80`): that its
  client leaves in the end (`CallerLeaves`, `ChatClientLeaves`) is an assumption
  on clients, and what ends it; then the context cancels the request to the
  upstream (`CutOff`, `StreamBreaks`).

A poll that learns nothing new is a stuttering step, so weak fairness of a
polling runner asks for a different answer as long as one is possible. The
liveness run of releases therefore leaves out `"docker"`, with which the agent
may answer `error` at any time: without it a runtime that loads forever gives the
runner the same answer forever, and only the deadline ends the wait.

## Proofs

| theorem | assumption | property |
|---|---|---|
| `Jobs_proofs!JTypeCorrect` | none | `JTypeOK` |
| `Jobs_proofs!JTraining`, `JEnded` | `Disciplined` | `TrainingInv`, `EndedStaysEnded` |
| `Jobs_proofs!BenchmarkHolds` | `StartedOnly` | `BTypeOK`, `BenchmarkInv` |
| `InferenceRelease_proofs!ManualHolds` | `~Overlap` | `RtTypeOK`, `ManualSawItself` |
| `InferenceRelease_proofs!ReleaseHolds`, `ReleaseEnds` | `Settled` | `ReleaseInv`, `ReleaseStaysEnded` |
| `InferenceRelease_proofs!RestoreHolds` | `Settled`, `CallsLand` | `FailedRestores` |
| `GpuLane_proofs!LaneImplements` | `~Concurrent`, `~Overlap` | `JSpec`, `BSpec`, `RelSpec` of the lane |
| `GpuLane_proofs!LaneHolds` | `OneOperator`, `CoreIsWhole` | `LaneInv` |
| `GpuLane_proofs!LoadHolds` | these, and a Docker that answers | `LoadKeepsRuntime` |
| `ImageRollout_proofs!RefinesLedger` | none | `ImplementsLedger` |
| `ImageRollout_proofs!RolloutHolds`, `RolloutStepsHold` | none | `RolloutInv`, `RolloutSteps` |
| `ControlPlane_proofs!ConfigHolds` | none | `ConfigInv` |
| `ControlPlane_proofs!IncidentHolds` | `NoReopening` | `IncidentInv` |
| `ControlPlane_proofs!ArchiveSafe` | `OneBatch` | `ATypeOK`, `ArchiveInv` |
| `ControlPlane_proofs!CacheHolds`, `SlotHolds`, `ModelHolds`, `IndexHolds` | none | `CacheInv`, `SlotInv`, `ModelInv`, `IndexInv` |
| `ControlPlane_proofs!BucketHolds` | `AnswersInTime` | `RateIsBounded` |
| `ControlPlane_proofs!ChoiceHolds` | `EachTargetOnce` | `ChoiceInv` |
| `Services_proofs!PolicyHolds`, `ChatHolds` | none | `PolicyIsKept`, `ChatInv` |
| `Services_proofs!RegistrationHolds` | none | `RowsAreRegistered`, `GTypeOK` |
| `Services_proofs!DiagnosisHolds` | none | `EvidenceIsComplete`, `ScriptCollectsFirst` |
| `Services_proofs!ServicesKeepTypes` | `~Valid(NoVariants)` | `MCServices!TypeOK` |
| `Services_proofs!PartsHold` | none | the safety of the four parts, of `MCServices!Spec` |
| `ControlPlane_proofs!ControlPlaneKeepsTypes` | `FiniteRequests` | `MCControlPlane!TypeOK` |
| `ControlPlane_proofs!ControlPlaneHolds` | those of its parts | the safety of the nine parts, of `MCControlPlane!Spec` |
| `Workloads_proofs!VerdictHolds`, `LaunchHolds` | none | `JudgesAgree`, `LaunchInv` |
| `Workloads_proofs!QpsHolds`, `WindowHolds`, `CpuHolds`, `AggregatesHold` | none | `QpsIsEarned`, `WindowIsExact`, `CpuIsEarned`, `AggregatesInv` |
| `Workloads_proofs!WorkloadsKeepTypes` | `NumbersAreBounds` | `MCWorkloads!TypeOK` |
| `Workloads_proofs!WorkloadsHold` | `Disciplined`, `StartedOnly` | the safety of the parts but the direct starts, of `MCWorkloads!Spec` |

They hold for any set of rows, requests, names, images or sweeps, any number of
restarts and any subset of the other faults; "none" is none beyond the `ASSUME`s
of the module, which type its constants and say that a list of tools names each
once. The other assumptions are the limits of
[disciplined use](#disciplined-use), as predicates on the constants:

- `Disciplined`: distinct names, no cancellation of a pending row, no lost reply;
- `StartedOnly`: nobody cancels a run whose row still says `queued`;
- `Settled`: no overlapping starts and stops, a running release is not taken
  offline, UPDATEs go through; `CallsLand`: the agent and Docker answer;
- `OneOperator`: one request at a time, `Disciplined`, `StartedOnly`, `Settled`
  and an agent that answers; `CoreIsWhole`: the three parameters that the gate
  compares tell the configurations apart;
- `NoReopening`: a resolved incident is not acknowledged;
- `OneBatch`: the table has no more rows than a batch;
- `AnswersInTime`: a script of the bucket runs, or its caller gives up, within two
  ticks of its stamp;
- `EachTargetOnce`: the targets of a round robin are distinct;
- `~Valid(NoVariants)`: the value that stands for the absence of a list of
  variants is not a list that a call could pick from;
- `FiniteRequests`: transactions of the configuration center, requests that are
  proxied, and POSTs are finitely many. Their number bounds a counter in the
  type of the module; nothing else rests on it;
- `NumbersAreBounds`: the constants that end a run of the meters (`MaxServed`,
  `MaxRestarts`, `MaxSpans`, `LastTick`, `LastSecond`) are natural numbers.

`ControlPlaneKeepsTypes` and `WorkloadsKeepTypes` hold without any of the limits
on use: also when a queued benchmark is cancelled, direct starts overlap, a
resolved incident is acknowledged, or a table outgrows a batch.

The arguments, each an inductive invariant with one lemma per group of actions
and, in the theorem, the cases of the next-state relation:

- **`TrainingJob`**, `JInv`. `OwnerInv`: a resource belongs to the job of its
  name, and one that succeeded has uploaded. `RowInv`: the row exists exactly
  from the moment its runner does. `StartInv`: a runner that has not created its
  resource finds its name free and its row as it was inserted; this is where the
  discipline enters. `CancelInv`: between the two steps of a cancel the resource
  is gone for good. `VerdictInv`: what the runner is about to write is true of
  its own resource. `TrainingIsVisible` is not inductive by itself: it needs
  `VerdictInv` to know that a runner about to write `failed` is not writing over
  a pod that trains, and `CancelledIsGone` needs `StartInv` and `CancelInv`.
- **`BenchmarkRun`**, `BInv`. `BStartInv`: nothing is cancelled before its
  goroutine runs. `BLoopInv`: until its matrix is finished a runner has an
  active row or was told to stop, and only one that was told has cut a scenario
  short. `BWholeInv`: what is about to be recorded as completed is whole.
  `BMapInv`: the map holds the live runs.
- **`InferenceRuntime`**, `RtInv`. `ManualInv`: from its POST to its verdict a
  start finds its own configuration in the container or none, so that the
  `ready` it reads is its own; `OneStart` keeps the others away.
- **`InferenceRelease`**, `ReleaseIInv`. `AloneInv`: one request at a time, and a
  release at work excludes direct control. `RankInv`: the running row is the
  latest, which is what the UPDATE that supersedes and the check before taking
  offline look at. `ProgressInv` ties row, request and runner, `RelVerdictInv`
  says what a verdict rests on, and `ProductionInv` that the row about to be
  superseded is the only one in production; `OneSuccess` follows.
  `RestoreInv` is relative to it: a release restores into an empty place, and
  what it restored stays until its row is closed.
- **`GpuLane`**, `LaneIInv`. The first step is the refinement: every step of the
  lane is a step or a stutter of each component (`LaneImplements`), so the three
  invariants above carry over. `LedgerInv` and `GpuInv` then say that what a
  guard has read of the other ledgers, or of the GPUs, stays true until its row
  is inserted: the check-then-act that `RequestInv`, one request at a time, makes
  safe. `LoadInv` says the same of those who would remove the container, and
  `GateInv` that the benchmark behind a release stays completed.
- **`ImageRollout`**, `RolloutIInv`. `RunsInv`: who is at work rolls out what a
  client or a rollback asked for, and who may have to put an image back knows
  one. `GuardInv`: what is rolled out, or driven by an autoscaler, has passed the
  guard, also through the row that a rollback copies. `PutBackInv` follows the image
  from the read of the runner to its last write, for rows that no other has
  crossed, and `CountsInv` says whose image the counts of an observed generation
  are about. The refinement needs `RowsInv` besides: a row without a rollout names
  no workload and no image, and a runner that has not read knows no image. Then
  every step is one of the ledger by the phases before and after it (`Phases`,
  `ProgressStep`, `ProgressSame`, `ProgressLeave`), in four groups: requests
  (`HandlerRefines`), what a runner does that shows (marks, reads, patches, puts
  back: `RunnerRefines`), what does not or keeps the metadata (`WatchRefines`), and
  ends (`EndRefines`).
- **`ConfigCenter`**, `ConfigIInv`. A transaction that waits has read all that is
  committed unless another committed since (`CAloneInv`); its number is higher
  than every number, or its target is on record.
- **`Incidents`**, `IncidentIInv`. Of a workload never diagnosed twice at once,
  what has been looked for and not found is still not there (`OneInv`).
- **`Archiver`**, `AInv`. `BatchInv`: between its SELECT and its DELETE a sweep
  holds every row before its cutoff but for those another sweep has archived.
  This is the fact that fails beyond the batch limit. `MovedInv`: a manifest's
  rows leave the table in its transaction. `SoleInv`: of sweeps that do not
  overlap, one holds rows, and none that are archived.
- **`ResponseCache`**, `CacheIInv`. A key whose answers were all kept has one
  request under way, and has run, or kept, or is about to (`OnceInv`).
- **`TokenBucket`**, `RateIInv`. The potential: of every stretch of time that
  reaches to the last stamp, what was granted and what is left are paid by a
  burst and the rate; an expired key is as old as a full bucket takes. Only time
  since the last start of Redis counts (`born`). A script that runs without an
  answer takes a token and grants nothing, which keeps the potential, and what is
  let through without one (`open`) is counted beside it.
- **`AgentContainer`**, `SlotIInv`. `SoloInv`: who has met nobody is alone, so
  that what it created stays and what it removed is gone (`OwnInv`), and the last
  status that could be read is of that (`ToldInv`); `SparedInv` says who may remove at all.
- **`ModelRegistry`**, `ModelIInv`. An object is of the row that has its name
  from the moment it is put (`HeldInv`), unless the row it was put for is gone.
  That `LineageChain`, a recursive function, returns the ancestry follows from a
  measure: the versions not seen yet, a finite set.
- **`Endpoints`**, `EIInv`. `TurnInv`: the targets from some place of the circle
  to the one whose turn it is are one turn ahead of the others, through rows
  that come and go.
- **`Knowledge`**, `KbIInv`. What a writer has written of its document is what it
  is about to chunk (`RequestOK`), no writer still holds a text older than a
  rebuild found in the rows it has read (`CurrentOK`; the others are `missed`), and a document at rest has its one chunk
  (`IndexOK`); requests on the same documents are mixed (`MixedInv`).
- **`Routing`**, `PolicyIInv`: a change was accepted for the row as it is unless
  it was overtaken. **`Chat`**, `ChatIInv`: order and ownership of the messages
  in the log, and that a turn which overlapped no other is alone.
- **`DiagnosisAgent`**, `AgentIInv`. `LoopInv`: the trace is the conversation.
  `ScriptInv`: the call that the script asks for is the only one of its answer
  and is not in the conversation; while nobody else has called a tool, the
  conversation is a prefix of the list of the tools, so that the first tool not
  called yet is the next one.
- **`MCServices`**: a step of the whole is a step of one part and a stutter of
  the others (`StepOfAPart`), so that a behaviour of the whole is one of every
  part. `MCControlPlane` (`StepOfOnePart`, `BehavioursOfParts`) and `MCWorkloads`
  (`StepOfAWorkload`, `BehavioursOfWorkloads`) likewise, which is why
  `ControlPlane_proofs` and `Workloads_proofs` extend the packs themselves.
  `ManualSawItself` is proved of `RtSpec` by `ManualHolds`, and by
  `BehavioursOfWorkloads` a behaviour of the pack is one of `RtSpec`; the two
  modules of proofs cannot be extended by one, for the models below them both
  name something `Latest` and `previous`.
- **The types of the packs.** Most conjuncts are inductive by themselves; those
  that bound a counter are not, and rest on an invariant that counts. No version
  number is more than one above the transactions that have published
  (`CountInv`); the round robin's turn is at most the number of requests that
  have gone through (`ListTypes`); the version of the data is at most that of the
  POSTs that have written. What a bucket holds is at most the spans recorded
  (`GraphTypes`), and what a round publishes is at most the number of pods times
  what one may serve (`SumBound`). `BenchmarkTypes` and `RuntimeTypes` do without
  the discipline of `BenchmarkHolds` and `ManualHolds`: a scenario under way is
  one of the plan whatever was cancelled, and a monitor that closes has a verdict
  whoever else starts. `LaunchTypes`: whatever is launched or restored is a
  whole configuration.
- **`BenchmarkVerdict`** and **`LaunchConfig`**: what the judges compute of any
  list of scenarios, and validation and defaults of any request, case by case.
- **`PodScraper`**, `QpsIInv`. The last sum is the sum of what some reading of
  each pod said (`Made`), and no pod's reading runs ahead of what it served.
  **`ServiceGraph`**, `GraphIInv`: bucket `i` of an edge counts the spans of the
  one second in the window that is `i` modulo its length. **`Cadvisor`**,
  `CpuIInv`: a reading lags behind its clock by at most the age of a sample and that
  of an answer (`Sound`), and any two under way are in step but for that lag.
  **`TraceMetrics`**: quantiles lie where their rank puts them, and a rate of
  the whole is no more than the rate of its worst part.

Induction over data is made first-order in `DataLemmas`: the induction theorems
of the library take an operator as a parameter, which the provers cannot
instantiate, so the lemmas there take the set of what the induction is to show
and rest on least elements of well-founded orders (`LeastNumber`,
`EveryNumber`, `EveryFiniteSet`). That the recursive sum over a finite set
exists, and adds up over classes (`SumOfParts`), is proved that way.

Only model-checked:

- liveness (`EveryJobSettles`, `EveryRunEnds`, `EveryLaunchSettles`,
  `EveryRolloutSettles`, `EveryCallIsSampled`, `EveryTurnIsTraced`, and,
  of `HealthIsFollowed` and `DiagnosisIsKept`, the parts that are liveness):
  it rests on fairness, and with it on `ENABLED`, which the prover does not
  support;
- the four violations, which are counterexamples.

## Not modelled

In modelled components: the panic handlers of `runTrainingJob` and
`runInferenceRelease` (nothing in these bodies is known to panic; a panic of a
benchmark and of a rollout is modelled, for their runners report it); what a
worker of a benchmark measures of one request, whose scenario is one step that
may be cut; validation of requests, which ends a request without a trace, but
for the guards on workloads and the parameters of a launch, which decide what
happens later; lists, logs and views, which change no state.
`OfflineCheck` and `ReleaseLaneCheck` merge guards that are read one after the
other where nothing in between can change the outcome that matters.

Components without a module:

- authentication: parsing of tokens and checks of roles, without state;
- CI integration, logs, topology, model lists: read-only views and one call of
  GitHub;
- the agent's views of host, GPU and Kubernetes: read-only probes; the staleness
  of the GPU reading appears in `GpuLane` as `MemoryReadings`;
- the scoring and ranking of retrieval, prompts and texts: numbers about text;
- exporters and tracing set-up: libraries;
- web console, deployment assets, scripts: presentation and manifests.

## Plan

The modules, runs and theorems planned are there. Every safety and action
property of a passing run is stated by a theorem; what stays with TLC alone is
liveness.

One thing was considered and left: a refinement of the one-step agent of
`InferenceRuntime` by `AgentContainer`, for requests that do not overlap. With a
Docker that fails at any call the one-step agent allows every change of the
container that the detailed one makes, and the two differ in the answer only,
whose agreement with the container is what `SlotInv` says and `SlotHolds`
proves. A refinement that says more would tie the answer of the detailed agent
to the moment at which its last Docker call took effect, which takes a history
variable that neither the code nor another property needs.
