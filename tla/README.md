# A TLA+ model of JakeAI's backend

JakeAI is a FastAPI backend (`src/backend/app`) with a web console in front of
it. Its core is an agent runtime that plans a task, executes the plan's steps
with language models and tools, stops for human approval before a dangerous
tool, checkpoints what it has done and resumes after a pause or a restart.
Around it are a metered gateway to model providers, a multi-agent chat, a
background ingestion queue and the guards every request passes. This directory
specifies them in TLA+, checks them with TLC and proves most of what the checks
show with TLAPS, for every value of the constants.

Paths below are relative to `src/backend/app` unless they start with `src/`.

## 1. Inventory

### The agent runtime

| part | state | operations | hard because |
|---|---|---|---|
| Execution engine, `agent/execution/engine.py` | run status, live plan, its last dump `run_state.plan`, accumulated outputs, revision count, pre-approved steps | `execute_task`, `_run_execution_loop`, `_execute_single_step`, `resume_run` | steps run concurrently on one plan and one status; crash, interruption, resumption; nested budgets |
| Recovery, `agent/recovery/recovery.py` | none (counters live in the step) | `evaluate_step_failure` | budgets reset one another and survive resumptions |
| Planner, `agent/planning/` | none | plan, `parse_structured_plan`, `replan` | called on a plan that is under execution |
| Registry and selector, `agent/registry/` | table of agents | `select_agent_async` | decides again after recovery has decided |
| Verifier, `agent/verification/verifier.py` | none | `verify_execution` | its own revision limit beside the engine's |
| Approvals, `agent/approvals/` | records in process memory | `create_request`, `get_request`, `decide`, policy | records die with the process while the runs that wait for them do not |
| Checkpoints, `agent/state/checkpoint.py` | a process-memory table and Redis keys | `save_checkpoint`, `load_checkpoint`, `resume_run_from_checkpoint` | Redis failures are swallowed; two tiers disagree |
| State machines, `agent/state/models.py` | `RunState.status`, `TaskState.status` | a checked write on every assignment | a refused write raises in the middle of its caller |
| Runtime, `agent/runtime/` (`manager`, `runner`, `loop`), behind `api/v1/endpoints/agent.py` | tables of tasks and runs, registered asyncio tasks, cancellation flags, event subscribers | create, execute, cancel, decide approval, stream | several drivers of one run, several runs of one task, cancellation at any await |

The repository has two drivers of a run: the *engine* executes a dependency
graph, the *runtime* executes a loop of "ask the planner, then act". They share
the state machines, the checkpoint manager and the approval manager, and nothing
else. The engine calls planner, selector, tools, recovery and verifier as awaited
functions; its consumer iterates its events and may drop it at any of them. The
runtime starts each driver as an asyncio task, which the REST handlers reach only
through the manager's tables: they write statuses that the driver looks at later,
and cancel its asyncio task. A run's first driver executes inside the request that
created it, so the authorization middleware can stop it too.

### The gateway

| part | state | operations | hard because |
|---|---|---|---|
| Entry points, `services/ai_gateway.py`, `api/v1/endpoints/chat.py` | local to a request | `chat_completions`, `chat_completions_stream`, `generate_chat_stream` | a dozen exits, each of which has to settle the reservation; cancellation while settling |
| Budgets, `finops/budget.py` | usage counters and markers in Redis and in memory | `reserve_budget`, `finalize_reservation` | lost replies; the two halves of a reservation may reach different stores |
| Circuit breaker, `core/circuit_breaker.py` | state, two counters | `is_available`, `record_success`, `record_failure` | outcomes arrive in another state than the call was admitted in; unlimited probes |
| Failover, `routing/failover.py` | local to a request | `execute_with_failover` | retries in a loop over candidates under a ceiling, then a second dispatch |
| Response caches, `optimizer/semantic_cache.py` | exact and vector stores in Redis, Qdrant, memory | `get`, `set` | what identifies a request; what is stored after an outage |

An entry point reserves an estimate, looks into its cache, dispatches through
failover and breaker, inspects and stores the answer, and settles. All requests
of a tenant share the budget, the breaker and the caches.

### The services

| part | state | hard because |
|---|---|---|
| Chat graph, `agents/` | channels of a conversation's thread | turns overlap on one thread; verdicts and revision limits are in different files |
| Ingestion queue, `rag/tasks.py`, `worker.py` | records and queue in Redis, copies in each process | worker crashes, half-done enqueues, a fallback queue in another process |
| Resume bridge, `services/resume_bridge.py` | checkpoint and lock in Redis, copies in memory | posts of one result race; expiry, restart, a lock call that raises |
| Rate limiter, `core/rate_limiter.py` | a bucket in Redis, one in memory | the clock is read before the script runs |
| Credential custody, `core/byok*.py` | sealed records, compare-and-swap | operations await the provider between read and commit; master rotation |
| Request authority, `core/identity_state.py`, `core/route_policy.py`, `core/security.py` | the lease of a request | checks of one request overlap; revocation while a response is streamed |

They share no state with one another. What connects them to the rest: a request
of any kind passes the rate limiter and the authority, and the chat graph is what
`generate_chat_stream` runs. One uvicorn process serves the API; workers are
processes of their own.

Some of this is reached in a restricted way at this commit
(`src/docs/security/j02-identity-authorization.md`): the middleware answers 503 to
routes under `/coding/` and `/approvals/`, and the RAG endpoint to asynchronous
ingestion. `ResumeBridge`, the approvals and `IngestionQueue` model the code that
stays behind those routes, which the worker and the tests run; `save_checkpoint`
of the bridge has no caller but tests.

### What is correct

Dependencies are respected; a dangerous tool needs an operator's approval; what
is stored is true; what is stored as done is not done again; what has ended stays
ended; what is bounded stays bounded; a driven run comes to rest, and nobody
waits for one that has. A tenant's usage is not counted too low while the
process lives, and its reservation is settled once. What a verifier refused is
not published; a task is not lost by a fault elsewhere; a result resumes its
graph once; a revoked credential, or a provider key that was revoked, does
nothing more.

`PROJECT.json` lists every component with the reason for its status, and the
hazards of the code at their lines, also those no property covers.

## 2. Modules

| module | models |
|---|---|
| `RunStates` | run statuses and `RUN_TRANSITIONS` |
| `RunLifecycle` | what an engine promises about one run: the abstract specification |
| `AgentEngine`, `MCAgentEngine` | the execution engine with recovery, planner, approvals and checkpoints; plans and agents for TLC |
| `AgentEngineInvariants`, `-Types`, `-Safety`, `-Grants`, `-Durability`, `-Refinement` | its inductive invariants and proofs |
| `AgentRuntime`, `AgentRuntimeProofs` | drivers, approvals, cancellation and event streams of the runs of one task |
| `Budget`, `CircuitBreaker`, `Failover` | operators and actions of the three parts a request goes through |
| `Gateway`, `MCGateway`, `GatewayProofs` | requests of all three entry points over those parts and the caches: their composition |
| `TaskPath` | what an ingestion queue promises about its tasks: the abstract specification |
| `ChatGraph`, `IngestionQueue`, `ResumeBridge`, `RateLimiter`, `CredentialSlots`, `RequestAuthority` | one service each |
| `Services`, `ServicesProofs` | the services side by side |
| `SemanticCache`, `MCSemanticCache` | identity, compatibility and stores of the response cache |

### AgentEngine

One async generator drives the run. `pc` is where it stands: `new`, `planned`
(before the execution loop), `top` (head of the loop), `batch` (steps gathered),
`verify`, `replan`, `idle` (no generator). Each gathered step is a coroutine with
a `phase`: selecting an agent, selected, calling, then its result. An action is
the code from one await or yield to the next, so the coroutines of a batch, the
operator (`Decide`, `RequestCancel`), the consumer (`Interrupt`) and the process
(`Crash`) interleave where they do in the program. Results are taken in plan
order once all coroutines have returned, as `asyncio.gather` hands them over; a
gate or a terminal failure drops the results behind it.

Three copies of the plan exist and drift apart: `plan`, the live object; `dumped`,
the last `model_dump` into the run state; and the copy in each checkpoint.
`Finish` stores the status with `dumped`, as the terminating paths do.

`SaveCheckpoint` writes `memory` and then `redis`; the Redis write may be lost
without the engine knowing. `Loaded` prefers memory. `Crash` empties memory and
turns approval records to `LOST`; a lost record is what `get_request` reports as
a `KeyError`. `resume_run` is one action per outcome: refused, continued,
rejected, unlocked, still waiting, and the one where `decide` raises. The shipped
`ApprovalManager.decide` always raises: the decision is left to an authority that
the deployment installs. The test fixture `src/backend/tests/fixtures/approvals.py`
is such an authority; `AuthorityInstalled` says which of the two is modelled.

The verifier's verdict depends on the outputs only. `evidence` remembers it until
another step completes, so verifying the same outputs twice gives the same verdict.
`calls` and `grants` are history: calls started and approvals given, per step.

### AgentRuntime

A driver `<<r, k>>` is the k-th asyncio task of run `r`: the first is started by
the run's creation, each other one by an approval. `registered` is the table
through which a cancellation reaches a driver, keyed by run as in the code;
`doomed` holds drivers whose `CancelledError` is not delivered yet. Status writes
go through `Conclude`, with its three outcomes: both writes admitted, the run's
admitted and the task's refused, or the run's refused. A refusal raises, and the
driver ends where it stands. So does an exception of a call it awaits (`CallRaises`,
`ApprovedToolRaises`: the planner's backend or credentials, the authority check of a
tool): `start_run` catches cancellations only, and the statuses stay as they are;
the place `raised` keeps such a driver apart. `stream` is one client's subscription to a run's
events; whoever leaves a run tells it, and a silent second finds out by itself.
With `Guarded`, the middleware may stop the request that executes a run
(`AuthorityLost`) or withhold the answer to its creation (`CreationWithheld`); the
run then stays CREATED without a driver, which nobody can ask about.

### Gateway

A request is a record: its kind (which of the three entry points), where it
stands, the text it answers with, dispatches, outcome. The entry points share one
set of actions, which differ where the code does (`Kind(r)`). `Cancelled`,
`CancelledSettling` and `Abandoned` are the task's cancellation, the one that
arrives inside a settlement, and a client that no longer reads. `Gateway` extends
`Budget`, `CircuitBreaker` and `Failover` and conjoins their actions with its own:
a script that reserves or finalises (`ScriptReserves`, `ScriptFinalizes`) may have
its reply lost, after which the budget goes on in memory. Each store grants against a
quota of its own: `RedisLimit` is the tenant's key, `MemoryLimit` is the entry of
`_memory_token_limits` or the default of a million tokens, which Redis never fills. `held` and `spent` are
history: reservations not settled, and what settled requests have used. `CoolDown`
and `Expire` let time pass for the breaker and the caches.

### Services

`Services` picks one service (`service`) and lets it run; the others stay in their
initial states. They share no state, so this shows of each what it does alone.
Within a module an action is again the code between two awaits:

- `ChatGraph`: a turn holds its own copy of the channels and saves it to `thread`
  after each node; another turn of the conversation starts from what is there.
- `IngestionQueue`: `record` and `redisQueue` are Redis; `apiTasks`, `apiQueue` and
  each worker's `job` are the processes' copies. A client's read of a status is two
  steps, `PollReads` and `PollAnswers`, with the reads in flight in `polls`; `overtaken`
  marks the one that a later read of the task has answered before. `hurt` is history: the
  tasks a fault touched. Those may be gone by design (a pop keeps no copy; what the API
  queued in memory no worker sees).
- `ResumeBridge`: one call id, and posts of it by its tenant and others. `unlocked`
  is history: a post went on without the lock because the lock call raised.
- `RateLimiter`: time in units of one token. `rewound` is history: by how much
  scripts that ran out of clock order set the bucket's clock back.
- `CredentialSlots`: operations commit by `Cas` on the record they read; a
  migration pass reads and reseals slot by slot while they go on. `gone` is history.
- `RequestAuthority`: the middleware (`watch`), the handler's concurrent flows, and
  three clocks. A check is asked and answered in two steps; `Denied` latches.

### SemanticCache

An entry is the request its response was generated for, and `Identity` is
`compute_cache_identity` on the fields the two tiers treat differently. `set` is
three actions, as its three stores are written with awaits between them.

## 3. Runs

| run | question | bounds | distinct states |
|---|---|---|---|
| `EngineSafety` | the safety and action properties of the engine | 3 steps (two gated, one joining), 1 retry, 1 revision, 2 faults, 2 resumptions, an authority | 389,503 |
| `EngineProgress` | refinement, bounded effort, termination | 2 chained steps, 2 agents, 1 switch, wall-clock limit reachable, 1 fault, 2 resumptions | 9,625 |
| `RuntimeSafety` | all properties of the runtime | 2 runs of one task, one watched, 2 iterations, an authority, guarded requests | 187,888 |
| `GatewaySafety` | all properties of the gateway | 2 requests of any kind, quotas 3 in Redis and 4 in memory, estimate 2, use 1 or 3, 2 faults, thresholds 1, a chain of 4 candidates, 1 retry, 3 attempts | 294,635 |
| `ServicesSafety` | all properties of the services | 2 turns; 2 tasks (one watched), 2 workers, 2 faults, 2 reads in flight; 3 posts (2 of the owner), 2 faults; 2 checks, burst 2, time 2; 1 slot, 3 operations, 2 actors, 1 pass, 1 store fault; 2 flows, clocks of 2 ticks | 322,172 |
| `EngineReplan`, `EngineApprovals`, `EngineSwitch`, `RuntimeOutcome`, `RuntimeCancel`, `StreamSettles`, `CacheIdentity` | statements of comments and documents the code does not keep | as small as the counterexample allows | stop there |

Why these bounds suffice. Engine: three steps are the least plan with siblings that
gate, fail and complete in the same batch while a third depends on both. Two faults
give a lost Redis write followed by a crash, and an interruption followed by a
crash. Two resumptions let a run be resumed after a resumed run was itself dropped.
One retry and one switch make every recovery branch reachable. Runtime: two runs
are enough for a sibling to move the task under another run, and two iterations for
a run to pause, resume and run out. Gateway: two requests are the least that race
for a quota of one and a half estimates in Redis, or two in memory, share a breaker and leave cache entries for
each other; uses of 1 and 3 lie on both sides of the estimate; the second fault lets
the finalising reply be lost after the reserving one. The chain holds a candidate without
adapter and one that occurs twice. Services: two actors of each kind race, a third
post meets the state they leave, two reads of one status are the least that overlap, and three operations let one key be stored, replaced
and revoked under a fourth actor's pass; one fault more than a single lost reply where
recovery from it can be hit again.

No symmetry is declared: the sets are small and liveness would forbid it. The
bounds that are not constants of the program are `MaxFaults`, `MaxResumes`,
`MaxLinkFaults`, `MaxPolls`, `MaxBridgeFaults`, `MaxStoreFaults`, `MaxPasses`, `MaxTime`, `MaxActs`
and `MaxSets`; the theorems hold for every value of them. Deadlock is not checked:
finished runs, requests and services have nothing left to do.

### The engine

- `DependenciesRespected`: no step starts, and no copy of the plan has it
  completed, before its dependencies are completed.
- `DangerousCallNeedsGrant`: no gated tool is called for a step nobody approved.
- `StatusMatchesPlan`: a checkpoint's status is borne out by the plan it carries,
  although the two may come from different moments.
- `NeverStalls`: an incomplete plan has a step to run or a gate to wait for, so
  the engine's two "cannot go on" exits are unreachable.
- `NoRunDropped`: without faults the engine never leaves a run unfinished and unpaused.
- `CompletedNeverRepeated`, `DurableTerminalIsFinal`: what Redis has as completed
  is not called again; once Redis has a terminal status nothing happens any more.
- `EffortBounded`: retries, switches and resumptions together bound the calls of a step.
- `RunSettles`: a driven run comes to rest.
- `ImplementsLifecycle`: the engine refines `RunLifecycle` under the mapping
  *live* = the run status while it is driven, *saved* and *durable* = the statuses
  of the two checkpoints. It implies that no status write is ever refused by
  the transition table in the engine, through every restored status.

### The runtime

- `NoZombie`: only an exception of an awaited call strands a run. Any other run that is
  to run is driven, and a paused one has a decision pending or being carried out; one
  that was stranded so has no driver at work and no gate to decide.
- `ToolsBounded`: `max_iterations` bounds the tool calls over all drivers of a run.
- `CancelHeeded`: a cancelled run that was never paused starts no tool.
- `DriversEnd`: every driver ends. `StreamsEnd`: no client waits for a run that has
  ended, also where no driver is left to say so.

### The gateway

- `CountersCoverUse`: Redis and memory together never count less than is held and
  spent, unless a finalising reply was lost, and exactly that while nothing failed.
- `SpendBounded`: concurrent requests cannot oversubscribe the quota of the store in use
  by more than one estimate can be short (`MaxActual` bounds what one request uses) for
  each request that was settled. Once a call to Redis has failed the bound is both
  stores' quotas together. The memory's need not be the tenant's: after a restart, or a
  `set_budget` that did not reach Redis, it is not what Redis has, and it bounds what is
  spent in one lifetime of the process only.
- `SettledAtMostOnce`, `AnsweredIsSettled`: no exit settles twice, or settles in both
  stores unless the first reply was lost; an answered request has settled.
- `OutageTextNotCached`: the offline text is not stored as an answer by the gateway.
- `CountersMatchState`: the breaker's counters stay below the thresholds that
  would have moved it, whatever late outcomes arrive.
- `RequestsEnd`: every request that reserves comes to an end.

### The services

- `RefusedNotPublished`, `PublishedWasPassed`, `TurnsEnd`: a turn publishes only what
  the verifier passed in that turn, or revised twice (the supervisor's own limit then
  skips it), over overlapping turns; and it ends.
- `ImplementsTaskPath`, `SeenGoesBackOnlyByOverlap`, `AcceptedTasksEnd`: the queue refines
  `TaskPath` under the mapping *stage* = the place where the task is. Whatever fails, a
  task is taken, ingested and recorded at most once; one no fault touched is never lost
  (`NoTaskLost`, which this implies) and ends. The copy that answers a client whose read
  raises goes back only when two reads of the task overlapped and the earlier one is
  answered last, and an outcome it tells is the record's.
- `ResumedOnce`, `LockFreedByRefused`: a result resumes its graph once, unless a post
  went on without the lock; a refused post leaves no lock behind.
- `AdmissionsBounded`: a bucket admits its burst, the time passed, and in Redis the
  time counted twice; an outage adds one more burst.
- `GoneStaysGone`, `RetiredIsUnused`: a provider key that was revoked, replaced or
  deleted is never active again; a retired master seals nothing.
- `DenialIsFinal`, `RevocationHeeded`, `WithdrawnIsStopped`: a denied request does
  nothing more, although other checks of it are under way; what a revoked one still
  does lies within the age of an answer, what it still receives within that and the time a check
  serves; and its handler is stopped even if it checks nothing.

### Disagreements

1. `EngineReplan`. Replanning is reached only with every step completed, and
   `replan` keeps completed steps: nothing is executed again and the verifier sees
   the same outputs until the revisions are used up.
2. `EngineApprovals`. A step unlocked after its approval record was lost stays
   pre-approved for the whole loop; a retry calls the tool again on one approval.
3. `EngineSwitch`. The alternative agent that recovery assigns is overwritten by
   the next selection.
4. `RuntimeOutcome`. When a sibling run has paused or cancelled the task, a run that completes
   raises between its two status writes and is never saved as completed.
5. `RuntimeCancel`. An approval that arrives while the paused driver still awaits
   its last save loses the new driver's registration, and the run can no longer be
   cancelled at once.
6. `StreamSettles`. A client that leaves while a cached answer is replayed ends the
   stream with its reservation neither finalised nor refunded.
7. `CacheIdentity`. The prompt is left out of the exact identity when its text
   occurs in the history: two prompts of one conversation can share one entry.

Six things the models show and no document denies, so that no run asserts the
opposite: a turn routed straight to the synthesizer renders the verdict an earlier turn left in
the thread; a lock call that raises lets a result resume its graph twice; limiter
scripts that run late refill the same seconds twice; a run whose creation could
not be answered stays CREATED until it is cancelled; one whose planner's or tool's call
raised stays RUNNING, or PAUSED with its gate approved, likewise; and two overlapping
reads of an ingestion status can put the older one back into the API's copy.

### Fairness

- Engine, `RunSettles`: weak fairness of the engine's own steps taken together, not
  of resumptions, decisions or failures. The event loop runs every ready coroutine,
  and each awaited call returns or runs into its timeout.
- Runtime: weak fairness of each run's drivers taken together, for the same reason,
  and of a watched stream, which is polled every second. None of the operator or of
  the middleware.
- Gateway: weak fairness of each request's `Progress`; none of departures, faults or clocks.
- Services: of a turn's next node (LangGraph runs it), of a worker's loop, of the
  middleware's wait and of time. Handlers, clients and faults are not forced: that
  a handler is stopped does not rest on its cooperation.

## 4. Proofs

The theorems hold for any number of steps, runs, requests, tasks, posts or flows
and any limits. They assume what the modules state, which TLC evaluates in the runs:
that counts are naturals and thresholds positive, that what one request uses is bounded (`MaxActual`: its calls and their lengths are limited), that the plan is a DAG (`DepsAssumption`, enforced by
`parse_structured_plan`), that there is always an agent to select (`AgentsAssumption`,
the selector falls back on a default), and that sets of actors overlap as the code
has them (the watched runs and tasks, `OwnPosts \subseteq Posts`, `Admins \subseteq Actors`).

### Engine

| theorem | argument |
|---|---|
| `TypeCorrect` | inductive as it stands |
| `DependenciesRespectedCorrect` | needs `BatchInv` (a coroutine past `selecting` belongs to the batch) and that the completed steps of the live plan only grow |
| `DangerousCallNeedsGrantCorrect` | `GateInv`: an APPROVED record and membership in `preApproved` both witness a grant for the step itself, so every gate id in every copy of the plan must belong to its step |
| `CompletedNeverRepeatedCorrect` | `ProgressInv`: what Redis or memory has completed, the copy that is driven or will be loaded has completed too |
| `DurableTerminalIsFinalCorrect` | `TerminalInv`: once Redis has a terminal status nothing drives the run, and memory holds a terminal status or nothing |
| `NeverStallsCorrect` | `PlanInv` (at the head of the loop no step is FAILED) and a step of least rank among the incomplete ones |
| `NoRunDroppedCorrect` | strengthened with what has been saved at each `pc` while `faults = 0` |
| `StatusMatchesPlanCorrect` | `TruthInv` over both checkpoints, with `PlanInv` for what `dumped` has while verifying |
| `EffortBoundedCorrect` | `EffortInv`, one sum per step: a whole allowance of calls for each resumption, the calls that the retries and switches of its live copy have paid for, and one for a call still to be judged or the one that completed the step; `ThriftInv`: no copy of the plan is over its budgets, so a restored copy pays no more than an allowance |
| `EngineAdvancesCorrect` | `ToDo`, a bound on the steps a driven run has left: six moves for each call the budgets leave a step (gathered, selected, started, awaited, processed, the batch finished), counted as a finite set over all steps, and the place of the generator in the revisions left; `Gathered` (a batch to finish has gathered a step) and `RevisionsLeft` (the engine replans below both limits). A replan finds the plan complete, so it refills no budget |
| `EngineImplementsLifecycle` | step simulation: each action is an action of `RunLifecycle` or a stutter, using `StatusInv` (which statuses each `pc` admits) |

None of these is inductive alone: they speak of stored copies, and a step restores a
copy into the driver or stores the driver's copy. `AgentEngineInvariants` relates all
copies at every `pc`.

### Runtime (`AgentRuntimeProofs`)

`TypeCorrect`, `NoZombieCorrect`, `ToolsBoundedCorrect` and `CancelHeededCorrect`
from one predicate per run, `RunInv(r)`: the drivers of a run follow one another and
only the last is at work (`InSequence`); the status says where that driver is, or that a call of
its own ended it, and whether the gate is open, and the place says which statuses are possible
(`StatusSays`, `PlaceSays`); tool calls, iterations and drivers count one another
(`Counted`); until its first gate a run is within a cancellation's reach
(`Reachable`). A step of one run leaves the invariant of the others alone, although it
may change the task they share.

`DriversAdvanceCorrect` gives each driver a bound on its moves, four for every iteration
left and its place in the loop: each of its moves lowers the bound, and no other driver,
decision or client raises it. With fairness, which stays with TLC, this is `DriversEnd` for
any number of runs and iterations. `RunsFollowTableCorrect`: a run's status changes along
the run's own table, also through the writes that catch no refusal, so that no write to a run is ever
refused. The task's table has no such theorem: the return of an approved tool writes
the task twice in one step.

### Gateway (`GatewayProofs`)

`GatewayDrivesBreaker` is the refinement of the breaker's own specification: every step
of the gateway is a step of `BreakerSpec` on the breaker's variables.
`CountersMatchStateCorrect` and `OpenLeftByProbeCorrect` (an open breaker is left
through HALF_OPEN only) follow from that. `TypeCorrect`, `SettledAtMostOnceCorrect`,
`AnsweredIsSettledCorrect`, `OutageTextNotCachedCorrect` and `AttemptsBoundedCorrect` are
invariants over what a request has at each `pc`. `CountersCoverUseCorrect` relates the
two counters to the markers and to `held`: an estimate counted in Redis, in memory, in
both, or in one and no longer held, with the cases of a lost reply. `SpendBoundedCorrect`
adds `QuotaInv`: each store's counter stays within that store's quota and one overrun for each request
settled there, and no request is settled in both. `RequestsAdvanceCorrect` bounds the steps a request
has left, by 13 + 2 * `MaxAttempts` when it arrives: the provider calls of both dispatches,
and the places of its kind in their order.

### Services (`ServicesProofs`)

A step of `Services` is one of the service or leaves its variables alone (`ChatSteps`,
`QueueSteps`, ...), so an invariant of each service is one of the whole.

| theorems | invariant |
|---|---|
| `ServicesTypeCorrect` | the types, of all of them |
| `ChatWithholdsRefused`, `ChatPublishesVerified` | `ChatInv`: a turn's verdict is the last one given in it; results reach the synthesizer through the verifier only |
| `ChatTurnsAdvance` | the same: each node lowers 3 for every revision left and the node's place; a turn runs at most 3 * `MaxRevisions` + 5 steps |
| `QueueFollowsPath` | step simulation from `QueueInv`: each action moves one task to its next stage, or loses it with a fault, or leaves all where they are |
| `QueueLosesNothing` | `QueueInv`: a task no fault touched is in one place only, its record is written before its entry |
| `QueueGoesBackOnlyByOverlap` | `SeenInv`: the record has been at whatever the copy or a read in flight says of a task, and a read is not behind an earlier one; so the copy is behind only a read that was overtaken |
| `BridgeResumesOnce`, `BridgeFreesLock` | `BridgeInv`: the lock excludes, and once a graph was resumed its checkpoint is gone or behind the lock; `LockHasReason` |
| `LimiterBoundsAdmissions` | `LimiterInv`: granted plus remaining is at most burst plus the bucket's clock |
| `CustodyKeepsGone`, `CustodyKeepsOwner`, `CustodyRetiresUnused` | `CustodyInv`: a key is nowhere before it is committed and in one slot after; what a sound clean pass has left behind is sealed with the new master |
| `DenialStays`, `RevocationIsHeeded` | `AuthorityInv`: a revocation is older than the last good check by at most the age of an answer |

### Left to TLC

Liveness (`RunSettles`, `DriversEnd`, `StreamsEnd`, `RequestsEnd`, `TurnsEnd`,
`AcceptedTasksEnd`, `WithdrawnIsStopped`): what weak fairness gives needs ENABLED, which
the prover does not reach. The theorems about the engine's generator (`EngineAdvancesCorrect`), about drivers,
requests and turns prove the part that does not: whoever is scheduled runs out of steps. Every other property of the passing
runs is a theorem.

## 5. What is abstracted or left out

Of the engine:
- a second generator driving the same run at the same time (`resume_run` takes no lock);
- the comparison of an approved gate's arguments with the call's, a tenant
  mismatch and an unknown tool: outcomes of a call that fails for good (`"fatal"`);
- a PENDING gate found on a runnable step, and a waiting step without a gate: only
  checkpoints written by hand contain them;
- wall-clock time: a timeout may be observed at any head of the loop, and
  `LongTimeout` says whether recovery's own time limit can be reached;
- the order in which alternative agents are tried: any of them;
- a resumed run's `max_revisions`, always the default: one constant for both;
- `resume_run` is called by tests and not yet by a REST handler.

Of the checkpoint manager: the 24 h expiry, the flag that stops Redis use after a
failed connection, identifiers made of milliseconds, and the order of the two Redis
writes of one save (a save reaches Redis as a whole or not at all).

Of the runtime: process restarts, which lose the task and with it every handler of
its runs; wall-clock limits; the text of an event.

Of the gateway: restarts, which empty the memory's counters, markers and quotas, and
`set_budget` while requests are under way; prompt optimisation, guard texts, prices, attribution, ledger rows and
telemetry; the order in which the router lists the candidates; the budget period's end.
The caches in `Gateway` hold one prompt; what identifies a prompt is `SemanticCache`'s.

Of the services: the contents of tool calls in the chat graph (an ERROR entry is
reported as a success there: a hazard without a property) and `LangGraphExecutionAdapter`;
the 24 h expiry of an ingestion record and restarts of the API process, which lose its
copies; encryption, and whatever validation by the
provider answers; permissions, public and operator routes, the text of tokens and
introspection answers.

Of the semantic cache: embeddings, metrics and `invalidate` (which takes the tenant
where entries are kept under the principal's namespace).

Not modelled, since they keep no state a property could be about: tools and sandbox
(confinement of paths and commands, sequential bodies), agent memory and backends
(lists of messages, adapters), retrieval, chunking and embedding (numeric and textual;
the state is the vector store's), prompt optimisation, model providers (HTTP formats),
key and token decoding, guardrails and telemetry, the other REST endpoints, the billing
webhook (it always answers 503) and the devops bot, the evaluation, performance and
dependency tools (offline), the console and the chat widget. The longest files of the
tree are scripts and evaluators of this kind: `src/backend/scripts/migrate_bruno_workspace.py`
is generated request data without control, `src/scripts/j02_rehearsal.py` a linear
rehearsal of a deployment.

## 6. What is left

1. Two engine generators over one checkpoint store, with the two Redis writes of a save
   as two steps.
2. Restarts of the process in `AgentRuntime` and in `Gateway`.
3. The document index: the BM25 file is written by two processes, and the vector
   store's latch never opens again.
4. The contents of tool calls in `ChatGraph`.

Run a model with `tlc -config EngineSafety.cfg MCAgentEngine`, a proof with
`tlapm AgentEngineSafety.tla`.
