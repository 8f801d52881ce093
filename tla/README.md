# A TLA+ model of RedRouter's concurrency and resilience core

RedRouter (the code base still carries its earlier name, OmniRoute) is a
self-hosted AI gateway: one Node.js process that accepts OpenAI- and
Anthropic-style requests, picks a provider account for each, takes it through
several concurrency gates, calls the provider and accounts for the outcome.
JavaScript runs one callback at a time, so what can go wrong lies *between*
callbacks: in front of every `await`, in timers that fire late, in releases and
results that arrive after the state they belong to is gone, and in restarts.
This directory models the parts of the program whose correctness depends on
that order of events.

All modules are plain TLA+. `tlc -config X.cfg MCx` checks a run, `tlapm
XProofs.tla` checks the proofs of a module. `PROJECT.json` lists the components,
the runs, the source lines behind every definition, the mutants that show that
each property can fail, the findings, the hazards and the theorems.

## 1. Inventory

Paths are relative to the repository's root.

### Parts that are modelled

**Hierarchical account semaphore** (`open-sse/services/accountSemaphore.ts`).
*State*: a Map of gates (running, limit, queue, `blockedUntil`, cleanup timer)
and the set of queued requests, each with the list of gates it needs.
*Operations*: `acquireMany`, the composite release function, queue timeout,
abort, `markBlocked`, `unblock`, cleanup timers, `drainQueues`, `reset`,
`resetAll`. *Interaction*: `chatCore` acquires the global, provider and account
gates of a request in one call, `codexWsLease.ts` holds one for a WebSocket, an
admin route resets everything. *Hard*: a request needs several gates at once;
timeouts and aborts race grants; a timer armed for an idle gate fires when the
gate is used again; callers disagree about limits; a block ends with nobody
there to notice. *Correct when* slots are taken all or nothing and given back
exactly once, limits, blocks and FIFO order hold, and nobody waits for ever.

**Per-model rate-limit semaphore** (`open-sse/services/rateLimitSemaphore.ts`).
*State*: one gate per model (running, limit, queue, `rateLimitedUntil`), created
on demand and deleted when idle. *Operations*: `acquire`, the release function,
queue timeout, `markRateLimited` and its timer. *Interaction*: the round-robin
combo, quota sharing and the nvidia executor. *Hard*: a timer's closure keeps a
gate that is no longer in the Map; several cooldowns overlap; `acquire` itself
may end a cooldown before its timer comes. *Correct when* slots are counted, no
deletion orphans a waiter, every waiter has something left that will wake it.

**Exclusive managed session leases** (`src/lib/db/exclusiveConnectionLeases.ts`,
`src/sse/services/exclusiveConnectionLeasePolicy.ts`, `auth.ts`, `chatCore.ts`).
*State*: the table of leases (owner, key, connection, generation, state, expiry)
and the requests between selection and the end of their upstream attempts.
*Operations*: acquire, renew, release, invalidate, transition to another
connection, expiry in front of every operation, and the fence that `chatCore`
puts in front of each run of an executor. *Hard*: a request selects under one
lease and claims after a quota preflight; the executor awaits a token refresh,
the request's transformation and its signing behind the fence, and retries
without one; expiry and release come at any point; a fence value must never
become valid a second time; the table survives a restart and the requests do
not. *Correct when* a connection and an owner have at most one active lease,
generations move forward and stay with their key, and whoever passes the fence
holds the lease it claims.

**Provider circuit breaker** (`src/shared/utils/circuitBreaker.ts`, its gate in
`src/sse/handlers/chatHelpers.ts`, its reporters `chat.ts` and
`open-sse/services/accountFallback.ts`). *State*: state, failure counts, time
and kind of the last failure, escalation, the slots, generation and lease of
half-open probes, and a database row. *Operations*: `canExecute`, `execute`,
`_onSuccess`, `_onFailure`, `reset`, restore. *Hard*: gate and execution are two
steps; outcomes are reported by three different paths, late, twice or never;
connections that an operator forces bypass the gate and report all the same;
restarts. *Correct when* probes are bounded and their slots come back, recovery
leaves nothing of the outage behind, a restart loses nothing, and a circuit
that blocks opens up again.

**Adaptive admission control** (`open-sse/services/admission`: `controller.ts`,
`queue.ts`, `runtime.ts`). *State*: the cost that runs, a bounded queue with a
ring of tenants, a bucket per tenant and skip counts, the adapted limit and what
the open feedback window has seen; in shadow mode a second, virtual set of
books. *Operations*: acquire with the rule for a request that runs alone,
release, deadline and abort of a queued request, dispatch, pressure, the closing
window, reload. *Interaction*: the chat handler acquires a lease before
dispatch; a monitor reports pressure. *Hard*: a limit that falls below what is
running, or below the cost of what is queued; expensive requests passed over by
cheap ones; a cursor into a ring from which tenants disappear; leases of a
controller that has been replaced. *Correct when* the books agree with the
requests, nothing that fits is left in the queue, admissions respect the limit,
a reservation is respected, and nobody starves.

**OAuth refresh serializer and token refresh**
(`open-sse/services/refreshSerializer.ts`, `tokenRefresh.ts`,
`tokenRefresh/rotationMap.ts`, `tokenRefresh/casGuard.ts`). *State*: a mutex per
connection, a chain per rotation group, a map of recent rotations, the token in
the row, and the provider's idea of which token is live. *Operations*:
`getAccessToken`, the second look at the row, the POST, `recordRotation`, the
two timeouts, the persist callback with its guard, the callers' own writes,
deactivation; the refresh of Kiro's executor (`executors/kiro.ts`) and the
import of Codex credentials (`api/oauth/codex/import`), which use none of it.
*Interaction*: the reactive path after a 401, the proactive path in the
executors, the check before a request, the health sweep, new logins. *Hard*: a
refresh token can be used once; a second use makes the provider revoke the whole
family, that is the account. Callers carry old copies, give up and retry; an
answer is lost after the provider has rotated; a POST outlives its tenure of the
lane, or never had one. *Correct when* no token is presented twice, the live
token is never lost, siblings do not POST at the same time, and a hanging
provider blocks nobody for ever.

**Service supervisor** (`src/lib/services/ServiceSupervisor.ts`,
`healthCheck.ts`, `portProbe.ts`, `bootstrap.ts`). *State*: state, child handle,
pid, `adopted`, a health checker with polls in flight, a lock of operations; and
the processes of the operating system. *Operations*: start (probe of the port,
lookup of the listener's pid, adoption, replacement, spawn and its failures, wait
for health), stop (SIGTERM, timeout), polls, exit events. *Hard*: exit events and
polls of an old child arrive in the middle of the next start; a pid belongs to a
process that is gone when it is stored; processes hang, ignore signals, or hold
the port and do not answer. *Correct when* the reported status is true, a dead
service is noticed, and operations end.

### Parts that are not modelled

| Part | State and operations | What is hard | Why not (yet) |
|---|---|---|---|
| Registry of circuit breakers | a bounded Map of breakers | eviction of one that requests still hold | planned, section 6 |
| A2A tasks, budget reservations | small tables with expiry | late completions, expiry of a live reservation | planned, section 6 |
| Cooldown tracker, deduplication, batches, session pools, window limiters | small tables with expiry | late completions | after those |
| Combo engine | order of targets, retries | the reports it makes | its calls appear as callers of the modelled parts |
| Rate-limit manager | Bottleneck queues | - | the scheduling is a library's |
| Translators, executors, compression, guardrails, memory, MCP | none that is shared | - | conversions and I/O per request |
| Dashboard, CLI, desktop shell, MITM, plugins, cloud sync, webhooks | - | - | user interface, I/O, clients |

The repository has about 1.1 million lines, most of them user interface,
translations, provider catalogues and format conversions without state of their
own. The model covers the few thousand in which the order of events decides.

Left out of the modelled parts: mode `off`, virtual lanes (off by default) and
the request timings of the admission controller (a closing window sees any
latency and any utilisation that what ran in it allows); providers without a
rotation group, whose refreshes take no lane; the refresh of the usage path
(`providerLimits/credentialRefresh.ts`, section 5); the import of Kiro
credentials, which differs from the modelled one of Codex in that it stores
nothing when its POST fails; access tokens, except for whether the stored one is
still valid; how the promise of a `start` settles, the log
buffers and installers of the embedded services; `resetAll` of the rate-limit
semaphore, which only tests call.

## 2. Modules

| Module | Models |
|---|---|
| `WaitQueue` | removing requests from a FIFO queue, shared by all queues here |
| `AccountSemaphore` | the request path of the hierarchical semaphore |
| `AccountSemaphoreReset` | the same together with the operator's resets |
| `RateLimitSemaphore` | the gate of one model |
| `ExclusiveLease` | the lease table and the managed requests |
| `CircuitBreaker` | one breaker, its row and the requests that report to it |
| `FairCostQueue` | the queue of the admission controller, as operators on a record |
| `AdmissionControl` | the controller: `FairCostQueue` with limit, window and requests |
| `WeightedLimit` | abstract: what a limiter promises to what it protects |
| `TokenRefresh` | mutex, lane, rotation map, row, callers and the provider |
| `ServiceSupervisor` | the supervisor, its poller and the processes |
| `MC...` | instances for TLC |
| `...Proofs` | theorems, for every value of the constants |

How state and actions correspond to the code:

- **AccountSemaphore.** `live` is the key set of `gates`, `running`, `max` and
  `queue` are the fields of the gates, `blocked` the keys whose `blockedUntil`
  lies ahead, `timer` those with a cleanup timer; `pc` and `keys` are the
  requests. `missed` is a history variable: the gates that gained room without
  a drain. `AcquireMany` is the whole call, with its immediate grant, its
  rejections and its queueing. `drainQueues` visits a JavaScript `Set`; the
  model asks for a set of grants that is stable, and `DrainIsUnique` shows that
  in every reachable state there is exactly one, so that nothing is lost. That
  is also proved: it rests on the requests standing in order of arrival in every
  queue they share.
- **RateLimitSemaphore.** `limited` is `rateLimitedUntil`: not set, ahead, or
  past but not reset. `timers` are the pending `setTimeout`s; one is `"own"`
  while its gate is in the Map and `"stray"` once the gate has been deleted.
  `latest` and `cooling` follow the last cooldown.
- **ExclusiveLease.** `rows` is the table in order of insertion, `req` the
  requests: selected, claimed, fenced, in flight. `Fence` is
  `assertManagedLeaseFence` in front of `executor.execute`; what `execute`
  awaits before its `fetch` lies between `Fence` and `Attempt`, its own retries
  and fallback URLs are `ExecutorRetry`, which goes back behind the fence, and
  `Retry` is another call of `execute`, which goes through it. Every operation
  on the table runs `expire` first, as in the code. SQLite runs each operation
  as one transaction, so each is one action; the unique indexes are *not*
  assumed.
- **CircuitBreaker.** `b` is the object, `db` its row, `call` the requests.
  `halfOpenProbeGeneration` is the set `probes` of the calls that carry the
  current generation. `Settle` is the end of `execute` with its check of the
  generation; `ChatSuccess`, `ChatFailure`, `ComboSuccess` and `ComboFailure`
  are the reports made outside of `execute`; `Unreported` is a request that ends
  without any.
- **FairCostQueue, AdmissionControl.** The queue is a record with the fields of
  the class; `age` keeps of `enqueuedAtMs` the order: it numbers the
  milliseconds in which what is queued arrived, from 1. The cost of a set of
  requests (`CostOf`, `Load`) is the number of its units of cost, so that sums
  need no recursion. `Dispatch` runs the loop of `dispatch` (or of
  `dispatchVirtual`) to its end and is part of every action whose handler calls
  it. `pc` is what became of a request; `foreign` is one whose lease belongs to
  a controller that a reload has disposed of. `calm` belongs to the
  environment: from some time on no pressure, errors or rising latency.
- **TokenRefresh.** A token `<<f, g>>` is the g-th of the family that the f-th
  login started. `work` is one refresh: a run of the closure behind the mutex,
  or, in the states `direct` and `returned`, one that uses neither mutex nor
  lane. Those are of the kinds in the constant `Direct` (`RefreshDirectly`, the
  executor of Kiro; empty for the other groups) or an `Import`, which presents
  any token the provider has issued and stores it itself when the check was
  inconclusive. `left` are the works whose tenure of the lane was given up while
  their POST is on the network. `live` and `revoked` are the provider.
  `PostFails` is a POST that did not arrive and also an answer that was lost
  after the provider rotated: the code cannot tell them apart. `Persist` is the
  end of a work: the leader's callback with its guard, then what the callers
  that wait do with the result. The ghost `shaken` collects the connections that
  met a timeout, an answer lost after the rotation, a POST past the lane, a new
  login, a second rotation while the map remembers the first, or a token that
  nobody stored. The code loses or reuses tokens in these cases, so the token
  properties are about the other connections; `SiblingsApart` needs no such
  exclusion and names the refreshes that are not serialized.
- **ServiceSupervisor.** The variables have the names of the fields. `ops` is
  the chain of `operationLock` and `pc` the `await` at which its head stands; a
  start is the actions from `StartBegins` to `StartEnds`, a stop `StopBegins`
  and `StopTimeout` or `ExitEvent`. `Resolve` is the answer of `lsof` or `ss`;
  what it found is kept in `target` and used in a later step (`Adopt`,
  `Replace`). `polls` are answers on their way, `termed` is
  `ChildProcess.killed`. The ghost `overtaken` records that the exit event or a
  poll of an earlier child set a start to error before it spawned.

## 3. Runs

| Run | Instance | Shows |
|---|---|---|
| `account_semaphore` | 3 requests, a global and two account gates, limits 1 and 2, queue bounds 0 and 1 | accounting, consistency of queues, limits, blocks and FIFO order for everyone who is let in; the only waiters left standing before a free gate are those behind a block that lapsed or a limit that a rejected call raised; otherwise every wait ends without any timeout: no deadlock between gates, no starvation |
| `account_semaphore_reset` | 3 requests, 2 gates, resets | no phantom permits, no dangling queue entries, no waiter without its gate |
| `rate_limit_semaphore` | 4 requests, limits 1 and 2, two overlapping cooldowns, fair releases, clock and timers | accounting, wakers, limits, order; once cooldowns stop and callers agree on the limit, every wait ends |
| `exclusive_lease` | 2 owners, 2 keys, 2 connections, 2 requests, 2 rows | exclusiveness, order and ownership of generations; the fence, and what the attempts behind it can still rely on |
| `circuit_breaker` | 3 ordinary requests and a forced one, 2 probe slots, threshold 3, 2 escalation steps, a kind with a longer cooldown; time passes | bounded and renewable probes, clean recovery, restarts, a blocking circuit admits again |
| `admission_control` | requests of cost 1, 1, 2 and 3 of 3 tenants, limit 1 to 4, both modes, reloads | the books balance, nothing that fits stays queued, reservations hold, and the controller implements `WeightedLimit` |
| `admission_control_service` | 3 requests, fair releases and windows | nobody starves, no limit stays collapsed |
| `token_refresh` | the reactive path and the sweep, 2 connections, 2 works, 2 tokens per family | no token presented twice and the live token kept where nothing timed out and no answer was lost; siblings apart |
| `token_refresh_service` | the group of Kiro: the proactive path past the lane, the sweep, the check before a request, imports, 2 logins, 1 connection | every wait for the lane ends although the provider may hang |
| `token_refresh_siblings` | the sweep and an import, 2 connections | violated: section 5 |
| `service_supervisor` | 2 children and a foreign process, 1 poll in flight, 2 operations | an honest status, a dead service is noticed, operations end |
| `service_supervisor_kill` | the same | violated: section 5 |

**Bounds and why they are enough.** Three requests are what it takes for one to
hold, one to wait and one to come in between; the fourth of
`rate_limit_semaphore` is needed because a waiter can be starved by two
alternating newcomers, which three requests cannot show. Two gates over a common
one give every overlap of the sets of gates that callers need. Two timers are an
old cooldown and a newer one. `MaxRows` = 2 leaves room for a second generation,
a transition or a second owner; the inductive proof has no such bound. In the
breaker, failure counts, cycles and ticks stop where a larger value makes no
difference (`AtMost`), so the state space is finite without cutting behaviours
off: `MaxTicks` exceeds every cooldown and `CooldownAssumption` says so.

In `admission_control` one tenant has two requests, so a tenant can stay in the
ring when one of its entries leaves; the costs 1, 1, 2, 3 against limits 1 to 4
give heads that fit, heads that are passed over, heads that reserve, and
requests that can only run alone; two skips are enough for a reservation. In
`token_refresh` two connections are siblings, two works are one on the network
and one queued or given up, and two tokens per family are a token and its
successor; the presentation of a token that has a successor is the hazard, so a
third adds nothing to the first property. Callers can load a connection that met
a timeout only if `LoadShaken` says so: the safety properties say nothing of
such a connection, and its sibling still meets everything it leaves in the lane.
`MaxRotations` lets a live token run out of successors, so the token runs do not
check deadlock; all others do. The supervisor needs two children for the
events of an old one to meet a new one; health failures are counted up to a
threshold of 2 in place of 3.

Symmetry is used only in runs without liveness properties.

**Fairness.** `account_semaphore`, `rate_limit_semaphore` and
`admission_control_service` assume that a holder releases: `chatCore` does so in
a `finally` block or at the end of the stream, the round-robin combo in a
`finally` block. `rate_limit_semaphore` also assumes that the clock advances and
that a timer that is due is called, `circuit_breaker` that time passes, and
`admission_control_service` that the window timer fires; its property only
speaks of behaviours in which the environment calms down, and assumes neither
deadlines nor aborts. `token_refresh_service` assumes the steps of the process
itself (turn, lane timer, end of the lane, persist) and nothing of the network:
a POST may hang for ever and the bound on the mutex is not used; a refresh past
the lane has no bound in the code, so nothing is said of those who wait for one.
`service_supervisor` assumes that timers fire, that probes and polls are answered
or time out and that exit events are delivered; nothing of the processes, which
may hang for ever. No arrivals, queue timeouts or reports about the provider are
fair anywhere.

**Refinement.** `AdmissionControl` implements `WeightedLimit` with `running`
mapped to the requests the controller counts as admitted, in both modes. The
abstract specification has one step: clients leave, the limit moves, and
clients enter only if what then runs fits the limit, or as the only one. A
limit that falls expels nobody, which is why the load may exceed it.

## 4. Proofs

All theorems hold for every value of the constants (any number of requests,
gates, owners, rows, any thresholds), from the named assumptions in the modules
that declare the constants; TLC evaluates those in the runs.

- `WaitQueueProofs`: what appending to, removing from and cutting a queue
  without duplicates does to its elements and to their order; least and greatest
  elements of sets of naturals, and induction up to a number (`CountUp`) for a
  *set* of naturals, which the provers can instantiate where they cannot
  instantiate a predicate.
- `AccountSemaphoreProofs`. None of the properties is inductive alone: that
  gates count their holders needs that waiters stand in the queues of the gates
  they need, since a drain moves them from one to the other. The inductive
  invariant is `TypeOK` with five parts that are preserved together: counts,
  queues, gates in use stay in the Map, limits of waiters, and limits of
  holders. From it: `TypeCorrectness`, `ReservationsAccounted`,
  `RequestsKept` (queues consistent, cleanup spares gates in use),
  `ConcurrencyBounded`, and the action property `AdmissionsBounded`.

  A second invariant, `Steady`, is about order: there is one ranking of the
  requests by which every queue is sorted (`Ranked`), and whoever could be
  admitted stands behind a gate in `missed`. A set that can be granted is a
  prefix of every queue (`Prefixes`); of two such sets, the request of lowest
  rank in the one that is missing from the other could be granted next
  (`DrainContains`), so a stable set contains every other and is the only one;
  one of greatest size exists (`DrainExists`). From it: `DrainStrandsNobody`,
  `DrainDetermined` and the action property `ArrivalOrderKept`.

  With resets, counts are only bounded by the holders and only waiters are sure
  of their gates; that weaker invariant, `RInv`, is inductive with `Reset`,
  `ResetAll` and the stray timers, and gives `ResetLeavesNoPhantoms` and
  `ResetSparesWaiters`.
- `RateLimitSemaphoreProofs`. The invariant says that counts and queue match the
  requests, how the last cooldown, its timer and `limited` belong together, and
  where timers may be. From it: `RateLimitType`, `GateAccounted`, `WakersExist`,
  `SlotsBounded`, `AdmissionsRespectGate`.
- `ExclusiveLeaseProofs`. The invariant of the table: active rows are unique per
  owner and per connection, an active row is the newest of the newest generation
  of its owner, rows of one generation have one key. Each operation on the table
  preserves it as a function on sequences of rows; the requests only matter for
  the fence. For the attempts behind it, the invariant adds that a request that
  passed the fence has a row on its connection which no active row of that
  connection precedes: rows are only appended and never become active again, so
  whoever leases the connection later comes later. From it: `LeaseType`,
  `LeasesStaySound`, `KeysBound`, `NoResurrection`, `DispatchesFenced`. The proof
  does not use the database's unique indexes.
- `CircuitBreakerProofs`. The invariant: the breaker's fields have their types
  and it is clean when it admits everyone, its probes and free slots do not
  exceed `halfOpenRequests`, it has a lease when it has no slot; its row is
  clean; every probe is a running call. From it: `BreakerType`,
  `ProbesStaySound`, `HealthyStaysClean`; and `RestartStaysSafe` under the
  assumption that no kind has a threshold of its own, as in every caller: with
  one, `_onFailure` returns before it saves.

- `AdmissionControlProofs`. The invariant: the queue is `Sound` for exactly the
  queued requests (buckets without duplicates and of the right tenant, ring and
  cursor, totals, and only heads of buckets have been passed over, at most
  `MaxSkips` times), the cost in use is that of the active requests, late
  requests are queued, and the books are `Stable`: nothing would be dispatched.
  Each operation of `FairCostQueue` keeps a queue sound; a round of the dispatch
  loop keeps books balanced and either changes nothing or shortens the queue,
  so that after as many rounds as there are requests (by `CountUp`) the books
  are stable (`DispatchBooks`). The head with the first claim stays the same
  when others arrive, leave or take a turn (`EnqueueClaim`, `RemoveClaim`,
  `ClaimMoves`): the ages only move together and the ring turns without
  reordering. From it: `AdmissionType`, `BooksStayBalanced`,
  `DispatchLeavesNothing`, the action property `ReservationKept`, and the
  refinement `BudgetRefined`: initial states map to initial states and every
  step of the controller is a step of `WeightedLimit`.
- `TokenRefreshProofs`. The invariant says who stands in the lane (whoever is
  between its turn and the end of its tenure heads it, unless its tenure was
  given up, or it is past the lane, which only happens to connections in
  `shaken`), whom a mutex names and who waits for it, and, of a connection that
  is not in `shaken`, which token its refresh carries at each stage (`OnTrack`):
  the newest one until the POST is answered, its predecessor and the result
  after, with the rotation map at most one behind. From it: `RefreshType`,
  `TokensNeverReused`, `LiveTokenNeverLost`, `SerializerSeparates`.
- `ServiceSupervisorProofs`. The invariant: one listener per port, the phases of
  the lock (who waits for which process), what a running state or a start that
  waits for health rests on, and that the pid of a known child is its own and
  that its exit has not been handled; of an adopted pid nothing is claimed. From
  it: `SupervisorType`, `StatusStaysHonest`.

Every invariant and every action property that a run checks is thereby also
proved, and so is the refinement. Only model-checked: liveness (`WaitEnds` of
both components, `SettledWaitEnds`, `BlockEnds`, `RefreshEnds`, `DeadIsNoticed`,
`OperationsEnd`), which needs fairness and `ENABLED` and is out of the prover's
reach. The order properties of the semaphore are proved for the request path;
in `AccountSemaphoreReset` they are not stated.

## 5. Findings

`service_supervisor_kill`: `docs/frameworks/EMBEDDED-SERVICES.md:281` says of a
stop "Sends SIGTERM, waits 15 s, then SIGKILL if still alive". `killChild` sends
SIGKILL only `if (!child.killed)`, and `killed` is set as soon as SIGTERM was
sent. A child that ignores SIGTERM is forgotten while it runs, and keeps the port
if it listens.

`token_refresh_siblings`: `open-sse/services/refreshSerializer.ts:15` says "so
two siblings never POST to /oauth/token concurrently". The import of Codex
accounts (`src/app/api/oauth/codex/import/route.ts:45`) POSTs the token it is
given without the lane, so it is on the network with the refresh of another
account; the executor of Kiro (`open-sse/executors/kiro.ts:1111`) does the same
for the requests of its group. What does hold, and is proved, is `SiblingsApart`:
those and refreshes that were given up are the only ones.

Behaviours the models have that a reader of the code may not expect. They are
described here rather than checked, because no property that holds is about
them; the hazards of `PROJECT.json` give the lines of most:

- *Semaphores*: after a reset, the release of a request admitted before it frees
  the slot of one that still runs. A cooldown is lost with its gate when the
  request that hit the limit was the last of its model. A block set through
  `chatCore.ts:4277` lasts for decades (`markBlocked` takes a duration and gets
  a time). Callers of the rate-limit semaphore that keep passing different
  limits can starve a waiter until its queue timeout.
- *Leases*: when the lease of an inference request ends during its quota
  preflight, the claim acquires a new one that no client knows of. The fence is
  passed once per run of an executor: the attempt behind it, and the retries and
  fallbacks inside `BaseExecutor.execute`, can go out after the lease has ended
  and another owner has leased the connection, where
  `docs/reference/API_REFERENCE.md:165` has the lease "fenced immediately before
  each supported upstream attempt".
- *Breaker*: failures of forced connections start the cooldown of an open
  circuit over, for ever if they keep coming. The generation check in `execute`
  does not reach the reports of the chat path, so expired probes settle. A
  request that the half-open breaker rejected is reported as a 503 of the
  provider and reopens the circuit. A threshold per failure kind opens the
  circuit without saving it (no caller configures one).
- *Token refresh*: an answer that is lost after the provider rotated is treated
  as a POST that failed: the live token is lost, and the retry presents the used
  one. Kiro's executor presents the token its request loaded, also when the
  sweep has just rotated it. The usage path
  (`providerLimits/credentialRefresh.ts:122`, not modelled) takes the lane
  around executors that take it again: it waits for itself until the bound of 60
  s, and the inner refresh then rotates the token with nobody to store it. The
  guard compares the row with the token the caller loaded, not with the one that
  was presented, so a token can be left unstored; after the guard skipped a
  write, the reactive path writes the same result itself, over a fresher row. A
  result that arrives after the lane timeout goes to the rotation map only and
  is lost a minute later. A caller that loads a fresh login and joins the
  refresh of the old token deactivates the new login.
- *Supervisor*: a start that was overtaken by an event of the earlier child
  leaves the poller active and `unhealthy`; the next death of the service is not
  noticed. A late exit event clears the handle of the new child. A start that
  probes the port before an earlier child listens spawns a second one. A pid
  looked up for an adoption is stored although its process may have exited.

## 6. Plan

1. Done: `AccountSemaphore`, `AccountSemaphoreReset`, `RateLimitSemaphore`,
   `ExclusiveLease`, `CircuitBreaker`, and their proofs.
2. Done: `FairCostQueue`, `AdmissionControl`, `WeightedLimit` and the refinement;
   `TokenRefresh`; `ServiceSupervisor`.
3. Done: the proofs for them, of all invariants and action properties, the
   refinement, and the order properties of `AccountSemaphore`; the invariants of
   `AccountSemaphoreReset`.
4. Proofs of what the runs do not state: the order of the semaphore's queues
   and the uniqueness of the drain with resets; that the abstract gate of one
   model is implemented by `RateLimitSemaphore`; the steps on which the liveness
   arguments rest (a blocking circuit's cooldown only moves forward when a
   failure is reported; a lane only moves up).
5. `CircuitRegistry`: eviction of breakers that requests still hold, composed
   with `CircuitBreaker`; then `TaskManager` and `BudgetReservations`.
6. `RequestPath`, a composition of admission, semaphore and lease along the path
   of one request: every exit gives back what it took.
