# TLA+ models of tropel

tropel is a load generator: a *scenario* names an executor, the executor keeps a
pool of virtual users (VUs) running iterations, and metrics are collected beside
it.  This directory models the parts of the program in which concurrency, failure
or rounding decide whether a run is right: the seven executors of
`crates/tropel-scheduler`, the VU loop and the control API that steers a run; the
workers VUs run on and the walk of one iteration; the request path (rate limiter,
redirects, DNS cache); the way of a sample to the results; the script callbacks of
the local agent; and distributed runs with their segments.

Everything the models say is translated from the source; `PROJECT.json` maps each
definition to its lines.

## Inventory

| Component | State | Operations | Hard because |
|---|---|---|---|
| VU task (`vu_loop.rs`: `run_vu_loop`, `run_scenario_vus`, `run_driver_vus`) | its lease, its guards, `iteration_index` | start, loop top, ramp-down claim, pause gate, shared claim or token wait, iteration, exits | ends by claim, stop, init failure, panic or abort; each must leave the shared counters right |
| `VUScheduler` (`scheduler.rs`) | atomics `active_vus`, `stop_requested`, `force_stop_requested`, `ramp_down_target`, `ramp_down_remaining`, `control_*`, `arrival_tokens`, `arrival_dropped`, `idle_vus`, `claimed_iterations` | the accessors the VUs and the executors call | no lock: each atomic is exact by itself, pairs of them are not |
| constant-vus, ramping-vus | `current_vus`, handles | spawn, ramp-up, stepped ramp-down, settle, hold, reap and respawn | the pool shrinks by consent of the VUs; deaths must be told from exits |
| constant- and ramping-arrival-rate | token bucket, pool size, last target | tick, add tokens, grow, reap | the ticker works on counts that VUs change |
| shared- and per-vu-iterations | claim counter, indices | spawn, claim, join against maxDuration | VUs race for the last iteration, VUs start late |
| externally-controlled | target, max, logical pool size | seed, reconcile (grow, shrink, reset), stop | clients, VUs and the loop all change what the loop compares |
| control API (`control_api.rs`) | none of its own | PATCH vus/max/paused/stopped | served for any executor at any time |
| signals, abort coordinator, samplers (`vu_loop.rs`) | none of their own | stop, force-stop, take drops | run beside the executor |
| worker pool (`worker.rs`) | workers, busy flags, `growth_failed` | acquire, grow, wrap, release, drop | growth outside the lock, VUs that block their thread |
| scenario runner (`runner.rs`, `trp.rs`) | `PmState`, item index, jump count, failures | item, scripts, skip, request, jump, end | scripts steer the walk and throw anywhere; another thread sets the force-stop |
| local agent (`agent.rs`) | runs by id, `RunCallbacks` (pending calls, senders, done, waiters) | register, host call, long poll, reply, finish | three connections and a blocked script, two timeouts, a notify that stores no permit |
| HTTP client (`client.rs`, `dns.rs`, `rps.rs`) | hop locals, DNS cache, next slot | pace, check, resolve, send, redirect, body | a cache and a limiter shared by all VUs, no lock in the limiter |
| metrics pipeline (`collector.rs`, `outputs.rs`, end of `Engine::run`) | shard queues, series, accumulators, broadcast ring | record, aggregate, stream, close, results | bounded queues that drop, an output that lags, an order of closing |
| segments and stripes (`segment.rs`) | boundaries, stripe offsets | scale, stripe, advance, `due_by` | exact partition under rounding and unequal clocks |
| distributed controller and agents | segments, connections, snapshots | accept, authenticate, assign, run, ship, collect, join | peers that die, fall silent or are not ours; a select over two endings |
| everything else (thresholds, JS bindings, inputs, reporters, extensions, CLI, front ends) | | | sequential, I/O or parsing |

The executors call `run_vu` to spawn VU tasks and hold their `JoinHandle`s; the
VUs and the executor then communicate through the atomics only.  The `Notify`s
only shorten waits: each wait is re-checked at least every 100 ms, so the models
treat waits as level-triggered.

What makes each part right: counters equal the sets they count (`active_vus`,
`idle_vus`, `control_spawned`); the pool is the size its executor wants and never
above its cap; a ramp-down takes the surplus and no more; an arrival is started or
reported; an iteration budget is used exactly; and every run ends.  Beside the
executors: no two VUs own one worker and the pool is no larger than needed; an item
of a collection is steered by its own scripts only; no poll sleeps over work and no
call is answered twice; requests keep their distance, and a chain of redirects its
budget; each sample is in the results or in a drop counter; and a distributed run
succeeds only with one result of each segment.

## Modules

| Module | Models |
|---|---|
| `VuPool` | the VU task, the shared atomics, requests from outside, and the tail of every executor: soft stop, `wait_for_drain`, `await_handles_bounded` |
| `ExternallyControlled` | `run_externally_controlled` and the PATCHes of the control API |
| `RampingVus` | `run_ramping`, `run_constant` (its hold stage), `reap_and_respawn` |
| `ArrivalLedger` | abstract: what an arrival-rate executor promises about arrivals |
| `ArrivalRate` | `run_arrival_rate`, `run_ramping_arrival_rate`, the token wait, sampler and flush; refines `ArrivalLedger` |
| `IterationExecutors` | `run_shared_iterations`, `run_per_vu_iterations` |
| `WorkerPool` | `VUWorkerPool`: `acquire_slot`, `spawn_vu`, `BusyGuard`, `Drop` |
| `ScenarioRunner` | `ScenarioRunner::run_iteration` and what scripts may leave in `PmState` |
| `ScriptAgent` | the host-callback channel: `POST /script`, `/script/callback/next`, `/script/callback/reply` |
| `RpsLimiter` | `RpsLimiter::acquire` |
| `HttpClient` | `execute_with_jar`'s hop loop and the DNS cache |
| `MetricsPipeline` | `record_batch`, the aggregator shards, an extension output, the end of `Engine::run`, `merge_results` |
| `Segments` | pure: segment sequences, shares, stripes, offsets |
| `ArrivalStripes` | the nodes of a distributed run stepping through their arrivals; extends `Segments` |
| `Distributed` | `run_controller`, `run_agent`; extends `Segments` for the shares it hands out |
| `MC*` | instances for TLC |
| `VuPoolProofs` | lemmas on the VU task that the executors share |
| `ExternallyControlledProofs`, `RampingVusProofs`, `ArrivalRateProofs`, `IterationExecutorsProofs` | theorems on the executors |
| `ServicesProofs` | theorems on `WorkerPool`, `ScenarioRunner` and `ScriptAgent` |
| `DistributedProofs` | induction and sums; theorems on `Segments`, `ArrivalStripes` and `Distributed` |
| `TrafficProofs` | theorems on `RpsLimiter`, `HttpClient` and `MetricsPipeline` |

The four executor modules extend `VuPool`, add the executor's variables and
compose its actions with those of the VUs (`Vu`), the tail (`Ending`) and the
outside (`External`).  The other components have no state in common with the
executors or with each other: what passes between them is a call that returns (the
limiter's `acquire` is the step `Paced` of a request) or a number (the work in a
snapshot).  Each has a specification of its own; `MCServices` and `MCTraffic` are
the disjoint sums of several of them, see Runs.

### State and granularity

`pc[t]` is where task `t` is; the names of the states are explained in `VuPool`.
An action is one access to a shared atomic.  Several accesses form one action only
where no other actor can tell:

- `clear_ramp_down` stores the target, then zero slots.  A VU that claims between
  the stores has read the old target, as if it had claimed before both; one that
  reads in between sees "not armed".
- `arm_ramp_down_step` stores the target and increments the slots: a claim in
  between commutes with the increment.
- `set_ramp_down_target` is two stores as well.  The control loop calls it only
  when no slot is left, so nothing can be claimed in between; the final re-arm of a
  ramp-down stores the target that is already there.
- A PATCH loads the current value of a field it does not have, and the ceiling; the
  ceiling changes once, at the seed.  The loop reads target and max at once: the two
  stores of a PATCH are actions of their own, so it sees every mixture of them.
- The token add and the drop add of one tick; `GraceExpired`'s load of
  `active_vus` and the force-stop (the stop flag is already set then, and a VU
  treats both flags alike); a run of spawns (each touches a fresh task only).
- The pause gate's check, the stop check behind it and, in shared-iterations, the
  claim behind that: a pause or a stop in between could have come after.

The stale reads that matter are kept apart: the VU's `active` and target before its
claim (`LoopTop`, `ReadRampDownTarget`, `ClaimRampDown`), the claim and the
decrement of `control_spawned`, the control loop's `target`/`spawned`/`remaining`/
`active`, the ticker's token count before its add (`Tick`, `AddTokens`) and before
its growth (`LoadQueued`, `Grow`), the re-arm's `real` (`LoadReal`, `Rearm`).

Tasks are anonymous slots.  A slot is `finished` when the JoinHandle is and `free`
when the executor has dropped the handle.  Ids are not modelled: they come from one
monotonic counter.

Time is not modelled: a deadline may pass whenever it is pending, before or after
anything else.  Hence the bounded registration wait of `run_externally_controlled`
(`Register`) may end at once, the 100 ms throttle of `reap_and_respawn` is a choice,
and so is the number of arrivals due at a tick, which stands for the rate curve and
the stripe.

The control API is served for every executor; its `paused` and `stopped` act on
all of them, its target only on externally-controlled.  The listener is up before the
executor runs, while the ceiling is still its initial `u32::MAX`.  So the three stores
of the seed (`SeedHardMax`, `SeedMax`, `SeedTarget`) and the load and the stores of a
PATCH (`PatchVus`, `StoreMax`, `StoreTarget`, one handler for each of `Conn`) are
separate actions, open from the start.  A PATCH that finishes before the seed is
overwritten by it; one that loads the ceiling before the seed and stores after it
leaves a cap above `maxVUs`.  Run `cap` shows that.  The history variable `late`
remembers it, and `PoolWithinCap` and the theorem `PoolCapped` say that there is no
other way past the cap.

In the newer modules an action is one lock section, one atomic access, one channel
operation or one wake-up:

- `WorkerPool`: the scan for an idle slot holds the lock of the flags and meets only
  clears, so it is one action; the length read, the build, and the insert under the
  lock are three.  The busy guard is made by the task's first poll (`FirstPoll`), so a
  task that is aborted before it (`AbortUnpolled`), or dropped with its runtime
  (`ThreadExits`), leaves its flag set; the history variable `leaked` holds these.
- `ScenarioRunner`: one action per script, request and decision; a script chooses any
  jump and any skip, and may throw after it has set them.  The check of the
  force-stop after a throw is an action of its own, since the flag may be set
  in between.
- `ScriptAgent`: `finish` is a store and a wake-up; a poll creates its waiter, reads
  the queue, reads the flag and parks; a reply takes the sender and sends.
- `RpsLimiter`: the clock reading, the load and the exchange are separate; the clock
  moves at any time, additions saturate at `MaxU64`.
- `HttpClient`: a hop is one action per await.  The DNS cache is a sequence in the
  order of expiry (one TTL for all); with `inf` the order of eviction is arbitrary.
- `MetricsPipeline`: a batch is one sample of each metric with one tag; a VU sends it
  to the shards one after the other.  It clones the sender of the stream under a lock
  and sends after the unlock (`CloneSink`, `Forward`), which may be after the end of
  `Engine::run` has taken the sender away.  Joining the scenarios does not wait for VUs:
  an aborted one inside a call, or those of a scenario task that panicked, may still
  record; `stray` remembers them.  An output may fail at any time (`OutputFails`).
  Histograms are counts.
- `Distributed`: a connection is a sequence of frames, cut anywhere by a death.
  Nothing is assumed of a peer.  The write of the assignment is a wait of its own
  (`WriteAssign`, `WriteFails`), without a timeout and without fairness.  An engine
  counts its iterations (`work`) and may return Ok with fewer than its share: after a
  signal, at maxDuration, or if VUs panicked or could not be set up.
- `Segments`: a decimal boundary is the nearest multiple of a small power of ten, where
  the code has the f64's shortest round trip of about 16 digits; no property depends on
  which multiple it is.

## Runs

Passing:

- `control` - three task slots, max_vus 2, two connections and two PATCHes (values 0 and
  3, below and above the cap) at any time, the seed included, one death, a duration.
  Three slots are a VU on its way out beside two others.  The tasks are symmetric, and
  so are the connections.
- `ramping` - stages 1, 0, 2 from one VU: a hold (all of constant-vus), a ramp-down
  that may or may not settle, a ramp-up; one death.
- `arrival` - two VUs, bucket of two, four arrivals in any batches, so the bucket
  overflows, a burst of one spawn a tick, one death.  Also checks the refinement
  of `ArrivalLedger`.
- `iterations` - three VUs, both executors, three iterations asked for and a cap of
  two, so that one VU of shared-iterations finds the budget used up; one death.

- `services` - `WorkerPool`, `ScenarioRunner` and `ScriptAgent`.  The variable
  `subject` picks the one that moves.  They share no state, so their product would
  only repeat each one's states; the sum keeps every interleaving inside a component.
  Three VUs on one initial and at most two workers (idle, grown, lost race, failed
  build, wrapped, inline and leaked all occur); three items, two jumps, two iterations;
  two scripts under one run id (a run that takes over an id and one that deregisters the
  other's), with one call each.  Polls and replies have no state in common, so one poll
  and two replies that race for a sender run in turn with the scripts.
- `traffic` - `RpsLimiter` (two callers, interval 2, times up to 4, `MaxU64` 7, so that
  the slot saturates), `HttpClient` (two VUs, two hosts, one cache entry, one
  redirect, the three cache modes), `MetricsPipeline` (two recorders, metrics and shards,
  queues of one, one series a shard, so that both metrics of one shard overflow it, and a
  ring of two), `ArrivalStripes` (every
  sequence of at most three segments with denominators up to 5, six arrivals, clocks
  apart) and `Distributed` (two segments of one iteration, so that one has none to do, three
  peers of which one has no token).
  `SharesSum` and `StripesPartition` compare the code's rounding with a reference: the
  shares sum to the whole and are within one of the exact share; the stripes of the
  nodes partition the arrivals of one node at full rate.

Runs that show a disagreement between the code and what is written about it (see
`findings` in `PROJECT.json` for the quotations):

- `shrink` - a VU claims between the control loop's load of `control_spawned` and of
  `ramp_down_remaining`; the loop arms a slot that belongs to nobody, and the next
  shrink waits for it for ever.
- `dead_vu` - an init failure before `control_spawned.store(initial)` is
  overwritten; the VU is never replaced.
- `ramp_down` - the final re-arm counts a VU that has claimed and still holds its
  lease; the pool ends below the target.
- `arrival_leftover` - arrivals still queued at the stop are neither started nor
  reported.
- `self_heal` - the iteration a panicking VU had claimed is not run by anyone.
- `cap` - a PATCH loads the ceiling before the seed and stores after it; the loop then
  grows the pool past `maxVUs`.

All other bounds: `MaxU32 = 99` stands for u32::MAX, which is only compared for
equality and is above any count; `MaxDeaths` bounds init failures and panics; one is
enough for each of the ways out to meet each step of the others.  Deadlock is not
checked because every run ends.

### Fairness

VU tasks run on their own threads and never block between two iterations except at
the gate and in the token wait, so each of their steps is weakly fair where a
property needs it (`Progress` in `ExternallyControlled`, the three drops in
`RampingVus`).  Executors poll on timers: weak fairness of the executor's actions.
Nothing is assumed about iterations - they may hang - except in `IterSpec`, under
which `shrink` is run so that its counterexample is not a hung VU.  A hold may last
as long as the user asked, so its end is fair only after a stop.  Nobody is obliged
to send a PATCH, a signal or a panic, and an abort need not take effect.

In the sums each component keeps its own fairness, restated for the subject that
moves: callers of `spawn_vu` and the thread that drops the pool go on, but VUs may
block for ever; every script and request of an iteration ends (`WalkEnds` is about
jumps); a script's host call times out, while the deadline of a poll is left without
fairness, so that `ScriptEnds` needs the wake-up; aggregators, the output and the end
of `Engine::run` are tasks that run, and so is a VU between its clone of the sender and
its send, while it may stop recording at any other point; the controller's timers
and joins run, and nothing is assumed of its peers, nor of the reads that wait for
them.  The write of an assignment waits for a peer and has no timer, so `ControllerEnds` is stated for runs in which no write lasts
for ever.

## Proofs

`VuPoolProofs` holds what all executors share: a task that moves changes the size of
a set of tasks defined by their state by at most one (`InStep`), and from that, that
each VU step keeps the types (`VuStepType`) and the lease count (`VuStepLeases`).

`ExternallyControlledProofs`, for any finite set of tasks, any cap, any values sent
by clients and any number of deaths and requests:

- `TypeCorrect`, `LeasesCounted` (`active_vus` is the number of leases; so the
  saturating decrement never saturates), `PoolCapped` (never more than max_vus, unless
  a PATCH straddled the seed), `PoolIsCounted` (without a stop or a death
  `control_spawned` is the size of the pool, so the `fetch_add` of a grow loses no
  decrement), `NoStragglers` (no VU task outlives an executor that did not abort).
- `PoolWithinCap` is not inductive.  The strengthening `Accounting` says how far the
  logical pool size bounds the pool at each point of the loop: everywhere but between
  spawn and `fetch_add` the pool is at most `spawned`; there it is at most `spawned`
  plus the difference about to be added; and the loaded count is never below the
  current one, since VUs only decrement.  Target, cap and what a handler is about to
  store are within max_vus as long as `late` is false.

`RampingVusProofs`, for every number of tasks and every list of stages:
`RampTypeCorrect`, `RampLeasesCounted`, `GrowingPoolIsHeld` and, as an action property,
`NothingClaimedWhileGrowing`.  `PoolHeld` alone is not inductive: that a stage begins with
`current_vus` at the target the last one reached (`CountFollows`) is known only while
the stages have grown, and a ramp-up that begins with a slot armed would lose VUs to it
(`NothingToClaim`).

`ArrivalRateProofs`:

- `TypeCorrect`, `BucketCapped`, `IdleCounted`, `PoolIsHeld` and `ImplementsLedger` (the
  refinement).  `BucketCapped` needs `Loaded`: between the ticker's load and its add
  the bucket can only have shrunk.  The refinement rests on the same invariant; the
  map sends the bucket to the queue and the drop counter to the unreported losses.
  `PoolIsHeld` counts the handles through growth, reaping and respawn.

`IterationExecutorsProofs`: `BudgetNeverOverrun` and `AllWorkDone`.  The second is about
the end of a run; `LeavesDone` carries it there: with no stop and no death a VU leaves
only because the budget is used up, and no claim is lost on the way.  For per-vu-iterations
the iterations done are counted as pairs of a VU and a number, which gives the product.

`ServicesProofs`:

- `PoolSizedToPeak` and `FlagsTellOwners`.  The size of the pool alone is not inductive:
  a caller that has found no idle slot will add a worker later, when slots may be idle
  again.  `Sizing` counts such a caller as the worker it may add, and the pool counted so
  never exceeds the VUs present and the leaked flags; the flags must be exact for that,
  so both theorems have one invariant.
- `WalkStaysHonest`.  The invariant says, step by step, whose the skip flag is (only
  before the request is it the item's own), that a thrown error is noted as soon as it is
  left behind, and that the jump count passes its cap only when the iteration is over.
- `NoWakeupLost` and `AnsweredOnce`.  For the first, `WakeupToCome` extends the claim to a
  poll that has found the queue empty and not yet parked.  For the second, `FreshIds`:
  replies may name any id, also one not yet given, but nobody holds, has answered or can
  take a call whose sender has not been inserted; then the sender, the replies that hold
  it and the answers given always add up to one at most.  `SendersLive` adds that a
  script has no sender once it has gone on from the call.
- `ServicesTyped`, the types of the three side by side.

`DistributedProofs` begins with the tools: induction over the natural numbers as a fact
about sets (`NatSet`, from the well-foundedness of `<`), functions defined by recursion
(`Recursion`), and sums of functions over finite sets (additivity, exchange of two sums,
sums of zeros and ones as cardinalities).  Then:

- `SharesMakeWhole`: the shares telescope, floor by floor, to the whole, for every
  sequence, spelled as fractions or as the decimals the controller prints.
- `StripesStayApart`.  First what the striping computes: a common cycle exists, every
  segment has a whole number of ticks in it and they add up to the cycle (`TicksAddUp`);
  at each tick some segment is behind (`SomeoneBehind`, since not all can be ahead of
  shares that add up to one), and none claims beyond its share, so in the end each owns
  exactly its ticks and every tick has one owner (`StripesOwn`).  Then the cursor: it
  stands at the n-th tick of cycle q, and `Advance` takes it to the next owned tick with
  none between (`MovedStands`), so `due_by` releases exactly the owned arrivals up to the
  count (`DueReleases`).  The invariant `StripeInv` says that a node has released exactly
  the owned arrivals before its cursor, which is past its clock.
- `MergesTheWholeJob` and `FinalAlwaysShipped`.  Their invariant relates both ends: a
  connection has one task (`Links`), a segment one agent that holds the token
  (`Assigned`), a final frame on the wire or read is that of an engine that is done and
  holds its work (`Finals`), no engine does more than its share, and what it has done
  stands once it has ended (`Worked`), and the ticker keeps the progress channel open
  while the engine runs (`Runs`).

`TrafficProofs`:

- `StartsSpaced`, from `SlotAhead`: the next slot is an interval past every claim, unless
  it has saturated.
- `ChainStaysBounded`, from what a hop may have spent before and after it is answered, and
  `CacheStaysBounded`: eviction makes room for one more, whatever the order.
- `StreamIsAccounted` and `ResultsStayWhole`.  `PipeInv` says where each sample is on its
  way: with a VU that has not come to its shard, in the queue, in the totals, or dropped
  and counted (`Accounted`); that the request for the results is the last message of a
  queue (`LastAsked`), so an answer stands (`AnswerStands`); and that a shard's series and
  its overflow add up to its totals (`ShardSums`).  The parts about the end of a run are
  conditional on there being no stray VU; that headlines cover totals is not, nor is the
  account of the stream: an output sees its end only when nobody can send.
- `TrafficTyped`, the types of the five parts side by side.

The assumptions are the named `ASSUME`s of the modules (finiteness of the sets of
tasks, VUs, metrics and replies, natural numbers, fewer tasks than u32::MAX); TLC
evaluates them in the runs.

Every invariant and action property that a passing run checks is also proved.  Only
model-checked is liveness (`StopEndsRun`, `DeadVuReplaced`,
`PressureGrowsPool`, `EndsByMaxDuration`, `PoolProgress`, `WalkEnds`, `ScriptEnds`,
`RunFinishes`, `ControllerEnds`), because the prover has no support for fairness and
ENABLED.  The library's induction theorems, which take a predicate as a parameter, cannot
be used with the provers at hand; the proofs go through sets without a least
counterexample instead.  None of the modules declares a RECURSIVE operator.

## Observed, without a run

- per-vu-iterations with `iterations: 0` runs one iteration per VU: the budget is
  checked after the iteration.  The properties assume a positive budget.
- The steps of a ramp-up or ramp-down do not look at the stop flag; a stop during
  them takes effect when the stage is over.  `StopEndsRun` shows that it does.
- shared- and per-vu-iterations do not look at a stop themselves; they end when
  their VUs have seen it or at maxDuration.
- After a ramp-down, the handle of a VU that has dropped its lease but not yet
  finished is taken for a dead VU by the next hold and respawned.  `PoolHeld` is
  therefore stated up to the first ramp-down.
- Workers: the doc of `spawn_vu` says "No two LIVE VUs ever share a worker".  Below
  `MAX_WORKERS` they do when a worker cannot be created, and later an idle slot is given
  to a new VU although a wrapped one still runs there.  `FlagsAreOwners` is about the
  VUs that own a slot.  A VU task aborted before its first poll leaves its busy flag
  set (worker.rs 393-394), because the guard is made inside the task: the pool then
  exceeds the "PEAK CONCURRENCY" its doc (56-60) gives as its size, by one worker for
  each.  `SizedToPeak` and `FlagsAreOwners` say that this is the only way.
- Script callbacks: a reply that has taken the sender just before the script times out
  sends to nobody and is still told 200 `delivered`, which the comment at agent.rs
  1127-1129 means to exclude ("answering a call that timed out, is a NAMED 404 rather
  than a silent success").  After the script has forgotten the sender the reply is a
  404 (`SendersLive`).  A run id that is reused: the script that ends first
  deregisters the other, whose polls then get 204 and whose replies 404.
- The Digest retry of a hop does not wait for the rps limiter.
- The write of the assignment (controller.rs 155) is the only wait of a controller task
  without a timeout: a token holder that does not read keeps the controller waiting,
  although the doc of `agent_timeout` says that a dead agent "fails the run shortly after
  the test would have finished".  `agent_timeout` does not look at the scenarios.  The arm
  `None => break` of the agent's select would exit with success and no final snapshot;
  it is unreachable only because the periodic task keeps a sender (`FinalShipped`).
- An engine that was cut short (signal, maxDuration, panicked VUs, failed set-up) returns
  Ok, its agent ships a final snapshot, and the controller merges it as any other:
  no frame says that a part is missing.
- An output that panics (engine.rs 838-842) or cannot be set up (statsd.rs 91-94,
  influxdb.rs 135-138) loses samples that nobody counts, so the run can be verified,
  while collector.rs 1979-1980 says that any lost output sample makes it unverified.
- VUs that outlive their scenario record after the stream is closed, and into shards
  that have answered: such samples are in no counter.
- Segments: per-vu-iterations scales both `vus` and `iterations` (segment.rs 418-430), so
  that N nodes do about 1/N of the work, while the module doc (13-15) says that the
  shares sum exactly.  `SharesSum` is about one scaled number.
- The docs of the collector (collector.rs 33-36, 390-398) say that senders block; they
  drop, and count it.  The drop counters of agents do not reach the controller.
- Thresholds: a compound `a && b` with abortOnFail aborts when b has no data yet.
- A scenario whose set-up fails counts as no iterations and no failure.
- Scenario runner: a genuine script error just before the force-stop flag is set is
  taken for an interruption and not noted; after an error in a prerequest script the
  request is still sent.

## Not modelled

The map covers a small part of the repository's lines, because most of them are not
control: over a quarter are parsers of foreign formats (k6, OpenAPI, Postman, HAR,
Bruno, Insomnia); then JavaScript bindings, variables and authentication, formatting
of summaries and reports, command-line handling, TLS and cookies, the WebAssembly and
web front ends, build code, and in every file its unit tests.  They hold no shared state and take no step
that another actor could see; a model of them would be a transliteration.  Thresholds
and trend statistics are floating-point arithmetic and the parsing of expressions.
`PROJECT.json` lists each such part with its reason.

## Plan

1. Done: the executors with their pool and control API; the worker pool, the scenario
   runner, the script callbacks, the rate limiter, the HTTP client, the metrics
   pipeline, segments and stripes, and the distributed run; theorems for every
   invariant and action property of the passing runs.
2. The abort coordinator with the thresholds it evaluates, composed with
   `MetricsPipeline`.
3. Proofs of the safety part of liveness: that what ends a wait (a wake-up, a timer, a
   stop) is there whenever one waits, as invariants.
