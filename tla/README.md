# A TLA+ development for RayX

RayX puts a small Python frontend over HPX: a synthetic *engine* of serialized
service lanes, a *runtime* of lanes that run registered native operations and
actors, and an experimental *endpoint* through which another process of the
node reaches the runtime. Around it the repository keeps a long series of
experiments: programs that launch HPX islands and Ray actors, kill some of
them, and derive verdicts from what they saw. Both are concurrent programs in
which the interesting behaviour is what happens when two things happen at once
or one of them does not happen at all. These modules model them and say what is
checked and what is proved.

## The system

### The package

| Part | State | Operations | Interacts with |
|---|---|---|---|
| `CancelToken` (`hpx_impl/service_lane.hpp`) | phase, cancellable flag, promise | `cancel`, `begin_service`, `stop_at_boundary`, `mark_completed`, `is_cancelled` | shared by the client's future and the lane |
| `ServiceLane` (same file), `HpxLane` (`hpx_lane.hpp`) | queue, stop flag, active flag, worker | `submit`, `try_submit`, `submit_bulk`, `stats`, `run`/`service`, destructor | token; owned by `Engine` |
| `RuntimeCancelToken` (`runtime_cancel.hpp`) | as `CancelToken` | the same, with `mark_finished` for failures too | future and lane |
| `RuntimeLane` (`runtime_lane.hpp`) | queue, stop, service slot, in-flight count and tokens | `submit`, `try_submit`, `cancel_pending`, `stop_and_join`, serial and non-blocking consumer | token, executor, continuations; owned by `RuntimeEngine` |
| `ProcessHpxOwner` (`_rayx.cpp`) | engine/runtime flags, endpoint count, HPX reference count | `attach`, `detach` | every constructor and shutdown; the GIL; HPX |
| `RuntimeBridgeSlot`, `bridge_dispatch` (`_rayx.cpp`) | published engine, draining flag, in-flight count | `publish`, `acquire`, `release`, `drain_and_unpublish` | endpoint threads, `RuntimeEngine` |
| facades (`rayx/__init__.py`, `rayx/runtime/__init__.py`) over `Engine`, `RuntimeEngine` and their futures (`_rayx.cpp`) | closed flag, lanes, the futures handed out | submit (single, batch, varied), actors, `cancel`, `wait`, `as_completed`, `result`, `shutdown` | lanes |
| validation (`_validate.py`, operation table) | none | which arguments an operation accepts | facades, endpoints |
| endpoints (`rayx/endpoint`, `endpoint_seam.hpp`, `endpoint_transport.hpp`) | registry, tombstones, listener and its share count, connections | construct, `close`, `connect`, `ping`, `call_op`, accept loop | owner, bridge, other processes |

### The experiments

| Part | State | Operations | Hard about it |
|---|---|---|---|
| islands of two processes (53 to 60) | root and connector process, their marker files, what the supervisor read | launch, wait, call, kill, restart; the poison predicate; verdicts | four reads at four moments decide whether a connector is lost |
| load (69) | closed-loop scheduler, actor counters, outstanding requests, verifier thread | soak, warm-up, measured batch | requests that were given up go on running in the next batch |
| arms (61 to 64) | one invocation: root, connectors, Ray, calls, artifacts | launch, await, call, verdict, clean up | a failure in the middle of many calls; the order of the clean-up |
| bands (61 to 64) | files of islands, manifests, aggregates | write, pair, aggregate, while jobs are rerun elsewhere | files of different allocations end up in one claim |
| repetitions (65 to 69) and slices (70) | Ray head, two Ray actors that host HPX localities, root process, markers | join, work, supervise, depart, lose, recreate, sweep | departure, loss and lateness told apart; nothing left alive |

What makes each part correct, and is hard to test:

* tokens and lanes: one settlement per request; a `cancel()` that returns true
  is honoured and one that loses changes nothing; FIFO service; caps; no lost
  wake-up; a destructor that drains;
* runtime lanes in addition: teardown asks everything that can stop to stop,
  and returns only when no continuation can touch the lane;
* owner: the coexistence policy for any interleaving of Python threads, HPX up
  exactly while an owner has it, no claim left by a failed constructor, no
  lock-order problem with the GIL;
* bridge: an engine outlives every call in it; shutdown neither cancels a
  bridged call nor waits for ever;
* facades: rows that say what happened, a generator that yields each future
  once, a shutdown that settles everything;
* endpoints: an answer never comes from another endpoint than the one asked
  for; the listener lives exactly while somebody shares it;
* experiments: a verdict of pass rests on what the processes did and not on
  what a marker says; a run without faults passes; a failure is explained;
  whatever crashes, the program ends and leaves no process behind.

`PROJECT.json` lists the hazards one by one, at the line where each bites.

## Modules

Lanes of the native code:

* `ServiceLane`: one lane. Its first part is `CancelToken`, as operators from the
  token before a call to the token after it and to the call's result: a method
  is one critical section under the token's own mutex. A step is one critical section under `mu_`, or one
  statement outside it that another thread can see: the `notify` after a push
  (`Notify`), the `set_value` after a queued cancel (`CancelFulfill`), the
  worker's `begin_service`, chunks, boundaries, `mark_completed`, `set_value`
  and the store that clears `active_`. `now`/`enqueue_ns` order the pushes (the
  code reads the clock under the same lock when diagnostics are on). `wins`
  counts the `cancel()` calls that returned true; a `cancel()` that returns
  false changes nothing and is no step. A promise that is set twice holds
  `set_twice`, where the code would throw.
* `Settlement`: what a lane promises, whatever its inside: admitted requests
  are settled once, as cancelled exactly if a cancel had succeeded before. Both
  lanes are shown to implement it (`ImplementsSettlement`).
* `RuntimeLane`: `RuntimeCancelToken` in the same form, and one lane of the
  runtime in both modes, with the consumer, one control point per operation for its body and continuation, clients, and the
  teardown thread (`cancel_pending()`, then `stop_and_join()`). An operation is
  its checkpoint count and dispatch policy.

The Python package, composed by `MCPython`, where a behaviour is about one of
the kinds "engine", "runtime", "endpoint", "owner" and "bridge":

* `Validate`: the argument checks, as predicates over typed values; integers
  keep the width the code gives them (the instance scales the ends of `int64`
  to 2 000 000 and tries every bound, one below and one above).
* `Facade`: an `Engine` or a `Runtime` as its Python caller sees it: one driver
  thread whose calls block, lanes reduced to queue and active request.
* `Endpoint`: registry, tombstones, listener, one client connection at a time,
  a peer process that may crash and whose pid and socket path may be used again.
* `HpxOwner`: `ProcessHpxOwner` with the two locks around it. A Python thread
  takes the GIL, calls a constructor or a `shutdown()`/`close()`, takes `mu_`,
  and gives the GIL up inside while HPX starts or stops. `live` counts objects
  constructed and not shut down.
* `RuntimeBridge`: slot, callers, driver and lanes together, over several
  Runtimes in a row.

Two-process islands and load, composed by `MCSupervised`:

* `Spike`: what the supervisors of 53 to 60 share: the root and the connector
  as processes, marker files, waits, kills.
* `Poison` (53, 54, 55) and `TwoNode` (56, 57, 58, 60): each program's phases,
  gates and verdicts, and the pure helpers (CPU lists, core split, percentiles,
  address selection), which `MCSupervised` compares with reference definitions.
* `Throughput` (69 under load): scheduler, actor, verifier and batch gates. It
  has as many request slots as can be in use with `MaxFaults` loops given up; a
  submission finds one free (the guard of `Fill` says so, and is a bound).

Islands in Ray actors, composed by `MCLifecycle`:

* `Island`: the root process, two actors with a locality each, Ray, markers,
  and what may go wrong with them; `Supervisor`: the calls a driver makes and
  what it records; `Slice1` to `Slice4`: the drivers of experiment 70; `Rep`:
  what the repetitions of 66 to 69 have in common; `Rep65` to `Rep69`.

Arms and bands, composed by `MCArms` and `MCBands`:

* `Arm`: one invocation with its calls, clean-up and artifacts, the local srun
  clients it holds (`client`), and the connector programs of the four experiments
  (`run_connector`) as processes behind them (`conn`): pre-probe and start, which
  may fail and say so in `connect.joined1`; the two attestations; serving until
  a marker, the serve timeout or the deadman; the disconnect and its last file.
  `Exp61` to `Exp64`: every arm of the four programs and its verdict.
* `Oracles`: digests, block sums, top-k and the waiter verifier's verdict,
  evaluated in `MCBands` against reference definitions.
* `Evidence`: islands' files, the allocations they come from, and a section for
  each experiment with its pairing, manifests and bands.

Proofs: `ServiceLaneProofs`, `RuntimeLaneProofs`, `PythonProofs` for `MCPython`
with the owner, the bridge, the endpoints and the facades, `LifecycleProofs` and
`LifecycleTheorems` for `MCLifecycle` (the second goes on where the first ends:
one module would take tlapm twice as long), and `SupervisedProofs`, `ArmsProofs`
and `EvidenceProofs` for `MCSupervised`, `MCArms` and `Evidence`.

In `PROJECT.json`, "map" names the lines each definition models. A helper whose
lines a mapped definition of the same function already names has no row of its
own.

Action names follow the functions of the source. A wait with a deadline is one
step with the outcomes the code distinguishes: what was waited for is there, or
the wait gave up. Definitions called *faulty variants* are plausible bugs of
the definition after them; each property is known to fail when one of them, or
the variant named with it in `PROJECT.json`, takes its place.

## Runs

| Run | Distinct states | Shows |
|---|---|---|
| `lane_unbounded` | 505 770 | submits, group submits and cancels of two clients race with the worker and the destructor: `TypeOK`, `PromiseSetOnce`, `CancelIffOneWin`, `SubmissionOrder`, and `ReportsTrue` (the rows' chunk counts and what `stats()` may be used for) |
| `lane_live` | 92 240 | a cap of one under fair scheduling: `AdmissionBounded`, `EveryRequestSettles`, `DestructionCompletes`, and `Settlement` is implemented |
| `runtime_safety` | 1 091 054 | both modes, failing dispatches, teardown at any time: `SettledAsAnnounced` (once, and as cancelled exactly if a cancel won), `StartsInOrder`, `BoundsKept` (queue cap, in-flight cap, types), `TeardownSafe` (idle means settled, joined means quiet, a serial lane asks everyone to stop) |
| `runtime_live` | 65 577 | both modes: every request settles, every teardown completes (`Progress`), `Settlement` is implemented |
| `python` | 361 791 | the package: `FuturesHonest`, `ShutdownSettlesAll`, `AnswersTrue`, `ListenerFollows`, `PolicyMatrix`, `HpxFollowsOwners`, `BooksMatchObjects`, `EngineOutlivesCalls`, `BridgedNeverCancelled`, `EveryWaitEnds` |
| `supervised` | 418 035 | experiments 53 to 58, 60 and the load of 69: `PoisonMeansLoss`, `VerdictsTrue` (clean runs pass; a pass means nothing runs on and two localities answered), `PassMeansIsolated`, `Terminates` (or 60 waits for good for a root that outlived its kill) |
| `islands` | 230 538 | experiments 65 to 69 and the slices of 70: `VerdictSound`, `FailureExplained` (a run without faults passes, but for slice 3's own time bound; a failure has its class), `EventsTrue`, `OrderKept` (completion before departure, repetitions that start from nothing), `Terminates`, `EverythingReaped` |
| `arms` | 465 070 | every arm of 61 to 64: `VerdictHonest`, `NothingLeft`, `Terminates` (or it hangs in a wait without a deadline, after something went wrong) |
| `bands` | 2 493 168 | manifests and bands of 61 to 64 while islands are rerun elsewhere: `BandRests`; the oracles against their references |
| `lane_failed` | violated | a cancel of a request that then fails returns true (finding 1) |
| `runtime_window` | violated | `cancel_pending()` misses an operation between its pop and its recording (finding 2) |
| `owner_gil` | violated | a call finds `mu_` taken while it holds the GIL, which is a deadlock (finding 3) |

**Bounds of the native parts.** Every race there is between at most three
parties over one request (two that cancel, or cancel and tear down, and the
worker), and order needs two requests with a third to fill the queue or the
slots. Two or three chunks give a first, a middle and a final boundary; 0
chunks are run as one. Two Runtimes in a row show that nothing of the first
leaks into the second; three Python threads are one that starts HPX, one that
waits for `mu_` and one that could still run. `MaxEndpoints`, `MaxRuntimes`,
`BulkSize`, `MaxFutures` and the sets of requests bound the model and not the
code; `MaxQueueDepth` and `MaxInflight` are parameters of the code.

**Bounds of the experiments.** `MaxFaults` bounds how many things go wrong in a
run: crashes, stalls, hangs, calls that raise or time out, answers that are
late or wrong, waits that give up although what they wait for would still come.
Two for the slices and the arms, so that a failure in a clean-up after a failure
occurs; one for repetitions (of which there are two in a row), for the islands
of 53 to 60 and for the load. A wait that gives up because what it waits for can
no longer come is not a further fault. Times are abstracted to the order of
what happens before a deadline; where a verdict compares times (suspicion and
observation bounds of 70, calibration of 55, the idle backoff of 64) they are
small numbers. Two islands, three allocations of which two share nodes, and four
invocations let a band be built from files of different runs; two remotes tell
"one connector" from "all". `MaxSnaps`, `MaxRuns`, `B`, `K` and `N` bound the
model.

**Deadlock** is checked for `arms`, `islands` and `supervised`, whose programs
end (an `Ended` step stutters). It is not checked for lanes and the package: a
lane with nothing to do, or a process in which all futures of the model are
used, has legitimately stopped. That threads do not wait for each other there
is what the liveness properties say instead. In `python` the threads of the
owner have no fairness and no liveness is asked of them: the deadlock of
finding 3 is theirs.

**Fairness.** Threads that can run do run: worker, consumer, launched operation,
a client or a teardown in the middle of a call, the listener. That is what
`std::thread`, `hpx::thread` and the executor give (operations are assumed to
end, as all registered ones do). An experiment's driver is one Python thread,
which is always scheduled (`WF(Driver)`); a healthy process goes on with what it
was launched for (`WF(Processes)`, and one condition per connector of an arm:
joining, finding its marker, disconnecting), while nothing is assumed of one that
is stalled or dead. Fairness ends no wait that has no deadline: there the driver
may reach `blocked` (61, 62), or stay at `rewait` (60), and take no further step.
Nobody is obliged to submit, to cancel, to call or to shut down, and no crash is
obliged to happen. `bands` is a safety property and states no fairness.

## Findings

1. `lane_failed`: the `catch` in `service()` does not mark the token, so
   `cancel()` between `begin_service()` and the failure returns true for a row
   that becomes `failed`. The runtime's token was given `mark_finished()` for
   failures; the window before it remains for a dispatch that fails.
2. `runtime_window`: a non-blocking lane records a popped operation in a second
   critical section; `cancel_pending()` between the two misses it, and
   `stop_and_join()` then waits for all of it and not for one stride. Serial
   lanes record at the pop and do not have the window
   (`SerialStopAsksEveryone`).
3. `owner_gil`: HPX starts and stops with `mu_` held and the GIL released; a
   second thread that constructs or closes anything then waits for `mu_` with
   the GIL, and both stop for good.

### Waits without a deadline, and other limits of a verdict

The properties are stated around these, and the model does what the code does.

* 60: after `root.kill()` the driver calls `root.wait()` with no timeout
  (`run_exp60_control.py:558`). If the srun client does not go even then, the
  driver waits for good; `Terminates` of `supervised` allows exactly that
  (`Blocked`). The other launches of 56 to 58 do not wait again after a kill, or do
  so inside a Ray actor whose caller has a deadline. The kill hits the local
  client, so a root on its node may outlive it without blocking anybody; that is
  another outcome of `_root_kill`.
* 61 and 62: the remote call of 61 is an `hpx::async(...).get()`
  (`dist_probe_ext.cpp:173`), the local calls of 61 and 62 wait in the same way,
  and the `ray.get` of 61, placing included, and of 62's local smoke has no
  timeout. `ext.shutdown()` of all four is `hpx::stop()`
  (`dist_probe_ext.cpp:103`, `fanout_ext.cpp:114`). A call to a host that no longer
  serves may come back late, raise, or never come back (`CallHangs`); stopping a
  root may never return when a locality was not cleanly gone, or by a fault
  (`StopRoot`). Then there is no artifact, and a `finally` clause that was not
  reached releases nobody. `Terminates` of `arms` says that an invocation ends or
  hangs in one of these, and hangs only after something went wrong.
* 61 to 64: a connector whose client does not return in time is not killed; its
  local srun client is, with no wait after it and no look at the node
  (`run_exp62_fanout.py:1438`, `run_exp61_same_axis.py:864`). `Reap` changes `client`
  and not `conn`: the connector may serve on while the root stops and when the
  invocation is over. `NothingLeft` therefore claims that every client was
  reaped or killed, and that a connector runs on only where its client was killed.
  What such a connector does after the invocation is not followed. What a pass may
  rest on in spite of a killed client, an unclean teardown or a lost
  connector differs from arm to arm: `Overlooked` of `MCArms` lists it, and
  leaving out any member makes `VerdictHonest` fail.
* 70, slice 3: the terminal event must be published within 15 s of the
  departure (`run_slice3.py:690`), while the looks in between may take up to 30, 20
  and 20 s and succeed (1682, 1696, 1729). A run in which nothing failed can miss the
  bound; it then fails as `publication_unbounded`. The model records a free choice
  (`prompt`), and `CleanRunPasses` excepts a run that missed this bound and
  nothing else (`MissedOwnBound`).

### Noticed, without a run

In the package: shutdown drains the bridge before it cancels anything
(`_rayx.cpp:1840`), so it waits for whatever is queued before a bridged call and
not, as the comment there says, for one operation. `runtime_cancel.hpp:128` says
`mark_finished()` is called after `set_value`; it is called before. `draining_`
stays set after a Runtime is gone (`_rayx.cpp:1163`), so the status is
`RUNTIME_DRAINING` where `RUNTIME_ABSENT` is meant; both are one Python error.
"At most one" bridged request in flight (`_rayx.cpp:1177`) is true of the
listener and not of same-process calls. If `hpx::async` throws in
`run_nonblocking()` (`runtime_lane.hpp:419`) the slot stays taken.

In the experiments, each where the model follows the code and a property had to
be stated around it:

* 69: a batch whose warm-up failed has the one gate `warmup`
  (`run_exp69.py:2670`); `apply_capability_linkage` looks up the others and the
  program ends with a `KeyError` and no aggregate (verdict `crash`). Requests
  that were given up go on running in later batches; the exact witness deltas
  catch them (`PassMeansIsolated`).
* 61: a failure before `root_extra` is assigned raises out of an arm that
  documents every failure as captured (`run_exp61_same_axis.py:796`). A band
  takes the canon from manifests and reads the arms' files again
  (1305, 1344); it counts repeated ids. A Ray connection failure is a skip.
* 62: only the last call's answer is judged
  (`run_exp62_fanout.py:1272`), where the document says per call; the band
  ignores manifests; a missing CPU attestation passes, which 64 fails.
* 63: a poll control whose later call raised still passes the control; a sweep
  may read an artifact of an earlier program of the same job.
* 64: a band accepts artifacts that were written after their manifest; the
  waiter verifier may say `resumed_on_ready` over invalid controls.
* 53 to 60: a supervisor whose Ray actor dies before its shutdown leaves its
  children; 54 registers the island only after both processes were launched;
  56 and 57 raise out of `main` when the connector's launch fails and leave the
  root; 56 counts a connector that reported a failed start as joined; 57 settles
  without looking at the root's exit; 58 reports a reachability failure without
  an overall verdict; 56 and 60 take an orphan check that could not be made as
  clean (hence the exception in `PassMeans`); 60 does not gate the connector's
  departure.
* 65 to 69: an exception in a local repetition leaves without an aggregate;
  an unknown pid counts as gone.
* 70: slices 1 and 2 do not look at a controller's exception in the rollup;
  slice 3 announces `JOINED` for a start that failed, checks a pid with
  `os.kill(pid, 0)` where its comment speaks of identity; slice 3b gates neither
  the root's exit path nor orphans (hence no `NobodyLeft` there);
  `suspected_alive` of slice 4 and `orphan_detected` of 3 and 4 are never
  produced by a live run of the model.

## What is proved

Every theorem is about the specification that TLC runs, or, for the two lanes,
about the module that the `MC` module extends. The
hypotheses are the named assumptions on constants and nothing else, except where
a theorem states one. Each invariant below was first checked by TLC on the run's
instance; the proofs then cover every value of the constants.

### The two lanes

`ServiceLaneProofs`, for any sets of requests and clients, any chunk counts, any
cap and any group size (`LaneAssumption`): `TypeCorrect`, `PromiseOnce`,
`CancelHonoured`, `AdmissionWithinCap`, `InSubmissionOrder`, `LaneReportsTrue`,
which are the safety properties of `lane_unbounded` and `lane_live`, and
`LaneRefinesSettlement`: `Spec => ImplementsSettlement` when only supported work
modes are submitted (finding 1 is why that hypothesis is needed).

`PromiseSetOnce` is not inductive: nothing in it says why the worker never
reaches `set_value` for a request that a client is about to fulfil. The
inductive invariant `LaneInv` adds, part by part: a new request is untouched
(`NewUntouched`); `wins` agrees with the token's phase (`WinsMatchToken`); a
request without a token is never cancelled (`TokenlessIdle`); the token's phase
says which thread may still set the promise (`TokenShape`); a queued request is
waiting and occurs once (`QueueWaiting`); what the worker's control point says
of its item, token and result (`WorkerItem`); what a client in the middle of a
cancel has won (`Cancellers`); and settled rows agree with tokens
(`RowsMatchTokens`). A second invariant, `OrderInv`, rests on it: the chunk count
follows the worker's control point (`Counted`); an admitted request is settled,
being cancelled, queued, or the worker's (`Held`); and the queue is sorted by push
time, nothing in it is older than what the worker took, and whatever was pushed
before the worker's item is out of the lane's hands (`PushOrder`). There is one
lemma per kind of step; `SubmissionOrder` follows from `PushOrder`, `ReportsTrue`
from `Counted` and `Held`.

`RuntimeLaneProofs`, for both modes and any operations, clients and caps
(`RuntimeLaneAssumption`): `TypeCorrect`, `SettledOnceAsAnnounced`,
`StartedInOrder`, `WithinBounds`, `TeardownIsSafe`, which are all four properties
of `runtime_safety`, and `LaneRefinesSettlement` under `~DispatchFaults` (a
dispatch that fails after `begin` may find its token cancelled, as in finding 1).
Here up to `MaxInflight` operations run beside the consumer, so the invariant
(`LaneInv`, theorem `LaneInvariant`) is about each request and not about one
worker: what its token, promise and control point say of each other
(`RequestInv`); who is in the middle of a cancel (`Cancellers`); where an
admitted request is, and that it is in one place (`Positions`); what the consumer
holds (`WorkerShape`), including the window of finding 2; which operations
`in_flight_` and its tokens are (`InflightShape`, which is where `EraseToken` has
to remove the right entry) and which one the service slot is (`ServiceSlot`);
that what was pushed earlier has started, and in a serial lane is done
(`EarlierDone`); what the teardown has asked and waited for (`TeardownShape`); and
that slots never exceed the cap (`Slots`).

### The package

`PythonProofs` proves all nine safety properties of the run `python` of
`MCPython`'s own `Spec`. A step of the package is a step of one part, and the
others take none (`PartSteps`), so each part has an invariant of its own.

* `PackagePolicy`, `PackageHpxLife`, `PackageBooks` from `OwnerInv`, for any finite
  set of Python threads that does not contain `NoThread` and any bound on
  endpoints. The policy speaks of objects alive, the code tests its own flags, and
  between the two lie constructors that have attached and not returned and
  shutdowns that have begun and not detached. `OwnerInv` counts those as *holders*
  of a claim: each book equals live objects plus holders (`BooksExact`, with
  cardinalities); a thread is inside exactly while it has `mu_` (`Mutex`); an Engine
  excludes all claims (`EngineExclusive`); and a thread that starts or stops HPX
  finds no claim, whatever the GIL does meanwhile (`OwnerBusy`, `OwnerCalm`). The
  proof shows that the deadlock of finding 3 costs progress only, never the policy.
* `PackageOutlivesCalls`, `PackageBridgedSafe` from `BridgeInv`, for any finite set
  of callers, any number of lanes and of Runtimes in a row. That a caller's engine
  is alive is not inductive; the reason is the count. `BridgeInv` says that
  `in_flight_` is exactly the callers inside (`InFlightExact`, a cardinality), that
  it is zero outside the stages between publication and the end of the drain
  (`DrainGate`), what each stage says of the slot, the lanes and HPX (`StageShape`),
  that whoever is inside holds the current generation (`HeldAlive`), and that a
  bridged request is in at most one slot of one lane, while its caller waits
  (`OnePlace`). A drained bridge has therefore no bridged request in any lane when
  `cancel_pending()` runs.
* `PackageListener`, `PackageAnswers` from `EndpointInv`: the share count is the
  number of live transport endpoints and the listener agrees with it
  (`PeerInv`); a frame names the connected id until it is served and carries a
  true status after that (`CallInv`). What the client takes from a frame depends
  on the id echoed in it and not on who answered, which is why a second process
  under the first one's pid and path cannot be mistaken for it.
* `PackageFutures`, `PackageShutdown` from `FacadeInv`: futures are numbered as
  they are made (`Numbered`), a queued or active one is in its own lane once
  (`Placed`), a cancel that was won decides the row (`Asked`), a teardown leaves
  nothing in the lanes it closed (`TornDown`), and the generator's inputs are
  those in flight, ready or yielded, disjointly (`Generated`). `Asked` needs
  that every call the facade lets through is one the native code takes
  (`ValidatedIsAccepted`, over the whole operation table of `Validate`).

The assumptions are those `MCPython` names: `OwnerBounds`, `EndpointBounds`,
`BridgeBounds`, `WidthBounds` (the width exceeds the quantum of a chain) and
`FacadeBounds`.

The attempt to prove `AnswersTrue` and `ValidatedIsAccepted` found three
definitions of `Endpoint` and `Validate` written as `CASE` with arms that overlap.
TLC takes the first that fits, as the source's `if` chains do; the language lets
any of them be taken, and then the theorem is false. They are `IF` chains and
implications now.

### The experiments

`ArmsProofs`, for any number of hosts, calls and faults (`ArmBounds`) and every
arm of 61 to 64: `ArmsLeaveNothing` (when an invocation has ended, every srun
client was reaped or killed, a connector runs on only where its client was
killed, and no root or Ray cluster is on that the driver could have stopped). The
four programs have some forty actions, but the property concerns only where a
step goes and what it does to root, clients, connectors and Ray. `HpxControl` and
`RayControl` say that much, each program is shown to follow one of them
(`Control61` and so on), and `ArmInv` is proved from the two. What it adds to the
property is that a connector exists only behind a client and that a client
found ended has no connector that runs (`ClientsHeld`), whatever the connectors do
meanwhile; nothing is said of a connector whose client was killed.

`EvidenceProofs`, for any islands, allocations and number of reruns
(`BandBounds`): `BandsRest`, all of the run `bands`. The invariant holds little
beside the property, because an invocation keeps nothing but its files: manifests
carry the islands they are filed under, artifacts of 64 the job they are filed
under. The work is in what each `phase_*` reads: the pairs that match, the
numbers that repeat, the artifacts that are missing. The proof is why the claim
for 62 speaks of the artifacts that are present: a manifest that was written
while one was missing says nothing of its node.

`SupervisedProofs`, for any numbers of requests, clients, services, faults and
snapshots and any list of timeouts (`LoadBounds`, `FaultBound`, `TimeoutList`):

* `PassedAlone`: a throughput batch of 69 that passes was measured alone. That
  nothing taints a batch is not inductive; the reason is again a count.
  `LoadInv` says that `active.coord.cur` is the number of requests inside the
  coordinating method (`LoadCounted`), that only the loop under way has requests
  of its own, as many as it submitted and has not got back (`SubmittedKept`,
  `SlotsOwned`), and that the witness counters have moved by at least what is
  completed, what its requests in flight have already done, and what requests
  given up earlier did meanwhile, unless a wrong result left a trace
  (`LoadCounted`). Every result is in the verifier's queue, in its hand or
  counted, with the stop mark last (`LoadVerified`), so a batch that passes saw
  no wrong result; the deltas are then exact only if nobody else took a step.
* `PoisonedIsLost`: what the predicate of 54 and 55 declares poisoned lost its
  connector for good. The four looks are taken at four moments and the island
  goes on between them. `PoisonInv` says what each has left behind (`LooksHold`):
  a connector seen dead is still dead, and one seen dead *before* no departure
  was found never reported one, because a dead process reports nothing. In the
  other order (`DepartureFirst`) the second fact is lost, and TLC finds the run.
  A verdict belongs to an island until the next is launched (`FactsKnown`), which
  needs that each program's script goes from island to island and launches each
  once: `ScriptAscends`, proved for every script and, in the calibration of 55,
  for any list of timeouts.
* `PassedIsAnswered`: `PassMeans`, the half of `VerdictsTrue` that says what a pass
  is worth, for all programs of 53 to 60. It is not inductive, because a pass is
  computed from facts recorded many steps earlier, of processes that were killed or
  left behind since. `PassInv` ties the facts to the processes at every step. An
  island's answer on record is in the root's result file until the next island is
  launched; islands still to come have no facts (`Unlaunched`), so that a fact is
  never mistaken for an earlier island's; and when the judgement is reached,
  either nothing runs or the orphan check of the island has failed or could not be
  made (`Checked`). Experiment 60 looks for the island at hand only and needs an
  argument of its own (`Control60`): what it leaves of the first island shows in the
  first check, never in the second. The scripts enter through two properties,
  `Scripted` and `GatesAhead`, proved of each.

`LifecycleProofs` and `LifecycleTheorems`, for any number of faults and any
bounds with `0 < ShortBound < SuspicionBound < ObserveBound` (`BoundsAssumption`),
and for all twelve programs of `MCLifecycle` at once: `IslandOrderKept`,
`IslandEventsTrue` and `IslandVerdictSound`. A verdict is computed from markers, the
markers come from files, answers and the root's exit, and what the processes did
is `log`, which no program reads; none of the three properties is inductive,
because between a marker and its verdict there may be forty steps of a driver and
any mishap. `IInv` (theorem `IslandInvariant`) has one layer for each link of that
chain:

* `Marked`: a marker of weight was put only when what it stands for had happened
  (`Holds` says which marker stands for what, program by program). `log` only
  grows, so a true marker stays true (`MarkedGrows`).
* `FilesTrue`: as long as an island of the current arm is there (`Inside`), its
  files and the root's state are about this arm, and what they say happened. It
  cannot hold between two arms, where they still tell of the first.
* `Ordered`: what each program's place in its script says of the processes and of
  its own record. `Succession` says that the first island of a program with two
  is gone when the second is launched, or that the marker which gates the verdict
  says it was not; it is why an overlap cannot pass. In slice 3 the event document
  stays `Truthful` although the connector's host may still die after it was read;
  in slice 4 a false suspicion leaves a missed observation in the normal arm
  (`Missed`) from then on, and observations that are still due have no marker yet
  (`EventDue`).
* `Suspected` and `Passed`: a suspected live root was stalled; a slice that has
  passed did what its verdict claims.

A rollup is a list of gates, each with a name and a marker, and the class of a
run is the first gate that is shut. That a class of `pass` means that every gate is open
needs that no gate is called "pass" and that the first of a set of numbers exists
(`WellFoundedInduction`); `GatesJoined` puts lists together. There is one lemma per
step of each program; steps that programs share (`ReadyStep`, `Joining`,
`FinalizeStep` and others) and the steps of processes and mishaps are treated
once, in `LifecycleProofs`.

Two helpers of the model were rewritten for these proofs, with the same values.
`FirstFailed`, `classify_rep` and the reading of the event file used `SelectSeq`,
of which nothing can be proved without induction over data; they now choose the
least index with the property, which is what the source's loops return. `@@` and
`:>` are written out in `Island`, because the standard module's operators are
overridden in TLC and unknown to the provers.

### Only model-checked

* Liveness (`EveryRequestSettles`, `DestructionCompletes`, `Progress`,
  `EveryWaitEnds`, `Terminates`, `EverythingReaped`): fairness and `ENABLED` are
  out of the prover's reach.
* `VerdictHonest` of the arms: the verdicts of 63 and 64 filter the sequence of
  results (`SelectSeq`), and what a filter keeps needs induction over data.
* The half `CleanRunPasses` of `VerdictsTrue`, for the programs of 53 to 60: that a
  run without faults passes speaks of whole scripts, of which each step must succeed,
  and its waits end by `Quiet`, which contains `ENABLED`.
* `FailureExplained` of the repetitions and slices. Its half `CleanRunPasses` says
  that without a fault every gate opens, which is about whole scripts as above: the
  invariant would have to foresee, at every step, all that the run will record. The
  half `FailureNamed` relates the aggregate to the records of both repetitions at
  the end, of which `IInv` keeps only what a pass rests on.
* The pure helpers and oracles, evaluated against their reference definitions
  over the bounded inputs in `MCSupervised`, `MCBands` and `MCPython`: what a
  recursive definition computes needs induction over data.

## Not modelled

* Times, durations and statistics over them; values of operations' results;
  formatting, diagnostics, JSON and JSONL; provenance; command lines beyond the
  arms and phases they choose; selftests, which replay recorded markers;
  experiment 59, which only reads files.
* Allocation failures except where a constructor or a dispatch handles them;
  HPX itself, of which starting, stopping, scheduling and futures appear; Ray
  itself, of which placement, calls, kills and lost actors appear; Slurm, of
  which a step that runs, fails or outlives its time appears.
* Two Python threads in one facade (outside its contract) and `release_actor`
  beside a `shutdown` in another thread.
* `HpxLane` has the steps of `ServiceLane` and no module of its own; its
  `stop_and_join` is the destructor there.
* The native and the Ray baselines, experiments 1 to 47, benches, smoke tests
  and examples: measurement programs in which no two actors share state.

## Open ends

* Proofs: `FailureNamed`; `VerdictHonest`, whose filters of results could be written with
  indices as in `Island`.
* Model: `release_actor` and the composed operations with their HPX futures.
