# A TLA+ model of the continuous profiler and the OpAMP client of OpenTelemetry .NET AutoInstrumentation

The repository instruments .NET programs from the outside: a CLR profiler written in C++
rewrites methods, and managed assemblies configure the OpenTelemetry SDK. Most of that work is a
sequential transformation of metadata. The part in which threads, locks, timeouts and failures
meet is the **continuous profiler**: it suspends the application's own threads, walks their stacks and
hands samples to managed code, inside a process it must neither deadlock nor crash. This project models
that part, and the **OpAMP client**, whose plugins, server and timers meet on as many threads. Paths below are relative to `src/src/OpenTelemetry.AutoInstrumentation.Native/`
unless they name a managed file.

## Inventory

| Component | State it keeps | Operations | What makes it correct |
|---|---|---|---|
| Admission gate (`shutdown_admission.cpp`) | one atomic word (closing bit and count), a drained flag under a mutex | enter, leave, close, wait | exact count, no admission after closing, no missed drain |
| Stack-walk guard (`stack_walk_guard.cpp`) and capture (`clr_runtime_capture.cpp`, `netfx_runtime_capture.cpp`, `safe_native_walk_service.cpp`) | worker state, request, stage, verdict; the suspended target | schedule, await with a timeout, abandon, walk, resume, stop | the walk takes no lock its target owns; no write into a stack that was unwound; the target is always resumed |
| Profiler shutdown (`continuous_profiler.cpp`, `stack_capturer.cpp`) | claim, request and completion flags, CLR pointers, locks | `Shutdown` against the worker, `AllocationTick`, `SetNativeContext` | it returns, and only when nobody uses the CLR through the profiler |
| Runtime sampler service (`runtime_sampler_service.cpp`, entry points in `cor_profiler.cpp`) | committed snapshot, authority, terminal flags, producers | `ApplyConfiguration`, `Shutdown` | producers match the committed snapshot after any failure |
| Sampling schedule (`continuous_profiler.cpp`) | desired and private configuration, iteration counter | stage, wait, choose the cohort's kind | fresh snapshot, exact ratio, no lost wakeup |
| Selective traces (`continuous_profiler.cpp`) | trace deadlines, thread-to-span map, next scan | start, stop, set context, stop span, destroy thread, select | bounded, expired entries dropped, selection current while it is used |
| Thread-stack storage (`ThreadStacksBuffer`) | stacks, capacities, frame budget, cached pointer | prepare, grow, reset, clear | exact budget, room for every thread, no stale pointer or frame |
| Sample buffers (`continuous_profiler.cpp`, managed `BufferProcessor.cs`) | two batch slots, two byte buffers, saturation flag | publish, append, read | FIFO, nothing cut, no gap |
| Allocation sub-sampler, name cache | cycle counters; LRU list and map | `ShouldSample`, `SetTargetPerCycle`; `Get`, `Put` | rate cap; size limit |
| Managed pipeline (`ContinuousProfilerManager.cs`, `SampleExporter.cs`, `CanaryThreadManager.cs`) | exporter, its events and its subscription, reader thread, canary thread, reader mutex shared by all AppDomains | initialise, activate, poll, export, exit | one reader at a time; nothing outlives exit; no event used after its disposal; readable buffers are read |
| OpAMP reporter (`OpAmpReporter.cs`) | pending kinds, full-state phase, drain flag, two timers, server capability | notify, capability change, full-state request, callbacks, stop | no change forgotten, one callback per timer, revocations honoured, the interval kept |
| OpAMP life cycle (`OpAmpLoader.cs`, `OpAmpManager.cs`) | the manager, startup task, stop task, forced cleanup, disposal flags | prepare, start, stop with a deadline, dispose | callbacks in order, one disposal, exit always gets there |
| ReJIT pipeline (`rejit_*.cpp`) | work queue, module and method handlers | enqueue, request, terminate | each item once, before termination; no use of an unloaded module |
| IL and metadata rewriting; assembly redirection; startup hook; CallTarget; configuration, plugins | little shared state | | outside the model, see below |

**Interactions.** `CorProfiler` forwards configuration snapshots to the sampler service, which creates the
profiler, starts its worker and its EventPipe session, and stages intervals in the schedule's mailbox. The
worker takes a cohort from the schedule, asks the trace registry for its threads, locks everything the
capture reads, has the stacks walked into the thread-stack storage under the guard, and publishes to
a buffer. The managed reader, one AppDomain's at a time, polls the buffers, and the same exit handler that stops it stops the
OpAMP client first. Application threads call in from EventPipe
(`AllocationTick`) and P/Invoke (`SetNativeContext`, `SelectiveSamplingStart`...). Every such entry
passes the admission gate, which `Shutdown` closes and drains.

**What is hard.** The worker suspends threads that may own any lock; a probe thread may hang
on such a lock and finish late; `Shutdown` waits for several parties that wait for each other; one
step of an activation of many may fail; values are checked before a lock is dropped or a capture starts
and used afterwards; the buffers run at their limits; exit overtakes initialisation, in managed code too; plugin
code is called under deadlines and may never return; an exit handler may fail half way. `PROJECT.json` lists each hazard at its line,
with the properties that would catch it.

## Modules

| Module | Models | Notes |
|---|---|---|
| `DrainGate` | abstract specification of the admission gate | two atomic facts: who is inside, is it closed |
| `ShutdownAdmission` | every atomic step of the gate | CAS loop, carry limit, condition variable; implements `DrainGate` |
| `StackWalkGuard` | the guard, its worker and the three captures that use it | `Plans` are the probe sequences of .NET Framework x64 and x86 and of CLR x64; locks of the suspended threads are a constant set; native frame kinds are data |
| `SamplerShutdown` | `ContinuousProfiler::Shutdown` with everybody it waits for | the gate appears as the set of admitted threads, justified by `DrainGate` |
| `SamplerController` | abstract specification of the configuration service | authority, committed snapshot, terminal flag |
| `RuntimeSamplerService` | `ApplyConfiguration` as a transaction with all its failure paths | implements `SamplerController` |
| `SamplingSchedule` | mailbox, `WaitForNextThreadSamplingCycle`, `GetNextSamplingType` | history variable `since` |
| `SelectiveTraces` | registry, expiry scan, selection of threads | history variable `inserted`: when each entry was really written |
| `ThreadStacks` | `ThreadStacksBuffer` and `CaptureFunctionIdentifiersForThreads` | frames are counted; `Capacity` is the number of frame slots, which is the sum of the capacities; history variable `intact` |
| `BatchQueue` | abstract specification of the two slots | bounded FIFO queue |
| `SampleBuffers` | producers and the managed reader | implements `BatchQueue`; bytes are sizes |
| `ProfilerPipeline` | `ContinuousProfilerManager`, `SampleExporter`'s threads and the canary thread, in every AppDomain | the .NET Framework build, whose reader election and canary the .NET build lacks; the mutex and the unloading of a domain are external; `lingering` holds the domains with a canary thread that outlived its `Join` |
| `OpAmpReporter` | the reporter's scheduling state and the callbacks of its two timers | one section of `_stateLock` or one volatile read per step; history variables `owed`, `cooling`, `seen` |
| `OpAmpLifecycle` | `OpAmpLoader` and `OpAmpManager` | plugin and upstream client are external and may never return; history variables `disposals`, `called` |
| `*Proofs` | theorems about the modules they extend | a component that shares a proof module with another names its specification after itself (`StacksSpec`, `PipelineSpec`, `LifeSpec`) |
| `MC*` | model values and sets for TLC | |

The variables carry the names of the members they model, without the trailing underscore; the comment at
each variable gives the member. A critical section is one step, and so is each atomic access
outside a lock; blocking calls are steps of their own. `worker`, `sampler`, `caller` and similar variables
are program counters whose values name the next thing the code does. Operators called `Mutant...`
precede the definition they are a faulty variant of; no specification uses them, they
are the bugs each property is known to detect.

Abstractions: a configuration is its three numbers, a batch its number, size and interval, a trace or thread
a model value, a frame nothing but one more element. Logging, wording, serialisation and
symbol names are left out.

## Runs

| Run | Instance | Distinct states | Shows |
|---|---|---|---|
| `admission` | 3 scopes, 2 closers, closing bit of weight 3 | 105,249 | the gate is exact at its carry limit (two scopes fit, a third is refused), implements `DrainGate`, every closer returns |
| `guard` | 2 captures, every probe plan, no lock, each single lock and all locks owned | 234,252 | the walk needs no lock its target owns, commits go only to a waiting sampler, the target is resumed, the worker returns |
| `guard_no_image` | 1 capture, frame 0 may lie outside every image | violation | see Findings |
| `shutdown` | 1 allocation callback, 1 context setter, 2 callers of `Shutdown` | 35,116 | `Shutdown` returns, into a quiet process; with captures that end no application thread stays inside a callback |
| `service` | 3 calls by 2 threads, 1 closer, 5 snapshots, runtimes with and without `ICorProfilerInfo12` | 397,045 | transaction, failures, no allocation sampling without EventPipe, refinement of `SamplerController`, every call returns |
| `schedule` | 5 configurations, 3 changes | 4,913 | freshness, ratio, wakeups |
| `traces` | 3 traces for a limit of 2, 2 threads (symmetric), age limit 2, clock up to 3 | 1,513,599 | expiry, current selection |
| `stacks` | 4 threads (symmetric) for a limit of 3, budget of 7 frames, 5 per stack, first reservation 3 | 12,980 | exact budget, readiness of every cohort, no stale pointer |
| `buffers` | limit 3, sizes 1, 2 and 4, two intervals, 3 batches of each kind | 51,528 | FIFO, nothing lost or cut, no gap, delivery |
| `reporter` | 2 pool threads, every set of providers, no bound on events | 28,804 | nothing forgotten, one callback per timer, revocations, interval, every request served |
| `pipeline` | 2 AppDomains, 2 changes of the native configuration | 686,250 | clean exit, or a whole pipeline where the exit handler failed before it; no use after disposal, one reader, no thread left after a `Join` that timed out, buffers are read |
| `lifecycle` | one instrumentation, no bound | 376 | one disposal, callbacks in order, exit reaches disposal |

Why the bounds suffice. Each limit is exceeded by one in its run: scopes against the counter,
traces against the registry, threads and frames against the storage, batch sizes against the
buffer. Two rounds of the guard are needed and enough for a late worker of one request to meet the next;
with three configuration changes the ratio can go from 2 to 3 and back under a running counter. Two callers
of `Shutdown` and two appliers give every pairing of winner and loser; a third would only repeat a role. The
clock of `traces` passes an age limit after a start that read it before its insertion. Two pool
threads suffice for the reporter because `ScheduledOnce` shows that each timer has at most one callback; two domains give
a reader and a rival, and two changes take eligibility away and give it back. `MaxRounds`,
`MaxCalls`, `MaxStages`, `MaxNow`, `MaxBatches` and `MaxChanges` are the only bounds the code does not have.
Deadlock is not checked where the modelled threads may all have finished or the last bounded
call has been made; the schedule, registry, buffers and gate runs check it.

### Fairness

Weak fairness on a thread's own steps says that the operating system runs runnable threads; strong
fairness appears only where the code waits for a lock that others keep taking or for a timer that a
change of configuration restarts. In particular:

- `StackWalkGuard`: sampler, its timeout and the worker's completed calls are weakly fair. A call of the worker
  completes only when the lock it needs is free, so a hang on the target's lock is not excluded.
- `SamplerShutdown!FairSpec` does **not** assume that a capture ends by itself: `Shutdown` must
  return anyway. `CallbacksReturn` is stated under `Timely`, which adds that, and strong fairness of two mutex acquisitions.
- `RuntimeSamplerService`: the calls, the teardown and the running EventPipe callback go on. Nothing makes
  a thread call.
- `SamplingSchedule`: strong fairness of `BeginCohort`: among infinitely many waits one reaches its timeout. Staging
  is bounded, so changes cannot postpone it forever.
- `SampleBuffers`: the managed reader keeps polling. Producers need no fairness.
- `ShutdownAdmission`: an admitted scope leaves, and closers run.
- `OpAmpReporter`: pool threads run, providers return, timers fire; strong fairness of taking `_reportLock`, for which the
  two callbacks compete. Nothing makes plugin or server send anything.
- `ProfilerPipeline`: threads run; strong fairness of the eligibility test, which falls due again and again in a loop that
  also retries its initializer. Exit, unloading and changes of configuration may never come. Of the exit handler only
  `ContinuousProfilerManager.Dispose` after its swap is fair: `OnExit` first stops the OpAMP client and disposes the
  instrumentations, whose code may throw (`ExitFails`) or never return.
- `OpAmpLifecycle`: the process's own steps and the deadline of `StopManager`. Nothing is assumed of the steps in
  `External`: plugin callbacks, connection, transport and cancellation handlers may hang,
  and so may the plugin's configuration inside `TryCreate`. The forced cleanup runs on a background thread, so its
  fairness means that the process lives on for a while after the exit handler has returned (an unloaded domain of a
  process that goes on, or other exit handlers); a process that ends at once takes the client with it.

## Proofs

TLAPS proves the following for every value of the constants that satisfies the named assumptions.

- **`ShutdownAdmissionProofs`** (finite set of scopes, any positive closing bit): `TypeCorrect`,
  `GateExact`, `DrainQuiet`, `Implements`. The inductive invariant adds `PublishersAreLate`: whoever is about to
  publish a drain does so with the gate closed and empty. Without it `DrainedIsQuiet` is not
  inductive, because the decrement and the publication are separate steps. `Implements` shows that each step
  of the CAS gate is a step of `DrainGate` or a stutter.
- **`StackWalkGuardProofs`** (any plans, frames, lock sets): `TypeCorrect`, `CommitSafe`, `StoppingTerminal` and, if every
  native frame 0 has an image, `WalkSafe`. The invariant of `CommitSafe` says that a request pending or in work and not
  abandoned is the one its sampler awaits, and that the worker's copy is the latched request: a late worker either is
  abandoned or still has its owner. `WalkSafe` adds `WalkInv`: the probes before the current one have shown their locks
  free (`EarlierPassed`), a `Success` the sampler is about to read is its own request's (`SuccessIsCurrent`), and each lock
  of a probe in work is free or still to be tried (`WorkerProgress`). The hypothesis on frames is the one `guard_no_image`
  shows to be needed.
- **`SamplerShutdownProofs`** (any callbacks, setters, callers): `TypeCorrect`, `ShutdownQuiet`,
  `CaptureAlone`. `Teardown` ties the owner's progress to what it has already joined or drained,
  `ProfilingLock` the mode of `profiling_lock` to its holders.
- **`SamplingScheduleProofs`** (any set of valid configurations): `TypeCorrect`, `FreshCohorts`, `ExactRatio`. `Versions`
  orders the private and the staged version; `Counter` says that the iteration, whenever it still counts, is below
  the ratio. That is what makes the comparison for equality in `GetNextSamplingType` sound.
- **`SelectiveTracesProofs`** (any limits): `TypeCorrect`, `NoExpiredTrace`, `CurrentSelection`, `BoundedTraces`.
  `ScanCovers` says that the next scan is never later than an entry's age limit counted from its insertion, which
  holds although the clock is read before the lock is taken.
- **`SampleBuffersProofs`** (any limits with a reader's buffer at least as long as the native one, as 200 KiB on
  both sides): `TypeCorrect`, `RoomReserved`, `NothingCut`, `NothingLost`, `NoGap`, `QueueImplemented`. `FrontFirst` says that
  the second slot is only used behind the first, so the pair is always one of three sequences (`SlotShapes`). With `RoomIsReserved` a
  publication is the abstract `Put`, and with `WithinLimit` every copy is a `Deliver`: without either the queue would lose a batch.
  The same module proves **`ThreadStacks`** (any finite set of threads; positive limits with a first reservation no larger than a
  stack and at least one frame of budget per thread, as in the code): `BudgetExact`, `CohortReady`. Sums over sets need
  induction, so capacities are cardinalities of sets of frame slots: disjoint threads have disjoint slots (`SlotsSplit`), and
  one changed stack changes the sum by its own difference (`SlotsUpdate`). `CohortIsReady` speaks of the end of the loop of `PrepareForCapture` only.
  Inductive is `RoomForRest`: at each iteration what is left of the budget covers a first share for every thread still
  without storage. The reclaim before the loop establishes it (`PrepareStartsCohort`), a reservation takes one share from both sides,
  and with the budget used up it says that nobody is left out (`UsedUp`). `PassedIsReady` says what the loop has achieved behind itself.
- **`OpAmpReporterProofs`** (any set of pool threads): `TypeCorrect`, `OneCallback`, `NoneForgotten`, `Revocation`,
  `IntervalKept`. `DrainInv` and `FullInv` tie the flags to the one timer or callback they stand for; `StageInv` says what a
  callback still owes at each of its places; `SeenInv` relates the last read of the capability to what has held since the
  provider answered. None of the properties is inductive without them, because claim, provider call and submission are
  separate steps. The same module proves **`OpAmpLifecycle`**: `DisposedOnce`, `StartSeenFirst`. `TakenInv` says that the manager is
  taken out once, hence `StopManager` runs once; `CallbackInv` gives the plugin's lock to the task whose callback runs;
  `StageOrder` says what lies behind each task (a stop task implies `_shutdownStarted`, which is why the startup task's
  test under the lock keeps the callbacks in order). The module has no constants and TLC visits all its states; the proof adds the argument.
- **`ProfilerPipelineProofs`** (any set of domains): `TypeCorrect`, `ExitIsClean`, `NoUseAfter`, `SingleReader`. The invariant
  names, for each domain, who is responsible for the exporter (`ExporterIsOwned`) and for the canary (`CanaryIsOwned`) at
  every moment: responsibility passes from initialisation or reader to the manager and on to the exit handler, never lost
  and never shared. An exit handler that fails takes nothing (`ExitTakes`), so what was published stays published, subscribed
  and undisposed; for that `NotBuilt` adds that nobody disposes an exporter before initialisation has let go of it. The same module proves **`RuntimeSamplerService`** (any snapshots, callers and number of calls):
  `ProducersMatch`, `CommittedObserved`, `DeadNotAcknowledged`, `FailureSpares`, `ServiceImplements`, `AuthorityOrdered`. The first three are claims about
  moments (the mutex free, a call returned); `ServiceInv` follows the transaction in between. `HolderInv` identifies the holder of the
  mutex with the one call past `Lock`; `CallInv` says what that call carries (a valid candidate, a seed only before any other
  authority, no terminal flag); `BuiltInv` what it has created so far; `ObservedInv` and `SessionInv` by how much mailbox, target and
  EventPipe session are ahead of or behind the committed snapshot at each of its steps; `ResourceInv` that only a terminal service tears
  anything down. Each step of `ApplyConfiguration` then has its lemma. For the refinement, a commit and an unchanged
  snapshot under a new authority are `Commit`, a latched failure and `Shutdown` are `Terminate`, and all else is invisible; `AuthorityOrdered` is read off that.

Assumptions are stated where the constants are declared, and TLC evaluates them in every run.

Every invariant, action property and refinement that a passing run checks is stated by one of these theorems. Only model-checked
are the liveness properties, because fairness and ENABLED are beyond the prover: `EveryCloserReturns`, `TargetIsResumed`,
`WorkerReturns`, `ShutdownReturns`, `CallbacksReturn`, `CallsReturn`, `NoLostWakeup`, `EveryBatchArrives`,
`EveryRequestIsServed`, `BuffersAreRead`, `ExitReachesDisposal`. `ServiceInv`, `LifeInv` and `CohortInv` were
model-checked on the instances of the runs before they were proved.

## Findings

`guard_no_image`: the comment in `stack_walk_guard.cpp` (line 482) argues that walking frames 1..N is safe
because the probe of frame 0 has taken every lock they need. The probe takes the loader lock only in
`GetModuleFileNameW`, which it calls only for a frame 0 with an image base (line 652). For a native frame 0 outside every image
the probe succeeds without having tried the loader lock, and the walk then calls `GetModuleFileNameW` for the next
native frame on the sampling thread, with the target suspended. The run reaches that state. All
other frame kinds satisfy `WalkCannotDeadlock` (run `guard`).

### What a failed exit leaves

Not a disagreement with a doc, but worth knowing: `Instrumentation.OnExit` disposes the instrumentations before the profiler, in one
`try` block, and `InstrumentationLifespanManager.Dispose` calls each instrumentation's `Dispose` unguarded. If one throws,
the profiler of that domain is never disposed: its exporter stays published and subscribed, its canary and its
reader run until the domain or process is gone. The model has that path (`ExitFails`). What still holds is stated
by `NothingOutlivesExit` (nothing is half disposed) and `BuffersAreRead` (the reader sees `_isExiting` and gives up the
mutex, so another domain can read). `CanaryThreadManager.Dispose` waits five seconds for its thread and then disposes the events
anyway; the thread ends by itself, because it finds the trigger set or the exception of the disposed event is caught
in `CanaryThreadProc`.

## Not modelled

- IL and metadata rewriting, integration definitions, assembly redirection tables: byte formats and data.
- Startup hook, rule engine, settings, logging, plugin discovery, SDK wiring: straight-line code and I/O.
- CallTarget and the instrumentations: per-library adapters without a shared protocol.
- Serialisation of samples (`ThreadSamplesBuffer`) beyond its size check, symbol resolution, function names.
- The canary election of the .NET Framework capture (`NetFxRuntimeCapture::OnThread...`), the packed result of `GetState`, the
  allocation sub-sampler, the name cache, the thread-name map: see the plan.
- Export schedules, OTLP conversion, and the contents of OpAMP reports.
- The ReJIT pipeline. What reading it has established: callers of a registration hold `definitions_ids`;
  `CorProfiler::Shutdown` takes `definitions_ids`, then `module_ids`, before it enqueues the terminating item, so no item follows
  it; `ModuleLoadFinished` looks at `is_attached_` again under `module_ids`; `EnqueueRequestRejitForLoadedModules` resolves its
  promise itself once the handler is shut down; waits of 100 ms are made with `module_ids` held. Open questions for a model: the
  worker uses a `RejitHandlerModule` and its metadata without `module_ids` while `ModuleUnloadStarted`, which takes that lock
  "so we block until the module metadata is not longer being used", removes it; `GetReJITParameters` dereferences
  `rejit_handler` without a lock while `Shutdown` clears it; `InitializeTraceMethods` waits for the worker without a timeout
  with `module_ids` held. Whether the runtime excludes the overlaps decides each of them.

How much of the source this is: the models cover nearly all of the concurrent control of the files they are translated
from; `map` in `PROJECT.json` gives the lines. Most of the repository's lines are elsewhere: vendored runtime and
logging headers under `lib/`, generated tables, and one adapter per instrumented library.

## Plan

Done, in the order of importance: gate, guard, shutdown, service, schedule, traces, buffers, stack storage, managed
pipeline, OpAMP reporter, OpAMP life cycle. Next:

1. `RejitWork`: the blocking queue, the offloader thread and the bookkeeping of module and method handlers, with
   requests racing module unload and termination.
2. `CanaryElection`: canary re-election under thread creation, renaming, reassignment and destruction, as the
   environment of `StackWalkGuard`.
3. `AllocationSubSampler` and `NameCache`: the rate cap under changes of the target and of the clock; agreement of
   list and map.
4. Proofs of what these modules add; consequences of `DrainGate` and `BatchQueue` that their users rely on.
