----------------------- MODULE RuntimeSamplerService -----------------------
(***************************************************************************)
(* The controller of runtime sampling (runtime_sampler_service.cpp) behind *)
(* CorProfiler's entry points: ApplyConfiguration as a transaction under   *)
(* configurationMutex_ that activates resources one by one, commits, then  *)
(* publishes to the producers; Shutdown; and the producers that run beside *)
(* it without the mutex: the sampling worker, which may die, and EventPipe *)
(* callbacks, which a stop of the session waits for.                       *)
(*                                                                         *)
(* ContinuousProfiler::Shutdown is used through what SamplerShutdown shows *)
(* of it: the first caller owns the teardown, the others wait for its end. *)
(***************************************************************************)
EXTENDS Naturals

CONSTANTS Appliers,        \* threads that call ApplyContinuousProfilerConfiguration
          Closers,         \* threads that call Shutdown
          Configs,         \* configurations they submit: [cpu, sel, alloc], 0 is disabled
          MaxCalls         \* bound on the number of calls of Apply

ASSUME ConfigsAssumption ==
    \A cfg \in Configs : cfg \in [cpu : Nat, sel : Nat, alloc : Nat]
ASSUME AppliersAssumption == "free" \notin Appliers
ASSUME BoundAssumption == MaxCalls \in Nat

VARIABLES
    hasInfo12,         \* the runtime has ICorProfilerInfo12 (EventPipe); never changes
    lock,              \* configurationMutex_: who holds it, or "free"
    authority,         \* authority_
    committed,         \* committedConfiguration_
    shutdownStarted,   \* shutdownStarted_
    activationFailed,  \* activationFailed_
    sampler,           \* sampler_ and its teardown: none, created, stopping, down
    buffers,           \* selectiveSamplingBuffersPrepared_
    events,            \* requiredClrEventsEnabled_
    worker,            \* the sampling thread: none, running, failed, joined
    mailbox,           \* desired_thread_sampling_configuration_, without its version
    session,           \* allocation_sampling_session_state_
    delivering,        \* EventPipe delivers allocation events (external)
    target,            \* TargetPerCycle of the allocation sampler
    subSampler,        \* allocationSubSampler exists
    tick,              \* an EventPipe callback is running
    call,              \* the Apply call of each applier
    closer,            \* the Shutdown call of each closer
    calls              \* how many calls of Apply have been made

ctrlVars == <<lock, authority, committed, shutdownStarted, activationFailed>>
resVars == <<sampler, buffers, events, worker>>
allocVars == <<session, delivering, target, subSampler, tick>>
callVars == <<call, closer, calls, hasInfo12>>
vars == <<ctrlVars, resVars, mailbox, allocVars, callVars>>

Disabled == [cpu |-> 0, sel |-> 0, alloc |-> 0]

SelectiveEnabled(cfg) == cfg.sel # 0
ThreadSamplingEnabled(cfg) == cfg.cpu # 0 \/ cfg.sel # 0
AllocationEnabled(cfg) == cfg.alloc # 0
AnyFeatureEnabled(cfg) == ThreadSamplingEnabled(cfg) \/ AllocationEnabled(cfg)

\* With both intervals set, the CPU interval is a proper multiple of the selective one.
IsValid(cfg) ==
    cfg.cpu # 0 /\ cfg.sel # 0 => cfg.cpu > cfg.sel /\ cfg.cpu % cfg.sel = 0

\* What may reach the service: a submitted snapshot, or a seed without its allocation part.
Snapshots == Configs \cup {[cfg EXCEPT !.alloc = 0] : cfg \in Configs}

\* The intervals that are staged for the sampling worker.
Intervals(cfg) == [cpu |-> cfg.cpu, sel |-> cfg.sel]

\* A call of Apply: where it is, what it was given, the snapshot it replaced, its result, and
\* whether the worker was already dead when the call was admitted.
Call(pc, source, cfg, result) ==
    [pc |-> pc, source |-> source, cfg |-> cfg, prev |-> Disabled, result |-> result, sick |-> FALSE]

Init ==
    /\ hasInfo12 \in BOOLEAN
    /\ lock = "free"
    /\ authority = "None" /\ committed = Disabled
    /\ shutdownStarted = FALSE /\ activationFailed = FALSE
    /\ sampler = "none" /\ buffers = FALSE /\ events = FALSE /\ worker = "none"
    /\ mailbox = Intervals(Disabled)
    /\ session = "None" /\ delivering = FALSE /\ target = 0
    /\ subSampler = FALSE /\ tick = FALSE
    /\ call = [a \in Appliers |-> Call("idle", "Seed", Disabled, "none")]
    /\ closer = [c \in Closers |-> "none"]
    /\ calls = 0

----------------------------------------------------------------------------
(* CorProfiler::ApplyContinuousProfilerConfiguration.                      *)

Goes(a, pc) == call' = [call EXCEPT ![a].pc = pc]
\* The call returns; what it was given is forgotten, its result and its history are kept.
Returns(a, result) ==
    call' = [call EXCEPT ![a] = [Call("idle", "Seed", Disabled, result) EXCEPT !.sick = call[a].sick]]

\* The runtime cannot sample allocations for this snapshot.
Unsupported(source, cfg) == AllocationEnabled(cfg) /\ ~hasInfo12

\* The adapter: an invalid snapshot is rejected, and allocation sampling without EventPipe is
\* dropped from a seed and refused to the control plane.
Submit(a, source, cfg) ==
    /\ call[a].pc = "idle" /\ calls < MaxCalls
    /\ calls' = calls + 1
    /\ LET unsupported == Unsupported(source, cfg)
           used == IF unsupported THEN [cfg EXCEPT !.alloc = 0] ELSE cfg
       IN  call' = [call EXCEPT ![a] =
                      CASE ~IsValid(cfg) -> Call("idle", "Seed", Disabled, "RejectedInvalidConfiguration")
                        [] IsValid(cfg) /\ unsupported /\ source = "ControlPlane" ->
                               Call("idle", "Seed", Disabled, "RejectedUnsupportedRuntime")
                        [] OTHER -> Call("submitted", source, used, "none")]
    /\ UNCHANGED <<ctrlVars, resVars, mailbox, allocVars, closer, hasInfo12>>

----------------------------------------------------------------------------
(* RuntimeSamplerService::ApplyConfiguration.                              *)

Lock(a) ==
    /\ call[a].pc = "submitted" /\ lock = "free"
    /\ lock' = a
    /\ call' = [call EXCEPT ![a].pc = "locked", ![a].sick = (worker = "failed")]
    /\ UNCHANGED <<authority, committed, shutdownStarted, activationFailed>>
    /\ UNCHANGED <<resVars, mailbox, allocVars, closer, calls, hasInfo12>>

\* An early return: the mutex is released.
Unlocks(a, result) ==
    /\ lock' = "free"
    /\ Returns(a, result)

\* Mutant: a seed is refused only if a seed was committed before.
MutantSeedIsLate(a) == call[a].source = "Seed" /\ authority = "Seed"
\* A seed is accepted only as the first snapshot.
SeedIsLate(a) == call[a].source = "Seed" /\ authority # "None"

RefuseTerminal(a) ==
    /\ call[a].pc = "locked" /\ (shutdownStarted \/ activationFailed)
    /\ Unlocks(a, IF shutdownStarted THEN "ShuttingDown" ELSE "ActivationFailed")
    /\ UNCHANGED <<authority, committed, shutdownStarted, activationFailed>>
    /\ UNCHANGED <<resVars, mailbox, allocVars, closer, calls, hasInfo12>>

\* Mutant: a worker that died while sampling is not noticed.
MutantWorkerIsDead == FALSE
\* HasThreadSamplingWorkerFailed: the worker left its loop after the startup handshake.
WorkerIsDead == worker = "failed"

\* The committed producer itself is gone: latch, then tear down without the mutex.
LatchDeadWorker(a) ==
    /\ call[a].pc = "locked" /\ ~shutdownStarted /\ ~activationFailed
    /\ WorkerIsDead
    /\ activationFailed' = TRUE
    /\ lock' = "free"
    /\ Goes(a, "teardown")
    /\ UNCHANGED <<authority, committed, shutdownStarted>>
    /\ UNCHANGED <<resVars, mailbox, allocVars, closer, calls, hasInfo12>>

Healthy(a) == call[a].pc = "locked" /\ ~shutdownStarted /\ ~activationFailed /\ ~WorkerIsDead

IgnoreLateSeed(a) ==
    /\ Healthy(a) /\ SeedIsLate(a)
    /\ Unlocks(a, IF authority = "Seed" THEN "IgnoredSeedAlreadyCommitted" ELSE "IgnoredLowerAuthority")
    /\ UNCHANGED <<authority, committed, shutdownStarted, activationFailed>>
    /\ UNCHANGED <<resVars, mailbox, allocVars, closer, calls, hasInfo12>>

\* The snapshot is the committed one: at most the authority changes.
SameConfiguration(a) ==
    /\ Healthy(a) /\ ~SeedIsLate(a)
    /\ call[a].cfg = committed
    /\ authority' = call[a].source
    /\ Unlocks(a, IF call[a].source = authority THEN "NoChange" ELSE "Applied")
    /\ UNCHANGED <<committed, shutdownStarted, activationFailed>>
    /\ UNCHANGED <<resVars, mailbox, allocVars, closer, calls, hasInfo12>>

Begin(a) ==
    /\ Healthy(a) /\ ~SeedIsLate(a)
    /\ call[a].cfg # committed
    /\ Goes(a, IF AnyFeatureEnabled(call[a].cfg) THEN "create" ELSE "close")
    /\ UNCHANGED <<ctrlVars, resVars, mailbox, allocVars, closer, calls, hasInfo12>>

\* Mutant: an incremental failure tears the committed producers down as well.
MutantHasCommittedProducer == FALSE
HasCommittedProducer == AnyFeatureEnabled(committed)

\* failActivation: with a committed producer the failure is local to the candidate; without one it
\* is latched and what was built is torn down, after the mutex is released.
FailActivation(a) ==
    /\ lock' = "free"
    /\ \/ /\ HasCommittedProducer
          /\ Returns(a, "ActivationFailed")
          /\ UNCHANGED activationFailed
       \/ /\ ~HasCommittedProducer
          /\ activationFailed' = TRUE
          /\ IF sampler = "none" THEN Returns(a, "ActivationFailed") ELSE Goes(a, "teardown")
    /\ UNCHANGED <<authority, committed, shutdownStarted>>

\* An activation step succeeds and the next one is due.
Proceed(a, pc) == Goes(a, pc) /\ UNCHANGED ctrlVars

\* EnsureSamplerCreated, with the readiness of the stack-walk guard.
EnsureSamplerCreated(a) ==
    /\ call[a].pc = "create"
    /\ \/ sampler' = "created" /\ Proceed(a, "prepare")
       \/ sampler = "none" /\ UNCHANGED sampler /\ FailActivation(a)
    /\ UNCHANGED <<buffers, events, worker, mailbox, allocVars, closer, calls, hasInfo12>>

EnsureSelectiveSamplingBuffersPrepared(a) ==
    /\ call[a].pc = "prepare"
    /\ LET needed == SelectiveEnabled(call[a].cfg)
       IN  \/ buffers' = (buffers \/ needed) /\ Proceed(a, "start")
           \/ needed /\ ~buffers /\ UNCHANGED buffers /\ FailActivation(a)
    /\ UNCHANGED <<sampler, events, worker, mailbox, allocVars, closer, calls, hasInfo12>>

\* Mutant: a new worker starts with the candidate's intervals instead of quiescent.
MutantStartThreadSampling(a) ==
    /\ call[a].pc = "start"
    /\ LET needed == ThreadSamplingEnabled(call[a].cfg)
       IN  \/ ~needed /\ UNCHANGED <<worker, mailbox>> /\ Proceed(a, "events")
           \/ /\ needed /\ worker # "failed" /\ worker' = "running" /\ Proceed(a, "events")
              /\ mailbox' = Intervals(call[a].cfg)
           \/ needed /\ worker # "running" /\ UNCHANGED <<worker, mailbox>> /\ FailActivation(a)
    /\ UNCHANGED <<sampler, buffers, events, allocVars, closer, calls, hasInfo12>>

\* StartThreadSampling and its handshake: a worker that is already there is kept, a dead one is not
\* replaced, and a failed handshake leaves no worker.
StartThreadSampling(a) ==
    /\ call[a].pc = "start"
    /\ LET needed == ThreadSamplingEnabled(call[a].cfg)
       IN  \/ ~needed /\ UNCHANGED worker /\ Proceed(a, "events")
           \/ needed /\ worker # "failed" /\ worker' = "running" /\ Proceed(a, "events")
           \/ needed /\ worker # "running" /\ UNCHANGED worker /\ FailActivation(a)
    /\ UNCHANGED <<sampler, buffers, events, mailbox, allocVars, closer, calls, hasInfo12>>

EnsureRequiredClrEventsEnabled(a) ==
    /\ call[a].pc = "events"
    /\ \/ events' = TRUE /\ Proceed(a, "session")
       \/ ~events /\ UNCHANGED events /\ FailActivation(a)
    /\ UNCHANGED <<sampler, buffers, worker, mailbox, allocVars, closer, calls, hasInfo12>>

\* StartAllocationSamplingSession: a failed start closes this branch for good and rejects the
\* snapshot, but latches nothing; only the allocation of the sub-sampler fails like an activation.
SessionNeeded(a) == AllocationEnabled(call[a].cfg) /\ ~AllocationEnabled(committed)

SessionNotNeeded(a) ==
    /\ call[a].pc = "session" /\ ~SessionNeeded(a)
    /\ Proceed(a, "close")
    /\ UNCHANGED <<resVars, mailbox, allocVars, closer, calls, hasInfo12>>

SessionStarts(a) ==
    /\ call[a].pc = "session" /\ SessionNeeded(a) /\ session # "PermanentlyDisabled"
    /\ subSampler' = TRUE
    /\ session' = "Active"
    /\ delivering' = TRUE
    /\ Proceed(a, "close")
    /\ UNCHANGED <<resVars, mailbox, target, tick, closer, calls, hasInfo12>>

SessionRefused(a) ==
    /\ call[a].pc = "session" /\ SessionNeeded(a)
    /\ \/ session = "PermanentlyDisabled" /\ UNCHANGED <<session, delivering, subSampler>>
       \/ /\ session = "None"
          /\ subSampler' = TRUE
          /\ session' = "PermanentlyDisabled"
          /\ delivering' \in BOOLEAN
    /\ Unlocks(a, "ActivationFailed")
    /\ UNCHANGED <<authority, committed, shutdownStarted, activationFailed>>
    /\ UNCHANGED <<resVars, mailbox, target, tick, closer, calls, hasInfo12>>

SubSamplerFails(a) ==
    /\ call[a].pc = "session" /\ SessionNeeded(a)
    /\ session # "PermanentlyDisabled" /\ ~subSampler
    /\ FailActivation(a)
    /\ UNCHANGED <<resVars, mailbox, allocVars, closer, calls, hasInfo12>>

----------------------------------------------------------------------------
(* The commit and the publication.                                         *)

\* Allocation admission is closed before the disabled snapshot is committed.
CloseTarget(a) ==
    /\ call[a].pc = "close"
    /\ target' = IF AllocationEnabled(call[a].cfg) THEN target ELSE 0
    /\ Proceed(a, "commit")
    /\ UNCHANGED <<resVars, mailbox, session, delivering, subSampler, tick, closer, calls, hasInfo12>>

Commit(a) ==
    /\ call[a].pc = "commit"
    /\ authority' = call[a].source
    /\ committed' = call[a].cfg
    /\ \/ /\ sampler # "none"
          /\ call' = [call EXCEPT ![a].pc = "publish", ![a].prev = committed]
          /\ UNCHANGED lock
       \/ sampler = "none" /\ Unlocks(a, "Applied")
    /\ UNCHANGED <<shutdownStarted, activationFailed, resVars, mailbox, allocVars, closer, calls, hasInfo12>>

\* Mutant: only a change of the CPU interval is staged.
MutantThreadConfigurationChanged(prev, cfg) == prev.cpu # cfg.cpu
ThreadConfigurationChanged(prev, cfg) == Intervals(prev) # Intervals(cfg)

\* PublishCommittedConfiguration: two writes that producers see one after the other.
StageThreadSamplingConfiguration(a) ==
    /\ call[a].pc = "publish"
    /\ mailbox' = IF ThreadConfigurationChanged(call[a].prev, call[a].cfg)
                  THEN Intervals(call[a].cfg) ELSE mailbox
    /\ Goes(a, "retarget")
    /\ UNCHANGED <<ctrlVars, resVars, allocVars, closer, calls, hasInfo12>>

UpdateAllocationSamplingTarget(a) ==
    /\ call[a].pc = "retarget"
    /\ target' = IF AllocationEnabled(call[a].cfg) THEN call[a].cfg.alloc ELSE target
    /\ IF AllocationEnabled(call[a].cfg)
       THEN Unlocks(a, "Applied")
       ELSE Goes(a, "stop") /\ UNCHANGED lock
    /\ UNCHANGED <<authority, committed, shutdownStarted, activationFailed, resVars, mailbox>>
    /\ UNCHANGED <<session, delivering, subSampler, tick, closer, calls, hasInfo12>>

PublishCommittedConfiguration(a) ==
    StageThreadSamplingConfiguration(a) \/ UpdateAllocationSamplingTarget(a)

\* StopAllocationSamplingSession with the mutex held: nothing to stop, or a failed stop.
StopEnds(a) ==
    /\ call[a].pc = "stop"
    /\ target' = 0
    /\ \/ session # "Active" /\ UNCHANGED <<session, delivering>>
       \/ session = "Active" /\ session' = "PermanentlyDisabled" /\ delivering' \in BOOLEAN
    /\ Unlocks(a, "Applied")
    /\ UNCHANGED <<authority, committed, shutdownStarted, activationFailed>>
    /\ UNCHANGED <<resVars, mailbox, subSampler, tick, closer, calls, hasInfo12>>

\* A successful stop ends delivery and waits for the callback in flight.
StopDelivery(a) ==
    /\ call[a].pc = "stop" /\ session = "Active"
    /\ target' = 0
    /\ delivering' = FALSE
    /\ Proceed(a, "drain")
    /\ UNCHANGED <<resVars, mailbox, session, subSampler, tick, closer, calls, hasInfo12>>

StopDrained(a) ==
    /\ call[a].pc = "drain" /\ ~tick
    /\ session' = "None"
    /\ Unlocks(a, "Applied")
    /\ UNCHANGED <<authority, committed, shutdownStarted, activationFailed>>
    /\ UNCHANGED <<resVars, mailbox, delivering, target, subSampler, tick, closer, calls, hasInfo12>>

----------------------------------------------------------------------------
(* Teardown, by a failed Apply or by Shutdown, without the mutex.          *)

CloserLocks(c) ==
    /\ closer[c] = "none" /\ lock = "free"
    /\ shutdownStarted' = TRUE
    /\ closer' = [closer EXCEPT ![c] = IF sampler = "none" THEN "returned" ELSE "teardown"]
    /\ UNCHANGED <<lock, authority, committed, activationFailed>>
    /\ UNCHANGED <<resVars, mailbox, allocVars, call, calls, hasInfo12>>

CallsShutdown == (\E a \in Appliers : call[a].pc = "teardown") \/ \E c \in Closers : closer[c] = "teardown"

\* ContinuousProfiler::Shutdown: the first caller closes admission and zeroes the target.
TeardownBegins ==
    /\ CallsShutdown /\ sampler = "created"
    /\ sampler' = "stopping"
    /\ target' = 0
    /\ UNCHANGED <<ctrlVars, buffers, events, worker, mailbox, session, delivering, subSampler, tick>>
    /\ UNCHANGED callVars

\* It stops the session, joins the worker and drains the callbacks.
TeardownEnds ==
    /\ sampler = "stopping" /\ ~tick
    /\ sampler' = "down"
    /\ worker' = IF worker = "none" THEN "none" ELSE "joined"
    /\ \/ session # "Active" /\ UNCHANGED <<session, delivering>>
       \/ session = "Active" /\ session' = "None" /\ delivering' = FALSE
       \/ session = "Active" /\ session' = "PermanentlyDisabled" /\ delivering' \in BOOLEAN
    /\ UNCHANGED <<ctrlVars, buffers, events, mailbox, target, subSampler, tick, callVars>>

ApplierTornDown(a) ==
    /\ call[a].pc = "teardown" /\ sampler = "down"
    /\ Returns(a, "ActivationFailed")
    /\ UNCHANGED <<ctrlVars, resVars, mailbox, allocVars, closer, calls, hasInfo12>>

CloserReturns(c) ==
    /\ closer[c] = "teardown" /\ sampler = "down"
    /\ closer' = [closer EXCEPT ![c] = "returned"]
    /\ UNCHANGED <<ctrlVars, resVars, mailbox, allocVars, call, calls, hasInfo12>>

----------------------------------------------------------------------------
(* The producers.                                                          *)

\* An exception leaves the worker's loop after the handshake.
WorkerDies ==
    /\ worker = "running"
    /\ worker' = "failed"
    /\ UNCHANGED <<ctrlVars, sampler, buffers, events, mailbox, allocVars, callVars>>

TickEnters ==
    /\ delivering /\ ~tick /\ sampler = "created"
    /\ tick' = TRUE
    /\ UNCHANGED <<ctrlVars, resVars, mailbox, session, delivering, target, subSampler, callVars>>

\* Mutant: the callback takes configurationMutex_ before it returns.
MutantTickLeaves ==
    /\ tick /\ lock = "free"
    /\ tick' = FALSE
    /\ UNCHANGED <<ctrlVars, resVars, mailbox, session, delivering, target, subSampler, callVars>>
\* OnAllocationTick reads sampler_ without the mutex.
TickLeaves ==
    /\ tick
    /\ tick' = FALSE
    /\ UNCHANGED <<ctrlVars, resVars, mailbox, session, delivering, target, subSampler, callVars>>

ApplyStep(a) ==
    \/ Lock(a) \/ RefuseTerminal(a) \/ LatchDeadWorker(a) \/ IgnoreLateSeed(a)
    \/ SameConfiguration(a) \/ Begin(a) \/ EnsureSamplerCreated(a)
    \/ EnsureSelectiveSamplingBuffersPrepared(a) \/ StartThreadSampling(a)
    \/ EnsureRequiredClrEventsEnabled(a) \/ SessionNotNeeded(a) \/ SessionStarts(a)
    \/ SessionRefused(a) \/ SubSamplerFails(a) \/ CloseTarget(a) \/ Commit(a)
    \/ PublishCommittedConfiguration(a) \/ StopEnds(a) \/ StopDelivery(a) \/ StopDrained(a)
    \/ ApplierTornDown(a)

Next ==
    \/ \E a \in Appliers, source \in {"Seed", "ControlPlane"}, cfg \in Configs : Submit(a, source, cfg)
    \/ \E a \in Appliers : ApplyStep(a)
    \/ \E c \in Closers : CloserLocks(c) \/ CloserReturns(c)
    \/ TeardownBegins \/ TeardownEnds
    \/ WorkerDies \/ TickEnters \/ TickLeaves

Spec == Init /\ [][Next]_vars

(* Calls in progress keep running and a callback that was delivered ends.  *)
(* Nothing makes anyone call Apply or Shutdown, or the worker die.         *)
FairSpec ==
    /\ Spec
    /\ \A a \in Appliers : WF_vars(ApplyStep(a))
    /\ \A c \in Closers : WF_vars(CloserReturns(c))
    /\ WF_vars(TeardownBegins) /\ WF_vars(TeardownEnds) /\ WF_vars(TickLeaves)

----------------------------------------------------------------------------
Terminal == shutdownStarted \/ activationFailed

SamplerStates == {"none", "created", "stopping", "down"}
Results == {"none", "Applied", "NoChange", "IgnoredSeedAlreadyCommitted", "IgnoredLowerAuthority",
            "RejectedInvalidConfiguration", "RejectedUnsupportedRuntime", "ActivationFailed",
            "ShuttingDown"}
PCs == {"idle", "submitted", "locked", "create", "prepare", "start", "events", "session", "close",
        "commit", "publish", "retarget", "stop", "drain", "teardown"}
ConfigRecord == [cpu : Nat, sel : Nat, alloc : Nat]
CallRecord == [pc : PCs, source : {"Seed", "ControlPlane"}, cfg : ConfigRecord, prev : ConfigRecord,
               result : Results, sick : BOOLEAN]

TypeOK ==
    /\ lock \in Appliers \cup {"free"}
    /\ authority \in {"None", "Seed", "ControlPlane"} /\ committed \in ConfigRecord
    /\ shutdownStarted \in BOOLEAN /\ activationFailed \in BOOLEAN
    /\ sampler \in SamplerStates /\ buffers \in BOOLEAN /\ events \in BOOLEAN
    /\ worker \in {"none", "running", "failed", "joined"}
    /\ mailbox \in [cpu : Nat, sel : Nat]
    /\ session \in {"None", "Active", "PermanentlyDisabled"}
    /\ delivering \in BOOLEAN /\ target \in Nat /\ subSampler \in BOOLEAN /\ tick \in BOOLEAN
    /\ call \in [Appliers -> CallRecord]
    /\ closer \in [Closers -> {"none", "teardown", "returned"}]
    /\ calls \in 0 .. MaxCalls /\ hasInfo12 \in BOOLEAN

\* The producers are exactly what the controller's state says, whatever sequence of successes, local
\* failures, re-enablements and teardowns led there: the committed snapshot between calls of Apply;
\* nothing new once a teardown has begun, and nothing at all once it is over.  On a runtime without
\* EventPipe no sequence of seeds and control-plane snapshots touches the allocation branch.
ProducersMatchCommitted ==
    /\ TypeOK
    /\ ~hasInfo12 => ~AllocationEnabled(committed) /\ session = "None" /\ ~subSampler /\ target = 0
    /\ lock = "free" /\ ~Terminal =>
          /\ mailbox = Intervals(committed)
          /\ target = committed.alloc
          /\ session = "Active" <=> AllocationEnabled(committed)
          /\ AnyFeatureEnabled(committed) => sampler = "created" /\ events
          /\ ThreadSamplingEnabled(committed) => worker \in {"running", "failed"}
          /\ SelectiveEnabled(committed) => buffers
    /\ sampler \in {"stopping", "down"} =>
          /\ Terminal /\ target = 0
          /\ \A a \in Appliers : call[a].pc \in {"idle", "submitted", "locked", "teardown"}
    /\ sampler = "down" => worker \in {"none", "joined"} /\ session # "Active" /\ ~tick

\* "Publication is the activation boundary: the sampler observes only committed controller state"
\* (runtime_sampler_service.cpp:189): at no point of a transaction does a producer run with
\* a candidate that was not committed; it may only lag behind while the holder of the mutex is
\* between the commit and its publication.
OnlyCommittedIsObserved ==
    \/ target \in {0, committed.alloc} /\ mailbox = Intervals(committed)
    \/ \E a \in Appliers :
          /\ lock = a /\ call[a].pc \in {"publish", "retarget"}
          /\ target \in {0, call[a].prev.alloc}
          /\ mailbox = Intervals(IF call[a].pc = "publish" THEN call[a].prev ELSE committed)

\* "no later snapshot can be acknowledged as healthy": a call that was admitted after the worker had
\* died is never told Applied, NoChange or ignored.
DeadWorkerNotAcknowledged ==
    \A a \in Appliers : call[a].sick => call[a].result \in {"none", "ActivationFailed", "ShuttingDown"}

\* "incremental failure preserves committed producer branches": what becomes terminal, outside of
\* Shutdown, either had no committed producer to lose or had already lost its worker.
FailureSparesProducers ==
    [][activationFailed' # activationFailed => ~AnyFeatureEnabled(committed) \/ worker = "failed"]_vars

\* The service implements the abstract controller: seeds only first, only valid snapshots, and
\* nothing after a shutdown or a latched failure.
Controller == INSTANCE SamplerController WITH
                  Valid <- IsValid, terminal <- Terminal, Configs <- Snapshots
ImplementsController == Controller!Spec

\* Every call of Apply and of Shutdown comes back: the drain of EventPipe callbacks under
\* configurationMutex_ cannot deadlock because no callback takes that mutex.
CallsReturn ==
    /\ \A a \in Appliers : call[a].pc # "idle" ~> call[a].pc = "idle"
    /\ \A c \in Closers : closer[c] = "teardown" ~> closer[c] = "returned"
=============================================================================
