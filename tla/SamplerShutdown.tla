--------------------------- MODULE SamplerShutdown ---------------------------
(***************************************************************************)
(* ContinuousProfiler::Shutdown against everything that uses the profiler  *)
(* API while it runs: the sampling worker and its capture locks, the       *)
(* EventPipe allocation callbacks, the SetNativeContext calls of managed   *)
(* threads, the stack-walk guard and other callers of Shutdown             *)
(* (continuous_profiler.cpp, cor_profiler.cpp).                            *)
(*                                                                         *)
(* The admission gate is used through what DrainGate promises: entering is *)
(* one step, refused once closed, and the wait ends when nobody is inside. *)
(* EventPipe and the runtime's suspension are external: a successful stop  *)
(* ends delivery and waits for callbacks in flight, and SuspendRuntime     *)
(* waits for threads that are inside an allocation callback.               *)
(***************************************************************************)
EXTENDS Naturals

CONSTANTS Ticks,       \* threads EventPipe may deliver an allocation event on
          Setters,     \* managed threads that call ContinuousProfilerSetNativeContext
          Callers      \* threads that call ContinuousProfiler::Shutdown

VARIABLES
    phase,        \* how far the teardown has come
    caller,       \* each call of Shutdown
    completed,    \* shutdown_completed_
    infoSet,      \* profiler_info is not null
    target,       \* the allocation sampler's TargetPerCycle is not zero
    session,      \* allocation_sampling_session_state_
    delivering,   \* EventPipe still delivers events (external)
    guard,        \* the StackWalkGuard and its worker
    enabled,      \* the worker's configuration has an interval
    worker,       \* program counter of the sampling thread
    exclusive,    \* profiling_lock is held exclusively, by the worker
    shared,       \* ticks that hold profiling_lock shared
    spanHeld,     \* thread_span_context_lock is held by the worker
    nameLock,     \* the holder of name_cache_lock, as a set
    tick,         \* program counter of each allocation callback
    setter        \* program counter of each SetNativeContext call

downVars == <<phase, caller, completed, infoSet, target, session, delivering, guard>>
lockVars == <<exclusive, shared, spanHeld, nameLock>>
workVars == <<enabled, worker>>
vars == <<downVars, lockVars, workVars, tick, setter>>

\* The teardown's phases, in the order of the code.
Open == 0
Closed == 1
Requested == 2
InfoCleared == 3
TargetZero == 4
GuardStopped == 5
Notified == 6
Stopping == 7
Stopped == 8
WorkerJoined == 9
Drained == 10
GuardJoined == 11
Completed == 12
Done == 13

AdmissionClosed == phase >= Closed
ShutdownRequested == phase >= Requested

WorkerHolds == {"check", "suspend", "suspending", "probe", "publish", "append"}
RuntimeSuspended == worker \in {"suspending", "probe"}

\* Who is between ShutdownAdmission's constructor and destructor.
Admitted ==
    {t \in Ticks : tick[t] # "out"} \cup {s \in Setters : setter[s] # "out"} \cup
    {w \in {"worker"} : worker = "append"}

Init ==
    /\ phase = Open
    /\ caller = [c \in Callers |-> "none"]
    /\ completed = FALSE
    /\ infoSet = TRUE
    /\ \/ session = "Active" /\ delivering = TRUE
       \/ session = "None" /\ delivering = FALSE
       \/ session = "PermanentlyDisabled" /\ delivering \in BOOLEAN
    /\ target = (session = "Active")
    /\ guard = "running"
    /\ enabled \in BOOLEAN
    /\ worker \in {"absent", "wait"}
    /\ exclusive = FALSE /\ shared = {} /\ spanHeld = FALSE /\ nameLock = {}
    /\ tick = [t \in Ticks |-> "out"]
    /\ setter = [s \in Setters |-> "out"]

----------------------------------------------------------------------------
(* Allocation callbacks: EventPipeEventDelivered -> AllocationTick.        *)

\* Delivery, with the callback-root admission; a refused callback returns at once.
TickEnters(t) ==
    /\ tick[t] = "out" /\ delivering /\ ~RuntimeSuspended
    /\ ~AdmissionClosed
    /\ tick' = [tick EXCEPT ![t] = "root"]
    /\ UNCHANGED <<downVars, lockVars, workVars, setter>>

TickLeaves(t) == tick' = [tick EXCEPT ![t] = "out"] /\ shared' = shared \ {t}

\* Mutant: the shared lock is waited for instead of tried.
MutantTickTriesLock(t) ==
    /\ tick[t] = "root"
    /\ \/ (ShutdownRequested \/ ~target) /\ TickLeaves(t)
       \/ /\ ~ShutdownRequested /\ target
          /\ ~exclusive
          /\ tick' = [tick EXCEPT ![t] = "locked"] /\ shared' = shared \cup {t}
    /\ UNCHANGED <<downVars, exclusive, spanHeld, nameLock, workVars, setter>>

\* The fast gate and try_to_lock, which fails while the worker holds the lock (or spuriously).
TickTriesLock(t) ==
    /\ tick[t] = "root"
    /\ \/ TickLeaves(t)
       \/ /\ ~ShutdownRequested /\ target
          /\ ~exclusive
          /\ tick' = [tick EXCEPT ![t] = "locked"] /\ shared' = shared \cup {t}
    /\ UNCHANGED <<downVars, exclusive, spanHeld, nameLock, workVars, setter>>

\* ShouldSample, the payload tests and GetCurrentThreadID; any of them may end the callback.
TickSamples(t) ==
    /\ tick[t] = "locked"
    /\ \/ TickLeaves(t)
       \/ /\ ~ShutdownRequested /\ target
          /\ tick' = [tick EXCEPT ![t] = "sampling"] /\ UNCHANGED shared
    /\ UNCHANGED <<downVars, exclusive, spanHeld, nameLock, workVars, setter>>

\* The short critical section of thread_span_context_lock, then name_cache_lock.
TickLocksNames(t) ==
    /\ tick[t] = "sampling"
    /\ ~spanHeld /\ nameLock = {}
    /\ nameLock' = {t}
    /\ tick' = [tick EXCEPT ![t] = "walking"]
    /\ UNCHANGED <<downVars, exclusive, shared, spanHeld, workVars, setter>>

\* CaptureAllocationStack and ResolveFrames; a cancelled or empty walk ends the callback.
TickWalks(t) ==
    /\ tick[t] = "walking"
    /\ nameLock' = {}
    /\ \/ TickLeaves(t)
       \/ tick' = [tick EXCEPT ![t] = "captured"] /\ UNCHANGED shared
    /\ UNCHANGED <<downVars, exclusive, spanHeld, workVars, setter>>

\* The last shutdown test and the publication admission.
TickPublishes(t) ==
    /\ tick[t] = "captured"
    /\ \/ TickLeaves(t)
       \/ /\ ~ShutdownRequested /\ ~AdmissionClosed
          /\ tick' = [tick EXCEPT ![t] = "appending"] /\ UNCHANGED shared
    /\ UNCHANGED <<downVars, exclusive, spanHeld, nameLock, workVars, setter>>

TickAppends(t) ==
    /\ tick[t] = "appending"
    /\ TickLeaves(t)
    /\ UNCHANGED <<downVars, exclusive, spanHeld, nameLock, workVars, setter>>

TickStep(t) ==
    TickTriesLock(t) \/ TickSamples(t) \/ TickLocksNames(t) \/ TickWalks(t) \/ TickPublishes(t)
    \/ TickAppends(t)

----------------------------------------------------------------------------
(* ContinuousProfilerSetNativeContext, called by managed threads.          *)

SetterMoves(s, from, to) == setter[s] = from /\ setter' = [setter EXCEPT ![s] = to]

SetterEnters(s) ==
    /\ ~AdmissionClosed /\ ~RuntimeSuspended
    /\ SetterMoves(s, "out", "admitted")
    /\ UNCHANGED <<downVars, lockVars, workVars, tick>>

\* profiler_info.load.
SetterLoadsInfo(s) ==
    /\ SetterMoves(s, "admitted", IF infoSet THEN "using" ELSE "out")
    /\ UNCHANGED <<downVars, lockVars, workVars, tick>>

\* GetCurrentThreadID through the loaded pointer.
SetterCallsClr(s) ==
    /\ SetterMoves(s, "using", "putting") \/ SetterMoves(s, "using", "out")
    /\ UNCHANGED <<downVars, lockVars, workVars, tick>>

\* The critical section of thread_span_context_lock.
SetterPuts(s) ==
    /\ ~spanHeld
    /\ SetterMoves(s, "putting", "out")
    /\ UNCHANGED <<downVars, lockVars, workVars, tick>>

SetterStep(s) == SetterLoadsInfo(s) \/ SetterCallsClr(s) \/ SetterPuts(s)

----------------------------------------------------------------------------
(* The sampling worker.                                                    *)

WorkerMoves(from, to) == worker = from /\ worker' = to
ReleaseLocks ==
    exclusive' = FALSE /\ spanHeld' = FALSE /\ nameLock' = nameLock \ {"worker"} /\ UNCHANGED shared

\* WaitForNextThreadSamplingCycle under the configuration mutex, which the owner of the teardown
\* holds from closing the admissions until it has set the shutdown flag.
WorkerWaits ==
    /\ phase # Closed
    /\ \/ ShutdownRequested /\ WorkerMoves("wait", "exit")
       \/ ~ShutdownRequested /\ ~enabled /\ WorkerMoves("wait", "asleep")
       \/ ~ShutdownRequested /\ enabled /\ WorkerMoves("wait", "lockProfiling")
    /\ UNCHANGED <<downVars, lockVars, enabled, tick, setter>>

\* The service stages other intervals, never once it has called Shutdown, and notifies the worker.
Reconfigure ==
    /\ \A c \in Callers : caller[c] = "none"
    /\ enabled' \in BOOLEAN
    /\ worker' = IF worker = "asleep" THEN "wait" ELSE worker
    /\ UNCHANGED <<downVars, lockVars, tick, setter>>

SpuriousWakeup ==
    /\ WorkerMoves("asleep", "wait")
    /\ UNCHANGED <<downVars, lockVars, enabled, tick, setter>>

\* Mutant: the exclusive lock does not wait for the callbacks that hold it shared.
MutantWorkerLocksProfiling ==
    /\ WorkerMoves("lockProfiling", "lockCapture")
    /\ exclusive' = TRUE
    /\ UNCHANGED <<downVars, shared, spanHeld, nameLock, enabled, tick, setter>>

\* CaptureSamples: profiling_lock exclusively, before any other lock.
WorkerLocksProfiling ==
    /\ shared = {}
    /\ WorkerMoves("lockProfiling", "lockCapture")
    /\ exclusive' = TRUE
    /\ UNCHANGED <<downVars, shared, spanHeld, nameLock, enabled, tick, setter>>

\* The thread-state, span-context, name-cache and selective-sampling mutexes.
WorkerLocksCapture ==
    /\ nameLock = {}
    /\ WorkerMoves("lockCapture", "check")
    /\ spanHeld' = TRUE /\ nameLock' = {"worker"}
    /\ UNCHANGED <<downVars, exclusive, shared, enabled, tick, setter>>

\* The shutdown test and the tests that avoid an unnecessary suspension.
WorkerChecks ==
    /\ \/ WorkerMoves("check", "wait") /\ ReleaseLocks
       \/ ~ShutdownRequested /\ WorkerMoves("check", "suspend") /\ UNCHANGED lockVars
    /\ UNCHANGED <<downVars, enabled, tick, setter>>

\* CaptureStacks: give up if stopping, else call SuspendRuntime.
WorkerSuspends ==
    /\ \/ guard # "running" /\ WorkerMoves("suspend", "wait") /\ ReleaseLocks
       \/ guard = "running" /\ WorkerMoves("suspend", "suspending") /\ UNCHANGED lockVars
    /\ UNCHANGED <<downVars, enabled, tick, setter>>

\* The runtime keeps managed threads from calling native code and waits for allocating threads.
RuntimeStops ==
    /\ \A t \in Ticks : tick[t] = "out"
    /\ WorkerMoves("suspending", "probe")
    /\ UNCHANGED <<downVars, lockVars, enabled, tick, setter>>

\* The capture is cancelled by RequestShutdown of the stack walker; the runtime is resumed.
WorkerCancelled ==
    /\ guard # "running"
    /\ WorkerMoves("probe", "wait")
    /\ ReleaseLocks
    /\ UNCHANGED <<downVars, enabled, tick, setter>>

\* The capture ends by itself (walks done, or the guard's probe timeout); the runtime is resumed.
WorkerCaptured ==
    /\ WorkerMoves("probe", "publish")
    /\ UNCHANGED <<downVars, lockVars, enabled, tick, setter>>

\* The shutdown and emptiness tests, then the publication admission.
WorkerPublishes ==
    /\ \/ WorkerMoves("publish", "wait") /\ ReleaseLocks
       \/ ~ShutdownRequested /\ ~AdmissionClosed /\ WorkerMoves("publish", "append") /\ UNCHANGED lockVars
    /\ UNCHANGED <<downVars, enabled, tick, setter>>

WorkerAppends ==
    /\ WorkerMoves("append", "wait")
    /\ ReleaseLocks
    /\ UNCHANGED <<downVars, enabled, tick, setter>>

\* An exception leaves the worker's loop: the locks are released by unwinding and the thread ends.
WorkerThrows ==
    /\ worker \in {"lockProfiling", "check", "publish"}
    /\ worker' = "exit"
    /\ ReleaseLocks
    /\ UNCHANGED <<downVars, enabled, tick, setter>>

WorkerStep ==
    \/ WorkerWaits \/ WorkerLocksProfiling \/ WorkerLocksCapture \/ WorkerChecks \/ WorkerSuspends
    \/ RuntimeStops \/ WorkerCancelled \/ WorkerPublishes \/ WorkerAppends

----------------------------------------------------------------------------
(* Shutdown.                                                               *)

ShutdownCalled(c) ==
    /\ caller[c] = "none"
    /\ caller' = [caller EXCEPT ![c] = "called"]
    /\ UNCHANGED <<phase, completed, infoSet, target, session, delivering, guard>>
    /\ UNCHANGED <<lockVars, workVars, tick, setter>>

\* The first caller closes the admissions, with the configuration mutex held.
ClaimsTeardown(c) ==
    /\ caller[c] = "called" /\ phase = Open
    /\ caller' = [caller EXCEPT ![c] = "owner"]
    /\ phase' = Closed
    /\ UNCHANGED <<completed, infoSet, target, session, delivering, guard>>
    /\ UNCHANGED <<lockVars, workVars, tick, setter>>

\* Mutant: a caller that loses the race returns at once.
MutantLosesRace(c) ==
    /\ caller[c] = "called" /\ ShutdownRequested
    /\ caller' = [caller EXCEPT ![c] = "returned"]
    /\ UNCHANGED <<phase, completed, infoSet, target, session, delivering, guard>>
    /\ UNCHANGED <<lockVars, workVars, tick, setter>>

\* Any other caller waits for the owner to complete.
LosesRace(c) ==
    /\ caller[c] = "called" /\ ShutdownRequested
    /\ caller' = [caller EXCEPT ![c] = IF completed THEN "returned" ELSE "asleep"]
    /\ UNCHANGED <<phase, completed, infoSet, target, session, delivering, guard>>
    /\ UNCHANGED <<lockVars, workVars, tick, setter>>

\* shutdown_requested_ is set and the mutex released.
SetsRequested ==
    /\ phase = Closed /\ phase' = Requested
    /\ UNCHANGED <<caller, completed, infoSet, target, session, delivering, guard>>
    /\ UNCHANGED <<lockVars, workVars, tick, setter>>

ClearsInfo ==
    /\ phase = Requested /\ phase' = InfoCleared
    /\ infoSet' = FALSE
    /\ UNCHANGED <<caller, completed, target, session, delivering, guard>>
    /\ UNCHANGED <<lockVars, workVars, tick, setter>>

ZeroesTarget ==
    /\ phase = InfoCleared /\ phase' = TargetZero
    /\ target' = FALSE
    /\ UNCHANGED <<caller, completed, infoSet, session, delivering, guard>>
    /\ UNCHANGED <<lockVars, workVars, tick, setter>>

\* Mutant: the capture in progress is not cancelled before the worker is joined.
MutantStopsGuard ==
    /\ phase = TargetZero /\ phase' = GuardStopped
    /\ UNCHANGED <<caller, completed, infoSet, target, session, delivering, guard>>
    /\ UNCHANGED <<lockVars, workVars, tick, setter>>

\* stackWalker_->RequestShutdown.
StopsGuard ==
    /\ phase = TargetZero /\ phase' = GuardStopped
    /\ guard' = "stopping"
    /\ UNCHANGED <<caller, completed, infoSet, target, session, delivering>>
    /\ UNCHANGED <<lockVars, workVars, tick, setter>>

\* thread_sampling_configuration_cv_.notify_all: the worker and the losing callers test again.
Woken == [c \in Callers |-> IF caller[c] = "asleep" THEN "called" ELSE caller[c]]

NotifiesAll ==
    /\ phase = GuardStopped /\ phase' = Notified
    /\ caller' = Woken
    /\ worker' = IF worker = "asleep" THEN "wait" ELSE worker
    /\ UNCHANGED <<completed, infoSet, target, session, delivering, guard, enabled>>
    /\ UNCHANGED <<lockVars, tick, setter>>

\* StopAllocationSamplingSession: nothing to stop, a stop that will drain, or a failed stop whose
\* effect on delivery is unknown.
StopsSession ==
    /\ phase = Notified
    /\ \/ session # "Active" /\ phase' = Stopped /\ UNCHANGED <<session, delivering>>
       \/ session = "Active" /\ phase' = Stopping /\ delivering' = FALSE /\ UNCHANGED session
       \/ session = "Active" /\ phase' = Stopped /\ session' = "PermanentlyDisabled" /\ delivering' \in BOOLEAN
    /\ UNCHANGED <<caller, completed, infoSet, target, guard>>
    /\ UNCHANGED <<lockVars, workVars, tick, setter>>

SessionDrained ==
    /\ phase = Stopping /\ phase' = Stopped
    /\ \A t \in Ticks : tick[t] = "out"
    /\ session' = "None"
    /\ UNCHANGED <<caller, completed, infoSet, target, delivering, guard>>
    /\ UNCHANGED <<lockVars, workVars, tick, setter>>

JoinsWorker ==
    /\ phase = Stopped /\ phase' = WorkerJoined
    /\ worker \in {"absent", "exit"}
    /\ UNCHANGED <<caller, completed, infoSet, target, session, delivering, guard>>
    /\ UNCHANGED <<lockVars, workVars, tick, setter>>

\* WaitForShutdownAdmissions.
DrainsAdmissions ==
    /\ phase = WorkerJoined /\ phase' = Drained
    /\ Admitted = {}
    /\ UNCHANGED <<caller, completed, infoSet, target, session, delivering, guard>>
    /\ UNCHANGED <<lockVars, workVars, tick, setter>>

\* stackWalker_->WaitForShutdown.
JoinsGuard ==
    /\ phase = Drained /\ phase' = GuardJoined
    /\ guard' = "joined"
    /\ UNCHANGED <<caller, completed, infoSet, target, session, delivering>>
    /\ UNCHANGED <<lockVars, workVars, tick, setter>>

SetsCompleted ==
    /\ phase = GuardJoined /\ phase' = Completed
    /\ completed' = TRUE
    /\ UNCHANGED <<caller, infoSet, target, session, delivering, guard>>
    /\ UNCHANGED <<lockVars, workVars, tick, setter>>

\* The last notify_all, and the return of the owner.
OwnerReturns ==
    /\ phase = Completed /\ phase' = Done
    /\ caller' = [c \in Callers |-> IF caller[c] = "owner" THEN "returned" ELSE Woken[c]]
    /\ UNCHANGED <<completed, infoSet, target, session, delivering, guard>>
    /\ UNCHANGED <<lockVars, workVars, tick, setter>>

OwnerStep ==
    \/ SetsRequested \/ ClearsInfo \/ ZeroesTarget \/ StopsGuard \/ NotifiesAll \/ StopsSession
    \/ SessionDrained \/ JoinsWorker \/ DrainsAdmissions \/ JoinsGuard \/ SetsCompleted
    \/ OwnerReturns

CallerStep(c) == ClaimsTeardown(c) \/ LosesRace(c)

Next ==
    \/ \E t \in Ticks : TickEnters(t) \/ TickStep(t)
    \/ \E s \in Setters : SetterEnters(s) \/ SetterStep(s)
    \/ WorkerStep \/ WorkerCaptured \/ WorkerThrows \/ Reconfigure \/ SpuriousWakeup
    \/ \E c \in Callers : ShutdownCalled(c) \/ CallerStep(c)
    \/ OwnerStep

(* Threads that are not blocked keep running. Whether a capture ends by    *)
(* itself is assumed only for the callers of SetNativeContext and for      *)
(* allocating threads; Shutdown must not need it.                          *)
RunningThreads ==
    /\ \A t \in Ticks : WF_vars(TickStep(t))
    /\ \A s \in Setters : WF_vars(SetterStep(s))
    /\ WF_vars(WorkerStep)
    /\ \A c \in Callers : WF_vars(CallerStep(c))
    /\ WF_vars(OwnerStep)

Spec == Init /\ [][Next]_vars
FairSpec == Spec /\ RunningThreads
\* A capture ends, and a thread that waits for a mutex that is released again and again gets it.
Timely ==
    /\ WF_vars(WorkerCaptured)
    /\ \A t \in Ticks : SF_vars(TickLocksNames(t))
    /\ \A s \in Setters : SF_vars(SetterPuts(s))

----------------------------------------------------------------------------
TypeOK ==
    /\ phase \in Open .. Done
    /\ caller \in [Callers -> {"none", "called", "owner", "asleep", "returned"}]
    /\ completed \in BOOLEAN /\ infoSet \in BOOLEAN /\ target \in BOOLEAN
    /\ session \in {"Active", "None", "PermanentlyDisabled"} /\ delivering \in BOOLEAN
    /\ guard \in {"running", "stopping", "joined"}
    /\ enabled \in BOOLEAN
    /\ worker \in {"absent", "wait", "asleep", "lockProfiling", "lockCapture", "check", "suspend",
                   "suspending", "probe", "publish", "append", "exit"}
    /\ exclusive \in BOOLEAN /\ shared \subseteq Ticks /\ spanHeld \in BOOLEAN
    /\ nameLock \subseteq Ticks \cup {"worker"}
    /\ tick \in [Ticks -> {"out", "root", "locked", "sampling", "walking", "captured", "appending"}]
    /\ setter \in [Setters -> {"out", "admitted", "using", "putting"}]

\* "Shutdown returns only after no owned thread can make another profiler API call": once any call
\* of Shutdown has returned, the worker and the guard are joined and no callback that was admitted
\* is still running, even when the EventPipe stop failed and events keep coming.
QuietAfterReturn ==
    (\E c \in Callers : caller[c] = "returned") =>
        /\ worker \in {"absent", "exit"}
        /\ guard = "joined"
        /\ \A t \in Ticks : tick[t] = "out"
        /\ \A s \in Setters : setter[s] = "out"

\* From the moment the worker owns profiling_lock until it releases the capture locks, no allocation
\* callback is past its try_lock: SuspendRuntime, which waits for allocating threads, can never wait
\* for one that is itself waiting for a lock of the worker ("it's not safe to try to suspend the
\* runtime after other locks are acquired if there is application thread in the middle of
\* AllocationTick", continuous_profiler.cpp:1366).
NoTickBehindCapture ==
    worker \in {"lockCapture"} \cup WorkerHolds =>
        shared = {} /\ \A t \in Ticks : tick[t] \in {"out", "root"}

\* Every call of Shutdown returns, even if a capture in progress would never end by itself: each
\* signal that can release the worker is given before something that depends on it is waited for.
ShutdownReturns == \A c \in Callers : caller[c] = "called" ~> caller[c] = "returned"

\* Application threads are never caught by the profiler: a SetNativeContext call and an allocation
\* callback that were admitted come back, whatever the worker and the teardown are doing.
CallbacksReturn ==
    Timely => /\ \A t \in Ticks : tick[t] # "out" ~> tick[t] = "out"
              /\ \A s \in Setters : setter[s] # "out" ~> setter[s] = "out"
=============================================================================
