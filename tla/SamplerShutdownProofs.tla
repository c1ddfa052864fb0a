----------------------- MODULE SamplerShutdownProofs -----------------------
(***************************************************************************)
(* Proofs about SamplerShutdown, for every number of allocating threads,   *)
(* SetNativeContext callers and Shutdown callers.                          *)
(***************************************************************************)
EXTENDS SamplerShutdown, TLAPS

USE DEF Open, Closed, Requested, InfoCleared, TargetZero, GuardStopped, Notified, Stopping,
        Stopped, WorkerJoined, Drained, GuardJoined, Completed, Done

\* profiling_lock: held exclusively by the worker or shared by the callbacks past their try_lock.
ProfilingLock ==
    /\ exclusive <=> worker \in {"lockCapture"} \cup WorkerHolds
    /\ shared = {t \in Ticks : tick[t] \notin {"out", "root"}}
    /\ exclusive => shared = {}

\* What each phase of the teardown has already made sure of.
Teardown ==
    /\ completed <=> phase >= Completed
    /\ (\E c \in Callers : caller[c] = "returned") => completed
    /\ phase >= WorkerJoined => worker \in {"absent", "exit"}
    /\ phase >= Drained => /\ \A t \in Ticks : tick[t] = "out"
                           /\ \A s \in Setters : setter[s] = "out"
    /\ phase >= GuardJoined => guard = "joined"

IInv == TypeOK /\ ProfilingLock /\ Teardown

----------------------------------------------------------------------------
\* The steps of an allocation callback keep the lock and teardown invariant.
LEMMA TickKeeps ==
    ASSUME IInv, NEW t \in Ticks, TickEnters(t) \/ TickStep(t)
    PROVE  IInv'
<1> USE DEF IInv, TypeOK, ProfilingLock, Teardown, WorkerHolds, downVars, lockVars, workVars
<1>1. CASE TickEnters(t)
  BY <1>1 DEF TickEnters, AdmissionClosed, RuntimeSuspended
<1>2. CASE TickTriesLock(t)
  BY <1>2 DEF TickTriesLock, TickLeaves, ShutdownRequested
<1>3. CASE TickSamples(t)
  BY <1>3 DEF TickSamples, TickLeaves, ShutdownRequested
<1>4. CASE TickLocksNames(t)
  BY <1>4 DEF TickLocksNames
<1>5. CASE TickWalks(t)
  BY <1>5 DEF TickWalks, TickLeaves
<1>6. CASE TickPublishes(t)
  BY <1>6 DEF TickPublishes, TickLeaves, ShutdownRequested, AdmissionClosed
<1>7. CASE TickAppends(t)
  BY <1>7 DEF TickAppends, TickLeaves
<1> QED BY <1>1, <1>2, <1>3, <1>4, <1>5, <1>6, <1>7 DEF TickStep

\* So do the steps of a SetNativeContext call.
LEMMA SetterKeeps ==
    ASSUME IInv, NEW s \in Setters, SetterEnters(s) \/ SetterStep(s)
    PROVE  IInv'
BY DEF IInv, TypeOK, ProfilingLock, Teardown, WorkerHolds, downVars, lockVars, workVars, SetterStep,
       SetterEnters, SetterLoadsInfo, SetterCallsClr, SetterPuts, SetterMoves, AdmissionClosed

\* So do the steps of the sampling worker, which never leaves "absent" or "exit".
LEMMA WorkerKeeps ==
    ASSUME IInv, WorkerStep \/ WorkerCaptured \/ WorkerThrows \/ Reconfigure \/ SpuriousWakeup
    PROVE  IInv'
<1> USE DEF IInv, TypeOK, ProfilingLock, Teardown, WorkerHolds, downVars, lockVars, WorkerMoves,
            ReleaseLocks
<1>1. CASE WorkerWaits
  BY <1>1 DEF WorkerWaits
<1>2. CASE WorkerLocksProfiling
  BY <1>2 DEF WorkerLocksProfiling
<1>3. CASE WorkerLocksCapture
  BY <1>3 DEF WorkerLocksCapture
<1>4. CASE WorkerChecks
  <2>1. TypeOK'
    BY <1>4 DEF WorkerChecks
  <2>2. ProfilingLock'
    BY <1>4 DEF WorkerChecks
  <2>3. Teardown'
    BY <1>4 DEF WorkerChecks
  <2> QED BY <2>1, <2>2, <2>3
<1>5. CASE WorkerSuspends
  <2>1. TypeOK'
    BY <1>5 DEF WorkerSuspends
  <2>2. ProfilingLock'
    BY <1>5 DEF WorkerSuspends
  <2>3. Teardown'
    BY <1>5 DEF WorkerSuspends
  <2> QED BY <2>1, <2>2, <2>3
<1>6. CASE RuntimeStops
  BY <1>6 DEF RuntimeStops
<1>7. CASE WorkerCancelled
  BY <1>7 DEF WorkerCancelled
<1>8. CASE WorkerPublishes
  <2>1. TypeOK'
    BY <1>8 DEF WorkerPublishes
  <2>2. ProfilingLock'
    BY <1>8 DEF WorkerPublishes
  <2>3. Teardown'
    BY <1>8 DEF WorkerPublishes
  <2> QED BY <2>1, <2>2, <2>3
<1>9. CASE WorkerAppends
  BY <1>9 DEF WorkerAppends
<1>10. CASE WorkerCaptured
  BY <1>10 DEF WorkerCaptured
<1>11. CASE WorkerThrows
  <2>1. TypeOK'
    BY <1>11 DEF WorkerThrows
  <2>2. ProfilingLock'
    BY <1>11 DEF WorkerThrows
  <2>3. Teardown'
    BY <1>11 DEF WorkerThrows
  <2> QED BY <2>1, <2>2, <2>3
<1>12. CASE Reconfigure
  BY <1>12 DEF Reconfigure
<1>13. CASE SpuriousWakeup
  BY <1>13 DEF SpuriousWakeup
<1> QED BY <1>1, <1>2, <1>3, <1>4, <1>5, <1>6, <1>7, <1>8, <1>9, <1>10, <1>11, <1>12, <1>13
        DEF WorkerStep

\* So do the callers of Shutdown: only a completed teardown lets a loser return.
LEMMA CallerKeeps ==
    ASSUME IInv, NEW c \in Callers, ShutdownCalled(c) \/ CallerStep(c)
    PROVE  IInv'
<1> USE DEF IInv, TypeOK, ProfilingLock, Teardown, WorkerHolds, lockVars, workVars
<1>1. CASE ShutdownCalled(c)
  BY <1>1 DEF ShutdownCalled
<1>2. CASE ClaimsTeardown(c)
  BY <1>2 DEF ClaimsTeardown
<1>3. CASE LosesRace(c)
  BY <1>3 DEF LosesRace
<1> QED BY <1>1, <1>2, <1>3 DEF CallerStep

\* So does the owner of the teardown: each phase is entered only when its wait is over.
LEMMA OwnerKeeps ==
    ASSUME IInv, OwnerStep
    PROVE  IInv'
<1> USE DEF IInv, TypeOK, ProfilingLock, Teardown, WorkerHolds, lockVars, workVars
<1>1. CASE SetsRequested
  BY <1>1 DEF SetsRequested
<1>2. CASE ClearsInfo
  <2>1. TypeOK'
    <3>1. infoSet' \in BOOLEAN
      BY <1>2, Zenon DEF ClearsInfo
    <3> QED BY <1>2, <3>1 DEF ClearsInfo
  <2>2. ProfilingLock'
    BY <1>2 DEF ClearsInfo
  <2>3. Teardown'
    BY <1>2 DEF ClearsInfo
  <2> QED BY <2>1, <2>2, <2>3
<1>3. CASE ZeroesTarget
  <2>1. TypeOK'
    <3>1. target' \in BOOLEAN
      BY <1>3, Zenon DEF ZeroesTarget
    <3> QED BY <1>3, <3>1 DEF ZeroesTarget
  <2>2. ProfilingLock'
    BY <1>3 DEF ZeroesTarget
  <2>3. Teardown'
    BY <1>3 DEF ZeroesTarget
  <2> QED BY <2>1, <2>2, <2>3
<1>4. CASE StopsGuard
  BY <1>4 DEF StopsGuard
<1>5. CASE NotifiesAll
  BY <1>5 DEF NotifiesAll, Woken
<1>6. CASE StopsSession
  <2>1. TypeOK'
    <3>1. delivering' \in BOOLEAN
      BY <1>6, Zenon DEF StopsSession
    <3> QED BY <1>6, <3>1 DEF StopsSession
  <2>2. ProfilingLock'
    BY <1>6 DEF StopsSession
  <2>3. Teardown'
    BY <1>6 DEF StopsSession
  <2> QED BY <2>1, <2>2, <2>3
<1>7. CASE SessionDrained
  BY <1>7 DEF SessionDrained
<1>8. CASE JoinsWorker
  BY <1>8 DEF JoinsWorker
<1>9. CASE DrainsAdmissions
  BY <1>9 DEF DrainsAdmissions, Admitted
<1>10. CASE JoinsGuard
  BY <1>10 DEF JoinsGuard
<1>11. CASE SetsCompleted
  BY <1>11 DEF SetsCompleted
<1>12. CASE OwnerReturns
  BY <1>12 DEF OwnerReturns, Woken
<1> QED BY <1>1, <1>2, <1>3, <1>4, <1>5, <1>6, <1>7, <1>8, <1>9, <1>10, <1>11, <1>12 DEF OwnerStep

\* IInv is inductive.
LEMMA Inductive == Spec => []IInv
<1>1. Init => IInv
  <2> SUFFICES ASSUME Init
               PROVE  IInv
    OBVIOUS
  <2>1. TypeOK
    <3>1. infoSet \in BOOLEAN /\ target \in BOOLEAN /\ completed \in BOOLEAN
      BY Zenon DEF Init
    <3>2. delivering \in BOOLEAN /\ enabled \in BOOLEAN /\ exclusive \in BOOLEAN /\ spanHeld \in BOOLEAN
      BY Zenon DEF Init
    <3> QED BY <3>1, <3>2 DEF Init, TypeOK
  <2>2. ProfilingLock
    BY DEF Init, ProfilingLock, WorkerHolds
  <2>3. Teardown
    BY DEF Init, Teardown
  <2> QED BY <2>1, <2>2, <2>3 DEF IInv
<1>2. IInv /\ [Next]_vars => IInv'
  <2> SUFFICES ASSUME IInv, [Next]_vars
               PROVE  IInv'
    OBVIOUS
  <2>1. CASE UNCHANGED vars
    BY <2>1 DEF vars, downVars, lockVars, workVars, IInv, TypeOK, ProfilingLock, Teardown,
                WorkerHolds
  <2>2. CASE Next
    BY <2>2, TickKeeps, SetterKeeps, WorkerKeeps, CallerKeeps, OwnerKeeps DEF Next
  <2> QED BY <2>1, <2>2
<1> QED BY <1>1, <1>2, PTL DEF Spec

----------------------------------------------------------------------------
\* Every variable of the teardown keeps its type.
THEOREM TypeCorrect == Spec => []TypeOK
<1>1. IInv => TypeOK
  BY DEF IInv
<1> QED BY <1>1, Inductive, PTL

\* ContinuousProfiler::Shutdown, however many threads call it and whatever EventPipe's stop answers,
\* returns only into a process without a sampling worker, a guard worker or an admitted callback.
THEOREM ShutdownQuiet == Spec => []QuietAfterReturn
<1>1. IInv => QuietAfterReturn
  BY DEF IInv, TypeOK, Teardown, QuietAfterReturn
<1> QED BY <1>1, Inductive, PTL

\* profiling_lock keeps every allocation callback ahead of a capture out of the worker's way, however
\* many threads allocate.
THEOREM CaptureAlone == Spec => []NoTickBehindCapture
<1>1. IInv => NoTickBehindCapture
  BY DEF IInv, TypeOK, ProfilingLock, NoTickBehindCapture
<1> QED BY <1>1, Inductive, PTL
============================================================================
