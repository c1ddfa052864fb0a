------------------------ MODULE StackWalkGuardProofs ------------------------
(***************************************************************************)
(* Proofs about StackWalkGuard, for every probe plan, every set of locks   *)
(* the suspended threads may own and any number of captures.  IInv ties    *)
(* the latched request to the two threads; WalkInv adds what the worker's  *)
(* progress says about the locks of the suspended threads.                 *)
(***************************************************************************)
EXTENDS StackWalkGuard, TLAPS

\* The program points of a worker that has taken a request and not published its outcome.
InProbe == {"picked", "gate", "threw", "gated", "stage", "call", "checkpoint", "publish"}

\* A probe that is pending and was not abandoned has the sampler waiting for it.
PendingIsAwaited ==
    state \in {"Scheduled", "Running"} /\ ~abandon => sampler = "await" /\ req = CurrentRequest

\* A worker inside a probe works on the latched request, and nobody latches over it.
WorkerOwnsRequest ==
    /\ worker \in InProbe => state \in {"Running", "Stopping"} /\ wreq = req
    /\ worker \in {"start", "initialize"} => state \in {"Starting", "Stopping"}
    /\ worker \in {"notify", "wait"} => state \in {"Idle", "Scheduled", "Stopping"}
    /\ worker \in {"lastNotify", "exit"} => state = "Stopping"

IInv == PendingIsAwaited /\ WorkerOwnsRequest

\* IInv holds initially.
LEMMA InitIInv == Init => IInv
BY DEF Init, IInv, PendingIsAwaited, WorkerOwnsRequest, InProbe

\* The capturing thread keeps IInv: it latches only over a quiescent worker, and it leaves a pending
\* probe only by abandoning it.
LEMMA SamplerKeeps ==
    ASSUME IInv, Suspend \/ SamplerStep \/ TimeoutStep
    PROVE  IInv'
<1> USE DEF IInv, PendingIsAwaited, WorkerOwnsRequest, InProbe, guardVars, workerVars, Settled, Sleep
<1>1. CASE Suspend
  BY <1>1 DEF Suspend
<1>2. CASE WaitForInitialization
  BY <1>2 DEF WaitForInitialization, CurrentRequest
<1>3. CASE Schedule
  BY <1>3 DEF Schedule, Latch, CurrentRequest
<1>4. CASE AwaitProbeResult
  BY <1>4 DEF AwaitProbeResult, TakeVerdict, AwaitStopping, CurrentRequest
<1>5. CASE Walk
  BY <1>5 DEF Walk, CurrentRequest
<1>6. CASE Resume
  BY <1>6 DEF Resume, CurrentRequest
<1>7. CASE ParkTimeout
  BY <1>7 DEF ParkTimeout, CurrentRequest
<1>8. CASE ProbeTimeout
  BY <1>8 DEF ProbeTimeout, TakeVerdict, AwaitStopping, GiveUp, CurrentRequest
<1> QED BY <1>1, <1>2, <1>3, <1>4, <1>5, <1>6, <1>7, <1>8 DEF SamplerStep, TimeoutStep

\* So does the worker.
LEMMA WorkerKeeps ==
    ASSUME IInv, WorkerCompletes \/ WorkerThrows
    PROVE  IInv'
<1> USE DEF IInv, PendingIsAwaited, WorkerOwnsRequest, InProbe, guardVars, samplerVars, Sleep,
            CurrentRequest
<1>1. CASE WorkerStart
  BY <1>1 DEF WorkerStart
<1>2. CASE WorkerInitialized
  BY <1>2 DEF WorkerInitialized
<1>3. CASE WorkerNotify
  BY <1>3 DEF WorkerNotify
<1>4. CASE WorkerWait
  BY <1>4 DEF WorkerWait
<1>5. CASE WorkerEnterGate
  BY <1>5 DEF WorkerEnterGate
<1>6. CASE WorkerGate
  BY <1>6 DEF WorkerGate
<1>7. CASE WorkerGateThrew
  BY <1>7 DEF WorkerGateThrew
<1>8. CASE WorkerDispatch
  BY <1>8 DEF WorkerDispatch
<1>9. CASE WorkerEnterStage
  BY <1>9 DEF WorkerEnterStage
<1>10. CASE WorkerCall
  BY <1>10 DEF WorkerCall
<1>11. CASE WorkerCheckpoint
  BY <1>11 DEF WorkerCheckpoint
<1>12. CASE WorkerPublish
  BY <1>12 DEF WorkerPublish
<1>13. CASE WorkerThrows
  BY <1>13 DEF WorkerThrows
<1> QED BY <1>1, <1>2, <1>3, <1>4, <1>5, <1>6, <1>7, <1>8, <1>9, <1>10, <1>11, <1>12, <1>13
        DEF WorkerCompletes

\* So do a shutdown and spurious wakeups.
LEMMA StopperKeeps ==
    ASSUME IInv, RequestShutdown \/ StopperStep \/ SpuriousWakeup
    PROVE  IInv'
<1> USE DEF IInv, PendingIsAwaited, WorkerOwnsRequest, InProbe, guardVars, workerVars, samplerVars,
            CurrentRequest
<1>1. CASE RequestShutdown
  BY <1>1 DEF RequestShutdown
<1>2. CASE StopperStep
  BY <1>2 DEF StopperStep, ShutdownNotify, WaitForShutdown
<1>3. CASE SpuriousWakeup
  BY <1>3 DEF SpuriousWakeup
<1> QED BY <1>1, <1>2, <1>3

\* IInv is inductive.
LEMMA Inductive == Spec => []IInv
<1>1. IInv /\ [Next]_vars => IInv'
  <2> SUFFICES ASSUME IInv, [Next]_vars
               PROVE  IInv'
    OBVIOUS
  <2>1. CASE UNCHANGED vars
    BY <2>1 DEF vars, guardVars, workerVars, samplerVars, IInv, PendingIsAwaited,
                WorkerOwnsRequest, InProbe, CurrentRequest
  <2>2. CASE Next
    BY <2>2, SamplerKeeps, WorkerKeeps, StopperKeeps DEF Next
  <2> QED BY <2>1, <2>2
<1> QED BY <1>1, InitIInv, PTL DEF Spec

----------------------------------------------------------------------------
\* The commit gate of WorkerLoopCore: whatever times out, is abandoned, throws or stops, the worker
\* writes through the pointers it was lent only while their owner waits in that very call.
THEOREM CommitSafe == Spec => CommitsOnlyToWaitingSampler
<1>1. IInv /\ [Next]_vars => [out' # out => sampler = "await" /\ out' = CurrentRequest]_vars
  <2> SUFFICES ASSUME IInv, Next, out' # out
               PROVE  sampler = "await" /\ out' = CurrentRequest
    BY DEF vars, workerVars
  <2>1. WorkerPublish
    BY DEF Next, Suspend, SamplerStep, TimeoutStep, WorkerCompletes, WorkerThrows, RequestShutdown,
           StopperStep, SpuriousWakeup, WaitForInitialization, Schedule, AwaitProbeResult, Walk,
           Resume, ParkTimeout, ProbeTimeout, WorkerStart, WorkerInitialized, WorkerNotify,
           WorkerWait, WorkerEnterGate, WorkerGate, WorkerGateThrew, WorkerDispatch,
           WorkerEnterStage, WorkerCall, WorkerCheckpoint, ShutdownNotify, WaitForShutdown, workerVars
  <2>2. state # "Stopping" /\ ok /\ ~abandon /\ out' = wreq
    BY <2>1 DEF WorkerPublish, Commit
  <2>3. state = "Running" /\ wreq = req
    BY <2>1, <2>2 DEF WorkerPublish, IInv, WorkerOwnsRequest, InProbe
  <2> QED BY <2>2, <2>3 DEF IInv, PendingIsAwaited
<1> QED BY <1>1, Inductive, PTL DEF Spec, CommitsOnlyToWaitingSampler

\* No recovery path of the worker, no late publication and no new request revives a stopped guard.
THEOREM StoppingTerminal == Spec => StoppingIsTerminal
<1>1. IInv /\ [Next]_vars => [state = "Stopping" => state' = "Stopping"]_vars
  <2> SUFFICES ASSUME IInv, Next, state = "Stopping"
               PROVE  state' = "Stopping"
    BY DEF vars, guardVars
  <2> USE DEF guardVars
  <2>1. CASE Suspend \/ SamplerStep \/ TimeoutStep
    BY <2>1 DEF Suspend, SamplerStep, TimeoutStep, WaitForInitialization, Schedule, Latch,
                AwaitProbeResult, TakeVerdict, AwaitStopping, GiveUp, Walk, Resume, ParkTimeout,
                ProbeTimeout
  <2>2. CASE WorkerCompletes \/ WorkerThrows
    BY <2>2 DEF WorkerCompletes, WorkerThrows, WorkerStart, WorkerInitialized, WorkerNotify,
                WorkerWait, WorkerEnterGate, WorkerGate, WorkerGateThrew, WorkerDispatch,
                WorkerEnterStage, WorkerCall, WorkerCheckpoint, WorkerPublish
  <2>3. CASE RequestShutdown \/ StopperStep \/ SpuriousWakeup
    BY <2>3 DEF RequestShutdown, StopperStep, ShutdownNotify, WaitForShutdown, SpuriousWakeup
  <2> QED BY <2>1, <2>2, <2>3 DEF Next
<1> QED BY <1>1, Inductive, PTL DEF Spec, StoppingIsTerminal
----------------------------------------------------------------------------
(* Why the walk needs no lock of a suspended thread: what the worker has   *)
(* passed so far in this round's probe is free, what earlier probes of the *)
(* round passed is still free because its owners stay suspended, and a     *)
(* Success the sampler reads is about the request it latched itself.       *)

\* The locks a successful probe of the kind has taken and released.
ProbeLocks(kind) ==
    {"HeapOrStlGate"} \cup
    (IF kind = "CanaryDss" THEN {"CanaryDss"}
     ELSE {"RtlLookup", "ClrIpMap"} \cup (IF frame = "managed" THEN {} ELSE {"LoaderLock"}))

\* The suspended threads own nothing that probe number i takes, and it has a frame to begin with.
Passed(i) == held \cap ProbeLocks(plan[i]) = {} /\ ~(plan[i] = "RtlFrame0" /\ frame = "noRip")

\* The parts of the type invariant that the argument rests on.
WalkTypes ==
    /\ plan \in Plans /\ probe \in 1..Len(plan) /\ todo \in Seq(Stage)
    /\ frame \in FrameKind \ {"noImage"} /\ held \subseteq MayBeHeld
    /\ worker \in {"call", "checkpoint"} => todo # <<>>

\* The probes of this round before the current one succeeded.
EarlierPassed == sampler \in {"schedule", "await", "walk"} => \A i \in 1..(probe - 1) : Passed(i)

\* A sampler that walks has had a Success from the last probe; one it is about to read is its own.
SuccessIsCurrent ==
    /\ sampler = "walk" => probe = Len(plan) /\ Passed(probe)
    /\ sampler = "await" /\ state = "Idle" /\ result = "Success" => Passed(probe)
    /\ sampler = "await" => state # "Starting"
    /\ sampler = "await" /\ state \in {"Scheduled", "Running"} => ~abandon

\* The progress of a worker whose sampler waits: past the gate the heap is free, and each lock of
\* the probe is free or still to come.
WorkerProgress ==
    sampler = "await" /\ state = "Running" =>
        /\ worker \in {"gated", "stage", "call", "checkpoint"} => "HeapOrStlGate" \notin held
        /\ worker \in {"stage", "call", "checkpoint"} =>
              /\ ~(plan[probe] = "RtlFrame0" /\ frame = "noRip")
              /\ \A l \in ProbeLocks(plan[probe]) :
                    l \notin held \/ \E j \in 1..Len(todo) : todo[j] = l
        /\ worker = "checkpoint" => Head(todo) \notin held
        /\ worker = "publish" /\ ok => Passed(probe)

WalkInv == WalkTypes /\ EarlierPassed /\ SuccessIsCurrent /\ WorkerProgress

\* Initially nothing is suspended and nothing has succeeded.
LEMMA WalkInit == Init => WalkInv
BY PlansAssumption
   DEF Init, WalkInv, WalkTypes, EarlierPassed, SuccessIsCurrent, WorkerProgress, FrameKind

\* The capturing thread keeps WalkInv.
LEMMA SamplerKeepsWalk ==
    ASSUME "noImage" \notin Frames, IInv, WalkInv, Suspend \/ SamplerStep \/ TimeoutStep
    PROVE  WalkInv'
<1> USE DEF WalkInv, WalkTypes, EarlierPassed, SuccessIsCurrent, WorkerProgress, Passed,
            ProbeLocks, guardVars, workerVars, Settled, Sleep
<1>1. CASE Suspend
  BY <1>1, PlansAssumption, FramesAssumption, HeldSetsAssumption
     DEF Suspend, MayBeHeld, MayBeHeld, FrameKind
<1>2. CASE WaitForInitialization
  BY <1>2, PlansAssumption, FramesAssumption, HeldSetsAssumption
     DEF WaitForInitialization, MayBeHeld, FrameKind
<1>3. CASE Schedule
  BY <1>3, PlansAssumption, FramesAssumption, HeldSetsAssumption
     DEF Schedule, Latch, MayBeHeld, FrameKind
<1>4. CASE AwaitProbeResult
  BY <1>4, PlansAssumption, FramesAssumption, HeldSetsAssumption
     DEF AwaitProbeResult, TakeVerdict, AwaitStopping, MayBeHeld, FrameKind
<1>5. CASE Walk
  BY <1>5, PlansAssumption, FramesAssumption, HeldSetsAssumption DEF Walk, MayBeHeld, FrameKind
<1>6. CASE Resume
  BY <1>6, PlansAssumption, FramesAssumption, HeldSetsAssumption DEF Resume, MayBeHeld, FrameKind
<1>7. CASE ParkTimeout
  BY <1>7, PlansAssumption, FramesAssumption, HeldSetsAssumption
     DEF ParkTimeout, MayBeHeld, FrameKind
<1>8. CASE ProbeTimeout
  BY <1>8, PlansAssumption, FramesAssumption, HeldSetsAssumption
     DEF ProbeTimeout, TakeVerdict, AwaitStopping, GiveUp, MayBeHeld, FrameKind
<1> QED BY <1>1, <1>2, <1>3, <1>4, <1>5, <1>6, <1>7, <1>8 DEF SamplerStep, TimeoutStep

\* The stages of a probe are stages.
LEMMA StagesAreStages == \A r : StagesOf(r) \in Seq(Stage)
<1> TAKE r
<1>1. /\ <<"CanaryDss">> \in Seq(Stage) /\ <<"RtlLookup", "ClrIpMap">> \in Seq(Stage)
      /\ <<"RtlLookup", "ClrIpMap", "RtlUnwind">> \in Seq(Stage)
      /\ <<"RtlLookup", "ClrIpMap", "LoaderLock", "RtlUnwind">> \in Seq(Stage)
  BY DEF Stage
<1> QED BY <1>1 DEF StagesOf

\* So does the worker.
LEMMA WorkerKeepsWalk ==
    ASSUME IInv, WalkInv, WorkerCompletes \/ WorkerThrows
    PROVE  WalkInv'
<1> USE DEF WalkInv, WalkTypes, EarlierPassed, SuccessIsCurrent, WorkerProgress, Passed,
            ProbeLocks, guardVars, samplerVars, Sleep, IInv, PendingIsAwaited,
            WorkerOwnsRequest, InProbe
<1>1. CASE WorkerStart
  BY <1>1 DEF WorkerStart, MayBeHeld
<1>2. CASE WorkerInitialized
  BY <1>2 DEF WorkerInitialized, MayBeHeld
<1>3. CASE WorkerNotify
  BY <1>3 DEF WorkerNotify, MayBeHeld
<1>4. CASE WorkerWait
  BY <1>4 DEF WorkerWait, MayBeHeld
<1>5. CASE WorkerEnterGate
  BY <1>5 DEF WorkerEnterGate, MayBeHeld
<1>6. CASE WorkerGate
  BY <1>6 DEF WorkerGate, Acquirable, MayBeHeld
<1>7. CASE WorkerGateThrew
  BY <1>7 DEF WorkerGateThrew, MayBeHeld
<1>8. CASE WorkerDispatch
  <2>1. CASE abandon \/ (wreq.kind = "RtlFrame0" /\ wreq.frame = "noRip")
    BY <1>8, <2>1 DEF WorkerDispatch, MayBeHeld
  <2>2. CASE ~(abandon \/ (wreq.kind = "RtlFrame0" /\ wreq.frame = "noRip"))
    <3>1. todo' = StagesOf(wreq) /\ todo' \in Seq(Stage)
      BY <1>8, <2>2, StagesAreStages DEF WorkerDispatch
    <3>2. sampler = "await" /\ state = "Running" =>
              /\ wreq.kind = plan[probe] /\ wreq.frame = frame
              /\ plan[probe] \in ProbeKind
      BY <1>8, PlansAssumption DEF WorkerDispatch, CurrentRequest
    <3>3. ASSUME sampler = "await", state = "Running", NEW l \in ProbeLocks(plan[probe])
          PROVE  l \notin held \/ \E j \in 1..Len(todo') : todo'[j] = l
      BY <1>8, <3>1, <3>2, <3>3 DEF WorkerDispatch, StagesOf, FrameKind, ProbeKind
    <3> QED BY <1>8, <2>2, <3>1, <3>2, <3>3 DEF WorkerDispatch, MayBeHeld
  <2> QED BY <2>1, <2>2
<1>9. CASE WorkerEnterStage
  BY <1>9 DEF WorkerEnterStage, MayBeHeld
<1>10. CASE WorkerCall
  BY <1>10 DEF WorkerCall, Acquirable, MayBeHeld
<1>11. CASE WorkerCheckpoint
  <2>1. CASE abandon
    BY <1>11, <2>1 DEF WorkerCheckpoint, MayBeHeld
  <2>2. CASE ~abandon
    <3>1. todo' = Tail(todo)
      BY <1>11, <2>2 DEF WorkerCheckpoint
    <3>2. /\ todo \in Seq(Stage) /\ todo # <<>> /\ Tail(todo) \in Seq(Stage)
          /\ \A j \in 2..Len(todo) : j - 1 \in 1..Len(Tail(todo)) /\ Tail(todo)[j - 1] = todo[j]
      BY <1>11 DEF WorkerCheckpoint
    <3>3. ASSUME sampler = "await", state = "Running", NEW l \in ProbeLocks(plan[probe])
          PROVE  l \notin held \/ \E j \in 1..Len(Tail(todo)) : Tail(todo)[j] = l
      <4>1. CASE l \in held
        <5>1. PICK j \in 1..Len(todo) : todo[j] = l
          BY <1>11, <3>3, <4>1 DEF WorkerCheckpoint
        <5>2. Head(todo) = todo[1] /\ Head(todo) \notin held
          BY <1>11, <3>2, <3>3 DEF WorkerCheckpoint
        <5>3. j \in 2..Len(todo)
          BY <4>1, <5>1, <5>2
        <5> QED BY <3>2, <5>1, <5>3
      <4> QED BY <4>1
    <3> QED BY <1>11, <2>2, <3>1, <3>2, <3>3 DEF WorkerCheckpoint, MayBeHeld
  <2> QED BY <2>1, <2>2
<1>12. CASE WorkerPublish
  BY <1>12 DEF WorkerPublish, Commit, MayBeHeld
<1>13. CASE WorkerThrows
  BY <1>13 DEF WorkerThrows, MayBeHeld
<1> QED BY <1>1, <1>2, <1>3, <1>4, <1>5, <1>6, <1>7, <1>8, <1>9, <1>10, <1>11, <1>12, <1>13
        DEF WorkerCompletes

\* So do a shutdown, spurious wakeups and stuttering, which touch neither thread's progress.
LEMMA OthersKeepWalk ==
    ASSUME WalkInv, RequestShutdown \/ StopperStep \/ SpuriousWakeup \/ UNCHANGED vars
    PROVE  WalkInv'
<1> USE DEF WalkInv, WalkTypes, EarlierPassed, SuccessIsCurrent, WorkerProgress, Passed,
            ProbeLocks, MayBeHeld, guardVars, workerVars, samplerVars
<1>1. CASE RequestShutdown
  BY <1>1 DEF RequestShutdown
<1>2. CASE StopperStep
  BY <1>2 DEF StopperStep, ShutdownNotify, WaitForShutdown
<1>3. CASE SpuriousWakeup
  BY <1>3 DEF SpuriousWakeup
<1>4. CASE UNCHANGED vars
  BY <1>4 DEF vars
<1> QED BY <1>1, <1>2, <1>3, <1>4

\* The induction of the stack_walk_guard.cpp comment made exact: whenever frame 0 of the targets is
\* inside an image, the walk of frames 1..N takes no lock that a suspended thread owns, for every
\* probe plan and any number of captures, timeouts and abandoned probes. The hypothesis is needed:
\* see the run guard_no_image.
THEOREM WalkSafe ==
    ASSUME "noImage" \notin Frames
    PROVE  Spec => []WalkCannotDeadlock
<1>1. IInv /\ WalkInv /\ [Next]_vars => WalkInv'
  BY SamplerKeepsWalk, WorkerKeepsWalk, OthersKeepWalk DEF Next
<1>2. WalkInv => WalkCannotDeadlock
  <2> SUFFICES ASSUME WalkInv, sampler = "walk"
               PROVE  held \cap WalkLocks = {}
    BY DEF WalkCannotDeadlock
  <2>1. /\ plan \in Seq(ProbeKind) /\ Len(plan) >= 1
        /\ \A i \in 1..Len(plan) : Passed(i) /\ plan[i] \in ProbeKind
    BY PlansAssumption DEF WalkInv, WalkTypes, EarlierPassed, SuccessIsCurrent
  <2>2. "HeapOrStlGate" \notin held
    BY <2>1 DEF Passed, ProbeLocks
  <2>3. "CanaryDss" \notin held
    BY <2>1 DEF WalkInv, WalkTypes, MayBeHeld, Passed, ProbeLocks
  <2>4. plan[1] = "RtlFrame0" /\ frame # "managed" =>
           "RtlLookup" \notin held /\ "ClrIpMap" \notin held /\ "LoaderLock" \notin held
    BY <2>1 DEF Passed, ProbeLocks
  <2> QED BY <2>2, <2>3, <2>4 DEF WalkLocks
<1> QED BY <1>1, <1>2, WalkInit, Inductive, PTL DEF Spec

\* The stages left to a worker inside a call are not exhausted, so dropping the first is defined.
TypeInv == TypeOK /\ (worker \in {"call", "checkpoint"} => todo # <<>>)

LEMMA TypeStep ==
    ASSUME TypeInv, [Next]_vars
    PROVE  TypeInv'
<1> USE DEF TypeInv, TypeOK, guardVars, workerVars, samplerVars, Settled, Sleep
<1>1. CASE Suspend
  <2>1. frame' \in FrameKind /\ held' \in SUBSET Lock
    BY <1>1, FramesAssumption, HeldSetsAssumption DEF Suspend
  <2>2. probe' \in DOMAIN plan /\ round' \in Nat
    BY <1>1, PlansAssumption DEF Suspend
  <2> QED BY <1>1, <2>1, <2>2 DEF Suspend
<1>2. CASE WaitForInitialization
  BY <1>2 DEF WaitForInitialization
<1>3. CASE Schedule
  <2>1. req' \in Request
    <3>1. CurrentRequest \in Request
      BY PlansAssumption DEF Request, CurrentRequest
    <3> QED BY <1>3, <3>1 DEF Schedule, Latch
  <2>2. asleep' \subseteq {"sampler", "worker"}
    BY <1>3 DEF Schedule, NotifyOne
  <2>3. abandon' \in BOOLEAN
    BY <1>3, Zenon DEF Schedule, Latch
  <2>4. state' \in GuardState /\ result' \in ProbeResult /\ stage' \in Stage
    BY <1>3 DEF Schedule, Latch, GuardState, ProbeResult, Stage
  <2> QED BY <1>3, <2>1, <2>2, <2>3, <2>4 DEF Schedule
<1>4. CASE AwaitProbeResult
  <2>1. probe' \in DOMAIN plan
    BY <1>4, PlansAssumption DEF AwaitProbeResult, TakeVerdict, AwaitStopping
  <2>2. abandon' \in BOOLEAN
    BY <1>4, Zenon DEF AwaitProbeResult, TakeVerdict, AwaitStopping
  <2> QED BY <1>4, <2>1, <2>2 DEF AwaitProbeResult, TakeVerdict, AwaitStopping
<1>5. CASE Walk
  BY <1>5 DEF Walk
<1>6. CASE Resume
  BY <1>6 DEF Resume
<1>7. CASE ParkTimeout
  BY <1>7 DEF ParkTimeout
<1>8. CASE ProbeTimeout
  <2>1. probe' \in DOMAIN plan
    BY <1>8, PlansAssumption DEF ProbeTimeout, TakeVerdict, AwaitStopping, GiveUp
  <2>2. abandon' \in BOOLEAN
    BY <1>8, Zenon DEF ProbeTimeout, TakeVerdict, AwaitStopping, GiveUp
  <2>3. result' \in ProbeResult
    BY <1>8 DEF ProbeTimeout, TakeVerdict, AwaitStopping, GiveUp, TimeoutResultForStage, ProbeResult
  <2> QED BY <1>8, <2>1, <2>2, <2>3 DEF ProbeTimeout, TakeVerdict, AwaitStopping, GiveUp
<1>9. CASE WorkerStart
  BY <1>9 DEF WorkerStart
<1>10. CASE WorkerInitialized
  BY <1>10 DEF WorkerInitialized, GuardState, ProbeResult, Stage
<1>11. CASE WorkerNotify
  BY <1>11 DEF WorkerNotify
<1>12. CASE WorkerWait
  <2>1. state' \in GuardState /\ wreq' \in Request
    BY <1>12 DEF WorkerWait, GuardState
  <2> QED BY <1>12, <2>1 DEF WorkerWait
<1>13. CASE WorkerEnterGate
  BY <1>13 DEF WorkerEnterGate, GuardState, ProbeResult, Stage
<1>14. CASE WorkerGate
  BY <1>14 DEF WorkerGate
<1>15. CASE WorkerGateThrew
  BY <1>15 DEF WorkerGateThrew, GuardState, ProbeResult, Stage
<1>16. CASE WorkerDispatch
  <2>1. ok' \in BOOLEAN
    BY <1>16, Zenon DEF WorkerDispatch
  <2>2. todo' \in Seq(Stage)
    BY <1>16, StagesAreStages DEF WorkerDispatch
  <2> QED BY <1>16, <2>1, <2>2 DEF WorkerDispatch
<1>17. CASE WorkerEnterStage
  <2>1. ok' \in BOOLEAN
    BY <1>17, Zenon DEF WorkerEnterStage
  <2>2. stage' \in Stage
    BY <1>17 DEF WorkerEnterStage
  <2> QED BY <1>17, <2>1, <2>2 DEF WorkerEnterStage
<1>18. CASE WorkerCall
  <2>1. ok' \in BOOLEAN
    BY <1>18, Zenon DEF WorkerCall
  <2> QED BY <1>18, <2>1 DEF WorkerCall
<1>19. CASE WorkerCheckpoint
  <2>1. ok' \in BOOLEAN
    BY <1>19, Zenon DEF WorkerCheckpoint
  <2>2. todo' \in Seq(Stage)
    BY <1>19 DEF WorkerCheckpoint
  <2> QED BY <1>19, <2>1, <2>2 DEF WorkerCheckpoint
<1>20. CASE WorkerPublish
  <2>1. state' \in GuardState /\ result' \in ProbeResult /\ stage' \in Stage /\ out' \in Request
    BY <1>20 DEF WorkerPublish, Commit, GuardState, ProbeResult, Stage
  <2> QED BY <1>20, <2>1 DEF WorkerPublish
<1>21. CASE WorkerThrows
  BY <1>21 DEF WorkerThrows, GuardState, ProbeResult, Stage
<1>22. CASE RequestShutdown
  <2>1. abandon' \in BOOLEAN /\ state' \in GuardState
    <3>1. abandon' \in BOOLEAN
      BY <1>22, Zenon DEF RequestShutdown
    <3> QED BY <1>22, <3>1 DEF RequestShutdown, GuardState
  <2> QED BY <1>22, <2>1 DEF RequestShutdown
<1>23. CASE StopperStep
  BY <1>23 DEF StopperStep, ShutdownNotify, WaitForShutdown
<1>24. CASE SpuriousWakeup
  BY <1>24 DEF SpuriousWakeup
<1>25. CASE UNCHANGED vars
  BY <1>25 DEF vars
<1> QED BY <1>1, <1>2, <1>3, <1>4, <1>5, <1>6, <1>7, <1>8, <1>9, <1>10, <1>11, <1>12,
           <1>13, <1>14, <1>15, <1>16, <1>17, <1>18, <1>19, <1>20, <1>21, <1>22, <1>23, <1>24, <1>25
        DEF Next, SamplerStep, TimeoutStep, WorkerCompletes

\* Every variable of the guard, the worker and the capture keeps its type, the stage queue and the
\* probe index included: the worker never looks at a stage that is not there.
THEOREM TypeCorrect == Spec => []TypeOK
<1>1. Init => TypeInv
  <2> USE DEF Init, TypeInv, TypeOK
  <2>1. NoRequest \in Request
    BY DEF NoRequest, Request, FrameKind
  <2>2. Init => abandon \in BOOLEAN /\ ok \in BOOLEAN
    BY Zenon
  <2>3. Init => 1 \in DOMAIN plan /\ plan \in Plans
    BY PlansAssumption
  <2> QED BY <2>1, <2>2, <2>3 DEF GuardState, ProbeResult, Stage, FrameKind
<1>2. TypeInv /\ [Next]_vars => TypeInv'
  BY TypeStep
<1>3. TypeInv => TypeOK
  BY DEF TypeInv
<1> QED BY <1>1, <1>2, <1>3, PTL DEF Spec
=============================================================================
