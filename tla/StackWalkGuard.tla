--------------------------- MODULE StackWalkGuard ---------------------------
(***************************************************************************)
(* The park-then-pump safety gate of the Windows stack walkers             *)
(* (stack_walk_guard.cpp) together with the capture that drives it         *)
(* (CaptureStack of netfx_runtime_capture.cpp and clr_runtime_capture.cpp).*)
(*                                                                         *)
(* A sampling thread suspends a target thread, which may own any of the    *)
(* locks a stack walk needs, and asks a worker thread to try those locks   *)
(* first. If the worker blocks, the sampler times out, abandons the probe  *)
(* and resumes the target; the worker then runs on by itself. Critical     *)
(* sections of mutex_ are single steps, as is every store of active_stage_ *)
(* and every call into the runtime or the loader that may block.           *)
(***************************************************************************)
EXTENDS Naturals, Sequences

CONSTANTS Plans,      \* probe sequences a build of CaptureStack may use
          Frames,     \* what frame 0 of a suspended target may be
          HeldSets,   \* which locks the suspended threads may own
          MaxRounds   \* bound: number of captures

ProbeKind == {"RtlFrame0", "CanaryDss"}
FrameKind == {"managed", "native", "noImage", "noRip"}
Lock == {"HeapOrStlGate", "RtlLookup", "ClrIpMap", "LoaderLock", "CanaryDss"}

ASSUME PlansAssumption == Plans \subseteq Seq(ProbeKind) \ {<<>>}
ASSUME FramesAssumption == Frames \subseteq FrameKind
ASSUME HeldSetsAssumption == HeldSets \subseteq SUBSET Lock
ASSUME RoundsAssumption == MaxRounds \in Nat

VARIABLES
    plan,       \* the build's probe sequence
    state,      \* state_
    abandon,    \* abandon_
    result,     \* result_
    stage,      \* active_stage_
    req,        \* req_: the latched request
    asleep,     \* threads blocked on cv_
    worker,     \* program counter of WorkerLoop
    wreq,       \* the worker's copy of the request
    todo,       \* stages the running probe has still to pass
    ok,         \* outcome of RunChecks
    sampler,    \* program counter of the capturing thread
    round,      \* captures started so far
    probe,      \* index in plan of the probe in progress
    frame,      \* frame 0 of the suspended target
    held,       \* locks owned by the suspended threads; frozen while they are suspended
    out,        \* the request whose probe last wrote the sampler's ctx and frame0
    stopper     \* program counter of RequestShutdown; WaitForShutdown

guardVars == <<state, abandon, result, stage, req>>
workerVars == <<worker, wreq, todo, ok, out>>
samplerVars == <<sampler, round, probe, frame, held>>
vars == <<plan, guardVars, asleep, workerVars, samplerVars, stopper>>

GuardState == {"Starting", "Idle", "Scheduled", "Running", "Stopping"}
Stage == {"None", "HeapOrStlGate", "CanaryDss", "RtlLookup", "ClrIpMap", "LoaderLock", "RtlUnwind"}
ProbeResult == {"Success", "Failed", "Stopping", "HeapOrStlLockTimeout", "CanaryDssTimeout",
                "RtlLookupTimeout", "ClrIpMapTimeout", "LoaderLockTimeout", "RtlUnwindTimeout"}
Request == [round : Nat, probe : Nat, kind : ProbeKind \cup {"None"}, frame : FrameKind]
NoRequest == [round |-> 0, probe |-> 0, kind |-> "None", frame |-> "managed"]
CurrentRequest == [round |-> round, probe |-> probe, kind |-> plan[probe], frame |-> frame]

TimeoutResultForStage(s) ==
    CASE s = "HeapOrStlGate" -> "HeapOrStlLockTimeout"
      [] s = "CanaryDss"     -> "CanaryDssTimeout"
      [] s = "RtlLookup"     -> "RtlLookupTimeout"
      [] s = "ClrIpMap"      -> "ClrIpMapTimeout"
      [] s = "LoaderLock"    -> "LoaderLockTimeout"
      [] s = "RtlUnwind"     -> "RtlUnwindTimeout"
      [] OTHER               -> "Failed"

Init ==
    /\ plan \in Plans
    /\ state = "Starting" /\ abandon = FALSE /\ result = "Failed" /\ stage = "None"
    /\ req = NoRequest
    /\ asleep = {}
    /\ worker = "start" /\ wreq = NoRequest /\ todo = <<>> /\ ok = FALSE
    /\ sampler = "ready?" /\ round = 0 /\ probe = 1 /\ frame = "managed" /\ held = {}
    /\ out = NoRequest
    /\ stopper = "off"

----------------------------------------------------------------------------
(* The capturing thread.                                                   *)

Sleep(t) == asleep' = asleep \cup {t}
Awake(t) == t \notin asleep
Settled == state \in {"Idle", "Stopping"}

\* IsReady -> WaitForInitialization.
WaitForInitialization ==
    /\ sampler = "ready?" /\ Awake("sampler")
    /\ IF state = "Starting"
         THEN Sleep("sampler") /\ UNCHANGED sampler
         ELSE sampler' = (IF state = "Idle" THEN "idle" ELSE "disabled") /\ UNCHANGED asleep
    /\ UNCHANGED <<plan, guardVars, workerVars, round, probe, frame, held, stopper>>

\* Under SuspendRuntime (the plan without a canary probe) no thread is inside DoStackSnapshot.
MayBeHeld == IF \E i \in DOMAIN plan : plan[i] = "CanaryDss" THEN Lock ELSE Lock \ {"CanaryDss"}

\* The ThreadGuards: target (and canary) stop wherever they are, owning whatever they own.
Suspend ==
    /\ sampler = "idle"
    /\ round < MaxRounds
    /\ round' = round + 1
    /\ probe' = 1
    /\ frame' \in Frames
    /\ held' \in {h \cap MayBeHeld : h \in HeldSets}
    /\ sampler' = "schedule"
    /\ UNCHANGED <<plan, guardVars, asleep, workerVars, stopper>>

\* Latching a request: only a quiescent worker is given one, and every trace of the previous
\* round is reset.
Latch ==
    /\ state = "Idle"
    /\ req' = CurrentRequest
    /\ abandon' = FALSE
    /\ result' = "Failed"
    /\ stage' = "None"
    /\ state' = "Scheduled"

\* notify_one wakes one of the threads asleep on the condition variable, if any.
NotifyOne == IF asleep = {} THEN UNCHANGED asleep ELSE \E t \in asleep : asleep' = asleep \ {t}

Schedule ==
    /\ sampler = "schedule" /\ Awake("sampler")
    /\ \/ /\ Latch
          /\ NotifyOne
          /\ sampler' = "await"
       \/ /\ state = "Stopping"
          /\ sampler' = "unwind"
          /\ UNCHANGED <<guardVars, asleep>>
       \/ /\ ~Settled
          /\ Sleep("sampler")
          /\ UNCHANGED <<guardVars, sampler>>
    /\ UNCHANGED <<plan, workerVars, round, probe, frame, held, stopper>>

\* park_timeout_ elapses; wait_for tests the predicate once more before it gives up. The deadline
\* is absolute, so spurious wakeups do not put it off.
ParkTimeout ==
    /\ sampler = "schedule"
    /\ asleep' = asleep \ {"sampler"}
    /\ sampler' = IF Settled THEN sampler ELSE "unwind"
    /\ UNCHANGED <<plan, guardVars, workerVars, round, probe, frame, held, stopper>>

\* The verdict is in: go on with the next probe, or walk, or throw.
TakeVerdict ==
    /\ state = "Idle"
    /\ IF result # "Success"
         THEN sampler' = "unwind" /\ UNCHANGED probe
         ELSE IF probe < Len(plan)
           THEN sampler' = "schedule" /\ probe' = probe + 1
           ELSE sampler' = "walk" /\ UNCHANGED probe
    /\ UNCHANGED guardVars

AwaitStopping ==
    /\ state = "Stopping"
    /\ abandon' = TRUE
    /\ sampler' = "unwind"
    /\ UNCHANGED <<state, result, stage, req, probe>>

AwaitProbeResult ==
    /\ sampler = "await" /\ Awake("sampler")
    /\ \/ TakeVerdict /\ UNCHANGED asleep
       \/ AwaitStopping /\ UNCHANGED asleep
       \/ ~Settled /\ Sleep("sampler") /\ UNCHANGED <<guardVars, sampler, probe>>
    /\ UNCHANGED <<plan, workerVars, round, frame, held, stopper>>

\* The timeout branch: abandon the probe and classify it by the worker's last stage.
GiveUp ==
    /\ ~Settled
    /\ abandon' = TRUE
    /\ result' = TimeoutResultForStage(stage)
    /\ sampler' = "unwind"
    /\ UNCHANGED <<state, stage, req, probe>>

\* Mutant: an untimed wait, which ends with the worker's verdict only.
MutantProbeTimeout ==
    /\ sampler = "await"
    /\ asleep' = asleep \ {"sampler"}
    /\ TakeVerdict \/ AwaitStopping
    /\ UNCHANGED <<plan, workerVars, round, frame, held, stopper>>

\* probe_timeout_ elapses.
ProbeTimeout ==
    /\ sampler = "await"
    /\ asleep' = asleep \ {"sampler"}
    /\ TakeVerdict \/ AwaitStopping \/ GiveUp
    /\ UNCHANGED <<plan, workerVars, round, frame, held, stopper>>

\* Locks the walk of ContinueFromProbedFrame0 (or the seedless snapshot) takes on the sampler's
\* own thread: frames 1..N of a native stack go through the loader and the IP map again.
WalkLocks ==
    {"HeapOrStlGate", "CanaryDss"} \cup
    IF plan[1] = "RtlFrame0" /\ frame # "managed" THEN {"RtlLookup", "ClrIpMap", "LoaderLock"} ELSE {}

Walk ==
    /\ sampler = "walk"
    /\ held \cap WalkLocks = {}
    /\ sampler' = "unwind"
    /\ UNCHANGED <<plan, guardVars, asleep, workerVars, round, probe, frame, held, stopper>>

\* The ThreadGuards are destroyed, by return or by the thrown ProbeResult: the threads run again.
Resume ==
    /\ sampler = "unwind"
    /\ held' = {}
    /\ sampler' = "idle"
    /\ UNCHANGED <<plan, guardVars, asleep, workerVars, round, probe, frame, stopper>>

----------------------------------------------------------------------------
(* The worker.                                                             *)

\* First test of WorkerLoopCore, then InitializeCurrentThread outside the mutex.
WorkerStart ==
    /\ worker = "start"
    /\ worker' = IF state = "Stopping" THEN "exit" ELSE "initialize"
    /\ UNCHANGED <<plan, guardVars, asleep, wreq, todo, ok, out, samplerVars, stopper>>

WorkerInitialized ==
    /\ worker = "initialize"
    /\ \/ state = "Stopping" /\ worker' = "exit" /\ UNCHANGED <<state, result>>
       \/ state # "Stopping" /\ state' = "Idle" /\ worker' = "notify" /\ UNCHANGED result
       \/ state # "Stopping" /\ state' = "Stopping" /\ worker' = "lastNotify" /\ result' = "Failed"
    /\ UNCHANGED <<plan, abandon, stage, req, asleep, wreq, todo, ok, out, samplerVars, stopper>>

\* notify_all, after every publication; a worker that stopped the guard itself exits.
WorkerNotify ==
    /\ worker \in {"notify", "lastNotify"}
    /\ asleep' = {}
    /\ worker' = IF worker = "notify" THEN "wait" ELSE "exit"
    /\ UNCHANGED <<plan, guardVars, wreq, todo, ok, out, samplerVars, stopper>>

WorkerWait ==
    /\ worker = "wait" /\ Awake("worker")
    /\ \/ /\ state = "Scheduled"
          /\ wreq' = req
          /\ state' = "Running"
          /\ worker' = "picked"
          /\ UNCHANGED asleep
       \/ /\ state = "Stopping"
          /\ worker' = "exit"
          /\ UNCHANGED <<state, wreq, asleep>>
       \/ /\ state \notin {"Scheduled", "Stopping"}
          /\ Sleep("worker")
          /\ UNCHANGED <<state, wreq, worker>>
    /\ UNCHANGED <<plan, abandon, result, stage, req, todo, ok, out, samplerVars, stopper>>

WorkerEnterGate ==
    /\ worker = "picked"
    /\ stage' = "HeapOrStlGate"
    /\ worker' = "gate"
    /\ UNCHANGED <<plan, state, abandon, result, req, asleep, wreq, todo, ok, out, samplerVars, stopper>>

\* A blocking call returns only when no suspended thread owns the lock it takes.
Acquirable(s) == s \notin held

\* The STL gate: an allocation, which may throw.
WorkerGate ==
    /\ worker = "gate"
    /\ Acquirable("HeapOrStlGate")
    /\ worker' \in {"gated", "threw"}
    /\ UNCHANGED <<plan, guardVars, asleep, wreq, todo, ok, out, samplerVars, stopper>>

WorkerGateThrew ==
    /\ worker = "threw"
    /\ IF state = "Stopping"
         THEN worker' = "exit" /\ UNCHANGED <<state, result, stage>>
         ELSE /\ result' = "Failed" /\ state' = "Idle" /\ stage' = "None"
              /\ worker' = "notify"
    /\ UNCHANGED <<plan, abandon, req, asleep, wreq, todo, ok, out, samplerVars, stopper>>

\* Mutant: the probe of a native frame 0 leaves the loader lock out.
MutantStagesOf(r) ==
    IF r.kind = "CanaryDss" THEN <<"CanaryDss">>
    ELSE CASE r.frame = "managed" -> <<"RtlLookup", "ClrIpMap">>
           [] OTHER -> <<"RtlLookup", "ClrIpMap", "RtlUnwind">>

\* The blocking stages of each probe, in order. A frame outside every image has no module whose
\* name to ask for, so its probe makes no call under the LoaderLock stage.
StagesOf(r) ==
    IF r.kind = "CanaryDss" THEN <<"CanaryDss">>
    ELSE CASE r.frame = "managed" -> <<"RtlLookup", "ClrIpMap">>
           [] r.frame = "noImage" -> <<"RtlLookup", "ClrIpMap", "RtlUnwind">>
           [] OTHER -> <<"RtlLookup", "ClrIpMap", "LoaderLock", "RtlUnwind">>

\* gateOk, and the tests RunRtlFrame0Checks makes before its first call.
WorkerDispatch ==
    /\ worker = "gated"
    /\ IF abandon \/ (wreq.kind = "RtlFrame0" /\ wreq.frame = "noRip")
         THEN worker' = "publish" /\ ok' = FALSE /\ UNCHANGED todo
         ELSE worker' = "stage" /\ todo' = StagesOf(wreq) /\ UNCHANGED ok
    /\ UNCHANGED <<plan, guardVars, asleep, wreq, out, samplerVars, stopper>>

WorkerEnterStage ==
    /\ worker = "stage"
    /\ IF todo = <<>>
         THEN worker' = "publish" /\ ok' = TRUE /\ UNCHANGED stage
         ELSE worker' = "call" /\ stage' = Head(todo) /\ UNCHANGED ok
    /\ UNCHANGED <<plan, state, abandon, result, req, asleep, wreq, todo, out, samplerVars, stopper>>

\* The call of the stage returns; all but the loader's name query may fail the probe.
WorkerCall ==
    /\ worker = "call"
    /\ Acquirable(Head(todo))
    /\ \/ worker' = "checkpoint" /\ UNCHANGED ok
       \/ Head(todo) # "LoaderLock" /\ worker' = "publish" /\ ok' = FALSE
    /\ UNCHANGED <<plan, guardVars, asleep, wreq, todo, out, samplerVars, stopper>>

\* The abandoned() checkpoint that follows every stage.
WorkerCheckpoint ==
    /\ worker = "checkpoint"
    /\ IF abandon
         THEN worker' = "publish" /\ ok' = FALSE /\ UNCHANGED todo
         ELSE worker' = "stage" /\ todo' = Tail(todo) /\ UNCHANGED ok
    /\ UNCHANGED <<plan, guardVars, asleep, wreq, out, samplerVars, stopper>>

\* Mutant: the staged outputs are committed without looking at the abandon flag.
MutantCommit ==
    LET success == ok /\ ~abandon IN
    /\ out' = IF ok /\ wreq.kind = "RtlFrame0" THEN wreq ELSE out
    /\ result' = IF success THEN "Success" ELSE "Failed"

\* The commit of staged outputs to the sampler's memory, and the verdict.
Commit ==
    LET success == ok /\ ~abandon IN
    /\ out' = IF success /\ wreq.kind = "RtlFrame0" THEN wreq ELSE out
    /\ result' = IF success THEN "Success" ELSE "Failed"

WorkerPublish ==
    /\ worker = "publish"
    /\ IF state = "Stopping"
         THEN worker' = "exit" /\ UNCHANGED <<state, result, stage, out>>
         ELSE Commit /\ state' = "Idle" /\ stage' = "None" /\ worker' = "notify"
    /\ UNCHANGED <<plan, abandon, req, asleep, wreq, todo, ok, samplerVars, stopper>>

\* A lock or wait of WorkerLoopCore throws; WorkerLoop turns it into a terminal failure.
WorkerThrows ==
    /\ worker \in {"start", "initialize", "wait", "gated", "checkpoint", "publish"}
    /\ Awake("worker")
    /\ result' = "Failed" /\ state' = "Stopping" /\ stage' = "None"
    /\ worker' = "lastNotify"
    /\ UNCHANGED <<plan, abandon, req, asleep, wreq, todo, ok, out, samplerVars, stopper>>

----------------------------------------------------------------------------
(* Shutdown, and spurious wakeups.                                         *)

RequestShutdown ==
    /\ stopper = "off"
    /\ IF state = "Stopping"
         THEN stopper' = "join" /\ UNCHANGED <<state, abandon>>
         ELSE stopper' = "notify" /\ state' = "Stopping" /\ abandon' = TRUE
    /\ UNCHANGED <<plan, result, stage, req, asleep, workerVars, samplerVars>>

\* Mutant: the shutdown notifies nobody.
MutantShutdownNotify ==
    /\ stopper = "notify"
    /\ stopper' = "join"
    /\ UNCHANGED <<plan, guardVars, asleep, workerVars, samplerVars>>

ShutdownNotify ==
    /\ stopper = "notify"
    /\ asleep' = {}
    /\ stopper' = "join"
    /\ UNCHANGED <<plan, guardVars, workerVars, samplerVars>>

\* join of the worker thread.
WaitForShutdown ==
    /\ stopper = "join"
    /\ worker = "exit"
    /\ stopper' = "joined"
    /\ UNCHANGED <<plan, guardVars, asleep, workerVars, samplerVars>>

SpuriousWakeup ==
    /\ \E t \in asleep : asleep' = asleep \ {t}
    /\ UNCHANGED <<plan, guardVars, workerVars, samplerVars, stopper>>

SamplerStep ==
    WaitForInitialization \/ Schedule \/ AwaitProbeResult \/ Walk \/ Resume
TimeoutStep == ParkTimeout \/ ProbeTimeout
WorkerCompletes ==
    \/ WorkerStart \/ WorkerInitialized \/ WorkerNotify \/ WorkerWait \/ WorkerEnterGate
    \/ WorkerGate \/ WorkerGateThrew \/ WorkerDispatch \/ WorkerEnterStage \/ WorkerCall
    \/ WorkerCheckpoint \/ WorkerPublish
StopperStep == ShutdownNotify \/ WaitForShutdown

Next ==
    \/ Suspend \/ SamplerStep \/ TimeoutStep \/ WorkerCompletes \/ WorkerThrows
    \/ RequestShutdown \/ StopperStep \/ SpuriousWakeup

(* Running threads keep running, timed waits time out, and a call into the *)
(* runtime or the loader ends once nobody suspended owns its lock. Nothing *)
(* forces a new capture, an exception or a shutdown.                       *)
Fairness ==
    /\ WF_vars(SamplerStep) /\ WF_vars(TimeoutStep)
    /\ WF_vars(WorkerCompletes) /\ WF_vars(StopperStep)

Spec == Init /\ [][Next]_vars
FairSpec == Spec /\ Fairness

----------------------------------------------------------------------------
TypeOK ==
    /\ plan \in Plans
    /\ state \in GuardState /\ abandon \in BOOLEAN /\ result \in ProbeResult /\ stage \in Stage
    /\ req \in Request /\ wreq \in Request /\ out \in Request
    /\ asleep \subseteq {"sampler", "worker"}
    /\ worker \in {"start", "initialize", "notify", "lastNotify", "wait", "picked", "gate",
                   "threw", "gated", "stage", "call", "checkpoint", "publish", "exit"}
    /\ todo \in Seq(Stage) /\ ok \in BOOLEAN
    /\ sampler \in {"ready?", "disabled", "idle", "schedule", "await", "walk", "unwind"}
    /\ round \in Nat /\ probe \in DOMAIN plan /\ frame \in FrameKind /\ held \subseteq Lock
    /\ stopper \in {"off", "notify", "join", "joined"}

\* ctx and frame0 live on the sampler's stack: the worker writes through its borrowed pointers only
\* while the sampler is inside the Await of that very request, never after a timeout or a stop has
\* let it unwind (the commit gate of WorkerLoopCore).
CommitsOnlyToWaitingSampler ==
    [][out' # out => sampler = "await" /\ out' = CurrentRequest]_vars

\* A Success the sampler acts on is about the threads it holds suspended now: every stage of this
\* round's probe returned while they were suspended, so frames 1..N need no lock they own.
WalkCannotDeadlock == sampler = "walk" => held \cap WalkLocks = {}

\* A stopped guard never becomes available again, whatever recovery path runs.
StoppingIsTerminal == [][state = "Stopping" => state' = "Stopping"]_vars

\* The suspended threads are resumed, whichever locks they own and whatever the worker is blocked on.
TargetIsResumed == (sampler \in {"schedule", "await", "walk", "unwind"}) ~> (sampler = "idle")

\* The worker comes back: an abandoned one unblocks, drains its round and is available again unless
\* the guard has stopped, and a shutdown requested in the middle of a probe still joins it.
WorkerReturns ==
    /\ (state \in {"Scheduled", "Running"}) ~> (state \in {"Idle", "Stopping"})
    /\ (stopper # "off") ~> (stopper = "joined")
=============================================================================
