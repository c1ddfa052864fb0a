------------------------ MODULE ProfilerPipelineProofs ------------------------
(***************************************************************************)
(* Proofs about the managed pipeline for any set of AppDomains and any     *)
(* number of configuration changes.  The inductive invariant says, for     *)
(* each domain, which of its three threads (initialisation, exit handler,  *)
(* reader) is responsible for the exporter and for the canary thread at    *)
(* every moment: responsibility is handed over and never lost or shared.   *)
(*                                                                         *)
(* And about the native service that configures what the pipeline reads,   *)
(* RuntimeSamplerService, for any snapshots and callers.  ServiceInv says  *)
(* what each call holds, carries and has built at each of its places, and  *)
(* relates mailbox, target and session to the committed snapshot through   *)
(* the steps in which they differ from it.                                 *)
(***************************************************************************)
EXTENDS ProfilerPipeline, RuntimeSamplerService, TLAPS

(* Before its exporter is built a domain has neither thread nor exporter,  *)
(* and until initialisation has published or disposed it, nobody else has. *)
NotBuilt(d) ==
    /\ init[d] = "build" => reader[d] = "off" /\ d \notin eventsGone
    /\ init[d] \in {"build", "wait", "publish", "dispose"} => d \notin disposed
    /\ d \in activated => init[d] = "done"

(* The exit flag is exactly the beginning of the exit handler, and what    *)
(* the exit handler took, initialisation had handed over.  A handler that  *)
(* failed took nothing.                                                    *)
ExitTakes(d) ==
    /\ d \in exiting <=> exit[d] # "none"
    /\ d \in published => init[d] = "done" /\ exit[d] \in {"none", "swap", "failed"}
    /\ exit[d] \in {"dispose", "join"} => init[d] = "done"
    /\ exit[d] = "join" => d \in disposed

(* A started exporter that initialisation has left is published, about to  *)
(* be disposed by the exit handler, or disposed; a published one is        *)
(* activated, subscribed and not disposed.                                 *)
ExporterIsOwned(d) ==
    /\ init[d] = "join" => d \in disposed
    /\ init[d] = "done" /\ reader[d] # "off" =>
          d \in published \/ exit[d] = "dispose" \/ d \in disposed
    /\ d \in subscribed => d \in published \/ exit[d] = "dispose"
    /\ d \in published => d \in subscribed /\ d \notin disposed
    /\ d \in activated /\ exit[d] \in {"none", "swap", "failed"} => d \in published

(* The canary belongs to the reader while it is being initialised, to the  *)
(* manager until the exit handler takes it, and then to the exit handler.  *)
(* Only the reader of an activated exporter starts one.                    *)
CanaryIsOwned(d) ==
    /\ canary[d] = "local" <=> reader[d] \in {"publish", "drop"}
    /\ reader[d] \in {"recheck", "starting"} => canary[d] = "none"
    /\ canary[d] = "owned" => exit[d] \in {"none", "swap", "failed"}
    /\ canary[d] = "taken" => exit[d] \in {"dispose", "join", "canary"}
    /\ canary[d] = "gone" => exit[d] \in {"done", "failed"}
    /\ canary[d] # "none" \/ reader[d] \in Owning \cup {"poll", "try"} => d \in activated

(* The reader thread ends only for a disposed exporter, or with its domain *)
(* after an exit handler that failed.                                      *)
ReaderEndsDisposed(d) ==
    /\ reader[d] = "done" => d \in disposed \/ exit[d] = "failed"
    /\ d \in eventsGone => d \in disposed /\ reader[d] \in {"off", "done"}
    /\ reader[d] \in Owning <=> mutex = d

DomainInv(d) ==
    NotBuilt(d) /\ ExitTakes(d) /\ ExporterIsOwned(d) /\ CanaryIsOwned(d) /\ ReaderEndsDisposed(d)

IInv == PipelineTypeOK /\ \A d \in Domains : DomainInv(d)

(* The steps of InitializeSampling preserve the invariant.                 *)
LEMMA InitPreserves ==
    ASSUME IInv, NEW d \in Domains, InitStep(d)
    PROVE  IInv'
<1> USE DEF IInv, PipelineTypeOK, Owning, Initializing
<1> USE DEF DomainInv, NotBuilt, ExitTakes, ExporterIsOwned, CanaryIsOwned, ReaderEndsDisposed
<1>1. CASE StartsExporter(d)
  <2>1. PipelineTypeOK' BY <1>1 DEF StartsExporter, exporterVars, nativeVars, canaryVars
  <2>2. ASSUME NEW e \in Domains PROVE DomainInv(e)'
    BY <1>1, OwnersAssumption DEF StartsExporter, exporterVars, nativeVars, canaryVars
  <2>3. QED BY <2>1, <2>2
<1>2. CASE AppliesSeed(d)
  <2>1. PipelineTypeOK' BY <1>2 DEF AppliesSeed, exporterVars, canaryVars
  <2>2. ASSUME NEW e \in Domains PROVE DomainInv(e)'
    BY <1>2, OwnersAssumption DEF AppliesSeed, exporterVars, canaryVars
  <2>3. QED BY <2>1, <2>2
<1>3. CASE PublishesExporter(d)
  <2>1. PipelineTypeOK' BY <1>3 DEF PublishesExporter, nativeVars, canaryVars
  <2>2. ASSUME NEW e \in Domains PROVE DomainInv(e)'
    BY <1>3, OwnersAssumption DEF PublishesExporter, nativeVars, canaryVars
  <2>3. QED BY <2>1, <2>2
<1>4. CASE DisposesCandidate(d)
  <2>1. PipelineTypeOK' BY <1>4 DEF DisposesCandidate, ExporterDispose, ExporterJoin, nativeVars, canaryVars
  <2>2. ASSUME NEW e \in Domains PROVE DomainInv(e)'
    BY <1>4, OwnersAssumption DEF DisposesCandidate, ExporterDispose, ExporterJoin, nativeVars, canaryVars
  <2>3. QED BY <2>1, <2>2
<1>5. QED BY <1>1, <1>2, <1>3, <1>4 DEF InitStep

(* The steps of the exit handler after its flag is set preserve the invariant. *)
LEMMA ExitPreserves ==
    ASSUME IInv, NEW d \in Domains, ExitStep(d)
    PROVE  IInv'
<1> USE DEF IInv, PipelineTypeOK, Owning, Initializing
<1> USE DEF DomainInv, NotBuilt, ExitTakes, ExporterIsOwned, CanaryIsOwned, ReaderEndsDisposed
<1>1. CASE ExitSwaps(d)
  <2>1. PipelineTypeOK' BY <1>1 DEF ExitSwaps, exporterVars, nativeVars, canaryVars
  <2>2. ASSUME NEW e \in Domains PROVE DomainInv(e)'
    BY <1>1, OwnersAssumption DEF ExitSwaps, exporterVars, nativeVars, canaryVars
  <2>3. QED BY <2>1, <2>2
<1>2. CASE ExitDisposes(d)
  <2>1. PipelineTypeOK'
    BY <1>2
       DEF ExitDisposes, ExporterDispose, ExporterJoin, CanaryDispose, nativeVars, canaryVars
  <2>2. ASSUME NEW e \in Domains PROVE DomainInv(e)'
    BY <1>2, OwnersAssumption
       DEF ExitDisposes, ExporterDispose, ExporterJoin, CanaryDispose, nativeVars, canaryVars
  <2>3. QED BY <2>1, <2>2
<1>3. CASE ExitFails(d)
  <2>1. PipelineTypeOK' BY <1>3 DEF ExitFails, exporterVars, nativeVars, canaryVars
  <2>2. ASSUME NEW e \in Domains PROVE DomainInv(e)'
    BY <1>3, OwnersAssumption DEF ExitFails, exporterVars, nativeVars, canaryVars
  <2>3. QED BY <2>1, <2>2
<1>4. QED BY <1>1, <1>2, <1>3 DEF ExitStep

(* The steps of the reader thread preserve the invariant.                  *)
LEMMA ReaderPreserves ==
    ASSUME IInv, NEW d \in Domains, ReaderStep(d)
    PROVE  IInv'
<1> USE DEF IInv, PipelineTypeOK, Owning, Initializing
<1> USE DEF DomainInv, NotBuilt, ExitTakes, ExporterIsOwned, CanaryIsOwned, ReaderEndsDisposed
<1>1. CASE ReaderStarts(d)
  <2>1. PipelineTypeOK'
    BY <1>1
       DEF ReaderStarts, ReaderGoes, managerVars, exporterVars, nativeVars, canaryVars
  <2>2. ASSUME NEW e \in Domains PROVE DomainInv(e)'
    BY <1>1, OwnersAssumption
       DEF ReaderStarts, ReaderGoes, managerVars, exporterVars, nativeVars, canaryVars
  <2>3. QED BY <2>1, <2>2
<1>2. CASE ReaderPolls(d)
  <2>1. PipelineTypeOK' BY <1>2 DEF ReaderPolls, ReaderGoes, managerVars, exporterVars, nativeVars, canaryVars
  <2>2. ASSUME NEW e \in Domains PROVE DomainInv(e)'
    BY <1>2, OwnersAssumption
       DEF ReaderPolls, ReaderGoes, managerVars, exporterVars, nativeVars, canaryVars
  <2>3. QED BY <2>1, <2>2
<1>3. CASE ReaderTries(d)
  <2>1. PipelineTypeOK' BY <1>3 DEF ReaderTries, ReaderGoes, managerVars, exporterVars, canaryVars
  <2>2. ASSUME NEW e \in Domains PROVE DomainInv(e)'
    BY <1>3, OwnersAssumption DEF ReaderTries, ReaderGoes, managerVars, exporterVars, canaryVars
  <2>3. QED BY <2>1, <2>2
<1>4. CASE ReaderRechecks(d)
  <2>1. PipelineTypeOK'
    BY <1>4
       DEF ReaderRechecks, ReaderGoes, managerVars, exporterVars, nativeVars, canaryVars
  <2>2. ASSUME NEW e \in Domains PROVE DomainInv(e)'
    BY <1>4, OwnersAssumption
       DEF ReaderRechecks, ReaderGoes, managerVars, exporterVars, nativeVars, canaryVars
  <2>3. QED BY <2>1, <2>2
<1>5. CASE EnsuresCanary(d)
  <2>1. PipelineTypeOK'
    BY <1>5 DEF EnsuresCanary, InitializerReturns, managerVars, exporterVars, nativeVars, canaryVars
  <2>2. ASSUME NEW e \in Domains PROVE DomainInv(e)'
    BY <1>5, OwnersAssumption
       DEF EnsuresCanary, InitializerReturns, managerVars, exporterVars, nativeVars, canaryVars
  <2>3. QED BY <2>1, <2>2
<1>6. CASE StartsCanary(d)
  <2>1. PipelineTypeOK'
    BY <1>6
       DEF StartsCanary, ReaderGoes, managerVars, exporterVars, nativeVars, canaryVars
  <2>2. ASSUME NEW e \in Domains PROVE DomainInv(e)'
    BY <1>6, OwnersAssumption
       DEF StartsCanary, ReaderGoes, managerVars, exporterVars, nativeVars, canaryVars
  <2>3. QED BY <2>1, <2>2
<1>7. CASE PublishesCanary(d)
  <2>1. PipelineTypeOK'
    BY <1>7 DEF PublishesCanary, InitializerReturns, managerVars, exporterVars, nativeVars, canaryVars
  <2>2. ASSUME NEW e \in Domains PROVE DomainInv(e)'
    BY <1>7, OwnersAssumption
       DEF PublishesCanary, InitializerReturns, managerVars, exporterVars, nativeVars, canaryVars
  <2>3. QED BY <2>1, <2>2
<1>8. CASE DropsCanary(d)
  <2>1. PipelineTypeOK'
    BY <1>8
       DEF DropsCanary, CanaryDispose, InitializerReturns, managerVars, exporterVars, nativeVars, canaryVars
  <2>2. ASSUME NEW e \in Domains PROVE DomainInv(e)'
    BY <1>8, OwnersAssumption
       DEF DropsCanary, CanaryDispose, InitializerReturns, managerVars, exporterVars, nativeVars, canaryVars
  <2>3. QED BY <2>1, <2>2
<1>9. CASE Loops(d)
  <2>1. PipelineTypeOK' BY <1>9 DEF Loops, ReaderGoes, managerVars, exporterVars, nativeVars, canaryVars
  <2>2. ASSUME NEW e \in Domains PROVE DomainInv(e)'
    BY <1>9, OwnersAssumption DEF Loops, ReaderGoes, managerVars, exporterVars, nativeVars, canaryVars
  <2>3. QED BY <2>1, <2>2
<1>10. CASE ReleasesMutex(d)
  <2>1. PipelineTypeOK' BY <1>10 DEF ReleasesMutex, ReaderGoes, managerVars, exporterVars, canaryVars
  <2>2. ASSUME NEW e \in Domains PROVE DomainInv(e)'
    BY <1>10, OwnersAssumption DEF ReleasesMutex, ReaderGoes, managerVars, exporterVars, canaryVars
  <2>3. QED BY <2>1, <2>2
<1>11. QED BY <1>1, <1>2, <1>3, <1>4, <1>5, <1>6, <1>7, <1>8, <1>9, <1>10 DEF ReaderStep

(* Every step preserves the invariant; a change of the native             *)
(* configuration touches nothing it speaks about.                          *)
LEMMA NextPreserves == ASSUME IInv, [PipelineNext]_pipelineVars PROVE IInv'
<1> USE DEF IInv, PipelineTypeOK, Owning, Initializing
<1> USE DEF DomainInv, NotBuilt, ExitTakes, ExporterIsOwned, CanaryIsOwned, ReaderEndsDisposed
<1>1. CASE \E d \in Domains : InitStep(d) BY <1>1, InitPreserves
<1>2. CASE \E d \in Domains : ExitStep(d) BY <1>2, ExitPreserves
<1>3. CASE \E d \in Domains : ReaderStep(d) BY <1>3, ReaderPreserves
<1>4. ASSUME NEW d \in Domains, ExitBegins(d) PROVE IInv'
  <2>1. PipelineTypeOK' BY <1>4 DEF ExitBegins, exporterVars, nativeVars, canaryVars
  <2>2. ASSUME NEW e \in Domains PROVE DomainInv(e)'
    BY <1>4, OwnersAssumption DEF ExitBegins, exporterVars, nativeVars, canaryVars
  <2>3. QED BY <2>1, <2>2
<1>5. ASSUME NEW d \in Domains, Unloads(d) PROVE IInv'
  <2>1. PipelineTypeOK' BY <1>5 DEF Unloads, managerVars, exporterVars, canaryVars
  <2>2. ASSUME NEW e \in Domains PROVE DomainInv(e)'
    BY <1>5, OwnersAssumption DEF Unloads, managerVars, exporterVars, canaryVars
  <2>3. QED BY <2>1, <2>2
<1>6. CASE ConfigurationChanges
  BY <1>6 DEF ConfigurationChanges, managerVars, exporterVars, canaryVars
<1>7. ASSUME NEW d \in Domains, CanaryExits(d) PROVE IInv'
  BY <1>7 DEF CanaryExits, managerVars, exporterVars, nativeVars
<1>8. CASE UNCHANGED pipelineVars
  BY <1>8 DEF pipelineVars, managerVars, exporterVars, nativeVars, canaryVars
<1>9. QED BY <1>1, <1>2, <1>3, <1>4, <1>5, <1>6, <1>7, <1>8 DEF PipelineNext

(* The invariant holds of every behaviour.                                 *)
LEMMA Inductive == PipelineSpec => []IInv
<1>1. PipelineInit => IInv
  <2> USE DEF PipelineInit, Owning, Initializing
  <2>1. PipelineInit => PipelineTypeOK BY DEF PipelineTypeOK
  <2>2. ASSUME PipelineInit, NEW d \in Domains PROVE DomainInv(d)
    BY <2>2, OwnersAssumption DEF DomainInv, NotBuilt, ExitTakes, ExporterIsOwned,
       CanaryIsOwned, ReaderEndsDisposed
  <2>3. QED BY <2>1, <2>2 DEF IInv
<1>2. IInv /\ [PipelineNext]_pipelineVars => IInv' BY NextPreserves
<1>3. QED BY <1>1, <1>2, PTL DEF PipelineSpec

(* Every thread of every domain stays in its places (the threads of        *)
(* ContinuousProfilerManager and SampleExporter).                          *)
THEOREM TypeCorrect == PipelineSpec => []PipelineTypeOK
<1>1. IInv => PipelineTypeOK BY DEF IInv
<1>2. QED BY <1>1, Inductive, PTL

(* A domain whose initialisation, exit handler and reader have ended, in   *)
(* whatever order, leaves no exporter, subscription or canary behind; one  *)
(* whose OnExit failed before ContinuousProfilerManager.Dispose still has  *)
(* its whole pipeline, or none of it.                                      *)
THEOREM ExitIsClean == PipelineSpec => []NothingOutlivesExit
<1>1. ASSUME IInv, NEW d \in Domains, Settled(d)
      PROVE  /\ d \notin published \cup subscribed
             /\ canary[d] \in {"none", "gone"}
             /\ reader[d] = "done" => d \in disposed
  BY <1>1 DEF IInv, PipelineTypeOK, DomainInv, ExitTakes, ExporterIsOwned, CanaryIsOwned,
     ReaderEndsDisposed, Settled
<1>2. ASSUME IInv, NEW d \in Domains, init[d] = "done", exit[d] = "failed"
      PROVE  IF d \in published
             THEN d \in subscribed /\ d \notin disposed \cup eventsGone
             ELSE d \notin subscribed /\ canary[d] = "none" /\ (reader[d] # "off" => d \in disposed)
  BY <1>2 DEF IInv, PipelineTypeOK, DomainInv, ExporterIsOwned, CanaryIsOwned, ReaderEndsDisposed
<1>3. IInv => NothingOutlivesExit BY <1>1, <1>2 DEF NothingOutlivesExit
<1>4. QED BY <1>3, Inductive, PTL

(* SampleExporter.Dispose never disposes an event or the mutex handle that *)
(* a reader thread may still use, also when its Join times out.            *)
THEOREM NoUseAfter == PipelineSpec => []NoUseAfterDispose
<1>1. IInv => NoUseAfterDispose
  BY DEF IInv, PipelineTypeOK, DomainInv, ReaderEndsDisposed, NoUseAfterDispose, Owning, Initializing
<1>2. QED BY <1>1, Inductive, PTL

(* For any number of domains at most one reads the native buffers, and it  *)
(* is the owner of the mutex, unloaded owners included.                    *)
THEOREM SingleReader == PipelineSpec => []OneReader
<1>1. IInv => OneReader BY DEF IInv, DomainInv, ReaderEndsDisposed, OneReader
<1>2. QED BY <1>1, Inductive, PTL

----------------------------------------------------------------------------
(* The configuration service.                                              *)

\* Where a call of Apply holds configurationMutex_.
HoldingPCs == {"locked", "create", "prepare", "start", "events", "session", "close", "commit",
               "publish", "retarget", "stop", "drain"}
\* Where it works on a snapshot that is not committed yet.
CandidatePCs == {"create", "prepare", "start", "events", "session", "close", "commit"}

\* The mutex has one holder, and it is the call that is past Lock and not past its unlock.
HolderInv == \A a \in Appliers : call[a].pc \in HoldingPCs <=> lock = a

\* What a call carries: an admissible snapshot without a result yet.  A call that found the worker
\* dead is not past the test for it, unless a teardown has joined that worker.
CallInv(a) ==
    /\ call[a].pc # "idle" =>
          /\ call[a].result = "none" /\ IsValid(call[a].cfg) /\ call[a].cfg \in Snapshots
          /\ ~hasInfo12 => call[a].cfg.alloc = 0
    /\ call[a].pc = "locked" /\ call[a].sick => worker = "failed" \/ Terminal
    /\ call[a].pc \in HoldingPCs \ {"locked"} => ~Terminal /\ ~call[a].sick
    /\ call[a].pc \in CandidatePCs => (call[a].source = "Seed" => authority = "None")
    /\ call[a].pc = "teardown" => activationFailed

\* What the activation steps of a call have built so far.
BuiltInv(a) ==
    /\ call[a].pc \in {"prepare", "start", "events", "session", "publish", "retarget"} => sampler = "created"
    /\ call[a].pc = "session" => events
    /\ call[a].pc \in {"close", "commit"} /\ AnyFeatureEnabled(call[a].cfg) => sampler = "created" /\ events
    /\ call[a].pc \in {"start", "events", "session", "close", "commit"} /\ SelectiveEnabled(call[a].cfg)
          => buffers
    /\ call[a].pc \in {"events", "session", "close", "commit"} /\ ThreadSamplingEnabled(call[a].cfg)
          => worker \in {"running", "failed"}
    /\ call[a].pc \in {"publish", "retarget", "stop", "drain"} => call[a].cfg = committed
    /\ call[a].pc \in {"stop", "drain"} => ~AllocationEnabled(call[a].cfg)

\* The producers' configuration: the committed one, except between the commit and its publication,
\* and with allocation admission closed as soon as a disabling snapshot is about to be committed.
ObservedInv ==
    /\ (\A a \in Appliers : call[a].pc # "publish") => mailbox = Intervals(committed)
    /\ (\A a \in Appliers : call[a].pc \notin {"commit", "publish", "retarget"}) =>
          target = committed.alloc \/ (Terminal /\ target = 0)
    /\ \A a \in Appliers :
          /\ call[a].pc = "commit" =>
                target = IF AllocationEnabled(call[a].cfg) THEN committed.alloc ELSE 0
          /\ call[a].pc = "publish" => mailbox = Intervals(call[a].prev)
          /\ call[a].pc \in {"publish", "retarget"} =>
                target = IF AllocationEnabled(call[a].cfg) THEN call[a].prev.alloc ELSE 0

\* The EventPipe session follows the committed snapshot, ahead of it while a call enables it and
\* behind it while a call stops it.
SessionInv ==
    /\ ~hasInfo12 => ~AllocationEnabled(committed) /\ session = "None" /\ ~subSampler /\ target = 0
    /\ ~Terminal /\ (\A a \in Appliers :
                        call[a].pc \notin {"close", "commit", "publish", "retarget", "stop", "drain"})
          => (session = "Active" <=> AllocationEnabled(committed))
    /\ \A a \in Appliers :
          /\ call[a].pc \in {"close", "commit"} =>
                (session = "Active" <=> AllocationEnabled(committed) \/ AllocationEnabled(call[a].cfg))
          /\ call[a].pc \in {"publish", "retarget"} /\ AllocationEnabled(call[a].cfg) => session = "Active"

\* What the committed snapshot needs is there until a teardown, which only a terminal controller has.
ResourceInv ==
    /\ ~Terminal =>
          /\ AnyFeatureEnabled(committed) => sampler = "created" /\ events
          /\ ThreadSamplingEnabled(committed) => worker \in {"running", "failed"}
          /\ SelectiveEnabled(committed) => buffers
    /\ \A c \in Closers : closer[c] = "teardown" => shutdownStarted
    /\ sampler \in {"stopping", "down"} => Terminal /\ target = 0
    /\ sampler = "down" => worker \in {"none", "joined"} /\ session # "Active" /\ ~tick

ServiceInv ==
    /\ TypeOK /\ HolderInv
    /\ \A a \in Appliers : CallInv(a) /\ BuiltInv(a)
    /\ ObservedInv /\ SessionInv /\ ResourceInv
    /\ DeadWorkerNotAcknowledged

\* A call that moves on stays a call record.
LEMMA GoesTyped ==
    ASSUME call \in [Appliers -> CallRecord], NEW a \in Appliers, NEW pc \in PCs, Goes(a, pc)
    PROVE  call' \in [Appliers -> CallRecord]
<1>1. [call[a] EXCEPT !.pc = pc] \in CallRecord
  BY DEF CallRecord
<1> QED BY <1>1 DEF Goes

\* A call that returns stays a call record.
LEMMA ReturnsTyped ==
    ASSUME call \in [Appliers -> CallRecord], NEW a \in Appliers, NEW result \in Results,
           Returns(a, result)
    PROVE  call' \in [Appliers -> CallRecord]
<1>1. [Call("idle", "Seed", Disabled, result) EXCEPT !.sick = call[a].sick] \in CallRecord
  BY DEF CallRecord, Call, PCs, ConfigRecord, Disabled
<1> QED BY <1>1 DEF Returns

\* A failed activation leaves a call record.
LEMMA FailTyped ==
    ASSUME call \in [Appliers -> CallRecord], NEW a \in Appliers, FailActivation(a)
    PROVE  call' \in [Appliers -> CallRecord]
<1>1. \/ Returns(a, "ActivationFailed") \/ Goes(a, "teardown")
  BY DEF FailActivation
<1> QED BY <1>1, GoesTyped, ReturnsTyped DEF PCs, Results

\* Taking configurationMutex_ makes the call its only holder.
LEMMA LockKeeps ==
    ASSUME ServiceInv, NEW a \in Appliers, Lock(a)
    PROVE  ServiceInv'
<1> USE AppliersAssumption DEF ServiceInv, Terminal, ctrlVars, resVars, allocVars, callVars
<1>1. TypeOK'
  <2>1. call' \in [Appliers -> CallRecord]
    <3>1. (worker = "failed") \in BOOLEAN
      OBVIOUS
    <3>2. [call[a] EXCEPT !.pc = "locked", !.sick = (worker = "failed")] \in CallRecord
      BY <3>1 DEF TypeOK, CallRecord, PCs
    <3> QED BY <3>2 DEF TypeOK, Lock
  <2> QED BY <2>1 DEF TypeOK, SamplerStates, Intervals, ConfigRecord, Lock
<1> USE DEF TypeOK, CallRecord, HolderInv, HoldingPCs, CallInv, Goes, Returns, Call, Lock
<1>2. HolderInv' /\ DeadWorkerNotAcknowledged'
  BY DEF DeadWorkerNotAcknowledged
<1>3. ASSUME NEW b \in Appliers PROVE CallInv(b)'
  BY <1>3 DEF CandidatePCs, Disabled
<1>4. ASSUME NEW b \in Appliers PROVE BuiltInv(b)'
  BY <1>4 DEF BuiltInv, SelectiveEnabled, ThreadSamplingEnabled, AllocationEnabled,
     AnyFeatureEnabled, ResourceInv
<1>5. ObservedInv'
  BY DEF BuiltInv, ObservedInv, ResourceInv, SelectiveEnabled, ThreadSamplingEnabled,
     AllocationEnabled, AnyFeatureEnabled, Intervals
<1>6. SessionInv'
  BY DEF BuiltInv, SessionInv, ResourceInv, SelectiveEnabled, ThreadSamplingEnabled,
     AllocationEnabled, AnyFeatureEnabled
<1>7. ResourceInv'
  BY DEF BuiltInv, ResourceInv, SelectiveEnabled, ThreadSamplingEnabled, AllocationEnabled,
     AnyFeatureEnabled
<1> QED BY <1>1, <1>2, <1>3, <1>4, <1>5, <1>6, <1>7

\* A call that finds the service ended changes nothing but its own result.
LEMMA RefuseTerminalKeeps ==
    ASSUME ServiceInv, NEW a \in Appliers, RefuseTerminal(a)
    PROVE  ServiceInv'
<1> USE AppliersAssumption DEF ServiceInv, Terminal, ctrlVars, resVars, allocVars, callVars
<1>1. TypeOK'
  <2>1. call' \in [Appliers -> CallRecord]
    BY ReturnsTyped DEF TypeOK, PCs, Results, RefuseTerminal, Unlocks
  <2> QED BY <2>1 DEF TypeOK, SamplerStates, Intervals, ConfigRecord, RefuseTerminal, Unlocks
<1> USE DEF TypeOK, CallRecord, HolderInv, HoldingPCs, CallInv, Goes, Returns, Call, RefuseTerminal,
        Unlocks
<1>2. HolderInv' /\ DeadWorkerNotAcknowledged'
  BY DEF DeadWorkerNotAcknowledged
<1>3. ASSUME NEW b \in Appliers PROVE CallInv(b)'
  BY <1>3 DEF CandidatePCs, Disabled
<1>4. ASSUME NEW b \in Appliers PROVE BuiltInv(b)'
  BY <1>4 DEF BuiltInv, SelectiveEnabled, ThreadSamplingEnabled, AllocationEnabled,
     AnyFeatureEnabled, ResourceInv
<1>5. ObservedInv'
  BY DEF BuiltInv, ObservedInv, ResourceInv, SelectiveEnabled, ThreadSamplingEnabled,
     AllocationEnabled, AnyFeatureEnabled, Intervals
<1>6. SessionInv'
  BY DEF BuiltInv, SessionInv, ResourceInv, SelectiveEnabled, ThreadSamplingEnabled,
     AllocationEnabled, AnyFeatureEnabled
<1>7. ResourceInv'
  BY DEF BuiltInv, ResourceInv, SelectiveEnabled, ThreadSamplingEnabled, AllocationEnabled,
     AnyFeatureEnabled
<1> QED BY <1>1, <1>2, <1>3, <1>4, <1>5, <1>6, <1>7

\* A dead worker ends the service without touching what is committed.
LEMMA LatchDeadWorkerKeeps ==
    ASSUME ServiceInv, NEW a \in Appliers, LatchDeadWorker(a)
    PROVE  ServiceInv'
<1> USE AppliersAssumption DEF ServiceInv, Terminal, ctrlVars, resVars, allocVars, callVars
<1>1. TypeOK'
  <2>1. call' \in [Appliers -> CallRecord]
    BY GoesTyped DEF TypeOK, PCs, Results, LatchDeadWorker, WorkerIsDead
  <2>2. activationFailed' \in BOOLEAN
    BY Zenon DEF TypeOK, LatchDeadWorker, WorkerIsDead
  <2> QED BY <2>1, <2>2 DEF TypeOK, SamplerStates, Intervals, ConfigRecord, LatchDeadWorker,
        WorkerIsDead
<1> USE DEF TypeOK, CallRecord, HolderInv, HoldingPCs, CallInv, Goes, Returns, Call,
        LatchDeadWorker, WorkerIsDead
<1>2. HolderInv' /\ DeadWorkerNotAcknowledged'
  BY DEF DeadWorkerNotAcknowledged
<1>3. ASSUME NEW b \in Appliers PROVE CallInv(b)'
  BY <1>3 DEF CandidatePCs, Disabled
<1>4. ASSUME NEW b \in Appliers PROVE BuiltInv(b)'
  BY <1>4 DEF BuiltInv, SelectiveEnabled, ThreadSamplingEnabled, AllocationEnabled,
     AnyFeatureEnabled, ResourceInv
<1>5. ObservedInv'
  BY DEF BuiltInv, ObservedInv, ResourceInv, SelectiveEnabled, ThreadSamplingEnabled,
     AllocationEnabled, AnyFeatureEnabled, Intervals
<1>6. SessionInv'
  BY DEF BuiltInv, SessionInv, ResourceInv, SelectiveEnabled, ThreadSamplingEnabled,
     AllocationEnabled, AnyFeatureEnabled
<1>7. ResourceInv'
  BY DEF BuiltInv, ResourceInv, SelectiveEnabled, ThreadSamplingEnabled, AllocationEnabled,
     AnyFeatureEnabled
<1> QED BY <1>1, <1>2, <1>3, <1>4, <1>5, <1>6, <1>7

\* A seed behind the control plane is acknowledged and ignored.
LEMMA IgnoreLateSeedKeeps ==
    ASSUME ServiceInv, NEW a \in Appliers, IgnoreLateSeed(a)
    PROVE  ServiceInv'
<1> USE AppliersAssumption DEF ServiceInv, Terminal, ctrlVars, resVars, allocVars, callVars
<1>1. TypeOK'
  <2>1. call' \in [Appliers -> CallRecord]
    BY ReturnsTyped DEF TypeOK, PCs, Results, IgnoreLateSeed, Healthy, SeedIsLate, WorkerIsDead,
        Unlocks
  <2> QED BY <2>1 DEF TypeOK, SamplerStates, Intervals, ConfigRecord, IgnoreLateSeed, Healthy,
        SeedIsLate, WorkerIsDead, Unlocks
<1> USE DEF TypeOK, CallRecord, HolderInv, HoldingPCs, CallInv, Goes, Returns, Call, IgnoreLateSeed,
        Healthy, SeedIsLate, WorkerIsDead, Unlocks
<1>2. HolderInv' /\ DeadWorkerNotAcknowledged'
  BY DEF DeadWorkerNotAcknowledged
<1>3. ASSUME NEW b \in Appliers PROVE CallInv(b)'
  BY <1>3 DEF CandidatePCs, Disabled
<1>4. ASSUME NEW b \in Appliers PROVE BuiltInv(b)'
  BY <1>4 DEF BuiltInv, SelectiveEnabled, ThreadSamplingEnabled, AllocationEnabled,
     AnyFeatureEnabled, ResourceInv
<1>5. ObservedInv'
  BY DEF BuiltInv, ObservedInv, ResourceInv, SelectiveEnabled, ThreadSamplingEnabled,
     AllocationEnabled, AnyFeatureEnabled, Intervals
<1>6. SessionInv'
  BY DEF BuiltInv, SessionInv, ResourceInv, SelectiveEnabled, ThreadSamplingEnabled,
     AllocationEnabled, AnyFeatureEnabled
<1>7. ResourceInv'
  BY DEF BuiltInv, ResourceInv, SelectiveEnabled, ThreadSamplingEnabled, AllocationEnabled,
     AnyFeatureEnabled
<1> QED BY <1>1, <1>2, <1>3, <1>4, <1>5, <1>6, <1>7

\* The same snapshot again changes at most the authority.
LEMMA SameConfigurationKeeps ==
    ASSUME ServiceInv, NEW a \in Appliers, SameConfiguration(a)
    PROVE  ServiceInv'
<1> USE AppliersAssumption DEF ServiceInv, Terminal, ctrlVars, resVars, allocVars, callVars
<1>1. TypeOK'
  <2>1. call' \in [Appliers -> CallRecord]
    BY ReturnsTyped DEF TypeOK, PCs, Results, SameConfiguration, Healthy, SeedIsLate, WorkerIsDead,
        Unlocks
  <2>2. call[a] \in CallRecord
    BY DEF TypeOK
  <2> QED BY <2>1, <2>2 DEF TypeOK, SamplerStates, Intervals, ConfigRecord, CallRecord,
        SameConfiguration, Healthy, SeedIsLate, WorkerIsDead, Unlocks
<1> USE DEF TypeOK, CallRecord, HolderInv, HoldingPCs, CallInv, Goes, Returns, Call,
        SameConfiguration, Healthy, SeedIsLate, WorkerIsDead, Unlocks
<1>2. HolderInv' /\ DeadWorkerNotAcknowledged'
  BY DEF DeadWorkerNotAcknowledged
<1>3. ASSUME NEW b \in Appliers PROVE CallInv(b)'
  BY <1>3 DEF CandidatePCs, Disabled
<1>4. ASSUME NEW b \in Appliers PROVE BuiltInv(b)'
  BY <1>4 DEF BuiltInv, SelectiveEnabled, ThreadSamplingEnabled, AllocationEnabled,
     AnyFeatureEnabled, ResourceInv
<1>5. ObservedInv'
  BY DEF BuiltInv, ObservedInv, ResourceInv, SelectiveEnabled, ThreadSamplingEnabled,
     AllocationEnabled, AnyFeatureEnabled, Intervals
<1>6. SessionInv'
  BY DEF BuiltInv, SessionInv, ResourceInv, SelectiveEnabled, ThreadSamplingEnabled,
     AllocationEnabled, AnyFeatureEnabled
<1>7. ResourceInv'
  BY DEF BuiltInv, ResourceInv, SelectiveEnabled, ThreadSamplingEnabled, AllocationEnabled,
     AnyFeatureEnabled
<1> QED BY <1>1, <1>2, <1>3, <1>4, <1>5, <1>6, <1>7

\* The activation begins on a healthy service with an admissible candidate.
LEMMA BeginKeeps ==
    ASSUME ServiceInv, NEW a \in Appliers, Begin(a)
    PROVE  ServiceInv'
<1> USE AppliersAssumption DEF ServiceInv, Terminal, ctrlVars, resVars, allocVars, callVars
<1>1. TypeOK'
  <2>1. call' \in [Appliers -> CallRecord]
    BY GoesTyped DEF TypeOK, PCs, Results, Begin, Healthy, SeedIsLate, WorkerIsDead
  <2> QED BY <2>1 DEF TypeOK, SamplerStates, Intervals, ConfigRecord, Begin, Healthy, SeedIsLate,
        WorkerIsDead
<1> USE DEF TypeOK, CallRecord, HolderInv, HoldingPCs, CallInv, Goes, Returns, Call, Begin, Healthy,
        SeedIsLate, WorkerIsDead
<1>2. HolderInv' /\ DeadWorkerNotAcknowledged'
  BY DEF DeadWorkerNotAcknowledged
<1>3. ASSUME NEW b \in Appliers PROVE CallInv(b)'
  BY <1>3 DEF CandidatePCs, Disabled
<1>4. ASSUME NEW b \in Appliers PROVE BuiltInv(b)'
  BY <1>4 DEF BuiltInv, SelectiveEnabled, ThreadSamplingEnabled, AllocationEnabled,
     AnyFeatureEnabled, ResourceInv
<1>5. ObservedInv'
  BY DEF BuiltInv, ObservedInv, ResourceInv, SelectiveEnabled, ThreadSamplingEnabled,
     AllocationEnabled, AnyFeatureEnabled, Intervals
<1>6. SessionInv'
  BY DEF BuiltInv, SessionInv, ResourceInv, SelectiveEnabled, ThreadSamplingEnabled,
     AllocationEnabled, AnyFeatureEnabled
<1>7. ResourceInv'
  BY DEF BuiltInv, ResourceInv, SelectiveEnabled, ThreadSamplingEnabled, AllocationEnabled,
     AnyFeatureEnabled
<1> QED BY <1>1, <1>2, <1>3, <1>4, <1>5, <1>6, <1>7

\* The sampler is created, or the activation fails.
LEMMA EnsureSamplerCreatedKeeps ==
    ASSUME ServiceInv, NEW a \in Appliers, EnsureSamplerCreated(a)
    PROVE  ServiceInv'
<1> USE AppliersAssumption DEF ServiceInv, Terminal, ctrlVars, resVars, allocVars, callVars
<1>1. TypeOK'
  <2>1. call' \in [Appliers -> CallRecord]
    BY GoesTyped, FailTyped DEF TypeOK, PCs, Results, EnsureSamplerCreated, Proceed
  <2>2. activationFailed' \in BOOLEAN
    BY Zenon DEF TypeOK, EnsureSamplerCreated, Proceed, FailActivation, HasCommittedProducer
  <2> QED BY <2>1, <2>2 DEF TypeOK, SamplerStates, Intervals, ConfigRecord, EnsureSamplerCreated,
        Proceed, FailActivation, HasCommittedProducer
<1> USE DEF TypeOK, CallRecord, HolderInv, HoldingPCs, CallInv, Goes, Returns, Call,
        EnsureSamplerCreated, Proceed, FailActivation, HasCommittedProducer
<1>2. HolderInv' /\ DeadWorkerNotAcknowledged'
  BY DEF DeadWorkerNotAcknowledged
<1>3. ASSUME NEW b \in Appliers PROVE CallInv(b)'
  BY <1>3 DEF CandidatePCs, Disabled
<1>4. ASSUME NEW b \in Appliers PROVE BuiltInv(b)'
  BY <1>4 DEF BuiltInv, SelectiveEnabled, ThreadSamplingEnabled, AllocationEnabled,
     AnyFeatureEnabled, ResourceInv
<1>5. ObservedInv'
  BY DEF BuiltInv, ObservedInv, ResourceInv, SelectiveEnabled, ThreadSamplingEnabled,
     AllocationEnabled, AnyFeatureEnabled, Intervals
<1>6. SessionInv'
  BY DEF BuiltInv, SessionInv, ResourceInv, SelectiveEnabled, ThreadSamplingEnabled,
     AllocationEnabled, AnyFeatureEnabled
<1>7. ResourceInv'
  BY DEF BuiltInv, ResourceInv, SelectiveEnabled, ThreadSamplingEnabled, AllocationEnabled,
     AnyFeatureEnabled
<1> QED BY <1>1, <1>2, <1>3, <1>4, <1>5, <1>6, <1>7

\* The buffers are prepared before the worker that uses them, or the activation fails.
LEMMA EnsureSelectiveSamplingBuffersPreparedKeeps ==
    ASSUME ServiceInv, NEW a \in Appliers, EnsureSelectiveSamplingBuffersPrepared(a)
    PROVE  ServiceInv'
<1> USE AppliersAssumption DEF ServiceInv, Terminal, ctrlVars, resVars, allocVars, callVars
<1>1. TypeOK'
  <2>1. call' \in [Appliers -> CallRecord]
    BY GoesTyped, FailTyped DEF TypeOK, PCs, Results, EnsureSelectiveSamplingBuffersPrepared,
        Proceed
  <2>2. activationFailed' \in BOOLEAN /\ buffers' \in BOOLEAN
    BY Zenon DEF TypeOK, EnsureSelectiveSamplingBuffersPrepared, Proceed, FailActivation,
        HasCommittedProducer
  <2> QED BY <2>1, <2>2 DEF TypeOK, SamplerStates, Intervals, ConfigRecord,
        EnsureSelectiveSamplingBuffersPrepared, Proceed, FailActivation, HasCommittedProducer
<1> USE DEF TypeOK, CallRecord, HolderInv, HoldingPCs, CallInv, Goes, Returns, Call,
        EnsureSelectiveSamplingBuffersPrepared, Proceed, FailActivation, HasCommittedProducer
<1>2. HolderInv' /\ DeadWorkerNotAcknowledged'
  BY DEF DeadWorkerNotAcknowledged
<1>3. ASSUME NEW b \in Appliers PROVE CallInv(b)'
  BY <1>3 DEF CandidatePCs, Disabled
<1>4. ASSUME NEW b \in Appliers PROVE BuiltInv(b)'
  <2>1. CASE buffers' = (buffers \/ SelectiveEnabled(call[a].cfg)) /\ Proceed(a, "start")
    <3>1. (buffers => buffers') /\ (SelectiveEnabled(call[a].cfg) => buffers')
      BY <2>1, Zenon
    <3> QED BY <2>1, <3>1, <1>4 DEF BuiltInv, SelectiveEnabled, ThreadSamplingEnabled,
       AllocationEnabled, AnyFeatureEnabled, ResourceInv
  <2>2. CASE buffers' = buffers /\ FailActivation(a)
    BY <2>2, <1>4 DEF BuiltInv, SelectiveEnabled, ThreadSamplingEnabled, AllocationEnabled,
       AnyFeatureEnabled, ResourceInv
  <2> QED BY <2>1, <2>2
<1>5. ObservedInv'
  BY DEF BuiltInv, ObservedInv, ResourceInv, SelectiveEnabled, ThreadSamplingEnabled,
     AllocationEnabled, AnyFeatureEnabled, Intervals
<1>6. SessionInv'
  BY DEF BuiltInv, SessionInv, ResourceInv, SelectiveEnabled, ThreadSamplingEnabled,
     AllocationEnabled, AnyFeatureEnabled
<1>7. ResourceInv'
  BY DEF BuiltInv, ResourceInv, SelectiveEnabled, ThreadSamplingEnabled, AllocationEnabled,
     AnyFeatureEnabled
<1> QED BY <1>1, <1>2, <1>3, <1>4, <1>5, <1>6, <1>7

\* The worker is started, or the activation fails.
LEMMA StartThreadSamplingKeeps ==
    ASSUME ServiceInv, NEW a \in Appliers, StartThreadSampling(a)
    PROVE  ServiceInv'
<1> USE AppliersAssumption DEF ServiceInv, Terminal, ctrlVars, resVars, allocVars, callVars
<1>1. TypeOK'
  <2>1. call' \in [Appliers -> CallRecord]
    BY GoesTyped, FailTyped DEF TypeOK, PCs, Results, StartThreadSampling, Proceed
  <2>2. activationFailed' \in BOOLEAN
    BY Zenon DEF TypeOK, StartThreadSampling, Proceed, FailActivation, HasCommittedProducer
  <2> QED BY <2>1, <2>2 DEF TypeOK, SamplerStates, Intervals, ConfigRecord, StartThreadSampling,
        Proceed, FailActivation, HasCommittedProducer
<1> USE DEF TypeOK, CallRecord, HolderInv, HoldingPCs, CallInv, Goes, Returns, Call,
        StartThreadSampling, Proceed, FailActivation, HasCommittedProducer
<1>2. HolderInv' /\ DeadWorkerNotAcknowledged'
  BY DEF DeadWorkerNotAcknowledged
<1>3. ASSUME NEW b \in Appliers PROVE CallInv(b)'
  BY <1>3 DEF CandidatePCs, Disabled
<1>4. ASSUME NEW b \in Appliers PROVE BuiltInv(b)'
  BY <1>4 DEF BuiltInv, SelectiveEnabled, ThreadSamplingEnabled, AllocationEnabled,
     AnyFeatureEnabled, ResourceInv
<1>5. ObservedInv'
  BY DEF BuiltInv, ObservedInv, ResourceInv, SelectiveEnabled, ThreadSamplingEnabled,
     AllocationEnabled, AnyFeatureEnabled, Intervals
<1>6. SessionInv'
  BY DEF BuiltInv, SessionInv, ResourceInv, SelectiveEnabled, ThreadSamplingEnabled,
     AllocationEnabled, AnyFeatureEnabled
<1>7. ResourceInv'
  BY DEF BuiltInv, ResourceInv, SelectiveEnabled, ThreadSamplingEnabled, AllocationEnabled,
     AnyFeatureEnabled
<1> QED BY <1>1, <1>2, <1>3, <1>4, <1>5, <1>6, <1>7

\* The CLR events are enabled, or the activation fails.
LEMMA EnsureRequiredClrEventsEnabledKeeps ==
    ASSUME ServiceInv, NEW a \in Appliers, EnsureRequiredClrEventsEnabled(a)
    PROVE  ServiceInv'
<1> USE AppliersAssumption DEF ServiceInv, Terminal, ctrlVars, resVars, allocVars, callVars
<1>1. TypeOK'
  <2>1. call' \in [Appliers -> CallRecord]
    BY GoesTyped, FailTyped DEF TypeOK, PCs, Results, EnsureRequiredClrEventsEnabled, Proceed
  <2>2. activationFailed' \in BOOLEAN /\ events' \in BOOLEAN
    BY Zenon DEF TypeOK, EnsureRequiredClrEventsEnabled, Proceed, FailActivation,
        HasCommittedProducer
  <2> QED BY <2>1, <2>2 DEF TypeOK, SamplerStates, Intervals, ConfigRecord,
        EnsureRequiredClrEventsEnabled, Proceed, FailActivation, HasCommittedProducer
<1> USE DEF TypeOK, CallRecord, HolderInv, HoldingPCs, CallInv, Goes, Returns, Call,
        EnsureRequiredClrEventsEnabled, Proceed, FailActivation, HasCommittedProducer
<1>2. HolderInv' /\ DeadWorkerNotAcknowledged'
  BY DEF DeadWorkerNotAcknowledged
<1>3. ASSUME NEW b \in Appliers PROVE CallInv(b)'
  BY <1>3 DEF CandidatePCs, Disabled
<1>4. ASSUME NEW b \in Appliers PROVE BuiltInv(b)'
  BY <1>4 DEF BuiltInv, SelectiveEnabled, ThreadSamplingEnabled, AllocationEnabled,
     AnyFeatureEnabled, ResourceInv
<1>5. ObservedInv'
  BY DEF BuiltInv, ObservedInv, ResourceInv, SelectiveEnabled, ThreadSamplingEnabled,
     AllocationEnabled, AnyFeatureEnabled, Intervals
<1>6. SessionInv'
  BY DEF BuiltInv, SessionInv, ResourceInv, SelectiveEnabled, ThreadSamplingEnabled,
     AllocationEnabled, AnyFeatureEnabled
<1>7. ResourceInv'
  BY DEF BuiltInv, ResourceInv, SelectiveEnabled, ThreadSamplingEnabled, AllocationEnabled,
     AnyFeatureEnabled
<1> QED BY <1>1, <1>2, <1>3, <1>4, <1>5, <1>6, <1>7

\* Without a change of the allocation part the session stays.
LEMMA SessionNotNeededKeeps ==
    ASSUME ServiceInv, NEW a \in Appliers, SessionNotNeeded(a)
    PROVE  ServiceInv'
<1> USE AppliersAssumption DEF ServiceInv, Terminal, ctrlVars, resVars, allocVars, callVars
<1>1. TypeOK'
  <2>1. call' \in [Appliers -> CallRecord]
    BY GoesTyped DEF TypeOK, PCs, Results, SessionNotNeeded, SessionNeeded, Proceed
  <2> QED BY <2>1 DEF TypeOK, SamplerStates, Intervals, ConfigRecord, SessionNotNeeded,
        SessionNeeded, Proceed
<1> USE DEF TypeOK, CallRecord, HolderInv, HoldingPCs, CallInv, Goes, Returns, Call,
        SessionNotNeeded, SessionNeeded, Proceed
<1>2. HolderInv' /\ DeadWorkerNotAcknowledged'
  BY DEF DeadWorkerNotAcknowledged
<1>3. ASSUME NEW b \in Appliers PROVE CallInv(b)'
  BY <1>3 DEF CandidatePCs, Disabled
<1>4. ASSUME NEW b \in Appliers PROVE BuiltInv(b)'
  BY <1>4 DEF BuiltInv, SelectiveEnabled, ThreadSamplingEnabled, AllocationEnabled,
     AnyFeatureEnabled, ResourceInv
<1>5. ObservedInv'
  BY DEF BuiltInv, ObservedInv, ResourceInv, SelectiveEnabled, ThreadSamplingEnabled,
     AllocationEnabled, AnyFeatureEnabled, Intervals
<1>6. SessionInv'
  BY DEF BuiltInv, SessionInv, ResourceInv, SelectiveEnabled, ThreadSamplingEnabled,
     AllocationEnabled, AnyFeatureEnabled
<1>7. ResourceInv'
  BY DEF BuiltInv, ResourceInv, SelectiveEnabled, ThreadSamplingEnabled, AllocationEnabled,
     AnyFeatureEnabled
<1> QED BY <1>1, <1>2, <1>3, <1>4, <1>5, <1>6, <1>7

\* The session runs ahead of the commit, with the target still closed.
LEMMA SessionStartsKeeps ==
    ASSUME ServiceInv, NEW a \in Appliers, SessionStarts(a)
    PROVE  ServiceInv'
<1> USE AppliersAssumption DEF ServiceInv, Terminal, ctrlVars, resVars, allocVars, callVars
<1>1. TypeOK'
  <2>1. call' \in [Appliers -> CallRecord]
    BY GoesTyped DEF TypeOK, PCs, Results, SessionStarts, SessionNeeded, Proceed
  <2>2. delivering' \in BOOLEAN /\ subSampler' \in BOOLEAN
    BY Zenon DEF TypeOK, SessionStarts, SessionNeeded, Proceed
  <2> QED BY <2>1, <2>2 DEF TypeOK, SamplerStates, Intervals, ConfigRecord, SessionStarts,
        SessionNeeded, Proceed
<1> USE DEF TypeOK, CallRecord, HolderInv, HoldingPCs, CallInv, Goes, Returns, Call, SessionStarts,
        SessionNeeded, Proceed
<1>2. HolderInv' /\ DeadWorkerNotAcknowledged'
  BY DEF DeadWorkerNotAcknowledged
<1>3. ASSUME NEW b \in Appliers PROVE CallInv(b)'
  BY <1>3 DEF CandidatePCs, Disabled
<1>4. ASSUME NEW b \in Appliers PROVE BuiltInv(b)'
  BY <1>4 DEF BuiltInv, SelectiveEnabled, ThreadSamplingEnabled, AllocationEnabled,
     AnyFeatureEnabled, ResourceInv
<1>5. ObservedInv'
  BY DEF BuiltInv, ObservedInv, ResourceInv, SelectiveEnabled, ThreadSamplingEnabled,
     AllocationEnabled, AnyFeatureEnabled, Intervals
<1>6. SessionInv'
  BY DEF BuiltInv, SessionInv, ResourceInv, SelectiveEnabled, ThreadSamplingEnabled,
     AllocationEnabled, AnyFeatureEnabled
<1>7. ResourceInv'
  BY DEF BuiltInv, ResourceInv, SelectiveEnabled, ThreadSamplingEnabled, AllocationEnabled,
     AnyFeatureEnabled
<1> QED BY <1>1, <1>2, <1>3, <1>4, <1>5, <1>6, <1>7

\* A refused session rejects the snapshot and closes allocation sampling for good.
LEMMA SessionRefusedKeeps ==
    ASSUME ServiceInv, NEW a \in Appliers, SessionRefused(a)
    PROVE  ServiceInv'
<1> USE AppliersAssumption DEF ServiceInv, Terminal, ctrlVars, resVars, allocVars, callVars
<1>1. TypeOK'
  <2>1. call' \in [Appliers -> CallRecord]
    BY ReturnsTyped DEF TypeOK, PCs, Results, SessionRefused, SessionNeeded, Unlocks
  <2>2. delivering' \in BOOLEAN /\ subSampler' \in BOOLEAN
    BY Zenon DEF TypeOK, SessionRefused, SessionNeeded, Unlocks
  <2> QED BY <2>1, <2>2 DEF TypeOK, SamplerStates, Intervals, ConfigRecord, SessionRefused,
        SessionNeeded, Unlocks
<1> USE DEF TypeOK, CallRecord, HolderInv, HoldingPCs, CallInv, Goes, Returns, Call, SessionRefused,
        SessionNeeded, Unlocks
<1>2. HolderInv' /\ DeadWorkerNotAcknowledged'
  BY DEF DeadWorkerNotAcknowledged
<1>3. ASSUME NEW b \in Appliers PROVE CallInv(b)'
  BY <1>3 DEF CandidatePCs, Disabled
<1>4. ASSUME NEW b \in Appliers PROVE BuiltInv(b)'
  BY <1>4 DEF BuiltInv, SelectiveEnabled, ThreadSamplingEnabled, AllocationEnabled,
     AnyFeatureEnabled, ResourceInv
<1>5. ObservedInv'
  BY DEF BuiltInv, ObservedInv, ResourceInv, SelectiveEnabled, ThreadSamplingEnabled,
     AllocationEnabled, AnyFeatureEnabled, Intervals
<1>6. SessionInv'
  BY DEF BuiltInv, SessionInv, ResourceInv, SelectiveEnabled, ThreadSamplingEnabled,
     AllocationEnabled, AnyFeatureEnabled
<1>7. ResourceInv'
  BY DEF BuiltInv, ResourceInv, SelectiveEnabled, ThreadSamplingEnabled, AllocationEnabled,
     AnyFeatureEnabled
<1> QED BY <1>1, <1>2, <1>3, <1>4, <1>5, <1>6, <1>7

\* A failed sub-sampler fails the activation before there is a session.
LEMMA SubSamplerFailsKeeps ==
    ASSUME ServiceInv, NEW a \in Appliers, SubSamplerFails(a)
    PROVE  ServiceInv'
<1> USE AppliersAssumption DEF ServiceInv, Terminal, ctrlVars, resVars, allocVars, callVars
<1>1. TypeOK'
  <2>1. call' \in [Appliers -> CallRecord]
    BY FailTyped DEF TypeOK, PCs, Results, SubSamplerFails, SessionNeeded
  <2>2. activationFailed' \in BOOLEAN
    BY Zenon DEF TypeOK, SubSamplerFails, SessionNeeded, FailActivation, HasCommittedProducer
  <2> QED BY <2>1, <2>2 DEF TypeOK, SamplerStates, Intervals, ConfigRecord, SubSamplerFails,
        SessionNeeded, FailActivation, HasCommittedProducer
<1> USE DEF TypeOK, CallRecord, HolderInv, HoldingPCs, CallInv, Goes, Returns, Call,
        SubSamplerFails, SessionNeeded, FailActivation, HasCommittedProducer
<1>2. HolderInv' /\ DeadWorkerNotAcknowledged'
  BY DEF DeadWorkerNotAcknowledged
<1>3. ASSUME NEW b \in Appliers PROVE CallInv(b)'
  BY <1>3 DEF CandidatePCs, Disabled
<1>4. ASSUME NEW b \in Appliers PROVE BuiltInv(b)'
  BY <1>4 DEF BuiltInv, SelectiveEnabled, ThreadSamplingEnabled, AllocationEnabled,
     AnyFeatureEnabled, ResourceInv
<1>5. ObservedInv'
  BY DEF BuiltInv, ObservedInv, ResourceInv, SelectiveEnabled, ThreadSamplingEnabled,
     AllocationEnabled, AnyFeatureEnabled, Intervals
<1>6. SessionInv'
  BY DEF BuiltInv, SessionInv, ResourceInv, SelectiveEnabled, ThreadSamplingEnabled,
     AllocationEnabled, AnyFeatureEnabled
<1>7. ResourceInv'
  BY DEF BuiltInv, ResourceInv, SelectiveEnabled, ThreadSamplingEnabled, AllocationEnabled,
     AnyFeatureEnabled
<1> QED BY <1>1, <1>2, <1>3, <1>4, <1>5, <1>6, <1>7

\* A disabling snapshot closes allocation admission before it is committed.
LEMMA CloseTargetKeeps ==
    ASSUME ServiceInv, NEW a \in Appliers, CloseTarget(a)
    PROVE  ServiceInv'
<1> USE AppliersAssumption DEF ServiceInv, Terminal, ctrlVars, resVars, allocVars, callVars
<1>1. TypeOK'
  <2>1. call' \in [Appliers -> CallRecord]
    BY GoesTyped DEF TypeOK, PCs, Results, CloseTarget, Proceed
  <2> QED BY <2>1 DEF TypeOK, SamplerStates, Intervals, ConfigRecord, CloseTarget, Proceed
<1> USE DEF TypeOK, CallRecord, HolderInv, HoldingPCs, CallInv, Goes, Returns, Call, CloseTarget,
        Proceed
<1>2. HolderInv' /\ DeadWorkerNotAcknowledged'
  BY DEF DeadWorkerNotAcknowledged
<1>3. ASSUME NEW b \in Appliers PROVE CallInv(b)'
  BY <1>3 DEF CandidatePCs, Disabled
<1>4. ASSUME NEW b \in Appliers PROVE BuiltInv(b)'
  BY <1>4 DEF BuiltInv, SelectiveEnabled, ThreadSamplingEnabled, AllocationEnabled,
     AnyFeatureEnabled, ResourceInv
<1>5. ObservedInv'
  BY DEF BuiltInv, ObservedInv, ResourceInv, SelectiveEnabled, ThreadSamplingEnabled,
     AllocationEnabled, AnyFeatureEnabled, Intervals
<1>6. SessionInv'
  BY DEF BuiltInv, SessionInv, ResourceInv, SelectiveEnabled, ThreadSamplingEnabled,
     AllocationEnabled, AnyFeatureEnabled
<1>7. ResourceInv'
  BY DEF BuiltInv, ResourceInv, SelectiveEnabled, ThreadSamplingEnabled, AllocationEnabled,
     AnyFeatureEnabled
<1> QED BY <1>1, <1>2, <1>3, <1>4, <1>5, <1>6, <1>7

\* The commit replaces the snapshot with the producers still on the one before.
LEMMA CommitKeeps ==
    ASSUME ServiceInv, NEW a \in Appliers, Commit(a)
    PROVE  ServiceInv'
<1> USE AppliersAssumption DEF ServiceInv, Terminal, ctrlVars, resVars, allocVars, callVars
<1>1. TypeOK'
  <2>1. call' \in [Appliers -> CallRecord]
    <3>1. [call[a] EXCEPT !.pc = "publish", !.prev = committed] \in CallRecord
      BY DEF TypeOK, CallRecord, PCs
    <3> QED BY <3>1, ReturnsTyped DEF TypeOK, Results, Commit, Unlocks
  <2>2. call[a] \in CallRecord
    BY DEF TypeOK
  <2> QED BY <2>1, <2>2 DEF TypeOK, SamplerStates, Intervals, ConfigRecord, CallRecord, Commit,
        Unlocks
<1> USE DEF TypeOK, CallRecord, HolderInv, HoldingPCs, CallInv, Goes, Returns, Call, Commit, Unlocks
<1>2. HolderInv' /\ DeadWorkerNotAcknowledged'
  BY DEF DeadWorkerNotAcknowledged
<1>3. ASSUME NEW b \in Appliers PROVE CallInv(b)'
  BY <1>3 DEF CandidatePCs, Disabled
<1>4. ASSUME NEW b \in Appliers PROVE BuiltInv(b)'
  <2>1. sampler # "none" => sampler = "created"
    BY DEF SamplerStates, ResourceInv
  <2> QED BY <2>1, <1>4 DEF BuiltInv, SelectiveEnabled, ThreadSamplingEnabled, AllocationEnabled,
     AnyFeatureEnabled
<1>5. ObservedInv'
  BY DEF BuiltInv, ObservedInv, ResourceInv, SelectiveEnabled, ThreadSamplingEnabled,
     AllocationEnabled, AnyFeatureEnabled, Intervals
<1>6. SessionInv'
  BY DEF BuiltInv, SessionInv, ResourceInv, SelectiveEnabled, ThreadSamplingEnabled,
     AllocationEnabled, AnyFeatureEnabled
<1>7. ResourceInv'
  BY DEF BuiltInv, ResourceInv, SelectiveEnabled, ThreadSamplingEnabled, AllocationEnabled,
     AnyFeatureEnabled
<1> QED BY <1>1, <1>2, <1>3, <1>4, <1>5, <1>6, <1>7

\* The publication brings the mailbox to the committed snapshot,
LEMMA StageThreadSamplingConfigurationKeeps ==
    ASSUME ServiceInv, NEW a \in Appliers, StageThreadSamplingConfiguration(a)
    PROVE  ServiceInv'
<1> USE AppliersAssumption DEF ServiceInv, Terminal, ctrlVars, resVars, allocVars, callVars
<1>1. TypeOK'
  <2>1. call' \in [Appliers -> CallRecord]
    BY GoesTyped DEF TypeOK, PCs, Results, StageThreadSamplingConfiguration, ThreadConfigurationChanged
  <2>2. call[a] \in CallRecord
    BY DEF TypeOK
  <2> QED BY <2>1, <2>2 DEF TypeOK, SamplerStates, Intervals, ConfigRecord, CallRecord,
        StageThreadSamplingConfiguration, ThreadConfigurationChanged
<1> USE DEF TypeOK, CallRecord, HolderInv, HoldingPCs, CallInv, Goes, Returns, Call,
        StageThreadSamplingConfiguration, ThreadConfigurationChanged
<1>2. HolderInv' /\ DeadWorkerNotAcknowledged'
  <2>1. HolderInv'
    OBVIOUS
  <2>2. DeadWorkerNotAcknowledged'
    BY DEF DeadWorkerNotAcknowledged
  <2> QED BY <2>1, <2>2
<1>3. ASSUME NEW b \in Appliers PROVE CallInv(b)'
  BY <1>3 DEF CandidatePCs, Disabled
<1>4. ASSUME NEW b \in Appliers PROVE BuiltInv(b)'
  BY <1>4 DEF BuiltInv, SelectiveEnabled, ThreadSamplingEnabled, AllocationEnabled,
     AnyFeatureEnabled, ResourceInv
<1>5. ObservedInv'
  BY DEF BuiltInv, ObservedInv, ResourceInv, SelectiveEnabled, ThreadSamplingEnabled,
     AllocationEnabled, AnyFeatureEnabled, Intervals
<1>6. SessionInv'
  BY DEF BuiltInv, SessionInv, ResourceInv, SelectiveEnabled, ThreadSamplingEnabled,
     AllocationEnabled, AnyFeatureEnabled
<1>7. ResourceInv'
  BY DEF BuiltInv, ResourceInv, SelectiveEnabled, ThreadSamplingEnabled, AllocationEnabled,
     AnyFeatureEnabled
<1> QED BY <1>1, <1>2, <1>3, <1>4, <1>5, <1>6, <1>7

\* and then the target.
LEMMA UpdateAllocationSamplingTargetKeeps ==
    ASSUME ServiceInv, NEW a \in Appliers, UpdateAllocationSamplingTarget(a)
    PROVE  ServiceInv'
<1> USE AppliersAssumption DEF ServiceInv, Terminal, ctrlVars, resVars, allocVars, callVars
<1>1. TypeOK'
  <2>1. call' \in [Appliers -> CallRecord]
    BY GoesTyped, ReturnsTyped DEF TypeOK, PCs, Results, UpdateAllocationSamplingTarget, Unlocks
  <2>2. call[a] \in CallRecord
    BY DEF TypeOK
  <2> QED BY <2>1, <2>2 DEF TypeOK, SamplerStates, Intervals, ConfigRecord, CallRecord,
        UpdateAllocationSamplingTarget, Unlocks
<1> USE DEF TypeOK, CallRecord, HolderInv, HoldingPCs, CallInv, Goes, Returns, Call,
        UpdateAllocationSamplingTarget, Unlocks
<1>2. HolderInv' /\ DeadWorkerNotAcknowledged'
  <2>1. HolderInv'
    OBVIOUS
  <2>2. DeadWorkerNotAcknowledged'
    BY DEF DeadWorkerNotAcknowledged
  <2> QED BY <2>1, <2>2
<1>3. ASSUME NEW b \in Appliers PROVE CallInv(b)'
  BY <1>3 DEF CandidatePCs, Disabled
<1>4. ASSUME NEW b \in Appliers PROVE BuiltInv(b)'
  BY <1>4 DEF BuiltInv, SelectiveEnabled, ThreadSamplingEnabled, AllocationEnabled,
     AnyFeatureEnabled, ResourceInv
<1>5. ObservedInv'
  BY DEF BuiltInv, ObservedInv, ResourceInv, SelectiveEnabled, ThreadSamplingEnabled,
     AllocationEnabled, AnyFeatureEnabled, Intervals
<1>6. SessionInv'
  BY DEF BuiltInv, SessionInv, ResourceInv, SelectiveEnabled, ThreadSamplingEnabled,
     AllocationEnabled, AnyFeatureEnabled
<1>7. ResourceInv'
  BY DEF BuiltInv, ResourceInv, SelectiveEnabled, ThreadSamplingEnabled, AllocationEnabled,
     AnyFeatureEnabled
<1> QED BY <1>1, <1>2, <1>3, <1>4, <1>5, <1>6, <1>7

\* With nothing to stop, or after a failed stop, the call ends with the target closed.
LEMMA StopEndsKeeps ==
    ASSUME ServiceInv, NEW a \in Appliers, StopEnds(a)
    PROVE  ServiceInv'
<1> USE AppliersAssumption DEF ServiceInv, Terminal, ctrlVars, resVars, allocVars, callVars
<1>1. TypeOK'
  <2>1. call' \in [Appliers -> CallRecord]
    BY ReturnsTyped DEF TypeOK, PCs, Results, StopEnds, Unlocks
  <2>2. delivering' \in BOOLEAN
    BY Zenon DEF TypeOK, StopEnds, Unlocks
  <2> QED BY <2>1, <2>2 DEF TypeOK, SamplerStates, Intervals, ConfigRecord, StopEnds, Unlocks
<1> USE DEF TypeOK, CallRecord, HolderInv, HoldingPCs, CallInv, Goes, Returns, Call, StopEnds,
        Unlocks
<1>2. HolderInv' /\ DeadWorkerNotAcknowledged'
  BY DEF DeadWorkerNotAcknowledged
<1>3. ASSUME NEW b \in Appliers PROVE CallInv(b)'
  BY <1>3 DEF CandidatePCs, Disabled
<1>4. ASSUME NEW b \in Appliers PROVE BuiltInv(b)'
  BY <1>4 DEF BuiltInv, SelectiveEnabled, ThreadSamplingEnabled, AllocationEnabled,
     AnyFeatureEnabled, ResourceInv
<1>5. ObservedInv'
  BY DEF BuiltInv, ObservedInv, ResourceInv, SelectiveEnabled, ThreadSamplingEnabled,
     AllocationEnabled, AnyFeatureEnabled, Intervals
<1>6. SessionInv'
  BY DEF BuiltInv, SessionInv, ResourceInv, SelectiveEnabled, ThreadSamplingEnabled,
     AllocationEnabled, AnyFeatureEnabled
<1>7. ResourceInv'
  BY DEF BuiltInv, ResourceInv, SelectiveEnabled, ThreadSamplingEnabled, AllocationEnabled,
     AnyFeatureEnabled
<1> QED BY <1>1, <1>2, <1>3, <1>4, <1>5, <1>6, <1>7

\* A successful stop ends the delivery before it waits for the callback in flight.
LEMMA StopDeliveryKeeps ==
    ASSUME ServiceInv, NEW a \in Appliers, StopDelivery(a)
    PROVE  ServiceInv'
<1> USE AppliersAssumption DEF ServiceInv, Terminal, ctrlVars, resVars, allocVars, callVars
<1>1. TypeOK'
  <2>1. call' \in [Appliers -> CallRecord]
    BY GoesTyped DEF TypeOK, PCs, Results, StopDelivery, Proceed
  <2>2. delivering' \in BOOLEAN
    BY Zenon DEF TypeOK, StopDelivery, Proceed
  <2> QED BY <2>1, <2>2 DEF TypeOK, SamplerStates, Intervals, ConfigRecord, StopDelivery, Proceed
<1> USE DEF TypeOK, CallRecord, HolderInv, HoldingPCs, CallInv, Goes, Returns, Call, StopDelivery,
        Proceed
<1>2. HolderInv' /\ DeadWorkerNotAcknowledged'
  BY DEF DeadWorkerNotAcknowledged
<1>3. ASSUME NEW b \in Appliers PROVE CallInv(b)'
  BY <1>3 DEF CandidatePCs, Disabled
<1>4. ASSUME NEW b \in Appliers PROVE BuiltInv(b)'
  BY <1>4 DEF BuiltInv, SelectiveEnabled, ThreadSamplingEnabled, AllocationEnabled,
     AnyFeatureEnabled, ResourceInv
<1>5. ObservedInv'
  BY DEF BuiltInv, ObservedInv, ResourceInv, SelectiveEnabled, ThreadSamplingEnabled,
     AllocationEnabled, AnyFeatureEnabled, Intervals
<1>6. SessionInv'
  BY DEF BuiltInv, SessionInv, ResourceInv, SelectiveEnabled, ThreadSamplingEnabled,
     AllocationEnabled, AnyFeatureEnabled
<1>7. ResourceInv'
  BY DEF BuiltInv, ResourceInv, SelectiveEnabled, ThreadSamplingEnabled, AllocationEnabled,
     AnyFeatureEnabled
<1> QED BY <1>1, <1>2, <1>3, <1>4, <1>5, <1>6, <1>7

\* The drain ends with the last callback.
LEMMA StopDrainedKeeps ==
    ASSUME ServiceInv, NEW a \in Appliers, StopDrained(a)
    PROVE  ServiceInv'
<1> USE AppliersAssumption DEF ServiceInv, Terminal, ctrlVars, resVars, allocVars, callVars
<1>1. TypeOK'
  <2>1. call' \in [Appliers -> CallRecord]
    BY ReturnsTyped DEF TypeOK, PCs, Results, StopDrained, Unlocks
  <2> QED BY <2>1 DEF TypeOK, SamplerStates, Intervals, ConfigRecord, StopDrained, Unlocks
<1> USE DEF TypeOK, CallRecord, HolderInv, HoldingPCs, CallInv, Goes, Returns, Call, StopDrained,
        Unlocks
<1>2. HolderInv' /\ DeadWorkerNotAcknowledged'
  BY DEF DeadWorkerNotAcknowledged
<1>3. ASSUME NEW b \in Appliers PROVE CallInv(b)'
  BY <1>3 DEF CandidatePCs, Disabled
<1>4. ASSUME NEW b \in Appliers PROVE BuiltInv(b)'
  BY <1>4 DEF BuiltInv, SelectiveEnabled, ThreadSamplingEnabled, AllocationEnabled,
     AnyFeatureEnabled, ResourceInv
<1>5. ObservedInv'
  BY DEF BuiltInv, ObservedInv, ResourceInv, SelectiveEnabled, ThreadSamplingEnabled,
     AllocationEnabled, AnyFeatureEnabled, Intervals
<1>6. SessionInv'
  BY DEF BuiltInv, SessionInv, ResourceInv, SelectiveEnabled, ThreadSamplingEnabled,
     AllocationEnabled, AnyFeatureEnabled
<1>7. ResourceInv'
  BY DEF BuiltInv, ResourceInv, SelectiveEnabled, ThreadSamplingEnabled, AllocationEnabled,
     AnyFeatureEnabled
<1> QED BY <1>1, <1>2, <1>3, <1>4, <1>5, <1>6, <1>7

\* A call whose failure tore the sampler down returns when it is down.
LEMMA ApplierTornDownKeeps ==
    ASSUME ServiceInv, NEW a \in Appliers, ApplierTornDown(a)
    PROVE  ServiceInv'
<1> USE AppliersAssumption DEF ServiceInv, Terminal, ctrlVars, resVars, allocVars, callVars
<1>1. TypeOK'
  <2>1. call' \in [Appliers -> CallRecord]
    BY ReturnsTyped DEF TypeOK, PCs, Results, ApplierTornDown
  <2> QED BY <2>1 DEF TypeOK, SamplerStates, Intervals, ConfigRecord, ApplierTornDown
<1> USE DEF TypeOK, CallRecord, HolderInv, HoldingPCs, CallInv, Goes, Returns, Call, ApplierTornDown
<1>2. HolderInv' /\ DeadWorkerNotAcknowledged'
  BY DEF DeadWorkerNotAcknowledged
<1>3. ASSUME NEW b \in Appliers PROVE CallInv(b)'
  BY <1>3 DEF CandidatePCs, Disabled
<1>4. ASSUME NEW b \in Appliers PROVE BuiltInv(b)'
  BY <1>4 DEF BuiltInv, SelectiveEnabled, ThreadSamplingEnabled, AllocationEnabled,
     AnyFeatureEnabled, ResourceInv
<1>5. ObservedInv'
  BY DEF BuiltInv, ObservedInv, ResourceInv, SelectiveEnabled, ThreadSamplingEnabled,
     AllocationEnabled, AnyFeatureEnabled, Intervals
<1>6. SessionInv'
  BY DEF BuiltInv, SessionInv, ResourceInv, SelectiveEnabled, ThreadSamplingEnabled,
     AllocationEnabled, AnyFeatureEnabled
<1>7. ResourceInv'
  BY DEF BuiltInv, ResourceInv, SelectiveEnabled, ThreadSamplingEnabled, AllocationEnabled,
     AnyFeatureEnabled
<1> QED BY <1>1, <1>2, <1>3, <1>4, <1>5, <1>6, <1>7

\* Every step of ApplyConfiguration preserves the invariant.
LEMMA ApplyStepKeeps ==
    ASSUME ServiceInv, NEW a \in Appliers, ApplyStep(a)
    PROVE  ServiceInv'
BY LockKeeps, RefuseTerminalKeeps, LatchDeadWorkerKeeps, IgnoreLateSeedKeeps, SameConfigurationKeeps,
   BeginKeeps, EnsureSamplerCreatedKeeps, EnsureSelectiveSamplingBuffersPreparedKeeps,
   StartThreadSamplingKeeps, EnsureRequiredClrEventsEnabledKeeps, SessionNotNeededKeeps,
   SessionStartsKeeps, SessionRefusedKeeps, SubSamplerFailsKeeps, CloseTargetKeeps, CommitKeeps,
   StageThreadSamplingConfigurationKeeps, UpdateAllocationSamplingTargetKeeps, StopEndsKeeps,
   StopDeliveryKeeps, StopDrainedKeeps,
   ApplierTornDownKeeps
   DEF ApplyStep, PublishCommittedConfiguration

\* The adapter hands on only valid snapshots, without an allocation part where the runtime has none.
LEMMA SubmitIsAdmissible ==
    ASSUME TypeOK, NEW a \in Appliers, NEW source \in {"Seed", "ControlPlane"}, NEW cfg \in Configs,
           Submit(a, source, cfg)
    PROVE  \E r \in CallRecord :
              /\ call' = [call EXCEPT ![a] = r] /\ ~r.sick
              /\ \/ r.pc = "idle"
                 \/ /\ r.pc = "submitted" /\ r.result = "none"
                    /\ IsValid(r.cfg) /\ r.cfg \in Snapshots /\ (~hasInfo12 => r.cfg.alloc = 0)
<1> DEFINE unsupported == Unsupported(source, cfg)
           used == IF unsupported THEN [cfg EXCEPT !.alloc = 0] ELSE cfg
           r == CASE ~IsValid(cfg) -> Call("idle", "Seed", Disabled, "RejectedInvalidConfiguration")
                  [] IsValid(cfg) /\ unsupported /\ source = "ControlPlane" ->
                         Call("idle", "Seed", Disabled, "RejectedUnsupportedRuntime")
                  [] OTHER -> Call("submitted", source, used, "none")
<1>1. call' = [call EXCEPT ![a] = r]
  BY DEF Submit
<1>2. cfg \in ConfigRecord /\ used \in ConfigRecord /\ used \in Snapshots
  BY ConfigsAssumption DEF ConfigRecord, Snapshots
<1>3. IsValid(cfg) => IsValid(used)
  BY <1>2 DEF IsValid, ConfigRecord
<1>4. ~hasInfo12 => used.alloc = 0
  BY <1>2 DEF Unsupported, AllocationEnabled, ConfigRecord
<1>5. CASE ~IsValid(cfg)
  <2>1. r = Call("idle", "Seed", Disabled, "RejectedInvalidConfiguration")
    BY <1>5
  <2>2. r \in CallRecord /\ r.pc = "idle" /\ ~r.sick
    BY <2>1 DEF Call, CallRecord, PCs, Results, ConfigRecord, Disabled
  <2> HIDE DEF r
  <2> QED BY <1>1, <2>2
<1>6. CASE IsValid(cfg) /\ unsupported /\ source = "ControlPlane"
  <2>1. r = Call("idle", "Seed", Disabled, "RejectedUnsupportedRuntime")
    BY <1>6
  <2>2. r \in CallRecord /\ r.pc = "idle" /\ ~r.sick
    BY <2>1 DEF Call, CallRecord, PCs, Results, ConfigRecord, Disabled
  <2> HIDE DEF r
  <2> QED BY <1>1, <2>2
<1>7. CASE IsValid(cfg) /\ ~(unsupported /\ source = "ControlPlane")
  <2>1. r = Call("submitted", source, used, "none")
    BY <1>7
  <2> HIDE DEF used, unsupported
  <2>2. r \in CallRecord
    BY <1>2, <2>1 DEF Call, CallRecord, PCs, Results, ConfigRecord, Disabled
  <2>3. r.pc = "submitted" /\ r.result = "none" /\ r.cfg = used /\ ~r.sick
    BY <2>1 DEF Call
  <2> HIDE DEF r
  <2> QED BY <1>1, <1>2, <1>3, <1>4, <1>7, <2>2, <2>3
<1> QED BY <1>5, <1>6, <1>7

\* A new call carries an admissible snapshot.
LEMMA SubmitKeeps ==
    ASSUME ServiceInv, NEW a \in Appliers, NEW source \in {"Seed", "ControlPlane"},
           NEW cfg \in Configs, Submit(a, source, cfg)
    PROVE  ServiceInv'
<1> USE AppliersAssumption DEF ServiceInv, Terminal, ctrlVars, resVars, allocVars, callVars
<1>0. PICK r \in CallRecord :
              /\ call' = [call EXCEPT ![a] = r] /\ ~r.sick
              /\ \/ r.pc = "idle"
                 \/ /\ r.pc = "submitted" /\ r.result = "none"
                    /\ IsValid(r.cfg) /\ r.cfg \in Snapshots /\ (~hasInfo12 => r.cfg.alloc = 0)
  BY SubmitIsAdmissible
<1>1. /\ call[a].pc = "idle" /\ calls < MaxCalls /\ calls' = calls + 1
      /\ UNCHANGED <<ctrlVars, resVars, mailbox, allocVars, closer, hasInfo12>>
  BY DEF Submit
<1>2. TypeOK'
  BY <1>0, <1>1, BoundAssumption DEF TypeOK
<1> USE DEF TypeOK, CallRecord, HolderInv, HoldingPCs, CallInv
<1>3. HolderInv' /\ DeadWorkerNotAcknowledged'
  BY <1>0, <1>1 DEF DeadWorkerNotAcknowledged
<1>4. ASSUME NEW b \in Appliers PROVE CallInv(b)'
  BY <1>0, <1>1, <1>4 DEF CandidatePCs
<1>5. ASSUME NEW b \in Appliers PROVE BuiltInv(b)'
  BY <1>0, <1>1, <1>5 DEF BuiltInv
<1>6. ObservedInv' /\ SessionInv' /\ ResourceInv'
  BY <1>0, <1>1 DEF ObservedInv, SessionInv, ResourceInv
<1> QED BY <1>2, <1>3, <1>4, <1>5, <1>6

\* Shutdown ends the service, waits for the teardown and returns.
LEMMA CloserKeeps ==
    ASSUME ServiceInv, NEW c \in Closers, CloserLocks(c) \/ CloserReturns(c)
    PROVE  ServiceInv'
<1> USE AppliersAssumption DEF ServiceInv, Terminal, ctrlVars, resVars, allocVars, callVars,
        CloserLocks, CloserReturns
<1>1. TypeOK'
  <2>1. shutdownStarted' \in BOOLEAN
    BY Zenon DEF TypeOK
  <2> QED BY <2>1 DEF TypeOK
<1> USE DEF TypeOK, CallRecord, HolderInv, HoldingPCs, CallInv
<1>2. HolderInv' /\ DeadWorkerNotAcknowledged'
  BY DEF DeadWorkerNotAcknowledged
<1>3. ASSUME NEW b \in Appliers PROVE CallInv(b)'
  BY <1>3 DEF CandidatePCs
<1>4. ASSUME NEW b \in Appliers PROVE BuiltInv(b)'
  BY <1>4 DEF BuiltInv
<1>5. ObservedInv' /\ SessionInv'
  BY DEF ObservedInv, SessionInv
<1>6. ResourceInv'
  BY DEF ResourceInv
<1> QED BY <1>1, <1>2, <1>3, <1>4, <1>5, <1>6

\* The teardown closes the target first and ends with worker, session and callbacks gone.
LEMMA TeardownKeeps ==
    ASSUME ServiceInv, TeardownBegins \/ TeardownEnds
    PROVE  ServiceInv'
<1> USE AppliersAssumption DEF ServiceInv, Terminal, ctrlVars, allocVars, callVars,
        TeardownBegins, TeardownEnds, CallsShutdown
<1>1. TypeOK'
  <2>1. delivering' \in BOOLEAN
    BY Zenon DEF TypeOK
  <2> QED BY <2>1 DEF TypeOK, SamplerStates
<1> USE DEF TypeOK, CallRecord, HolderInv, HoldingPCs, CallInv, ResourceInv
<1>2. shutdownStarted \/ activationFailed
  OBVIOUS
<1>3. HolderInv' /\ DeadWorkerNotAcknowledged'
  BY DEF DeadWorkerNotAcknowledged
<1>4. ASSUME NEW b \in Appliers PROVE CallInv(b)'
  BY <1>2, <1>4 DEF CandidatePCs
<1>5. ASSUME NEW b \in Appliers PROVE BuiltInv(b)'
  BY <1>2, <1>5 DEF BuiltInv
<1>6. ObservedInv'
  BY <1>2 DEF ObservedInv
<1>7. SessionInv'
  BY <1>2 DEF SessionInv
<1>8. ResourceInv'
  BY <1>2
<1> QED BY <1>1, <1>3, <1>4, <1>5, <1>6, <1>7, <1>8

\* The producers do not touch the configuration.
LEMMA ProducerKeeps ==
    ASSUME ServiceInv, WorkerDies \/ TickEnters \/ TickLeaves \/ UNCHANGED vars
    PROVE  ServiceInv'
<1> USE DEF ServiceInv, Terminal, ctrlVars, resVars, allocVars, callVars, vars,
        WorkerDies, TickEnters, TickLeaves
<1>1. TypeOK'
  <2>1. tick' \in BOOLEAN
    BY Zenon DEF TypeOK
  <2> QED BY <2>1 DEF TypeOK
<1> USE DEF TypeOK, CallRecord, HolderInv, HoldingPCs, CallInv
<1>2. HolderInv' /\ DeadWorkerNotAcknowledged'
  BY DEF DeadWorkerNotAcknowledged
<1>3. ASSUME NEW b \in Appliers PROVE CallInv(b)'
  BY <1>3 DEF CandidatePCs
<1>4. ASSUME NEW b \in Appliers PROVE BuiltInv(b)'
  BY <1>4 DEF BuiltInv
<1>5. ObservedInv' /\ SessionInv'
  BY DEF ObservedInv, SessionInv
<1>6. ResourceInv'
  BY DEF ResourceInv
<1> QED BY <1>1, <1>2, <1>3, <1>4, <1>5, <1>6

\* ServiceInv holds initially.
LEMMA ServiceInit == Init => ServiceInv
<1> SUFFICES ASSUME Init PROVE ServiceInv
  OBVIOUS
<1> USE AppliersAssumption, BoundAssumption DEF Init, Call, Disabled, Intervals, Terminal
<1>1. TypeOK
  <2>1. /\ shutdownStarted \in BOOLEAN /\ activationFailed \in BOOLEAN /\ buffers \in BOOLEAN
        /\ events \in BOOLEAN /\ delivering \in BOOLEAN /\ subSampler \in BOOLEAN
        /\ tick \in BOOLEAN /\ hasInfo12 \in BOOLEAN
    BY Zenon
  <2>2. call \in [Appliers -> CallRecord]
    BY DEF CallRecord, PCs, Results, ConfigRecord
  <2> QED BY <2>1, <2>2 DEF TypeOK, SamplerStates, ConfigRecord
<1>2. HolderInv /\ DeadWorkerNotAcknowledged
  BY DEF HolderInv, HoldingPCs, DeadWorkerNotAcknowledged
<1>3. ASSUME NEW a \in Appliers PROVE CallInv(a) /\ BuiltInv(a)
  BY DEF CallInv, BuiltInv, HoldingPCs, CandidatePCs
<1>4. ObservedInv /\ SessionInv /\ ResourceInv
  BY DEF ObservedInv, SessionInv, ResourceInv, AllocationEnabled, AnyFeatureEnabled,
         ThreadSamplingEnabled, SelectiveEnabled
<1> QED BY <1>1, <1>2, <1>3, <1>4 DEF ServiceInv

\* ServiceInv holds in every reachable state.
LEMMA ServiceInvariant == Spec => []ServiceInv
<1>1. ServiceInv /\ [Next]_vars => ServiceInv'
  BY ApplyStepKeeps, SubmitKeeps, CloserKeeps, TeardownKeeps, ProducerKeeps DEF Next
<1> QED BY <1>1, ServiceInit, PTL DEF Spec

\* Whenever configurationMutex_ is free and the service has not ended, the worker's mailbox, the
\* allocation target, the EventPipe session and the resources are those of the committed snapshot,
\* whatever activations failed before; and after a teardown nothing produces any more.
THEOREM ProducersMatch == Spec => []ProducersMatchCommitted
<1>1. ServiceInv => ProducersMatchCommitted
  <2> SUFFICES ASSUME ServiceInv PROVE ProducersMatchCommitted
    OBVIOUS
  <2> USE AppliersAssumption DEF ServiceInv, Terminal
  <2>1. ~hasInfo12 => ~AllocationEnabled(committed) /\ session = "None" /\ ~subSampler /\ target = 0
    BY DEF SessionInv
  <2>2. ASSUME lock = "free", ~Terminal
        PROVE  /\ mailbox = Intervals(committed)
               /\ target = committed.alloc
               /\ session = "Active" <=> AllocationEnabled(committed)
               /\ AnyFeatureEnabled(committed) => sampler = "created" /\ events
               /\ ThreadSamplingEnabled(committed) => worker \in {"running", "failed"}
               /\ SelectiveEnabled(committed) => buffers
    <3>1. \A a \in Appliers : call[a].pc \notin HoldingPCs
      BY <2>2 DEF HolderInv
    <3> QED BY <2>2, <3>1 DEF HoldingPCs, ObservedInv, SessionInv, ResourceInv
  <2>3. sampler \in {"stopping", "down"} =>
          /\ Terminal /\ target = 0
          /\ \A a \in Appliers : call[a].pc \in {"idle", "submitted", "locked", "teardown"}
    BY DEF ResourceInv, CallInv, HoldingPCs, TypeOK, CallRecord, PCs
  <2>4. sampler = "down" => worker \in {"none", "joined"} /\ session # "Active" /\ ~tick
    BY DEF ResourceInv
  <2> QED BY <2>1, <2>2, <2>3, <2>4 DEF ProducersMatchCommitted
<1> QED BY <1>1, ServiceInvariant, PTL

\* Producers see the committed snapshot or, between a commit and its publication, the one before:
\* a candidate that ApplyConfiguration may still abandon is never visible to them.
THEOREM CommittedObserved == Spec => []OnlyCommittedIsObserved
<1>1. ServiceInv => OnlyCommittedIsObserved
  <2> SUFFICES ASSUME ServiceInv PROVE OnlyCommittedIsObserved
    OBVIOUS
  <2>1. CASE \E a \in Appliers : call[a].pc \in {"publish", "retarget"}
    BY <2>1 DEF ServiceInv, OnlyCommittedIsObserved, ObservedInv, HolderInv, HoldingPCs
  <2>2. CASE ~\E a \in Appliers : call[a].pc \in {"publish", "retarget"}
    BY <2>2 DEF ServiceInv, OnlyCommittedIsObserved, ObservedInv
  <2> QED BY <2>1, <2>2
<1> QED BY <1>1, ServiceInvariant, PTL

\* A call of ApplyConfiguration admitted after the sampling worker had died is never told Applied,
\* NoChange or ignored, whatever the calls and teardowns it meets.
THEOREM DeadNotAcknowledged == Spec => []DeadWorkerNotAcknowledged
<1>1. ServiceInv => DeadWorkerNotAcknowledged
  BY DEF ServiceInv
<1> QED BY <1>1, ServiceInvariant, PTL

\* Only an activation without committed producers, or a dead worker, makes ApplyConfiguration give up
\* the service for good: a failed change never costs the producers that were running.
THEOREM FailureSpares == Spec => FailureSparesProducers
<1>1. [Next]_vars =>
        [activationFailed' # activationFailed => ~AnyFeatureEnabled(committed) \/ worker = "failed"]_vars
  <2> SUFFICES ASSUME Next, activationFailed' # activationFailed
               PROVE  ~AnyFeatureEnabled(committed) \/ worker = "failed"
    OBVIOUS
  <2> USE DEF ctrlVars, callVars
  <2>1. CASE \E a \in Appliers : ApplyStep(a)
    <3>1. PICK a \in Appliers : ApplyStep(a)
      BY <2>1
    <3>2. CASE LatchDeadWorker(a)
      BY <3>2 DEF LatchDeadWorker, WorkerIsDead
    <3>3. CASE FailActivation(a)
      BY <3>3 DEF FailActivation, HasCommittedProducer
    <3> QED
      BY <3>1, <3>2, <3>3
         DEF ApplyStep, Lock, RefuseTerminal, IgnoreLateSeed, SameConfiguration, Begin,
             EnsureSamplerCreated, EnsureSelectiveSamplingBuffersPrepared, StartThreadSampling,
             EnsureRequiredClrEventsEnabled, SessionNotNeeded, SessionStarts, SessionRefused,
             SubSamplerFails, CloseTarget, Commit, PublishCommittedConfiguration,
             StageThreadSamplingConfiguration, UpdateAllocationSamplingTarget, StopEnds,
             StopDelivery, StopDrained, ApplierTornDown, Proceed
  <2>2. CASE ~\E a \in Appliers : ApplyStep(a)
    BY <2>2 DEF Next, Submit, CloserLocks, CloserReturns, TeardownBegins, TeardownEnds, WorkerDies,
                TickEnters, TickLeaves
  <2> QED BY <2>1, <2>2
<1> QED BY <1>1, PTL DEF Spec, FailureSparesProducers

\* The initial state is one of SamplerController.
LEMMA InitImplements == Init => Controller!Init
BY DEF Init, Terminal, Disabled, Controller!Init, Controller!Disabled

\* Steps that neither commit nor terminate.
LEMMA QuietStep ==
    ASSUME UNCHANGED <<authority, committed, shutdownStarted, activationFailed>>
    PROVE  UNCHANGED Controller!ctrlVars
BY DEF Terminal, Controller!ctrlVars

\* A commit, and the same snapshot again under a new authority, are Commit.
LEMMA CommitImplements ==
    ASSUME ServiceInv, NEW a \in Appliers, Commit(a) \/ SameConfiguration(a)
    PROVE  Controller!Next
<1>1. ~Terminal /\ UNCHANGED Terminal
  BY DEF ServiceInv, CallInv, HoldingPCs, Commit, SameConfiguration, Healthy, Terminal
<1>2. /\ IsValid(call[a].cfg) /\ call[a].cfg \in Snapshots
      /\ call[a].source \in {"Seed", "ControlPlane"}
      /\ call[a].source = "Seed" => authority = "None"
  BY DEF ServiceInv, TypeOK, CallRecord, CallInv, CandidatePCs, Commit, SameConfiguration, Healthy,
         SeedIsLate
<1>3. authority' = call[a].source /\ committed' = call[a].cfg
  BY DEF Commit, SameConfiguration
<1>4. Controller!Commit(call[a].source, call[a].cfg)
  BY <1>1, <1>2, <1>3 DEF Controller!Commit
<1> QED BY <1>2, <1>4 DEF Controller!Next

\* A failure that ends the service is Terminate; one that does not is invisible.
LEMMA FailureImplements ==
    ASSUME NEW a \in Appliers, LatchDeadWorker(a) \/ FailActivation(a)
    PROVE  Controller!Next \/ UNCHANGED Controller!ctrlVars
<1>1. CASE activationFailed' = TRUE /\ UNCHANGED <<authority, committed>>
  <2>1. Terminal' = TRUE
    BY <1>1 DEF Terminal
  <2> QED BY <1>1, <2>1 DEF Controller!Next, Controller!Terminate
<1>2. CASE UNCHANGED <<authority, committed, shutdownStarted, activationFailed>>
  BY <1>2, QuietStep
<1> QED BY <1>1, <1>2 DEF LatchDeadWorker, FailActivation

\* Every step is a step of SamplerController or invisible to it.
LEMMA StepImplements ==
    ASSUME ServiceInv, [Next]_vars
    PROVE  Controller!Next \/ UNCHANGED Controller!ctrlVars
<1>1. ASSUME NEW a \in Appliers, ApplyStep(a)
      PROVE  Controller!Next \/ UNCHANGED Controller!ctrlVars
  <2>1. CASE Commit(a) \/ SameConfiguration(a)
    BY <2>1, CommitImplements
  <2>2. CASE LatchDeadWorker(a) \/ FailActivation(a)
    BY <2>2, FailureImplements
  <2>3. CASE ~(Commit(a) \/ SameConfiguration(a)) /\ ~(LatchDeadWorker(a) \/ FailActivation(a))
    <3>1. UNCHANGED <<authority, committed, shutdownStarted, activationFailed>>
      BY <1>1, <2>3
         DEF ApplyStep, Lock, RefuseTerminal, IgnoreLateSeed, Begin, ctrlVars,
             EnsureSamplerCreated, EnsureSelectiveSamplingBuffersPrepared, StartThreadSampling,
             EnsureRequiredClrEventsEnabled, SessionNotNeeded, SessionStarts, SessionRefused,
             SubSamplerFails, CloseTarget, PublishCommittedConfiguration,
             StageThreadSamplingConfiguration, UpdateAllocationSamplingTarget, StopEnds,
             StopDelivery, StopDrained, ApplierTornDown, Proceed
    <3> QED BY <3>1, QuietStep
  <2> QED BY <2>1, <2>2, <2>3
<1>2. ASSUME NEW c \in Closers, CloserLocks(c)
      PROVE  Controller!Next
  <2>1. Terminal' = TRUE /\ UNCHANGED <<authority, committed>>
    BY <1>2 DEF CloserLocks, Terminal
  <2> QED BY <2>1 DEF Controller!Next, Controller!Terminate
<1>3. CASE UNCHANGED vars
  BY <1>3, QuietStep DEF vars, ctrlVars
<1>4. CASE ~(\E a \in Appliers : ApplyStep(a)) /\ ~(\E c \in Closers : CloserLocks(c)) /\ Next
  <2>1. UNCHANGED <<authority, committed, shutdownStarted, activationFailed>>
    BY <1>4 DEF Next, Submit, CloserReturns, TeardownBegins, TeardownEnds, WorkerDies,
                TickEnters, TickLeaves, ctrlVars
  <2> QED BY <2>1, QuietStep
<1> QED BY <1>1, <1>2, <1>3, <1>4

\* ApplyConfiguration and Shutdown implement SamplerController: seen from outside, a snapshot is
\* committed in one step with its authority, or the controller ends, and nothing else happens.
THEOREM ServiceImplements == Spec => ImplementsController
BY ServiceInvariant, InitImplements, StepImplements, PTL
   DEF Spec, ImplementsController, Controller!Spec

\* What a caller may conclude from the controller: an ended service keeps its snapshot and stays
\* ended, and after a first snapshot only the control plane replaces it.
AuthorityIsOrdered ==
    [][/\ Terminal => Terminal' /\ UNCHANGED <<authority, committed>>
       /\ authority # "None" /\ ~UNCHANGED <<authority, committed>>
             => authority' = "ControlPlane"]_vars

\* In ApplyConfiguration a late seed loses to whatever was committed before it, and a latched failure
\* or Shutdown is final, in every interleaving of callers.
THEOREM AuthorityOrdered == Spec => AuthorityIsOrdered
<1>1. ServiceInv /\ [Next]_vars =>
        [/\ Terminal => Terminal' /\ UNCHANGED <<authority, committed>>
         /\ authority # "None" /\ ~UNCHANGED <<authority, committed>>
               => authority' = "ControlPlane"]_vars
  <2> SUFFICES ASSUME ServiceInv, [Next]_vars
               PROVE  /\ Terminal => Terminal' /\ UNCHANGED <<authority, committed>>
                      /\ authority # "None" /\ ~UNCHANGED <<authority, committed>>
                            => authority' = "ControlPlane"
    OBVIOUS
  <2>1. Controller!Next \/ UNCHANGED Controller!ctrlVars
    BY StepImplements
  <2>2. CASE \E source \in {"Seed", "ControlPlane"}, cfg \in Snapshots : Controller!Commit(source, cfg)
    BY <2>2 DEF Controller!Commit
  <2>3. CASE Controller!Terminate \/ UNCHANGED Controller!ctrlVars
    BY <2>3 DEF Controller!Terminate, Controller!ctrlVars
  <2> QED BY <2>1, <2>2, <2>3 DEF Controller!Next
<1> QED BY <1>1, ServiceInvariant, PTL DEF Spec, AuthorityIsOrdered
===============================================================================
