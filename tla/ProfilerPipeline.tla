--------------------------- MODULE ProfilerPipeline ---------------------------
(***************************************************************************)
(* The managed half of the profiler on .NET Framework: each AppDomain's    *)
(* ContinuousProfilerManager, its SampleExporter with the reader thread    *)
(* and its CanaryThreadManager, against the exit handler of the domain     *)
(* (ContinuousProfilerManager.cs, SampleExporter.cs,                       *)
(* CanaryThreadManager.cs, Instrumentation.cs).                            *)
(*                                                                         *)
(* The domains of a process share the native buffers; an unnamed mutex     *)
(* that is only ever tried, never waited for, lets one of them read at a   *)
(* time.  The lock sections of a manager are single steps.  The .NET build *)
(* is the same protocol for one domain, without the mutex and the canary.  *)
(***************************************************************************)
EXTENDS Naturals, FiniteSets

CONSTANTS Domains,      \* the AppDomains of the process
          NoDomain,     \* nobody owns the reader mutex
          MaxChanges    \* bound: native configurations committed, the Seed included

ASSUME OwnersAssumption == NoDomain \notin Domains /\ "abandoned" \notin Domains

VARIABLES
    init,         \* the thread in InitializeSampling
    exit,         \* the thread in OnExit
    exiting,      \* domains whose _isExiting is set
    published,    \* domains whose _sampleExporter is set
    canary,       \* the canary of the domain and who is to dispose it ("gone": disposed at exit)
    lingering,    \* domains with a canary thread that outlived the Join of its Dispose
    disposed,     \* exporters whose Dispose has set the shutdown trigger
    activated,    \* exporters whose activation trigger is set
    subscribed,   \* exporters that receive Activity.CurrentChanged
    eventsGone,   \* exporters whose events and mutex handle are disposed
    reader,       \* the reader thread
    deferred,     \* readers whose canary initializer has yet to succeed in this loop
    mutex,        \* the owner of the reader mutex (external)
    compatible,   \* domains that can export the committed configuration
    sampling,     \* the committed configuration samples threads
    changes       \* number of configuration changes so far

managerVars == <<init, exit, exiting, published>>
exporterVars == <<disposed, activated, subscribed, eventsGone>>
nativeVars == <<mutex, compatible, sampling, changes>>
canaryVars == <<canary, lingering>>
pipelineVars == <<managerVars, canaryVars, exporterVars, reader, deferred, nativeVars>>

\* The reader's places while it owns the mutex, and the ones of the canary initializer.
Initializing == {"ensure", "recheck", "starting", "publish", "drop"}
Owning == {"owned", "loop", "release"} \cup Initializing

(* Every thread of every domain is in one of its places, and the mutex is  *)
(* owned by a domain, abandoned or free.                                   *)
PipelineTypeOK ==
    /\ init \in [Domains -> {"build", "wait", "publish", "dispose", "join", "done"}]
    /\ exit \in [Domains -> {"none", "swap", "failed", "dispose", "join", "canary", "done"}]
    /\ exiting \subseteq Domains /\ published \subseteq Domains
    /\ canary \in [Domains -> {"none", "local", "owned", "taken", "gone"}]
    /\ lingering \subseteq Domains
    /\ disposed \subseteq Domains /\ activated \subseteq Domains
    /\ subscribed \subseteq Domains /\ eventsGone \subseteq Domains
    /\ reader \in [Domains -> Owning \cup {"off", "started", "waiting", "poll", "try", "done"}]
    /\ deferred \subseteq Domains
    /\ mutex \in Domains \cup {NoDomain, "abandoned"}
    /\ compatible \subseteq Domains
    /\ sampling \in BOOLEAN

PipelineInit ==
    /\ init = [d \in Domains |-> "build"]
    /\ exit = [d \in Domains |-> "none"]
    /\ exiting = {} /\ published = {}
    /\ canary = [d \in Domains |-> "none"] /\ lingering = {}
    /\ disposed = {} /\ activated = {} /\ subscribed = {} /\ eventsGone = {}
    /\ reader = [d \in Domains |-> "off"]
    /\ deferred = {}
    /\ mutex = NoDomain
    /\ compatible = Domains /\ sampling = FALSE
    /\ changes = 0

----------------------------------------------------------------------------
(* SampleExporter.Dispose, for the thread of variable pc (init or exit).   *)

\* The section of the exporter's lock.
ExporterDispose(d) ==
    /\ disposed' = disposed \cup {d}
    /\ subscribed' = subscribed \ {d}

\* Mutant: the events are disposed whether or not the thread has ended.
MutantExporterJoin(d) == eventsGone' = eventsGone \cup {d}

\* Join ends with the thread, or with the grace period, which leaves the events alone.
ExporterJoin(d) ==
    \/ reader[d] \in {"off", "done"} /\ eventsGone' = eventsGone \cup {d}
    \/ reader[d] \notin {"off", "done"} /\ UNCHANGED eventsGone

\* CanaryThreadManager.Dispose: the trigger is set and the Join ends with the thread or with its
\* timeout; the events are disposed either way.
CanaryDispose(d) == lingering' \in {lingering, lingering \cup {d}}

\* The canary thread sees the trigger, or the event disposed under it, and ends.
CanaryExits(d) ==
    /\ d \in lingering
    /\ lingering' = lingering \ {d}
    /\ UNCHANGED <<managerVars, canary, exporterVars, reader, deferred, nativeVars>>

----------------------------------------------------------------------------
(* ContinuousProfilerManager.InitializeSampling.                           *)

\* No exports are prepared, or the exporter is built and started, or its start throws.
StartsExporter(d) ==
    /\ init[d] = "build"
    /\ \/ init' = [init EXCEPT ![d] = "done"] /\ UNCHANGED reader
       \/ init' = [init EXCEPT ![d] = "dispose"] /\ UNCHANGED reader
       \/ init' = [init EXCEPT ![d] = "wait"] /\ reader' = [reader EXCEPT ![d] = "started"]
    /\ UNCHANGED <<exit, exiting, published, canaryVars, exporterVars, deferred, nativeVars>>

\* WaitForReaderThreadStart, which may time out, and the Seed: the first one is committed,
\* a later one is ignored in favour of what is, and a failed one ends initialisation.
AppliesSeed(d) ==
    /\ init[d] = "wait"
    /\ \/ init' = [init EXCEPT ![d] = "dispose"] /\ UNCHANGED <<compatible, sampling, changes>>
       \/ /\ reader[d] # "started"
          /\ init' = [init EXCEPT ![d] = "publish"]
          /\ IF changes = 0
             THEN /\ compatible' \in {S \cup {d} : S \in SUBSET Domains}
                  /\ sampling' \in BOOLEAN
                  /\ changes' = 1
             ELSE UNCHANGED <<compatible, sampling, changes>>
    /\ UNCHANGED <<exit, exiting, published, canaryVars, exporterVars, reader, deferred, mutex>>

\* Mutant: the exporter is published without looking at _isExiting.
MutantPublishesExporter(d) ==
    /\ init[d] = "publish"
    /\ init' = [init EXCEPT ![d] = "done"]
    /\ activated' = activated \cup {d} /\ subscribed' = subscribed \cup {d}
    /\ published' = published \cup {d}
    /\ UNCHANGED <<exit, exiting, canaryVars, disposed, eventsGone, reader, deferred, nativeVars>>

\* The section of the manager's lock: Activate and the transfer of ownership.
PublishesExporter(d) ==
    /\ init[d] = "publish"
    /\ IF d \in exiting
       THEN /\ init' = [init EXCEPT ![d] = "dispose"]
            /\ UNCHANGED <<activated, subscribed, published>>
       ELSE /\ init' = [init EXCEPT ![d] = "done"]
            /\ activated' = activated \cup {d} /\ subscribed' = subscribed \cup {d}
            /\ published' = published \cup {d}
    /\ UNCHANGED <<exit, exiting, canaryVars, disposed, eventsGone, reader, deferred, nativeVars>>

\* The finally block disposes a candidate that was not published.
DisposesCandidate(d) ==
    /\ \/ /\ init[d] = "dispose"
          /\ init' = [init EXCEPT ![d] = "join"]
          /\ ExporterDispose(d) /\ UNCHANGED eventsGone
       \/ /\ init[d] = "join"
          /\ init' = [init EXCEPT ![d] = "done"]
          /\ ExporterJoin(d) /\ UNCHANGED <<disposed, subscribed>>
    /\ UNCHANGED <<exit, exiting, published, canaryVars, activated, reader, deferred, nativeVars>>

InitStep(d) ==
    StartsExporter(d) \/ AppliesSeed(d) \/ PublishesExporter(d) \/ DisposesCandidate(d)

----------------------------------------------------------------------------
(* OnExit and ContinuousProfilerManager.Dispose.                           *)

ExitBegins(d) ==
    /\ exit[d] = "none"
    /\ exit' = [exit EXCEPT ![d] = "swap"]
    /\ exiting' = exiting \cup {d}
    /\ UNCHANGED <<init, published, canaryVars, exporterVars, reader, deferred, nativeVars>>

\* StopOpAmpClientIfRunning or the Dispose of an instrumentation throws: OnExit catches and ends,
\* and the profiler, which comes after them in the same try block, is never disposed.
ExitFails(d) ==
    /\ exit[d] = "swap"
    /\ exit' = [exit EXCEPT ![d] = "failed"]
    /\ UNCHANGED <<init, exiting, published, canaryVars, exporterVars, reader, deferred, nativeVars>>

\* Both fields are taken out under the manager's lock.
ExitSwaps(d) ==
    /\ exit[d] = "swap"
    /\ exit' = [exit EXCEPT ![d] = IF d \in published THEN "dispose" ELSE "canary"]
    /\ published' = published \ {d}
    /\ canary' = [canary EXCEPT ![d] = IF @ = "owned" THEN "taken" ELSE @]
    /\ UNCHANGED <<init, exiting, lingering, exporterVars, reader, deferred, nativeVars>>

\* What was taken is disposed: the exporter, in two steps, then the canary.
ExitDisposes(d) ==
    /\ \/ /\ exit[d] = "dispose"
          /\ exit' = [exit EXCEPT ![d] = "join"]
          /\ ExporterDispose(d) /\ UNCHANGED <<eventsGone, canaryVars>>
       \/ /\ exit[d] = "join"
          /\ exit' = [exit EXCEPT ![d] = "canary"]
          /\ ExporterJoin(d) /\ UNCHANGED <<disposed, subscribed, canaryVars>>
       \/ /\ exit[d] = "canary"
          /\ exit' = [exit EXCEPT ![d] = "done"]
          /\ IF canary[d] = "taken"
             THEN canary' = [canary EXCEPT ![d] = "gone"] /\ CanaryDispose(d)
             ELSE UNCHANGED canaryVars
          /\ UNCHANGED <<disposed, subscribed, eventsGone>>
    /\ UNCHANGED <<init, exiting, published, activated, reader, deferred, nativeVars>>

ExitStep(d) == ExitFails(d) \/ ExitSwaps(d) \/ ExitDisposes(d)

\* The domain is unloaded with a thread still running: its threads end, the mutex is abandoned.
Unloads(d) ==
    /\ exit[d] \in {"done", "failed"} /\ init[d] = "done"
    /\ reader[d] \notin {"off", "done"} \/ d \in lingering
    /\ reader' = [reader EXCEPT ![d] = IF @ = "off" THEN @ ELSE "done"]
    /\ canary' = [canary EXCEPT ![d] = IF @ = "none" THEN @ ELSE "gone"]
    /\ lingering' = lingering \ {d}
    /\ mutex' = IF mutex = d THEN "abandoned" ELSE mutex
    /\ deferred' = deferred \ {d}
    /\ UNCHANGED <<managerVars, exporterVars, compatible, sampling, changes>>

----------------------------------------------------------------------------
(* SampleExporter.SampleReadingThread and RunExportLoop.                   *)

CanRead(d) == d \notin exiting /\ d \in compatible

ReaderGoes(d, from, to) == reader[d] = from /\ reader' = [reader EXCEPT ![d] = to]

\* The thread reports that it runs, then waits for shutdown (which wins) or activation.
ReaderStarts(d) ==
    /\ \/ ReaderGoes(d, "started", "waiting")
       \/ d \in disposed /\ ReaderGoes(d, "waiting", "done")
       \/ d \notin disposed /\ d \in activated /\ ReaderGoes(d, "waiting", "poll")
    /\ UNCHANGED <<managerVars, canaryVars, exporterVars, deferred, nativeVars>>

\* One round of the polling loop up to the mutex; an ineligible domain waits.
ReaderPolls(d) ==
    /\ \/ d \in disposed /\ ReaderGoes(d, "poll", "done")
       \/ d \notin disposed /\ CanRead(d) /\ ReaderGoes(d, "poll", "try")
    /\ UNCHANGED <<managerVars, canaryVars, exporterVars, deferred, nativeVars>>

\* Mutant: a mutex that is not free within the timeout counts as abandoned.
MutantReaderTries(d) ==
    /\ ReaderGoes(d, "try", "owned") /\ mutex' = d
    /\ UNCHANGED <<managerVars, canaryVars, exporterVars, deferred, compatible, sampling, changes>>

\* WaitOne(0); an abandoned mutex is owned too.
ReaderTries(d) ==
    /\ IF mutex \in {NoDomain, "abandoned"}
       THEN ReaderGoes(d, "try", "owned") /\ mutex' = d
       ELSE ReaderGoes(d, "try", "poll") /\ UNCHANGED mutex
    /\ UNCHANGED <<managerVars, canaryVars, exporterVars, deferred, compatible, sampling, changes>>

\* Shutdown and eligibility are looked at again under the mutex.
ReaderRechecks(d) ==
    /\ ReaderGoes(d, "owned", IF d \notin disposed /\ CanRead(d) THEN "ensure" ELSE "release")
    /\ deferred' = deferred \cup {d}
    /\ UNCHANGED <<managerVars, canaryVars, exporterVars, nativeVars>>

\* The initializer returns to RunExportLoop, which retries it until it has succeeded.
InitializerReturns(d, ok) ==
    /\ reader' = [reader EXCEPT ![d] = "loop"]
    /\ deferred' = IF ok THEN deferred \ {d} ELSE deferred

\* EnsureNetFrameworkCanaryThread, which needs thread sampling to be committed, and then
\* the first section of TryStartNetFrameworkCanaryThread.
EnsuresCanary(d) ==
    /\ reader[d] \in {"ensure", "recheck"}
    /\ IF d \in exiting \/ canary[d] = "owned"
       THEN InitializerReturns(d, d \notin exiting)
       ELSE IF reader[d] = "ensure" /\ ~sampling
       THEN InitializerReturns(d, FALSE)
       ELSE /\ reader' = [reader EXCEPT ![d] = IF @ = "ensure" THEN "recheck" ELSE "starting"]
            /\ UNCHANGED deferred
    /\ UNCHANGED <<managerVars, canaryVars, exporterVars, nativeVars>>

\* The canary thread is created, and becomes ready in time or not.
StartsCanary(d) ==
    /\ \/ ReaderGoes(d, "starting", "publish") \/ ReaderGoes(d, "starting", "drop")
    /\ canary' = [canary EXCEPT ![d] = "local"]
    /\ UNCHANGED <<lingering, managerVars, exporterVars, deferred, nativeVars>>

\* The last section of the manager's lock: give the canary to the manager unless exiting.
PublishesCanary(d) ==
    /\ reader[d] = "publish"
    /\ IF d \in exiting
       THEN reader' = [reader EXCEPT ![d] = "drop"] /\ UNCHANGED <<canary, deferred>>
       ELSE canary' = [canary EXCEPT ![d] = "owned"] /\ InitializerReturns(d, TRUE)
    /\ UNCHANGED <<lingering, managerVars, exporterVars, nativeVars>>

\* The finally block disposes a canary the manager did not take.
DropsCanary(d) ==
    /\ reader[d] = "drop"
    /\ canary' = [canary EXCEPT ![d] = "none"] /\ CanaryDispose(d)
    /\ InitializerReturns(d, FALSE)
    /\ UNCHANGED <<managerVars, exporterVars, nativeVars>>

\* Mutant: eligibility is only tested before the mutex is taken.
MutantLoops(d) ==
    /\ \/ d \in disposed /\ ReaderGoes(d, "loop", "release")
       \/ d \notin disposed /\ d \in deferred /\ ReaderGoes(d, "loop", "ensure")
    /\ UNCHANGED <<managerVars, canaryVars, exporterVars, deferred, nativeVars>>

\* One round of the export loop: shutdown, then eligibility and initializer as they fall due.
\* The exports that are due change nothing here (SampleBuffers has them).
Loops(d) ==
    /\ \/ d \in disposed /\ ReaderGoes(d, "loop", "release")
       \/ d \notin disposed /\ ~CanRead(d) /\ ReaderGoes(d, "loop", "release")
       \/ d \notin disposed /\ d \in deferred /\ ReaderGoes(d, "loop", "ensure")
    /\ UNCHANGED <<managerVars, canaryVars, exporterVars, deferred, nativeVars>>

ReleasesMutex(d) ==
    /\ ReaderGoes(d, "release", "poll")
    /\ mutex' = NoDomain
    /\ deferred' = deferred \ {d}
    /\ UNCHANGED <<managerVars, canaryVars, exporterVars, compatible, sampling, changes>>

ReaderStep(d) ==
    \/ ReaderStarts(d) \/ ReaderPolls(d) \/ ReaderTries(d) \/ ReaderRechecks(d)
    \/ EnsuresCanary(d) \/ StartsCanary(d) \/ PublishesCanary(d) \/ DropsCanary(d)
    \/ Loops(d) \/ ReleasesMutex(d)

\* A control-plane update commits another native configuration.
ConfigurationChanges ==
    /\ changes < MaxChanges
    /\ changes' = changes + 1
    /\ compatible' \in SUBSET Domains
    /\ sampling' \in BOOLEAN
    /\ UNCHANGED <<managerVars, canaryVars, exporterVars, reader, deferred, mutex>>

PipelineNext ==
    \/ \E d \in Domains :
          \/ InitStep(d) \/ ExitBegins(d) \/ ExitStep(d) \/ Unloads(d)
          \/ ReaderStep(d) \/ CanaryExits(d)
    \/ ConfigurationChanges

PipelineSpec == PipelineInit /\ [][PipelineNext]_pipelineVars

\* Threads run; a due eligibility test and an ended wait are not put off for ever.  Of the exit
\* handler only the profiler's own disposal is fair: what runs before it may throw or hang.
PipelineFairSpec ==
    /\ PipelineSpec
    /\ \A d \in Domains :
          /\ WF_pipelineVars(InitStep(d)) /\ WF_pipelineVars(ReaderStep(d))
          /\ WF_pipelineVars(ExitDisposes(d)) /\ WF_pipelineVars(CanaryExits(d))
          /\ SF_pipelineVars(~CanRead(d) /\ ReaderGoes(d, "loop", "release") /\ Loops(d))

----------------------------------------------------------------------------
Settled(d) == init[d] = "done" /\ exit[d] = "done" /\ reader[d] \in {"off", "done"}

(* Whatever way initialisation, the canary initializer and the exit        *)
(* handler interleave, a domain whose three threads have ended leaves      *)
(* nothing behind: no published exporter, no subscription to Activity, no  *)
(* canary that was not disposed, and every exporter that was started has   *)
(* been disposed.  An exit handler that fails before it reaches the        *)
(* profiler leaves a whole pipeline or none: either the exporter is still  *)
(* published, subscribed and intact, or it was disposed by initialisation  *)
(* and has no subscription and never had a canary.                         *)
NothingOutlivesExit ==
    \A d \in Domains :
        /\ Settled(d) =>
              /\ d \notin published \cup subscribed
              /\ canary[d] \in {"none", "gone"}
              /\ reader[d] = "done" => d \in disposed
        /\ init[d] = "done" /\ exit[d] = "failed" =>
              IF d \in published
              THEN d \in subscribed /\ d \notin disposed \cup eventsGone
              ELSE d \notin subscribed /\ canary[d] = "none" /\ (reader[d] # "off" => d \in disposed)

(* The events and the mutex handle of an exporter are disposed only when   *)
(* its reader thread has ended, although Join may time out in the          *)
(* initialisation as well as in the exit handler.                          *)
NoUseAfterDispose ==
    \A d \in eventsGone : reader[d] \in {"off", "done"} /\ mutex # d

(* At most one domain consumes the native buffers, also when the mutex     *)
(* was abandoned by a domain that was unloaded while reading.              *)
OneReader ==
    \A d \in Domains : reader[d] \in Owning <=> mutex = d

(* Eventually and for good: a domain whose manager is disposed has neither *)
(* a reader nor a canary thread, also none that outlived a Join, and a     *)
(* domain that is exiting does not hold the native buffers, even if its    *)
(* exit handler fails or hangs before it reaches the profiler.  And a      *)
(* configuration that some running domain can export does not stay unread: *)
(* a reader that lost its eligibility gives up the mutex.                  *)
BuffersAreRead ==
    /\ <>[](\A d \in Domains :
                /\ exit[d] \in {"dispose", "join", "canary", "done"} =>
                      Settled(d) /\ canary[d] \in {"none", "gone"} /\ d \notin lingering
                /\ d \in exiting => reader[d] \notin Owning)
    /\ <>[](\E d \in activated : CanRead(d)) =>
          []<>(\E d \in Domains : CanRead(d) /\ reader[d] = "loop")
===============================================================================
