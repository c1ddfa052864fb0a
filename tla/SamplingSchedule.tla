-------------------------- MODULE SamplingSchedule --------------------------
(***************************************************************************)
(* The sampling worker's schedule: the configuration mailbox that Apply    *)
(* stages into, the wait for the next cycle, and the choice of what each   *)
(* cycle (cohort) samples (continuous_profiler.cpp).                       *)
(*                                                                         *)
(* With both intervals set the worker wakes at the selective interval, and *)
(* every cpu/sel-th cohort samples all threads. The counter is compared    *)
(* for equality, so a counter that ever passed the ratio would end CPU     *)
(* sampling for good.                                                      *)
(***************************************************************************)
EXTENDS Naturals

CONSTANTS Configs,     \* the intervals Apply may stage, [cpu, sel]
          MaxStages    \* bound on the number of times it does

VARIABLES
    desired,      \* desired_thread_sampling_configuration_, with its version
    conf,         \* the worker's private snapshot
    previous,     \* previousConfigurationVersion
    iteration,    \* the worker's cohort counter
    kind,         \* what the last cohort sampled
    worker,       \* program counter of the worker
    notify,       \* the notifications that are due: "stage", "shutdown"
    shutdown,     \* shutdown_requested_
    since         \* history: with both features on, cohorts of this version since the last
                  \* one of all threads

vars == <<desired, conf, previous, iteration, kind, worker, notify, shutdown, since>>

CpuEnabled(c) == c.cpu # 0
SelectiveEnabled(c) == c.sel # 0
IsEnabled(c) == CpuEnabled(c) \/ SelectiveEnabled(c)
BothEnabled(c) == CpuEnabled(c) /\ SelectiveEnabled(c)
Ratio(c) == c.cpu \div c.sel

\* What RuntimeSamplerConfiguration::IsValid admits.
ValidIntervals(c) == BothEnabled(c) => c.cpu > c.sel /\ c.cpu % c.sel = 0

ASSUME ConfigsAssumption ==
    Configs \subseteq {c \in [cpu : Nat, sel : Nat] : ValidIntervals(c)}
ASSUME MaxStagesAssumption == MaxStages \in Nat

Snapshot(c, v) == [cpu |-> c.cpu, sel |-> c.sel, version |-> v]

Init ==
    /\ desired = Snapshot([cpu |-> 0, sel |-> 0], 0)
    /\ conf = desired
    /\ previous = 0
    /\ iteration = 0 /\ kind = "none" /\ since = 0
    /\ worker = "loop"
    /\ notify = {} /\ shutdown = FALSE

----------------------------------------------------------------------------
(* StageThreadSamplingConfiguration and Shutdown.                          *)

\* The write under the mutex; the notification follows without it. Apply is serialised and stages
\* nothing once the sampler is shut down.
Stage(c) ==
    /\ desired.version < MaxStages /\ notify = {} /\ ~shutdown
    /\ desired' = Snapshot(c, desired.version + 1)
    /\ notify' = {"stage"}
    /\ UNCHANGED <<conf, previous, iteration, kind, worker, shutdown, since>>

\* A thread that waits on the condition variable tests its predicate again.
Woken == IF worker \in {"asleep", "timing"} THEN "test" ELSE worker

\* Mutant: the staging thread does not notify.
MutantNotifyOne ==
    /\ notify = {"stage"} /\ notify' = {}
    /\ UNCHANGED <<desired, conf, previous, iteration, kind, worker, shutdown, since>>

\* notify_one: the worker is the only thread that waits here.
NotifyOne ==
    /\ notify = {"stage"} /\ notify' = {}
    /\ worker' = Woken
    /\ UNCHANGED <<desired, conf, previous, iteration, kind, shutdown, since>>

RequestShutdown ==
    /\ ~shutdown /\ notify = {}
    /\ shutdown' = TRUE
    /\ notify' = {"shutdown"}
    /\ UNCHANGED <<desired, conf, previous, iteration, kind, worker, since>>

NotifyAll ==
    /\ notify = {"shutdown"} /\ notify' = {}
    /\ worker' = Woken
    /\ UNCHANGED <<desired, conf, previous, iteration, kind, shutdown, since>>

----------------------------------------------------------------------------
(* The worker.                                                             *)

\* The head of SamplingThreadMainCore's loop.
Loop ==
    /\ worker = "loop"
    /\ previous' = conf.version
    /\ worker' = IF shutdown THEN "exit" ELSE "test"
    /\ UNCHANGED <<desired, conf, iteration, kind, notify, shutdown, since>>

\* WaitForNextThreadSamplingCycle, with the mutex held up to the wait: take over a new
\* configuration, then wait for a notification or for the scheduling interval.
TakeConfiguration ==
    /\ worker = "test"
    /\ IF shutdown
         THEN worker' = "exit" /\ UNCHANGED conf
         ELSE /\ conf' = IF conf.version # desired.version THEN desired ELSE conf
              /\ worker' = IF IsEnabled(conf') THEN "timing" ELSE "asleep"
    /\ UNCHANGED <<desired, previous, iteration, kind, notify, shutdown, since>>

SpuriousWakeup ==
    /\ worker \in {"asleep", "timing"}
    /\ worker' = "test"
    /\ UNCHANGED <<desired, conf, previous, iteration, kind, notify, shutdown, since>>

\* Mutant: a timeout admits a cohort without another look at the mailbox.
MutantShouldWake == shutdown
ShouldWake == shutdown \/ conf.version # desired.version

GetNextSamplingType(c, n) ==
    IF ~SelectiveEnabled(c) \/ (CpuEnabled(c) /\ n = Ratio(c)) THEN "Continuous" ELSE "SelectedThreads"

\* Mutant: the counter survives a change of configuration.
MutantCounted == IF BothEnabled(conf) THEN iteration + 1 ELSE 0
\* The number of this cohort, restarted by a new configuration.
Counted ==
    IF BothEnabled(conf) THEN (IF conf.version # previous THEN 0 ELSE iteration) + 1 ELSE 0

NextIteration(n) == IF GetNextSamplingType(conf, n) = "Continuous" THEN 0 ELSE n

\* History (it stops counting at the ratio).
Since == IF conf.version # previous THEN 0 ELSE since

\* wait_for ends with the timeout, and the predicate is tested once more: the cohort begins under
\* the snapshot the worker then has.
BeginCohort ==
    /\ worker = "timing" /\ ~ShouldWake
    /\ worker' = "cohort"
    /\ kind' = GetNextSamplingType(conf, Counted)
    /\ iteration' = NextIteration(Counted)
    /\ since' = IF kind' = "Continuous" \/ ~BothEnabled(conf) THEN 0
                ELSE IF Since < Ratio(conf) THEN Since + 1 ELSE Since
    /\ UNCHANGED <<desired, conf, previous, notify, shutdown>>

\* The timeout comes with a notification not yet delivered.
TimeoutInterrupted ==
    /\ worker = "timing" /\ ShouldWake
    /\ worker' = "test"
    /\ UNCHANGED <<desired, conf, previous, iteration, kind, notify, shutdown, since>>

\* CaptureSamples returns.
EndCohort ==
    /\ worker = "cohort"
    /\ worker' = IF shutdown THEN "exit" ELSE "loop"
    /\ UNCHANGED <<desired, conf, previous, iteration, kind, notify, shutdown, since>>

\* The worker and its callers are gone.
Terminated == worker = "exit" /\ notify = {} /\ UNCHANGED vars

WorkerStep == Loop \/ TakeConfiguration \/ BeginCohort \/ TimeoutInterrupted \/ EndCohort

Next ==
    \/ \E c \in Configs : Stage(c)
    \/ NotifyOne \/ RequestShutdown \/ NotifyAll
    \/ WorkerStep \/ SpuriousWakeup \/ Terminated

Spec == Init /\ [][Next]_vars

\* A timer fires and a capture ends even if wakeups keep restarting the wait (its deadline is
\* absolute), and a thread that has a notification to send sends it.
FairSpec ==
    Spec /\ WF_vars(Loop \/ TakeConfiguration \/ TimeoutInterrupted \/ EndCohort)
         /\ SF_vars(BeginCohort) /\ WF_vars(NotifyOne) /\ WF_vars(NotifyAll)

----------------------------------------------------------------------------
(* Properties.                                                             *)

States == {"loop", "test", "asleep", "timing", "cohort", "exit"}
Configuration == [cpu : Nat, sel : Nat, version : Nat]

TypeOK ==
    /\ desired \in Configuration /\ ValidIntervals(desired) /\ desired.version <= MaxStages
    /\ conf \in Configuration /\ ValidIntervals(conf)
    /\ previous \in Nat /\ iteration \in Nat /\ since \in Nat
    /\ kind \in {"none", "Continuous", "SelectedThreads"}
    /\ worker \in States
    /\ notify \subseteq {"stage", "shutdown"}
    /\ shutdown \in BOOLEAN

Begins == worker # "cohort" /\ worker' = "cohort"

\* Configurations apply at the cohort boundary: a cohort begins only under the latest staged
\* intervals and never once shutdown was requested, however its timeout and the staging interleave.
CohortIsFresh == [][Begins => conf = desired /\ ~shutdown]_vars

\* With both features on, exactly every Ratio-th cohort since the last one of all threads, or since
\* the configuration arrived, samples all threads: configuration changes neither skip the CPU
\* cohort nor bring it forward.
EveryNthIsContinuous ==
    [][Begins /\ BothEnabled(conf) =>
         (kind' = "Continuous" <=> Since + 1 = Ratio(conf))]_vars

\* No wakeup is lost: a staged configuration reaches the worker, also one that sleeps without an
\* interval, and a shutdown request ends it wherever it waits (notify_one and notify_all against
\* WaitForNextThreadSamplingCycle).
NoLostWakeup ==
    /\ (conf # desired) ~> (conf = desired \/ shutdown)
    /\ shutdown ~> worker = "exit"
=============================================================================
