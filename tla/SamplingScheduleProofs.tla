----------------------- MODULE SamplingScheduleProofs -----------------------
(***************************************************************************)
(* Proofs about SamplingSchedule, for every set of valid intervals and     *)
(* every number of configuration changes.                                  *)
(*                                                                         *)
(* The schedule compares its counter with the ratio for equality, so the   *)
(* argument needs the counter's whole range: whenever the counter is still *)
(* meant for the worker's snapshot it equals the number of cohorts since   *)
(* the last one of all threads, and it is below the ratio (Counter). That  *)
(* a stale counter is recognised needs the order of the versions           *)
(* (Versions).                                                             *)
(***************************************************************************)
EXTENDS SamplingSchedule, TLAPS

\* The worker's snapshot is an earlier desired configuration, and equal versions mean equal
\* intervals.
Versions ==
    /\ previous <= conf.version
    /\ conf.version <= desired.version
    /\ conf.version = desired.version => conf = desired

\* The counter is meant for the snapshot, unless the snapshot changed during the current wait.
CounterIsMeant == worker \in {"cohort", "loop"} \/ previous = conf.version

Counter ==
    BothEnabled(conf) /\ CounterIsMeant => iteration = since /\ since < Ratio(conf)

IInv == TypeOK /\ Versions /\ Counter

\* Valid intervals have a positive ratio: division by the selective interval is never by zero
\* and never yields zero.
LEMMA RatioPositive ==
    ASSUME NEW c, c.cpu \in Nat, c.sel \in Nat, ValidIntervals(c), BothEnabled(c)
    PROVE  Ratio(c) \in Nat /\ Ratio(c) > 0
<1>1. c.sel > 0 /\ c.cpu > c.sel
  BY DEF ValidIntervals, BothEnabled, CpuEnabled, SelectiveEnabled
<1> QED
  BY <1>1, Z3 DEF Ratio

\* The initial state satisfies the inductive invariant: both intervals are zero.
LEMMA InitIInv == Init => IInv
<1> SUFFICES ASSUME Init PROVE IInv
  OBVIOUS
<1>1. desired = [cpu |-> 0, sel |-> 0, version |-> 0] /\ conf = desired
  BY DEF Init, Snapshot
<1>2. /\ ~BothEnabled(conf) /\ ValidIntervals(conf) /\ ValidIntervals(desired)
      /\ conf \in Configuration /\ desired \in Configuration /\ desired.version = 0
  BY <1>1 DEF ValidIntervals, BothEnabled, CpuEnabled, SelectiveEnabled, Configuration
<1>3. TypeOK
  <2>1. desired.version <= MaxStages
    BY <1>2, MaxStagesAssumption
  <2>2. previous = 0 /\ iteration = 0 /\ since = 0 /\ kind = "none" /\ worker = "loop"
        /\ notify = {} /\ shutdown = FALSE
    BY DEF Init
  <2> QED  BY <1>2, <2>1, <2>2 DEF TypeOK, States
<1> QED
  BY <1>1, <1>2, <1>3 DEF Init, IInv, Versions, Counter

\* Staging raises the version, so what the worker holds is recognised as old.
LEMMA StageIInv == ASSUME IInv, NEW c \in Configs, Stage(c) PROVE IInv'
<1>1. c.cpu \in Nat /\ c.sel \in Nat /\ ValidIntervals(c)
  BY ConfigsAssumption
<1>2. desired' \in Configuration /\ ValidIntervals(desired') /\ desired'.version = desired.version + 1
  BY <1>1 DEF Stage, Snapshot, Configuration, ValidIntervals, BothEnabled, CpuEnabled,
             SelectiveEnabled, IInv, TypeOK
<1>3. TypeOK'
  BY <1>2, MaxStagesAssumption DEF Stage, IInv, TypeOK, Configuration
<1>4. Versions'
  BY <1>2 DEF Stage, IInv, TypeOK, Versions, Configuration
<1>5. Counter'
  BY DEF Stage, IInv, Counter, CounterIsMeant
<1> QED  BY <1>3, <1>4, <1>5 DEF IInv

\* The wait takes the desired configuration over; a counter for the old one is no longer meant.
LEMMA TakeIInv == ASSUME IInv, TakeConfiguration PROVE IInv'
<1>1. conf' = conf \/ (conf' = desired /\ conf.version # desired.version /\ ~shutdown)
  BY DEF TakeConfiguration
<1>2. worker' \in {"exit", "timing", "asleep"}
  BY DEF TakeConfiguration
<1>3. TypeOK'
  BY <1>1, <1>2 DEF TakeConfiguration, IInv, TypeOK, States
<1>4. Versions'
  BY <1>1 DEF TakeConfiguration, IInv, TypeOK, Versions, Configuration
<1>5. Counter'
  <2>1. CASE conf' = conf
    BY <1>2, <2>1 DEF TakeConfiguration, IInv, Counter, CounterIsMeant
  <2>2. CASE conf' = desired /\ conf.version # desired.version
    <3>1. previous' # conf'.version
      BY <2>2 DEF TakeConfiguration, IInv, TypeOK, Versions, Configuration
    <3> QED  BY <1>2, <3>1 DEF Counter, CounterIsMeant
  <2> QED  BY <1>1, <2>1, <2>2
<1> QED  BY <1>3, <1>4, <1>5 DEF IInv

\* The number a cohort is given is one more than the cohorts counted by the history, and does not
\* pass the ratio.
LEMMA CountedIsExact ==
    ASSUME IInv, BothEnabled(conf)
    PROVE  /\ Counted = Since + 1 /\ Since \in Nat
           /\ Since < Ratio(conf) /\ Ratio(conf) \in Nat
<1>1. Ratio(conf) \in Nat /\ Ratio(conf) > 0
  BY RatioPositive DEF IInv, TypeOK, Configuration
<1>2. CASE conf.version # previous
  BY <1>1, <1>2 DEF Counted, Since
<1>3. CASE conf.version = previous
  BY <1>1, <1>3 DEF Counted, Since, IInv, TypeOK, Counter, CounterIsMeant
<1> QED  BY <1>2, <1>3

\* Beginning a cohort keeps the counter exact.
LEMMA BeginIInv == ASSUME IInv, BeginCohort PROVE IInv'
<1>1. conf' = conf /\ previous' = previous /\ desired' = desired /\ worker' = "cohort"
  BY DEF BeginCohort
<1>2. CASE ~BothEnabled(conf)
  <2>1. Counted = 0 /\ iteration' = 0 /\ since' = 0
    BY <1>2 DEF BeginCohort, Counted, NextIteration
  <2>2. TypeOK'
    BY <1>1, <2>1 DEF BeginCohort, GetNextSamplingType, IInv, TypeOK, States
  <2> QED  BY <1>1, <1>2, <2>1, <2>2 DEF BeginCohort, IInv, Versions, Counter, CounterIsMeant
<1>3. CASE BothEnabled(conf)
  <2>1. Counted = Since + 1 /\ Since \in Nat /\ Since < Ratio(conf) /\ Ratio(conf) \in Nat
    BY <1>3, CountedIsExact
  <2>2. \/ kind' = "Continuous" /\ iteration' = 0 /\ since' = 0
        \/ /\ kind' = "SelectedThreads" /\ Since + 1 # Ratio(conf)
           /\ iteration' = Since + 1 /\ since' = Since + 1
    BY <1>3, <2>1 DEF BeginCohort, GetNextSamplingType, NextIteration, BothEnabled, CpuEnabled,
                      SelectiveEnabled
  <2>3. Ratio(conf) > 0
    BY <2>1
  <2>4. iteration' = since' /\ since' \in Nat /\ since' < Ratio(conf)
    BY <2>1, <2>2, <2>3
  <2>5. TypeOK'
    BY <1>1, <2>2, <2>4 DEF BeginCohort, IInv, TypeOK, States
  <2> QED  BY <1>1, <2>4, <2>5 DEF BeginCohort, IInv, Versions, Counter, CounterIsMeant
<1> QED  BY <1>2, <1>3

\* Every step preserves the inductive invariant.
LEMMA NextIInv == IInv /\ [Next]_vars => IInv'
<1> SUFFICES ASSUME IInv, [Next]_vars PROVE IInv'
  OBVIOUS
<1>1. ASSUME NEW c \in Configs, Stage(c) PROVE IInv'
  BY <1>1, StageIInv
<1>2. CASE NotifyOne \/ NotifyAll
  BY <1>2 DEF NotifyOne, NotifyAll, Woken, IInv, TypeOK, States, Versions, Counter, CounterIsMeant
<1>3. CASE RequestShutdown
  BY <1>3 DEF RequestShutdown, IInv, TypeOK, Versions, Counter, CounterIsMeant
<1>4. CASE Loop
  <2>1. TypeOK' /\ Versions'
    BY <1>4 DEF Loop, IInv, TypeOK, States, Versions, Configuration
  <2>2. Counter'
    BY <1>4 DEF Loop, IInv, Counter, CounterIsMeant
  <2> QED  BY <2>1, <2>2 DEF IInv
<1>5. CASE TakeConfiguration
  BY <1>5, TakeIInv
<1>6. CASE BeginCohort
  BY <1>6, BeginIInv
<1>7. CASE TimeoutInterrupted \/ SpuriousWakeup
  BY <1>7 DEF TimeoutInterrupted, SpuriousWakeup, IInv, TypeOK, States, Versions, Counter, CounterIsMeant
<1>8. CASE EndCohort
  BY <1>8 DEF EndCohort, IInv, TypeOK, States, Versions, Counter, CounterIsMeant
<1>9. CASE UNCHANGED vars
  BY <1>9 DEF vars, IInv, TypeOK, Versions, Counter, CounterIsMeant
<1> QED
  BY <1>1, <1>2, <1>3, <1>4, <1>5, <1>6, <1>7, <1>8, <1>9 DEF Next, WorkerStep, Terminated

\* The inductive invariant holds in every reachable state.
LEMMA AlwaysIInv == Spec => []IInv
  BY InitIInv, NextIInv, PTL DEF Spec

\* The schedule's state keeps its types, whatever intervals are staged.
THEOREM TypeCorrect == Spec => []TypeOK
<1>1. IInv => TypeOK
  BY DEF IInv
<1> QED  BY <1>1, AlwaysIInv, PTL

\* Only BeginCohort begins a cohort.
LEMMA BeginsIsBeginCohort == ASSUME [Next]_vars, Begins PROVE BeginCohort
  BY DEF Begins, Next, vars, WorkerStep, Stage, NotifyOne, NotifyAll, Woken, RequestShutdown, Loop,
         TakeConfiguration, TimeoutInterrupted, SpuriousWakeup, EndCohort, Terminated

\* WaitForNextThreadSamplingCycle admits a cohort only under the latest staged intervals and never
\* after a shutdown request.
THEOREM FreshCohorts == Spec => CohortIsFresh
<1>1. IInv /\ [Next]_vars => (Begins => conf = desired /\ ~shutdown)
  BY BeginsIsBeginCohort DEF BeginCohort, ShouldWake, IInv, Versions
<1> QED  BY <1>1, AlwaysIInv, PTL DEF Spec, CohortIsFresh

\* With both features on, GetNextSamplingType chooses all threads for exactly every Ratio-th
\* cohort, for every ratio and across configuration changes.
THEOREM ExactRatio == Spec => EveryNthIsContinuous
<1>1. ASSUME IInv, [Next]_vars, Begins, BothEnabled(conf)
      PROVE  kind' = "Continuous" <=> Since + 1 = Ratio(conf)
  <2>1. BeginCohort
    BY <1>1, BeginsIsBeginCohort
  <2>2. Counted = Since + 1
    BY <1>1, CountedIsExact
  <2> QED  BY <1>1, <2>1, <2>2 DEF BeginCohort, GetNextSamplingType, BothEnabled, CpuEnabled, SelectiveEnabled
<1>2. IInv /\ [Next]_vars => (Begins /\ BothEnabled(conf) => (kind' = "Continuous" <=> Since + 1 = Ratio(conf)))
  BY <1>1
<1> QED  BY <1>2, AlwaysIInv, PTL DEF Spec, EveryNthIsContinuous
=============================================================================
