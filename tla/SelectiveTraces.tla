--------------------------- MODULE SelectiveTraces ---------------------------
(***************************************************************************)
(* Selection of threads for frequent sampling: the traces an application   *)
(* asked for, their expiry, the thread-to-span associations, and the       *)
(* selected-threads cohort of the sampling worker (continuous_profiler.cpp).*)
(*                                                                         *)
(* Both clock readings happen before the lock they are used under, so a    *)
(* deadline and a scan may be older than the step that applies them. Time  *)
(* is a counter of minutes. Whether the sample buffer has room is left     *)
(* open here (SampleBuffers models it).                                    *)
(***************************************************************************)
EXTENDS Naturals, FiniteSets

CONSTANTS Spans,       \* span contexts, pairs <<trace, span>>
          Threads,     \* managed threads
          Starters,    \* threads that call SelectiveSamplingStart
          MaxTraces,   \* kSelectiveSamplingMaxTraces
          MaxAge,      \* kSelectiveSamplingMaxAgeMinutes
          MaxNow       \* bound on the clock

ASSUME LimitsAssumption == MaxTraces \in Nat /\ MaxAge \in Nat /\ MaxNow \in Nat

TraceOf(span) == span[1]
Traces == {TraceOf(span) : span \in Spans}
NoSpan == <<"none", 0>>

VARIABLES
    now,          \* the steady clock
    deadline,     \* selective_sampling_trace_map, from traces to deadlines
    inserted,     \* history: when each entry of the map was written
    nextScan,     \* nextOutdatedEntriesScan_
    starter,      \* each SelectiveSamplingStart in progress: its trace and its clock reading
    context,      \* thread_span_context_map
    worker,       \* program counter of the worker
    scanAt,       \* the worker's clock reading, while it is used
    selected      \* selective_sampling_thread_buffer

mapVars == <<deadline, inserted, nextScan>>
vars == <<now, mapVars, starter, context, worker, scanAt, selected>>

Idle == [trace |-> "idle", at |-> 0]

Init ==
    /\ now = 0
    /\ deadline = [t \in {} |-> 0] /\ inserted = [t \in {} |-> 0]
    /\ nextScan = 0
    /\ starter = [s \in Starters |-> Idle]
    /\ context = [t \in Threads |-> NoSpan]
    /\ worker = "idle" /\ scanAt = 0 /\ selected = {}

Tick ==
    /\ now < MaxNow
    /\ now' = now + 1
    /\ UNCHANGED <<mapVars, starter, context, worker, scanAt, selected>>

----------------------------------------------------------------------------
(* The application's calls.                                                *)

\* Mutant: the selective-sampling lock is not taken.
MutantSelectiveLockFree == TRUE
\* selective_sampling_lock is free: the worker holds it from selecting to publishing.
SelectiveLockFree == worker # "capture"
\* thread_span_context_lock is free: the worker takes it first.
SpanLockFree == worker \notin {"locked", "capture"}

\* SelectiveSamplingStart up to the argument of TryAddSelectiveSamplingTrace.
StartReadsClock(s, t) ==
    /\ starter[s] = Idle /\ t # TraceOf(NoSpan)
    /\ starter' = [starter EXCEPT ![s] = [trace |-> t, at |-> now]]
    /\ UNCHANGED <<now, mapVars, context, worker, scanAt, selected>>

IsFull == Cardinality(DOMAIN deadline) >= MaxTraces

\* The map with one entry written.
Write(f, t, v) == [u \in DOMAIN f \cup {t} |-> IF u = t THEN v ELSE f[u]]

TryAddSelectiveSamplingTrace(s) ==
    /\ starter[s] # Idle /\ SelectiveLockFree
    /\ IF IsFull
         THEN UNCHANGED <<deadline, inserted>>
         ELSE /\ deadline' = Write(deadline, starter[s].trace, starter[s].at + MaxAge)
              /\ inserted' = Write(inserted, starter[s].trace, now)
    /\ starter' = [starter EXCEPT ![s] = Idle]
    /\ UNCHANGED <<now, nextScan, context, worker, scanAt, selected>>

Keep(f, S) == [u \in DOMAIN f \cap S |-> f[u]]

\* SelectiveSamplingStop.
RemoveSelectiveSamplingTrace(t) ==
    /\ SelectiveLockFree
    /\ deadline' = Keep(deadline, DOMAIN deadline \ {t})
    /\ inserted' = Keep(inserted, DOMAIN deadline \ {t})
    /\ UNCHANGED <<now, nextScan, starter, context, worker, scanAt, selected>>

\* ContinuousProfilerSetNativeContext, also with the default context.
SetNativeContext(th, span) ==
    /\ SpanLockFree
    /\ context' = [context EXCEPT ![th] = span]
    /\ UNCHANGED <<now, mapVars, starter, worker, scanAt, selected>>

\* ContinuousProfilerNotifySpanStopped: every thread associated with the span loses it.
NotifySpanStopped(span) ==
    /\ SpanLockFree
    /\ context' = [th \in Threads |-> IF context[th] = span THEN NoSpan ELSE context[th]]
    /\ UNCHANGED <<now, mapVars, starter, worker, scanAt, selected>>

\* ContinuousProfiler::ThreadDestroyed forgets the thread.
ThreadDestroyed(th) ==
    /\ SpanLockFree
    /\ context' = [context EXCEPT ![th] = NoSpan]
    /\ UNCHANGED <<now, mapVars, starter, worker, scanAt, selected>>

----------------------------------------------------------------------------
(* The worker's selected-threads cohort.                                   *)

\* A configuration that enables selective sampling makes the next cohort scan.
EnableSelective ==
    /\ worker = "idle"
    /\ nextScan' = now
    /\ UNCHANGED <<now, deadline, inserted, starter, context, worker, scanAt, selected>>

\* CaptureSamples reads the clock for TryPrepareSelectedThreadSampling.
PrepareReadsClock ==
    /\ worker = "idle"
    /\ scanAt' = now
    /\ worker' = "prepare"
    /\ UNCHANGED <<now, mapVars, starter, context, selected>>

Live == {t \in DOMAIN deadline : scanAt < deadline[t]}

\* Mutant: the next scan is due after the full age, whatever the deadlines.
MutantNextScan(n) == n = scanAt + MaxAge
\* The next scan is due at the first of the remaining deadlines, and after MaxAge at the latest.
NextScan(n) ==
    /\ n \in {deadline[t] : t \in Live} \cup {scanAt + MaxAge}
    /\ n <= scanAt + MaxAge
    /\ \A t \in Live : n <= deadline[t]

\* HasActiveSelectiveSamplingEntries, which runs whether or not the buffer has room; the cohort
\* goes on only with an entry and with room.
Prepare ==
    /\ worker = "prepare"
    /\ IF nextScan <= scanAt
         THEN /\ deadline' = Keep(deadline, Live) /\ inserted' = Keep(inserted, Live)
              /\ \E n \in {deadline[t] : t \in Live} \cup {scanAt + MaxAge} : NextScan(n) /\ nextScan' = n
         ELSE UNCHANGED mapVars
    /\ \/ worker' = "idle"
       \/ DOMAIN deadline' # {} /\ worker' = "lock"
    /\ scanAt' = 0
    /\ UNCHANGED <<now, starter, context, selected>>

\* profiling_lock, thread_state_lock_ and thread_span_context_lock.
LockCapture ==
    /\ worker = "lock"
    /\ worker' = "locked"
    /\ UNCHANGED <<now, mapVars, starter, context, scanAt, selected>>

\* The threads whose span belongs to a sampled trace.
SelectedThreads == {th \in Threads : TraceOf(context[th]) \in DOMAIN deadline}

\* With selective_sampling_lock as well: look at the map again and select; nothing to sample, or a
\* shutdown request, ends the cohort.
Select ==
    /\ worker = "locked"
    /\ \/ /\ SelectedThreads # {}
          /\ selected' = SelectedThreads
          /\ worker' = "capture"
       \/ /\ selected' = IF DOMAIN deadline = {} THEN selected ELSE SelectedThreads
          /\ worker' = "idle"
    /\ UNCHANGED <<now, mapVars, starter, context, scanAt>>

\* Capture and publication, with all the locks held to the end.
EndCapture ==
    /\ worker = "capture"
    /\ worker' = "idle"
    /\ UNCHANGED <<now, mapVars, starter, context, scanAt, selected>>

Next ==
    \/ Tick
    \/ \E s \in Starters : TryAddSelectiveSamplingTrace(s)
    \/ \E s \in Starters, t \in Traces \cup {TraceOf(NoSpan)} : StartReadsClock(s, t)
    \/ \E t \in Traces : RemoveSelectiveSamplingTrace(t)
    \/ \E th \in Threads, span \in Spans \cup {NoSpan} : SetNativeContext(th, span)
    \/ \E span \in Spans : NotifySpanStopped(span)
    \/ \E th \in Threads : ThreadDestroyed(th)
    \/ EnableSelective \/ PrepareReadsClock \/ Prepare \/ LockCapture \/ Select \/ EndCapture

Spec == Init /\ [][Next]_vars

----------------------------------------------------------------------------
(* Properties.                                                             *)

TypeOK ==
    /\ now \in Nat /\ nextScan \in Nat /\ scanAt \in Nat
    /\ DOMAIN deadline \subseteq Traces /\ DOMAIN inserted = DOMAIN deadline
    /\ \A t \in DOMAIN deadline : deadline[t] \in Nat /\ inserted[t] \in Nat
    /\ starter \in [Starters -> {Idle} \cup [trace : Traces, at : Nat]]
    /\ context \in [Threads -> Spans \cup {NoSpan}]
    /\ worker \in {"idle", "prepare", "lock", "locked", "capture"}
    /\ selected \subseteq Threads

\* The limit on traces sampled at once holds although the size is tested before every write and
\* several threads start traces.
TracesAreBounded == Cardinality(DOMAIN deadline) <= MaxTraces

\* While stacks are captured and published, the selected threads are exactly those now working on
\* a sampled trace: no start, stop or context change slips in behind the selection.
SelectionIsCurrent == worker = "capture" => selected = SelectedThreads /\ selected # {}

\* The worker never goes on with a trace that was entered MaxAge before its clock reading or
\* earlier, although it scans only now and then and deadlines are computed before they are entered:
\* the next scan is never put off beyond the age of an entry.
ExpiredIsDropped ==
    [][worker = "prepare" /\ worker' # "prepare" =>
         \A t \in DOMAIN deadline' : scanAt < inserted'[t] + MaxAge]_vars
=============================================================================
