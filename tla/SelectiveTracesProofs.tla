------------------------ MODULE SelectiveTracesProofs ------------------------
(***************************************************************************)
(* Proofs about SelectiveTraces, for every number of traces, threads and   *)
(* starters, every limit and every age.                                    *)
(*                                                                         *)
(* That an expired trace is never gone on with is not inductive: it needs  *)
(* the order of the clock readings (Clocks) and that the next scan is due  *)
(* before any entry grows too old, or was due already when the worker      *)
(* reads the clock (ScanCovers).                                           *)
(***************************************************************************)
EXTENDS SelectiveTraces, FiniteSetTheorems, TLAPS

\* Readings are of the past, so deadlines are no later than the age of their entry allows.
Clocks ==
    /\ scanAt <= now
    /\ \A s \in Starters : starter[s].at <= now
    /\ \A t \in DOMAIN deadline : inserted[t] <= now /\ deadline[t] <= inserted[t] + MaxAge
    /\ nextScan <= now + MaxAge

\* The earliest time at which the next scan can take place.
ScanTime == IF worker = "prepare" THEN scanAt ELSE now

ScanCovers ==
    \A t \in DOMAIN deadline : nextScan <= inserted[t] + MaxAge \/ nextScan <= ScanTime

IInv == TypeOK /\ Clocks /\ ScanCovers

\* The initial state satisfies the inductive invariant.
LEMMA InitIInv == Init => IInv
<1> SUFFICES ASSUME Init PROVE IInv
  OBVIOUS
<1>1. TypeOK
  BY DEF Init, TypeOK, Idle
<1>2. Clocks
  BY LimitsAssumption DEF Init, Clocks, Idle
<1>3. ScanCovers
  BY DEF Init, ScanCovers
<1> QED  BY <1>1, <1>2, <1>3 DEF IInv

\* Entering a trace: its deadline was computed from an earlier reading of the clock.
LEMMA AddIInv ==
    ASSUME IInv, NEW s \in Starters, TryAddSelectiveSamplingTrace(s) PROVE IInv'
<1> DEFINE t == starter[s].trace
           a == starter[s].at
<1>1. /\ t \in Traces /\ a \in Nat /\ a <= now
      /\ now \in Nat /\ MaxAge \in Nat
  BY LimitsAssumption DEF TryAddSelectiveSamplingTrace, IInv, TypeOK, Clocks
<1>2. /\ starter' = [starter EXCEPT ![s] = Idle]
      /\ now' = now /\ nextScan' = nextScan /\ context' = context
      /\ worker' = worker /\ scanAt' = scanAt /\ selected' = selected
  BY DEF TryAddSelectiveSamplingTrace
<1>3. \/ deadline' = deadline /\ inserted' = inserted
      \/ deadline' = Write(deadline, t, a + MaxAge) /\ inserted' = Write(inserted, t, now)
  BY DEF TryAddSelectiveSamplingTrace
<1>4. starter' \in [Starters -> {Idle} \cup [trace : Traces, at : Nat]]
      /\ \A u \in Starters : starter'[u].at <= now
  BY <1>1, <1>2 DEF IInv, TypeOK, Clocks, Idle
<1>5. CASE deadline' = deadline /\ inserted' = inserted
  BY <1>2, <1>4, <1>5 DEF IInv, TypeOK, Clocks, ScanCovers, ScanTime
<1>6. CASE deadline' = Write(deadline, t, a + MaxAge) /\ inserted' = Write(inserted, t, now)
  <2>1. /\ DOMAIN deadline' = DOMAIN deadline \cup {t} /\ DOMAIN inserted' = DOMAIN deadline'
        /\ deadline'[t] = a + MaxAge /\ inserted'[t] = now
        /\ \A u \in DOMAIN deadline : u # t => deadline'[u] = deadline[u] /\ inserted'[u] = inserted[u]
    <3>1. DOMAIN inserted = DOMAIN deadline
      BY DEF IInv, TypeOK
    <3> QED  BY <1>6, <3>1 DEF Write
  <2>2. \A u \in DOMAIN deadline' : deadline'[u] \in Nat /\ inserted'[u] \in Nat
    BY <1>1, <2>1 DEF IInv, TypeOK
  <2>3. TypeOK'
    BY <1>1, <1>2, <1>4, <2>1, <2>2 DEF IInv, TypeOK
  <2>4. \A u \in DOMAIN deadline' : inserted'[u] <= now /\ deadline'[u] <= inserted'[u] + MaxAge
    BY <1>1, <2>1 DEF IInv, Clocks
  <2>5. Clocks'
    BY <1>2, <1>4, <2>4 DEF IInv, Clocks
  <2>6. ScanCovers'
    BY <1>1, <1>2, <2>1 DEF IInv, Clocks, ScanCovers, ScanTime
  <2> QED  BY <2>3, <2>5, <2>6 DEF IInv
<1> QED  BY <1>3, <1>5, <1>6

\* Dropping entries keeps what holds of each entry.
LEMMA KeepIInv ==
    ASSUME IInv, NEW S,
           deadline' = Keep(deadline, S), inserted' = Keep(inserted, S)
    PROVE  /\ DOMAIN deadline' = DOMAIN deadline \cap S /\ DOMAIN inserted' = DOMAIN deadline'
           /\ \A u \in DOMAIN deadline' :
                 u \in DOMAIN deadline /\ deadline'[u] = deadline[u] /\ inserted'[u] = inserted[u]
<1>1. DOMAIN inserted = DOMAIN deadline
  BY DEF IInv, TypeOK
<1> QED  BY <1>1 DEF Keep

\* Stopping a trace drops its entry.
LEMMA RemoveIInv ==
    ASSUME IInv, NEW t \in Traces, RemoveSelectiveSamplingTrace(t) PROVE IInv'
<1>1. /\ DOMAIN deadline' \subseteq DOMAIN deadline /\ DOMAIN inserted' = DOMAIN deadline'
      /\ \A u \in DOMAIN deadline' :
            u \in DOMAIN deadline /\ deadline'[u] = deadline[u] /\ inserted'[u] = inserted[u]
  BY KeepIInv DEF RemoveSelectiveSamplingTrace
<1>2. /\ now' = now /\ nextScan' = nextScan /\ context' = context /\ starter' = starter
      /\ worker' = worker /\ scanAt' = scanAt /\ selected' = selected
  BY DEF RemoveSelectiveSamplingTrace
<1>3. TypeOK'
  BY <1>1, <1>2 DEF IInv, TypeOK
<1>4. Clocks' /\ ScanCovers'
  BY <1>1, <1>2 DEF IInv, Clocks, ScanCovers, ScanTime
<1> QED  BY <1>3, <1>4 DEF IInv

\* The scan: afterwards the entries are younger than the reading allows, and the next scan is due
\* in time for each of them.
LEMMA PrepareFacts ==
    ASSUME IInv, Prepare
    PROVE  /\ IInv'
           /\ \A t \in DOMAIN deadline' : scanAt < inserted'[t] + MaxAge
<1>1. /\ now' = now /\ starter' = starter /\ context' = context /\ selected' = selected /\ scanAt' = 0
      /\ worker = "prepare" /\ worker' \in {"idle", "lock"}
  BY DEF Prepare
<1>2. now \in Nat /\ scanAt \in Nat /\ nextScan \in Nat /\ MaxAge \in Nat
  BY LimitsAssumption DEF IInv, TypeOK
<1>3. CASE nextScan <= scanAt
  <2>1. deadline' = Keep(deadline, Live) /\ inserted' = Keep(inserted, Live)
    BY <1>3 DEF Prepare
  <2>2. /\ DOMAIN deadline' = DOMAIN deadline \cap Live /\ DOMAIN inserted' = DOMAIN deadline'
        /\ \A u \in DOMAIN deadline' :
              u \in DOMAIN deadline /\ deadline'[u] = deadline[u] /\ inserted'[u] = inserted[u]
    BY <2>1, KeepIInv
  <2>3. PICK n \in {deadline[t] : t \in Live} \cup {scanAt + MaxAge} : NextScan(n) /\ nextScan' = n
    BY <1>3 DEF Prepare
  <2>4. n \in Nat
    BY <1>2, <2>3 DEF Live, IInv, TypeOK
  <2>5. n <= scanAt + MaxAge /\ \A t \in Live : n <= deadline[t]
    BY <2>3 DEF NextScan
  <2>6. \A u \in DOMAIN deadline' : scanAt < deadline[u] /\ u \in Live
    BY <2>2 DEF Live
  <2>7. TypeOK'
    BY <1>1, <2>2, <2>3, <2>4 DEF IInv, TypeOK
  <2>8. Clocks'
    BY <1>1, <1>2, <2>2, <2>3, <2>4, <2>5 DEF IInv, TypeOK, Clocks
  <2>9. \A u \in DOMAIN deadline' : nextScan' <= inserted'[u] + MaxAge
    BY <1>2, <2>2, <2>3, <2>4, <2>5, <2>6 DEF IInv, TypeOK, Clocks
  <2>10. \A u \in DOMAIN deadline' : scanAt < inserted'[u] + MaxAge
    BY <1>2, <2>2, <2>6 DEF IInv, TypeOK, Clocks
  <2> QED  BY <2>7, <2>8, <2>9, <2>10 DEF IInv, ScanCovers
<1>4. CASE ~(nextScan <= scanAt)
  <2>1. deadline' = deadline /\ inserted' = inserted /\ nextScan' = nextScan
    BY <1>4 DEF Prepare, mapVars
  <2>2. \A u \in DOMAIN deadline : nextScan <= inserted[u] + MaxAge /\ inserted[u] \in Nat
    BY <1>1, <1>4 DEF IInv, TypeOK, ScanCovers, ScanTime
  <2>3. TypeOK' /\ Clocks'
    BY <1>1, <1>2, <2>1 DEF IInv, TypeOK, Clocks
  <2>4. ScanCovers'
    BY <2>1, <2>2 DEF ScanCovers
  <2>5. \A u \in DOMAIN deadline' : scanAt < inserted'[u] + MaxAge
    BY <1>2, <1>4, <2>1, <2>2
  <2> QED  BY <2>3, <2>4, <2>5 DEF IInv
<1> QED  BY <1>3, <1>4

\* Every step preserves the inductive invariant.
LEMMA NextIInv == IInv /\ [Next]_vars => IInv'
<1> SUFFICES ASSUME IInv, [Next]_vars PROVE IInv'
  OBVIOUS
<1>1. CASE Tick
  <2>1. TypeOK'
    BY <1>1 DEF Tick, mapVars, IInv, TypeOK
  <2>2. Clocks'
    <3>1. now \in Nat /\ now' = now + 1 /\ MaxAge \in Nat /\ nextScan \in Nat /\ scanAt \in Nat
      BY <1>1, LimitsAssumption DEF Tick, IInv, TypeOK
    <3>2. UNCHANGED <<deadline, inserted, nextScan, starter, scanAt>>
      BY <1>1 DEF Tick, mapVars
    <3>3. \A s \in Starters : starter[s].at \in Nat
      BY DEF IInv, TypeOK, Idle
    <3>4. \A s \in Starters : starter'[s].at <= now'
      BY <3>1, <3>2, <3>3 DEF IInv, Clocks
    <3>5. \A t \in DOMAIN deadline' : inserted'[t] <= now' /\ deadline'[t] <= inserted'[t] + MaxAge
      BY <3>1, <3>2 DEF IInv, TypeOK, Clocks
    <3> QED  BY <3>1, <3>2, <3>4, <3>5 DEF IInv, Clocks
  <2>3. ScanCovers'
    BY <1>1, LimitsAssumption DEF Tick, mapVars, IInv, TypeOK, ScanCovers, ScanTime
  <2> QED  BY <2>1, <2>2, <2>3 DEF IInv
<1>2. ASSUME NEW s \in Starters, TryAddSelectiveSamplingTrace(s) PROVE IInv'
  BY <1>2, AddIInv
<1>3. ASSUME NEW s \in Starters, NEW t \in Traces \cup {TraceOf(NoSpan)}, StartReadsClock(s, t)
      PROVE  IInv'
  <2>1. t \in Traces /\ now \in Nat
    BY <1>3 DEF StartReadsClock, IInv, TypeOK
  <2>2. starter' = [starter EXCEPT ![s] = [trace |-> t, at |-> now]]
    BY <1>3 DEF StartReadsClock
  <2>3. starter' \in [Starters -> {Idle} \cup [trace : Traces, at : Nat]]
        /\ \A u \in Starters : starter'[u].at <= now
    BY <2>1, <2>2 DEF IInv, TypeOK, Clocks
  <2> QED  BY <1>3, <2>3 DEF StartReadsClock, mapVars, IInv, TypeOK, Clocks, ScanCovers, ScanTime
<1>4. ASSUME NEW t \in Traces, RemoveSelectiveSamplingTrace(t) PROVE IInv'
  BY <1>4, RemoveIInv
<1>5. ASSUME NEW th \in Threads, NEW span \in Spans \cup {NoSpan}, SetNativeContext(th, span)
      PROVE  IInv'
  BY <1>5 DEF SetNativeContext, mapVars, IInv, TypeOK, Clocks, ScanCovers, ScanTime
<1>6. ASSUME NEW span \in Spans, NotifySpanStopped(span) PROVE IInv'
  BY <1>6 DEF NotifySpanStopped, mapVars, IInv, TypeOK, Clocks, ScanCovers, ScanTime
<1>7. CASE EnableSelective
  BY <1>7, LimitsAssumption DEF EnableSelective, IInv, TypeOK, Clocks, ScanCovers, ScanTime
<1>8. CASE PrepareReadsClock
  BY <1>8 DEF PrepareReadsClock, mapVars, IInv, TypeOK, Clocks, ScanCovers, ScanTime
<1>9. CASE Prepare
  BY <1>9, PrepareFacts
<1>10. CASE LockCapture \/ EndCapture
  BY <1>10 DEF LockCapture, EndCapture, mapVars, IInv, TypeOK, Clocks, ScanCovers, ScanTime
<1>11. CASE Select
  <2>1. selected' \subseteq Threads /\ worker' \in {"capture", "idle"} /\ worker = "locked"
    BY <1>11 DEF Select, SelectedThreads, IInv, TypeOK
  <2> QED  BY <1>11, <2>1 DEF Select, mapVars, IInv, TypeOK, Clocks, ScanCovers, ScanTime
<1>12. CASE UNCHANGED vars
  BY <1>12 DEF vars, mapVars, IInv, TypeOK, Clocks, ScanCovers, ScanTime
<1>13. ASSUME NEW th \in Threads, ThreadDestroyed(th) PROVE IInv'
  BY <1>13 DEF ThreadDestroyed, mapVars, IInv, TypeOK, Clocks, ScanCovers, ScanTime
<1> QED
  BY <1>1, <1>2, <1>3, <1>4, <1>5, <1>6, <1>7, <1>8, <1>9, <1>10, <1>11, <1>12, <1>13 DEF Next

\* The inductive invariant holds in every reachable state.
LEMMA AlwaysIInv == Spec => []IInv
  BY InitIInv, NextIInv, PTL DEF Spec

\* The trace map, the associations and the worker's buffers keep their types.
THEOREM TypeCorrect == Spec => []TypeOK
<1>1. IInv => TypeOK
  BY DEF IInv
<1> QED  BY <1>1, AlwaysIInv, PTL

\* HasActiveSelectiveSamplingEntries never leaves an entry MaxAge older than the worker's clock
\* reading, for every age and however the scans, starts and reconfigurations interleave.
THEOREM NoExpiredTrace == Spec => ExpiredIsDropped
<1>1. ASSUME IInv, [Next]_vars, worker = "prepare", worker' # "prepare" PROVE Prepare
  BY <1>1 DEF Next, vars, mapVars, Tick, TryAddSelectiveSamplingTrace, StartReadsClock,
              RemoveSelectiveSamplingTrace, SetNativeContext, NotifySpanStopped, ThreadDestroyed,
              EnableSelective, PrepareReadsClock, LockCapture, Select, EndCapture
<1>2. IInv /\ [Next]_vars =>
        (worker = "prepare" /\ worker' # "prepare" =>
           \A t \in DOMAIN deadline' : scanAt < inserted'[t] + MaxAge)
  BY <1>1, PrepareFacts
<1> QED  BY <1>2, AlwaysIInv, PTL DEF Spec, ExpiredIsDropped

\* CaptureSamples captures and publishes exactly the threads that work on a sampled trace: the
\* span-context and selective-sampling locks keep the selection current to the end.
THEOREM CurrentSelection == Spec => []SelectionIsCurrent
<1>1. Init => SelectionIsCurrent
  BY DEF Init, SelectionIsCurrent
<1>2. SelectionIsCurrent /\ [Next]_vars => SelectionIsCurrent'
  <2> SUFFICES ASSUME SelectionIsCurrent, [Next]_vars PROVE SelectionIsCurrent'
    OBVIOUS
  <2>1. CASE Select
    BY <2>1 DEF Select, mapVars, SelectionIsCurrent, SelectedThreads
  <2>2. CASE ~Select /\ worker' = "capture"
    <3>1. UNCHANGED <<worker, context, deadline, selected>>
      BY <2>2 DEF Next, vars, mapVars, Tick, TryAddSelectiveSamplingTrace, StartReadsClock,
                  RemoveSelectiveSamplingTrace, SetNativeContext, NotifySpanStopped,
                  ThreadDestroyed, EnableSelective, PrepareReadsClock, Prepare, LockCapture, EndCapture,
                  SelectiveLockFree, SpanLockFree
    <3> QED  BY <2>2, <3>1 DEF SelectionIsCurrent, SelectedThreads
  <2>3. CASE worker' # "capture"
    BY <2>3 DEF SelectionIsCurrent
  <2> QED  BY <2>1, <2>2, <2>3
<1> QED  BY <1>1, <1>2, PTL DEF Spec

\* What is inductive: the map is finite, and within the limit.
Bounded == IsFiniteSet(DOMAIN deadline) /\ Cardinality(DOMAIN deadline) <= MaxTraces

\* The limit of TryAddSelectiveSamplingTrace bounds the traces sampled at once.
THEOREM BoundedTraces == Spec => []TracesAreBounded
<1>1. Init => Bounded
  <2> SUFFICES ASSUME Init PROVE Bounded
    OBVIOUS
  <2>1. DOMAIN deadline = {}
    BY DEF Init
  <2> QED  BY <2>1, FS_EmptySet, LimitsAssumption DEF Bounded
<1>2. Bounded /\ [Next]_vars => Bounded'
  <2> SUFFICES ASSUME Bounded, [Next]_vars PROVE Bounded'
    OBVIOUS
  <2> DEFINE D == DOMAIN deadline
  <2>1. Cardinality(D) \in Nat
    BY FS_CardinalityType DEF Bounded
  <2>2. ASSUME NEW S, S \subseteq D, DOMAIN deadline' = S PROVE Bounded'
    <3>1. IsFiniteSet(S) /\ Cardinality(S) <= Cardinality(D) /\ Cardinality(S) \in Nat
      BY <2>2, FS_Subset, FS_CardinalityType DEF Bounded
    <3> QED  BY <2>1, <2>2, <3>1, LimitsAssumption DEF Bounded
  <2>3. ASSUME NEW s \in Starters, TryAddSelectiveSamplingTrace(s) PROVE Bounded'
    <3>1. CASE deadline' = deadline
      BY <3>1 DEF Bounded
    <3>2. CASE ~IsFull /\ deadline' = Write(deadline, starter[s].trace, starter[s].at + MaxAge)
      <4>1. DOMAIN deadline' = D \cup {starter[s].trace}
        BY <3>2 DEF Write
      <4>2. Cardinality(D) < MaxTraces
        BY <2>1, <3>2, LimitsAssumption DEF IsFull
      <4>3. /\ IsFiniteSet(D \cup {starter[s].trace})
            /\ \/ Cardinality(D \cup {starter[s].trace}) = Cardinality(D)
               \/ Cardinality(D \cup {starter[s].trace}) = Cardinality(D) + 1
        BY FS_AddElement DEF Bounded
      <4> QED  BY <2>1, <4>1, <4>2, <4>3, LimitsAssumption DEF Bounded
    <3> QED  BY <2>3, <3>1, <3>2 DEF TryAddSelectiveSamplingTrace
  <2>4. ASSUME NEW t \in Traces, RemoveSelectiveSamplingTrace(t) PROVE Bounded'
    <3>1. DOMAIN deadline' = D \ {t}
      BY <2>4 DEF RemoveSelectiveSamplingTrace, Keep
    <3> QED  BY <2>2, <3>1
  <2>5. CASE Prepare
    <3>1. DOMAIN deadline' = D \cap Live \/ DOMAIN deadline' = D
      BY <2>5 DEF Prepare, mapVars, Keep
    <3> QED  BY <2>2, <3>1
  <2>6. CASE deadline' = deadline
    BY <2>6 DEF Bounded
  <2> QED
    BY <2>3, <2>4, <2>5, <2>6
       DEF Next, vars, mapVars, Tick, StartReadsClock, SetNativeContext, NotifySpanStopped,
           ThreadDestroyed, EnableSelective, PrepareReadsClock, LockCapture, Select, EndCapture
<1>3. Bounded => TracesAreBounded
  BY DEF Bounded, TracesAreBounded
<1> QED  BY <1>1, <1>2, <1>3, PTL DEF Spec
=============================================================================
