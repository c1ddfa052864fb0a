----------------------------- MODULE ThreadStacks -----------------------------
(***************************************************************************)
(* ThreadStacksBuffer and the capture that fills it                        *)
(* (continuous_profiler.cpp): the sampling worker keeps the frame storage  *)
(* of a cohort's threads for the next cohort, under one budget of frames   *)
(* for all of them. Storage is prepared before the threads are suspended   *)
(* and grows while they are; any allocation may fail with std::bad_alloc   *)
(* or return more than was asked for.                                      *)
(*                                                                         *)
(* A stack is its number of frames and its capacity. The loop over the     *)
(* active threads is one step per thread, in any order, because an         *)
(* allocation can fail in the middle of it.                                *)
(***************************************************************************)
EXTENDS Integers, FiniteSets

CONSTANTS Threads,                \* managed thread identifiers
          NoThread,
          MaximumFramesPerStack,
          MaximumFrameCapacity,   \* the budget of all stacks together
          MaximumThreads,
          InitialStackFrames      \* kInitialStackFrameCapacity

\* Of the real values (512, 32768, 1024, 80) the code relies on these facts.
ASSUME LimitsAssumption ==
    /\ IsFiniteSet(Threads) /\ NoThread \notin Threads
    /\ {MaximumFramesPerStack, MaximumFrameCapacity, MaximumThreads, InitialStackFrames}
          \subseteq Nat \ {0}
    /\ InitialStackFrames <= MaximumFramesPerStack
    /\ MaximumThreads <= MaximumFrameCapacity

VARIABLES
    stacks,          \* stacks_: thread -> its frames and capacity
    frameCapacity,   \* frameCapacity_
    cached,          \* cachedThread_, or NoThread where cachedStack_ is null
    active,          \* the threads of the cohort
    pending,         \* those the loop of PrepareForCapture has not reached
    intact,          \* history: no allocation of this preparation has failed
    shutdown,        \* the shutdown token
    stage            \* where the sampling worker is

buffer == <<stacks, frameCapacity, cached>>
stackVars == <<buffer, active, pending, intact, shutdown, stage>>

AtMost(a, b) == IF a <= b THEN a ELSE b
AtLeast(a, b) == IF a >= b THEN a ELSE b

\* The frames the stacks of some threads have room for; the sum of their capacities is their number.
FrameSlots(T) == {s \in T \X (1 .. MaximumFramesPerStack) : s[2] <= stacks[s[1]].capacity}
Capacity(T) == Cardinality(FrameSlots(T))
EmptyStack == [frames |-> 0, capacity |-> 0]

\* The threads storage is planned for, and the share of each.
ThreadCount(A) == AtMost(Cardinality(A), MaximumThreads)
InitialCapacity(A) ==
    IF A = {} THEN InitialStackFrames
    ELSE AtMost(InitialStackFrames, MaximumFrameCapacity \div ThreadCount(A))

\* Mutant: growth ignores what is left of the budget.
MutantBoundedCapacity(limit) == MaximumFramesPerStack

\* TryReserveStackFrame: the most it accepts, the capacity it asks for, and whether it asks at all.
BoundedCapacity(limit) == AtMost(MaximumFramesPerStack, limit)
NextCapacity(s, limit) ==
    AtMost(BoundedCapacity(limit), AtLeast(InitialStackFrames, 2 * s.capacity))
MayGrow(s, limit) ==
    s.frames < MaximumFramesPerStack /\ NextCapacity(s, limit) > s.capacity

-----------------------------------------------------------------------------
StacksInit ==
    /\ stacks = [t \in {} |-> EmptyStack] /\ frameCapacity = 0 /\ cached = NoThread
    /\ active = {} /\ pending = {} /\ intact = TRUE
    /\ shutdown = FALSE /\ stage = "idle"

RequestShutdown ==
    /\ ~shutdown /\ shutdown' = TRUE
    /\ UNCHANGED <<buffer, active, pending, intact, stage>>

\* PrepareForCapture up to its loop: entries of other threads and empty ones are evicted; if what is
\* left would keep a thread out, oversized storage is given back.
Kept(A) == {t \in DOMAIN stacks \cap A : stacks[t].capacity > 0}
Crowded(A) ==
    (ThreadCount(A) - Cardinality(Kept(A))) * InitialCapacity(A)
        > MaximumFrameCapacity - Capacity(Kept(A))

\* Mutant: oversized storage of earlier cohorts is never given back.
MutantReclaimed(A) == {}
Reclaimed(A) ==
    IF Crowded(A) THEN {t \in Kept(A) : stacks[t].capacity > InitialCapacity(A)} ELSE {}

Prepare(A) ==
    /\ stage = "idle" /\ ~shutdown
    /\ stacks' = [t \in Kept(A) |-> IF t \in Reclaimed(A) THEN EmptyStack ELSE stacks[t]]
    /\ frameCapacity' = frameCapacity - Capacity((DOMAIN stacks \ Kept(A)) \cup Reclaimed(A))
    /\ cached' = NoThread
    /\ active' = A /\ pending' = A /\ intact' = TRUE
    /\ stage' = "prepare"
    /\ UNCHANGED shutdown

\* The loop's test for a thread without an entry.
Refused(t) ==
    /\ t \notin DOMAIN stacks
    /\ Cardinality(DOMAIN stacks) >= MaximumThreads \/ frameCapacity >= MaximumFrameCapacity
Entry(t) == IF t \in DOMAIN stacks THEN stacks[t] ELSE EmptyStack
WithStack(t, s) == [u \in DOMAIN stacks \cup {t} |-> IF u = t THEN s ELSE stacks[u]]
ReserveLimit == AtMost(InitialCapacity(active), MaximumFrameCapacity - frameCapacity)

Visit(t) == stage = "prepare" /\ t \in pending /\ pending' = pending \ {t}

\* No entry, or storage that is already there.
SkipThread(t) ==
    /\ Visit(t)
    /\ \/ Refused(t) /\ UNCHANGED buffer
       \/ /\ ~Refused(t) /\ (Entry(t).capacity > 0 \/ ~MayGrow(Entry(t), ReserveLimit))
          /\ stacks' = WithStack(t, Entry(t)) /\ UNCHANGED <<frameCapacity, cached>>
    /\ UNCHANGED <<active, intact, shutdown, stage>>

Wanting(t) ==
    /\ Visit(t) /\ ~Refused(t)
    /\ Entry(t).capacity = 0 /\ MayGrow(Entry(t), ReserveLimit)

\* The limit is at most InitialStackFrames, so all of it is asked for and nothing larger accepted.
ReserveThread(t) ==
    LET capacity == NextCapacity(Entry(t), ReserveLimit) IN
    /\ Wanting(t)
    /\ stacks' = WithStack(t, [frames |-> 0, capacity |-> capacity])
    /\ frameCapacity' = frameCapacity + capacity
    /\ UNCHANGED <<cached, active, intact, shutdown, stage>>

\* reserve() gave more than was asked for: the storage is dropped, the empty entry stays.
ReserveTooMuch(t) ==
    /\ Wanting(t)
    /\ stacks' = WithStack(t, Entry(t)) /\ intact' = FALSE
    /\ UNCHANGED <<frameCapacity, cached, active, shutdown, stage>>

\* try_emplace or reserve() throws: CaptureSamples catches it, nothing is walked.
ReserveThrows(t) ==
    /\ Visit(t) /\ ~Refused(t) /\ Entry(t).capacity = 0
    /\ stacks' \in {stacks, WithStack(t, Entry(t))} /\ intact' = FALSE
    /\ stage' = "finish"
    /\ UNCHANGED <<frameCapacity, cached, active, shutdown>>

Walk ==
    /\ stage = "prepare" /\ pending = {} /\ stage' = "walk"
    /\ UNCHANGED <<buffer, active, pending, intact, shutdown>>

-----------------------------------------------------------------------------
\* The frame callback, TryPrepareFrame first. Frames of a thread without an entry are skipped.
Walking(t) == stage = "walk" /\ ~shutdown /\ t \in active
Room(t) == stacks[t].frames < stacks[t].capacity
GrowLimit(t) == stacks[t].capacity + MaximumFrameCapacity - frameCapacity
Push(t) == [stacks EXCEPT ![t].frames = @ + 1]

Frame(t) ==
    /\ Walking(t) /\ t \in DOMAIN stacks /\ Room(t)
    /\ stacks' = Push(t) /\ cached' = t
    /\ UNCHANGED <<frameCapacity, active, pending, intact, shutdown, stage>>

\* reserve() may give more than was asked for; what is accepted is charged at its actual size.
Grow(t) ==
    /\ Walking(t) /\ t \in DOMAIN stacks /\ ~Room(t) /\ MayGrow(stacks[t], GrowLimit(t))
    /\ \E capacity \in NextCapacity(stacks[t], GrowLimit(t)) .. BoundedCapacity(GrowLimit(t)) :
          /\ stacks' = [Push(t) EXCEPT ![t].capacity = capacity]
          /\ frameCapacity' = frameCapacity + capacity - stacks[t].capacity
    /\ cached' = t
    /\ UNCHANGED <<active, pending, intact, shutdown, stage>>

\* A full stack, an exhausted budget or reserve() giving too much: the frame is dropped and the
\* walk goes on.
DropFrame(t) ==
    /\ Walking(t) /\ t \in DOMAIN stacks /\ ~Room(t)
    /\ cached' = t
    /\ UNCHANGED <<stacks, frameCapacity, active, pending, intact, shutdown, stage>>

\* Growing throws: CaptureStacks turns it into a failure that is not a cancellation.
GrowThrows(t) ==
    /\ Walking(t) /\ t \in DOMAIN stacks /\ ~Room(t) /\ MayGrow(stacks[t], GrowLimit(t))
    /\ cached' = t /\ stage' = "finish"
    /\ UNCHANGED <<stacks, frameCapacity, active, pending, intact, shutdown>>

EndWalk ==
    /\ stage = "walk" /\ ~shutdown /\ stage' = "finish"
    /\ UNCHANGED <<buffer, active, pending, intact, shutdown>>

\* Publication, then Reset at the end of the worker's cycle.
ResetStacks == [t \in DOMAIN stacks |-> [stacks[t] EXCEPT !.frames = 0]]
Finish ==
    /\ stage = "finish" /\ ~shutdown
    /\ stacks' = ResetStacks /\ stage' = "idle"
    /\ UNCHANGED <<frameCapacity, cached, active, pending, intact, shutdown>>

\* A shutdown seen in CaptureFunctionIdentifiersForThreads, in a frame callback or before the
\* publication of frames clears the buffer; seen elsewhere it just ends the worker.
Cancel ==
    /\ shutdown /\ stage \in {"idle", "walk", "finish"}
    /\ stacks' = [t \in {} |-> EmptyStack] /\ frameCapacity' = 0 /\ cached' = NoThread
    /\ stage' = "exit"
    /\ UNCHANGED <<active, pending, intact, shutdown>>
Leave ==
    /\ shutdown /\ stage \in {"idle", "finish"} /\ stage' = "exit"
    /\ UNCHANGED <<buffer, active, pending, intact, shutdown>>

StacksNext ==
    \/ RequestShutdown \/ Walk \/ EndWalk \/ Finish \/ Cancel \/ Leave
    \/ \E A \in SUBSET Threads : Prepare(A)
    \/ \E t \in Threads : \/ SkipThread(t) \/ ReserveThread(t) \/ ReserveTooMuch(t)
                          \/ ReserveThrows(t) \/ Frame(t) \/ Grow(t) \/ DropFrame(t)
                          \/ GrowThrows(t)

StacksSpec == StacksInit /\ [][StacksNext]_stackVars

-----------------------------------------------------------------------------
\* The buffer keeps its types.
StacksTypeOK ==
    /\ DOMAIN stacks \subseteq Threads
    /\ \A t \in DOMAIN stacks : /\ stacks[t] \in [frames : Nat, capacity : Nat]
                                /\ stacks[t].frames <= stacks[t].capacity
                                /\ stacks[t].capacity <= MaximumFramesPerStack
    /\ frameCapacity \in Nat
    /\ cached \in Threads \cup {NoThread}
    /\ active \subseteq Threads /\ pending \subseteq active
    /\ intact \in BOOLEAN /\ shutdown \in BOOLEAN
    /\ stage \in {"idle", "prepare", "walk", "finish", "exit"}

\* frameCapacity_ is the capacity of all stacks, whatever was evicted, reclaimed, grown or
\* interrupted, each stack stays within its storage and the cache within its two limits. With it
\* none of the unsigned differences with frameCapacity_ wraps.
BudgetIsExact ==
    /\ StacksTypeOK
    /\ frameCapacity = Capacity(DOMAIN stacks)
    /\ frameCapacity <= MaximumFrameCapacity
    /\ Cardinality(DOMAIN stacks) <= MaximumThreads

\* "Reserve fairly across the cohort" (continuous_profiler.cpp:994): when the threads are about to
\* be suspended no stack holds a frame of an earlier cohort, no other thread has an entry, and,
\* unless an allocation failed, as many threads of the cohort as the limit admits can record
\* at least one frame, however much of the budget earlier cohorts had taken. At all times the cached
\* stack is one of the map, so that TryPrepareFrame never writes through a pointer to an evicted
\* entry.
CohortIsReady ==
    /\ cached \in DOMAIN stacks \cup {NoThread}
    /\ stage = "prepare" =>
          /\ DOMAIN stacks \subseteq active
          /\ \A t \in DOMAIN stacks : stacks[t].frames = 0
    /\ stage = "prepare" /\ pending = {} /\ intact =>
          Cardinality({t \in DOMAIN stacks : stacks[t].capacity > 0}) = ThreadCount(active)
=============================================================================
