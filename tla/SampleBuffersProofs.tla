------------------------- MODULE SampleBuffersProofs -------------------------
(***************************************************************************)
(* Proofs about the storage a capture goes through, for all sizes, bounds  *)
(* and threads.                                                            *)
(*                                                                         *)
(* SampleBuffers: the room the worker saw before a capture is there after  *)
(* it, no read cuts what was buffered, and the two slots are a queue. The  *)
(* strengthening says that the slots fill and empty from the front and     *)
(* that the serialiser's limit holds for every batch on its way to the     *)
(* reader.                                                                 *)
(*                                                                         *)
(* ThreadStacks: the frame budget is exact and a cohort has its storage    *)
(* before its threads are suspended. Capacities are counts of frame slots, *)
(* so that they add up by the cardinality of disjoint unions; what makes   *)
(* the cohort's share inductive is RoomForRest.                            *)
(***************************************************************************)
EXTENDS SampleBuffers, ThreadStacks, SequenceTheorems, FiniteSetTheorems, TLAPS

\* The second slot is used only behind the first.
FrontFirst == slotA = NoBatch => slotB = NoBatch

\* What is on its way to the reader was within the serialiser's limit.
WithinLimit ==
    /\ slotA.size <= MaximumSize /\ slotB.size <= MaximumSize
    /\ taken # <<>> => taken[1].size <= MaximumSize

IInv == TypeOK /\ FrontFirst /\ RoomIsReserved /\ WithinLimit

\* A published batch is a batch and never looks like an empty slot.
LEMMA NewBatch ==
    ASSUME NEW n \in Nat, NEW size \in Sizes, NEW i \in Intervals
    PROVE  /\ [id |-> n + 1, size |-> size, interval |-> i] \in Batch
           /\ [id |-> n + 1, size |-> size, interval |-> i] # NoBatch
BY SizesAssumption DEF Batch, NoBatch

\* The empty sequence has the types it is used with.
LEMMA EmptySequence ==
    <<>> \in Seq(Batch) /\ <<>> \in Seq(Nat) /\ Len(<<>>) = 0
OBVIOUS

\* IInv holds initially.
LEMMA InitInv == Init => IInv
<1> SUFFICES ASSUME Init PROVE IInv
    OBVIOUS
<1> USE SizesAssumption DEF Init, NoBatch
<1>1. TypeOK
    <2>1. 0 \in 0..MaximumSize /\ 0 \in 0..(MaximumSize - 1)
        OBVIOUS
    <2>2. saturated \in BOOLEAN
        BY Zenon
    <2>3. slotA \in Batch \cup {NoBatch} /\ slotB \in Batch \cup {NoBatch}
        BY Zenon
    <2> QED BY <2>1, <2>2, <2>3, EmptySequence DEF TypeOK
<1>2. FrontFirst /\ RoomIsReserved /\ WithinLimit
    BY DEF FrontFirst, RoomIsReserved, WithinLimit
<1> QED BY <1>1, <1>2 DEF IInv

\* Publishing fills the first free slot, which the test before the capture has reserved.
LEMMA PublishKeeps ==
    ASSUME IInv, NEW size \in Sizes, PublishAllThreads(size)
    PROVE  IInv'
<1> DEFINE b == [id |-> recorded + 1, size |-> size, interval |-> interval]
<1>1. /\ b \in Batch /\ b # NoBatch /\ b.size <= MaximumSize
    BY NewBatch, SizesAssumption DEF IInv, TypeOK, PublishAllThreads, Overflows
<1>2. /\ slotA' = IF slotA = NoBatch THEN b ELSE slotA
      /\ slotB' = IF slotA # NoBatch /\ slotB = NoBatch THEN b ELSE slotB
    BY DEF PublishAllThreads, Record
<1> HIDE DEF b
<1>3. TypeOK'
    BY <1>1, <1>2 DEF IInv, TypeOK, PublishAllThreads, selVars, readVars
<1>4. FrontFirst' /\ RoomIsReserved'
    BY <1>1, <1>2 DEF IInv, FrontFirst, RoomIsReserved, PublishAllThreads
<1>5. WithinLimit'
    BY <1>1, <1>2 DEF IInv, WithinLimit, PublishAllThreads, readVars
<1> QED BY <1>3, <1>4, <1>5 DEF IInv

\* A batch of selected threads is appended only where it fits.
LEMMA SelectedKeeps ==
    ASSUME IInv, NEW size \in Sizes, PublishSelectedThreads(size)
    PROVE  IInv'
<1>1. TypeOK'
    <2>1. /\ bytes' \in 0..MaximumSize /\ saturated' \in BOOLEAN /\ held' \in Seq(Nat)
          /\ offered' \in Nat
        <3>1. CASE saturated \/ bytes + size > MaximumSize
            <4>1. saturated' = TRUE /\ bytes' = bytes /\ held' = held
                BY <3>1 DEF PublishSelectedThreads, Discard
            <4>2. offered' \in Nat
                BY DEF IInv, TypeOK, PublishSelectedThreads
            <4> QED BY <4>1, <4>2 DEF IInv, TypeOK
        <3>2. CASE ~(saturated \/ bytes + size > MaximumSize)
            <4>1. bytes' \in 0..MaximumSize /\ offered' \in Nat
                BY <3>2, SizesAssumption DEF IInv, TypeOK, PublishSelectedThreads
            <4>2. held' \in Seq(Nat)
                <5>1. held' = Append(held, offered')
                    BY <3>2 DEF PublishSelectedThreads
                <5>2. held \in Seq(Nat)
                    BY DEF IInv, TypeOK
                <5> QED BY <4>1, <5>1, <5>2
            <4>3. saturated' = (bytes' = MaximumSize)
                BY <3>2 DEF PublishSelectedThreads
            <4>4. saturated' \in BOOLEAN
                BY <4>3, Zenon
            <4> QED BY <4>1, <4>2, <4>4
        <3> QED BY <3>1, <3>2
    <2> QED BY <2>1 DEF IInv, TypeOK, PublishSelectedThreads, cpuVars, readVars
<1>2. FrontFirst' /\ RoomIsReserved' /\ WithinLimit'
    BY DEF IInv, FrontFirst, RoomIsReserved, WithinLimit, PublishSelectedThreads, cpuVars, readVars
<1> QED BY <1>1, <1>2 DEF IInv

\* The reader empties the slots from the front and clears the byte buffers.
LEMMA ReadersKeep ==
    ASSUME IInv, TakeBatch \/ CopyBatch \/ ReadSelected \/ ReadAllocations
    PROVE  IInv'
<1>1. CASE TakeBatch
    <2>1. slotA \in Batch /\ slotA.size <= MaximumSize
        BY <1>1 DEF IInv, TypeOK, WithinLimit, TakeBatch, Ready
    <2>2. taken' \in Seq(Batch) /\ Len(taken') <= 1 /\ taken'[1].size <= MaximumSize
        BY <1>1, <2>1 DEF TakeBatch
    <2>3. TypeOK'
        BY <1>1, <2>2 DEF IInv, TypeOK, TakeBatch, MoveUp, selVars
    <2>4. FrontFirst' /\ RoomIsReserved'
        BY <1>1 DEF IInv, FrontFirst, RoomIsReserved, TakeBatch, MoveUp
    <2>5. WithinLimit'
        BY <1>1, <2>2, SizesAssumption DEF IInv, WithinLimit, TakeBatch, MoveUp, NoBatch
    <2> QED BY <2>3, <2>4, <2>5 DEF IInv
<1>2. CASE CopyBatch
    <2>1. taken[1] \in Batch
        BY <1>2 DEF IInv, TypeOK, CopyBatch
    <2>2. delivered' \in Seq(Batch) /\ taken' \in Seq(Batch) /\ Len(taken') <= 1
        BY <1>2, <2>1 DEF IInv, TypeOK, CopyBatch
    <2>3. TypeOK'
        BY <1>2, <2>2 DEF IInv, TypeOK, CopyBatch, cpuVars, selVars
    <2>4. FrontFirst' /\ RoomIsReserved' /\ WithinLimit'
        BY <1>2 DEF IInv, FrontFirst, RoomIsReserved, WithinLimit, CopyBatch, cpuVars
    <2> QED BY <2>3, <2>4 DEF IInv
<1>3. CASE ReadSelected \/ ReadAllocations
    <2>1. TypeOK'
        <3>1. 0 \in 0..MaximumSize /\ 0 \in 0..(MaximumSize - 1)
            BY SizesAssumption
        <3> QED BY <1>3, <3>1, EmptySequence
                DEF IInv, TypeOK, ReadSelected, ReadAllocations, cpuVars, selVars, readVars
    <2>2. FrontFirst' /\ RoomIsReserved' /\ WithinLimit'
        BY <1>3 DEF IInv, FrontFirst, RoomIsReserved, WithinLimit, ReadSelected, ReadAllocations,
                    cpuVars, readVars
    <2> QED BY <2>1, <2>2 DEF IInv
<1> QED BY <1>1, <1>2, <1>3

\* Every step preserves IInv.
LEMMA NextInv == IInv /\ [Next]_vars => IInv'
<1> SUFFICES ASSUME IInv, [Next]_vars PROVE IInv'
    OBVIOUS
<1>1. ASSUME NEW i \in Intervals, BeginAllThreads(i) PROVE IInv'
    <2>1. TypeOK'
        BY <1>1 DEF IInv, TypeOK, BeginAllThreads, cpuVars, selVars, readVars
    <2>2. FrontFirst' /\ RoomIsReserved' /\ WithinLimit'
        BY <1>1 DEF IInv, FrontFirst, RoomIsReserved, WithinLimit, BeginAllThreads, HasRoom, cpuVars,
                    readVars
    <2> QED BY <2>1, <2>2 DEF IInv
<1>2. CASE BeginSelectedThreads \/ PublishNothing
    <2>1. TypeOK'
        BY <1>2 DEF IInv, TypeOK, BeginSelectedThreads, PublishNothing, cpuVars, selVars, readVars
    <2>2. FrontFirst' /\ RoomIsReserved' /\ WithinLimit'
        BY <1>2 DEF IInv, FrontFirst, RoomIsReserved, WithinLimit, BeginSelectedThreads,
                    PublishNothing, cpuVars, readVars
    <2> QED BY <2>1, <2>2 DEF IInv
<1>3. ASSUME NEW size \in Sizes, AppendAllocation(size) PROVE IInv'
    <2>1. allocBytes' \in 0..(MaximumSize - 1)
        BY <1>3, SizesAssumption DEF IInv, TypeOK, AppendAllocation, AllocationFull
    <2>2. TypeOK'
        BY <1>3, <2>1 DEF IInv, TypeOK, AppendAllocation, cpuVars, selVars, readVars
    <2>3. FrontFirst' /\ RoomIsReserved' /\ WithinLimit'
        BY <1>3 DEF IInv, FrontFirst, RoomIsReserved, WithinLimit, AppendAllocation, cpuVars, readVars
    <2> QED BY <2>2, <2>3 DEF IInv
<1>4. CASE UNCHANGED vars
    <2>1. TypeOK'
        BY <1>4 DEF IInv, TypeOK, vars, cpuVars, selVars, readVars
    <2>2. FrontFirst' /\ RoomIsReserved' /\ WithinLimit'
        BY <1>4 DEF IInv, FrontFirst, RoomIsReserved, WithinLimit, vars, cpuVars, readVars
    <2> QED BY <2>1, <2>2 DEF IInv
<1> QED BY <1>1, <1>2, <1>3, <1>4, PublishKeeps, SelectedKeeps, ReadersKeep DEF Next

\* IInv holds in every reachable state.
LEMMA Invariant == Spec => []IInv
BY InitInv, NextInv, PTL DEF Spec

\* Each variable keeps its type; the byte counts stay within kSamplesBufferMaximumSize.
THEOREM TypeCorrect == Spec => []TypeOK
<1>1. IInv => TypeOK
    BY DEF IInv
<1> QED BY <1>1, Invariant, PTL

\* The room ThreadSamplingShouldProduceThreadSample saw is still there when the finished batch is
\* recorded: the branch that drops it is dead code with one producer.
THEOREM RoomReserved == Spec => []RoomIsReserved
<1>1. IInv => RoomIsReserved
    BY DEF IInv
<1> QED BY <1>1, Invariant, PTL

\* Whatever the reader takes fits its buffer, as long as BufferProcessor's buffer is at least as
\* long as the native limit.
THEOREM NothingCut == Spec => []NothingIsCut
<1>1. IInv => NothingIsCut
    <2> SUFFICES ASSUME IInv PROVE NothingIsCut
        OBVIOUS
    <2>1. taken # <<>> => taken[1] \in Batch
        BY DEF IInv, TypeOK
    <2>2. taken # <<>> => taken[1].size \in Nat
        BY <2>1 DEF Batch
    <2> QED BY <2>2, SizesAssumption DEF IInv, TypeOK, WithinLimit, NothingIsCut
<1> QED BY <1>1, Invariant, PTL

\* No finished batch of all threads is lost between the capture and the reader: the branch of the
\* serialiser that drops one is dead, and the reader's buffer is never too short for a record.
THEOREM NothingLost == Spec => []NothingIsLost
<1>1. RoomIsReserved /\ NothingIsCut => NothingIsLost
    BY DEF NothingIsLost
<1> QED BY <1>1, RoomReserved, NothingCut, PTL

\* A step that leaves the selected-threads buffer alone leaves no gap in it.
LEMMA UntouchedHasNoGap ==
    ASSUME NoGapInSelected, UNCHANGED selVars
    PROVE  NoGapInSelected'
BY DEF NoGapInSelected, selVars

\* A published batch of selected threads is appended right behind its predecessor or not at all.
LEMMA PublishLeavesNoGap ==
    ASSUME TypeOK, NoGapInSelected, NEW size \in Sizes, PublishSelectedThreads(size)
    PROVE  NoGapInSelected'
<1>1. held \in Seq(Nat) /\ offered \in Nat /\ offered' = offered + 1
    BY DEF TypeOK, PublishSelectedThreads
<1>2. CASE saturated \/ bytes + size > MaximumSize
    BY <1>2 DEF PublishSelectedThreads, Discard, NoGapInSelected
<1>3. CASE ~(saturated \/ bytes + size > MaximumSize)
    <2>1. held' = Append(held, offered + 1)
        BY <1>1, <1>3 DEF PublishSelectedThreads
    <2>2. Len(held') = Len(held) + 1 /\ held'[Len(held')] = offered'
        BY <1>1, <2>1
    <2>3. ASSUME NEW i \in 1..(Len(held') - 1) PROVE held'[i + 1] = held'[i] + 1
        <3>1. CASE i = Len(held)
            BY <1>1, <1>3, <2>1, <2>2, <3>1 DEF NoGapInSelected
        <3>2. CASE i # Len(held)
            <4>1. i \in 1..(Len(held) - 1)
                BY <1>1, <2>2, <3>2
            <4> QED BY <1>1, <2>1, <4>1 DEF NoGapInSelected
        <3> QED BY <3>1, <3>2
    <2> QED BY <2>2, <2>3 DEF NoGapInSelected
<1> QED BY <1>2, <1>3

\* What one read of the selected-threads buffer returns is a run of consecutive batches, for every
\* size limit and any number of batches: SelectiveSamplingRecordProducedThreadSample refuses
\* everything behind a batch it had to discard until the next read.
THEOREM NoGap == Spec => []NoGapInSelected
<1>1. Init => NoGapInSelected
    BY EmptySequence DEF Init, NoGapInSelected
<1>2. TypeOK /\ NoGapInSelected /\ [Next]_vars => NoGapInSelected'
    <2> SUFFICES ASSUME TypeOK, NoGapInSelected, [Next]_vars PROVE NoGapInSelected'
        OBVIOUS
    <2>1. CASE ReadSelected
        BY <2>1, EmptySequence DEF ReadSelected, NoGapInSelected
    <2>2. CASE \E size \in Sizes : PublishSelectedThreads(size)
        BY <2>2, PublishLeavesNoGap
    <2>3. CASE /\ ~ReadSelected
               /\ ~\E size \in Sizes : PublishSelectedThreads(size)
        <3>1. UNCHANGED selVars
            BY <2>3 DEF Next, vars, BeginAllThreads, BeginSelectedThreads, PublishNothing,
                        PublishAllThreads, AppendAllocation, TakeBatch, CopyBatch, ReadAllocations
        <3> QED BY <3>1, UntouchedHasNoGap
    <2> QED BY <2>1, <2>2, <2>3
<1> QED BY <1>1, <1>2, TypeCorrect, PTL DEF Spec
----------------------------------------------------------------------------
\* Two sequences of one element, one behind the other.
LEMMA TwoElements ==
    ASSUME NEW a, NEW b
    PROVE  <<a>> \o <<b>> = <<a, b>>
<1> DEFINE S == {a, b}
<1>1. <<a>> \in Seq(S) /\ <<b>> \in Seq(S) /\ <<a, b>> \in Seq(S)
    OBVIOUS
<1> HIDE DEF S
<1>2. Len(<<a>> \o <<b>>) = 2 /\ <<a>> \o <<b>> \in Seq(S)
    BY <1>1
<1>3. (<<a>> \o <<b>>)[1] = a /\ (<<a>> \o <<b>>)[2] = b
    BY <1>1, <1>2
<1>4. Len(<<a, b>>) = 2 /\ <<a, b>>[1] = a /\ <<a, b>>[2] = b
    OBVIOUS
<1>5. \A i \in 1..2 : (<<a>> \o <<b>>)[i] = <<a, b>>[i]
    BY <1>3, <1>4
<1> QED BY <1>1, <1>2, <1>4, <1>5, SeqEqual

\* The three shapes of the two slots when they fill from the front.
LEMMA SlotShapes ==
    ASSUME FrontFirst
    PROVE  /\ slotA = NoBatch => Slots = <<>>
           /\ slotA # NoBatch /\ slotB = NoBatch => Slots = <<slotA>>
           /\ slotA # NoBatch /\ slotB # NoBatch => Slots = <<slotA, slotB>>
<1>1. slotA = NoBatch => Slots = <<>>
    BY DEF FrontFirst, Slots, Occupied
<1>2. slotA # NoBatch /\ slotB = NoBatch => Slots = <<slotA>>
    BY DEF Slots, Occupied
<1>3. slotA # NoBatch /\ slotB # NoBatch => Slots = <<slotA, slotB>>
    BY TwoElements DEF Slots, Occupied
<1> QED BY <1>1, <1>2, <1>3

\* Publishing is Put: the room that was tested is still there, so the batch goes to the end.
LEMMA PublishIsPut ==
    ASSUME IInv, IInv', NEW size \in Sizes, PublishAllThreads(size)
    PROVE  Queue!Put
<1> DEFINE b == [id |-> recorded + 1, size |-> size, interval |-> interval]
<1>1. b # NoBatch
    BY NewBatch DEF IInv, TypeOK
<1>2. slotB = NoBatch /\ UNCHANGED readVars
    BY DEF IInv, RoomIsReserved, PublishAllThreads
<1>3. /\ slotA' = IF slotA = NoBatch THEN b ELSE slotA
      /\ slotB' = IF slotA # NoBatch /\ slotB = NoBatch THEN b ELSE slotB
    BY DEF PublishAllThreads, Record
<1> HIDE DEF b
<1>4. CASE slotA = NoBatch
    <2>1. Slots = <<>>
        BY <1>4, SlotShapes DEF IInv
    <2>2. Slots' = <<b>>
        BY <1>1, <1>2, <1>3, <1>4 DEF Slots, Occupied
    <2> QED BY <1>2, <2>1, <2>2 DEF Queue!Put, readVars
<1>5. CASE slotA # NoBatch
    <2>1. Slots = <<slotA>>
        BY <1>2, <1>5, SlotShapes DEF IInv
    <2>2. Slots' = <<slotA, b>>
        BY <1>1, <1>2, <1>3, <1>5, TwoElements DEF Slots, Occupied
    <2> QED BY <1>2, <2>1, <2>2 DEF Queue!Put, readVars
<1> QED BY <1>4, <1>5

\* Taking the first slot and moving the second one up is Take.
LEMMA TakeIsTake ==
    ASSUME IInv, TakeBatch
    PROVE  Queue!Take
<1>1. /\ slotA # NoBatch /\ taken = <<>> /\ taken' = <<slotA>> /\ slotA' = slotB
      /\ slotB' = NoBatch /\ delivered' = delivered
    BY DEF TakeBatch, Ready, MoveUp
<1>2. CASE slotB = NoBatch
    <2>1. Slots = <<slotA>> /\ Slots' = <<>>
        BY <1>1, <1>2 DEF Slots, Occupied
    <2> QED BY <1>1, <2>1 DEF Queue!Take
<1>3. CASE slotB # NoBatch
    <2>1. Slots = <<slotA, slotB>> /\ Slots' = <<slotB>>
        BY <1>1, <1>3, TwoElements DEF Slots, Occupied
    <2> QED BY <1>1, <2>1 DEF Queue!Take
<1> QED BY <1>2, <1>3

\* A copy always delivers, because what was taken fits the reader's buffer.
LEMMA CopyIsDeliver ==
    ASSUME IInv, CopyBatch
    PROVE  Queue!Deliver
<1>1. taken # <<>> /\ taken' = <<>> /\ UNCHANGED cpuVars
    BY DEF CopyBatch
<1>2. taken[1] \in Batch
    BY <1>1 DEF IInv, TypeOK
<1>3. taken[1].size <= ReaderLength
    BY <1>1, <1>2, SizesAssumption DEF IInv, WithinLimit, Batch
<1>4. Slots' = Slots
    BY <1>1 DEF cpuVars, Slots
<1> QED BY <1>1, <1>3, <1>4 DEF CopyBatch, Queue!Deliver

\* The two slots and the reader implement a bounded FIFO queue, for any number of batches: whatever
\* ThreadSamplingRecordProducedThreadSample and ThreadSamplingConsumeOneThreadSample interleave, no
\* batch is lost, duplicated or overtaken. Each step is Put, Take, Deliver or leaves the queue alone.
THEOREM QueueImplemented == Spec => ImplementsQueue
<1>1. Init => Queue!Init
    BY DEF Init, Queue!Init, Slots, Occupied
<1>2. IInv /\ IInv' /\ [Next]_vars => [Queue!Next]_(Queue!vars)
    <2> SUFFICES ASSUME IInv, IInv', [Next]_vars PROVE [Queue!Next]_(Queue!vars)
        OBVIOUS
    <2>1. CASE \E size \in Sizes : PublishAllThreads(size)
        BY <2>1, PublishIsPut DEF Queue!Next
    <2>2. CASE TakeBatch
        BY <2>2, TakeIsTake DEF Queue!Next
    <2>3. CASE CopyBatch
        BY <2>3, CopyIsDeliver DEF Queue!Next
    <2>4. CASE /\ ~\E size \in Sizes : PublishAllThreads(size)
               /\ ~TakeBatch /\ ~CopyBatch
        <3>1. UNCHANGED cpuVars /\ UNCHANGED readVars
            BY <2>4 DEF Next, vars, BeginAllThreads, BeginSelectedThreads, PublishNothing,
                        PublishSelectedThreads, AppendAllocation, ReadSelected, ReadAllocations
        <3>2. Slots' = Slots
            BY <3>1 DEF cpuVars, Slots
        <3> QED BY <3>1, <3>2 DEF readVars, Queue!vars
    <2> QED BY <2>1, <2>2, <2>3, <2>4
<1> QED BY <1>1, <1>2, Invariant, PTL DEF Spec, ImplementsQueue, Queue!Spec

----------------------------------------------------------------------------
(* Thread-stack storage: the cohort's storage before its threads are       *)
(* suspended.                                                              *)

\* Threads whose stack can record a frame, and whether all the limits admit have one.
ReadyIn(st) == {t \in DOMAIN st : st[t].capacity > 0}
ReadyThreads == ReadyIn(stacks)
AllReady == Cardinality(ReadyThreads) = ThreadCount(active)

\* What is left of the budget is enough for the threads that are still without storage.
RoomForRest ==
    (ThreadCount(active) - Cardinality(ReadyThreads)) * InitialCapacity(active)
        <= MaximumFrameCapacity - frameCapacity

\* A thread the loop of PrepareForCapture has passed is ready, or the limit of threads or the budget
\* was used up; an empty entry behind the loop is there only because of the budget.
PassedIsReady ==
    \/ AllReady
    \/ /\ \A t \in DOMAIN stacks \ ReadyThreads : t \in pending
       /\ (\E t \in active \ pending : t \notin DOMAIN stacks) =>
              Cardinality(DOMAIN stacks) >= MaximumThreads

CohortInv ==
    /\ cached \in DOMAIN stacks \cup {NoThread}
    /\ stage \in {"idle", "prepare"} => \A t \in DOMAIN stacks : stacks[t].frames = 0
    /\ stage = "prepare" => DOMAIN stacks \subseteq active
    /\ stage = "prepare" /\ intact => RoomForRest /\ PassedIsReady

----------------------------------------------------------------------------
(* Capacities: the frame slots of a set of threads, for any map of stacks. *)

SlotsOf(st, T) == {s \in T \X (1 .. MaximumFramesPerStack) : s[2] <= st[s[1]].capacity}

\* LimitsAssumption, one fact per limit.
LEMMA LimitFacts ==
    /\ MaximumFramesPerStack \in Nat /\ MaximumFrameCapacity \in Nat
    /\ MaximumThreads \in Nat /\ InitialStackFrames \in Nat
    /\ MaximumFramesPerStack > 0 /\ MaximumFrameCapacity > 0
    /\ MaximumThreads > 0 /\ InitialStackFrames > 0
    /\ InitialStackFrames <= MaximumFramesPerStack
    /\ MaximumThreads <= MaximumFrameCapacity
BY LimitsAssumption

\* The slots of finitely many stacks are finitely many.
LEMMA SlotsFinite ==
    ASSUME NEW st, NEW T \in SUBSET Threads
    PROVE  IsFiniteSet(SlotsOf(st, T)) /\ Cardinality(SlotsOf(st, T)) \in Nat
<1>1. IsFiniteSet(T)
  BY LimitsAssumption, FS_Subset
<1>2. IsFiniteSet(1 .. MaximumFramesPerStack)
  BY LimitFacts, FS_Interval
<1>3. IsFiniteSet(T \X (1 .. MaximumFramesPerStack))
  BY <1>1, <1>2, FS_Product
<1>4. SlotsOf(st, T) \in SUBSET (T \X (1 .. MaximumFramesPerStack))
  BY DEF SlotsOf
<1>5. IsFiniteSet(SlotsOf(st, T))
  BY <1>3, <1>4, FS_Subset
<1> QED BY <1>5, FS_CardinalityType

\* Capacities of disjoint sets of threads add up.
LEMMA SlotsSplit ==
    ASSUME NEW st, NEW T \in SUBSET Threads, NEW U \in SUBSET Threads, T \cap U = {}
    PROVE  Cardinality(SlotsOf(st, T \cup U)) = Cardinality(SlotsOf(st, T)) + Cardinality(SlotsOf(st, U))
<1>1. SlotsOf(st, T \cup U) = SlotsOf(st, T) \cup SlotsOf(st, U)
  BY DEF SlotsOf
<1>2. SlotsOf(st, T) \cap SlotsOf(st, U) = {}
  BY DEF SlotsOf
<1>3. /\ IsFiniteSet(SlotsOf(st, T)) /\ Cardinality(SlotsOf(st, T)) \in Nat
      /\ IsFiniteSet(SlotsOf(st, U)) /\ Cardinality(SlotsOf(st, U)) \in Nat
  BY SlotsFinite
<1>4. /\ IsFiniteSet(SlotsOf(st, T) \cup SlotsOf(st, U))
      /\ Cardinality(SlotsOf(st, T) \cup SlotsOf(st, U))
            = Cardinality(SlotsOf(st, T)) + Cardinality(SlotsOf(st, U))
              - Cardinality(SlotsOf(st, T) \cap SlotsOf(st, U))
  BY <1>3, FS_Union
<1>5. Cardinality(SlotsOf(st, T) \cap SlotsOf(st, U)) = 0
  BY <1>2, FS_EmptySet
<1> DEFINE A == SlotsOf(st, T)
           B == SlotsOf(st, U)
<1>6. /\ Cardinality(A) \in Nat /\ Cardinality(B) \in Nat /\ Cardinality(A \cap B) = 0
      /\ Cardinality(A \cup B) = Cardinality(A) + Cardinality(B) - Cardinality(A \cap B)
  BY <1>3, <1>4, <1>5
<1> HIDE DEF A, B
<1>7. Cardinality(A \cup B) = Cardinality(A) + Cardinality(B)
  BY <1>6
<1> QED BY <1>1, <1>7 DEF A, B

\* The capacity of a set of threads depends on its own stacks only.
LEMMA SlotsSame ==
    ASSUME NEW st, NEW su, NEW T, \A t \in T : st[t].capacity = su[t].capacity
    PROVE  SlotsOf(st, T) = SlotsOf(su, T)
BY DEF SlotsOf

\* Empty stacks have no capacity.
LEMMA SlotsNone ==
    ASSUME NEW st, NEW T, \A t \in T : st[t].capacity = 0
    PROVE  Cardinality(SlotsOf(st, T)) = 0
<1>1. SlotsOf(st, T) = {}
  BY DEF SlotsOf
<1> QED BY <1>1, FS_EmptySet

\* The capacity of one thread is that of its stack.
LEMMA SlotsOne ==
    ASSUME NEW st, NEW t, st[t].capacity \in Nat, st[t].capacity <= MaximumFramesPerStack
    PROVE  Cardinality(SlotsOf(st, {t})) = st[t].capacity
<1> DEFINE c == st[t].capacity
<1>1. SlotsOf(st, {t}) = {t} \X (1 .. c)
  <2>1. ASSUME NEW s \in SlotsOf(st, {t}) PROVE s \in {t} \X (1 .. c)
    BY LimitFacts DEF SlotsOf
  <2>2. ASSUME NEW s \in {t} \X (1 .. c) PROVE s \in SlotsOf(st, {t})
    BY LimitFacts DEF SlotsOf
  <2> QED BY <2>1, <2>2
<1>2. IsFiniteSet({t}) /\ Cardinality({t}) = 1
  BY FS_Singleton
<1>3. c \in Nat
  OBVIOUS
<1> HIDE DEF c
<1>4. IsFiniteSet(1 .. c) /\ Cardinality(1 .. c) = c
  BY <1>3, FS_Interval
<1>5. Cardinality({t} \X (1 .. c)) = Cardinality({t}) * Cardinality(1 .. c)
  BY <1>2, <1>4, FS_Product
<1>6. 1 * c = c
  BY <1>3
<1>7. Cardinality(SlotsOf(st, {t})) = c
  BY <1>1, <1>2, <1>4, <1>5, <1>6, Zenon
<1> QED BY <1>7 DEF c

\* Stacks of at most k frames have together at most k frames each.
LEMMA SlotsBound ==
    ASSUME NEW st, NEW T \in SUBSET Threads, NEW k \in Nat,
           \A t \in T : st[t].capacity \in Nat /\ st[t].capacity <= k
    PROVE  Cardinality(SlotsOf(st, T)) <= Cardinality(T) * k
<1>1. SlotsOf(st, T) \in SUBSET (T \X (1 .. k))
  BY LimitFacts DEF SlotsOf
<1>2. IsFiniteSet(T)
  BY LimitsAssumption, FS_Subset
<1>3. IsFiniteSet(1 .. k) /\ Cardinality(1 .. k) = k
  BY FS_Interval
<1>4. IsFiniteSet(T \X (1 .. k)) /\ Cardinality(T \X (1 .. k)) = Cardinality(T) * k
  BY <1>2, <1>3, FS_Product
<1> QED BY <1>1, <1>4, FS_Subset

\* One stack is added or replaced.
LEMMA SlotsUpdate ==
    ASSUME NEW st, NEW su, NEW T \in SUBSET Threads, NEW t \in Threads,
           \A u \in T \ {t} : st[u].capacity = su[u].capacity,
           su[t].capacity \in Nat, su[t].capacity <= MaximumFramesPerStack,
           NEW old \in Nat, old <= MaximumFramesPerStack,
           old = IF t \in T THEN st[t].capacity ELSE 0
    PROVE  Cardinality(SlotsOf(su, T \cup {t})) = Cardinality(SlotsOf(st, T)) - old + su[t].capacity
<1> DEFINE R == T \ {t}
<1>1. R \in SUBSET Threads /\ {t} \in SUBSET Threads /\ R \cap {t} = {} /\ T \cup {t} = R \cup {t}
  OBVIOUS
<1> HIDE DEF R
<1>2. Cardinality(SlotsOf(su, T \cup {t})) = Cardinality(SlotsOf(su, R)) + su[t].capacity
  <2>1. Cardinality(SlotsOf(su, {t})) = su[t].capacity
    BY SlotsOne
  <2>2. Cardinality(SlotsOf(su, R \cup {t})) = Cardinality(SlotsOf(su, R)) + Cardinality(SlotsOf(su, {t}))
    BY <1>1, SlotsSplit
  <2> QED BY <1>1, <2>1, <2>2
<1>3. SlotsOf(su, R) = SlotsOf(st, R) /\ Cardinality(SlotsOf(st, R)) \in Nat
  BY <1>1, SlotsSame, SlotsFinite DEF R
<1>4. CASE t \in T
  <2>1. T = R \cup {t}
    BY <1>4 DEF R
  <2>2. Cardinality(SlotsOf(st, T)) = Cardinality(SlotsOf(st, R)) + old
    <3>1. Cardinality(SlotsOf(st, {t})) = old
      BY <1>4, SlotsOne
    <3>2. Cardinality(SlotsOf(st, R \cup {t})) = Cardinality(SlotsOf(st, R)) + Cardinality(SlotsOf(st, {t}))
      BY <1>1, SlotsSplit
    <3> QED BY <2>1, <3>1, <3>2
  <2> QED BY <1>2, <1>3, <2>2
<1>5. CASE t \notin T
  <2>1. T = R /\ old = 0
    BY <1>5 DEF R
  <2> QED BY <1>2, <1>3, <2>1
<1> QED BY <1>4, <1>5

----------------------------------------------------------------------------
(* The shares of a cohort.                                                 *)

\* Shares of a whole.
LEMMA Share ==
    ASSUME NEW a \in Nat, NEW b \in Nat, b > 0, b <= a
    PROVE  a \div b \in Nat /\ a \div b >= 1 /\ b * (a \div b) <= a
OBVIOUS

\* The shares of the threads storage is planned for are positive and fit the budget.
LEMMA PlanFits ==
    ASSUME NEW A \in SUBSET Threads
    PROVE  /\ IsFiniteSet(A) /\ Cardinality(A) \in Nat
           /\ ThreadCount(A) \in Nat /\ ThreadCount(A) <= MaximumThreads /\ ThreadCount(A) <= Cardinality(A)
           /\ ThreadCount(A) = MaximumThreads \/ ThreadCount(A) = Cardinality(A)
           /\ InitialCapacity(A) \in Nat /\ InitialCapacity(A) >= 1
           /\ InitialCapacity(A) <= InitialStackFrames
           /\ ThreadCount(A) * InitialCapacity(A) <= MaximumFrameCapacity
<1>1. IsFiniteSet(A) /\ Cardinality(A) \in Nat /\ (Cardinality(A) = 0 <=> A = {})
  BY LimitsAssumption, FS_Subset, FS_CardinalityType, FS_EmptySet
<1>2. /\ ThreadCount(A) \in Nat /\ ThreadCount(A) <= MaximumThreads /\ ThreadCount(A) <= Cardinality(A)
      /\ ThreadCount(A) = MaximumThreads \/ ThreadCount(A) = Cardinality(A)
  BY <1>1, LimitFacts DEF ThreadCount, AtMost
<1>3. CASE A = {}
  <2>1. ThreadCount(A) = 0 /\ InitialCapacity(A) = InitialStackFrames
    BY <1>1, <1>2, <1>3 DEF InitialCapacity
  <2>2. ThreadCount(A) * InitialCapacity(A) = 0
    BY <2>1, LimitFacts
  <2> QED BY <1>1, <1>2, <2>1, <2>2, LimitFacts
<1>4. CASE A # {}
  <2> DEFINE n == ThreadCount(A)
             q == MaximumFrameCapacity \div n
             i == InitialCapacity(A)
  <2>1. n \in Nat /\ n > 0 /\ n <= MaximumFrameCapacity
    BY <1>1, <1>2, <1>4, LimitFacts
  <2>2. i = AtMost(InitialStackFrames, q)
    BY <1>4 DEF InitialCapacity
  <2> HIDE DEF n, i
  <2>3. q \in Nat /\ q >= 1 /\ n * q <= MaximumFrameCapacity
    BY <2>1, LimitFacts, Share
  <2> HIDE DEF q
  <2>4. i \in Nat /\ i >= 1 /\ i <= InitialStackFrames /\ i <= q
    BY <2>2, <2>3, LimitFacts DEF AtMost
  <2>5. n * i <= n * q
    BY <2>1, <2>3, <2>4
  <2>6. n * i <= MaximumFrameCapacity
    <3>1. n * i \in Nat /\ n * q \in Nat
      BY <2>1, <2>3, <2>4
    <3> QED BY <2>3, <2>5, <3>1, LimitFacts
  <2> QED BY <1>1, <1>2, <2>4, <2>6 DEF n, i
<1> QED BY <1>3, <1>4

\* TryReserveStackFrame never asks for more than the limit it is given.
LEMMA NextWithin ==
    ASSUME NEW s, s.capacity \in Nat, NEW limit \in Nat
    PROVE  /\ NextCapacity(s, limit) \in Nat
           /\ NextCapacity(s, limit) <= limit
           /\ NextCapacity(s, limit) <= MaximumFramesPerStack
           /\ s.capacity = 0 /\ limit <= InitialStackFrames => NextCapacity(s, limit) = limit
BY LimitFacts DEF NextCapacity, BoundedCapacity, AtMost, AtLeast

----------------------------------------------------------------------------
(* The budget.                                                             *)

\* The part of BudgetIsExact that speaks of the map and its budget.
MapInv ==
    /\ DOMAIN stacks \subseteq Threads
    /\ \A t \in DOMAIN stacks : /\ stacks[t] \in [frames : Nat, capacity : Nat]
                                /\ stacks[t].frames <= stacks[t].capacity
                                /\ stacks[t].capacity <= MaximumFramesPerStack
    /\ frameCapacity \in Nat
    /\ frameCapacity = Cardinality(SlotsOf(stacks, DOMAIN stacks))
    /\ frameCapacity <= MaximumFrameCapacity
    /\ Cardinality(DOMAIN stacks) <= MaximumThreads

PlacesInv ==
    /\ cached \in Threads \cup {NoThread}
    /\ active \subseteq Threads /\ pending \subseteq active
    /\ intact \in BOOLEAN /\ shutdown \in BOOLEAN
    /\ stage \in {"idle", "prepare", "walk", "finish", "exit"}

\* BudgetIsExact in two parts: the map, and where everybody is.
LEMMA BudgetParts == BudgetIsExact <=> MapInv /\ PlacesInv
BY DEF BudgetIsExact, StacksTypeOK, MapInv, PlacesInv, Capacity, FrameSlots, SlotsOf

\* Adding a stack or replacing one, with its capacity booked, keeps the map within its budget.
LEMMA PlaceStack ==
    ASSUME MapInv, NEW t \in Threads,
           DOMAIN stacks' = DOMAIN stacks \cup {t},
           \A u \in DOMAIN stacks \ {t} : stacks'[u] = stacks[u],
           stacks'[t] \in [frames : Nat, capacity : Nat],
           stacks'[t].frames <= stacks'[t].capacity,
           stacks'[t].capacity <= MaximumFramesPerStack,
           t \in DOMAIN stacks \/ Cardinality(DOMAIN stacks) < MaximumThreads,
           frameCapacity' = frameCapacity - Entry(t).capacity + stacks'[t].capacity,
           frameCapacity' <= MaximumFrameCapacity
    PROVE  MapInv'
<1> DEFINE D == DOMAIN stacks
           old == Entry(t).capacity
<1>1. /\ D \in SUBSET Threads /\ old \in Nat /\ old <= MaximumFramesPerStack
      /\ old = IF t \in D THEN stacks[t].capacity ELSE 0
  BY LimitFacts DEF MapInv, Entry, EmptyStack
<1>2. stacks'[t].capacity \in Nat /\ \A u \in D \ {t} : stacks[u].capacity = stacks'[u].capacity
  OBVIOUS
<1> HIDE DEF old
<1>3. Cardinality(SlotsOf(stacks', D \cup {t})) = Cardinality(SlotsOf(stacks, D)) - old + stacks'[t].capacity
  BY <1>1, <1>2, SlotsUpdate
<1>4. frameCapacity' = Cardinality(SlotsOf(stacks', DOMAIN stacks'))
  BY <1>3 DEF MapInv, old
<1>5. DOMAIN stacks' \in SUBSET Threads
  BY <1>1
<1>6. frameCapacity' \in Nat
  BY <1>4, <1>5, SlotsFinite
<1>7. Cardinality(DOMAIN stacks') <= MaximumThreads
  <2>1. IsFiniteSet(D) /\ Cardinality(D) \in Nat
    BY <1>1, PlanFits
  <2>2. Cardinality(D \cup {t}) = IF t \in D THEN Cardinality(D) ELSE Cardinality(D) + 1
    BY <2>1, FS_AddElement
  <2> QED BY <2>1, <2>2, LimitFacts DEF MapInv
<1>8. \A u \in DOMAIN stacks' : /\ stacks'[u] \in [frames : Nat, capacity : Nat]
                                /\ stacks'[u].frames <= stacks'[u].capacity
                                /\ stacks'[u].capacity <= MaximumFramesPerStack
  BY DEF MapInv
<1> QED BY <1>4, <1>5, <1>6, <1>7, <1>8 DEF MapInv

\* The loop of PrepareForCapture.
LEMMA VisitKeepsMap ==
    ASSUME MapInv, PlacesInv, NEW t \in Threads,
           SkipThread(t) \/ ReserveThread(t) \/ ReserveTooMuch(t) \/ ReserveThrows(t)
    PROVE  MapInv'
<1>1. /\ Entry(t) \in [frames : Nat, capacity : Nat]
      /\ Entry(t).frames <= Entry(t).capacity /\ Entry(t).capacity <= MaximumFramesPerStack
  BY LimitFacts DEF MapInv, Entry, EmptyStack
<1>2. ASSUME NEW s, stacks' = WithStack(t, s)
      PROVE  /\ DOMAIN stacks' = DOMAIN stacks \cup {t} /\ stacks'[t] = s
             /\ \A u \in DOMAIN stacks \ {t} : stacks'[u] = stacks[u]
  BY <1>2 DEF WithStack
<1>3. Cardinality(DOMAIN stacks) \in Nat
  BY PlanFits DEF MapInv
<1>4. ASSUME stacks' = WithStack(t, Entry(t)), UNCHANGED frameCapacity, ~Refused(t)
      PROVE  MapInv'
  <2>1. t \in DOMAIN stacks \/ Cardinality(DOMAIN stacks) < MaximumThreads
    BY <1>3, <1>4, LimitFacts DEF Refused
  <2>2. /\ DOMAIN stacks' = DOMAIN stacks \cup {t} /\ stacks'[t] = Entry(t)
        /\ \A u \in DOMAIN stacks \ {t} : stacks'[u] = stacks[u]
    BY <1>2, <1>4
  <2>3. /\ frameCapacity' = frameCapacity - Entry(t).capacity + stacks'[t].capacity
        /\ frameCapacity' <= MaximumFrameCapacity
    BY <1>1, <1>4, <2>2, LimitFacts DEF MapInv
  <2> QED BY <1>1, <2>1, <2>2, <2>3, PlaceStack
<1>5. ASSUME UNCHANGED <<stacks, frameCapacity>> PROVE MapInv'
  BY <1>5 DEF MapInv
<1>6. CASE SkipThread(t)
  BY <1>4, <1>5, <1>6 DEF SkipThread, buffer
<1>7. CASE ReserveThread(t)
  <2> DEFINE c == NextCapacity(Entry(t), ReserveLimit)
  <2>1. ReserveLimit \in Nat /\ ReserveLimit <= MaximumFrameCapacity - frameCapacity
    BY PlanFits, LimitFacts DEF PlacesInv, MapInv, ReserveLimit, AtMost
  <2>2. c \in Nat /\ c <= MaximumFrameCapacity - frameCapacity /\ c <= MaximumFramesPerStack
    BY <1>1, <2>1, NextWithin, LimitFacts DEF MapInv
  <2>3. /\ ~Refused(t) /\ Entry(t).capacity = 0 /\ frameCapacity' = frameCapacity + c
        /\ stacks' = WithStack(t, [frames |-> 0, capacity |-> c])
    BY <1>7 DEF ReserveThread, Wanting
  <2> HIDE DEF c
  <2>4. /\ DOMAIN stacks' = DOMAIN stacks \cup {t} /\ stacks'[t] = [frames |-> 0, capacity |-> c]
        /\ \A u \in DOMAIN stacks \ {t} : stacks'[u] = stacks[u]
    BY <1>2, <2>3
  <2>5. t \in DOMAIN stacks \/ Cardinality(DOMAIN stacks) < MaximumThreads
    BY <1>3, <2>3, LimitFacts DEF Refused
  <2>6. /\ frameCapacity' = frameCapacity - Entry(t).capacity + stacks'[t].capacity
        /\ frameCapacity' <= MaximumFrameCapacity
    BY <2>2, <2>3, <2>4, LimitFacts DEF MapInv
  <2>7. /\ stacks'[t] \in [frames : Nat, capacity : Nat]
        /\ stacks'[t].frames <= stacks'[t].capacity /\ stacks'[t].capacity <= MaximumFramesPerStack
    BY <2>2, <2>4
  <2> QED BY <2>4, <2>5, <2>6, <2>7, PlaceStack
<1>8. CASE ReserveTooMuch(t)
  BY <1>4, <1>8 DEF ReserveTooMuch, Wanting
<1>9. CASE ReserveThrows(t)
  BY <1>4, <1>5, <1>9 DEF ReserveThrows
<1> QED BY <1>6, <1>7, <1>8, <1>9

\* The frame callback.
LEMMA FrameKeepsMap ==
    ASSUME MapInv, NEW t \in Threads, Frame(t) \/ Grow(t) \/ DropFrame(t) \/ GrowThrows(t)
    PROVE  MapInv'
<1>1. CASE Frame(t)
  <2>1. t \in DOMAIN stacks /\ stacks[t].frames < stacks[t].capacity /\ Entry(t) = stacks[t]
    BY <1>1 DEF Frame, Room, Entry
  <2>2. /\ DOMAIN stacks' = DOMAIN stacks \cup {t}
        /\ \A u \in DOMAIN stacks \ {t} : stacks'[u] = stacks[u]
        /\ stacks'[t] = [stacks[t] EXCEPT !.frames = @ + 1]
    BY <1>1, <2>1 DEF Frame, Push
  <2>3. /\ stacks'[t] \in [frames : Nat, capacity : Nat]
        /\ stacks'[t].frames <= stacks'[t].capacity
        /\ stacks'[t].capacity = stacks[t].capacity
        /\ stacks'[t].capacity <= MaximumFramesPerStack
    BY <2>1, <2>2 DEF MapInv
  <2>4. /\ frameCapacity' = frameCapacity - Entry(t).capacity + stacks'[t].capacity
        /\ frameCapacity' <= MaximumFrameCapacity
    BY <1>1, <2>1, <2>3, LimitFacts DEF MapInv, Frame
  <2> QED BY <2>1, <2>2, <2>3, <2>4, PlaceStack
<1>2. CASE Grow(t)
  <2> DEFINE asked == NextCapacity(stacks[t], GrowLimit(t))
             most == BoundedCapacity(GrowLimit(t))
  <2>a. PICK c \in asked .. most : /\ stacks' = [Push(t) EXCEPT ![t].capacity = c]
                                   /\ frameCapacity' = frameCapacity + c - stacks[t].capacity
    BY <1>2 DEF Grow
  <2>b. t \in DOMAIN stacks /\ Entry(t) = stacks[t] /\ asked > stacks[t].capacity
    BY <1>2 DEF Grow, MayGrow, Entry
  <2>2. /\ stacks[t] \in [frames : Nat, capacity : Nat] /\ stacks[t].capacity \in Nat
        /\ stacks[t].frames \in Nat /\ stacks[t].frames <= stacks[t].capacity
    BY <2>b DEF MapInv
  <2>3. GrowLimit(t) \in Nat
    BY <2>2, LimitFacts DEF MapInv, GrowLimit
  <2>c. /\ asked \in Nat
        /\ most \in Nat /\ most <= GrowLimit(t) /\ most <= MaximumFramesPerStack
    BY <2>2, <2>3, NextWithin, LimitFacts DEF BoundedCapacity, AtMost
  <2> HIDE DEF asked, most
  <2>1. /\ t \in DOMAIN stacks /\ Entry(t) = stacks[t] /\ c > stacks[t].capacity
        /\ stacks' = [Push(t) EXCEPT ![t].capacity = c]
        /\ frameCapacity' = frameCapacity + c - stacks[t].capacity
    BY <2>a, <2>b, <2>c, <2>2
  <2>4. c \in Nat /\ c <= GrowLimit(t) /\ c <= MaximumFramesPerStack
    BY <2>a, <2>c, <2>3, LimitFacts
  <2>5. /\ DOMAIN stacks' = DOMAIN stacks \cup {t}
        /\ \A u \in DOMAIN stacks \ {t} : stacks'[u] = stacks[u]
        /\ stacks'[t] = [frames |-> stacks[t].frames + 1, capacity |-> c]
    BY <2>1, <2>2 DEF Push
  <2>6. /\ stacks'[t] \in [frames : Nat, capacity : Nat]
        /\ stacks'[t].frames <= stacks'[t].capacity
        /\ stacks'[t].capacity = c
        /\ stacks'[t].capacity <= MaximumFramesPerStack
    BY <2>1, <2>2, <2>4, <2>5
  <2>7. /\ frameCapacity' = frameCapacity - Entry(t).capacity + stacks'[t].capacity
        /\ frameCapacity' <= MaximumFrameCapacity
    BY <2>1, <2>2, <2>4, <2>6, LimitFacts DEF MapInv, GrowLimit
  <2> QED BY <2>1, <2>5, <2>6, <2>7, PlaceStack
<1>3. CASE DropFrame(t) \/ GrowThrows(t)
  BY <1>3 DEF DropFrame, GrowThrows, MapInv
<1> QED BY <1>1, <1>2, <1>3

\* Eviction and reclaim give back exactly the storage they drop.
LEMMA PrepareKeepsMap ==
    ASSUME MapInv, NEW A \in SUBSET Threads, Prepare(A)
    PROVE  /\ MapInv' /\ DOMAIN stacks' = Kept(A)
           /\ frameCapacity' = Cardinality(SlotsOf(stacks, Kept(A) \ Reclaimed(A)))
<1> DEFINE D == DOMAIN stacks
           K == Kept(A)
           R == Reclaimed(A)
<1>1. D \in SUBSET Threads /\ K \in SUBSET D /\ R \in SUBSET K
  BY DEF MapInv, Kept, Reclaimed
<1>2. /\ stacks' = [t \in K |-> IF t \in R THEN EmptyStack ELSE stacks[t]]
      /\ frameCapacity' = frameCapacity - Cardinality(SlotsOf(stacks, (D \ K) \cup R))
  BY DEF Prepare, Capacity, FrameSlots, SlotsOf
<1> HIDE DEF K, R
<1>3. DOMAIN stacks' = K
  BY <1>2
<1>4. Cardinality(SlotsOf(stacks, D))
        = Cardinality(SlotsOf(stacks, (D \ K) \cup R)) + Cardinality(SlotsOf(stacks, K \ R))
  <2>1. /\ (D \ K) \cup R \in SUBSET Threads /\ K \ R \in SUBSET Threads
        /\ ((D \ K) \cup R) \cap (K \ R) = {} /\ D = ((D \ K) \cup R) \cup (K \ R)
    BY <1>1
  <2> DEFINE X == (D \ K) \cup R
             Y == K \ R
  <2>2. X \in SUBSET Threads /\ Y \in SUBSET Threads /\ X \cap Y = {} /\ D = X \cup Y
    BY <2>1
  <2> HIDE DEF X, Y, D
  <2>3. Cardinality(SlotsOf(stacks, D)) = Cardinality(SlotsOf(stacks, X)) + Cardinality(SlotsOf(stacks, Y))
    BY <2>2, SlotsSplit
  <2> QED BY <2>3 DEF X, Y
<1>5. /\ Cardinality(SlotsOf(stacks, (D \ K) \cup R)) \in Nat
      /\ Cardinality(SlotsOf(stacks, K \ R)) \in Nat
  BY <1>1, SlotsFinite
<1>6. frameCapacity' = Cardinality(SlotsOf(stacks, K \ R))
  BY <1>2, <1>4, <1>5 DEF MapInv
<1>7. Cardinality(SlotsOf(stacks', K)) = Cardinality(SlotsOf(stacks, K \ R))
  <2>1. R \in SUBSET Threads /\ K \ R \in SUBSET Threads /\ R \cap (K \ R) = {} /\ K = R \cup (K \ R)
    BY <1>1
  <2>2. Cardinality(SlotsOf(stacks', R)) = 0
    BY <1>1, <1>2, SlotsNone DEF EmptyStack
  <2>3. SlotsOf(stacks', K \ R) = SlotsOf(stacks, K \ R)
    BY <1>2, SlotsSame
  <2>4. Cardinality(SlotsOf(stacks', R \cup (K \ R)))
          = Cardinality(SlotsOf(stacks', R)) + Cardinality(SlotsOf(stacks', K \ R))
    BY <2>1, SlotsSplit
  <2> QED BY <1>5, <2>1, <2>2, <2>3, <2>4
<1>8. frameCapacity' <= MaximumFrameCapacity
  BY <1>4, <1>5, <1>6, LimitFacts DEF MapInv
<1>9. Cardinality(K) <= MaximumThreads
  <2>1. IsFiniteSet(D) /\ Cardinality(D) \in Nat /\ Cardinality(K) \in Nat
    BY <1>1, PlanFits
  <2>2. Cardinality(K) <= Cardinality(D)
    BY <1>1, <2>1, FS_Subset
  <2> QED BY <2>1, <2>2, LimitFacts DEF MapInv
<1>10. \A t \in K : /\ stacks'[t] \in [frames : Nat, capacity : Nat]
                    /\ stacks'[t].frames <= stacks'[t].capacity
                    /\ stacks'[t].capacity <= MaximumFramesPerStack
  BY <1>1, <1>2, LimitFacts DEF MapInv, EmptyStack
<1>11. MapInv'
  BY <1>1, <1>3, <1>5, <1>6, <1>7, <1>8, <1>9, <1>10 DEF MapInv
<1> QED BY <1>3, <1>6, <1>11 DEF K, R

\* Reset keeps every capacity, and a cancelled cycle leaves nothing.
LEMMA EndKeepsMap ==
    ASSUME MapInv, Finish \/ Cancel
    PROVE  MapInv'
<1>1. CASE Finish
  <2>1. /\ DOMAIN stacks' = DOMAIN stacks /\ frameCapacity' = frameCapacity
        /\ \A t \in DOMAIN stacks : stacks'[t] = [stacks[t] EXCEPT !.frames = 0]
    BY <1>1 DEF Finish, ResetStacks
  <2>2. \A t \in DOMAIN stacks : /\ stacks'[t] \in [frames : Nat, capacity : Nat]
                                 /\ stacks'[t].capacity = stacks[t].capacity
                                 /\ stacks'[t].frames = 0
    BY <2>1 DEF MapInv
  <2>3. SlotsOf(stacks', DOMAIN stacks) = SlotsOf(stacks, DOMAIN stacks)
    BY <2>2, SlotsSame
  <2>4. \A t \in DOMAIN stacks : stacks[t].capacity \in Nat
    BY DEF MapInv
  <2> QED BY <2>1, <2>2, <2>3, <2>4 DEF MapInv
<1>2. CASE Cancel
  <2>1. DOMAIN stacks' = {} /\ frameCapacity' = 0
    BY <1>2 DEF Cancel
  <2>2. Cardinality(SlotsOf(stacks', {})) = 0
    BY SlotsNone
  <2>3. Cardinality({}) = 0
    BY FS_EmptySet
  <2> QED BY <2>1, <2>2, <2>3, LimitFacts DEF MapInv
<1> QED BY <1>1, <1>2

\* No step loses track of the budget.
LEMMA MapKept ==
    ASSUME MapInv, PlacesInv, [StacksNext]_stackVars
    PROVE  MapInv'
<1>1. CASE UNCHANGED <<stacks, frameCapacity>>
  BY <1>1 DEF MapInv
<1> QED
  BY <1>1, VisitKeepsMap, FrameKeepsMap, PrepareKeepsMap, EndKeepsMap
     DEF StacksNext, stackVars, buffer, RequestShutdown, Walk, EndWalk, Leave

\* No step leaves the types of the other variables.
LEMMA PlacesKept ==
    ASSUME MapInv, PlacesInv, [StacksNext]_stackVars
    PROVE  PlacesInv'
<1>1. CASE \E A \in SUBSET Threads : Prepare(A)
  <2>1. intact' \in BOOLEAN
    BY <1>1, Zenon DEF Prepare
  <2> QED BY <1>1, <2>1 DEF PlacesInv, Prepare
<1>2. CASE \E t \in Threads : SkipThread(t) \/ ReserveThread(t) \/ ReserveTooMuch(t) \/ ReserveThrows(t)
  <2>1. intact' \in BOOLEAN
    BY <1>2, Zenon DEF PlacesInv, SkipThread, ReserveThread, ReserveTooMuch, ReserveThrows
  <2> QED BY <1>2, <2>1 DEF PlacesInv, SkipThread, ReserveThread, ReserveTooMuch, ReserveThrows, Visit,
                            Wanting, buffer
<1>3. CASE \E t \in Threads : Frame(t) \/ Grow(t) \/ DropFrame(t) \/ GrowThrows(t)
  BY <1>3 DEF PlacesInv, Frame, Grow, DropFrame, GrowThrows
<1>4. CASE RequestShutdown \/ Walk \/ EndWalk \/ Finish \/ Cancel \/ Leave \/ UNCHANGED stackVars
  <2>1. shutdown' \in BOOLEAN
    BY <1>4, Zenon DEF PlacesInv, RequestShutdown, Walk, EndWalk, Finish, Cancel, Leave, stackVars
  <2> QED BY <1>4, <2>1 DEF PlacesInv, RequestShutdown, Walk, EndWalk, Finish, Cancel, Leave,
                            stackVars, buffer
<1> QED BY <1>1, <1>2, <1>3, <1>4 DEF StacksNext

----------------------------------------------------------------------------
(* The cohort.                                                             *)

\* The limit of threads bounds the ready threads of a cohort too.
LEMMA ReadyBound ==
    ASSUME NEW st, NEW A \in SUBSET Threads, DOMAIN st \subseteq A,
           Cardinality(DOMAIN st) <= MaximumThreads
    PROVE  /\ IsFiniteSet(ReadyIn(st)) /\ Cardinality(ReadyIn(st)) \in Nat
           /\ Cardinality(DOMAIN st) \in Nat
           /\ Cardinality(ReadyIn(st)) <= Cardinality(DOMAIN st)
           /\ Cardinality(DOMAIN st) <= ThreadCount(A)
<1>1. DOMAIN st \in SUBSET Threads /\ ReadyIn(st) \in SUBSET (DOMAIN st)
  BY DEF ReadyIn
<1>2. IsFiniteSet(A) /\ IsFiniteSet(DOMAIN st) /\ Cardinality(DOMAIN st) \in Nat
  BY <1>1, PlanFits
<1>3. /\ IsFiniteSet(ReadyIn(st)) /\ Cardinality(ReadyIn(st)) <= Cardinality(DOMAIN st)
      /\ Cardinality(DOMAIN st) <= Cardinality(A)
  BY <1>1, <1>2, FS_Subset
<1>4. Cardinality(ReadyIn(st)) \in Nat
  BY <1>3, FS_CardinalityType
<1>5. ThreadCount(A) = MaximumThreads \/ ThreadCount(A) = Cardinality(A)
  BY PlanFits
<1> QED BY <1>2, <1>3, <1>4, <1>5

\* With the budget used up, the threads that are ready are all there can be.
LEMMA UsedUp ==
    ASSUME MapInv, PlacesInv, DOMAIN stacks \subseteq active, RoomForRest,
           frameCapacity >= MaximumFrameCapacity
    PROVE  AllReady
<1> DEFINE n == ThreadCount(active)
           r == Cardinality(ReadyThreads)
           i == InitialCapacity(active)
<1>1. n \in Nat /\ i \in Nat /\ i >= 1
  BY PlanFits DEF PlacesInv
<1>2. r \in Nat /\ r <= n
  BY <1>1, ReadyBound DEF PlacesInv, MapInv, ReadyThreads
<1>3. (n - r) * i <= MaximumFrameCapacity - frameCapacity
  BY DEF RoomForRest
<1>4. MaximumFrameCapacity - frameCapacity <= 0 /\ MaximumFrameCapacity - frameCapacity \in Int
  BY LimitFacts DEF MapInv
<1> HIDE DEF n, r, i
<1>5. (n - r) * i <= 0
  BY <1>1, <1>2, <1>3, <1>4
<1>6. r = n
  <2>1. SUFFICES ASSUME r # n PROVE FALSE
    OBVIOUS
  <2>2. n - r >= 1
    BY <1>1, <1>2, <2>1
  <2>3. (n - r) * i >= 1
    BY <1>1, <1>2, <2>2
  <2> QED BY <1>1, <1>2, <1>5, <2>3
<1> QED BY <1>6 DEF AllReady, n, r

\* What eviction and reclaim leave of the budget is enough for the threads still to be served.
LEMMA PrepareStartsCohort ==
    ASSUME MapInv, PlacesInv, CohortInv, NEW A \in SUBSET Threads, Prepare(A)
    PROVE  CohortInv'
<1> DEFINE K == Kept(A)
           R == Reclaimed(A)
           n == ThreadCount(A)
           i == InitialCapacity(A)
<1>1. /\ MapInv' /\ DOMAIN stacks' = K /\ active' = A /\ pending' = A /\ cached' = NoThread
      /\ stacks' = [t \in K |-> IF t \in R THEN EmptyStack ELSE stacks[t]]
      /\ frameCapacity' = Cardinality(SlotsOf(stacks, K \ R))
      /\ \A t \in DOMAIN stacks : stacks[t].frames = 0
  BY PrepareKeepsMap DEF Prepare, CohortInv
<1>2. K \in SUBSET A /\ R \in SUBSET K /\ \A t \in K : t \in DOMAIN stacks /\ stacks[t].capacity > 0
  BY DEF Kept, Reclaimed
<1>3. \A t \in K : stacks'[t].frames = 0
  BY <1>1, <1>2 DEF EmptyStack
<1>4. ReadyThreads' = K \ R
  BY <1>1, <1>2 DEF ReadyThreads, ReadyIn, EmptyStack
<1>5. n \in Nat /\ i \in Nat /\ n * i <= MaximumFrameCapacity
  BY PlanFits
<1>6. Cardinality(K \ R) \in Nat
  BY <1>2, PlanFits
<1>7. frameCapacity' \in Nat
  BY <1>1 DEF MapInv
<1>8. (n - Cardinality(K \ R)) * i <= MaximumFrameCapacity - frameCapacity'
  <2>1. CASE Crowded(A)
    <3>1. \A t \in K \ R : stacks[t].capacity \in Nat /\ stacks[t].capacity <= i
      BY <1>2, <1>5, <2>1 DEF Reclaimed, MapInv
    <3> DEFINE k == Cardinality(K \ R)
    <3>2. frameCapacity' <= k * i
      BY <1>1, <1>2, <1>5, <3>1, SlotsBound
    <3> HIDE DEF k, n, i
    <3>3. (n - k) * i = n * i - k * i
      BY <1>5, <1>6 DEF k
    <3>4. n * i \in Nat /\ k * i \in Nat
      BY <1>5, <1>6 DEF k
    <3> QED BY <1>5, <1>7, <3>2, <3>3, <3>4, LimitFacts DEF k
  <2>2. CASE ~Crowded(A)
    <3>1. K \ R = K
      BY <2>2 DEF Reclaimed
    <3>2. Capacity(K) = frameCapacity'
      BY <1>1, <3>1 DEF Capacity, FrameSlots, SlotsOf
    <3>3. ~((n - Cardinality(K)) * i > MaximumFrameCapacity - Capacity(K))
      BY <2>2 DEF Crowded
    <3> HIDE DEF n, i, K, R
    <3>4. Cardinality(K) \in Nat /\ (n - Cardinality(K)) * i \in Int
      BY <1>5, <1>6, <3>1
    <3> QED BY <1>7, <3>1, <3>2, <3>3, <3>4, LimitFacts
  <2> QED BY <2>1, <2>2
<1>9. RoomForRest'
  BY <1>1, <1>4, <1>8 DEF RoomForRest
<1>10. PassedIsReady'
  BY <1>1, <1>2 DEF PassedIsReady
<1> QED BY <1>1, <1>2, <1>3, <1>9, <1>10 DEF CohortInv

\* A new stack of at least one frame, or the rest of the budget, leaves room for the others.
LEMMA ReserveKeepsCohort ==
    ASSUME MapInv, PlacesInv, CohortInv, MapInv', NEW t \in Threads, ReserveThread(t)
    PROVE  CohortInv'
<1> DEFINE n == ThreadCount(active)
           r == Cardinality(ReadyThreads)
           i == InitialCapacity(active)
           c == NextCapacity(Entry(t), ReserveLimit)
           left == MaximumFrameCapacity - frameCapacity
<1>1. /\ stage = "prepare" /\ stage' = "prepare" /\ t \in pending /\ t \in active
      /\ pending' = pending \ {t} /\ active' = active /\ intact' = intact /\ cached' = cached
      /\ Entry(t).capacity = 0 /\ ~Refused(t)
      /\ frameCapacity' = frameCapacity + c
      /\ stacks' = WithStack(t, [frames |-> 0, capacity |-> c])
      /\ c > 0
  BY DEF ReserveThread, Wanting, Visit, MayGrow, PlacesInv
<1>2. n \in Nat /\ i \in Nat /\ i >= 1 /\ i <= InitialStackFrames /\ left \in Nat
  BY PlanFits, LimitFacts DEF PlacesInv, MapInv
<1>3. ReserveLimit = AtMost(i, left)
  BY DEF ReserveLimit
<1>4. c = AtMost(i, left)
  BY <1>1, <1>2, <1>3, NextWithin, LimitFacts DEF AtMost
<1> HIDE DEF c
<1>5. /\ DOMAIN stacks' = DOMAIN stacks \cup {t} /\ stacks'[t] = [frames |-> 0, capacity |-> c]
      /\ \A u \in DOMAIN stacks \ {t} : stacks'[u] = stacks[u]
  BY <1>1 DEF WithStack
<1>6. ReadyThreads' = ReadyThreads \cup {t} /\ t \notin ReadyThreads
  BY <1>1, <1>5 DEF ReadyThreads, ReadyIn, Entry
<1>7. DOMAIN stacks \subseteq active /\ DOMAIN stacks' \subseteq active
  BY <1>1, <1>5 DEF CohortInv
<1>8. r \in Nat /\ IsFiniteSet(ReadyThreads)
  BY <1>7, ReadyBound DEF ReadyThreads, PlacesInv, MapInv
<1>9. Cardinality(ReadyThreads') = r + 1
  BY <1>6, <1>8, FS_AddElement
<1>10. Cardinality(ReadyThreads') <= n /\ Cardinality(DOMAIN stacks') \in Nat
  <2>1. active \in SUBSET Threads /\ Cardinality(DOMAIN stacks') <= MaximumThreads
    BY DEF PlacesInv, MapInv
  <2> QED BY <1>2, <1>7, <1>8, <1>9, <2>1, ReadyBound DEF ReadyThreads
<1>11. cached' \in DOMAIN stacks' \cup {NoThread} /\ \A u \in DOMAIN stacks' : stacks'[u].frames = 0
  BY <1>1, <1>5 DEF CohortInv
<1>12. ASSUME intact PROVE RoomForRest'
  <2>1. (n - r) * i <= left
    BY <1>1, <1>12 DEF CohortInv, RoomForRest
  <2> HIDE DEF n, r, i
  <2>2. n - r >= 1
    BY <1>2, <1>8, <1>9, <1>10
  <2>3. (n - r) * i >= i
    BY <1>2, <1>8, <2>2
  <2>4. c = i
    BY <1>2, <1>4, <1>8, <2>1, <2>3 DEF AtMost
  <2>5. (n - (r + 1)) * i = (n - r) * i - i
    BY <1>2, <1>8
  <2>6. (n - (r + 1)) * i <= left - c
    BY <1>2, <1>8, <2>1, <2>4, <2>5
  <2>7. left - c = MaximumFrameCapacity - frameCapacity'
    BY <1>1, <1>2, <2>4, LimitFacts DEF MapInv
  <2> QED BY <1>1, <1>9, <2>6, <2>7 DEF RoomForRest, n, i
<1>13. ASSUME intact PROVE PassedIsReady'
  <2>1. CASE AllReady
    BY <1>2, <1>8, <1>9, <1>10, <2>1 DEF AllReady
  <2>2. CASE ~AllReady
    <3>1. /\ \A u \in DOMAIN stacks \ ReadyThreads : u \in pending
          /\ (\E u \in active \ pending : u \notin DOMAIN stacks) =>
                 Cardinality(DOMAIN stacks) >= MaximumThreads
      BY <1>1, <1>13, <2>2 DEF CohortInv, PassedIsReady
    <3>2. \A u \in DOMAIN stacks' \ ReadyThreads' : u \in pending'
      BY <1>1, <1>5, <1>6, <3>1
    <3>3. IsFiniteSet(DOMAIN stacks) /\ Cardinality(DOMAIN stacks) \in Nat
      BY PlanFits DEF MapInv
    <3>4. Cardinality(DOMAIN stacks') >= Cardinality(DOMAIN stacks)
      <4>1. Cardinality(DOMAIN stacks \cup {t})
              = IF t \in DOMAIN stacks THEN Cardinality(DOMAIN stacks) ELSE Cardinality(DOMAIN stacks) + 1
        BY <3>3, FS_AddElement
      <4> QED BY <1>5, <3>3, <4>1
    <3>5. (\E u \in active' \ pending' : u \notin DOMAIN stacks') =>
              Cardinality(DOMAIN stacks') >= MaximumThreads
      BY <1>1, <1>5, <1>10, <3>1, <3>3, <3>4, LimitFacts
    <3> QED BY <3>2, <3>5 DEF PassedIsReady
  <2> QED BY <2>1, <2>2
<1> QED BY <1>1, <1>7, <1>11, <1>12, <1>13 DEF CohortInv

\* A thread that is passed over has its storage already, or finds a limit reached.
LEMMA SkipKeepsCohort ==
    ASSUME MapInv, PlacesInv, CohortInv, MapInv', NEW t \in Threads, SkipThread(t)
    PROVE  CohortInv'
<1>1. /\ stage = "prepare" /\ stage' = "prepare" /\ t \in pending /\ t \in active
      /\ pending' = pending \ {t} /\ active' = active /\ intact' = intact /\ cached' = cached
      /\ frameCapacity' = frameCapacity
  BY DEF SkipThread, Visit, PlacesInv, buffer
<1>2. DOMAIN stacks \subseteq active /\ (intact => RoomForRest /\ PassedIsReady)
  BY <1>1 DEF CohortInv
<1>3. CASE Refused(t) /\ stacks' = stacks
  <2>1. RoomForRest => RoomForRest'
    BY <1>1, <1>3 DEF RoomForRest, ReadyThreads
  <2>2. ASSUME intact PROVE PassedIsReady'
    <3>1. AllReady => AllReady'
      BY <1>1, <1>3 DEF AllReady, ReadyThreads
    <3>2. CASE frameCapacity >= MaximumFrameCapacity
      BY <1>2, <2>2, <3>1, <3>2, UsedUp DEF PassedIsReady
    <3>3. CASE Cardinality(DOMAIN stacks) >= MaximumThreads
      <4>1. t \notin DOMAIN stacks
        BY <1>3 DEF Refused
      <4> QED BY <1>1, <1>2, <1>3, <2>2, <3>1, <3>3, <4>1 DEF PassedIsReady, ReadyThreads
    <3> QED BY <1>3, <3>2, <3>3 DEF Refused
  <2> QED BY <1>1, <1>2, <1>3, <2>1, <2>2 DEF CohortInv
<1>4. CASE /\ ~Refused(t) /\ (Entry(t).capacity > 0 \/ ~MayGrow(Entry(t), ReserveLimit))
           /\ stacks' = WithStack(t, Entry(t))
  <2>1. /\ DOMAIN stacks' = DOMAIN stacks \cup {t} /\ stacks'[t] = Entry(t)
        /\ \A u \in DOMAIN stacks : stacks'[u] = stacks[u]
    BY <1>4 DEF WithStack, Entry
  <2>2. ReadyThreads' = ReadyThreads
    BY <2>1 DEF ReadyThreads, ReadyIn, Entry, EmptyStack
  <2>3. DOMAIN stacks' \subseteq active
    BY <1>1, <1>2, <2>1
  <2>4. cached' \in DOMAIN stacks' \cup {NoThread} /\ \A u \in DOMAIN stacks' : stacks'[u].frames = 0
    BY <1>1, <2>1 DEF CohortInv, Entry, EmptyStack
  <2>5. RoomForRest => RoomForRest'
    BY <1>1, <2>2 DEF RoomForRest
  <2>6. ASSUME intact PROVE PassedIsReady'
    <3>1. AllReady => AllReady'
      BY <1>1, <2>2 DEF AllReady
    <3>2. CASE Entry(t).capacity > 0
      <4>1. t \in ReadyThreads /\ DOMAIN stacks' = DOMAIN stacks
        BY <2>1, <3>2 DEF ReadyThreads, ReadyIn, Entry, EmptyStack
      <4>2. t \in DOMAIN stacks
        BY <4>1 DEF ReadyThreads, ReadyIn
      <4>3. CASE AllReady
        BY <3>1, <4>3 DEF PassedIsReady
      <4>4. CASE ~AllReady
        <5>1. /\ \A u \in DOMAIN stacks \ ReadyThreads : u \in pending
              /\ (\E u \in active \ pending : u \notin DOMAIN stacks) =>
                     Cardinality(DOMAIN stacks) >= MaximumThreads
          BY <1>2, <2>6, <4>4 DEF PassedIsReady
        <5>2. \A u \in DOMAIN stacks' \ ReadyThreads' : u \in pending'
          BY <1>1, <2>2, <4>1, <5>1
        <5>3. (\E u \in active' \ pending' : u \notin DOMAIN stacks') =>
                  (\E u \in active \ pending : u \notin DOMAIN stacks)
          BY <1>1, <4>1, <4>2
        <5>4. Cardinality(DOMAIN stacks') = Cardinality(DOMAIN stacks)
          BY <4>1
        <5>5. (\E u \in active' \ pending' : u \notin DOMAIN stacks') =>
                  Cardinality(DOMAIN stacks') >= MaximumThreads
          BY <5>1, <5>3, <5>4
        <5> QED BY <5>2, <5>5 DEF PassedIsReady
      <4> QED BY <4>3, <4>4
    <3>3. CASE ~(Entry(t).capacity > 0) /\ ~MayGrow(Entry(t), ReserveLimit)
      <4>1. Entry(t).capacity = 0 /\ Entry(t).frames = 0
        BY <1>1, <3>3 DEF MapInv, CohortInv, Entry, EmptyStack
      <4> DEFINE i == InitialCapacity(active)
                 left == MaximumFrameCapacity - frameCapacity
      <4>2. i \in Nat /\ i >= 1 /\ i <= InitialStackFrames /\ left \in Nat
        BY PlanFits, LimitFacts DEF PlacesInv, MapInv
      <4>3. ReserveLimit = AtMost(i, left)
        BY DEF ReserveLimit
      <4> HIDE DEF i, left
      <4>4. ReserveLimit \in Nat /\ ReserveLimit <= InitialStackFrames
        BY <4>2, <4>3, LimitFacts DEF AtMost
      <4>5. NextCapacity(Entry(t), ReserveLimit) = ReserveLimit
        BY <4>1, <4>4, NextWithin
      <4>6. ~(ReserveLimit > 0)
        BY <3>3, <4>1, <4>5, LimitFacts DEF MayGrow
      <4>7. left = 0
        BY <4>2, <4>3, <4>6 DEF AtMost
      <4>8. frameCapacity >= MaximumFrameCapacity
        BY <4>7, LimitFacts DEF left, MapInv
      <4> QED BY <1>2, <2>6, <3>1, <4>8, UsedUp DEF PassedIsReady
    <3> QED BY <1>4, <3>2, <3>3
  <2> QED BY <1>1, <2>3, <2>4, <2>5, <2>6, <1>2 DEF CohortInv
<1> QED BY <1>3, <1>4 DEF SkipThread, buffer

\* A failed allocation ends the claim about the cohort, not the one about the frames and the cache.
LEMMA FailureKeepsCohort ==
    ASSUME MapInv, PlacesInv, CohortInv, NEW t \in Threads, ReserveTooMuch(t) \/ ReserveThrows(t)
    PROVE  CohortInv'
<1>1. /\ stage = "prepare" /\ t \in active /\ active' = active /\ intact' = FALSE /\ cached' = cached
  BY DEF ReserveTooMuch, ReserveThrows, Wanting, Visit, PlacesInv
<1>2. stacks' = stacks \/ stacks' = WithStack(t, Entry(t))
  BY DEF ReserveTooMuch, ReserveThrows
<1>3. /\ DOMAIN stacks \subseteq DOMAIN stacks' /\ DOMAIN stacks' \subseteq DOMAIN stacks \cup {t}
      /\ \A u \in DOMAIN stacks' : stacks'[u].frames = 0
  BY <1>1, <1>2 DEF CohortInv, WithStack, Entry, EmptyStack
<1> QED BY <1>1, <1>3 DEF CohortInv

\* The steps outside the loop leave the claim about the cohort alone or end it.
LEMMA RestKeepsCohort ==
    ASSUME MapInv, PlacesInv, CohortInv,
           \/ \E t \in Threads : Frame(t) \/ Grow(t) \/ DropFrame(t) \/ GrowThrows(t)
           \/ RequestShutdown \/ Walk \/ EndWalk \/ Finish \/ Cancel \/ Leave
           \/ UNCHANGED stackVars
    PROVE  CohortInv'
<1>1. CASE \E t \in Threads : Frame(t) \/ Grow(t) \/ DropFrame(t) \/ GrowThrows(t)
  <2>1. /\ stage' \in {"walk", "finish"} /\ DOMAIN stacks' = DOMAIN stacks
        /\ cached' \in DOMAIN stacks
    BY <1>1 DEF Frame, Grow, DropFrame, GrowThrows, Walking, Push
  <2> QED BY <2>1 DEF CohortInv
<1>2. CASE Finish
  BY <1>2 DEF Finish, ResetStacks, CohortInv, MapInv
<1>3. CASE Cancel
  BY <1>3 DEF Cancel, CohortInv
<1>4. CASE Walk \/ EndWalk \/ Leave
  BY <1>4 DEF Walk, EndWalk, Leave, CohortInv, buffer
<1>5. CASE RequestShutdown \/ UNCHANGED stackVars
  <2>1. UNCHANGED <<stacks, frameCapacity, cached, active, pending, intact, stage>>
    BY <1>5 DEF RequestShutdown, stackVars, buffer
  <2>2. (RoomForRest => RoomForRest') /\ (PassedIsReady => PassedIsReady')
    BY <2>1 DEF RoomForRest, PassedIsReady, AllReady, ReadyThreads
  <2> QED BY <2>1, <2>2 DEF CohortInv
<1> QED BY <1>1, <1>2, <1>3, <1>4, <1>5

\* The three parts together are inductive.
LEMMA StacksInvariant == StacksSpec => [](MapInv /\ PlacesInv /\ CohortInv)
<1>1. StacksInit => MapInv /\ PlacesInv /\ CohortInv
  <2> SUFFICES ASSUME StacksInit PROVE MapInv /\ PlacesInv /\ CohortInv
    OBVIOUS
  <2>1. DOMAIN stacks = {} /\ Cardinality({}) = 0 /\ Cardinality(SlotsOf(stacks, {})) = 0
    BY FS_EmptySet, SlotsNone DEF StacksInit
  <2>2. MapInv
    BY <2>1, LimitFacts DEF StacksInit, MapInv
  <2>3. intact \in BOOLEAN /\ shutdown \in BOOLEAN
    BY Zenon DEF StacksInit
  <2>4. PlacesInv
    BY <2>3 DEF StacksInit, PlacesInv
  <2>5. CohortInv
    BY <2>1 DEF StacksInit, CohortInv
  <2> QED BY <2>2, <2>4, <2>5
<1>2. MapInv /\ PlacesInv /\ CohortInv /\ [StacksNext]_stackVars => (MapInv /\ PlacesInv /\ CohortInv)'
  <2> SUFFICES ASSUME MapInv, PlacesInv, CohortInv, [StacksNext]_stackVars
               PROVE  MapInv' /\ PlacesInv' /\ CohortInv'
    OBVIOUS
  <2>1. MapInv' /\ PlacesInv'
    BY MapKept, PlacesKept
  <2>2. CohortInv'
    BY <2>1, PrepareStartsCohort, SkipKeepsCohort, ReserveKeepsCohort, FailureKeepsCohort,
       RestKeepsCohort DEF StacksNext
  <2> QED BY <2>1, <2>2
<1> QED BY <1>1, <1>2, PTL DEF StacksSpec

\* frameCapacity_ is the capacity of all stacks, within the budget, after any sequence of eviction,
\* reclaim, reservation, growth and failed allocation, for every budget and number of threads.
THEOREM BudgetExact == StacksSpec => []BudgetIsExact
BY StacksInvariant, BudgetParts, PTL

\* However PrepareForCapture found the budget, its cohort has as many ready threads as the limit
\* admits when its loop ends, unless an allocation failed; no stack holds an earlier frame, and the
\* cached pointer is never one to an evicted entry.
THEOREM CohortReady == StacksSpec => []CohortIsReady
<1>1. MapInv /\ PlacesInv /\ CohortInv => CohortIsReady
  <2> SUFFICES ASSUME MapInv, PlacesInv, CohortInv PROVE CohortIsReady
    OBVIOUS
  <2>1. ASSUME stage = "prepare", pending = {}, intact PROVE AllReady
    <3>1. SUFFICES ASSUME ~AllReady PROVE FALSE
      OBVIOUS
    <3> DEFINE D == DOMAIN stacks
               n == ThreadCount(active)
    <3>2. /\ D \subseteq active /\ D \ ReadyThreads = {}
          /\ (\E t \in active : t \notin D) => Cardinality(D) >= MaximumThreads
      BY <2>1, <3>1 DEF CohortInv, PassedIsReady
    <3>3. ReadyThreads = D
      BY <3>2 DEF ReadyThreads, ReadyIn
    <3>4. /\ active \in SUBSET Threads /\ Cardinality(D) \in Nat /\ Cardinality(D) <= n
      BY <3>2, ReadyBound DEF PlacesInv, MapInv
    <3>5. n \in Nat /\ n <= MaximumThreads /\ n <= Cardinality(active)
      BY <3>4, PlanFits
    <3>6. Cardinality(D) # n
      BY <3>1, <3>3 DEF AllReady
    <3>7. CASE \E t \in active : t \notin D
      BY <3>2, <3>4, <3>5, <3>6, <3>7, LimitFacts
    <3>8. CASE active \subseteq D
      <4>1. active = D
        BY <3>2, <3>8
      <4> QED BY <3>4, <3>5, <3>6, <4>1
    <3> QED BY <3>7, <3>8
  <2> QED BY <2>1 DEF CohortInv, CohortIsReady, AllReady, ReadyThreads, ReadyIn
<1> QED BY <1>1, StacksInvariant, PTL
=============================================================================
