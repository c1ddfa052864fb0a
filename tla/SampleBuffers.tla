---------------------------- MODULE SampleBuffers ----------------------------
(***************************************************************************)
(* The buffers between the native producers and the managed reader         *)
(* (continuous_profiler.cpp, BufferProcessor.cs): two slots for batches of *)
(* all threads, one byte buffer for batches of selected threads with back  *)
(* pressure, and one for allocation samples.                               *)
(*                                                                         *)
(* A batch is its number, its size and its sampling interval. The worker's *)
(* test for room and its publication are separate steps with the capture   *)
(* between them; the reader takes a batch under the lock and copies it     *)
(* afterwards. Publication admission is part of SamplerShutdown; here a    *)
(* refused, cancelled or empty capture just publishes nothing.             *)
(***************************************************************************)
EXTENDS Naturals, Sequences

CONSTANTS MaximumSize,    \* kSamplesBufferMaximumSize
          ReaderLength,   \* BufferProcessor.BufferSize
          Sizes,          \* sizes a serialised batch or sample may need
          Intervals,      \* CPU sampling intervals
          MaxBatches      \* bound on the batches of each kind

ASSUME SizesAssumption ==
    /\ MaximumSize \in Nat \ {0} /\ ReaderLength \in Nat /\ MaximumSize <= ReaderLength
    /\ Sizes \subseteq Nat \ {0}
    /\ MaxBatches \in Nat

VARIABLES
    slotA, slotB,   \* cpu_buffer_a, cpu_buffer_b
    bytes,          \* the size of selective_sampling_buffer
    held,           \* history: the numbers of the batches in it
    saturated,      \* selective_sampling_buffer_saturated
    allocBytes,     \* the size of allocation_buffer
    worker,         \* what the sampling worker is capturing
    interval,       \* the interval of its cohort
    taken,          \* the batch the reader has dequeued, as a sequence of at most one
    recorded,       \* history: the number of the last batch of all threads
    offered,        \* history: the number of the last batch of selected threads
    delivered       \* history: the batches the reader was given

cpuVars == <<slotA, slotB, recorded>>
selVars == <<bytes, held, saturated, offered>>
readVars == <<taken, delivered>>
vars == <<cpuVars, selVars, allocBytes, worker, interval, readVars>>

NoBatch == [id |-> 0, size |-> 0, interval |-> 0]
Batch == [id : Nat \ {0}, size : Nat, interval : Intervals]

Init ==
    /\ slotA = NoBatch /\ slotB = NoBatch
    /\ bytes = 0 /\ held = <<>> /\ saturated = FALSE
    /\ allocBytes = 0
    /\ worker = "idle" /\ interval \in Intervals
    /\ taken = <<>> /\ delivered = <<>>
    /\ recorded = 0 /\ offered = 0

----------------------------------------------------------------------------
(* The sampling worker.                                                    *)

\* Mutant: the test looks at one slot only.
MutantHasRoom == TRUE
\* ThreadSamplingShouldProduceThreadSample.
HasRoom == slotA = NoBatch \/ slotB = NoBatch

BeginAllThreads(i) ==
    /\ worker = "idle" /\ HasRoom /\ recorded < MaxBatches
    /\ worker' = "all"
    /\ interval' = i
    /\ UNCHANGED <<cpuVars, selVars, allocBytes, readVars>>

\* SelectiveSamplingShouldProduceThreadSample.
BeginSelectedThreads ==
    /\ worker = "idle" /\ ~saturated /\ offered < MaxBatches
    /\ worker' = "selected"
    /\ UNCHANGED <<cpuVars, selVars, allocBytes, interval, readVars>>

\* The capture ends without a batch.
PublishNothing ==
    /\ worker # "idle"
    /\ worker' = "idle"
    /\ UNCHANGED <<cpuVars, selVars, allocBytes, interval, readVars>>

\* CanWrite: a batch beyond the limit is marked and never published.
Overflows(size) == size > MaximumSize

\* ThreadSamplingRecordProducedThreadSample: the first free slot; with none, the batch is dropped.
Record(b) ==
    /\ slotA' = IF slotA = NoBatch THEN b ELSE slotA
    /\ slotB' = IF slotA # NoBatch /\ slotB = NoBatch THEN b ELSE slotB

\* PublishBuffer.
PublishAllThreads(size) ==
    /\ worker = "all" /\ ~Overflows(size)
    /\ recorded' = recorded + 1
    /\ Record([id |-> recorded', size |-> size, interval |-> interval])
    /\ worker' = "idle"
    /\ UNCHANGED <<selVars, allocBytes, interval, readVars>>

\* Mutant: a discarded batch does not stop the ones that follow it.
MutantDiscard == UNCHANGED <<bytes, held, saturated>>
\* The buffer is saturated or the batch does not fit: nothing more is buffered until the next read.
Discard == saturated' = TRUE /\ UNCHANGED <<bytes, held>>

\* SelectiveSamplingRecordProducedThreadSample.
PublishSelectedThreads(size) ==
    /\ worker = "selected" /\ ~Overflows(size)
    /\ offered' = offered + 1
    /\ IF saturated \/ bytes + size > MaximumSize
         THEN Discard
         ELSE /\ bytes' = bytes + size
              /\ held' = Append(held, offered')
              /\ saturated' = (bytes' = MaximumSize)
    /\ worker' = "idle"
    /\ UNCHANGED <<cpuVars, allocBytes, interval, readVars>>

----------------------------------------------------------------------------
(* Allocation callbacks: AllocationSamplingAppendToBuffer.                 *)

AllocationFull(size) == allocBytes + size >= MaximumSize

AppendAllocation(size) ==
    /\ ~Overflows(size) /\ ~AllocationFull(size)
    /\ allocBytes' = allocBytes + size
    /\ UNCHANGED <<cpuVars, selVars, worker, interval, readVars>>

----------------------------------------------------------------------------
(* The managed reader: one thread, one sample type at a time.              *)

\* Mutant: the second slot is not moved up.
MutantMoveUp == slotA' = NoBatch /\ UNCHANGED slotB
MoveUp == slotA' = slotB /\ slotB' = NoBatch

\* Mutant: a batch is taken only once both slots are full.
MutantReady == slotA # NoBatch /\ slotB # NoBatch
Ready == slotA # NoBatch

\* ThreadSamplingConsumeOneThreadSample, under cpu_buffer_lock.
TakeBatch ==
    /\ taken = <<>> /\ Ready
    /\ taken' = <<slotA>>
    /\ MoveUp
    /\ UNCHANGED <<recorded, selVars, allocBytes, worker, interval, delivered>>

\* The copy; a batch the reader's buffer cannot hold is lost.
CopyBatch ==
    /\ taken # <<>>
    /\ delivered' = IF taken[1].size <= ReaderLength THEN Append(delivered, taken[1]) ELSE delivered
    /\ taken' = <<>>
    /\ UNCHANGED <<cpuVars, selVars, allocBytes, worker, interval>>

\* SelectiveSamplingConsumeAndClearBuffer; what the reader's buffer cannot hold is cut off.
ReadSelected ==
    /\ taken = <<>>
    /\ bytes' = 0 /\ held' = <<>>
    /\ saturated' = FALSE
    /\ UNCHANGED <<cpuVars, offered, allocBytes, worker, interval, readVars>>

\* AllocationSamplingConsumeAndReplaceBuffer.
ReadAllocations ==
    /\ taken = <<>>
    /\ allocBytes' = 0
    /\ UNCHANGED <<cpuVars, selVars, worker, interval, readVars>>

Next ==
    \/ \E i \in Intervals : BeginAllThreads(i)
    \/ BeginSelectedThreads \/ PublishNothing
    \/ \E size \in Sizes : PublishAllThreads(size)
    \/ \E size \in Sizes : PublishSelectedThreads(size)
    \/ \E size \in Sizes : AppendAllocation(size)
    \/ TakeBatch \/ CopyBatch \/ ReadSelected \/ ReadAllocations

Spec == Init /\ [][Next]_vars

\* The export loop comes back to the batches of all threads and ends every read it starts.
FairSpec == Spec /\ WF_vars(TakeBatch) /\ WF_vars(CopyBatch)

----------------------------------------------------------------------------
(* Properties.                                                             *)

TypeOK ==
    /\ slotA \in Batch \cup {NoBatch} /\ slotB \in Batch \cup {NoBatch}
    /\ bytes \in 0..MaximumSize /\ saturated \in BOOLEAN /\ held \in Seq(Nat)
    /\ allocBytes \in 0..(MaximumSize - 1)
    /\ worker \in {"idle", "all", "selected"} /\ interval \in Intervals
    /\ taken \in Seq(Batch) /\ Len(taken) <= 1 /\ delivered \in Seq(Batch)
    /\ recorded \in Nat /\ offered \in Nat

\* The occupied slots, oldest first.
Occupied(b) == IF b = NoBatch THEN <<>> ELSE <<b>>
Slots == Occupied(slotA) \o Occupied(slotB)

Queue == INSTANCE BatchQueue WITH Capacity <- 2, queue <- Slots

\* The two slots are a queue: whatever the worker and the reader interleave, no published batch is
\* lost, duplicated or overtaken, and each is delivered with its own interval.
ImplementsQueue == Queue!Spec

\* Room seen before the capture is still there after it, so the branch that drops a finished batch
\* is never taken.
RoomIsReserved == worker = "all" => slotB = NoBatch

\* No read cuts a record: whatever is buffered fits the reader's buffer.
NothingIsCut ==
    /\ taken # <<>> => taken[1].size <= ReaderLength
    /\ bytes <= ReaderLength /\ allocBytes <= ReaderLength

\* A finished batch is neither dropped for want of a slot nor cut by a reader's buffer that is too
\* small, although the room is tested before the capture and the reader is in the managed
\* half of the program.
NothingIsLost == RoomIsReserved /\ NothingIsCut

\* What one read of the selected-threads buffer returns has no gap: once a batch is discarded,
\* nothing later is appended behind the ones already there.
NoGapInSelected ==
    /\ \A i \in 1..(Len(held) - 1) : held[i + 1] = held[i] + 1
    /\ held # <<>> /\ ~saturated => held[Len(held)] = offered

\* Every published batch of all threads reaches the reader.
EveryBatchArrives == \A n \in 1..MaxBatches : (recorded >= n) ~> (Len(delivered) >= n)
=============================================================================
