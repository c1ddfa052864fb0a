----------------------------- MODULE BatchQueue -----------------------------
(***************************************************************************)
(* What the two-slot exchange of thread-sample batches promises: a queue   *)
(* of bounded length from one producer to one reader, which loses,         *)
(* duplicates and reorders nothing and returns each batch with the         *)
(* sampling interval it was captured under.                                *)
(***************************************************************************)
EXTENDS Naturals, Sequences

CONSTANT Capacity

VARIABLES queue,      \* batches waiting for the reader
          taken,      \* the batch the reader is copying, as a sequence of at most one
          delivered   \* every batch returned to the reader so far

vars == <<queue, taken, delivered>>

Init == queue = <<>> /\ taken = <<>> /\ delivered = <<>>

\* Some batch is added at the end.
Put ==
    /\ Len(queue) < Capacity
    /\ Len(queue') = Len(queue) + 1
    /\ queue' = Append(queue, queue'[Len(queue')])
    /\ UNCHANGED <<taken, delivered>>

Take ==
    /\ queue # <<>> /\ taken = <<>>
    /\ taken' = <<Head(queue)>>
    /\ queue' = Tail(queue)
    /\ UNCHANGED delivered

Deliver ==
    /\ taken # <<>>
    /\ delivered' = Append(delivered, taken[1])
    /\ taken' = <<>>
    /\ UNCHANGED queue

Next == Put \/ Take \/ Deliver

Spec == Init /\ [][Next]_vars
=============================================================================
