------------------------- MODULE ShutdownAdmission -------------------------
(***************************************************************************)
(* The process-wide admission gate of the continuous profiler              *)
(* (shutdown_admission.cpp): one atomic word whose top bit says "closing"  *)
(* and whose other bits count the scopes that were admitted, and a mutex,  *)
(* condition variable and flag used only to wait for the count to drain.   *)
(*                                                                         *)
(* Every atomic read-modify-write and every critical section of            *)
(* shutdown_mutex is one step; a call of the code is the sequence of its   *)
(* steps, so that scopes and closers interleave between any two of them.   *)
(***************************************************************************)
EXTENDS Naturals, FiniteSets

CONSTANTS Scopes,      \* ShutdownAdmission objects (nested ones are distinct objects)
          Closers,     \* threads that close the gate and wait for it to drain
          ClosingBit   \* 2^63 in the code: the weight of the closing bit

ASSUME ScopesAssumption == IsFiniteSet(Scopes)
ASSUME ClosingBitAssumption == ClosingBit \in Nat \ {0}

VARIABLES gate,        \* shutdown_admission_gate
          drained,     \* shutdown_admissions_drained
          scope,       \* where each ShutdownAdmission object is in its life
          seen,        \* the value of the gate a constructing scope last read
          closer       \* where each closing thread is

vars == <<gate, drained, scope, seen, closer>>

CountMask == ClosingBit - 1
IsClosing(state) == state >= ClosingBit
Count(state) == IF IsClosing(state) THEN state - ClosingBit ELSE state

Word == 0 .. (2 * ClosingBit - 1)

\* state + 1 in the unsigned word that holds the bit and the count.
Increment(state) == IF state + 1 = 2 * ClosingBit THEN 0 ELSE state + 1

ScopeState == {"none", "trying", "refused", "admitted", "publishing", "notifying"}
CloserState == {"running", "publishing", "notifying", "testing", "blocked", "returned"}

Init ==
    /\ gate = 0
    /\ drained = FALSE
    /\ scope = [a \in Scopes |-> "none"]
    /\ seen = [a \in Scopes |-> 0]
    /\ closer = [c \in Closers |-> "running"]

----------------------------------------------------------------------------
(* A scope: the constructor (TryEnterShutdownAdmission) and the destructor *)
(* (LeaveShutdownAdmission).                                               *)

\* The acquire load that starts the CAS loop.
Load(a) ==
    /\ scope[a] = "none"
    /\ seen' = [seen EXCEPT ![a] = gate]
    /\ scope' = [scope EXCEPT ![a] = "trying"]
    /\ UNCHANGED <<gate, drained, closer>>

\* Mutant: the limit of the counter is not tested.
MutantMayNotEnter(state) == IsClosing(state)
\* Closing, or the count is at its limit.
MayNotEnter(state) == IsClosing(state) \/ Count(state) = CountMask

Refuse(a) ==
    /\ scope[a] = "trying"
    /\ MayNotEnter(seen[a])
    /\ scope' = [scope EXCEPT ![a] = "refused"]
    /\ UNCHANGED <<gate, drained, seen, closer>>

\* Mutant: a plain increment in place of compare and exchange.
MutantCasSucceeds(a) ==
    /\ scope[a] = "trying"
    /\ ~MayNotEnter(seen[a])
    /\ gate' = Increment(gate)
    /\ scope' = [scope EXCEPT ![a] = "admitted"]
    /\ UNCHANGED <<drained, seen, closer>>

\* compare_exchange_weak found the value it had read.
CasSucceeds(a) ==
    /\ scope[a] = "trying"
    /\ ~MayNotEnter(seen[a])
    /\ gate = seen[a]
    /\ gate' = Increment(gate)
    /\ scope' = [scope EXCEPT ![a] = "admitted"]
    /\ UNCHANGED <<drained, seen, closer>>

\* The gate moved, or compare_exchange_weak failed spuriously: reload and retry.
CasFails(a) ==
    /\ scope[a] = "trying"
    /\ ~MayNotEnter(seen[a])
    /\ seen' = [seen EXCEPT ![a] = gate]
    /\ UNCHANGED <<gate, drained, scope, closer>>

\* The destructor of a scope that was not admitted does nothing.
Forget(a) ==
    /\ scope[a] = "refused"
    /\ scope' = [scope EXCEPT ![a] = "none"]
    /\ UNCHANGED <<gate, drained, seen, closer>>

\* fetch_sub; the scope that takes the count to zero after closing publishes the drain.
LastOut(previous) == Count(previous) = 1 /\ IsClosing(previous)

Leave(a) ==
    /\ scope[a] = "admitted"
    /\ gate' = gate - 1
    /\ scope' = [scope EXCEPT ![a] = IF LastOut(gate) THEN "publishing" ELSE "none"]
    /\ UNCHANGED <<drained, seen, closer>>

\* The critical section of shutdown_mutex in LeaveShutdownAdmission.
PublishDrain(a) ==
    /\ scope[a] = "publishing"
    /\ drained' = TRUE
    /\ scope' = [scope EXCEPT ![a] = "notifying"]
    /\ UNCHANGED <<gate, seen, closer>>

\* Mutant: the drain is published and nobody is notified.
MutantWoken == closer
\* notify_all: every thread blocked in the wait goes back to testing its predicate.
Woken == [c \in Closers |-> IF closer[c] = "blocked" THEN "testing" ELSE closer[c]]

NotifyDrain(a) ==
    /\ scope[a] = "notifying"
    /\ scope' = [scope EXCEPT ![a] = "none"]
    /\ closer' = Woken
    /\ UNCHANGED <<gate, drained, seen>>

----------------------------------------------------------------------------
(* A closer: CloseShutdownAdmissions and then WaitForShutdownAdmissions.   *)

\* fetch_or; with nobody inside the closer itself publishes the drain.
Close(c) ==
    /\ closer[c] = "running"
    /\ gate' = IF IsClosing(gate) THEN gate ELSE gate + ClosingBit
    /\ closer' = [closer EXCEPT ![c] = IF Count(gate) = 0 THEN "publishing" ELSE "testing"]
    /\ UNCHANGED <<drained, scope, seen>>

PublishEmpty(c) ==
    /\ closer[c] = "publishing"
    /\ drained' = TRUE
    /\ closer' = [closer EXCEPT ![c] = "notifying"]
    /\ UNCHANGED <<gate, scope, seen>>

NotifyEmpty(c) ==
    /\ closer[c] = "notifying"
    /\ closer' = [Woken EXCEPT ![c] = "testing"]
    /\ UNCHANGED <<gate, drained, scope, seen>>

\* The predicate of shutdown_cv.wait, tested with the mutex held.
TestDrained(c) ==
    /\ closer[c] = "testing"
    /\ closer' = [closer EXCEPT ![c] = IF drained THEN "returned" ELSE "blocked"]
    /\ UNCHANGED <<gate, drained, scope, seen>>

SpuriousWakeup(c) ==
    /\ closer[c] = "blocked"
    /\ closer' = [closer EXCEPT ![c] = "testing"]
    /\ UNCHANGED <<gate, drained, scope, seen>>

----------------------------------------------------------------------------
ScopeStep(a) ==
    \/ Load(a) \/ Refuse(a) \/ CasSucceeds(a) \/ CasFails(a) \/ Forget(a)
    \/ Leave(a) \/ PublishDrain(a) \/ NotifyDrain(a)

CloserStep(c) ==
    Close(c) \/ PublishEmpty(c) \/ NotifyEmpty(c) \/ TestDrained(c) \/ SpuriousWakeup(c)

Next ==
    \/ \E a \in Scopes : ScopeStep(a)
    \/ \E c \in Closers : CloserStep(c)

(* An admitted scope is the body of a callback or of a publication: it     *)
(* ends, and its destructor runs to the end. A thread that has closed the  *)
(* gate keeps running. Nothing makes anyone construct a scope or close.    *)
Fairness ==
    /\ \A a \in Scopes : WF_vars(Leave(a)) /\ WF_vars(PublishDrain(a)) /\ WF_vars(NotifyDrain(a))
    /\ \A c \in Closers : WF_vars(PublishEmpty(c)) /\ WF_vars(NotifyEmpty(c)) /\ WF_vars(TestDrained(c))

Spec == Init /\ [][Next]_vars
FairSpec == Spec /\ Fairness

----------------------------------------------------------------------------
Admitted == {a \in Scopes : scope[a] = "admitted"}
Closed == \E c \in Closers : closer[c] # "running"

TypeOK ==
    /\ gate \in Word
    /\ drained \in BOOLEAN
    /\ scope \in [Scopes -> ScopeState]
    /\ seen \in [Scopes -> Word]
    /\ closer \in [Closers -> CloserState]

\* The word of the gate is exactly "how many scopes are admitted" plus "somebody closed": counting
\* never carries into the closing bit and closing never loses a count (TryEnterShutdownAdmission's
\* limit test and the three read-modify-writes).
GateIsExact ==
    /\ IsClosing(gate) <=> Closed
    /\ Count(gate) = Cardinality(Admitted)

\* WaitForShutdownAdmissions returns only into a quiet process: once the drained flag is up, or any
\* closer is back, the gate is closed and no admitted scope is left, although scopes may still be
\* between fetch_sub and notify_all.
DrainedIsQuiet ==
    (drained \/ \E c \in Closers : closer[c] = "returned") => IsClosing(gate) /\ Admitted = {}

\* The gate promises what DrainGate says: atomic entry, final close, return after the drain.
Gate == INSTANCE DrainGate WITH
            closed <- IsClosing(gate),
            inside <- Admitted,
            returned <- {c \in Closers : closer[c] = "returned"}
ImplementsDrainGate == Gate!Spec

\* Shutdown is never stranded in WaitForShutdownAdmissions: whoever publishes the drain also wakes
\* every closer, including one that tested the flag just before it was set.
EveryCloserReturns == \A c \in Closers : closer[c] # "running" ~> closer[c] = "returned"
=============================================================================
