----------------------------- MODULE DrainGate -----------------------------
(***************************************************************************)
(* What the shutdown admission gate promises its users, whatever atomics   *)
(* and condition variables implement it: while the gate is open a scope    *)
(* may enter in one step; closing is final; and a closer comes back only   *)
(* when every scope that got in has left.                                  *)
(***************************************************************************)
CONSTANTS Scopes,      \* the ShutdownAdmission objects of the process
          Closers      \* the threads that run ContinuousProfiler::Shutdown

VARIABLES closed,      \* the terminal transition has happened
          inside,      \* scopes that crossed the gate and have not left
          returned     \* closers whose wait has returned

gateVars == <<closed, inside, returned>>

Init ==
    /\ closed = FALSE
    /\ inside = {}
    /\ returned = {}

\* A scope is admitted: only while the gate is open.
Enter(a) ==
    /\ ~closed
    /\ a \notin inside
    /\ inside' = inside \cup {a}
    /\ UNCHANGED <<closed, returned>>

\* An admitted scope ends.
Leave(a) ==
    /\ a \in inside
    /\ inside' = inside \ {a}
    /\ UNCHANGED <<closed, returned>>

Close ==
    /\ closed' = TRUE
    /\ UNCHANGED <<inside, returned>>

\* The wait of a closer ends: the gate is closed and nobody is inside.
Return(c) ==
    /\ closed
    /\ inside = {}
    /\ returned' = returned \cup {c}
    /\ UNCHANGED <<closed, inside>>

Next ==
    \/ \E a \in Scopes : Enter(a) \/ Leave(a)
    \/ Close
    \/ \E c \in Closers : Return(c)

Spec == Init /\ [][Next]_gateVars
=============================================================================
