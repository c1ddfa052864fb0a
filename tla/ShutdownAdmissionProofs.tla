---------------------- MODULE ShutdownAdmissionProofs ----------------------
(***************************************************************************)
(* The gate of shutdown_admission.cpp is exact and drains quietly for any  *)
(* number of scopes and closers and any width of the counter, and it       *)
(* implements DrainGate.                                                   *)
(***************************************************************************)
EXTENDS ShutdownAdmission, FiniteSetTheorems, TLAPS

\* What the two "somebody has to publish the drain" paths and the waiters rely on: whoever is past
\* the decision that the count has drained knows the gate is closed and empty.
PastDrain ==
    \/ drained
    \/ \E a \in Scopes : scope[a] \in {"publishing", "notifying"}
    \/ \E c \in Closers : closer[c] \in {"publishing", "notifying", "returned"}

PublishersAreLate == PastDrain => IsClosing(gate) /\ Admitted = {}

IInv == TypeOK /\ GateIsExact /\ PublishersAreLate

\* Admitted is a finite set, so that counting it makes sense.
LEMMA AdmittedFinite == IsFiniteSet(Admitted) /\ Cardinality(Admitted) \in Nat
<1>1. Admitted \subseteq Scopes
  BY DEF Admitted
<1> QED
  BY <1>1, ScopesAssumption, FS_Subset, FS_CardinalityType

\* A successful CAS adds one to the count and leaves the closing bit alone.
LEMMA IncrementCounts ==
    ASSUME NEW state \in Word, ~MayNotEnter(state)
    PROVE  /\ Increment(state) \in Word
           /\ ~IsClosing(Increment(state))
           /\ Count(Increment(state)) = Count(state) + 1
BY ClosingBitAssumption DEF Word, MayNotEnter, Increment, IsClosing, Count, CountMask

\* fetch_sub of a word with a nonzero count takes one from the count only.
LEMMA DecrementCounts ==
    ASSUME NEW state \in Word, Count(state) # 0
    PROVE  /\ state - 1 \in Word
           /\ IsClosing(state - 1) <=> IsClosing(state)
           /\ Count(state - 1) = Count(state) - 1
BY ClosingBitAssumption DEF Word, IsClosing, Count

\* fetch_or keeps the count and sets the bit.
LEMMA OrCloses ==
    ASSUME NEW state \in Word
    PROVE  LET next == IF IsClosing(state) THEN state ELSE state + ClosingBit
           IN  /\ next \in Word
               /\ IsClosing(next)
               /\ Count(next) = Count(state)
BY ClosingBitAssumption DEF Word, IsClosing, Count

\* The word, read as a count, is a natural number.
LEMMA CountType == ASSUME NEW state \in Word PROVE Count(state) \in Nat
BY ClosingBitAssumption DEF Word, IsClosing, Count

----------------------------------------------------------------------------
\* The initial state satisfies the inductive invariant.
LEMMA InitIInv == Init => IInv
<1> SUFFICES ASSUME Init PROVE IInv
  OBVIOUS
<1>0. 0 \in Word
  BY ClosingBitAssumption DEF Word
<1>1. TypeOK
  BY <1>0 DEF Init, TypeOK, ScopeState, CloserState
<1>2. Admitted = {}
  BY DEF Init, Admitted
<1>3. GateIsExact
  BY <1>2, FS_EmptySet, ClosingBitAssumption DEF Init, GateIsExact, IsClosing, Count, Closed
<1>4. PublishersAreLate
  BY DEF Init, PublishersAreLate, PastDrain
<1> QED
  BY <1>1, <1>3, <1>4 DEF IInv

\* Steps of scopes that are neither the CAS nor fetch_sub change nobody's admission.
LEMMA QuietScopeSteps ==
    ASSUME IInv, NEW a \in Scopes,
           Load(a) \/ Refuse(a) \/ CasFails(a) \/ Forget(a) \/ PublishDrain(a) \/ NotifyDrain(a)
    PROVE  IInv'
<1>1. TypeOK'
  BY DEF IInv, TypeOK, Load, Refuse, CasFails, Forget, PublishDrain, NotifyDrain, Woken,
         ScopeState, CloserState
<1>2. Admitted' = Admitted
  BY DEF IInv, TypeOK, Load, Refuse, CasFails, Forget, PublishDrain, NotifyDrain, Admitted
<1>3. gate' = gate
  BY DEF Load, Refuse, CasFails, Forget, PublishDrain, NotifyDrain
<1>4. Closed' <=> Closed
  BY DEF IInv, TypeOK, Load, Refuse, CasFails, Forget, PublishDrain, NotifyDrain, Woken, Closed
<1>5. GateIsExact'
  BY <1>2, <1>3, <1>4 DEF IInv, GateIsExact
<1>6. PastDrain' => PastDrain
  BY DEF IInv, TypeOK, Load, Refuse, CasFails, Forget, PublishDrain, NotifyDrain, Woken, PastDrain
<1>7. PublishersAreLate'
  BY <1>2, <1>3, <1>6 DEF IInv, PublishersAreLate
<1> QED
  BY <1>1, <1>5, <1>7 DEF IInv

\* The CAS admits one scope, and only through an open gate.
LEMMA CasKeepsIInv ==
    ASSUME IInv, NEW a \in Scopes, CasSucceeds(a)
    PROVE  IInv'
<1>1. /\ gate \in Word
      /\ ~MayNotEnter(gate)
      /\ gate' = Increment(gate)
      /\ scope[a] = "trying"
      /\ scope' = [scope EXCEPT ![a] = "admitted"]
      /\ UNCHANGED <<drained, seen, closer>>
  BY DEF CasSucceeds, IInv, TypeOK
<1>2. /\ gate' \in Word
      /\ ~IsClosing(gate')
      /\ Count(gate') = Count(gate) + 1
  BY <1>1, IncrementCounts
<1>3. ~IsClosing(gate)
  BY <1>1 DEF MayNotEnter
<1>4. TypeOK'
  BY <1>1, <1>2 DEF IInv, TypeOK, ScopeState
<1>5. Admitted' = Admitted \cup {a} /\ a \notin Admitted
  BY <1>1 DEF IInv, TypeOK, Admitted
<1>6. Cardinality(Admitted') = Cardinality(Admitted) + 1
  BY <1>5, AdmittedFinite, FS_AddElement
<1>7. GateIsExact'
  BY <1>1, <1>2, <1>3, <1>6 DEF IInv, GateIsExact, Closed
<1>8. ~PastDrain
  BY <1>3 DEF IInv, PublishersAreLate
<1>9. ~PastDrain'
  BY <1>1, <1>8 DEF IInv, TypeOK, PastDrain
<1> QED
  BY <1>4, <1>7, <1>9 DEF IInv, PublishersAreLate

\* fetch_sub by the destructor: the one that empties a closed gate becomes the publisher.
LEMMA LeaveKeepsIInv ==
    ASSUME IInv, NEW a \in Scopes, Leave(a)
    PROVE  IInv'
<1>1. /\ gate \in Word
      /\ scope[a] = "admitted"
      /\ gate' = gate - 1
      /\ scope' = [scope EXCEPT ![a] = IF LastOut(gate) THEN "publishing" ELSE "none"]
      /\ UNCHANGED <<drained, seen, closer>>
  BY DEF Leave, IInv, TypeOK
<1>2. a \in Admitted /\ Admitted' = Admitted \ {a}
  BY <1>1 DEF IInv, TypeOK, Admitted
<1>3. Cardinality(Admitted') = Cardinality(Admitted) - 1 /\ Cardinality(Admitted) # 0
  BY <1>2, AdmittedFinite, FS_RemoveElement, FS_EmptySet
<1>4. Count(gate) = Cardinality(Admitted)
  BY DEF IInv, GateIsExact
<1>5. /\ gate' \in Word
      /\ IsClosing(gate') <=> IsClosing(gate)
      /\ Count(gate') = Count(gate) - 1
  BY <1>1, <1>3, <1>4, DecrementCounts
<1>6. TypeOK'
  BY <1>1, <1>5 DEF IInv, TypeOK, ScopeState
<1>7. GateIsExact'
  BY <1>1, <1>3, <1>4, <1>5 DEF IInv, GateIsExact, Closed
<1>8. ~PastDrain
  BY <1>2 DEF IInv, PublishersAreLate
<1>9. CASE LastOut(gate)
  <2>1. Cardinality(Admitted') = 0
    BY <1>3, <1>4, <1>9 DEF LastOut
  <2>2. IsFiniteSet(Admitted')
    BY <1>2, AdmittedFinite, FS_RemoveElement
  <2>3. Admitted' = {}
    BY <2>1, <2>2, FS_EmptySet
  <2> QED
    BY <1>5, <1>6, <1>7, <1>9, <2>3 DEF LastOut, IInv, PublishersAreLate
<1>10. CASE ~LastOut(gate)
  <2>1. ~PastDrain'
    BY <1>1, <1>8, <1>10 DEF IInv, TypeOK, PastDrain
  <2> QED
    BY <1>6, <1>7, <2>1 DEF IInv, PublishersAreLate
<1> QED
  BY <1>9, <1>10

\* fetch_or by a closer: with a zero count the closer becomes the publisher.
LEMMA CloseKeepsIInv ==
    ASSUME IInv, NEW c \in Closers, Close(c)
    PROVE  IInv'
<1>1. /\ gate \in Word
      /\ gate' = IF IsClosing(gate) THEN gate ELSE gate + ClosingBit
      /\ closer' = [closer EXCEPT ![c] = IF Count(gate) = 0 THEN "publishing" ELSE "testing"]
      /\ UNCHANGED <<drained, scope, seen>>
  BY DEF Close, IInv, TypeOK
<1>2. /\ gate' \in Word
      /\ IsClosing(gate')
      /\ Count(gate') = Count(gate)
  BY <1>1, OrCloses
<1>3. TypeOK'
  BY <1>1, <1>2 DEF IInv, TypeOK, CloserState
<1>4. Admitted' = Admitted
  BY <1>1 DEF Admitted
<1>5. Closed'
  BY <1>1 DEF IInv, TypeOK, Closed
<1>6. GateIsExact'
  BY <1>2, <1>4, <1>5 DEF IInv, GateIsExact
<1>7. CASE Count(gate) = 0
  <2>1. Admitted = {}
    BY <1>7, AdmittedFinite, FS_EmptySet DEF IInv, GateIsExact
  <2> QED
    BY <1>2, <1>3, <1>4, <1>6, <2>1 DEF IInv, PublishersAreLate
<1>8. CASE Count(gate) # 0
  <2>1. PastDrain' => PastDrain
    BY <1>1, <1>8 DEF IInv, TypeOK, PastDrain
  <2> QED
    BY <1>2, <1>3, <1>4, <1>6, <2>1 DEF IInv, PublishersAreLate
<1> QED
  BY <1>7, <1>8

\* The other steps of a closer read the gate's verdict and change neither word nor scopes.
LEMMA QuietCloserSteps ==
    ASSUME IInv, NEW c \in Closers,
           PublishEmpty(c) \/ NotifyEmpty(c) \/ TestDrained(c) \/ SpuriousWakeup(c)
    PROVE  IInv'
<1>1. TypeOK'
  BY DEF IInv, TypeOK, PublishEmpty, NotifyEmpty, TestDrained, SpuriousWakeup, Woken, CloserState
<1>2. Admitted' = Admitted /\ gate' = gate
  BY DEF PublishEmpty, NotifyEmpty, TestDrained, SpuriousWakeup, Admitted
<1>3. closer[c] # "running" /\ closer'[c] # "running"
  BY DEF IInv, TypeOK, PublishEmpty, NotifyEmpty, TestDrained, SpuriousWakeup, Woken
<1>4. Closed' <=> Closed
  BY <1>3 DEF Closed
<1>5. GateIsExact'
  BY <1>2, <1>4 DEF IInv, GateIsExact
<1>6. PastDrain' => PastDrain
  BY DEF IInv, TypeOK, PublishEmpty, NotifyEmpty, TestDrained, SpuriousWakeup, Woken, PastDrain
<1> QED
  BY <1>1, <1>2, <1>5, <1>6 DEF IInv, PublishersAreLate

\* IInv is inductive.
LEMMA NextIInv == IInv /\ [Next]_vars => IInv'
<1> SUFFICES ASSUME IInv, [Next]_vars PROVE IInv'
  OBVIOUS
<1>1. CASE UNCHANGED vars
  BY <1>1 DEF vars, IInv, TypeOK, GateIsExact, PublishersAreLate, PastDrain, Admitted, Closed
<1>2. ASSUME NEW a \in Scopes, ScopeStep(a) PROVE IInv'
  BY <1>2, QuietScopeSteps, CasKeepsIInv, LeaveKeepsIInv DEF ScopeStep
<1>3. ASSUME NEW c \in Closers, CloserStep(c) PROVE IInv'
  BY <1>3, CloseKeepsIInv, QuietCloserSteps DEF CloserStep
<1> QED
  BY <1>1, <1>2, <1>3 DEF Next

\* The inductive invariant holds in every reachable state.
LEMMA Inductive == Spec => []IInv
BY InitIInv, NextIInv, PTL DEF Spec

\* Every variable of shutdown_admission.cpp keeps its type: the word never leaves its width.
THEOREM TypeCorrect == Spec => []TypeOK
BY Inductive, PTL DEF IInv

\* The gate's word is always the exact number of admitted scopes plus the closing bit.
THEOREM GateExact == Spec => []GateIsExact
BY Inductive, PTL DEF IInv

\* WaitForShutdownAdmissions returns, and the drained flag is raised, only when the gate is closed
\* and no admitted scope is left.
THEOREM DrainQuiet == Spec => []DrainedIsQuiet
<1>1. IInv => DrainedIsQuiet
  BY DEF IInv, PublishersAreLate, PastDrain, DrainedIsQuiet
<1> QED
  BY <1>1, Inductive, PTL

----------------------------------------------------------------------------
\* The initial state maps to the abstract gate's.
LEMMA InitRefines == Init => Gate!Init
BY ClosingBitAssumption DEF Init, Gate!Init, Admitted, IsClosing

\* Every step of the code maps to a step of the abstract gate or to none.
LEMMA StepRefines == IInv /\ [Next]_vars => [Gate!Next]_(Gate!gateVars)
<1> DEFINE Returned == {c \in Closers : closer[c] = "returned"}
<1> SUFFICES ASSUME IInv, [Next]_vars PROVE [Gate!Next]_(Gate!gateVars)
  OBVIOUS
<1>1. CASE UNCHANGED vars
  BY <1>1 DEF vars, Gate!gateVars, Admitted, IsClosing
<1>2. ASSUME NEW a \in Scopes, CasSucceeds(a) PROVE Gate!Enter(a)
  <2>1. ~IsClosing(gate) /\ ~IsClosing(gate')
    BY <1>2, IncrementCounts DEF CasSucceeds, IInv, TypeOK, MayNotEnter
  <2>2. a \notin Admitted /\ Admitted' = Admitted \cup {a}
    BY <1>2 DEF CasSucceeds, IInv, TypeOK, Admitted
  <2>3. Returned' = Returned
    BY <1>2 DEF CasSucceeds
  <2>4. IsClosing(gate') = IsClosing(gate)
    BY <2>1 DEF IsClosing
  <2> QED
    BY <2>1, <2>2, <2>3, <2>4 DEF Gate!Enter
<1>3. ASSUME NEW a \in Scopes, Leave(a) PROVE Gate!Leave(a)
  <2>1. a \in Admitted /\ Admitted' = Admitted \ {a}
    BY <1>3 DEF Leave, IInv, TypeOK, Admitted
  <2>2. Count(gate) # 0
    BY <2>1, AdmittedFinite, FS_EmptySet DEF IInv, GateIsExact
  <2>3. IsClosing(gate') = IsClosing(gate)
    BY <1>3, <2>2, DecrementCounts DEF Leave, IInv, TypeOK, IsClosing
  <2>4. Returned' = Returned
    BY <1>3 DEF Leave
  <2> QED
    BY <2>1, <2>3, <2>4 DEF Gate!Leave
<1>4. ASSUME NEW a \in Scopes,
             Load(a) \/ Refuse(a) \/ CasFails(a) \/ Forget(a) \/ PublishDrain(a) \/ NotifyDrain(a)
      PROVE  UNCHANGED Gate!gateVars
  <2>1. Admitted' = Admitted
    BY <1>4 DEF IInv, TypeOK, Load, Refuse, CasFails, Forget, PublishDrain, NotifyDrain, Admitted
  <2>2. gate' = gate
    BY <1>4 DEF Load, Refuse, CasFails, Forget, PublishDrain, NotifyDrain
  <2>3. Returned' = Returned
    BY <1>4 DEF IInv, TypeOK, Load, Refuse, CasFails, Forget, PublishDrain, NotifyDrain, Woken
  <2> QED
    BY <2>1, <2>2, <2>3 DEF Gate!gateVars, IsClosing
<1>5. ASSUME NEW c \in Closers, Close(c) PROVE Gate!Close
  <2>1. IsClosing(gate')
    BY <1>5, OrCloses DEF Close, IInv, TypeOK
  <2>2. IsClosing(gate') = TRUE
    BY <2>1 DEF IsClosing
  <2>3. Admitted' = Admitted
    BY <1>5 DEF Close, Admitted
  <2>4. Returned' = Returned
    BY <1>5 DEF Close, IInv, TypeOK
  <2> QED
    BY <2>2, <2>3, <2>4 DEF Gate!Close
<1>6. ASSUME NEW c \in Closers, TestDrained(c)
      PROVE  Gate!Return(c) \/ UNCHANGED Gate!gateVars
  <2>1. Admitted' = Admitted /\ gate' = gate
    BY <1>6 DEF TestDrained, Admitted
  <2>2. CASE drained
    <3>1. Returned' = Returned \cup {c}
      BY <1>6, <2>2 DEF TestDrained, IInv, TypeOK
    <3>2. IsClosing(gate) /\ Admitted = {}
      BY <2>2 DEF IInv, PublishersAreLate, PastDrain
    <3> QED
      BY <2>1, <3>1, <3>2 DEF Gate!Return, IsClosing
  <2>3. CASE ~drained
    <3>1. Returned' = Returned
      BY <1>6, <2>3 DEF TestDrained, IInv, TypeOK
    <3> QED
      BY <2>1, <3>1 DEF Gate!gateVars, IsClosing
  <2> QED
    BY <2>2, <2>3
<1>7. ASSUME NEW c \in Closers, PublishEmpty(c) \/ NotifyEmpty(c) \/ SpuriousWakeup(c)
      PROVE  UNCHANGED Gate!gateVars
  <2>1. Admitted' = Admitted /\ gate' = gate
    BY <1>7 DEF PublishEmpty, NotifyEmpty, SpuriousWakeup, Admitted
  <2>2. Returned' = Returned
    BY <1>7 DEF PublishEmpty, NotifyEmpty, SpuriousWakeup, Woken, IInv, TypeOK
  <2> QED
    BY <2>1, <2>2 DEF Gate!gateVars, IsClosing
<1> QED
  BY <1>1, <1>2, <1>3, <1>4, <1>5, <1>6, <1>7 DEF Next, ScopeStep, CloserStep, Gate!Next

\* The atomics and the condition variable implement the gate that DrainGate describes.
THEOREM Implements == Spec => ImplementsDrainGate
BY Inductive, InitRefines, StepRefines, PTL DEF Spec, ImplementsDrainGate, Gate!Spec
=============================================================================
