------------------------- MODULE MCSamplingSchedule -------------------------
EXTENDS SamplingSchedule

\* Nothing enabled, each feature alone, and both at two ratios.
IntervalSets ==
    {[cpu |-> 0, sel |-> 0], [cpu |-> 4, sel |-> 0], [cpu |-> 0, sel |-> 2],
     [cpu |-> 4, sel |-> 2], [cpu |-> 6, sel |-> 2]}
=============================================================================
