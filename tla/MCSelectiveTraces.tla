-------------------------- MODULE MCSelectiveTraces --------------------------
EXTENDS SelectiveTraces, TLC

\* One trace more than the limit.
SpanSet == {<<"t1", 1>>, <<"t2", 1>>, <<"t3", 1>>}
ThreadSymmetry == Permutations(Threads)
=============================================================================
