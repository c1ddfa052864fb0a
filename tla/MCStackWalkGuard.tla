------------------------- MODULE MCStackWalkGuard -------------------------
(* The probe sequences of the three builds: .NET Framework on x64 and x86, *)
(* and .NET on x64.                                                        *)
EXTENDS StackWalkGuard

NetFxX64 == <<"RtlFrame0", "CanaryDss">>
NetFxX86 == <<"CanaryDss">>
ClrX64 == <<"RtlFrame0">>
\* Nothing, any one lock, or all of them.
MCHeldSets == {{}, Lock} \cup {{l} : l \in Lock}
MCPlans == {NetFxX64, NetFxX86, ClrX64}
=============================================================================
