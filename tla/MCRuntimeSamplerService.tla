---------------------- MODULE MCRuntimeSamplerService ----------------------
(* Two control-plane threads, one Shutdown, and snapshots that switch each *)
(* branch on and off: the last one is invalid.                             *)
EXTENDS RuntimeSamplerService

Snapshot(cpu, sel, alloc) == [cpu |-> cpu, sel |-> sel, alloc |-> alloc]
MCConfigs == {Disabled, Snapshot(2, 1, 0), Snapshot(2, 0, 1), Snapshot(0, 1, 2), Snapshot(3, 2, 0)}
=============================================================================
