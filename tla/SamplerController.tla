------------------------- MODULE SamplerController -------------------------
(***************************************************************************)
(* What RuntimeSamplerService promises its callers: one committed pair of  *)
(* authority and configuration, which only valid snapshots change, in an   *)
(* order of authorities, and never after the service has become terminal.  *)
(***************************************************************************)
CONSTANTS Configs,     \* the configurations callers may submit
          Valid(_)     \* the ones the service may commit

VARIABLES authority, committed, terminal

ctrlVars == <<authority, committed, terminal>>

Disabled == [cpu |-> 0, sel |-> 0, alloc |-> 0]

Init ==
    /\ authority = "None"
    /\ committed = Disabled
    /\ terminal = FALSE

\* A snapshot is committed. A seed is only ever the first one; the control plane may always replace.
Commit(source, cfg) ==
    /\ ~terminal
    /\ Valid(cfg)
    /\ source = "Seed" => authority = "None"
    /\ authority' = source
    /\ committed' = cfg
    /\ UNCHANGED terminal

\* Shutdown, or a failure that leaves nothing to preserve.
Terminate ==
    /\ terminal' = TRUE
    /\ UNCHANGED <<authority, committed>>

Next ==
    \/ \E source \in {"Seed", "ControlPlane"}, cfg \in Configs : Commit(source, cfg)
    \/ Terminate

Spec == Init /\ [][Next]_ctrlVars
=============================================================================
