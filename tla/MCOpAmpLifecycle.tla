--------------------------- MODULE MCOpAmpLifecycle ---------------------------
(* The protocol has no parameters: one manager, one start and one exit.    *)
EXTENDS OpAmpLifecycle
===============================================================================
