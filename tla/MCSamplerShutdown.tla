------------------------- MODULE MCSamplerShutdown -------------------------
(* An allocating thread, a managed caller and two calls of Shutdown.        *)
EXTENDS SamplerShutdown
=============================================================================
