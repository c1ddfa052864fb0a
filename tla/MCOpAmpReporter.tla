--------------------------- MODULE MCOpAmpReporter ---------------------------
(* Two pool threads: either timer may have a second callback running.      *)
EXTENDS OpAmpReporter
==============================================================================
