----------------------- MODULE MCShutdownAdmission -----------------------
(* Three scopes against a count limit of two, and two closing threads.     *)
EXTENDS ShutdownAdmission
=============================================================================
