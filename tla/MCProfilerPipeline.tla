-------------------------- MODULE MCProfilerPipeline --------------------------
(* Two AppDomains that share the native buffers.                           *)
EXTENDS ProfilerPipeline
===============================================================================
