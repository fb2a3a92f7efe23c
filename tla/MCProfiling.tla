----------------------------- MODULE MCProfiling -----------------------------
(* TLC instance of Profiling. *)
EXTENDS Profiling

\* Two types, one of which pprof cannot read; runs of the two tests share the files.
MCTypes == <<"heap", "trace">>
===============================================================================
