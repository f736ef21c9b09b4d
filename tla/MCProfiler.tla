----------------------------- MODULE MCProfiler -----------------------------
(* Small instances of Profiler. *)
EXTENDS Profiler

MCEntryHists == <<"PROF_WALK_ITERS_HIST">>
MCExitHists  == <<"PROF_EXIT_HIST">>
MCResetHists == <<"PROF_EXIT_HIST", "PROF_WALK_ITERS_HIST">>
MCLinear     == {"PROF_WALK_ITERS_HIST"}
=============================================================================
