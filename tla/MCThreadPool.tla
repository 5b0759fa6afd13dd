---------------------------- MODULE MCThreadPool -----------------------------
(* ThreadPool for TLC: two providers, three jobs, one of which can be       *)
(* cancelled, and at most two pool threads.                                 *)
EXTENDS ThreadPool
==============================================================================
