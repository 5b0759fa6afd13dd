-------------------------- MODULE MCResolveCompiler ---------------------------
(* ResolveCompiler for TLC.                                                 *)
EXTENDS ResolveCompiler
==============================================================================
