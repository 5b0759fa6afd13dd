--------------------------- MODULE MCGCThreadList ----------------------------
(* GCThreadList for TLC: the main thread and two that it, or one of them,   *)
(* starts.                                                                  *)
EXTENDS GCThreadList
==============================================================================
