----------------------------- MODULE MCGCControl -----------------------------
(* GCControl for TLC.  The calls are bounded, so the program may come to    *)
(* rest; the collector's loop itself never does while it runs.              *)
EXTENDS GCControl
==============================================================================
