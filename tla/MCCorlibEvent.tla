---------------------------- MODULE MCCorlibEvent -----------------------------
(* CorlibEvent for TLC.                                                     *)
EXTENDS CorlibEvent
==============================================================================
