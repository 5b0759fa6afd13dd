------------------------------ MODULE BfpEvent -------------------------------
(***************************************************************************)
(* The event of BeefySysLib's platform layer, as SyncEvent uses it.  Set   *)
(* and WaitFor run under the event's mutex, so each is one step: a waiter  *)
(* passes in a state in which mSet holds.  Reset takes no lock: its two    *)
(* stores are two steps.                                                   *)
(***************************************************************************)

Event == [mSet : BOOLEAN, mManualReset : BOOLEAN]

(* SyncEvent(): flags AllowAutoReset and AllowManualReset, not set.         *)
EventCreate == [mSet |-> FALSE, mManualReset |-> FALSE]

EventSet(e, requireManualReset) ==
  [mSet |-> TRUE, mManualReset |-> e.mManualReset \/ requireManualReset]

(* What WaitFor leaves behind when it returns true; it may when e.mSet.     *)
EventPassed(e) == [e EXCEPT !.mSet = e.mManualReset]

EventResetSet(e) == [e EXCEPT !.mSet = FALSE]
EventResetManual(e) == [e EXCEPT !.mManualReset = FALSE]
==============================================================================
