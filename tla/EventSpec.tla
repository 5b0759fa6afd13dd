------------------------------ MODULE EventSpec -------------------------------
(***************************************************************************)
(* What an event promises to those who add and remove handlers while it is *)
(* being invoked: the comment at the top of corlib's Event.bf and what the *)
(* enumeration is for.                                                     *)
(*   - Every handler that is there when an invocation begins and is not    *)
(*     removed is called, in order.                                        *)
(*   - A handler that has been removed is not called any more.             *)
(*   - No handler is called twice, unless one is added to the front.       *)
(* A handler that is added during an invocation may or may not be called.  *)
(***************************************************************************)
EXTENDS Integers, Sequences, SequencesExt, Selection

CONSTANT Delegates

VARIABLES
  listeners,    \* the handlers, in order
  invocations   \* one record per invocation in progress, nested ones last:
                \* the handlers that are due, those that have been called

vars == <<listeners, invocations>>

Init == listeners = <<>> /\ invocations = <<>>

Without(s, d) == Select(s, Delegates \ {d})

Add(d) ==
  /\ d \notin ToSet(listeners)
  /\ listeners' = Append(listeners, d)
  /\ UNCHANGED invocations

(* Who adds to the front puts up with a handler being called again.         *)
AddFront(d) ==
  /\ d \notin ToSet(listeners)
  /\ listeners' = <<d>> \o listeners
  /\ DOMAIN invocations' = DOMAIN invocations
  /\ \A k \in DOMAIN invocations :
       /\ invocations'[k].called = {}
       /\ \E again \in {<<>>} \cup {<<x>> : x \in ToSet(listeners)} :
            invocations'[k].due = again \o invocations[k].due

RemoveListener(d) ==
  /\ d \in ToSet(listeners)
  /\ listeners' = Without(listeners, d)
  /\ invocations' = [k \in DOMAIN invocations |->
                       [due |-> Without(invocations[k].due, d),
                        called |-> invocations[k].called \ {d}]]

RemoveAll ==
  /\ listeners' = <<>>
  /\ invocations' = [k \in DOMAIN invocations |-> [due |-> <<>>, called |-> {}]]

Begin ==
  /\ invocations' = Append(invocations, [due |-> listeners, called |-> {}])
  /\ UNCHANGED listeners

(* The innermost invocation calls what is due next, or a handler that came  *)
(* later.                                                                   *)
Call(d) ==
  LET top == Last(invocations) IN
    /\ invocations # <<>>
    /\ d \in ToSet(listeners) \ top.called
    /\ d \in ToSet(top.due) => d = Head(top.due)
    /\ invocations' = [invocations EXCEPT ![Len(invocations)] =
                         [due |-> Without(top.due, d),
                          called |-> top.called \cup {d}]]
    /\ UNCHANGED listeners

End ==
  /\ invocations # <<>> /\ Last(invocations).due = <<>>
  /\ invocations' = Front(invocations)
  /\ UNCHANGED listeners

Next ==
  \/ \E d \in Delegates : Add(d) \/ AddFront(d) \/ RemoveListener(d) \/ Call(d)
  \/ RemoveAll \/ Begin \/ End

Spec == Init /\ [][Next]_vars
==============================================================================
