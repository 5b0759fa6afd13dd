----------------------------- MODULE CorlibEvent ------------------------------
(***************************************************************************)
(* System.Event of the core library (BeefLibs/corlib/src/Event.bf): no     *)
(* handler, one delegate or a list of them in one machine word, which      *)
(* points to the outermost enumerator while the event is being invoked.    *)
(* Handlers add, remove, dispose and invoke the event again from inside.   *)
(*                                                                         *)
(* A delegate is in the event at most once (the event owns it).  Queries   *)
(* (HasListeners, Contains, Count) change nothing and are left out.        *)
(***************************************************************************)
EXTENDS Integers, Sequences, SequencesExt, Selection

CONSTANTS
  Delegates,
  Null,          \* an entry of the list that was removed while enumerating
  MaxDepth,      \* bound: invocations inside one another
  MaxLen         \* bound: entries of the list, removed ones included

ASSUME EventAssumption ==
  Null \notin Delegates /\ MaxDepth \in Nat /\ MaxLen \in Nat

VARIABLES
  kind,          \* Target: "null", "one" delegate or a "list"
  items,         \* its delegates
  hadEnumRemoves,
  enumerators,   \* the ones in progress, the root (mRootEnumerator) first
  crashed,       \* an invalid cast
  disposed       \* history: the event was disposed during this enumeration

vars == <<kind, items, hadEnumRemoves, enumerators, crashed, disposed>>

Init ==
  /\ kind = "null" /\ items = <<>> /\ hadEnumRemoves = FALSE
  /\ enumerators = <<>> /\ crashed = FALSE /\ disposed = FALSE

IsEnumerating == enumerators # <<>>
Present == Select(items, Delegates)

(* The program's turn: outside of any invocation, or in a handler.          *)
InProgram == ~crashed /\ (IsEnumerating => Last(enumerators).mIdx >= 0)

(* An enumerator is mIdx and two histories: the delegates that have been in *)
(* the event since it began, and those it has called.                       *)
Forget(ds) ==
  enumerators' = [k \in DOMAIN enumerators |->
    [enumerators[k] EXCEPT !.since = @ \ ds, !.called = @ \ ds]]

Add(d) ==
  /\ InProgram /\ d \notin ToSet(items) /\ Len(items) < MaxLen
  /\ kind' = IF kind = "null" THEN "one" ELSE "list"
  /\ items' = Append(items, d)
  /\ UNCHANGED <<hadEnumRemoves, enumerators, crashed, disposed>>

(* list.Insert(0, ...): the enumerators' indices stay what they are.        *)
AddFront(d) ==
  /\ InProgram /\ d \notin ToSet(items) /\ Len(items) < MaxLen
  /\ kind' = IF kind = "null" THEN "one" ELSE "list"
  /\ items' = <<d>> \o items
  /\ enumerators' = [k \in DOMAIN enumerators |->
                       [enumerators[k] EXCEPT !.called = {}]]
  /\ UNCHANGED <<hadEnumRemoves, crashed, disposed>>

IndexOf(d) == CHOOSE i \in DOMAIN items : items[i] = d

(* Mutants: the entry is taken out at once; the flag is set for a single    *)
(* delegate too.                                                            *)
RemoveAtOnce(d) ==
  /\ InProgram /\ kind = "list" /\ d \in ToSet(items)
  /\ items' = RemoveAt(items, IndexOf(d))
  /\ kind' = IF items' = <<>> THEN "null" ELSE "list"
  /\ Forget({d})
  /\ UNCHANGED <<hadEnumRemoves, crashed, disposed>>

RemoveOneFlagged(d) ==
  /\ InProgram /\ kind = "one" /\ items = <<d>>
  /\ kind' = "null" /\ items' = <<>> /\ hadEnumRemoves' = IsEnumerating
  /\ Forget({d})
  /\ UNCHANGED <<crashed, disposed>>

(* Remove: from the list, by a hole while enumerating, or the only one.     *)
RemoveFromList(d) ==
  /\ InProgram /\ kind = "list" /\ d \in ToSet(items)
  /\ items' = IF IsEnumerating THEN [items EXCEPT ![IndexOf(d)] = Null]
                               ELSE RemoveAt(items, IndexOf(d))
  /\ kind' = IF items' = <<>> THEN "null" ELSE "list"
  /\ hadEnumRemoves' = IsEnumerating
  /\ Forget({d})
  /\ UNCHANGED <<crashed, disposed>>

RemoveOne(d) ==
  /\ InProgram /\ kind = "one" /\ items = <<d>>
  /\ kind' = "null" /\ items' = <<>>
  /\ Forget({d})
  /\ UNCHANGED <<hadEnumRemoves, crashed, disposed>>

Dispose ==
  /\ InProgram /\ kind # "null"
  /\ kind' = "null" /\ items' = <<>>
  /\ disposed' = IsEnumerating
  /\ Forget(Delegates)
  /\ UNCHANGED <<hadEnumRemoves, crashed>>

(* Invoke, up to the first MoveNext, which attaches the enumerator.         *)
Begin ==
  /\ InProgram /\ Len(enumerators) < MaxDepth
  /\ enumerators' = Append(enumerators,
       [mIdx |-> -1, since |-> ToSet(Present), called |-> {}])
  /\ UNCHANGED <<kind, items, hadEnumRemoves, crashed, disposed>>

(* MoveNext of the innermost enumerator, through the root's mTarget: the    *)
(* next entry that is not null (indices count from 0); a single delegate    *)
(* is at index 0.                                                           *)
NextIndices == {i \in DOMAIN items : /\ i > Last(enumerators).mIdx + 1
                                    /\ items[i] # Null}

MoveNext ==
  /\ ~crashed /\ IsEnumerating /\ NextIndices # {}
  /\ LET top == Last(enumerators)
         i == CHOOSE i \in NextIndices : \A j \in NextIndices : i <= j IN
       enumerators' = [enumerators EXCEPT ![Len(enumerators)] =
         [mIdx |-> i - 1, since |-> top.since,
          called |-> top.called \cup {items[i]}]]
  /\ UNCHANGED <<kind, items, hadEnumRemoves, crashed, disposed>>

(* MoveNext returns false and the enumerator is disposed; the root removes  *)
(* the holes, in what it takes for a list.                                  *)
EndInner ==
  /\ ~crashed /\ Len(enumerators) > 1 /\ NextIndices = {}
  /\ enumerators' = Front(enumerators)
  /\ UNCHANGED <<kind, items, hadEnumRemoves, crashed, disposed>>

EndRootLeaves ==      \* mutant: the outermost enumerator removes no holes
  /\ ~crashed /\ Len(enumerators) = 1 /\ NextIndices = {}
  /\ enumerators' = <<>> /\ hadEnumRemoves' = FALSE /\ disposed' = FALSE
  /\ UNCHANGED <<kind, items, crashed>>

EndRoot ==
  /\ ~crashed /\ Len(enumerators) = 1 /\ NextIndices = {}
  /\ ~(hadEnumRemoves /\ kind = "one")
  /\ enumerators' = <<>>
  /\ items' = IF hadEnumRemoves THEN Present ELSE items
  /\ kind' = IF hadEnumRemoves /\ Present = <<>> THEN "null" ELSE kind
  /\ hadEnumRemoves' = FALSE /\ disposed' = FALSE
  /\ UNCHANGED crashed

EndRootBadCast ==
  /\ ~crashed /\ Len(enumerators) = 1 /\ NextIndices = {}
  /\ hadEnumRemoves /\ kind = "one"
  /\ crashed' = TRUE
  /\ UNCHANGED <<kind, items, hadEnumRemoves, enumerators, disposed>>

Next ==
  \/ \E d \in Delegates :
       Add(d) \/ AddFront(d) \/ RemoveFromList(d) \/ RemoveOne(d)
  \/ Dispose \/ Begin \/ MoveNext \/ EndInner \/ EndRoot \/ EndRootBadCast

Spec == Init /\ [][Next]_vars

-----------------------------------------------------------------------------
TypeOK ==
  /\ kind \in {"null", "one", "list"}
  /\ items \in Seq(Delegates \cup {Null})
  /\ enumerators \in Seq([mIdx : Int, since : SUBSET Delegates,
                          called : SUBSET Delegates])
  /\ {hadEnumRemoves, crashed, disposed} \subseteq BOOLEAN

(* The event keeps the promise of EventSpec: what is due in an invocation   *)
(* are the delegates behind mIdx that have been in the event since it       *)
(* began.                                                                   *)
Due(e) == Select(SubSeq(items, e.mIdx + 2, Len(items)), e.since)

Invocations ==
  [k \in DOMAIN enumerators |->
     [due |-> Due(enumerators[k]), called |-> enumerators[k].called]]

Promise == INSTANCE EventSpec WITH
  listeners <- Present, invocations <- Invocations

KeepsPromise == Promise!Spec

(* Outside of invocations no hole is left and no list is empty, however     *)
(* deep the handler was that removed an entry.                              *)
NoHoleIsLeft ==
  ~IsEnumerating =>
    /\ Null \notin ToSet(items) /\ ~hadEnumRemoves
    /\ kind = "null" <=> items = <<>>
    /\ kind = "one" => Len(items) = 1

(* The outermost enumerator takes a delegate for a list only when handlers  *)
(* have removed an entry, disposed the event and added again.               *)
CastIsValid == crashed => disposed
==============================================================================
