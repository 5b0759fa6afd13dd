------------------------------- MODULE GCCycle -------------------------------
(***************************************************************************)
(* One collector thread and the mutator threads of a Beef program built    *)
(* with the real-time leak check (BeefRT/dbg/gc.cpp, DbgInternal.cpp).     *)
(*                                                                         *)
(* A collection stops every mutator, advances the mark id (1, 2, 3, 1 ...) *)
(* and marks what the roots reach; it then resumes the mutators and sweeps *)
(* while they run.  An object the sweep finds with the previous mark id is *)
(* freed when the program has deleted it and reported as a leak when it    *)
(* has not.  Mark id, DELETED and STACK_ALLOC share one byte of the object *)
(* header (mObjectFlags); the mutators write that byte too, and only one   *)
(* of their writes is a compare-and-swap.                                  *)
(***************************************************************************)
EXTENDS Integers, FiniteSets

CONSTANTS
  Objects,      \* addresses of the object heap (slots of tcmalloc spans)
  Threads,      \* mutator threads in mThreadList
  AllocPaths,   \* which overloads of Dbg_ObjectAlloc the program uses
  ScanMayFail,  \* may BfpThread_GetIntRegisters fail?
  RootsMayFail, \* may a root callback return an error?
  FirstCap,     \* room of mOrderedPendingGCData in the first collection
  MaxCap,       \* bound: the queue is never made larger than this
  MaxRefs,      \* bound: references one object holds
  MaxStatics,   \* bound: objects held by static roots
  NoObj         \* no object

ASSUME CapAssumption == /\ FirstCap \in Nat
                        /\ MaxCap \in Nat
                        /\ FirstCap <= MaxCap
ASSUME MaxCapAssumption == Cardinality(Objects) <= MaxCap
ASSUME ObjAssumption == NoObj \notin Objects
ASSUME PathAssumption == AllocPaths \subseteq {"ClassVData", "TypeInstance"}

VARIABLES
  \* ---- the object heap
  status,       \* "free", "raw" (mDbgAllocInfo still 0) or "init"
  mark,         \* mObjectFlags & BF_OBJECTFLAG_MARK_ID_MASK
  deleted,      \* mObjectFlags & BF_OBJECTFLAG_DELETED
  leakFlag,     \* mObjectFlags & BF_OBJECTFLAG_STACK_ALLOC, set by the sweep
  refs,         \* what the members of an object refer to
  \* ---- the mutators
  statics,      \* objects held by static fields, root callbacks, explicit roots
  stack,        \* per thread: objects held by its stack, registers and TLS
  pc,           \* per thread: where it is inside new or delete
  opObj,        \* per thread: the object that new or delete works on
  saved,        \* per thread: the mark bits it has read and not yet written
  \* ---- the collector
  phase,
  cur,          \* mCurMarkId = sCurMarkId = sAllocFlags
  pending,      \* mOrderedPendingGCData
  cap,          \* its size: nothing is allocated while threads are stopped
  overflowed,   \* mHadPendingGCDataOverflow
  failed,       \* mCollectFailed
  rootError,    \* mHadRootError
  scanTodo,     \* threads ScanThreads has not reached yet
  sweepTodo,    \* slots Sweep has not reached yet
  finalizeList, \* mFinalizeList
  leaks,        \* mSweepInfo.mLeakObjects
  \* ---- history, read by the properties only
  reach,        \* what the last stop of the world found reachable
  lost,         \* objects on which a mutator has overwritten a newer mark id
  skipped       \* leaks that were not listed because of a root error

heapVars == <<status, mark, deleted, leakFlag, refs>>
progVars == <<statics, stack, pc, opObj, saved>>
listVars == <<finalizeList, leaks>>
markVars == <<pending, cap, overflowed, failed, rootError, scanTodo>>
histVars == <<reach, lost, skipped>>
vars == <<heapVars, progVars, phase, cur, markVars, sweepTodo, listVars,
          histVars>>

Stopped == phase \in {"roots", "scan"}

(* The mark ids.  0 is "just allocated"; a sweep frees PrevMark and takes   *)
(* the one before it for impossible.                                       *)
NextMark(m) == IF m = 3 THEN 1 ELSE m + 1
DeleteMarkNoWrap(m) == m - 1
DeleteMark(m) == IF m - 1 = 0 THEN 3 ELSE m - 1
InvalidMark(m) == DeleteMark(DeleteMark(m))

Live(o) == status[o] = "init"
Busy(o) == \E t \in Threads : pc[t] # "run" /\ opObj[t] = o

-----------------------------------------------------------------------------
(* Reachability, as the marker has to find it.  A reference held by a      *)
(* deleted object keeps a deleted object in memory but does not count for  *)
(* an object that nobody has deleted: that one is a leak.  No path through  *)
(* an object whose mark id is not to be trusted (Torn) counts.             *)

Roots == statics \cup UNION {stack[t] : t \in Threads}
Torn == lost \cup skipped

Counts(p, c) == Live(c) /\ (deleted[p] => deleted[c])

Reachable ==
  {o \in Objects :
     \A S \in SUBSET Objects :
        ( /\ \A r \in Roots : (Live(r) /\ r \notin Torn) => r \in S
          /\ \A p \in S : \A c \in refs[p] :
                (Counts(p, c) /\ c \notin Torn) => c \in S )
        => o \in S}

-----------------------------------------------------------------------------
Init ==
  /\ status = [o \in Objects |-> "free"]
  /\ mark = [o \in Objects |-> 0]
  /\ deleted = [o \in Objects |-> FALSE]
  /\ leakFlag = [o \in Objects |-> FALSE]
  /\ refs = [o \in Objects |-> {}]
  /\ statics = {}
  /\ stack = [t \in Threads |-> {}]
  /\ pc = [t \in Threads |-> "run"]
  /\ opObj = [t \in Threads |-> NoObj]
  /\ saved = [t \in Threads |-> 0]
  /\ phase = "idle"
  /\ cur = 1
  /\ pending = {}
  /\ cap = FirstCap
  /\ overflowed = FALSE
  /\ failed = FALSE
  /\ rootError = FALSE
  /\ scanTodo = {}
  /\ sweepTodo = {}
  /\ finalizeList = {}
  /\ leaks = {}
  /\ reach = {}
  /\ lost = {}
  /\ skipped = {}

-----------------------------------------------------------------------------
(* The mutators.  A stopped thread takes no step, wherever it was.         *)

Thread(t, from, to) == /\ ~Stopped
                       /\ pc[t] = from
                       /\ pc' = [pc EXCEPT ![t] = to]

Return(t) == /\ opObj' = [opObj EXCEPT ![t] = NoObj]
             /\ saved' = [saved EXCEPT ![t] = 0]

gcUnchanged == UNCHANGED <<phase, cur, markVars, sweepTodo, listVars>>

(* new: BfObjectAllocate returns a slot and mClassVData is written without *)
(* a mark id.  mDbgAllocInfo is still 0: the collector does not see it.    *)
(* What the slot held before is forgotten with its history.                *)
ObjectAllocMarked(t, o) ==
  /\ Thread(t, "run", "allocInfo")
  /\ status[o] = "free"
  /\ status' = [status EXCEPT ![o] = "raw"]
  /\ mark' = [mark EXCEPT ![o] = cur]
  /\ opObj' = [opObj EXCEPT ![t] = o]
  /\ stack' = [stack EXCEPT ![t] = @ \cup {o}]
  /\ lost' = lost \ {o}
  /\ skipped' = skipped \ {o}
  /\ UNCHANGED <<deleted, leakFlag, refs, statics, saved, reach>>
  /\ gcUnchanged

ObjectAlloc(t, o) ==
  /\ Thread(t, "run", "allocInfo")
  /\ status[o] = "free"
  /\ status' = [status EXCEPT ![o] = "raw"]
  /\ opObj' = [opObj EXCEPT ![t] = o]
  /\ stack' = [stack EXCEPT ![t] = @ \cup {o}]
  /\ lost' = lost \ {o}
  /\ skipped' = skipped \ {o}
  /\ UNCHANGED <<mark, deleted, leakFlag, refs, statics, saved, reach>>
  /\ gcUnchanged

(* mDbgAllocInfo is set between two fences: now it is an object.           *)
AllocSetInfo(t) ==
  /\ Thread(t, "allocInfo", "allocFlags")
  /\ status' = [status EXCEPT ![opObj[t]] = "init"]
  /\ UNCHANGED <<mark, deleted, leakFlag, refs, statics, stack, opObj, saved,
                 histVars>>
  /\ gcUnchanged

(* sAllocFlags is read; its use is a separate instruction.                 *)
AllocReadFlags(t, path) ==
  /\ Thread(t, "allocFlags", IF path = "ClassVData" THEN "cas" ELSE "store")
  /\ path \in AllocPaths
  /\ saved' = [saved EXCEPT ![t] = cur]
  /\ UNCHANGED <<heapVars, statics, stack, opObj, histVars>>
  /\ gcUnchanged

(* Dbg_ObjectAlloc from a ClassVData: a compare-and-swap against mark 0.  *)
AllocCasBlind(t) ==
  /\ Thread(t, "cas", "run")
  /\ mark' = [mark EXCEPT ![opObj[t]] = saved[t]]
  /\ Return(t)
  /\ UNCHANGED <<status, deleted, leakFlag, refs, statics, stack, histVars>>
  /\ gcUnchanged

AllocCas(t) ==
  /\ Thread(t, "cas", "run")
  /\ mark' = IF mark[opObj[t]] = 0
               THEN [mark EXCEPT ![opObj[t]] = saved[t]] ELSE mark
  /\ Return(t)
  /\ UNCHANGED <<status, deleted, leakFlag, refs, statics, stack, histVars>>
  /\ gcUnchanged

(* The mutator writes mark bits it has read earlier; the object's history  *)
(* remembers when the mark id it destroys was a newer one.                 *)
WriteMark(o, m) ==
  /\ mark' = [mark EXCEPT ![o] = m]
  /\ lost' = IF m # mark[o] /\ m # cur THEN lost \cup {o} ELSE lost
  /\ UNCHANGED <<reach, skipped>>

(* Dbg_ObjectAlloc from a TypeInstance: a plain store.                     *)
AllocStore(t) ==
  /\ Thread(t, "store", "run")
  /\ WriteMark(opObj[t], saved[t])
  /\ Return(t)
  /\ UNCHANGED <<status, deleted, leakFlag, refs, statics, stack>>
  /\ gcUnchanged

(* delete: Dbg_ObjectPreDelete accepts an object that is neither deleted   *)
(* nor flagged as a leak; Dbg_MarkObjectDeleted then reads the flags ...   *)
DeleteRead(t, o) ==
  /\ Thread(t, "run", "delete")
  /\ o \in stack[t] /\ Live(o) /\ ~deleted[o] /\ ~leakFlag[o] /\ ~Busy(o)
  /\ opObj' = [opObj EXCEPT ![t] = o]
  /\ saved' = [saved EXCEPT ![t] = mark[o]]
  /\ UNCHANGED <<heapVars, statics, stack, histVars>>
  /\ gcUnchanged

(* ... and writes them back with DELETED set and STACK_ALLOC cleared.      *)
MarkObjectDeleted(t) ==
  /\ Thread(t, "delete", "deleted")
  /\ WriteMark(opObj[t], saved[t])
  /\ deleted' = [deleted EXCEPT ![opObj[t]] = TRUE]
  /\ leakFlag' = [leakFlag EXCEPT ![opObj[t]] = FALSE]
  /\ UNCHANGED <<status, refs, statics, stack, opObj, saved>>
  /\ gcUnchanged

(* ObjectDeleteRequested looks at the guard bytes behind the object, which *)
(* it needs in place, and may ask for a collection (see GCControl).        *)
ObjectDeleteRequested(t) ==
  /\ Thread(t, "deleted", "run")
  /\ Return(t)
  /\ UNCHANGED <<heapVars, statics, stack, histVars>>
  /\ gcUnchanged

(* Copying references.  The debug checks of the language stop a program    *)
(* that reads or writes the members of a deleted object.                   *)
Running(t) == ~Stopped /\ pc[t] = "run"
Usable(t, o) == o \in stack[t] /\ Live(o) /\ ~deleted[o]

StoreMember(t, p, c) ==
  /\ Running(t) /\ Usable(t, p) /\ c \in stack[t] /\ Live(c)
  /\ Cardinality(refs[p] \cup {c}) <= MaxRefs
  /\ refs' = [refs EXCEPT ![p] = @ \cup {c}]
  /\ UNCHANGED <<status, mark, deleted, leakFlag, progVars, histVars>>
  /\ gcUnchanged

ClearMember(t, p, c) ==
  /\ Running(t) /\ Usable(t, p) /\ c \in refs[p]
  /\ refs' = [refs EXCEPT ![p] = @ \ {c}]
  /\ UNCHANGED <<status, mark, deleted, leakFlag, progVars, histVars>>
  /\ gcUnchanged

LoadMember(t, p, c) ==
  /\ Running(t) /\ Usable(t, p) /\ c \in refs[p]
  /\ stack' = [stack EXCEPT ![t] = @ \cup {c}]
  /\ UNCHANGED <<heapVars, statics, pc, opObj, saved, histVars>>
  /\ gcUnchanged

StoreStatic(t, c) ==
  /\ Running(t) /\ c \in stack[t] /\ Live(c)
  /\ Cardinality(statics \cup {c}) <= MaxStatics
  /\ statics' = statics \cup {c}
  /\ UNCHANGED <<heapVars, stack, pc, opObj, saved, histVars>>
  /\ gcUnchanged

ClearStatic(t, c) ==
  /\ Running(t) /\ c \in statics
  /\ statics' = statics \ {c}
  /\ UNCHANGED <<heapVars, stack, pc, opObj, saved, histVars>>
  /\ gcUnchanged

LoadStatic(t, c) ==
  /\ Running(t) /\ c \in statics
  /\ stack' = [stack EXCEPT ![t] = @ \cup {c}]
  /\ UNCHANGED <<heapVars, statics, pc, opObj, saved, histVars>>
  /\ gcUnchanged

(* A word of the stack is overwritten.                                     *)
Drop(t, c) ==
  /\ Running(t) /\ c \in stack[t]
  /\ stack' = [stack EXCEPT ![t] = @ \ {c}]
  /\ UNCHANGED <<heapVars, statics, pc, opObj, saved, histVars>>
  /\ gcUnchanged

Mutator(t) ==
  \/ \E o \in Objects : ObjectAlloc(t, o)
  \/ AllocSetInfo(t)
  \/ \E path \in AllocPaths : AllocReadFlags(t, path)
  \/ AllocCas(t)
  \/ AllocStore(t)
  \/ \E o \in Objects : DeleteRead(t, o)
  \/ MarkObjectDeleted(t)
  \/ ObjectDeleteRequested(t)
  \/ \E p, c \in Objects :
       StoreMember(t, p, c) \/ ClearMember(t, p, c) \/ LoadMember(t, p, c)
  \/ \E c \in Objects :
       StoreStatic(t, c) \/ ClearStatic(t, c) \/ LoadStatic(t, c) \/ Drop(t, c)

-----------------------------------------------------------------------------
(* The collector.                                                          *)

(* MarkFromGCThread on a set of candidates: what is not marked yet gets    *)
(* the current mark id and goes into the queue as long as there is room.   *)
(* What finds no room stays marked but is never scanned: the collection    *)
(* has failed.                                                             *)
NewlyMarkedAny(candidates) == {c \in candidates : mark[c] # cur}
NewlyMarked(candidates) == {c \in candidates : Live(c) /\ mark[c] # cur}

Marked(objs) ==
  /\ mark' = [o \in Objects |-> IF o \in objs THEN cur ELSE mark[o]]
  /\ lost' = lost \ objs
  /\ skipped' = skipped \ objs

Queues(queue, new, queued) ==
  /\ Cardinality(queue \cup queued) <= cap
  /\ queued # new => Cardinality(queue \cup queued) = cap
  /\ pending' = queue \cup queued

MarkAll(candidates, queue) ==
  LET new == NewlyMarked(candidates) IN
  /\ Marked(new)
  /\ \E queued \in SUBSET new :
       /\ Queues(queue, new, queued)
       /\ overflowed' = (overflowed \/ queued # new)
       /\ failed' = (failed \/ queued # new)

(* What MarkMembers(p) offers to MarkFromGCThread.                          *)
MembersOfAlive(p) == {c \in refs[p] : ~deleted[p] /\ Live(c)}
Members(p) == {c \in refs[p] : Counts(p, c)}

(* PerformCollection up to the new mark id: SuspendThreads, DoCollect.      *)
StartCollect ==
  /\ phase \in {"idle", "retry"}
  /\ phase' = "roots"
  /\ cur' = NextMark(cur)
  /\ reach' = Reachable
  /\ UNCHANGED <<heapVars, progVars, markVars, sweepTodo, listVars, lost,
                 skipped>>

(* MarkStatics, the root callbacks (ok: all succeeded), explicit roots.     *)
MarkRoots(ok) ==
  /\ phase = "roots"
  /\ ok \/ RootsMayFail
  /\ phase' = "scan"
  /\ rootError' = (rootError \/ ~ok)
  /\ MarkAll(statics, pending)
  /\ scanTodo' = Threads
  /\ UNCHANGED <<status, deleted, leakFlag, refs, progVars, cur, cap, sweepTodo,
                 listVars, reach>>

(* One round of HandlePendingGCData.                                        *)
HandlePending(o) ==
  /\ phase = "scan"
  /\ o \in pending
  /\ MarkAll(Members(o), pending \ {o})
  /\ UNCHANGED <<status, deleted, leakFlag, refs, progVars, phase, cur, cap,
                 rootError, scanTodo, sweepTodo, listVars, reach>>

(* ScanThreads: registers, TLS and stack of one thread.                     *)
ScanThread(t) ==
  /\ phase = "scan" /\ pending = {}
  /\ t \in scanTodo
  /\ scanTodo' = scanTodo \ {t}
  /\ MarkAll(stack[t], pending)
  /\ UNCHANGED <<status, deleted, leakFlag, refs, progVars, phase, cur, cap,
                 rootError, sweepTodo, listVars, reach>>

(* BfpThread_GetIntRegisters fails: ScanThreads gives up.  What it had      *)
(* marked of this thread is left out: the failed sweep marks it in any case. *)
ScanFails ==
  /\ phase = "scan" /\ pending = {} /\ scanTodo # {}
  /\ ScanMayFail
  /\ failed' = TRUE
  /\ scanTodo' = {}
  /\ UNCHANGED <<heapVars, progVars, phase, cur, pending, cap, overflowed,
                 rootError, sweepTodo, listVars, histVars>>

ResumeThreadsEarly ==
  /\ phase = "scan" /\ pending = {}
  /\ phase' = "sweep"
  /\ sweepTodo' = Objects
  /\ finalizeList' = {}
  /\ UNCHANGED <<heapVars, progVars, cur, markVars, leaks, histVars>>

(* DoCollect is done; PerformCollection lets the mutators run and sweeps.   *)
ResumeThreads ==
  /\ phase = "scan" /\ pending = {} /\ scanTodo = {}
  /\ phase' = "sweep"
  /\ sweepTodo' = Objects
  /\ finalizeList' = {}
  /\ UNCHANGED <<heapVars, progVars, cur, markVars, leaks, histVars>>

(* SweepSpan at one slot.                                                   *)
SweepFailed(o) ==   \* a failed collection marks whatever it meets
  /\ Live(o) /\ failed /\ mark[o] # cur
  /\ mark' = [mark EXCEPT ![o] = cur]
  /\ lost' = lost \ {o}
  /\ skipped' = skipped \ {o}
  /\ UNCHANGED <<leakFlag, listVars>>

Unmarked(o) == Live(o) /\ ~failed /\ mark[o] = DeleteMark(cur)

SweepLeak(o) ==
  /\ Unmarked(o) /\ ~deleted[o]
  /\ leakFlag' = [leakFlag EXCEPT ![o] = TRUE]
  /\ IF rootError
       THEN /\ skipped' = skipped \cup {o}
            /\ UNCHANGED leaks
       ELSE /\ leaks' = leaks \cup {o}
            /\ UNCHANGED skipped
  /\ UNCHANGED <<mark, lost, finalizeList>>

SweepDeletedAny(o) ==
  /\ Unmarked(o)
  /\ finalizeList' = finalizeList \cup {o}
  /\ UNCHANGED <<mark, lost, skipped, leakFlag, leaks>>

SweepDeleted(o) ==
  /\ Unmarked(o) /\ deleted[o]
  /\ finalizeList' = finalizeList \cup {o}
  /\ UNCHANGED <<mark, lost, skipped, leakFlag, leaks>>

SweepPass(o) ==     \* no object, just allocated, or alive
  /\ ~Live(o) \/ (~Unmarked(o) /\ ~(failed /\ mark[o] # cur))
  /\ UNCHANGED <<mark, lost, skipped, leakFlag, listVars>>

SweepSlot(o) ==
  /\ phase = "sweep"
  /\ o \in sweepTodo
  /\ sweepTodo' = sweepTodo \ {o}
  /\ SweepFailed(o) \/ SweepLeak(o) \/ SweepDeleted(o) \/ SweepPass(o)
  /\ UNCHANGED <<status, deleted, refs, progVars, phase, cur, markVars, reach>>

(* FinishCollect and ReleasePendingObjects: the slots are free again.       *)
FinishCollect ==
  LET freed == {o \in finalizeList : mark[o] # cur}
      Reset(f, v) == [o \in Objects |-> IF o \in freed THEN v ELSE f[o]]
  IN
  /\ phase = "sweep" /\ sweepTodo = {}
  /\ phase' = "process"
  /\ status' = Reset(status, "free")
  /\ mark' = Reset(mark, 0)
  /\ deleted' = Reset(deleted, FALSE)
  /\ leakFlag' = Reset(leakFlag, FALSE)
  /\ refs' = Reset(refs, {})
  /\ finalizeList' = {}
  /\ UNCHANGED <<progVars, cur, markVars, sweepTodo, leaks, histVars>>

(* Run makes the queue of a collection that overflowed larger, here up to   *)
(* MaxCap.  (A queue of that size has room for all objects; it overflows    *)
(* only when an object that was still in it is queued a second time.)       *)
ReserveSame == {cap}
Reserve == ((cap + 1)..MaxCap) \cup {MaxCap}

(* ProcessSweepInfo: the leaks are reported; what they refer to is marked   *)
(* (and queued) and they get the current mark id to allow continuing.       *)
(* Run repeats a collection whose queue was too small with a larger one.    *)
(* The two flags are cleared here: nothing reads them before a collection   *)
(* starts, which clears them first.                                         *)
ProcessSweepInfo ==
  LET new == NewlyMarked(UNION {Members(l) : l \in leaks}) IN
  /\ phase = "process"
  /\ Marked(new \cup leaks)
  /\ \E queued \in SUBSET new :
       /\ Queues(pending, new, queued)
       /\ IF overflowed \/ queued # new
            THEN phase' = "retry" /\ cap' \in Reserve
            ELSE phase' = "idle" /\ cap' = cap
  /\ leaks' = {}
  /\ overflowed' = FALSE
  /\ failed' = FALSE
  /\ reach' = {}
  /\ UNCHANGED <<status, deleted, leakFlag, refs, progVars, cur, rootError,
                 scanTodo, sweepTodo, finalizeList>>

Collector ==
  \/ StartCollect
  \/ \E ok \in BOOLEAN : MarkRoots(ok)
  \/ \E o \in Objects : HandlePending(o)
  \/ \E t \in Threads : ScanThread(t)
  \/ ScanFails
  \/ ResumeThreads
  \/ \E o \in Objects : SweepSlot(o)
  \/ FinishCollect
  \/ ProcessSweepInfo

Next == Collector \/ \E t \in Threads : Mutator(t)

Spec == Init /\ [][Next]_vars

(* The collector thread is scheduled, and its timer (mFullGCPeriod) starts  *)
(* the next collection.                                                     *)
FairSpec == Spec /\ WF_vars(Collector)

-----------------------------------------------------------------------------
(* Types of the variables, and that the pieces of a cycle are in use only   *)
(* in the phases that own them.                                             *)
TypeOK ==
  /\ status \in [Objects -> {"free", "raw", "init"}]
  /\ mark \in [Objects -> 0..3]
  /\ deleted \in [Objects -> BOOLEAN]
  /\ leakFlag \in [Objects -> BOOLEAN]
  /\ refs \in [Objects -> SUBSET Objects]
  /\ statics \in SUBSET Objects
  /\ stack \in [Threads -> SUBSET Objects]
  /\ pc \in [Threads -> {"run", "allocInfo", "allocFlags", "cas", "store",
                         "delete", "deleted"}]
  /\ opObj \in [Threads -> Objects \cup {NoObj}]
  /\ \A t \in Threads : pc[t] # "run" => opObj[t] \in Objects
  /\ saved \in [Threads -> 0..3]
  /\ phase \in {"idle", "retry", "roots", "scan", "sweep", "process"}
  /\ cur \in 1..3
  /\ pending \in SUBSET Objects
  /\ cap \in Nat
  /\ overflowed \in BOOLEAN
  /\ failed \in BOOLEAN
  /\ rootError \in BOOLEAN
  /\ scanTodo \in SUBSET Threads
  /\ sweepTodo \in SUBSET Objects
  /\ finalizeList \in SUBSET Objects
  /\ leaks \in SUBSET Objects
  /\ reach \in SUBSET Objects
  /\ lost \in SUBSET Objects
  /\ skipped \in SUBSET Objects

(* FinishCollect frees no object that the roots reached when the mutators   *)
(* were stopped, except one on which a mutator destroyed the new mark id    *)
(* between reading and writing mObjectFlags.                                *)
NoPrematureFree == finalizeList \cap reach \subseteq lost

(* ProcessSweepInfo reports no object as leaked that the roots reached,     *)
(* with the same exception.                                                 *)
NoFalseLeak == leaks \cap reach \subseteq lost

(* The assertion of SweepSpan (markId != invalidMarkId) can only fail for   *)
(* an object whose mark id a mutator destroyed or that an earlier sweep     *)
(* left alone because a root callback had failed.                           *)
InvalidMarkExplained ==
  (phase = "sweep" /\ ~failed) =>
    \A o \in sweepTodo :
      (Live(o) /\ mark[o] = InvalidMark(cur)) => o \in Torn

(* SweepSpan: "'invalidMarkId' should be impossible because we'd either be  *)
(* deleted or marked as leaked before".                                     *)
InvalidMarkImpossible ==
  (phase = "sweep" /\ ~failed) =>
    \A o \in sweepTodo : Live(o) => mark[o] # InvalidMark(cur)

(* The queue, which may keep the members of leaked objects from one         *)
(* collection to the next, never leads HandlePendingGCData to a free slot.  *)
PendingIsAllocated == \A o \in pending : Live(o)

(* No thread and no static ends up with a reference to a freed slot: not    *)
(* while it sits in delete, and not when the reference was copied during    *)
(* the concurrent sweep.                                                    *)
(* It holds of a program whose objects are all allocated from a ClassVData: *)
(* AllocStore may give a new object a mark id that is two collections old,  *)
(* with which the next one takes it for scanned already.                    *)
NoDanglingReference == \A o \in Roots : status[o] = "free" => o \in lost

(* No object is reported that a static or a thread holds: unreachable       *)
(* objects stay unreachable, and an object whose allocation was stopped     *)
(* half-way is not taken for an old one.                                    *)
NoHeldLeak == leaks \cap Roots \subseteq Torn

(* A leak keeps its slot, whatever the program and the collector do next:   *)
(* a slot is only freed after the program deleted the object in it.         *)
OnlyDeletedIsFreed ==
  [][\A o \in Objects :
       (status[o] = "init" /\ status'[o] = "free") =>
          deleted[o] /\ \A t \in Threads : pc[t] = "delete" => opObj[t] # o
    ]_vars

(* Every collection comes to an end, also when its queue was too small and  *)
(* Run has to repeat it.                                                    *)
CollectionEnds == (phase # "idle") ~> (phase = "idle")

(* A deleted object that nothing refers to is freed, whatever happened to   *)
(* its mark id.                                                             *)
Unreferenced(o) == o \notin Roots /\ \A p \in Objects : o \notin refs[p]
DeletedIsReclaimed ==
  \A o \in Objects : (deleted[o] /\ Unreferenced(o)) ~> ~deleted[o]

-----------------------------------------------------------------------------
(* The inductive invariant of the cycle, in the order in which its parts    *)
(* build on each other.                                                     *)

(* A thread inside new or delete works on an object of its own that nobody  *)
(* has deleted; what is not an object has no flags.                         *)
Working(t) == pc[t] \in {"allocInfo", "allocFlags", "cas", "store", "delete"}

OpInv ==
  /\ \A o \in Objects : ~Live(o) => mark[o] = 0 /\ ~deleted[o]
  /\ \A t \in Threads : pc[t] = "allocInfo" =>
       status[opObj[t]] = "raw" /\ opObj[t] \in stack[t]
  /\ \A t \in Threads :
       (Working(t) /\ pc[t] # "allocInfo") =>
          /\ Live(opObj[t])
          /\ ~deleted[opObj[t]]
          /\ pc[t] # "delete" => opObj[t] \in stack[t]
  /\ \A t, u \in Threads :
       (Working(t) /\ Working(u) /\ opObj[t] = opObj[u]) => t = u

(* The collector's sets hold objects, and are in use one after another.     *)
PhaseInv ==
  /\ phase \notin {"roots", "scan", "sweep", "process"} => ~failed
  /\ phase = "roots" => ~failed
  /\ phase # "sweep" => sweepTodo = {} /\ finalizeList = {}
  /\ phase \notin {"sweep", "process"} => leaks = {}
  /\ phase \in {"sweep", "process"} => pending = {}
  /\ (failed /\ phase = "sweep") => leaks = {} /\ finalizeList = {}
  /\ \A o \in pending : Live(o)
  /\ \A o \in leaks : Live(o)
  /\ \A o \in finalizeList : Live(o) /\ deleted[o]
  /\ leaks \cap finalizeList = {}
  /\ (leaks \cup finalizeList) \cap sweepTodo = {}

(* Outside a collection every object has the current mark id or none; the   *)
(* previous one is left only where the collector still has to decide.       *)
Settled ==
  \A o \in Objects :
    (Live(o) /\ o \notin Torn) =>
      \/ mark[o] \in {0, cur}
      \/ /\ mark[o] = DeleteMark(cur)
         /\ Stopped \/ o \in sweepTodo \cup leaks \cup finalizeList

(* A thread that is about to swap in an old mark id will find the object    *)
(* marked, or a failed collection will mark it afterwards.                  *)
CasInv ==
  \A t \in Threads :
    (pc[t] = "cas" /\ mark[opObj[t]] = 0) =>
      \/ saved[t] = cur
      \/ /\ saved[t] = DeleteMark(cur)
         /\ Stopped \/ (failed /\ opObj[t] \in sweepTodo)

(* While the world is stopped: scanned roots are marked, and a marked       *)
(* object that has left the queue refers to marked objects.                 *)
MarkInv ==
  ~failed =>
    /\ phase = "scan" =>
         /\ \A o \in statics : Live(o) => mark[o] = cur
         /\ \A t \in Threads \ scanTodo :
              \A o \in stack[t] : Live(o) => mark[o] = cur
    /\ Stopped =>
         \A p \in Objects :
           (Live(p) /\ mark[p] = cur /\ p \notin Torn /\ p \notin pending) =>
              \A c \in Members(p) : mark[c] = cur

ReachInv ==
  /\ Stopped => reach \subseteq Reachable
  /\ (phase = "sweep" /\ ~failed) =>
       \A o \in reach : Live(o) /\ (mark[o] = cur \/ o \in lost)

IInv == /\ OpInv /\ PhaseInv /\ Settled /\ CasInv /\ MarkInv /\ ReachInv
        /\ NoPrematureFree /\ NoFalseLeak
==============================================================================
