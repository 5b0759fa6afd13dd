---------------------------- MODULE GCCycleProofs ----------------------------
(***************************************************************************)
(* Proofs about GCCycle, for any number of objects and threads.            *)
(***************************************************************************)
EXTENDS GCCycle, TLAPS

-----------------------------------------------------------------------------
(* The three mark ids, as DoCollect and SweepSpan count them.              *)
LEMMA MarkIds ==
  ASSUME NEW m \in 1..3
  PROVE  /\ NextMark(m) \in 1..3
         /\ NextMark(m) # m
         /\ DeleteMark(NextMark(m)) = m
         /\ DeleteMark(m) \in 1..3
         /\ DeleteMark(m) # m
         /\ InvalidMark(m) \notin {0, m, DeleteMark(m)}
BY DEF NextMark, DeleteMark, InvalidMark

(* Every step of the collector and of a mutator preserves the types.       *)
LEMMA MarkedTypes ==
  ASSUME TypeOK, NEW objs, Marked(objs)
  PROVE  /\ mark' \in [Objects -> 0..3]
         /\ lost' \in SUBSET Objects
         /\ skipped' \in SUBSET Objects
BY DEF TypeOK, Marked

LEMMA MarkAllTypes ==
  ASSUME TypeOK, NEW C, C \subseteq Objects,
         NEW Q, Q \subseteq Objects, MarkAll(C, Q)
  PROVE  /\ mark' \in [Objects -> 0..3]
         /\ lost' \in SUBSET Objects
         /\ skipped' \in SUBSET Objects
         /\ pending' \in SUBSET Objects
         /\ overflowed' \in BOOLEAN
         /\ failed' \in BOOLEAN
<1>1. Marked(NewlyMarked(C))
  BY DEF MarkAll
<1>2. /\ pending' \in SUBSET Objects
      /\ overflowed' \in BOOLEAN
      /\ failed' \in BOOLEAN
  BY DEF MarkAll, Queues, NewlyMarked, TypeOK
<1> QED
  BY <1>1, <1>2, MarkedTypes

LEMMA MutatorTypes ==
  ASSUME TypeOK, NEW t \in Threads, Mutator(t)
  PROVE  TypeOK'
<1> USE DEF TypeOK, Thread, Return, gcUnchanged, heapVars, progVars, markVars,
            listVars, histVars, Running
<1>1. ASSUME NEW o \in Objects, ObjectAlloc(t, o) PROVE TypeOK'
  BY <1>1 DEF ObjectAlloc
<1>2. CASE AllocSetInfo(t)
  BY <1>2 DEF AllocSetInfo
<1>3. ASSUME NEW path \in AllocPaths, AllocReadFlags(t, path) PROVE TypeOK'
  BY <1>3 DEF AllocReadFlags
<1>4. CASE AllocCas(t)
  <2>1. mark' \in [Objects -> 0..3]
    BY <1>4 DEF AllocCas
  <2> QED
    BY <1>4, <2>1 DEF AllocCas
<1>5. CASE AllocStore(t)
  <2>1. opObj[t] \in Objects
    BY <1>5 DEF AllocStore
  <2>2. mark' \in [Objects -> 0..3] /\ lost' \in SUBSET Objects
    BY <1>5, <2>1 DEF AllocStore, WriteMark
  <2> QED
    BY <1>5, <2>2 DEF AllocStore, WriteMark
<1>6. ASSUME NEW o \in Objects, DeleteRead(t, o) PROVE TypeOK'
  BY <1>6 DEF DeleteRead
<1>7. CASE MarkObjectDeleted(t)
  <2>1. opObj[t] \in Objects
    BY <1>7 DEF MarkObjectDeleted
  <2>2. mark' \in [Objects -> 0..3] /\ lost' \in SUBSET Objects
    BY <1>7, <2>1 DEF MarkObjectDeleted, WriteMark
  <2> QED
    BY <1>7, <2>1, <2>2 DEF MarkObjectDeleted, WriteMark
<1>8. CASE ObjectDeleteRequested(t)
  BY <1>8 DEF ObjectDeleteRequested
<1>9. ASSUME NEW p \in Objects, NEW c \in Objects,
             StoreMember(t, p, c) \/ ClearMember(t, p, c) \/ LoadMember(t, p, c)
      PROVE TypeOK'
  BY <1>9 DEF StoreMember, ClearMember, LoadMember
<1>10. ASSUME NEW c \in Objects,
              \/ StoreStatic(t, c) \/ ClearStatic(t, c)
              \/ LoadStatic(t, c) \/ Drop(t, c)
       PROVE TypeOK'
  BY <1>10 DEF StoreStatic, ClearStatic, LoadStatic, Drop
<1> QED
  BY <1>1, <1>2, <1>3, <1>4, <1>5, <1>6, <1>7, <1>8, <1>9, <1>10 DEF Mutator

LEMMA CollectorTypes ==
  ASSUME TypeOK, Collector
  PROVE  TypeOK'
<1> USE DEF heapVars, progVars, markVars, listVars, histVars
<1>1. CASE StartCollect
  <2>1. Reachable \subseteq Objects
    BY DEF Reachable
  <2>2. NextMark(cur) \in 1..3
    BY MarkIds DEF TypeOK
  <2> QED
    BY <1>1, <2>1, <2>2 DEF StartCollect, TypeOK
<1>2. ASSUME NEW ok \in BOOLEAN, MarkRoots(ok) PROVE TypeOK'
  <2>1. MarkAll(statics, pending)
    BY <1>2 DEF MarkRoots
  <2>2. statics \subseteq Objects /\ pending \subseteq Objects
    BY DEF TypeOK
  <2>3. rootError' \in BOOLEAN
    BY <1>2 DEF MarkRoots
  <2> QED
    BY <1>2, <2>1, <2>2, <2>3, MarkAllTypes DEF MarkRoots, TypeOK
<1>3. ASSUME NEW o \in Objects, HandlePending(o) PROVE TypeOK'
  <2>1. MarkAll(Members(o), pending \ {o})
    BY <1>3 DEF HandlePending
  <2>2. Members(o) \subseteq Objects /\ pending \ {o} \subseteq Objects
    BY DEF TypeOK, Members
  <2> QED
    BY <1>3, <2>1, <2>2, MarkAllTypes DEF HandlePending, TypeOK
<1>4. ASSUME NEW t \in Threads, ScanThread(t) PROVE TypeOK'
  <2>1. MarkAll(stack[t], pending)
    BY <1>4 DEF ScanThread
  <2>2. stack[t] \subseteq Objects /\ pending \subseteq Objects
    BY DEF TypeOK
  <2> QED
    BY <1>4, <2>1, <2>2, MarkAllTypes DEF ScanThread, TypeOK
<1>5. CASE ScanFails
  BY <1>5 DEF ScanFails, TypeOK
<1>6. CASE ResumeThreads
  BY <1>6 DEF ResumeThreads, TypeOK
<1>7. ASSUME NEW o \in Objects, SweepSlot(o) PROVE TypeOK'
  <2>1. CASE SweepFailed(o)
    BY <1>7, <2>1 DEF SweepSlot, SweepFailed, TypeOK
  <2>2. CASE SweepLeak(o)
    BY <1>7, <2>2 DEF SweepSlot, SweepLeak, TypeOK
  <2>3. CASE SweepDeleted(o)
    BY <1>7, <2>3 DEF SweepSlot, SweepDeleted, TypeOK
  <2>4. CASE SweepPass(o)
    BY <1>7, <2>4 DEF SweepSlot, SweepPass, TypeOK
  <2> QED
    BY <1>7, <2>1, <2>2, <2>3, <2>4 DEF SweepSlot
<1>8. CASE FinishCollect
  <2>1. /\ status' \in [Objects -> {"free", "raw", "init"}]
        /\ mark' \in [Objects -> 0..3]
    BY <1>8 DEF FinishCollect, TypeOK
  <2>2. refs' \in [Objects -> SUBSET Objects]
    BY <1>8 DEF FinishCollect, TypeOK
  <2>3. /\ deleted' \in [Objects -> BOOLEAN]
        /\ leakFlag' \in [Objects -> BOOLEAN]
    BY <1>8, Zenon DEF FinishCollect, TypeOK
  <2> QED
    BY <1>8, <2>1, <2>2, <2>3 DEF FinishCollect, TypeOK
<1>9. CASE ProcessSweepInfo
  <2> DEFINE new == NewlyMarked(UNION {Members(l) : l \in leaks})
  <2>1. Marked(new \cup leaks)
    BY <1>9 DEF ProcessSweepInfo
  <2>2. new \subseteq Objects
    BY DEF NewlyMarked, Members, TypeOK
  <2>3. /\ pending' \in SUBSET Objects
        /\ phase' \in {"idle", "retry"}
        /\ cap' \in Nat
    <3>1. PICK queued \in SUBSET new :
            /\ pending' = pending \cup queued
            /\ \/ phase' = "retry" /\ cap' \in ((cap + 1)..MaxCap) \cup {MaxCap}
               \/ phase' = "idle" /\ cap' = cap
      BY <1>9 DEF ProcessSweepInfo, Queues, Reserve
    <3>2. cap \in Nat /\ MaxCap \in Nat /\ pending \subseteq Objects
      BY CapAssumption DEF TypeOK
    <3> HIDE DEF new
    <3>3. pending' \in SUBSET Objects
      BY <2>2, <3>1, <3>2
    <3>4. phase' \in {"idle", "retry"} /\ cap' \in Nat
      BY <3>1, <3>2
    <3> QED
      BY <3>3, <3>4
  <2> HIDE DEF new
  <2> QED
    BY <1>9, <2>1, <2>3, MarkedTypes DEF ProcessSweepInfo, TypeOK
<1> QED
  BY <1>1, <1>2, <1>3, <1>4, <1>5, <1>6, <1>7, <1>8, <1>9 DEF Collector

(* Type correctness of the cycle: no interleaving of mutators and collector *)
(* leaves the ranges the code's fields have.                                *)
THEOREM TypeCorrect == Spec => []TypeOK
<1>1. Init => TypeOK
  <2> SUFFICES ASSUME Init PROVE TypeOK
    OBVIOUS
  <2>1. /\ deleted \in [Objects -> BOOLEAN]
        /\ leakFlag \in [Objects -> BOOLEAN]
    BY Zenon DEF Init
  <2>2. /\ status \in [Objects -> {"free", "raw", "init"}]
        /\ mark \in [Objects -> 0..3]
        /\ refs \in [Objects -> SUBSET Objects]
    BY DEF Init
  <2>3. /\ stack \in [Threads -> SUBSET Objects]
        /\ pc \in [Threads -> {"run", "allocInfo", "allocFlags", "cas", "store",
                               "delete", "deleted"}]
        /\ opObj \in [Threads -> Objects \cup {NoObj}]
        /\ \A t \in Threads : pc[t] # "run" => opObj[t] \in Objects
        /\ saved \in [Threads -> 0..3]
    BY DEF Init
  <2>4. /\ phase \in {"idle", "retry", "roots", "scan", "sweep", "process"}
        /\ cur \in 1..3
        /\ cap \in Nat
    <3>1. FirstCap \in Nat
      BY CapAssumption
    <3> QED
      BY <3>1 DEF Init
  <2>5. /\ overflowed \in BOOLEAN /\ failed \in BOOLEAN /\ rootError \in BOOLEAN
    BY Zenon DEF Init
  <2>6. /\ statics \in SUBSET Objects /\ pending \in SUBSET Objects
        /\ scanTodo \in SUBSET Threads /\ sweepTodo \in SUBSET Objects
        /\ finalizeList \in SUBSET Objects /\ leaks \in SUBSET Objects
        /\ reach \in SUBSET Objects /\ lost \in SUBSET Objects
        /\ skipped \in SUBSET Objects
    BY DEF Init
  <2> QED
    BY <2>1, <2>2, <2>3, <2>4, <2>5, <2>6 DEF TypeOK
<1>2. TypeOK /\ [Next]_vars => TypeOK'
  <2> SUFFICES ASSUME TypeOK, [Next]_vars PROVE TypeOK'
    OBVIOUS
  <2>1. CASE Collector
    BY <2>1, CollectorTypes
  <2>2. ASSUME NEW t \in Threads, Mutator(t) PROVE TypeOK'
    BY <2>2, MutatorTypes
  <2>3. CASE UNCHANGED vars
    BY <2>3 DEF vars, heapVars, progVars, markVars, listVars, histVars, TypeOK
  <2> QED
    BY <2>1, <2>2, <2>3 DEF Next
<1> QED
  BY <1>1, <1>2, PTL DEF Spec

-----------------------------------------------------------------------------
(* Mutators keep to their own objects.                                     *)
LEMMA OpMutator ==
  ASSUME TypeOK, OpInv, NEW t \in Threads, Mutator(t)
  PROVE  OpInv'
<1> USE DEF Thread, Return, gcUnchanged, heapVars, progVars, markVars,
            listVars, histVars, Running, Live, TypeOK, OpInv, Working
<1>1. ASSUME NEW o \in Objects, ObjectAlloc(t, o) PROVE OpInv'
  BY <1>1 DEF ObjectAlloc
<1>2. CASE AllocSetInfo(t)
  BY <1>2 DEF AllocSetInfo
<1>3. ASSUME NEW path \in AllocPaths, AllocReadFlags(t, path) PROVE OpInv'
  BY <1>3 DEF AllocReadFlags
<1>4. CASE AllocCas(t)
  BY <1>4 DEF AllocCas
<1>5. CASE AllocStore(t)
  BY <1>5 DEF AllocStore, WriteMark
<1>6. ASSUME NEW o \in Objects, DeleteRead(t, o) PROVE OpInv'
  BY <1>6 DEF DeleteRead, Busy
<1>7. CASE MarkObjectDeleted(t)
  BY <1>7 DEF MarkObjectDeleted, WriteMark
<1>8. CASE ObjectDeleteRequested(t)
  BY <1>8 DEF ObjectDeleteRequested
<1>9. ASSUME NEW p \in Objects, NEW c \in Objects,
             StoreMember(t, p, c) \/ ClearMember(t, p, c) \/ LoadMember(t, p, c)
      PROVE OpInv'
  BY <1>9 DEF StoreMember, ClearMember, LoadMember
<1>10. ASSUME NEW c \in Objects,
              \/ StoreStatic(t, c) \/ ClearStatic(t, c)
              \/ LoadStatic(t, c) \/ Drop(t, c)
       PROVE OpInv'
  BY <1>10 DEF StoreStatic, ClearStatic, LoadStatic, Drop
<1> QED
  BY <1>1, <1>2, <1>3, <1>4, <1>5, <1>6, <1>7, <1>8, <1>9, <1>10 DEF Mutator

(* Mutators leave the collector's sets alone, and what is in them.         *)
LEMMA PhaseMutator ==
  ASSUME TypeOK, OpInv, PhaseInv, NEW t \in Threads, Mutator(t)
  PROVE  PhaseInv'
<1> USE DEF Thread, Return, gcUnchanged, heapVars, progVars, markVars,
            listVars, histVars, Running, Live, TypeOK, PhaseInv, OpInv, Working
<1>1. ASSUME NEW o \in Objects, ObjectAlloc(t, o) PROVE PhaseInv'
  BY <1>1 DEF ObjectAlloc
<1>2. CASE AllocSetInfo(t)
  BY <1>2 DEF AllocSetInfo
<1>3. ASSUME NEW path \in AllocPaths, AllocReadFlags(t, path) PROVE PhaseInv'
  BY <1>3 DEF AllocReadFlags
<1>4. CASE AllocCas(t)
  BY <1>4 DEF AllocCas
<1>5. CASE AllocStore(t)
  BY <1>5 DEF AllocStore, WriteMark
<1>6. ASSUME NEW o \in Objects, DeleteRead(t, o) PROVE PhaseInv'
  BY <1>6 DEF DeleteRead, Busy
<1>7. CASE MarkObjectDeleted(t)
  BY <1>7 DEF MarkObjectDeleted, WriteMark
<1>8. CASE ObjectDeleteRequested(t)
  BY <1>8 DEF ObjectDeleteRequested
<1>9. ASSUME NEW p \in Objects, NEW c \in Objects,
             StoreMember(t, p, c) \/ ClearMember(t, p, c) \/ LoadMember(t, p, c)
      PROVE PhaseInv'
  BY <1>9 DEF StoreMember, ClearMember, LoadMember
<1>10. ASSUME NEW c \in Objects,
              \/ StoreStatic(t, c) \/ ClearStatic(t, c)
              \/ LoadStatic(t, c) \/ Drop(t, c)
       PROVE PhaseInv'
  BY <1>10 DEF StoreStatic, ClearStatic, LoadStatic, Drop
<1> QED
  BY <1>1, <1>2, <1>3, <1>4, <1>5, <1>6, <1>7, <1>8, <1>9, <1>10 DEF Mutator

(* A mutator writes the current mark id, or the one that is there, or the  *)
(* object's mark counts as lost.                                           *)
LEMMA SettledMutator ==
  ASSUME TypeOK, OpInv, CasInv, Settled,
         NEW t \in Threads, Mutator(t)
  PROVE  Settled'
<1> USE DEF Thread, Return, gcUnchanged, heapVars, progVars, markVars,
            listVars, histVars, Running, Live, TypeOK, Stopped,
            Settled, OpInv, CasInv, Working, Torn
<1>1. ASSUME NEW o \in Objects, ObjectAlloc(t, o) PROVE Settled'
  BY <1>1 DEF ObjectAlloc
<1>2. CASE AllocSetInfo(t)
  BY <1>2 DEF AllocSetInfo
<1>3. ASSUME NEW path \in AllocPaths, AllocReadFlags(t, path) PROVE Settled'
  BY <1>3 DEF AllocReadFlags
<1>4. CASE AllocCas(t)
  BY <1>4 DEF AllocCas
<1>5. CASE AllocStore(t)
  BY <1>5 DEF AllocStore, WriteMark
<1>6. ASSUME NEW o \in Objects, DeleteRead(t, o) PROVE Settled'
  BY <1>6 DEF DeleteRead, Busy
<1>7. CASE MarkObjectDeleted(t)
  BY <1>7 DEF MarkObjectDeleted, WriteMark
<1>8. CASE ObjectDeleteRequested(t)
  BY <1>8 DEF ObjectDeleteRequested
<1>9. ASSUME NEW p \in Objects, NEW c \in Objects,
             StoreMember(t, p, c) \/ ClearMember(t, p, c) \/ LoadMember(t, p, c)
      PROVE Settled'
  BY <1>9 DEF StoreMember, ClearMember, LoadMember
<1>10. ASSUME NEW c \in Objects,
              \/ StoreStatic(t, c) \/ ClearStatic(t, c)
              \/ LoadStatic(t, c) \/ Drop(t, c)
       PROVE Settled'
  BY <1>10 DEF StoreStatic, ClearStatic, LoadStatic, Drop
<1> QED
  BY <1>1, <1>2, <1>3, <1>4, <1>5, <1>6, <1>7, <1>8, <1>9, <1>10 DEF Mutator

(* The mark id a thread has read stays current until the world is stopped. *)
LEMMA CasMutator ==
  ASSUME TypeOK, OpInv, CasInv,
         NEW t \in Threads, Mutator(t)
  PROVE  CasInv'
<1> USE DEF Thread, Return, gcUnchanged, heapVars, progVars, markVars,
            listVars, histVars, Running, Live, TypeOK, Stopped,
            OpInv, CasInv, Working
<1>1. ASSUME NEW o \in Objects, ObjectAlloc(t, o) PROVE CasInv'
  BY <1>1 DEF ObjectAlloc
<1>2. CASE AllocSetInfo(t)
  BY <1>2 DEF AllocSetInfo
<1>3. ASSUME NEW path \in AllocPaths, AllocReadFlags(t, path) PROVE CasInv'
  BY <1>3 DEF AllocReadFlags
<1>4. CASE AllocCas(t)
  BY <1>4 DEF AllocCas
<1>5. CASE AllocStore(t)
  BY <1>5 DEF AllocStore, WriteMark
<1>6. ASSUME NEW o \in Objects, DeleteRead(t, o) PROVE CasInv'
  BY <1>6 DEF DeleteRead, Busy
<1>7. CASE MarkObjectDeleted(t)
  BY <1>7 DEF MarkObjectDeleted, WriteMark
<1>8. CASE ObjectDeleteRequested(t)
  BY <1>8 DEF ObjectDeleteRequested
<1>9. ASSUME NEW p \in Objects, NEW c \in Objects,
             StoreMember(t, p, c) \/ ClearMember(t, p, c) \/ LoadMember(t, p, c)
      PROVE CasInv'
  BY <1>9 DEF StoreMember, ClearMember, LoadMember
<1>10. ASSUME NEW c \in Objects,
              \/ StoreStatic(t, c) \/ ClearStatic(t, c)
              \/ LoadStatic(t, c) \/ Drop(t, c)
       PROVE CasInv'
  BY <1>10 DEF StoreStatic, ClearStatic, LoadStatic, Drop
<1> QED
  BY <1>1, <1>2, <1>3, <1>4, <1>5, <1>6, <1>7, <1>8, <1>9, <1>10 DEF Mutator

(* What was reachable keeps its mark while the mutators run.               *)
LEMMA ReachMutator ==
  ASSUME TypeOK, OpInv, PhaseInv, MarkInv, ReachInv, NoPrematureFree,
         NoFalseLeak, NEW t \in Threads, Mutator(t)
  PROVE  MarkInv' /\ ReachInv' /\ NoPrematureFree' /\ NoFalseLeak'
<1> USE DEF Thread, Return, gcUnchanged, heapVars, progVars, markVars,
            listVars, histVars, Running, Live, TypeOK, Stopped,
            OpInv, MarkInv, ReachInv, Working, NoPrematureFree, NoFalseLeak
<1> DEFINE Goal == MarkInv' /\ ReachInv' /\ NoPrematureFree' /\ NoFalseLeak'
<1>1. ASSUME NEW o \in Objects, ObjectAlloc(t, o) PROVE Goal
  <2>1. /\ ~Live(o) /\ ~Stopped /\ lost' = lost \ {o}
        /\ \A x \in Objects : Live(x) => status'[x] = status[x]
        /\ UNCHANGED <<mark, cur, phase, failed, reach, leaks, finalizeList>>
    BY <1>1 DEF ObjectAlloc
  <2>2. NoPrematureFree' /\ NoFalseLeak'
    BY <2>1 DEF PhaseInv
  <2>3. MarkInv' /\ ReachInv'
    BY <2>1
  <2> QED
    BY <2>2, <2>3
<1>2. CASE AllocSetInfo(t)
  BY <1>2 DEF AllocSetInfo
<1>3. ASSUME NEW path \in AllocPaths, AllocReadFlags(t, path) PROVE Goal
  BY <1>3 DEF AllocReadFlags
<1>4. CASE AllocCas(t)
  BY <1>4 DEF AllocCas
<1>5. CASE AllocStore(t)
  BY <1>5 DEF AllocStore, WriteMark
<1>6. ASSUME NEW o \in Objects, DeleteRead(t, o) PROVE Goal
  BY <1>6 DEF DeleteRead, Busy
<1>7. CASE MarkObjectDeleted(t)
  BY <1>7 DEF MarkObjectDeleted, WriteMark
<1>8. CASE ObjectDeleteRequested(t)
  BY <1>8 DEF ObjectDeleteRequested
<1>9. ASSUME NEW p \in Objects, NEW c \in Objects,
             StoreMember(t, p, c) \/ ClearMember(t, p, c) \/ LoadMember(t, p, c)
      PROVE Goal
  BY <1>9 DEF StoreMember, ClearMember, LoadMember
<1>10. ASSUME NEW c \in Objects,
              \/ StoreStatic(t, c) \/ ClearStatic(t, c)
              \/ LoadStatic(t, c) \/ Drop(t, c)
       PROVE Goal
  BY <1>10 DEF StoreStatic, ClearStatic, LoadStatic, Drop
<1> QED
  BY <1>1, <1>2, <1>3, <1>4, <1>5, <1>6, <1>7, <1>8, <1>9, <1>10 DEF Mutator

(* The collector frees no object a mutator works on.                       *)
LEMMA OpCollector ==
  ASSUME TypeOK, OpInv, PhaseInv, Collector
  PROVE  OpInv'
<1> USE DEF heapVars, progVars, markVars, listVars, histVars, Live, TypeOK,
            Stopped, OpInv, PhaseInv, Working
<1>1. CASE StartCollect
  BY <1>1, MarkIds DEF StartCollect
<1>2. ASSUME NEW ok \in BOOLEAN, MarkRoots(ok) PROVE OpInv'
  BY <1>2, MarkIds DEF MarkRoots, MarkAll, Marked, Queues, NewlyMarked
<1>3. ASSUME NEW o \in Objects, HandlePending(o) PROVE OpInv'
  BY <1>3, MarkIds DEF HandlePending, MarkAll, Marked, Queues, NewlyMarked, Members
<1>4. ASSUME NEW t \in Threads, ScanThread(t) PROVE OpInv'
  BY <1>4, MarkIds DEF ScanThread, MarkAll, Marked, Queues, NewlyMarked
<1>5. CASE ScanFails
  BY <1>5, MarkIds DEF ScanFails
<1>6. CASE ResumeThreads
  BY <1>6, MarkIds DEF ResumeThreads
<1>7. ASSUME NEW o \in Objects, SweepSlot(o) PROVE OpInv'
  BY <1>7, MarkIds DEF SweepSlot, SweepFailed, SweepLeak, SweepDeleted, SweepPass, Unmarked
<1>8. CASE FinishCollect
  BY <1>8, MarkIds DEF FinishCollect
<1>9. CASE ProcessSweepInfo
  BY <1>9, MarkIds DEF ProcessSweepInfo, Marked, Queues, NewlyMarked, Members
<1> QED
  BY <1>1, <1>2, <1>3, <1>4, <1>5, <1>6, <1>7, <1>8, <1>9 DEF Collector

(* The collector's sets follow its phases.                                 *)
LEMMA PhaseCollector ==
  ASSUME TypeOK, OpInv, PhaseInv, Collector
  PROVE  PhaseInv'
<1> USE DEF heapVars, progVars, markVars, listVars, histVars, Live, TypeOK,
            Stopped, OpInv, PhaseInv
<1>1. CASE StartCollect
  BY <1>1, MarkIds DEF StartCollect
<1>2. ASSUME NEW ok \in BOOLEAN, MarkRoots(ok) PROVE PhaseInv'
  BY <1>2, MarkIds DEF MarkRoots, MarkAll, Marked, Queues, NewlyMarked
<1>3. ASSUME NEW o \in Objects, HandlePending(o) PROVE PhaseInv'
  BY <1>3, MarkIds DEF HandlePending, MarkAll, Marked, Queues, NewlyMarked, Members
<1>4. ASSUME NEW t \in Threads, ScanThread(t) PROVE PhaseInv'
  BY <1>4, MarkIds DEF ScanThread, MarkAll, Marked, Queues, NewlyMarked
<1>5. CASE ScanFails
  BY <1>5, MarkIds DEF ScanFails
<1>6. CASE ResumeThreads
  BY <1>6, MarkIds DEF ResumeThreads
<1>7. ASSUME NEW o \in Objects, SweepSlot(o) PROVE PhaseInv'
  BY <1>7, MarkIds DEF SweepSlot, SweepFailed, SweepLeak, SweepDeleted, SweepPass, Unmarked
<1>8. CASE FinishCollect
  BY <1>8, MarkIds DEF FinishCollect
<1>9. CASE ProcessSweepInfo
  BY <1>9, MarkIds DEF ProcessSweepInfo, Marked, Queues, NewlyMarked, Members
<1> QED
  BY <1>1, <1>2, <1>3, <1>4, <1>5, <1>6, <1>7, <1>8, <1>9 DEF Collector

(* A collection ends with every object decided.                            *)
LEMMA SettledCollector ==
  ASSUME TypeOK, OpInv, PhaseInv, Settled, Collector
  PROVE  Settled'
<1> USE DEF heapVars, progVars, markVars, listVars, histVars, Live, TypeOK,
            Stopped, OpInv, PhaseInv, Settled, Torn
<1>1. CASE StartCollect
  BY <1>1, MarkIds DEF StartCollect
<1>2. ASSUME NEW ok \in BOOLEAN, MarkRoots(ok) PROVE Settled'
  BY <1>2, MarkIds DEF MarkRoots, MarkAll, Marked, Queues, NewlyMarked
<1>3. ASSUME NEW o \in Objects, HandlePending(o) PROVE Settled'
  BY <1>3, MarkIds DEF HandlePending, MarkAll, Marked, Queues, NewlyMarked, Members
<1>4. ASSUME NEW t \in Threads, ScanThread(t) PROVE Settled'
  BY <1>4, MarkIds DEF ScanThread, MarkAll, Marked, Queues, NewlyMarked
<1>5. CASE ScanFails
  BY <1>5, MarkIds DEF ScanFails
<1>6. CASE ResumeThreads
  BY <1>6, MarkIds DEF ResumeThreads
<1>7. ASSUME NEW o \in Objects, SweepSlot(o) PROVE Settled'
  BY <1>7, MarkIds DEF SweepSlot, SweepFailed, SweepLeak, SweepDeleted, SweepPass, Unmarked
<1>8. CASE FinishCollect
  BY <1>8, MarkIds DEF FinishCollect
<1>9. CASE ProcessSweepInfo
  BY <1>9, MarkIds DEF ProcessSweepInfo, Marked, Queues, NewlyMarked, Members
<1> QED
  BY <1>1, <1>2, <1>3, <1>4, <1>5, <1>6, <1>7, <1>8, <1>9 DEF Collector

(* A thread stopped between reading sAllocFlags and the compare-and-swap   *)
(* resumes with its object marked, or in a failed collection.              *)
LEMMA CasCollector ==
  ASSUME TypeOK, OpInv, PhaseInv, MarkInv, CasInv, Collector
  PROVE  CasInv'
<1> USE DEF heapVars, progVars, markVars, listVars, histVars, Live, TypeOK,
            Stopped, OpInv, CasInv, Working
<1>1. CASE StartCollect
  BY <1>1, MarkIds DEF StartCollect, PhaseInv
<1>2. ASSUME NEW ok \in BOOLEAN, MarkRoots(ok) PROVE CasInv'
  BY <1>2, MarkIds DEF MarkRoots, MarkAll, Marked, NewlyMarked
<1>3. ASSUME NEW o \in Objects, HandlePending(o) PROVE CasInv'
  BY <1>3, MarkIds DEF HandlePending, MarkAll, Marked, NewlyMarked, Members
<1>4. ASSUME NEW t \in Threads, ScanThread(t) PROVE CasInv'
  BY <1>4, MarkIds DEF ScanThread, MarkAll, Marked, NewlyMarked
<1>5. CASE ScanFails
  BY <1>5, MarkIds DEF ScanFails
<1>6. CASE ResumeThreads
  BY <1>6, MarkIds DEF ResumeThreads, MarkInv
<1>7. ASSUME NEW o \in Objects, SweepSlot(o) PROVE CasInv'
  BY <1>7, MarkIds DEF SweepSlot, SweepFailed, SweepLeak, SweepDeleted, SweepPass, Unmarked
<1>8. CASE FinishCollect
  BY <1>8, MarkIds DEF FinishCollect, PhaseInv
<1>9. CASE ProcessSweepInfo
  BY <1>9, MarkIds DEF ProcessSweepInfo, Marked, NewlyMarked, Members, PhaseInv
<1> QED
  BY <1>1, <1>2, <1>3, <1>4, <1>5, <1>6, <1>7, <1>8, <1>9 DEF Collector

(* What one call of MarkAll does when it finds room for everything.        *)
LEMMA MarkAllKeeps ==
  ASSUME TypeOK, NEW C, C \subseteq Objects, NEW Q, Q \subseteq Objects,
         MarkAll(C, Q), ~failed'
  PROVE  /\ ~failed
         /\ pending' = Q \cup NewlyMarked(C)
         /\ Marked(NewlyMarked(C))
         /\ \A c \in C : Live(c) => mark'[c] = cur
         /\ \A c \in Objects : mark[c] = cur => mark'[c] = cur
         /\ \A c \in Objects : mark'[c] = cur => mark[c] = cur \/ c \in pending'
         /\ lost' \subseteq lost /\ skipped' \subseteq skipped
<1>1. PICK queued \in SUBSET NewlyMarked(C) :
         /\ pending' = Q \cup queued
         /\ failed' = (failed \/ queued # NewlyMarked(C))
  BY DEF MarkAll, Queues
<1>2. ~failed /\ queued = NewlyMarked(C)
  BY <1>1
<1>3. Marked(NewlyMarked(C))
  BY DEF MarkAll
<1>4. NewlyMarked(C) \subseteq Objects
  BY DEF NewlyMarked
<1>5. mark' = [o \in Objects |-> IF o \in NewlyMarked(C) THEN cur ELSE mark[o]]
  BY <1>3 DEF Marked
<1>6. \A c \in C : Live(c) => mark'[c] = cur
  BY <1>5 DEF NewlyMarked
<1>7. /\ \A c \in Objects : mark[c] = cur => mark'[c] = cur
      /\ \A c \in Objects :
           mark'[c] = cur => mark[c] = cur \/ c \in NewlyMarked(C)
  BY <1>5
<1> QED
  BY <1>1, <1>2, <1>3, <1>6, <1>7 DEF Marked

(* MarkAll keeps the marker's invariant: what it marks it also queues.     *)
LEMMA MarkAllMarkInv ==
  ASSUME TypeOK, NEW C, C \subseteq Objects, NEW Q, Q \subseteq Objects,
         MarkAll(C, Q), ~failed', MarkInv, Stopped,
         UNCHANGED <<status, deleted, refs, cur>>,
         NEW o, pending \subseteq Q \cup {o},
         o \in Objects => Members(o) \subseteq C
  PROVE  \A p \in Objects :
           (Live(p)' /\ mark'[p] = cur' /\ p \notin Torn' /\ p \notin pending')
             => \A c \in Members(p)' : mark'[c] = cur'
<1> SUFFICES ASSUME NEW p \in Objects, Live(p)', mark'[p] = cur',
                    p \notin Torn', p \notin pending',
                    NEW c \in Members(p)'
             PROVE  mark'[c] = cur'
  OBVIOUS
<1>1. /\ ~failed
      /\ pending' = Q \cup NewlyMarked(C)
      /\ Marked(NewlyMarked(C))
      /\ \A x \in C : Live(x) => mark'[x] = cur
      /\ \A x \in Objects : mark[x] = cur => mark'[x] = cur
      /\ \A x \in Objects : mark'[x] = cur => mark[x] = cur \/ x \in pending'
  BY MarkAllKeeps
<1>2. Live(p) /\ mark[p] = cur /\ p \notin pending \ {o}
  BY <1>1 DEF Live
<1>3. p \notin Torn
  BY <1>1 DEF Torn, Marked
<1>4. c \in Members(p) /\ c \in Objects /\ Live(c)
  <2>1. refs[p] \subseteq Objects
    BY DEF TypeOK
  <2> QED
    BY <2>1 DEF Members, Counts, Live
<1>5. CASE p = o
  BY <1>1, <1>4, <1>5
<1>6. CASE p # o
  <2>1. p \notin pending
    BY <1>2, <1>6
  <2>2. mark[c] = cur
    BY <1>1, <1>2, <1>3, <1>4, <2>1 DEF MarkInv
  <2> QED
    BY <1>1, <1>4, <2>2
<1> QED
  BY <1>5, <1>6

(* Scanned roots are marked, and the marked objects outside the queue      *)
(* refer to marked objects, through every step of the collector.           *)
LEMMA MarkCollector ==
  ASSUME TypeOK, OpInv, PhaseInv, Settled, MarkInv, Collector
  PROVE  MarkInv'
<1> USE DEF heapVars, progVars, markVars, listVars, histVars
<1>1. CASE StartCollect
  <2>1. \A p \in Objects : Live(p) /\ p \notin Torn => mark[p] # NextMark(cur)
    <3>1. cur \in 1..3 /\ NextMark(cur) \notin {0, cur}
      BY MarkIds DEF TypeOK
    <3> QED
      BY <1>1, <3>1 DEF StartCollect, Settled, PhaseInv, Stopped
  <2> QED
    BY <1>1, <2>1 DEF StartCollect, MarkInv, Stopped, Live, Torn
<1>2. ASSUME NEW ok \in BOOLEAN, MarkRoots(ok) PROVE MarkInv'
  <2> SUFFICES ASSUME ~failed' PROVE MarkInv'
    BY DEF MarkInv
  <2>1. /\ MarkAll(statics, pending) /\ Stopped /\ phase' = "scan"
        /\ scanTodo' = Threads
        /\ UNCHANGED <<status, deleted, refs, cur, statics, stack>>
    BY <1>2 DEF MarkRoots, Stopped
  <2>2. statics \subseteq Objects /\ pending \subseteq Objects
    BY DEF TypeOK
  <2>3. \A o \in statics : Live(o) => mark'[o] = cur
    BY <2>1, <2>2, MarkAllKeeps
  <2>4. \A p \in Objects :
          (Live(p)' /\ mark'[p] = cur' /\ p \notin Torn' /\ p \notin pending')
             => \A c \in Members(p)' : mark'[c] = cur'
    BY <2>1, <2>2, ObjAssumption, MarkAllMarkInv
  <2> QED
    BY <2>1, <2>3, <2>4 DEF MarkInv, Live
<1>3. ASSUME NEW o \in Objects, HandlePending(o) PROVE MarkInv'
  <2> SUFFICES ASSUME ~failed' PROVE MarkInv'
    BY DEF MarkInv
  <2>1. /\ MarkAll(Members(o), pending \ {o}) /\ Stopped /\ phase = "scan"
        /\ UNCHANGED <<status, deleted, refs, cur, statics, stack, scanTodo,
                       phase>>
    BY <1>3 DEF HandlePending, Stopped
  <2>2. /\ Members(o) \subseteq Objects /\ pending \ {o} \subseteq Objects
        /\ pending \subseteq (pending \ {o}) \cup {o}
        /\ statics \subseteq Objects
        /\ \A t \in Threads : stack[t] \subseteq Objects
    BY DEF TypeOK, Members
  <2>3. /\ ~failed
        /\ \A x \in Objects : mark[x] = cur => mark'[x] = cur
    BY <2>1, <2>2, MarkAllKeeps
  <2>4. \A p \in Objects :
          (Live(p)' /\ mark'[p] = cur' /\ p \notin Torn' /\ p \notin pending')
             => \A c \in Members(p)' : mark'[c] = cur'
    BY <2>1, <2>2, MarkAllMarkInv
  <2> QED
    BY <2>1, <2>2, <2>3, <2>4 DEF MarkInv, Live
<1>4. ASSUME NEW t \in Threads, ScanThread(t) PROVE MarkInv'
  <2> SUFFICES ASSUME ~failed' PROVE MarkInv'
    BY DEF MarkInv
  <2>1. /\ MarkAll(stack[t], pending) /\ Stopped /\ phase = "scan"
        /\ scanTodo' = scanTodo \ {t}
        /\ UNCHANGED <<status, deleted, refs, cur, statics, stack, phase>>
    BY <1>4 DEF ScanThread, Stopped
  <2>2. /\ pending \subseteq Objects
        /\ statics \subseteq Objects
        /\ \A u \in Threads : stack[u] \subseteq Objects
    BY DEF TypeOK
  <2>3. /\ ~failed
        /\ \A x \in Objects : mark[x] = cur => mark'[x] = cur
        /\ \A x \in stack[t] : Live(x) => mark'[x] = cur
    BY <2>1, <2>2, MarkAllKeeps
  <2>4. \A p \in Objects :
          (Live(p)' /\ mark'[p] = cur' /\ p \notin Torn' /\ p \notin pending')
             => \A c \in Members(p)' : mark'[c] = cur'
    BY <2>1, <2>2, ObjAssumption, MarkAllMarkInv
  <2> QED
    BY <2>1, <2>2, <2>3, <2>4 DEF MarkInv, Live
<1>5. CASE ScanFails
  BY <1>5 DEF ScanFails, MarkInv
<1>6. CASE ResumeThreads
  BY <1>6 DEF ResumeThreads, MarkInv, Stopped
<1>7. ASSUME NEW o \in Objects, SweepSlot(o) PROVE MarkInv'
  BY <1>7 DEF SweepSlot, MarkInv, Stopped
<1>8. CASE FinishCollect
  BY <1>8 DEF FinishCollect, MarkInv, Stopped
<1>9. CASE ProcessSweepInfo
  BY <1>9 DEF ProcessSweepInfo, MarkInv, Stopped
<1> QED
  BY <1>1, <1>2, <1>3, <1>4, <1>5, <1>6, <1>7, <1>8, <1>9 DEF Collector

(* Marking an object whose mark was lost only adds to what must be found.  *)
LEMMA ReachableGrows ==
  ASSUME UNCHANGED <<status, deleted, refs, statics, stack>>,
         Torn' \subseteq Torn
  PROVE  Reachable \subseteq Reachable'
<1> SUFFICES ASSUME NEW o \in Reachable PROVE o \in Reachable'
  OBVIOUS
<1> DEFINE Closed(S) ==
      /\ \A r \in Roots : (Live(r) /\ r \notin Torn) => r \in S
      /\ \A p \in S : \A c \in refs[p] :
           (Counts(p, c) /\ c \notin Torn) => c \in S
<1>1. /\ Roots' = Roots
      /\ \A x : Live(x)' <=> Live(x)
      /\ \A x, y : Counts(x, y)' <=> Counts(x, y)
  BY DEF Roots, Live, Counts
<1>2. ASSUME NEW S \in SUBSET Objects,
             /\ \A r \in Roots' : (Live(r)' /\ r \notin Torn') => r \in S
             /\ \A p \in S : \A c \in refs'[p] :
                  (Counts(p, c)' /\ c \notin Torn') => c \in S
      PROVE  o \in S
  <2>1. Closed(S)
    BY <1>1, <1>2
  <2> QED
    BY <2>1 DEF Reachable
<1> QED
  BY <1>2 DEF Reachable

(* When the queue is empty and every thread is scanned, the marked objects *)
(* include everything reachable.                                           *)
LEMMA MarkingComplete ==
  ASSUME TypeOK, MarkInv, phase = "scan", pending = {}, scanTodo = {}, ~failed
  PROVE  \A o \in Reachable : Live(o) /\ mark[o] = cur
<1> DEFINE S == {o \in Objects : Live(o) /\ mark[o] = cur /\ o \notin Torn}
<1>1. \A r \in Roots : (Live(r) /\ r \notin Torn) => r \in S
  BY DEF Roots, MarkInv, TypeOK
<1>2. \A p \in S : \A c \in refs[p] :
        (Counts(p, c) /\ c \notin Torn) => c \in S
  <2> SUFFICES ASSUME NEW p \in S, NEW c \in refs[p], Counts(p, c), c \notin Torn
               PROVE  c \in S
    OBVIOUS
  <2>1. c \in Members(p) /\ c \in Objects /\ Live(c)
    BY DEF Members, TypeOK, Counts
  <2>2. mark[c] = cur
    BY <2>1 DEF MarkInv, Stopped
  <2> QED
    BY <2>1, <2>2
<1>3. Reachable \subseteq S
  BY <1>1, <1>2 DEF Reachable
<1> QED
  BY <1>3

(* The safety of the sweep: what was reachable at the stop is marked when  *)
(* the mutators resume, so the sweep lists none of it.                     *)
LEMMA ReachCollector ==
  ASSUME TypeOK, PhaseInv, MarkInv, ReachInv, NoPrematureFree, NoFalseLeak,
         Collector
  PROVE  ReachInv' /\ NoPrematureFree' /\ NoFalseLeak'
<1> USE DEF heapVars, progVars, markVars, listVars, histVars
<1> DEFINE Goal == ReachInv' /\ NoPrematureFree' /\ NoFalseLeak'
<1>a. ASSUME NEW C, NEW Q, MarkAll(C, Q), Stopped, phase' = "scan",
             UNCHANGED <<status, deleted, refs, statics, stack, reach,
                         finalizeList, leaks>>
      PROVE  Goal
  <2>1. Torn' \subseteq Torn
    BY <1>a DEF MarkAll, Marked, Torn
  <2>2. reach' \subseteq Reachable'
    BY <1>a, <2>1, ReachableGrows DEF ReachInv
  <2>3. finalizeList = {} /\ leaks = {}
    BY <1>a DEF PhaseInv, Stopped
  <2> QED
    BY <1>a, <2>2, <2>3 DEF ReachInv, NoPrematureFree, NoFalseLeak
<1>1. CASE StartCollect
  <2>1. Torn' = Torn /\ UNCHANGED <<status, deleted, refs, statics, stack>>
    BY <1>1 DEF StartCollect, Torn
  <2>2. reach' \subseteq Reachable'
    BY <1>1, <2>1, ReachableGrows DEF StartCollect
  <2>3. finalizeList' = {} /\ leaks' = {} /\ phase' = "roots"
    BY <1>1 DEF StartCollect, PhaseInv
  <2> QED
    BY <2>2, <2>3 DEF ReachInv, NoPrematureFree, NoFalseLeak
<1>2. ASSUME NEW ok \in BOOLEAN, MarkRoots(ok) PROVE Goal
  BY <1>2, <1>a DEF MarkRoots, Stopped
<1>3. ASSUME NEW o \in Objects, HandlePending(o) PROVE Goal
  BY <1>3, <1>a DEF HandlePending, Stopped
<1>4. ASSUME NEW t \in Threads, ScanThread(t) PROVE Goal
  BY <1>4, <1>a DEF ScanThread, Stopped
<1>5. CASE ScanFails
  <2>1. Torn' = Torn /\ UNCHANGED <<status, deleted, refs, statics, stack, reach,
                                    phase, finalizeList, leaks>>
    BY <1>5 DEF ScanFails, Torn
  <2>2. reach' \subseteq Reachable'
    BY <1>5, <2>1, ReachableGrows DEF ScanFails, ReachInv, Stopped
  <2>3. finalizeList = {} /\ leaks = {} /\ phase = "scan"
    BY <1>5 DEF ScanFails, PhaseInv
  <2> QED
    BY <2>1, <2>2, <2>3 DEF ReachInv, NoPrematureFree, NoFalseLeak
<1>6. CASE ResumeThreads
  <2>1. ~failed => \A o \in reach : Live(o) /\ mark[o] = cur
    BY <1>6, MarkingComplete DEF ResumeThreads, ReachInv, Stopped
  <2>2. finalizeList' = {} /\ leaks' = {}
    BY <1>6 DEF ResumeThreads, PhaseInv
  <2> QED
    BY <1>6, <2>1, <2>2
    DEF ResumeThreads, ReachInv, NoPrematureFree, NoFalseLeak, Stopped,
        Live
<1>7. ASSUME NEW o \in Objects, SweepSlot(o) PROVE Goal
  <2>1. /\ phase = "sweep"
        /\ UNCHANGED <<status, phase, failed, cur, reach>>
    BY <1>7 DEF SweepSlot
  <2>2. CASE SweepFailed(o)
    BY <2>1, <2>2 DEF SweepFailed, ReachInv, NoPrematureFree, NoFalseLeak,
                      PhaseInv, Stopped, Live
  <2>3. ASSUME Unmarked(o) PROVE o \in reach => o \in lost
    BY <2>1, <2>3, MarkIds DEF Unmarked, ReachInv, TypeOK
  <2>4. CASE SweepLeak(o)
    <3>1. Unmarked(o) /\ UNCHANGED <<mark, lost, finalizeList>>
      BY <2>4 DEF SweepLeak
    <3>2. leaks' \subseteq leaks \cup {o}
      BY <2>4 DEF SweepLeak
    <3> QED
      BY <2>1, <2>3, <3>1, <3>2
      DEF ReachInv, NoPrematureFree, NoFalseLeak, Stopped,
        Live
  <2>5. CASE SweepDeleted(o)
    BY <2>1, <2>3, <2>5
    DEF SweepDeleted, ReachInv, NoPrematureFree, NoFalseLeak, Stopped,
        Live
  <2>6. CASE SweepPass(o)
    BY <2>1, <2>6
    DEF SweepPass, ReachInv, NoPrematureFree, NoFalseLeak, Stopped,
        Live
  <2> QED
    BY <1>7, <2>2, <2>4, <2>5, <2>6 DEF SweepSlot
<1>8. CASE FinishCollect
  BY <1>8 DEF FinishCollect, ReachInv, NoPrematureFree, NoFalseLeak, Stopped
<1>9. CASE ProcessSweepInfo
  BY <1>9 DEF ProcessSweepInfo, ReachInv, NoPrematureFree, NoFalseLeak, Stopped,
              PhaseInv
<1> QED
  BY <1>1, <1>2, <1>3, <1>4, <1>5, <1>6, <1>7, <1>8, <1>9 DEF Collector

-----------------------------------------------------------------------------
(* The invariant of the cycle holds in every state of every program.       *)
THEOREM CycleInvariant == Spec => []IInv
<1>1. Init => IInv
  <2> SUFFICES ASSUME Init PROVE IInv
    OBVIOUS
  <2> USE DEF Init, Stopped, Live
  <2>1. OpInv
    BY ObjAssumption DEF OpInv, Working
  <2>2. PhaseInv
    BY DEF PhaseInv
  <2>3. Settled /\ CasInv /\ MarkInv
    BY DEF Settled, CasInv, MarkInv
  <2>4. ReachInv /\ NoPrematureFree /\ NoFalseLeak
    BY DEF ReachInv, NoPrematureFree, NoFalseLeak
  <2> QED
    BY <2>1, <2>2, <2>3, <2>4 DEF IInv
<1>2. TypeOK /\ IInv /\ [Next]_vars => IInv'
  <2> SUFFICES ASSUME TypeOK, IInv, [Next]_vars PROVE IInv'
    OBVIOUS
  <2> USE DEF IInv
  <2>1. CASE Collector
    BY <2>1, OpCollector, PhaseCollector, SettledCollector, CasCollector,
       MarkCollector, ReachCollector
  <2>2. ASSUME NEW t \in Threads, Mutator(t) PROVE IInv'
    BY <2>2, OpMutator, PhaseMutator, SettledMutator, CasMutator, ReachMutator
  <2>3. CASE UNCHANGED vars
    <3> USE <2>3 DEF vars, heapVars, progVars, markVars, listVars, histVars,
                     Live, Stopped, Torn
    <3>1. OpInv' /\ PhaseInv'
      BY DEF OpInv, PhaseInv, Working
    <3>2. Settled' /\ CasInv'
      BY DEF Settled, CasInv
    <3>3. MarkInv'
      BY DEF MarkInv, Members, Counts
    <3>4. ReachInv'
      <4>1. Reachable' = Reachable
        BY DEF Reachable, Roots, Counts
      <4> QED
        BY <4>1 DEF ReachInv
    <3>5. NoPrematureFree' /\ NoFalseLeak'
      BY DEF NoPrematureFree, NoFalseLeak
    <3> QED
      BY <3>1, <3>2, <3>3, <3>4, <3>5
  <2> QED
    BY <2>1, <2>2, <2>3 DEF Next
<1> QED
  BY <1>1, <1>2, TypeCorrect, PTL DEF Spec

(* FinishCollect never gets an object that was reachable when the mutators *)
(* were stopped, unless a mutator destroyed its new mark.                  *)
THEOREM ReachableIsNotFreed == Spec => []NoPrematureFree
<1>1. IInv => NoPrematureFree
  BY DEF IInv
<1> QED
  BY <1>1, CycleInvariant, PTL

(* ProcessSweepInfo reports no reachable object, with the same exception.  *)
THEOREM ReachableIsNotReported == Spec => []NoFalseLeak
<1>1. IInv => NoFalseLeak
  BY DEF IInv
<1> QED
  BY <1>1, CycleInvariant, PTL

(* HandlePendingGCData takes only objects from its queue, also what the    *)
(* reports of the previous collection have left in it.                     *)
THEOREM QueueHoldsObjects == Spec => []PendingIsAllocated
<1>1. IInv => PendingIsAllocated
  BY DEF IInv, PhaseInv, PendingIsAllocated
<1> QED
  BY <1>1, CycleInvariant, PTL

(* The assertion in SweepSpan holds for every object whose mark id was     *)
(* neither destroyed by a mutator nor left behind by a root error.         *)
THEOREM InvalidMarkIsExplained == Spec => []InvalidMarkExplained
<1>1. TypeOK /\ IInv => InvalidMarkExplained
  <2> SUFFICES ASSUME TypeOK, Settled,
                      NEW o \in sweepTodo, Live(o), mark[o] = InvalidMark(cur)
               PROVE  o \in Torn
    BY DEF IInv, InvalidMarkExplained
  <2>1. o \in Objects /\ cur \in 1..3
    BY DEF TypeOK
  <2>2. InvalidMark(cur) \notin {0, cur, DeleteMark(cur)}
    BY <2>1, MarkIds
  <2> QED
    BY <2>1, <2>2 DEF Settled
<1> QED
  BY <1>1, TypeCorrect, CycleInvariant, PTL

(* Only FinishCollect frees, and only what the program has deleted.        *)
THEOREM FreedWasDeleted == Spec => OnlyDeletedIsFreed
<1> DEFINE Step == \A o \in Objects :
       (status[o] = "init" /\ status'[o] = "free") =>
          deleted[o] /\ \A t \in Threads : pc[t] = "delete" => opObj[t] # o
<1>1. TypeOK /\ IInv /\ [Next]_vars => [Step]_vars
  <2> SUFFICES ASSUME TypeOK, OpInv, PhaseInv, [Next]_vars,
                      NEW o \in Objects, status[o] = "init", status'[o] = "free"
               PROVE  deleted[o] /\
                      \A t \in Threads : pc[t] = "delete" => opObj[t] # o
    BY DEF IInv
  <2> USE DEF vars, heapVars, progVars, markVars, listVars, histVars, gcUnchanged
  <2>1. CASE Collector
    <3>1. CASE FinishCollect
      <4>1. o \in finalizeList
        BY <3>1 DEF FinishCollect, TypeOK
      <4>2. deleted[o]
        BY <4>1 DEF PhaseInv
      <4> QED
        BY <4>2 DEF OpInv, Working
    <3> QED
      BY <2>1, <3>1 DEF Collector, StartCollect, MarkRoots, HandlePending,
         ScanThread, ScanFails, ResumeThreads, SweepSlot, ProcessSweepInfo
  <2>2. ASSUME NEW t \in Threads, Mutator(t) PROVE FALSE
    <3>1. CASE \E x \in Objects : ObjectAlloc(t, x)
      BY <3>1 DEF ObjectAlloc, TypeOK
    <3>2. CASE AllocSetInfo(t)
      BY <3>2 DEF AllocSetInfo, TypeOK
    <3>3. CASE UNCHANGED status
      BY <3>3
    <3> QED
      BY <2>2, <3>1, <3>2, <3>3 DEF Mutator, AllocReadFlags, AllocCas, AllocStore,
         DeleteRead, MarkObjectDeleted, ObjectDeleteRequested, StoreMember,
         ClearMember, LoadMember, StoreStatic, ClearStatic, LoadStatic, Drop
  <2> QED
    BY <2>1, <2>2 DEF Next
<1> QED
  BY <1>1, TypeCorrect, CycleInvariant, PTL DEF Spec, OnlyDeletedIsFreed

-----------------------------------------------------------------------------
(* What the program can get hold of.  All that follows is about programs    *)
(* whose objects are allocated from a ClassVData: the other overload may    *)
(* give a new object a mark id that is two collections old, with which the  *)
(* marker takes it for scanned already.                                     *)

(* Nobody is about to store an old mark id into a new object; a mark id     *)
(* that has been overwritten is that of a deleted object, or of a slot that *)
(* has been freed since; and what is no object has no members.              *)
PlainInv ==
  /\ \A t \in Threads : pc[t] # "store"
  /\ \A o \in lost : status[o] = "free" \/ (Live(o) /\ deleted[o])
  /\ \A o \in Objects : ~Live(o) => refs[o] = {}

(* S has the roots and all that their members lead to.  What is in it is    *)
(* not reported, not freed, and, while a sweep is under way, marked.        *)
Holds(S) ==
  /\ Roots \subseteq S
  /\ \A p \in S : Live(p) /\ ~deleted[p] => refs[p] \subseteq S
  /\ \A o \in S : status[o] = "free" => o \in lost
  /\ S \cap (skipped \cup leaks) = {}
  /\ S \cap finalizeList \subseteq lost
  /\ phase = "sweep" /\ ~failed =>
       \A o \in S : Live(o) => mark[o] \in {0, cur} \/ o \in lost

HeldInv == PlainInv /\ \E S \in SUBSET Objects : Holds(S)

(* The mutators: what they add to the set is what they have allocated.      *)
LEMMA HeldMutator ==
  ASSUME TypeOK, IInv, PlainInv, NEW S \in SUBSET Objects, Holds(S),
         "TypeInstance" \notin AllocPaths, NEW t \in Threads, Mutator(t)
  PROVE  HeldInv'
<1> USE DEF IInv, Thread, Return, Running, gcUnchanged, heapVars, progVars,
            markVars, listVars, histVars
<1>1. ASSUME NEW o \in Objects, ObjectAlloc(t, o)
      PROVE  HeldInv'
  <2>1. /\ status[o] = "free" /\ status' = [status EXCEPT ![o] = "raw"]
        /\ pc' = [pc EXCEPT ![t] = "allocInfo"]
        /\ stack' = [stack EXCEPT ![t] = stack[t] \cup {o}]
        /\ lost' = lost \ {o} /\ skipped' = skipped \ {o}
        /\ UNCHANGED <<mark, deleted, refs, statics, leaks, finalizeList, phase,
                       failed, cur>>
    BY <1>1 DEF ObjectAlloc
  <2>2. PlainInv'
    BY <2>1 DEF PlainInv, Live, TypeOK
  <2>3. Roots' \subseteq Roots \cup {o}
    BY <2>1 DEF Roots, TypeOK
  <2>4. o \notin leaks \cup finalizeList
    BY <2>1 DEF PhaseInv, Live
  <2>5. \A p \in Objects : Live(p)' => p # o /\ Live(p)
    BY <2>1 DEF Live, TypeOK
  <2>6. Holds(S \cup {o})'
    BY <2>1, <2>3, <2>4, <2>5 DEF Holds, TypeOK
  <2> QED BY <2>2, <2>6 DEF HeldInv
<1>2. CASE AllocSetInfo(t)
  <2>1. /\ pc[t] = "allocInfo" /\ pc' = [pc EXCEPT ![t] = "allocFlags"]
        /\ status' = [status EXCEPT ![opObj[t]] = "init"]
        /\ UNCHANGED <<mark, deleted, refs, statics, stack, lost, skipped,
                       leaks, finalizeList, phase, failed, cur>>
    BY <1>2 DEF AllocSetInfo
  <2>2. /\ opObj[t] \in Objects /\ status[opObj[t]] = "raw"
        /\ mark[opObj[t]] = 0 /\ refs[opObj[t]] = {}
    BY <2>1 DEF OpInv, PlainInv, Live, TypeOK
  <2>3. PlainInv'
    BY <2>1, <2>2 DEF PlainInv, Live, TypeOK
  <2>4. Roots' = Roots
    BY <2>1 DEF Roots
  <2>5. Holds(S)'
    BY <2>1, <2>2, <2>4 DEF Holds, Live, TypeOK
  <2> QED BY <2>3, <2>5 DEF HeldInv
<1>3. ASSUME NEW path \in AllocPaths, AllocReadFlags(t, path)
      PROVE  HeldInv'
  <2>1. path = "ClassVData"
    BY PathAssumption
  <2>2. PlainInv'
    BY <1>3, <2>1 DEF AllocReadFlags, PlainInv, Live, TypeOK
  <2>3. Holds(S)'
    BY <1>3 DEF AllocReadFlags, Holds, Roots, Live
  <2> QED BY <2>2, <2>3 DEF HeldInv
<1>4. CASE AllocCas(t)
  <2>1. /\ pc[t] = "cas" /\ ~Stopped /\ pc' = [pc EXCEPT ![t] = "run"]
        /\ mark' = IF mark[opObj[t]] = 0
                     THEN [mark EXCEPT ![opObj[t]] = saved[t]] ELSE mark
        /\ UNCHANGED <<status, deleted, refs, statics, stack, lost, skipped,
                       leaks, finalizeList, phase, failed, cur>>
    BY <1>4 DEF AllocCas
  <2>2. PlainInv'
    BY <2>1 DEF PlainInv, Live, TypeOK
  <2>3. mark[opObj[t]] = 0 /\ ~failed => saved[t] = cur
    BY <2>1 DEF CasInv
  <2>4. Roots' = Roots
    BY <2>1 DEF Roots
  <2>5. ~failed => \A o \in Objects : mark'[o] = mark[o] \/ mark'[o] = cur
    BY <2>1, <2>3 DEF TypeOK
  <2>6. Holds(S)'
    BY <2>1, <2>4, <2>5 DEF Holds, Live
  <2> QED BY <2>2, <2>6 DEF HeldInv
<1>5. ~AllocStore(t)
  BY DEF AllocStore, PlainInv
<1>6. ASSUME NEW o \in Objects, DeleteRead(t, o)
      PROVE  HeldInv'
  <2>1. PlainInv'
    BY <1>6 DEF DeleteRead, PlainInv, Live, TypeOK
  <2>2. Holds(S)'
    BY <1>6 DEF DeleteRead, Holds, Roots, Live
  <2> QED BY <2>1, <2>2 DEF HeldInv
<1>7. CASE MarkObjectDeleted(t)
  <2> DEFINE o == opObj[t]
  <2>1. /\ pc[t] = "delete" /\ pc' = [pc EXCEPT ![t] = "deleted"]
        /\ mark' = [mark EXCEPT ![o] = saved[t]]
        /\ lost' = IF saved[t] # mark[o] /\ saved[t] # cur THEN lost \cup {o}
                   ELSE lost
        /\ deleted' = [deleted EXCEPT ![o] = TRUE]
        /\ UNCHANGED <<status, refs, statics, stack, skipped, leaks,
                       finalizeList, phase, failed, cur>>
    BY <1>7 DEF MarkObjectDeleted, WriteMark
  <2>2. o \in Objects /\ Live(o)
    BY <2>1 DEF OpInv, Working, TypeOK
  <2>3. PlainInv'
    BY <2>1, <2>2 DEF PlainInv, Live, TypeOK
  <2>4. Roots' = Roots
    BY <2>1 DEF Roots
  <2>5. \A x \in Objects : \/ mark'[x] = mark[x] \/ mark'[x] = cur
                           \/ x \in lost'
    BY <2>1, <2>2 DEF TypeOK
  <2>6. \A x \in Objects : ~deleted'[x] => ~deleted[x]
    BY <2>1, <2>2 DEF TypeOK
  <2>7. Holds(S)'
    BY <2>1, <2>4, <2>5, <2>6 DEF Holds, Live
  <2> QED BY <2>3, <2>7 DEF HeldInv
<1>8. CASE ObjectDeleteRequested(t)
  <2>1. PlainInv'
    BY <1>8 DEF ObjectDeleteRequested, PlainInv, Live, TypeOK
  <2>2. Holds(S)'
    BY <1>8 DEF ObjectDeleteRequested, Holds, Roots, Live
  <2> QED BY <2>1, <2>2 DEF HeldInv
<1>9. ASSUME NEW p \in Objects, NEW c \in Objects,
             StoreMember(t, p, c) \/ ClearMember(t, p, c)
      PROVE  HeldInv'
  <2>1. /\ Live(p) /\ UNCHANGED <<status, mark, deleted, statics, stack, pc,
                       lost, skipped, leaks, finalizeList, phase, failed, cur>>
        /\ \E m \in SUBSET Roots : refs' = [refs EXCEPT ![p] = refs[p] \cup m]
                               \/ refs' = [refs EXCEPT ![p] = refs[p] \ {c}]
    <3>1. stack[t] \subseteq Roots
      BY DEF Roots
    <3>2. CASE StoreMember(t, p, c)
      <4>1. /\ {c} \in SUBSET Roots
            /\ refs' = [refs EXCEPT ![p] = refs[p] \cup {c}]
        BY <3>1, <3>2 DEF StoreMember
      <4> QED BY <3>2, <4>1 DEF StoreMember, Usable
    <3>3. CASE ClearMember(t, p, c)
      <4>1. {} \in SUBSET Roots /\ refs' = [refs EXCEPT ![p] = refs[p] \ {c}]
        BY <3>3 DEF ClearMember
      <4> QED BY <3>3, <4>1 DEF ClearMember, Usable
    <3> QED BY <1>9, <3>2, <3>3
  <2>2. PlainInv'
    BY <2>1 DEF PlainInv, Live, TypeOK
  <2>3. /\ Roots' = Roots
        /\ \A x \in Objects : refs'[x] \subseteq refs[x] \cup Roots
    BY <2>1 DEF Roots, TypeOK
  <2>4. Holds(S)'
    BY <2>1, <2>3 DEF Holds, Live
  <2> QED BY <2>2, <2>4 DEF HeldInv
<1>10. ASSUME \/ \E p, c \in Objects : LoadMember(t, p, c)
              \/ \E c \in Objects : \/ StoreStatic(t, c) \/ ClearStatic(t, c)
                                    \/ LoadStatic(t, c) \/ Drop(t, c)
       PROVE  HeldInv'
  <2>1. UNCHANGED <<status, mark, deleted, refs, pc, lost, skipped, leaks,
                    finalizeList, phase, failed, cur>>
    BY <1>10 DEF LoadMember, StoreStatic, ClearStatic, LoadStatic, Drop
  <2>2. PlainInv'
    BY <2>1 DEF PlainInv, Live
  <2>3. Roots' \subseteq S
    <3>1. statics \subseteq S /\ \A u \in Threads : stack[u] \subseteq S
      BY DEF Holds, Roots
    <3> DEFINE Kept == /\ statics' \subseteq S
                       /\ \A u \in Threads : stack'[u] \subseteq S
    <3>2. Kept
      <4>1. ASSUME NEW p \in Objects, NEW c \in Objects, LoadMember(t, p, c)
            PROVE  Kept
        <5>1. c \in S
          BY <3>1, <4>1 DEF LoadMember, Usable, Holds
        <5> QED BY <3>1, <4>1, <5>1 DEF LoadMember, TypeOK
      <4>2. ASSUME NEW c \in Objects,
                   \/ StoreStatic(t, c) \/ ClearStatic(t, c)
                   \/ LoadStatic(t, c) \/ Drop(t, c)
            PROVE  Kept
        BY <3>1, <4>2 DEF StoreStatic, ClearStatic, LoadStatic, Drop, TypeOK
      <4> QED BY <1>10, <4>1, <4>2
    <3> QED BY <3>2 DEF Roots
  <2>4. Holds(S)'
    BY <2>1, <2>3 DEF Holds, Live
  <2> QED BY <2>2, <2>4 DEF HeldInv
<1> QED BY <1>1, <1>2, <1>3, <1>4, <1>5, <1>6, <1>7, <1>8, <1>9, <1>10
    DEF Mutator

(* What marks objects and nothing else: the set stays as it is.             *)
LEMMA HeldMarked ==
  ASSUME TypeOK, PlainInv, NEW S \in SUBSET Objects, Holds(S),
         NEW objs \in SUBSET Objects, \A o \in objs : Live(o), Marked(objs),
         UNCHANGED <<status, deleted, refs, statics, stack, pc, cur,
                     finalizeList>>,
         finalizeList = {}, leaks' \subseteq leaks,
         phase' # "sweep"
  PROVE  HeldInv'
<1>1. /\ \A o \in Objects : mark'[o] = mark[o] \/ mark'[o] = cur
      /\ lost' = lost \ objs /\ skipped' = skipped \ objs
      /\ \A o \in objs : mark'[o] = cur
  BY DEF Marked, TypeOK
<1>2. PlainInv'
  BY <1>1 DEF PlainInv, Live
<1>3. Roots' = Roots
  BY DEF Roots
<1>4. Holds(S)'
  BY <1>1, <1>3 DEF Holds, Live
<1> QED BY <1>2, <1>4 DEF HeldInv

(* The end of the marking: the set shrinks to what is marked.               *)
LEMMA HeldResumed ==
  ASSUME TypeOK, IInv, PlainInv, NEW S \in SUBSET Objects, Holds(S),
         ResumeThreads
  PROVE  HeldInv'
<1>1. /\ phase = "scan" /\ pending = {} /\ scanTodo = {} /\ phase' = "sweep"
      /\ finalizeList' = {}
      /\ UNCHANGED <<status, mark, deleted, refs, statics, stack, pc, lost,
                     skipped, leaks, failed, cur>>
  BY DEF ResumeThreads, heapVars, progVars, markVars, histVars
<1>2. PlainInv' /\ Roots' = Roots
  BY <1>1 DEF PlainInv, Live, Roots
<1>3. CASE failed
  <2>1. Holds(S)'
    BY <1>1, <1>2, <1>3 DEF Holds, Live
  <2> QED BY <1>2, <2>1 DEF HeldInv
<1>4. CASE ~failed
  <2> DEFINE T == {o \in S : Live(o) => mark[o] = cur \/ o \in lost}
  <2>1. Roots \subseteq T
    <3>1. \A o \in Roots : Live(o) => mark[o] = cur
      BY <1>1, <1>4 DEF IInv, MarkInv, Roots
    <3> QED BY <3>1 DEF Holds
  <2>2. ASSUME NEW p \in T, Live(p), ~deleted[p]
        PROVE  refs[p] \subseteq T
    <3>1. p \notin Torn /\ mark[p] = cur /\ p \in Objects
      BY <2>2 DEF PlainInv, Live, Holds, Torn
    <3>2. \A c \in Members(p) : mark[c] = cur
      BY <1>1, <1>4, <2>2, <3>1 DEF IInv, MarkInv, Stopped
    <3>3. \A c \in refs[p] : c \in S /\ (Live(c) => c \in Members(p))
      BY <2>2 DEF Holds, Members, Counts
    <3> QED BY <3>2, <3>3
  <2>3. Holds(T)'
    BY <1>1, <1>2, <2>1, <2>2 DEF Holds, Live
  <2>4. T \in SUBSET Objects
    OBVIOUS
  <2> QED BY <1>2, <2>3, <2>4 DEF HeldInv
<1> QED BY <1>3, <1>4

(* The collector.                                                           *)
LEMMA HeldCollector ==
  ASSUME TypeOK, IInv, PlainInv, NEW S \in SUBSET Objects, Holds(S), Collector
  PROVE  HeldInv'
<1> USE DEF IInv, heapVars, progVars, markVars, listVars, histVars
<1>1. CASE StartCollect
  <2>1. PlainInv' /\ Roots' = Roots
    BY <1>1 DEF StartCollect, PlainInv, Live, Roots
  <2>2. Holds(S)'
    BY <1>1, <2>1 DEF StartCollect, Holds, Live
  <2> QED BY <2>1, <2>2 DEF HeldInv
<1>2. ASSUME NEW C, C \subseteq Objects, NEW Q, MarkAll(C, Q),
             phase \in {"roots", "scan"}, phase' = "scan",
             UNCHANGED <<status, deleted, leakFlag, refs, progVars, cur, cap,
                         sweepTodo, listVars, reach>>
      PROVE  HeldInv'
  <2>1. /\ NewlyMarked(C) \in SUBSET Objects /\ Marked(NewlyMarked(C))
        /\ \A o \in NewlyMarked(C) : Live(o)
    BY <1>2 DEF MarkAll, NewlyMarked
  <2>2. finalizeList = {}
    BY <1>2 DEF PhaseInv
  <2> QED BY <1>2, <2>1, <2>2, HeldMarked
<1>3. ASSUME NEW ok \in BOOLEAN, MarkRoots(ok)
      PROVE  HeldInv'
  <2>1. statics \subseteq Objects
    BY DEF TypeOK
  <2> QED BY <1>2, <1>3, <2>1 DEF MarkRoots
<1>4. ASSUME NEW o \in Objects, HandlePending(o)
      PROVE  HeldInv'
  <2>1. Members(o) \subseteq Objects
    BY DEF TypeOK, Members
  <2> QED BY <1>2, <1>4, <2>1 DEF HandlePending
<1>5. ASSUME NEW t \in Threads, ScanThread(t)
      PROVE  HeldInv'
  <2>1. stack[t] \subseteq Objects
    BY DEF TypeOK
  <2> QED BY <1>2, <1>5, <2>1 DEF ScanThread
<1>6. CASE ScanFails
  <2>1. PlainInv' /\ Roots' = Roots
    BY <1>6 DEF ScanFails, PlainInv, Live, Roots
  <2>2. Holds(S)'
    BY <1>6, <2>1 DEF ScanFails, Holds, Live
  <2> QED BY <2>1, <2>2 DEF HeldInv
<1>7. CASE ResumeThreads
  BY <1>7, HeldResumed
<1>8. ASSUME NEW o \in Objects, SweepSlot(o)
      PROVE  HeldInv'
  <2>1. /\ phase = "sweep"
        /\ UNCHANGED <<status, deleted, refs, statics, stack, pc, phase, cur,
                       failed>>
    BY <1>8 DEF SweepSlot
  <2>2. Roots' = Roots
    BY <2>1 DEF Roots
  <2>3. CASE SweepFailed(o)
    <3>1. PlainInv'
      BY <2>1, <2>3 DEF SweepFailed, PlainInv, Live
    <3>2. Holds(S)'
      BY <2>1, <2>2, <2>3 DEF SweepFailed, Holds, Live, PhaseInv
    <3> QED BY <3>1, <3>2 DEF HeldInv
  <2>4. Unmarked(o) => o \notin S \/ o \in lost
    <3>1. DeleteMark(cur) \notin {0, cur}
      BY MarkIds DEF TypeOK
    <3> QED BY <2>1, <3>1 DEF Unmarked, Holds
  <2>5. CASE SweepLeak(o)
    <3>1. o \notin S
      BY <2>4, <2>5 DEF SweepLeak, Unmarked, PlainInv, Live
    <3>2. PlainInv'
      BY <2>1, <2>5 DEF SweepLeak, PlainInv, Live
    <3>3. Holds(S)'
      BY <2>1, <2>2, <2>5, <3>1 DEF SweepLeak, Holds, Live
    <3> QED BY <3>2, <3>3 DEF HeldInv
  <2>6. CASE SweepDeleted(o)
    <3>1. PlainInv'
      BY <2>1, <2>6 DEF SweepDeleted, PlainInv, Live
    <3>2. Holds(S)'
      BY <2>1, <2>2, <2>4, <2>6 DEF SweepDeleted, Holds, Live
    <3> QED BY <3>1, <3>2 DEF HeldInv
  <2>7. CASE SweepPass(o)
    <3>1. PlainInv'
      BY <2>1, <2>7 DEF SweepPass, PlainInv, Live
    <3>2. Holds(S)'
      BY <2>1, <2>2, <2>7 DEF SweepPass, Holds, Live
    <3> QED BY <3>1, <3>2 DEF HeldInv
  <2> QED BY <1>8, <2>3, <2>5, <2>6, <2>7 DEF SweepSlot
<1>9. CASE FinishCollect
  <2> DEFINE freed == {o \in finalizeList : mark[o] # cur}
  <2>1. /\ status' = [o \in Objects |->
                          IF o \in freed THEN "free" ELSE status[o]]
        /\ refs' = [o \in Objects |-> IF o \in freed THEN {} ELSE refs[o]]
        /\ deleted' = [o \in Objects |->
                          IF o \in freed THEN FALSE ELSE deleted[o]]
        /\ phase' = "process" /\ finalizeList' = {}
        /\ UNCHANGED <<statics, stack, pc, lost, skipped, leaks>>
    BY <1>9 DEF FinishCollect
  <2>2. freed \subseteq finalizeList /\ lost \subseteq Objects
    BY DEF TypeOK
  <2> HIDE DEF freed
  <2>3. PlainInv'
    BY <2>1, <2>2 DEF PlainInv, Live, TypeOK
  <2>4. Roots' = Roots
    BY <2>1 DEF Roots
  <2>5. \A o \in Objects : Live(o)' /\ ~deleted'[o] =>
          Live(o) /\ ~deleted[o] /\ refs'[o] = refs[o]
    BY <2>1 DEF Live
  <2>6. \A o \in S : status'[o] = "free" => o \in lost
    BY <2>1, <2>2 DEF Holds
  <2>7. Holds(S)'
    BY <2>1, <2>4, <2>5, <2>6 DEF Holds
  <2> QED BY <2>3, <2>7 DEF HeldInv
<1>10. CASE ProcessSweepInfo
  <2> DEFINE objs == NewlyMarked(UNION {Members(l) : l \in leaks}) \cup leaks
  <2>1. /\ objs \in SUBSET Objects /\ \A o \in objs : Live(o)
        /\ Marked(objs)
    BY <1>10 DEF ProcessSweepInfo, NewlyMarked, Members, TypeOK, PhaseInv
  <2>2. /\ phase = "process" /\ phase' \in {"idle", "retry"} /\ leaks' = {}
        /\ UNCHANGED <<status, deleted, refs, statics, stack, pc, cur,
                       finalizeList>>
    BY <1>10 DEF ProcessSweepInfo
  <2>3. finalizeList = {}
    BY <2>2 DEF PhaseInv
  <2> QED BY <2>1, <2>2, <2>3, HeldMarked
<1> QED
  BY <1>1, <1>3, <1>4, <1>5, <1>6, <1>7, <1>8, <1>9, <1>10 DEF Collector

(* Such a set exists in every state of a program that allocates all its     *)
(* objects from a ClassVData.                                               *)
THEOREM ProgramHoldsObjects ==
  ASSUME "TypeInstance" \notin AllocPaths
  PROVE  Spec => []HeldInv
<1>1. Init => HeldInv
  <2> SUFFICES ASSUME Init
               PROVE  HeldInv
    OBVIOUS
  <2>1. PlainInv /\ Roots = {}
    BY DEF Init, PlainInv, Roots, Live
  <2>2. Holds({})
    BY <2>1 DEF Holds
  <2> QED BY <2>1, <2>2 DEF HeldInv
<1>2. TypeOK /\ IInv /\ HeldInv /\ [Next]_vars => HeldInv'
  <2> SUFFICES ASSUME TypeOK, IInv, PlainInv, [Next]_vars,
                      NEW S \in SUBSET Objects, Holds(S)
               PROVE  HeldInv'
    BY DEF HeldInv
  <2>1. CASE Collector
    BY <2>1, HeldCollector
  <2>2. ASSUME NEW t \in Threads, Mutator(t)
        PROVE  HeldInv'
    BY <2>2, HeldMutator
  <2>3. CASE UNCHANGED vars
    <3>1. PlainInv' /\ Holds(S)'
      BY <2>3 DEF vars, heapVars, progVars, markVars, listVars, histVars,
         PlainInv, Holds, Roots, Live
    <3> QED BY <3>1 DEF HeldInv
  <2> QED BY <2>1, <2>2, <2>3 DEF Next
<1> QED BY <1>1, <1>2, TypeCorrect, CycleInvariant, PTL DEF Spec

(* No static and no stack of such a program, one that allocates all its     *)
(* objects with the compare-and-swap of the ClassVData path, holds a        *)
(* reference to a freed slot, also when the reference was copied while the  *)
(* collector swept: but for one to an object that is lost, whose new mark   *)
(* id its own delete has overwritten.                                       *)
THEOREM ReferencesAreNotFreed ==
  ASSUME "TypeInstance" \notin AllocPaths
  PROVE  Spec => []NoDanglingReference
<1>1. HeldInv => NoDanglingReference
  BY DEF HeldInv, Holds, NoDanglingReference
<1> QED BY <1>1, ProgramHoldsObjects, PTL

(* And none is reported that a thread or a static of it refers to.          *)
THEOREM HeldIsNotReported ==
  ASSUME "TypeInstance" \notin AllocPaths
  PROVE  Spec => []NoHeldLeak
<1>1. HeldInv => NoHeldLeak
  BY DEF HeldInv, Holds, NoHeldLeak
<1> QED BY <1>1, ProgramHoldsObjects, PTL

==============================================================================
