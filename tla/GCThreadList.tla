---------------------------- MODULE GCThreadList -----------------------------
(***************************************************************************)
(* How the collector stops the world (BeefRT/dbg/gc.cpp): the list of      *)
(* threads, which threads join and leave while collections go on, and the  *)
(* locks that a stopped thread may hold.  mCritSect protects the list and  *)
(* is held by the collector for a whole collection; every thread has a     *)
(* lock of its own for its stack-markable objects; GC.sMonitor (GC.bf)     *)
(* protects the root callbacks that a collection calls.                    *)
(***************************************************************************)
EXTENDS Integers, Sequences, FiniteSets, SequencesExt

CONSTANTS
  Threads,      \* threads of the program
  MainThread,   \* the one that is there from the start
  Collector,    \* the collector thread, as the owner of a lock
  Nobody        \* the owner of a free lock

ASSUME ThreadAssumption == /\ MainThread \in Threads
                           /\ Collector \notin Threads
                           /\ Nobody \notin Threads \cup {Collector}

VARIABLES
  mThreadList,   \* sequence of the registered threads
  mPending,      \* mPendingThreads: created, not yet registered
  mRunning,      \* per thread: its ThreadInfo's mRunning
  suspended,     \* threads the operating system does not run
  critSect,      \* owner of BFGC::mCritSect
  threadCrit,    \* per thread: owner of its ThreadInfo's mCritSect
  monitor,       \* owner of GC.sMonitor
  pc,            \* where each thread is
  gc,            \* where the collector is
  idx,           \* its position in mThreadList
  mUsingThreadUnlocked,
  mCollectFailed,
  scanned,       \* threads whose stack, or Thread object, is marked
  gaveUp         \* history: ScanThreads has returned early

listVars == <<mThreadList, mPending, mRunning>>
lockVars == <<critSect, threadCrit, monitor>>
gcVars == <<gc, idx, mUsingThreadUnlocked, mCollectFailed, scanned, gaveUp>>
vars == <<listVars, suspended, lockVars, pc, gcVars>>

Init ==
  /\ mThreadList = <<MainThread>>
  /\ mPending = {}
  /\ mRunning = [t \in Threads |-> t = MainThread]
  /\ suspended = {}
  /\ critSect = Nobody
  /\ threadCrit = [t \in Threads |-> Nobody]
  /\ monitor = Nobody
  /\ pc = [t \in Threads |-> IF t = MainThread THEN "run" ELSE "none"]
  /\ gc = "idle"
  /\ idx = 1
  /\ mUsingThreadUnlocked = FALSE
  /\ mCollectFailed = FALSE
  /\ scanned = {}
  /\ gaveUp = FALSE

-----------------------------------------------------------------------------
(* The threads.                                                             *)

At(t, from, to) == /\ t \notin suspended
                   /\ pc[t] = from
                   /\ pc' = [pc EXCEPT ![t] = to]

(* StartInternal: the new thread is created suspended and entered among the *)
(* pending ones before it may run.                                          *)
AddPendingThread(t, child) ==
  /\ t \notin suspended /\ pc[t] = "run"
  /\ pc[child] = "none"
  /\ critSect = Nobody
  /\ pc' = [pc EXCEPT ![child] = "created"]
  /\ mPending' = mPending \cup {child}
  /\ UNCHANGED <<mThreadList, mRunning, suspended, lockVars, gcVars>>

(* ThreadStarted, on the new thread.                                        *)
ThreadStarted(t) ==
  /\ At(t, "created", "run")
  /\ critSect = Nobody
  /\ mThreadList' = Append(mThreadList, t)
  /\ mPending' = mPending \ {t}
  /\ mRunning' = [mRunning EXCEPT ![t] = TRUE]
  /\ UNCHANGED <<suspended, lockVars, gcVars>>

(* ThreadStopped, on the thread that ends.                                  *)
ThreadStoppedLeftBehind(t) ==
  /\ At(t, "run", "ended")
  /\ critSect = Nobody
  /\ mRunning' = [mRunning EXCEPT ![t] = FALSE]
  /\ UNCHANGED <<mThreadList, mPending, suspended, lockVars, gcVars>>

ThreadStopped(t) ==
  /\ At(t, "run", "ended")
  /\ critSect = Nobody
  /\ \E i \in DOMAIN mThreadList :
       /\ mThreadList[i] = t
       /\ mThreadList' = IF mUsingThreadUnlocked THEN mThreadList
                         ELSE RemoveAt(mThreadList, i)
  /\ mRunning' = [mRunning EXCEPT ![t] = FALSE]
  /\ UNCHANGED <<mPending, suspended, lockVars, gcVars>>

(* Add/RemoveStackMarkableObject.                                           *)
StackMarkableLock(t) ==
  /\ At(t, "run", "markable")
  /\ threadCrit[t] = Nobody
  /\ threadCrit' = [threadCrit EXCEPT ![t] = t]
  /\ UNCHANGED <<listVars, suspended, critSect, monitor, gcVars>>

StackMarkableUnlock(t) ==
  /\ At(t, "markable", "run")
  /\ threadCrit' = [threadCrit EXCEPT ![t] = Nobody]
  /\ UNCHANGED <<listVars, suspended, critSect, monitor, gcVars>>

(* Add/RemoveRootCallback.                                                  *)
RootCallbackEnter(t) ==
  /\ At(t, "run", "rootCallback")
  /\ monitor = Nobody
  /\ monitor' = t
  /\ UNCHANGED <<listVars, suspended, critSect, threadCrit, gcVars>>

RootCallbackExit(t) ==
  /\ At(t, "rootCallback", "run")
  /\ monitor' = Nobody
  /\ UNCHANGED <<listVars, suspended, critSect, threadCrit, gcVars>>

(* What a thread goes on with once it has begun.                            *)
Continues(t) == ThreadStarted(t) \/ StackMarkableUnlock(t) \/ RootCallbackExit(t)

-----------------------------------------------------------------------------
(* The collector.                                                           *)

AtEnd == idx > Len(mThreadList)
Cur == mThreadList[idx]

(* PerformCollection takes mCritSect.                                       *)
PerformCollection ==
  /\ gc = "idle" /\ critSect = Nobody
  /\ critSect' = Collector
  /\ gc' = "suspend"
  /\ idx' = 1
  /\ mCollectFailed' = FALSE
  /\ scanned' = {}
  /\ UNCHANGED <<listVars, suspended, threadCrit, monitor, pc,
                 mUsingThreadUnlocked, gaveUp>>

(* SuspendThreads: the lock of a thread first, then the thread.             *)
SuspendSkip ==
  /\ gc = "suspend" /\ ~AtEnd /\ ~mRunning[Cur]
  /\ idx' = idx + 1
  /\ UNCHANGED <<listVars, suspended, lockVars, pc, gc, mUsingThreadUnlocked,
                 mCollectFailed, scanned, gaveUp>>

SuspendThenLock ==
  /\ gc = "suspend" /\ ~AtEnd /\ mRunning[Cur]
  /\ \/ /\ Cur \notin suspended
        /\ suspended' = suspended \cup {Cur}
        /\ UNCHANGED <<threadCrit, gc>>
     \/ /\ Cur \in suspended /\ threadCrit[Cur] = Nobody
        /\ threadCrit' = [threadCrit EXCEPT ![Cur] = Collector]
        /\ gc' = "suspendOs"
        /\ UNCHANGED suspended
  /\ UNCHANGED <<listVars, critSect, monitor, pc, idx, mUsingThreadUnlocked,
                 mCollectFailed, scanned, gaveUp>>

SuspendLock ==
  /\ gc = "suspend" /\ ~AtEnd /\ mRunning[Cur]
  /\ threadCrit[Cur] = Nobody
  /\ threadCrit' = [threadCrit EXCEPT ![Cur] = Collector]
  /\ gc' = "suspendOs"
  /\ UNCHANGED <<listVars, suspended, critSect, monitor, pc, idx,
                 mUsingThreadUnlocked, mCollectFailed, scanned, gaveUp>>

SuspendThread ==
  /\ gc = "suspendOs"
  /\ suspended' = suspended \cup {Cur}
  /\ gc' = "suspend"
  /\ idx' = idx + 1
  /\ UNCHANGED <<listVars, lockVars, pc, mUsingThreadUnlocked, mCollectFailed,
                 scanned, gaveUp>>

(* DoCollect: the root callbacks are called under GC.sMonitor; then         *)
(* ScanThreads begins.                                                      *)
DoCallRootCallbacks ==
  /\ gc = "suspend" /\ AtEnd
  /\ monitor = Nobody
  /\ gc' = "scan"
  /\ idx' = 1
  /\ mUsingThreadUnlocked' = TRUE
  /\ UNCHANGED <<listVars, suspended, lockVars, pc, mCollectFailed, scanned,
                 gaveUp>>

(* Each round of ScanThreads marks the pending threads first.               *)
ScanEnded ==
  /\ gc = "scan" /\ ~AtEnd /\ ~mRunning[Cur]
  /\ mThreadList' = RemoveAt(mThreadList, idx)
  /\ idx' = idx + 1
  /\ scanned' = scanned \cup mPending
  /\ UNCHANGED <<mPending, mRunning, suspended, lockVars, pc, gc,
                 mUsingThreadUnlocked, mCollectFailed, gaveUp>>

ScanThread ==
  /\ gc = "scan" /\ ~AtEnd /\ mRunning[Cur]
  /\ scanned' = scanned \cup mPending \cup {Cur}
  /\ idx' = idx + 1
  /\ UNCHANGED <<listVars, suspended, lockVars, pc, gc, mUsingThreadUnlocked,
                 mCollectFailed, gaveUp>>

(* BfpThread_GetIntRegisters has failed: an early return.                   *)
ScanGivesUp ==
  /\ gc = "scan" /\ ~AtEnd /\ mRunning[Cur]
  /\ mCollectFailed' = TRUE
  /\ gaveUp' = TRUE
  /\ gc' = "resume"
  /\ idx' = 1
  /\ UNCHANGED <<listVars, suspended, lockVars, pc, mUsingThreadUnlocked, scanned>>

ScanDone ==
  /\ gc = "scan" /\ AtEnd
  /\ scanned' = scanned \cup mPending
  /\ mUsingThreadUnlocked' = FALSE
  /\ gc' = "resume"
  /\ idx' = 1
  /\ UNCHANGED <<listVars, suspended, lockVars, pc, mCollectFailed, gaveUp>>

(* ResumeThreads, one entry of the list at a time.                          *)
ResumeThread ==
  /\ gc = "resume" /\ ~AtEnd
  /\ idx' = idx + 1
  /\ IF Cur \in suspended /\ mRunning[Cur]
       THEN /\ threadCrit' = [threadCrit EXCEPT ![Cur] = Nobody]
            /\ suspended' = suspended \ {Cur}
       ELSE UNCHANGED <<threadCrit, suspended>>
  /\ UNCHANGED <<listVars, critSect, monitor, pc, gc, mUsingThreadUnlocked,
                 mCollectFailed, scanned, gaveUp>>

ResumeDoneEarly ==
  /\ gc = "resume" /\ idx >= Len(mThreadList)
  /\ gc' = "sweep"
  /\ UNCHANGED <<listVars, suspended, lockVars, pc, idx, mUsingThreadUnlocked,
                 mCollectFailed, scanned, gaveUp>>

ResumeDone ==
  /\ gc = "resume" /\ AtEnd
  /\ gc' = "sweep"
  /\ UNCHANGED <<listVars, suspended, lockVars, pc, idx, mUsingThreadUnlocked,
                 mCollectFailed, scanned, gaveUp>>

(* ProcessSweepInfo gives mCritSect away while it reports leaks.            *)
ReportUnlock ==
  /\ gc = "sweep"
  /\ critSect' = Nobody
  /\ gc' = "report"
  /\ UNCHANGED <<listVars, suspended, threadCrit, monitor, pc, idx,
                 mUsingThreadUnlocked, mCollectFailed, scanned, gaveUp>>

ReportLock ==
  /\ gc = "report" /\ critSect = Nobody
  /\ critSect' = Collector
  /\ gc' = "finish"
  /\ UNCHANGED <<listVars, suspended, threadCrit, monitor, pc, idx,
                 mUsingThreadUnlocked, mCollectFailed, scanned, gaveUp>>

CollectionDone ==
  /\ gc \in {"sweep", "finish"}
  /\ critSect' = Nobody
  /\ gc' = "idle"
  /\ idx' = 1
  /\ scanned' = {}
  /\ UNCHANGED <<listVars, suspended, threadCrit, monitor, pc,
                 mUsingThreadUnlocked, mCollectFailed, gaveUp>>

Collection ==
  \/ SuspendSkip \/ SuspendLock \/ SuspendThread
  \/ DoCallRootCallbacks
  \/ ScanEnded \/ ScanThread \/ ScanGivesUp \/ ScanDone
  \/ ResumeThread \/ ResumeDone
  \/ ReportUnlock \/ ReportLock \/ CollectionDone

Next ==
  \/ PerformCollection
  \/ Collection
  \/ \E t \in Threads :
       \/ \E child \in Threads : AddPendingThread(t, child)
       \/ ThreadStopped(t) \/ StackMarkableLock(t) \/ RootCallbackEnter(t)
       \/ Continues(t)

Spec == Init /\ [][Next]_vars

(* The collector goes on with a collection, and a thread that runs leaves   *)
(* the locks it holds.                                                      *)
FairSpec == /\ Spec
            /\ WF_vars(Collection)
            /\ SF_vars(SuspendLock)
            /\ SF_vars(DoCallRootCallbacks)
            /\ SF_vars(ReportLock)
            /\ \A t \in Threads : WF_vars(Continues(t))

-----------------------------------------------------------------------------
TypeOK ==
  /\ mThreadList \in Seq(Threads)
  /\ mPending \in SUBSET Threads
  /\ mRunning \in [Threads -> BOOLEAN]
  /\ suspended \in SUBSET Threads
  /\ critSect \in {Nobody, Collector}
  /\ threadCrit \in [Threads -> Threads \cup {Nobody, Collector}]
  /\ monitor \in Threads \cup {Nobody}
  /\ pc \in [Threads -> {"none", "created", "run", "markable", "rootCallback",
                         "ended"}]
  /\ gc \in {"idle", "suspend", "suspendOs", "scan", "resume", "sweep",
             "report", "finish"}
  /\ idx \in Nat \ {0}
  /\ mUsingThreadUnlocked \in BOOLEAN
  /\ mCollectFailed \in BOOLEAN
  /\ scanned \in SUBSET Threads
  /\ gaveUp \in BOOLEAN

(* ScanThreads leaves out no thread of the program, started or being        *)
(* started: what it does not mark the sweep takes for a leak or frees.  It  *)
(* is sure to only as long as it has never returned early: that leaves      *)
(* mUsingThreadUnlocked set, a thread that ends then stays in the list, and *)
(* the next ScanThreads, which removes it, skips the thread after it.       *)
EveryThreadIsScanned ==
  (gc = "sweep" /\ ~mCollectFailed /\ ~gaveUp) =>
     \A t \in Threads : pc[t] \notin {"none", "ended"} => t \in scanned

(* SuspendThreads: a thread is never stopped with the lock of its markable  *)
(* objects in its hands ("Otherwise we could deadlock").                    *)
StoppedHoldsNoLock == \A t \in suspended : threadCrit[t] # t

(* No thread is forgotten: when the sweep begins every thread runs again    *)
(* and has its lock back, also the ones that ScanThreads never reached.     *)
EveryThreadIsResumed ==
  gc \in {"idle", "sweep", "report", "finish"} =>
     suspended = {} /\ \A t \in Threads : threadCrit[t] # Collector

(* A collection ends, unless it has stopped a thread inside Add- or         *)
(* RemoveRootCallback, whose monitor it needs.                              *)
CollectionEnds ==
  (gc # "idle") ~> (gc = "idle" \/ monitor \in suspended)
==============================================================================
