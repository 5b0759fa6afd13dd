------------------------- MODULE GCThreadListProofs --------------------------
(* Theorems about GCThreadList, for any set of threads.                     *)
EXTENDS GCThreadList, SequenceTheorems, TLAPS

(* A thread's own lock, while it is held: by the thread inside              *)
(* Add/RemoveStackMarkableObject, by the collector exactly while it has     *)
(* stopped the thread or is about to.                                       *)
LockInv ==
  /\ gc \notin {"idle", "report"} => critSect = Collector
  /\ \A t \in Threads : pc[t] = "markable" => threadCrit[t] = t
  /\ \A t \in Threads : t \in suspended => threadCrit[t] = Collector /\ mRunning[t]
  /\ \A t \in Threads : threadCrit[t] = Collector =>
       t \in suspended \/ (gc = "suspendOs" /\ t = Cur)
  /\ gc = "suspendOs" => ~AtEnd /\ mRunning[Cur] /\ threadCrit[Cur] = Collector

(* Every stopped thread is in the list, whatever ScanThreads takes out of   *)
(* it; while they are resumed, not before the collector's position.         *)
PlaceInv ==
  /\ gc \in {"suspend", "suspendOs", "scan"} =>
       \A t \in suspended : \E i \in 1..Len(mThreadList) : mThreadList[i] = t
  /\ gc = "resume" =>
       \A t \in suspended :
         \E i \in 1..Len(mThreadList) : i >= idx /\ mThreadList[i] = t
  /\ gc \in {"idle", "sweep", "report", "finish"} => suspended = {}

ListInv == TypeOK /\ LockInv /\ PlaceInv

(* RemoveAt takes one entry out and keeps the others in their order.        *)
LEMMA RemoveAtKeeps ==
  ASSUME NEW S, NEW s \in Seq(S), NEW i \in 1..Len(s)
  PROVE  /\ RemoveAt(s, i) \in Seq(S)
         /\ Len(RemoveAt(s, i)) = Len(s) - 1
         /\ \A k \in 1..Len(s) - 1 :
              RemoveAt(s, i)[k] = IF k < i THEN s[k] ELSE s[k + 1]
<1> DEFINE a == SubSeq(s, 1, i - 1)
           b == SubSeq(s, i + 1, Len(s))
<1>1. /\ a \in Seq(S) /\ Len(a) = i - 1
      /\ \A k \in 1..i - 1 : a[k] = s[k]
  OBVIOUS
<1>2. /\ b \in Seq(S) /\ Len(b) = Len(s) - i
      /\ \A k \in 1..Len(s) - i : b[k] = s[i + k]
  OBVIOUS
<1>3. RemoveAt(s, i) = a \o b
  BY DEF RemoveAt
<1> HIDE DEF a, b
<1>4. /\ a \o b \in Seq(S) /\ Len(a \o b) = Len(s) - 1
      /\ \A k \in 1..Len(s) - 1 :
           (a \o b)[k] = IF k <= i - 1 THEN a[k] ELSE b[k - (i - 1)]
  <2>1. Len(a) + Len(b) = Len(s) - 1
    BY <1>1, <1>2
  <2>2. /\ a \o b \in Seq(S) /\ Len(a \o b) = Len(a) + Len(b)
        /\ \A k \in 1..Len(a) + Len(b) :
             (a \o b)[k] = IF k <= Len(a) THEN a[k] ELSE b[k - Len(a)]
    BY <1>1, <1>2, ConcatProperties, Zenon
  <2> QED
    BY <1>1, <2>1, <2>2, Zenon
<1>5. ASSUME NEW k \in 1..Len(s) - 1
      PROVE  RemoveAt(s, i)[k] = IF k < i THEN s[k] ELSE s[k + 1]
  <2>1. CASE k < i
    BY <1>1, <1>3, <1>4, <2>1
  <2>2. CASE k >= i
    <3>1. k - (i - 1) \in 1..Len(s) - i /\ i + (k - (i - 1)) = k + 1
      BY <2>2
    <3>2. b[k - (i - 1)] = s[k + 1]
      BY <1>2, <3>1
    <3> QED
      BY <1>3, <1>4, <2>2, <3>2
  <2> QED
    BY <2>1, <2>2
<1> QED
  BY <1>3, <1>4, <1>5

(* The entry at the collector's position is a thread.                       *)
LEMMA CurIsThread == TypeOK /\ ~AtEnd => Cur \in Threads /\ idx \in 1..Len(mThreadList)
BY DEF TypeOK, AtEnd, Cur

LEMMA ListInit == Init => ListInv
<1> SUFFICES ASSUME Init PROVE ListInv
  OBVIOUS
<1>1. TypeOK
  <2>1. <<MainThread>> \in Seq(Threads)
    BY ThreadAssumption
  <2>2. mRunning \in [Threads -> BOOLEAN]
    BY Zenon DEF Init
  <2>3. pc \in [Threads -> {"none", "created", "run", "markable",
                            "rootCallback", "ended"}]
    BY DEF Init
  <2>4. threadCrit \in [Threads -> Threads \cup {Nobody, Collector}]
    BY DEF Init
  <2>5. /\ mUsingThreadUnlocked \in BOOLEAN
        /\ mCollectFailed \in BOOLEAN
        /\ gaveUp \in BOOLEAN
    BY Zenon DEF Init
  <2> QED
    BY <2>1, <2>2, <2>3, <2>4, <2>5 DEF Init, TypeOK
<1>2. LockInv
  BY ThreadAssumption DEF Init, LockInv
<1>3. PlaceInv
  BY DEF Init, PlaceInv
<1> QED
  BY <1>1, <1>2, <1>3 DEF ListInv

(* A step of a thread of the program: it is not stopped, and it changes the *)
(* list only while no collection holds mCritSect.                           *)
LEMMA ThreadStep ==
  ASSUME ListInv, NEW t \in Threads,
         \/ \E child \in Threads : AddPendingThread(t, child)
         \/ ThreadStopped(t) \/ StackMarkableLock(t) \/ RootCallbackEnter(t)
         \/ Continues(t)
  PROVE  ListInv'
<1> USE ThreadAssumption DEF ListInv
<1>1. ASSUME NEW child \in Threads, AddPendingThread(t, child) PROVE ListInv'
  <2>1. TypeOK'
    BY <1>1 DEF AddPendingThread, TypeOK, gcVars, lockVars
  <2>2. LockInv' /\ PlaceInv'
    BY <1>1 DEF AddPendingThread, TypeOK, LockInv, PlaceInv, gcVars, lockVars,
                AtEnd, Cur
  <2> QED
    BY <2>1, <2>2
<1>2. CASE ThreadStopped(t)
  <2>1. gc \in {"idle", "report"} /\ suspended = {}
    BY <1>2 DEF ThreadStopped, TypeOK, LockInv, PlaceInv
  <2>2. mThreadList' \in Seq(Threads)
    BY <1>2, RemoveAtKeeps DEF ThreadStopped, TypeOK
  <2>3. TypeOK'
    BY <1>2, <2>2 DEF ThreadStopped, At, TypeOK, gcVars, lockVars
  <2>4. LockInv' /\ PlaceInv'
    BY <1>2, <2>1
       DEF ThreadStopped, At, TypeOK, LockInv, PlaceInv, gcVars, lockVars
  <2> QED
    BY <2>3, <2>4
<1>3. CASE StackMarkableLock(t)
  <2>1. TypeOK'
    BY <1>3 DEF StackMarkableLock, At, TypeOK, gcVars, listVars
  <2>2. LockInv'
    BY <1>3 DEF StackMarkableLock, At, TypeOK, LockInv, gcVars, listVars,
                AtEnd, Cur
  <2>3. PlaceInv'
    BY <1>3 DEF StackMarkableLock, PlaceInv, gcVars, listVars
  <2> QED
    BY <2>1, <2>2, <2>3
<1>4. CASE RootCallbackEnter(t)
  BY <1>4 DEF RootCallbackEnter, At, TypeOK, LockInv, PlaceInv, gcVars,
              listVars, AtEnd, Cur
<1>5. CASE ThreadStarted(t)
  <2>1. gc \in {"idle", "report"} /\ suspended = {}
    BY <1>5 DEF ThreadStarted, TypeOK, LockInv, PlaceInv
  <2>2. TypeOK'
    BY <1>5 DEF ThreadStarted, At, TypeOK, gcVars, lockVars
  <2>3. LockInv' /\ PlaceInv'
    BY <1>5, <2>1
       DEF ThreadStarted, At, TypeOK, LockInv, PlaceInv, gcVars, lockVars
  <2> QED
    BY <2>2, <2>3
<1>6. CASE StackMarkableUnlock(t)
  <2>1. TypeOK'
    BY <1>6 DEF StackMarkableUnlock, At, TypeOK, gcVars, listVars
  <2>2. LockInv'
    BY <1>6 DEF StackMarkableUnlock, At, TypeOK, LockInv, gcVars, listVars,
                AtEnd, Cur
  <2>3. PlaceInv'
    BY <1>6 DEF StackMarkableUnlock, PlaceInv, gcVars, listVars
  <2> QED
    BY <2>1, <2>2, <2>3
<1>7. CASE RootCallbackExit(t)
  BY <1>7 DEF RootCallbackExit, At, TypeOK, LockInv, PlaceInv, gcVars,
              listVars, AtEnd, Cur
<1> QED
  BY <1>1, <1>2, <1>3, <1>4, <1>5, <1>6, <1>7 DEF Continues

(* A step of the collector.                                                 *)
LEMMA SuspendStep ==
  ASSUME ListInv, PerformCollection \/ SuspendSkip \/ SuspendLock \/ SuspendThread
  PROVE  ListInv'
<1> USE ThreadAssumption DEF ListInv
<1>1. CASE PerformCollection
  <2>0. mCollectFailed' \in BOOLEAN
    BY <1>1, Zenon DEF PerformCollection
  <2>1. TypeOK'
    BY <1>1, <2>0 DEF PerformCollection, TypeOK, listVars
  <2>2. LockInv' /\ PlaceInv'
    BY <1>1 DEF PerformCollection, TypeOK, LockInv, PlaceInv, listVars
  <2> QED
    BY <2>1, <2>2
<1>2. CASE SuspendSkip
  BY <1>2 DEF SuspendSkip, TypeOK, LockInv, PlaceInv, listVars, lockVars
<1>3. CASE SuspendLock
  <2>1. Cur \in Threads /\ Cur' = Cur /\ AtEnd' = AtEnd
    BY <1>3, CurIsThread DEF SuspendLock, listVars, Cur, AtEnd
  <2>2. TypeOK'
    BY <1>3, <2>1 DEF SuspendLock, TypeOK, listVars
  <2>3. LockInv'
    BY <1>3, <2>1 DEF SuspendLock, TypeOK, LockInv, listVars
  <2>4. PlaceInv'
    BY <1>3 DEF SuspendLock, PlaceInv, listVars
  <2> QED
    BY <2>2, <2>3, <2>4
<1>4. CASE SuspendThread
  <2>1. Cur \in Threads /\ idx \in 1..Len(mThreadList)
    BY <1>4, CurIsThread DEF SuspendThread, LockInv
  <2>2. TypeOK'
    BY <1>4, <2>1 DEF SuspendThread, TypeOK, listVars, lockVars
  <2>3. LockInv'
    BY <1>4, <2>1 DEF SuspendThread, TypeOK, LockInv, listVars, lockVars
  <2>4. PlaceInv'
    BY <1>4, <2>1 DEF SuspendThread, PlaceInv, listVars, Cur
  <2> QED
    BY <2>2, <2>3, <2>4
<1> QED
  BY <1>1, <1>2, <1>3, <1>4

LEMMA ScanStep ==
  ASSUME ListInv,
         \/ DoCallRootCallbacks
         \/ ScanEnded \/ ScanThread \/ ScanGivesUp \/ ScanDone
  PROVE  ListInv'
<1> USE ThreadAssumption DEF ListInv
<1>1. CASE DoCallRootCallbacks
  BY <1>1 DEF DoCallRootCallbacks, TypeOK, LockInv, PlaceInv, listVars, lockVars
<1>2. CASE ScanEnded
  <2>1. Cur \in Threads /\ idx \in 1..Len(mThreadList)
    BY <1>2, CurIsThread DEF ScanEnded
  <2>2. /\ mThreadList' \in Seq(Threads)
        /\ Len(mThreadList') = Len(mThreadList) - 1
        /\ \A k \in 1..Len(mThreadList) - 1 :
             mThreadList'[k] = IF k < idx THEN mThreadList[k]
                               ELSE mThreadList[k + 1]
    BY <1>2, <2>1, RemoveAtKeeps DEF ScanEnded, TypeOK
  <2>3. TypeOK'
    BY <1>2, <2>2 DEF ScanEnded, TypeOK, lockVars
  <2>4. LockInv'
    BY <1>2 DEF ScanEnded, TypeOK, LockInv, lockVars
  <2>5. ASSUME NEW t \in suspended
        PROVE  \E i \in 1..Len(mThreadList') : mThreadList'[i] = t
    <3>1. PICK i \in 1..Len(mThreadList) : mThreadList[i] = t
      BY <1>2 DEF ScanEnded, PlaceInv
    <3>2. i # idx
      BY <1>2, <3>1 DEF ScanEnded, LockInv, TypeOK, Cur
    <3>3. CASE i < idx
      <4>1. i \in 1..Len(mThreadList) - 1 /\ mThreadList'[i] = t
        BY <2>1, <2>2, <3>1, <3>3
      <4> QED
        BY <2>2, <4>1
    <3>4. CASE i > idx
      <4>1. /\ i - 1 \in 1..Len(mThreadList) - 1
            /\ ~(i - 1 < idx) /\ (i - 1) + 1 = i
        BY <2>1, <3>4
      <4>2. mThreadList'[i - 1] = t
        BY <2>2, <3>1, <4>1
      <4> QED
        BY <2>2, <4>1, <4>2
    <3> QED
      BY <2>1, <3>2, <3>3, <3>4
  <2>6. PlaceInv'
    BY <1>2, <2>5 DEF ScanEnded, PlaceInv
  <2> QED
    BY <2>3, <2>4, <2>6
<1>3. CASE ScanThread
  <2>1. Cur \in Threads
    BY <1>3, CurIsThread DEF ScanThread
  <2> QED
    BY <1>3, <2>1
       DEF ScanThread, TypeOK, LockInv, PlaceInv, listVars, lockVars
<1>4. CASE ScanGivesUp
  BY <1>4 DEF ScanGivesUp, TypeOK, LockInv, PlaceInv, listVars, lockVars
<1>5. CASE ScanDone
  <2>0. mUsingThreadUnlocked' \in BOOLEAN
    BY <1>5, Zenon DEF ScanDone
  <2>1. TypeOK' /\ LockInv'
    BY <1>5, <2>0 DEF ScanDone, TypeOK, LockInv, listVars, lockVars
  <2>2. PlaceInv'
    BY <1>5 DEF ScanDone, PlaceInv, listVars
  <2> QED
    BY <2>1, <2>2
<1> QED
  BY <1>1, <1>2, <1>3, <1>4, <1>5

LEMMA ResumeStep ==
  ASSUME ListInv,
         ResumeThread \/ ResumeDone \/ ReportUnlock \/ ReportLock \/ CollectionDone
  PROVE  ListInv'
<1> USE ThreadAssumption DEF ListInv
<1>1. CASE ResumeThread
  <2>1. Cur \in Threads /\ idx \in 1..Len(mThreadList)
    BY <1>1, CurIsThread DEF ResumeThread
  <2>2. TypeOK'
    BY <1>1, <2>1 DEF ResumeThread, TypeOK, listVars
  <2>3. LockInv'
    BY <1>1, <2>1 DEF ResumeThread, TypeOK, LockInv, listVars
  <2>4. Cur \notin suspended' /\ suspended' \subseteq suspended
    BY <1>1, <2>1 DEF ResumeThread, LockInv
  <2>5. PlaceInv'
    BY <1>1, <2>1, <2>4 DEF ResumeThread, TypeOK, PlaceInv, listVars, Cur
  <2> QED
    BY <2>2, <2>3, <2>5
<1>2. CASE ResumeDone
  <2>1. suspended = {}
    BY <1>2 DEF ResumeDone, PlaceInv, TypeOK, AtEnd
  <2> QED
    BY <1>2, <2>1 DEF ResumeDone, TypeOK, LockInv, PlaceInv, listVars, lockVars
<1>3. CASE ReportUnlock
  BY <1>3 DEF ReportUnlock, TypeOK, LockInv, PlaceInv, listVars
<1>4. CASE ReportLock
  BY <1>4 DEF ReportLock, TypeOK, LockInv, PlaceInv, listVars
<1>5. CASE CollectionDone
  BY <1>5 DEF CollectionDone, TypeOK, LockInv, PlaceInv, listVars
<1> QED
  BY <1>1, <1>2, <1>3, <1>4, <1>5

LEMMA ListStep == ListInv /\ [Next]_vars => ListInv'
<1> SUFFICES ASSUME ListInv, [Next]_vars PROVE ListInv'
  OBVIOUS
<1>1. CASE PerformCollection
  BY <1>1, SuspendStep
<1>2. CASE Collection
  BY <1>2, SuspendStep, ScanStep, ResumeStep DEF Collection
<1>3. ASSUME NEW t \in Threads,
             \/ \E child \in Threads : AddPendingThread(t, child)
             \/ ThreadStopped(t) \/ StackMarkableLock(t) \/ RootCallbackEnter(t)
             \/ Continues(t)
      PROVE  ListInv'
  BY <1>3, ThreadStep
<1>4. CASE UNCHANGED vars
  BY <1>4 DEF vars, listVars, lockVars, gcVars, ListInv, TypeOK, LockInv,
              PlaceInv, AtEnd, Cur
<1> QED
  BY <1>1, <1>2, <1>3, <1>4 DEF Next

LEMMA ListInvariant == Spec => []ListInv
BY ListInit, ListStep, PTL DEF Spec

(* The list, the locks and everybody's place in the code stay within their  *)
(* types, whatever threads come and go during collections.                  *)
THEOREM ListTypeCorrect == Spec => []TypeOK
<1>1. ListInv => TypeOK
  BY DEF ListInv
<1> QED
  BY <1>1, ListInvariant, PTL

(* SuspendThreads never stops a thread that holds the lock of its markable  *)
(* objects, for any number of threads.                                      *)
THEOREM NoStoppedThreadHoldsItsLock == Spec => []StoppedHoldsNoLock
<1>1. ListInv => StoppedHoldsNoLock
  BY ThreadAssumption DEF ListInv, LockInv, TypeOK, StoppedHoldsNoLock
<1> QED
  BY <1>1, ListInvariant, PTL

(* ResumeThreads forgets no thread, also after a ScanThreads that returned  *)
(* early and although ScanThreads takes entries out of the list.            *)
THEOREM NoThreadStaysStopped == Spec => []EveryThreadIsResumed
<1>1. ListInv => EveryThreadIsResumed
  BY DEF ListInv, LockInv, PlaceInv, TypeOK, EveryThreadIsResumed
<1> QED
  BY <1>1, ListInvariant, PTL

(***************************************************************************)
(* Which threads ScanThreads reaches.                                      *)
(***************************************************************************)

InProgram(t) == pc[t] \in {"run", "markable", "rootCallback"}
Once(s) == \A j, k \in 1..Len(s) : s[j] = s[k] => j = k

(* The list has every thread that runs, once, and the pending threads are   *)
(* the ones that are being started.                                         *)
EntryInv ==
  /\ \A t \in Threads : mRunning[t] <=> InProgram(t)
  /\ \A t \in Threads : pc[t] = "created" => t \in mPending
  /\ \A t \in Threads : InProgram(t) => t \in ToSet(mThreadList)
  /\ \A t \in ToSet(mThreadList) : pc[t] \notin {"none", "created"}
  /\ Once(mThreadList)

(* As long as no ScanThreads has returned early, the list has no other      *)
(* threads, and mUsingThreadUnlocked tells whether a scan is under way; what *)
(* is before the collector's position in the list has been scanned then,    *)
(* and after the scan everything has.                                       *)
ScanInv ==
  ~gaveUp =>
    /\ \A t \in ToSet(mThreadList) : mRunning[t]
    /\ mUsingThreadUnlocked <=> gc = "scan"
    /\ gc = "scan" => \A i \in 1..Len(mThreadList) :
                        i < idx => mThreadList[i] \in scanned
    /\ gc \in {"resume", "sweep"} =>
         \A t \in Threads : pc[t] \notin {"none", "ended"} => t \in scanned

(* RemoveAt takes out what is in one place of the list, and nothing else.   *)
LEMMA RemoveAtEntries ==
  ASSUME NEW S, NEW s \in Seq(S), NEW i \in 1..Len(s), Once(s)
  PROVE  /\ RemoveAt(s, i) \in Seq(S) /\ Once(RemoveAt(s, i))
         /\ ToSet(RemoveAt(s, i)) = ToSet(s) \ {s[i]}
<1> DEFINE r == RemoveAt(s, i)
<1>1. /\ r \in Seq(S) /\ Len(r) = Len(s) - 1
      /\ \A k \in 1..Len(s) - 1 : r[k] = IF k < i THEN s[k] ELSE s[k + 1]
  BY RemoveAtKeeps
<1> HIDE DEF r
<1>2. /\ Len(s) \in Nat /\ DOMAIN s = 1..Len(s) /\ DOMAIN r = 1..Len(r)
  BY <1>1
<1>3. ASSUME NEW k \in 1..Len(r)
      PROVE  r[k] \in ToSet(s) \ {s[i]}
  <2>1. CASE k < i
    <3>1. k \in 1..Len(s) /\ k # i /\ r[k] = s[k]
      BY <1>1, <1>2, <2>1
    <3> QED BY <1>2, <3>1 DEF ToSet, Once
  <2>2. CASE k >= i
    <3>1. k + 1 \in 1..Len(s) /\ k + 1 # i /\ r[k] = s[k + 1]
      BY <1>1, <1>2, <2>2
    <3> QED BY <1>2, <3>1 DEF ToSet, Once
  <2> QED BY <1>2, <2>1, <2>2
<1>4. ASSUME NEW j \in 1..Len(s), s[j] # s[i]
      PROVE  s[j] \in ToSet(r)
  <2>1. CASE j < i
    BY <1>1, <1>2, <2>1 DEF ToSet
  <2>2. CASE j > i
    <3>1. j - 1 \in 1..Len(r) /\ r[j - 1] = s[j]
      BY <1>1, <1>2, <2>2
    <3> QED BY <1>2, <3>1 DEF ToSet
  <2> QED BY <1>2, <1>4, <2>1, <2>2
<1>5. Once(r)
  BY <1>1, <1>2 DEF Once
<1>6. ToSet(r) = ToSet(s) \ {s[i]}
  BY <1>2, <1>3, <1>4 DEF ToSet
<1> QED BY <1>1, <1>5, <1>6 DEF r

(* A step of a thread: threads come and go while nobody scans.              *)
LEMMA EntryThread ==
  ASSUME ListInv, EntryInv, ScanInv, NEW t \in Threads,
         \/ \E child \in Threads : AddPendingThread(t, child)
         \/ ThreadStopped(t) \/ StackMarkableLock(t) \/ RootCallbackEnter(t)
         \/ Continues(t)
  PROVE  EntryInv' /\ ScanInv'
<1> USE ThreadAssumption DEF ListInv
<1>0. mThreadList \in Seq(Threads) /\ ToSet(mThreadList) \subseteq Threads
  BY DEF TypeOK, ToSet
<1>1. ASSUME NEW child \in Threads, AddPendingThread(t, child)
      PROVE  EntryInv' /\ ScanInv'
  <2>1. gc \in {"idle", "report"} /\ pc[child] = "none"
    BY <1>1 DEF AddPendingThread, TypeOK, LockInv
  <2>2. EntryInv'
    BY <1>0, <1>1, <2>1 DEF AddPendingThread, TypeOK, EntryInv, InProgram
  <2>3. ScanInv'
    BY <1>1, <2>1 DEF AddPendingThread, ScanInv, gcVars
  <2> QED BY <2>2, <2>3
<1>2. CASE ThreadStopped(t)
  <2>1. gc \in {"idle", "report"}
    BY <1>2 DEF ThreadStopped, TypeOK, LockInv
  <2>2. /\ pc[t] = "run" /\ pc' = [pc EXCEPT ![t] = "ended"]
        /\ mRunning' = [mRunning EXCEPT ![t] = FALSE]
        /\ UNCHANGED <<mPending, gcVars>>
    BY <1>2 DEF ThreadStopped, At
  <2>3. PICK i \in 1..Len(mThreadList) :
          /\ mThreadList[i] = t
          /\ mThreadList' = IF mUsingThreadUnlocked THEN mThreadList
                            ELSE RemoveAt(mThreadList, i)
    BY <1>2, <1>0 DEF ThreadStopped
  <2>4. /\ \/ mUsingThreadUnlocked /\ ToSet(mThreadList') = ToSet(mThreadList)
           \/ ToSet(mThreadList') = ToSet(mThreadList) \ {t}
        /\ Once(mThreadList')
    BY <1>0, <2>3, RemoveAtEntries DEF EntryInv
  <2>5. EntryInv'
    BY <1>0, <2>2, <2>4 DEF EntryInv, InProgram, TypeOK
  <2>6. ScanInv'
    BY <1>0, <2>1, <2>2, <2>4 DEF ScanInv, TypeOK, gcVars
  <2> QED BY <2>5, <2>6
<1>3. CASE \/ StackMarkableLock(t) \/ RootCallbackEnter(t)
           \/ StackMarkableUnlock(t) \/ RootCallbackExit(t)
  <2>1. /\ InProgram(t) /\ pc'[t] \in {"run", "markable", "rootCallback"}
        /\ \A u \in Threads \ {t} : pc'[u] = pc[u]
        /\ UNCHANGED <<listVars, gcVars>>
    BY <1>3 DEF StackMarkableLock, RootCallbackEnter, StackMarkableUnlock,
       RootCallbackExit, At, InProgram, TypeOK
  <2>2. /\ \A u \in Threads : InProgram(u)' <=> InProgram(u)
        /\ \A u \in Threads : /\ pc'[u] = "created" <=> pc[u] = "created"
                              /\ pc'[u] = "none" <=> pc[u] = "none"
                              /\ pc'[u] = "ended" <=> pc[u] = "ended"
    BY <2>1 DEF InProgram
  <2>3. EntryInv'
    BY <1>0, <2>1, <2>2 DEF EntryInv, listVars
  <2>4. ScanInv'
    BY <2>1, <2>2 DEF ScanInv, listVars, gcVars
  <2> QED BY <2>3, <2>4
<1>4. CASE ThreadStarted(t)
  <2>1. gc \in {"idle", "report"}
    BY <1>4 DEF ThreadStarted, TypeOK, LockInv
  <2>2. /\ pc[t] = "created" /\ pc' = [pc EXCEPT ![t] = "run"]
        /\ mRunning' = [mRunning EXCEPT ![t] = TRUE]
        /\ mThreadList' = Append(mThreadList, t)
        /\ mPending' = mPending \ {t} /\ UNCHANGED gcVars
    BY <1>4 DEF ThreadStarted, At
  <2>3. t \notin ToSet(mThreadList)
    BY <2>2 DEF EntryInv
  <2>4. /\ Len(mThreadList') = Len(mThreadList) + 1 /\ Len(mThreadList) \in Nat
        /\ \A i \in 1..Len(mThreadList) : mThreadList'[i] = mThreadList[i]
        /\ mThreadList'[Len(mThreadList) + 1] = t
        /\ DOMAIN mThreadList' = 1..Len(mThreadList')
        /\ DOMAIN mThreadList = 1..Len(mThreadList)
    BY <1>0, <2>2, AppendProperties
  <2>5. ToSet(mThreadList') = ToSet(mThreadList) \cup {t}
    BY <2>4 DEF ToSet
  <2>6. Once(mThreadList')
    <3>1. \A i \in 1..Len(mThreadList) : mThreadList[i] # t
      BY <2>3, <2>4 DEF ToSet
    <3> QED BY <2>4, <3>1 DEF EntryInv, Once
  <2>7. EntryInv'
    BY <1>0, <2>2, <2>5, <2>6 DEF EntryInv, InProgram, TypeOK
  <2>8. ScanInv'
    BY <1>0, <2>1, <2>2, <2>5 DEF ScanInv, TypeOK, gcVars
  <2> QED BY <2>7, <2>8
<1> QED BY <1>1, <1>2, <1>3, <1>4 DEF Continues

(* A step of the collector, which goes through the list from the first      *)
(* entry to the last while nobody changes it.                               *)
LEMMA EntryCollector ==
  ASSUME ListInv, EntryInv, ScanInv, PerformCollection \/ Collection
  PROVE  EntryInv' /\ ScanInv'
<1> USE DEF ListInv
<1>1. CASE \/ PerformCollection \/ SuspendSkip \/ SuspendLock \/ SuspendThread
           \/ ResumeThread \/ ResumeDone
           \/ ReportUnlock \/ ReportLock \/ CollectionDone
  <2>1. /\ UNCHANGED <<listVars, pc, mUsingThreadUnlocked, gaveUp>>
        /\ gc # "scan" /\ gc' # "scan"
        /\ gc' \in {"resume", "sweep"} =>
             gc \in {"resume", "sweep"} /\ scanned' = scanned
    BY <1>1 DEF PerformCollection, SuspendSkip, SuspendLock, SuspendThread,
       ResumeThread, ResumeDone, ReportUnlock, ReportLock, CollectionDone
  <2>2. EntryInv'
    BY <2>1 DEF EntryInv, InProgram, listVars
  <2>3. ScanInv'
    BY <2>1 DEF ScanInv, listVars
  <2> QED BY <2>2, <2>3
<1>2. CASE DoCallRootCallbacks
  <2>1. EntryInv'
    BY <1>2 DEF DoCallRootCallbacks, EntryInv, InProgram, listVars
  <2>2. ScanInv'
    BY <1>2 DEF DoCallRootCallbacks, ScanInv, listVars
  <2> QED BY <2>1, <2>2
<1>3. CASE ScanEnded
  <2>1. /\ idx \in 1..Len(mThreadList) /\ ~mRunning[mThreadList[idx]]
        /\ mThreadList \in Seq(Threads)
        /\ mThreadList' = RemoveAt(mThreadList, idx)
        /\ UNCHANGED <<mPending, mRunning, pc, gaveUp>>
    BY <1>3, CurIsThread DEF ScanEnded, Cur, TypeOK
  <2>2. ToSet(mThreadList') = ToSet(mThreadList) \ {mThreadList[idx]}
        /\ Once(mThreadList')
    BY <2>1, RemoveAtEntries DEF EntryInv
  <2>3. EntryInv'
    BY <2>1, <2>2 DEF EntryInv, InProgram
  <2>4. mThreadList[idx] \in ToSet(mThreadList)
    BY <2>1 DEF ToSet
  <2>5. ScanInv'
    BY <2>1, <2>4 DEF ScanInv
  <2> QED BY <2>3, <2>5
<1>4. CASE ScanThread
  <2>1. EntryInv'
    BY <1>4 DEF ScanThread, EntryInv, InProgram, listVars
  <2>2. ScanInv'
    BY <1>4 DEF ScanThread, ScanInv, listVars, TypeOK, Cur
  <2> QED BY <2>1, <2>2
<1>5. CASE ScanGivesUp
  BY <1>5 DEF ScanGivesUp, EntryInv, InProgram, ScanInv, listVars
<1>6. CASE ScanDone
  <2>1. EntryInv'
    BY <1>6 DEF ScanDone, EntryInv, InProgram, listVars
  <2>2. ASSUME ~gaveUp, NEW t \in Threads, pc[t] \notin {"none", "ended"}
        PROVE  t \in scanned'
    <3>1. CASE pc[t] = "created"
      BY <1>6, <3>1 DEF ScanDone, EntryInv
    <3>2. CASE InProgram(t)
      <4>1. PICK i \in 1..Len(mThreadList) : mThreadList[i] = t
        BY <3>2 DEF EntryInv, ToSet, TypeOK
      <4>2. i < idx
        BY <1>6 DEF ScanDone, AtEnd, TypeOK
      <4>3. t \in scanned
        BY <1>6, <2>2, <4>1, <4>2 DEF ScanDone, ScanInv
      <4> QED BY <1>6, <4>3 DEF ScanDone
    <3> QED BY <2>2, <3>1, <3>2 DEF InProgram, TypeOK
  <2>3. ScanInv'
    BY <1>6, <2>2 DEF ScanDone, ScanInv, listVars
  <2> QED BY <2>1, <2>3
<1> QED BY <1>1, <1>2, <1>3, <1>4, <1>5, <1>6 DEF Collection

(* ScanThreads leaves out no thread, started or being started, whatever     *)
(* threads come and go, unless one has returned early before.               *)
THEOREM NoThreadIsLeftOut == Spec => []EveryThreadIsScanned
<1>1. Init => EntryInv /\ ScanInv
  <2> SUFFICES ASSUME Init
               PROVE  EntryInv /\ ScanInv
    OBVIOUS
  <2>1. /\ ToSet(mThreadList) = {MainThread} /\ Once(mThreadList)
        /\ MainThread \in Threads
    BY ThreadAssumption DEF Init, ToSet, Once
  <2>2. /\ \A t \in Threads : mRunning[t] <=> t = MainThread
        /\ \A t \in Threads : pc[t] = IF t = MainThread THEN "run" ELSE "none"
        /\ ~mUsingThreadUnlocked /\ gc = "idle"
    BY DEF Init
  <2> QED BY <2>1, <2>2 DEF EntryInv, InProgram, ScanInv
<1>2. ListInv /\ EntryInv /\ ScanInv /\ [Next]_vars => EntryInv' /\ ScanInv'
  <2> SUFFICES ASSUME ListInv, EntryInv, ScanInv, [Next]_vars
               PROVE  EntryInv' /\ ScanInv'
    OBVIOUS
  <2>1. CASE PerformCollection \/ Collection
    BY <2>1, EntryCollector
  <2>2. ASSUME NEW t \in Threads,
               \/ \E child \in Threads : AddPendingThread(t, child)
               \/ ThreadStopped(t) \/ StackMarkableLock(t)
               \/ RootCallbackEnter(t) \/ Continues(t)
        PROVE  EntryInv' /\ ScanInv'
    BY <2>2, EntryThread
  <2>3. CASE UNCHANGED vars
    BY <2>3 DEF vars, listVars, gcVars, EntryInv, InProgram, ScanInv
  <2> QED BY <2>1, <2>2, <2>3 DEF Next
<1>3. ScanInv => EveryThreadIsScanned
  BY DEF ScanInv, EveryThreadIsScanned
<1> QED BY <1>1, <1>2, <1>3, ListInvariant, PTL DEF Spec
==============================================================================
