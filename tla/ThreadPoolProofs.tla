--------------------------- MODULE ThreadPoolProofs ---------------------------
(* Theorems about ThreadPool, for any number of providers, jobs, threads.   *)
EXTENDS ThreadPool, FiniteSetTheorems, SequenceTheorems, TLAPS

(***************************************************************************)
(* The inductive invariant.                                                *)
(***************************************************************************)

Places == {"none", "take", "test", "testCancel", "wait", "perform", "delete",
           "ended", "crashed"}

(* No two entries of a list are the same.                                   *)
Distinct(s) == \A i, k \in DOMAIN s : s[i] = s[k] => i = k

TypeInv ==
  /\ mJobs \in Seq(Jobs) /\ mThreads \in Seq(Workers)
  /\ mFreeThreads \in Int /\ mRunningThreads \in Int
  /\ mShuttingDown \in BOOLEAN
  /\ pc \in [Workers -> Places]
  /\ job \in [Workers -> Jobs \cup {NoJob}]
  /\ isWorking \in [Workers -> BOOLEAN]
  /\ mFromThreadId \in [Jobs -> Providers \cup {NoJob}]
  /\ deletes \in [Jobs -> {0, 1}]
  /\ down \in {"run", "signal", "join", "end"}

(* The list of threads: each once, at most mMaxThreads; a thread that is    *)
(* not in it has not been created, or has ended and been waited for.        *)
ListInv ==
  /\ Distinct(mThreads) /\ Len(mThreads) <= mMaxThreads
  /\ mRunningThreads = Len(mThreads)
  /\ \A w \in Workers :
       IF w \in ToSet(mThreads) THEN pc[w] # "none"
                                ELSE pc[w] \in {"none", "ended"}
  /\ ~mShuttingDown <=> down = "run"
  /\ ~mShuttingDown => \A w \in Workers : pc[w] # "ended"
  /\ down = "end" => mThreads = <<>>

(* Who owns a job: the queue, the thread that has taken it, or nobody once  *)
(* it has been deleted.                                                     *)
InQueue(j) == j \in ToSet(mJobs)

OwnerInv ==
  /\ mActiveJob = job
  /\ \A w \in Workers :
       /\ job[w] # NoJob =>
            pc[w] \in {"test", "testCancel", "perform", "delete"}
       /\ pc[w] \in {"perform", "delete"} => job[w] # NoJob
       /\ job[w] # NoJob =>
            job[w] \in Added /\ ~InQueue(job[w]) /\ deletes[job[w]] = 0
  /\ \A v, w \in Workers : job[v] = job[w] /\ job[v] # NoJob => v = w
  /\ Distinct(mJobs)
  /\ \A j \in Jobs :
       /\ InQueue(j) => j \in Added /\ deletes[j] = 0
       /\ j \notin Added => deletes[j] = 0
       /\ deletes[j] = 0 /\ j \in Added =>
            InQueue(j) \/ \E w \in Workers : job[w] = j
  /\ down = "end" => mJobs = <<>>

(* A thread that has not been created, takes itself for working.            *)
FreeInv ==
  /\ FreeThreadsIsExact
  /\ \A w \in Workers : pc[w] = "none" => isWorking[w]

PoolInv == TypeInv /\ ListInv /\ OwnerInv /\ FreeInv

(***************************************************************************)
(* Lists without duplicates.                                               *)
(***************************************************************************)

(* A list that a new element is appended to.                                *)
LEMMA AppendList ==
  ASSUME NEW S, NEW s \in Seq(S), NEW e \in S
  PROVE  /\ Append(s, e) \in Seq(S) /\ Len(Append(s, e)) = Len(s) + 1
         /\ ToSet(Append(s, e)) = ToSet(s) \cup {e}
         /\ Distinct(s) /\ e \notin ToSet(s) => Distinct(Append(s, e))
<1>1. /\ Append(s, e) \in Seq(S) /\ Len(Append(s, e)) = Len(s) + 1
      /\ DOMAIN Append(s, e) = 1..Len(s) + 1 /\ DOMAIN s = 1..Len(s)
      /\ Len(s) \in Nat
      /\ \A i \in 1..Len(s) : Append(s, e)[i] = s[i]
      /\ Append(s, e)[Len(s) + 1] = e
  BY AppendProperties
<1>2. ToSet(Append(s, e)) = ToSet(s) \cup {e}
  BY <1>1 DEF ToSet
<1>3. ASSUME Distinct(s), e \notin ToSet(s)
      PROVE  Distinct(Append(s, e))
  <2>1. \A i \in 1..Len(s) : s[i] # e
    BY <1>1, <1>3 DEF ToSet
  <2> QED BY <1>1, <1>3, <2>1 DEF Distinct
<1> QED BY <1>1, <1>2, <1>3

(* A list that its first element is taken out of.                           *)
LEMMA TailList ==
  ASSUME NEW S, NEW s \in Seq(S), s # <<>>, Distinct(s)
  PROVE  /\ Tail(s) \in Seq(S) /\ Head(s) \in S /\ Head(s) \in ToSet(s)
         /\ ToSet(Tail(s)) = ToSet(s) \ {Head(s)}
         /\ Distinct(Tail(s))
<1>1. /\ Tail(s) \in Seq(S) /\ Len(Tail(s)) = Len(s) - 1 /\ Head(s) = s[1]
      /\ DOMAIN Tail(s) = 1..Len(s) - 1 /\ DOMAIN s = 1..Len(s)
      /\ Len(s) \in Nat \ {0} /\ s[1] \in S
      /\ \A i \in 1..Len(s) - 1 : Tail(s)[i] = s[i + 1]
  BY HeadTailProperties
<1>2. ToSet(Tail(s)) = ToSet(s) \ {s[1]}
  <2>1. \A i \in 2..Len(s) : s[i] # s[1]
    BY <1>1 DEF Distinct
  <2>2. \A x : x \in ToSet(Tail(s)) => x \in ToSet(s) \ {s[1]}
    BY <1>1, <2>1 DEF ToSet
  <2>3. ASSUME NEW i \in 1..Len(s), s[i] # s[1]
        PROVE  s[i] \in ToSet(Tail(s))
    <3>1. i - 1 \in 1..Len(s) - 1 /\ s[i] = Tail(s)[i - 1]
      BY <1>1, <2>3
    <3> QED BY <1>1, <3>1 DEF ToSet
  <2>4. \A x : x \in ToSet(s) \ {s[1]} => x \in ToSet(Tail(s))
    BY <1>1, <2>3 DEF ToSet
  <2> QED BY <2>2, <2>4
<1>3. Distinct(Tail(s))
  BY <1>1 DEF Distinct
<1> QED BY <1>1, <1>2, <1>3 DEF ToSet

(* A list that its last element is taken out of.                            *)
LEMMA FrontList ==
  ASSUME NEW S, NEW s \in Seq(S), s # <<>>, Distinct(s)
  PROVE  /\ Front(s) \in Seq(S) /\ Last(s) \in S /\ Last(s) \in ToSet(s)
         /\ Len(Front(s)) = Len(s) - 1
         /\ ToSet(Front(s)) = ToSet(s) \ {Last(s)}
         /\ Distinct(Front(s))
<1>1. /\ Len(s) \in Nat \ {0} /\ DOMAIN s = 1..Len(s)
      /\ \A i \in 1..Len(s) : s[i] \in S
  OBVIOUS
<1>2. /\ Front(s) \in Seq(S) /\ Len(Front(s)) = Len(s) - 1
      /\ \A i \in 1..Len(s) - 1 : Front(s)[i] = s[i]
  <2>1. /\ SubSeq(s, 1, Len(s) - 1) \in Seq(S)
        /\ Len(SubSeq(s, 1, Len(s) - 1)) =
             IF 1 <= Len(s) - 1 THEN Len(s) - 1 - 1 + 1 ELSE 0
        /\ \A i \in 1..Len(s) - 1 - 1 + 1 :
             SubSeq(s, 1, Len(s) - 1)[i] = s[1 + i - 1]
    BY <1>1, SubSeqProperties
  <2> QED BY <1>1, <2>1 DEF Front
<1>3. DOMAIN Front(s) = 1..Len(s) - 1
  BY <1>1, <1>2
<1>4. ToSet(Front(s)) = ToSet(s) \ {s[Len(s)]}
  <2>1. \A i \in 1..Len(s) - 1 : s[i] # s[Len(s)]
    BY <1>1 DEF Distinct
  <2>2. \A x : x \in ToSet(Front(s)) => x \in ToSet(s) \ {s[Len(s)]}
    BY <1>1, <1>2, <1>3, <2>1 DEF ToSet
  <2>3. \A x : x \in ToSet(s) \ {s[Len(s)]} => x \in ToSet(Front(s))
    BY <1>1, <1>2, <1>3 DEF ToSet
  <2> QED BY <2>2, <2>3
<1>5. Distinct(Front(s))
  BY <1>1, <1>2, <1>3 DEF Distinct
<1>6. Last(s) = s[Len(s)] /\ s[Len(s)] \in S /\ s[Len(s)] \in ToSet(s)
  BY <1>1 DEF Last, ToSet
<1> QED BY <1>2, <1>4, <1>5, <1>6

(* A list that holds every element of a set is no shorter than it.          *)
LEMMA ListIsNoShorter ==
  ASSUME NEW S, NEW s \in Seq(S), S \subseteq ToSet(s)
  PROVE  Cardinality(S) <= Len(s)
<1>1. Len(s) \in Nat /\ s \in Surjection(1..Len(s), S)
  BY DEF Surjection, ToSet
<1> QED BY <1>1, FS_SurjCardinalityBound DEF ExistsSurjection

(***************************************************************************)
(* Every step keeps it.                                                    *)
(***************************************************************************)

(* AddJob's "new thread" exists: while the list of threads is shorter than  *)
(* mMaxThreads, one of them has not been created.                           *)
LEMMA ThreadIsLeft ==
  ASSUME TypeInv, ListInv, Len(mThreads) < mMaxThreads, down = "run"
  PROVE  \E w \in Workers : pc[w] = "none"
<1> SUFFICES ASSUME \A w \in Workers : pc[w] # "none"
             PROVE  FALSE
  OBVIOUS
<1>1. Workers \subseteq ToSet(mThreads)
  BY DEF ListInv
<1>2. Cardinality(Workers) <= Len(mThreads) /\ Cardinality(Workers) \in Nat
  BY <1>1, ListIsNoShorter, FS_CardinalityType, PoolAssumption DEF TypeInv
<1> QED BY <1>2, PoolAssumption DEF TypeInv

(* The threads that mFreeThreads counts.                                    *)
Free == {w \in Workers : pc[w] # "none" /\ ~isWorking[w]}

(* Every step keeps the invariant: providers' jobs, the threads' loops, and *)
(* the shutting down that races with both.                                  *)
LEMMA PoolStep ==
  ASSUME PoolInv, Next
  PROVE  PoolInv'
<1> USE PoolAssumption DEF PoolInv
<1>0. /\ IsFiniteSet(Free) /\ Cardinality(Free) \in Nat
      /\ mFreeThreads = Cardinality(Free)
  BY FS_Subset, FS_CardinalityType DEF Free, FreeInv, FreeThreadsIsExact
<1>1. ASSUME NEW p \in Providers, NEW j \in Jobs, AddJob(p, j)
      PROVE  PoolInv'
  <2> DEFINE new == CHOOSE w \in Workers : pc[w] = "none"
  <2>1. ~InQueue(j) /\ j \notin Added /\ \A w \in Workers : job[w] # j
    BY <1>1 DEF AddJob, OwnerInv, TypeInv, Added
  <2>2. /\ mJobs' = Append(mJobs, j) /\ mJobs' \in Seq(Jobs)
        /\ ToSet(mJobs') = ToSet(mJobs) \cup {j} /\ Distinct(mJobs')
    BY <1>1, <2>1, AppendList DEF AddJob, TypeInv, OwnerInv, InQueue
  <2>3. /\ Added' = Added \cup {j}
        /\ mFromThreadId' \in [Jobs -> Providers \cup {NoJob}]
    BY <1>1 DEF AddJob, Added, TypeInv
  <2>4. CASE WantsThread(p)
    <3>1. new \in Workers /\ pc[new] = "none"
      BY <1>1, <2>4, ThreadIsLeft DEF AddJob, WantsThread
    <3>2. /\ mThreads' = Append(mThreads, new)
          /\ pc' = [pc EXCEPT ![new] = "take"]
          /\ mRunningThreads' = mRunningThreads + 1
      BY <1>1, <2>4 DEF AddJob
    <3> HIDE DEF new
    <3>3. new \notin ToSet(mThreads)
      BY <3>1 DEF ListInv
    <3>4. /\ mThreads' \in Seq(Workers) /\ Len(mThreads') = Len(mThreads) + 1
          /\ ToSet(mThreads') = ToSet(mThreads) \cup {new}
          /\ Distinct(mThreads')
      <4>1. mThreads \in Seq(Workers) /\ Distinct(mThreads)
        BY DEF TypeInv, ListInv
      <4> QED BY <3>1, <3>2, <3>3, <4>1, AppendList
    <3>5. TypeInv'
      BY <1>1, <2>2, <2>3, <3>2, <3>4 DEF AddJob, TypeInv, Places
    <3>6. ListInv'
      BY <1>1, <2>4, <3>1, <3>2, <3>4
      DEF AddJob, TypeInv, Places, ListInv, WantsThread
    <3>7. OwnerInv'
      <4>1. /\ UNCHANGED <<job, mActiveJob, deletes>> /\ down' # "end"
            /\ \A w \in Workers : job[w] # NoJob => pc'[w] = pc[w]
            /\ \A w \in Workers :
                 pc'[w] \in {"perform", "delete"} => pc'[w] = pc[w]
        BY <1>1, <3>1, <3>2 DEF AddJob, TypeInv, OwnerInv
      <4> QED BY <2>1, <2>2, <2>3, <4>1 DEF OwnerInv, InQueue
    <3>8. FreeInv'
      <4>1. Free' = Free
        BY <1>1, <3>1, <3>2 DEF AddJob, TypeInv, Free, FreeInv
      <4> QED BY <1>0, <1>1, <3>1, <3>2, <4>1
          DEF AddJob, TypeInv, Free, FreeInv, FreeThreadsIsExact
    <3> QED BY <3>5, <3>6, <3>7, <3>8
  <2>5. CASE ~WantsThread(p)
    <3>1. UNCHANGED <<pc, mThreads, mRunningThreads>>
      BY <1>1, <2>5 DEF AddJob
    <3>2. TypeInv' /\ ListInv' /\ FreeInv'
      BY <1>1, <2>2, <2>3, <3>1
      DEF AddJob, TypeInv, ListInv, FreeInv, FreeThreadsIsExact
    <3>3. OwnerInv'
      <4>1. UNCHANGED <<job, mActiveJob, deletes>> /\ down' # "end"
        BY <1>1 DEF AddJob
      <4> QED BY <2>1, <2>2, <2>3, <3>1, <4>1 DEF OwnerInv, InQueue
    <3> QED BY <3>2, <3>3
  <2> QED BY <2>4, <2>5
<1>2. CASE CancelAll
  BY <1>2 DEF CancelAll, poolVars, workerVars, TypeInv, ListInv, OwnerInv,
     InQueue, Added, FreeInv, FreeThreadsIsExact
<1>3. ASSUME NEW w \in Workers, Take(w)
      PROVE  PoolInv'
  <2>1. /\ pc[w] = "take" /\ job[w] = NoJob
        /\ pc' = [pc EXCEPT ![w] = "test"]
        /\ UNCHANGED <<mThreads, mRunningThreads, mShuttingDown, jobVars, down>>
    BY <1>3 DEF Take, Worker, OwnerInv, TypeInv
  <2>2. ListInv'
    BY <2>1 DEF ListInv, TypeInv
  <2>3. CASE mJobs = <<>>
    <3>1. /\ mJobs' = mJobs /\ job' = [job EXCEPT ![w] = NoJob]
          /\ mActiveJob' = [mActiveJob EXCEPT ![w] = NoJob]
          /\ isWorking' = [isWorking EXCEPT ![w] = FALSE]
          /\ mFreeThreads' = IF isWorking[w] THEN mFreeThreads + 1
                             ELSE mFreeThreads
      BY <1>3, <2>3 DEF Take, TypeInv
    <3>2. TypeInv' /\ OwnerInv'
      BY <2>1, <3>1 DEF TypeInv, Places, OwnerInv, InQueue, Added, jobVars
    <3>3. Free' = Free \cup {w} /\ (w \in Free <=> ~isWorking[w])
      BY <2>1, <3>1 DEF Free, TypeInv
    <3>4. mFreeThreads' = Cardinality(Free')
      BY <1>0, <3>1, <3>3, FS_AddElement DEF TypeInv
    <3>5. FreeInv'
      BY <2>1, <3>1, <3>4 DEF FreeInv, FreeThreadsIsExact, Free, TypeInv
    <3> QED BY <2>2, <3>2, <3>5
  <2>4. CASE mJobs # <<>>
    <3> DEFINE next == Head(mJobs)
    <3>1. /\ mJobs' = Tail(mJobs) /\ job' = [job EXCEPT ![w] = next]
          /\ mActiveJob' = [mActiveJob EXCEPT ![w] = next]
          /\ isWorking' = [isWorking EXCEPT ![w] = TRUE]
          /\ mFreeThreads' = IF isWorking[w] THEN mFreeThreads
                             ELSE mFreeThreads - 1
      <4>1. mFreeThreads' = IF isWorking[w] THEN mFreeThreads
                            ELSE mFreeThreads - 1
        BY <1>3, <2>4 DEF Take
      <4>2. /\ mJobs' = Tail(mJobs) /\ job' = [job EXCEPT ![w] = next]
            /\ mActiveJob' = [mActiveJob EXCEPT ![w] = next]
        BY <1>3, <2>4 DEF Take
      <4>3. isWorking' = [isWorking EXCEPT ![w] = TRUE]
        BY <1>3, <2>4 DEF Take
      <4> QED BY <4>1, <4>2, <4>3
    <3>2. /\ mJobs' \in Seq(Jobs) /\ next \in Jobs /\ InQueue(next)
          /\ ToSet(mJobs') = ToSet(mJobs) \ {next} /\ Distinct(mJobs')
      BY <2>4, <3>1, TailList DEF TypeInv, OwnerInv, InQueue
    <3>3. next # NoJob /\ next \in Added /\ deletes[next] = 0
          /\ \A v \in Workers : job[v] # next
      BY <3>2 DEF OwnerInv
    <3>4. TypeInv'
      BY <2>1, <3>1, <3>2 DEF TypeInv, Places, jobVars
    <3>5. OwnerInv'
      <4>1. Added' = Added /\ deletes' = deletes
        BY <2>1 DEF Added, jobVars
      <4>2. mActiveJob' = job' /\ down' # "end"
        BY <2>1, <2>4, <3>1 DEF OwnerInv
      <4>3. \A v \in Workers :
              /\ job'[v] # NoJob =>
                   pc'[v] \in {"test", "testCancel", "perform", "delete"}
              /\ pc'[v] \in {"perform", "delete"} => job'[v] # NoJob
              /\ job'[v] # NoJob =>
                   /\ job'[v] \in Added /\ job'[v] \notin ToSet(mJobs')
                   /\ deletes[job'[v]] = 0
        BY <2>1, <3>1, <3>2, <3>3, <4>1 DEF OwnerInv, TypeInv, InQueue
      <4>4. \A u, v \in Workers : job'[u] = job'[v] /\ job'[u] # NoJob => u = v
        BY <3>1, <3>3 DEF OwnerInv, TypeInv
      <4>5. \A j \in Jobs :
              /\ j \in ToSet(mJobs') => j \in Added /\ deletes[j] = 0
              /\ j \notin Added => deletes[j] = 0
              /\ deletes[j] = 0 /\ j \in Added =>
                   j \in ToSet(mJobs') \/ \E v \in Workers : job'[v] = j
        BY <2>1, <3>1, <3>2, <4>1 DEF OwnerInv, TypeInv, InQueue
      <4> QED BY <3>2, <4>1, <4>2, <4>3, <4>4, <4>5 DEF OwnerInv, InQueue
    <3>6. Free' = Free \ {w} /\ (w \in Free <=> ~isWorking[w])
      BY <2>1, <3>1 DEF Free, TypeInv
    <3>7. mFreeThreads' = Cardinality(Free')
      BY <1>0, <3>1, <3>6, FS_RemoveElement DEF TypeInv
    <3>8. FreeInv'
      BY <2>1, <3>1, <3>7 DEF FreeInv, FreeThreadsIsExact, Free, TypeInv
    <3> QED BY <2>2, <3>4, <3>5, <3>8
  <2> QED BY <2>3, <2>4
<1>4. ASSUME NEW w \in Workers, NEW place \in Places \ {"none"},
             pc[w] \in {"test", "testCancel", "wait", "perform"},
             pc' = [pc EXCEPT ![w] = place],
             place = "ended" => mShuttingDown /\ job[w] = NoJob,
             job[w] # NoJob =>
               place \in {"test", "testCancel", "perform", "delete"},
             place \in {"perform", "delete"} => job[w] # NoJob,
             UNCHANGED <<mJobs, mThreads, mFreeThreads, mRunningThreads,
                         mShuttingDown, job, mActiveJob, mCurJobThreadId,
                         isWorking, mFromThreadId, deletes, down>>
      PROVE  PoolInv'
  <2>1. TypeInv'
    BY <1>4 DEF TypeInv
  <2>2. ListInv'
    BY <1>4 DEF ListInv, TypeInv
  <2>3. OwnerInv'
    BY <1>4 DEF OwnerInv, TypeInv, InQueue, Added
  <2>4. FreeInv'
    <3>1. Free' = Free
      BY <1>4 DEF Free, TypeInv
    <3> QED BY <1>0, <1>4, <3>1 DEF Free, FreeInv, FreeThreadsIsExact, TypeInv
  <2> QED BY <2>1, <2>2, <2>3, <2>4
<1>5. ASSUME NEW w \in Workers, TestBreak(w)
      PROVE  PoolInv'
  <2> DEFINE place == IF job[w] = NoJob /\ mShuttingDown THEN "ended"
                      ELSE "testCancel"
  <2>1. /\ pc[w] = "test" /\ pc' = [pc EXCEPT ![w] = place]
        /\ UNCHANGED <<mJobs, mThreads, mFreeThreads, mRunningThreads,
                       mShuttingDown, job, mActiveJob, mCurJobThreadId,
                       isWorking, mFromThreadId, deletes, down>>
    BY <1>5 DEF TestBreak, Worker, poolVars, jobVars
  <2>2. place \in Places \ {"none"}
    BY DEF Places
  <2> QED BY <1>4, <2>1, <2>2
<1>6. ASSUME NEW w \in Workers, TestCancel(w)
      PROVE  PoolInv'
  <2> DEFINE place ==
        CASE mShuttingDown /\ job[w] = NoJob -> "crashed"
          [] mShuttingDown /\ job[w] \in Cancellable -> "delete"
          [] ~mShuttingDown /\ job[w] = NoJob -> "wait"
          [] OTHER -> "perform"
  <2>1. /\ pc[w] = "testCancel" /\ pc' = [pc EXCEPT ![w] = place]
        /\ UNCHANGED <<mJobs, mThreads, mFreeThreads, mRunningThreads,
                       mShuttingDown, job, mActiveJob, mCurJobThreadId,
                       isWorking, mFromThreadId, deletes, down>>
    BY <1>6 DEF TestCancel, Worker, poolVars
  <2>2. /\ place \in Places \ {"none", "ended"}
        /\ job[w] # NoJob => place \in {"perform", "delete"}
        /\ place \in {"perform", "delete"} => job[w] # NoJob
    BY DEF Places
  <2> QED BY <1>4, <2>1, <2>2
<1>7. ASSUME NEW w \in Workers, WaitEvent(w)
      PROVE  PoolInv'
  <2>1. /\ pc[w] = "wait" /\ pc' = [pc EXCEPT ![w] = "take"]
        /\ UNCHANGED <<mJobs, mThreads, mFreeThreads, mRunningThreads,
                       mShuttingDown, job, mActiveJob, mCurJobThreadId,
                       isWorking, mFromThreadId, deletes, down>>
    BY <1>7 DEF WaitEvent, Worker, jobVars
  <2>2. job[w] = NoJob
    BY <2>1 DEF OwnerInv
  <2> QED BY <1>4, <2>1, <2>2 DEF Places
<1>8. ASSUME NEW w \in Workers, Perform(w)
      PROVE  PoolInv'
  <2>1. /\ pc[w] = "perform" /\ pc' = [pc EXCEPT ![w] = "delete"]
        /\ UNCHANGED <<mJobs, mThreads, mFreeThreads, mRunningThreads,
                       mShuttingDown, job, mActiveJob, mCurJobThreadId,
                       isWorking, mFromThreadId, deletes, down>>
    BY <1>8 DEF Perform, Worker, poolVars
  <2>2. job[w] # NoJob
    BY <2>1 DEF OwnerInv
  <2> QED BY <1>4, <2>1, <2>2 DEF Places
<1>9. ASSUME NEW w \in Workers, DeleteJob(w)
      PROVE  PoolInv'
  <2>1. /\ pc[w] = "delete" /\ pc' = [pc EXCEPT ![w] = "take"]
        /\ job' = [job EXCEPT ![w] = NoJob]
        /\ mActiveJob' = [mActiveJob EXCEPT ![w] = NoJob]
        /\ deletes' = [deletes EXCEPT ![job[w]] = deletes[job[w]] + 1]
        /\ UNCHANGED <<mJobs, mThreads, mFreeThreads, mRunningThreads,
                       mShuttingDown, isWorking, mFromThreadId, down>>
    BY <1>9 DEF DeleteJob, Worker, poolVars
  <2>2. job[w] \in Jobs /\ job[w] \in Added /\ deletes[job[w]] = 0
    BY <2>1 DEF OwnerInv, TypeInv
  <2>3. TypeInv'
    BY <2>1, <2>2 DEF TypeInv, Places
  <2>4. ListInv'
    BY <2>1 DEF ListInv, TypeInv
  <2>5. OwnerInv'
    <3>1. /\ Added' = Added /\ mJobs' = mJobs
          /\ deletes' = [deletes EXCEPT ![job[w]] = 1]
      BY <2>1, <2>2 DEF Added, TypeInv
    <3>2. \A v \in Workers : v # w =>
            /\ job'[v] = job[v] /\ pc'[v] = pc[v]
            /\ job[v] # NoJob => job[v] # job[w]
      BY <2>1, <2>2 DEF OwnerInv, TypeInv
    <3>3. mActiveJob' = job' /\ job'[w] = NoJob /\ pc'[w] = "take"
      BY <2>1 DEF OwnerInv, TypeInv
    <3>4. \A v \in Workers :
            /\ job'[v] # NoJob =>
                 pc'[v] \in {"test", "testCancel", "perform", "delete"}
            /\ pc'[v] \in {"perform", "delete"} => job'[v] # NoJob
            /\ job'[v] # NoJob =>
                 job'[v] \in Added /\ ~InQueue(job'[v]) /\ deletes'[job'[v]] = 0
      BY <3>1, <3>2, <3>3 DEF OwnerInv, TypeInv, Added
    <3>5. \A u, v \in Workers : job'[u] = job'[v] /\ job'[u] # NoJob => u = v
      BY <3>2, <3>3 DEF OwnerInv
    <3>6. \A j \in Jobs :
            /\ InQueue(j) => j \in Added /\ deletes'[j] = 0
            /\ j \notin Added => deletes'[j] = 0
            /\ deletes'[j] = 0 /\ j \in Added =>
                 InQueue(j) \/ \E v \in Workers : job'[v] = j
      BY <2>2, <3>1, <3>2 DEF OwnerInv, TypeInv
    <3> QED BY <2>1, <3>1, <3>3, <3>4, <3>5, <3>6 DEF OwnerInv, InQueue
  <2>6. FreeInv'
    <3>1. Free' = Free
      BY <2>1 DEF Free, TypeInv
    <3> QED BY <1>0, <2>1, <3>1 DEF Free, FreeInv, FreeThreadsIsExact, TypeInv
  <2> QED BY <2>3, <2>4, <2>5, <2>6
<1>10. CASE ShutdownBegin \/ ShutdownSignal
  <2>1. TypeInv' /\ ListInv'
    BY <1>10 DEF ShutdownBegin, ShutdownSignal, workerVars, jobVars, TypeInv,
       ListInv
  <2>2. /\ UNCHANGED <<mJobs, mFreeThreads, workerVars, jobVars>>
        /\ down' # "end"
    BY <1>10 DEF ShutdownBegin, ShutdownSignal
  <2>3. OwnerInv'
    BY <2>2 DEF workerVars, jobVars, OwnerInv, InQueue, Added
  <2>4. FreeInv'
    BY <2>2 DEF workerVars, FreeInv, FreeThreadsIsExact
  <2> QED BY <2>1, <2>3, <2>4
<1>11. CASE ShutdownJoin
  <2>1. /\ mThreads # <<>> /\ pc[Last(mThreads)] = "ended" /\ down = "join"
        /\ mThreads' = Front(mThreads) /\ mRunningThreads' = mRunningThreads - 1
        /\ UNCHANGED <<mJobs, mFreeThreads, mShuttingDown, workerVars, jobVars,
                       down>>
    BY <1>11 DEF ShutdownJoin
  <2>2. /\ mThreads' \in Seq(Workers) /\ Len(mThreads') = Len(mThreads) - 1
        /\ Last(mThreads) \in Workers
        /\ ToSet(mThreads') = ToSet(mThreads) \ {Last(mThreads)}
        /\ Distinct(mThreads')
    BY <2>1, FrontList DEF TypeInv, ListInv
  <2>3. TypeInv' /\ ListInv'
    BY <2>1, <2>2 DEF TypeInv, ListInv, workerVars, jobVars
  <2>4. OwnerInv' /\ FreeInv'
    BY <2>1 DEF workerVars, jobVars, OwnerInv, InQueue, Added, FreeInv,
       FreeThreadsIsExact
  <2> QED BY <2>3, <2>4
<1>12. CASE ShutdownEnd
  <2>1. /\ mThreads = <<>> /\ down = "join" /\ mJobs' = <<>> /\ down' = "end"
        /\ deletes' = [j \in Jobs |-> IF InQueue(j) THEN deletes[j] + 1
                                      ELSE deletes[j]]
        /\ UNCHANGED <<mThreads, mFreeThreads, mRunningThreads, mShuttingDown,
                       workerVars, mFromThreadId>>
    BY <1>12 DEF ShutdownEnd, InQueue
  <2>2. \A w \in Workers : job[w] = NoJob
    BY <2>1 DEF OwnerInv, ListInv, ToSet, TypeInv
  <2>3. \A j \in Jobs : j \in Added => deletes'[j] # 0
    BY <2>1, <2>2 DEF OwnerInv, TypeInv, Added
  <2>4. TypeInv' /\ ListInv' /\ FreeInv'
    BY <2>1 DEF TypeInv, ListInv, OwnerInv, FreeInv, FreeThreadsIsExact,
       workerVars
  <2>5. OwnerInv'
    BY <2>1, <2>2, <2>3 DEF OwnerInv, Distinct, InQueue, ToSet, Added,
       workerVars
  <2> QED BY <2>4, <2>5
<1> QED BY <1>1, <1>2, <1>3, <1>5, <1>6, <1>7, <1>8, <1>9, <1>10, <1>11, <1>12
    DEF Next, Proc, Shutdown

(* An empty pool satisfies it.                                              *)
LEMMA PoolInit ==
  ASSUME Init
  PROVE  PoolInv
<1>1. TypeInv
  <2>1. <<>> \in Seq(Jobs) /\ <<>> \in Seq(Workers)
    OBVIOUS
  <2>2. /\ mJobs \in Seq(Jobs) /\ mThreads \in Seq(Workers)
        /\ mFreeThreads \in Int /\ mRunningThreads \in Int
        /\ mShuttingDown \in BOOLEAN /\ down = "run"
    <3>1. mJobs \in Seq(Jobs)
      BY <2>1 DEF Init
    <3>2. mThreads \in Seq(Workers)
      BY <2>1 DEF Init
    <3>3. mFreeThreads \in Int /\ mRunningThreads \in Int
      BY DEF Init
    <3>4. mShuttingDown \in BOOLEAN /\ down = "run"
      BY DEF Init
    <3> QED BY <3>1, <3>2, <3>3, <3>4
  <2>3. /\ pc \in [Workers -> Places] /\ isWorking \in [Workers -> BOOLEAN]
        /\ job \in [Workers -> Jobs \cup {NoJob}]
    BY DEF Init, Places
  <2>4. /\ mFromThreadId \in [Jobs -> Providers \cup {NoJob}]
        /\ deletes \in [Jobs -> {0, 1}]
    BY DEF Init
  <2> QED BY <2>2, <2>3, <2>4 DEF TypeInv
<1>2. ToSet(<<>>) = {} /\ Distinct(<<>>) /\ Len(<<>>) = 0
  BY DEF ToSet, Distinct
<1>3. ListInv
  BY <1>2, PoolAssumption DEF Init, ListInv
<1>4. OwnerInv
  BY <1>2 DEF Init, OwnerInv, InQueue, Added
<1>5. {w \in Workers : pc[w] # "none" /\ ~isWorking[w]} = {}
  BY DEF Init
<1>6. FreeInv
  BY <1>5, FS_EmptySet DEF Init, FreeInv, FreeThreadsIsExact
<1> QED BY <1>1, <1>3, <1>4, <1>6 DEF PoolInv

(* So does a step that changes nothing.                                     *)
LEMMA PoolStutter ==
  ASSUME PoolInv, UNCHANGED vars
  PROVE  PoolInv'
BY DEF vars, poolVars, workerVars, jobVars, PoolInv, TypeInv, ListInv,
   OwnerInv, InQueue, Added, FreeInv, FreeThreadsIsExact

(***************************************************************************)
(* The theorems.                                                           *)
(***************************************************************************)

(* Every job has one owner: the queue, one thread, or, once it has been     *)
(* deleted, nobody; mThreads holds the threads that still run.              *)
THEOREM EveryJobHasOneOwner == Spec => []PoolInv
<1>1. PoolInv /\ [Next]_vars => PoolInv'
  BY PoolStep, PoolStutter
<1> QED BY PoolInit, <1>1, PTL DEF Spec

(* No job that CancelAll follows a pointer to, queued or active, has been   *)
(* deleted, although the threads delete jobs that it may be about to reach. *)
THEOREM CancelAllIsSafe == Spec => []CancelReachesLiveJobs
<1>1. PoolInv => CancelReachesLiveJobs
  BY DEF PoolInv, TypeInv, OwnerInv, InQueue, CancelReachesLiveJobs, ToSet
<1> QED BY EveryJobHasOneOwner, <1>1, PTL

(* A job is deleted once, by the thread that took it or by Shutdown, and a  *)
(* pool that has been shut down has deleted them all.                       *)
THEOREM DeletedOnce == Spec => []EveryJobIsDeletedOnce
<1>1. PoolInv => EveryJobIsDeletedOnce
  <2> SUFFICES ASSUME PoolInv
               PROVE  EveryJobIsDeletedOnce
    OBVIOUS
  <2>1. \A j \in Jobs : deletes[j] \in {0, 1}
    BY DEF PoolInv, TypeInv
  <2>2. ASSUME down = "end"
        PROVE  \A j \in Added : deletes[j] # 0
    <3>1. \A w \in Workers : job[w] = NoJob
      BY <2>2 DEF PoolInv, TypeInv, ListInv, OwnerInv, ToSet
    <3> QED BY <2>2, <3>1, PoolAssumption
        DEF PoolInv, TypeInv, OwnerInv, InQueue, ToSet, Added
  <2>3. Added \subseteq Jobs
    BY DEF Added
  <2> QED BY <2>1, <2>2, <2>3 DEF EveryJobIsDeletedOnce
<1> QED BY EveryJobHasOneOwner, <1>1, PTL

(* The count that AddJob decides by whether it needs a thread.              *)
THEOREM FreeThreadsAreCounted == Spec => []FreeThreadsIsExact
<1>1. PoolInv => FreeThreadsIsExact
  BY DEF PoolInv, FreeInv
<1> QED BY EveryJobHasOneOwner, <1>1, PTL

(* Shutdown's assertion that no thread is running, and that none is.        *)
THEOREM ShutdownWaitsForAll == Spec => []NoThreadSurvives
<1>1. PoolInv => NoThreadSurvives
  BY DEF PoolInv, ListInv, NoThreadSurvives, ToSet
<1> QED BY EveryJobHasOneOwner, <1>1, PTL
==============================================================================
