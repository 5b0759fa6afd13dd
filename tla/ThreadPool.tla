----------------------------- MODULE ThreadPool ------------------------------
(***************************************************************************)
(* The thread pool of the native code (BeefySysLib/util/ThreadPool.cpp):   *)
(* NetManager's downloads and StackHelper's deep recursions run on it.     *)
(* What runs under mCritSect is one step; the two tests of mShuttingDown   *)
(* in Proc, and the wait for mEvent, are outside of it.                    *)
(***************************************************************************)
EXTENDS Integers, Sequences, FiniteSets, SequencesExt, BfpEvent

CONSTANTS
  Providers,      \* threads that add jobs
  Jobs,           \* jobs they may add, each once
  Cancellable,    \* the ones whose Cancel returns true
  Workers,        \* pool threads that can be created
  mMaxThreads,
  PerProvider,    \* maxWorkersPerProviderThread
  NoJob           \* NULL

ASSUME PoolAssumption ==
  /\ Cancellable \subseteq Jobs /\ NoJob \notin Jobs \cup Providers
  /\ IsFiniteSet(Workers)
  /\ mMaxThreads \in Nat \ {0} /\ mMaxThreads <= Cardinality(Workers)
  /\ PerProvider \in Nat \ {0}

VARIABLES
  mJobs,            \* the queue
  mThreads,         \* the pool threads that Shutdown has not taken out
  mFreeThreads, mRunningThreads, mShuttingDown,
  mEvent,
  pc,               \* where a pool thread is in Proc
  job,              \* its local job
  mActiveJob,
  mCurJobThreadId,  \* the provider of its job, or NoJob
  isWorking,        \* its local isWorking
  mFromThreadId,    \* per job
  cancelled,        \* the cancellable ones whose Cancel has been called
  performed,        \* jobs whose Perform has returned
  deletes,          \* per job: times deleted
  down              \* where the thread that calls Shutdown is

workerVars == <<pc, job, mActiveJob, mCurJobThreadId, isWorking>>
jobVars == <<mFromThreadId, cancelled, performed, deletes>>
poolVars == <<mJobs, mThreads, mFreeThreads, mRunningThreads, mShuttingDown,
              mEvent>>
vars == <<poolVars, workerVars, jobVars, down>>

Init ==
  /\ mJobs = <<>> /\ mThreads = <<>>
  /\ mFreeThreads = 0 /\ mRunningThreads = 0
  /\ mShuttingDown = FALSE
  /\ mEvent = EventCreate
  /\ pc = [w \in Workers |-> "none"]
  /\ job = [w \in Workers |-> NoJob]
  /\ mActiveJob = [w \in Workers |-> NoJob]
  /\ mCurJobThreadId = [w \in Workers |-> NoJob]
  /\ isWorking = [w \in Workers |-> TRUE]
  /\ mFromThreadId = [j \in Jobs |-> NoJob]
  /\ cancelled = {} /\ performed = {}
  /\ deletes = [j \in Jobs |-> 0]
  /\ down = "run"

Added == {j \in Jobs : mFromThreadId[j] # NoJob}
Crashed == \E w \in Workers : pc[w] = "crashed"

-----------------------------------------------------------------------------
(* AddJob, by a provider, under mCritSect.  The pool's owner does not add   *)
(* jobs to a pool it is shutting down.                                      *)
WorkersForUs(p) ==
  {i \in DOMAIN mThreads : mCurJobThreadId[mThreads[i]] = p}

WantsThread(p) ==
  /\ Len(mThreads) < mMaxThreads
  /\ mFreeThreads = 0
  /\ Cardinality(WorkersForUs(p)) < PerProvider

AddJob(p, j) ==
  /\ ~Crashed /\ down = "run"
  /\ mFromThreadId[j] = NoJob
  /\ mFromThreadId' = [mFromThreadId EXCEPT ![j] = p]
  /\ mJobs' = Append(mJobs, j)
  /\ mEvent' = EventSet(mEvent, FALSE)
  /\ IF WantsThread(p)
       THEN LET w == CHOOSE w \in Workers : pc[w] = "none" IN
              /\ pc' = [pc EXCEPT ![w] = "take"]
              /\ mThreads' = Append(mThreads, w)
              /\ mRunningThreads' = mRunningThreads + 1
       ELSE UNCHANGED <<pc, mThreads, mRunningThreads>>
  /\ UNCHANGED <<mFreeThreads, mShuttingDown, job, mActiveJob, mCurJobThreadId,
                 isWorking, cancelled, performed, deletes, down>>

(* CancelAll: the queued jobs and the ones that are being performed; Cancel *)
(* does nothing to a job that is not cancellable.  The debugger, which      *)
(* cancels through NetManager, does not do so once Shutdown has begun:      *)
(* Shutdown deletes what is left in mJobs without mCritSect.                *)
CancelAll ==
  /\ ~Crashed /\ down = "run"
  /\ cancelled' = cancelled \cup
       (Cancellable \cap
          (ToSet(mJobs) \cup {mActiveJob[w] : w \in ToSet(mThreads)}))
  /\ UNCHANGED <<poolVars, workerVars, mFromThreadId, performed, deletes, down>>

-----------------------------------------------------------------------------
(* Thread::Proc.                                                            *)

Worker(w, from) == ~Crashed /\ pc[w] = from

(* The section under mCritSect at the top of the loop.                      *)
TakeRecounts(w) ==
  LET hasWork == mJobs # <<>>
      next == IF hasWork THEN Head(mJobs) ELSE NoJob
  IN /\ Worker(w, "take")
     /\ pc' = [pc EXCEPT ![w] = "test"]
     /\ mJobs' = IF hasWork THEN Tail(mJobs) ELSE mJobs
     /\ job' = [job EXCEPT ![w] = next]
     /\ mActiveJob' = [mActiveJob EXCEPT ![w] = next]
     /\ mCurJobThreadId' = [mCurJobThreadId EXCEPT
          ![w] = IF hasWork THEN mFromThreadId[next] ELSE NoJob]
     /\ isWorking' = [isWorking EXCEPT ![w] = hasWork]
     /\ mFreeThreads' = IF hasWork THEN mFreeThreads - 1 ELSE mFreeThreads + 1
     /\ UNCHANGED <<mThreads, mRunningThreads, mShuttingDown, mEvent, jobVars,
                    down>>

Take(w) ==
  LET hasWork == mJobs # <<>>
      next == IF hasWork THEN Head(mJobs) ELSE NoJob
  IN /\ Worker(w, "take")
     /\ pc' = [pc EXCEPT ![w] = "test"]
     /\ mJobs' = IF hasWork THEN Tail(mJobs) ELSE mJobs
     /\ job' = [job EXCEPT ![w] = next]
     /\ mActiveJob' = [mActiveJob EXCEPT ![w] = next]
     /\ mCurJobThreadId' = [mCurJobThreadId EXCEPT
          ![w] = IF hasWork THEN mFromThreadId[next] ELSE NoJob]
     /\ isWorking' = [isWorking EXCEPT ![w] = hasWork]
     /\ mFreeThreads' = CASE hasWork /\ ~isWorking[w] -> mFreeThreads - 1
                          [] ~hasWork /\ isWorking[w] -> mFreeThreads + 1
                          [] OTHER -> mFreeThreads
     /\ UNCHANGED <<mThreads, mRunningThreads, mShuttingDown, mEvent, jobVars,
                    down>>

(* if ((job == NULL) && (mShuttingDown)) break;                             *)
TestBreakWithJob(w) ==
  /\ Worker(w, "test")
  /\ pc' = [pc EXCEPT ![w] = IF mShuttingDown THEN "ended"
                             ELSE "testCancel"]
  /\ UNCHANGED <<poolVars, job, mActiveJob, mCurJobThreadId, isWorking, jobVars,
                 down>>

TestBreak(w) ==
  /\ Worker(w, "test")
  /\ pc' = [pc EXCEPT ![w] = IF job[w] = NoJob /\ mShuttingDown THEN "ended"
                             ELSE "testCancel"]
  /\ UNCHANGED <<poolVars, job, mActiveJob, mCurJobThreadId, isWorking, jobVars,
                 down>>

(* if ((mShuttingDown) && (job->Cancel())): a second, later read of the     *)
(* flag; when it has been set since the first, job may still be NULL.       *)
TestCancelResets(w) ==
  /\ Worker(w, "testCancel")
  /\ pc' = [pc EXCEPT ![w] =
       CASE mShuttingDown /\ job[w] = NoJob -> "crashed"
         [] mShuttingDown /\ job[w] \in Cancellable -> "delete"
         [] ~mShuttingDown /\ job[w] = NoJob -> "wait"
         [] OTHER -> "perform"]
  /\ cancelled' = IF mShuttingDown
                    THEN cancelled \cup (Cancellable \cap {job[w]})
                    ELSE cancelled
  /\ mEvent' = IF pc'[w] = "wait" THEN EventResetSet(mEvent) ELSE mEvent
  /\ UNCHANGED <<mJobs, mThreads, mFreeThreads, mRunningThreads, mShuttingDown,
                 job, mActiveJob, mCurJobThreadId, isWorking, mFromThreadId,
                 performed, deletes, down>>

TestCancel(w) ==
  /\ Worker(w, "testCancel")
  /\ pc' = [pc EXCEPT ![w] =
       CASE mShuttingDown /\ job[w] = NoJob -> "crashed"
         [] mShuttingDown /\ job[w] \in Cancellable -> "delete"
         [] ~mShuttingDown /\ job[w] = NoJob -> "wait"
         [] OTHER -> "perform"]
  /\ cancelled' = IF mShuttingDown
                    THEN cancelled \cup (Cancellable \cap {job[w]})
                    ELSE cancelled
  /\ UNCHANGED <<poolVars, job, mActiveJob, mCurJobThreadId, isWorking,
                 mFromThreadId, performed, deletes, down>>

WaitEvent(w) ==
  /\ Worker(w, "wait")
  /\ mEvent.mSet
  /\ mEvent' = EventPassed(mEvent)
  /\ pc' = [pc EXCEPT ![w] = "take"]
  /\ UNCHANGED <<mJobs, mThreads, mFreeThreads, mRunningThreads, mShuttingDown,
                 job, mActiveJob, mCurJobThreadId, isWorking, jobVars, down>>

Perform(w) ==
  /\ Worker(w, "perform")
  /\ performed' = performed \cup {job[w]}
  /\ pc' = [pc EXCEPT ![w] = "delete"]
  /\ UNCHANGED <<poolVars, job, mActiveJob, mCurJobThreadId, isWorking,
                 mFromThreadId, cancelled, deletes, down>>

(* "Run dtor synchronized"                                                  *)
DeleteJobKeepActive(w) ==
  /\ Worker(w, "delete")
  /\ deletes' = [deletes EXCEPT ![job[w]] = @ + 1]
  /\ pc' = [pc EXCEPT ![w] = "take"]
  /\ job' = [job EXCEPT ![w] = NoJob]
  /\ UNCHANGED <<poolVars, mActiveJob, mCurJobThreadId, isWorking,
                 mFromThreadId, cancelled, performed, down>>

DeleteJob(w) ==
  /\ Worker(w, "delete")
  /\ mActiveJob' = [mActiveJob EXCEPT ![w] = NoJob]
  /\ deletes' = [deletes EXCEPT ![job[w]] = @ + 1]
  /\ pc' = [pc EXCEPT ![w] = "take"]
  /\ job' = [job EXCEPT ![w] = NoJob]
  /\ UNCHANGED <<poolVars, mCurJobThreadId, isWorking, mFromThreadId, cancelled,
                 performed, down>>

Proc(w) == \/ Take(w) \/ TestBreak(w) \/ TestCancel(w) \/ WaitEvent(w)
           \/ Perform(w) \/ DeleteJob(w)

-----------------------------------------------------------------------------
(* Shutdown.                                                                *)

ShutdownBegin ==
  /\ ~Crashed /\ down = "run"
  /\ mShuttingDown' = TRUE
  /\ down' = "signal"
  /\ UNCHANGED <<mJobs, mThreads, mFreeThreads, mRunningThreads, mEvent,
                 workerVars, jobVars>>

ShutdownSignalOne ==
  /\ ~Crashed /\ down = "signal"
  /\ mEvent' = EventSet(mEvent, FALSE)
  /\ down' = "join"
  /\ UNCHANGED <<mJobs, mThreads, mFreeThreads, mRunningThreads, mShuttingDown,
                 workerVars, jobVars>>

ShutdownSignal ==
  /\ ~Crashed /\ down = "signal"
  /\ mEvent' = EventSet(mEvent, TRUE)
  /\ down' = "join"
  /\ UNCHANGED <<mJobs, mThreads, mFreeThreads, mRunningThreads, mShuttingDown,
                 workerVars, jobVars>>

(* Takes the last thread out of the list, waits for it, deletes it.  The    *)
(* three are one step: no job is added any more, and nothing else reads the *)
(* list or the count then.                                                  *)
ShutdownJoinAtOnce ==
  /\ ~Crashed /\ down = "join"
  /\ mThreads # <<>>
  /\ mThreads' = Front(mThreads)
  /\ mRunningThreads' = mRunningThreads - 1
  /\ UNCHANGED <<mJobs, mFreeThreads, mShuttingDown, mEvent, workerVars,
                 jobVars, down>>

ShutdownJoin ==
  /\ ~Crashed /\ down = "join"
  /\ mThreads # <<>>
  /\ pc[Last(mThreads)] = "ended"
  /\ mThreads' = Front(mThreads)
  /\ mRunningThreads' = mRunningThreads - 1
  /\ UNCHANGED <<mJobs, mFreeThreads, mShuttingDown, mEvent, workerVars,
                 jobVars, down>>

(* Deletes the jobs that are left.                                          *)
ShutdownEnd ==
  /\ ~Crashed /\ down = "join"
  /\ mThreads = <<>>
  /\ deletes' = [j \in Jobs |-> IF j \in ToSet(mJobs) THEN deletes[j] + 1
                                ELSE deletes[j]]
  /\ mJobs' = <<>>
  /\ down' = "end"
  /\ UNCHANGED <<mThreads, mFreeThreads, mRunningThreads, mShuttingDown, mEvent,
                 workerVars, mFromThreadId, cancelled, performed>>

Shutdown == ShutdownSignal \/ ShutdownJoin \/ ShutdownEnd

Next ==
  \/ \E p \in Providers, j \in Jobs : AddJob(p, j)
  \/ CancelAll
  \/ \E w \in Workers : Proc(w)
  \/ ShutdownBegin \/ Shutdown

Spec == Init /\ [][Next]_vars

(* Every pool thread is scheduled, and Perform returns; nobody has to add a *)
(* job or to shut the pool down.                                            *)
FairSpec == /\ Spec
            /\ \A w \in Workers : WF_vars(Proc(w)) /\ SF_vars(WaitEvent(w))
            /\ WF_vars(Shutdown)

-----------------------------------------------------------------------------
TypeOK ==
  /\ mJobs \in Seq(Jobs) /\ mThreads \in Seq(Workers)
  /\ mFreeThreads \in 0..mMaxThreads /\ mRunningThreads \in 0..mMaxThreads
  /\ mShuttingDown \in BOOLEAN
  /\ mEvent \in Event
  /\ pc \in [Workers -> {"none", "take", "test", "testCancel", "wait",
                         "perform", "delete", "ended", "crashed"}]
  /\ job \in [Workers -> Jobs \cup {NoJob}]
  /\ mActiveJob \in [Workers -> Jobs \cup {NoJob}]
  /\ mCurJobThreadId \in [Workers -> Providers \cup {NoJob}]
  /\ isWorking \in [Workers -> BOOLEAN]
  /\ mFromThreadId \in [Jobs -> Providers \cup {NoJob}]
  /\ cancelled \in SUBSET Jobs /\ performed \in SUBSET Jobs
  /\ deletes \in [Jobs -> Nat]
  /\ down \in {"run", "signal", "join", "end"}

(* CancelAll follows pointers that other threads' Proc owns: no job that it *)
(* could reach at any time, queued or active, has been deleted.             *)
CancelReachesLiveJobs ==
  \A j \in ToSet(mJobs) \cup {mActiveJob[w] : w \in ToSet(mThreads)} :
    j # NoJob => deletes[j] = 0

(* A job is deleted once, whatever shutting down, cancelling and performing *)
(* do to it at the same time, and none is left over.                        *)
EveryJobIsDeletedOnce ==
  /\ \A j \in Jobs : deletes[j] <= 1
  /\ down = "end" => \A j \in Added : deletes[j] = 1

(* mFreeThreads, which AddJob goes by, is the number of pool threads that   *)
(* found the queue empty when they last looked.                             *)
FreeThreadsIsExact ==
  mFreeThreads = Cardinality({w \in Workers : pc[w] # "none" /\ ~isWorking[w]})

(* Shutdown: BF_ASSERT(mRunningThreads == 0), and no thread of the pool     *)
(* survives it.                                                             *)
NoThreadSurvives ==
  down = "end" =>
    /\ mRunningThreads = 0
    /\ \A w \in Workers : pc[w] \in {"none", "ended"}

(* A job is never stranded in the queue: AddJob relies on a free thread,    *)
(* which may be at any point of its loop, or on busy ones that will come    *)
(* back, when it creates no thread, and two jobs may share one signal.      *)
EveryJobIsPerformed ==
  \A j \in Jobs : (j \in Added) ~> (j \in performed \/ mShuttingDown)

(* Shutdown returns whatever the pool threads are doing when it begins;     *)
(* unless one of them falls between its two tests of mShuttingDown.         *)
ShutdownReturns == mShuttingDown ~> (down = "end" \/ Crashed)
==============================================================================
