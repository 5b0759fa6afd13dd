------------------------------ MODULE GCControl ------------------------------
(***************************************************************************)
(* When a collection happens: the collector thread's loop (BFGC::Run), the *)
(* requests of the program (BFGC::Collect, SetAutoCollectPeriod) and the   *)
(* end of the program (BFGC::StopCollecting, Shutdown), which meet in two  *)
(* events and a few flags that no lock protects (BeefRT/dbg/gc.cpp), and in *)
(* one lock, mCritSect, which a collection holds and a dead thread keeps.  *)
(* What a collection does is in GCCycle; here it is one step, its repeats  *)
(* after an overflow included.                                             *)
(***************************************************************************)
EXTENDS Integers, BfpEvent

CONSTANTS
  Threads,        \* threads that call GC.Collect
  Periods,        \* what SetAutoCollectPeriod is called with
  MaxCalls,       \* bound: calls of Collect by one thread
  ThreadsMayDie   \* may the end of the process have killed the collector?

(* "off": -1, "zero": 0, "timer": a positive number of milliseconds.        *)
ASSUME PeriodAssumption == Periods \subseteq {"off", "zero", "timer"}
ASSUME CallsAssumption == MaxCalls \in Nat

VARIABLES
  collectEvent,        \* mCollectEvent
  doneEvent,           \* mCollectDoneEvent
  mCollectRequested, mPerformingCollection, mExiting, mRunning,
  mGracelessShutdown,
  mCritSect,           \* the owner of mCritSect: "free" when it has none
  mFullGCPeriod,
  gc,                  \* where the collector thread is in Run
  waiting,             \* the period its loop computed: as mFullGCPeriod
  main,                \* where the main thread is in StopCollecting, Shutdown
  pc,                  \* where each thread is in Collect
  calls,               \* its number of calls
  \* ---- history
  want                 \* what has become of a thread's call of Collect(false)

flags == <<mCollectRequested, mPerformingCollection, mExiting, mRunning,
           mGracelessShutdown>>
gcVars == <<gc, waiting>>
vars == <<collectEvent, doneEvent, flags, mCritSect, mFullGCPeriod, gcVars,
          main, pc, calls, want>>

Init ==
  /\ collectEvent = EventCreate
  /\ doneEvent = EventCreate
  /\ mCollectRequested = FALSE
  /\ mPerformingCollection = FALSE
  /\ mExiting = FALSE
  /\ mRunning = TRUE
  /\ mGracelessShutdown = FALSE
  /\ mCritSect = "free"
  /\ mFullGCPeriod = "timer"
  /\ gc = "top"
  /\ waiting = "timer"
  /\ main = "run"
  /\ pc = [t \in Threads |-> "run"]
  /\ calls = [t \in Threads |-> 0]
  /\ want = [t \in Threads |-> "nothing"]

-----------------------------------------------------------------------------
(* The collector thread.                                                    *)

GC(from, to) == main # "end" /\ gc = from /\ gc' = to

(* The pause in the last report can stretch any period but -1 to a longer   *)
(* one (mMaxPausePercentage); it need not, a short pause counts 0 ms.       *)
Stretched(period) == {period} \cup (IF period = "off" THEN {} ELSE {"timer"})

RunTop ==
  /\ GC("top", IF mExiting THEN "ending" ELSE "wait")
  /\ waiting' \in Stretched(mFullGCPeriod)
  /\ UNCHANGED <<collectEvent, doneEvent, flags, mCritSect, mFullGCPeriod, main,
                 pc, calls, want>>

(* mCollectEvent.WaitFor(waitPeriod): a waitPeriod of 0 becomes -1, and a   *)
(* negative one is infinite.                                                *)
RunWoken ==
  /\ GC("wait", "check")
  /\ collectEvent.mSet
  /\ collectEvent' = EventPassed(collectEvent)
  /\ UNCHANGED <<doneEvent, flags, mCritSect, mFullGCPeriod, waiting, main, pc,
                 calls, want>>

WaitNeverTimesOut == FALSE
WaitTimesOut == waiting = "timer"
RunTimeout ==
  /\ GC("wait", "check")
  /\ ~collectEvent.mSet
  /\ WaitTimesOut
  /\ UNCHANGED <<collectEvent, doneEvent, flags, mCritSect, mFullGCPeriod,
                 waiting, main, pc, calls, want>>

(* due: the period has elapsed since the last collection; freed: the memory *)
(* freed since has reached mFreeTrigger.                                    *)
RunCheck(due, freed) ==
  /\ main # "end" /\ gc = "check"
  /\ due => waiting # "off"
  /\ waiting = "zero" => due
  /\ mCollectRequested' = (mCollectRequested \/ due \/ freed)
  /\ gc' = IF mCollectRequested' THEN "clear" ELSE "top"
  /\ waiting' = "timer"   \* a local of the loop: not used again
  /\ UNCHANGED <<collectEvent, doneEvent, mPerformingCollection, mExiting,
                 mRunning, mGracelessShutdown, mCritSect, mFullGCPeriod, main,
                 pc, calls, want>>

RunClear ==
  /\ GC("clear", "begin")
  /\ mCollectRequested' = FALSE
  /\ UNCHANGED <<collectEvent, doneEvent, mPerformingCollection, mExiting,
                 mRunning, mGracelessShutdown, mCritSect, mFullGCPeriod,
                 waiting, main, pc, calls, want>>

(* PerformCollection begins after the fence.                                *)
RunBegin ==
  /\ GC("begin", "lock")
  /\ mPerformingCollection' = TRUE
  /\ want' = [t \in Threads |-> IF want[t] = "asked" THEN "begun" ELSE want[t]]
  /\ UNCHANGED <<collectEvent, doneEvent, mCollectRequested, mExiting, mRunning,
                 mGracelessShutdown, mCritSect, mFullGCPeriod, waiting, main,
                 pc, calls>>

(* PerformCollection holds mCritSect, ...                                   *)
RunLock ==
  /\ GC("lock", "collect")
  /\ mCritSect = "free"
  /\ mCritSect' = "gc"
  /\ UNCHANGED <<collectEvent, doneEvent, flags, mFullGCPeriod, waiting, main,
                 pc, calls, want>>

(* ... but not while the debugger shows the leaks it has found.             *)
RunReport ==
  /\ GC("collect", "report")
  /\ mCritSect' = "free"
  /\ UNCHANGED <<collectEvent, doneEvent, flags, mFullGCPeriod, waiting, main,
                 pc, calls, want>>

RunReported ==
  /\ GC("report", "reported")
  /\ mCritSect = "free"
  /\ mCritSect' = "gc"
  /\ UNCHANGED <<collectEvent, doneEvent, flags, mFullGCPeriod, waiting, main,
                 pc, calls, want>>

Collected ==
  /\ GC("collect", "signal") \/ GC("reported", "signal")
  /\ mCritSect' = "free"
  /\ mPerformingCollection' = FALSE
  /\ want' = [t \in Threads |-> IF want[t] = "begun" THEN "done" ELSE want[t]]
  /\ UNCHANGED <<collectEvent, doneEvent, mExiting, mRunning,
                 mGracelessShutdown, mFullGCPeriod, waiting, main, pc, calls>>

RunFinishLateClear == Collected /\ mCollectRequested' = FALSE

RunFinish == Collected /\ UNCHANGED mCollectRequested

RunSignal ==
  /\ GC("signal", "top")
  /\ doneEvent' = EventSet(doneEvent, TRUE)
  /\ UNCHANGED <<collectEvent, flags, mCritSect, mFullGCPeriod, waiting, main,
                 pc, calls, want>>

(* mRunning = false, and then the thread ends.                              *)
RunEnd ==
  /\ GC("ending", "leaving")
  /\ mRunning' = FALSE
  /\ UNCHANGED <<collectEvent, doneEvent, mCollectRequested,
                 mPerformingCollection, mExiting, mGracelessShutdown, mCritSect,
                 mFullGCPeriod, waiting, main, pc, calls, want>>

ThreadEnd ==
  /\ GC("leaving", "ended")
  /\ UNCHANGED <<collectEvent, doneEvent, flags, mCritSect, mFullGCPeriod,
                 waiting, main, pc, calls, want>>

Run == \/ RunTop \/ RunWoken \/ RunTimeout
       \/ \E due, freed \in BOOLEAN : RunCheck(due, freed)
       \/ RunClear \/ RunBegin \/ RunLock \/ RunReport \/ RunReported
       \/ RunFinish \/ RunSignal \/ RunEnd \/ ThreadEnd

(* The operating system has ended every thread but the main one.  A lock    *)
(* stays with the thread that held it: the collector, or any thread that    *)
(* was in one of the short sections under mCritSect (ThreadStarted,         *)
(* ThreadStopped, AddPendingThread, ...).                                   *)
Killed ==
  /\ ThreadsMayDie
  /\ main = "stopTest" /\ gc \notin {"ended", "killed"}
  /\ gc' = "killed"
  /\ waiting' = "timer"
  /\ pc' = [t \in Threads |-> "run"]
  /\ want' = [t \in Threads |-> "nothing"]
  /\ mCritSect' \in IF mCritSect = "gc" THEN {"killed"} ELSE {"free", "killed"}
  /\ UNCHANGED <<collectEvent, doneEvent, flags, mFullGCPeriod, main, calls>>

-----------------------------------------------------------------------------
(* The program.                                                             *)

(* No thread survives the process, nor the collector when it was killed.    *)
Alive == main # "end" /\ gc # "killed"

Thread(t, from, to) == /\ Alive
                       /\ pc[t] = from
                       /\ pc' = [pc EXCEPT ![t] = to]

SetAutoCollectPeriod(period) ==
  /\ main = "run"
  /\ mFullGCPeriod' = period
  /\ collectEvent' = EventSet(collectEvent, FALSE)
  /\ UNCHANGED <<doneEvent, flags, mCritSect, gcVars, main, pc, calls, want>>

(* Collect(async): the request, a fence ...                                 *)
Collect(t, async) ==
  /\ Thread(t, "run", IF async THEN "notify" ELSE "look")
  /\ calls[t] < MaxCalls
  /\ calls' = [calls EXCEPT ![t] = @ + 1]
  /\ mCollectRequested' = TRUE
  /\ want' = [want EXCEPT ![t] = IF async THEN "nothing" ELSE "asked"]
  /\ UNCHANGED <<collectEvent, doneEvent, mPerformingCollection, mExiting,
                 mRunning, mGracelessShutdown, mCritSect, mFullGCPeriod, gcVars,
                 main>>

(* ... and the event.                                                       *)
NotifyAsync(t) ==
  /\ Thread(t, "notify", "run")
  /\ collectEvent' = EventSet(collectEvent, FALSE)
  /\ UNCHANGED <<doneEvent, flags, mCritSect, mFullGCPeriod, gcVars, main,
                 calls, want>>

(* A synchronous call looks whether a collection is being performed and, if *)
(* so, polls the event that says that one is over.                          *)
LookPerforming(t) ==
  /\ Thread(t, "look", IF mPerformingCollection THEN "poll" ELSE "reset")
  /\ UNCHANGED <<collectEvent, doneEvent, flags, mCritSect, mFullGCPeriod,
                 gcVars, main, calls, want>>

PollDone(t) ==
  /\ Thread(t, "poll", "reset")
  /\ doneEvent' = IF doneEvent.mSet THEN EventPassed(doneEvent) ELSE doneEvent
  /\ UNCHANGED <<collectEvent, flags, mCritSect, mFullGCPeriod, gcVars, main,
                 calls, want>>

ResetDone(t) ==
  /\ Thread(t, "reset", "reset2")
  /\ doneEvent' = EventResetSet(doneEvent)
  /\ UNCHANGED <<collectEvent, flags, mCritSect, mFullGCPeriod, gcVars, main,
                 calls, want>>

ResetDoneManual(t) ==
  /\ Thread(t, "reset2", "notifySync")
  /\ doneEvent' = EventResetManual(doneEvent)
  /\ UNCHANGED <<collectEvent, flags, mCritSect, mFullGCPeriod, gcVars, main,
                 calls, want>>

NotifySync(t) ==
  /\ Thread(t, "notifySync", "waitDone")
  /\ collectEvent' = EventSet(collectEvent, FALSE)
  /\ UNCHANGED <<doneEvent, flags, mCritSect, mFullGCPeriod, gcVars, main,
                 calls, want>>

WaitDone(t) ==
  /\ Thread(t, "waitDone", "return")
  /\ doneEvent.mSet
  /\ doneEvent' = EventPassed(doneEvent)
  /\ UNCHANGED <<collectEvent, flags, mCritSect, mFullGCPeriod, gcVars, main,
                 calls, want>>

CollectReturn(t) ==
  /\ Thread(t, "return", "run")
  /\ want' = [want EXCEPT ![t] = "nothing"]
  /\ UNCHANGED <<collectEvent, doneEvent, flags, mCritSect, mFullGCPeriod,
                 gcVars, main, calls>>

InCollect(t) ==
  \/ NotifyAsync(t) \/ LookPerforming(t) \/ PollDone(t) \/ ResetDone(t)
  \/ ResetDoneManual(t) \/ NotifySync(t) \/ WaitDone(t) \/ CollectReturn(t)

-----------------------------------------------------------------------------
(* The main thread at the end of the program.                               *)

Main(from, to) == main = from /\ main' = to

StopCollecting ==
  /\ Main("run", "stopTest")
  /\ mExiting' = TRUE
  /\ UNCHANGED <<collectEvent, doneEvent, mCollectRequested,
                 mPerformingCollection, mRunning, mGracelessShutdown, mCritSect,
                 mFullGCPeriod, gcVars, pc, calls, want>>

(* while (mRunning)                                                         *)
StopTestOnce ==
  /\ Main("stopTest", IF mRunning /\ ~collectEvent.mSet THEN "stopPoll"
                      ELSE "shutdown")
  /\ UNCHANGED <<collectEvent, doneEvent, flags, mCritSect, mFullGCPeriod,
                 gcVars, pc, calls, want>>

StopTest ==
  /\ Main("stopTest", IF mRunning THEN "stopPoll" ELSE "shutdown")
  /\ UNCHANGED <<collectEvent, doneEvent, flags, mCritSect, mFullGCPeriod,
                 gcVars, pc, calls, want>>

(* BfpThread_WaitFor(mGCThread, 0)                                          *)
StopPoll ==
  LET over == gc \in {"ended", "killed"} IN
  /\ Main("stopPoll", IF over THEN "shutdown" ELSE "stopSignal")
  /\ mGracelessShutdown' = (mGracelessShutdown \/ over)
  /\ mRunning' = (mRunning /\ ~over)
  /\ UNCHANGED <<collectEvent, doneEvent, mCollectRequested,
                 mPerformingCollection, mExiting, mCritSect, mFullGCPeriod,
                 gcVars, pc, calls, want>>

StopSignalLost ==
  /\ Main("stopSignal", "stopTest")
  /\ UNCHANGED <<collectEvent, doneEvent, flags, mCritSect, mFullGCPeriod,
                 gcVars, pc, calls, want>>

StopSignal ==
  /\ Main("stopSignal", "stopTest")
  /\ collectEvent' = EventSet(collectEvent, FALSE)
  /\ UNCHANGED <<doneEvent, flags, mCritSect, mFullGCPeriod, gcVars, pc, calls,
                 want>>

(* Shutdown waits for mCritSect before it looks whether the collector was   *)
(* killed: the wait for the lock of a dead thread does not end.             *)
Shutdown ==
  /\ Main("shutdown", IF mGracelessShutdown THEN "end" ELSE "lastSweep")
  /\ mCritSect = "free"
  /\ mCritSect' = IF mGracelessShutdown THEN "free" ELSE "main"
  /\ UNCHANGED <<collectEvent, doneEvent, flags, mFullGCPeriod, gcVars, pc,
                 calls, want>>

(* The last sweep reports every object that is not deleted.                 *)
LastSweep ==
  /\ Main("lastSweep", "end")
  /\ mCritSect' = "free"
  /\ UNCHANGED <<collectEvent, doneEvent, flags, mFullGCPeriod, gcVars, pc,
                 calls, want>>

Stopping == StopTest \/ StopPoll \/ StopSignal \/ Shutdown \/ LastSweep

Next ==
  \/ Run
  \/ Killed
  \/ \E period \in Periods : SetAutoCollectPeriod(period)
  \/ \E t \in Threads : InCollect(t) \/ \E async \in BOOLEAN : Collect(t, async)
  \/ StopCollecting
  \/ Stopping

Spec == Init /\ [][Next]_vars

(* Every thread is scheduled and goes on with what it has begun; a clock    *)
(* that is looked at again and again has some day reached the period.  No   *)
(* thread has to call anything, and no memory need be freed.                *)
Fairness ==
  /\ WF_vars(Run)
  /\ SF_vars(\E freed \in BOOLEAN : RunCheck(TRUE, freed))
  /\ \A t \in Threads : WF_vars(InCollect(t))
  /\ WF_vars(Stopping)

FairSpec == Spec /\ Fairness

-----------------------------------------------------------------------------
TypeOK ==
  /\ collectEvent \in Event /\ doneEvent \in Event
  /\ mCollectRequested \in BOOLEAN /\ mPerformingCollection \in BOOLEAN
  /\ mExiting \in BOOLEAN /\ mRunning \in BOOLEAN
  /\ mGracelessShutdown \in BOOLEAN
  /\ mFullGCPeriod \in {"off", "zero", "timer"}
  /\ waiting \in {"off", "zero", "timer"}
  /\ mCritSect \in {"free", "gc", "main", "killed"}
  /\ gc \in {"top", "wait", "check", "clear", "begin", "lock", "collect",
             "report", "reported", "signal", "ending", "leaving", "ended",
             "killed"}
  /\ main \in {"run", "stopTest", "stopPoll", "stopSignal", "shutdown",
               "lastSweep", "end"}
  /\ pc \in [Threads -> {"run", "notify", "look", "poll", "reset", "reset2",
                         "notifySync", "waitDone", "return"}]
  /\ calls \in [Threads -> 0..MaxCalls]
  /\ want \in [Threads -> {"nothing", "asked", "begun", "done"}]

(* The last sweep, which runs on the main thread and takes every object     *)
(* that is not deleted for a leak, never meets a collection of the          *)
(* collector thread.                                                        *)
LastSweepIsAlone ==
  main = "lastSweep" =>
    ~mPerformingCollection /\ gc \in {"leaving", "ended", "killed"}

(* No call of Collect is forgotten: a collection begins after it, also when *)
(* the call came while another collection was under way, or between the     *)
(* collector's test of the flag and its wait.                               *)
EveryRequestIsCollected == mCollectRequested ~> (gc = "begin" \/ mExiting)

(* Collect(false) returns while the collector's timer runs, whatever other  *)
(* threads do to the event it waits for.                                    *)
CollectReturns ==
  \A t \in Threads :
    pc[t] = "waitDone" ~>
      (pc[t] # "waitDone" \/ mExiting \/ mFullGCPeriod = "off")

(* The program ends: StopCollecting returns, also when the collector waits  *)
(* without a timeout, is in a collection or is gone, and Shutdown gets      *)
(* mCritSect, unless a thread died that held it.                            *)
StopReturns ==
  mExiting ~> (main = "end" \/ (main = "shutdown" /\ mCritSect = "killed"))

(* When Collect(false) returns, a collection that began after the call is   *)
(* over: before it resets the event the call is to "Wait for previous to    *)
(* finish", so the event it then waits for is that of its own collection.   *)
SyncCollectIsFresh == \A t \in Threads : pc[t] = "return" => want[t] = "done"
==============================================================================
