--------------------------- MODULE GCControlProofs ---------------------------
(* Theorems about GCControl, for any number of threads and calls.           *)
EXTENDS GCControl, TLAPS

(* Why the last sweep is alone: the main thread gets there only when the    *)
(* collector has announced that it leaves its loop, or is gone and was      *)
(* found out (mGracelessShutdown).                                          *)
LeavingInv ==
  /\ ~mRunning => gc \in {"leaving", "ended", "killed"}
  /\ main \in {"shutdown", "lastSweep"} => ~mRunning
  /\ main = "lastSweep" => ~mGracelessShutdown

PerformingInv ==
  mPerformingCollection =>
    \/ gc \in {"lock", "collect", "report", "reported"}
    \/ gc = "killed" /\ (mRunning \/ mGracelessShutdown)

(* Who owns mCritSect: the collector exactly in a collection, the main      *)
(* thread exactly in its last sweep.                                        *)
LockInv ==
  /\ mCritSect = "gc" <=> gc \in {"collect", "reported"}
  /\ mCritSect = "main" <=> main = "lastSweep"
  /\ mCritSect = "killed" => gc = "killed"

ControlInv == TypeOK /\ LeavingInv /\ PerformingInv /\ LockInv

LEMMA EventTypes ==
  ASSUME NEW e \in Event, NEW b \in BOOLEAN
  PROVE  /\ EventCreate \in Event
         /\ EventSet(e, b) \in Event
         /\ EventPassed(e) \in Event
         /\ EventResetSet(e) \in Event
         /\ EventResetManual(e) \in Event
BY DEF Event, EventCreate, EventSet, EventPassed, EventResetSet,
       EventResetManual

(* The program starts with no event set and no sweep under way.             *)
LEMMA ControlInit == Init => ControlInv
<1> SUFFICES ASSUME Init PROVE ControlInv
  OBVIOUS
<1>1. TypeOK
  <2>1. EventCreate \in Event
    BY DEF Event, EventCreate
  <2>2. 0 \in 0..MaxCalls
    BY CallsAssumption
  <2>3. calls \in [Threads -> 0..MaxCalls]
    BY <2>2 DEF Init
  <2> QED
    BY <2>1, <2>3 DEF Init, TypeOK
<1>2. LeavingInv /\ PerformingInv /\ LockInv
  BY DEF Init, LeavingInv, PerformingInv, LockInv
<1> QED
  BY <1>1, <1>2 DEF ControlInv

(* The steps of the collector's loop.                                       *)
LEMMA RunStep == ControlInv /\ Run => ControlInv'
<1> SUFFICES ASSUME ControlInv, Run PROVE ControlInv'
  OBVIOUS
<1> USE DEF ControlInv
<1>1. CASE RunTop
  BY <1>1 DEF RunTop, GC, Stretched, flags, TypeOK, LeavingInv, PerformingInv,
              LockInv
<1>2. CASE RunWoken
  <2>1. collectEvent' \in Event
    BY <1>2, EventTypes DEF RunWoken, TypeOK
  <2> QED
    BY <1>2, <2>1 DEF RunWoken, GC, flags, TypeOK, LeavingInv, PerformingInv,
                      LockInv
<1>3. CASE RunTimeout
  BY <1>3 DEF RunTimeout, GC, flags, TypeOK, LeavingInv, PerformingInv, LockInv
<1>4. ASSUME NEW due \in BOOLEAN, NEW freed \in BOOLEAN, RunCheck(due, freed)
      PROVE  ControlInv'
  BY <1>4 DEF RunCheck, TypeOK, LeavingInv, PerformingInv, LockInv
<1>5. CASE RunClear
  BY <1>5 DEF RunClear, GC, TypeOK, LeavingInv, PerformingInv, LockInv
<1>6. CASE RunBegin
  BY <1>6 DEF RunBegin, GC, TypeOK, LeavingInv, PerformingInv, LockInv
<1>7. CASE RunFinish
  BY <1>7 DEF RunFinish, Collected, GC, TypeOK, LeavingInv, PerformingInv,
              LockInv
<1>8. CASE RunSignal
  <2>1. doneEvent' \in Event
    BY <1>8, EventTypes DEF RunSignal, TypeOK
  <2> QED
    BY <1>8, <2>1 DEF RunSignal, GC, flags, TypeOK, LeavingInv, PerformingInv,
                      LockInv
<1>9. CASE RunEnd
  BY <1>9 DEF RunEnd, GC, TypeOK, LeavingInv, PerformingInv, LockInv
<1>10. CASE ThreadEnd
  BY <1>10 DEF ThreadEnd, GC, flags, TypeOK, LeavingInv, PerformingInv, LockInv
<1>11. CASE RunLock
  BY <1>11 DEF RunLock, GC, flags, TypeOK, LeavingInv, PerformingInv, LockInv
<1>12. CASE RunReport
  BY <1>12 DEF RunReport, GC, flags, TypeOK, LeavingInv, PerformingInv,
               LockInv
<1>13. CASE RunReported
  BY <1>13 DEF RunReported, GC, flags, TypeOK, LeavingInv, PerformingInv,
               LockInv
<1> QED
  BY <1>1, <1>2, <1>3, <1>4, <1>5, <1>6, <1>7, <1>8, <1>9, <1>10, <1>11,
     <1>12, <1>13 DEF Run

(* The steps of a call of Collect leave the collector's flags alone, but    *)
(* for the request.                                                         *)
LEMMA CollectStep ==
  ASSUME ControlInv, NEW t \in Threads,
         InCollect(t) \/ \E async \in BOOLEAN : Collect(t, async)
  PROVE  ControlInv'
<1> USE DEF ControlInv
<1>1. ASSUME NEW async \in BOOLEAN, Collect(t, async) PROVE ControlInv'
  <2>1. calls' \in [Threads -> 0..MaxCalls]
    BY <1>1, CallsAssumption DEF Collect, TypeOK
  <2>2. /\ pc' \in [Threads -> {"run", "notify", "look", "poll", "reset",
                                "reset2", "notifySync", "waitDone", "return"}]
        /\ want' \in [Threads -> {"nothing", "asked", "begun", "done"}]
    BY <1>1 DEF Collect, Thread, TypeOK
  <2> QED
    BY <1>1, <2>1, <2>2 DEF Collect, gcVars, TypeOK, LeavingInv, PerformingInv,
                            LockInv
<1>2. CASE InCollect(t)
  <2>1. /\ collectEvent' \in Event
        /\ doneEvent' \in Event
    BY <1>2, EventTypes
       DEF InCollect, NotifyAsync, LookPerforming, PollDone, ResetDone,
           ResetDoneManual, NotifySync, WaitDone, CollectReturn, TypeOK
  <2>2. /\ pc' \in [Threads -> {"run", "notify", "look", "poll", "reset",
                                "reset2", "notifySync", "waitDone", "return"}]
        /\ want' \in [Threads -> {"nothing", "asked", "begun", "done"}]
    BY <1>2
       DEF InCollect, NotifyAsync, LookPerforming, PollDone, ResetDone, Thread,
           ResetDoneManual, NotifySync, WaitDone, CollectReturn, TypeOK
  <2>3. UNCHANGED <<flags, mCritSect, mFullGCPeriod, gcVars, main, calls>>
    BY <1>2
       DEF InCollect, NotifyAsync, LookPerforming, PollDone, ResetDone,
           ResetDoneManual, NotifySync, WaitDone, CollectReturn
  <2> QED
    BY <2>1, <2>2, <2>3 DEF flags, gcVars, TypeOK, LeavingInv, PerformingInv,
                            LockInv
<1> QED
  BY <1>1, <1>2

(* The main thread's way out.                                               *)
LEMMA StoppingStep == ControlInv /\ Stopping => ControlInv'
<1> SUFFICES ASSUME ControlInv, Stopping PROVE ControlInv'
  OBVIOUS
<1> USE DEF ControlInv
<1>1. CASE StopTest
  BY <1>1 DEF StopTest, Main, flags, gcVars, TypeOK, LeavingInv, PerformingInv,
              LockInv
<1>2. CASE StopPoll
  <2>1. LeavingInv' /\ PerformingInv'
    BY <1>2 DEF StopPoll, Main, gcVars, TypeOK, LeavingInv, PerformingInv
  <2>2. TypeOK'
    BY <1>2 DEF StopPoll, Main, gcVars, TypeOK
  <2>3. LockInv'
    BY <1>2 DEF StopPoll, Main, gcVars, LockInv
  <2> QED
    BY <2>1, <2>2, <2>3
<1>3. CASE StopSignal
  <2>1. collectEvent' \in Event
    BY <1>3, EventTypes DEF StopSignal, TypeOK
  <2>2. /\ main = "stopSignal" /\ main' = "stopTest"
        /\ UNCHANGED <<doneEvent, flags, mCritSect, mFullGCPeriod, gcVars, pc,
                       calls, want>>
    BY <1>3 DEF StopSignal, Main
  <2>3. TypeOK'
    BY <2>1, <2>2 DEF flags, gcVars, TypeOK
  <2>4. LeavingInv' /\ PerformingInv' /\ LockInv'
    BY <2>2 DEF flags, gcVars, LeavingInv, PerformingInv, LockInv
  <2> QED
    BY <2>3, <2>4
<1>4. CASE Shutdown
  BY <1>4 DEF Shutdown, Main, flags, gcVars, TypeOK, LeavingInv, PerformingInv,
              LockInv
<1>5. CASE LastSweep
  BY <1>5 DEF LastSweep, Main, flags, gcVars, TypeOK, LeavingInv, PerformingInv,
              LockInv
<1> QED
  BY <1>1, <1>2, <1>3, <1>4, <1>5 DEF Stopping

LEMMA ControlStep == ControlInv /\ [Next]_vars => ControlInv'
<1> SUFFICES ASSUME ControlInv, [Next]_vars PROVE ControlInv'
  OBVIOUS
<1> USE DEF ControlInv
<1>1. CASE Run
  BY <1>1, RunStep
<1>2. CASE Killed
  BY <1>2 DEF Killed, flags, TypeOK, LeavingInv, PerformingInv, LockInv
<1>3. ASSUME NEW period \in Periods, SetAutoCollectPeriod(period)
      PROVE  ControlInv'
  <2>1. collectEvent' \in Event
    BY <1>3, EventTypes DEF SetAutoCollectPeriod, TypeOK
  <2>2. /\ mFullGCPeriod' \in {"off", "zero", "timer"}
        /\ UNCHANGED <<doneEvent, flags, mCritSect, gcVars, main, pc, calls,
                       want>>
    BY <1>3, PeriodAssumption DEF SetAutoCollectPeriod
  <2>3. TypeOK'
    BY <2>1, <2>2 DEF flags, gcVars, TypeOK
  <2>4. LeavingInv' /\ PerformingInv' /\ LockInv'
    BY <2>2 DEF flags, gcVars, LeavingInv, PerformingInv, LockInv
  <2> QED
    BY <2>3, <2>4
<1>4. CASE \E t \in Threads :
             InCollect(t) \/ \E async \in BOOLEAN : Collect(t, async)
  BY <1>4, CollectStep
<1>5. CASE StopCollecting
  BY <1>5 DEF StopCollecting, Main, gcVars, TypeOK, LeavingInv, PerformingInv,
              LockInv
<1>6. CASE Stopping
  BY <1>6, StoppingStep
<1>7. CASE UNCHANGED vars
  BY <1>7 DEF vars, flags, gcVars, TypeOK, LeavingInv, PerformingInv, LockInv
<1> QED
  BY <1>1, <1>2, <1>3, <1>4, <1>5, <1>6, <1>7 DEF Next

LEMMA ControlInvariant == Spec => []ControlInv
BY ControlInit, ControlStep, PTL DEF Spec

(* The flags, the events, the owner of mCritSect and every thread's place   *)
(* in the code stay within their types, whoever calls what when.            *)
THEOREM ControlTypeCorrect == Spec => []TypeOK
<1>1. ControlInv => TypeOK
  BY DEF ControlInv
<1> QED
  BY <1>1, ControlInvariant, PTL

(* StopCollecting lets the main thread go on to the last sweep only when no *)
(* collection is under way and the collector will begin none, also when it  *)
(* was killed in the middle of one.                                         *)
THEOREM NoCollectionInLastSweep == Spec => []LastSweepIsAlone
<1>1. ControlInv => LastSweepIsAlone
  BY DEF ControlInv, LeavingInv, PerformingInv, LastSweepIsAlone
<1> QED
  BY <1>1, ControlInvariant, PTL
==============================================================================
