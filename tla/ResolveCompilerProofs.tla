------------------------ MODULE ResolveCompilerProofs -------------------------
(* Theorems about ResolveCompiler, for any number of edits and requests.    *)
EXTENDS ResolveCompiler, TLAPS

(* What the queue can hold: the kind of a command and the version it is of. *)
Commands == [kind : {"source", "resolve"}, of : Int]

(* The places a thread can be at: those that hold the lock, and the rest.   *)
Holding == {"next", "command", "begin", "compile", "pop", "unlock", "complete",
            "completing"}
Places == Holding \cup {"off", "frame", "wait", "waitHi", "start", "lock",
                        "yield", "relock", "end"}

(* The values the variables take; only those the proofs need.               *)
TypeInv ==
  /\ version \in Int /\ mCommandQueue \in Seq(Commands)
  /\ command \in Commands \cup {None}
  /\ pc \in [Threads -> Places] /\ resume \in [Threads -> Places]
  /\ job \in [Threads -> Jobs]
  /\ mThreadRunning \in [Workers -> BOOLEAN]
  /\ mCanceling \in BOOLEAN /\ savedCanceling \in [Threads -> BOOLEAN]
  /\ mPendingSystemLockPri \in Int

(* Each thread has its own part of the program.                             *)
PlaceInv ==
  /\ mThreadRunning["normal"] <=> pc["normal"] # "off"
  /\ mThreadRunning["hi"] <=> pc["hi"] # "off"
  /\ pc["main"] \in {"frame", "wait", "waitHi", "start", "lock", "complete",
                     "completing", "unlock"}
  /\ pc["hi"] \in {"off", "start", "lock", "complete", "completing", "unlock",
                   "end"}
  /\ pc["normal"] \in Places \ {"frame", "wait", "waitHi", "complete",
                                "completing"}
  /\ job["main"] \in {"autocomplete", "lookup", "query"}
  /\ job["hi"] \in {"autocomplete", "lookup", "query"}
  /\ job["normal"] \in {"queue", "classify", "query"}
  /\ pc["normal"] \in {"yield", "relock"} =>
       resume["normal"] \in {"command", "compile"}

(* The command queue is being processed by the normal worker or by nobody;  *)
(* the main thread deletes the compiler only when the worker is at rest.    *)
QueueInv ==
  /\ pc["main"] = "waitHi" \/ mShuttingDown => pc["normal"] = "off"
  /\ command # None <=>
       /\ job["normal"] = "queue"
       /\ pc["normal"] \notin {"off", "start", "lock", "next", "unlock", "end"}
  /\ pc["normal"] \in {"next", "command", "pop"} => job["normal"] = "queue"
  /\ pc["normal"] \in {"yield", "relock"} /\ resume["normal"] = "command" =>
       job["normal"] = "queue"

(* A thread holds the lock wherever it needs it.                            *)
LockInv == \A t \in Threads : pc[t] \in Holding => lockOwner = t

(* An autocompletion that will put back the old value of mCanceling knows   *)
(* of a request to cancel from before it, or sees one that came since.      *)
CancelInv ==
  \A t \in Threads :
    pc[t] = "completing" /\ asked =>
      savedCanceling[t] \/ mCanceling \/ overwritten

(* What the processing of the queue needs: who is where, and what for.      *)
ProcessInv == TypeInv /\ PlaceInv /\ QueueInv /\ CommandIsOurs

(* What becomes of a request to cancel the compile.                         *)
RequestInv == CancelInv /\ CancelIsLostOnlyInAutocomplete

(***************************************************************************)
(* The values of the queue.                                                *)
(***************************************************************************)

(* Sources and ResolveAll are commands; None, which stands for the null     *)
(* reference DoProcessQueue has between two commands, is not.               *)
LEMMA CommandTypes ==
  /\ None \notin Commands /\ ResolveAll \in Commands
  /\ \A v \in Int : Source(v) \in Commands
BY DEF None, ResolveAll, Source, Commands

(* What DoProcessQueue and QueueCommand do to the list of commands: taking  *)
(* the head off and adding at the end keep it a list of commands, and       *)
(* adding keeps the head.                                                   *)
LEMMA QueueTypes ==
  ASSUME NEW S, NEW s \in Seq(S), NEW e \in S
  PROVE  /\ s # <<>> => Head(s) \in S /\ Tail(s) \in Seq(S)
         /\ Append(s, e) \in Seq(S) /\ Append(s, e) # <<>>
         /\ s # <<>> => Head(Append(s, e)) = Head(s)
OBVIOUS

(* All that the exclusion of the lock needs to know of the rest of the      *)
(* invariant: each thread is at one of the places (DoBackground, Update).   *)
LEMMA PlacesOfThreads ==
  ASSUME ProcessInv
  PROVE  pc \in [Threads -> Places]
BY DEF ProcessInv, TypeInv

(***************************************************************************)
(* Every step keeps the invariants.                                        *)
(***************************************************************************)

(* Every step keeps the part of the invariant that the queue, the command   *)
(* being processed and the places of the threads need (DoProcessQueue).     *)
LEMMA ProcessKept ==
  ASSUME ProcessInv, Next
  PROVE  ProcessInv'
<1> USE DEF Threads, Workers, Jobs, Places, Holding, ProcessInv, TypeInv,
   PlaceInv, QueueInv, CommandIsOurs, queueVars, lockVars, cancelVars, userVars,
   Goto
<1>1. CASE Edit
  BY <1>1, CommandTypes, QueueTypes DEF Edit, InFrame
<1>2. CASE RequestCancelBackground
  <2>1. mCanceling' \in BOOLEAN /\ savedCanceling' = savedCanceling
    BY <1>2 DEF RequestCancelBackground, RequestCancel
  <2> QED
    BY <1>2, <2>1 DEF RequestCancelBackground, Request
<1>3. CASE CancelBackground \/ UnloadCompiler
  <2>1. mCanceling' \in BOOLEAN /\ savedCanceling' = savedCanceling
    BY <1>3 DEF CancelBackground, UnloadCompiler, CancelAndWait, RequestCancel
  <2> QED
    BY <1>3, <2>1 DEF CancelBackground, UnloadCompiler, CancelAndWait, Request,
       InFrame
<1>4. CASE DoBackground
  BY <1>4 DEF DoBackground, Request, InFrame, StartWorker, ThreadRunning
<1>5. CASE DoBackgroundHi
  BY <1>5 DEF DoBackgroundHi, Request, InFrame, StartWorker
<1>6. CASE MainWork
  BY <1>6 DEF MainWork, Request, InFrame
<1>7. CASE Update
  <2>1. TypeInv'
    <3>1. mCommandQueue' \in Seq(Commands)
      BY <1>7, CommandTypes, QueueTypes DEF Update
    <3>2. /\ version' = version /\ command' = command /\ resume' = resume
          /\ mCanceling' = mCanceling /\ savedCanceling' = savedCanceling
          /\ mPendingSystemLockPri' = mPendingSystemLockPri
      BY <1>7 DEF Update
    <3>3. /\ pc' = pc \/ pc' = [pc EXCEPT !["normal"] = "start"]
          /\ job' = job \/ job' = [job EXCEPT !["normal"] = "queue"]
          /\ \/ mThreadRunning' = mThreadRunning
             \/ mThreadRunning' = [mThreadRunning EXCEPT !["normal"] = TRUE]
      BY <1>7 DEF Update, StartWorker
    <3>4. pc' \in [Threads -> Places] /\ job' \in [Threads -> Jobs]
      BY <3>3
    <3>5. mThreadRunning' \in [Workers -> BOOLEAN]
      <4>1. CASE mThreadRunning' = mThreadRunning
        BY <4>1
      <4>2. CASE mThreadRunning' = [mThreadRunning EXCEPT !["normal"] = TRUE]
        BY <4>2
      <4> QED
        BY <3>3, <4>1, <4>2
    <3> QED
      BY <3>1, <3>2, <3>4, <3>5
  <2>2. PlaceInv'
    BY <1>7, CommandTypes, QueueTypes DEF Update, InFrame, StartWorker,
       ThreadRunning
  <2>3. QueueInv'
    BY <1>7, CommandTypes, QueueTypes DEF Update, InFrame, StartWorker,
       ThreadRunning
  <2>4. CommandIsOurs'
    BY <1>7, CommandTypes, QueueTypes DEF Update, InFrame, StartWorker,
       ThreadRunning
  <2> QED
    BY <2>1, <2>2, <2>3, <2>4
<1>8. CASE WaitForBackground
  BY <1>8 DEF WaitForBackground, WaitForNormal
<1>9. CASE WaitIsOver
  BY <1>9 DEF WaitIsOver, WaitForHi
<1>10. CASE Delete
  BY <1>10 DEF Delete, WaitForHi
<1>11. CASE NextCommand
  <2>1. TypeInv'
    BY <1>11, CommandTypes, QueueTypes DEF NextCommand
  <2>2. PlaceInv'
    BY <1>11, CommandTypes, QueueTypes DEF NextCommand
  <2>3. QueueInv'
    BY <1>11, CommandTypes, QueueTypes DEF NextCommand
  <2>4. CommandIsOurs'
    BY <1>11, CommandTypes, QueueTypes DEF NextCommand
  <2> QED
    BY <2>1, <2>2, <2>3, <2>4
<1>12. CASE ParseSource
  BY <1>12 DEF ParseSource
<1>13. CASE ProcessResolveAll
  BY <1>13, CommandTypes DEF ProcessResolveAll
<1>14. CASE BeginCompile
  BY <1>14 DEF BeginCompile
<1>15. CASE EndCompile
  BY <1>15 DEF EndCompile, DeferCanceled
<1>16. CASE Pop
  <2>1. TypeInv'
    <3>1. mCommandQueue # <<>>
      BY <1>16, CommandTypes DEF Pop
    <3>2. mCommandQueue' \in Seq(Commands)
      BY <1>16, <3>1, CommandTypes, QueueTypes DEF Pop
    <3> QED
      BY <1>16, <3>2, CommandTypes DEF Pop
  <2>2. PlaceInv'
    BY <1>16, CommandTypes, QueueTypes DEF Pop
  <2>3. QueueInv'
    BY <1>16, CommandTypes, QueueTypes DEF Pop
  <2>4. CommandIsOurs'
    BY <1>16, CommandTypes, QueueTypes DEF Pop
  <2> QED
    BY <2>1, <2>2, <2>3, <2>4
<1>17. ASSUME NEW t \in Threads, Notify(t) PROVE ProcessInv'
  BY <1>17 DEF Notify
<1>18. ASSUME NEW t \in Threads, Acquire(t) PROVE ProcessInv'
  BY <1>18 DEF Acquire, Lock, Priority, Completes, ClearPending
<1>19. ASSUME NEW t \in Threads, Yield(t) PROVE ProcessInv'
  BY <1>19 DEF Yield, CanYield
<1>20. ASSUME NEW t \in Threads, Spin(t) PROVE ProcessInv'
  BY <1>20 DEF Spin
<1>21. ASSUME NEW t \in Threads, Relock(t) PROVE ProcessInv'
  BY <1>21 DEF Relock, Lock, Priority, ClearPending
<1>22. ASSUME NEW t \in Threads, Unlock(t) PROVE ProcessInv'
  BY <1>22 DEF Unlock
<1>23. ASSUME NEW t \in Threads, BeginComplete(t) PROVE ProcessInv'
  <2>1. TypeInv'
    BY <1>23 DEF BeginComplete
  <2>2. PlaceInv'
    BY <1>23 DEF BeginComplete
  <2>3. QueueInv'
    BY <1>23 DEF BeginComplete
  <2>4. CommandIsOurs'
    BY <1>23 DEF BeginComplete
  <2> QED
    BY <2>1, <2>2, <2>3, <2>4
<1>24. ASSUME NEW t \in Threads, EndComplete(t) PROVE ProcessInv'
  BY <1>24 DEF EndComplete
<1>25. ASSUME NEW w \in Workers, EndThread(w) PROVE ProcessInv'
  BY <1>25 DEF EndThread
<1> QED
  BY <1>1, <1>2, <1>3, <1>4, <1>5, <1>6, <1>7, <1>8, <1>9, <1>10, <1>11, <1>12,
     <1>13, <1>14, <1>15, <1>16, <1>17, <1>18, <1>19, <1>20, <1>21, <1>22,
     <1>23, <1>24, <1>25 DEF Next, UserStep, MainStep, QueueStep, LockStep

(* Every step keeps the exclusion that BfSystem::Lock gives: a thread at a  *)
(* place that needs the lock owns it, also after it gave way to another.    *)
LEMMA LockKept ==
  ASSUME ProcessInv, LockInv, Next
  PROVE  LockInv'
<1> USE DEF Threads, Workers, Jobs, Places, Holding, LockInv, queueVars,
   lockVars, cancelVars, userVars, Goto
<1>1. CASE Edit
  BY <1>1, PlacesOfThreads DEF Edit, InFrame
<1>2. CASE RequestCancelBackground
  BY <1>2, PlacesOfThreads DEF RequestCancelBackground, Request, InFrame,
     RequestCancel, Compiling
<1>3. CASE CancelBackground \/ UnloadCompiler
  BY <1>3, PlacesOfThreads DEF CancelBackground, UnloadCompiler, CancelAndWait,
     Request, InFrame, RequestCancel, Compiling
<1>4. CASE DoBackground
  <2>1. lockOwner' = lockOwner /\ pc' = [pc EXCEPT !["normal"] = "start"]
    BY <1>4 DEF DoBackground
  <2> QED
    BY <2>1, PlacesOfThreads
<1>5. CASE DoBackgroundHi
  <2>1. lockOwner' = lockOwner /\ pc' = [pc EXCEPT !["hi"] = "start"]
    BY <1>5 DEF DoBackgroundHi
  <2> QED
    BY <2>1, PlacesOfThreads
<1>6. CASE MainWork
  BY <1>6, PlacesOfThreads DEF MainWork, Request, InFrame
<1>7. CASE Update
  <2>1. lockOwner' = lockOwner
    BY <1>7 DEF Update
  <2>2. pc' = pc \/ pc' = [pc EXCEPT !["normal"] = "start"]
    BY <1>7 DEF Update
  <2> QED
    BY <2>1, <2>2, PlacesOfThreads
<1>8. CASE WaitForBackground
  BY <1>8, PlacesOfThreads DEF WaitForBackground, WaitForNormal
<1>9. CASE WaitIsOver
  BY <1>9, PlacesOfThreads DEF WaitIsOver, WaitForHi
<1>10. CASE Delete
  BY <1>10, PlacesOfThreads DEF Delete, WaitForHi
<1>11. CASE NextCommand
  BY <1>11, PlacesOfThreads DEF NextCommand
<1>12. CASE ParseSource
  BY <1>12, PlacesOfThreads DEF ParseSource
<1>13. CASE ProcessResolveAll
  BY <1>13, PlacesOfThreads DEF ProcessResolveAll
<1>14. CASE BeginCompile
  BY <1>14, PlacesOfThreads DEF BeginCompile
<1>15. CASE EndCompile
  BY <1>15, PlacesOfThreads DEF EndCompile, DeferCanceled
<1>16. CASE Pop
  BY <1>16, PlacesOfThreads DEF Pop
<1>17. ASSUME NEW t \in Threads, Notify(t) PROVE LockInv'
  BY <1>17, PlacesOfThreads DEF Notify
<1>18. ASSUME NEW t \in Threads, Acquire(t) PROVE LockInv'
  BY <1>18, PlacesOfThreads DEF Acquire, Lock, Priority, Completes, ClearPending
<1>19. ASSUME NEW t \in Threads, Yield(t) PROVE LockInv'
  BY <1>19, PlacesOfThreads DEF Yield, CanYield
<1>20. ASSUME NEW t \in Threads, Spin(t) PROVE LockInv'
  BY <1>20, PlacesOfThreads DEF Spin
<1>21. ASSUME NEW t \in Threads, Relock(t) PROVE LockInv'
  BY <1>21, PlacesOfThreads DEF Relock, Lock, Priority, ClearPending
<1>22. ASSUME NEW t \in Threads, Unlock(t) PROVE LockInv'
  BY <1>22, PlacesOfThreads DEF Unlock
<1>23. ASSUME NEW t \in Threads, BeginComplete(t) PROVE LockInv'
  BY <1>23, PlacesOfThreads DEF BeginComplete
<1>24. ASSUME NEW t \in Threads, EndComplete(t) PROVE LockInv'
  BY <1>24, PlacesOfThreads DEF EndComplete
<1>25. ASSUME NEW w \in Workers, EndThread(w) PROVE LockInv'
  BY <1>25, PlacesOfThreads DEF EndThread
<1> QED
  BY <1>1, <1>2, <1>3, <1>4, <1>5, <1>6, <1>7, <1>8, <1>9, <1>10, <1>11, <1>12,
     <1>13, <1>14, <1>15, <1>16, <1>17, <1>18, <1>19, <1>20, <1>21, <1>22,
     <1>23, <1>24, <1>25 DEF Next, UserStep, MainStep, QueueStep, LockStep

(* Every step keeps somebody on the way to the lock while a request for it  *)
(* is pending (NotifyWillRequestLock, CheckLockYield).                      *)
LEMMA SpinKept ==
  ASSUME ProcessInv, SpinIsShort, Next
  PROVE  SpinIsShort'
<1> USE DEF Threads, Workers, Jobs, Places, Holding, ProcessInv, PlaceInv,
   TypeInv, SpinIsShort, Priority, queueVars, lockVars, cancelVars, userVars,
   Goto
<1>1. CASE Edit
  BY <1>1 DEF Edit, InFrame
<1>2. CASE RequestCancelBackground
  BY <1>2 DEF RequestCancelBackground, Request, InFrame, RequestCancel,
     Compiling
<1>3. CASE CancelBackground \/ UnloadCompiler
  BY <1>3 DEF CancelBackground, UnloadCompiler, CancelAndWait, Request, InFrame,
     RequestCancel, Compiling
<1>4. CASE DoBackground
  BY <1>4 DEF DoBackground, Request, InFrame, StartWorker, ThreadRunning
<1>5. CASE DoBackgroundHi
  BY <1>5 DEF DoBackgroundHi, Request, InFrame, StartWorker
<1>6. CASE MainWork
  BY <1>6 DEF MainWork, Request, InFrame
<1>7. CASE Update
  BY <1>7 DEF Update, InFrame, StartWorker, ThreadRunning
<1>8. CASE WaitForBackground
  BY <1>8 DEF WaitForBackground, WaitForNormal
<1>9. CASE WaitIsOver
  BY <1>9 DEF WaitIsOver, WaitForHi
<1>10. CASE Delete
  BY <1>10 DEF Delete, WaitForHi
<1>11. CASE NextCommand
  BY <1>11 DEF NextCommand
<1>12. CASE ParseSource
  BY <1>12 DEF ParseSource
<1>13. CASE ProcessResolveAll
  BY <1>13 DEF ProcessResolveAll
<1>14. CASE BeginCompile
  BY <1>14 DEF BeginCompile
<1>15. CASE EndCompile
  BY <1>15 DEF EndCompile, DeferCanceled
<1>16. CASE Pop
  BY <1>16 DEF Pop
<1>17. ASSUME NEW t \in Threads, Notify(t) PROVE SpinIsShort'
  BY <1>17 DEF Notify
<1>18. ASSUME NEW t \in Threads, Acquire(t) PROVE SpinIsShort'
  BY <1>18 DEF Acquire, Lock, Priority, Completes, ClearPending
<1>19. ASSUME NEW t \in Threads, Yield(t) PROVE SpinIsShort'
  BY <1>19 DEF Yield, CanYield
<1>20. ASSUME NEW t \in Threads, Spin(t) PROVE SpinIsShort'
  BY <1>20 DEF Spin
<1>21. ASSUME NEW t \in Threads, Relock(t) PROVE SpinIsShort'
  BY <1>21 DEF Relock, Lock, Priority, ClearPending
<1>22. ASSUME NEW t \in Threads, Unlock(t) PROVE SpinIsShort'
  BY <1>22 DEF Unlock
<1>23. ASSUME NEW t \in Threads, BeginComplete(t) PROVE SpinIsShort'
  BY <1>23 DEF BeginComplete
<1>24. ASSUME NEW t \in Threads, EndComplete(t) PROVE SpinIsShort'
  BY <1>24 DEF EndComplete
<1>25. ASSUME NEW w \in Workers, EndThread(w) PROVE SpinIsShort'
  BY <1>25 DEF EndThread
<1> QED
  BY <1>1, <1>2, <1>3, <1>4, <1>5, <1>6, <1>7, <1>8, <1>9, <1>10, <1>11, <1>12,
     <1>13, <1>14, <1>15, <1>16, <1>17, <1>18, <1>19, <1>20, <1>21, <1>22,
     <1>23, <1>24, <1>25 DEF Next, UserStep, MainStep, QueueStep, LockStep

(* Every step keeps the request to cancel the compile (BfCompiler::Cancel), *)
(* with what an autocompletion remembers of it.                             *)
LEMMA CancelKept ==
  ASSUME ProcessInv, LockInv, RequestInv, Next
  PROVE  RequestInv'
<1> USE DEF Threads, Workers, Jobs, Places, Holding, ProcessInv, PlaceInv,
   TypeInv, LockInv, RequestInv, CancelInv, CancelIsLostOnlyInAutocomplete,
   queueVars, lockVars, cancelVars, userVars, Goto
<1>1. CASE Edit
  BY <1>1 DEF Edit, InFrame
<1>2. CASE RequestCancelBackground
  BY <1>2 DEF RequestCancelBackground, Request, InFrame, RequestCancel,
     Compiling
<1>3. CASE CancelBackground \/ UnloadCompiler
  BY <1>3 DEF CancelBackground, UnloadCompiler, CancelAndWait, Request, InFrame,
     RequestCancel, Compiling
<1>4. CASE DoBackground
  BY <1>4 DEF DoBackground, Request, InFrame, StartWorker, ThreadRunning
<1>5. CASE DoBackgroundHi
  BY <1>5 DEF DoBackgroundHi, Request, InFrame, StartWorker
<1>6. CASE MainWork
  BY <1>6 DEF MainWork, Request, InFrame
<1>7. CASE Update
  BY <1>7 DEF Update, InFrame, StartWorker, ThreadRunning
<1>8. CASE WaitForBackground
  BY <1>8 DEF WaitForBackground, WaitForNormal
<1>9. CASE WaitIsOver
  BY <1>9 DEF WaitIsOver, WaitForHi
<1>10. CASE Delete
  BY <1>10 DEF Delete, WaitForHi
<1>11. CASE NextCommand
  BY <1>11 DEF NextCommand
<1>12. CASE ParseSource
  BY <1>12 DEF ParseSource
<1>13. CASE ProcessResolveAll
  BY <1>13 DEF ProcessResolveAll
<1>14. CASE BeginCompile
  BY <1>14 DEF BeginCompile
<1>15. CASE EndCompile
  BY <1>15 DEF EndCompile, DeferCanceled
<1>16. CASE Pop
  BY <1>16 DEF Pop
<1>17. ASSUME NEW t \in Threads, Notify(t) PROVE RequestInv'
  BY <1>17 DEF Notify
<1>18. ASSUME NEW t \in Threads, Acquire(t) PROVE RequestInv'
  BY <1>18 DEF Acquire, Lock, Priority, Completes, ClearPending
<1>19. ASSUME NEW t \in Threads, Yield(t) PROVE RequestInv'
  BY <1>19 DEF Yield, CanYield
<1>20. ASSUME NEW t \in Threads, Spin(t) PROVE RequestInv'
  BY <1>20 DEF Spin
<1>21. ASSUME NEW t \in Threads, Relock(t) PROVE RequestInv'
  BY <1>21 DEF Relock, Lock, Priority, ClearPending
<1>22. ASSUME NEW t \in Threads, Unlock(t) PROVE RequestInv'
  BY <1>22 DEF Unlock
<1>23. ASSUME NEW t \in Threads, BeginComplete(t) PROVE RequestInv'
  BY <1>23 DEF BeginComplete
<1>24. ASSUME NEW t \in Threads, EndComplete(t) PROVE RequestInv'
  BY <1>24 DEF EndComplete
<1>25. ASSUME NEW w \in Workers, EndThread(w) PROVE RequestInv'
  BY <1>25 DEF EndThread
<1> QED
  BY <1>1, <1>2, <1>3, <1>4, <1>5, <1>6, <1>7, <1>8, <1>9, <1>10, <1>11, <1>12,
     <1>13, <1>14, <1>15, <1>16, <1>17, <1>18, <1>19, <1>20, <1>21, <1>22,
     <1>23, <1>24, <1>25 DEF Next, UserStep, MainStep, QueueStep, LockStep

(***************************************************************************)
(* The theorems.                                                           *)
(***************************************************************************)

(* The whole invariant, which the first state satisfies: the constructors   *)
(* of CommandQueueManager, CompilerBase and BfSystem.                       *)
ResolveInv == ProcessInv /\ LockInv /\ SpinIsShort /\ RequestInv

(* The initial state satisfies it.                                          *)
LEMMA ResolveInit == Init => ResolveInv
<1> SUFFICES ASSUME Init PROVE ResolveInv
  OBVIOUS
<1> USE DEF Init, Threads, Workers, Jobs, Places, Holding
<1>1. TypeInv
  <2>1. mCommandQueue \in Seq(Commands) /\ command \in Commands \cup {None}
    OBVIOUS
  <2>2. mThreadRunning \in [Workers -> BOOLEAN] /\ mCanceling \in BOOLEAN
    OBVIOUS
  <2>3. savedCanceling \in [Threads -> BOOLEAN]
    OBVIOUS
  <2>4. pc \in [Threads -> Places]
    OBVIOUS
  <2> QED
    BY <2>1, <2>2, <2>3, <2>4 DEF TypeInv
<1>2. PlaceInv /\ QueueInv /\ CommandIsOurs
  BY DEF PlaceInv, QueueInv, CommandIsOurs
<1>3. LockInv /\ SpinIsShort /\ RequestInv
  BY DEF LockInv, SpinIsShort, RequestInv, CancelInv,
         CancelIsLostOnlyInAutocomplete
<1> QED
  BY <1>1, <1>2, <1>3 DEF ResolveInv, ProcessInv

(* A step that changes nothing keeps it.                                    *)
LEMMA ResolveStutter == ResolveInv /\ UNCHANGED vars => ResolveInv'
BY DEF ResolveInv, ProcessInv, TypeInv, PlaceInv, QueueInv, LockInv,
       RequestInv, CancelInv, CommandIsOurs, SpinIsShort,
       CancelIsLostOnlyInAutocomplete, vars, queueVars, lockVars, cancelVars,
       userVars

(* It holds in every reachable state of the compiler, however many edits    *)
(* and requests the user makes.                                             *)
THEOREM ResolveCorrect == Spec => []ResolveInv
<1>1. ResolveInv /\ [Next]_vars => ResolveInv'
  <2> SUFFICES ASSUME ResolveInv, [Next]_vars PROVE ResolveInv'
    OBVIOUS
  <2>1. CASE Next
    BY <2>1, ProcessKept, LockKept, SpinKept, CancelKept DEF ResolveInv
  <2>2. CASE UNCHANGED vars
    BY <2>2, ResolveStutter
  <2> QED
    BY <2>1, <2>2
<1> QED
  BY <1>1, ResolveInit, PTL DEF Spec

(* The assertion of DoProcessQueue, Debug.Assert(poppedCmd == command):     *)
(* while the worker processes a command, yielding the lock of the system    *)
(* where it may, no edit, request or destructor takes the command away.     *)
THEOREM CommandStaysOurs == Spec => []CommandIsOurs
<1>1. ResolveInv => CommandIsOurs
  BY DEF ResolveInv, ProcessInv
<1> QED
  BY <1>1, ResolveCorrect, PTL

(* What CheckLockYield's comment promises of its spinning loop: as long as  *)
(* it spins, a thread is on its way to the lock that will end the spinning. *)
THEOREM SpinningIsShort == Spec => []SpinIsShort
<1>1. ResolveInv => SpinIsShort
  BY DEF ResolveInv
<1> QED
  BY <1>1, ResolveCorrect, PTL

(* ProcessAutocompleteTempType, which saves and puts back the flag of a     *)
(* compile it interrupts, loses a request to cancel (BfCompiler::Cancel)    *)
(* only if it was made meanwhile.  Requests count from where DoCompile has  *)
(* cleared mCanceling; what was asked for before that it does not keep.     *)
THEOREM CancelIsKept == Spec => []CancelIsLostOnlyInAutocomplete
<1>1. ResolveInv => CancelIsLostOnlyInAutocomplete
  BY DEF ResolveInv, RequestInv
<1> QED
  BY <1>1, ResolveCorrect, PTL

(* At most one thread at a time is at a place that needs the lock of the    *)
(* system: a compile that gave way goes on only after it has the lock back  *)
(* (BfSystem::Lock, CheckLockYield).                                        *)
THEOREM LockIsExclusive ==
  Spec => [](\A s, t \in Threads :
               pc[s] \in Holding /\ pc[t] \in Holding => s = t)
<1>1. ResolveInv => \A s, t \in Threads :
                      pc[s] \in Holding /\ pc[t] \in Holding => s = t
  BY DEF ResolveInv, LockInv
<1> QED
  BY <1>1, ResolveCorrect, PTL

==============================================================================
