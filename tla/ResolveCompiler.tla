--------------------------- MODULE ResolveCompiler ----------------------------
(***************************************************************************)
(* The IDE's resolve compiler: the command queue (CommandQueueManager.bf,  *)
(* CompilerBase.bf, BfCompiler.bf), its two background workers, the lock   *)
(* of the compiler's system that they and the main thread share            *)
(* (BfSystem::Lock, CheckLockYield) and the request to cancel a compile    *)
(* (BfCompiler::Cancel).                                                   *)
(*                                                                         *)
(* The queue holds edited sources, named by the version of the program     *)
(* they complete, and commands to resolve everything.  The other commands  *)
(* are processed like a source that changes nothing and are left out, like *)
(* the callbacks of finished jobs and the request for a fast finish.       *)
(***************************************************************************)
EXTENDS Integers, Sequences

CONSTANTS
  MaxEdits,      \* bound: edits of the program
  MaxRequests    \* bound: everything else the user starts

ASSUME ResolveAssumption == MaxEdits \in Nat /\ MaxRequests \in Nat

Workers == {"normal", "hi"}           \* mThreadWorker, mThreadWorkerHi
Threads == Workers \cup {"main"}

(* What a thread does with the lock: the command queue or a full classify   *)
(* (both compile), an autocompletion that interrupts a compile, a lookup    *)
(* that does not, a query that only reads.                                  *)
Jobs == {"queue", "classify", "autocomplete", "lookup", "query"}
Compiles(j) == j \in {"queue", "classify"}
Completes(j) == j \in {"autocomplete", "lookup"}
Priority(j) == IF j = "autocomplete" THEN 1 ELSE 0

VARIABLES
  mCommandQueue, mResolveAllWait, mShuttingDown, mThreadRunning,
  mCanceling,
  lockOwner, mCurSystemLockPri, mPendingSystemLockPri,
  pc, job, resume,          \* resume: where a thread that yielded goes on
  command, passKind,        \* locals of DoProcessQueue
  savedCanceling,           \* locals of ProcessAutocompleteTempType
  then,                     \* what the main thread does after waiting
  version, parsed, resolved,  \* of the program, its parsers, its resolved types
  requests,
  asked, overwritten        \* history: this compile was told to cancel; an
                            \* autocompletion undid a request to cancel

queueVars == <<mCommandQueue, mResolveAllWait, mShuttingDown, command, passKind,
               parsed, resolved>>
lockVars == <<lockOwner, mCurSystemLockPri, mPendingSystemLockPri>>
cancelVars == <<mCanceling, savedCanceling, asked, overwritten>>
userVars == <<version, requests, then>>
vars == <<queueVars, lockVars, cancelVars, userVars, mThreadRunning, pc, job,
          resume>>

None == [kind |-> "none", of |-> 0]
Source(v) == [kind |-> "source", of |-> v]
ResolveAll == [kind |-> "resolve", of |-> 0]

Init ==
  /\ mCommandQueue = <<>> /\ mResolveAllWait = 0 /\ mShuttingDown = FALSE
  /\ mThreadRunning = [w \in Workers |-> FALSE]
  /\ mCanceling = FALSE
  /\ lockOwner = "none" /\ mCurSystemLockPri = -1 /\ mPendingSystemLockPri = -1
  /\ pc = [t \in Threads |-> IF t = "main" THEN "frame" ELSE "off"]
  /\ job = [t \in Threads |-> "query"]
  /\ resume = [t \in Threads |-> "off"]
  /\ command = None /\ passKind = "none"
  /\ savedCanceling = [t \in Threads |-> FALSE]
  /\ then = "frame"
  /\ version = 0 /\ parsed = 0 /\ resolved = 0 /\ requests = 0
  /\ asked = FALSE /\ overwritten = FALSE

ThreadRunning == \E w \in Workers : mThreadRunning[w]
Goto(t, where) == pc' = [pc EXCEPT ![t] = where]

-----------------------------------------------------------------------------
(* The main thread: one turn of its frame at a time.                        *)

InFrame == pc["main"] = "frame" /\ ~mShuttingDown
Request == requests < MaxRequests /\ requests' = requests + 1

(* A source is edited: it is queued and everything is to be resolved.       *)
Edit ==
  /\ InFrame /\ version < MaxEdits
  /\ version' = version + 1
  /\ mCommandQueue' = Append(mCommandQueue, Source(version'))
  /\ mResolveAllWait' = 2
  /\ UNCHANGED <<mShuttingDown, command, passKind, parsed, resolved, lockVars,
                 cancelVars, requests, then, mThreadRunning, pc, job, resume>>

(* ThreadWorkerContext.DoBackground                                         *)
StartWorker(w, j) ==
  /\ mThreadRunning' = [mThreadRunning EXCEPT ![w] = TRUE]
  /\ job' = [job EXCEPT ![w] = j]

Update ==
  LET queue == IF mResolveAllWait = 1 THEN Append(mCommandQueue, ResolveAll)
                                      ELSE mCommandQueue
  IN /\ InFrame /\ ~ThreadRunning
     /\ mResolveAllWait > 0 \/ mCommandQueue # <<>>
     /\ mCommandQueue' = queue
     /\ mResolveAllWait' = IF mResolveAllWait = 0 THEN 0
                                                  ELSE mResolveAllWait - 1
     /\ IF queue = <<>> THEN UNCHANGED <<mThreadRunning, pc, job, passKind>>
        ELSE StartWorker("normal", "queue") /\ Goto("normal", "start")
             /\ passKind' = "none"
     /\ UNCHANGED <<mShuttingDown, command, parsed, resolved, lockVars,
                    cancelVars, userVars, resume>>

(* A compile in progress, suspended or not.                                 *)
Compiling(t) == \/ pc[t] = "compile"
                \/ pc[t] \in {"yield", "relock"} /\ resume[t] = "compile"

(* RequestCancelBackground: only the normal worker's compile is canceled.   *)
RequestCancel ==
  IF mThreadRunning["normal"]
    THEN /\ mCanceling' = TRUE
         /\ asked' = (asked \/ Compiling("normal"))
         /\ UNCHANGED <<savedCanceling, overwritten>>
    ELSE UNCHANGED cancelVars

RequestCancelBackground ==
  /\ InFrame /\ Request /\ RequestCancel
  /\ UNCHANGED <<queueVars, lockVars, version, then, mThreadRunning, pc, job,
                 resume>>

(* CancelBackground, for its own sake, or because the IDE is going to       *)
(* delete the compiler: all who delete a resolve compiler call it first.    *)
CancelAndWait(next) ==
  /\ InFrame /\ Request /\ RequestCancel
  /\ then' = next
  /\ Goto("main", "wait")
  /\ UNCHANGED <<queueVars, lockVars, version, mThreadRunning, job, resume>>

CancelBackground == CancelAndWait("frame")
UnloadCompiler == CancelAndWait("delete")

WaitForHi == ~mThreadRunning["hi"]
WaitForNone == TRUE      \* mutant: CancelBackground does not wait for the queue
WaitForNormal == ~mThreadRunning["normal"]

WaitForBackground ==
  /\ pc["main"] = "wait" /\ WaitForNormal
  /\ Goto("main", "waitHi")
  /\ UNCHANGED <<queueVars, lockVars, cancelVars, userVars, mThreadRunning, job,
                 resume>>

WaitIsOver ==
  /\ pc["main"] = "waitHi" /\ WaitForHi /\ then = "frame"
  /\ Goto("main", "frame")
  /\ UNCHANGED <<queueVars, lockVars, cancelVars, userVars, mThreadRunning, job,
                 resume>>

(* The IDE deletes the compiler now that no worker runs.  ~this deletes the *)
(* commands before it calls CancelBackground itself, which alone would be   *)
(* too late for a worker that processes one of them; it is the order of the *)
(* callers that keeps Pop from finding mShuttingDown.                       *)
Delete ==
  /\ pc["main"] = "waitHi" /\ WaitForHi /\ then = "delete"
  /\ mShuttingDown' = TRUE /\ mCommandQueue' = <<>>
  /\ Goto("main", "frame")
  /\ UNCHANGED <<mResolveAllWait, command, passKind, parsed, resolved, lockVars,
                 cancelVars, userVars, mThreadRunning, job, resume>>

(* The callers of both see to it that the worker is free; those of the      *)
(* first that both are, so that its CancelBackground finds nothing to do.   *)
DoBackground ==
  /\ InFrame /\ Request /\ ~ThreadRunning
  /\ \E j \in {"classify", "query"} :
       (j = "classify" => mCommandQueue = <<>>) /\ StartWorker("normal", j)
  /\ Goto("normal", "start")
  /\ UNCHANGED <<queueVars, lockVars, cancelVars, version, then, resume>>

DoBackgroundHi ==
  /\ InFrame /\ Request /\ ~mThreadRunning["hi"]
  /\ \E j \in {"autocomplete", "lookup"} : StartWorker("hi", j)
  /\ Goto("hi", "start")
  /\ UNCHANGED <<queueVars, lockVars, cancelVars, version, then, resume>>

(* The main thread autocompletes or looks something up itself.              *)
MainWork ==
  /\ InFrame /\ Request
  /\ \E j \in {"autocomplete", "query"} : job' = [job EXCEPT !["main"] = j]
  /\ Goto("main", "start")
  /\ UNCHANGED <<queueVars, lockVars, cancelVars, version, then, mThreadRunning,
                 resume>>

-----------------------------------------------------------------------------
(* The lock.                                                                *)

(* BfSystem::Lock by thread t with priority p.                              *)
KeepPending(p) == UNCHANGED mPendingSystemLockPri   \* mutant of ClearPending
ClearPending(p) ==
  mPendingSystemLockPri' =
    IF mPendingSystemLockPri = p THEN -1 ELSE mPendingSystemLockPri

Lock(t, p) ==
  /\ lockOwner = "none" /\ lockOwner' = t
  /\ mCurSystemLockPri' = p
  /\ ClearPending(p)

Notify(t) ==
  /\ pc[t] = "start"
  /\ mPendingSystemLockPri' =
       IF job[t] = "autocomplete" THEN 1 ELSE mPendingSystemLockPri
  /\ Goto(t, "lock")
  /\ UNCHANGED <<queueVars, lockOwner, mCurSystemLockPri, cancelVars, userVars,
                 mThreadRunning, job, resume>>

Acquire(t) ==
  /\ pc[t] = "lock" /\ Lock(t, Priority(job[t]))
  /\ Goto(t, CASE job[t] = "queue" -> "next"
               [] job[t] = "classify" -> "begin"
               [] Completes(job[t]) -> "complete"
               [] job[t] = "query" -> "unlock")
  /\ UNCHANGED <<queueVars, cancelVars, userVars, mThreadRunning, job, resume>>

CanYield(t) == \/ pc[t] = "compile"
               \/ pc[t] = "command" /\ command.kind = "source"

YieldHolding(t) ==       \* mutant: the lock is not given up while waiting
  /\ CanYield(t)
  /\ mPendingSystemLockPri > mCurSystemLockPri
  /\ resume' = [resume EXCEPT ![t] = pc[t]]
  /\ Goto(t, "yield")
  /\ UNCHANGED <<queueVars, lockVars, cancelVars, userVars, mThreadRunning,
                 job>>

(* CheckLockYield, called all through parsing and compiling.                *)
Yield(t) ==
  /\ CanYield(t)
  /\ mPendingSystemLockPri > mCurSystemLockPri
  /\ lockOwner' = "none"
  /\ resume' = [resume EXCEPT ![t] = pc[t]]
  /\ Goto(t, "yield")
  /\ UNCHANGED <<queueVars, mCurSystemLockPri, mPendingSystemLockPri,
                 cancelVars, userVars, mThreadRunning, job>>

Spin(t) ==
  /\ pc[t] = "yield" /\ mPendingSystemLockPri = -1
  /\ Goto(t, "relock")
  /\ UNCHANGED <<queueVars, lockVars, cancelVars, userVars, mThreadRunning, job,
                 resume>>

Relock(t) ==
  /\ pc[t] = "relock" /\ Lock(t, Priority(job[t]))
  /\ Goto(t, resume[t])
  /\ resume' = [resume EXCEPT ![t] = "off"]
  /\ UNCHANGED <<queueVars, cancelVars, userVars, mThreadRunning, job>>

Unlock(t) ==
  /\ pc[t] = "unlock"
  /\ lockOwner' = "none" /\ mCurSystemLockPri' = -1
  /\ Goto(t, IF t = "main" THEN "frame" ELSE "end")
  /\ UNCHANGED <<queueVars, mPendingSystemLockPri, cancelVars, userVars,
                 mThreadRunning, job, resume>>

(* A lookup has everything resolved again when it is done.                  *)
EndThread(w) ==
  /\ pc[w] = "end"
  /\ mThreadRunning' = [mThreadRunning EXCEPT ![w] = FALSE]
  /\ mResolveAllWait' = IF job[w] = "lookup" THEN 2 ELSE mResolveAllWait
  /\ job' = [job EXCEPT ![w] = "query"]
  /\ Goto(w, "off")
  /\ UNCHANGED <<mCommandQueue, mShuttingDown, command, passKind, parsed,
                 resolved, lockVars, cancelVars, userVars, resume>>

-----------------------------------------------------------------------------
(* DoProcessQueue, holding the system's lock.                               *)

NextCommand ==
  /\ pc["normal"] = "next"
  /\ IF mCommandQueue = <<>> THEN command' = None /\ Goto("normal", "unlock")
     ELSE command' = Head(mCommandQueue) /\ Goto("normal", "command")
  /\ UNCHANGED <<mCommandQueue, mResolveAllWait, mShuttingDown, passKind,
                 parsed, resolved, lockVars, cancelVars, userVars,
                 mThreadRunning, job, resume>>

ParseSource ==
  /\ pc["normal"] = "command" /\ command.kind = "source"
  /\ parsed' = command.of /\ passKind' = "parse"
  /\ Goto("normal", "pop")
  /\ UNCHANGED <<mCommandQueue, mResolveAllWait, mShuttingDown, command,
                 resolved, lockVars, cancelVars, userVars, mThreadRunning, job,
                 resume>>

(* A pass is either for parsing or for resolving: after a source the        *)
(* command is left in the queue.                                            *)
ProcessResolveAll ==
  /\ pc["normal"] = "command" /\ command.kind = "resolve"
  /\ IF passKind = "none" THEN Goto("normal", "begin") /\ UNCHANGED command
                          ELSE Goto("normal", "unlock") /\ command' = None
  /\ UNCHANGED <<mCommandQueue, mResolveAllWait, mShuttingDown, passKind,
                 parsed, resolved, lockVars, cancelVars, userVars,
                 mThreadRunning, job, resume>>

(* BfCompiler::DoCompile                                                    *)
BeginCompile ==
  /\ pc["normal"] = "begin"
  /\ mCanceling' = FALSE /\ asked' = FALSE /\ overwritten' = FALSE
  /\ Goto("normal", "compile")
  /\ UNCHANGED <<queueVars, lockVars, savedCanceling, userVars, mThreadRunning,
                 job, resume>>

DropCanceled ==          \* mutant: what was canceled is not tried again
  /\ UNCHANGED mResolveAllWait
  /\ resolved' = IF mCanceling \/ job["normal"] # "queue" THEN resolved
                                                         ELSE parsed

DeferCanceled ==
  /\ mResolveAllWait' = IF mCanceling THEN 2 ELSE mResolveAllWait
  /\ resolved' = IF mCanceling \/ job["normal"] # "queue" THEN resolved
                                                         ELSE parsed

EndCompile ==
  /\ pc["normal"] = "compile"
  /\ DeferCanceled
  /\ mCanceling' = FALSE /\ asked' = FALSE /\ overwritten' = FALSE
  /\ passKind' = IF job["normal"] = "queue" THEN "classify" ELSE passKind
  /\ Goto("normal", IF job["normal"] = "queue" THEN "pop" ELSE "unlock")
  /\ UNCHANGED <<mCommandQueue, mShuttingDown, command, parsed, lockVars,
                 savedCanceling, userVars, mThreadRunning, job, resume>>

Pop ==
  /\ pc["normal"] = "pop"
  /\ mCommandQueue' = IF mShuttingDown THEN mCommandQueue
                                       ELSE Tail(mCommandQueue)
  /\ command' = None
  /\ Goto("normal", IF passKind = "classify" THEN "unlock" ELSE "next")
  /\ UNCHANGED <<mResolveAllWait, mShuttingDown, passKind, parsed, resolved,
                 lockVars, cancelVars, userVars, mThreadRunning, job, resume>>

(* BfCompiler::ProcessAutocompleteTempType                                  *)
BeginComplete(t) ==
  /\ pc[t] = "complete"
  /\ savedCanceling' = [savedCanceling EXCEPT ![t] = mCanceling]
  /\ mCanceling' = FALSE
  /\ Goto(t, "completing")
  /\ UNCHANGED <<queueVars, lockVars, asked, overwritten, userVars,
                 mThreadRunning, job, resume>>

EndCompleteCleared(t) ==   \* mutant: the old value is not put back
  /\ pc[t] = "completing"
  /\ mCanceling' = FALSE
  /\ overwritten' = (overwritten \/ (mCanceling /\ ~savedCanceling[t]))
  /\ Goto(t, "unlock")
  /\ UNCHANGED <<queueVars, lockVars, savedCanceling, asked, userVars,
                 mThreadRunning, job, resume>>

EndComplete(t) ==
  /\ pc[t] = "completing"
  /\ mCanceling' = savedCanceling[t]
  /\ overwritten' = (overwritten \/ (mCanceling /\ ~savedCanceling[t]))
  /\ savedCanceling' = [savedCanceling EXCEPT ![t] = FALSE]
  /\ Goto(t, "unlock")
  /\ UNCHANGED <<queueVars, lockVars, asked, userVars, mThreadRunning, job,
                 resume>>

-----------------------------------------------------------------------------
MainStep ==
  \/ WaitForBackground \/ WaitIsOver \/ Delete

QueueStep ==
  \/ NextCommand \/ ParseSource \/ ProcessResolveAll
  \/ BeginCompile \/ EndCompile \/ Pop

LockStep ==
  \E t \in Threads :
    \/ Notify(t) \/ Acquire(t) \/ Yield(t) \/ Spin(t) \/ Relock(t) \/ Unlock(t)
    \/ BeginComplete(t) \/ EndComplete(t)

UserStep ==
  \/ Edit \/ RequestCancelBackground \/ CancelBackground \/ UnloadCompiler
  \/ DoBackground \/ DoBackgroundHi \/ MainWork

Next ==
  \/ UserStep \/ Update \/ MainStep \/ QueueStep \/ LockStep
  \/ \E w \in Workers : EndThread(w)

(* Every thread goes on, and the frames of the main thread follow one       *)
(* another; nobody has to do anything but that.                             *)
Fairness ==
  /\ WF_vars(Update) /\ WF_vars(MainStep) /\ WF_vars(QueueStep)
  /\ \A w \in Workers : WF_vars(EndThread(w))
  /\ \A t \in Threads :
       /\ WF_vars(Notify(t)) /\ WF_vars(Acquire(t)) /\ WF_vars(Spin(t))
       /\ WF_vars(Relock(t)) /\ WF_vars(Unlock(t))
       /\ WF_vars(BeginComplete(t)) /\ WF_vars(EndComplete(t))

Spec == Init /\ [][Next]_vars
FairSpec == Spec /\ Fairness

-----------------------------------------------------------------------------
TypeOK ==
  /\ mResolveAllWait \in 0..2 /\ parsed \in 0..version /\ resolved \in 0..parsed
  /\ mCommandQueue \in Seq({ResolveAll} \cup {Source(v) : v \in 1..MaxEdits})
  /\ command \in {None, ResolveAll} \cup {Source(v) : v \in 1..MaxEdits}
  /\ mThreadRunning \in [Workers -> BOOLEAN]
  /\ job \in [Threads -> Jobs]
  /\ lockOwner \in Threads \cup {"none"}
  /\ {mCurSystemLockPri, mPendingSystemLockPri} \subseteq {-1, 0, 1}
  /\ {mCanceling, mShuttingDown, asked, overwritten} \subseteq BOOLEAN

(* Debug.Assert(poppedCmd == command): from reading the head of the queue   *)
(* to popping it, through any number of yields, edits and requests, the     *)
(* command stays the head, and nobody else deletes it (~this does).         *)
CommandIsOurs ==
  command # None =>
    /\ ~mShuttingDown
    /\ mCommandQueue # <<>> /\ Head(mCommandQueue) = command

(* "This only spins between the time we get a NotifyWillRequestLock and     *)
(* when that thread actually does the Lock" (CheckLockYield): whoever       *)
(* spins, there is a thread on its way to the lock that ends it.            *)
SpinIsShort ==
  mPendingSystemLockPri # -1 =>
    \E t \in Threads : /\ pc[t] = "lock"
                       /\ Priority(job[t]) = mPendingSystemLockPri

(* A compile that was told to cancel still knows it, unless it was told     *)
(* while an autocompletion interrupted it, which puts the old value back.   *)
(* This is about requests from the start of DoCompile on: one that comes    *)
(* before is cleared there (BeginCompile).                                  *)
CancelIsLostOnlyInAutocomplete ==
  asked /\ ~mCanceling =>
    overwritten \/ \E t \in Threads : pc[t] = "completing"

(* Every edit is resolved once the user lets the compiler work, however     *)
(* often the resolving was canceled, deferred or interrupted.               *)
EveryEditIsResolved == <>[](resolved = version \/ mShuttingDown)

(* The main thread never hangs: waiting for the workers and for the lock    *)
(* ends.                                                                    *)
MainReturns == pc["main"] # "frame" ~> pc["main"] = "frame"
==============================================================================
