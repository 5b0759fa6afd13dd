------------------------------ MODULE BfCodeGen ------------------------------
(***************************************************************************)
(* The code generation threads of the compiler                             *)
(* (IDEHelper/Compiler/BfCodeGen.cpp) and the part of BfCompiler::DoCompile *)
(* that drives them.  The compiler's thread queues one request per module  *)
(* and build, then polls Finish until every request is accounted for; the  *)
(* threads it leaves behind (mOldThreads) end on their own, while the next *)
(* build may already run.  Results are read without the lock they are      *)
(* written under, and requests and threads are deleted by the compiler's   *)
(* thread as soon as one flag says that they are done.                     *)
(*                                                                         *)
(* Every wait of this code has a timeout of 20 ms and is a poll: the two   *)
(* events (mRequestEvent, mDoneEvent) only shorten it and are left out.    *)
(* DoneCached is Done here; BfCodeGenCache is about the difference.  The   *)
(* release thunk (debug builds of the compiler itself) is left out.        *)
(***************************************************************************)
EXTENDS Integers, Sequences, FiniteSets, SequencesExt

CONSTANTS
  Modules,          \* BfModules that have code, one output file each
  Changed,          \* bound: per build of the session, the modules that the
                    \* sources require to be compiled again
  MaxRequests,      \* bound: requests of one session
  mMaxThreadCount,
  NoReq             \* NULL

ASSUME CodeGenAssumption ==
  /\ Changed \in Seq(SUBSET Modules) /\ MaxRequests \in Nat
  /\ mMaxThreadCount \in Nat \ {0}
  /\ NoReq \notin Modules \X (1..Len(Changed))

MaxBuilds == Len(Changed)

Reqs == Modules \X (1..MaxBuilds)     \* BfCodeGenRequests: <<module, build>>
Threads == 1..MaxRequests             \* BfCodeGenThread objects
Outcomes == {"Done", "Failed"}

VARIABLES
  mpc,              \* where the compiler's thread is
  build,            \* builds begun so far
  written,          \* modules given to WriteObjectFile in this build
  mCanceling,       \* BfCompiler::mCanceling, set by the IDE's thread
  mRequests, mPendingRequests,
  mRequestIdx,
  mThreads, mOldThreads,
  mFailedRequests, mCodeGenFiles,        \* modules, per outcome
  mHadBuildError,   \* modules with BfModule::mHadBuildError
  mResult,          \* per request: mResult.mType; NotDone once it is deleted
  freed,            \* requests and threads that have been deleted
  pc, req, result,  \* per thread: where it is in RunLoop, its locals
  mRunning, mShuttingDown,               \* per thread
  disk,             \* per module: the build its object file is from, 0: none
  aborted           \* history: requests that Finish has aborted

buildVars == <<build, written, mCanceling>>
requestVars == <<mRequests, mPendingRequests, mRequestIdx>>
listVars == <<mThreads, mOldThreads>>
resultVars == <<mFailedRequests, mCodeGenFiles, mHadBuildError>>
memoryVars == <<mResult, freed, aborted>>
workVars == <<req, result, disk>>
threadVars == <<pc, mRunning, mShuttingDown>>
vars == <<mpc, buildVars, requestVars, listVars, resultVars, memoryVars,
          workVars, threadVars>>

Init ==
  /\ mpc = "idle" /\ build = 0 /\ written = {} /\ mCanceling = FALSE
  /\ mRequests = <<>> /\ mPendingRequests = <<>> /\ mRequestIdx = 0
  /\ mThreads = <<>> /\ mOldThreads = <<>>
  /\ mFailedRequests = {} /\ mCodeGenFiles = {} /\ mHadBuildError = {}
  /\ mResult = [r \in Reqs |-> "NotDone"]
  /\ freed = [requests |-> {}, threads |-> {}]
  /\ pc = [t \in Threads |-> "none"]
  /\ req = [t \in Threads |-> NoReq]
  /\ result = [t \in Threads |-> "NotDone"]
  /\ mRunning = [t \in Threads |-> FALSE]
  /\ mShuttingDown = [t \in Threads |-> FALSE]
  /\ disk = [m \in Modules |-> 0]
  /\ aborted = {}

(* mPendingRequestCritSect is held across more than one step only while a   *)
(* thread copies its result.                                                *)
Unlocked == \A t \in Threads : pc[t] # "copy"

-----------------------------------------------------------------------------
(* The compiler's thread: a build up to its last module.                    *)

(* CompileCompile's beginning: ClearResults, ResetStats, mCanceling = false. *)
StartCompile ==
  /\ mpc = "idle" /\ build < MaxBuilds
  /\ mpc' = "compile" /\ build' = build + 1 /\ written' = {}
  /\ mCanceling' = FALSE
  /\ mFailedRequests' = {} /\ mCodeGenFiles' = {}
  /\ UNCHANGED <<requestVars, listVars, mHadBuildError, memoryVars, workVars,
                 threadVars>>

(* DoWriteObjectFile starts a thread while there are fewer than            *)
(* mMaxThreadCount of this build.                                           *)
NewThread == CHOOSE t \in Threads : pc[t] = "none"

WantsThread == mRequestIdx % mMaxThreadCount >= Len(mThreads)

(* WriteObjectFile, for a module that the front end has compiled (again) in *)
(* this build: its new revision began with mHadBuildError = false.          *)
WriteObjectFile(m) ==
  /\ mpc = "compile" /\ Unlocked
  /\ m \in (Changed[build] \cup mHadBuildError) \ written
  /\ Cardinality(freed.requests) + Len(mRequests) < MaxRequests
  /\ written' = written \cup {m}
  /\ mHadBuildError' = mHadBuildError \ {m}
  /\ mRequests' = Append(mRequests, <<m, build>>)
  /\ mPendingRequests' = Append(mPendingRequests, <<m, build>>)
  /\ mRequestIdx' = mRequestIdx + 1
  /\ IF WantsThread
       THEN /\ mThreads' = Append(mThreads, NewThread)
            /\ mRunning' = [mRunning EXCEPT ![NewThread] = TRUE]
            /\ pc' = [pc EXCEPT ![NewThread] = "test"]
       ELSE UNCHANGED <<mThreads, mRunning, pc>>
  /\ UNCHANGED <<mpc, build, mCanceling, mOldThreads, mFailedRequests,
                 mCodeGenFiles, memoryVars, workVars, mShuttingDown>>

(* The head of mRequests has a result (mType is read without the lock):     *)
(* RequestComplete, delete, RemoveAt.                                       *)
HeadIsDone == mRequests # <<>> /\ mResult[Head(mRequests)] # "NotDone"

CompleteHead ==
  LET r == Head(mRequests) IN
    /\ IF mResult[r] \in {"Failed", "Aborted"}
         THEN /\ mFailedRequests' = mFailedRequests \cup {r[1]}
              /\ UNCHANGED mCodeGenFiles
         ELSE /\ mCodeGenFiles' = mCodeGenFiles \cup {r[1]}
              /\ UNCHANGED mFailedRequests
    /\ freed' = [freed EXCEPT !.requests = @ \cup {r}]
    /\ mResult' = [mResult EXCEPT ![r] = "NotDone"]
    /\ mRequests' = Tail(mRequests)

(* UpdateStats, which the front end calls all the time (UpdateCompletion).  *)
UpdateStats ==
  /\ mpc = "compile" /\ HeadIsDone
  /\ CompleteHead
  /\ UNCHANGED <<mpc, buildVars, mPendingRequests, mRequestIdx, listVars,
                 mHadBuildError, aborted, workVars, threadVars>>

CompileDone ==
  /\ mpc = "compile" /\ mpc' = "loop"
  /\ UNCHANGED <<buildVars, requestVars, listVars, resultVars, memoryVars,
                 workVars, threadVars>>

(* BfCompiler::Cancel, asynchronously, from the IDE's thread.  After the    *)
(* last test of mCanceling it has no effect here.                           *)
CompilerCancel ==
  /\ mpc \in {"compile", "loop", "finish", "scan", "update"} /\ ~mCanceling
  /\ mCanceling' = TRUE
  /\ UNCHANGED <<mpc, build, written, requestVars, listVars, resultVars,
                 memoryVars, workVars, threadVars>>

-----------------------------------------------------------------------------
(* The compiler's thread: waiting for the code generation.                  *)

(* for (auto thread : mThreads) thread->mShuttingDown = true, here and in    *)
(* Finish.                                                                  *)
AllShuttingDown == [t \in Threads |-> mShuttingDown[t] \/ t \in ToSet(mThreads)]

(* The beginning of a round: if (mCanceling) mCodeGen.Cancel().             *)
TestCancel ==
  /\ mpc = "loop" /\ mpc' = "finish"
  /\ mShuttingDown' = IF mCanceling THEN AllShuttingDown ELSE mShuttingDown
  /\ UNCHANGED <<buildVars, requestVars, listVars, resultVars, memoryVars,
                 workVars, pc, mRunning>>

(* Finish: the first request is not done, ...                               *)
FinishNotDone ==
  /\ mpc = "finish" /\ mRequests # <<>> /\ ~HeadIsDone
  /\ mpc' = "scan"
  /\ UNCHANGED <<buildVars, requestVars, listVars, resultVars, memoryVars,
                 workVars, threadVars>>

(* ... so it waits as long as a thread of this build runs.  A thread stays  *)
(* ended, so the loop over mThreads is one step.                            *)
HasAnyThread == mThreads # <<>>     \* mutant
HasRunningThreads == \E t \in ToSet(mThreads) : mRunning[t]

FinishWaits ==
  /\ mpc = "scan" /\ HasRunningThreads
  /\ mpc' = "finish"
  /\ UNCHANGED <<buildVars, requestVars, listVars, resultVars, memoryVars,
                 workVars, threadVars>>

(* Mutants: a cancel aborts what a thread is working on; an aborted request *)
(* counts as done.                                                          *)
FinishAbortsTaken ==
  /\ mpc = "scan" /\ (mCanceling \/ ~HasRunningThreads)
  /\ mpc' = "finish"
  /\ mPendingRequests' = <<>>
  /\ mResult' = [mResult EXCEPT ![Head(mRequests)] = "Aborted"]
  /\ aborted' = aborted \cup {Head(mRequests)}
  /\ UNCHANGED <<buildVars, mRequests, mRequestIdx, listVars, resultVars, freed,
                 workVars, threadVars>>

FinishAbortsAsDone ==
  /\ mpc = "scan" /\ ~HasRunningThreads
  /\ mpc' = "finish"
  /\ mPendingRequests' = <<>>
  /\ mResult' = [mResult EXCEPT ![Head(mRequests)] = "Done"]
  /\ aborted' = aborted \cup {Head(mRequests)}
  /\ UNCHANGED <<buildVars, mRequests, mRequestIdx, listVars, resultVars, freed,
                 workVars, threadVars>>

FinishAborts ==
  /\ mpc = "scan" /\ ~HasRunningThreads
  /\ mpc' = "finish"
  /\ mPendingRequests' = <<>>
  /\ mResult' = [mResult EXCEPT ![Head(mRequests)] = "Aborted"]
  /\ aborted' = aborted \cup {Head(mRequests)}
  /\ UNCHANGED <<buildVars, mRequests, mRequestIdx, listVars, resultVars, freed,
                 workVars, threadVars>>

(* Finish returns false after one request, UpdateCompletion follows.        *)
FinishOne ==
  /\ mpc = "finish" /\ HeadIsDone
  /\ CompleteHead
  /\ mpc' = "update"
  /\ UNCHANGED <<buildVars, mPendingRequests, mRequestIdx, listVars,
                 mHadBuildError, aborted, workVars, threadVars>>

UpdateCompletion ==
  /\ mpc = "update" /\ mpc' = "loop"
  /\ IF HeadIsDone THEN CompleteHead
                   ELSE UNCHANGED <<mFailedRequests, mCodeGenFiles, freed,
                                    mResult, mRequests>>
  /\ UNCHANGED <<buildVars, mPendingRequests, mRequestIdx, listVars,
                 mHadBuildError, aborted, workVars, threadVars>>

(* Finish, no request left: the threads are told to end and set aside.      *)
FinishShutsDown ==
  /\ mpc = "finish" /\ mRequests = <<>>
  /\ mpc' = "clear"
  /\ mShuttingDown' = AllShuttingDown
  /\ mOldThreads' = mOldThreads \o mThreads
  /\ mThreads' = <<>>
  /\ UNCHANGED <<buildVars, requestVars, resultVars, memoryVars, workVars, pc,
                 mRunning>>

(* ClearOldThreads(false): those that have ended are deleted, up to the     *)
(* first one that has not; then the rest of Finish, which returns true.     *)
DeleteOldThread ==
  /\ freed' = [freed EXCEPT !.threads = @ \cup {Head(mOldThreads)}]
  /\ mOldThreads' = Tail(mOldThreads)

ClearOldThreadAtOnce ==   \* mutant: goes by mShuttingDown
  /\ mpc = "clear" /\ mOldThreads # <<>> /\ mShuttingDown[Head(mOldThreads)]
  /\ DeleteOldThread
  /\ UNCHANGED <<mpc, buildVars, requestVars, mThreads, resultVars, mResult,
                 aborted, workVars, threadVars>>

ClearOldThread ==
  /\ mpc = "clear" /\ mOldThreads # <<>> /\ ~mRunning[Head(mOldThreads)]
  /\ DeleteOldThread
  /\ UNCHANGED <<mpc, buildVars, requestVars, mThreads, resultVars, mResult,
                 aborted, workVars, threadVars>>

FinishDone ==
  /\ mpc = "clear" /\ (mOldThreads # <<>> => mRunning[Head(mOldThreads)])
  /\ mpc' = "errors"
  /\ mRequestIdx' = 0
  /\ UNCHANGED <<buildVars, mRequests, mPendingRequests, listVars, resultVars,
                 memoryVars, workVars, threadVars>>

(* ProcessErrors, the end of the build.                                     *)
ProcessErrorsUnlessCanceled ==   \* mutant
  /\ mpc = "errors" /\ mpc' = "idle"
  /\ mHadBuildError' = IF mCanceling THEN mHadBuildError
                        ELSE mHadBuildError \cup mFailedRequests
  /\ mFailedRequests' = {}
  /\ UNCHANGED <<buildVars, requestVars, listVars, mCodeGenFiles, memoryVars,
                 workVars, threadVars>>

ProcessErrors ==
  /\ mpc = "errors" /\ mpc' = "idle"
  /\ mHadBuildError' = mHadBuildError \cup mFailedRequests
  /\ mFailedRequests' = {}
  /\ UNCHANGED <<buildVars, requestVars, listVars, mCodeGenFiles, memoryVars,
                 workVars, threadVars>>

(* ~BfCodeGen, between builds: ClearOldThreads(true) shuts down one thread  *)
(* after the other; mThreads and mRequests are empty.                       *)
Destroy ==
  /\ mpc \in {"idle", "destroy"}
  /\ IF mOldThreads = <<>>
       THEN mpc' = "gone" /\ UNCHANGED <<mOldThreads, freed, mShuttingDown>>
       ELSE /\ mpc' = "destroy"
            /\ mShuttingDown' = [mShuttingDown EXCEPT
                                    ![Head(mOldThreads)] = TRUE]
            /\ IF mRunning[Head(mOldThreads)]
                 THEN UNCHANGED <<mOldThreads, freed>>
                 ELSE DeleteOldThread
  /\ UNCHANGED <<buildVars, requestVars, mThreads, resultVars, mResult, aborted,
                 workVars, pc, mRunning>>

-----------------------------------------------------------------------------
(* A code generation thread: RunLoop.                                       *)

Goto(t, from, to) == pc[t] = from /\ pc' = [pc EXCEPT ![t] = to]

(* while (!mShuttingDown), or else mRunning = false.                        *)
TestShuttingDown(t) ==
  /\ ~mShuttingDown[t] /\ Goto(t, "test", "take")
  /\ UNCHANGED <<mpc, buildVars, requestVars, listVars, resultVars, memoryVars,
                 workVars, mRunning, mShuttingDown>>

EndRunning(t) ==
  /\ mShuttingDown[t] /\ Goto(t, "test", "signal")
  /\ mRunning' = [mRunning EXCEPT ![t] = FALSE]
  /\ UNCHANGED <<mpc, buildVars, requestVars, listVars, resultVars, memoryVars,
                 workVars, mShuttingDown>>

TakeRequest(t) ==
  /\ Unlocked
  /\ IF mPendingRequests = <<>>
       THEN Goto(t, "take", "test") /\ UNCHANGED <<mPendingRequests, req>>
       ELSE /\ Goto(t, "take", "work")
            /\ mPendingRequests' = Tail(mPendingRequests)
            /\ req' = [req EXCEPT ![t] = Head(mPendingRequests)]
  /\ UNCHANGED <<mpc, buildVars, mRequests, mRequestIdx, listVars, resultVars,
                 memoryVars, result, disk, mRunning, mShuttingDown>>

(* The back end runs and writes the object file, or fails.                  *)
Generate(t, outcome) ==
  /\ Goto(t, "work", "store")
  /\ result' = [result EXCEPT ![t] = outcome]
  /\ disk' = IF outcome = "Done" THEN [disk EXCEPT ![req[t][1]] = req[t][2]]
                                 ELSE disk
  /\ UNCHANGED <<mpc, buildVars, requestVars, listVars, resultVars, memoryVars,
                 req, mRunning, mShuttingDown>>

(* request->mResult = result, under the lock: mType is the first member of  *)
(* the structure, a buffer of a kilobyte follows.  The compiler's thread     *)
(* takes no lock to read it.                                                *)
StoreResult(t) ==
  /\ Unlocked /\ Goto(t, "store", "copy")
  /\ mResult' = [mResult EXCEPT ![req[t]] = IF req[t] \in freed.requests
                                              THEN "NotDone" ELSE result[t]]
  /\ UNCHANGED <<mpc, buildVars, requestVars, listVars, resultVars, freed,
                 aborted, workVars, mRunning, mShuttingDown>>

CopyDone(t) ==
  /\ Goto(t, "copy", "test")
  /\ req' = [req EXCEPT ![t] = NoReq]
  /\ result' = [result EXCEPT ![t] = "NotDone"]
  /\ UNCHANGED <<mpc, buildVars, requestVars, listVars, resultVars, memoryVars,
                 disk, mRunning, mShuttingDown>>

(* mCodeGen->mDoneEvent.Set(), read through the thread object.              *)
LastSignal(t) ==
  /\ Goto(t, "signal", "ended")
  /\ UNCHANGED <<mpc, buildVars, requestVars, listVars, resultVars, memoryVars,
                 workVars, mRunning, mShuttingDown>>

-----------------------------------------------------------------------------
Finishing ==
  \/ TestCancel \/ FinishNotDone \/ FinishWaits \/ FinishAborts \/ FinishOne
  \/ UpdateCompletion \/ FinishShutsDown \/ ClearOldThread \/ FinishDone
  \/ ProcessErrors

RunLoop(t) ==
  \/ TestShuttingDown(t) \/ TakeRequest(t)
  \/ \E outcome \in Outcomes : Generate(t, outcome)
  \/ StoreResult(t) \/ CopyDone(t) \/ EndRunning(t) \/ LastSignal(t)

Next ==
  \/ StartCompile \/ UpdateStats \/ CompileDone \/ CompilerCancel \/ Destroy
  \/ \E m \in Modules : WriteObjectFile(m)
  \/ Finishing
  \/ \E t \in Threads : RunLoop(t)

Spec == Init /\ [][Next]_vars

(* The compiler's thread and the code generation threads are scheduled by   *)
(* the operating system, and the back end comes to an end.                  *)
Fairness == WF_vars(Finishing) /\ \A t \in Threads : WF_vars(RunLoop(t))

FairSpec == Spec /\ Fairness

-----------------------------------------------------------------------------
TypeOK ==
  /\ mpc \in {"idle", "compile", "loop", "finish", "scan", "update", "clear",
              "errors", "destroy", "gone"}
  /\ build \in 0..MaxBuilds /\ written \subseteq Modules
  /\ mCanceling \in BOOLEAN
  /\ mRequests \in Seq(Reqs) /\ mPendingRequests \in Seq(Reqs)
  /\ mRequestIdx \in Nat
  /\ mThreads \in Seq(Threads) /\ mOldThreads \in Seq(Threads)
  /\ mFailedRequests \subseteq Modules /\ mCodeGenFiles \subseteq Modules
  /\ mHadBuildError \subseteq Modules
  /\ mResult \in [Reqs -> Outcomes \cup {"NotDone", "Aborted"}]
  /\ freed \in [requests : SUBSET Reqs, threads : SUBSET Threads]
  /\ pc \in [Threads -> {"none", "test", "take", "work", "store", "copy",
                         "signal", "ended"}]
  /\ req \in [Threads -> Reqs \cup {NoReq}]
  /\ result \in [Threads -> Outcomes \cup {"NotDone"}]
  /\ mRunning \in [Threads -> BOOLEAN] /\ mShuttingDown \in [Threads -> BOOLEAN]
  /\ disk \in [Modules -> 0..MaxBuilds] /\ aborted \subseteq Reqs

(* A thread works on a request that the compiler's thread has deleted in    *)
(* two cases only: mType is stored and the rest of the result is still      *)
(* being copied, or a thread that an earlier build left behind had taken    *)
(* the request and Finish, seeing no thread of its own, aborted it.         *)
RequestInUse ==
  \A t \in Threads :
    req[t] \in freed.requests =>
      \/ pc[t] = "copy"
      \/ req[t] \in aborted /\ t \notin ToSet(mThreads)

(* A thread object is deleted, and BfCodeGen with its last one, only when   *)
(* nothing of RunLoop is left but the last signal.                          *)
ThreadInUse ==
  \A t \in Threads :
    t \in freed.threads \/ mpc = "gone" => pc[t] \in {"none", "signal", "ended"}

(* Between builds every module that was written is in mCodeGenFiles or will *)
(* be built again (mHadBuildError), and not both.                           *)
NoModuleIsLost ==
  mpc = "idle" =>
    \A m \in written : m \in mCodeGenFiles <=> m \notin mHadBuildError

(* Between builds the object file of a module in mCodeGenFiles is the one   *)
(* of this build, unless a left-behind thread has overwritten it for a      *)
(* request that was aborted.                                                *)
ObjectIsCurrent ==
  mpc = "idle" =>
    \A m \in mCodeGenFiles :
      disk[m] = build \/ <<m, disk[m]>> \in aborted

(* Every build comes to its end, canceled or not.                           *)
BuildEnds == mpc = "loop" ~> mpc = "idle"
==============================================================================
