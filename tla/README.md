# Verification of Beef: the concurrent parts

Beef is a systems language with manual memory management: a compiler
(`IDEHelper/Compiler`), a debugger and an IDE, a core library (`BeefLibs/corlib`)
and a debug runtime (`BeefRT/dbg`). This project models the parts in which
several threads, or several activations of the same code, meet in little state:

* the debug runtime's real-time leak check: a collector thread that stops the
  program, marks what it can reach, lets it run again and sweeps *while it runs*,
  frees what the program has deleted and reports what it has lost. The program
  writes the very byte the collector keeps its marks in, mostly without a lock;
* the native thread pool;
* the compiler's code generation threads and the build cache they share with
  earlier sessions and other compilers;
* the IDE's resolve compiler: a command queue, two workers, the lock of the
  compiler's system that can be asked to yield, and the flag that cancels;
* the core library's `Event`, whose handlers change the event while it runs.

The modules are translated from the source; `PROJECT.json` maps each definition
to the lines it stands for.

## 1. Inventory

| Part | State | Operations | What makes it hard | What makes it correct |
|---|---|---|---|---|
| Collection cycle (`gc.cpp`, `DbgInternal.cpp`) | object heap; per object mark id 0..3, DELETED, STACK_ALLOC and `mDbgAllocInfo`; mark queue; finalize list; leak list | `Dbg_ObjectAlloc` (two versions), `Dbg_MarkObjectDeleted`, `DoCollect`, `MarkFromGCThread`, `HandlePendingGCData`, `Sweep`, `FinishCollect`, `ProcessSweepInfo` | threads are stopped at any instruction; two of three writers of the flags byte are plain stores; the queue cannot grow; mark ids wrap | nothing reachable is freed or reported; only deleted objects are freed; deleted garbage is freed; collections end |
| Control (`gc.cpp`: `Run`, `Collect`, `StopCollecting`, `Shutdown`) | two events, five flags, a period | wait, collect, signal; request; stop; last sweep | flags without locks, poll against wait, an event that is reset by two plain stores | requests are served, calls return, the last sweep runs alone |
| Thread list (`gc.cpp`, `GC.bf`, `Thread.bf`) | `mThreadList`, pending threads, three kinds of lock | start, register, end; suspend, scan, resume | threads come and go around a collection; a stopped thread keeps its locks; an early return | every thread is scanned and resumed, no deadlock |
| `BfpEvent` (`BeefySysLib/platform`) | `mSet`, `mManualReset` | set, reset, wait | reset takes no lock | (used by the two below and above) |
| Native thread pool (`ThreadPool.cpp`) | queue, threads, counters, event | add, cancel, loop of a thread, shut down | two unlocked tests of `mShuttingDown`, one signal for several jobs | no job is lost or deleted twice, shutdown returns |
| Release thresholds (`ReleaseCheckUpdate`) | queue of deleted objects, byte counts | add, release, emergency | recursive lock, re-entry from callbacks | not modelled yet |
| corlib `Event` (`Event.bf`) | one word: handler, list or enumerator; two flags | add, remove, enumerate, dispose | all of them from inside of nested enumerations | who is there and due is called, once; no hole is left |
| Code generation (`BfCodeGen.cpp`, `DoCompile`) | requests, results, threads of this build and of earlier ones | queue, poll, cancel, finish, clear old threads, destroy | results and thread flags are polled without the lock they are written under; requests and threads are deleted on one flag | no module is forgotten, nothing in use is deleted, objects are current, builds end |
| Build cache (`BfCodeGenDirectoryData`) | hashes in memory and in `build.dat`, the file's time | look up, record, forget, verify, read, write | failures and crashes between object, record and `build.dat`; others in the same directory | what is reported done is current |
| Command queue of the resolve compiler (`CommandQueueManager.bf`, `CompilerBase.bf`, `BfCompiler.bf`), lock of `BfSystem`, `BfCompiler::Cancel` | queue, deferral counter, running flags of two workers, lock with current and pending priority, `mCanceling` | queue, update, cancel, wait, delete; lock, yield, compile, autocomplete | a compile gives up the lock in its middle; a cancel is a flag that others save and restore; the main thread waits by polling | every edit is resolved, the main thread returns, the queue's head is what is processed |
| Rest of the compiler front end, back ends, CeMachine, debugger, hot swapping, IDE, Beefy2D, tools | very large sequential data, or the operating system's interfaces | | | not modelled: see section 8 |

How the parts interact: the program calls `new` and `delete`
(`DbgInternal.cpp`), which write the object's flags; `delete` may ask the
collector for a collection (`ObjectDeleteRequested` calls `Collect(true)`).
`Run` waits for the event or the period and calls `PerformCollection`, which
takes `mCritSect`, stops the threads of the list, calls back into the program
for its static members and root callbacks, and resumes the threads before it
sweeps. Threads enter and leave the list under `mCritSect`. The end of the
program stops the collector and makes one last sweep on the main thread.

In the compiler `DoCompile`, on a worker thread, hands every compiled module to
`BfCodeGen`, polls it between its own steps (`UpdateCompletion`) and waits for it
at the end; code generation threads of one build may outlive it. They share the
records of a directory (`mCacheCritSect`). The IDE's main thread queues commands,
starts a worker from its frame when none runs, cancels through `BfCompiler::Cancel`
and takes the system's lock itself for lookups.

The hazards found in reading are in `PROJECT.json`, each at its line with the
properties that watch it.

## 2. Modules

| Module | Models |
|---|---|
| `GCCycle` | the collector's cycle and the mutators' `new`, `delete` and copying of references |
| `GCControl` | when collections happen and how the collector is stopped; a collection is one step |
| `GCThreadList` | who is stopped, scanned and resumed; the locks; marking is a set of threads |
| `BfpEvent` | the event, as operators on a record; used by `GCControl` and `ThreadPool` |
| `ThreadPool` | the native thread pool |
| `BfCodeGen` | the compiler's thread and the code generation threads over several builds |
| `BfCodeGenCache` | the build cache of one directory over builds, sessions and other users |
| `EventSpec` | what an event promises (abstract) |
| `CorlibEvent` | `Event<T>`; implements `EventSpec` |
| `ResolveCompiler` | command queue, workers, system lock and cancel of the resolve compiler |
| `Selection` | `Select(s, S)`: the entries of a list that are in a set; used by `EventSpec` and `CorlibEvent` |
| `GCCycleProofs`, `GCControlProofs`, `GCThreadListProofs`, `ThreadPoolProofs`, `BfCodeGenProofs`, `BfCodeGenCacheProofs`, `CorlibEventProofs`, `ResolveCompilerProofs` | theorems about the modules they are named after |
| `MCGCCycle`, `MCGCControl`, `MCGCThreadList`, `MCThreadPool`, `MCBfCodeGen`, `MCBfCodeGenCache`, `MCCorlibEvent`, `MCResolveCompiler` | the modules TLC runs, with constants and symmetry sets |

The leak check exists in Windows builds only (`BF_GC_SUPPORTED`, `gc.h`), so the
models follow the Windows code; `BfpEvent` has a POSIX twin with the same steps.

### GCCycle

*State.* An object is a slot of the heap. `status` tells a free slot, one that
`new` has taken but whose `mDbgAllocInfo` is still 0 (the collector does not see
it) and an object. `mark`, `deleted` and `leakFlag` are the bits of
`mObjectFlags`. `refs` is what `Object_GCMarkMembers` would find, `stack[t]` what
a conservative scan of registers, TLS and stack finds, `statics` what static
members, root callbacks and explicit roots offer. `saved[t]` holds the bits that
a thread has read and not yet written.

*Steps.* `new` takes four (take the slot; set `mDbgAllocInfo`; read
`sAllocFlags`; compare-and-swap, or plain store in the `TypeInstance` version),
`delete` three (check and read; write back; `ObjectDeleteRequested`). A stopped
thread takes none, wherever it is. The collector takes one step per root set, per
queued object, per thread and per slot of the sweep.

*The queue.* `mOrderedPendingGCData` cannot grow while threads are stopped. What
finds no room is marked and forgotten, the collection has failed, its sweep marks
everything, and `Run` repeats it with a larger queue (`cap`). Which of several
new objects find room depends on the order in the code, and is a choice here.

*Abstractions.* The sweep reads and writes the flags of an object in one step
(the write of `SweepLeak` is itself a plain store; see section 8).
`ProcessSweepInfo` is one step: the leaks are unreachable, so no thread works
on them. After a failed scan, what had been marked of that one thread is left
out; the failed sweep marks all the same. The debug checks of the language stop a
program that touches a deleted object, which is the guard `Usable`.

*History.* `reach` is what was reachable when the threads were last stopped,
`lost` the objects on which a mutator has overwritten a newer mark id, `skipped`
the leaks that a root error kept off the list. No action reads them.

### GCControl

`gc` is the place of the collector in `Run`, `main` that of the main thread in
`StopCollecting` and `Shutdown`, `pc[t]` that of a thread in `Collect`. Periods
are -1 ("off"), 0 ("zero") and any positive number ("timer"). The clock is the
parameter `due` of `RunCheck`, `mFreeTrigger` its parameter `freed`; the pause of
the last collection may stretch a period (`Stretched`). `Killed` is the operating
system ending all other threads of a process that exits. `want[t]` is history:
what has become of a synchronous call.

`mCritSect` is held by the collector through a collection, but for the report of leaks
(`RunReport`), and by the main thread from `Shutdown` on through the last sweep. Other
threads take it for moments, which is no step of the model. When the operating system
ends the process (`Killed`) a lock whose owner is gone stays taken (`"killed"`): that
of a collector in the middle of a collection, or of some other thread that happened to
hold it. `Shutdown` takes the lock *before* it looks at `mGracelessShutdown`
(`gc.cpp:2546`, `:2548`), so it then waits for ever.

### GCThreadList

`pc[t]` says whether a thread is created, runs, holds the lock of its markable
objects, holds `GC.sMonitor`, or has ended. The collector goes over
`mThreadList` by index three times, to lock and suspend, to scan, to resume.
`mCritSect` is held by the collector from `PerformCollection` to its end, except
while it reports leaks. `scanned` stands for the marking; `gaveUp` remembers an
early return of `ScanThreads`. A thread id is used once.

### ThreadPool

`pc[w]` is the place of a pool thread in `Proc`; everything under `mCritSect` is
one step, the two tests of `mShuttingDown` are two. A thread that calls `Cancel`
on a NULL job is in state `crashed`, and then nothing moves. `ShutdownJoin`
takes a thread out of the list, waits for it and deletes it in one step: no job
is added then, and nothing else reads the list or the count.

### BfCodeGen

`mpc` is the place of the compiler's thread: idle, compiling (where it queues
requests and calls `UpdateStats`), the loop of `DoCompile` around `Finish`,
clearing old threads, `ProcessErrors`, the destructor. `pc[t]` is that of a thread
in `RunLoop`. A request is a module and a build; `mResult` is what the poll sees.
The store of a result takes two steps, because the poll reads `mType` without the
lock and `mType` comes first. All waits have a timeout of 20 ms, so the two events
never decide anything and are left out. The back end succeeds or fails as it likes.
`disk` says from which build a module's object is. `DoneCached` is `Done` here.

### BfCodeGenCache

For each file of a directory: what is on disk (the *shape* of an IR, which is what
`mIROrderedHash` compares), what `mFileMap` records, what `build.dat` records. The
time of `build.dat` is compared with `mFileTime` only, hence three values. A build
has a request for any set of files, whose IRs are arbitrary; a thread's lookup and
its later steps are separate, so threads interleave. `Write` may find no file, no
directory, or work; the process may die anywhere, also in the middle of `Write`;
another compiler, a removed directory and both kinds of Clean come between builds.
A damaged object is `None`. `lost` and `unsaved` are history: they name the files
whose records the code cannot know to be wrong. A request is taken and its file's name
copied in one step.

*Threads left behind.* `BfCodeGen` shows that a thread of an earlier build may take a
request of a later one, and that `Finish` aborts and deletes that request when no
thread of its own build runs (`BfCodeGen.cpp:1040`-`1044`). Here `Abort` hands the
request, before its lookup, after it or after its `SetHash`, to a member of
`mOldThreads`, and `LateCheckCache`, `LateSetHash` and `LateResult` let that thread
finish it at any later time: beside `Finish`, between builds, in the next build. The IR
it reads has been freed, so every hash, shape, object and error is possible. This is how
wrong records come about that are neither `lost` nor reported:

1. Build 2 aborts the request for `f` while a thread of build 1 has looked it up; the
   new hash is in `mFileMap` already, and `Write` saves it over the old object.
2. Build 3 asks for the same IR, finds its hash and reports `DoneCached`.

And `SetHash` of such a thread calls `Verify`, which sets `mVerified` again after
`Finish` has cleared it; if another compiler writes `build.dat` only then, the next
build does not look at its time. `abandoned` (files such a thread has worked on since
they were last generated without it) and `earlyCheck` (it has verified between builds)
are history and name exactly these cases; the properties except them.

### CorlibEvent and EventSpec

`kind` and `items` are what `Target` points to, `enumerators` the stack of nested
`Invoke`s, the first of which owns the target while they run. Handlers are the
environment: between two `MoveNext`s of the innermost enumerator any operation may
happen any number of times. `EventSpec` knows a sequence of listeners and, per
invocation, who is due and who has been called. The refinement mapping takes the
entries that are not holes for the listeners, and for due those behind the index
that have been in the event since the invocation began (`since`, history).

### ResolveCompiler

`pc[t]` is the place of the normal worker, the worker for interrupting jobs and the
main thread. A source in the queue carries the version of the program it completes;
`parsed` and `resolved` say which version the parsers and the resolved types are of,
so "every edit is resolved" is an equation. `Yield` is `CheckLockYield`, possible at
any time in parsing and compiling; `Spin` its loop; then the thread locks again and
goes on where it was. `Update` is a frame of the main thread. All code of the IDE that
deletes a resolve compiler first calls `CancelBackground`, which waits for both
workers (`IDEApp.bf:840`-`844`, `:2640`-`2644`, `:14527`, `:14608`): `UnloadCompiler`,
then `Delete`. `~this` itself deletes the commands before it waits
(`CommandQueueManager.bf:123`-`131`), so the branch of `Pop` for `mShuttingDown` is
there and never taken. (`IDEApp.bf:12937` deletes the *build* compiler without
waiting; that one is not modelled.) The branch that leaves a resolve in the queue
after a parse (`ProcessResolveAll`) is in the model and never taken by it: every
caller defers the resolve by two frames, by which time the sources have been
processed.

## 3. Runs

| Run | Instance | Checks | Result |
|---|---|---|---|
| `gc_cycle` | 2 objects, 1 thread, queue of 1 growing to 2, fair | `OnlyDeletedIsFreed`, `CollectionEnds`, `DeletedIsReclaimed` | hold |
| `gc_threads` | 2 objects, 2 threads, `ClassVData` allocation, failing scans | `NoDanglingReference`, `NoHeldLeak` | hold |
| `gc_race` | 2 objects, 1 thread, both allocation paths, failing roots, 1 static | `IInv`, `NoPrematureFree`, `NoFalseLeak`, `InvalidMarkExplained`, `PendingIsAllocated` | hold |
| `gc_control` | 2 callers, period may be switched off, collector may be killed with or without `mCritSect`, fair | `LastSweepIsAlone`, `EveryRequestIsCollected`, `CollectReturns`, `StopReturns` | hold |
| `gc_thread_list` | 3 threads, fair | `EveryThreadIsScanned`, `StoppedHoldsNoLock`, `EveryThreadIsResumed`, `CollectionEnds` | hold |
| `thread_pool` | 2 providers, 3 jobs, 2 pool threads, fair | `CancelReachesLiveJobs`, `EveryJobIsDeletedOnce`, `FreeThreadsIsExact`, `NoThreadSurvives`, `EveryJobIsPerformed`, `ShutdownReturns` | hold |
| `codegen` | 3 builds of 2 modules (the second of both), 3 requests, 2 threads, fair | `RequestInUse`, `ThreadInUse`, `NoModuleIsLost`, `ObjectIsCurrent`, `BuildEnds` | hold |
| `codegen_cache` | 2 files, 3 IRs of 2 shapes, 1 thread left behind | `DoneIsCurrent`, `FailedIsForgotten`, `ForeignIsReported` | hold |
| `event` | 3 delegates, 3 nested invocations, 4 entries | `KeepsPromise` (implements `EventSpec`), `NoHoleIsLeft`, `CastIsValid` | hold |
| `resolve_compiler` | 2 edits, 4 other requests, fair | `CommandIsOurs`, `SpinIsShort`, `CancelIsLostOnlyInAutocomplete`, `EveryEditIsResolved`, `MainReturns` | hold |
| `gc_invalid_mark`, `gc_stale` | smallest that shows it | one sentence of the repository each | violated, section 4 |

*What they show.* A collection frees and reports only what was unreachable when the
world was stopped; the one exception are objects whose mark id a mutator has
overwritten, and what only they lead to (`Reachable` follows no path through them).
With the plain store of the `TypeInstance` allocation such a mark id can be so old
that it looks current once the ids have wrapped round: the object's members are then
not scanned, and one that a thread still holds is reported as a leak, or freed once it
has been deleted. So `gc_threads`, which checks what a thread holds, uses the
`ClassVData` allocation only, and `gc_race` both (section 6). No stack and no static
of such a program is left with a reference to freed memory, but for a lost object, in
spite of a sweep that runs beside it. Mark ids may wrap: deleted garbage is always
reclaimed. A queue that is too small costs repetitions, not correctness. Every call of
`Collect` leads to a collection and, as long as the timer runs, a synchronous one
returns. The program ends, unless a thread was killed that held `mCritSect`:
`Shutdown` waits for that lock even where it would have nothing to do. No thread stays
stopped or is skipped, as long as `ScanThreads` has never returned early; from then on
a thread that ends stays in the list and makes the next scan skip its neighbour. A
collection ends unless it has stopped a thread inside
`AddRootCallback`/`RemoveRootCallback`: `GC.sMonitor` then stays taken for ever. In
the pool a job is performed although jobs share signals, deleted once although
cancelling, shutting down and performing overlap, never cancelled after its deletion,
`mFreeThreads` does not drift, and `Shutdown` returns with all threads ended, unless
`mShuttingDown` is set between a thread's two tests of it (`ThreadPool.cpp:58` and
`:64`).

*The code generation.* No module of a build is forgotten: it has an object or is
built again, canceled or not, and every build ends. Three races of the polls are
real and named in the properties: a request may be deleted while the tail of its
result is being copied, or while a thread of an earlier build works on it (Finish
counts the threads of this build only), and a thread object before its last signal.
There are no others, and the late object of such a left-behind thread is the only
one that can replace a current one. The cache tells the truth about what it
reports as done unless the process died between an object and `build.dat` or
`build.dat` was saved over somebody else's, which is reported when it happens in a
build that used the cache, or a thread left behind has gone on with a request that
`Finish` aborted. Such a thread can make all three promises of the cache false of the
file it works on, until that file is generated again (section 2). That the exceptions
are needed can be seen by taking one out: without `abandoned` TLC finds `DoneIsCurrent`
and `FailedIsForgotten` violated, without `earlyCheck` `ForeignIsReported`.

*The event.* It keeps its promise under any nesting of adding, removing, disposing
and invoking; who adds to the front lets a running invocation call the handler
before its index again. The invalid cast in `Enumerator.Dispose` is reachable
(`EndRootBadCast`): remove from a list, dispose, and add one handler, all inside an
invocation. `CastIsValid` says that no shorter way leads there.

*The resolve compiler.* The main thread always comes back from `CancelBackground`
and from the lock although the worker it waits for may have yielded or may spin.
Nothing is popped but what was processed. What was canceled is tried again until
every edit is resolved. A request to cancel that comes while an autocompletion has
interrupted the compile is undone (`BfCompiler.cpp:4215` restores the old value);
then the compile runs to its end. No other request made *during* a compile is lost. One
made before, while the worker parses or waits for the lock, is lost too, because
`DoCompile` begins by clearing the flag (`BfCompiler.cpp:7299`); the property starts to
count there.

*Bounds.* `MaxRefs`, `MaxStatics`, `MaxCap`, `MaxCalls` and the sets are the only
bounds of these modules; mark ids are 1..3 as in the code, and the number of
collections is not bounded. Two objects give a referrer and a referred one, a queue
that overflows, and a slot that is used again while another is swept. Two threads give
one that is stopped inside `new` or `delete` and one that hides its references. Three
threads give one before, at and behind the collector's index. Three jobs on two
threads with one worker per provider give a full pool, a job behind a busy thread and
two jobs on one signal. Three builds (`Changed`, `MaxRequests`) give a thread that
outlives its build, takes a request of the next one and finishes in the third. Two
files let one fail while the other is recorded; three IRs give a change, a change of
order only and a change back; sessions and builds are not bounded. In `codegen_cache`
one thread may be left behind, and it gets to work only where the other file has not
been built (`AbandonedIsAlone`); with both files and it, there are too many states for
TLC. What two files and such a thread do to each other (they share `mVerified`,
`mFileFailed` and `Write`) is covered by the proof of the same properties. `Seen`, the
view of that run, leaves out what no later step and no property can tell apart. Three
delegates and three invocations (`MaxDepth`, `MaxLen`) give a removal before, at and
behind the index of an inner, a middle and the outermost enumerator. Two edits
(`MaxEdits`) and four requests (`MaxRequests`) give an edit during the parse and the
compile of another, and a cancel, an autocompletion, a lookup and a wait on top of
each other. `CHECK_DEADLOCK FALSE` stands where the system may rest: a program that
has ended, a pool without jobs, the collection that waits for `GC.sMonitor`, a
compiler without work, a program after an invalid cast.

*Symmetry* is used in the runs without liveness only.

## 4. Disagreements between the code and what it says

* `gc_invalid_mark`: `SweepSpan` asserts that a mark id two collections old is
  impossible. `Dbg_MarkObjectDeleted` can write one back. `InvalidMarkExplained`
  (proved) says that only this, or an unlisted leak after a root error, can
  trip the assertion.
* `gc_stale`: `Collect(false)` polls where its comment says it waits, and may
  return without a collection of its own.

Met while modelling, in the models but without a run of their own: `StopCollecting`
reads `mRunning` and then asks for the thread's end (`gc.cpp:2487`, `:2489`), so it
may take a collector that ended in good order for a killed one, and the last leak
report is then missing. A period of 0, documented as "to constantly run" (`GC.bf:158`),
becomes an infinite wait (`gc.cpp:2353`); `GCControl` has it, the runs use the other
periods. `Event.bf:8` says that an event's memory may be reclaimed during
enumeration, but the outermost enumerator writes to it when it ends (`Event.bf:285`).
The three races of `BfCodeGen`, what the second of them does to the build cache, and the
lost cancel of section 3. `Shutdown` of the collector waits for a lock that a killed
collector holds, before the test that was to let it return (`gc.cpp:2546`).

## 5. Fairness

`GCCycle`: weak fairness of the collector's steps; its thread is scheduled and
its timer expires. Nothing is asked of the mutators. `GCControl`: weak fairness
of each thread inside a call, of the collector and of the main thread once it
stops; strong fairness of "the period has elapsed", because a clock that is read
again and again passes every bound. Nobody has to call anything.
`GCThreadList`: weak fairness of the collection and of a running thread leaving
its lock, strong fairness of taking a lock that is free again and again (critical
sections of the operating system do not starve one waiter for ever).
`BfCodeGen`: weak fairness of the compiler's thread once it waits for the code
generation, and of each thread, which includes that the back end comes to an end;
nobody has to start or cancel a build. `ResolveCompiler`: weak fairness of each
thread's steps, the lock included, and of the main thread's frames; the user has to
do nothing. Weak fairness of taking the lock is enough because there are finitely
many requests, so a lock that is wanted is free for good in the end; with requests
without end it would have to be strong. `BfCodeGenCache` and `CorlibEvent` have
safety properties only.
`ThreadPool`: weak fairness of pool threads, which includes that `Perform`
returns, and of `Shutdown`; strong fairness of passing the event for the reason
just given.

## 6. Proofs

TLAPS proves the following for every value of the constants.

*GCCycleProofs* (assumptions: `FirstCap <= MaxCap`, numbers; `MaxCap` has room for
all objects; `NoObj` is no object; the two allocation paths).

* `TypeCorrect`.
* `CycleInvariant`: `IInv`. Its parts build on each other. `OpInv`: a thread in
  `new` or `delete` has an object of its own. `PhaseInv`: the collector's sets
  hold objects, each only in the phases that use it. `Settled`: outside a
  collection an object has the current mark id or none, and the previous one only
  where the collector has yet to decide; without it the sweep could meet old
  marks. `CasInv`: the value that `new` is about to swap in is current, or the
  swap will fail; this is why `new` uses a compare-and-swap. `MarkInv`: scanned
  roots are marked, and a marked object that has left the queue refers to marked
  objects. `ReachInv`: hence, when the queue is empty and all threads are
  scanned, everything reachable is marked (`MarkingComplete`: the marked
  objects are one of the closed sets whose intersection `Reachable` is).
* From it: `ReachableIsNotFreed`, `ReachableIsNotReported`, `QueueHoldsObjects`,
  `InvalidMarkIsExplained`, and the action property `FreedWasDeleted`.
* `ReferencesAreNotFreed` and `HeldIsNotReported`, from `ProgramHoldsObjects`. The two
  above speak of what was reachable when the world was stopped; these of what the
  stacks and the statics hold now, while the sweep runs beside it. Threads copy
  references, allocate, and pass over deleted objects, so what is reachable changes
  with every step. `HeldInv` therefore says that *some* set contains the roots and
  what objects in use refer to, and that nothing of it is reported, to be freed, or
  met by the sweep with an old mark id, unless its mark id was lost. `PlainInv` adds
  that only deleted objects have lost theirs. Mutators stay inside such a set or add
  what they have just allocated; when marking is complete, `Reachable` is one. A
  failed collection has marked everything and keeps the set it had.

The theorems of the last point assume `"TypeInstance" \notin AllocPaths`: that all
objects are allocated by the version of `Dbg_ObjectAlloc` which stores its mark id
with a compare-and-swap (`DbgInternal.cpp`). The hypothesis is needed. With the
plain store of the other version TLC finds `NoDanglingReference` violated by two
objects and one thread, in 39 steps: the thread is stopped between reading
`sAllocFlags` and the store for so long that two collections pass; the stored mark
id is the one that the next collection gives to what it has scanned; so the
members of the new object are not scanned, and one of them is freed once it has
been deleted although the thread still holds it. The store makes `IInv` no less true,
which is why the theorems before it are free of the hypothesis.

*GCControlProofs* (`MaxCalls` a number, the periods). `NoCollectionInLastSweep`
from `ControlInv`: the main thread gets to the last sweep only when the collector
has announced that it leaves (`LeavingInv`), and a collection is marked as being
performed only while the collector performs it or was killed in it
(`PerformingInv`). `LockInv` says who holds `mCritSect` at which place.

*GCThreadListProofs* (the main thread is one, the collector and "nobody" are
none). `NoStoppedThreadHoldsItsLock` and `NoThreadStaysStopped` from `ListInv`:
a stopped thread's lock belongs to the collector (`LockInv`), and a stopped
thread is in the list at or behind the collector's position while it resumes
(`PlaceInv`), whatever `ScanThreads` took out of the list (`RemoveAtKeeps`).
`NoThreadIsLeftOut` follows the index of `ScanThreads` in the same way: the list has
every running thread once (`EntryInv`), and as long as `ScanThreads` has never
returned early it has no other, so that none is taken out during the scan, and what
is before the index has been scanned (`ScanInv`).

*ThreadPoolProofs* (finitely many workers; `NoJob` is neither a job nor a provider,
which is the NULL of both pointers). `PoolInv`: every job that was added is in the
queue once, or is what exactly one thread has taken, or has been deleted once
(`OwnerInv`); `mThreads` has each thread once and `mRunningThreads` counts it
(`ListInv`); `mFreeThreads` counts those that do not work (`FreeInv`).
From it `CancelAllIsSafe`, `DeletedOnce`, `FreeThreadsAreCounted` and
`ShutdownWaitsForAll`. `EveryJobIsDeletedOnce` by itself is not inductive: that a job
is deleted once rests on who owns it, through two unlocked tests of `mShuttingDown`
and the `break` with a job in hand.

*BfCodeGenProofs* (`CodeGenAssumption`). `IInv` says which requests and threads are
in which list (`ThreadInv`, `ListInv`), who holds a request and why a deleted one may
still be held (`HoldInv`), that a module of the build has a request or one outcome
(`OutcomeInv`), and where the object of a finished request is (`ObjectInv`).
`CountInv` bounds the threads by the requests that have been made; it makes sure
that the model's set of threads suffices for `NewThread`. From it
`RequestsAreDeletedLate`, `ThreadsAreDeletedLate`, `ModulesAreAccountedFor` and
`ReportedObjectsAreCurrent`, over any number of builds, modules and threads: the
three races named in section 3 are the only ones.

*BfCodeGenCacheProofs* (`CacheAssumption`). `DoneIsCurrent` speaks of one build, but
rests on what earlier sessions left. `RecordsAreTrue`: `build.dat` tells the truth of
every object except of files in `unsaved`, `lost` and `abandoned` (`SavedInv`), memory
does except of what is being generated (`RecordInv`), where the hash is recorded
before the object is written (`GenerateInv`); a failure leaves no hash, or none that
survives the next `Write` (`FailureInv`); `SessionInv` says what a session knows
before and after it has read the file's time. A thread left behind works on files in
`abandoned` only (`JobsInv`), so whatever it records or writes is excepted, for any
number of such threads; what it shares with the others is `mVerified` and
`mFileFailed`, and `earlyCheck` is what may be left of the first between builds. From
it `DoneHasCurrentObject`, `FailureIsForgotten` and the action property
`ForeignBuildIsReported`, with the exceptions `lost`, `abandoned` and `earlyCheck` in
them.

*CorlibEventProofs* (`EventAssumption`: `Null` is no delegate, the bounds are
numbers). `EventInv` describes the three forms of the event's word, that holes are
flagged and stand in a list (`ListInv`), and that an enumerator has called nothing
behind its index (`EnumeratorInv`). From it `HolesAreRemoved`, `CastNeedsDispose` and
`PromiseIsKept`: **`CorlibEvent` implements `EventSpec`** for any set of delegates,
lists of any length and any nesting. `StepKept` has one case per action of
`CorlibEvent`. `Add`, `AddFront`, `Remove`, `Dispose`, `Begin` and `MoveNext` are the
steps of the same purpose in `EventSpec`; `EndInner` and `EndRoot` end an invocation
there, and `EndRoot`, which closes the holes, leaves the listeners as they are; the
invalid cast is a stutter. What has to be shown of each is that `Present` and every
invocation's `Due` change as `EventSpec` says, and both are selections from `items`.
So most lemmas are about `Select` and lists: selecting from a list that is appended
to, joined, cut after the index, from which an entry is removed or in which it becomes
a hole, and selecting twice. `Select` is a recursive function, and what it returns
needs induction over the length of a list. The induction theorems of the library take
a predicate as a parameter, which the provers cannot instantiate. `LeastNumber` and
`ListInduction` state induction for a *set* instead (a set of lists that has the empty
one and is closed under `Append` has all of them), from the library's `WFMin`; each
lemma then names the set of lists for which it holds.

*ResolveCompilerProofs* (no assumption: any number of edits and requests).
`CommandStaysOurs`, `SpinningIsShort`, `CancelIsKept` and `LockIsExclusive` from
`ResolveInv`. The assertion of `DoProcessQueue` is not inductive: that nobody
deletes the command rests on the main thread's place. `QueueInv`: there is a command
exactly while the normal worker processes the queue, suspended or not, and the main
thread is past its first wait only when that worker is off. `PlaceInv`: each thread
has its part of the places and jobs, and `mThreadRunning` says which worker is off,
so that a new job is never given to one that spins or autocompletes. `CancelInv`: an
autocompletion that will put back `mCanceling` has seen every request to cancel that
was made since the compile began, or the request came after it.

*What the proofs changed.* The proof about `ThreadPool` stopped at `Take`, whose cases
for `mFreeThreads` were not disjoint (the code's are: `hasWork != isWorking` first,
then which); they are now. `CorlibEvent` and `EventSpec` were rewritten with `Select`
because the prover does not look into `SelectSeq` with a `LAMBDA`; nothing they say
has changed.

*Only model-checked.* Liveness, because the prover has no rule for fairness or
`ENABLED`: `CollectionEnds` (twice), `DeletedIsReclaimed`, `EveryRequestIsCollected`,
`CollectReturns`, `StopReturns`, `EveryJobIsPerformed`, `ShutdownReturns`, `BuildEnds`,
`EveryEditIsResolved` and `MainReturns`. That a model without liveness does not
deadlock, where a run checks it. Every safety property that a run checks is proved.

## 7. Plan

1. Done: the modules of section 2, their runs, and the theorems of section 6.
2. Done: every safety property of the passing runs is a theorem, and `CorlibEvent`
   is proved to implement `EventSpec`.
3. To prove: deadlock freedom of the locks of `GCThreadList` as an invariant (who waits
   for whom), and that `EventSpec` itself calls every due handler once.
4. Not begun: `GCRelease` (the queue of deleted objects with its thresholds, against
   "released once, never while marked from"), and an abstract collector that
   `GCCycle` implements where no mark id is lost.

## 8. What is not modelled

* Inside the modelled parts: releasing by thresholds, raw allocations (`gc_raw.cpp`;
  `RawMarkAll` only adds roots), excluded threads, the debug dump, statistics, and the
  address arithmetic that tells a slot from an arbitrary word. The sweep of one slot
  is a single step, so the window between its read and its write of the flags is not
  explored: it writes only to objects it takes for leaks, which no thread can `delete`
  unless their mark id was lost. The window inside `delete` is explored. More than a
  million leaks (`gc.cpp:1263`) behave like leaks after a root error. Periods below -1
  are not distinguished from -1.
* A pool's owner is assumed not to add or cancel jobs while it shuts the pool down
  (`AddJob` and `CancelAll` need `down = "run"`): `Shutdown` goes over `mJobs` without
  the lock at its end;
  `NetManager`, which takes a job out of the queue itself, is not modelled.
* Code generation: the release thunk (only debug builds of the compiler hand
  requests to another copy of it), `SetMaxThreads`, writing into libraries, the
  build settings kept in `build.dat`. Each is one more lookup or another owner of
  the request, none changes the protocol.
* `Event`: queries, the same delegate added twice, leaving an enumeration before
  its end, and events whose memory is gone (undefined behaviour). `IsEmpty`, `Count`
  and `GCMarkMembers` are wrong while handlers run (hazard at `Event.bf:40`).
* Resolve compiler: the build compiler (the same queue without deferral),
  `RequestFastFinish`, callbacks of finished jobs and the wait of 50 ms for them,
  the stores a worker makes after `mThreadRunning = false` (hazard at
  `CommandQueueManager.bf:51`), a compile that asks for another one, and the job that
  generates code from a dialog. `ClearQueuedProjectSource` has no caller.
* The rest of the compiler, the back ends, compile-time evaluation, the debugger,
  hot swapping, the user interface, the graphics library and the tools: sequential
  transformations of data too large for a model checker, user interface, or driven
  by interfaces of the operating system. They are by far the larger part of the
  repository, so the map covers a small share of its lines. Third-party code.
