---------------------------- MODULE BfCodeGenCache ----------------------------
(***************************************************************************)
(* The build cache of one output directory (BfCodeGenDirectoryData in      *)
(* IDEHelper/Compiler/BfCodeGen.cpp): per file the hash of the IR its      *)
(* object was generated from, in memory while the compiler runs and in     *)
(* build.dat from one session to the next.  A file whose IR has the hash   *)
(* on record is not generated again, so the record has to tell the truth   *)
(* about the objects on disk, although builds fail, the process dies, and  *)
(* others (a second compiler, the user) use the same directory.            *)
(*                                                                         *)
(* The record is also written by threads that an earlier build has left    *)
(* behind (BfCodeGen shows how): such a thread may have taken a request of *)
(* a later build and go on with it when that build has aborted and deleted *)
(* it, and it may do so beside Finish, between builds and in the next one. *)
(*                                                                         *)
(* Left out: writing into libraries (mWriteToLib) and the build settings   *)
(* that share build.dat.                                                   *)
(***************************************************************************)

CONSTANTS
  Files,       \* output files of the directory
  IRs,         \* what the front end may make of a file (mIRHash)
  Shapes,      \* the same up to the order of the functions (mIROrderedHash)
  ShapeOf,     \* the shape of an IR
  Windows,     \* BF_PLATFORM_WINDOWS: the ordered hash is computed
  OldThreads,  \* threads that a build may leave behind
  None         \* no entry, no object (or a damaged one), no hash, no file

Entries == [mIRHash : IRs, mIROrderedHash : Shapes \cup {None}]

(* What a thread that was left behind does: nothing ("none": there is no    *)
(* such thread yet), or where it is with a request that has been deleted.   *)
Jobs == [at : {"none", "idle", "lookup", "generate", "write"},
         file : Files \cup {None}, mIRHash : IRs \cup {None}]
Job(at, f, i) == [at |-> at, file |-> f, mIRHash |-> i]
Idle == Job("idle", None, None)
NoJobs == [l \in OldThreads |-> Job("none", None, None)]

ASSUME CacheAssumption ==
  /\ Windows \in BOOLEAN /\ ShapeOf \in [IRs -> Shapes]
  /\ None \notin Files \cup IRs \cup Shapes \cup Entries

VARIABLES
  ir,                   \* per request that a thread has taken: its mData
  disk,                 \* per file: the shape of the object file
  dat,                  \* entries of build.dat; all None: missing, or of
                        \* another version or back end
  loaded,               \* GetDirCache has made the directory's data
  mFileMap, mFileFailed, mVerified, mError,
  mFileTime,            \* "zero", or if it is the time of build.dat: "same",
                        \* "other"
  mDisableCacheReads,
  building,             \* from the first request to the end of Finish
  request,              \* per file: the state of its request, or its result
  orderedHash,          \* per request to generate: what CheckCache returned
  mOldThreads,          \* the jobs of the threads left behind
  \* ---- history
  unsaved,              \* files written since build.dat was saved
  lost,                 \* files of which the records may be wrong
  abandoned,            \* files that a thread left behind has worked on, since
                        \* they were last generated without it
  earlyCheck            \* mVerified was set by such a thread between builds

dirVars == <<loaded, mFileMap, mFileFailed, mVerified, mError, mFileTime>>
history == <<unsaved, lost, abandoned, earlyCheck>>
vars == <<ir, disk, dat, dirVars, mDisableCacheReads, building, request,
          orderedHash, mOldThreads, history>>

Results == {"Done", "DoneCached", "Failed"}
NoEntries == [f \in Files |-> None]
NoRequests == [f \in Files |-> "none"]

Init ==
  /\ ir = NoEntries /\ disk = NoEntries
  /\ dat = NoEntries
  /\ loaded = FALSE /\ mFileMap = NoEntries /\ mFileFailed = FALSE
  /\ mVerified = TRUE /\ mError = FALSE /\ mFileTime = "zero"
  /\ mDisableCacheReads = FALSE
  /\ building = FALSE /\ request = NoRequests
  /\ orderedHash = [f \in Files |-> None]
  /\ mOldThreads = NoJobs
  /\ unsaved = {} /\ lost = {} /\ abandoned = {} /\ earlyCheck = FALSE

-----------------------------------------------------------------------------
(* A build with requests for some of the files.  The sources may have       *)
(* changed in any way: the IR of a request is any IR.                       *)
StartBuild(fs) ==
  /\ ~building
  /\ building' = TRUE
  /\ request' = [f \in Files |-> IF f \in fs THEN "queued" ELSE "none"]
  /\ UNCHANGED <<ir, disk, dat, dirVars, mDisableCacheReads, orderedHash,
                 mOldThreads, history>>

(* A thread takes the request of f and, under mCacheCritSect, looks it up:  *)
(* GetDirCache, which reads build.dat the first time (Read), and CheckCache *)
(* with Verify.  A hot compile does not use what it finds.                  *)
ReadMap == IF loaded \/ mDisableCacheReads THEN mFileMap ELSE dat
ReadTime == IF loaded \/ mDisableCacheReads \/ dat = NoEntries THEN mFileTime
                                                              ELSE "same"

Corrupted == loaded /\ ~mVerified /\ mFileTime = "other"
Verify(called) ==
  /\ mVerified' = (mVerified \/ (called /\ ~mError /\ ~Corrupted))
  /\ mError' = (mError \/ (called /\ Corrupted))

Match(f, i, isHot) ==
  ReadMap[f] # None /\ ReadMap[f].mIRHash = i /\ ~isHot

LookUp(f, i) ==
  /\ loaded' = TRUE /\ mFileTime' = ReadTime
  /\ Verify(TRUE)
  /\ mFileMap' = [ReadMap EXCEPT
       ![f] = IF @ = None THEN [mIRHash |-> i, mIROrderedHash |-> None]
                          ELSE [@ EXCEPT !.mIRHash = i]]

(* A file that a thread left behind has worked on, and that has none at     *)
(* work on it now, is in good hands again when it is to be generated; until *)
(* then its records may be wrong.                                           *)
Recovered(f) == (abandoned \ {mOldThreads[l].file : l \in OldThreads}) \cap {f}

CheckCache(f, i, isHot) ==
  /\ building /\ request[f] = "queued"
  /\ ir' = [ir EXCEPT ![f] = i]
  /\ LookUp(f, i)
  /\ orderedHash' = [orderedHash EXCEPT
       ![f] = IF ReadMap[f] = None \/ isHot \/ Match(f, i, isHot)
                THEN None ELSE ReadMap[f].mIROrderedHash]
  /\ request' = [request EXCEPT
       ![f] = IF Match(f, i, isHot) THEN "DoneCached" ELSE "generate"]
  /\ LET recovered == IF Match(f, i, isHot) THEN {} ELSE Recovered(f)
     IN  abandoned' = abandoned \ recovered /\ lost' = lost \cup recovered
  /\ UNCHANGED <<disk, dat, mFileFailed, mDisableCacheReads, building,
                 mOldThreads, unsaved, earlyCheck>>

(* The back end reads the IR, which gives the ordered hash, and SetHash     *)
(* records both.                                                            *)
RecordHash(f, i, shape) ==
  /\ mFileMap' = [mFileMap EXCEPT
       ![f] = IF Windows THEN [mIRHash |-> i, mIROrderedHash |-> shape] ELSE @]
  /\ Verify(Windows)

SetHash(f) ==
  /\ building /\ request[f] = "generate"
  /\ RecordHash(f, ir[f], ShapeOf[ir[f]])
  /\ request' = [request EXCEPT ![f] = "write"]
  /\ UNCHANGED <<ir, disk, dat, loaded, mFileFailed, mFileTime, building,
                 mDisableCacheReads, orderedHash, mOldThreads, history>>

SameShape(f) == Windows /\ orderedHash[f] = ShapeOf[ir[f]]

Result(f, result) ==
  /\ building /\ request[f] = "write"
  /\ request' = [request EXCEPT ![f] = result]
  /\ orderedHash' = [orderedHash EXCEPT ![f] = None]
  /\ UNCHANGED <<ir, dat, loaded, mVerified, mError, mFileTime, building,
                 mDisableCacheReads, mOldThreads, abandoned, earlyCheck>>

(* The IR differs, the code does not: cached after all.                     *)
FindShape(f) ==
  /\ Result(f, "DoneCached") /\ SameShape(f)
  /\ UNCHANGED <<disk, mFileMap, mFileFailed, unsaved, lost>>

GenerateFile(f) ==
  /\ Result(f, "Done") /\ ~SameShape(f)
  /\ disk' = [disk EXCEPT ![f] = ShapeOf[ir[f]]]
  /\ unsaved' = unsaved \cup {f} /\ lost' = lost \ {f}
  /\ UNCHANGED <<mFileMap, mFileFailed>>

(* The back end reports an error, from reading the IR or later; the object  *)
(* is the old one or, if it was to be written, damaged.                     *)
ClearHashNot(f) == mFileMap       \* mutant
ClearHash(f) == [mFileMap EXCEPT ![f] = None]

GenerateError(f, damaged) ==
  /\ Result(f, "Failed")
  /\ damaged => ~SameShape(f)
  /\ disk' = [disk EXCEPT ![f] = IF damaged THEN None ELSE @]
  /\ mFileMap' = ClearHash(f)
  /\ unsaved' = unsaved \cup {f}
  /\ UNCHANGED <<mFileFailed, lost>>

(* LLVM could not write the object: FileFailed, and no error message.       *)
WriteFails(f, damaged) ==
  /\ Result(f, "Failed") /\ ~SameShape(f)
  /\ disk' = [disk EXCEPT ![f] = IF damaged THEN None ELSE @]
  /\ mFileFailed' = TRUE
  /\ unsaved' = unsaved \cup {f}
  /\ UNCHANGED <<mFileMap, lost>>

-----------------------------------------------------------------------------
(* Finish finds that no thread of this build runs any more (Cancel), and    *)
(* aborts and deletes a request that has no result.  It does not see the    *)
(* thread of an earlier build that has taken it, and may have looked it up  *)
(* or even have recorded its hashes.                                        *)
Abort(f, l) ==
  /\ building /\ request[f] \in {"queued", "generate", "write"}
  /\ mOldThreads[l].at = "idle"
  /\ mOldThreads' = [mOldThreads EXCEPT
       ![l] = CASE request[f] = "queued" -> Job("lookup", f, None)
                [] request[f] = "generate" -> Job("generate", f, ir[f])
                [] request[f] = "write" -> Job("write", f, None)]
  /\ request' = [request EXCEPT ![f] = "Aborted"]
  /\ ir' = [ir EXCEPT ![f] = None]
  /\ orderedHash' = [orderedHash EXCEPT ![f] = None]
  /\ abandoned' = abandoned \cup {f}
  /\ UNCHANGED <<disk, dat, dirVars, mDisableCacheReads, building, unsaved,
                 lost, earlyCheck>>

(* That thread goes on at any time.  The IR it reads is freed memory: what  *)
(* comes of it is any hash, any shape, any object or an error, and the      *)
(* result is of no interest to anybody.                                     *)
Late(l, at, job) ==
  /\ mOldThreads[l].at = at
  /\ mOldThreads' = [mOldThreads EXCEPT ![l] = job]
  /\ UNCHANGED <<ir, dat, mDisableCacheReads, building, request, orderedHash,
                 unsaved, lost, abandoned>>

ChecksEarly == earlyCheck' = (earlyCheck \/ (~building /\ mVerified'))

LateCheckCache(l, i, isHot) ==
  LET f == mOldThreads[l].file IN
  /\ Late(l, "lookup",
          IF Match(f, i, isHot) THEN Idle ELSE Job("generate", f, i))
  /\ LookUp(f, i) /\ ChecksEarly
  /\ UNCHANGED <<disk, mFileFailed>>

LateSetHash(l, shape) ==
  LET f == mOldThreads[l].file IN
  /\ Late(l, "generate", Job("write", f, None))
  /\ RecordHash(f, mOldThreads[l].mIRHash, shape) /\ ChecksEarly
  /\ UNCHANGED <<disk, loaded, mFileFailed, mFileTime>>

LateResult(l, object, outcome) ==
  LET f == mOldThreads[l].file IN
  /\ Late(l, "write", Idle)
  /\ disk' = [disk EXCEPT ![f] = object]
  /\ mFileMap' = IF outcome = "error" THEN ClearHash(f) ELSE mFileMap
  /\ mFileFailed' = (mFileFailed \/ outcome = "writeFails")
  /\ UNCHANGED <<loaded, mVerified, mError, mFileTime, earlyCheck>>

LateStep(l) ==
  \/ \E i \in IRs, isHot \in BOOLEAN : LateCheckCache(l, i, isHot)
  \/ \E shape \in Shapes : LateSetHash(l, shape)
  \/ \E object \in Shapes \cup {None},
        outcome \in {"done", "error", "writeFails"} :
       LateResult(l, object, outcome)

-----------------------------------------------------------------------------
(* Write: after a failure nothing is kept.  The file may not open, because  *)
(* the directory is gone with all that was in it, or for another reason.    *)
WriteMapAlways == mFileMap        \* mutant
WriteMap == IF mFileFailed THEN NoEntries ELSE mFileMap

(* Whoever had changed build.dat is overwritten.                            *)
Overwritten == IF mFileTime = "other" THEN Files ELSE {}

(* saved: the entries that come to be written, of those in the map.         *)
WriteOk(saved) ==
  /\ dat' = [f \in Files |-> IF f \in saved THEN WriteMap[f] ELSE None]
  /\ mFileMap' = WriteMap /\ mFileFailed' = FALSE
  /\ mFileTime' = "same"
  /\ unsaved' = {} /\ lost' = lost \cup Overwritten
  /\ UNCHANGED disk

WriteGone ==
  /\ disk' = [f \in Files |-> None] /\ dat' = NoEntries
  /\ mFileMap' = NoEntries /\ mFileFailed' = FALSE
  /\ mFileTime' = IF mFileTime = "zero" THEN "zero" ELSE "other"
  /\ unsaved' = {}
  /\ UNCHANGED lost

WriteError ==
  /\ mFileMap' = WriteMap /\ mFileFailed' = FALSE
  /\ UNCHANGED <<disk, dat, mFileTime, unsaved, lost>>

(* Finish, when every request has a result or, in a canceled build, has not *)
(* been taken; then ProcessErrors reports and clears mError.  Of the        *)
(* requests only the failures stay on record (mHadBuildError); a request    *)
(* that nobody took fails as well, but nothing has been done to its file.   *)
Failures == [f \in Files |->
  IF request[f] \in {"Failed", "Aborted"} THEN "Failed" ELSE "none"]

Finished == \A f \in Files : request[f] \notin {"generate", "write"}

(* Finish writes without mCacheCritSect: beside a thread that changes the   *)
(* map it may write garbage for an entry, which is no entry of any file.    *)
Working == {l \in OldThreads : mOldThreads[l].at \notin {"none", "idle"}}
Saves == IF Working = {} THEN {Files} ELSE SUBSET Files

(* The threads of the build are left behind: the next one does not wait     *)
(* until they have ended.                                                   *)
LeaveBehind == mOldThreads' = [l \in OldThreads |->
  IF l \in Working THEN mOldThreads[l] ELSE Idle]

FinishWrite ==
  /\ building /\ Finished /\ loaded
  /\ (\E saved \in Saves : WriteOk(saved)) \/ WriteGone \/ WriteError
  /\ building' = FALSE /\ mError' = FALSE /\ earlyCheck' = FALSE
  /\ request' = Failures /\ ir' = NoEntries
  /\ LeaveBehind
  /\ UNCHANGED <<loaded, mDisableCacheReads, orderedHash, abandoned>>

FinishKeepVerified == FinishWrite /\ UNCHANGED mVerified     \* mutant
Finish == FinishWrite /\ mVerified' = FALSE

FinishNothing ==           \* no request has ever been made in this session
  /\ building /\ ~loaded
  /\ building' = FALSE /\ request' = NoRequests
  /\ UNCHANGED <<ir, disk, dat, dirVars, mDisableCacheReads, orderedHash,
                 mOldThreads, history>>

(* WriteBuildCache, when the IDE links.                                     *)
WriteBuildCache ==
  /\ ~building /\ loaded
  /\ \/ (WriteOk(Files) \/ WriteGone) /\ UNCHANGED mError
     \/ WriteError /\ mError' = TRUE
  /\ UNCHANGED <<ir, loaded, mVerified, mDisableCacheReads, building, request,
                 orderedHash, mOldThreads, abandoned, earlyCheck>>

-----------------------------------------------------------------------------
(* The compiler's data are gone: the process has ended, or Clean has made   *)
(* a new compiler.                                                          *)
NewSession ==
  /\ loaded' = FALSE /\ mFileMap' = NoEntries /\ mFileFailed' = FALSE
  /\ mVerified' = TRUE /\ mError' = FALSE /\ mFileTime' = "zero"
  /\ building' = FALSE /\ request' = NoRequests /\ ir' = NoEntries
  /\ orderedHash' = [f \in Files |-> None]
  /\ mOldThreads' = NoJobs /\ earlyCheck' = FALSE

(* The process dies, or ends, at any time; what a thread was writing may be *)
(* damaged.                                                                 *)
Crash(fs) ==
  /\ fs \subseteq {f \in Files : request[f] = "write"} \cup
                  {mOldThreads[l].file : l \in Working}
  /\ disk' = [f \in Files |-> IF f \in fs THEN None ELSE disk[f]]
  /\ NewSession /\ mDisableCacheReads' = FALSE
  /\ lost' = lost \cup unsaved \cup fs /\ unsaved' = {}
  /\ UNCHANGED <<dat, abandoned>>

(* It dies in Write: build.dat is cut off.  Read takes the zeros that       *)
(* follow for hashes of nothing.                                            *)
CrashInWrite(fs) ==
  /\ building /\ Finished /\ loaded
  /\ dat' = [f \in Files |-> IF f \in fs THEN WriteMap[f] ELSE None]
  /\ NewSession /\ mDisableCacheReads' = FALSE
  /\ lost' = lost \cup Overwritten /\ unsaved' = {}
  /\ UNCHANGED <<disk, abandoned>>

(* Clean and Clean Beef of the IDE, which delete the objects as well or     *)
(* only build.dat: a new compiler, ClearBuildCache.  The old one waits for  *)
(* the threads that are left, and then the files are deleted.               *)
Clean(objectsToo) ==
  /\ ~building /\ Working = {}
  /\ disk' = IF objectsToo THEN [f \in Files |-> None] ELSE disk
  /\ dat' = NoEntries
  /\ NewSession /\ mDisableCacheReads' = TRUE
  /\ lost' = {} /\ unsaved' = {} /\ abandoned' = {}

(* Between builds another compiler generates f here and saves its own       *)
(* build.dat, or the user removes the directory.  The next build finds out, *)
(* unless a thread left behind has verified the directory before.           *)
TimeChanges(fs) ==
  /\ mFileTime' = IF mFileTime = "zero" THEN "zero" ELSE "other"
  /\ request' = NoRequests
  /\ lost' = lost \cup unsaved \cup (IF earlyCheck THEN fs ELSE {})
  /\ unsaved' = {}
  /\ UNCHANGED <<ir, loaded, mFileMap, mFileFailed, mVerified, mError,
                 mDisableCacheReads, building, orderedHash, mOldThreads,
                 abandoned, earlyCheck>>

OtherBuild(f, i) ==
  /\ ~building
  /\ disk' = [disk EXCEPT ![f] = ShapeOf[i]]
  /\ dat' = [dat EXCEPT ![f] = [mIRHash |-> i, mIROrderedHash |-> ShapeOf[i]]]
  /\ TimeChanges({f})

RemoveDirectory ==
  /\ ~building
  /\ disk' = [f \in Files |-> None] /\ dat' = NoEntries
  /\ TimeChanges(Files)

-----------------------------------------------------------------------------
Next ==
  \/ \E f \in Files :
       \/ \E i \in IRs : OtherBuild(f, i)
       \/ \E i \in IRs, isHot \in BOOLEAN : CheckCache(f, i, isHot)
       \/ SetHash(f) \/ FindShape(f) \/ GenerateFile(f)
       \/ \E damaged \in BOOLEAN :
            GenerateError(f, damaged) \/ WriteFails(f, damaged)
       \/ \E l \in OldThreads : Abort(f, l)
  \/ \E fs \in SUBSET Files : StartBuild(fs) \/ Crash(fs) \/ CrashInWrite(fs)
  \/ \E l \in OldThreads : LateStep(l)
  \/ Finish \/ FinishNothing \/ WriteBuildCache
  \/ \E objectsToo \in BOOLEAN : Clean(objectsToo)
  \/ RemoveDirectory

Spec == Init /\ [][Next]_vars

-----------------------------------------------------------------------------
TypeOK ==
  /\ ir \in [Files -> IRs \cup {None}] /\ disk \in [Files -> Shapes \cup {None}]
  /\ dat \in [Files -> Entries \cup {None}]
  /\ mFileMap \in [Files -> Entries \cup {None}]
  /\ {loaded, mFileFailed, mVerified, mError, mDisableCacheReads, building}
       \subseteq BOOLEAN
  /\ mFileTime \in {"zero", "same", "other"}
  /\ request \in [Files -> Results \cup
                   {"none", "queued", "generate", "write", "Aborted"}]
  /\ orderedHash \in [Files -> Shapes \cup {None}]
  /\ mOldThreads \in [OldThreads -> Jobs]
  /\ unsaved \subseteq Files /\ lost \subseteq Files
  /\ abandoned \subseteq Files /\ earlyCheck \in BOOLEAN

(* A file that a build reports as done has an object of the current code on *)
(* disk, found in the cache or generated, unless the build reports an       *)
(* error, or the records of the file were lost (the process died between    *)
(* writing the object and saving build.dat, or build.dat was saved over     *)
(* somebody else's), or written by a thread left behind with a request that *)
(* Finish aborted.                                                          *)
DoneIsCurrent ==
  \A f \in Files :
    /\ request[f] \in {"Done", "DoneCached"}
    /\ f \notin lost \cup abandoned /\ ~mError
    => disk[f] = ShapeOf[ir[f]]

(* What has failed is generated again: neither the session nor, once it is  *)
(* saved, build.dat has a hash for it, unless a thread left behind has      *)
(* recorded one for a request that Finish aborted.                          *)
FailedIsForgotten ==
  \A f \in Files :
    request[f] = "Failed" /\ ~building /\ f \notin abandoned =>
      mFileMap[f] = None /\ (f \notin unsaved => dat[f] = None)

(* A build that used the cache and saves over a build.dat that somebody     *)
(* else has changed reports it ("Build directory corrupted"), unless a      *)
(* thread left behind verified the directory before it was changed.         *)
ForeignIsReported ==
  [][Finish /\ mFileTime = "other" /\ (\E f \in Files : request[f] \in Results)
       => mError \/ earlyCheck]_vars
==============================================================================
