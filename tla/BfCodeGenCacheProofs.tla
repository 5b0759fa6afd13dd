------------------------- MODULE BfCodeGenCacheProofs --------------------------
(* Theorems about BfCodeGenCache, for any files, IRs and shapes.            *)
EXTENDS BfCodeGenCache, TLAPS

(***************************************************************************)
(* The inductive invariant.                                                *)
(***************************************************************************)

(* Types, also of the parts of a record.                                    *)
TypeInv ==
  /\ ir \in [Files -> IRs \cup {None}] /\ disk \in [Files -> Shapes \cup {None}]
  /\ dat \in [Files -> Entries \cup {None}]
  /\ mFileMap \in [Files -> Entries \cup {None}]
  /\ loaded \in BOOLEAN /\ mFileFailed \in BOOLEAN /\ mVerified \in BOOLEAN
  /\ mError \in BOOLEAN /\ mDisableCacheReads \in BOOLEAN
  /\ building \in BOOLEAN
  /\ mFileTime \in {"zero", "same", "other"}
  /\ request \in [Files -> Results \cup
                   {"none", "queued", "generate", "write", "Aborted"}]
  /\ orderedHash \in [Files -> Shapes \cup {None}]
  /\ mOldThreads \in [OldThreads -> Jobs]
  /\ unsaved \subseteq Files /\ lost \subseteq Files
  /\ abandoned \subseteq Files /\ earlyCheck \in BOOLEAN

(* A thread left behind works, with the directory's data, on a file that is *)
(* known to be abandoned.                                                   *)
JobsInv ==
  \A l \in OldThreads :
    /\ mOldThreads[l].at # "none" => loaded
    /\ mOldThreads[l].at \in {"lookup", "generate", "write"} =>
         mOldThreads[l].file \in abandoned
    /\ mOldThreads[l].at = "generate" => mOldThreads[l].mIRHash \in IRs

(* An entry tells the truth about an object: it has the shape of the IR     *)
(* that is on record, and so has the ordered hash, if there is one.         *)
TrueOf(entry, object) ==
  /\ object = ShapeOf[entry.mIRHash]
  /\ Windows /\ entry.mIROrderedHash # None => entry.mIROrderedHash = object

(* build.dat tells the truth, except of what has been written since, and of *)
(* files whose records are known to be lost or abandoned.                   *)
SavedInv ==
  \A f \in Files :
    dat[f] # None /\ f \notin lost \cup unsaved \cup abandoned =>
      TrueOf(dat[f], disk[f])

(* So do the records in memory, as long as nobody else has written          *)
(* build.dat (or it is known who has: earlyCheck), except of a file that is *)
(* being generated or could not be.                                         *)
Known == mFileTime # "other" \/ earlyCheck
RecordInv ==
  \A f \in Files :
    /\ mFileMap[f] # None /\ f \notin lost \cup abandoned /\ Known
    /\ request[f] \notin {"generate", "write", "Failed"}
    => TrueOf(mFileMap[f], disk[f])

(* A file is generated with the hash of its IR on record already; the       *)
(* ordered hash that its request keeps is that of the object on disk, and   *)
(* when the object is written, the ordered hash on record is the new one.   *)
GenerateInv ==
  \A f \in Files : request[f] \in {"generate", "write"} =>
    /\ ir[f] \in IRs
    /\ f \notin abandoned =>
         /\ mFileMap[f] # None /\ mFileMap[f].mIRHash = ir[f]
         /\ Windows /\ orderedHash[f] # None /\ f \notin lost /\ Known
              => disk[f] = orderedHash[f]
         /\ request[f] = "write" /\ Windows
              => mFileMap[f].mIROrderedHash = ShapeOf[ir[f]]

(* A failure leaves no hash, or none that will survive the next Write.      *)
FailureInv ==
  \A f \in Files :
    /\ request[f] = "Failed" /\ f \notin abandoned =>
         /\ mFileMap[f] = None \/ (building /\ mFileFailed)
         /\ f \in unsaved \/ dat[f] = None
    /\ request[f] = "Aborted" => f \in abandoned

(* Who has build.dat been read by and when: before that nothing is known;   *)
(* without a time of the file, all that is known is from this session; and  *)
(* a build after somebody else's is not verified, and reports it, unless a  *)
(* thread left behind has seen to it.                                       *)
SessionInv ==
  /\ ~loaded =>
       /\ mFileTime = "zero" /\ unsaved = {} /\ mFileMap = NoEntries
       /\ ~mFileFailed /\ ~earlyCheck
       /\ \A f \in Files : request[f] \in {"none", "queued"}
  /\ mFileTime = "zero" =>
       \A f \in Files : mFileMap[f] # None =>
         \/ request[f] \in {"generate", "write"} /\ orderedHash[f] = None
         \/ f \in unsaved \cup lost \cup abandoned
  /\ loaded /\ (~building \/ mFileTime = "other") => ~mVerified \/ earlyCheck
  /\ ~building => \A f \in Files : request[f] \in {"none", "Failed"}
  /\ building /\ mFileTime = "other" =>
       \A f \in Files : request[f] \in Results \cup {"generate", "write"} =>
         mError \/ earlyCheck

(* All of it, with the property it is for.                                  *)
IInv ==
  /\ TypeInv /\ JobsInv /\ SavedInv /\ RecordInv /\ GenerateInv /\ FailureInv
  /\ SessionInv /\ DoneIsCurrent

(***************************************************************************)
(* Every step keeps it.                                                    *)
(***************************************************************************)

(* Every step keeps the invariant: the threads of a build and those left    *)
(* behind, what Finish and the link save, crashes, Clean, and other users   *)
(* of the directory.                                                        *)
LEMMA CacheStep ==
  ASSUME IInv, Next
  PROVE  IInv'
<1> USE CacheAssumption DEF IInv, TypeInv, Results, Entries, Jobs, Job, Idle
<1>1. ASSUME NEW fs \in SUBSET Files, StartBuild(fs)
      PROVE  IInv'
  BY <1>1 DEF StartBuild, dirVars, history, JobsInv, SavedInv, RecordInv,
     GenerateInv, FailureInv, SessionInv, DoneIsCurrent, TrueOf, Known
<1>2. ASSUME NEW f \in Files, NEW i \in IRs, OtherBuild(f, i)
      PROVE  IInv'
  BY <1>2 DEF OtherBuild, TimeChanges, NoRequests, JobsInv, SavedInv, RecordInv,
     GenerateInv, FailureInv, SessionInv, DoneIsCurrent, TrueOf, Known
<1>3. ASSUME NEW f \in Files, NEW i \in IRs, NEW isHot \in BOOLEAN,
             CheckCache(f, i, isHot)
      PROVE  IInv'
  <2> DEFINE read == ReadMap
  <2>1. /\ read \in [Files -> Entries \cup {None}]
        /\ mFileMap' = [read EXCEPT
             ![f] = IF read[f] = None
                      THEN [mIRHash |-> i, mIROrderedHash |-> None]
                      ELSE [read[f] EXCEPT !.mIRHash = i]]
        /\ loaded => read = mFileMap
    BY <1>3 DEF CheckCache, LookUp, ReadMap, NoEntries, SessionInv
  <2>2. \A g \in Files :
          /\ read[g] # None /\ g \notin lost \cup abandoned
          /\ mFileTime' # "other" \/ earlyCheck
          /\ request[g] \notin {"generate", "write", "Failed"}
          => TrueOf(read[g], disk[g])
    BY <1>3 DEF CheckCache, LookUp, ReadMap, ReadTime, NoEntries, SessionInv,
       SavedInv, RecordInv, TrueOf, Known
  <2>3. /\ UNCHANGED <<disk, dat, mFileFailed, building, unsaved, earlyCheck>>
        /\ building /\ loaded'
        /\ ir' = [ir EXCEPT ![f] = i]
        /\ \/ /\ read[f] # None /\ read[f].mIRHash = i
              /\ request' = [request EXCEPT ![f] = "DoneCached"]
              /\ orderedHash' = [orderedHash EXCEPT ![f] = None]
              /\ abandoned' = abandoned /\ lost' = lost
           \/ /\ request' = [request EXCEPT ![f] = "generate"]
              /\ \/ orderedHash' = [orderedHash EXCEPT ![f] = None]
                 \/ /\ read[f] # None
                    /\ orderedHash' = [orderedHash EXCEPT
                                         ![f] = read[f].mIROrderedHash]
              /\ abandoned' = abandoned \ Recovered(f)
              /\ lost' = lost \cup Recovered(f)
    <3>1. CASE Match(f, i, isHot)
      BY <3>1, <1>3 DEF CheckCache, LookUp, Match
    <3>2. CASE ~Match(f, i, isHot)
      BY <3>2, <1>3 DEF CheckCache, LookUp
    <3> QED
      BY <3>1, <3>2
  <2>4. /\ mFileTime' # "other" => mFileTime # "other"
        /\ request[f] = "queued" /\ mOldThreads' = mOldThreads
        /\ mError => mError'
    BY <1>3 DEF CheckCache, LookUp, ReadTime, Verify, SessionInv
  <2>5. TypeInv'
    BY <1>3 DEF CheckCache, LookUp, Match, Recovered, ReadMap, ReadTime, Verify,
       Corrupted, NoEntries
  <2>6. JobsInv'
    BY <2>3, <2>4 DEF JobsInv, Recovered
  <2>7. SessionInv'
    <3>1. mFileTime' = "zero" => dat = NoEntries \/ loaded \/ mDisableCacheReads
      BY <1>3 DEF CheckCache, LookUp, ReadTime
    <3>2. mFileTime' = "zero" => mFileTime = "zero" /\ read = mFileMap
      BY <3>1, <1>3 DEF CheckCache, LookUp, ReadTime, ReadMap, SessionInv
    <3>3. mFileTime' = "zero" =>
            \A g \in Files : mFileMap'[g] # None =>
              \/ /\ request'[g] \in {"generate", "write"}
                 /\ orderedHash'[g] = None
              \/ g \in unsaved' \cup lost' \cup abandoned'
      BY <3>2, <2>1, <2>3, <2>4, <1>3 DEF CheckCache, SessionInv, Recovered
    <3>4. mFileTime' = "other" => loaded /\ mFileTime = "other"
      BY <1>3 DEF CheckCache, LookUp, ReadTime, SessionInv
    <3>5. mFileTime' = "other" => ~mVerified' \/ earlyCheck
      BY <3>4, <1>3 DEF CheckCache, LookUp, Verify, Corrupted, SessionInv
    <3>6. mFileTime' = "other" => mError' \/ earlyCheck
      BY <3>4, <1>3 DEF CheckCache, LookUp, Verify, Corrupted, SessionInv
    <3> QED
      BY <3>3, <3>5, <3>6, <2>3 DEF SessionInv
  <2>8. SavedInv' /\ FailureInv'
    BY <2>1, <2>3, <2>4 DEF SavedInv, FailureInv, TrueOf, SessionInv, Recovered
  <2> HIDE DEF read
  <2>9. \A g \in Files \ {f} : mFileMap'[g] = read[g]
    BY <2>1
  <2>10. RecordInv'
    <3> SUFFICES ASSUME NEW g \in Files, mFileMap'[g] # None,
                        g \notin lost' \cup abandoned', Known',
                        request'[g] \notin {"generate", "write", "Failed"}
                 PROVE  TrueOf(mFileMap'[g], disk'[g])
      BY DEF RecordInv, TrueOf
    <3>1. CASE g # f
      BY <3>1, <2>2, <2>3, <2>9 DEF Known, Recovered
    <3>2. CASE g = f
      <4>1. /\ read[f] # None /\ read[f].mIRHash = i
            /\ abandoned' = abandoned /\ lost' = lost
        BY <3>2, <2>3
      <4>2. TrueOf(read[f], disk[f])
        BY <3>2, <4>1, <2>2, <2>3, <2>4 DEF Known
      <4> QED
        BY <3>2, <4>1, <4>2, <2>1, <2>3 DEF TrueOf
    <3> QED
      BY <3>1, <3>2
  <2>11. GenerateInv'
    <3> SUFFICES ASSUME NEW g \in Files, request'[g] \in {"generate", "write"}
                 PROVE  (/\ ir[g] \in IRs
                         /\ g \notin abandoned =>
                              /\ mFileMap[g] # None
                              /\ mFileMap[g].mIRHash = ir[g]
                              /\ /\ Windows /\ orderedHash[g] # None
                                 /\ g \notin lost /\ Known
                                 => disk[g] = orderedHash[g]
                              /\ request[g] = "write" /\ Windows =>
                                   mFileMap[g].mIROrderedHash = ShapeOf[ir[g]])'
      BY DEF GenerateInv
    <3>1. CASE g # f
      <4>1. mFileMap'[g] = mFileMap[g] /\ (g \in abandoned' <=> g \in abandoned)
        BY <3>1, <2>1, <2>3, <2>4, <2>9 DEF SessionInv, Recovered
      <4>2. g \in lost => g \in lost'
        BY <2>3
      <4> QED
        BY <3>1, <4>1, <4>2, <2>3, <2>4 DEF GenerateInv, Known
    <3>2. CASE g = f
      <4>1. mFileMap'[f] # None /\ mFileMap'[f].mIRHash = i
        BY <2>1
      <4>2. request'[f] = "generate" /\ ir'[f] = i
        BY <3>2, <2>3
      <4>3. ASSUME orderedHash'[f] # None, Windows, Known',
                   f \notin lost' \cup abandoned'
            PROVE  disk[f] = orderedHash'[f]
        <5>1. /\ read[f] # None /\ orderedHash'[f] = read[f].mIROrderedHash
              /\ f \notin lost \cup abandoned
          BY <4>2, <4>3, <2>3 DEF Recovered
        <5> QED
          BY <5>1, <4>3, <2>2, <2>3, <2>4 DEF TrueOf, Known
      <4> QED
        BY <3>2, <4>1, <4>2, <4>3, <2>3
    <3> QED
      BY <3>1, <3>2
  <2>12. DoneIsCurrent'
    <3> SUFFICES ASSUME NEW g \in Files, request'[g] \in {"Done", "DoneCached"},
                        g \notin lost' \cup abandoned', ~mError'
                 PROVE  disk'[g] = ShapeOf[ir'[g]]
      BY DEF DoneIsCurrent
    <3>1. CASE g # f
      BY <3>1, <2>3, <2>4 DEF DoneIsCurrent, Recovered
    <3>2. CASE g = f
      <4>1. /\ read[f] # None /\ read[f].mIRHash = i
            /\ abandoned' = abandoned /\ lost' = lost
        BY <3>2, <2>3
      <4>2. mFileTime' # "other" \/ earlyCheck
        BY <2>7, <2>3, <3>2 DEF SessionInv
      <4> QED
        BY <3>2, <4>1, <4>2, <2>2, <2>3, <2>4 DEF TrueOf
    <3> QED
      BY <3>1, <3>2
  <2> QED
    BY <2>5, <2>6, <2>7, <2>8, <2>10, <2>11, <2>12
<1>4. ASSUME NEW f \in Files, SetHash(f)
      PROVE  IInv'
  BY <1>4 DEF SetHash, RecordHash, Verify, Corrupted, history, JobsInv,
     SavedInv, RecordInv, GenerateInv, FailureInv, SessionInv, DoneIsCurrent,
     TrueOf, Known
<1>5. ASSUME NEW f \in Files, FindShape(f)
      PROVE  IInv'
  BY <1>5 DEF FindShape, Result, SameShape, JobsInv, SavedInv, RecordInv,
     GenerateInv, FailureInv, SessionInv, DoneIsCurrent, TrueOf, Known
<1>6. ASSUME NEW f \in Files, GenerateFile(f)
      PROVE  IInv'
  BY <1>6 DEF GenerateFile, Result, SameShape, JobsInv, SavedInv, RecordInv,
     GenerateInv, FailureInv, SessionInv, DoneIsCurrent, TrueOf, Known
<1>7. ASSUME NEW f \in Files, NEW damaged \in BOOLEAN,
             GenerateError(f, damaged)
      PROVE  IInv'
  BY <1>7 DEF GenerateError, Result, ClearHash, SameShape, JobsInv, SavedInv,
     RecordInv, GenerateInv, FailureInv, SessionInv, DoneIsCurrent, TrueOf,
     Known
<1>8. ASSUME NEW f \in Files, NEW damaged \in BOOLEAN, WriteFails(f, damaged)
      PROVE  IInv'
  BY <1>8 DEF WriteFails, Result, SameShape, JobsInv, SavedInv, RecordInv,
     GenerateInv, FailureInv, SessionInv, DoneIsCurrent, TrueOf, Known
<1>9. ASSUME NEW f \in Files, NEW l \in OldThreads, Abort(f, l)
      PROVE  IInv'
  BY <1>9 DEF Abort, dirVars, JobsInv, SavedInv, RecordInv, GenerateInv,
     FailureInv, SessionInv, DoneIsCurrent, TrueOf, Known
<1>10. ASSUME NEW l \in OldThreads, NEW i \in IRs, NEW isHot \in BOOLEAN,
             LateCheckCache(l, i, isHot)
      PROVE  IInv'
  <2> DEFINE f == mOldThreads[l].file
  <2>1. f \in abandoned /\ loaded
    BY <1>10 DEF LateCheckCache, Late, JobsInv
  <2>2. /\ mFileMap' = [mFileMap EXCEPT
             ![f] = IF @ = None THEN [mIRHash |-> i, mIROrderedHash |-> None]
                                ELSE [@ EXCEPT !.mIRHash = i]]
        /\ loaded' = TRUE /\ mFileTime' = mFileTime
        /\ Verify(TRUE) /\ ChecksEarly
        /\ UNCHANGED <<ir, disk, dat, mFileFailed, mDisableCacheReads, building,
                       request, orderedHash, unsaved, lost, abandoned>>
    BY <1>10, <2>1 DEF LateCheckCache, Late, LookUp, ReadMap, ReadTime
  <2>3. mOldThreads' = [mOldThreads EXCEPT ![l] = Idle]
          \/ mOldThreads' = [mOldThreads EXCEPT ![l] = Job("generate", f, i)]
    BY <1>10 DEF LateCheckCache, Late
  <2> HIDE DEF f
  <2>4. mError => mError'
    BY <2>2 DEF Verify
  <2>5. earlyCheck => earlyCheck'
    BY <2>2 DEF ChecksEarly
  <2>6. \A g \in Files \ {f} : mFileMap'[g] = mFileMap[g]
    BY <2>2
  <2>7. /\ mFileTime = "other" => earlyCheck' = earlyCheck
        /\ mFileTime = "other" /\ ~earlyCheck /\ ~mVerified => ~mVerified'
        /\ ~building => ~mVerified' \/ earlyCheck'
    BY <2>1, <2>2 DEF Verify, ChecksEarly, Corrupted, SessionInv
  <2>8. TypeInv'
    <3>1. mFileMap' \in [Files -> Entries \cup {None}]
      <4>1. CASE mFileMap[f] = None
        BY <4>1, <2>2
      <4>2. CASE mFileMap[f] # None
        <5>1. mFileMap[f] \in Entries
          BY <4>2, <2>1
        <5> QED
          BY <4>2, <5>1, <2>2
      <4> QED
        BY <4>1, <4>2
    <3>2. mOldThreads' \in [OldThreads -> Jobs]
      BY <2>1, <2>3
    <3>3. {mVerified', mError', earlyCheck'} \subseteq BOOLEAN
      BY <2>2 DEF Verify, ChecksEarly
    <3> QED
      BY <2>2, <3>1, <3>2, <3>3
  <2>9. JobsInv'
    BY <2>1, <2>2, <2>3 DEF JobsInv
  <2>10. SavedInv' /\ RecordInv' /\ GenerateInv'
    BY <2>1, <2>2, <2>6, <2>7 DEF SavedInv, RecordInv, GenerateInv, TrueOf,
       Known
  <2>11. FailureInv' /\ DoneIsCurrent'
    BY <2>1, <2>2, <2>4, <2>6 DEF FailureInv, DoneIsCurrent
  <2>12. SessionInv'
    BY <2>1, <2>2, <2>4, <2>5, <2>6, <2>7 DEF SessionInv
  <2> QED
    BY <2>8, <2>9, <2>10, <2>11, <2>12
<1>11. ASSUME NEW l \in OldThreads, NEW shape \in Shapes,
             LateSetHash(l, shape)
      PROVE  IInv'
  BY <1>11 DEF LateSetHash, Late, RecordHash, ChecksEarly, Verify, Corrupted,
     JobsInv, SavedInv, RecordInv, GenerateInv, FailureInv, SessionInv,
     DoneIsCurrent, TrueOf, Known
<1>12. ASSUME NEW l \in OldThreads, NEW object \in Shapes \cup {None},
             NEW outcome \in {"done", "error", "writeFails"},
             LateResult(l, object, outcome)
      PROVE  IInv'
  BY <1>12 DEF LateResult, Late, ClearHash, JobsInv, SavedInv, RecordInv,
     GenerateInv, FailureInv, SessionInv, DoneIsCurrent, TrueOf, Known
<1>13. ASSUME NEW fs \in SUBSET Files, Crash(fs)
      PROVE  IInv'
  BY <1>13 DEF Crash, NewSession, NoEntries, NoRequests, NoJobs, JobsInv,
     SavedInv, RecordInv, GenerateInv, FailureInv, SessionInv, DoneIsCurrent,
     TrueOf, Known
<1>14. ASSUME NEW fs \in SUBSET Files, CrashInWrite(fs)
      PROVE  IInv'
  BY <1>14 DEF CrashInWrite, NewSession, WriteMap, Overwritten, Finished,
     NoEntries, NoRequests, NoJobs, JobsInv, SavedInv, RecordInv, GenerateInv,
     FailureInv, SessionInv, DoneIsCurrent, TrueOf, Known
<1>15. CASE Finish
  <2>1. /\ building /\ loaded
        /\ building' = FALSE /\ mError' = FALSE /\ earlyCheck' = FALSE
        /\ \A g \in Files : request[g] \notin {"generate", "write"}
        /\ request' = Failures /\ ir' = NoEntries /\ mVerified' = FALSE
        /\ UNCHANGED <<loaded, mDisableCacheReads, orderedHash, abandoned>>
    BY <1>15 DEF Finish, FinishWrite, Finished
  <2>2. /\ mOldThreads' \in [OldThreads -> Jobs]
        /\ \A l \in OldThreads :
             mOldThreads'[l] = mOldThreads[l] \/ mOldThreads'[l] = Idle
    BY <1>15 DEF Finish, FinishWrite, LeaveBehind
  <2>3. (\E saved \in SUBSET Files : WriteOk(saved)) \/ WriteGone \/ WriteError
    BY <1>15 DEF Finish, FinishWrite, Saves
  <2>4. JobsInv' /\ GenerateInv' /\ DoneIsCurrent'
    BY <2>1, <2>2 DEF JobsInv, GenerateInv, DoneIsCurrent, Failures
  <2>5. /\ mFileMap' \in [Files -> Entries \cup {None}] /\ mFileFailed' = FALSE
        /\ \A g \in Files : /\ mFileMap'[g] \in {mFileMap[g], None}
                            /\ mFileFailed => mFileMap'[g] = None
        /\ unsaved' \in {unsaved, {}}
        /\ lost \subseteq lost' /\ lost' \subseteq Files
    BY <2>3 DEF WriteOk, WriteGone, WriteError, WriteMap, Overwritten, NoEntries
  <2>6. ASSUME NEW saved \in SUBSET Files, WriteOk(saved)
        PROVE  IInv'
    <3>1. /\ mFileTime' = "same" /\ unsaved' = {} /\ UNCHANGED disk
          /\ \A g \in Files : dat'[g] \in {mFileMap'[g], None}
          /\ dat' \in [Files -> Entries \cup {None}]
          /\ mFileTime = "other" => lost' = Files
      BY <2>6 DEF WriteOk, WriteMap, Overwritten, NoEntries
    <3>2. TypeInv'
      BY <2>1, <2>2, <2>5, <3>1 DEF Failures, NoEntries
    <3>3. \A g \in Files :
            mFileMap'[g] # None /\ g \notin lost' \cup abandoned =>
              mFileMap'[g] = mFileMap[g] /\ TrueOf(mFileMap[g], disk[g])
      BY <2>1, <2>5, <3>1 DEF RecordInv, FailureInv, Known
    <3>4. SavedInv' /\ RecordInv'
      BY <2>1, <2>5, <3>1, <3>3 DEF SavedInv, RecordInv, TrueOf
    <3>5. FailureInv'
      BY <2>1, <2>5, <3>1 DEF FailureInv, Failures
    <3>6. SessionInv'
      BY <2>1, <3>1 DEF SessionInv, Failures
    <3> QED
      BY <2>4, <3>2, <3>4, <3>5, <3>6
  <2>7. CASE WriteGone
    <3>1. /\ mFileTime' = IF mFileTime = "zero" THEN "zero" ELSE "other"
          /\ unsaved' = {} /\ UNCHANGED lost
          /\ dat' = NoEntries /\ mFileMap' = NoEntries
          /\ disk' = [g \in Files |-> None]
      BY <2>7 DEF WriteGone
    <3>2. TypeInv'
      BY <2>1, <2>2, <2>5, <3>1 DEF Failures, NoEntries
    <3>3. SavedInv' /\ RecordInv' /\ FailureInv' /\ SessionInv'
      BY <2>1, <3>1 DEF SavedInv, RecordInv, FailureInv, SessionInv, Failures,
         NoEntries
    <3> QED
      BY <2>4, <3>2, <3>3
  <2>8. CASE WriteError
    <3>1. UNCHANGED <<disk, dat, mFileTime, unsaved, lost>>
      BY <2>8 DEF WriteError
    <3>2. TypeInv'
      BY <2>1, <2>2, <2>5, <3>1 DEF Failures, NoEntries
    <3>3. SavedInv' /\ FailureInv'
      BY <2>1, <2>5, <3>1 DEF SavedInv, FailureInv, Failures, TrueOf
    <3>4. RecordInv'
      BY <2>1, <2>5, <3>1 DEF RecordInv, FailureInv, Failures, TrueOf, Known
    <3>5. SessionInv'
      BY <2>1, <2>5, <3>1 DEF SessionInv, Failures
    <3> QED
      BY <2>4, <3>2, <3>3, <3>4, <3>5
  <2> QED
    BY <2>3, <2>6, <2>7, <2>8
<1>16. CASE FinishNothing
  BY <1>16 DEF FinishNothing, NoRequests, dirVars, history, JobsInv, SavedInv,
     RecordInv, GenerateInv, FailureInv, SessionInv, DoneIsCurrent, TrueOf,
     Known
<1>17. CASE WriteBuildCache
  <2>1. /\ ~building /\ loaded
        /\ UNCHANGED <<ir, loaded, mVerified, mDisableCacheReads, building,
                       request, orderedHash, mOldThreads, abandoned,
                       earlyCheck>>
        /\ mError' \in BOOLEAN
        /\ WriteOk(Files) \/ WriteGone \/ WriteError
    BY <1>17 DEF WriteBuildCache
  <2>2. JobsInv' /\ GenerateInv' /\ DoneIsCurrent'
    BY <2>1 DEF JobsInv, GenerateInv, DoneIsCurrent, SessionInv
  <2>3. CASE WriteOk(Files)
    BY <2>1, <2>2, <2>3 DEF WriteOk, WriteMap, Overwritten, NoEntries, SavedInv,
       RecordInv, FailureInv, SessionInv, TrueOf, Known
  <2>4. CASE WriteGone
    BY <2>1, <2>2, <2>4 DEF WriteGone, NoEntries, SavedInv, RecordInv,
       FailureInv, SessionInv, TrueOf, Known
  <2>5. CASE WriteError
    BY <2>1, <2>2, <2>5 DEF WriteError, WriteMap, NoEntries, SavedInv,
       RecordInv, FailureInv, SessionInv, TrueOf, Known
  <2> QED
    BY <2>1, <2>3, <2>4, <2>5
<1>18. ASSUME NEW objectsToo \in BOOLEAN, Clean(objectsToo)
      PROVE  IInv'
  BY <1>18 DEF Clean, NewSession, NoEntries, NoRequests, NoJobs, JobsInv,
     SavedInv, RecordInv, GenerateInv, FailureInv, SessionInv, DoneIsCurrent,
     TrueOf, Known
<1>19. CASE RemoveDirectory
  BY <1>19 DEF RemoveDirectory, TimeChanges, NoEntries, NoRequests, JobsInv,
     SavedInv, RecordInv, GenerateInv, FailureInv, SessionInv, DoneIsCurrent,
     TrueOf, Known
<1> QED
  BY <1>1, <1>2, <1>3, <1>4, <1>5, <1>6, <1>7, <1>8, <1>9, <1>10, <1>11, <1>12,
     <1>13, <1>14, <1>15, <1>16, <1>17, <1>18, <1>19 DEF Next, LateStep

(***************************************************************************)
(* The theorems.                                                           *)
(***************************************************************************)

(* The first session, in a directory without build.dat, satisfies it.       *)
LEMMA CacheInit == Init => IInv
<1> USE CacheAssumption DEF NoEntries, NoRequests, Results
<1>1. ASSUME Init
      PROVE  mOldThreads \in [OldThreads -> Jobs] /\ JobsInv
  BY <1>1 DEF Init, NoJobs, Jobs, Job, JobsInv
<1>2. ASSUME Init
      PROVE  TypeInv
  BY <1>1, <1>2 DEF Init, TypeInv
<1>3. ASSUME Init
      PROVE  /\ SavedInv /\ RecordInv /\ GenerateInv /\ FailureInv
             /\ SessionInv /\ DoneIsCurrent
  BY <1>3 DEF Init, SavedInv, RecordInv, GenerateInv, FailureInv, SessionInv,
     DoneIsCurrent
<1> QED
  BY <1>1, <1>2, <1>3 DEF IInv

(* A step that changes nothing keeps it.                                    *)
LEMMA CacheStutter == IInv /\ UNCHANGED vars => IInv'
BY DEF IInv, TypeInv, JobsInv, SavedInv, RecordInv, GenerateInv, FailureInv,
   SessionInv, DoneIsCurrent, TrueOf, Known, vars, dirVars, history

(* The invariant holds through any number of builds, sessions, crashes,     *)
(* foreign builds and threads left behind by aborted builds: what build.dat *)
(* and the compiler's memory say of the objects on disk is true, except of  *)
(* the files in unsaved, lost or abandoned.                                 *)
THEOREM RecordsAreTrue == Spec => []IInv
<1>1. IInv /\ [Next]_vars => IInv'
  BY CacheStep, CacheStutter
<1> QED
  BY <1>1, CacheInit, PTL DEF Spec

(* A file that a build reports as done (BfCodeGen::Finish counts it),       *)
(* cached or generated, has an object of the current code, unless its       *)
(* records were lost, a thread left behind has worked on it since it was    *)
(* last generated (abandoned), or the build reports an error.               *)
THEOREM DoneHasCurrentObject == Spec => []DoneIsCurrent
<1>1. IInv => DoneIsCurrent
  BY DEF IInv
<1> QED
  BY <1>1, RecordsAreTrue, PTL

(* A file that failed has no hash after Finish, neither in memory nor in    *)
(* build.dat (ClearHash, FileFailed and Write): it will be generated again. *)
(* Excepted are files that a thread left behind has worked on: its late     *)
(* SetHash leaves a hash for a request that Finish aborted.                 *)
THEOREM FailureIsForgotten == Spec => []FailedIsForgotten
<1>1. IInv => FailedIsForgotten
  BY DEF IInv, FailureInv, FailedIsForgotten
<1> QED
  BY <1>1, RecordsAreTrue, PTL

(* Finish never saves over another compiler's build.dat, after a build that *)
(* used what it knew of the directory, without an error (Verify), unless a  *)
(* thread left behind called Verify between builds (earlyCheck).            *)
THEOREM ForeignBuildIsReported == Spec => ForeignIsReported
<1>1. IInv /\ [Next]_vars =>
        [Finish /\ mFileTime = "other"
           /\ (\E f \in Files : request[f] \in Results)
           => mError \/ earlyCheck]_vars
  BY DEF IInv, SessionInv, Finish, FinishWrite
<1> QED
  BY <1>1, RecordsAreTrue, PTL DEF Spec, ForeignIsReported

================================================================================
