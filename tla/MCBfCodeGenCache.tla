--------------------------- MODULE MCBfCodeGenCache ---------------------------
(* BfCodeGenCache for TLC: two files; of the three IRs two differ only in   *)
(* the order of their functions.  One thread that is left behind is enough  *)
(* for one file; the bound lets it loose only where the other file has not  *)
(* been built, or the states would be too many.                             *)
EXTENDS BfCodeGenCache, TLC

CONSTANTS i1, i2, i3, s1, s2

MCIRs == {i1, i2, i3}
MCShapes == {s1, s2}
MCShapeOf == i1 :> s1 @@ i2 :> s1 @@ i3 :> s2
Symmetry == Permutations(Files) \cup {i1 :> i2 @@ i2 :> i1 @@ i3 :> i3}

Untouched(f) == /\ request[f] = "none" /\ disk[f] = None
                /\ mFileMap[f] = None /\ dat[f] = None
AbandonedIsAlone == abandoned # {} => \A f \in Files \ abandoned : Untouched(f)
(* What a later step can still tell apart: not whether build.dat may be     *)
(* read once the directory is known, nor the IR of a request that failed,   *)
(* nor an object whose records may be wrong, until it is generated again.   *)
Seen ==
  <<[f \in Files |-> IF request[f] = "Failed" THEN None ELSE ir[f]],
    [f \in Files |-> IF f \in lost \cup abandoned THEN None ELSE disk[f]],
    dat, dirVars, mDisableCacheReads /\ ~loaded, building, request,
    orderedHash, mOldThreads, history>>
==============================================================================
