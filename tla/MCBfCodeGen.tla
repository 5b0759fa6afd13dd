----------------------------- MODULE MCBfCodeGen -----------------------------
(* BfCodeGen for TLC: three builds, of which the second has two modules.    *)
EXTENDS BfCodeGen

CONSTANTS m1, m2

MCModules == {m1, m2}
MCChanged == <<{m1}, {m1, m2}, {m1}>>
==============================================================================
