---------------------------- MODULE MCRootDump -----------------------------
(***************************************************************************)
(* Small instances of roots.dump for TLC.                                  *)
(***************************************************************************)
EXTENDS RootDump, TLC

CONSTANTS r1, r2, r3, d1, d2

TwoRoots   == {r1, r2}
ThreeRoots == {r1, r2, r3}

(* The threads are alike, and so are the directories that stay.            *)
DumpSymmetry == Permutations({d1, d2}) \union Permutations({r1, r2})
=============================================================================
