----------------------------- MODULE MCShrinker -----------------------------
(***************************************************************************)
(* Model-checking instance of Shrinker.  The .cfg files pick how many      *)
(* instances, scan threads and count threads take part.                    *)
(***************************************************************************)
EXTENDS ShrinkerRefinement, TLC

CONSTANTS i1, i2, i3, s1, s2, c1

CONSTANT MaxScans   \* bound: calls of f3fs_shrink_scan explored

TwoInst == {i1, i2}
ThreeInst == {i1, i2, i3}
TwoScanners == {s1, s2}
OneScanner == {s1}
OneCounter == {c1}
NoCounter == {}

\* The host keeps calling scan; the model explores MaxScans calls.
ScanBound == scans <= MaxScans

\* Instances are interchangeable, and so are scan threads; used only for
\* safety runs.
InstSymmetry == Permutations(Inst)
FullSymmetry == Permutations(Inst) \cup Permutations(Scanners)
=============================================================================
