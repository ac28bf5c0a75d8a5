--------------------------- MODULE MCVersionStore ---------------------------
(***************************************************************************)
(* VersionStore with the default branch and one more.                      *)
(***************************************************************************)
EXTENDS VersionStore, TLC

CONSTANTS p1, p2, main, feature

MCProcs == {p1, p2}
MCBranches == {main, feature}
MCSymmetry == Permutations(MCProcs)
=============================================================================
