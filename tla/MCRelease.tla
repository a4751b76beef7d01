----------------------------- MODULE MCRelease -----------------------------
(* Small instances of Release. *)
EXTENDS Release, TLC

CONSTANTS j1, j2, j3, v5, v6, v7, imageA, imageB, authA, authB

Symmetries == Permutations(Images) \cup Permutations(Contracts)
JobSymmetries == Permutations(Jobs) \cup Symmetries
=============================================================================
