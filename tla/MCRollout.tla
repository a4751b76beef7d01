----------------------------- MODULE MCRollout -----------------------------
(* Small instances of Rollout. *)
EXTENDS Rollout, TLC

CONSTANTS v1, v2, v3

Symmetries == Permutations(Releases)
=============================================================================
