---------------------------- MODULE MCExperiment ----------------------------
(* Small instances of Experiment. *)
EXTENDS Experiment, TLC

CONSTANTS original, r1
=============================================================================
