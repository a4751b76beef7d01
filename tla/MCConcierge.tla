---------------------------- MODULE MCConcierge ----------------------------
(* Small instances of Concierge. *)
EXTENDS Concierge

\* What an author did in DEV fails the last case.
LastCase == {<<Edited, Cases>>}
=============================================================================
