-------------------------- MODULE MCEpochLifecycle --------------------------
(* Values for model-checking the epochs of a fund. *)
EXTENDS EpochLifecycle, TLC

CONSTANTS t1, t2, b1, c1, c2, p1

MCTicks == {t1, t2}
MCClaims == {c1, c2}

(* Both claims are one participant's, so that the later one replaces the *)
(* earlier one when they fall in the same epoch.                         *)
MCAuthor == (c1 :> p1) @@ (c2 :> p1)

Symmetry == Permutations(MCTicks) \cup Permutations(MCClaims)
=============================================================================
