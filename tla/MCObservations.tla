---------------------------- MODULE MCObservations ----------------------------
(***************************************************************************)
(* Instances of Observations for TLC: one row per chunk, so that a rewrite *)
(* of two rows already takes two transactions.                             *)
(***************************************************************************)
EXTENDS Observations, TLC

CONSTANTS c, d

Symmetry == Permutations(Calls)
=============================================================================
