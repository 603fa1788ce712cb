----------------------------- MODULE MCUpdater -----------------------------
(* An instance of Updater for TLC. *)
EXTENDS Updater, TLC

CONSTANTS p1, p2

Symmetry == Permutations(Proc)

=============================================================================
