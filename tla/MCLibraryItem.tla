--------------------------- MODULE MCLibraryItem ---------------------------
(* LibraryItem for TLC: a Live Photo and an ordinary photo, two pipelines. *)
EXTENDS LibraryItem, TLC

CONSTANTS a1, a2, p1, p2

TwoAssets == {a1, a2}
TwoPipes  == {p1, p2}

\* Pipelines are interchangeable; assets are not: one of them is a Live Photo.
Symmetry == Permutations(TwoPipes)
=============================================================================
