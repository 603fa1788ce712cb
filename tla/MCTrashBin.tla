----------------------------- MODULE MCTrashBin -----------------------------
(* Instances of TrashBin for TLC. *)
EXTENDS TrashBin, TLC

CONSTANTS f1, f2, f3, m1, m2

TwoFiles == {f1, f2}
ThreeFiles == {f1, f2, f3}

\* Files are interchangeable, and so are the tasks that move them.
Symmetry == Permutations(File) \cup Permutations(Mover)

=============================================================================
