-------------------------- MODULE MCPhotosDelete --------------------------
(* PhotosDelete for TLC: a Live Photo and an ordinary one, two threads.    *)
EXTENDS PhotosDelete, TLC

CONSTANTS a1, a2, j1, j2

Assets == {a1, a2}
Jobs   == {j1, j2}

\* Threads are interchangeable.
Symmetry == Permutations(Jobs)
=============================================================================
