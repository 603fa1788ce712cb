----------------------------- MODULE MCAlbums -----------------------------
(* Albums for TLC: two library assets of one Photos album, one file of a   *)
(* watched folder, two pipelines.                                          *)
EXTENDS Albums, TLC

CONSTANTS c1, l1, l2, f1, p1, p2, n1, n2

LibTasks == {l1, l2}
Pipes    == {p1, p2}
Titles   == {n1, n2}

\* Assets, and pipelines, are interchangeable.
Symmetry == Permutations(LibTasks) \cup Permutations(Pipes)
=============================================================================
