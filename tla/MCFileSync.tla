----------------------------- MODULE MCFileSync -----------------------------
(* FileSync for TLC: contents c1 and c2 of one size, c3 of another. *)
EXTENDS FileSync, TLC

CONSTANTS c1, c2, c3, r1, r2

SizeOf == [c \in Content |-> IF c = c3 THEN 2 ELSE 1]
TwoContents == {c1, c2}
ThreeContents == {c1, c2, c3}
TwoStamps == {1, 2}

Symmetry == Permutations({c1, c2}) \cup Permutations(Row)
=============================================================================
