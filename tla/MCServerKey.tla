----------------------------- MODULE MCServerKey -----------------------------
(* ServerKey for TLC: one server, a key to paste and one to mint.           *)
EXTENDS ServerKey, TLC

CONSTANTS u1, minted, pasted, w1, w2, t1

Keys == {minted, pasted}
Windows == {w1, w2}
Symmetry == Permutations(Windows)
=============================================================================
