------------------------------- MODULE MCAuth ------------------------------
(* The machine's clock may be right, or off by more than the window.       *)
EXTENDS Auth, TLC

CONSTANTS k1, k2, p1, p2

OffSkews == {-2, 0, 2}
Right == {0}

Symmetry == Permutations(Key) \cup Permutations(Proc)
=============================================================================
