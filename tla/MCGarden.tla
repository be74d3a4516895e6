------------------------------ MODULE MCGarden -----------------------------
(* Files in a directory, contents interchangeable. *)
EXTENDS Garden, TLC

CONSTANTS d, f, g, h

Tree == [p \in Path |-> IF p = d THEN Path \ {d} ELSE {}]

(* A directory with a file and a directory with another. *)
Nested == [p \in Path |-> IF p = d THEN Path \ {d} ELSE IF p = f THEN {g} ELSE {}]

Symmetry == Permutations(Content)
=============================================================================
