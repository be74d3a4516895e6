---- MODULE MCGardenSync ----
(* Model values are interchangeable: machines where all of them may push   *)
(* and prune, blobs everywhere.                                            *)
EXTENDS GardenSync, TLC
Symmetry == Permutations(Client) \cup Permutations(Blob)
BlobSymmetry == Permutations(Blob)
====
