---------------------------- MODULE MCEncryption ---------------------------
(* Files, contents, passphrases, devices and labels are interchangeable. *)
EXTENDS Encryption, TLC

CONSTANTS f, g, x, y, p1, p2, k1, k2, l1, l2

Symmetry ==
    Permutations(File) \cup Permutations(Content) \cup Permutations(Passphrase)
    \cup Permutations(Device) \cup Permutations(Label)
=============================================================================
