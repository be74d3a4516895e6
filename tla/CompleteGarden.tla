--------------------------- MODULE CompleteGarden --------------------------
(***************************************************************************)
(* What sgardd promises to a single user: a register that holds a manifest *)
(* with all of its blobs, replaced as a whole and only by a newer one.     *)
(***************************************************************************)
EXTENDS Manifests

VARIABLES
    current,  \* the manifest served
    held      \* the blobs held

Init == current = Empty(0) /\ held \subseteq Blob

(* Blobs arrive ahead of the manifest that names them. *)
Arrive == held \subseteq held' /\ held' \subseteq Blob /\ current' = current

(* A newer manifest is published once all of its blobs are there. *)
Publish ==
    /\ current' \in Manifest /\ After(current', current)
    /\ held \subseteq held' /\ held' \subseteq Blob
    /\ Blobs(current') \subseteq held'

(* Blobs the manifest does not name may go. *)
Collect ==
    /\ current' = current
    /\ held' \subseteq held /\ held \cap Blobs(current) \subseteq held'

Next == Arrive \/ Publish \/ Collect

Spec == Init /\ [][Next]_<<current, held>>

(* Whatever the register serves is complete. *)
Complete == Blobs(current) \subseteq held
=============================================================================
