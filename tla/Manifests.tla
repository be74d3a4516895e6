----------------------------- MODULE Manifests -----------------------------
(***************************************************************************)
(* The data that travels between sgard machines: manifests and the blobs   *)
(* they reference (manifest/manifest.go, store/store.go).                  *)
(*                                                                         *)
(* An entry is identified with what it references: a regular file with the *)
(* blob of its contents, a link or a directory with NoBlob.  Paths, modes, *)
(* labels and encryption metadata do not take part in synchronisation.     *)
(***************************************************************************)
EXTENDS Integers

CONSTANTS
    Blob,      \* content hashes
    NoBlob,    \* what an entry without contents references
    Time       \* the values of Manifest.Updated

ASSUME TimeAssumption == Time \subseteq Int
ASSUME NoBlobAssumption == NoBlob \notin Blob

Entry == Blob \cup {NoBlob}

Manifest == [updated : Time, files : SUBSET Entry]

Empty(t) == [updated |-> t, files |-> {}]

After(m, n) == m.updated > n.updated

(* The hashes a manifest needs: e.Type == "file" && e.Hash != "". *)
Blobs(m) == m.files \cap Blob

(* Mutant of Missing: entries without contents are asked for too. *)
MissingEntries(m, present) == m.files \ present

(* The scan both ends make before a transfer. *)
Missing(m, present) == Blobs(m) \ present
=============================================================================
