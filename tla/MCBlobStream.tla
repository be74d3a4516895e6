---------------------------- MODULE MCBlobStream ---------------------------
(* Blobs around the size of a chunk and of two chunks.                     *)
EXTENDS BlobStream, TLC

CONSTANTS empty, short, full, over, twice

Sizes == empty :> 0 @@ short :> 1 @@ full :> 2 @@ over :> 3 @@ twice :> 4
=============================================================================
