----------------------------- MODULE BlobStream ----------------------------
(***************************************************************************)
(* The framing of blobs on the streams of PushBlobs and PullBlobs: the     *)
(* sender cuts every blob into chunks, the first of which names its hash;  *)
(* the receiver puts them together and writes a blob when the next one     *)
(* begins or the stream ends.  Client.doPush sends to Server.PushBlobs and *)
(* Server.PullBlobs to Client.doPull, by the same rules; where they differ *)
(* is noted.  The transport delivers in order, or breaks.                  *)
(*                                                                         *)
(* A blob and its hash are one; its bytes are <<blob, 1>>, <<blob, 2>> ... *)
(***************************************************************************)
EXTENDS Naturals, Sequences, SequencesExt

CONSTANTS
    Blob,       \* the blobs
    Size,       \* how many bytes each has
    ChunkSize,  \* chunkSize
    MaxBlobs,   \* bound: the blobs of a stream
    None

ASSUME SizeAssumption == Size \in [Blob -> Nat]
ASSUME ChunkSizeAssumption == ChunkSize \in Nat \ {0}
ASSUME MaxBlobsAssumption == MaxBlobs \in Nat
ASSUME NoneAssumption == None \notin Blob

VARIABLES
    wanted,   \* the hashes asked for, in order, perhaps repeated
    next,     \* which of them the sender is at
    offset,   \* how much of it has been sent
    closed,   \* the sender has closed the stream
    stream,   \* the chunks under way
    current,  \* currentHash, None for ""
    buf,      \* the bytes put together
    written,  \* the blobs written, in order
    state     \* of the receiver

vars == <<wanted, next, offset, closed, stream, current, buf, written, state>>

-----------------------------------------------------------------------------
Bytes(b) == [i \in 1 .. Size[b] |-> <<b, i>>]

Byte == Blob \X (Nat \ {0})

(* A chunk without a hash goes on with the blob before it. *)
Chunk == [hash : Blob \cup {None}, data : Seq(Byte)]

TypeOK ==
    /\ wanted \in Seq(Blob)
    /\ next \in 1 .. Len(wanted) + 1
    /\ offset \in Nat
    /\ closed \in BOOLEAN
    /\ stream \in Seq(Chunk)
    /\ current \in Blob \cup {None}
    /\ buf \in Seq(Byte)
    /\ written \in Seq(Blob)
    /\ state \in {"receiving", "done", "broken", "mismatch"}

Init ==
    /\ wanted \in SeqOf(Blob, MaxBlobs)
    /\ next = 1 /\ offset = 0 /\ closed = FALSE
    /\ stream = <<>>
    /\ current = None /\ buf = <<>>
    /\ written = <<>>
    /\ state = "receiving"

-----------------------------------------------------------------------------
(* The sender. *)

ChunkAt(b, i) ==
    [hash |-> IF i = 0 THEN b ELSE None,
     data |-> SubSeq(Bytes(b), i + 1, Min({i + ChunkSize, Size[b]}))]

(* An empty blob is one chunk without data. *)
Send ==
    /\ state = "receiving" /\ next <= Len(wanted)
    /\ LET b == wanted[next]
       IN  /\ stream' = Append(stream, ChunkAt(b, offset))
           /\ IF offset + ChunkSize >= Size[b]
              THEN next' = next + 1 /\ offset' = 0
              ELSE next' = next /\ offset' = offset + ChunkSize
    /\ UNCHANGED <<wanted, closed, current, buf, written, state>>

Close ==
    /\ next > Len(wanted) /\ ~closed
    /\ closed' = TRUE
    /\ UNCHANGED <<wanted, next, offset, stream, current, buf, written, state>>

-----------------------------------------------------------------------------
(* The receiver. *)

(* writeAndVerify of what has been put together, if anything was begun. *)
Verified == current = None \/ buf = Bytes(current)

(* Mutant of Kept: the first blob is taken for one that follows another. *)
KeptAlways == Append(written, current)

Kept == IF current = None THEN written ELSE Append(written, current)

(* Mutant of Begun: the bytes of the blob before it stay in the buffer. *)
BegunWithRest(chunk) == buf \o chunk.data

Begun(chunk) == chunk.data

Receive ==
    /\ state = "receiving" /\ stream # <<>>
    /\ LET chunk == Head(stream)
       IN  IF chunk.hash = None
           THEN buf' = buf \o chunk.data /\ UNCHANGED <<current, written, state>>
           ELSE IF Verified
           THEN /\ current' = chunk.hash /\ buf' = Begun(chunk)
                /\ written' = Kept /\ state' = state
           ELSE state' = "mismatch" /\ UNCHANGED <<current, buf, written>>
    /\ stream' = Tail(stream)
    /\ UNCHANGED <<wanted, next, offset, closed>>

(* Mutant of KeptAtEnd: the last blob is forgotten. *)
NotTheLast == written

KeptAtEnd == Kept

EndOfStream ==
    /\ state = "receiving" /\ closed /\ stream = <<>>
    /\ IF Verified THEN written' = KeptAtEnd /\ state' = "done"
       ELSE written' = written /\ state' = "mismatch"
    /\ UNCHANGED <<wanted, next, offset, closed, stream, current, buf>>

(* The stream breaks: the receiver returns, what it had begun is lost. *)
Break ==
    /\ state = "receiving"
    /\ state' = "broken"
    /\ UNCHANGED <<wanted, next, offset, closed, stream, current, buf, written>>

-----------------------------------------------------------------------------
Next == Send \/ Close \/ Receive \/ EndOfStream \/ Break

Spec == Init /\ [][Next]_vars

-----------------------------------------------------------------------------
(* Properties. *)

(* Whatever the sizes, and wherever the stream breaks, the blobs written   *)
(* are the first of those that were asked for, whole.                      *)
WrittenInOrder == IsPrefix(written, wanted)

(* The hash of what is put together is the one its first chunk named.      *)
NoMismatch == state # "mismatch"

(* A stream that ends delivers every blob that was asked for. *)
AllDelivered == state = "done" => written = wanted
=============================================================================
