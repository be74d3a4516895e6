-------------------------- MODULE BlobStreamProofs --------------------------
(***************************************************************************)
(* The framing of BlobStream loses, repeats and mixes nothing, for every   *)
(* size of a blob, every size of a chunk and every list of blobs.          *)
(***************************************************************************)
EXTENDS BlobStream, SequenceTheorems, TLAPS

-----------------------------------------------------------------------------
(* Lemmas about bytes and chunks. *)

LEMMA MinIs == \A a, b \in Int : Min({a, b}) = IF a <= b THEN a ELSE b
<1> TAKE a, b \in Int
<1>1. PICK x \in {a, b} : \A y \in {a, b} : x <= y
  OBVIOUS
<1>2. Min({a, b}) \in {a, b} /\ \A y \in {a, b} : Min({a, b}) <= y
  BY <1>1 DEF Min
<1> QED
  BY <1>2

LEMMA BytesType ==
    ASSUME NEW b \in Blob
    PROVE  Bytes(b) \in Seq(Byte) /\ Len(Bytes(b)) = Size[b] /\ Size[b] \in Nat
<1>1. Size[b] \in Nat
  BY SizeAssumption
<1>2. Bytes(b) \in [1 .. Size[b] -> Byte]
  BY <1>1 DEF Bytes, Byte
<1> QED
  BY <1>1, <1>2

(* What a chunk that starts after i bytes of a blob carries. *)
LEMMA ChunkIs ==
    ASSUME NEW b \in Blob, NEW i \in Nat, i <= Size[b],
           NEW upto, upto = IF i + ChunkSize <= Size[b] THEN i + ChunkSize ELSE Size[b]
    PROVE  /\ upto \in i .. Size[b]
           /\ ChunkAt(b, i) = [hash |-> IF i = 0 THEN b ELSE None,
                               data |-> SubSeq(Bytes(b), i + 1, upto)]
           /\ ChunkAt(b, i) \in Chunk
           /\ SubSeq(Bytes(b), 1, i) \o ChunkAt(b, i).data = SubSeq(Bytes(b), 1, upto)
<1>1. Size[b] \in Nat /\ ChunkSize \in Nat /\ upto \in i .. Size[b]
  BY BytesType, ChunkSizeAssumption
<1>2. ChunkAt(b, i) = [hash |-> IF i = 0 THEN b ELSE None,
                       data |-> SubSeq(Bytes(b), i + 1, upto)]
  <2>1. i + ChunkSize \in Int /\ Size[b] \in Int
    BY <1>1
  <2>2. Min({i + ChunkSize, Size[b]}) = upto
    BY <2>1, MinIs
  <2> QED
    BY <2>2 DEF ChunkAt
<1>3. SubSeq(Bytes(b), i + 1, upto) \in Seq(Byte)
  <2>1. \A j \in i + 1 .. upto : Bytes(b)[j] \in Byte
    BY <1>1, BytesType, ElementOfSeq
  <2> QED
    BY <1>1, <2>1, SubSeqProperties
<1>4. SubSeq(Bytes(b), 1, i) \o SubSeq(Bytes(b), i + 1, upto) = SubSeq(Bytes(b), 1, upto)
  <2>1. /\ Bytes(b) \in Seq(Byte) /\ 1 \in 1 .. Len(Bytes(b)) + 1
        /\ i \in 1 - 1 .. Len(Bytes(b)) /\ upto \in i .. Len(Bytes(b))
    BY <1>1, BytesType
  <2> QED
    BY <2>1, ConcatAdjacentSubSeq
<1>5. ChunkAt(b, i) \in Chunk
  BY <1>2, <1>3 DEF Chunk
<1>6. ChunkAt(b, i).data = SubSeq(Bytes(b), i + 1, upto)
  BY <1>2
<1> QED
  BY <1>1, <1>2, <1>4, <1>5, <1>6

-----------------------------------------------------------------------------
(* A place in the stream is a blob of wanted, by its index, and how many   *)
(* of its bytes came before.                                               *)

Places == (1 .. Len(wanted) + 1) \X Nat

Within(p) == p[2] = 0 \/ (p[1] <= Len(wanted) /\ p[2] < Size[wanted[p[1]]])

Succ(p) ==
    IF p[2] + ChunkSize >= Size[wanted[p[1]]] THEN <<p[1] + 1, 0>>
    ELSE <<p[1], p[2] + ChunkSize>>

(* The chunk sent from p. *)
From(p) == ChunkAt(wanted[p[1]], p[2])

(* The receiver has everything before p: all of the blobs before it but    *)
(* the last are written, and that one, or its own part, is in the buffer.  *)
Reached(p) ==
    \/ p = <<1, 0>> /\ current = None /\ written = <<>>
    \/ /\ p[2] = 0 /\ p[1] > 1
       /\ current = wanted[p[1] - 1] /\ buf = Bytes(current)
       /\ written = SubSeq(wanted, 1, p[1] - 2)
    \/ /\ p[2] > 0
       /\ current = wanted[p[1]] /\ buf = SubSeq(Bytes(current), 1, p[2])
       /\ written = SubSeq(wanted, 1, p[1] - 1)

(* What is under way are the chunks between the place of the receiver and  *)
(* the place of the sender.                                                *)
Between(at) ==
    /\ at[1 + Len(stream)] = <<next, offset>>
    /\ \A i \in 1 .. Len(stream) :
        /\ at[i][1] <= Len(wanted)
        /\ stream[i] = From(at[i])
        /\ at[i + 1] = Succ(at[i])
    /\ \A i \in 1 .. 1 + Len(stream) : Within(at[i])
    /\ Reached(at[1])

InStep == \E at \in [1 .. 1 + Len(stream) -> Places] : Between(at)

IndInv ==
    /\ TypeOK
    /\ closed => next > Len(wanted)
    /\ state = "receiving" => InStep
    /\ WrittenInOrder
    /\ NoMismatch
    /\ AllDelivered

-----------------------------------------------------------------------------
(* Lemmas about prefixes of wanted and places. *)

LEMMA FirstOfWanted ==
    ASSUME NEW w \in Seq(Blob), NEW n \in 0 .. Len(w)
    PROVE  SubSeq(w, 1, n) \in Seq(Blob) /\ IsPrefix(SubSeq(w, 1, n), w)
<1>1. \A i \in 1 .. n : w[i] \in Blob
  BY ElementOfSeq, LenProperties
<1>2. SubSeq(w, 1, n) \in Seq(Blob) /\ Len(SubSeq(w, 1, n)) = n
  BY <1>1, SubSeqProperties, LenProperties
<1>3. SubSeq(SubSeq(w, 1, n), 1, n) = SubSeq(w, 1, n)
  BY <1>2, SubSeqFull
<1> QED
  BY <1>2, <1>3, LenProperties DEF IsPrefix

LEMMA OneMore ==
    ASSUME NEW w \in Seq(Blob), NEW n \in 1 .. Len(w)
    PROVE  Append(SubSeq(w, 1, n - 1), w[n]) = SubSeq(w, 1, n)
<1>1. SubSeq(w, 1, n - 1) \in Seq(Blob) /\ w[n] \in Blob
  BY FirstOfWanted, ElementOfSeq, LenProperties
<1>2. SubSeq(w, 1, n) = SubSeq(w, 1, n - 1) \o <<w[n]>>
  BY SubSeqRecursiveSecond, LenProperties
<1> QED
  BY <1>1, <1>2, AppendIsConcat

(* What the receiver has begun is whole when it has reached the beginning  *)
(* of a blob, and writing it completes the blobs before that.              *)
LEMMA KeptIs ==
    ASSUME TypeOK, NEW p \in Places, p[2] = 0, Reached(p)
    PROVE  Verified /\ Kept = SubSeq(wanted, 1, p[1] - 1)
<1>1. wanted \in Seq(Blob) /\ p[1] \in 1 .. Len(wanted) + 1
  BY DEF TypeOK, Places
<1>2. CASE p = <<1, 0>> /\ current = None /\ written = <<>>
  BY <1>2, SubSeqEmpty DEF Verified, Kept
<1>3. CASE /\ p[2] = 0 /\ p[1] > 1
           /\ current = wanted[p[1] - 1] /\ buf = Bytes(current)
           /\ written = SubSeq(wanted, 1, p[1] - 2)
  <2>1. p[1] - 1 \in 1 .. Len(wanted) /\ (p[1] - 1) - 1 = p[1] - 2
    BY <1>1, <1>3, LenProperties
  <2>2. current \in Blob /\ current # None
    BY <1>1, <1>3, <2>1, ElementOfSeq, NoneAssumption
  <2> QED
    BY <1>1, <1>3, <2>1, <2>2, OneMore DEF Verified, Kept
<1> QED
  BY <1>2, <1>3 DEF Reached

(* A chunk taken in at p brings the receiver to the place after it. *)
LEMMA TakenIn ==
    ASSUME TypeOK, NEW p \in Places, p[1] <= Len(wanted), Within(p), wanted' = wanted,
           NEW q, q = Succ(p),
           current' = wanted[p[1]], written' = SubSeq(wanted, 1, p[1] - 1),
           buf' = SubSeq(Bytes(wanted[p[1]]), 1, p[2]) \o From(p).data
    PROVE  Reached(q)'
<1> DEFINE b == wanted[p[1]]
           upto == IF p[2] + ChunkSize <= Size[b] THEN p[2] + ChunkSize ELSE Size[b]
<1>1. /\ wanted \in Seq(Blob) /\ p[1] \in 1 .. Len(wanted) /\ p[2] \in Nat /\ b \in Blob
      /\ Size[b] \in Nat /\ p[2] <= Size[b] /\ ChunkSize \in Nat \ {0}
  <2>1. wanted \in Seq(Blob) /\ p[1] \in 1 .. Len(wanted) /\ p[2] \in Nat
    BY LenProperties DEF TypeOK, Places
  <2>2. b \in Blob
    BY <2>1, ElementOfSeq
  <2> QED
    BY <2>1, <2>2, BytesType, ChunkSizeAssumption DEF Within
<1>2. buf' = SubSeq(Bytes(b), 1, upto)
  BY <1>1, ChunkIs DEF From
<1>3. CASE p[2] + ChunkSize >= Size[b]
  <2>1. q = <<p[1] + 1, 0>>
    BY <1>3 DEF Succ
  <2>2. upto = Size[b]
    <3>1. \A m, n \in Int : m >= n => (IF m <= n THEN m ELSE n) = n
      OBVIOUS
    <3>2. p[2] + ChunkSize \in Int /\ Size[b] \in Int
      BY <1>1
    <3> QED
      BY <1>3, <3>1, <3>2
  <2>3. buf' = Bytes(b)
    BY <1>1, <1>2, <2>2, BytesType, SubSeqFull
  <2>4. q[1] - 1 = p[1] /\ q[1] - 2 = p[1] - 1 /\ q[1] > 1 /\ q[2] = 0
    BY <1>1, <2>1
  <2>5. /\ current' = wanted'[q[1] - 1] /\ buf' = Bytes(current')
        /\ written' = SubSeq(wanted', 1, q[1] - 2)
    BY <2>3, <2>4
  <2> QED
    BY <2>4, <2>5 DEF Reached
<1>4. CASE ~(p[2] + ChunkSize >= Size[b])
  <2>1. q = <<p[1], p[2] + ChunkSize>>
    BY <1>4 DEF Succ
  <2>2. upto = p[2] + ChunkSize /\ p[2] + ChunkSize > 0
    BY <1>1, <1>4
  <2>3. q[1] = p[1] /\ q[2] = upto /\ q[2] > 0
    BY <2>1, <2>2
  <2>4. /\ current' = wanted'[q[1]] /\ buf' = SubSeq(Bytes(current'), 1, q[2])
        /\ written' = SubSeq(wanted', 1, q[1] - 1)
    BY <1>2, <2>3
  <2> QED
    BY <2>3, <2>4 DEF Reached
<1> QED
  BY <1>3, <1>4

-----------------------------------------------------------------------------
(* IndInv is inductive. *)

LEMMA InitIndInv == Init => IndInv
<1> SUFFICES ASSUME Init PROVE IndInv
  OBVIOUS
<1>1. wanted \in Seq(Blob) /\ Len(wanted) \in Nat
  <2>1. PICK m \in 0 .. MaxBlobs : wanted \in [1 .. m -> Blob]
    BY DEF Init, SeqOf
  <2>2. m \in Nat
    BY <2>1, MaxBlobsAssumption
  <2>3. wanted \in Seq(Blob)
    BY <2>1, <2>2, SeqDef
  <2> QED
    BY <2>3, LenProperties
<1>2. TypeOK
  <2>1. <<>> \in Seq(Chunk) /\ <<>> \in Seq(Byte) /\ <<>> \in Seq(Blob)
    BY EmptySeq
  <2>2. 1 \in 1 .. Len(wanted) + 1
    BY <1>1
  <2> QED
    BY <1>1, <2>1, <2>2 DEF Init, TypeOK
<1>3. InStep
  <2> DEFINE at == [i \in 1 .. 1 + Len(stream) |-> <<1, 0>>]
  <2>1. Len(stream) = 0 /\ next = 1 /\ offset = 0 /\ current = None /\ written = <<>>
    BY DEF Init
  <2>2. at \in [1 .. 1 + Len(stream) -> Places] /\ at[1] = <<1, 0>>
    BY <1>1, <2>1 DEF Places
  <2>3. Between(at)
    BY <2>1, <2>2 DEF Between, Within, Reached
  <2> QED
    BY <2>2, <2>3 DEF InStep
<1>4. WrittenInOrder
  <2>1. written = SubSeq(wanted, 1, 0) /\ 0 \in 0 .. Len(wanted)
    BY <1>1, SubSeqEmpty DEF Init
  <2> QED
    BY <1>1, <2>1, FirstOfWanted DEF WrittenInOrder
<1> QED
  BY <1>2, <1>3, <1>4 DEF IndInv, NoMismatch, AllDelivered, Init

LEMMA SendKeeps == ASSUME IndInv, Send PROVE IndInv'
<1> DEFINE b == wanted[next]
<1>1. /\ wanted \in Seq(Blob) /\ next \in 1 .. Len(wanted) /\ offset \in Nat
      /\ stream \in Seq(Chunk) /\ Len(stream) \in Nat /\ b \in Blob
  <2>1. wanted \in Seq(Blob) /\ next \in 1 .. Len(wanted) /\ offset \in Nat /\ stream \in Seq(Chunk)
    BY LenProperties DEF IndInv, TypeOK, Send
  <2> QED
    BY <2>1, ElementOfSeq, LenProperties
<1>2. PICK at \in [1 .. 1 + Len(stream) -> Places] : Between(at)
  BY DEF IndInv, InStep, Send
<1> DEFINE p == <<next, offset>>
<1>3. at[1 + Len(stream)] = p /\ Within(p)
  <2>1. 1 + Len(stream) \in 1 .. 1 + Len(stream)
    BY <1>1
  <2> QED
    BY <1>2, <2>1 DEF Between
<1>4. /\ Size[b] \in Nat /\ ChunkSize \in Nat \ {0} /\ offset <= Size[b]
      /\ offset # 0 => offset < Size[b]
  BY <1>1, <1>3, BytesType, ChunkSizeAssumption DEF Within
<1>5. ChunkAt(b, offset) \in Chunk
  BY <1>1, <1>4, ChunkIs
<1>6. <<next', offset'>> = Succ(p)
  BY DEF Send, Succ
<1>7. Succ(p) \in Places /\ Within(Succ(p))
  BY <1>1, <1>4 DEF Succ, Places, Within
<1>8. /\ stream' \in Seq(Chunk) /\ Len(stream') = Len(stream) + 1
      /\ \A i \in 1 .. Len(stream) : stream'[i] = stream[i]
      /\ stream'[Len(stream) + 1] = From(p)
  BY <1>1, <1>5, AppendProperties DEF Send, From
<1>9. TypeOK'
  BY <1>1, <1>4, <1>8 DEF IndInv, TypeOK, Send
<1>10. InStep'
  <2>1. PICK n \in Nat : n = Len(stream)
    BY <1>1
  <2>2. PICK q : q = Succ(p)
    OBVIOUS
  <2> DEFINE then == [i \in 1 .. 2 + n |-> IF i <= 1 + n THEN at[i] ELSE q]
  <2>3. /\ \A i \in 1 .. 1 + n : then[i] = at[i]
        /\ then[2 + n] = q /\ 1 + Len(stream') = 2 + n
    BY <1>8, <2>1
  <2>4. then \in [1 .. 1 + Len(stream') -> Places']
    <3>1. q \in Places' /\ \A i \in 1 .. 1 + n : at[i] \in Places'
      BY <1>2, <1>7, <2>1, <2>2 DEF Send, Places
    <3> QED
      BY <2>3, <3>1
  <2>5. ASSUME NEW i \in 1 .. Len(stream')
        PROVE  /\ then[i][1] <= Len(wanted)
               /\ stream'[i] = From(then[i])
               /\ then[i + 1] = Succ(then[i])
    <3>1. CASE i <= n
      <4>1. i \in 1 .. Len(stream) /\ i \in 1 .. 1 + n /\ i + 1 \in 1 .. 1 + n
        BY <2>1, <3>1
      <4>2. then[i] = at[i] /\ then[i + 1] = at[i + 1]
        BY <2>3, <4>1
      <4> QED
        BY <1>2, <1>8, <4>1, <4>2 DEF Between
    <3>2. CASE i = n + 1
      <4>1. then[i] = p
        BY <1>3, <2>1, <2>3, <3>2
      <4>2. then[i + 1] = q
        BY <2>1, <2>3, <3>2
      <4>3. p[1] <= Len(wanted)
        BY <1>1
      <4>4. stream'[i] = From(p)
        BY <1>8, <2>1, <3>2
      <4> QED
        BY <2>2, <4>1, <4>2, <4>3, <4>4
    <3> QED
      BY <1>1, <2>1, <2>3, <3>1, <3>2
  <2>6. \A i \in 1 .. 2 + n : Within(then[i])
    <3>1. \A i \in 1 .. 1 + n : Within(at[i])
      BY <1>2, <2>1 DEF Between
    <3> QED
      BY <1>7, <2>2, <2>3, <3>1
  <2>7. Reached(then[1])
    BY <1>2, <2>1, <2>3 DEF Between
  <2>8. Between(then)'
    <3> HIDE DEF then
    <3>1. Reached(then[1])'
      BY <2>7 DEF Reached, Send, Bytes, then
    <3>2. \A i \in 1 .. 2 + n : Within(then[i])'
      BY <2>6 DEF Within, Send, then
    <3>3. \A i \in 1 .. Len(stream') :
            /\ then[i][1] <= Len(wanted')
            /\ stream'[i] = From(then[i])'
            /\ then[i + 1] = Succ(then[i])'
      <4>1. wanted' = wanted
        BY DEF Send
      <4>2. \A i \in 1 .. Len(stream') :
              From(then[i])' = From(then[i]) /\ Succ(then[i])' = Succ(then[i])
        BY <4>1 DEF From, Succ, then
      <4> QED
        BY <2>5, <4>1, <4>2
    <3>4. then[1 + Len(stream')] = <<next', offset'>>
      BY <1>6, <2>2, <2>3
    <3> QED
      BY <2>3, <3>1, <3>2, <3>3, <3>4 DEF Between, then
  <2> QED
    BY <2>4, <2>8 DEF InStep
<1> QED
  BY <1>1, <1>9, <1>10 DEF IndInv, Send, WrittenInOrder, NoMismatch, AllDelivered

LEMMA ReceiveKeeps == ASSUME IndInv, Receive PROVE IndInv'
<1>1. /\ wanted \in Seq(Blob) /\ Len(wanted) \in Nat /\ wanted' = wanted
      /\ stream \in Seq(Chunk) /\ stream # <<>> /\ buf \in Seq(Byte)
  BY LenProperties DEF IndInv, TypeOK, Receive
<1>2. PICK at \in [1 .. 1 + Len(stream) -> Places] : Between(at)
  BY DEF IndInv, InStep, Receive
<1>3. PICK n \in Nat : Len(stream) = n + 1
  <2>1. Len(stream) \in Nat \ {0}
    BY <1>1, EmptySeq
  <2> QED
    BY <2>1
<1>4. /\ stream' \in Seq(Chunk) /\ Len(stream') = n
      /\ \A i \in 1 .. n : stream'[i] = stream[i + 1]
  BY <1>1, <1>3, HeadTailProperties DEF Receive
<1>5. PICK p \in Places : p = at[1]
  BY <1>2, <1>3
<1> DEFINE b == wanted[p[1]]
<1>6. /\ p[1] \in 1 .. Len(wanted) /\ p[2] \in Nat /\ Within(p) /\ Reached(p)
      /\ Head(stream) = From(p) /\ at[2] = Succ(p)
  <2>1. 1 \in 1 .. Len(stream) /\ 1 \in 1 .. 1 + Len(stream) /\ Head(stream) = stream[1]
    BY <1>1, <1>3
  <2> QED
    BY <1>1, <1>2, <1>5, <2>1 DEF Between, Places
<1>7. b \in Blob /\ p[2] <= Size[b]
  <2>1. b \in Blob
    BY <1>1, <1>6, ElementOfSeq
  <2> QED
    BY <1>6, <2>1, BytesType DEF Within
<1>8. From(p).hash = (IF p[2] = 0 THEN b ELSE None) /\ From(p).data \in Seq(Byte)
  <2>1. PICK upto : upto = IF p[2] + ChunkSize <= Size[b] THEN p[2] + ChunkSize ELSE Size[b]
    OBVIOUS
  <2>2. ChunkAt(b, p[2]) \in Chunk
    BY <1>6, <1>7, <2>1, ChunkIs
  <2>3. ChunkAt(b, p[2]).hash = IF p[2] = 0 THEN b ELSE None
    BY DEF ChunkAt
  <2> QED
    BY <2>2, <2>3 DEF From, Chunk
<1>9. /\ current' = b /\ written' = SubSeq(wanted, 1, p[1] - 1) /\ state' = state
      /\ buf' = SubSeq(Bytes(b), 1, p[2]) \o From(p).data
      /\ buf' \in Seq(Byte)
  <2>1. CASE p[2] = 0
    <3>1. Verified /\ Kept = SubSeq(wanted, 1, p[1] - 1)
      BY <1>6, <2>1, KeptIs DEF IndInv
    <3>2. From(p).hash = b /\ b # None
      BY <1>7, <1>8, <2>1, NoneAssumption
    <3>3. SubSeq(Bytes(b), 1, p[2]) \o From(p).data = From(p).data
      BY <1>8, <2>1, SubSeqEmpty, ConcatEmptySeq
    <3> QED
      BY <1>6, <1>8, <3>1, <3>2, <3>3 DEF Receive, Begun
  <2>2. CASE p[2] > 0
    <3>1. From(p).hash = None
      BY <1>8, <2>2
    <3>2. p # <<1, 0>> /\ p[2] # 0
      BY <2>2
    <3>3. current = b /\ buf = SubSeq(Bytes(b), 1, p[2]) /\ written = SubSeq(wanted, 1, p[1] - 1)
      BY <1>6, <3>2 DEF Reached
    <3>4. buf' = buf \o From(p).data /\ current' = current /\ written' = written /\ state' = state
      BY <1>6, <3>1 DEF Receive
    <3>5. buf' \in Seq(Byte)
      BY <1>1, <1>8, <3>4, ConcatProperties
    <3> QED
      BY <3>3, <3>4, <3>5
  <2>3. p[2] = 0 \/ p[2] > 0
    BY <1>6
  <2> QED
    BY <2>1, <2>2, <2>3
<1>10. PICK q : q = Succ(p) /\ Reached(q)'
  <2>1. PICK q : q = Succ(p)
    OBVIOUS
  <2>2. TypeOK /\ p[1] <= Len(wanted) /\ current' = wanted[p[1]]
        /\ buf' = SubSeq(Bytes(wanted[p[1]]), 1, p[2]) \o From(p).data
    BY <1>1, <1>6, <1>9 DEF IndInv
  <2>3. Reached(q)'
    BY <1>1, <1>6, <1>9, <2>1, <2>2, TakenIn
  <2> QED
    BY <2>1, <2>3
<1>11. written' \in Seq(Blob) /\ IsPrefix(written', wanted)
  <2>1. p[1] - 1 \in 0 .. Len(wanted)
    BY <1>1, <1>6
  <2> QED
    BY <1>1, <1>9, <2>1, FirstOfWanted
<1>12. TypeOK'
  BY <1>4, <1>7, <1>9, <1>11 DEF IndInv, TypeOK, Receive
<1>13. InStep'
  <2> DEFINE then == [i \in 1 .. 1 + n |-> at[i + 1]]
  <2>1. /\ \A i \in 1 .. 1 + n : then[i] = at[i + 1] /\ i + 1 \in 1 .. 1 + Len(stream)
        /\ 1 + Len(stream') = 1 + n
    BY <1>3, <1>4
  <2>2. then \in [1 .. 1 + Len(stream') -> Places']
    BY <1>1, <1>2, <2>1 DEF Places
  <2>3. \A i \in 1 .. n :
          /\ then[i][1] <= Len(wanted)
          /\ stream'[i] = From(then[i])
          /\ then[i + 1] = Succ(then[i])
    <3> TAKE i \in 1 .. n
    <3>1. i + 1 \in 1 .. Len(stream) /\ i \in 1 .. 1 + n /\ i + 1 \in 1 .. 1 + n
      BY <1>3
    <3> QED
      BY <1>2, <1>4, <2>1, <3>1 DEF Between
  <2>4. \A i \in 1 .. 1 + n : Within(then[i])
    BY <1>2, <2>1 DEF Between
  <2>5. then[1] = q
    BY <1>6, <1>10, <2>1
  <2>6. then[1 + n] = <<next, offset>>
    <3>1. 1 + n \in 1 .. 1 + n /\ (1 + n) + 1 = 1 + Len(stream)
      BY <1>3
    <3> QED
      BY <1>2, <2>1, <3>1 DEF Between
  <2>7. Between(then)'
    <3>1. \A i \in 1 .. n : From(then[i])' = From(then[i]) /\ Succ(then[i])' = Succ(then[i])
      BY <1>1 DEF From, Succ
    <3>2. \A i \in 1 .. 1 + n : Within(then[i])'
      BY <1>1, <2>4 DEF Within
    <3>3. Reached(then[1])'
      BY <1>10, <2>5
    <3>4. next' = next /\ offset' = offset
      BY DEF Receive
    <3> HIDE DEF then
    <3> QED
      BY <1>1, <1>4, <2>3, <2>6, <3>1, <3>2, <3>3, <3>4 DEF Between
  <2> QED
    BY <2>2, <2>7 DEF InStep
<1> QED
  BY <1>1, <1>9, <1>11, <1>12, <1>13
     DEF IndInv, Receive, WrittenInOrder, NoMismatch, AllDelivered

LEMMA EndOfStreamKeeps == ASSUME IndInv, EndOfStream PROVE IndInv'
<1>1. wanted \in Seq(Blob) /\ Len(wanted) \in Nat /\ next = Len(wanted) + 1 /\ Len(stream) = 0
  BY LenProperties DEF IndInv, TypeOK, EndOfStream
<1>2. PICK at \in [1 .. 1 + Len(stream) -> Places] : Between(at)
  BY DEF IndInv, InStep, EndOfStream
<1>3. PICK p \in Places : p = at[1]
  BY <1>1, <1>2
<1>4. p = <<Len(wanted) + 1, offset>> /\ Within(p) /\ Reached(p)
  BY <1>1, <1>2, <1>3 DEF Between
<1>5. p[2] = 0 /\ p[1] - 1 = Len(wanted)
  BY <1>1, <1>4 DEF Within
<1>6. Verified /\ Kept = wanted
  BY <1>1, <1>4, <1>5, KeptIs, SubSeqFull DEF IndInv
<1>7. written' = wanted /\ state' = "done"
  BY <1>6 DEF EndOfStream, KeptAtEnd
<1>8. IsPrefix(wanted, wanted)
  <2>1. Len(wanted) \in 0 .. Len(wanted) /\ SubSeq(wanted, 1, Len(wanted)) = wanted
    BY <1>1, SubSeqFull
  <2> QED
    BY <1>1, <2>1, FirstOfWanted
<1> QED
  BY <1>1, <1>7, <1>8
     DEF IndInv, TypeOK, EndOfStream, WrittenInOrder, NoMismatch, AllDelivered

LEMMA StillInStep ==
    ASSUME InStep, UNCHANGED <<wanted, next, offset, stream, current, buf, written>>
    PROVE  InStep'
<1>1. PICK at \in [1 .. 1 + Len(stream) -> Places] : Between(at)
  BY DEF InStep
<1>2. at \in [1 .. 1 + Len(stream) -> Places]'
  BY <1>1 DEF Places
<1>3. \A p : /\ From(p)' = From(p) /\ Succ(p)' = Succ(p)
             /\ Within(p)' <=> Within(p)
             /\ Reached(p)' <=> Reached(p)
  BY DEF From, Succ, Within, Reached
<1>4. Between(at)'
  BY <1>1, <1>3 DEF Between
<1> QED
  BY <1>2, <1>4 DEF InStep

LEMMA NextIndInv == IndInv /\ [Next]_vars => IndInv'
<1> SUFFICES ASSUME IndInv, [Next]_vars PROVE IndInv'
  OBVIOUS
<1>1. CASE Close
  BY <1>1, StillInStep DEF IndInv, TypeOK, Close, WrittenInOrder, NoMismatch, AllDelivered
<1>2. CASE Break
  BY <1>2 DEF IndInv, TypeOK, Break, WrittenInOrder, NoMismatch, AllDelivered
<1>3. CASE UNCHANGED vars
  BY <1>3, StillInStep DEF vars, IndInv, TypeOK, WrittenInOrder, NoMismatch, AllDelivered
<1> QED
  BY <1>1, <1>2, <1>3, SendKeeps, ReceiveKeeps, EndOfStreamKeeps DEF Next

(* The inductive invariant: receiver and sender are a run of consecutive   *)
(* chunks apart.                                                           *)
THEOREM Inductive == Spec => []IndInv
  BY InitIndInv, NextIndInv, PTL DEF Spec

(* TypeOK: every variable of BlobStream stays in its type. *)
THEOREM TypeCorrect == Spec => []TypeOK
<1>1. IndInv => TypeOK
  BY DEF IndInv
<1> QED
  BY <1>1, Inductive, PTL

(* WrittenInOrder: whatever the sizes of blobs and chunks, and wherever    *)
(* the stream breaks, what has been written is a prefix of what was asked. *)
THEOREM WritesInOrder == Spec => []WrittenInOrder
<1>1. IndInv => WrittenInOrder
  BY DEF IndInv
<1> QED
  BY <1>1, Inductive, PTL

(* NoMismatch: the receiver never puts a blob together wrongly. *)
THEOREM NeverMismatches == Spec => []NoMismatch
<1>1. IndInv => NoMismatch
  BY DEF IndInv
<1> QED
  BY <1>1, Inductive, PTL

(* AllDelivered: a stream that ends has delivered everything. *)
THEOREM DeliversAll == Spec => []AllDelivered
<1>1. IndInv => AllDelivered
  BY DEF IndInv
<1> QED
  BY <1>1, Inductive, PTL
=============================================================================
