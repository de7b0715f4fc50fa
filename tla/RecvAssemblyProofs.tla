------------------------- MODULE RecvAssemblyProofs -------------------------
(***************************************************************************)
(* For a ring, header, chunk and packets of any size: as long as every     *)
(* packet leaves room for one more chunk (SizesFit), no byte is dropped,   *)
(* the ring holds the stream's next bytes and packets are dispatched in    *)
(* order and whole.  The lemmas say what RingBuffer's operators do to the  *)
(* bytes the buffer stands for, whatever its positions.                    *)
(***************************************************************************)
EXTENDS RecvAssembly, SequenceTheorems, TLAPS

Rings == [data : [Cells -> Int], r : Cells, w : Cells]

\* Reduction modulo the size of the array, for positions at most one turn away.
LEMMA WrapOnce ==
  ASSUME NEW x \in 0 .. 2 * BufSize - 1
  PROVE  Wrap(x) = IF x < BufSize THEN x ELSE x - BufSize
<1> USE BufSizeAssumption DEF Wrap
<1>1. CASE x < BufSize
  BY <1>1
<1>2. CASE x >= BufSize
  <2>1. x = BufSize * (x \div BufSize) + (x % BufSize)
        /\ x % BufSize \in 0 .. BufSize - 1
    OBVIOUS
  <2>2. x \div BufSize = 1
    BY <1>2
  <2> QED
    BY <2>1, <2>2, <1>2
<1> QED
  BY <1>1, <1>2

\* Facts about a well-typed ring used by the lemmas below.
LEMMA RingFacts ==
  ASSUME NEW ring0 \in Rings
  PROVE  /\ ring0.r \in 0 .. BufSize - 1 /\ ring0.w \in 0 .. BufSize - 1
         /\ StoredSize(ring0) \in 0 .. BufSize - 1
         /\ FreeSize(ring0) = BufSize - StoredSize(ring0) - 1
BY BufSizeAssumption DEF Rings, Cells, StoredSize, FreeSize

\* Write appends: the bytes stored stay, the new ones follow them.
LEMMA WriteAppends ==
  ASSUME NEW ring0 \in Rings, NEW n \in Nat, WriteFits(ring0, n),
         NEW src \in [0 .. n - 1 -> Int]
  PROVE  /\ Written(ring0, src, n) \in Rings
         /\ StoredSize(Written(ring0, src, n)) = StoredSize(ring0) + n
         /\ \A i \in 0 .. StoredSize(ring0) - 1 :
              ByteAt(Written(ring0, src, n), i) = ByteAt(ring0, i)
         /\ \A i \in 0 .. n - 1 :
              ByteAt(Written(ring0, src, n), StoredSize(ring0) + i) = src[i]
<1> USE BufSizeAssumption
<1> DEFINE s == StoredSize(ring0)
           new == Written(ring0, src, n)
           r == ring0.r
           w == ring0.w
           cell(i) == IF w <= i /\ i < w + n THEN src[i - w]
                      ELSE IF i < n - (BufSize - w) THEN src[BufSize - w + i]
                      ELSE ring0.data[i]
<1>1. /\ r \in 0 .. BufSize - 1 /\ w \in 0 .. BufSize - 1
      /\ s \in 0 .. BufSize - 1 /\ n \in 1 .. BufSize - 1 - s
      /\ s = IF w >= r THEN w - r ELSE BufSize - r + w
  BY RingFacts DEF WriteFits, StoredSize
<1>2. /\ new = [data |-> [i \in Cells |-> cell(i)], r |-> r, w |-> Wrap(w + n)]
      /\ new.data = [i \in Cells |-> cell(i)] /\ new.r = r /\ new.w = Wrap(w + n)
  BY DEF Written
<1>3. Wrap(w + n) = IF w + n < BufSize THEN w + n ELSE w + n - BufSize
  BY <1>1, WrapOnce
<1>4. ASSUME NEW i \in Cells PROVE cell(i) \in Int
  <2>1. i \in 0 .. BufSize - 1 /\ ring0.data[i] \in Int
    BY DEF Rings, Cells
  <2>2. CASE w <= i /\ i < w + n
    <3>1. i - w \in 0 .. n - 1
      BY <1>1, <2>1, <2>2
    <3> QED
      BY <2>2, <3>1
  <2>3. CASE ~(w <= i /\ i < w + n) /\ i < n - (BufSize - w)
    <3> HIDE DEF w, s, r
    <3>1. BufSize - w + i \in 0 .. n - 1
      <4>1. w \in 0 .. BufSize - 1 /\ i \in 0 .. BufSize - 1
        BY <1>1, <2>1
      <4>2. i < n - (BufSize - w)
        BY <2>3
      <4> QED
        BY <4>1, <4>2
    <3>2. src[BufSize - w + i] \in Int
      <4>1. ASSUME NEW k \in 0 .. n - 1 PROVE src[k] \in Int
        BY <1>1
      <4> QED
        BY <3>1, <4>1, Zenon
    <3>3. cell(i) = src[BufSize - w + i]
      BY <2>3, Zenon
    <3> QED
      BY <3>2, <3>3
  <2> QED
    BY <2>1, <2>2, <2>3
<1> HIDE DEF new, s, r, w, cell
<1>5. new \in Rings
  <2>1. Wrap(w + n) \in Cells /\ r \in Cells
    BY <1>1, <1>3 DEF Cells
  <2>2. [i \in Cells |-> cell(i)] \in [Cells -> Int]
    BY <1>4
  <2> QED
    BY <1>2, <2>1, <2>2 DEF Rings
<1>6. StoredSize(new) = s + n
  <2>1. StoredSize(new) = IF Wrap(w + n) >= r THEN Wrap(w + n) - r
                          ELSE BufSize - r + Wrap(w + n)
    BY <1>2 DEF StoredSize
  <2> QED
    BY <1>1, <1>3, <2>1
<1> USE DEF cell
<1>7. ASSUME NEW i \in 0 .. s + n - 1
      PROVE  /\ Wrap(r + i) \in Cells
             /\ Wrap(r + i) = IF r + i < BufSize THEN r + i ELSE r + i - BufSize
  BY <1>1, WrapOnce DEF Cells
<1>8. ASSUME NEW i \in 0 .. s - 1 PROVE ByteAt(new, i) = ByteAt(ring0, i)
  <2> DEFINE p == Wrap(r + i)
  <2>1. i \in 0 .. s + n - 1
    BY <1>1
  <2>2. p \in Cells /\ ~(w <= p /\ p < w + n) /\ ~(p < n - (BufSize - w))
    BY <1>1, <1>7, <2>1 DEF Cells
  <2> QED
    BY <1>2, <2>2 DEF ByteAt, r
<1>9. ASSUME NEW i \in 0 .. n - 1 PROVE ByteAt(new, s + i) = src[i]
  <2> DEFINE p == Wrap(r + (s + i))
  <2>1. s + i \in 0 .. s + n - 1
    BY <1>1
  <2>2. p \in Cells /\ p = (IF r + (s + i) < BufSize THEN r + (s + i)
                             ELSE r + (s + i) - BufSize)
    BY <1>7, <2>1
  <2>3. cell(p) = src[i]
    <3>1. CASE w <= p /\ p < w + n
      <4>1. p - w = i
        BY <1>1, <2>2, <3>1
      <4> QED
        BY <3>1, <4>1
    <3>2. CASE ~(w <= p /\ p < w + n)
      <4>1. p < n - (BufSize - w) /\ BufSize - w + p = i
        BY <1>1, <2>2, <3>2
      <4> QED
        BY <3>2, <4>1
    <3> QED
      BY <3>1, <3>2
  <2> QED
    BY <1>2, <2>2, <2>3 DEF ByteAt
<1> QED
  BY <1>5, <1>6, <1>8, <1>9 DEF new, s

\* Peek shows the first bytes stored.
LEMMA PeekShows ==
  ASSUME NEW ring0 \in Rings, NEW n \in Nat, n <= StoredSize(ring0)
  PROVE  \A i \in 0 .. n - 1 : Peek(ring0, n)[i] = ByteAt(ring0, i)
<1> USE BufSizeAssumption
<1>1. SUFFICES ASSUME NEW i \in 0 .. n - 1
               PROVE  Peek(ring0, n)[i] = ByteAt(ring0, i)
  OBVIOUS
<1>2. /\ ring0.r \in 0 .. BufSize - 1 /\ i \in 0 .. BufSize - 1
      /\ ring0.r + i \in 0 .. 2 * BufSize - 1
  BY RingFacts
<1>3. Wrap(ring0.r + i) = IF ring0.r + i < BufSize THEN ring0.r + i
                                ELSE ring0.r + i - BufSize
  BY <1>2, WrapOnce
<1>4. (ring0.r + i < BufSize <=> i < BufSize - ring0.r)
      /\ ring0.r + i - BufSize = i - (BufSize - ring0.r)
  BY <1>2
<1> QED
  BY <1>2, <1>3, <1>4 DEF Peek, ByteAt

\* Read, when it does not run away, takes out the first bytes stored.
LEMMA ReadTakes ==
  ASSUME NEW ring0 \in Rings, NEW len \in Nat, len <= StoredSize(ring0),
         ~ReadFaults(ring0, len)
  PROVE  /\ AfterRead(ring0, len) \in Rings
         /\ StoredSize(AfterRead(ring0, len)) = StoredSize(ring0) - len
         /\ \A i \in 0 .. len - 1 : ReadBytes(ring0, len)[i] = ByteAt(ring0, i)
         /\ \A i \in 0 .. StoredSize(ring0) - len - 1 :
              ByteAt(AfterRead(ring0, len), i) = ByteAt(ring0, len + i)
<1> USE BufSizeAssumption
<1> DEFINE s == StoredSize(ring0)
           r == ring0.r
           w == ring0.w
           new == AfterRead(ring0, len)
<1>1. /\ r \in 0 .. BufSize - 1 /\ w \in 0 .. BufSize - 1
      /\ s \in 0 .. BufSize - 1 /\ len \in 0 .. s
      /\ s = IF w >= r THEN w - r ELSE BufSize - r + w
  BY RingFacts DEF StoredSize
<1>2. /\ new.data = ring0.data /\ new.w = w /\ new.r = Wrap(r + len)
      /\ new \in [data : {ring0.data}, r : {Wrap(r + len)}, w : {w}]
  BY DEF AfterRead, Rings
<1>3. Wrap(r + len) = IF r + len < BufSize THEN r + len ELSE r + len - BufSize
  BY <1>1, WrapOnce
<1>4. new \in Rings
  <2>1. Wrap(r + len) \in Cells /\ w \in Cells /\ ring0.data \in [Cells -> Int]
    BY <1>1, <1>3 DEF Cells, Rings
  <2> QED
    BY <1>2, <2>1 DEF Rings
<1>5. \/ w > r \/ len = 0 \/ w < r
  BY <1>1
<1>6. StoredSize(new) = s - len
  BY <1>1, <1>2, <1>3 DEF StoredSize, ReadFaults
<1> HIDE DEF new
<1>7. ASSUME NEW i \in 0 .. len - 1
      PROVE  ReadBytes(ring0, len)[i] = ByteAt(ring0, i)
  <2>1. Wrap(r + i) = IF r + i < BufSize THEN r + i ELSE r + i - BufSize
    BY <1>1, WrapOnce
  <2>2. (r < w \/ i < BufSize - r) <=> r + i < BufSize
    BY <1>1
  <2>3. r + i - BufSize = i - (BufSize - r)
    BY <1>1
  <2> QED
    BY <2>1, <2>2, <2>3 DEF ReadBytes, ByteAt
<1>8. ASSUME NEW i \in 0 .. s - len - 1
      PROVE  ByteAt(new, i) = ByteAt(ring0, len + i)
  <2>1. Wrap(r + (len + i)) = IF r + (len + i) < BufSize THEN r + (len + i)
                                    ELSE r + (len + i) - BufSize
    BY <1>1, WrapOnce
  <2>2. new.r \in 0 .. BufSize - 1 /\ new.r + i \in 0 .. 2 * BufSize - 1
    BY <1>1, <1>2, <1>3
  <2>3. Wrap(new.r + i) = IF new.r + i < BufSize THEN new.r + i
                                ELSE new.r + i - BufSize
    BY <2>2, WrapOnce
  <2>4. Wrap(new.r + i) = Wrap(r + (len + i))
    BY <1>1, <1>2, <1>3, <2>1, <2>3
  <2> QED
    BY <1>2, <2>4 DEF ByteAt
<1> QED
  BY <1>4, <1>6, <1>7, <1>8 DEF new

-----------------------------------------------------------------------------
\* Packets follow each other in the stream without gap, and none is empty.
StreamGrows ==
  /\ \A k \in 1 .. Len(stream) :
       stream[k].end = EndOf(k - 1) + LengthFor(stream[k].hdr)
  /\ \A j, k \in 0 .. Len(stream) : j < k => EndOf(j) < EndOf(k)

\* While a receive is posted there is room for all it can deliver.
RoomForChunk == pc = "recv" => open /\ StoredSize(ring) + ChunkMax <= BufSize - 1

IndInv ==
  /\ TypeOK
  /\ StreamGrows
  /\ NothingDropped
  /\ done <= Len(stream) /\ got <= Sent
  /\ RingHoldsStream
  /\ ~open => StoredSize(ring) = 0
  /\ pc = "closed" => ~open
  /\ RoomForChunk
  /\ DispatchInOrder

\* Positions of packets are natural numbers.
LEMMA EndOfType ==
  ASSUME TypeOK, NEW k \in 0 .. Len(stream)
  PROVE  EndOf(k) \in Nat
<1>1. CASE k = 0
  BY <1>1 DEF EndOf
<1>2. CASE k # 0
  <2>1. stream \in Seq([hdr : HeaderValues, end : Nat]) /\ k \in 1 .. Len(stream)
    BY <1>2 DEF TypeOK
  <2>2. stream[k] \in [hdr : HeaderValues, end : Nat]
    BY <2>1, ElementOfSeq
  <2> QED
    BY <1>2, <2>2 DEF EndOf
<1> QED
  BY <1>1, <1>2

\* A complete header at the read position is the header of the next packet.
LEMMA HeaderIsNext ==
  ASSUME IndInv, open, HasHeader
  PROVE  /\ done + 1 \in 1 .. Len(stream)
         /\ HeaderSizes = {stream[done + 1].hdr}
         /\ EndOf(done + 1) = EndOf(done) + LengthFor(stream[done + 1].hdr)
<1> USE RecvAssumption, BufSizeAssumption
<1>1. /\ ring \in Rings /\ got \in Nat /\ done \in 0 .. Len(stream)
      /\ Len(stream) \in Nat
  BY LenProperties DEF IndInv, TypeOK, Rings
<1>2. EndOf(done) \in Nat /\ EndOf(Len(stream)) \in Nat
  BY <1>1, EndOfType DEF IndInv
<1>3. /\ StoredSize(ring) = got - EndOf(done) /\ StoredSize(ring) >= HeaderSize
      /\ \A i \in 0 .. StoredSize(ring) - 1 : ByteAt(ring, i) = EndOf(done) + i
  BY DEF IndInv, RingHoldsStream, NothingDropped, HasHeader
<1>4. got <= EndOf(Len(stream))
  BY DEF IndInv, Sent
<1>5. EndOf(done) < EndOf(Len(stream))
  BY <1>1, <1>2, <1>3, <1>4
<1>6. done # Len(stream)
  BY <1>2, <1>5
<1>7. done + 1 \in 1 .. Len(stream)
  BY <1>1, <1>6
<1> DEFINE bytes == Peek(ring, HeaderSize)
           starts == {k \in 1 .. Len(stream) :
                        \A i \in 0 .. HeaderSize - 1 : bytes[i] = EndOf(k - 1) + i}
<1>8. ASSUME NEW i \in 0 .. HeaderSize - 1 PROVE bytes[i] = EndOf(done) + i
  <2>1. bytes[i] = ByteAt(ring, i)
    BY <1>1, <1>3, PeekShows
  <2>2. i \in 0 .. StoredSize(ring) - 1
    BY <1>1, <1>3, RingFacts
  <2> QED
    BY <1>3, <2>1, <2>2
<1>9. done + 1 \in starts
  <2>1. (done + 1) - 1 = done
    BY <1>1
  <2> QED
    BY <1>7, <1>8, <2>1
<1>10. ASSUME NEW k \in starts PROVE k = done + 1
  <2>1. k \in 1 .. Len(stream) /\ bytes[0] = EndOf(k - 1) + 0
    OBVIOUS
  <2>2. bytes[0] = EndOf(done) + 0
    BY <1>8
  <2>3. k - 1 \in 0 .. Len(stream) /\ EndOf(k - 1) \in Nat
    BY <1>1, <2>1, EndOfType DEF IndInv
  <2>4. EndOf(k - 1) = EndOf(done)
    BY <1>2, <2>1, <2>2, <2>3
  <2>5. ~(k - 1 < done) /\ ~(done < k - 1)
    <3>1. \A i, j \in 0 .. Len(stream) : i < j => EndOf(i) < EndOf(j)
      BY DEF IndInv, StreamGrows
    <3>2. (k - 1 < done => EndOf(k - 1) < EndOf(done))
          /\ (done < k - 1 => EndOf(done) < EndOf(k - 1))
      BY <1>1, <2>3, <3>1
    <3> QED
      BY <1>2, <2>3, <2>4, <3>2
  <2> QED
    BY <1>1, <2>1, <2>5
<1>11. starts = {done + 1}
  BY <1>9, <1>10
<1>12. HeaderSizes = {stream[done + 1].hdr}
  BY <1>11 DEF HeaderSizes
<1>13. EndOf(done + 1) = EndOf(done) + LengthFor(stream[done + 1].hdr)
  <2>1. stream[done + 1].end = EndOf((done + 1) - 1) + LengthFor(stream[done + 1].hdr)
    BY <1>7 DEF IndInv, StreamGrows
  <2>2. (done + 1) - 1 = done /\ done + 1 # 0
    BY <1>1
  <2> QED
    BY <2>1, <2>2 DEF EndOf
<1> QED
  BY <1>7, <1>12, <1>13

-----------------------------------------------------------------------------
\* A cleared ring is well typed and empty.
LEMMA ClearEmpties ==
  ASSUME NEW ring0 \in Rings
  PROVE  Cleared(ring0) \in Rings /\ StoredSize(Cleared(ring0)) = 0
<1>1. 0 \in Cells
  BY BufSizeAssumption DEF Cells
<1>2. Cleared(ring0) \in Rings
  BY <1>1 DEF Rings, Cleared
<1>3. Cleared(ring0).r = 0 /\ Cleared(ring0).w = 0
  BY DEF Rings, Cleared
<1> QED
  BY <1>2, <1>3 DEF StoredSize

\* The ring and the stream start as the invariant says.
LEMMA InitInv == ASSUME SizesFit, Init PROVE IndInv
<1> USE RecvAssumption, BufSizeAssumption DEF Init
<1>1. ring \in Rings /\ StoredSize(ring) = 0
  BY DEF Rings, Cells, Stale, StoredSize
<1>2. packet \in [DOMAIN packet -> Int]
  OBVIOUS
<1>3. Len(stream) = 0 /\ stream \in Seq([hdr : HeaderValues, end : Nat])
  OBVIOUS
<1>4. open \in BOOLEAN /\ dropped \in BOOLEAN
  BY Zenon
<1>5. TypeOK
  BY <1>1, <1>2, <1>3, <1>4 DEF TypeOK, PCs, Rings
<1>6. StreamGrows /\ NothingDropped /\ done <= Len(stream) /\ got <= Sent
  BY <1>3 DEF StreamGrows, NothingDropped, Sent, EndOf
<1>7. RingHoldsStream /\ DispatchInOrder
  BY <1>1, <1>3 DEF RingHoldsStream, DispatchInOrder, EndOf
<1>8. RoomForChunk
  BY <1>1 DEF RoomForChunk, SizesFit
<1> QED
  BY <1>1, <1>5, <1>6, <1>7, <1>8 DEF IndInv

\* The stream grows at its end; everything behind keeps its place.
LEMMA PeerSendsInv == ASSUME IndInv, PeerSends PROVE IndInv'
<1> USE RecvAssumption
<1>1. PICK h \in HeaderValues :
        stream' = Append(stream, [hdr |-> h, end |-> Sent + LengthFor(h)])
  BY DEF PeerSends
<1>2. /\ stream \in Seq([hdr : HeaderValues, end : Nat]) /\ Len(stream) \in Nat
      /\ Sent \in Nat /\ LengthFor(h) \in Nat \ {0} /\ h \in Nat
      /\ done \in Nat /\ got \in Nat
  <2>1. stream \in Seq([hdr : HeaderValues, end : Nat]) /\ Len(stream) \in Nat
        /\ done \in Nat /\ got \in Nat
    BY LenProperties DEF IndInv, TypeOK
  <2>2. Sent \in Nat
    BY <2>1, EndOfType DEF IndInv, Sent
  <2>3. h \in Nat /\ LengthFor(h) \in Nat \ {0}
    BY DEF LengthFor
  <2> QED
    BY <2>1, <2>2, <2>3
<1> DEFINE e == [hdr |-> h, end |-> Sent + LengthFor(h)]
<1>3. e \in [hdr : HeaderValues, end : Nat]
  BY <1>2
<1>4. /\ stream' \in Seq([hdr : HeaderValues, end : Nat])
      /\ Len(stream') = Len(stream) + 1
      /\ \A k \in 1 .. Len(stream) : stream'[k] = stream[k]
      /\ stream'[Len(stream) + 1] = e
  BY <1>1, <1>2, <1>3, AppendProperties
<1>5. \A k \in 0 .. Len(stream) : EndOf(k)' = EndOf(k)
  BY <1>4 DEF EndOf
<1>6. /\ Sent' = Sent + LengthFor(h)
      /\ \A k : k = Len(stream) + 1 => EndOf(k)' = Sent + LengthFor(h)
  <2>1. PICK n : n = Len(stream) + 1
    OBVIOUS
  <2>2. n # 0 /\ stream'[n].end = Sent + LengthFor(h) /\ Len(stream') = n
    BY <1>2, <1>4, <2>1
  <2> QED
    BY <2>1, <2>2 DEF EndOf, Sent
<1>7. TypeOK'
  BY <1>4 DEF IndInv, TypeOK, PeerSends
<1>8. StreamGrows'
  <2>1. ASSUME NEW k \in 1 .. Len(stream')
        PROVE  stream'[k].end = EndOf(k - 1)' + LengthFor(stream'[k].hdr)
    <3>1. CASE k \in 1 .. Len(stream)
      <4>1. k - 1 \in 0 .. Len(stream)
        BY <1>2, <3>1
      <4>2. EndOf(k - 1)' = EndOf(k - 1) /\ stream'[k] = stream[k]
        BY <1>4, <1>5, <3>1, <4>1
      <4> QED
        BY <3>1, <4>2 DEF IndInv, StreamGrows
    <3>2. CASE k = Len(stream) + 1
      <4>1. k - 1 = Len(stream) /\ EndOf(k - 1)' = Sent
        BY <1>2, <1>5, <3>2 DEF Sent
      <4> QED
        BY <1>4, <3>2, <4>1
    <3> QED
      BY <1>2, <1>4, <3>1, <3>2
  <2>2. ASSUME NEW j \in 0 .. Len(stream'), NEW k \in 0 .. Len(stream'), j < k
        PROVE  EndOf(j)' < EndOf(k)'
    <3>1. CASE k \in 0 .. Len(stream)
      <4>1. j \in 0 .. Len(stream)
        BY <1>2, <2>2, <3>1
      <4> QED
        BY <1>5, <2>2, <3>1, <4>1 DEF IndInv, StreamGrows
    <3>2. CASE k = Len(stream) + 1
      <4>1. j \in 0 .. Len(stream)
        BY <1>2, <1>4, <2>2, <3>2
      <4>2. EndOf(j) \in Nat /\ EndOf(j)' = EndOf(j)
        BY <1>5, <4>1, EndOfType DEF IndInv
      <4>3. EndOf(j) <= Sent
        <5>1. CASE j = Len(stream)
          BY <1>2, <5>1 DEF Sent
        <5>2. CASE j # Len(stream)
          <6>1. j < Len(stream) /\ Len(stream) \in 0 .. Len(stream)
            BY <1>2, <4>1, <5>2
          <6>2. EndOf(j) < EndOf(Len(stream))
            BY <4>1, <6>1 DEF IndInv, StreamGrows
          <6> QED
            BY <1>2, <4>2, <6>2 DEF Sent
        <5> QED
          BY <5>1, <5>2
      <4> QED
        BY <1>2, <1>6, <3>2, <4>2, <4>3
    <3> QED
      BY <1>2, <1>4, <3>1, <3>2
  <2> QED
    BY <2>1, <2>2 DEF StreamGrows
<1>9. done \in 0 .. Len(stream) /\ EndOf(done)' = EndOf(done) /\ done' = done
  BY <1>2, <1>5 DEF IndInv, PeerSends
<1>10. done' <= Len(stream') /\ got' <= Sent'
  BY <1>2, <1>4, <1>6, <1>9 DEF IndInv, PeerSends
<1>11. RingHoldsStream' /\ RoomForChunk' /\ NothingDropped'
       /\ (~open' => StoredSize(ring') = 0)
  BY <1>9 DEF IndInv, PeerSends, RingHoldsStream, RoomForChunk, NothingDropped
<1>12. DispatchInOrder'
  <2>1. done > 0 => /\ done \in 1 .. Len(stream) /\ done - 1 \in 0 .. Len(stream)
                    /\ stream'[done] = stream[done]
                    /\ EndOf(done - 1)' = EndOf(done - 1)
    BY <1>2, <1>4, <1>5, <1>9
  <2> QED
    BY <1>9, <1>10, <2>1 DEF IndInv, PeerSends, DispatchInOrder, NothingDropped
<1> QED
  BY <1>7, <1>8, <1>10, <1>11, <1>12 DEF IndInv, PeerSends

\* Steps that keep the stream, the bytes delivered and the packets dispatched.
LEMMA SameStream ==
  ASSUME IndInv, UNCHANGED <<stream, got, done, packet, dropped>>
  PROVE  /\ StreamGrows' /\ NothingDropped' /\ DispatchInOrder'
         /\ done' <= Len(stream') /\ got' <= Sent' /\ EndOf(done)' = EndOf(done)
BY DEF IndInv, StreamGrows, NothingDropped, DispatchInOrder, EndOf, Sent

\* Closing: the ring is emptied with the connection.
LEMMA CloseInv ==
  ASSUME IndInv, Disconnect, pc' = "closed",
         UNCHANGED <<stream, got, done, packet, dropped>>
  PROVE  IndInv'
<1>1. ring' \in Rings /\ StoredSize(ring') = 0 /\ open' = FALSE
  BY ClearEmpties DEF Disconnect, IndInv, TypeOK, Rings
<1>2. TypeOK'
  BY <1>1 DEF IndInv, TypeOK, Rings, PCs
<1>3. RingHoldsStream' /\ RoomForChunk'
  BY <1>1 DEF RingHoldsStream, RoomForChunk
<1> QED
  BY <1>1, <1>2, <1>3, SameStream DEF IndInv

\* A chunk that is delivered fits, and continues the stream in the ring.
LEMMA OnRecvCompletedInv == ASSUME IndInv, OnRecvCompleted PROVE IndInv'
<1> USE RecvAssumption, BufSizeAssumption
<1>1. PICK n \in 1 .. ChunkMax :
        /\ got + n <= Sent
        /\ got' = got + n
        /\ IF WriteFits(ring, n)
             THEN /\ ring' = Written(ring, [j \in 0 .. n - 1 |-> got + j], n)
                  /\ UNCHANGED dropped
             ELSE dropped' = TRUE /\ UNCHANGED ring
  BY DEF OnRecvCompleted
<1>2. /\ ring \in Rings /\ got \in Nat /\ done \in Nat /\ open /\ ~dropped
      /\ StoredSize(ring) + ChunkMax <= BufSize - 1
      /\ done \in 0 .. Len(stream)
  BY LenProperties DEF IndInv, TypeOK, OnRecvCompleted, RoomForChunk, NothingDropped, Rings
<1>3. EndOf(done) \in Nat
  BY <1>2, EndOfType DEF IndInv
<1>4. WriteFits(ring, n)
  BY <1>2, RingFacts DEF WriteFits
<1> DEFINE src == [j \in 0 .. n - 1 |-> got + j]
<1>5. src \in [0 .. n - 1 -> Int] /\ n \in Nat
  BY <1>2
<1>6. ring' = Written(ring, src, n) /\ dropped' = dropped
  BY <1>1, <1>4
<1> HIDE DEF src
<1>7. /\ ring' \in Rings
      /\ StoredSize(ring') = StoredSize(ring) + n
      /\ \A i \in 0 .. StoredSize(ring) - 1 : ByteAt(ring', i) = ByteAt(ring, i)
      /\ \A i \in 0 .. n - 1 : ByteAt(ring', StoredSize(ring) + i) = src[i]
  BY <1>2, <1>4, <1>5, <1>6, WriteAppends
<1>8. /\ StoredSize(ring) = got - EndOf(done)
      /\ \A i \in 0 .. StoredSize(ring) - 1 : ByteAt(ring, i) = EndOf(done) + i
  BY <1>2 DEF IndInv, RingHoldsStream
<1>9. ASSUME NEW i \in 0 .. StoredSize(ring') - 1
      PROVE  ByteAt(ring', i) = EndOf(done) + i
  <2>1. StoredSize(ring) \in 0 .. BufSize - 1
    BY <1>2, RingFacts
  <2>2. CASE i < StoredSize(ring)
    <3>1. i \in 0 .. StoredSize(ring) - 1
      BY <2>1, <2>2
    <3> QED
      BY <1>7, <1>8, <3>1
  <2>3. CASE i >= StoredSize(ring)
    <3>1. PICK j \in 0 .. n - 1 : i = StoredSize(ring) + j
      <4>1. i - StoredSize(ring) \in 0 .. n - 1
            /\ i = StoredSize(ring) + (i - StoredSize(ring))
        BY <1>5, <1>7, <2>1, <2>3
      <4> QED
        BY <4>1
    <3>2. src[j] = got + j
      BY <3>1 DEF src
    <3>3. ByteAt(ring', i) = src[j]
      BY <1>7, <3>1
    <3> QED
      BY <1>2, <1>3, <1>8, <3>1, <3>2, <3>3
  <2> QED
    BY <1>7, <2>1, <2>2, <2>3
<1>10. UNCHANGED <<stream, open, done, packet, dropped>> /\ pc' = "parse"
  BY <1>6 DEF OnRecvCompleted
<1>11. EndOf(done)' = EndOf(done) /\ Sent' = Sent
  BY <1>10 DEF EndOf, Sent
<1>12. RingHoldsStream'
  BY <1>1, <1>2, <1>3, <1>7, <1>8, <1>9, <1>10, <1>11 DEF RingHoldsStream
<1>13. TypeOK'
  BY <1>1, <1>2, <1>7, <1>10 DEF IndInv, TypeOK, PCs, Rings
<1>14. /\ StreamGrows' /\ NothingDropped' /\ DispatchInOrder' /\ RoomForChunk'
       /\ done' <= Len(stream') /\ got' <= Sent'
  BY <1>1, <1>10, <1>11
     DEF IndInv, StreamGrows, NothingDropped, DispatchInOrder, RoomForChunk, EndOf
<1> QED
  BY <1>2, <1>10, <1>12, <1>13, <1>14 DEF IndInv

\* What is left when the loop ends is less than a packet, so a chunk fits.
LEMMA LeaveLoopInv == ASSUME SizesFit, IndInv, LeaveLoop PROVE IndInv'
<1> USE RecvAssumption, BufSizeAssumption
<1>1. ring \in Rings /\ open \in BOOLEAN /\ UNCHANGED <<stream, got, ring, open, done, packet, dropped>>
  BY DEF IndInv, TypeOK, Rings, LeaveLoop
<1>2. StoredSize(ring) \in 0 .. BufSize - 1
  BY <1>1, RingFacts
<1>3. TypeOK'
  BY <1>1 DEF IndInv, TypeOK, PCs, LeaveLoop
<1>4. RoomForChunk'
  <2>1. CASE ~open
    BY <2>1 DEF LeaveLoop, RoomForChunk
  <2>2. CASE open /\ ~HasHeader
    BY <1>1, <1>2, <2>2 DEF HasHeader, SizesFit, RoomForChunk
  <2>3. CASE open /\ HasHeader
    <3>1. PICK size \in HeaderSizes : StoredSize(ring) < size
      BY <2>3 DEF LeaveLoop
    <3>2. done + 1 \in 1 .. Len(stream) /\ size = stream[done + 1].hdr
      BY <2>3, <3>1, HeaderIsNext
    <3>3. stream[done + 1] \in [hdr : HeaderValues, end : Nat]
      BY <3>2, ElementOfSeq DEF IndInv, TypeOK
    <3>4. size \in HeaderValues
      BY <3>2, <3>3
    <3> QED
      BY <1>1, <1>2, <2>3, <3>1, <3>4 DEF SizesFit, RoomForChunk
  <2> QED
    BY <2>1, <2>2, <2>3
<1>5. RingHoldsStream'
  BY <1>1, SameStream DEF IndInv, RingHoldsStream
<1> QED
  BY <1>1, <1>3, <1>4, <1>5, SameStream DEF IndInv, LeaveLoop

\* Read takes out exactly the next packet.
LEMMA DispatchInv == ASSUME IndInv, Dispatch PROVE IndInv'
<1> USE RecvAssumption, BufSizeAssumption
<1>1. PICK size \in HeaderSizes :
        /\ SizeOk(size) /\ StoredSize(ring) >= size /\ ~ReadFaults(ring, size)
        /\ packet' = ReadBytes(ring, size)
        /\ \/ ring' = AfterRead(ring, size) /\ UNCHANGED open
           \/ ring' = Cleared(ring) /\ open' = FALSE
  BY DEF Dispatch
<1>2. /\ ring \in Rings /\ done \in Nat /\ got \in Nat /\ open \in BOOLEAN
      /\ done \in 0 .. Len(stream)
  BY LenProperties DEF IndInv, TypeOK, Rings
<1>3. StoredSize(ring) \in 0 .. BufSize - 1 /\ open
  BY <1>2, RingFacts DEF IndInv, Dispatch, HasHeader
<1>4. /\ done + 1 \in 1 .. Len(stream) /\ size = stream[done + 1].hdr
      /\ EndOf(done + 1) = EndOf(done) + LengthFor(size)
  BY <1>1, <1>3, HeaderIsNext DEF Dispatch
<1>5. size \in Nat /\ LengthFor(size) = size
  <2>1. size \in HeaderValues
    <3>1. stream[done + 1] \in [hdr : HeaderValues, end : Nat]
      BY <1>4, ElementOfSeq DEF IndInv, TypeOK
    <3> QED
      BY <1>4, <3>1
  <2>2. size \in Nat /\ size >= HeaderSize
    BY <1>1, <2>1 DEF SizeOk
  <2> QED
    BY <2>2 DEF LengthFor
<1>6. EndOf(done) \in Nat
  BY <1>2, EndOfType DEF IndInv
<1>7. /\ StoredSize(ring) = got - EndOf(done)
      /\ \A i \in 0 .. StoredSize(ring) - 1 : ByteAt(ring, i) = EndOf(done) + i
  BY <1>3 DEF IndInv, RingHoldsStream, NothingDropped
<1>8. /\ AfterRead(ring, size) \in Rings
      /\ StoredSize(AfterRead(ring, size)) = StoredSize(ring) - size
      /\ \A i \in 0 .. size - 1 : ReadBytes(ring, size)[i] = ByteAt(ring, i)
      /\ \A i \in 0 .. StoredSize(ring) - size - 1 :
           ByteAt(AfterRead(ring, size), i) = ByteAt(ring, size + i)
  BY <1>1, <1>2, <1>5, ReadTakes
<1>9. Cleared(ring) \in Rings /\ StoredSize(Cleared(ring)) = 0
  BY <1>2, ClearEmpties
<1>10. packet' = [i \in 0 .. size - 1 |-> EndOf(done) + i]
  <2>1. \A i \in 0 .. size - 1 : ReadBytes(ring, size)[i] = EndOf(done) + i
    BY <1>1, <1>3, <1>5, <1>7, <1>8
  <2>2. DOMAIN ReadBytes(ring, size) = 0 .. size - 1
        /\ ReadBytes(ring, size)
             = [i \in 0 .. size - 1 |-> ReadBytes(ring, size)[i]]
    BY DEF ReadBytes
  <2> QED
    BY <1>1, <2>1, <2>2
<1>11. UNCHANGED <<stream, got, pc, dropped>> /\ done' = done + 1
  BY DEF Dispatch
<1>12. \A k : EndOf(k)' = EndOf(k)
  BY <1>11 DEF EndOf
<1>13. EndOf(done)' = EndOf(done + 1) /\ Sent' = Sent
  BY <1>11 DEF EndOf, Sent
<1>14. TypeOK'
  <2>1. ring' \in Rings /\ done' \in Nat
    BY <1>1, <1>2, <1>8, <1>9, <1>11
  <2>2. open' \in BOOLEAN
    BY <1>1, <1>2, Zenon
  <2>3. packet' \in [DOMAIN packet' -> Int]
    BY <1>6, <1>10
  <2> QED
    BY <1>11, <2>1, <2>2, <2>3 DEF IndInv, TypeOK, Rings
<1>15. RingHoldsStream'
  <2>1. CASE ring' = AfterRead(ring, size)
    <3>1. StoredSize(ring') = got' - EndOf(done)'
      BY <1>2, <1>4, <1>5, <1>6, <1>7, <1>8, <1>11, <1>13, <2>1
    <3>2. ASSUME NEW i \in 0 .. StoredSize(ring') - 1
          PROVE  ByteAt(ring', i) = EndOf(done)' + i
      <4>1. /\ i \in 0 .. StoredSize(ring) - size - 1
            /\ size + i \in 0 .. StoredSize(ring) - 1
        BY <1>3, <1>5, <1>8, <2>1
      <4>2. ByteAt(ring', i) = EndOf(done) + (size + i)
        BY <1>7, <1>8, <2>1, <4>1
      <4> QED
        BY <1>4, <1>5, <1>6, <1>13, <4>1, <4>2
    <3> QED
      BY <3>1, <3>2 DEF RingHoldsStream
  <2>2. CASE open' = FALSE
    BY <2>2 DEF RingHoldsStream
  <2> QED
    BY <1>1, <2>1, <2>2
<1>16. DispatchInOrder'
  <2>1. stream'[done'].hdr = size /\ done' <= Len(stream')
    BY <1>2, <1>4, <1>11
  <2>2. EndOf(done - 1)' = EndOf(done)
    <3>1. done' - 1 = done
      BY <1>2, <1>11
    <3> QED
      BY <1>11, <3>1 DEF EndOf
  <2> QED
    BY <1>10, <2>1, <2>2 DEF DispatchInOrder
<1>17. ~open' => StoredSize(ring') = 0
  BY <1>1, <1>3, <1>9
<1>18. StreamGrows' /\ NothingDropped' /\ RoomForChunk'
       /\ done' <= Len(stream') /\ got' <= Sent'
  BY <1>2, <1>4, <1>11, <1>12, <1>13
     DEF IndInv, StreamGrows, NothingDropped, RoomForChunk, Dispatch
<1> QED
  BY <1>14, <1>15, <1>16, <1>17, <1>18 DEF IndInv, Dispatch

\* A copy with a negative length changes nothing else and keeps it.
LEMMA ReadCrashesInv == ASSUME IndInv, ReadCrashes PROVE IndInv'
<1>1. UNCHANGED <<stream, got, ring, open, done, packet, dropped>> /\ pc' = "crashed"
  BY DEF ReadCrashes
<1>2. TypeOK' /\ RoomForChunk' /\ (~open' => StoredSize(ring') = 0)
  BY <1>1 DEF IndInv, TypeOK, PCs, RoomForChunk
<1>3. RingHoldsStream'
  BY <1>1, SameStream DEF IndInv, RingHoldsStream
<1> QED
  BY <1>1, <1>2, <1>3, SameStream DEF IndInv

\* A new connection finds an empty ring, whatever bytes the array still holds:
\* the state of Init but for the read and write positions.
LEMMA ReopenInv == ASSUME SizesFit, IndInv, Reopen PROVE IndInv'
<1> USE RecvAssumption, BufSizeAssumption
<1>1. ring' \in Rings /\ StoredSize(ring') = 0
  <2>1. ring' = [data |-> [i \in Cells |-> Stale], r |-> ring.r, w |-> ring.w]
    BY DEF Reopen, IndInv, TypeOK
  <2>2. ring \in Rings /\ StoredSize(ring) = 0
    BY DEF Reopen, IndInv, TypeOK, Rings
  <2>3. ring'.r = ring.r /\ ring'.w = ring.w
    BY <2>1
  <2>4. StoredSize(ring') = StoredSize(ring)
    BY <2>3 DEF StoredSize
  <2>5. [i \in Cells |-> Stale] \in [Cells -> Int]
    BY DEF Stale
  <2> QED
    BY <2>1, <2>2, <2>4, <2>5 DEF Rings
<1>2. /\ stream' = <<>> /\ Len(stream') = 0 /\ got' = 0 /\ done' = 0
      /\ open' = TRUE /\ dropped' = FALSE /\ pc' = "recv"
      /\ packet' = [i \in {} |-> 0]
  BY DEF Reopen
<1>3. TypeOK'
  <2>1. stream' \in Seq([hdr : HeaderValues, end : Nat])
        /\ packet' \in [DOMAIN packet' -> Int]
    BY <1>2
  <2>2. open' \in BOOLEAN /\ dropped' \in BOOLEAN
    BY <1>2, Zenon
  <2> QED
    BY <1>1, <1>2, <2>1, <2>2 DEF TypeOK, PCs, Rings
<1>4. StreamGrows' /\ NothingDropped' /\ done' <= Len(stream') /\ got' <= Sent'
  BY <1>2 DEF StreamGrows, NothingDropped, Sent, EndOf
<1>5. RingHoldsStream' /\ DispatchInOrder'
  BY <1>1, <1>2 DEF RingHoldsStream, DispatchInOrder, EndOf
<1>6. RoomForChunk'
  BY <1>1, <1>2 DEF RoomForChunk, SizesFit
<1> QED
  BY <1>1, <1>2, <1>3, <1>4, <1>5, <1>6 DEF IndInv

-----------------------------------------------------------------------------
\* Every step keeps it.
LEMMA NextInv == SizesFit => (IndInv /\ [Next]_vars => IndInv')
<1> SUFFICES ASSUME SizesFit, IndInv, [Next]_vars PROVE IndInv'
  OBVIOUS
<1>1. CASE UNCHANGED vars
  BY <1>1 DEF vars, IndInv, TypeOK, StreamGrows, NothingDropped, Sent, EndOf,
              RingHoldsStream, RoomForChunk, DispatchInOrder
<1>2. CASE RecvEnded
  BY <1>2, CloseInv DEF RecvEnded
<1>3. CASE RejectSize
  BY <1>3, CloseInv DEF RejectSize
<1>4. CASE PeerSends
  BY <1>4, PeerSendsInv
<1>5. CASE OnRecvCompleted
  BY <1>5, OnRecvCompletedInv
<1>6. CASE LeaveLoop
  BY <1>6, LeaveLoopInv
<1>7. CASE Dispatch
  BY <1>7, DispatchInv
<1>8. CASE ReadCrashes
  BY <1>8, ReadCrashesInv
<1>9. CASE Reopen
  BY <1>9, ReopenInv
<1> QED
  BY <1>1, <1>2, <1>3, <1>4, <1>5, <1>6, <1>7, <1>8, <1>9 DEF Next, Step

\* For every ring, header, chunk and packet size within SizesFit: no byte is
\* dropped although Write's result is ignored, and packets are dispatched in
\* order and whole, through every wrap of the ring and every way TCP may cut
\* the stream.  (Read's other fault, ReadCrashes, ends the run.)
THEOREM AssemblyCorrect ==
  SizesFit => (Spec => [](NothingDropped /\ RingHoldsStream /\ DispatchInOrder))
<1> SUFFICES ASSUME SizesFit
             PROVE  Spec => [](NothingDropped /\ RingHoldsStream /\ DispatchInOrder)
  OBVIOUS
<1>1. Init => IndInv
  BY InitInv
<1>2. IndInv /\ [Next]_vars => IndInv'
  BY NextInv
<1>3. IndInv => NothingDropped /\ RingHoldsStream /\ DispatchInOrder
  BY DEF IndInv
<1> QED
  BY <1>1, <1>2, <1>3, PTL DEF Spec

\* Write never refuses a chunk, so the result OnRecvCompleted does not look at
\* (ClientSession.cpp:18) is always good.
THEOREM NoChunkDropped == SizesFit => (Spec => []NothingDropped)
<1> SUFFICES ASSUME SizesFit PROVE Spec => []NothingDropped
  OBVIOUS
<1> QED
  BY AssemblyCorrect, PTL

\* Packets come out whole, in the order and with the bytes they were sent
\* (ClientSession.cpp:20-64).
THEOREM PacketsInOrder == SizesFit => (Spec => []DispatchInOrder)
<1> SUFFICES ASSUME SizesFit PROVE Spec => []DispatchInOrder
  OBVIOUS
<1> QED
  BY AssemblyCorrect, PTL

\* Every variable keeps its type; in particular the ring's positions stay
\* inside the array.
THEOREM TypeCorrect == SizesFit => (Spec => []TypeOK)
<1> SUFFICES ASSUME SizesFit PROVE Spec => []TypeOK
  OBVIOUS
<1>1. Init => IndInv
  BY InitInv
<1>2. IndInv /\ [Next]_vars => IndInv'
  BY NextInv
<1>3. IndInv => TypeOK
  BY DEF IndInv
<1> QED
  BY <1>1, <1>2, <1>3, PTL DEF Spec

-----------------------------------------------------------------------------
\* A peer that waits for the answer to each packet.
OneAtATime == IndInv /\ Len(stream) <= done + 1 /\ NoFault

\* Then a packet that is complete is all the ring holds, so it either lies
\* before the write position or reaches the end of the array.
LEMMA NoCrashClosedLoop ==
  ASSUME OneAtATime, ReadCrashes
  PROVE  FALSE
<1> USE RecvAssumption, BufSizeAssumption
<1>1. PICK size \in HeaderSizes :
        SizeOk(size) /\ StoredSize(ring) >= size /\ ReadFaults(ring, size)
  BY DEF ReadCrashes
<1>2. /\ IndInv /\ ring \in Rings /\ got \in Nat /\ done \in 0 .. Len(stream)
      /\ Len(stream) \in Nat /\ open \in BOOLEAN
  BY LenProperties DEF OneAtATime, IndInv, TypeOK, Rings
<1>3. StoredSize(ring) \in 0 .. BufSize - 1 /\ open
  BY <1>2, RingFacts DEF IndInv, ReadCrashes, HasHeader
<1>4. /\ done + 1 \in 1 .. Len(stream) /\ size = stream[done + 1].hdr
      /\ EndOf(done + 1) = EndOf(done) + LengthFor(size)
  BY <1>1, <1>2, <1>3, HeaderIsNext DEF ReadCrashes
<1>5. Len(stream) = done + 1
  BY <1>2, <1>4 DEF OneAtATime
<1>6. size \in Nat \ {0} /\ LengthFor(size) = size
  <2>1. stream[done + 1] \in [hdr : HeaderValues, end : Nat]
    BY <1>2, <1>4, ElementOfSeq DEF IndInv, TypeOK
  <2>2. size \in HeaderValues
    BY <1>4, <2>1
  <2>3. size \in Nat /\ size >= HeaderSize
    BY <1>1, <2>2 DEF SizeOk
  <2> QED
    BY <2>3 DEF LengthFor
<1>7. EndOf(done) \in Nat
  BY <1>2, EndOfType DEF IndInv
<1>8. StoredSize(ring) = got - EndOf(done) /\ got <= EndOf(done + 1)
  BY <1>2, <1>3, <1>5 DEF IndInv, RingHoldsStream, NothingDropped, Sent
<1>9. StoredSize(ring) = size
  BY <1>1, <1>2, <1>3, <1>4, <1>6, <1>7, <1>8
<1>10. ring.r \in 0 .. BufSize - 1 /\ ring.w \in 0 .. BufSize - 1
  BY <1>2, RingFacts
<1> QED
  BY <1>1, <1>6, <1>9, <1>10 DEF ReadFaults, StoredSize

\* With a peer that sends one packet and waits, Read never runs past the end
\* of its copy.  StressTest works this way: send, then read the whole answer.
THEOREM ClosedLoopNoFault ==
  SizesFit /\ Window = 1 => (Spec => []NoFault)
<1> SUFFICES ASSUME SizesFit, Window = 1 PROVE Spec => []NoFault
  OBVIOUS
<1>1. Init => OneAtATime
  <2> SUFFICES ASSUME Init PROVE OneAtATime
    OBVIOUS
  <2>1. Len(stream) = 0 /\ done = 0 /\ pc = "recv"
    BY DEF Init
  <2> QED
    BY <2>1, InitInv DEF OneAtATime, NoFault
<1>2. OneAtATime /\ [Next]_vars => OneAtATime'
  <2> SUFFICES ASSUME OneAtATime, [Next]_vars PROVE OneAtATime'
    OBVIOUS
  <2>1. IndInv /\ IndInv'
    BY NextInv DEF OneAtATime
  <2>2. done \in Nat /\ Len(stream) \in Nat
    BY <2>1, LenProperties DEF IndInv, TypeOK
  <2>3. Len(stream') <= done' + 1
    <3>1. CASE PeerSends
      <4>1. PICK e : stream' = Append(stream, e) /\ e \in [hdr : HeaderValues, end : Nat]
        <5>1. PICK h \in HeaderValues :
                stream' = Append(stream, [hdr |-> h, end |-> Sent + LengthFor(h)])
          BY <3>1 DEF PeerSends
        <5>2. Sent \in Nat /\ LengthFor(h) \in Nat
          BY <2>1, <2>2, EndOfType, RecvAssumption DEF Sent, LengthFor, IndInv
        <5> QED
          BY <5>1, <5>2
      <4>2. Len(stream') = Len(stream) + 1
        BY <2>1, <4>1, AppendProperties DEF IndInv, TypeOK
      <4> QED
        BY <2>2, <3>1, <4>2 DEF PeerSends
    <3>2. CASE Dispatch
      BY <2>2, <3>2 DEF Dispatch, OneAtATime
    <3>3. CASE Reopen
      <4>1. Len(stream') = 0 /\ done' = 0
        BY <3>3 DEF Reopen
      <4> QED
        BY <4>1
    <3>4. CASE \/ RecvEnded \/ OnRecvCompleted \/ LeaveLoop \/ RejectSize
               \/ ReadCrashes \/ UNCHANGED vars
      BY <3>4 DEF RecvEnded, OnRecvCompleted, LeaveLoop, RejectSize, ReadCrashes,
                  vars, OneAtATime
    <3> QED
      BY <3>1, <3>2, <3>3, <3>4 DEF Next, Step
  <2>4. NoFault'
    <3>1. ~ReadCrashes
      BY NoCrashClosedLoop
    <3>2. \/ pc' \in {"recv", "parse", "closed"}
          \/ UNCHANGED pc
      BY <3>1 DEF Next, Step, PeerSends, RecvEnded, OnRecvCompleted, LeaveLoop,
                  RejectSize, Dispatch, Reopen, vars
    <3> QED
      BY <3>2 DEF NoFault, OneAtATime
  <2> QED
    BY <2>1, <2>3, <2>4 DEF OneAtATime
<1>3. OneAtATime => NoFault
  BY DEF OneAtATime
<1> QED
  BY <1>1, <1>2, <1>3, PTL DEF Spec
=============================================================================
