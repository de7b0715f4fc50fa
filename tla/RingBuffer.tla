----------------------------- MODULE RingBuffer -----------------------------
(***************************************************************************)
(* ServerCoreLibrary/RingBuffer.cpp as operators on a record               *)
(* [data, r, w]: the array, m_ReadPos and m_WritePos.  One cell always     *)
(* stays free.  The two-part copies are written as the code splits them.   *)
(***************************************************************************)
EXTENDS Integers

CONSTANTS BufSize   \* m_BufferSize, MAX_RECV_BUFFER_SIZE

ASSUME BufSizeAssumption == BufSize \in Nat \ {0}

Cells == 0 .. BufSize - 1

Wrap(pos) == pos % BufSize

StoredSize(ring) ==
  IF ring.w >= ring.r THEN ring.w - ring.r ELSE BufSize - ring.r + ring.w

\* Faulty: keeps two cells free.
FreeSizeSpare(ring) == BufSize - StoredSize(ring) - 2

FreeSize(ring) == BufSize - StoredSize(ring) - 1

\* Write returns FALSE, and stores nothing, when the data does not fit.
WriteFits(ring, n) == n > 0 /\ n <= FreeSize(ring)

\* Faulty: the second part is copied from the start of the source again.
WrittenTwice(ring, src, n) ==
  LET firstWritable == BufSize - ring.w
  IN  [data |-> [i \in Cells |->
                   IF ring.w <= i /\ i < ring.w + n THEN src[i - ring.w]
                   ELSE IF i < n - firstWritable THEN src[i]
                   ELSE ring.data[i]],
       r |-> ring.r,
       w |-> Wrap(ring.w + n)]

\* The buffer after a Write of src[0..n-1] that fits: up to the end of the
\* array, then from its start.
Written(ring, src, n) ==
  LET firstWritable == BufSize - ring.w
  IN  [data |-> [i \in Cells |->
                   IF ring.w <= i /\ i < ring.w + n THEN src[i - ring.w]
                   ELSE IF i < n - firstWritable THEN src[firstWritable + i]
                   ELSE ring.data[i]],
       r |-> ring.r,
       w |-> Wrap(ring.w + n)]

\* Peek looks at the first n bytes stored, in two parts where they wrap.
Peek(ring, n) ==
  LET firstPeekable == BufSize - ring.r
  IN  [i \in 0 .. n - 1 |-> IF i < firstPeekable THEN ring.data[ring.r + i]
                            ELSE ring.data[i - firstPeekable]]

\* Read copies len bytes at once when the read position is below the write
\* position.  Otherwise it always copies the cells up to the end of the array
\* first and len - firstReadable from its start: when the bytes asked for end
\* before the array does, that length is negative, memcpy takes it as a huge
\* size_t, and the process is lost.
ReadFaults(ring, len) == ring.r >= ring.w /\ len < BufSize - ring.r

\* Faulty: the part behind the wrap starts at the cell of its own index.
ReadBytesNoShift(ring, len) ==
  LET firstReadable == BufSize - ring.r
  IN  [i \in 0 .. len - 1 |->
         IF ring.r < ring.w \/ i < firstReadable THEN ring.data[ring.r + i]
         ELSE ring.data[i]]

ReadBytes(ring, len) ==
  LET firstReadable == BufSize - ring.r
  IN  [i \in 0 .. len - 1 |->
         IF ring.r < ring.w \/ i < firstReadable THEN ring.data[ring.r + i]
         ELSE ring.data[i - firstReadable]]

\* Faulty: the read position runs past the array.
AfterReadNoWrap(ring, len) == [ring EXCEPT !.r = ring.r + len]

\* Faulty: one byte of the packet stays.
AfterReadShort(ring, len) == [ring EXCEPT !.r = Wrap(ring.r + len - 1)]

AfterRead(ring, len) == [ring EXCEPT !.r = Wrap(ring.r + len)]

\* The i-th byte stored, 0 .. StoredSize - 1: what the buffer stands for.
ByteAt(ring, i) == ring.data[Wrap(ring.r + i)]

\* Clear moves the positions; the array keeps what it held.
Cleared(ring) == [ring EXCEPT !.r = 0, !.w = 0]
=============================================================================
