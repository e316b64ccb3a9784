------------------------- MODULE RingBufferTheorems -------------------------
(***************************************************************************)
(* What the positions of a ring buffer do under each operation, for every  *)
(* size of the buffer; the queue it implements; and the receive path of a  *)
(* session, which uses it.                                                 *)
(***************************************************************************)
EXTENDS RingBufferQueue, RecvPath, SequenceTheorems, WellFoundedInduction, TLAPS

\* Advancing a position wraps at most once when the step is at most one turn.
LEMMA AdvanceWraps ==
    ASSUME NEW p \in Positions, NEW n \in 0 .. Capacity
    PROVE  (p + n) % Capacity = IF p + n < Capacity THEN p + n
                                                    ELSE p + n - Capacity
  BY BufferSizeAssumption DEF Positions, Capacity

LEMMA AdvanceInRange ==
    ASSUME NEW p \in Positions, NEW n \in 0 .. Capacity
    PROVE  (p + n) % Capacity \in Positions
  BY AdvanceWraps, BufferSizeAssumption DEF Positions, Capacity

\* The bytes in use and the free ones always add up to BufferSize
\* (RingBuffer::GetUseSize, GetFreeSize).
LEMMA SizesAddUp ==
    ASSUME NEW Byt, NEW b \in Buffers(Byt)
    PROVE  /\ UseSize(b) \in 0 .. BufferSize
           /\ FreeSize(b) = BufferSize - UseSize(b)
           /\ FreeSize(b) \in 0 .. BufferSize
  BY BufferSizeAssumption
  DEF Buffers, Positions, Capacity, UseSize, FreeSize

\* Writing n bytes that fit adds n to the bytes in use, also when the write
\* position wraps (RingBuffer::MoveWritePos).
LEMMA MoveWritePosGrows ==
    ASSUME NEW Byt, NEW b \in Buffers(Byt), NEW n \in 0 .. FreeSize(b)
    PROVE  /\ MoveWritePos(b, n) \in Buffers(Byt)
           /\ UseSize(MoveWritePos(b, n)) = UseSize(b) + n
<1> DEFINE c == MoveWritePos(b, n)
<1>1. n \in 0 .. Capacity /\ b.writePos \in Positions /\ b.readPos \in Positions
  BY SizesAddUp, BufferSizeAssumption DEF Buffers, Capacity
<1>2. /\ c.readPos = b.readPos
      /\ c.writePos = IF b.writePos + n < Capacity THEN b.writePos + n
                                                   ELSE b.writePos + n - Capacity
  BY <1>1, AdvanceWraps DEF MoveWritePos, Buffers
<1>3. c \in Buffers(Byt)
  BY <1>1, AdvanceInRange DEF MoveWritePos, Buffers
<1> HIDE DEF c
<1>4. UseSize(c) = UseSize(b) + n
  BY <1>1, <1>2, BufferSizeAssumption
  DEF Positions, Capacity, UseSize, FreeSize
<1> QED  BY <1>3, <1>4 DEF c

\* Removing n bytes in use takes n from them (RingBuffer::Remove).
LEMMA RemoveShrinks ==
    ASSUME NEW Byt, NEW b \in Buffers(Byt), NEW n \in 0 .. UseSize(b)
    PROVE  /\ Remove(b, n) \in Buffers(Byt)
           /\ UseSize(Remove(b, n)) = UseSize(b) - n
<1> DEFINE c == Remove(b, n)
<1>1. n \in 0 .. Capacity /\ b.writePos \in Positions /\ b.readPos \in Positions
  BY SizesAddUp, BufferSizeAssumption DEF Buffers, Capacity
<1>2. /\ c.writePos = b.writePos
      /\ c.readPos = IF b.readPos + n < Capacity THEN b.readPos + n
                                                 ELSE b.readPos + n - Capacity
  BY <1>1, AdvanceWraps DEF Remove, Buffers
<1>3. c \in Buffers(Byt)
  BY <1>1, AdvanceInRange DEF Remove, Buffers
<1> HIDE DEF c
<1>4. UseSize(c) = UseSize(b) - n
  BY <1>1, <1>2, BufferSizeAssumption
  DEF Positions, Capacity, UseSize
<1> QED  BY <1>3, <1>4 DEF c

\* The free run WSARecv is given is never longer than the free space plus the
\* slot kept empty, and only a buffer read from slot 0 offers that slot
\* (RingBuffer::GetContinuousFreeSize); it is empty only when nothing is free.
LEMMA ContinuousFreeSizeBounds ==
    ASSUME NEW Byt, NEW b \in Buffers(Byt)
    PROVE  /\ ContinuousFreeSize(b) \in 0 .. Capacity
           /\ b.readPos # 0 => ContinuousFreeSize(b) <= FreeSize(b)
           /\ ContinuousFreeSize(b) <= FreeSize(b) + 1
           /\ ContinuousFreeSize(b) = 0 => FreeSize(b) = 0
  BY BufferSizeAssumption
  DEF Buffers, Positions, Capacity, UseSize, FreeSize, ContinuousFreeSize

\* What Peek returns is a sequence of bytes, and so is what the buffer holds.
LEMMA PeekType ==
    ASSUME NEW Byt, NEW b \in Buffers(Byt), NEW n \in 0 .. UseSize(b)
    PROVE  /\ Peek(b, n) \in Seq(Byt)
           /\ Len(Peek(b, n)) = n
           /\ Contents(b) \in Seq(Byt)
           /\ Len(Contents(b)) = UseSize(b)
<1>1. ASSUME NEW m \in 0 .. UseSize(b)
      PROVE  Peek(b, m) \in [1 .. m -> Byt]
  <2>1. ASSUME NEW k \in 1 .. m
        PROVE  Peek(b, m)[k] \in Byt
    BY BufferSizeAssumption
    DEF Peek, Buffers, Positions, Capacity, UseSize
  <2>2. Peek(b, m) = [k \in 1 .. m |-> Peek(b, m)[k]]
    BY DEF Peek
  <2> QED  BY <2>1, <2>2
<1>2. UseSize(b) \in Nat /\ n \in Nat /\ UseSize(b) \in 0 .. UseSize(b)
  BY SizesAddUp
<1>3. ASSUME NEW m \in Nat, NEW f \in [1 .. m -> Byt]
      PROVE  f \in Seq(Byt) /\ Len(f) = m
  OBVIOUS
<1> QED  BY <1>1, <1>2, <1>3 DEF Contents

\* An accepted Write appends its bytes to what the buffer holds, whether or
\* not the array or the position wraps (RingBuffer::Write).
LEMMA WriteAppends ==
    ASSUME NEW Byt, NEW b \in Buffers(Byt), NEW bytes \in Seq(Byt),
           CanWrite(b, bytes)
    PROVE  /\ Write(b, bytes) \in Buffers(Byt)
           /\ Contents(Write(b, bytes)) = Contents(b) \o bytes
<1> DEFINE n == Len(bytes)
           d == [b EXCEPT !.data = Copied(b, bytes)]
           c == Write(b, bytes)
<1>1. n \in 0 .. FreeSize(b)
  BY DEF CanWrite
<1>2. /\ d \in Buffers(Byt)
      /\ d.readPos = b.readPos
      /\ d.writePos = b.writePos
      /\ d.data = Copied(b, bytes)
  <2>1. b \in Buffers(Byt) /\ b.data \in [Positions -> Byt]
        /\ b.writePos \in Positions
    BY DEF Buffers
  <2>2. ASSUME NEW i \in Positions
        PROVE  Copied(b, bytes)[i] \in Byt
    <3> DEFINE back == Capacity - b.writePos
    <3>1. /\ BufferSize \in Nat /\ Capacity = BufferSize + 1
          /\ Positions = 0 .. BufferSize
          /\ b.writePos \in 0 .. BufferSize /\ back \in 1 .. Capacity
          /\ n \in 0 .. BufferSize
      BY <1>1, <2>1, SizesAddUp, BufferSizeAssumption DEF Positions, Capacity
    <3>2. Copied(b, bytes)[i] =
            IF i >= b.writePos /\ i - b.writePos < n
            THEN bytes[i - b.writePos + 1]
            ELSE IF i < n - back THEN bytes[back + i + 1] ELSE b.data[i]
      BY DEF Copied
    <3> HIDE DEF back, n
    <3>3. CASE i >= b.writePos /\ i - b.writePos < n
      <4>1. i - b.writePos + 1 \in 1 .. n
        BY <3>1, <3>3
      <4>2. bytes[i - b.writePos + 1] \in Byt
        BY <4>1 DEF n
      <4> QED  BY <3>2, <3>3, <4>2
    <3>4. CASE ~ (i >= b.writePos /\ i - b.writePos < n) /\ i < n - back
      <4>1. back + i + 1 \in 1 .. n
        BY <3>1, <3>4
      <4>2. bytes[back + i + 1] \in Byt
        BY <4>1 DEF n
      <4> QED  BY <3>2, <3>4, <4>2
    <3>5. CASE ~ (i >= b.writePos /\ i - b.writePos < n) /\ ~ (i < n - back)
      BY <2>1, <3>2, <3>5
    <3> QED  BY <3>3, <3>4, <3>5
  <2>3. Copied(b, bytes) \in [Positions -> Byt]
    BY <2>2 DEF Copied
  <2> QED  BY <2>1, <2>3 DEF Buffers
<1>3. UseSize(d) = UseSize(b) /\ FreeSize(d) = FreeSize(b)
  BY <1>2 DEF UseSize, FreeSize
<1>4. c \in Buffers(Byt) /\ UseSize(c) = UseSize(b) + n
  BY <1>1, <1>2, <1>3, MoveWritePosGrows DEF Write
<1>5. c.data = Copied(b, bytes) /\ c.readPos = b.readPos
  BY <1>2 DEF Write, MoveWritePos, Buffers
<1>6. Contents(c) \in Seq(Byt) /\ Len(Contents(c)) = UseSize(b) + n
      /\ Contents(b) \in Seq(Byt) /\ Len(Contents(b)) = UseSize(b)
  BY <1>4, PeekType, SizesAddUp
<1>7. ASSUME NEW k \in 1 .. (UseSize(b) + n)
      PROVE  Contents(c)[k] = (Contents(b) \o bytes)[k]
  <2>1. /\ b.readPos \in Positions
        /\ b.writePos \in Positions
        /\ n \in Nat
        /\ n = Len(bytes)
        /\ UseSize(b) \in Nat
        /\ UseSize(b) + n <= BufferSize
    <3>1. b.readPos \in Positions /\ b.writePos \in Positions
      BY DEF Buffers
    <3> QED  BY <1>1, <3>1, SizesAddUp, BufferSizeAssumption
  <2>2. ASSUME NEW i \in Positions
        PROVE  c.data[i] = IF i >= b.writePos /\ i - b.writePos < n
                           THEN bytes[i - b.writePos + 1]
                           ELSE IF i < n - (Capacity - b.writePos)
                                THEN bytes[Capacity - b.writePos + i + 1]
                                ELSE b.data[i]
    BY <1>5, <2>1 DEF Copied
  <2>3. Contents(c)[k] = IF k <= Capacity - b.readPos
                         THEN c.data[b.readPos + k - 1]
                         ELSE c.data[k - (Capacity - b.readPos) - 1]
    BY <1>4, <1>5 DEF Contents, Peek
  <2> DEFINE u == UseSize(b)
  <2>4. k \in 1 .. (u + n) /\ u \in Nat /\ u + n <= BufferSize
    BY <2>1
  <2>5. u = IF b.writePos >= b.readPos
            THEN b.writePos - b.readPos
            ELSE Capacity - b.readPos + b.writePos
    BY DEF UseSize
  <2>6. (Contents(b) \o bytes)[k] = IF k <= u THEN Contents(b)[k]
                                              ELSE bytes[k - u]
    BY <1>6, <2>1, <2>4, ConcatProperties
  <2>7. PICK slot \in Positions :
          slot = IF k <= Capacity - b.readPos
                 THEN b.readPos + k - 1
                 ELSE k - (Capacity - b.readPos) - 1
    BY <2>1, <2>4, BufferSizeAssumption DEF Positions, Capacity
  <2>8. k <= u => Contents(b)[k] = b.data[slot]
    BY <2>1, <2>4, <2>7 DEF Contents, Peek
  <2>9. Contents(c)[k] = c.data[slot]
    BY <2>3, <2>7
  <2> HIDE DEF c, d, n, u
  <2>10. /\ k <= u => /\ ~ (slot >= b.writePos /\ slot - b.writePos < n)
                      /\ ~ (slot < n - (Capacity - b.writePos))
         /\ k > u => \/ /\ slot >= b.writePos /\ slot - b.writePos < n
                        /\ slot - b.writePos + 1 = k - u
                     \/ /\ ~ (slot >= b.writePos /\ slot - b.writePos < n)
                        /\ slot < n - (Capacity - b.writePos)
                        /\ Capacity - b.writePos + slot + 1 = k - u
    <3> DEFINE r == b.readPos
               w == b.writePos
    <3>1. r \in Positions /\ w \in Positions /\ n \in Nat
      BY <2>1 DEF n
    <3>2. u = IF w >= r THEN w - r ELSE Capacity - r + w
      BY <2>5
    <3>3. slot = IF k <= Capacity - r THEN r + k - 1
                                      ELSE k - (Capacity - r) - 1
      BY <2>7
    <3> HIDE DEF r, w
    <3>4. /\ k <= u => /\ ~ (slot >= w /\ slot - w < n)
                       /\ ~ (slot < n - (Capacity - w))
          /\ k > u => \/ /\ slot >= w /\ slot - w < n
                         /\ slot - w + 1 = k - u
                      \/ /\ ~ (slot >= w /\ slot - w < n)
                         /\ slot < n - (Capacity - w)
                         /\ Capacity - w + slot + 1 = k - u
      BY <2>4, <3>1, <3>2, <3>3, BufferSizeAssumption, SMTT(40)
      DEF Positions, Capacity
    <3> QED  BY <3>4 DEF w
  <2>11. CASE k <= u
    <3>1. c.data[slot] = b.data[slot]
      BY <2>2, <2>7, <2>10, <2>11
    <3> QED  BY <2>6, <2>8, <2>9, <2>11, <3>1
  <2>12. CASE ~ (k <= u)
    <3>1. k > u
      BY <2>4, <2>12
    <3>2. c.data[slot] = bytes[k - u]
      BY <2>2, <2>7, <2>10, <3>1
    <3> QED  BY <2>6, <2>9, <2>12, <3>2
  <2> QED  BY <2>11, <2>12
<1> QED  BY <1>4, <1>6, <1>7

\* Peek returns the oldest n bytes, and Remove leaves exactly the others, also
\* when either passes the end of the array (RingBuffer::Peek, Remove).
LEMMA ReadSplits ==
    ASSUME NEW Byt, NEW b \in Buffers(Byt), NEW n \in 0 .. UseSize(b)
    PROVE  /\ Peek(b, n) = SubSeq(Contents(b), 1, n)
           /\ Contents(Remove(b, n)) = SubSeq(Contents(b), n + 1, UseSize(b))
<1> DEFINE c == Remove(b, n)
           u == UseSize(b)
<1>1. /\ b.readPos \in Positions
      /\ n \in 0 .. Capacity
      /\ u \in 0 .. BufferSize
      /\ n \in 0 .. u
  BY SizesAddUp, BufferSizeAssumption DEF Buffers, Capacity
<1>2. /\ c \in Buffers(Byt)
      /\ UseSize(c) = u - n
  BY RemoveShrinks
<1>3. /\ c.data = b.data
      /\ c.readPos = IF b.readPos + n < Capacity THEN b.readPos + n
                                                 ELSE b.readPos + n - Capacity
  BY <1>1, AdvanceWraps DEF Remove, Buffers
<1>4. ASSUME NEW m \in 1 .. u
      PROVE  Contents(b)[m] = IF m <= Capacity - b.readPos
                              THEN b.data[b.readPos + m - 1]
                              ELSE b.data[m - (Capacity - b.readPos) - 1]
  BY <1>1 DEF Contents, Peek
<1>5. /\ Contents(b) \in Seq(Byt) /\ Len(Contents(b)) = u
      /\ Peek(b, n) \in Seq(Byt) /\ Len(Peek(b, n)) = n
      /\ Contents(c) \in Seq(Byt) /\ Len(Contents(c)) = u - n
  BY <1>2, PeekType, SizesAddUp
<1>6. Peek(b, n) = SubSeq(Contents(b), 1, n)
  <2>1. ASSUME NEW k \in 1 .. n
        PROVE  Peek(b, n)[k] = Contents(b)[k]
    BY <1>1, <1>4 DEF Peek
  <2>2. Len(SubSeq(Contents(b), 1, n)) = n
    BY <1>1, <1>5
  <2>3. ASSUME NEW k \in 1 .. n
        PROVE  SubSeq(Contents(b), 1, n)[k] = Contents(b)[k]
    BY <1>1, <1>5
  <2>4. SubSeq(Contents(b), 1, n) \in Seq(Byt)
    BY <1>1, <1>5
  <2> QED  BY <1>5, <2>1, <2>2, <2>3, <2>4
<1>7. Contents(c) = SubSeq(Contents(b), n + 1, u)
  <2>1. ASSUME NEW k \in 1 .. (u - n)
        PROVE  Contents(c)[k] = Contents(b)[n + k]
    <3>1. Contents(c)[k] = IF k <= Capacity - c.readPos
                           THEN b.data[c.readPos + k - 1]
                           ELSE b.data[k - (Capacity - c.readPos) - 1]
      BY <1>1, <1>2, <1>3 DEF Contents, Peek
    <3>2. PICK m \in 1 .. u : m = n + k
      BY <1>1
    <3>3. Contents(b)[m] = IF m <= Capacity - b.readPos
                           THEN b.data[b.readPos + m - 1]
                           ELSE b.data[m - (Capacity - b.readPos) - 1]
      BY <1>4
    <3>4. PICK p \in Int, q \in Int :
            /\ p = b.readPos
            /\ q = c.readPos
            /\ p \in Positions
            /\ q = IF p + n < Capacity THEN p + n ELSE p + n - Capacity
      BY <1>1, <1>3, BufferSizeAssumption DEF Positions, Capacity
    <3> HIDE DEF c, u
    <3>5. (IF k <= Capacity - q THEN q + k - 1 ELSE k - (Capacity - q) - 1)
          = IF m <= Capacity - p THEN p + m - 1 ELSE m - (Capacity - p) - 1
      BY <1>1, <3>2, <3>4, BufferSizeAssumption DEF Positions, Capacity
    <3>6. Contents(c)[k]
          = b.data[IF k <= Capacity - q THEN q + k - 1
                                        ELSE k - (Capacity - q) - 1]
      BY <3>1, <3>4
    <3>7. Contents(b)[m]
          = b.data[IF m <= Capacity - p THEN p + m - 1
                                        ELSE m - (Capacity - p) - 1]
      BY <3>3, <3>4
    <3>8. Contents(c)[k] = Contents(b)[m]
      BY <3>5, <3>6, <3>7
    <3> QED  BY <3>2, <3>8
  <2> DEFINE s == SubSeq(Contents(b), n + 1, u)
  <2>2. s \in Seq(Byt) /\ Len(s) = u - n
    BY <1>1, <1>5
  <2>3. ASSUME NEW k \in 1 .. (u - n)
        PROVE  s[k] = Contents(c)[k]
    <3>1. s[k] = Contents(b)[n + k]
      BY <1>1, <1>5
    <3> QED  BY <2>1, <3>1
  <2>4. Contents(c) \in Seq(Byt) /\ Len(Contents(c)) = u - n
    BY <1>5
  <2> HIDE DEF s, c, u
  <2>5. Contents(c) = s
    BY <2>2, <2>3, <2>4
  <2> QED  BY <2>5 DEF s
<1> QED  BY <1>6, <1>7

\* A buffer just made and one just cleared hold nothing (RingBuffer's
\* constructor and Clear).
LEMMA ClearEmpties ==
    ASSUME NEW Byt, NEW b \in Buffers(Byt), NEW byte \in Byt
    PROVE  /\ Clear(b) \in Buffers(Byt)
           /\ Contents(Clear(b)) = << >>
           /\ NewBuffer(byte) \in Buffers(Byt)
           /\ Contents(NewBuffer(byte)) = << >>
<1>1. 0 \in Positions
  BY BufferSizeAssumption DEF Positions
<1>2. Clear(b) \in Buffers(Byt) /\ NewBuffer(byte) \in Buffers(Byt)
  BY <1>1 DEF Clear, NewBuffer, Buffers
<1>3. UseSize(Clear(b)) = 0 /\ UseSize(NewBuffer(byte)) = 0
  BY DEF UseSize, Clear, NewBuffer, Buffers
<1> QED  BY <1>2, <1>3, PeekType

-----------------------------------------------------------------------------
\* The initial buffer is well formed and empty (RingBuffer's constructor).
LEMMA InitialBuffer ==
    /\ NewBuffer(ZeroItem) \in Buffers(Item)
    /\ Contents(NewBuffer(ZeroItem)) = << >>
<1>1. NewBuffer(ZeroItem) \in Buffers(Item)
  BY ZeroItemAssumption, BufferSizeAssumption
  DEF NewBuffer, Buffers, Positions
<1> QED  BY <1>1, ZeroItemAssumption, ClearEmpties

\* The positions stay inside the array and every read returns bytes
\* (RingBuffer::Write, Read and Clear in any order).
THEOREM RingTypeCorrect == RingSpec => []RingTypeOK
<1>1. RingInit => RingTypeOK
  BY InitialBuffer DEF RingInit, RingTypeOK
<1>2. RingTypeOK /\ [RingNext]_ringVars => RingTypeOK'
  <2> SUFFICES ASSUME RingTypeOK, [RingNext]_ringVars
               PROVE  RingTypeOK'
    OBVIOUS
  <2>1. ASSUME NEW bytes \in Queue!Chunks, WriteBytes(bytes)
        PROVE  RingTypeOK'
    <3>1. bytes \in Seq(Item)
      BY BufferSizeAssumption DEF Queue!Chunks
    <3> QED  BY <2>1, <3>1, WriteAppends DEF RingTypeOK, WriteBytes
  <2>2. ASSUME NEW len \in 0 .. BufferSize, ReadBytes(len)
        PROVE  RingTypeOK'
    <3>0. ring \in Buffers(Item)
      BY DEF RingTypeOK
    <3>1. len \in 0 .. UseSize(ring)
      BY <2>2, <3>0, SizesAddUp DEF ReadBytes, CanRead
    <3> QED  BY <2>2, <3>1, PeekType, RemoveShrinks DEF RingTypeOK, ReadBytes
  <2>3. CASE ClearBuffer
    BY <2>3, ZeroItemAssumption, ClearEmpties DEF RingTypeOK, ClearBuffer
  <2>4. CASE UNCHANGED ringVars
    BY <2>4 DEF RingTypeOK, ringVars
  <2>5. ASSUME NEW bytes \in Queue!Chunks, WriteRefused(bytes)
        PROVE  RingTypeOK'
    BY <2>5 DEF RingTypeOK, WriteRefused
  <2>6. ASSUME NEW len \in 0 .. BufferSize, ReadRefused(len)
        PROVE  RingTypeOK'
    BY <2>6 DEF RingTypeOK, ReadRefused
  <2> QED  BY <2>1, <2>2, <2>3, <2>4, <2>5, <2>6 DEF RingNext
<1> QED  BY <1>1, <1>2, PTL DEF RingSpec

\* The ring buffer implements the bounded FIFO queue, for every size of the
\* buffer and every set of byte values.
THEOREM BufferImplementsQueue == RingSpec => ImplementsQueue
<1>1. RingInit => Queue!Init
  BY InitialBuffer DEF RingInit, Queue!Init
<1>2. RingTypeOK /\ [RingNext]_ringVars => [Queue!Next]_<<Contents(ring), out, answer>>
  <2> SUFFICES ASSUME RingTypeOK, [RingNext]_ringVars
               PROVE  [Queue!Next]_<<Contents(ring), out, answer>>
    OBVIOUS
  <2>0. /\ ring \in Buffers(Item)
        /\ UseSize(ring) \in 0 .. BufferSize
        /\ Len(Contents(ring)) = UseSize(ring)
    <3>1. ring \in Buffers(Item)
      BY DEF RingTypeOK
    <3>2. UseSize(ring) \in 0 .. BufferSize
      BY <3>1, SizesAddUp
    <3>3. UseSize(ring) \in 0 .. UseSize(ring)
      BY <3>2, BufferSizeAssumption
    <3> QED  BY <3>1, <3>2, <3>3, PeekType
  <2>1. ASSUME NEW bytes \in Queue!Chunks, WriteBytes(bytes)
        PROVE  Queue!Next
    <3>1. bytes \in Seq(Item)
      BY BufferSizeAssumption DEF Queue!Chunks
    <3>2. Contents(ring)' = Contents(ring) \o bytes
      BY <2>0, <2>1, <3>1, WriteAppends DEF WriteBytes
    <3>3. Queue!Fits(bytes)
      <4>1. FreeSize(ring) = BufferSize - UseSize(ring) /\ Len(bytes) \in Nat
        BY <2>0, <3>1, SizesAddUp
      <4>2. Len(bytes) <= FreeSize(ring)
        BY <2>0, <2>1, <4>1, BufferSizeAssumption DEF WriteBytes, CanWrite
      <4> QED  BY <2>0, <4>1, <4>2, BufferSizeAssumption DEF Queue!Fits
    <3>4. Queue!Put(bytes)
      BY <2>1, <3>2, <3>3 DEF WriteBytes, Queue!Put
    <3> QED  BY <3>4 DEF Queue!Next
  <2>2. ASSUME NEW len \in 0 .. BufferSize, ReadBytes(len)
        PROVE  Queue!Next
    <3>1. len \in 0 .. UseSize(ring)
      BY <2>0, <2>2 DEF ReadBytes, CanRead
    <3>2. /\ Peek(ring, len) = SubSeq(Contents(ring), 1, len)
          /\ Contents(Remove(ring, len))
             = SubSeq(Contents(ring), len + 1, UseSize(ring))
      BY <2>0, <3>1, ReadSplits
    <3>3. ring' = Remove(ring, len) /\ out' = Peek(ring, len)
      BY <2>2 DEF ReadBytes
    <3>4. Contents(ring)' = Contents(Remove(ring, len))
      BY <3>3
    <3>5. Queue!IsThere(len)
      BY <2>0, <3>1 DEF Queue!IsThere
    <3>6. Queue!Take(len)
      BY <2>0, <2>2, <3>2, <3>3, <3>4, <3>5 DEF Queue!Take, ReadBytes
    <3> QED  BY <3>6 DEF Queue!Next
  <2>3. CASE ClearBuffer
    <3>1. Contents(ring)' = << >>
      BY <2>0, <2>3, ZeroItemAssumption, ClearEmpties DEF ClearBuffer
    <3>2. Queue!Reset
      BY <2>3, <3>1 DEF ClearBuffer, Queue!Reset
    <3> QED  BY <3>2 DEF Queue!Next
  <2>4. CASE UNCHANGED ringVars
    BY <2>4 DEF ringVars, Contents, Peek, UseSize, Capacity
  <2>5. ASSUME NEW bytes \in Queue!Chunks, WriteRefused(bytes)
        PROVE  Queue!Next
    <3>1. bytes \in Seq(Item) /\ Len(bytes) \in Nat
      BY BufferSizeAssumption DEF Queue!Chunks
    <3>2. FreeSize(ring) = BufferSize - UseSize(ring)
      BY <2>0, SizesAddUp
    <3>3. ~ Queue!Fits(bytes)
      <4>1. ~ (BufferSize - UseSize(ring) >= Len(bytes))
        BY <2>5, <3>2 DEF WriteRefused, CanWrite
      <4>2. ~ (UseSize(ring) + Len(bytes) <= BufferSize)
        BY <2>0, <3>1, <4>1, BufferSizeAssumption
      <4> QED  BY <2>0, <4>2 DEF Queue!Fits
    <3>4. Contents(ring)' = Contents(ring)
      BY <2>5 DEF WriteRefused, Contents, Peek, UseSize, Capacity
    <3>5. Queue!RefusePut(bytes)
      BY <2>5, <3>3, <3>4 DEF WriteRefused, Queue!RefusePut
    <3> QED  BY <3>5 DEF Queue!Next
  <2>6. ASSUME NEW len \in 0 .. BufferSize, ReadRefused(len)
        PROVE  Queue!Next
    <3>1. ~ Queue!IsThere(len)
      BY <2>0, <2>6 DEF ReadRefused, CanRead, Queue!IsThere
    <3>2. Contents(ring)' = Contents(ring)
      BY <2>6 DEF ReadRefused, Contents, Peek, UseSize, Capacity
    <3>3. Queue!RefuseTake(len)
      BY <2>6, <3>1, <3>2 DEF ReadRefused, Queue!RefuseTake
    <3> QED  BY <3>3 DEF Queue!Next
  <2> QED  BY <2>1, <2>2, <2>3, <2>4, <2>5, <2>6 DEF RingNext
<1> QED  BY <1>1, <1>2, RingTypeCorrect, PTL DEF RingSpec, ImplementsQueue, Queue!Spec

-----------------------------------------------------------------------------
\* The slots that hold bytes, and those of a completion not taken yet.
Used(b, i) ==
    IF b.writePos >= b.readPos THEN b.readPos <= i /\ i < b.writePos
                               ELSE b.readPos <= i \/ i < b.writePos

Filled(b, n, i) == b.writePos <= i /\ i < b.writePos + n

\* A WSARecv is posted, or its completion queued, or its handler running.
OneReceive ==
    /\ recvLen = 0 \/ received = 0
    /\ pc # "idle" => recvLen = 0 /\ received = 0
    /\ socket = "connected" /\ pc = "idle" => recvLen + received > 0

\* Whoever cleared the session left the buffer empty for the next connection,
\* and a handler that went on after that has cleared it again.
ClearedBetween ==
    socket = "none" /\ pc = "idle" /\ received = 0 =>
        rb.readPos = 0 /\ rb.writePos = 0

ReceiveFits ==
    socket = "connected" =>
        recvLen <= ContinuousFreeSize(rb) /\ received <= ContinuousFreeSize(rb)

BytesAreOwn ==
    socket = "connected" =>
        /\ \A i \in 1 .. Len(wire) : wire[i].conn = conn
        /\ \A i \in Positions :
              Used(rb, i) \/ Filled(rb, received, i) => rb.data[i].conn = conn

ReceiveIInv ==
    /\ TypeOK
    /\ OneReceive
    /\ ClearedBetween
    /\ ReceiveFits
    /\ BytesAreOwn
    /\ pc = "read" => ValidSize(header)
    /\ Len(sizes) <= MaxPackets
    /\ conn = 0 => socket = "none" /\ pc = "idle" /\ received = 0

\* The bytes of a packet say which connection they are of.
LEMMA PacketBytesType ==
    ASSUME NEW c \in 1 .. MaxConns, NEW p \in 1 .. MaxPackets, NEW size \in Nat
    PROVE  /\ PacketBytes(c, p, size) \in Seq(Byte)
           /\ Len(PacketBytes(c, p, size)) >= HeaderSize
           /\ Len(PacketBytes(c, p, size)) \in Nat
           /\ \A i \in 1 .. Len(PacketBytes(c, p, size)) :
                 /\ PacketBytes(c, p, size)[i].conn = c
                 /\ PacketBytes(c, p, size)[i].pkt = p
<1>1. PICK n \in Nat : n = IF ValidSize(size) THEN size ELSE HeaderSize
  BY RecvPathAssumption
<1>2. n >= HeaderSize /\ n <= HeaderSize + MaxPacketSize
  BY <1>1, RecvPathAssumption DEF ValidSize
<1>3. PICK bytes : bytes = [k \in 1 .. n |-> [conn |-> c, pkt |-> p, off |-> k]]
  OBVIOUS
<1>4. PacketBytes(c, p, size) = bytes
  BY <1>1, <1>3 DEF PacketBytes, PacketLen
<1>5. \A k \in 1 .. n : k \in 1 .. HeaderSize + MaxPacketSize
  BY <1>2, RecvPathAssumption
<1>6. \A k \in 1 .. n : [conn |-> c, pkt |-> p, off |-> k] \in Byte
  BY <1>5 DEF Byte
<1>7. bytes \in [1 .. n -> Byte]
  BY <1>3, <1>6
<1>8. bytes \in Seq(Byte) /\ Len(bytes) = n
  BY <1>7
<1>9. \A i \in 1 .. Len(bytes) : bytes[i].conn = c /\ bytes[i].pkt = p
  BY <1>3, <1>8
<1> QED  BY <1>2, <1>4, <1>8, <1>9

\* A header shows a size that a client may send.
LEMMA ShownSizesAreSizes ==
    ASSUME TypeOK, conn # 0, Len(sizes) <= MaxPackets, NEW bytes
    PROVE  ShownSizes(bytes) \subseteq PacketSizes
<1>1. CASE /\ Len(bytes) = HeaderSize
           /\ \E p \in DOMAIN sizes :
                 bytes = SubSeq(PacketBytes(conn, p, sizes[p]), 1, HeaderSize)
  <2>1. sizes \in Seq(PacketSizes) /\ conn \in 1 .. MaxConns
    BY RecvPathAssumption DEF TypeOK
  <2>2. PICK p \in DOMAIN sizes :
           bytes = SubSeq(PacketBytes(conn, p, sizes[p]), 1, HeaderSize)
    BY <1>1
  <2>3. p \in 1 .. MaxPackets /\ sizes[p] \in PacketSizes /\ sizes[p] \in Nat
    <3>1. p \in 1 .. Len(sizes) /\ Len(sizes) \in Nat /\ MaxPackets \in Nat
      BY <2>1, <2>2, RecvPathAssumption
    <3>2. sizes[p] \in PacketSizes
      BY <2>1, <3>1
    <3>3. p \in 1 .. MaxPackets
      BY <3>1
    <3> QED  BY <3>2, <3>3, RecvPathAssumption
  <2>4. PICK packet : packet = PacketBytes(conn, p, sizes[p])
    OBVIOUS
  <2>5. /\ packet \in Seq(Byte)
        /\ Len(packet) >= HeaderSize
        /\ \A i \in 1 .. Len(packet) : packet[i].pkt = p
    BY <2>1, <2>3, <2>4, PacketBytesType
  <2>6. bytes[1] = packet[1] /\ 1 \in 1 .. Len(packet)
    BY <2>2, <2>4, <2>5, RecvPathAssumption
  <2>7. ShownSizes(bytes) = {sizes[bytes[1].pkt]}
    BY <1>1 DEF ShownSizes
  <2> QED  BY <2>3, <2>5, <2>6, <2>7
<1>2. CASE ~ (/\ Len(bytes) = HeaderSize
              /\ \E p \in DOMAIN sizes :
                    bytes = SubSeq(PacketBytes(conn, p, sizes[p]), 1, HeaderSize))
  BY <1>2 DEF ShownSizes
<1> QED  BY <1>1, <1>2

\* Reading from the buffer, or not, frees slots and changes none.
LEMMA RemoveIfThereFrees ==
    ASSUME NEW Byt, NEW b \in Buffers(Byt), NEW n \in Nat
    PROVE  /\ RemoveIfThere(b, n) \in Buffers(Byt)
           /\ RemoveIfThere(b, n).data = b.data
           /\ \A i \in Positions : Used(RemoveIfThere(b, n), i) => Used(b, i)
<1>1. CASE CanRead(b, n)
  <2>1. n \in 0 .. UseSize(b)
    BY <1>1, SizesAddUp DEF CanRead
  <2>2. Remove(b, n) \in Buffers(Byt)
    BY <2>1, RemoveShrinks
  <2>3. /\ b.readPos \in Positions /\ b.writePos \in Positions
        /\ n \in 0 .. Capacity
    BY <2>1, SizesAddUp, BufferSizeAssumption DEF Buffers, Capacity
  <2>4. /\ Remove(b, n).data = b.data
        /\ Remove(b, n).writePos = b.writePos
        /\ Remove(b, n).readPos = (b.readPos + n) % Capacity
    BY DEF Remove, Buffers
  <2>5. Remove(b, n).readPos = IF b.readPos + n < Capacity THEN b.readPos + n
                                               ELSE b.readPos + n - Capacity
    BY <2>3, <2>4, AdvanceWraps
  <2>6. \A i \in Positions : Used(Remove(b, n), i) => Used(b, i)
    BY <2>1, <2>3, <2>4, <2>5, BufferSizeAssumption
    DEF Used, UseSize, Positions, Capacity
  <2> QED  BY <1>1, <2>2, <2>4, <2>6 DEF RemoveIfThere
<1>2. CASE ~ CanRead(b, n)
  BY <1>2 DEF RemoveIfThere
<1> QED  BY <1>1, <1>2

LEMMA PeekIfThereType ==
    ASSUME NEW Byt, NEW b \in Buffers(Byt), NEW n \in Nat
    PROVE  PeekIfThere(b, n) \in Seq(Byt)
<1>1. CASE CanRead(b, n)
  <2>1. n \in 0 .. UseSize(b)
    BY <1>1, SizesAddUp DEF CanRead
  <2> QED  BY <1>1, <2>1, PeekType DEF PeekIfThere
<1>2. CASE ~ CanRead(b, n)
  BY <1>2 DEF PeekIfThere
<1> QED  BY <1>1, <1>2

\* What a WSARecv of at most the continuous free size fills.
LEMMA CopiedFills ==
    ASSUME NEW Byt, NEW b \in Buffers(Byt), NEW bytes \in Seq(Byt),
           Len(bytes) <= ContinuousFreeSize(b)
    PROVE  /\ Copied(b, bytes) \in [Positions -> Byt]
           /\ \A i \in Positions :
                 Copied(b, bytes)[i] = IF Filled(b, Len(bytes), i)
                                       THEN bytes[i - b.writePos + 1]
                                       ELSE b.data[i]
<1>1. PICK n \in Nat : n = Len(bytes)
  OBVIOUS
<1>2. PICK d : d = Copied(b, bytes)
  OBVIOUS
<1>3. /\ b.writePos \in 0 .. BufferSize /\ b.readPos \in 0 .. BufferSize
      /\ b.data \in [Positions -> Byt]
  BY DEF Buffers, Positions
<1>4. n <= Capacity - b.writePos
  BY <1>1, <1>3, BufferSizeAssumption DEF ContinuousFreeSize, Capacity
<1>5. d = [i \in Positions |->
              IF i >= b.writePos /\ i - b.writePos < n
              THEN bytes[i - b.writePos + 1]
              ELSE IF i < n - (Capacity - b.writePos)
                   THEN bytes[(Capacity - b.writePos) + i + 1]
                   ELSE b.data[i]]
  BY <1>1, <1>2 DEF Copied
<1>6. \A i \in Positions : ~ (i < n - (Capacity - b.writePos))
  BY <1>3, <1>4, BufferSizeAssumption DEF Positions, Capacity
<1>7. \A i \in Positions :
         /\ Filled(b, n, i) <=> i >= b.writePos /\ i - b.writePos < n
         /\ Filled(b, n, i) => i - b.writePos + 1 \in 1 .. n
  BY <1>3 DEF Filled, Positions
<1>8. \A i \in Positions : d[i] = IF Filled(b, n, i)
                                  THEN bytes[i - b.writePos + 1] ELSE b.data[i]
  BY <1>5, <1>6, <1>7
<1>9. \A i \in Positions : d[i] \in Byt
  BY <1>1, <1>3, <1>7, <1>8
<1>10. d \in [Positions -> Byt]
  BY <1>5, <1>9
<1> QED  BY <1>1, <1>2, <1>8, <1>10

\* Moving the write position over what was filled takes it into use.
LEMMA MoveTakesFilled ==
    ASSUME NEW Byt, NEW b \in Buffers(Byt), NEW n \in 0 .. Capacity
    PROVE  /\ MoveWritePos(b, n) \in Buffers(Byt)
           /\ MoveWritePos(b, n).data = b.data
           /\ n <= ContinuousFreeSize(b) =>
                 \A i \in Positions :
                    Used(MoveWritePos(b, n), i) => Used(b, i) \/ Filled(b, n, i)
<1>1. PICK c : c = MoveWritePos(b, n)
  OBVIOUS
<1>2. b.writePos \in Positions /\ b.readPos \in Positions
  BY DEF Buffers
<1>3. /\ c.data = b.data /\ c.readPos = b.readPos
      /\ c.writePos = (b.writePos + n) % Capacity
      /\ c = [b EXCEPT !.writePos = (b.writePos + n) % Capacity]
  BY <1>1 DEF MoveWritePos, Buffers
<1>4. (b.writePos + n) % Capacity \in Positions
  BY <1>2, AdvanceInRange
<1>5. c \in Buffers(Byt)
  BY <1>3, <1>4 DEF Buffers
<1>6. c.writePos = IF b.writePos + n < Capacity THEN b.writePos + n
                                                ELSE b.writePos + n - Capacity
  BY <1>2, <1>3, AdvanceWraps
<1>7. n <= ContinuousFreeSize(b) =>
         \A i \in Positions : Used(c, i) => Used(b, i) \/ Filled(b, n, i)
  BY <1>2, <1>3, <1>6, BufferSizeAssumption
  DEF Used, Filled, ContinuousFreeSize, Positions, Capacity
<1> QED  BY <1>1, <1>3, <1>5, <1>7

\* Clearing the session leaves it without a socket and its buffer empty.
LEMMA ClearKeepsReceiving ==
    ASSUME ReceiveIInv, ClearSession,
           conn' = conn, peer' = peer, sizes' = sizes, wire' = wire,
           header' \in PacketSizes \cup {0}, dataSize' = dataSize, jobs' = jobs,
           recvLen' \in {0, recvLen}, received' = received,
           pc' \in {pc, "register", "idle"}, pc' # "read" \/ header' = header,
           pc' # "idle" => pc # "idle"
    PROVE  ReceiveIInv'
<1> USE DEF ReceiveIInv
<1>1. rb' = Clear(rb) /\ socket' = "none"
  BY DEF ClearSession
<1>2. rb \in Buffers(Byte) /\ NoByte \in Byte
  BY DEF TypeOK, Byte
<1>3. rb' \in Buffers(Byte)
  BY <1>1, <1>2, ClearEmpties
<1>4. TypeOK'
  <2>1. Capacity \in Nat
    BY BufferSizeAssumption DEF Capacity
  <2>2. /\ recvLen' \in 0 .. Capacity
        /\ pc' \in {"idle", "measure", "peek", "read", "register"}
        /\ socket' \in {"none", "connected"}
    BY <1>1, <2>1 DEF TypeOK
  <2> QED  BY <1>3, <2>2 DEF TypeOK
<1>5. rb'.readPos = 0 /\ rb'.writePos = 0
  BY <1>1, <1>2 DEF Clear, Buffers
<1>6. OneReceive'
  BY <1>1 DEF OneReceive
<1>7. ClearedBetween' /\ ReceiveFits' /\ BytesAreOwn'
  BY <1>1, <1>5 DEF ClearedBetween, ReceiveFits, BytesAreOwn
<1>8. pc' = "read" => ValidSize(header')
  OBVIOUS
<1>9. conn' = 0 => socket' = "none" /\ pc' = "idle" /\ received' = 0
  BY <1>1
<1> QED  BY <1>4, <1>6, <1>7, <1>8, <1>9 DEF ValidSize

\* What the client does.
LEMMA ClientSteps ==
    ASSUME ReceiveIInv,
           \/ \E size \in PacketSizes : ClientSend(size)
           \/ ClientFinish \/ ClientReset
    PROVE  ReceiveIInv'
<1> USE DEF ReceiveIInv
<1>1. UNCHANGED <<rb, conn, socket, recvLen, received, pc, dataSize, header, jobs>>
  BY DEF ClientSend, ClientFinish, ClientReset, locals
<1>2. OneReceive' /\ ClearedBetween' /\ ReceiveFits'
      /\ (pc = "read" => ValidSize(header))'
      /\ (conn = 0 => socket = "none" /\ pc = "idle" /\ received = 0)'
  BY <1>1 DEF OneReceive, ClearedBetween, ReceiveFits, ValidSize
<1>3. ASSUME NEW size \in PacketSizes, ClientSend(size)
      PROVE  ReceiveIInv'
  <2>1. PICK bytes : bytes = PacketBytes(conn, Len(sizes) + 1, size)
    OBVIOUS
  <2>2. /\ socket = "connected" /\ Len(sizes) < MaxPackets
        /\ sizes' = Append(sizes, size) /\ wire' = wire \o bytes
        /\ peer' = peer
    BY <1>3, <2>1 DEF ClientSend
  <2>3. /\ sizes \in Seq(PacketSizes) /\ wire \in Seq(Byte)
        /\ conn \in 1 .. MaxConns
    BY <2>2, RecvPathAssumption DEF TypeOK
  <2>4. Len(sizes) + 1 \in 1 .. MaxPackets /\ size \in Nat
    <3>1. Len(sizes) \in Nat /\ MaxPackets \in Nat
      BY <2>3, RecvPathAssumption
    <3> QED  BY <2>2, <3>1, RecvPathAssumption
  <2>5. /\ bytes \in Seq(Byte)
        /\ \A i \in 1 .. Len(bytes) : bytes[i].conn = conn
    <3>1. PICK p \in 1 .. MaxPackets : p = Len(sizes) + 1
      BY <2>4
    <3>2. bytes = PacketBytes(conn, p, size) /\ size \in Nat
      BY <2>1, <2>4, <3>1
    <3> QED  BY <2>3, <3>2, PacketBytesType
  <2>6. sizes' \in Seq(PacketSizes) /\ Len(sizes') <= MaxPackets
    BY <2>2, <2>3, <2>4
  <2>7. wire' \in Seq(Byte)
    BY <2>2, <2>3, <2>5
  <2>8. TypeOK'
    BY <1>1, <2>2, <2>6, <2>7 DEF TypeOK
  <2>9. \A i \in 1 .. Len(wire') : wire'[i].conn = conn
    <3>1. \A i \in 1 .. Len(wire) : wire[i].conn = conn
      BY <2>2 DEF BytesAreOwn
    <3>2. /\ Len(wire') = Len(wire) + Len(bytes)
          /\ Len(wire) \in Nat /\ Len(bytes) \in Nat
          /\ \A i \in 1 .. Len(wire') :
                wire'[i] = IF i <= Len(wire) THEN wire[i] ELSE bytes[i - Len(wire)]
      BY <2>2, <2>3, <2>5
    <3>3. \A i \in 1 .. Len(wire') :
             i \in 1 .. Len(wire) \/ (i > Len(wire) /\ i - Len(wire) \in 1 .. Len(bytes))
      BY <3>2
    <3> QED  BY <2>5, <3>1, <3>2, <3>3
  <2>10. BytesAreOwn'
    BY <1>1, <2>2, <2>9 DEF BytesAreOwn
  <2> QED  BY <1>2, <2>6, <2>8, <2>10
<1>4. ASSUME ClientFinish \/ ClientReset
      PROVE  ReceiveIInv'
  <2>1. /\ peer' \in {"finished", "reset"} /\ sizes' = sizes
        /\ (wire' = wire \/ wire' = << >>)
    BY <1>4 DEF ClientFinish, ClientReset
  <2>2. TypeOK'
    <3>0. wire \in Seq(Byte) /\ << >> \in Seq(Byte)
      BY DEF TypeOK
    <3>1. wire' \in Seq(Byte)
      BY <2>1, <3>0, Zenon
    <3> QED  BY <1>1, <2>1, <3>1 DEF TypeOK
  <2>3. BytesAreOwn'
    BY <1>1, <2>1 DEF BytesAreOwn
  <2> QED  BY <1>2, <2>1, <2>2, <2>3
<1> QED  BY <1>3, <1>4

LEMMA AcceptReceives ==
    ASSUME ReceiveIInv, Accept
    PROVE  ReceiveIInv'
<1> USE DEF ReceiveIInv
<1>1. /\ socket = "none" /\ pc = "idle" /\ recvLen = 0 /\ received = 0
      /\ conn < MaxConns /\ conn' = conn + 1
      /\ socket' = "connected" /\ peer' = "open" /\ sizes' = << >>
      /\ wire' = << >> /\ recvLen' = ContinuousFreeSize(rb) /\ jobs' = << >>
      /\ UNCHANGED <<rb, received, pc, dataSize, header>>
  BY DEF Accept, locals
<1>2. rb.readPos = 0 /\ rb.writePos = 0 /\ rb \in Buffers(Byte)
  BY <1>1 DEF ClearedBetween, TypeOK
<1>3. ContinuousFreeSize(rb) = Capacity /\ Capacity > 0 /\ Capacity \in Nat
  BY <1>2, BufferSizeAssumption DEF ContinuousFreeSize, Capacity
<1>4. conn' \in 0 .. MaxConns /\ conn' # 0
  BY <1>1, RecvPathAssumption DEF TypeOK
<1>5. Len(sizes') <= MaxPackets
  BY <1>1, RecvPathAssumption
<1>6. TypeOK'
  BY <1>1, <1>3, <1>4 DEF TypeOK
<1>7. OneReceive' /\ ClearedBetween' /\ ReceiveFits'
  BY <1>1, <1>3 DEF OneReceive, ClearedBetween, ReceiveFits
<1>8. \A i \in Positions : ~ Used(rb, i) /\ ~ Filled(rb, 0, i)
  BY <1>2 DEF Used, Filled, Positions
<1>9. BytesAreOwn'
  BY <1>1, <1>8 DEF BytesAreOwn
<1> QED  BY <1>1, <1>4, <1>5, <1>6, <1>7, <1>9

LEMMA KernelFills ==
    ASSUME ReceiveIInv, NEW n \in 1 .. Window, KernelRecv(n)
    PROVE  ReceiveIInv'
<1> USE DEF ReceiveIInv
<1>1. PICK bytes : bytes = SubSeq(wire, 1, n)
  OBVIOUS
<1>2. /\ recvLen > 0 /\ socket = "connected" /\ n \in 1 .. recvLen
      /\ n <= Len(wire)
      /\ rb' = [rb EXCEPT !.data = Copied(rb, bytes)]
      /\ wire' = SubSeq(wire, n + 1, Len(wire))
      /\ recvLen' = 0 /\ received' = n
      /\ UNCHANGED <<conn, socket, peer, sizes, pc, dataSize, header, jobs>>
  BY <1>1 DEF KernelRecv, locals
<1>3. /\ rb \in Buffers(Byte) /\ wire \in Seq(Byte) /\ recvLen \in 0 .. Capacity
      /\ n \in Nat /\ Len(wire) \in Nat /\ Capacity \in Nat
  BY <1>2, BufferSizeAssumption DEF TypeOK, Capacity
<1>4. /\ bytes \in Seq(Byte) /\ Len(bytes) = n
      /\ \A i \in 1 .. n : bytes[i] = wire[i] /\ i \in 1 .. Len(wire)
  BY <1>1, <1>2, <1>3
<1>5. ContinuousFreeSize(rb) \in 0 .. Capacity /\ n <= ContinuousFreeSize(rb)
  <2>1. ContinuousFreeSize(rb) \in 0 .. Capacity
    BY <1>3, ContinuousFreeSizeBounds
  <2>2. recvLen <= ContinuousFreeSize(rb)
    BY <1>2 DEF ReceiveFits
  <2> QED  BY <1>2, <1>3, <2>1, <2>2
<1>6. /\ Copied(rb, bytes) \in [Positions -> Byte]
      /\ \A i \in Positions :
            Copied(rb, bytes)[i] = IF Filled(rb, n, i)
                                   THEN bytes[i - rb.writePos + 1] ELSE rb.data[i]
  BY <1>3, <1>4, <1>5, CopiedFills
<1>7. /\ rb' \in Buffers(Byte) /\ rb'.data = Copied(rb, bytes)
      /\ rb'.readPos = rb.readPos /\ rb'.writePos = rb.writePos
  BY <1>2, <1>3, <1>6 DEF Buffers
<1>8. received' \in 0 .. Capacity /\ recvLen' \in 0 .. Capacity
  BY <1>2, <1>3, <1>5
<1>9. /\ wire' \in Seq(Byte)
      /\ \A i \in 1 .. Len(wire') : \E j \in 1 .. Len(wire) : wire'[i] = wire[j]
  <2>1. /\ wire' \in Seq(Byte)
        /\ Len(wire') = Len(wire) - n
        /\ \A i \in 1 .. Len(wire) - n : wire'[i] = wire[i + n]
    BY <1>2, <1>3
  <2>2. \A i \in 1 .. Len(wire) - n : i + n \in 1 .. Len(wire)
    BY <1>2, <1>3
  <2> QED  BY <2>1, <2>2
<1>10. TypeOK'
  BY <1>2, <1>7, <1>8, <1>9 DEF TypeOK
<1>11. pc = "idle" /\ received = 0
  BY <1>2, <1>3 DEF OneReceive, TypeOK
<1>12. OneReceive'
  BY <1>2, <1>3, <1>11 DEF OneReceive
<1>13. ClearedBetween'
  BY <1>2 DEF ClearedBetween
<1>14. ReceiveFits'
  <2>1. ContinuousFreeSize(rb)' = ContinuousFreeSize(rb)
    BY <1>7 DEF ContinuousFreeSize, Capacity
  <2> QED  BY <1>2, <1>5, <2>1 DEF ReceiveFits
<1>15. BytesAreOwn'
  <2>1. \A i \in 1 .. Len(wire) : wire[i].conn = conn
    BY <1>2 DEF BytesAreOwn
  <2>2. \A i \in 1 .. Len(wire') : wire'[i].conn = conn
    BY <1>9, <2>1
  <2>3. ASSUME NEW i \in Positions, Used(rb', i) \/ Filled(rb', n, i)
        PROVE  rb'.data[i].conn = conn
    <3>1. CASE Filled(rb, n, i)
      <4>1. rb.writePos \in Nat /\ i \in Nat
        BY <1>3, BufferSizeAssumption DEF Buffers, Positions
      <4>2. i - rb.writePos + 1 \in 1 .. n
        BY <1>3, <3>1, <4>1 DEF Filled
      <4>3. rb'.data[i] = bytes[i - rb.writePos + 1]
        BY <1>6, <1>7, <3>1
      <4> QED  BY <1>4, <2>1, <4>2, <4>3
    <3>2. CASE ~ Filled(rb, n, i)
      <4>1. rb'.data[i] = rb.data[i]
        BY <1>6, <1>7, <3>2
      <4>2. Used(rb, i)
        BY <1>7, <2>3, <3>2 DEF Used, Filled
      <4> QED  BY <1>2, <4>1, <4>2 DEF BytesAreOwn
    <3> QED  BY <3>1, <3>2
  <2> QED  BY <1>2, <2>2, <2>3 DEF BytesAreOwn
<1>16. conn # 0
  BY <1>2
<1> QED  BY <1>2, <1>10, <1>11, <1>12, <1>13, <1>14, <1>15, <1>16

LEMMA OnRecvTakes ==
    ASSUME ReceiveIInv, OnRecv
    PROVE  ReceiveIInv'
<1> USE DEF ReceiveIInv
<1>1. /\ pc = "idle" /\ received > 0
      /\ rb' = MoveWritePos(rb, received)
      /\ received' = 0 /\ pc' = "measure"
      /\ UNCHANGED <<conn, socket, peer, sizes, wire, recvLen, dataSize, header,
                     jobs>>
  BY DEF OnRecv, client, locals
<1>2. /\ rb \in Buffers(Byte) /\ received \in 0 .. Capacity
      /\ recvLen \in 0 .. Capacity /\ Capacity \in Nat
  BY BufferSizeAssumption DEF TypeOK, Capacity
<1>3. /\ rb' \in Buffers(Byte) /\ rb'.data = rb.data
      /\ received <= ContinuousFreeSize(rb) =>
            \A i \in Positions :
               Used(rb', i) => Used(rb, i) \/ Filled(rb, received, i)
  BY <1>1, <1>2, MoveTakesFilled
<1>4. TypeOK'
  BY <1>1, <1>2, <1>3 DEF TypeOK
<1>5. recvLen' = 0
  BY <1>1, <1>2 DEF OneReceive
<1>6. OneReceive' /\ ClearedBetween'
  BY <1>1, <1>5 DEF OneReceive, ClearedBetween
<1>7. ReceiveFits'
  BY <1>1, <1>3, <1>5, ContinuousFreeSizeBounds DEF ReceiveFits
<1>8. BytesAreOwn'
  <2> SUFFICES ASSUME socket = "connected"
               PROVE  \A i \in Positions :
                         Used(rb', i) \/ Filled(rb', 0, i) => rb'.data[i].conn = conn
    BY <1>1 DEF BytesAreOwn
  <2>1. received <= ContinuousFreeSize(rb)
    BY DEF ReceiveFits
  <2>2. \A i \in Positions : ~ Filled(rb', 0, i)
    BY <1>3, BufferSizeAssumption DEF Filled, Buffers, Positions
  <2> QED  BY <1>3, <2>1, <2>2 DEF BytesAreOwn
<1>9. conn # 0
  BY <1>1, <1>2
<1> QED  BY <1>1, <1>4, <1>6, <1>7, <1>8, <1>9

\* The turns of the loop of ProcessPackets.
LEMMA ParserSteps ==
    ASSUME ReceiveIInv, MeasureData \/ PeekHeader \/ ReadPacket
    PROVE  ReceiveIInv'
<1> USE DEF ReceiveIInv
<1>1. /\ rb \in Buffers(Byte) /\ header \in PacketSizes \cup {0}
      /\ jobs \in Seq(Seq(Byte))
  BY DEF TypeOK
<1>2. CASE MeasureData
  <2>1. /\ pc = "measure" /\ dataSize' = UseSize(rb)
        /\ pc' \in {"register", "peek"}
        /\ UNCHANGED <<rb, conn, socket, peer, sizes, wire, recvLen, received,
                       header, jobs>>
    BY <1>2 DEF MeasureData, client
  <2>2. UseSize(rb) \in 0 .. BufferSize
    BY <1>1, SizesAddUp
  <2>3. TypeOK'
    BY <2>1, <2>2 DEF TypeOK
  <2> QED  BY <2>1, <2>3 DEF OneReceive, ClearedBetween, ReceiveFits, BytesAreOwn
<1>3. CASE PeekHeader
  <2>1. /\ pc = "peek"
        /\ header' \in ShownSizes(PeekIfThere(rb, HeaderSize))
        /\ UNCHANGED <<conn, peer, sizes, wire, recvLen, received, dataSize, jobs>>
        /\ \/ ClearSession /\ pc' = "register"
           \/ ValidSize(header') /\ UNCHANGED <<rb, socket>> /\ pc' = "read"
    BY <1>3 DEF PeekHeader, client
  <2>2. header' \in PacketSizes \cup {0}
    <3>1. conn # 0
      BY <2>1
    <3> QED  BY <2>1, <3>1, ShownSizesAreSizes
  <2>3. CASE ClearSession /\ pc' = "register"
    BY <2>1, <2>2, <2>3, ClearKeepsReceiving
  <2>4. CASE ValidSize(header') /\ UNCHANGED <<rb, socket>> /\ pc' = "read"
    <3>1. TypeOK'
      BY <2>1, <2>2, <2>4 DEF TypeOK
    <3>2. OneReceive' /\ ClearedBetween' /\ ReceiveFits' /\ BytesAreOwn'
      BY <2>1, <2>4 DEF OneReceive, ClearedBetween, ReceiveFits, BytesAreOwn
    <3>3. ValidSize(header)'
      BY <2>4 DEF ValidSize
    <3> QED  BY <2>1, <2>4, <3>1, <3>2, <3>3
  <2> QED  BY <2>1, <2>3, <2>4
<1>4. CASE ReadPacket
  <2>1. /\ pc = "read"
        /\ UNCHANGED <<conn, socket, peer, sizes, wire, recvLen, received,
                       dataSize, header>>
        /\ pc' \in {"register", "measure"}
    BY <1>4 DEF ReadPacket, client, locals
  <2>2. /\ HeaderSize \in Nat /\ header - HeaderSize \in Nat
    BY <1>1, <2>1, RecvPathAssumption DEF ValidSize
  <2>3. PICK skipped : skipped = RemoveIfThere(rb, HeaderSize)
    OBVIOUS
  <2>4. /\ skipped \in Buffers(Byte) /\ skipped.data = rb.data
        /\ \A i \in Positions : Used(skipped, i) => Used(rb, i)
    BY <1>1, <2>2, <2>3, RemoveIfThereFrees
  <2>5. PICK rest : rest = RemoveIfThere(skipped, header - HeaderSize)
    OBVIOUS
  <2>6. /\ rest \in Buffers(Byte) /\ rest.data = rb.data
        /\ \A i \in Positions : Used(rest, i) => Used(rb, i)
    BY <2>2, <2>4, <2>5, RemoveIfThereFrees
  <2>7. PICK head, body : /\ head = PeekIfThere(rb, HeaderSize)
                          /\ body = PeekIfThere(skipped, header - HeaderSize)
    OBVIOUS
  <2>8. head \in Seq(Byte) /\ body \in Seq(Byte)
    BY <1>1, <2>2, <2>4, <2>7, PeekIfThereType
  <2>9. \/ UNCHANGED <<rb, jobs>>
        \/ jobs' = Append(jobs, head \o body) /\ rb' = rest
    BY <1>4, <2>3, <2>5, <2>7 DEF ReadPacket
  <2>10. jobs' \in Seq(Seq(Byte))
    <3>1. head \o body \in Seq(Byte)
      BY <2>8
    <3>2. PICK job \in Seq(Byte) : job = head \o body
      BY <3>1
    <3>3. Append(jobs, job) \in Seq(Seq(Byte))
      BY <1>1
    <3> QED  BY <1>1, <2>9, <3>2, <3>3
  <2>11. /\ rb' \in Buffers(Byte) /\ rb'.data = rb.data
         /\ \A i \in Positions : Used(rb', i) => Used(rb, i)
    BY <1>1, <2>6, <2>9
  <2>12. TypeOK'
    BY <2>1, <2>10, <2>11 DEF TypeOK
  <2>13. recvLen = 0 /\ received = 0
    BY <2>1 DEF OneReceive
  <2>14. OneReceive' /\ ClearedBetween'
    BY <2>1, <2>13 DEF OneReceive, ClearedBetween
  <2>15. ReceiveFits'
    <3>1. ContinuousFreeSize(rb') \in 0 .. Capacity
      BY <2>11, ContinuousFreeSizeBounds
    <3>2. 0 <= ContinuousFreeSize(rb')
      BY <3>1, BufferSizeAssumption DEF Capacity
    <3> QED  BY <2>1, <2>13, <3>2 DEF ReceiveFits
  <2>16. BytesAreOwn'
    <3>1. \A i \in Positions : ~ Filled(rb', 0, i)
      BY <2>11, BufferSizeAssumption DEF Filled, Buffers, Positions
    <3> QED  BY <2>1, <2>11, <2>13, <3>1 DEF BytesAreOwn
  <2> QED  BY <2>1, <2>12, <2>14, <2>15, <2>16
<1> QED  BY <1>2, <1>3, <1>4

\* The next WSARecv has room, whatever place the positions are at.
LEMMA RegisterRecvReceives ==
    ASSUME ReceiveIInv, RegisterRecv
    PROVE  ReceiveIInv'
<1> USE DEF ReceiveIInv
<1>1. /\ pc = "register" /\ ~ BufferFull /\ socket = "connected"
      /\ recvLen' = ContinuousFreeSize(rb) /\ pc' = "idle"
      /\ UNCHANGED <<rb, conn, socket, peer, sizes, wire, received, dataSize,
                     header, jobs>>
  BY DEF RegisterRecv, client, locals
<1>2. rb \in Buffers(Byte)
  BY DEF TypeOK
<1>3. /\ ContinuousFreeSize(rb) \in 0 .. Capacity
      /\ ContinuousFreeSize(rb) = 0 => FreeSize(rb) = 0
  BY <1>2, ContinuousFreeSizeBounds
<1>4. ContinuousFreeSize(rb) > 0
  BY <1>1, <1>3, RecvPathAssumption, BufferSizeAssumption DEF BufferFull, Capacity
<1>5. TypeOK'
  BY <1>1, <1>3 DEF TypeOK
<1>6. received = 0
  BY <1>1 DEF OneReceive
<1>7. OneReceive'
  BY <1>1, <1>4, <1>6, <1>3 DEF OneReceive
<1>8. ClearedBetween' /\ BytesAreOwn'
  BY <1>1 DEF ClearedBetween, BytesAreOwn
<1>9. ReceiveFits'
  BY <1>1, <1>3, <1>4, <1>6, BufferSizeAssumption DEF ReceiveFits, Capacity
<1> QED  BY <1>1, <1>5, <1>7, <1>8, <1>9

LEMMA ClearingReceives ==
    ASSUME ReceiveIInv, RecvEnds \/ RegisterRecvFails \/ SendFailure
    PROVE  ReceiveIInv'
<1>1. /\ ClearSession
      /\ UNCHANGED <<conn, peer, sizes, wire, received, dataSize, header, jobs>>
      /\ recvLen' \in {0, recvLen}
      /\ pc' \in {pc, "idle"}
  BY DEF RecvEnds, RegisterRecvFails, SendFailure, client, locals
<1>2. header' \in PacketSizes \cup {0}
  BY <1>1 DEF ReceiveIInv, TypeOK
<1> QED  BY <1>1, <1>2, ClearKeepsReceiving

LEMMA ReceiveHolds == Spec => []ReceiveIInv
<1>1. Init => ReceiveIInv
  <2> SUFFICES ASSUME Init PROVE ReceiveIInv
    OBVIOUS
  <2>1. NoByte \in Byte
    BY DEF Byte
  <2>2. rb \in Buffers(Byte) /\ rb.readPos = 0 /\ rb.writePos = 0
    <3>1. rb = NewBuffer(NoByte)
      BY DEF Init
    <3>2. NewBuffer(NoByte) \in Buffers(Byte)
      BY <2>1, BufferSizeAssumption DEF NewBuffer, Buffers, Positions
    <3>3. NewBuffer(NoByte).readPos = 0 /\ NewBuffer(NoByte).writePos = 0
      BY DEF NewBuffer
    <3> QED  BY <3>1, <3>2, <3>3
  <2>3. /\ MaxConns \in Nat /\ MaxPackets \in Nat /\ Capacity \in Nat
        /\ BufferSize \in Nat
    BY RecvPathAssumption, BufferSizeAssumption DEF Capacity
  <2>4. TypeOK
    BY <2>2, <2>3 DEF Init, TypeOK
  <2>5. Len(sizes) <= MaxPackets
    BY <2>3 DEF Init
  <2> QED  BY <2>2, <2>4, <2>5
           DEF Init, ReceiveIInv, OneReceive, ClearedBetween, ReceiveFits,
               BytesAreOwn
<1>2. ReceiveIInv /\ [Next]_vars => ReceiveIInv'
  <2> SUFFICES ASSUME ReceiveIInv, [Next]_vars PROVE ReceiveIInv'
    OBVIOUS
  <2>1. CASE UNCHANGED vars
    <3>1. UNCHANGED <<rb, conn, socket, peer, sizes, wire, recvLen, received, pc,
                      dataSize, header, jobs>>
      BY <2>1 DEF vars
    <3>2. TypeOK'
      BY <3>1 DEF ReceiveIInv, TypeOK
    <3> QED  BY <3>1, <3>2 DEF ReceiveIInv, OneReceive, ClearedBetween, ReceiveFits,
                         BytesAreOwn, ValidSize
  <2>2. CASE (\E size \in PacketSizes : ClientSend(size))
             \/ ClientFinish \/ ClientReset
    BY <2>2, ClientSteps
  <2>3. ASSUME NEW n \in 1 .. Window, KernelRecv(n)
        PROVE  ReceiveIInv'
    BY <2>3, KernelFills
  <2>4. CASE Accept
    BY <2>4, AcceptReceives
  <2>5. CASE OnRecv
    BY <2>5, OnRecvTakes
  <2>6. CASE MeasureData \/ PeekHeader \/ ReadPacket
    BY <2>6, ParserSteps
  <2>7. CASE RegisterRecv
    BY <2>7, RegisterRecvReceives
  <2>8. CASE RecvEnds \/ RegisterRecvFails \/ SendFailure
    BY <2>8, ClearingReceives
  <2> QED  BY <2>1, <2>2, <2>3, <2>4, <2>5, <2>6, <2>7, <2>8 DEF Next
<1> QED  BY <1>1, <1>2, PTL DEF Spec

\* The types, for every size of the buffer, of a header and of a packet: the
\* positions stay in the array also when another worker's Clear comes between
\* the steps of OnRecv and ProcessPackets.
THEOREM ReceiveTypeCorrect == Spec => []TypeOK
<1>1. ReceiveIInv => TypeOK
  BY DEF ReceiveIInv
<1> QED  BY <1>1, ReceiveHolds, PTL

\* A connected session waits for bytes or is in its handler: RegisterRecv
\* never posts a WSARecv of length 0, however the buffer is filled.
THEOREM ReceiveAlwaysPosted == Spec => []RecvPostedWhileConnected
<1>1. ReceiveIInv => RecvPostedWhileConnected
  <2> SUFFICES ASSUME ReceiveIInv, socket = "connected"
               PROVE  pc = "idle" <=> recvLen + received > 0
    BY DEF RecvPostedWhileConnected
  <2>1. CASE pc = "idle"
    BY <2>1 DEF ReceiveIInv, OneReceive
  <2>2. CASE pc # "idle"
    BY <2>2 DEF ReceiveIInv, OneReceive
  <2> QED  BY <2>1, <2>2
<1> QED  BY <1>1, ReceiveHolds, PTL

\* Nothing that one client sent is read as another's: Session::Clear empties
\* the buffer, and a handler that goes on after it does not fill it again
\* before the next connection.
THEOREM BufferOfOneConnection == Spec => []BufferIsOfThisConnection
<1>1. ReceiveIInv => BufferIsOfThisConnection
  <2> SUFFICES ASSUME ReceiveIInv, socket = "connected",
                      NEW k \in DOMAIN Contents(rb)
               PROVE  Contents(rb)[k].conn = conn
    BY DEF BufferIsOfThisConnection
  <2>1. rb \in Buffers(Byte)
    BY DEF ReceiveIInv, TypeOK
  <2>2. /\ rb.readPos \in 0 .. BufferSize /\ rb.writePos \in 0 .. BufferSize
        /\ UseSize(rb) \in 0 .. BufferSize
    BY <2>1, SizesAddUp DEF Buffers, Positions
  <2>3. PICK i : i = IF k <= Capacity - rb.readPos THEN rb.readPos + k - 1
                                          ELSE k - (Capacity - rb.readPos) - 1
    OBVIOUS
  <2>4. k \in 1 .. UseSize(rb) /\ Contents(rb)[k] = rb.data[i]
    BY <2>3 DEF Contents, Peek
  <2>5. i \in Positions /\ Used(rb, i)
    BY <2>2, <2>3, <2>4, BufferSizeAssumption
    DEF Used, Positions, UseSize, Capacity
  <2> QED  BY <2>4, <2>5 DEF ReceiveIInv, BytesAreOwn
<1> QED  BY <1>1, ReceiveHolds, PTL

-----------------------------------------------------------------------------
\* The order of the bytes on a connection.

\* A nonempty set of natural numbers has a least one.
LEMMA LeastOf ==
    ASSUME NEW S \in SUBSET Nat, S # {}
    PROVE  \E m \in S : \A n \in S : m <= n
<1> DEFINE Less == {ss \in Nat \X Nat : ss[1] < ss[2]}
<1>1. IsWellFoundedOn(Less, Nat)
  BY NatLessThanWellFounded DEF OpToRel
<1> HIDE DEF Less
<1>2. PICK m \in S : \A n \in S : ~ (<<n, m>> \in Less)
  BY <1>1, WFMin
<1>3. \A n \in S : ~ (n < m)
  BY <1>2 DEF Less
<1> QED  BY <1>2, <1>3

\* What is left of a sequence without its first n elements.
LEMMA WithoutFirst ==
    ASSUME NEW T, NEW s \in Seq(T), NEW n \in 0 .. Len(s)
    PROVE  /\ SubSeq(s, n + 1, Len(s)) \in Seq(T)
           /\ Len(SubSeq(s, n + 1, Len(s))) = Len(s) - n
           /\ \A i \in 1 .. Len(s) - n : SubSeq(s, n + 1, Len(s))[i] = s[i + n]
<1>1. PICK l \in Nat, m \in Nat : l = Len(s) /\ m = n + 1
  OBVIOUS
<1>2. n \in Nat /\ n <= l /\ \A i \in 1 .. l - n : m + i - 1 = i + n /\ i + n \in 1 .. l
  BY <1>1
<1>3. SubSeq(s, m, l) = [i \in 1 .. l - n |-> s[i + n]]
  BY <1>1, <1>2
<1>4. PICK f : f = [i \in 1 .. l - n |-> s[i + n]]
  OBVIOUS
<1>5. f \in [1 .. l - n -> T]
  BY <1>1, <1>2, <1>4
<1>6. l - n \in Nat
  BY <1>1, <1>2
<1>7. f \in Seq(T) /\ Len(f) = l - n
  BY <1>5, <1>6
<1> QED  BY <1>1, <1>3, <1>4, <1>7

LEMMA FirstPart ==
    ASSUME NEW T, NEW s \in Seq(T), NEW t \in Seq(T)
    PROVE  SubSeq(s \o t, 1, Len(s)) = s
<1>0. PICK n, st : n = Len(s) /\ st = s \o t
  OBVIOUS
<1>1. n \in Nat /\ st \in Seq(T) /\ n <= Len(st) /\ n = Len(s) /\ st = s \o t
  <2>1. st \in Seq(T) /\ Len(st) = Len(s) + Len(t)
    BY <1>0, ConcatProperties
  <2> QED  BY <1>0, <2>1
<1>2. \A i \in 1 .. n : st[i] = s[i]
  BY <1>1
<1>3. PICK f : f = SubSeq(st, 1, n)
  OBVIOUS
<1>4. f \in Seq(T) /\ Len(f) = n /\ \A i \in 1 .. n : f[i] = st[i]
  BY <1>1, <1>3
<1>5. f = s
  BY <1>1, <1>2, <1>4
<1> QED  BY <1>1, <1>3, <1>5

\* A run of the bytes sent, from the first byte of packet p on.
IsSent(b) ==
    /\ b.conn = conn /\ b.pkt \in DOMAIN sizes
    /\ b.off \in 1 .. PacketLen(sizes[b.pkt])

InOrder(s, p) ==
    /\ s \in Seq(Byte)
    /\ \A i \in 1 .. Len(s) : IsSent(s[i])
    /\ \A i \in 1 .. Len(s) - 1 : s[i + 1] = After(s[i])
    /\ s # << >> => s[1] = FirstOf(p)

\* It ends with the last byte sent.
Ends(s, p) ==
    IF s = << >> THEN p = Len(sizes) + 1
                 ELSE p <= Len(sizes) /\ s[Len(s)] = LastOf(Len(sizes))

\* Whatever a header says, its packet is at least a header long.
LEMMA PacketLengths ==
    ASSUME NEW size \in Nat
    PROVE  PacketLen(size) \in Nat /\ PacketLen(size) >= HeaderSize
BY RecvPathAssumption DEF PacketLen, ValidSize

LEMMA SentPacket ==
    ASSUME sizes \in Seq(PacketSizes), NEW p \in DOMAIN sizes
    PROVE  /\ p \in Nat \ {0} /\ p <= Len(sizes) /\ sizes[p] \in Nat
           /\ PacketLen(sizes[p]) \in Nat /\ PacketLen(sizes[p]) >= HeaderSize
<1>1. p \in 1 .. Len(sizes) /\ Len(sizes) \in Nat /\ sizes[p] \in PacketSizes
  OBVIOUS
<1>2. p \in Nat \ {0} /\ p <= Len(sizes)
  BY <1>1
<1>3. sizes[p] \in Nat
  BY <1>1, RecvPathAssumption
<1>4. PacketLen(sizes[p]) \in Nat /\ PacketLen(sizes[p]) >= HeaderSize
  BY <1>3, PacketLengths
<1> QED  BY <1>2, <1>3, <1>4

\* The run begins with the bytes of packet p, as far as it goes.
LEMMA PacketFirst ==
    ASSUME sizes \in Seq(PacketSizes), NEW s, NEW p \in Nat, InOrder(s, p), s # << >>
    PROVE  /\ p \in DOMAIN sizes
           /\ \A i \in 1 .. Len(s) : i <= PacketLen(sizes[p]) =>
                 s[i] = [conn |-> conn, pkt |-> p, off |-> i]
<1>1. Len(s) \in Nat /\ 1 \in 1 .. Len(s) /\ s[1] = FirstOf(p)
  BY DEF InOrder
<1>2. p \in DOMAIN sizes
  BY <1>1 DEF InOrder, IsSent, FirstOf
<1> DEFINE n == PacketLen(sizes[p])
           Wrong == {i \in 1 .. Len(s) : i <= n /\ s[i] # [conn |-> conn, pkt |-> p, off |-> i]}
<1>3. n \in Nat
  BY <1>2, SentPacket
<1>4. Wrong = {}
  <2> SUFFICES ASSUME Wrong # {} PROVE FALSE
    OBVIOUS
  <2>1. PICK m \in Wrong : \A i \in Wrong : m <= i
    <3>1. Wrong \in SUBSET Nat
      BY <1>1
    <3> HIDE DEF Wrong
    <3> QED  BY <3>1, LeastOf
  <2>2. m \in 1 .. Len(s) /\ m <= n /\ s[m] # [conn |-> conn, pkt |-> p, off |-> m]
    OBVIOUS
  <2>3. m # 1
    BY <1>1, <2>2 DEF FirstOf
  <2>4. m - 1 \in 1 .. Len(s) - 1 /\ m - 1 \in 1 .. Len(s) /\ m - 1 <= n
    BY <1>1, <1>3, <2>2, <2>3
  <2>5. s[m - 1] = [conn |-> conn, pkt |-> p, off |-> m - 1]
    <3>1. m - 1 \notin Wrong
      <4> HIDE DEF Wrong
      <4> QED  BY <1>1, <2>1, <2>2, <2>4
    <3> QED  BY <2>4, <3>1
  <2>6. s[(m - 1) + 1] = After(s[m - 1])
    BY <2>4 DEF InOrder
  <2>7. (m - 1) + 1 = m /\ m - 1 < n
    BY <1>1, <1>3, <2>2
  <2>8. After(s[m - 1]) = [s[m - 1] EXCEPT !.off = m]
    BY <2>5, <2>7 DEF After
  <2> QED  BY <2>2, <2>5, <2>6, <2>7, <2>8
<1> QED  BY <1>2, <1>4

\* A run that ends and is not empty holds all of packet p.
LEMMA PacketWhole ==
    ASSUME sizes \in Seq(PacketSizes), NEW s, NEW p \in Nat, InOrder(s, p), Ends(s, p),
           s # << >>
    PROVE  PacketLen(sizes[p]) <= Len(s)
<1>1. /\ p \in DOMAIN sizes
      /\ \A i \in 1 .. Len(s) : i <= PacketLen(sizes[p]) =>
            s[i] = [conn |-> conn, pkt |-> p, off |-> i]
  BY PacketFirst
<1>2. /\ Len(s) \in Nat /\ Len(s) \in 1 .. Len(s)
      /\ s[Len(s)] = LastOf(Len(sizes))
  BY DEF InOrder, Ends
<1>3. PacketLen(sizes[p]) \in Nat
  BY <1>1, SentPacket
<1>4. ASSUME Len(s) < PacketLen(sizes[p])
      PROVE  FALSE
  <2>0. Len(s) <= PacketLen(sizes[p])
    BY <1>2, <1>3, <1>4
  <2>1. s[Len(s)] = [conn |-> conn, pkt |-> p, off |-> Len(s)]
    BY <1>1, <1>2, <2>0
  <2>2. p = Len(sizes) /\ Len(s) = PacketLen(sizes[Len(sizes)])
    BY <1>2, <2>1 DEF LastOf
  <2> QED  BY <1>2, <1>4, <2>2
<1> QED  BY <1>2, <1>3, <1>4

\* Without packet p, it begins with the next.
LEMMA PacketTaken ==
    ASSUME sizes \in Seq(PacketSizes), NEW s, NEW p \in Nat, InOrder(s, p), s # << >>,
           PacketLen(sizes[p]) <= Len(s),
           NEW rest, rest = SubSeq(s, PacketLen(sizes[p]) + 1, Len(s))
    PROVE  InOrder(rest, p + 1) /\ (Ends(s, p) => Ends(rest, p + 1))
<1> DEFINE n == PacketLen(sizes[p])
<1>1. /\ p \in DOMAIN sizes
      /\ \A i \in 1 .. Len(s) : i <= n => s[i] = [conn |-> conn, pkt |-> p, off |-> i]
  BY PacketFirst
<1>2. n \in Nat /\ n >= HeaderSize /\ HeaderSize \in Nat \ {0} /\ n <= Len(s)
  BY <1>1, SentPacket, RecvPathAssumption
<1>3. s \in Seq(Byte) /\ Len(s) \in Nat
  BY DEF InOrder
<1> HIDE DEF n
<1>4. /\ rest \in Seq(Byte) /\ Len(rest) = Len(s) - n
      /\ \A i \in 1 .. Len(rest) : rest[i] = s[i + n] /\ i + n \in 1 .. Len(s)
  <2>1. rest = SubSeq(s, n + 1, Len(s))
    BY DEF n
  <2>2. /\ rest \in Seq(Byte) /\ Len(rest) = Len(s) - n
        /\ \A i \in 1 .. Len(s) - n : rest[i] = s[i + n]
    <3>1. n \in 0 .. Len(s)
      BY <1>2, <1>3
    <3> QED  BY <1>3, <2>1, <3>1, WithoutFirst
  <2>3. \A i \in 1 .. Len(s) - n : i + n \in 1 .. Len(s)
    BY <1>2, <1>3
  <2> QED  BY <2>2, <2>3
<1>5. \A i \in 1 .. Len(rest) - 1 : rest[i + 1] = After(rest[i])
  <2> SUFFICES ASSUME NEW i \in 1 .. Len(rest) - 1
               PROVE  rest[i + 1] = After(rest[i])
    OBVIOUS
  <2>1. /\ i \in 1 .. Len(rest) /\ i + 1 \in 1 .. Len(rest)
        /\ i + n \in 1 .. Len(s) - 1 /\ (i + n) + 1 = (i + 1) + n
    BY <1>2, <1>3, <1>4
  <2> QED  BY <1>4, <2>1 DEF InOrder
<1>6. s[n] = [conn |-> conn, pkt |-> p, off |-> n] /\ n \in 1 .. Len(s)
  BY <1>1, <1>2, <1>3
<1>7. ASSUME rest # << >>
      PROVE  rest[1] = FirstOf(p + 1)
  <2>1. 1 \in 1 .. Len(rest) /\ n \in 1 .. Len(s) - 1
    BY <1>2, <1>3, <1>4, <1>7
  <2>2. rest[1] = s[n + 1] /\ s[n + 1] = After(s[n])
    BY <1>2, <1>4, <2>1 DEF InOrder
  <2>3. After(s[n]) = FirstOf(p + 1)
    BY <1>2, <1>6 DEF After, n
  <2> QED  BY <2>2, <2>3
<1>8. InOrder(rest, p + 1)
  BY <1>4, <1>5, <1>7 DEF InOrder
<1>9. rest \in Seq(Byte) /\ Len(rest) = Len(s) - n
  BY <1>4
<1>10. ASSUME Ends(s, p)
      PROVE  Ends(rest, p + 1)
  <2>1. p <= Len(sizes) /\ s[Len(s)] = LastOf(Len(sizes)) /\ Len(sizes) \in Nat
    BY <1>10 DEF Ends
  <2>2. CASE rest = << >>
    <3>1. Len(s) = n
      <4>1. Len(rest) = 0
        BY <1>9, <2>2, EmptySeq
      <4> QED  BY <1>2, <1>3, <1>9, <4>1
    <3>2. p = Len(sizes)
      BY <1>6, <2>1, <3>1 DEF LastOf
    <3> QED  BY <2>2, <3>2 DEF Ends
  <2>3. CASE rest # << >>
    <3>1. Len(rest) \in 1 .. Len(rest) /\ 1 \in 1 .. Len(rest)
      BY <1>9, <2>3
    <3>2. rest[Len(rest)] = s[Len(s)]
      <4>1. rest[Len(rest)] = s[Len(rest) + n]
        BY <1>4, <3>1
      <4>2. Len(rest) + n = Len(s)
        BY <1>2, <1>3, <1>9
      <4> QED  BY <4>1, <4>2
    <3>3. IsSent(FirstOf(p + 1))
      BY <1>7, <1>8, <2>3, <3>1 DEF InOrder
    <3>4. p + 1 \in DOMAIN sizes
      BY <3>3 DEF IsSent, FirstOf
    <3>5. p + 1 <= Len(sizes)
      BY <3>4
    <3> QED  BY <2>1, <2>3, <3>2, <3>5 DEF Ends
  <2> QED  BY <2>2, <2>3
<1> QED  BY <1>8, <1>10

\* Part of a run, from its start.
LEMMA OrderOfPart ==
    ASSUME NEW s, NEW p \in Nat, InOrder(s, p), NEW n \in 0 .. Len(s)
    PROVE  InOrder(SubSeq(s, 1, n), p)
<1>1. s \in Seq(Byte) /\ Len(s) \in Nat
  BY DEF InOrder
<1>2. PICK part : part = SubSeq(s, 1, n)
  OBVIOUS
<1>3. /\ part \in Seq(Byte) /\ Len(part) = n
      /\ \A i \in 1 .. n : part[i] = s[i] /\ i \in 1 .. Len(s)
  BY <1>1, <1>2
<1>4. \A i \in 1 .. n - 1 : i \in 1 .. n /\ i + 1 \in 1 .. n /\ i \in 1 .. Len(s) - 1
  BY <1>1
<1>5. part # << >> => s # << >> /\ 1 \in 1 .. n
  BY <1>1, <1>3
<1> QED  BY <1>2, <1>3, <1>4, <1>5 DEF InOrder

\* A run is one also when nothing of the connection changes.
LEMMA OrderStays ==
    ASSUME UNCHANGED <<conn, sizes>>, NEW s, NEW p
    PROVE  (InOrder(s, p) => InOrder(s, p)') /\ (Ends(s, p) => Ends(s, p)')
BY DEF InOrder, Ends, IsSent, After, FirstOf, LastOf

\* A packet that is sent makes the run longer.
LEMMA PacketAdded ==
    ASSUME sizes \in Seq(PacketSizes), conn \in 1 .. MaxConns, Len(sizes) < MaxPackets,
           NEW size \in PacketSizes, sizes' = Append(sizes, size), conn' = conn,
           NEW s, NEW p \in Nat, InOrder(s, p), Ends(s, p),
           NEW t, t = s \o PacketBytes(conn, Len(sizes) + 1, size)
    PROVE  InOrder(t, p)' /\ Ends(t, p)'
<1>1. PICK m, bytes : /\ m = PacketLen(size) /\ m \in Nat
                      /\ bytes = PacketBytes(conn, Len(sizes) + 1, size)
  <2>1. PacketLen(size) \in Nat
    BY PacketLengths, RecvPathAssumption
  <2> QED  BY <2>1
<1>2. /\ Len(sizes) \in Nat /\ Len(sizes) + 1 \in 1 .. MaxPackets /\ size \in Nat
      /\ m \in Nat /\ m >= 1
  <2>1. Len(sizes) \in Nat /\ MaxPackets \in Nat /\ size \in Nat
    BY RecvPathAssumption
  <2>2. m >= 1
    BY <1>1, <2>1, PacketLengths, RecvPathAssumption
  <2> QED  BY <1>1, <2>1, <2>2
<1>3. /\ bytes \in Seq(Byte) /\ Len(bytes) = m
      /\ \A i \in 1 .. m : bytes[i] = [conn |-> conn, pkt |-> Len(sizes) + 1, off |-> i]
  <2>1. PacketBytes(conn, Len(sizes) + 1, size) \in Seq(Byte)
    <3>1. PICK q \in 1 .. MaxPackets : q = Len(sizes) + 1
      BY <1>2
    <3>2. PacketBytes(conn, q, size) \in Seq(Byte)
      BY <1>2, PacketBytesType
    <3> QED  BY <3>1, <3>2
  <2>2. bytes = [i \in 1 .. m |-> [conn |-> conn, pkt |-> Len(sizes) + 1, off |-> i]]
    BY <1>1 DEF PacketBytes
  <2> QED  BY <1>1, <2>1, <2>2
<1>4. s \in Seq(Byte) /\ Len(s) \in Nat
  BY DEF InOrder
<1>5. /\ t \in Seq(Byte) /\ Len(t) = Len(s) + m
      /\ \A i \in 1 .. Len(s) : t[i] = s[i]
      /\ \A i \in Len(s) + 1 .. Len(s) + m :
            /\ i - Len(s) \in 1 .. m
            /\ t[i] = [conn |-> conn, pkt |-> Len(sizes) + 1, off |-> i - Len(s)]
  <2>1. t = s \o bytes
    BY <1>1
  <2>2. /\ t \in Seq(Byte) /\ Len(t) = Len(s) + m
        /\ \A i \in 1 .. Len(s) : t[i] = s[i]
        /\ \A i \in Len(s) + 1 .. Len(s) + m : t[i] = bytes[i - Len(s)]
    <3>0. s \in Seq(Byte) /\ bytes \in Seq(Byte)
      BY <1>3, <1>4
    <3>1. t \in Seq(Byte) /\ Len(t) = Len(s) + Len(bytes)
      BY <2>1, <3>0, ConcatProperties
    <3>2. \A i \in 1 .. Len(s) + Len(bytes) :
             t[i] = IF i <= Len(s) THEN s[i] ELSE bytes[i - Len(s)]
      BY <2>1, <3>0, ConcatProperties
    <3>3. \A i \in Len(s) + 1 .. Len(s) + m : i \in 1 .. Len(s) + m /\ ~ (i <= Len(s))
      BY <1>2, <1>4
    <3>4. \A i \in 1 .. Len(s) : i \in 1 .. Len(s) + m /\ i <= Len(s)
      BY <1>2, <1>4
    <3> QED  BY <1>3, <3>1, <3>2, <3>3, <3>4
  <2>3. \A i \in Len(s) + 1 .. Len(s) + m : i - Len(s) \in 1 .. m
    BY <1>2, <1>4
  <2> QED  BY <1>3, <2>2, <2>3
<1>6. /\ DOMAIN sizes' = 1 .. Len(sizes) + 1 /\ Len(sizes') = Len(sizes) + 1
      /\ sizes'[Len(sizes) + 1] = size
      /\ \A q \in DOMAIN sizes : q \in DOMAIN sizes' /\ sizes'[q] = sizes[q]
  BY <1>2
<1>7. \A q : FirstOf(q)' = FirstOf(q)
  BY DEF FirstOf
<1>8. \A i \in 1 .. Len(s) : IsSent(s[i]) /\ IsSent(s[i])' /\ After(s[i])' = After(s[i])
  BY <1>6, <1>7 DEF InOrder, IsSent, After
<1>9. ASSUME NEW i \in 1 .. Len(t)
      PROVE  IsSent(t[i])'
  <2>1. CASE i <= Len(s)
    BY <1>4, <1>5, <1>8, <2>1
  <2>2. CASE i > Len(s)
    <3>1. /\ i - Len(s) \in 1 .. m
          /\ t[i] = [conn |-> conn, pkt |-> Len(sizes) + 1, off |-> i - Len(s)]
      BY <1>4, <1>5, <2>2
    <3> QED  BY <1>1, <1>2, <1>6, <3>1 DEF IsSent
  <2> QED  BY <1>4, <1>5, <2>1, <2>2
<1>10. t[Len(s) + 1] = FirstOf(Len(sizes) + 1)
  <2>1. Len(s) + 1 \in Len(s) + 1 .. Len(s) + m /\ (Len(s) + 1) - Len(s) = 1
    BY <1>2, <1>4
  <2> QED  BY <1>5, <2>1 DEF FirstOf
<1>11. ASSUME NEW i \in 1 .. Len(t) - 1
       PROVE  t[i + 1] = After(t[i])'
  <2>1. CASE i < Len(s)
    <3>1. i \in 1 .. Len(s) - 1 /\ i \in 1 .. Len(s) /\ i + 1 \in 1 .. Len(s)
      BY <1>4, <2>1
    <3> QED  BY <1>5, <1>8, <3>1 DEF InOrder
  <2>2. CASE i = Len(s)
    <3>1. s # << >> /\ Len(s) \in 1 .. Len(s)
      BY <1>4, <2>2
    <3>2. s[Len(s)] = LastOf(Len(sizes)) /\ Len(sizes) \in DOMAIN sizes
      <4>1. s[Len(s)] = LastOf(Len(sizes)) /\ IsSent(s[Len(s)])
        BY <3>1 DEF Ends, InOrder
      <4> QED  BY <4>1 DEF IsSent, LastOf
    <3>3. After(s[Len(s)]) = FirstOf(Len(sizes) + 1)
      <4>1. PacketLen(sizes[Len(sizes)]) \in Nat
        BY <3>2, SentPacket
      <4> QED  BY <3>2, <4>1 DEF After, LastOf
    <3> QED  BY <1>5, <1>8, <1>10, <2>2, <3>1, <3>3
  <2>3. CASE i > Len(s)
    <3>1. /\ i \in Len(s) + 1 .. Len(s) + m /\ i + 1 \in Len(s) + 1 .. Len(s) + m
          /\ i - Len(s) < m /\ (i + 1) - Len(s) = (i - Len(s)) + 1
      BY <1>2, <1>4, <1>5, <2>3
    <3>2. /\ t[i] = [conn |-> conn, pkt |-> Len(sizes) + 1, off |-> i - Len(s)]
          /\ t[i + 1] = [conn |-> conn, pkt |-> Len(sizes) + 1, off |-> (i - Len(s)) + 1]
      BY <1>5, <3>1
    <3>3. PICK x : x = t[i]
      OBVIOUS
    <3>4. /\ x = [conn |-> conn, pkt |-> Len(sizes) + 1, off |-> i - Len(s)]
          /\ PacketLen(sizes'[x.pkt]) = m
      BY <1>1, <1>6, <3>2, <3>3
    <3>5. After(x)' = [x EXCEPT !.off = x.off + 1]
      BY <3>1, <3>4 DEF After
    <3>6. [x EXCEPT !.off = x.off + 1] = t[i + 1]
      <4>1. PICK j \in Nat : j = i - Len(s)
        <5>1. i - Len(s) \in Nat
          BY <1>2, <1>4, <1>5, <2>3
        <5> QED  BY <5>1
      <4>2. /\ x = [conn |-> conn, pkt |-> Len(sizes) + 1, off |-> j]
            /\ t[i + 1] = [conn |-> conn, pkt |-> Len(sizes) + 1, off |-> j + 1]
        BY <3>2, <3>4, <4>1
      <4> QED  BY <4>2
    <3> QED  BY <3>3, <3>5, <3>6
  <2> QED  BY <1>4, <1>5, <2>1, <2>2, <2>3
<1>12. t[1] = FirstOf(p)
  <2>1. CASE s = << >>
    <3>1. p = Len(sizes) + 1 /\ Len(s) = 0 /\ 1 = Len(s) + 1
      BY <2>1 DEF Ends
    <3> QED  BY <1>10, <3>1
  <2>2. CASE s # << >>
    <3>1. 1 \in 1 .. Len(s)
      BY <1>4, <2>2
    <3> QED  BY <1>5, <2>2, <3>1 DEF InOrder
  <2> QED  BY <2>1, <2>2
<1>13. InOrder(t, p)'
  BY <1>5, <1>7, <1>9, <1>11, <1>12 DEF InOrder
<1>14. /\ t # << >> /\ p <= Len(sizes) + 1
       /\ t[Len(t)] = [conn |-> conn, pkt |-> Len(sizes) + 1, off |-> m]
  <2>1. t # << >> /\ p <= Len(sizes) + 1
    BY <1>1, <1>2, <1>4, <1>5 DEF Ends
  <2>2. Len(t) \in Len(s) + 1 .. Len(s) + m /\ Len(t) - Len(s) = m
    BY <1>2, <1>4, <1>5
  <2> QED  BY <1>5, <2>1, <2>2
<1>15. Ends(t, p)'
  BY <1>1, <1>6, <1>14 DEF Ends, LastOf
<1> QED  BY <1>13, <1>15

-----------------------------------------------------------------------------
\* The bytes left: those in the buffer, then those of the completion that is
\* queued, then those on the wire.

LEMMA MoveKeeps ==
    ASSUME NEW Byt, NEW b \in Buffers(Byt), NEW n \in 0 .. FreeSize(b)
    PROVE  /\ Contents(MoveWritePos(b, n)) \in Seq(Byt)
           /\ Len(Contents(MoveWritePos(b, n))) = UseSize(b) + n
           /\ \A k \in 1 .. UseSize(b) :
                 Contents(MoveWritePos(b, n))[k] = Contents(b)[k]
           /\ n = 0 => Contents(MoveWritePos(b, n)) = Contents(b)
<1>1. PICK c : c = MoveWritePos(b, n)
  OBVIOUS
<1>2. c \in Buffers(Byt) /\ UseSize(c) = UseSize(b) + n
  BY <1>1, MoveWritePosGrows
<1>3. UseSize(b) \in Nat /\ n \in Nat
  BY SizesAddUp
<1>4. c.data = b.data /\ c.readPos = b.readPos
  BY <1>1 DEF MoveWritePos, Buffers
<1>5. Contents(c) \in Seq(Byt) /\ Len(Contents(c)) = UseSize(b) + n
  <2>1. 0 \in 0 .. UseSize(c)
    BY <1>2, <1>3
  <2> QED  BY <1>2, <2>1, PeekType
<1>6. \A k \in 1 .. UseSize(b) : Contents(c)[k] = Contents(b)[k]
  <2> SUFFICES ASSUME NEW k \in 1 .. UseSize(b)
               PROVE  Contents(c)[k] = Contents(b)[k]
    OBVIOUS
  <2>1. k \in 1 .. UseSize(c)
    BY <1>2, <1>3
  <2> QED  BY <1>4, <2>1 DEF Contents, Peek
<1>7. n = 0 => Contents(c) = Contents(b)
  BY <1>2, <1>3, <1>4 DEF Contents, Peek
<1> QED  BY <1>1, <1>5, <1>6, <1>7

LEMMA LeftIs ==
    ASSUME rb \in Buffers(Byte), wire \in Seq(Byte), received \in 0 .. FreeSize(rb)
    PROVE  /\ Left \in Seq(Byte)
           /\ UseSize(rb) \in Nat /\ Len(Left) = UseSize(rb) + received + Len(wire)
           /\ \A i \in 1 .. UseSize(rb) : Left[i] = Contents(rb)[i]
           /\ Contents(rb) \in Seq(Byte) /\ Len(Contents(rb)) = UseSize(rb)
           /\ received = 0 => Left = Contents(rb) \o wire
<1>1. PICK c : c = Contents(MoveWritePos(rb, received))
  OBVIOUS
<1>2. /\ c \in Seq(Byte) /\ Len(c) = UseSize(rb) + received
      /\ \A k \in 1 .. UseSize(rb) : c[k] = Contents(rb)[k]
      /\ received = 0 => c = Contents(rb)
  BY <1>1, MoveKeeps
<1>3. UseSize(rb) \in Nat /\ received \in Nat /\ Len(wire) \in Nat
  BY SizesAddUp
<1>4. Contents(rb) \in Seq(Byte) /\ Len(Contents(rb)) = UseSize(rb)
  <2>1. 0 \in 0 .. UseSize(rb)
    BY <1>3
  <2> QED  BY <2>1, PeekType
<1>5. PICK left : left = c \o wire
  OBVIOUS
<1>6. /\ left \in Seq(Byte) /\ Len(left) = UseSize(rb) + received + Len(wire)
      /\ \A i \in 1 .. UseSize(rb) : left[i] = c[i]
  BY <1>2, <1>3, <1>5
<1>7. Left = left
  BY <1>1, <1>5 DEF Left
<1> QED  BY <1>2, <1>3, <1>4, <1>5, <1>6, <1>7

\* A packet read in two parts, its header first (ProcessPackets' two calls of
\* RingBuffer::Read), is what a single Read would have returned.
LEMMA ReadTwice ==
    ASSUME NEW Byt, NEW b \in Buffers(Byt), NEW n \in Nat, NEW h \in 0 .. n,
           n <= UseSize(b), NEW skipped, skipped = RemoveIfThere(b, h)
    PROVE  /\ PeekIfThere(b, h) \o PeekIfThere(skipped, n - h)
              = SubSeq(Contents(b), 1, n)
           /\ RemoveIfThere(skipped, n - h) \in Buffers(Byt)
           /\ Contents(RemoveIfThere(skipped, n - h))
              = SubSeq(Contents(b), n + 1, UseSize(b))
<1>1. PICK u, c : u = UseSize(b) /\ c = Contents(b)
  OBVIOUS
<1>2. u \in Nat /\ n <= u /\ h \in 0 .. u /\ n - h \in 0 .. u - h
  BY <1>1, SizesAddUp
<1>3. c \in Seq(Byt) /\ Len(c) = u
  BY <1>1, <1>2, PeekType
<1>4. PeekIfThere(b, h) = Peek(b, h) /\ skipped = Remove(b, h)
  BY <1>1, <1>2 DEF PeekIfThere, RemoveIfThere, CanRead
<1>5. PICK d : d = Contents(skipped)
  OBVIOUS
<1>6. /\ skipped \in Buffers(Byt) /\ UseSize(skipped) = u - h
      /\ Peek(b, h) = SubSeq(c, 1, h) /\ d = SubSeq(c, h + 1, u)
  BY <1>1, <1>2, <1>4, <1>5, ReadSplits, RemoveShrinks
<1>7. n - h \in 0 .. UseSize(skipped)
  BY <1>2, <1>6
<1>8. /\ PeekIfThere(skipped, n - h) = Peek(skipped, n - h)
      /\ RemoveIfThere(skipped, n - h) = Remove(skipped, n - h)
  BY <1>7, SizesAddUp, <1>6 DEF PeekIfThere, RemoveIfThere, CanRead
<1>9. /\ Peek(skipped, n - h) = SubSeq(d, 1, n - h)
      /\ Contents(Remove(skipped, n - h)) = SubSeq(d, (n - h) + 1, u - h)
      /\ Remove(skipped, n - h) \in Buffers(Byt)
  BY <1>5, <1>6, <1>7, ReadSplits, RemoveShrinks
<1>10. /\ d \in Seq(Byt) /\ Len(d) = u - h
       /\ \A i \in 1 .. u - h : d[i] = c[i + h]
  BY <1>2, <1>3, <1>6
<1>11. SubSeq(c, 1, h) \o SubSeq(d, 1, n - h) = SubSeq(c, 1, n)
  <2>1. PICK x, y, z : x = SubSeq(c, 1, h) /\ y = SubSeq(d, 1, n - h) /\ z = SubSeq(c, 1, n)
    OBVIOUS
  <2>2. /\ x \in Seq(Byt) /\ Len(x) = h /\ \A i \in 1 .. h : x[i] = c[i]
        /\ z \in Seq(Byt) /\ Len(z) = n /\ \A i \in 1 .. n : z[i] = c[i]
    BY <1>2, <1>3, <2>1
  <2>3. /\ y \in Seq(Byt) /\ Len(y) = n - h /\ \A i \in 1 .. n - h : y[i] = d[i]
    BY <1>2, <1>10, <2>1
  <2>4. PICK v : v = x \o y
    OBVIOUS
  <2>5. /\ v \in Seq(Byt) /\ Len(v) = n
        /\ \A i \in 1 .. n : v[i] = IF i <= h THEN x[i] ELSE y[i - h]
    BY <1>2, <2>2, <2>3, <2>4
  <2>6. ASSUME NEW i \in 1 .. n PROVE v[i] = z[i]
    <3>1. CASE i <= h
      BY <1>2, <2>2, <2>5, <3>1
    <3>2. CASE i > h
      <4>1. /\ i - h \in 1 .. n - h /\ i - h \in 1 .. u - h /\ (i - h) + h = i
        BY <1>2, <3>2
      <4>2. v[i] = y[i - h] /\ y[i - h] = d[i - h] /\ d[i - h] = c[(i - h) + h]
        BY <1>2, <1>10, <2>3, <2>5, <3>2, <4>1
      <4> QED  BY <2>2, <4>1, <4>2
    <3> QED  BY <1>2, <3>1, <3>2
  <2>7. v = z
    BY <2>2, <2>5, <2>6
  <2> QED  BY <2>1, <2>4, <2>7
<1>12. SubSeq(d, (n - h) + 1, u - h) = SubSeq(c, n + 1, u)
  <2>1. PICK y, z : y = SubSeq(d, (n - h) + 1, u - h) /\ z = SubSeq(c, n + 1, u)
    OBVIOUS
  <2>2. z \in Seq(Byt) /\ Len(z) = u - n /\ \A i \in 1 .. u - n : z[i] = c[i + n]
    BY <1>2, <1>3, <2>1
  <2>3. /\ y \in Seq(Byt) /\ Len(y) = u - n
        /\ \A i \in 1 .. u - n : y[i] = d[i + (n - h)]
    <3>1. PICK l, r : l = n - h /\ r = u - h
      OBVIOUS
    <3>2. /\ l \in 0 .. r /\ r \in Nat /\ r - l = u - n
          /\ Len(d) = r /\ y = SubSeq(d, l + 1, r)
      BY <1>2, <1>10, <2>1, <3>1
    <3>3. y \in Seq(Byt) /\ Len(y) = r - l /\ \A i \in 1 .. r - l : y[i] = d[i + l]
      <4>1. /\ r \in Nat /\ l + 1 \in Nat /\ l + 1 >= 1 /\ r <= Len(d)
            /\ (r - (l + 1)) + 1 = r - l
            /\ \A i \in 1 .. r - l : ((l + 1) + i) - 1 = i + l /\ i + l \in 1 .. r
        BY <3>2
      <4>2. Len(y) = r - l
        BY <1>10, <3>2, <4>1
      <4>3. \A i \in 1 .. r - l : y[i] = d[((l + 1) + i) - 1]
        BY <1>10, <3>2, <4>1
      <4>4. y \in Seq(Byt)
        BY <1>10, <3>2, <4>1
      <4> QED  BY <4>1, <4>2, <4>3, <4>4
    <3> QED  BY <3>1, <3>2, <3>3
  <2>4. \A i \in 1 .. u - n : i + (n - h) \in 1 .. u - h /\ (i + (n - h)) + h = i + n
    BY <1>2
  <2>5. \A i \in 1 .. u - n : y[i] = z[i]
    BY <1>10, <2>2, <2>3, <2>4
  <2>6. y = z
    BY <2>2, <2>3, <2>5
  <2> QED  BY <2>1, <2>6
<1> QED  BY <1>1, <1>4, <1>6, <1>8, <1>9, <1>11, <1>12

-----------------------------------------------------------------------------
\* The parser has taken every packet that is whole in the buffer.
Waits ==
    \/ UseSize(rb) < HeaderSize
    \/ /\ Len(jobs) < Len(sizes)
       /\ ValidSize(sizes[Len(jobs) + 1])
       /\ UseSize(rb) < sizes[Len(jobs) + 1]

ParserKnows ==
    /\ pc \in {"peek", "read"} => dataSize = UseSize(rb) /\ dataSize >= HeaderSize
    /\ pc = "read" => Len(jobs) < Len(sizes) /\ header = sizes[Len(jobs) + 1]
    /\ pc \in {"idle", "register"} => Waits

JobsAreFirst ==
    /\ Len(jobs) <= Len(sizes)
    /\ \A p \in DOMAIN jobs : ValidSize(sizes[p]) /\ jobs[p] = SentPackets[p]

\* The next packet is the first of what is left, and the last one its end.
LeftGoesOn ==
    /\ InOrder(Left, Len(jobs) + 1)
    /\ peer # "reset" => Ends(Left, Len(jobs) + 1)

StreamIInv == socket = "connected" => JobsAreFirst /\ LeftGoesOn /\ ParserKnows

\* What a completion puts after the bytes in the buffer leaves the free slot
\* free, so the bytes left are what LeftIs says.
LEMMA LeftInState ==
    ASSUME TypeOK, FreeSlotKept
    PROVE  /\ Left \in Seq(Byte) /\ jobs \in Seq(Seq(Byte)) /\ sizes \in Seq(PacketSizes)
           /\ rb \in Buffers(Byte) /\ wire \in Seq(Byte)
           /\ received \in Nat /\ UseSize(rb) \in Nat /\ received <= FreeSize(rb)
           /\ Len(Left) = UseSize(rb) + received + Len(wire)
           /\ \A i \in 1 .. UseSize(rb) : Left[i] = Contents(rb)[i]
           /\ Contents(rb) \in Seq(Byte) /\ Len(Contents(rb)) = UseSize(rb)
           /\ received = 0 => Left = Contents(rb) \o wire
<1>1. /\ rb \in Buffers(Byte) /\ wire \in Seq(Byte) /\ received \in Nat
      /\ jobs \in Seq(Seq(Byte)) /\ sizes \in Seq(PacketSizes)
  BY BufferSizeAssumption DEF TypeOK, Capacity
<1>2. FreeSize(rb) \in 0 .. BufferSize /\ received <= FreeSize(rb)
  BY <1>1, SizesAddUp DEF FreeSlotKept
<1>3. received \in 0 .. FreeSize(rb)
  BY <1>1, <1>2, BufferSizeAssumption
<1> QED  BY <1>1, <1>2, <1>3, LeftIs

\* A step that moves no byte from what is left to the jobs.
LEMMA SameStream ==
    ASSUME StreamIInv, socket = "connected" \/ socket' # "connected",
           UNCHANGED <<conn, sizes, jobs>>, Left' = Left,
           peer' # "reset" => peer # "reset", ParserKnows'
    PROVE  StreamIInv'
<1> SUFFICES ASSUME socket' = "connected"
             PROVE  JobsAreFirst' /\ LeftGoesOn' /\ ParserKnows'
  BY DEF StreamIInv
<1>1. JobsAreFirst /\ LeftGoesOn
  BY DEF StreamIInv
<1>2. JobsAreFirst'
  <2>1. SentPackets' = SentPackets
    BY DEF SentPackets, PacketBytes
  <2> QED  BY <1>1, <2>1 DEF JobsAreFirst
<1>3. PICK left, p : left = Left /\ p = Len(jobs) + 1
  OBVIOUS
<1>4. InOrder(left, p) /\ (peer # "reset" => Ends(left, p))
  BY <1>1, <1>3 DEF LeftGoesOn
<1>5. InOrder(left, p)' /\ (peer' # "reset" => Ends(left, p)')
  BY <1>4, OrderStays
<1>6. left = Left' /\ p = Len(jobs') + 1
  BY <1>3
<1>7. LeftGoesOn'
  BY <1>5, <1>6 DEF LeftGoesOn, InOrder, Ends
<1> QED  BY <1>2, <1>7

\* The kernel takes bytes from the wire to the buffer, and OnRecv takes them
\* into use.
LEMMA DeliveryKeepsStream ==
    ASSUME ReceiveIInv, StreamIInv, FreeSlotKept, FreeSlotKept',
           (\E n \in 1 .. Window : KernelRecv(n)) \/ OnRecv
    PROVE  StreamIInv'
<1>1. TypeOK /\ OneReceive
  BY DEF ReceiveIInv
<1>2. TypeOK'
  BY KernelFills, OnRecvTakes DEF ReceiveIInv
<1>3. ASSUME NEW n \in 1 .. Window, KernelRecv(n)
      PROVE  StreamIInv'
  <2>1. PICK bytes, rest : /\ bytes = SubSeq(wire, 1, n)
                           /\ rest = SubSeq(wire, n + 1, Len(wire))
    OBVIOUS
  <2>2. /\ recvLen > 0 /\ socket = "connected" /\ n <= Len(wire)
        /\ rb' = [rb EXCEPT !.data = Copied(rb, bytes)]
        /\ wire' = rest /\ received' = n
        /\ UNCHANGED <<conn, socket, peer, sizes, pc, dataSize, header, jobs>>
    BY <1>3, <2>1 DEF KernelRecv, locals
  <2>3. /\ received = 0 /\ rb \in Buffers(Byte) /\ wire \in Seq(Byte) /\ n \in Nat
    BY <1>1, <2>2, BufferSizeAssumption DEF OneReceive, TypeOK, Capacity
  <2>4. /\ bytes \in Seq(Byte) /\ Len(bytes) = n /\ rest \in Seq(Byte)
        /\ wire = bytes \o rest
    <3>1. n \in 0 .. Len(wire) /\ 1 \in 1 .. Len(wire) + 1 /\ Len(wire) \in n .. Len(wire)
      BY <2>2, <2>3
    <3>2. bytes \in Seq(Byte) /\ Len(bytes) = n
      BY <2>1, <2>3, <3>1
    <3>3. rest \in Seq(Byte)
      BY <2>1, <2>3, <3>1, WithoutFirst
    <3>4. SubSeq(wire, 1, n) \o SubSeq(wire, n + 1, Len(wire)) = SubSeq(wire, 1, Len(wire))
      <4>1. n \in 1 - 1 .. Len(wire)
        BY <3>1
      <4> QED  BY <2>3, <3>1, <4>1, ConcatAdjacentSubSeq
    <3> QED  BY <2>1, <2>3, <3>2, <3>3, <3>4, SubSeqFull
  <2>5. UseSize(rb') = UseSize(rb) /\ FreeSize(rb') = FreeSize(rb)
    BY <2>2, <2>3 DEF UseSize, FreeSize, Buffers
  <2>6. CanWrite(rb, bytes)
    BY <2>2, <2>4, <2>5 DEF FreeSlotKept, CanWrite
  <2>7. Contents(Write(rb, bytes)) = Contents(rb) \o bytes
    BY <2>3, <2>4, <2>6, WriteAppends
  <2>8. Write(rb, bytes) = MoveWritePos(rb', received')
    BY <2>2, <2>4 DEF Write
  <2>9. Left' = Contents(MoveWritePos(rb', received')) \o wire'
    BY DEF Left
  <2>10. Left = Contents(rb) \o wire /\ Contents(rb) \in Seq(Byte)
    BY <1>1, <2>3, LeftInState
  <2>11. (Contents(rb) \o bytes) \o rest = Contents(rb) \o (bytes \o rest)
    BY <2>4, <2>10, ConcatAssociative
  <2>12. Left' = Left
    BY <2>2, <2>4, <2>7, <2>8, <2>9, <2>10, <2>11
  <2>13. ParserKnows'
    BY <2>2, <2>5 DEF StreamIInv, ParserKnows, Waits, ValidSize
  <2> QED  BY <2>2, <2>12, <2>13, SameStream
<1>4. CASE OnRecv
  <2>1. /\ pc' = "measure" /\ rb' = MoveWritePos(rb, received) /\ received' = 0
        /\ UNCHANGED <<conn, socket, peer, sizes, wire, jobs>>
    BY <1>4 DEF OnRecv, client
  <2>2. PICK b \in Buffers(Byte) : b = rb'
    BY <1>2 DEF TypeOK
  <2>3. Contents(MoveWritePos(b, 0)) = Contents(b)
    <3>1. 0 \in 0 .. FreeSize(b)
      BY SizesAddUp, BufferSizeAssumption
    <3> QED  BY <3>1, MoveKeeps
  <2>4. Left' = Contents(MoveWritePos(rb', received')) \o wire'
    BY DEF Left
  <2>5. Left' = Left
    BY <2>1, <2>2, <2>3, <2>4 DEF Left
  <2>6. ParserKnows'
    BY <2>1 DEF ParserKnows
  <2>7. pc = "idle" /\ received > 0
    BY <1>4 DEF OnRecv
  <2> QED  BY <2>1, <2>5, <2>6, SameStream
<1> QED  BY <1>3, <1>4

\* The client sends a packet, closes, or is reset.
LEMMA ClientKeepsStream ==
    ASSUME ReceiveIInv, StreamIInv, FreeSlotKept,
           (\E size \in PacketSizes : ClientSend(size)) \/ ClientFinish \/ ClientReset
    PROVE  StreamIInv'
<1>1. TypeOK /\ Len(sizes) <= MaxPackets /\ socket = "connected"
  BY DEF ReceiveIInv, ClientSend, ClientFinish, ClientReset
<1>2. /\ Left \in Seq(Byte) /\ wire \in Seq(Byte)
      /\ UseSize(rb) \in Nat /\ received \in Nat
      /\ jobs \in Seq(Seq(Byte)) /\ sizes \in Seq(PacketSizes)
      /\ Len(Left) = UseSize(rb) + received + Len(wire)
  BY <1>1, LeftInState
<1>3. PICK c : c = Contents(MoveWritePos(rb, received))
  OBVIOUS
<1>4. /\ Left = c \o wire /\ (UNCHANGED <<rb, received>> => Left' = c \o wire')
      /\ c \in Seq(Byte) /\ Len(c) = UseSize(rb) + received
  <2>1. rb \in Buffers(Byte) /\ received \in 0 .. FreeSize(rb)
    <3>1. rb \in Buffers(Byte) /\ received \in Nat /\ received <= FreeSize(rb)
      BY <1>1, LeftInState
    <3> QED  BY <3>1, SizesAddUp, BufferSizeAssumption
  <2>2. c \in Seq(Byte) /\ Len(c) = UseSize(rb) + received
    BY <1>3, <2>1, MoveKeeps
  <2> QED  BY <1>3, <2>2 DEF Left
<1>5. PICK left, p : left = Left /\ p = Len(jobs) + 1
  OBVIOUS
<1>6. /\ p \in Nat /\ left \in Seq(Byte)
      /\ InOrder(left, p) /\ (peer # "reset" => Ends(left, p))
  BY <1>1, <1>2, <1>5 DEF StreamIInv, LeftGoesOn
<1>7. ASSUME NEW size \in PacketSizes, ClientSend(size)
      PROVE  StreamIInv'
  <2>1. PICK bytes : bytes = PacketBytes(conn, Len(sizes) + 1, size)
    OBVIOUS
  <2>2. /\ peer = "open" /\ Len(sizes) < MaxPackets
        /\ sizes' = Append(sizes, size) /\ wire' = wire \o bytes
        /\ UNCHANGED <<rb, conn, socket, peer, recvLen, received, pc, dataSize,
                       header, jobs>>
    BY <1>7, <2>1 DEF ClientSend, locals
  <2>3. conn \in 1 .. MaxConns
    BY <1>1, RecvPathAssumption DEF ReceiveIInv, TypeOK
  <2>4. Left' = left \o bytes
    <3>1. bytes \in Seq(Byte)
      <4>1. PICK q \in 1 .. MaxPackets : q = Len(sizes) + 1
        BY <1>2, <2>2, RecvPathAssumption
      <4>2. size \in Nat
        BY RecvPathAssumption
      <4> QED  BY <2>1, <2>3, <4>1, <4>2, PacketBytesType
    <3>2. (c \o wire) \o bytes = c \o (wire \o bytes)
      <4>1. c \in Seq(Byte) /\ wire \in Seq(Byte)
        BY <1>2, <1>4
      <4> QED  BY <3>1, <4>1, ConcatAssociative
    <3> QED  BY <1>4, <1>5, <2>2, <3>2
  <2>5. InOrder(left \o bytes, p)' /\ Ends(left \o bytes, p)'
    <3>1. PICK t : t = left \o bytes
      OBVIOUS
    <3> QED  BY <1>2, <1>6, <2>1, <2>2, <2>3, <3>1, PacketAdded
  <2>6. LeftGoesOn'
    BY <1>5, <2>2, <2>4, <2>5 DEF LeftGoesOn, InOrder, Ends
  <2>7. /\ \A q \in DOMAIN sizes : q \in DOMAIN sizes' /\ sizes'[q] = sizes[q]
        /\ Len(sizes') = Len(sizes) + 1 /\ Len(sizes) \in Nat
        /\ DOMAIN sizes = 1 .. Len(sizes)
    BY <1>2, <2>2
  <2>8. JobsAreFirst'
    <3>1. JobsAreFirst
      BY <1>1 DEF StreamIInv
    <3>2. \A q \in DOMAIN sizes : SentPackets'[q] = SentPackets[q]
      BY <2>2, <2>7 DEF SentPackets, PacketBytes
    <3>3. \A q \in DOMAIN jobs : q \in DOMAIN sizes
      BY <1>2, <3>1 DEF JobsAreFirst
    <3>4. Len(jobs) <= Len(sizes')
      BY <1>2, <2>7, <3>1 DEF JobsAreFirst
    <3> QED  BY <2>2, <2>7, <3>1, <3>2, <3>3, <3>4 DEF JobsAreFirst, ValidSize
  <2>9. ParserKnows'
    <3>1. ParserKnows /\ UseSize(rb)' = UseSize(rb)
      BY <1>1, <2>2 DEF StreamIInv, UseSize, Capacity
    <3>2. Len(jobs) < Len(sizes) =>
             Len(jobs) < Len(sizes') /\ sizes'[Len(jobs) + 1] = sizes[Len(jobs) + 1]
      <4>1. Len(jobs) \in Nat
        BY <1>2
      <4>2. Len(jobs) < Len(sizes) => Len(jobs) + 1 \in DOMAIN sizes /\ Len(jobs) < Len(sizes')
        BY <2>7, <4>1
      <4> QED  BY <2>7, <4>2
    <3> QED  BY <2>2, <3>1, <3>2 DEF ParserKnows, Waits, ValidSize
  <2> QED  BY <2>6, <2>8, <2>9 DEF StreamIInv
<1>8. CASE ClientFinish
  <2>1. UNCHANGED <<rb, conn, socket, sizes, wire, recvLen, received, pc, dataSize,
                    header, jobs>> /\ peer = "open"
    BY <1>8 DEF ClientFinish, locals
  <2>2. Left' = Left
    BY <1>4, <2>1
  <2>3. ParserKnows'
    BY <1>1, <2>1 DEF StreamIInv, ParserKnows, Waits, ValidSize, UseSize, Capacity
  <2> QED  BY <1>1, <2>1, <2>2, <2>3, SameStream
<1>9. CASE ClientReset
  <2>1. /\ UNCHANGED <<rb, conn, socket, sizes, recvLen, received, pc, dataSize,
                       header, jobs>>
        /\ peer' = "reset" /\ wire' = << >>
    BY <1>9 DEF ClientReset, locals
  <2>2. Left' = SubSeq(left, 1, UseSize(rb) + received)
    <3>1. Left' = c
      BY <1>4, <2>1, ConcatEmptySeq
    <3>2. SubSeq(c \o wire, 1, Len(c)) = c
      BY <1>2, <1>4, FirstPart
    <3> QED  BY <1>4, <1>5, <3>1, <3>2
  <2>3. PICK part : part = SubSeq(left, 1, UseSize(rb) + received)
    OBVIOUS
  <2>4. InOrder(part, p)
    <3>1. UseSize(rb) + received \in 0 .. Len(left)
      BY <1>2, <1>5
    <3> QED  BY <1>6, <2>3, <3>1, OrderOfPart
  <2>5. InOrder(part, p)'
    BY <2>1, <2>4, OrderStays
  <2>6. LeftGoesOn'
    BY <1>5, <2>1, <2>2, <2>3, <2>5 DEF LeftGoesOn, InOrder
  <2>7. JobsAreFirst'
    <3>1. SentPackets' = SentPackets
      BY <2>1 DEF SentPackets, PacketBytes
    <3> QED  BY <1>1, <2>1, <3>1 DEF StreamIInv, JobsAreFirst
  <2>8. ParserKnows'
    BY <1>1, <2>1 DEF StreamIInv, ParserKnows, Waits, ValidSize, UseSize, Capacity
  <2> QED  BY <2>6, <2>7, <2>8 DEF StreamIInv
<1> QED  BY <1>7, <1>8, <1>9

\* The header at the front of the buffer is the one sent with the next packet.
LEMMA HeaderIsSent ==
    ASSUME TypeOK, FreeSlotKept, InOrder(Left, Len(jobs) + 1),
           UseSize(rb) >= HeaderSize
    PROVE  /\ Len(jobs) + 1 \in DOMAIN sizes
           /\ ShownSizes(PeekIfThere(rb, HeaderSize)) = {sizes[Len(jobs) + 1]}
<1>1. PICK left, p, h : left = Left /\ p = Len(jobs) + 1 /\ h = HeaderSize
  OBVIOUS
<1>2. /\ left \in Seq(Byte) /\ jobs \in Seq(Seq(Byte)) /\ sizes \in Seq(PacketSizes)
      /\ rb \in Buffers(Byte) /\ UseSize(rb) \in Nat /\ UseSize(rb) <= Len(left)
      /\ \A i \in 1 .. UseSize(rb) : left[i] = Contents(rb)[i]
      /\ Contents(rb) \in Seq(Byte) /\ Len(Contents(rb)) = UseSize(rb)
  <2>1. Len(Left) = UseSize(rb) + received + Len(wire) /\ received \in Nat
        /\ UseSize(rb) \in Nat /\ wire \in Seq(Byte)
    BY LeftInState
  <2>2. UseSize(rb) <= Len(Left)
    BY <2>1
  <2> QED  BY <1>1, <2>2, LeftInState
<1>3. h \in Nat \ {0} /\ h <= UseSize(rb) /\ p \in Nat
  BY <1>1, <1>2, RecvPathAssumption
<1>4. /\ p \in DOMAIN sizes
      /\ \A i \in 1 .. Len(left) : i <= PacketLen(sizes[p]) =>
            left[i] = [conn |-> conn, pkt |-> p, off |-> i]
  <2>1. left # << >>
    BY <1>2, <1>3
  <2> QED  BY <1>1, <1>2, <1>3, <2>1, PacketFirst
<1>5. PICK m : m = PacketLen(sizes[p])
  OBVIOUS
<1>6. m \in Nat /\ h <= m
  BY <1>1, <1>2, <1>4, <1>5, SentPacket
<1>7. PICK head : head = PeekIfThere(rb, h)
  OBVIOUS
<1>8. /\ head \in Seq(Byte) /\ Len(head) = h
      /\ \A i \in 1 .. h : head[i] = [conn |-> conn, pkt |-> p, off |-> i]
  <2>1. head = SubSeq(Contents(rb), 1, h)
    <3>1. h \in 0 .. UseSize(rb)
      BY <1>2, <1>3
    <3>2. head = Peek(rb, h)
      BY <1>3, <1>7 DEF PeekIfThere, CanRead
    <3> QED  BY <1>2, <3>1, <3>2, ReadSplits
  <2>2. /\ head \in Seq(Byte) /\ Len(head) = h
        /\ \A i \in 1 .. h : head[i] = Contents(rb)[i]
    BY <1>2, <1>3, <2>1
  <2>3. \A i \in 1 .. h : i \in 1 .. UseSize(rb) /\ i \in 1 .. Len(left) /\ i <= m
    BY <1>2, <1>3, <1>6
  <2> QED  BY <1>2, <1>4, <1>5, <2>2, <2>3
<1>9. head = SubSeq(PacketBytes(conn, p, sizes[p]), 1, h)
  <2>1. PICK packet : packet = [i \in 1 .. m |-> [conn |-> conn, pkt |-> p, off |-> i]]
    OBVIOUS
  <2>2. packet = PacketBytes(conn, p, sizes[p])
    BY <1>5, <2>1 DEF PacketBytes
  <2>3. PICK part : part = SubSeq(packet, 1, h)
    OBVIOUS
  <2>4. \A i \in 1 .. h : i \in 1 .. m
    BY <1>3, <1>6
  <2>5. part = [i \in 1 .. h |-> [conn |-> conn, pkt |-> p, off |-> i]]
    BY <1>3, <2>1, <2>3, <2>4
  <2>6. head = [i \in 1 .. h |-> [conn |-> conn, pkt |-> p, off |-> i]]
    BY <1>3, <1>8
  <2> QED  BY <2>2, <2>3, <2>5, <2>6
<1>10. head[1].pkt = p
  BY <1>3, <1>8
<1>11. ShownSizes(head) = {sizes[p]}
  BY <1>1, <1>4, <1>8, <1>9, <1>10 DEF ShownSizes
<1> QED  BY <1>1, <1>4, <1>7, <1>11

\* A packet taken from the front of the buffer is a packet taken from the front
\* of what is left.
LEMMA TakenFromFront ==
    ASSUME NEW T, NEW s \in Seq(T), NEW t \in Seq(T), NEW n \in 0 .. Len(s)
    PROVE  SubSeq(s, n + 1, Len(s)) \o t = SubSeq(s \o t, n + 1, Len(s \o t))
<1>1. PICK x, y, st, z : /\ x = SubSeq(s, 1, n) /\ y = SubSeq(s, n + 1, Len(s))
                         /\ st = s \o t /\ z = SubSeq(st, n + 1, Len(st))
  OBVIOUS
<1>2. n \in Nat /\ n <= Len(s) /\ Len(s) \in Nat /\ Len(t) \in Nat
  OBVIOUS
<1>3. /\ y \in Seq(T) /\ Len(y) = Len(s) - n
      /\ \A i \in 1 .. Len(s) - n : y[i] = s[i + n]
  BY <1>1, WithoutFirst
<1>4. /\ st \in Seq(T) /\ Len(st) = Len(s) + Len(t)
      /\ \A i \in 1 .. Len(s) + Len(t) : st[i] = IF i <= Len(s) THEN s[i] ELSE t[i - Len(s)]
  BY <1>1, ConcatProperties
<1>5. n \in 0 .. Len(st)
  BY <1>2, <1>4
<1>6. /\ z \in Seq(T) /\ Len(z) = Len(st) - n
      /\ \A i \in 1 .. Len(st) - n : z[i] = st[i + n]
  BY <1>1, <1>4, <1>5, WithoutFirst
<1>7. PICK v : v = y \o t
  OBVIOUS
<1>8. /\ v \in Seq(T) /\ Len(v) = Len(y) + Len(t)
      /\ \A i \in 1 .. Len(y) + Len(t) : v[i] = IF i <= Len(y) THEN y[i] ELSE t[i - Len(y)]
  BY <1>3, <1>7, ConcatProperties
<1>9. Len(v) = Len(z)
  BY <1>2, <1>3, <1>4, <1>6, <1>8
<1>10. ASSUME NEW i \in 1 .. Len(z)
       PROVE  v[i] = z[i]
  <2>1. /\ i \in 1 .. Len(y) + Len(t) /\ i \in 1 .. Len(st) - n
        /\ i + n \in 1 .. Len(s) + Len(t)
        /\ (i <= Len(y) <=> i + n <= Len(s))
        /\ i - Len(y) = (i + n) - Len(s)
        /\ i <= Len(y) => i \in 1 .. Len(s) - n
    BY <1>2, <1>3, <1>4, <1>6
  <2>2. z[i] = st[i + n]
    BY <1>6, <2>1
  <2> QED  BY <1>3, <1>4, <1>8, <2>1, <2>2
<1>11. v = z
  BY <1>6, <1>8, <1>9, <1>10, SeqEqual
<1> QED  BY <1>1, <1>7, <1>11

\* The turns of the loop of ProcessPackets.
LEMMA ParserKeepsStream ==
    ASSUME ReceiveIInv, StreamIInv, FreeSlotKept,
           MeasureData \/ PeekHeader \/ ReadPacket
    PROVE  StreamIInv'
<1> SUFFICES ASSUME socket = "connected", socket' = "connected"
             PROVE  StreamIInv'
  BY DEF StreamIInv, MeasureData, PeekHeader, ReadPacket, ClearSession
<1>1. TypeOK /\ (pc # "idle" => recvLen = 0 /\ received = 0)
  BY DEF ReceiveIInv, OneReceive
<1>2. JobsAreFirst /\ LeftGoesOn /\ ParserKnows
  BY DEF StreamIInv
<1>3. UNCHANGED <<rb, received, wire>> => Left' = Left
  BY DEF Left
<1>4. CASE MeasureData
  <2>1. /\ UNCHANGED <<rb, conn, socket, peer, sizes, wire, received, jobs>>
        /\ dataSize' = UseSize(rb)
        /\ pc' = IF UseSize(rb) < HeaderSize THEN "register" ELSE "peek"
    BY <1>4 DEF MeasureData, client
  <2>2. UseSize(rb) \in Nat /\ HeaderSize \in Nat
    BY <1>1, SizesAddUp, RecvPathAssumption DEF TypeOK
  <2>3. UseSize(rb') = UseSize(rb)
    BY <2>1
  <2>4. ParserKnows'
    BY <2>1, <2>2, <2>3 DEF ParserKnows, Waits
  <2> QED  BY <1>3, <2>1, <2>4, SameStream
<1>5. CASE PeekHeader
  <2>1. /\ pc = "peek" /\ header' \in ShownSizes(PeekIfThere(rb, HeaderSize))
        /\ UNCHANGED <<rb, conn, socket, peer, sizes, wire, received, dataSize, jobs>>
        /\ pc' = "read"
    BY <1>5 DEF PeekHeader, ClearSession, client
  <2>2. dataSize = UseSize(rb) /\ UseSize(rb) >= HeaderSize
    BY <1>2, <2>1 DEF ParserKnows
  <2>3. /\ Len(jobs) + 1 \in DOMAIN sizes
        /\ ShownSizes(PeekIfThere(rb, HeaderSize)) = {sizes[Len(jobs) + 1]}
    BY <1>1, <1>2, <2>2, HeaderIsSent DEF LeftGoesOn
  <2>4. header' = sizes[Len(jobs) + 1] /\ Len(jobs) < Len(sizes)
    <3>1. jobs \in Seq(Seq(Byte)) /\ sizes \in Seq(PacketSizes)
      BY <1>1 DEF TypeOK
    <3>2. Len(jobs) < Len(sizes)
      BY <2>3, <3>1
    <3> QED  BY <2>1, <2>3, <3>2
  <2>5. ParserKnows'
    BY <2>1, <2>2, <2>4 DEF ParserKnows
  <2> QED  BY <1>3, <2>1, <2>5, SameStream
<1>6. CASE ReadPacket
  <2>1. /\ pc = "read" /\ received = 0
        /\ UNCHANGED <<conn, socket, peer, sizes, wire, received, dataSize, header>>
    BY <1>1, <1>6 DEF ReadPacket, client, locals
  <2>2. PICK n, p : n = header /\ p = Len(jobs) + 1
    OBVIOUS
  <2>3. /\ jobs \in Seq(Seq(Byte)) /\ sizes \in Seq(PacketSizes)
        /\ rb \in Buffers(Byte) /\ UseSize(rb) \in Nat
        /\ Contents(rb) \in Seq(Byte) /\ Len(Contents(rb)) = UseSize(rb)
        /\ wire \in Seq(Byte) /\ Left = Contents(rb) \o wire
    BY <1>1, <2>1, LeftInState
  <2>4. /\ dataSize = UseSize(rb) /\ n = sizes[p] /\ Len(jobs) < Len(sizes)
        /\ p \in DOMAIN sizes /\ ValidSize(n) /\ p \in Nat /\ Len(jobs) \in Nat
    <3>1. dataSize = UseSize(rb) /\ n = sizes[p] /\ Len(jobs) < Len(sizes)
      BY <1>2, <2>1, <2>2 DEF ParserKnows
    <3>2. p \in DOMAIN sizes /\ p \in Nat /\ Len(jobs) \in Nat
      BY <2>2, <2>3, <3>1
    <3> QED  BY <2>1, <2>2, <3>1, <3>2 DEF ReceiveIInv, ValidSize
  <2>5. CASE dataSize < header
    <3>1. pc' = "register" /\ UNCHANGED <<rb, jobs>>
      BY <1>6, <2>5 DEF ReadPacket
    <3>2. UseSize(rb') = UseSize(rb)
      BY <3>1
    <3>3. ParserKnows'
      BY <2>1, <2>2, <2>4, <2>5, <3>1, <3>2 DEF ParserKnows, Waits, ValidSize
    <3> QED  BY <1>3, <2>1, <3>1, <3>3, SameStream
  <2>6. CASE ~ (dataSize < header)
    <3>1. PICK skipped, job, rest :
             /\ skipped = RemoveIfThere(rb, HeaderSize)
             /\ job = PeekIfThere(rb, HeaderSize)
                      \o PeekIfThere(skipped, n - HeaderSize)
             /\ rest = RemoveIfThere(skipped, n - HeaderSize)
      OBVIOUS
    <3>2. jobs' = Append(jobs, job) /\ rb' = rest /\ pc' = "measure"
      BY <1>6, <2>2, <2>6, <3>1 DEF ReadPacket
    <3>3. /\ n \in Nat /\ HeaderSize \in 0 .. n /\ n <= UseSize(rb)
          /\ PacketLen(n) = n
      <4>1. n \in Nat
        BY <2>3, <2>4, SentPacket
      <4> QED  BY <2>2, <2>3, <2>4, <2>6, <4>1, RecvPathAssumption DEF ValidSize, PacketLen
    <3>4. /\ job = SubSeq(Contents(rb), 1, n)
          /\ rest \in Buffers(Byte)
          /\ Contents(rest) = SubSeq(Contents(rb), n + 1, UseSize(rb))
      <4>1. /\ rb \in Buffers(Byte) /\ n \in Nat /\ HeaderSize \in 0 .. n
            /\ n <= UseSize(rb)
        BY <2>3, <3>3
      <4> QED  BY <3>1, <4>1, ReadTwice
    <3>5. PICK left, after : left = Left /\ after = SubSeq(left, n + 1, Len(left))
      OBVIOUS
    <3>6. Left' = after
      <4>1. n \in 0 .. Len(Contents(rb))
        BY <2>3, <3>3
      <4>2. Contents(rest) \o wire = after
        BY <2>3, <3>4, <3>5, <4>1, TakenFromFront
      <4>3. Contents(MoveWritePos(rest, 0)) = Contents(rest)
        <5>1. 0 \in 0 .. FreeSize(rest)
          BY <3>4, SizesAddUp, BufferSizeAssumption
        <5> QED  BY <3>4, <5>1, MoveKeeps
      <4> QED  BY <2>1, <3>2, <4>2, <4>3 DEF Left
    <3>7. /\ InOrder(left, p) /\ (peer # "reset" => Ends(left, p))
          /\ left # << >> /\ n <= Len(left) /\ Len(left) \in Nat
          /\ \A i \in 1 .. n : i \in 1 .. Len(left) /\ left[i] = Contents(rb)[i]
      <4>1. Len(left) = UseSize(rb) + Len(wire) /\ Len(wire) \in Nat
        <5>1. PICK c : c = Contents(rb)
          OBVIOUS
        <5>2. c \in Seq(Byte) /\ wire \in Seq(Byte) /\ left = c \o wire /\ Len(c) = UseSize(rb)
          BY <2>3, <3>5, <5>1
        <5>3. Len(c \o wire) = Len(c) + Len(wire)
          BY <5>2, ConcatProperties
        <5>4. Len(wire) \in Nat
          BY <2>3
        <5> QED  BY <5>2, <5>3, <5>4
      <4>2. /\ n <= Len(left) /\ Len(left) \in Nat /\ n >= 1
            /\ \A i \in 1 .. n : i \in 1 .. Len(left) /\ i \in 1 .. UseSize(rb)
        BY <2>3, <3>3, <4>1, RecvPathAssumption
      <4>3. \A i \in 1 .. UseSize(rb) : left[i] = Contents(rb)[i]
        BY <1>1, <3>5, LeftInState
      <4> QED  BY <1>2, <2>2, <3>5, <4>2, <4>3, EmptySeq DEF LeftGoesOn
    <3>8. job = PacketBytes(conn, p, sizes[p])
      <4>1. \A i \in 1 .. n : left[i] = [conn |-> conn, pkt |-> p, off |-> i]
        <5>1. \A i \in 1 .. Len(left) : i <= PacketLen(sizes[p]) =>
                 left[i] = [conn |-> conn, pkt |-> p, off |-> i]
          BY <2>3, <2>4, <3>7, PacketFirst
        <5> QED  BY <2>4, <3>3, <3>7, <5>1
      <4>2. job \in Seq(Byte) /\ Len(job) = n /\ \A i \in 1 .. n : job[i] = Contents(rb)[i]
        BY <2>3, <3>3, <3>4
      <4>3. job = [i \in 1 .. n |-> [conn |-> conn, pkt |-> p, off |-> i]]
        <5>1. \A i \in 1 .. n : job[i] = [conn |-> conn, pkt |-> p, off |-> i]
          BY <3>7, <4>1, <4>2
        <5> QED  BY <4>2, <5>1
      <4> QED  BY <2>4, <3>3, <4>3 DEF PacketBytes
    <3>9. InOrder(after, p + 1)' /\ (peer' # "reset" => Ends(after, p + 1)')
      <4>1. InOrder(after, p + 1) /\ (peer # "reset" => Ends(after, p + 1))
        BY <2>3, <2>4, <3>3, <3>5, <3>7, PacketTaken
      <4> QED  BY <2>1, <4>1, OrderStays
    <3>10. LeftGoesOn'
      <4>1. Len(jobs') + 1 = p + 1
        BY <2>2, <2>3, <3>2
      <4> QED  BY <3>6, <3>9, <4>1 DEF LeftGoesOn, InOrder, Ends
    <3>11. JobsAreFirst'
      <4>1. SentPackets' = SentPackets /\ SentPackets[p] = job
        BY <2>1, <2>4, <3>8 DEF SentPackets, PacketBytes
      <4>2. /\ Len(jobs') = p /\ p <= Len(sizes') /\ jobs'[p] = job
            /\ DOMAIN jobs' = 1 .. p /\ DOMAIN jobs = 1 .. Len(jobs)
            /\ \A q \in DOMAIN jobs : jobs'[q] = jobs[q]
            /\ \A q \in DOMAIN jobs' : q \in DOMAIN jobs \/ q = p
        BY <2>1, <2>2, <2>3, <2>4, <3>2
      <4> QED  BY <1>2, <2>1, <2>4, <4>1, <4>2 DEF JobsAreFirst, ValidSize
    <3>12. ParserKnows'
      BY <3>2 DEF ParserKnows
    <3> QED  BY <3>10, <3>11, <3>12 DEF StreamIInv
  <2> QED  BY <2>5, <2>6
<1> QED  BY <1>4, <1>5, <1>6

\* A new connection starts with nothing sent and nothing in the buffer.
LEMMA AcceptStartsStream ==
    ASSUME ReceiveIInv, Accept
    PROVE  StreamIInv'
<1>1. /\ socket = "none" /\ pc = "idle" /\ received = 0
      /\ sizes' = << >> /\ wire' = << >> /\ jobs' = << >>
      /\ UNCHANGED <<rb, received, pc>>
  BY DEF Accept
<1>2. rb \in Buffers(Byte) /\ rb.readPos = 0 /\ rb.writePos = 0
  BY <1>1 DEF ReceiveIInv, ClearedBetween, TypeOK
<1>3. UseSize(rb) = 0
  BY <1>2 DEF UseSize
<1>4. Left' = << >>
  <2>1. Contents(MoveWritePos(rb, 0)) \in Seq(Byte) /\ Len(Contents(MoveWritePos(rb, 0))) = 0
    <3>1. 0 \in 0 .. FreeSize(rb)
      BY <1>2, SizesAddUp, BufferSizeAssumption
    <3>2. Len(Contents(MoveWritePos(rb, 0))) = 0 + 0 /\ Contents(MoveWritePos(rb, 0)) \in Seq(Byte)
      BY <1>2, <1>3, <3>1, MoveKeeps
    <3> QED  BY <3>2
  <2>2. Contents(MoveWritePos(rb, 0)) = << >>
    BY <2>1, EmptySeq
  <2>3. << >> \o << >> = << >>
    OBVIOUS
  <2> QED  BY <1>1, <2>2, <2>3 DEF Left
<1>5. Len(sizes') = 0 /\ Len(jobs') = 0 /\ DOMAIN jobs' = {}
  BY <1>1
<1>6. JobsAreFirst'
  BY <1>5 DEF JobsAreFirst
<1>7. LeftGoesOn'
  BY <1>4, <1>5 DEF LeftGoesOn, InOrder, Ends
<1>8. ParserKnows'
  <2>1. UseSize(rb') < HeaderSize
    BY <1>1, <1>3, RecvPathAssumption
  <2> QED  BY <1>1, <2>1 DEF ParserKnows, Waits
<1> QED  BY <1>6, <1>7, <1>8 DEF StreamIInv

LEMMA StreamHolds == Spec /\ []FreeSlotKept => []StreamIInv
<1>1. Init => StreamIInv
  BY DEF Init, StreamIInv
<1>2. ReceiveIInv /\ StreamIInv /\ FreeSlotKept /\ FreeSlotKept' /\ [Next]_vars
         => StreamIInv'
  <2> SUFFICES ASSUME ReceiveIInv, StreamIInv, FreeSlotKept, FreeSlotKept', [Next]_vars
               PROVE  StreamIInv'
    OBVIOUS
  <2>1. CASE UNCHANGED vars
    <3>1. /\ UNCHANGED <<rb, conn, socket, peer, sizes, wire, received, pc,
                         dataSize, header, jobs>>
      BY <2>1 DEF vars
    <3>2. Left' = Left /\ UseSize(rb') = UseSize(rb)
      BY <3>1 DEF Left
    <3>3. socket = "connected" => ParserKnows'
      BY <3>1, <3>2 DEF StreamIInv, ParserKnows, Waits, ValidSize
    <3>4. CASE socket = "connected"
      BY <3>1, <3>2, <3>3, <3>4, SameStream
    <3>5. CASE socket # "connected"
      BY <3>1, <3>5 DEF StreamIInv
    <3> QED  BY <3>4, <3>5
  <2>2. CASE (\E size \in PacketSizes : ClientSend(size)) \/ ClientFinish \/ ClientReset
    BY <2>2, ClientKeepsStream
  <2>3. CASE (\E n \in 1 .. Window : KernelRecv(n)) \/ OnRecv
    BY <2>3, DeliveryKeepsStream
  <2>4. CASE MeasureData \/ PeekHeader \/ ReadPacket
    BY <2>4, ParserKeepsStream
  <2>5. CASE Accept
    BY <2>5, AcceptStartsStream
  <2>6. CASE RegisterRecv
    <3>1. /\ UNCHANGED <<rb, conn, socket, peer, sizes, wire, received, jobs>>
          /\ socket = "connected" /\ pc = "register" /\ pc' = "idle"
      BY <2>6 DEF RegisterRecv, client
    <3>2. Left' = Left /\ UseSize(rb') = UseSize(rb)
      BY <3>1 DEF Left
    <3>3. ParserKnows'
      BY <3>1, <3>2 DEF StreamIInv, ParserKnows, Waits, ValidSize
    <3> QED  BY <3>1, <3>2, <3>3, SameStream
  <2>7. CASE RecvEnds \/ RegisterRecvFails \/ SendFailure
    BY <2>7 DEF RecvEnds, RegisterRecvFails, SendFailure, ClearSession, StreamIInv
  <2> QED  BY <2>1, <2>2, <2>3, <2>4, <2>5, <2>6, <2>7 DEF Next
<1> QED  BY <1>1, <1>2, ReceiveHolds, PTL DEF Spec

\* Nothing is lost, repeated or put out of place between the client and the
\* logic threads, wherever the buffer wraps, however the stream is cut and
\* whenever another worker clears the session, for every size of the buffer
\* and of a packet, as long as what is received leaves the buffer's free slot
\* free (Session::OnRecv and ProcessPackets over RingBuffer).
THEOREM StreamIsIntact == Spec /\ []FreeSlotKept => []StreamIntact
<1>1. ReceiveIInv /\ FreeSlotKept /\ StreamIInv => StreamIntact
  <2> SUFFICES ASSUME ReceiveIInv, FreeSlotKept, StreamIInv, socket = "connected"
               PROVE  StreamIntact
    BY DEF StreamIntact
  <2>1. JobsAreFirst /\ LeftGoesOn
    BY DEF StreamIInv
  <2>2. jobs \in Seq(Seq(Byte)) /\ sizes \in Seq(PacketSizes) /\ Left \in Seq(Byte)
    BY LeftInState DEF ReceiveIInv
  <2>3. Len(jobs) \in Nat /\ Len(sizes) \in Nat /\ Len(Left) \in Nat
    BY <2>2
  <2>4. Left # << >> => Left[1] = FirstOf(Len(jobs) + 1)
    BY <2>1 DEF LeftGoesOn, InOrder
  <2>5. \A i \in 1 .. Len(Left) - 1 :
           Left[i].pkt \in DOMAIN sizes /\ Left[i + 1] = After(Left[i])
    <3>1. \A i \in 1 .. Len(Left) - 1 : i \in 1 .. Len(Left)
      BY <2>3
    <3> QED  BY <2>1, <3>1 DEF LeftGoesOn, InOrder, IsSent
  <2>6. peer # "reset" =>
           IF Left = << >> THEN Len(jobs) = Len(sizes)
           ELSE Len(jobs) < Len(sizes) /\ Left[Len(Left)] = LastOf(Len(sizes))
    BY <2>1, <2>3 DEF LeftGoesOn, Ends
  <2> QED  BY <2>1, <2>4, <2>5, <2>6 DEF StreamIntact, JobsAreFirst
<1> QED  BY <1>1, StreamHolds, ReceiveHolds, PTL

\* A client that closes in good order loses nothing: when the worker sees the
\* close, every packet sent is a job, and no session is given up for want of
\* room while its client goes on sending valid packets.
THEOREM CleanCloseIsComplete == Spec /\ []FreeSlotKept => CleanCloseLosesNothing
<1> DEFINE Whole == /\ socket = "connected" /\ socket' = "none"
                    /\ peer = "finished" /\ ~ SendFailure
                    /\ \A p \in DOMAIN sizes : ValidSize(sizes[p])
                    => jobs = SentPackets
<1>1. ReceiveIInv /\ FreeSlotKept /\ StreamIInv /\ [Next]_vars => [Whole]_vars
  <2> SUFFICES ASSUME ReceiveIInv, FreeSlotKept, StreamIInv, Next,
                      socket = "connected", socket' = "none",
                      peer = "finished", ~ SendFailure,
                      \A p \in DOMAIN sizes : ValidSize(sizes[p])
               PROVE  jobs = SentPackets
    OBVIOUS
  <2>1. /\ TypeOK /\ OneReceive
        /\ JobsAreFirst /\ LeftGoesOn /\ ParserKnows
        /\ InOrder(Left, Len(jobs) + 1) /\ Ends(Left, Len(jobs) + 1)
    BY DEF ReceiveIInv, StreamIInv, LeftGoesOn
  <2>2. /\ jobs \in Seq(Seq(Byte)) /\ sizes \in Seq(PacketSizes)
        /\ Left \in Seq(Byte) /\ rb \in Buffers(Byte)
        /\ UseSize(rb) \in Nat /\ Len(jobs) \in Nat
        /\ wire \in Seq(Byte) /\ received \in Nat
    BY <2>1, LeftInState
  <2>3. RecvEnds \/ PeekHeader \/ RegisterRecvFails
    BY DEF Next, ClientSend, ClientFinish, ClientReset, Accept, KernelRecv, OnRecv,
           MeasureData, ReadPacket, RegisterRecv, client
  <2>4. CASE RecvEnds
    <3>1. recvLen > 0 /\ pc = "idle" /\ wire = << >>
      BY <2>4 DEF RecvEnds
    <3>2. received = 0 /\ Waits
      BY <2>1, <3>1, BufferSizeAssumption DEF OneReceive, ParserKnows, TypeOK, Capacity
    <3>3. Len(Left) = UseSize(rb)
      <4>1. Len(Left) = UseSize(rb) + received + Len(wire)
        BY <2>1, LeftInState
      <4>2. Len(wire) = 0
        BY <3>1, EmptySeq
      <4> QED  BY <2>2, <3>2, <4>1, <4>2
    <3>4. Left = << >>
      <4> SUFFICES ASSUME Left # << >> PROVE FALSE
        OBVIOUS
      <4>1. PICK p : p = Len(jobs) + 1
        OBVIOUS
      <4>2. p \in DOMAIN sizes /\ PacketLen(sizes[p]) <= Len(Left)
        BY <2>1, <2>2, <4>1, PacketFirst, PacketWhole
      <4>3. PacketLen(sizes[p]) = sizes[p] /\ sizes[p] \in Nat /\ sizes[p] >= HeaderSize
        BY <2>2, <4>2, SentPacket DEF PacketLen, ValidSize
      <4>4. UseSize(rb) < HeaderSize \/ UseSize(rb) < sizes[p]
        BY <3>2, <4>1 DEF Waits
      <4> QED  BY <2>2, <3>3, <4>2, <4>3, <4>4, RecvPathAssumption
    <3>5. Len(jobs) = Len(sizes)
      BY <2>1, <2>2, <3>4 DEF Ends
    <3>6. DOMAIN jobs = DOMAIN sizes /\ jobs = [p \in DOMAIN jobs |-> jobs[p]]
      BY <2>2, <3>5
    <3> QED  BY <2>1, <3>6 DEF JobsAreFirst, SentPackets
  <2>5. CASE PeekHeader
    <3>1. /\ pc = "peek" /\ header' \in ShownSizes(PeekIfThere(rb, HeaderSize))
          /\ ~ ValidSize(header')
      BY <2>5 DEF PeekHeader
    <3>2. UseSize(rb) >= HeaderSize
      BY <2>1, <3>1 DEF ParserKnows
    <3>3. header' = sizes[Len(jobs) + 1] /\ Len(jobs) + 1 \in DOMAIN sizes
      BY <2>1, <3>1, <3>2, HeaderIsSent
    <3> QED  BY <3>1, <3>3
  <2>6. CASE RegisterRecvFails
    <3>1. pc = "register" /\ BufferFull
      BY <2>6 DEF RegisterRecvFails
    <3>2. Waits
      BY <2>1, <3>1 DEF ParserKnows
    <3>3. UseSize(rb) < MaxPacketSize
      <4>1. HeaderSize \in Nat /\ MaxPacketSize \in Nat /\ HeaderSize <= MaxPacketSize
        BY RecvPathAssumption, BufferSizeAssumption
      <4>2. CASE UseSize(rb) < HeaderSize
        BY <2>2, <4>1, <4>2
      <4>3. CASE Len(jobs) < Len(sizes) /\ ValidSize(sizes[Len(jobs) + 1])
                 /\ UseSize(rb) < sizes[Len(jobs) + 1]
        <5>1. Len(jobs) + 1 \in DOMAIN sizes
          BY <2>2, <4>3
        <5>2. sizes[Len(jobs) + 1] \in Nat
          BY <2>2, <5>1, SentPacket
        <5> QED  BY <2>2, <4>1, <4>3, <5>2 DEF ValidSize
      <4> QED  BY <3>2, <4>2, <4>3 DEF Waits
    <3>4. FreeSize(rb) > 0 /\ ContinuousFreeSize(rb) \in 0 .. Capacity
      <4>1. FreeSize(rb) = BufferSize - UseSize(rb)
        BY <2>2, SizesAddUp
      <4> QED  BY <2>2, <3>3, <4>1, RecvPathAssumption, BufferSizeAssumption,
                  ContinuousFreeSizeBounds
    <3>5. ContinuousFreeSize(rb) = 0
      BY <3>1, <3>4, BufferSizeAssumption DEF BufferFull, Capacity
    <3> QED  BY <2>2, <3>4, <3>5, ContinuousFreeSizeBounds
  <2> QED  BY <2>3, <2>4, <2>5, <2>6
<1> QED  BY <1>1, StreamHolds, ReceiveHolds, PTL DEF Spec, CleanCloseLosesNothing

-----------------------------------------------------------------------------
\* Between two completions the buffer holds less than one packet.
SlotIInv ==
    /\ pc \in {"peek", "read"} => UseSize(rb) \in {dataSize, 0}
    /\ pc \in {"idle", "register"} => UseSize(rb) < MaxPacketSize
    /\ received <= Window

\* When no receive completes with more than what the largest packet leaves in
\* the buffer beside its last byte, the free slot stays free: the two theorems
\* above then need no hypothesis, and RegisterRecv's longer run (it counts the
\* free slot) does no harm.
THEOREM SlotStaysFree ==
    ASSUME Window <= BufferSize + 1 - MaxPacketSize
    PROVE  Spec => []FreeSlotKept
<1>0. /\ HeaderSize \in Nat \ {0} /\ MaxPacketSize \in Nat /\ BufferSize \in Nat
      /\ HeaderSize <= MaxPacketSize /\ Window \in Nat /\ 0 < MaxPacketSize
  BY RecvPathAssumption, BufferSizeAssumption
<1>1. Init => SlotIInv
  BY <1>0 DEF Init, SlotIInv, NewBuffer, UseSize
<1>2. ReceiveIInv /\ SlotIInv /\ [Next]_vars => SlotIInv'
  <2> SUFFICES ASSUME ReceiveIInv, SlotIInv, [Next]_vars
               PROVE  SlotIInv'
    OBVIOUS
  <2>1. /\ TypeOK /\ rb \in Buffers(Byte) /\ UseSize(rb) \in Nat
        /\ (pc # "idle" => received = 0)
    BY SizesAddUp DEF ReceiveIInv, OneReceive, TypeOK
  <2>2. UseSize(Clear(rb)) = 0
    BY <2>1 DEF Clear, UseSize, Buffers
  <2>3. CASE \/ UNCHANGED vars \/ ClientFinish \/ ClientReset \/ Accept \/ RegisterRecv
             \/ \E size \in PacketSizes : ClientSend(size)
    <3>1. UNCHANGED <<rb, received, dataSize>> /\ (pc' = pc \/ (pc = "register" /\ pc' = "idle"))
      BY <2>3 DEF vars, ClientFinish, ClientReset, Accept, RegisterRecv, ClientSend,
                  client, locals
    <3>2. UseSize(rb') = UseSize(rb)
      BY <3>1
    <3> QED  BY <3>1, <3>2 DEF SlotIInv
  <2>4. ASSUME NEW n \in 1 .. Window, KernelRecv(n)
        PROVE  SlotIInv'
    <3>1. /\ rb' = [rb EXCEPT !.data = Copied(rb, SubSeq(wire, 1, n))]
          /\ received' = n /\ UNCHANGED <<pc, dataSize>>
      BY <2>4 DEF KernelRecv, locals
    <3>2. UseSize(rb') = UseSize(rb)
      BY <2>1, <3>1 DEF UseSize, Buffers
    <3> QED  BY <1>0, <3>1, <3>2 DEF SlotIInv
  <2>5. CASE OnRecv
    BY <1>0, <2>5 DEF OnRecv, SlotIInv
  <2>6. CASE RecvEnds \/ RegisterRecvFails \/ SendFailure
    <3>1. rb' = Clear(rb) /\ received' = received
      BY <2>6 DEF RecvEnds, RegisterRecvFails, SendFailure, ClearSession
    <3>2. UseSize(rb') = 0
      BY <2>2, <3>1
    <3> QED  BY <1>0, <3>1, <3>2 DEF SlotIInv
  <2>7. CASE MeasureData
    <3>1. /\ UNCHANGED <<rb, received>> /\ dataSize' = UseSize(rb)
          /\ pc' = IF UseSize(rb) < HeaderSize THEN "register" ELSE "peek"
      BY <2>7 DEF MeasureData
    <3>2. UseSize(rb') = UseSize(rb)
      BY <3>1
    <3> QED  BY <1>0, <2>1, <3>1, <3>2 DEF SlotIInv
  <2>8. CASE PeekHeader
    <3>1. /\ UNCHANGED <<received, dataSize>> /\ pc = "peek"
          /\ \/ rb' = Clear(rb) /\ pc' = "register"
             \/ rb' = rb /\ pc' = "read"
      BY <2>8 DEF PeekHeader, ClearSession
    <3>2. CASE rb' = Clear(rb) /\ pc' = "register"
      <4>1. UseSize(rb') = 0
        BY <2>2, <3>2
      <4> QED  BY <1>0, <3>1, <3>2, <4>1 DEF SlotIInv
    <3>3. CASE rb' = rb /\ pc' = "read"
      <4>1. UseSize(rb') = UseSize(rb)
        BY <3>3
      <4> QED  BY <3>1, <3>3, <4>1 DEF SlotIInv
    <3> QED  BY <3>1, <3>2, <3>3
  <2>9. CASE ReadPacket
    <3>1. UNCHANGED <<received, dataSize>> /\ pc = "read" /\ pc' \in {"register", "measure"}
      BY <2>9 DEF ReadPacket, locals
    <3>2. CASE dataSize < header
      <4>1. rb' = rb /\ header \in Nat /\ header <= MaxPacketSize
        BY <2>1, <2>9, <3>1, <3>2, RecvPathAssumption
        DEF ReadPacket, ReceiveIInv, ValidSize, TypeOK
      <4>2. UseSize(rb') = UseSize(rb) /\ UseSize(rb) < MaxPacketSize
        <5>1. dataSize \in Nat
          BY <1>0, <2>1 DEF TypeOK
        <5>2. UseSize(rb) = dataSize \/ UseSize(rb) = 0
          BY <3>1 DEF SlotIInv
        <5> QED  BY <1>0, <2>1, <3>2, <4>1, <5>1, <5>2
      <4> QED  BY <3>1, <4>2 DEF SlotIInv
    <3>3. CASE ~ (dataSize < header)
      <4>1. pc' = "measure"
        BY <2>9, <3>3 DEF ReadPacket
      <4> QED  BY <3>1, <4>1 DEF SlotIInv
    <3> QED  BY <3>2, <3>3
  <2> QED  BY <2>3, <2>4, <2>5, <2>6, <2>7, <2>8, <2>9 DEF Next
<1>3. ReceiveIInv /\ SlotIInv => FreeSlotKept
  <2> SUFFICES ASSUME ReceiveIInv, SlotIInv
               PROVE  received <= FreeSize(rb)
    BY DEF FreeSlotKept
  <2>1. /\ UseSize(rb) \in 0 .. BufferSize /\ FreeSize(rb) = BufferSize - UseSize(rb)
        /\ received \in Nat /\ (pc # "idle" => received = 0)
    BY SizesAddUp, <1>0 DEF ReceiveIInv, OneReceive, TypeOK, Capacity
  <2>2. CASE pc = "idle"
    BY <1>0, <2>1, <2>2 DEF SlotIInv
  <2>3. CASE pc # "idle"
    BY <1>0, <2>1, <2>3
  <2> QED  BY <2>2, <2>3
<1> QED  BY <1>1, <1>2, <1>3, ReceiveHolds, PTL DEF Spec

\* So, with receives that short, nothing is lost on any connection.
THEOREM SmallReceivesLoseNothing ==
    ASSUME Window <= BufferSize + 1 - MaxPacketSize
    PROVE  Spec => []StreamIntact /\ CleanCloseLosesNothing
<1>1. Spec => []FreeSlotKept
  BY SlotStaysFree
<1> QED  BY <1>1, StreamIsIntact, CleanCloseIsComplete, PTL
=============================================================================
