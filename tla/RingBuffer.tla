----------------------------- MODULE RingBuffer -----------------------------
(***************************************************************************)
(* The circular receive buffer of a session (class RingBuffer).            *)
(*                                                                         *)
(* A buffer is a record of the array m_buffer and the two positions; each  *)
(* method of the class is an operator on such a record.  One slot of the   *)
(* array is meant to stay empty, so that equal positions mean "empty" and  *)
(* never "full".  What a byte is, is left to the modules that use this     *)
(* one.                                                                    *)
(***************************************************************************)
EXTENDS Integers, Sequences

CONSTANT BufferSize     \* constructor argument: 8192 in Session::Session

ASSUME BufferSizeAssumption == BufferSize \in Nat \ {0}

Capacity == BufferSize + 1                              \* m_capacity

Positions == 0 .. BufferSize

Buffers(Byte) ==
    [data : [Positions -> Byte], readPos : Positions, writePos : Positions]

NewBuffer(byte) ==
    [data |-> [i \in Positions |-> byte], readPos |-> 0, writePos |-> 0]

UseSize(rb) ==
    IF rb.writePos >= rb.readPos
    THEN rb.writePos - rb.readPos
    ELSE (Capacity - rb.readPos) + rb.writePos

FreeSize(rb) == Capacity - UseSize(rb) - 1

\* Mutation: the last slot of the array, or before the read position, is never
\* used.
ContinuousFreeSizeTooShort(rb) ==
    IF rb.writePos >= rb.readPos
    THEN Capacity - rb.writePos - 1
    ELSE rb.readPos - rb.writePos - 1

\* The longest run of slots from writePos on that one WSARecv may fill.
ContinuousFreeSize(rb) ==
    IF rb.writePos >= rb.readPos
    THEN Capacity - rb.writePos
    ELSE rb.readPos - rb.writePos - 1

\* Mutation: the write position does not wrap.
MoveWritePosStraight(rb, len) == [rb EXCEPT !.writePos = @ + len]

MoveWritePos(rb, len) == [rb EXCEPT !.writePos = (@ + len) % Capacity]

Remove(rb, len) == [rb EXCEPT !.readPos = (@ + len) % Capacity]

Clear(rb) == [rb EXCEPT !.readPos = 0, !.writePos = 0]

\* The array once bytes lie from writePos to the end of the array, and what
\* does not fit there from slot 0 on: the two memcpy calls of Write.
Copied(rb, bytes) ==
    LET back == Capacity - rb.writePos
    IN  [i \in Positions |->
            IF i >= rb.writePos /\ i - rb.writePos < Len(bytes)
            THEN bytes[i - rb.writePos + 1]
            ELSE IF i < Len(bytes) - back THEN bytes[back + i + 1]
                                          ELSE rb.data[i]]

\* Mutation: the slot that tells full from empty is used too.
CanWriteLastSlot(rb, bytes) == FreeSize(rb) + 1 >= Len(bytes)

CanWrite(rb, bytes) == FreeSize(rb) >= Len(bytes)

Write(rb, bytes) ==
    MoveWritePos([rb EXCEPT !.data = Copied(rb, bytes)], Len(bytes))

CanRead(rb, len) == UseSize(rb) >= len

\* The next len bytes, in two runs when they pass the end of the array.
Peek(rb, len) ==
    LET back == Capacity - rb.readPos
    IN  [k \in 1 .. len |-> IF k <= back THEN rb.data[rb.readPos + k - 1]
                                         ELSE rb.data[k - back - 1]]

\* What the buffer holds, oldest byte first.
Contents(rb) == Peek(rb, UseSize(rb))
=============================================================================
