--------------------------- MODULE RingBufferQueue ---------------------------
(***************************************************************************)
(* The ring buffer under the methods that check their argument: Write,     *)
(* Read (which is Peek then Remove) and Clear.  It implements ByteQueue.   *)
(* A Write or a Read that is refused returns false and changes nothing     *)
(* else.                                                                   *)
(* How a session moves the write position without Write is in RecvPath.    *)
(***************************************************************************)
EXTENDS RingBuffer

CONSTANTS Item,         \* the values a byte can have
          ZeroItem      \* what resize() fills the array with

ASSUME ZeroItemAssumption == ZeroItem \in Item

VARIABLES ring,         \* the buffer
          out,          \* the bytes the last Read copied to its caller
          answer        \* which method was called last, and did it return true?

ringVars == <<ring, out, answer>>

Queue == INSTANCE ByteQueue WITH Byte <- Item, queue <- Contents(ring)

RingTypeOK ==
    /\ ring \in Buffers(Item)
    /\ out \in Seq(Item)
    /\ answer \in {"none", "put", "put refused", "taken", "take refused", "reset"}

RingInit ==
    /\ ring = NewBuffer(ZeroItem)
    /\ out = << >>
    /\ answer = "none"

WriteBytes(bytes) ==
    /\ CanWrite(ring, bytes)
    /\ ring' = Write(ring, bytes)
    /\ out' = out
    /\ answer' = "put"

WriteRefused(bytes) ==
    /\ ~ CanWrite(ring, bytes)
    /\ answer' = "put refused"
    /\ UNCHANGED <<ring, out>>

ReadBytes(len) ==
    /\ CanRead(ring, len)
    /\ out' = Peek(ring, len)
    /\ ring' = Remove(ring, len)
    /\ answer' = "taken"

ReadRefused(len) ==
    /\ ~ CanRead(ring, len)
    /\ answer' = "take refused"
    /\ UNCHANGED <<ring, out>>

ClearBuffer ==
    /\ ring' = Clear(ring)
    /\ out' = out
    /\ answer' = "reset"

RingNext ==
    \/ \E bytes \in Queue!Chunks : WriteBytes(bytes) \/ WriteRefused(bytes)
    \/ \E len \in 0 .. BufferSize : ReadBytes(len) \/ ReadRefused(len)
    \/ ClearBuffer

RingSpec == RingInit /\ [][RingNext]_ringVars

-----------------------------------------------------------------------------
\* Every step of the buffer is a step of the bounded FIFO queue: no byte is
\* lost, duplicated or reordered by the wrap of either position, a Write is
\* accepted exactly when it fits, and a Read exactly when there is that much
\* (RingBuffer::Write, Read, Peek, Remove).
ImplementsQueue == Queue!Spec
=============================================================================
