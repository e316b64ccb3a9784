------------------------------ MODULE ByteQueue ------------------------------
(***************************************************************************)
(* What a receive buffer promises its user: a bounded first-in first-out   *)
(* queue of bytes that takes what fits, gives what is there, and refuses   *)
(* nothing else.  out is what the last Take returned, answer what the last *)
(* call was and whether it was refused.                                    *)
(***************************************************************************)
EXTENDS Integers, Sequences

CONSTANTS Byte,         \* the values a byte can have
          BufferSize    \* how many bytes the queue can hold

VARIABLES queue, out, answer

Chunks == UNION {[1 .. n -> Byte] : n \in 0 .. BufferSize}

Init ==
    /\ queue = << >>
    /\ out = << >>
    /\ answer = "none"

Fits(bytes) == Len(queue) + Len(bytes) <= BufferSize

IsThere(len) == len <= Len(queue)

Put(bytes) ==
    /\ Fits(bytes)
    /\ queue' = queue \o bytes
    /\ out' = out
    /\ answer' = "put"

Take(len) ==
    /\ IsThere(len)
    /\ out' = SubSeq(queue, 1, len)
    /\ queue' = SubSeq(queue, len + 1, Len(queue))
    /\ answer' = "taken"

RefusePut(bytes) ==
    /\ ~ Fits(bytes)
    /\ answer' = "put refused"
    /\ UNCHANGED <<queue, out>>

RefuseTake(len) ==
    /\ ~ IsThere(len)
    /\ answer' = "take refused"
    /\ UNCHANGED <<queue, out>>

Reset ==
    /\ queue' = << >>
    /\ out' = out
    /\ answer' = "reset"

Next ==
    \/ \E bytes \in Chunks : Put(bytes) \/ RefusePut(bytes)
    \/ \E len \in 0 .. BufferSize : Take(len) \/ RefuseTake(len)
    \/ Reset

Spec == Init /\ [][Next]_<<queue, out, answer>>
=============================================================================
