----------------------------- MODULE SendChannel -----------------------------
(***************************************************************************)
(* What Session::Send promises its callers on one connection: the messages *)
(* it takes reach the connection in the order it took them, each at most   *)
(* once, and only a failed WSASend may drop some.                          *)
(***************************************************************************)
EXTENDS Integers, Sequences

CONSTANT Message

VARIABLES pending,      \* taken and not yet on the connection
          wire          \* on the connection, oldest first

Init ==
    /\ pending = << >>
    /\ wire = << >>

Take(m) ==
    /\ pending' = Append(pending, m)
    /\ wire' = wire

\* The oldest n pending messages leave, all of them onto the connection or,
\* when the WSASend fails, all of them lost.
Transmit(n) ==
    /\ wire' = wire \o SubSeq(pending, 1, n)
    /\ pending' = SubSeq(pending, n + 1, Len(pending))

Drop(n) ==
    /\ wire' = wire
    /\ pending' = SubSeq(pending, n + 1, Len(pending))

Next ==
    \/ \E m \in Message : Take(m)
    \/ \E n \in 1 .. Len(pending) : Transmit(n) \/ Drop(n)

Spec == Init /\ [][Next]_<<pending, wire>>
=============================================================================
