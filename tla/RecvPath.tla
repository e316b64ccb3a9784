------------------------------ MODULE RecvPath ------------------------------
(***************************************************************************)
(* From the bytes a client sends to the jobs of the logic threads: the     *)
(* posted WSARecv, its completion (IocpCore::Dispatch, Session::OnRecv),   *)
(* the parser (Session::ProcessPackets), the next WSARecv (RegisterRecv)   *)
(* and the connections that follow each other on one session.              *)
(*                                                                         *)
(* A session has at most one WSARecv posted, so one worker thread at a     *)
(* time is in its receive handler; pc says where.  When SendFails is TRUE, *)
(* another worker may meanwhile clear the session because a WSASend on it  *)
(* failed.  A byte is the connection, packet and offset it was sent as: a  *)
(* packet's first HeaderSize bytes tell its size.                          *)
(***************************************************************************)
EXTENDS RingBuffer

CONSTANTS
    HeaderSize,         \* sizeof(PacketHeader)
    MaxPacketSize,      \* the largest size ProcessPackets accepts: 4096
    PacketSizes,        \* the sizes a client may put in a header
    MaxPackets,         \* bound: packets sent on one connection
    MaxConns,           \* bound: connections accepted by the session
    Window,             \* bound: bytes under way to the session
    SendFails           \* may a failed WSASend clear the session?

ASSUME RecvPathAssumption ==
    /\ HeaderSize \in Nat \ {0}
    /\ MaxPacketSize \in HeaderSize .. BufferSize
    /\ PacketSizes \subseteq Nat
    /\ {MaxPackets, MaxConns, Window} \subseteq Nat
    /\ SendFails \in BOOLEAN

VARIABLES
    rb,             \* m_recvBuffer
    conn,           \* which connection the session is on
    socket,         \* "connected", or "none" after Clear
    peer,           \* what the client did: "open", "finished" or "reset"
    sizes,          \* header sizes of the packets sent on this connection
    wire,           \* bytes sent on it and not received yet
    recvLen,        \* length of the posted WSARecv, 0 if none is posted
    received,       \* bytes of its queued completion, 0 if none is queued
    pc,             \* where the worker in the receive handler is
    dataSize,       \* local of ProcessPackets: GetUseSize()
    header,         \* local of ProcessPackets: header.size
    jobs            \* bytes of each job pushed since the last accept

vars == <<rb, conn, socket, peer, sizes, wire, recvLen, received, pc,
          dataSize, header, jobs>>

client == <<peer, sizes, wire>>
locals == <<dataSize, header>>

-----------------------------------------------------------------------------
ValidSize(size) == size <= MaxPacketSize /\ size >= HeaderSize

\* What a client sends for a header that says size: no body if it is wrong.
PacketLen(size) == IF ValidSize(size) THEN size ELSE HeaderSize

PacketBytes(c, p, size) ==
    [k \in 1 .. PacketLen(size) |-> [conn |-> c, pkt |-> p, off |-> k]]

\* What resize() fills the buffer with, before any connection.
NoByte == [conn |-> 0, pkt |-> 0, off |-> 0]

Byte == {NoByte} \cup
        [conn : 1 .. MaxConns, pkt : 1 .. MaxPackets,
         off : 1 .. HeaderSize + MaxPacketSize]

\* The sizes a header read from these bytes can show.  Bytes that are not a
\* header of this connection, or none at all (Peek returned false and left
\* the local unset), can show anything.
ShownSizes(bytes) ==
    IF /\ Len(bytes) = HeaderSize
       /\ \E p \in DOMAIN sizes :
             bytes = SubSeq(PacketBytes(conn, p, sizes[p]), 1, HeaderSize)
    THEN {sizes[bytes[1].pkt]}
    ELSE PacketSizes

\* The result of Peek or Read into a local: nothing when it returns false.
PeekIfThere(buffer, len) ==
    IF CanRead(buffer, len) THEN Peek(buffer, len) ELSE << >>

RemoveIfThere(buffer, len) ==
    IF CanRead(buffer, len) THEN Remove(buffer, len) ELSE buffer

-----------------------------------------------------------------------------
Init ==
    /\ rb = NewBuffer(NoByte)
    /\ conn = 0
    /\ socket = "none"
    /\ peer = "open"
    /\ sizes = << >>
    /\ wire = << >>
    /\ recvLen = 0
    /\ received = 0
    /\ pc = "idle"
    /\ dataSize = 0
    /\ header = 0
    /\ jobs = << >>

\* Mutation: Clear leaves the buffer as it is.
ClearSocketOnly ==
    /\ rb' = rb
    /\ socket' = "none"

\* The session's socket is closed and its buffer emptied (Session::Clear, as
\* far as the receive path sees it).  The caller then posts a new AcceptEx on
\* the session or releases it; either way the next connection is Accept's.
ClearSession ==
    /\ rb' = Clear(rb)
    /\ socket' = "none"

\* The client sends a packet.
ClientSend(size) ==
    LET bytes == PacketBytes(conn, Len(sizes) + 1, size)
    IN  /\ socket = "connected"
        /\ peer = "open"
        /\ Len(sizes) < MaxPackets
        /\ Len(wire) + Len(bytes) <= Window
        /\ sizes' = Append(sizes, size)
        /\ wire' = wire \o bytes
        /\ UNCHANGED <<rb, conn, socket, peer, recvLen, received, pc, locals,
                       jobs>>

\* The client closes its socket, or its connection is reset and the bytes
\* under way are lost.
ClientFinish ==
    /\ socket = "connected"
    /\ peer = "open"
    /\ peer' = "finished"
    /\ UNCHANGED <<rb, conn, socket, sizes, wire, recvLen, received, pc,
                   locals, jobs>>

ClientReset ==
    /\ socket = "connected"
    /\ peer = "open"
    /\ peer' = "reset"
    /\ wire' = << >>
    /\ UNCHANGED <<rb, conn, socket, sizes, recvLen, received, pc, locals,
                   jobs>>

-----------------------------------------------------------------------------
\* The length RegisterRecv posts.  It takes what lies in one run, and gives up
\* the session only when there is no run and no room for a header either.
BufferFull ==
    /\ ContinuousFreeSize(rb) <= 0
    /\ FreeSize(rb) < HeaderSize

\* AcceptEx completes: OnAccept posts the first WSARecv.  (That the AcceptEx
\* may be posted, and complete, while a handler of the last connection still
\* runs is left to SessionLifecycle.)
Accept ==
    /\ socket = "none"
    /\ pc = "idle"
    /\ recvLen = 0
    /\ received = 0
    /\ conn < MaxConns
    /\ conn' = conn + 1
    /\ socket' = "connected"
    /\ peer' = "open"
    /\ sizes' = << >>
    /\ wire' = << >>
    /\ recvLen' = ContinuousFreeSize(rb)
    /\ jobs' = << >>
    /\ UNCHANGED <<rb, received, pc, locals>>

\* The kernel copies n bytes to the write position and queues the completion.
KernelRecv(n) ==
    /\ recvLen > 0
    /\ socket = "connected"
    /\ n \in 1 .. recvLen
    /\ n <= Len(wire)
    /\ rb' = [rb EXCEPT !.data = Copied(rb, SubSeq(wire, 1, n))]
    /\ wire' = SubSeq(wire, n + 1, Len(wire))
    /\ recvLen' = 0
    /\ received' = n
    /\ UNCHANGED <<conn, socket, peer, sizes, pc, locals, jobs>>

\* A worker takes the completion: OnRecv moves the write position.
OnRecv ==
    /\ pc = "idle"
    /\ received > 0
    /\ rb' = MoveWritePos(rb, received)
    /\ received' = 0
    /\ pc' = "measure"
    /\ UNCHANGED <<conn, socket, client, recvLen, locals, jobs>>

\* The WSARecv completes with 0 bytes because the client closed, or fails
\* because the connection was reset or the socket closed: Dispatch clears the
\* session.
RecvEnds ==
    /\ recvLen > 0
    /\ pc = "idle"
    /\ \/ socket = "connected" /\ peer = "finished" /\ wire = << >>
       \/ socket = "connected" /\ peer = "reset"
       \/ socket = "none"
    /\ recvLen' = 0
    /\ ClearSession
    /\ UNCHANGED <<conn, client, received, pc, locals, jobs>>

-----------------------------------------------------------------------------
\* Mutation: a packet that is only a header waits for more.
MeasureDataStrictly ==
    /\ pc = "measure"
    /\ dataSize' = UseSize(rb)
    /\ pc' = IF UseSize(rb) <= HeaderSize THEN "register" ELSE "peek"
    /\ UNCHANGED <<rb, conn, socket, client, recvLen, received, header, jobs>>

\* One turn of the loop of ProcessPackets: how much is there ...
MeasureData ==
    /\ pc = "measure"
    /\ dataSize' = UseSize(rb)
    /\ pc' = IF UseSize(rb) < HeaderSize THEN "register" ELSE "peek"
    /\ UNCHANGED <<rb, conn, socket, client, recvLen, received, header, jobs>>

\* ... what the header says; a wrong size clears the session ...
PeekHeader ==
    /\ pc = "peek"
    /\ header' \in ShownSizes(PeekIfThere(rb, HeaderSize))
    /\ \/ /\ ~ ValidSize(header')
          /\ ClearSession
          /\ pc' = "register"
       \/ /\ ValidSize(header')
          /\ UNCHANGED <<rb, socket>>
          /\ pc' = "read"
    /\ UNCHANGED <<conn, client, recvLen, received, dataSize, jobs>>

\* Mutations: ProcessPackets takes one packet for each completion; does not
\* wait for the whole packet; takes header.size for the size of the body.
ReadHeaderSizedBody ==
    /\ pc = "read"
    /\ IF dataSize < header
       THEN pc' = "register" /\ UNCHANGED <<rb, jobs>>
       ELSE LET skipped == RemoveIfThere(rb, HeaderSize)
            IN  /\ jobs' = Append(jobs, PeekIfThere(rb, HeaderSize)
                                        \o PeekIfThere(skipped, header))
                /\ rb' = RemoveIfThere(skipped, header)
                /\ pc' = "measure"
    /\ UNCHANGED <<conn, socket, client, recvLen, received, locals>>

ReadOnePacket ==
    /\ pc = "read"
    /\ pc' = "register"
    /\ IF dataSize < header
       THEN UNCHANGED <<rb, jobs>>
       ELSE LET skipped == RemoveIfThere(rb, HeaderSize)
                body    == header - HeaderSize
            IN  /\ jobs' = Append(jobs, PeekIfThere(rb, HeaderSize)
                                        \o PeekIfThere(skipped, body))
                /\ rb' = RemoveIfThere(skipped, body)
    /\ UNCHANGED <<conn, socket, client, recvLen, received, locals>>

\* ... and, when the whole packet is there, a job with its bytes.
ReadPacket ==
    /\ pc = "read"
    /\ IF dataSize < header
       THEN pc' = "register" /\ UNCHANGED <<rb, jobs>>
       ELSE LET skipped == RemoveIfThere(rb, HeaderSize)
                body    == header - HeaderSize
            IN  /\ jobs' = Append(jobs, PeekIfThere(rb, HeaderSize)
                                        \o PeekIfThere(skipped, body))
                /\ rb' = RemoveIfThere(skipped, body)
                /\ pc' = "measure"
    /\ UNCHANGED <<conn, socket, client, recvLen, received, locals>>

\* The next WSARecv.
RegisterRecv ==
    /\ pc = "register"
    /\ ~ BufferFull
    /\ socket = "connected"
    /\ recvLen' = ContinuousFreeSize(rb)
    /\ pc' = "idle"
    /\ UNCHANGED <<rb, conn, socket, client, received, locals, jobs>>

\* RegisterRecv finds no room, or WSARecv fails because the connection was
\* reset or the session has no connected socket any more: the session is
\* cleared and released.
RegisterRecvFails ==
    /\ pc = "register"
    /\ BufferFull \/ socket = "none" \/ peer = "reset"
    /\ ClearSession
    /\ pc' = "idle"
    /\ UNCHANGED <<conn, client, recvLen, received, locals, jobs>>

\* Another worker takes the failed completion of a WSASend: Dispatch clears
\* the session whatever its receive handler is doing.
SendFailure ==
    /\ SendFails
    /\ socket = "connected"
    /\ ClearSession
    /\ UNCHANGED <<conn, client, recvLen, received, pc, locals, jobs>>

Next ==
    \/ \E size \in PacketSizes : ClientSend(size)
    \/ ClientFinish
    \/ ClientReset
    \/ Accept
    \/ \E n \in 1 .. Window : KernelRecv(n)
    \/ OnRecv
    \/ RecvEnds
    \/ MeasureData
    \/ PeekHeader
    \/ ReadPacket
    \/ RegisterRecv
    \/ RegisterRecvFails
    \/ SendFailure

Spec == Init /\ [][Next]_vars

\* The kernel delivers what was sent, and workers serve every completion and
\* run their handlers to the end.
Fairness ==
    /\ WF_vars(\E n \in 1 .. Window : KernelRecv(n))
    /\ WF_vars(OnRecv)
    /\ WF_vars(RecvEnds)
    /\ WF_vars(MeasureData \/ PeekHeader \/ ReadPacket)
    /\ WF_vars(RegisterRecv \/ RegisterRecvFails)

FairSpec == Spec /\ Fairness

-----------------------------------------------------------------------------
TypeOK ==
    /\ rb \in Buffers(Byte)
    /\ conn \in 0 .. MaxConns
    /\ socket \in {"none", "connected"}
    /\ peer \in {"open", "finished", "reset"}
    /\ sizes \in Seq(PacketSizes)
    /\ wire \in Seq(Byte)
    /\ recvLen \in 0 .. Capacity
    /\ received \in 0 .. Capacity
    /\ pc \in {"idle", "measure", "peek", "read", "register"}
    /\ dataSize \in 0 .. BufferSize
    /\ header \in PacketSizes \cup {0}
    /\ jobs \in Seq(Seq(Byte))

\* The packets sent on the current connection, and the order of their bytes.
SentPackets == [p \in DOMAIN sizes |-> PacketBytes(conn, p, sizes[p])]

FirstOf(p) == [conn |-> conn, pkt |-> p, off |-> 1]
LastOf(p) == [conn |-> conn, pkt |-> p, off |-> PacketLen(sizes[p])]

After(b) == IF b.off < PacketLen(sizes[b.pkt]) THEN [b EXCEPT !.off = @ + 1]
                                               ELSE FirstOf(b.pkt + 1)

\* The bytes that were sent and are in no job yet: in the buffer, in a
\* completion that no worker has taken yet, and on the wire.
Left == Contents(MoveWritePos(rb, received)) \o wire

\* While a connection is open no byte is lost, repeated or put out of place
\* between the client and the logic threads, however the stream is cut into
\* completions, wherever the buffer wraps, and whatever another worker's Clear
\* did to the last connection's handler (Session::OnRecv and ProcessPackets
\* over RingBuffer).  The jobs are the first packets sent, whole, in order and
\* once; what is left begins with the next packet, goes on with the byte sent
\* after each byte, and ends with the last byte sent.
StreamIntact ==
    socket = "connected" =>
        /\ Len(jobs) <= Len(sizes)
        /\ \A p \in DOMAIN jobs : ValidSize(sizes[p]) /\ jobs[p] = SentPackets[p]
        /\ Left # << >> => Left[1] = FirstOf(Len(jobs) + 1)
        /\ \A i \in 1 .. Len(Left) - 1 :
              Left[i].pkt \in DOMAIN sizes /\ Left[i + 1] = After(Left[i])
        /\ peer # "reset" =>
              IF Left = << >> THEN Len(jobs) = Len(sizes)
              ELSE Len(jobs) < Len(sizes) /\ Left[Len(Left)] = LastOf(Len(sizes))

\* A WSARecv is never posted with length 0: it would complete at once with 0
\* bytes and Dispatch would take that for a closed connection
\* (Session::RegisterRecv; IocpCore::Dispatch's bytesTransferred test).  So a
\* connected session is always either waiting for bytes or in its handler.
RecvPostedWhileConnected ==
    socket = "connected" => (pc = "idle" <=> recvLen + received > 0)

\* Nothing of an earlier connection is left in the buffer when a WSARecv is
\* posted for the next one (Session::Clear before the session is used again).
BufferIsOfThisConnection ==
    socket = "connected" =>
        \A k \in DOMAIN Contents(rb) : Contents(rb)[k].conn = conn

\* A client that closes in good order loses nothing, unless a send to it failed:
\* when the WSARecv reports the close, every packet it sent on the connection
\* has become a job.
CleanCloseLosesNothing ==
    [][ /\ socket = "connected" /\ socket' = "none"
        /\ peer = "finished" /\ ~ SendFailure
        /\ \A p \in DOMAIN sizes : ValidSize(sizes[p])
        => jobs = SentPackets ]_vars

\* Every packet sent on a connection before a wrong header becomes a job, unless
\* the connection ends.
PacketsBecomeJobs ==
    \A n \in 1 .. MaxPackets :
        (/\ socket = "connected" /\ n \in DOMAIN sizes
         /\ \A p \in 1 .. n : ValidSize(sizes[p]))
            ~> (Len(jobs) >= n \/ socket = "none")

-----------------------------------------------------------------------------
\* Statements that the repository makes and the code does not keep: README.md
\* says under "Known deviations" what happens instead.

\* ProcessPackets never hands over less than a packet: every job's bytes are
\* the consecutive bytes of one packet, from its first one.
OnlyWholePackets ==
    \A i \in DOMAIN jobs :
        /\ jobs[i] # << >>
        /\ \A k \in DOMAIN jobs[i] :
              jobs[i][k] = [conn |-> jobs[i][1].conn, pkt |-> jobs[i][1].pkt,
                            off |-> k]

\* What is received always leaves the free slot free (RingBuffer.cpp:6).  Where
\* it does not, the buffer looks empty.
FreeSlotKept == received <= FreeSize(rb)
=============================================================================
