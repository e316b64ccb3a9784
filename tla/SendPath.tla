------------------------------ MODULE SendPath ------------------------------
(***************************************************************************)
(* The send queue of one session (Session::Send, RegisterSend, OnSend).    *)
(*                                                                         *)
(* Logic threads call Send, and workers serve completions with OnSend; any *)
(* of them may end up in RegisterSend, which gathers a batch under the     *)
(* lock and calls WSASend outside it.  m_isSending is what keeps two of    *)
(* them from being there at once.  Each step between two acquisitions of   *)
(* m_sendQueueMutex, and each WSASend, is an action.  A message is the     *)
(* number of the Send call that was taken, and stands for its SendBuffer   *)
(* too.                                                                    *)
(***************************************************************************)
EXTENDS Integers, Sequences, FiniteSets

CONSTANTS
    Sender,         \* the threads that call Send: the logic threads
    Worker,         \* the threads that take completions
    Limit,          \* Send refuses when more than this is queued: 5000
    BatchMax,       \* how many buffers one WSASend takes: 100
    MaxSends        \* bound: calls of Send

ASSUME SendPathAssumption ==
    /\ Sender \cap Worker = {}
    /\ Limit \in Nat
    /\ BatchMax \in Nat \ {0}
    /\ MaxSends \in Nat

VARIABLES
    taken,          \* how many messages Send took
    refused,        \* how many it refused
    queue,          \* m_sendQueue
    sendingList,    \* m_sendingList
    isSending,      \* m_isSending
    pc,             \* where each thread is in these functions
    bufs,           \* each thread's local wsaBufs
    inFlight,       \* batches of the posted WSASends, oldest first
    completed,      \* how many of their completions are queued
    wire,           \* messages the kernel put on the connection
    released,       \* how often each buffer went back to its pool
    failed          \* has a WSASend failed?

vars == <<taken, refused, queue, sendingList, isSending, pc, bufs, inFlight,
          completed, wire, released, failed>>

counts == <<taken, refused>>

Thread == Sender \cup Worker

Message == 1 .. MaxSends

-----------------------------------------------------------------------------
Init ==
    /\ taken = 0
    /\ refused = 0
    /\ queue = << >>
    /\ sendingList = << >>
    /\ isSending = FALSE
    /\ pc = [t \in Thread |-> "idle"]
    /\ bufs = [t \in Thread |-> << >>]
    /\ inFlight = << >>
    /\ completed = 0
    /\ wire = << >>
    /\ released = [m \in Message |-> 0]
    /\ failed = FALSE

GoTo(t, where) == pc' = [pc EXCEPT ![t] = where]

\* The counts once every buffer of seq went back to the pool.
ReleaseAll(seq) ==
    [m \in Message |-> IF \E i \in DOMAIN seq : seq[i] = m
                       THEN released[m] + 1
                       ELSE released[m]]

\* Mutations of Send: without the limit; every caller sends; the newest message
\* goes first.
SendUnlimited(t) ==
    /\ pc[t] = "idle"
    /\ taken + refused < MaxSends
    /\ taken' = taken + 1
    /\ queue' = Append(queue, taken')
    /\ isSending' = TRUE
    /\ IF isSending THEN pc' = pc ELSE GoTo(t, "gather")
    /\ UNCHANGED <<refused, sendingList, bufs, inFlight, completed, wire,
                   released, failed>>

SendAlways(t) ==
    /\ pc[t] = "idle"
    /\ taken + refused < MaxSends
    /\ Len(queue) <= Limit
    /\ taken' = taken + 1
    /\ queue' = Append(queue, taken')
    /\ isSending' = TRUE
    /\ GoTo(t, "gather")
    /\ UNCHANGED <<refused, sendingList, bufs, inFlight, completed, wire,
                   released, failed>>

SendNewestFirst(t) ==
    /\ pc[t] = "idle"
    /\ taken + refused < MaxSends
    /\ Len(queue) <= Limit
    /\ taken' = taken + 1
    /\ queue' = <<taken'>> \o queue
    /\ isSending' = TRUE
    /\ IF isSending THEN pc' = pc ELSE GoTo(t, "gather")
    /\ UNCHANGED <<refused, sendingList, bufs, inFlight, completed, wire,
                   released, failed>>

\* The locked part of Send: the message is queued, and the thread goes on to
\* RegisterSend when nobody is sending.
Send(t) ==
    /\ pc[t] = "idle"
    /\ taken + refused < MaxSends
    /\ Len(queue) <= Limit
    /\ taken' = taken + 1
    /\ queue' = Append(queue, taken')
    /\ isSending' = TRUE
    /\ IF isSending THEN pc' = pc ELSE GoTo(t, "gather")
    /\ UNCHANGED <<refused, sendingList, bufs, inFlight, completed, wire,
                   released, failed>>

\* Send returns false without opening a buffer.
SendRefused(t) ==
    /\ pc[t] = "idle"
    /\ taken + refused < MaxSends
    /\ Len(queue) > Limit
    /\ refused' = refused + 1
    /\ UNCHANGED <<taken, queue, sendingList, isSending, pc, bufs, inFlight,
                   completed, wire, released, failed>>

\* Mutations of the gathering: the buffers are not kept in m_sendingList; they
\* stay in the queue.
GatherUnkept(t) ==
    LET n == IF Len(queue) < BatchMax THEN Len(queue) ELSE BatchMax
    IN  /\ pc[t] = "gather"
        /\ IF queue = << >>
           THEN /\ isSending' = FALSE
                /\ GoTo(t, "idle")
                /\ UNCHANGED <<queue, bufs>>
           ELSE /\ bufs' = [bufs EXCEPT ![t] = SubSeq(queue, 1, n)]
                /\ queue' = SubSeq(queue, n + 1, Len(queue))
                /\ GoTo(t, "post")
                /\ UNCHANGED isSending
        /\ UNCHANGED <<counts, sendingList, inFlight, completed, wire, released,
                       failed>>

GatherUnpopped(t) ==
    /\ pc[t] = "gather"
    /\ queue # << >>
    /\ sendingList' = sendingList \o <<Head(queue)>>
    /\ bufs' = [bufs EXCEPT ![t] = <<Head(queue)>>]
    /\ GoTo(t, "post")
    /\ UNCHANGED <<counts, queue, isSending, inFlight, completed, wire, released,
                   failed>>

\* The locked part of RegisterSend.
Gather(t) ==
    LET n == IF Len(queue) < BatchMax THEN Len(queue) ELSE BatchMax
    IN  /\ pc[t] = "gather"
        /\ IF queue = << >>
           THEN /\ isSending' = FALSE
                /\ GoTo(t, "idle")
                /\ UNCHANGED <<queue, sendingList, bufs>>
           ELSE /\ sendingList' = sendingList \o SubSeq(queue, 1, n)
                /\ bufs' = [bufs EXCEPT ![t] = SubSeq(queue, 1, n)]
                /\ queue' = SubSeq(queue, n + 1, Len(queue))
                /\ GoTo(t, "post")
                /\ UNCHANGED isSending
        /\ UNCHANGED <<counts, inFlight, completed, wire, released, failed>>

\* Mutation: the buffers are released as soon as WSASend has been called.
PostAndRelease(t) ==
    /\ pc[t] = "post"
    /\ inFlight' = Append(inFlight, bufs[t])
    /\ bufs' = [bufs EXCEPT ![t] = << >>]
    /\ released' = ReleaseAll(sendingList)
    /\ sendingList' = << >>
    /\ GoTo(t, "idle")
    /\ UNCHANGED <<counts, queue, isSending, completed, wire, failed>>

\* WSASend takes the batch, or fails: then sending stops, with the batch left
\* in m_sendingList and whatever was queued meanwhile in the queue.
Post(t) ==
    /\ pc[t] = "post"
    /\ inFlight' = Append(inFlight, bufs[t])
    /\ bufs' = [bufs EXCEPT ![t] = << >>]
    /\ GoTo(t, "idle")
    /\ UNCHANGED <<counts, queue, sendingList, isSending, completed, wire,
                   released, failed>>

PostFails(t) ==
    /\ pc[t] = "post"
    /\ isSending' = FALSE
    /\ failed' = TRUE
    /\ bufs' = [bufs EXCEPT ![t] = << >>]
    /\ GoTo(t, "idle")
    /\ UNCHANGED <<counts, queue, sendingList, inFlight, completed, wire,
                   released>>

\* The kernel sends the oldest posted batch and queues its completion.
Transmit ==
    /\ inFlight # << >>
    /\ wire' = wire \o Head(inFlight)
    /\ inFlight' = Tail(inFlight)
    /\ completed' = completed + 1
    /\ UNCHANGED <<counts, queue, sendingList, isSending, pc, bufs, released,
                   failed>>

\* Mutation: OnSend runs without a completion of its own.
OnSendUncalled(t) ==
    /\ pc[t] = "idle"
    /\ completed' = completed - 1
    /\ released' = ReleaseAll(sendingList)
    /\ sendingList' = << >>
    /\ GoTo(t, "check")
    /\ UNCHANGED <<counts, queue, isSending, bufs, inFlight, wire, failed>>

\* A worker takes the completion and releases the buffers of m_sendingList,
\* without the lock.
OnSend(t) ==
    /\ pc[t] = "idle"
    /\ completed > 0
    /\ completed' = completed - 1
    /\ released' = ReleaseAll(sendingList)
    /\ sendingList' = << >>
    /\ GoTo(t, "check")
    /\ UNCHANGED <<counts, queue, isSending, bufs, inFlight, wire, failed>>

\* Mutation: sending stops whatever was queued meanwhile.
CheckNothing(t) ==
    /\ pc[t] = "check"
    /\ isSending' = FALSE
    /\ GoTo(t, "idle")
    /\ UNCHANGED <<counts, queue, sendingList, bufs, inFlight, completed, wire,
                   released, failed>>

\* The locked part of OnSend: stop, or send what was queued meanwhile.
CheckQueue(t) ==
    /\ pc[t] = "check"
    /\ IF queue = << >>
       THEN isSending' = FALSE /\ GoTo(t, "idle")
       ELSE isSending' = isSending /\ GoTo(t, "gather")
    /\ UNCHANGED <<counts, queue, sendingList, bufs, inFlight, completed, wire,
                   released, failed>>

Next ==
    \/ \E t \in Sender : Send(t) \/ SendRefused(t)
    \/ \E t \in Thread : Gather(t) \/ Post(t) \/ PostFails(t)
    \/ Transmit
    \/ \E t \in Worker : OnSend(t) \/ CheckQueue(t)

Spec == Init /\ [][Next]_vars

\* The kernel sends what is posted, some worker takes every completion, and a
\* thread inside these functions is scheduled until it leaves them.
Fairness ==
    /\ WF_vars(Transmit)
    /\ WF_vars(\E t \in Worker : OnSend(t))
    /\ \A t \in Thread : WF_vars(Gather(t) \/ Post(t) \/ PostFails(t))
    /\ \A t \in Worker : WF_vars(CheckQueue(t))

FairSpec == Spec /\ Fairness

-----------------------------------------------------------------------------
Batch == Seq(Message)

TypeOK ==
    /\ taken \in 0 .. MaxSends
    /\ refused \in 0 .. MaxSends
    /\ queue \in Seq(Message)
    /\ sendingList \in Seq(Message)
    /\ isSending \in BOOLEAN
    /\ pc \in [Thread -> {"idle", "gather", "post", "check"}]
    /\ bufs \in [Thread -> Batch]
    /\ inFlight \in Seq(Batch)
    /\ completed \in Nat
    /\ wire \in Seq(Message)
    /\ released \in [Message -> Nat]
    /\ failed \in BOOLEAN

\* The threads between two steps of RegisterSend or OnSend.
Busy == {t \in Thread : pc[t] # "idle"}

\* m_isSending is true exactly while somebody is responsible for the queue,
\* and there is only one: a thread in RegisterSend or OnSend, a posted
\* WSASend, or its completion.  So the one OVERLAPPED and the unlocked
\* m_sendingList of the session are never used by two at once.
OneSendAtATime ==
    /\ \A t, u \in Busy : t = u
    /\ Len(inFlight) + completed <= 1
    /\ Busy # {} => inFlight = << >> /\ completed = 0
    /\ isSending <=> \/ Busy # {}
                     \/ inFlight # << >>
                     \/ completed > 0

\* A queued message never waits with nobody to send it, unless a WSASend has
\* failed: OnSend and Send agree under the lock on who goes on
\* (Session.cpp:37-39 against 123-128).
NoOrphanInQueue == queue # << >> /\ ~ failed => isSending

\* The kernel never sends from a buffer that has gone back to its pool, where
\* another session may have taken it (m_sendingList keeps the buffers until
\* the completion, Session.cpp:67).
NoReleaseInFlight ==
    /\ \A i \in DOMAIN inFlight : \A k \in DOMAIN inFlight[i] :
          released[inFlight[i][k]] = 0
    /\ \A t \in Thread : \A k \in DOMAIN bufs[t] : released[bufs[t][k]] = 0

\* No buffer leaks and none is released twice: a message taken is in the
\* queue, or in m_sendingList, or its buffer has been released, once.
EveryBufferInOnePlace ==
    \A m \in 1 .. taken :
        LET Copies(seq) == Cardinality({i \in DOMAIN seq : seq[i] = m})
        IN  Copies(queue) + Copies(sendingList) + released[m] = 1

\* Backpressure: the queue never holds more than one message over the limit,
\* whoever fills it and however long the connection stalls (Session.cpp:24).
QueueBounded == Len(queue) <= Limit + 1

\* Messages reach the connection in the order Send took them, each at most
\* once, whatever threads sent them: the batch being posted or in flight, then
\* the queue, is the abstract channel's pending sequence.
Outstanding ==
    IF inFlight # << >> THEN Head(inFlight)
    ELSE IF \E t \in Thread : pc[t] = "post"
         THEN bufs[CHOOSE t \in Thread : pc[t] = "post"]
         ELSE << >>

Channel == INSTANCE SendChannel WITH pending <- Outstanding \o queue

ImplementsChannel == Channel!Spec

\* Every message taken is sent, unless a WSASend fails.
TakenIsSent ==
    \A m \in Message :
        (\E i \in DOMAIN queue : queue[i] = m)
            ~> (failed \/ \E i \in DOMAIN wire : wire[i] = m)
=============================================================================
