---------------------------- MODULE SendTeardown ----------------------------
(***************************************************************************)
(* The send path of a session while other workers clear it and the session *)
(* is used again for the next connection (Session::Clear, called by        *)
(* IocpCore::Dispatch when the WSARecv or a WSASend of the session ends).  *)
(*                                                                         *)
(* Clear takes m_sendQueueMutex; the loop of OnSend over m_sendingList and *)
(* the WSASend of RegisterSend run outside it.  So OnSend is two steps     *)
(* here: release the buffers, then empty the list.  A message belongs to   *)
(* the connection it was taken on.                                         *)
(***************************************************************************)
EXTENDS SendPath

CONSTANT MaxConns       \* bound: connections on the session

ASSUME MaxConnsAssumption == MaxConns \in Nat \ {0}

VARIABLES
    conn,           \* the connection the session is on or was on last
    open,           \* is m_socket connected?
    recvPosted,     \* is a WSARecv posted on it?
    aborted,        \* queued failed completions of WSASends
    takenOn,        \* the connection each message was taken on
    sentOn          \* the connections each message was put on

allVars == <<vars, conn, open, recvPosted, aborted, takenOn, sentOn>>

session == <<conn, open, recvPosted>>
history == <<takenOn, sentOn>>

TeardownInit ==
    /\ Init
    /\ conn = 1
    /\ open = TRUE
    /\ recvPosted = TRUE
    /\ aborted = 0
    /\ takenOn = [m \in Message |-> 0]
    /\ sentOn = [m \in Message |-> {}]

-----------------------------------------------------------------------------
\* Mutation: the queue is released and not emptied.
ClearWithoutEmptying ==
    /\ open' = FALSE
    /\ queue' = queue
    /\ sendingList' = << >>
    /\ released' = ReleaseAll(queue \o sendingList)
    /\ isSending' = FALSE

\* Session::Clear: the socket is closed, every buffer still held is released
\* and sending stops.
ClearSession ==
    /\ open' = FALSE
    /\ queue' = << >>
    /\ sendingList' = << >>
    /\ released' = ReleaseAll(queue \o sendingList)
    /\ isSending' = FALSE

\* The client disconnects: the WSARecv completes and its worker clears the
\* session.
RecvEnds(t) ==
    /\ pc[t] = "idle"
    /\ recvPosted
    /\ recvPosted' = FALSE
    /\ ClearSession
    /\ UNCHANGED <<counts, pc, bufs, inFlight, completed, wire, failed, conn,
                   aborted, history>>

\* The AcceptEx that Dispatch posted after Clear completes, and OnAccept posts
\* the first WSARecv.
Accept(t) ==
    /\ pc[t] = "idle"
    /\ ~ open /\ ~ recvPosted
    /\ conn < MaxConns
    /\ conn' = conn + 1
    /\ open' = TRUE
    /\ recvPosted' = TRUE
    /\ UNCHANGED <<vars, aborted, history>>

\* Send, on whatever connection the session is now.
TakeMessage(t) ==
    /\ Send(t)
    /\ takenOn' = [takenOn EXCEPT ![taken'] = conn]
    /\ UNCHANGED <<session, aborted, sentOn>>

\* WSASend uses the socket the session has when it is called: it fails on one
\* that is closed.
PostBatch(t) ==
    /\ open
    /\ Post(t)
    /\ sentOn' = [m \in Message |->
                    IF \E k \in DOMAIN bufs[t] : bufs[t][k] = m
                    THEN sentOn[m] \cup {conn} ELSE sentOn[m]]
    /\ UNCHANGED <<session, aborted, takenOn>>

PostBatchFails(t) ==
    /\ ~ open
    /\ PostFails(t)
    /\ UNCHANGED <<session, aborted, history>>

\* A WSASend whose socket was closed completes as failed, and its worker
\* clears the session again.
Abort ==
    /\ inFlight # << >>
    /\ ~ open \/ sentOn[Head(inFlight)[1]] # {conn}
    /\ inFlight' = Tail(inFlight)
    /\ aborted' = aborted + 1
    /\ UNCHANGED <<counts, queue, sendingList, isSending, pc, bufs, completed,
                   wire, released, failed, session, history>>

SendEnds(t) ==
    /\ pc[t] = "idle"
    /\ aborted > 0
    /\ aborted' = aborted - 1
    /\ ClearSession
    /\ UNCHANGED <<counts, pc, bufs, inFlight, completed, wire, failed, conn,
                   recvPosted, history>>

\* The two steps of OnSend outside the lock.
ReleaseSent(t) ==
    /\ pc[t] = "idle"
    /\ completed > 0
    /\ completed' = completed - 1
    /\ released' = ReleaseAll(sendingList)
    /\ GoTo(t, "forget")
    /\ UNCHANGED <<counts, queue, sendingList, isSending, bufs, inFlight, wire,
                   failed, session, aborted, history>>

ForgetSent(t) ==
    /\ pc[t] = "forget"
    /\ sendingList' = << >>
    /\ GoTo(t, "check")
    /\ UNCHANGED <<counts, queue, isSending, bufs, inFlight, completed, wire,
                   released, failed, session, aborted, history>>

\* The steps of the send path that Clear does not change.
Unchanged(A) == A /\ UNCHANGED <<session, aborted, history>>

TeardownNext ==
    \/ \E t \in Sender : TakeMessage(t) \/ Unchanged(SendRefused(t))
    \/ \E t \in Thread :
          Unchanged(Gather(t)) \/ PostBatch(t) \/ PostBatchFails(t)
    \/ \E t \in Worker :
          \/ ReleaseSent(t) \/ ForgetSent(t) \/ Unchanged(CheckQueue(t))
          \/ RecvEnds(t) \/ SendEnds(t) \/ Accept(t)
    \/ Unchanged(Transmit)
    \/ Abort

TeardownSpec == TeardownInit /\ [][TeardownNext]_allVars

\* The kernel sends or fails what is posted, some worker takes every completion
\* of a WSASend, and a thread inside these functions leaves them.  Nothing
\* makes a client disconnect.
TeardownFairness ==
    /\ WF_allVars(Unchanged(Transmit) \/ Abort)
    /\ WF_allVars(\E t \in Worker : ReleaseSent(t) \/ SendEnds(t))
    /\ \A t \in Thread : WF_allVars(\/ Unchanged(Gather(t)) \/ PostBatch(t)
                                    \/ PostBatchFails(t))
    /\ \A t \in Worker : WF_allVars(ForgetSent(t) \/ Unchanged(CheckQueue(t)))

FairTeardownSpec == TeardownSpec /\ TeardownFairness

-----------------------------------------------------------------------------
TeardownTypeOK ==
    /\ taken \in Nat /\ refused \in Nat /\ taken + refused <= MaxSends
    /\ queue \in Seq(Message)
    /\ sendingList \in Seq(Message)
    /\ isSending \in BOOLEAN
    /\ pc \in [Thread -> {"idle", "gather", "post", "forget", "check"}]
    /\ bufs \in [Thread -> Seq(Message)]
    /\ inFlight \in Seq(Seq(Message))
    /\ completed \in Nat
    /\ wire \in Seq(Message)
    /\ released \in [Message -> Nat]
    /\ failed \in BOOLEAN
    /\ conn \in 1 .. MaxConns
    /\ open \in BOOLEAN /\ recvPosted \in BOOLEAN
    /\ aborted \in Nat
    /\ takenOn \in [Message -> 0 .. MaxConns]
    /\ sentOn \in [Message -> SUBSET (1 .. MaxConns)]

\* A message still in the queue has its buffer to itself: neither a Clear nor
\* an OnSend that runs meanwhile has given it back, because the queue is only
\* touched under the lock (Session.cpp:21, 54 and 190).
QueuedBuffersAreOurs ==
    \A i \in DOMAIN queue : released[queue[i]] = 0

\* Even when two threads end up in RegisterSend after a Clear, no message is
\* put on a connection twice: it leaves the queue under the lock, once.
SentAtMostOnce ==
    \A i, j \in DOMAIN wire : wire[i] = wire[j] => i = j

-----------------------------------------------------------------------------
\* Statements that the repository makes and the code does not keep: README.md
\* says under "Known deviations" what happens instead.

\* A connection has one WSASend under way at a time, because m_isSending says
\* whether there is one (Session.h:97): the session has one OVERLAPPED for it.
OneWSASend ==
    open => Cardinality({i \in DOMAIN inFlight :
                            sentOn[inFlight[i][1]] = {conn}}) <= 1

\* Buffers are kept in m_sendingList to be released when their WSASend
\* completes (Session.cpp:67), so none is released twice.
ReleasedOnce == \A m \in Message : released[m] <= 1

\* A client that does not read, so that Send comes to refuse a message, is
\* disconnected (README.md:96, and what Session.cpp:26 logs).
OverloadDisconnects == (refused > 0 /\ open) ~> ~ open

\* Clear leaves the session in a clean state for its next connection
\* (Session.cpp:203-204): no client is sent what was for the one before it.
NothingForAnotherClient == \A m \in Message : sentOn[m] \subseteq {takenOn[m]}
=============================================================================
