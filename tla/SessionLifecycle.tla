-------------------------- MODULE SessionLifecycle --------------------------
(***************************************************************************)
(* How sessions circulate: from SessionManager's free list into an         *)
(* AcceptEx, onto a connection, through the worker that takes each         *)
(* completion (IocpCore::Dispatch), and back into an AcceptEx or the free  *)
(* list; and the logic threads that close a session's socket behind the    *)
(* workers' back (CheckSessionTimeout, Handle_C_LOGOUT).                   *)
(*                                                                         *)
(* A socket is a handle, and Windows hands a closed handle out again.  An  *)
(* operation is posted with one session's OVERLAPPED ("by") on one handle; *)
(* its completion carries the session the handle was registered for, which *)
(* is the one Dispatch serves, except that an AcceptEx completes on the    *)
(* listening socket, and Dispatch finds the session from the OVERLAPPED.   *)
(***************************************************************************)
EXTENDS Integers, Sequences, FiniteSets

SX == INSTANCE SequencesExt

CONSTANTS
    NumSessions,        \* the size of the pool
    NumSockets,         \* bound: handles, more than the sessions need
    PreAccepts,         \* AcceptEx posted at the start: 20
    Worker,             \* the IOCP worker threads
    NumLogicThreads,    \* THREAD_COUNT
    MaxSends,           \* bound: WSASends posted in all
    Reuse,              \* is a closed handle that is still named given out?
    Timeouts,           \* does logic thread 0 look for silent sessions?
    Logouts,            \* do clients send packets that logic threads handle?
    Malformed,          \* do clients send wrong headers?
    AcceptFails         \* may WSASocket or AcceptEx fail?

ASSUME LifecycleAssumption ==
    /\ IsFiniteSet(Worker)
    /\ {NumSessions, NumSockets, PreAccepts, NumLogicThreads, MaxSends}
          \subseteq Nat
    /\ PreAccepts <= NumSessions /\ PreAccepts <= NumSockets
    /\ {Reuse, Timeouts, Logouts, Malformed, AcceptFails} \subseteq BOOLEAN

Session == 1 .. NumSessions
Socket == 1 .. NumSockets
LogicThread == 0 .. NumLogicThreads - 1
None == 0           \* INVALID_SOCKET, and no session

VARIABLES
    free,           \* m_freeSessions
    socket,         \* each session's m_socket
    inGame,         \* sessions whose m_state is not NONE
    silent,         \* sessions whose last tick is too long ago
    late,           \* sessions ticked since the running check read the time
    handle,         \* what each handle is: "closed", "waiting" in an AcceptEx,
                    \* "connected", or "ended" when the client is gone
    keyOf,          \* the session each handle was registered for
    posted,         \* operations posted and not completed
    done,           \* completions queued on the port, oldest first
    pc,             \* where each worker is
    serving,        \* the session it serves
    sends,          \* how many WSASends were posted
    jobs,           \* sessions with a job queued
    closing,        \* what each logic thread is about to close
    dropped         \* sessions whose AcceptEx could not be posted

vars == <<free, socket, inGame, silent, late, handle, keyOf, posted, done, pc,
          serving, sends, jobs, closing, dropped>>

kernel == <<handle, keyOf, posted, done>>
players == <<inGame, silent, late>>
work == <<pc, serving>>
logic == <<sends, jobs, closing, dropped>>

Operation == [kind : {"accept", "recv", "send"}, by : Session, on : Socket]

Completion == [kind : {"accept", "recv", "send"}, by : Session, key : Session,
               ok : BOOLEAN]

Resting == [at |-> "idle", session |-> None, sock |-> None]
Checking == [Resting EXCEPT !.at = "checking"]

Closing ==
    {Resting, Checking}
    \cup [at : {"kick"}, session : Session, sock : {None}]
    \cup [at : {"kickClose", "close"}, session : Session, sock : Socket]

InCheck(t) == closing[t].at \in {"checking", "kick", "kickClose"}

-----------------------------------------------------------------------------
\* SessionManager::Init, and main: the first PreAccepts sessions wait in an
\* AcceptEx.
Init ==
    /\ free = [i \in 1 .. NumSessions - PreAccepts |-> PreAccepts + i]
    /\ socket = [s \in Session |-> IF s <= PreAccepts THEN s ELSE None]
    /\ inGame = {}
    /\ silent = {}
    /\ late = {}
    /\ handle = [h \in Socket |->
                    IF h <= PreAccepts THEN "waiting" ELSE "closed"]
    /\ keyOf = [h \in Socket |-> IF h <= PreAccepts THEN h ELSE None]
    /\ posted = {[kind |-> "accept", by |-> s, on |-> s] : s \in 1 .. PreAccepts}
    /\ done = << >>
    /\ pc = [w \in Worker |-> "idle"]
    /\ serving = [w \in Worker |-> None]
    /\ sends = 0
    /\ jobs = {}
    /\ closing = [t \in LogicThread |-> Resting]
    /\ dropped = {}

Completed(op, ok) ==
    [kind |-> op.kind, by |-> op.by, key |-> keyOf[op.on], ok |-> ok]

\* Handle h becomes closed or ended: what is posted on it completes as failed,
\* behind the completions that are queued already.
EndHandle(h, as, queued) ==
    LET lost == {op \in posted : op.on = h}
    IN  /\ handle' = [handle EXCEPT ![h] = as]
        /\ keyOf' = IF as = "closed" THEN [keyOf EXCEPT ![h] = None] ELSE keyOf
        /\ posted' = posted \ lost
        /\ \E q \in SX!SetToSeqs({Completed(op, FALSE) : op \in lost}) :
              done' = queued \o q

\* closesocket, which does nothing to a handle that is closed.
CloseSocket(h, queued) ==
    IF h = None \/ handle[h] = "closed"
    THEN done' = queued /\ UNCHANGED <<handle, keyOf, posted>>
    ELSE EndHandle(h, "closed", queued)

\* Mutation: m_socket keeps naming the handle.
ClearWithoutForgetting(s, queued) ==
    /\ CloseSocket(socket[s], queued)
    /\ socket' = socket

\* Session::Clear closes the handle that m_socket names, whatever it is by
\* now; m_state and the player stay as they were.
ClearSession(s, queued) ==
    /\ CloseSocket(socket[s], queued)
    /\ socket' = [socket EXCEPT ![s] = None]

-----------------------------------------------------------------------------
\* A client connects, or bytes are received or sent.
Complete(op) ==
    /\ posted' = posted \ {op}
    /\ done' = Append(done, Completed(op, TRUE))
    /\ handle' = IF op.kind = "accept"
                 THEN [handle EXCEPT ![op.on] = "connected"] ELSE handle
    /\ UNCHANGED <<free, socket, players, keyOf, work, logic>>

ClientGone(h) ==
    /\ handle[h] = "connected"
    /\ EndHandle(h, "ended", done)
    /\ UNCHANGED <<free, socket, players, work, logic>>

\* UpdateLastTick.
Tick(s) ==
    /\ silent' = silent \ {s}
    /\ late' = IF \E t \in LogicThread : InCheck(t)
               THEN late \cup {s} ELSE late

\* The last tick of s is 10 or 30 seconds ago; no completion waits and no
\* handler runs that long, and what the client sends since does not count.
TimePasses(s) ==
    /\ Timeouts
    /\ s \in inGame
    /\ \A w \in Worker : serving[w] # s
    /\ \A i \in DOMAIN done : done[i].key # s
    /\ silent' = silent \cup {s}
    /\ UNCHANGED <<free, socket, inGame, late, kernel, work, logic>>

\* A logic thread sends to the client.
PostSend(s) ==
    /\ sends < MaxSends
    /\ sends' = sends + 1
    /\ socket[s] # None
    /\ handle[socket[s]] = "connected"
    /\ \A op \in posted : op.kind = "send" => op.by # s
    /\ posted' = posted \cup {[kind |-> "send", by |-> s, on |-> socket[s]]}
    /\ UNCHANGED <<free, socket, players, handle, keyOf, done, work, jobs,
                   closing, dropped>>

-----------------------------------------------------------------------------
Serve(w, s, where) ==
    /\ pc' = [pc EXCEPT ![w] = where]
    /\ serving' = [serving EXCEPT ![w] = s]

Rest(w) == Serve(w, None, "idle")

\* A worker takes the oldest completion (GetQueuedCompletionStatus).
Takes(w, kind, ok) ==
    /\ pc[w] = "idle"
    /\ done # << >>
    /\ Head(done).kind = kind
    /\ Head(done).ok = ok

\* The connection is accepted, and OnAccept goes on to RegisterRecv.
TakeAccepted(w) ==
    LET s == Head(done).by
    IN  /\ Takes(w, "accept", TRUE)
        /\ done' = Tail(done)
        /\ inGame' = inGame \cup {s}
        /\ Tick(s)
        /\ Serve(w, s, "firstRecv")
        /\ UNCHANGED <<free, socket, handle, keyOf, posted, logic>>

\* Bytes are received: OnRecv parses them, and goes on to RegisterRecv.  They
\* may be packets, which become jobs, or a wrong header, which clears the
\* session.  (Another session's OVERLAPPED on this handle is nobody's.)
Ours == Head(done).by = Head(done).key

TakeReceived(w) ==
    LET s == Head(done).key
    IN  /\ Takes(w, "recv", TRUE)
        /\ Ours
        /\ done' = Tail(done)
        /\ \/ UNCHANGED jobs
           \/ /\ Logouts
              /\ jobs' = jobs \cup {s}
        /\ Serve(w, s, "recv")
        /\ UNCHANGED <<free, socket, players, handle, keyOf, posted, sends,
                       closing, dropped>>

TakeMalformed(w) ==
    /\ Malformed
    /\ Takes(w, "recv", TRUE)
    /\ Ours
    /\ ClearSession(Head(done).key, Tail(done))
    /\ Serve(w, Head(done).key, "recv")
    /\ UNCHANGED <<free, players, logic>>

TakeSent(w) ==
    /\ \/ Takes(w, "send", TRUE)
       \/ Takes(w, "recv", TRUE) /\ ~ Ours
    /\ done' = Tail(done)
    /\ UNCHANGED <<free, socket, players, handle, keyOf, posted, work, logic>>

\* Mutation: Dispatch clears the session and leaves it at that.
TakeFailedAndRest(w) ==
    \E kind \in {"accept", "recv", "send"} :
        LET s == IF kind = "accept" THEN Head(done).by ELSE Head(done).key
        IN  /\ Takes(w, kind, FALSE)
            /\ ClearSession(s, Tail(done))
            /\ Rest(w)
            /\ UNCHANGED <<free, players, logic>>

\* The operation ended with the connection: Dispatch clears the session and
\* goes on to RegisterAccept.
TakeFailed(w) ==
    \E kind \in {"accept", "recv", "send"} :
        LET s == IF kind = "accept" THEN Head(done).by ELSE Head(done).key
        IN  /\ Takes(w, kind, FALSE)
            /\ ClearSession(s, Tail(done))
            /\ Serve(w, s, "accept")
            /\ UNCHANGED <<free, players, logic>>

AfterRecv(w) == IF pc[w] = "firstRecv" THEN Serve(w, None, "replenish")
                                        ELSE Rest(w)

\* RegisterRecv posts a WSARecv on whatever handle m_socket names.  When the
\* client has closed, it completes at once, with 0 bytes ...
RegisterRecv(w) ==
    LET s  == serving[w]
        op == [kind |-> "recv", by |-> s, on |-> socket[s]]
    IN  /\ pc[w] \in {"firstRecv", "recv"}
        /\ socket[s] # None
        /\ \/ /\ handle[socket[s]] = "connected"
              /\ posted' = posted \cup {op}
              /\ UNCHANGED done
           \/ /\ handle[socket[s]] = "ended"
              /\ done' = Append(done, Completed(op, FALSE))
              /\ UNCHANGED posted
        /\ AfterRecv(w)
        /\ UNCHANGED <<free, socket, players, handle, keyOf, logic>>

\* Mutation: the session is released here and again by the caller.
RegisterRecvFailsTwice(w) ==
    LET s == serving[w]
    IN  /\ pc[w] \in {"firstRecv", "recv"}
        /\ socket[s] # None => handle[socket[s]] # "connected"
        /\ ClearSession(s, done)
        /\ free' = free \o <<s, s>>
        /\ AfterRecv(w)
        /\ UNCHANGED <<players, logic>>

\* ... and when there is no connection, or it was reset, WSARecv fails, and
\* the session is cleared and released.
RegisterRecvFails(w) ==
    LET s == serving[w]
    IN  /\ pc[w] \in {"firstRecv", "recv"}
        /\ socket[s] # None => handle[socket[s]] # "connected"
        /\ ClearSession(s, done)
        /\ free' = Append(free, s)
        /\ AfterRecv(w)
        /\ UNCHANGED <<players, logic>>

\* After an accept, Dispatch takes another session for the next one.
Replenish(w) ==
    /\ pc[w] = "replenish"
    /\ IF free = << >>
       THEN Rest(w) /\ UNCHANGED free
       ELSE Serve(w, Head(free), "accept") /\ free' = Tail(free)
    /\ UNCHANGED <<socket, players, kernel, logic>>

\* Mutation: the new socket is not registered with the port for its session.
OpenUnregistered(s, h) ==
    /\ handle[h] = "closed"
    /\ socket' = [socket EXCEPT ![s] = h]
    /\ keyOf' = keyOf
    /\ handle' = [handle EXCEPT ![h] = "waiting"]

\* RegisterAccept opens a socket for the session and posts an AcceptEx on it.
\* When either fails its caller does nothing about it.
OpenSocket(s, h) ==
    /\ handle[h] = "closed"
    /\ \/ Reuse
       \/ /\ \A other \in Session : socket[other] # h
          /\ \A t \in LogicThread : closing[t].sock # h
    /\ socket' = [socket EXCEPT ![s] = h]
    /\ keyOf' = [keyOf EXCEPT ![h] = s]
    /\ handle' = [handle EXCEPT ![h] = "waiting"]

RegisterAccept(w) ==
    LET s == serving[w]
    IN  /\ pc[w] = "accept"
        /\ \E h \in Socket :
              /\ OpenSocket(s, h)
              /\ posted' = posted \cup {[kind |-> "accept", by |-> s, on |-> h]}
        /\ Rest(w)
        /\ UNCHANGED <<free, players, done, logic>>

RegisterAcceptFails(w) ==
    /\ AcceptFails
    /\ pc[w] = "accept"
    /\ \/ UNCHANGED <<socket, keyOf, handle>>
       \/ \E h \in Socket : OpenSocket(serving[w], h)
    /\ dropped' = dropped \cup {serving[w]}
    /\ Rest(w)
    /\ UNCHANGED <<free, players, posted, done, sends, jobs, closing>>

-----------------------------------------------------------------------------
\* CheckSessionTimeout, run by logic thread 0, reads the time once ...
StartCheck(t) ==
    /\ Timeouts /\ t = 0
    /\ closing[t] = Resting
    /\ closing' = [closing EXCEPT ![t] = Checking]
    /\ late' = {}
    /\ UNCHANGED <<free, socket, inGame, silent, kernel, work, sends, jobs,
                   dropped>>

\* ... and subtracts each session's last tick from it, in 64 unsigned bits: what
\* was ticked meanwhile is far in the past.
TimedOut == inGame \cap (silent \cup late)

FindSilent(t) ==
    /\ closing[t].at = "checking"
    /\ \E s \in TimedOut :
          closing' = [closing EXCEPT ![t] =
                        [at |-> "kick", session |-> s, sock |-> None]]
    /\ UNCHANGED <<free, socket, players, kernel, work, sends, jobs, dropped>>

EndCheck(t) ==
    /\ closing[t].at = "checking"
    /\ closing' = [closing EXCEPT ![t] = Resting]
    /\ UNCHANGED <<free, socket, players, kernel, work, sends, jobs, dropped>>

\* Its handle is read, its state reset ...
ReadSilentSocket(t) ==
    LET s == closing[t].session
    IN  /\ closing[t].at = "kick"
        /\ IF socket[s] = None
           THEN closing' = [closing EXCEPT ![t] = Checking] /\ UNCHANGED inGame
           ELSE /\ closing' = [closing EXCEPT ![t] =
                        [at |-> "kickClose", session |-> s,
                         sock |-> socket[s]]]
                /\ inGame' = inGame \ {s}
        /\ UNCHANGED <<free, socket, silent, late, kernel, work, sends, jobs,
                       dropped>>

TakesJob(t, s) ==
    /\ closing[t] = Resting
    /\ s \in jobs
    /\ jobs' = jobs \ {s}

\* Handle_C_LOGIN, Handle_S_LOGIN and Handle_C_ENTER_GAME tick the session; an
\* S_LOGIN also puts it into the lobby, whatever has become of it.
LogIn(t) ==
    /\ \E s \in Session :
          /\ TakesJob(t, s)
          /\ Tick(s)
          /\ inGame' \in {inGame, inGame \cup {s}}
    /\ UNCHANGED <<free, socket, kernel, work, sends, closing, dropped>>

\* Handle_C_LOGOUT reads the handle of the session of the job ...
Logout(t) ==
    /\ \E s \in Session :
        /\ TakesJob(t, s)
        /\ IF socket[s] = None
           THEN UNCHANGED closing
           ELSE closing' = [closing EXCEPT ![t] =
                    [at |-> "close", session |-> s, sock |-> socket[s]]]
    /\ UNCHANGED <<free, socket, players, kernel, work, sends, dropped>>

AfterClose(t) ==
    closing' = [closing EXCEPT ![t] =
                    IF closing[t].at = "close" THEN Resting ELSE Checking]

\* Mutation: the logic thread releases the session too, as the comment at
\* PacketHandler.cpp:295 warns not to.
CloseAndRelease(t) ==
    /\ closing[t].sock # None
    /\ CloseSocket(closing[t].sock, done)
    /\ free' = Append(free, closing[t].session)
    /\ AfterClose(t)
    /\ UNCHANGED <<socket, players, work, sends, jobs, dropped>>

\* ... and either closes it, leaving m_socket as it is.
CloseForeign(t) ==
    /\ closing[t].sock # None
    /\ CloseSocket(closing[t].sock, done)
    /\ AfterClose(t)
    /\ UNCHANGED <<free, socket, players, work, sends, jobs, dropped>>

-----------------------------------------------------------------------------
Next ==
    \/ \E op \in posted : Complete(op)
    \/ \E h \in Socket : ClientGone(h)
    \/ \E s \in Session : TimePasses(s) \/ PostSend(s)
    \/ \E w \in Worker :
          \/ TakeAccepted(w) \/ TakeReceived(w) \/ TakeMalformed(w)
          \/ TakeSent(w) \/ TakeFailed(w)
          \/ RegisterRecv(w) \/ RegisterRecvFails(w) \/ Replenish(w)
          \/ RegisterAccept(w) \/ RegisterAcceptFails(w)
    \/ \E t \in LogicThread :
          \/ StartCheck(t) \/ FindSilent(t) \/ EndCheck(t)
          \/ ReadSilentSocket(t) \/ LogIn(t) \/ Logout(t) \/ CloseForeign(t)

Spec == Init /\ [][Next]_vars

\* Some worker takes every completion, and a worker runs its handler to the
\* end.
Fairness ==
    /\ WF_vars(\E w \in Worker : \/ TakeAccepted(w) \/ TakeReceived(w)
                                 \/ TakeMalformed(w) \/ TakeSent(w)
                                 \/ TakeFailed(w))
    /\ \A w \in Worker :
          WF_vars(\/ RegisterRecv(w) \/ RegisterRecvFails(w) \/ Replenish(w)
                  \/ RegisterAccept(w) \/ RegisterAcceptFails(w))

FairSpec == Spec /\ Fairness

-----------------------------------------------------------------------------
TypeOK ==
    /\ free \in Seq(Session)
    /\ socket \in [Session -> Socket \cup {None}]
    /\ inGame \subseteq Session
    /\ silent \subseteq Session /\ late \subseteq Session
    /\ handle \in [Socket -> {"closed", "waiting", "connected", "ended"}]
    /\ keyOf \in [Socket -> Session \cup {None}]
    /\ posted \subseteq Operation
    /\ done \in Seq(Completion)
    /\ pc \in [Worker -> {"idle", "firstRecv", "recv", "replenish", "accept"}]
    /\ serving \in [Worker -> Session \cup {None}]
    /\ sends \in 0 .. MaxSends
    /\ jobs \subseteq Session
    /\ closing \in [LogicThread -> Closing]
    /\ dropped \subseteq Session

\* Where session s is: in the free list, in an AcceptEx or WSARecv, in the
\* completion of one, or in a worker's hands.
InPool(s) == {i \in DOMAIN free : free[i] = s}
Pending(s) == {op \in posted : op.by = s /\ op.kind # "send"}
Returning(s) == {i \in DOMAIN done : done[i].by = s /\ done[i].kind # "send"}
InHands(s) == {w \in Worker : serving[w] = s}

Places(s) ==
    Cardinality(InPool(s)) + Cardinality(Pending(s))
    + Cardinality(Returning(s)) + Cardinality(InHands(s))

\* Every session is in exactly one place: never lost to the pool, never in it
\* twice, never served by two workers or waiting for two clients at once, as
\* long as no WSASend can end beside the WSARecv.  The only way to lose one is
\* an AcceptEx that cannot be posted (IocpCore.cpp:62, 91 and 113 ignore what
\* RegisterAccept returns).
OnePlace ==
    sends = 0 =>
        \A s \in Session : Places(s) = IF s \in dropped THEN 0 ELSE 1

\* Even when a send and a receive that end together make workers serve a
\* session twice, or the pool hold it twice, it is never in no place at all.
NoSessionLost == \A s \in Session \ dropped : Places(s) >= 1

\* No two sessions name the same handle, so closing one's socket cannot cut
\* off another's client.
SocketsNotShared ==
    \A s, t \in Session : s # t /\ socket[s] # None => socket[s] # socket[t]

\* An operation is posted on a handle that is registered for its session, and
\* its completion is taken for that session's, also when the handle is closed
\* and given out again meanwhile; and as long as no WSASend ends beside the
\* WSARecv, the session still names the handle.
CompletionsComeHome ==
    /\ \A op \in posted : /\ keyOf[op.on] = op.by
                          /\ sends = 0 => socket[op.by] = op.on
    /\ \A i \in DOMAIN done : done[i].by = done[i].key

\* A client that is gone has its session wait for another client again, or
\* back in the free list, unless the AcceptEx cannot be posted or a WSASend
\* ended beside the WSARecv.
SessionComesBack ==
    \A s \in Session :
        (socket[s] # None /\ handle[socket[s]] = "ended")
            ~> (\/ \E i \in DOMAIN free : free[i] = s
                \/ \E op \in posted : op.by = s /\ op.kind = "accept"
                \/ s \in dropped \/ sends # 0)

-----------------------------------------------------------------------------
\* Statements that the repository makes and the code does not keep: README.md
\* says under "Known deviations" what happens instead.

\* Only a session that was silent for its limit is kicked (README.md:88).
OnlyTheSilentAreKicked ==
    [][\A s \in Session, t \in LogicThread :
         FindSilent(t) /\ closing'[t].session = s => s \in silent]_vars

\* A session in the free list has been reset (SessionManager.cpp:40), so it is
\* neither counted as a player nor found silent (LogicManager.h:111 and 148).
FreeSessionsAreReset == \A i \in DOMAIN free : free[i] \notin inGame

\* A session waits for one client at a time (the double registration that
\* Handle_C_LOGOUT is written to avoid, PacketHandler.cpp:294-295).
OneAcceptPerSession ==
    \A s \in Session :
        Cardinality({op \in posted : op.by = s /\ op.kind = "accept"}) <= 1

\* The port always has an AcceptEx waiting while the pool has a session to
\* give it (README.md:45), once the workers have caught up.
AcceptCovered ==
    /\ free # << >>
    /\ done = << >> /\ \A w \in Worker : pc[w] = "idle"
    => \E op \in posted : op.kind = "accept"
=============================================================================
