----------------------------- MODULE LockOrder -----------------------------
(***************************************************************************)
(* The server's mutexes, and the order in which its functions take them.   *)
(*                                                                         *)
(* Each function is written as the sequence of locks that it acquires and  *)
(* releases with its lock_guards, those of the functions it calls          *)
(* included; a function with branches is the set of its sequences.  A      *)
(* thread runs one of them after the other.  Only g_worldMutex is          *)
(* recursive: any other mutex blocks the thread that holds it, too.        *)
(***************************************************************************)
EXTENDS Integers, Sequences, SequencesExt

CONSTANTS
    Session,
    LogicThread,
    Worker          \* an IOCP worker

Thread == LogicThread \cup Worker

\* The mutexes.  Those in Single belong to one object each.
Single == {"g_worldMutex", "SendBufferManager", "SessionManager", "JobPool",
           "LogicManager", "DBManager"}
Lock == ({"m_sendQueueMutex", "Player"} \X Session) \cup (Single \X {"only"})

SendQueue(s) == <<"m_sendQueueMutex", s>>
PlayerOf(s) == <<"Player", s>>
The(name) == <<name, "only">>
World == The("g_worldMutex")

VARIABLES
    todo,       \* what each thread has yet to do
    held        \* the locks each thread holds, once for each acquisition

vars == <<todo, held>>

-----------------------------------------------------------------------------
Acquire(l) == [do |-> "acquire", lock |-> l]
Release(l) == [do |-> "release", lock |-> l]
Loop(body) == [do |-> "loop", body |-> body]

\* A lock_guard on l around the body.
Hold(l, body) == <<Acquire(l)>> \o body \o <<Release(l)>>
Brief(l) == Hold(l, <<>>)

\* Any of the first, then any of the second.
Then(first, second) == {a \o b : a \in first, b \in second}

\* WSASend may fail, which takes the lock a second time.
RegisterSend(s) == {Brief(SendQueue(s)), Brief(SendQueue(s)) \o Brief(SendQueue(s))}

Queueing(s) == Hold(SendQueue(s), Brief(The("SendBufferManager")))

\* The queue is over its limit; or a send is under way; or this is the first.
Send(s) ==
    {Brief(SendQueue(s)), Queueing(s)} \cup Then({Queueing(s)}, RegisterSend(s))

\* The sends of a function that collected its targets, in a loop.
Sends == <<Loop("Send")>>

\* Mutation: the sends are in the scope of the lock.
BroadcastInScope == Hold(World, Sends)

\* EnterGame, LeaveGame, HandleMove, BroadcastMove, BroadcastDie,
\* BroadcastPacketToObservers and BroadcastToAll collect sessions under the
\* lock and send to them without it.
Broadcast == Brief(World) \o Sends

FindSession == Brief(World)

\* The damage may kill, and Die broadcasts, with the target's lock still held.
Strike(target) == {Hold(PlayerOf(target), damage) \o Broadcast : damage \in {<<>>, Broadcast}}

\* Mutation: the target's hit points are changed while the world is locked.
AttackInWorld(target) == {Hold(World, FindSession \o hit) : hit \in Strike(target)}

\* Handle_C_ATTACK, type 0: a target out of reach is left alone.
Attack(target) == Then({Hold(World, FindSession)}, {<<>>} \cup Strike(target))

\* Type 1: the targets one after the other.
RadialAttack == {Brief(World) \o <<Loop("Strike")>>}

Respawn(s) == Then(Send(s), {Broadcast})

\* Thread 0: World::Update, GetSessions, LogAllPlayersAOI, CheckSessionTimeout.
Periodic ==
    {Brief(The("SessionManager")),
     Brief(The("SessionManager")) \o Brief(World) \o Brief(The("SessionManager"))}

OnSend(s) ==
    Then({<<Loop("ReleaseBuffer")>> \o Brief(SendQueue(s))}, {<<>>} \cup RegisterSend(s))

Clear(s) == Hold(SendQueue(s), <<Loop("ReleaseBuffer")>>)

\* SessionManager::Release clears the session again.
Disconnect(s) == Clear(s) \o Clear(s) \o Brief(The("SessionManager"))

\* What one round of a loop does.
LoopBody(body) ==
    CASE body = "Send"          -> UNION {Send(s) : s \in Session}
      [] body = "Strike"        -> UNION {Strike(s) : s \in Session}
      [] body = "ReleaseBuffer" -> {Brief(The("SendBufferManager"))}

\* The queues and the pools of jobs and queries: PushJob, Update, JobPool::Pop
\* and Push, PushQuery.
Queues == {Brief(The(name)) : name \in {"LogicManager", "JobPool", "DBManager"}}

\* A worker acquires and releases sessions, and calls LeaveGame.
Operations(t) ==
    Queues \cup {Broadcast} \cup
    IF t \in Worker
    THEN {Brief(The("SessionManager"))}
         \cup {Disconnect(s) : s \in Session} \cup UNION {OnSend(s) : s \in Session}
    ELSE RadialAttack \cup Periodic
         \cup UNION {Attack(s) \cup Respawn(s) : s \in Session}

-----------------------------------------------------------------------------
Init ==
    /\ todo = [t \in Thread |-> <<>>]
    /\ held = [t \in Thread |-> <<>>]

Holds(t, l) == Contains(held[t], l)

\* The lock is somebody else's, or a plain mutex of this thread's own.
Blocks(u, t, l) == Holds(u, l) /\ (u # t \/ l # World)

Begin(t) ==
    /\ todo[t] = <<>>
    /\ \E operation \in Operations(t) : todo' = [todo EXCEPT ![t] = operation]
    /\ UNCHANGED held

Wants(t, l) == todo[t] # <<>> /\ Head(todo[t]) = Acquire(l)

AcquireNext(t) ==
    \E l \in Lock :
        /\ Wants(t, l)
        /\ \A u \in Thread : ~ Blocks(u, t, l)
        /\ held' = [held EXCEPT ![t] = Append(@, l)]
        /\ todo' = [todo EXCEPT ![t] = Tail(@)]

\* lock_guards are released in the reverse order.
ReleaseNext(t) ==
    /\ todo[t] # <<>> /\ Head(todo[t]).do = "release"
    /\ held' = [held EXCEPT ![t] = Front(@)]
    /\ todo' = [todo EXCEPT ![t] = Tail(@)]

\* A loop ends, or has another round.
LoopNext(t) ==
    /\ todo[t] # <<>> /\ Head(todo[t]).do = "loop"
    /\ \/ todo' = [todo EXCEPT ![t] = Tail(@)]
       \/ \E round \in LoopBody(Head(todo[t]).body) :
             todo' = [todo EXCEPT ![t] = round \o @]
    /\ UNCHANGED held

Step(t) == AcquireNext(t) \/ ReleaseNext(t) \/ LoopNext(t)

Next == \E t \in Thread : Begin(t) \/ Step(t)

Spec == Init /\ [][Next]_vars

-----------------------------------------------------------------------------
\* Some of the threads wait for locks that only they hold.
Stuck(threads) ==
    \A t \in threads : \E l \in Lock, u \in threads : Wants(t, l) /\ Blocks(u, t, l)

\* No threads wait for each other for ever, and none for itself, although a
\* player's death is broadcast with that player's mutex held, and a
\* broadcast takes the world's mutex and the queues' (PacketHandler.cpp:203).
NobodyIsStuck == \A threads \in (SUBSET Thread) \ {{}} : ~ Stuck(threads)

\* Nobody sends with the world locked (World.cpp:333, and "outside the mutex"
\* in EnterGame, LeaveGame and HandleMove), which would make all logic threads
\* wait for one session's queue.
SendsOutsideTheWorld ==
    \A t \in Thread, s \in Session : Holds(t, World) => ~ Wants(t, SendQueue(s))
=============================================================================
