------------------------------- MODULE World -------------------------------
(***************************************************************************)
(* The grid of World: which sessions are registered in which cells, and    *)
(* what the clients are told of each other.                                *)
(*                                                                         *)
(* A session is registered in every cell it can see, so the sessions of a  *)
(* cell are those that can see it.  Logic threads, each with the jobs of   *)
(* its own sessions, change the grid under g_worldMutex and only then,     *)
(* with the lock released, send what they collected.  A position is        *)
(* abstracted to its cell, and S_MOVE is left out: it changes nothing      *)
(* here.  A client's view is the set of players it was shown.              *)
(***************************************************************************)
EXTENDS Integers

CONSTANTS
    GridCount,      \* cells on each side of the map: 10
    VisionRange,    \* how many cells away a session sees: 1
    NumSessions,
    NumThreads,     \* logic threads: 4
    Places          \* a bound: the cells that sessions go to

Cell == (0 .. GridCount - 1) \X (0 .. GridCount - 1)

ASSUME WorldAssumption ==
    /\ GridCount \in Nat \ {0}
    /\ VisionRange \in Nat
    /\ NumSessions \in Nat
    /\ NumThreads \in Nat \ {0}
    /\ Places \subseteq Cell

Session == 1 .. NumSessions

\* LogicManager::PushJob: the thread whose jobs a session's are, for ever.
LogicThread(s) == s % NumThreads

\* The threads that send: the logic threads, and a worker for LeaveGame.
WorkerThread == NumThreads
Thread == 0 .. NumThreads

VARIABLES
    state,          \* m_state: "NONE", "LOBBY" or "GAME"
    players,        \* the sessions with a Player
    cell,           \* GetGridPos of each session's position
    grids,          \* the sessions registered in each cell
    sessions,       \* World::sessions
    moving,         \* the move each thread is about to make: {} or one
    outbox,         \* what each thread has yet to send, as <<to, about>>
    view,           \* the players each client was shown
    disturbed       \* history: the sessions that logged in while they were in
                    \* the world, or left it while a thread was about to move
                    \* them

vars == <<state, players, cell, grids, sessions, moving, outbox, view, disturbed>>

\* c is within the VISION_RANGE of d.
Near(c, d) ==
    /\ c[1] - d[1] \in - VisionRange .. VisionRange
    /\ c[2] - d[2] \in - VisionRange .. VisionRange

Nothing == [despawn |-> {}, spawn |-> {}]

\* Mutation: only the session that moved is told.
PairsOneWay(s, others) == {<<s, o>> : o \in others}

Pairs(s, others) == {<<o, s>> : o \in others} \cup {<<s, o>> : o \in others}

-----------------------------------------------------------------------------
Init ==
    /\ state = [s \in Session |-> "NONE"]
    /\ players = {}
    /\ cell = [s \in Session |-> <<0, 0>>]
    /\ grids = [c \in Cell |-> {}]
    /\ sessions = {}
    /\ moving = [t \in Thread |-> {}]
    /\ outbox = [t \in Thread |-> Nothing]
    /\ view = [s \in Session |-> {}]
    /\ disturbed = {}

InsertToVisionGrids(s, center) ==
    [c \in Cell |-> IF Near(c, center) THEN grids[c] \cup {s} ELSE grids[c]]

RemoveFromVisionGrids(s, center) ==
    [c \in Cell |-> IF Near(c, center) THEN grids[c] \ {s} ELSE grids[c]]

\* The cells that only one of the two positions sees.
Lost(old, new) == {c \in Cell : Near(c, old) /\ ~ Near(c, new)}
Gained(old, new) == Lost(new, old)

\* Mutations: the session stays in the cells it lost, or does not get into the
\* cells it gained.
UpdateWithoutErase(s, old, new) ==
    [c \in Cell |-> IF c \in Gained(old, new) THEN grids[c] \cup {s}
                                              ELSE grids[c]]

UpdateWithoutInsert(s, old, new) ==
    [c \in Cell |-> IF c \in Lost(old, new) THEN grids[c] \ {s} ELSE grids[c]]

UpdateVisionGrids(s, old, new) ==
    [c \in Cell |-> CASE c \in Lost(old, new)   -> grids[c] \ {s}
                      [] c \in Gained(old, new) -> grids[c] \cup {s}
                      [] OTHER                  -> grids[c]]

\* A thread takes its next job when it has sent what the last one collected.
Ready(t) == moving[t] = {} /\ outbox[t] = Nothing

\* A thread has found the session's Player and not yet moved it.
Moving(s) == \E t \in Thread : \E m \in moving[t] : m[1] = s

-----------------------------------------------------------------------------
\* Handle_S_LOGIN, for a login that succeeded, whatever the session is doing.
Login(s) ==
    /\ Ready(LogicThread(s))
    /\ state' = [state EXCEPT ![s] = "LOBBY"]
    /\ disturbed' = disturbed \cup ({s} \cap sessions)
    /\ UNCHANGED <<players, cell, grids, sessions, moving, outbox, view>>

\* Handle_C_ENTER_GAME and EnterGame, at a random place.
EnterGame(s, c) ==
    /\ Ready(LogicThread(s))
    /\ state[s] = "LOBBY"
    /\ state' = [state EXCEPT ![s] = "GAME"]
    /\ players' = players \cup {s}
    /\ cell' = [cell EXCEPT ![s] = c]
    /\ grids' = InsertToVisionGrids(s, c)
    /\ sessions' = sessions \cup {s}
    /\ outbox' = [outbox EXCEPT ![LogicThread(s)] =
                    [despawn |-> {}, spawn |-> Pairs(s, grids'[c] \ {s})]]
    /\ UNCHANGED <<moving, view, disturbed>>

\* Mutation: the position is not clamped to the map.
StartMoveUnclamped(s, c) ==
    /\ Ready(LogicThread(s))
    /\ s \in players
    /\ moving' = [moving EXCEPT ![LogicThread(s)] = {<<s, <<c[1] + 1, c[2]>> >>}]
    /\ UNCHANGED <<state, players, cell, grids, sessions, outbox, view, disturbed>>

\* Handle_C_MOVE finds the Player (alive, which is left out) ...
StartMove(s, c) ==
    /\ Ready(LogicThread(s))
    /\ s \in players
    /\ moving' = [moving EXCEPT ![LogicThread(s)] = {<<s, c>>}]
    /\ UNCHANGED <<state, players, cell, grids, sessions, outbox, view, disturbed>>

\* ... and HandleMove takes the lock.  The pairs come from the sessions that
\* are registered, after the update, in the cells that were lost or gained.
HandleMove(t) ==
    \E m \in moving[t] :
        LET s   == m[1]
            old == cell[s]
            new == m[2]
            In(cells) == (UNION {grids'[c] : c \in cells}) \ {s}
        IN  /\ moving' = [moving EXCEPT ![t] = {}]
            /\ cell' = [cell EXCEPT ![s] = new]
            /\ grids' = UpdateVisionGrids(s, old, new)
            /\ outbox' = [outbox EXCEPT ![t] =
                            [despawn |-> Pairs(s, In(Lost(old, new))),
                             spawn   |-> Pairs(s, In(Gained(old, new)))]]
            /\ UNCHANGED <<state, players, sessions, view, disturbed>>

\* LeaveGame.  Its caller is not in the repository: it is taken to be a worker
\* that clears the session (PacketHandler.cpp:295, World.cpp:10) and that then
\* resets the player, the state and with the connection the client's view.
LeaveGame(s) ==
    /\ outbox[WorkerThread] = Nothing
    /\ s \in players
    /\ grids' = RemoveFromVisionGrids(s, cell[s])
    /\ sessions' = sessions \ {s}
    /\ outbox' = [outbox EXCEPT ![WorkerThread] =
                    [despawn |-> {<<o, s>> : o \in grids[cell[s]] \ {s}},
                     spawn   |-> {}]]
    /\ players' = players \ {s}
    /\ state' = [state EXCEPT ![s] = "NONE"]
    /\ view' = [view EXCEPT ![s] = {}]
    /\ disturbed' = disturbed \cup {o \in {s} : Moving(o)}
    /\ UNCHANGED <<cell, moving>>

\* The sends: every DESPAWN, then every SPAWN.
SendDespawn(t, p) ==
    /\ p \in outbox[t].despawn
    /\ outbox' = [outbox EXCEPT ![t].despawn = @ \ {p}]
    /\ view' = [view EXCEPT ![p[1]] = @ \ {p[2]}]
    /\ UNCHANGED <<state, players, cell, grids, sessions, moving, disturbed>>

SendSpawn(t, p) ==
    /\ outbox[t].despawn = {}
    /\ p \in outbox[t].spawn
    /\ outbox' = [outbox EXCEPT ![t].spawn = @ \ {p}]
    /\ view' = [view EXCEPT ![p[1]] = @ \cup {p[2]}]
    /\ UNCHANGED <<state, players, cell, grids, sessions, moving, disturbed>>

Next ==
    \/ \E s \in Session : Login(s) \/ LeaveGame(s)
    \/ \E s \in Session, c \in Places : EnterGame(s, c) \/ StartMove(s, c)
    \/ \E t \in Thread :
          \/ HandleMove(t)
          \/ \E p \in Session \X Session : SendDespawn(t, p) \/ SendSpawn(t, p)

Spec == Init /\ [][Next]_vars

-----------------------------------------------------------------------------
TypeOK ==
    /\ state \in [Session -> {"NONE", "LOBBY", "GAME"}]
    /\ players \subseteq Session
    /\ cell \in [Session -> Cell]
    /\ grids \in [Cell -> SUBSET Session]
    /\ sessions \subseteq Session
    /\ moving \in [Thread -> SUBSET (Session \X Cell)]
    /\ outbox \in [Thread -> [despawn : SUBSET (Session \X Session),
                              spawn : SUBSET (Session \X Session)]]
    /\ view \in [Session -> SUBSET Session]
    /\ disturbed \subseteq Session

\* A session in the world is registered in every cell it can see, so nobody
\* near it does things it is not told of (InsertToVisionGrids and
\* UpdateVisionGrids, whatever else happens to the session).
SessionsAreRegistered ==
    \A s \in sessions, c \in Cell : Near(c, cell[s]) => s \in grids[c]

\* The grid is exact: a session is registered in the cells it can see, and in
\* no other, however often it moved, left and came back (README.md:79;
\* UpdateVisionGrids changes only the cells in which the two visions differ).
\* Not if it entered a second time, or left between the two halves of a move.
GridsExact ==
    \A s \in Session \ disturbed, c \in Cell :
        s \in grids[c] <=> s \in sessions /\ Near(c, cell[s])

Sees(s, o) == {s, o} \subseteq sessions /\ Near(cell[s], cell[o])

\* Whenever a session comes into the sight of another that is in the world, a
\* SPAWN of it is collected, and whenever it gets out of it, or out of the
\* world, a DESPAWN, by the thread that did it (EnterGame, HandleMove and
\* LeaveGame; the other side of a move or an entry is told in the same way).
CrossingsCollected ==
    [][ \A s, o \in Session \ disturbed' :
          s # o /\ s \in sessions' /\ Sees(s, o) # Sees(s, o)'
            => \E t \in Thread :
                  IF Sees(s, o)' THEN <<s, o>> \in outbox'[t].spawn
                                 ELSE <<s, o>> \in outbox'[t].despawn ]_vars

Settled == \A t \in Thread : outbox[t] = Nothing

-----------------------------------------------------------------------------
\* Statements that the repository makes and the code does not keep: README.md
\* says under "Known deviations" what happens instead.

\* Nobody who left the world is registered in it (World.cpp:10: the mutex
\* keeps a worker's LeaveGame and a logic thread's HandleMove apart).
NobodyGoneIsRegistered ==
    \A c \in Cell : grids[c] \subseteq sessions

\* Once everything is sent, a client shows everybody in its sight: a DESPAWN
\* is for a player who left it (Client/Main.cpp:96).
VisibleAreShown ==
    Settled => \A s, o \in sessions : s # o /\ Sees(s, o) => o \in view[s]

\* Once everything is sent, a client shows nobody out of its sight: a SPAWN is
\* for a cell that came into it (World.cpp:221).
ShownAreVisible ==
    Settled => \A s, o \in sessions : o \in view[s] => Sees(s, o)
=============================================================================
