---------------------------- MODULE WorldTheorems ----------------------------
(***************************************************************************)
(* What World's grid guarantees, for every map, vision range, number of    *)
(* sessions and number of threads.                                         *)
(***************************************************************************)
EXTENDS World, TLAPS

-----------------------------------------------------------------------------
\* Sight is mutual, and everybody sees its own cell.
LEMMA NearIsMutual ==
    ASSUME NEW c \in Cell, NEW d \in Cell
    PROVE  /\ Near(c, d) <=> Near(d, c)
           /\ Near(c, c)
<1>1. /\ c[1] \in Int /\ c[2] \in Int
      /\ d[1] \in Int /\ d[2] \in Int
      /\ VisionRange \in Nat
  BY WorldAssumption DEF Cell
<1> QED
  BY <1>1 DEF Near

LEMMA ThreadOfSession ==
    ASSUME NEW s \in Session
    PROVE  LogicThread(s) \in Thread
BY WorldAssumption, SMT DEF LogicThread, Thread, Session

\* A handler only registers the session it is for, and only where it sees.
LEMMA UpdatedGrids ==
    ASSUME TypeOK, NEW s \in Session, NEW old \in Cell, NEW new \in Cell
    PROVE  /\ UpdateVisionGrids(s, old, new) \in [Cell -> SUBSET Session]
           /\ \A o \in Session, c \in Cell :
                 o \in UpdateVisionGrids(s, old, new)[c] <=>
                    IF o # s THEN o \in grids[c]
                    ELSE \/ Near(c, new) /\ ~ Near(c, old)
                         \/ o \in grids[c] /\ ~ (Near(c, old) /\ ~ Near(c, new))
<1> DEFINE G == UpdateVisionGrids(s, old, new)
<1>1. ASSUME NEW c \in Cell
      PROVE  G[c] = IF c \in Lost(old, new) THEN grids[c] \ {s}
                    ELSE IF c \in Gained(old, new) THEN grids[c] \cup {s}
                    ELSE grids[c]
  BY DEF UpdateVisionGrids, Lost, Gained
<1>2. G = [c \in Cell |-> G[c]]
  BY DEF UpdateVisionGrids
<1>3. ASSUME NEW c \in Cell
      PROVE  G[c] \in SUBSET Session
  BY <1>1 DEF TypeOK
<1>4. G \in [Cell -> SUBSET Session]
  BY <1>2, <1>3
<1>5. ASSUME NEW o \in Session, NEW c \in Cell
      PROVE  o \in G[c] <=>
                IF o # s THEN o \in grids[c]
                ELSE \/ Near(c, new) /\ ~ Near(c, old)
                     \/ o \in grids[c] /\ ~ (Near(c, old) /\ ~ Near(c, new))
  BY <1>1 DEF Lost, Gained
<1> QED
  BY <1>4, <1>5

LEMMA InsertedGrids ==
    ASSUME TypeOK, NEW s \in Session, NEW center \in Cell
    PROVE  /\ InsertToVisionGrids(s, center) \in [Cell -> SUBSET Session]
           /\ \A o \in Session, c \in Cell :
                 o \in InsertToVisionGrids(s, center)[c] <=>
                    o \in grids[c] \/ (o = s /\ Near(c, center))
BY DEF InsertToVisionGrids, TypeOK

LEMMA RemovedGrids ==
    ASSUME TypeOK, NEW s \in Session, NEW center \in Cell
    PROVE  /\ RemoveFromVisionGrids(s, center) \in [Cell -> SUBSET Session]
           /\ \A o \in Session, c \in Cell :
                 o \in RemoveFromVisionGrids(s, center)[c] <=>
                    o \in grids[c] /\ ~ (o = s /\ Near(c, center))
BY DEF RemoveFromVisionGrids, TypeOK

LEMMA PairsType ==
    ASSUME NEW s \in Session, NEW others \in SUBSET Session
    PROVE  Pairs(s, others) \in SUBSET (Session \X Session)
BY DEF Pairs

-----------------------------------------------------------------------------
Outbox == [despawn : SUBSET (Session \X Session),
           spawn : SUBSET (Session \X Session)]

LEMMA OutboxUpdate ==
    ASSUME TypeOK, NEW t \in Thread, NEW box \in Outbox,
           outbox' = [outbox EXCEPT ![t] = box]
    PROVE  outbox' \in [Thread -> Outbox]
BY DEF TypeOK, Outbox

\* What HandleMove does when thread t moves session s from old to new.
Moved(t, s, old, new) ==
    /\ <<s, new>> \in moving[t]
    /\ old = cell[s]
    /\ moving' = [moving EXCEPT ![t] = {}]
    /\ cell' = [cell EXCEPT ![s] = new]
    /\ grids' = UpdateVisionGrids(s, old, new)
    /\ outbox' = [outbox EXCEPT ![t] =
          [despawn |-> Pairs(s, (UNION {grids'[c] : c \in Lost(old, new)}) \ {s}),
           spawn |-> Pairs(s, (UNION {grids'[c] : c \in Gained(old, new)}) \ {s})]]
    /\ UNCHANGED <<state, players, sessions, view, disturbed>>

LEMMA MoveOf ==
    ASSUME TypeOK, NEW t \in Thread, HandleMove(t)
    PROVE  \E s \in Session, old \in Cell, new \in Cell : Moved(t, s, old, new)
<1>1. PICK m \in moving[t] : HandleMove(t)!(m)
  BY DEF HandleMove
<1>2. m[1] \in Session /\ m[2] \in Cell /\ m = <<m[1], m[2]>>
  BY DEF TypeOK
<1>3. cell[m[1]] \in Cell
  BY <1>2 DEF TypeOK
<1>4. Moved(t, m[1], cell[m[1]], m[2])
  BY <1>1, <1>2 DEF Moved
<1> QED
  BY <1>2, <1>3, <1>4

LEMMA InitType == Init => TypeOK
<1> SUFFICES ASSUME Init PROVE TypeOK
  OBVIOUS
<1>1. <<0, 0>> \in Cell
  BY WorldAssumption DEF Cell
<1>2. Nothing \in Outbox
  BY DEF Nothing, Outbox
<1> QED
  BY <1>1, <1>2 DEF Init, TypeOK, Outbox

LEMMA TypeStep == TypeOK /\ [Next]_vars => TypeOK'
<1> SUFFICES ASSUME TypeOK, [Next]_vars PROVE TypeOK'
  OBVIOUS
<1>1. ASSUME NEW s \in Session, Login(s) PROVE TypeOK'
  BY <1>1 DEF Login, TypeOK
<1>2. ASSUME NEW s \in Session, LeaveGame(s) PROVE TypeOK'
  <2> DEFINE box == [despawn |-> {<<o, s>> : o \in grids[cell[s]] \ {s}},
                     spawn   |-> {}]
  <2>1. cell[s] \in Cell
    BY DEF TypeOK
  <2>2. grids' \in [Cell -> SUBSET Session]
    BY <1>2, <2>1, RemovedGrids DEF LeaveGame
  <2>3. grids[cell[s]] \subseteq Session
    BY <2>1 DEF TypeOK
  <2>4. box \in Outbox
    BY <2>3 DEF Outbox
  <2>5. WorkerThread \in Thread
    BY WorldAssumption DEF WorkerThread, Thread
  <2>6. outbox' \in [Thread -> Outbox]
    BY <1>2, <2>4, <2>5, OutboxUpdate DEF LeaveGame
  <2> QED
    BY <1>2, <2>2, <2>6 DEF LeaveGame, TypeOK, Outbox
<1>3. ASSUME NEW s \in Session, NEW c \in Places, EnterGame(s, c) PROVE TypeOK'
  <2> DEFINE box == [despawn |-> {}, spawn |-> Pairs(s, grids'[c] \ {s})]
  <2>1. grids' \in [Cell -> SUBSET Session]
    BY <1>3, InsertedGrids, WorldAssumption DEF EnterGame
  <2>2. Pairs(s, grids'[c] \ {s}) \in SUBSET (Session \X Session)
    BY <2>1, PairsType, WorldAssumption
  <2>3. box \in Outbox
    BY <2>2 DEF Outbox
  <2>4. outbox' \in [Thread -> Outbox]
    BY <1>3, <2>3, ThreadOfSession, OutboxUpdate DEF EnterGame
  <2> QED
    BY <1>3, WorldAssumption, <2>1, <2>4 DEF EnterGame, TypeOK, Outbox
<1>4. ASSUME NEW s \in Session, NEW c \in Places, StartMove(s, c) PROVE TypeOK'
  <2>1. {<<s, c>>} \in SUBSET (Session \X Cell)
    BY WorldAssumption
  <2>2. moving' \in [Thread -> SUBSET (Session \X Cell)]
    BY <1>4, <2>1, ThreadOfSession DEF StartMove, TypeOK
  <2> QED
    BY <1>4, <2>2 DEF StartMove, TypeOK
<1>5. ASSUME NEW t \in Thread, HandleMove(t) PROVE TypeOK'
  <2>1. PICK s \in Session, old \in Cell, new \in Cell : Moved(t, s, old, new)
    BY <1>5, MoveOf
  <2> DEFINE In(cells) == (UNION {grids'[c] : c \in cells}) \ {s}
             box == [despawn |-> Pairs(s, In(Lost(old, new))),
                     spawn   |-> Pairs(s, In(Gained(old, new)))]
  <2>4. grids' \in [Cell -> SUBSET Session]
    BY <2>1, UpdatedGrids DEF Moved
  <2>5. Lost(old, new) \subseteq Cell /\ Gained(old, new) \subseteq Cell
    BY DEF Lost, Gained
  <2>6. /\ In(Lost(old, new)) \in SUBSET Session
        /\ In(Gained(old, new)) \in SUBSET Session
    BY <2>4, <2>5
  <2>7. /\ Pairs(s, In(Lost(old, new))) \in SUBSET (Session \X Session)
        /\ Pairs(s, In(Gained(old, new))) \in SUBSET (Session \X Session)
    BY <2>6, PairsType
  <2>8. box \in Outbox
    BY <2>7 DEF Outbox
  <2>9. outbox' = [outbox EXCEPT ![t] = box]
    BY <2>1 DEF Moved
  <2>10. outbox' \in [Thread -> Outbox]
    BY <2>8, <2>9, OutboxUpdate
  <2>11. /\ moving' = [moving EXCEPT ![t] = {}]
         /\ cell' = [cell EXCEPT ![s] = new]
         /\ UNCHANGED <<state, players, sessions, view, disturbed>>
    BY <2>1 DEF Moved
  <2> QED
    BY <2>4, <2>10, <2>11 DEF TypeOK, Outbox
<1>6. ASSUME NEW t \in Thread, NEW p \in Session \X Session, SendDespawn(t, p)
      PROVE  TypeOK'
  <2> DEFINE box == [outbox[t] EXCEPT !.despawn = @ \ {p}]
  <2>1. outbox[t] \in Outbox
    BY DEF TypeOK, Outbox
  <2>2. box \in Outbox
    BY <2>1 DEF Outbox
  <2>3. outbox' = [outbox EXCEPT ![t] = box]
    BY <1>6, <2>1 DEF SendDespawn, Outbox
  <2>4. outbox' \in [Thread -> Outbox]
    BY <2>2, <2>3, OutboxUpdate
  <2>5. view' \in [Session -> SUBSET Session]
    BY <1>6 DEF SendDespawn, TypeOK
  <2> QED
    BY <1>6, <2>4, <2>5 DEF SendDespawn, TypeOK, Outbox
<1>7. ASSUME NEW t \in Thread, NEW p \in Session \X Session, SendSpawn(t, p)
      PROVE  TypeOK'
  <2> DEFINE box == [outbox[t] EXCEPT !.spawn = @ \ {p}]
  <2>1. outbox[t] \in Outbox
    BY DEF TypeOK, Outbox
  <2>2. box \in Outbox
    BY <2>1 DEF Outbox
  <2>3. outbox' = [outbox EXCEPT ![t] = box]
    BY <1>7, <2>1 DEF SendSpawn, Outbox
  <2>4. outbox' \in [Thread -> Outbox]
    BY <2>2, <2>3, OutboxUpdate
  <2>5. view' \in [Session -> SUBSET Session]
    BY <1>7 DEF SendSpawn, TypeOK
  <2> QED
    BY <1>7, <2>4, <2>5 DEF SendSpawn, TypeOK, Outbox
<1>8. ASSUME UNCHANGED vars PROVE TypeOK'
  BY <1>8 DEF vars, TypeOK
<1> QED
  BY <1>1, <1>2, <1>3, <1>4, <1>5, <1>6, <1>7, <1>8 DEF Next

\* Every variable of World keeps to its type.
THEOREM TypeCorrect == Spec => []TypeOK
BY InitType, TypeStep, PTL DEF Spec

-----------------------------------------------------------------------------
LEMMA RegisteredStep ==
    TypeOK /\ SessionsAreRegistered /\ [Next]_vars => SessionsAreRegistered'
<1> SUFFICES ASSUME TypeOK, SessionsAreRegistered, [Next]_vars,
                    NEW o \in sessions', NEW d \in Cell, Near(d, cell'[o])
             PROVE  o \in grids'[d]
  BY DEF SessionsAreRegistered, Near
<1>0. sessions \subseteq Session
  BY DEF TypeOK
<1>1. ASSUME NEW s \in Session, LeaveGame(s) PROVE o \in grids'[d]
  <2>1. o \in sessions /\ o # s /\ cell' = cell
    BY <1>1 DEF LeaveGame
  <2>2. o \in grids[d]
    BY <2>1 DEF SessionsAreRegistered
  <2>3. cell[s] \in Cell
    BY DEF TypeOK
  <2> QED
    BY <1>0, <1>1, <2>1, <2>2, <2>3, RemovedGrids DEF LeaveGame
<1>2. ASSUME NEW s \in Session, NEW c \in Places, EnterGame(s, c)
      PROVE  o \in grids'[d]
  <2>1. CASE o = s
    <3>1. cell'[o] = c
      BY <1>2, <2>1 DEF EnterGame, TypeOK
    <3> QED
      BY <1>2, <2>1, <3>1, InsertedGrids, WorldAssumption DEF EnterGame
  <2>2. CASE o # s
    <3>1. o \in sessions /\ cell'[o] = cell[o]
      BY <1>0, <1>2, <2>2 DEF EnterGame, TypeOK
    <3>2. o \in grids[d]
      BY <3>1 DEF SessionsAreRegistered
    <3> QED
      BY <1>0, <1>2, <3>1, <3>2, InsertedGrids, WorldAssumption DEF EnterGame
  <2> QED
    BY <2>1, <2>2
<1>3. ASSUME NEW t \in Thread, HandleMove(t) PROVE o \in grids'[d]
  <2>0. PICK s \in Session, old \in Cell, new \in Cell : Moved(t, s, old, new)
    BY <1>3, MoveOf
  <2>1. /\ old = cell[s]
        /\ cell' = [cell EXCEPT ![s] = new]
        /\ grids' = UpdateVisionGrids(s, old, new)
        /\ sessions' = sessions
    BY <2>0 DEF Moved
  <2>2. o \in sessions /\ o \in Session
    BY <1>0, <2>1
  <2>3. CASE o = s
    <3>1. cell'[o] = new
      BY <2>1, <2>3 DEF TypeOK
    <3>2. Near(d, old) => o \in grids[d]
      BY <2>1, <2>2, <2>3 DEF SessionsAreRegistered
    <3> QED
      BY <2>1, <2>2, <2>3, <3>1, <3>2, UpdatedGrids
  <2>4. CASE o # s
    <3>1. cell'[o] = cell[o]
      BY <2>1, <2>2, <2>4 DEF TypeOK
    <3>2. o \in grids[d]
      BY <2>2, <3>1 DEF SessionsAreRegistered
    <3> QED
      BY <2>1, <2>2, <2>4, <3>2, UpdatedGrids
  <2> QED
    BY <2>3, <2>4
<1>4. ASSUME UNCHANGED <<cell, grids, sessions>> PROVE o \in grids'[d]
  BY <1>4 DEF SessionsAreRegistered
<1> QED
  BY <1>1, <1>2, <1>3, <1>4
     DEF Next, Login, StartMove, SendDespawn, SendSpawn, vars

\* Whatever a session goes through, moves that race with its LeaveGame and
\* logins in the middle of the game included, while it is in the world it is
\* registered in every cell it can see.
THEOREM NobodyIsOverlooked == Spec => []SessionsAreRegistered
<1>1. Init => SessionsAreRegistered
  BY DEF Init, SessionsAreRegistered
<1> QED
  BY <1>1, TypeCorrect, RegisteredStep, PTL DEF Spec

-----------------------------------------------------------------------------
\* The inductive invariant behind GridsExact.  Of a session that entered once
\* and did not leave in the middle of a move, what the handlers check before
\* they take the lock is still so when they hold it: one that enters the game
\* is not in the world yet, and one that moves is.
WorldInv ==
    /\ TypeOK
    /\ GridsExact
    /\ players \ disturbed \subseteq sessions
    /\ \A s \in sessions \ disturbed : state[s] = "GAME"
    /\ \A t \in Thread : \A m \in moving[t] : m[1] \in sessions \cup disturbed

LEMMA ExactStep ==
    ASSUME WorldInv, [Next]_vars
    PROVE  GridsExact'
<1> SUFFICES ASSUME NEW o \in Session \ disturbed', NEW d \in Cell
             PROVE  o \in grids'[d] <=> o \in sessions' /\ Near(d, cell'[o])
  BY DEF GridsExact, Near
<1> USE DEF WorldInv
<1>0. disturbed \subseteq disturbed'
  BY DEF Next, Login, LeaveGame, EnterGame, StartMove, HandleMove, SendDespawn,
         SendSpawn, vars
<1>1. o \in Session /\ o \notin disturbed
  BY <1>0
<1>2. o \in grids[d] <=> o \in sessions /\ Near(d, cell[o])
  BY <1>1 DEF GridsExact
<1> DEFINE Goal == o \in grids'[d] <=> o \in sessions' /\ Near(d, cell'[o])
<1>3. ASSUME NEW s \in Session, NEW c \in Places, EnterGame(s, c) PROVE Goal
  <2>1. o = s => o \notin sessions
    BY <1>1, <1>3 DEF EnterGame
  <2>2. o \in grids'[d] <=> o \in grids[d] \/ (o = s /\ Near(d, c))
    BY <1>1, <1>3, WorldAssumption, InsertedGrids DEF EnterGame
  <2>3. /\ sessions' = sessions \cup {s}
        /\ cell'[o] = IF o = s THEN c ELSE cell[o]
    BY <1>1, <1>3 DEF EnterGame, TypeOK
  <2> QED
    BY <1>2, <2>1, <2>2, <2>3
<1>4. ASSUME NEW t \in Thread, HandleMove(t) PROVE Goal
  <2>0. PICK s \in Session, old \in Cell, new \in Cell : Moved(t, s, old, new)
    BY <1>4, MoveOf
  <2>1. /\ <<s, new>> \in moving[t]
        /\ old = cell[s]
        /\ cell' = [cell EXCEPT ![s] = new]
        /\ grids' = UpdateVisionGrids(s, old, new)
        /\ sessions' = sessions
    BY <2>0 DEF Moved
  <2>2. o = s => o \in sessions
    BY <1>1, <2>1
  <2>3. cell'[o] = IF o = s THEN new ELSE cell[o]
    BY <1>1, <2>1 DEF TypeOK
  <2>4. o \in grids'[d] <=>
           IF o # s THEN o \in grids[d]
           ELSE \/ Near(d, new) /\ ~ Near(d, old)
                \/ o \in grids[d] /\ ~ (Near(d, old) /\ ~ Near(d, new))
    BY <1>1, <2>1, UpdatedGrids
  <2> QED
    BY <1>2, <2>1, <2>2, <2>3, <2>4
<1>5. ASSUME NEW s \in Session, LeaveGame(s) PROVE Goal
  <2>1. cell[s] \in Cell
    BY DEF TypeOK
  <2>2. o \in grids'[d] <=> o \in grids[d] /\ ~ (o = s /\ Near(d, cell[s]))
    BY <1>1, <1>5, <2>1, RemovedGrids DEF LeaveGame
  <2>3. sessions' = sessions \ {s} /\ cell' = cell
    BY <1>5 DEF LeaveGame
  <2> QED
    BY <1>2, <2>2, <2>3
<1>6. ASSUME UNCHANGED <<cell, grids, sessions>> PROVE Goal
  BY <1>2, <1>6
<1> QED
  BY <1>3, <1>4, <1>5, <1>6
     DEF Next, Login, StartMove, SendDespawn, SendSpawn, vars

LEMMA WorldInvStep ==
    ASSUME WorldInv, [Next]_vars
    PROVE  WorldInv'
<1> USE DEF WorldInv
<1>1. TypeOK' /\ GridsExact'
  BY TypeStep, ExactStep
<1> DEFINE Rest == /\ players \ disturbed \subseteq sessions
                   /\ \A s \in sessions \ disturbed : state[s] = "GAME"
                   /\ \A t \in Thread : \A m \in moving[t] :
                         m[1] \in sessions \cup disturbed
<1>2. ASSUME NEW s \in Session, Login(s) PROVE Rest'
  <2>1. /\ disturbed \subseteq disturbed'
        /\ s \in sessions => s \in disturbed'
        /\ state' = [state EXCEPT ![s] = "LOBBY"]
        /\ UNCHANGED <<players, sessions, moving>>
    BY <1>2 DEF Login
  <2>2. \A o \in sessions \ disturbed' : state'[o] = "GAME"
    BY <2>1 DEF TypeOK
  <2> QED
    BY <2>1, <2>2
<1>3. ASSUME NEW s \in Session, NEW c \in Places, EnterGame(s, c) PROVE Rest'
  BY <1>3 DEF EnterGame, TypeOK
<1>4. ASSUME NEW s \in Session, NEW c \in Places, StartMove(s, c) PROVE Rest'
  BY <1>4 DEF StartMove, TypeOK
<1>5. ASSUME NEW t \in Thread, HandleMove(t) PROVE Rest'
  <2>1. /\ moving' = [moving EXCEPT ![t] = {}]
        /\ UNCHANGED <<state, players, sessions, disturbed>>
    BY <1>5, MoveOf DEF Moved
  <2> QED
    BY <2>1 DEF TypeOK
<1>6. ASSUME NEW s \in Session, LeaveGame(s) PROVE Rest'
  <2>1. /\ players' = players \ {s}
        /\ sessions' = sessions \ {s}
        /\ state' = [state EXCEPT ![s] = "NONE"]
        /\ moving' = moving
        /\ disturbed' = disturbed \cup {o \in {s} : Moving(o)}
    BY <1>6 DEF LeaveGame
  <2>2. \A o \in sessions' \ disturbed' : state'[o] = "GAME"
    BY <2>1 DEF TypeOK
  <2>3. ASSUME NEW t \in Thread, NEW m \in moving[t]
        PROVE  m[1] \in sessions' \cup disturbed'
    BY <2>1, <2>3 DEF Moving
  <2> QED
    BY <2>1, <2>2, <2>3
<1>7. ASSUME UNCHANGED <<state, players, sessions, moving, disturbed>> PROVE Rest'
  BY <1>7
<1>8. Rest'
  BY <1>2, <1>3, <1>4, <1>5, <1>6, <1>7 DEF Next, SendDespawn, SendSpawn, vars
<1> QED
  BY <1>1, <1>8

LEMMA WorldInvInit == Init => WorldInv
BY InitType DEF Init, WorldInv, GridsExact

\* After any number of moves by any number of threads, of sessions that leave
\* and come back, each session is registered in exactly the cells it can see;
\* only one that logged in while it was in the world, or that left it in the
\* middle of a move, may be registered elsewhere.
THEOREM GridIsExact == Spec => []GridsExact
<1>1. Init => WorldInv
  BY WorldInvInit
<1>2. WorldInv /\ [Next]_vars => WorldInv'
  BY WorldInvStep
<1>3. WorldInv => GridsExact
  BY DEF WorldInv
<1> QED
  BY <1>1, <1>2, <1>3, PTL DEF Spec

-----------------------------------------------------------------------------
\* The thread that changes who sees whom collects a message for each of the
\* two: Told is that, for one of them.
Told(s, o) ==
    \E t \in Thread : IF Sees(s, o)' THEN <<s, o>> \in outbox'[t].spawn
                                     ELSE <<s, o>> \in outbox'[t].despawn

LEMMA EnterTells ==
    ASSUME WorldInv, NEW a \in Session, NEW c \in Places, EnterGame(a, c),
           NEW s \in Session \ disturbed, NEW o \in Session \ disturbed,
           s # o, Sees(s, o) # Sees(s, o)'
    PROVE  Told(s, o)
<1> USE DEF WorldInv
<1> DEFINE t == LogicThread(a)
           others == grids'[c] \ {a}
<1>1. /\ sessions' = sessions \cup {a}
      /\ cell' = [cell EXCEPT ![a] = c]
      /\ outbox'[t] = [despawn |-> {}, spawn |-> Pairs(a, others)]
  BY ThreadOfSession DEF EnterGame, TypeOK
<1>2. /\ c \in Cell
      /\ cell'[a] = c
      /\ \A b \in Session \ {a} : cell'[b] = cell[b]
  BY <1>1, WorldAssumption DEF TypeOK
<1>3. Sees(s, o)' /\ (s = a \/ o = a)
  <2>1. s = a \/ o = a
    BY <1>1, <1>2 DEF Sees
  <2>2. a \notin sessions
    BY <2>1 DEF EnterGame
  <2>3. ~ Sees(s, o)
    BY <2>1, <2>2 DEF Sees
  <2> QED
    BY <2>1, <2>3 DEF Sees
<1>4. ASSUME NEW b \in {s, o}, b \in sessions, b # a, Near(c, cell[b])
      PROVE  b \in others
  <2>1. b \in grids[c]
    BY <1>2, <1>4 DEF GridsExact
  <2> QED
    BY <1>2, <1>4, <2>1, InsertedGrids DEF EnterGame
<1>5. CASE s = a
  <2>1. o \in sessions /\ Near(c, cell[o])
    BY <1>1, <1>2, <1>3, <1>5 DEF Sees
  <2>2. <<s, o>> \in Pairs(a, others)
    BY <1>4, <1>5, <2>1 DEF Pairs
  <2> QED
    BY <1>1, <1>3, <2>2, ThreadOfSession DEF Told
<1>6. CASE o = a
  <2>1. s \in sessions /\ Near(cell[s], c)
    BY <1>1, <1>2, <1>3, <1>6 DEF Sees
  <2>2. Near(c, cell[s])
    BY <1>2, <2>1, NearIsMutual DEF TypeOK
  <2>3. <<s, o>> \in Pairs(a, others)
    BY <1>4, <1>6, <2>1, <2>2 DEF Pairs
  <2> QED
    BY <1>1, <1>3, <2>3, ThreadOfSession DEF Told
<1> QED
  BY <1>3, <1>5, <1>6

LEMMA MoveTells ==
    ASSUME WorldInv, NEW t \in Thread, HandleMove(t),
           NEW s \in Session \ disturbed, NEW o \in Session \ disturbed,
           s # o, Sees(s, o) # Sees(s, o)'
    PROVE  Told(s, o)
<1> USE DEF WorldInv
<1>0. Sees(s, o) <=> ~ Sees(s, o)'
  BY DEF Sees
<1>1. PICK a \in Session, old \in Cell, new \in Cell : Moved(t, a, old, new)
  BY MoveOf
<1> DEFINE Met(cells) == (UNION {grids'[c] : c \in cells}) \ {a}
<1>2. /\ sessions' = sessions
      /\ old = cell[a]
      /\ cell'[a] = new
      /\ \A b \in Session \ {a} : cell'[b] = cell[b]
  BY <1>1 DEF Moved, TypeOK
<1>3. outbox'[t] = [despawn |-> Pairs(a, Met(Lost(old, new))),
                    spawn   |-> Pairs(a, Met(Gained(old, new)))]
  BY <1>1 DEF Moved, TypeOK
<1>4. {s, o} \subseteq sessions /\ (s = a \/ o = a)
  BY <1>2 DEF Sees
\* The other session is registered in its own cell, before and after.
<1>5. PICK b \in Session : b # a /\ {s, o} = {a, b}
  BY <1>4
<1>6. b \in sessions /\ cell[b] \in Cell /\ cell'[b] = cell[b]
  <2>1. b \in sessions
    BY <1>4, <1>5
  <2>2. cell[b] \in Cell
    BY DEF TypeOK
  <2> QED
    BY <1>2, <1>5, <2>1, <2>2
<1>7. b \in grids'[cell[b]]
  <2>1. b \in grids[cell[b]]
    BY <1>5, <1>6, NearIsMutual DEF GridsExact
  <2> QED
    BY <1>1, <1>5, <1>6, <2>1, UpdatedGrids DEF Moved
<1>8. /\ Sees(s, o) <=> Near(cell[b], old)
      /\ Sees(s, o)' <=> Near(cell[b], new)
  <2>1. /\ Sees(a, b) <=> Near(old, cell[b])
        /\ Sees(b, a) <=> Near(cell[b], old)
        /\ Sees(a, b)' <=> Near(new, cell[b])
        /\ Sees(b, a)' <=> Near(cell[b], new)
    BY <1>2, <1>4, <1>5, <1>6 DEF Sees
  <2> QED
    BY <1>5, <1>6, <2>1, NearIsMutual
<1>9. ASSUME NEW cells, cell[b] \in cells PROVE b \in Met(cells)
  <2>1. grids'[cell[b]] \in {grids'[c] : c \in cells}
    BY <1>9
  <2>2. b \in (UNION {grids'[c] : c \in cells})
    BY <1>7, <2>1
  <2> QED
    BY <1>5, <2>2
<1>10. \A others : b \in others => <<s, o>> \in Pairs(a, others)
  BY <1>5 DEF Pairs
<1>11. CASE Sees(s, o)'
  <2>1. cell[b] \in Gained(old, new)
    BY <1>6, <1>8, <1>11 DEF Gained, Lost
  <2>3. <<s, o>> \in outbox'[t].spawn
    BY <1>3, <1>9, <1>10, <2>1
  <2> QED
    BY <1>11, <2>3 DEF Told
<1>12. CASE ~ Sees(s, o)'
  <2>1. Near(cell[b], old) /\ ~ Near(cell[b], new)
    BY <1>0, <1>8, <1>12
  <2>2. cell[b] \in Lost(old, new)
    BY <1>6, <2>1 DEF Lost
  <2>3. <<s, o>> \in outbox'[t].despawn
    BY <1>3, <1>9, <1>10, <2>2
  <2> QED
    BY <1>12, <2>3 DEF Told
<1> QED
  BY <1>11, <1>12

LEMMA LeaveTells ==
    ASSUME WorldInv, NEW a \in Session, LeaveGame(a),
           NEW s \in Session \ disturbed, NEW o \in Session \ disturbed,
           s # o, s \in sessions', Sees(s, o) # Sees(s, o)'
    PROVE  Told(s, o)
<1> USE DEF WorldInv
<1>1. /\ sessions' = sessions \ {a}
      /\ cell' = cell
      /\ outbox'[WorkerThread].despawn = {<<b, a>> : b \in grids[cell[a]] \ {a}}
  <2>1. WorkerThread \in Thread
    BY WorldAssumption DEF WorkerThread, Thread
  <2> QED
    BY <2>1 DEF LeaveGame, TypeOK
<1>2. o = a /\ s \in sessions /\ Near(cell[s], cell[a]) /\ ~ Sees(s, o)'
  BY <1>1 DEF Sees
<1>3. s \in grids[cell[a]]
  <2>1. cell[a] \in Cell /\ cell[s] \in Cell
    BY DEF TypeOK
  <2>2. Near(cell[a], cell[s])
    BY <1>2, <2>1, NearIsMutual
  <2> QED
    BY <1>2, <2>1, <2>2 DEF GridsExact
<1>4. <<s, o>> \in outbox'[WorkerThread].despawn
  BY <1>1, <1>2, <1>3
<1> QED
  BY <1>2, <1>4, WorldAssumption DEF Told, WorkerThread, Thread

\* Nobody who stays in the world is missed by a thread that brings another into
\* its sight or takes it out of it, by a move, an entry or a leave: a message
\* for it is collected.  Only of a session that logged in while it was in the
\* world, or left it in the middle of a move, is nothing said.
THEOREM EveryCrossingIsTold == Spec => CrossingsCollected
<1> DEFINE Step == \A s, o \in Session \ disturbed' :
                      s # o /\ s \in sessions' /\ Sees(s, o) # Sees(s, o)'
                        => Told(s, o)
<1>1. WorldInv /\ [Next]_vars => [Step]_vars
  <2> SUFFICES ASSUME WorldInv, Next,
                      NEW s \in Session \ disturbed', NEW o \in Session \ disturbed',
                      s # o, s \in sessions', Sees(s, o) # Sees(s, o)'
               PROVE  Told(s, o)
    OBVIOUS
  <2>0. disturbed \subseteq disturbed'
    BY DEF Next, Login, LeaveGame, EnterGame, StartMove, HandleMove, SendDespawn,
           SendSpawn
  <2>1. ~ UNCHANGED <<sessions, cell>>
    BY DEF Sees
  <2>2. \/ \E a \in Session : LeaveGame(a)
        \/ \E a \in Session, c \in Places : EnterGame(a, c)
        \/ \E t \in Thread : HandleMove(t)
    BY <2>1 DEF Next, Login, StartMove, SendDespawn, SendSpawn
  <2> QED
    BY <2>0, <2>2, EnterTells, MoveTells, LeaveTells
<1>2. CrossingsCollected <=> [][Step]_vars
  BY DEF CrossingsCollected, Told
<1> QED
  BY <1>1, <1>2, WorldInvInit, WorldInvStep, PTL DEF Spec
=============================================================================
