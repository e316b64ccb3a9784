------------------------------- MODULE Combat -------------------------------
(***************************************************************************)
(* Fighting, dying and coming back to life: C_ATTACK on the logic threads, *)
(* Player::OnDamaged under the lock of the player that is hit, the timer   *)
(* that Die leaves in the TimeWheel, and the Respawn that logic thread 0   *)
(* runs from it without a lock.                                            *)
(*                                                                         *)
(* Who is within the range of an attack is any set of sessions; the sends  *)
(* of S_ATTACK, S_DIE and S_RESPAWN change nothing here.  The wheel's      *)
(* ticks are those its cursor makes: that Update makes up for ticks it     *)
(* missed is one turn of its loop each.                                    *)
(***************************************************************************)
EXTENDS Integers, Sequences, FiniteSets

CONSTANTS
    NumSessions,
    NumThreads,     \* logic threads: 4
    MaxHp,          \* m_maxHp: 100
    DamageOne,      \* of a target that is named: 10
    DamageAround,   \* of everybody around: 20
    WheelSize,      \* WHEEL_SIZE: 50
    RespawnTicks,   \* 5000 ms in ticks of WHEEL_TICK ms: 50
    MaxLogins       \* bound on the logins of a run

ASSUME CombatAssumption ==
    /\ NumSessions \in Nat
    /\ NumThreads \in Nat \ {0}
    /\ MaxHp \in Nat \ {0}
    /\ DamageOne \in Nat \ {0} /\ DamageAround \in Nat \ {0}
    /\ WheelSize \in Nat \ {0}
    /\ RespawnTicks \in 1 .. WheelSize
    /\ MaxLogins \in Nat

Session == 1 .. NumSessions
Thread == 0 .. NumThreads - 1
Slot == 0 .. WheelSize - 1
PlayerId == 1 .. MaxLogins

\* LogicManager::PushJob: the thread whose jobs a session's are, for ever.
LogicThread(s) == s % NumThreads

VARIABLES
    state,          \* m_state: "NONE", "LOBBY" or "GAME"
    id,             \* m_playerId
    nextId,         \* g_IdCounter
    sessions,       \* World::sessions, as pairs of an id and its session
    players,        \* the sessions with a Player
    hp,             \* its m_Hp
    at,             \* where in C_ATTACK each logic thread is
    targets,        \* the sessions it has yet to hit
    damage,         \* and how hard
    slots,          \* _slots: timers, as the session and the id Die captured
    cursor,         \* _cursor
    next,           \* the timer Update runs next in the cursor's slot, or 0
    last,           \* and where that slot ended when Update began to run it
    deadFor,        \* history: ticks since each session's last timer was added
    stranded        \* history: dead players whose timer can do nothing for them

identity == <<state, id, nextId, sessions>>
attacks  == <<at, targets, damage>>
wheel    == <<slots, cursor, next, last>>
history  == <<deadFor, stranded>>
vars == <<identity, players, hp, attacks, wheel, history>>

\* A logic thread handles one job at a time, and thread 0 none during Update.
Idle(t) == at[t] = "idle" /\ (t = 0 => next = 0)

\* The session a thread hits, or is about to: a std::set is visited in order.
Victim(t) == CHOOSE s \in targets[t] : \A o \in targets[t] : s <= o

\* m_mutex of the player of s.
Locked(s) == \E t \in Thread : at[t] \in {"hit", "die"} /\ Victim(t) = s

Dying(s) == \E t \in Thread : at[t] = "die" /\ Victim(t) = s

-----------------------------------------------------------------------------
Init ==
    /\ state = [s \in Session |-> "NONE"]
    /\ id = [s \in Session |-> 0]
    /\ nextId = 1
    /\ sessions = {}
    /\ players = {}
    /\ hp = [s \in Session |-> 0]
    /\ at = [t \in Thread |-> "idle"]
    /\ targets = [t \in Thread |-> {}]
    /\ damage = [t \in Thread |-> 0]
    /\ slots = [c \in Slot |-> << >>]
    /\ cursor = 0
    /\ next = 0
    /\ last = 0
    /\ deadFor = [s \in Session |-> 0]
    /\ stranded = {}

\* Handle_S_LOGIN for a login that succeeded, also of a session in the game: a
\* new id, so that the timer of one who is dead will not know it.
Login(s) ==
    /\ Idle(LogicThread(s))
    /\ nextId <= MaxLogins
    /\ id' = [id EXCEPT ![s] = nextId]
    /\ nextId' = nextId + 1
    /\ state' = [state EXCEPT ![s] = "LOBBY"]
    /\ stranded' = IF s \in players /\ hp[s] = 0 /\ ~ Dying(s)
                   THEN stranded \cup {s} ELSE stranded
    /\ UNCHANGED <<sessions, players, hp, attacks, wheel, deadFor>>

\* Handle_C_ENTER_GAME and World::EnterGame: a session that has a Player, dead
\* or alive, keeps it.
EnterGame(s) ==
    /\ Idle(LogicThread(s))
    /\ state[s] = "LOBBY"
    /\ state' = [state EXCEPT ![s] = "GAME"]
    /\ sessions' = sessions \cup {<<id[s], s>>}
    /\ players' = players \cup {s}
    /\ hp' = IF s \in players THEN hp ELSE [hp EXCEPT ![s] = MaxHp]
    /\ UNCHANGED <<id, nextId, attacks, wheel, history>>

\* A worker clears the session of a client that is gone.  That its Player is
\* not deleted while somebody hits it is an assumption: what deletes it is not
\* in the repository.
LeaveGame(s) ==
    /\ state[s] # "NONE"
    /\ ~ Locked(s)
    /\ state' = [state EXCEPT ![s] = "NONE"]
    /\ sessions' = IF s \in players THEN sessions \ {<<id[s], s>>} ELSE sessions
    /\ players' = players \ {s}
    /\ hp' = [hp EXCEPT ![s] = 0]
    /\ stranded' = stranded \ {s}
    /\ UNCHANGED <<id, nextId, attacks, wheel, deadFor>>

-----------------------------------------------------------------------------
CanAttack(s) == Idle(LogicThread(s)) /\ s \in players /\ hp[s] > 0

Attack(s, T, d) ==
    /\ at' = [at EXCEPT ![LogicThread(s)] = "target"]
    /\ targets' = [targets EXCEPT ![LogicThread(s)] = T]
    /\ damage' = [damage EXCEPT ![LogicThread(s)] = d]
    /\ UNCHANGED <<identity, players, hp, wheel, history>>

\* Handle_C_ATTACK, type 0: the session with the target's id, if it is near.
AttackOne(s) ==
    /\ CanAttack(s)
    /\ \E p \in sessions : Attack(s, {p[2]}, DamageOne)

\* Handle_C_ATTACK, type 1: the other sessions that are near.
AttackAround(s) ==
    /\ CanAttack(s)
    /\ \E T \in SUBSET ({p[2] : p \in sessions} \ {s}) \ {{}} :
          Attack(s, T, DamageAround)

\* The thread has done with its victim.
GoOn(t) ==
    /\ targets' = [targets EXCEPT ![t] = @ \ {Victim(t)}]
    /\ at' = [at EXCEPT ![t] = IF targets'[t] = {} THEN "idle" ELSE "target"]
    /\ damage' = [damage EXCEPT ![t] = IF targets'[t] = {} THEN 0 ELSE @]

\* The victim has no Player any more.
SkipTarget(t) ==
    /\ at[t] = "target"
    /\ Victim(t) \notin players
    /\ GoOn(t)
    /\ UNCHANGED <<identity, players, hp, wheel, history>>

\* Mutation: m_mutex is not taken.
LockNothing(t) ==
    /\ at[t] = "target"
    /\ Victim(t) \in players
    /\ IF hp[Victim(t)] <= 0
       THEN GoOn(t)
       ELSE at' = [at EXCEPT ![t] = "hit"] /\ UNCHANGED <<targets, damage>>
    /\ UNCHANGED <<identity, players, hp, wheel, history>>

\* Handle_C_ATTACK takes m_mutex, and OnDamaged looks whether the player lives.
LockTarget(t) ==
    /\ at[t] = "target"
    /\ Victim(t) \in players
    /\ ~ Locked(Victim(t))
    /\ IF hp[Victim(t)] <= 0
       THEN GoOn(t)
       ELSE at' = [at EXCEPT ![t] = "hit"] /\ UNCHANGED <<targets, damage>>
    /\ UNCHANGED <<identity, players, hp, wheel, history>>

\* The rest of OnDamaged, with the start of Die.
OnDamaged(t) ==
    /\ at[t] = "hit"
    /\ LET left == hp[Victim(t)] - damage[t]
       IN  IF left <= 0
           THEN /\ hp' = [hp EXCEPT ![Victim(t)] = 0]
                /\ at' = [at EXCEPT ![t] = "die"]
                /\ UNCHANGED <<targets, damage>>
           ELSE hp' = [hp EXCEPT ![Victim(t)] = left] /\ GoOn(t)
    /\ UNCHANGED <<identity, players, wheel, history>>

\* Mutation: the timer goes one slot too far.
TargetSlotAfter(ticks) == (cursor + ticks + 1) % WheelSize

\* TimeWheel::AddTimer.
TargetSlot(ticks) == (cursor + ticks) % WheelSize

\* The rest of Die, which adds the timer, still under the victim's m_mutex.
\* When thread 0 is running the slot the timer goes to, the vector grows under
\* its loop: what the loop then reads is undefined, and is taken to be what it
\* would have read.
Die(t) ==
    LET s == Victim(t)
    IN  /\ at[t] = "die"
        /\ slots' = [slots EXCEPT ![TargetSlot(RespawnTicks)] =
                                     Append(@, <<s, id[s]>>)]
        /\ deadFor' = [deadFor EXCEPT ![s] = 0]
        /\ GoOn(t)
        /\ UNCHANGED <<identity, players, hp, cursor, next, last, stranded>>

-----------------------------------------------------------------------------
\* TimeWheel::Update on thread 0: the cursor moves on to a slot, ...
Advance ==
    /\ at[0] = "idle"
    /\ next = 0
    /\ cursor' = (cursor + 1) % WheelSize
    /\ next' = 1
    /\ last' = Len(slots[cursor'])
    /\ deadFor' = [s \in Session |->
                      IF s \in players /\ hp[s] = 0
                      THEN IF deadFor[s] <= RespawnTicks THEN deadFor[s] + 1
                                                         ELSE deadFor[s]
                      ELSE 0]
    /\ UNCHANGED <<identity, players, hp, attacks, slots, stranded>>

\* The conditions of the callback in Die.
IsForPlayer(timer) == timer[1] \in players /\ id[timer[1]] = timer[2]

\* Mutation: the callback does not call Respawn.
RunTimerForNobody ==
    /\ next \in 1 .. last
    /\ next' = next + 1
    /\ UNCHANGED <<identity, players, hp, attacks, slots, cursor, last, history>>

\* ... every timer in it is run, and a player who is still there respawns, ...
RunTimer ==
    /\ next \in 1 .. last
    /\ LET timer == slots[cursor][next]
       IN  hp' = IF IsForPlayer(timer) THEN [hp EXCEPT ![timer[1]] = MaxHp]
                                       ELSE hp
    /\ next' = next + 1
    /\ UNCHANGED <<identity, players, attacks, slots, cursor, last, history>>

\* ... and the slot is emptied, of what was added to it meanwhile too.
ClearSlot ==
    /\ next > last
    /\ slots' = [slots EXCEPT ![cursor] = << >>]
    /\ next' = 0
    /\ last' = 0
    /\ stranded' = stranded \cup
                     {s \in players : \E k \in last + 1 .. Len(slots[cursor]) :
                                         slots[cursor][k] = <<s, id[s]>>}
    /\ UNCHANGED <<identity, players, hp, attacks, cursor, deadFor>>

-----------------------------------------------------------------------------
Strike(t) == SkipTarget(t) \/ LockTarget(t) \/ OnDamaged(t) \/ Die(t)
Update == Advance \/ RunTimer \/ ClearSlot

Next ==
    \/ \E s \in Session : \/ Login(s) \/ EnterGame(s) \/ LeaveGame(s)
                          \/ AttackOne(s) \/ AttackAround(s)
    \/ \E t \in Thread : SkipTarget(t) \/ LockTarget(t) \/ OnDamaged(t) \/ Die(t)
    \/ Advance \/ RunTimer \/ ClearSlot

Spec == Init /\ [][Next]_vars

\* Thread 0 comes to Update after every batch of jobs, however many arrive, and
\* a thread that waits for an m_mutex gets it if it is free again and again.
Fairness == SF_vars(Update) /\ \A t \in Thread : SF_vars(Strike(t))

FairSpec == Spec /\ Fairness

-----------------------------------------------------------------------------
TypeOK ==
    /\ state \in [Session -> {"NONE", "LOBBY", "GAME"}]
    /\ id \in [Session -> {0} \cup PlayerId]
    /\ nextId \in 1 .. MaxLogins + 1
    /\ sessions \subseteq PlayerId \X Session
    /\ players \subseteq Session
    /\ hp \in [Session -> 0 .. MaxHp]
    /\ at \in [Thread -> {"idle", "target", "hit", "die"}]
    /\ targets \in [Thread -> SUBSET Session]
    /\ damage \in [Thread -> {0, DamageOne, DamageAround}]
    /\ slots \in [Slot -> Seq(Session \X PlayerId)]
    /\ cursor \in Slot
    /\ next \in Nat /\ last \in Nat
    /\ deadFor \in [Session -> 0 .. RespawnTicks + 1]
    /\ stranded \subseteq Session

\* The timers that will revive the player of s, if Update gets to run them.
Pending(s) ==
    UNION {{<<c, k>> : k \in {i \in DOMAIN slots[c] :
                                 /\ slots[c][i] = <<s, id[s]>>
                                 /\ c = cursor => i >= next}} : c \in Slot}

\* A death leaves one timer, and a player who lives has none: two attackers
\* never both kill, and no timer revives a player of a later connection or one
\* who is alive (m_mutex in Handle_C_ATTACK, the id in Die's callback).  The
\* dead without a timer are those who logged in again while dead and those
\* whose timer was added to the slot that Update was running.
OneTimerPerDeath ==
    \A s \in players :
        Cardinality(Pending(s)) =
            IF hp[s] = 0 /\ ~ Dying(s) /\ s \notin stranded THEN 1 ELSE 0

\* A player respawns after exactly the ticks that Die asked for, although they
\* are a whole turn of the wheel (TimeWheel::AddTimer and Update).
RespawnOnTime ==
    [][ \A s \in players \cap players' :
          hp'[s] > hp[s] => hp[s] = 0 /\ deadFor[s] = RespawnTicks ]_vars

\* Whoever dies comes back to life or leaves, unless the timer was lost in one
\* of the two ways above.
TheDeadComeBack ==
    \A s \in Session :
        (s \in players /\ hp[s] = 0)
            ~> (s \notin players \/ hp[s] > 0 \/ s \in stranded)

-----------------------------------------------------------------------------
\* Statements that the repository makes and the code does not keep: README.md
\* says under "Known deviations" what happens instead.

\* The time wheel takes care of the respawn after 5 seconds (README.md:88): no
\* player stays dead.
NobodyIsStranded == stranded = {}
=============================================================================
