---------------------------- MODULE CombatTheorems ----------------------------
(***************************************************************************)
(* A death leaves one timer and the timer revives on time, for every       *)
(* number of sessions, threads and slots, whatever is hit how hard.        *)
(***************************************************************************)
EXTENDS Combat, FiniteSetTheorems, SequenceTheorems, TLAPS

\* The k-th timer of slot c will revive the player of s.
Waits(s, c, k) ==
    /\ c \in Slot /\ k \in DOMAIN slots[c]
    /\ slots[c][k] = <<s, id[s]>>
    /\ c = cursor => k >= next

NoneWaits(s) == \A c \in Slot : \A k \in DOMAIN slots[c] : ~ Waits(s, c, k)
OneWaits(s) ==
    \E c \in Slot : \E k \in DOMAIN slots[c] :
        /\ Waits(s, c, k)
        /\ \A d \in Slot : \A j \in DOMAIN slots[d] : Waits(s, d, j) => d = c /\ j = k

\* Who has a Player has logged in, and who is in the game has one.
PlayersLogIn ==
    \A s \in Session :
        /\ state[s] = "GAME" => s \in players
        /\ s \in players => state[s] # "NONE"
        /\ state[s] # "NONE" => id[s] # 0

\* Ids are given out in order, and timers have those.
IdsWereGiven ==
    /\ \A s \in Session : id[s] < nextId
    /\ \A c \in Slot : \A k \in DOMAIN slots[c] : slots[c][k][2] < nextId

\* Update runs the timers that its slot had when it came to it.
UpdateInSlot ==
    /\ next <= last + 1 /\ last <= Len(slots[cursor])
    /\ next = 0 => last = 0

\* One thread at a time hits a player, who was alive when it looked.
OneHits ==
    /\ \A t \in Thread : at[t] \in {"hit", "die"} =>
          /\ Victim(t) \in players
          /\ at[t] = "hit" => hp[Victim(t)] > 0
          /\ at[t] = "die" => hp[Victim(t)] = 0 /\ Victim(t) \notin stranded
    /\ \A t, u \in Thread :
          at[t] \in {"hit", "die"} /\ at[u] \in {"hit", "die"} /\ Victim(t) = Victim(u)
              => t = u

StrandedAreDead == \A s \in stranded : s \in players /\ hp[s] = 0

\* A timer that waits is as many ticks away as its player has still to wait.
TicksToGo(s, c, k) ==
    /\ deadFor[s] <= RespawnTicks
    /\ c = TargetSlot(RespawnTicks - deadFor[s])
    /\ c = cursor => IF next # 0 /\ k <= last THEN deadFor[s] = RespawnTicks
                                              ELSE deadFor[s] = 0
OnTime(s) ==
    \A c \in Slot : \A k \in DOMAIN slots[c] : Waits(s, c, k) => TicksToGo(s, c, k)

\* The dead, and nobody else, have a timer that waits for them: neither who
\* lives, nor who logged in again, nor who has a Player next.
Awaited(s) == s \in players /\ hp[s] = 0 /\ ~ Dying(s) /\ s \notin stranded
TimerOf(s) ==
    /\ Awaited(s) => OneWaits(s)
    /\ s \in players /\ ~ Awaited(s) => NoneWaits(s)
    /\ s \notin players /\ state[s] = "LOBBY" => NoneWaits(s)
    /\ s \in players => OnTime(s)

CombatIInv ==
    /\ TypeOK /\ PlayersLogIn /\ IdsWereGiven /\ UpdateInSlot /\ OneHits
    /\ StrandedAreDead /\ \A s \in Session : TimerOf(s)

-----------------------------------------------------------------------------
\* At most a turn of the wheel away.
LEMMA SlotIs ==
    ASSUME NEW c \in Slot, NEW n \in 0 .. WheelSize
    PROVE  /\ (c + n) % WheelSize = IF c + n < WheelSize THEN c + n ELSE c + n - WheelSize
           /\ (c + n) % WheelSize \in Slot
BY CombatAssumption DEF Slot

\* The timers of a slot are numbered from 1.
LEMMA SlotTimers ==
    ASSUME TypeOK, NEW c \in Slot
    PROVE  /\ slots[c] \in Seq(Session \X PlayerId)
           /\ Len(slots[c]) \in Nat /\ DOMAIN slots[c] = 1 .. Len(slots[c])
           /\ \A k \in DOMAIN slots[c] : slots[c][k] \in Session \X PlayerId
<1>1. slots[c] \in Seq(Session \X PlayerId)
  BY DEF TypeOK
<1> QED  BY <1>1

\* A step that leaves the wheel and a session's id alone leaves its timers.
LEMMA TimersStay ==
    ASSUME UNCHANGED <<slots, cursor, next>>, NEW s, id'[s] = id[s]
    PROVE  /\ \A c, k : Waits(s, c, k)' <=> Waits(s, c, k)
           /\ NoneWaits(s)' <=> NoneWaits(s)
           /\ OneWaits(s)' <=> OneWaits(s)
<1>1. \A c, k : Waits(s, c, k)' <=> Waits(s, c, k)
  BY DEF Waits
<1> QED  BY <1>1 DEF NoneWaits, OneWaits

LEMMA TimerOfStays ==
    ASSUME UNCHANGED <<slots, cursor, next, last, deadFor>>,
           NEW s, id'[s] = id[s], TimerOf(s),
           Awaited(s)' <=> Awaited(s), s \in players' <=> s \in players,
           state'[s] = "LOBBY" => state[s] = "LOBBY"
    PROVE  TimerOf(s)'
<1>1. /\ \A c, k : Waits(s, c, k)' <=> Waits(s, c, k)
      /\ NoneWaits(s)' <=> NoneWaits(s)
      /\ OneWaits(s)' <=> OneWaits(s)
  BY TimersStay
<1>2. OnTime(s) => OnTime(s)'
  BY <1>1 DEF OnTime, TicksToGo, TargetSlot
<1> QED  BY <1>1, <1>2 DEF TimerOf

\* A thread that has done with its victim, and the others.
LEMMA GoesOn ==
    ASSUME TypeOK, NEW t \in Thread, GoOn(t)
    PROVE  /\ at' \in [Thread -> {"idle", "target", "hit", "die"}]
           /\ targets' \in [Thread -> SUBSET Session]
           /\ damage' \in [Thread -> {0, DamageOne, DamageAround}]
           /\ at'[t] \notin {"hit", "die"}
           /\ \A u \in Thread : u # t => at'[u] = at[u] /\ Victim(u)' = Victim(u)
<1>1. targets' \in [Thread -> SUBSET Session] /\ \A u \in Thread : u # t => targets'[u] = targets[u]
  BY DEF GoOn, TypeOK
<1>2. at' \in [Thread -> {"idle", "target", "hit", "die"}]
      /\ at'[t] \in {"idle", "target"} /\ \A u \in Thread : u # t => at'[u] = at[u]
  BY DEF GoOn, TypeOK
<1>3. damage' \in [Thread -> {0, DamageOne, DamageAround}]
  BY DEF GoOn, TypeOK
<1> QED  BY <1>1, <1>2, <1>3 DEF Victim

-----------------------------------------------------------------------------
\* A login gives an id that no timer has.
LEMMA LoginStep ==
    ASSUME CombatIInv, NEW s \in Session, Login(s)
    PROVE  CombatIInv'
<1> USE DEF CombatIInv
<1>1. /\ UNCHANGED <<sessions, players, hp, at, targets, damage, slots, cursor, next, last, deadFor>>
      /\ id' = [id EXCEPT ![s] = nextId] /\ nextId' = nextId + 1 /\ nextId <= MaxLogins
      /\ state' = [state EXCEPT ![s] = "LOBBY"]
      /\ stranded' = IF s \in players /\ hp[s] = 0 /\ ~ Dying(s)
                     THEN stranded \cup {s} ELSE stranded
  BY DEF Login, attacks, wheel
<1>2. /\ \A t \in Thread : Victim(t)' = Victim(t)
      /\ \A r : Dying(r)' <=> Dying(r)
  BY <1>1 DEF Victim, Dying
<1>3. TypeOK'
  <2>1. nextId \in PlayerId /\ nextId' \in 1 .. MaxLogins + 1
    BY <1>1, CombatAssumption DEF TypeOK, PlayerId
  <2>2. id' \in [Session -> {0} \cup PlayerId]
    BY <1>1, <2>1 DEF TypeOK
  <2>3. state' \in [Session -> {"NONE", "LOBBY", "GAME"}] /\ stranded' \subseteq Session
    BY <1>1 DEF TypeOK
  <2> QED  BY <1>1, <2>1, <2>2, <2>3 DEF TypeOK
<1>4. PlayersLogIn'
  BY <1>1 DEF PlayersLogIn, TypeOK
<1>5. IdsWereGiven'
  <2>1. nextId \in Nat /\ \A r \in Session : id[r] \in Nat
    BY CombatAssumption DEF TypeOK, PlayerId
  <2>2. \A c \in Slot : \A k \in DOMAIN slots[c] : slots[c][k][2] \in Nat
    BY SlotTimers DEF PlayerId
  <2>3. \A n \in Nat : n < nextId => n < nextId'
    BY <1>1, <2>1
  <2>4. nextId < nextId'
    BY <1>1, <2>1
  <2>5. id'[s] = nextId /\ \A r \in Session : r # s => id'[r] = id[r]
    BY <1>1 DEF TypeOK
  <2>6. \A r \in Session : id'[r] < nextId'
    BY <2>1, <2>3, <2>4, <2>5 DEF IdsWereGiven
  <2> QED  BY <1>1, <2>2, <2>3, <2>6 DEF IdsWereGiven
<1>6. UpdateInSlot'
  BY <1>1 DEF UpdateInSlot
<1>7. OneHits'
  <2>1. \A t \in Thread : at[t] = "die" => Dying(Victim(t))
    BY DEF Dying
  <2> QED  BY <1>1, <1>2, <2>1 DEF OneHits
<1>8. StrandedAreDead'
  BY <1>1 DEF StrandedAreDead
<1>9. ASSUME NEW r \in Session, r # s
      PROVE  TimerOf(r)'
  <2>1. id'[r] = id[r] /\ state'[r] = state[r] /\ (r \in stranded' <=> r \in stranded)
    BY <1>1, <1>9 DEF TypeOK
  <2>2. Awaited(r)' <=> Awaited(r)
    BY <1>1, <1>2, <2>1 DEF Awaited
  <2> QED  BY <1>1, <2>1, <2>2, TimerOfStays
<1>10. TimerOf(s)'
  <2>1. NoneWaits(s)'
    <3>1. id'[s] = nextId /\ slots' = slots
      BY <1>1 DEF TypeOK
    <3>2. ASSUME NEW c \in Slot, NEW k \in DOMAIN slots[c]
          PROVE  slots[c][k] # <<s, nextId>>
      <4>1. slots[c][k][2] < nextId /\ nextId \in Nat
        BY CombatAssumption DEF IdsWereGiven, TypeOK
      <4> QED  BY <4>1
    <3> QED  BY <3>1, <3>2 DEF NoneWaits, Waits
  <2>2. ~ Awaited(s)'
    BY <1>1, <1>2 DEF Awaited
  <2>3. OnTime(s)'
    BY <2>1 DEF OnTime, NoneWaits
  <2> QED  BY <2>1, <2>2, <2>3 DEF TimerOf
<1> QED  BY <1>3, <1>4, <1>5, <1>6, <1>7, <1>8, <1>9, <1>10

\* Who enters with a new Player has nothing to wait for.
LEMMA EnterStep ==
    ASSUME CombatIInv, NEW s \in Session, EnterGame(s)
    PROVE  CombatIInv'
<1> USE DEF CombatIInv
<1>1. /\ UNCHANGED <<id, nextId, at, targets, damage, slots, cursor, next, last, deadFor, stranded>>
      /\ state[s] = "LOBBY" /\ state' = [state EXCEPT ![s] = "GAME"]
      /\ sessions' = sessions \cup {<<id[s], s>>}
      /\ players' = players \cup {s}
      /\ hp' = IF s \in players THEN hp ELSE [hp EXCEPT ![s] = MaxHp]
  BY DEF EnterGame, attacks, wheel, history
<1>2. /\ \A t \in Thread : Victim(t)' = Victim(t)
      /\ \A r : Dying(r)' <=> Dying(r)
  BY <1>1 DEF Victim, Dying
<1>3. /\ hp' \in [Session -> 0 .. MaxHp]
      /\ \A r \in Session : (r # s \/ s \in players) => hp'[r] = hp[r]
      /\ s \notin players => hp'[s] = MaxHp /\ MaxHp # 0
  BY <1>1, CombatAssumption DEF TypeOK
<1>4. TypeOK'
  <2>1. id[s] \in PlayerId
    <3>1. id[s] # 0 /\ id[s] \in {0} \cup PlayerId
      BY <1>1 DEF PlayersLogIn, TypeOK
    <3> QED  BY <3>1
  <2>2. sessions' \subseteq PlayerId \X Session /\ players' \subseteq Session
    BY <1>1, <2>1 DEF TypeOK
  <2>3. state' \in [Session -> {"NONE", "LOBBY", "GAME"}]
    BY <1>1 DEF TypeOK
  <2> QED  BY <1>1, <1>3, <2>2, <2>3 DEF TypeOK
<1>5. PlayersLogIn' /\ IdsWereGiven' /\ UpdateInSlot'
  BY <1>1 DEF PlayersLogIn, IdsWereGiven, UpdateInSlot, TypeOK
<1>6. OneHits' /\ StrandedAreDead'
  <2>1. \A r \in players : r \in Session /\ hp'[r] = hp[r]
    BY <1>3 DEF TypeOK
  <2> QED  BY <1>1, <1>2, <2>1 DEF OneHits, StrandedAreDead
<1>7. ASSUME NEW r \in Session, r # s \/ s \in players
      PROVE  TimerOf(r)'
  <2>1. /\ hp'[r] = hp[r] /\ (r \in players' <=> r \in players)
        /\ state'[r] = "LOBBY" => state[r] = "LOBBY"
    BY <1>1, <1>3, <1>7 DEF TypeOK
  <2>2. Awaited(r)' <=> Awaited(r)
    BY <1>1, <1>2, <2>1 DEF Awaited
  <2> QED  BY <1>1, <2>1, <2>2, TimerOfStays
<1>8. ASSUME s \notin players
      PROVE  TimerOf(s)'
  <2>1. NoneWaits(s)'
    BY <1>1, <1>8, TimersStay DEF TimerOf
  <2>2. ~ Awaited(s)'
    BY <1>3, <1>8 DEF Awaited
  <2>3. OnTime(s)'
    BY <2>1 DEF OnTime, NoneWaits
  <2> QED  BY <2>1, <2>2, <2>3 DEF TimerOf
<1> QED  BY <1>4, <1>5, <1>6, <1>7, <1>8

LEMMA LeaveStep ==
    ASSUME CombatIInv, NEW s \in Session, LeaveGame(s)
    PROVE  CombatIInv'
<1> USE DEF CombatIInv
<1>1. /\ UNCHANGED <<id, nextId, at, targets, damage, slots, cursor, next, last, deadFor>>
      /\ state' = [state EXCEPT ![s] = "NONE"]
      /\ sessions' \subseteq sessions
      /\ players' = players \ {s}
      /\ hp' = [hp EXCEPT ![s] = 0]
      /\ stranded' = stranded \ {s}
  BY DEF LeaveGame, attacks, wheel
<1>2. /\ \A t \in Thread : Victim(t)' = Victim(t)
      /\ \A r : Dying(r)' <=> Dying(r)
  BY <1>1 DEF Victim, Dying
<1>3. \A t \in Thread : at[t] \in {"hit", "die"} => Victim(t) # s
  BY DEF LeaveGame, Locked
<1>4. /\ hp' \in [Session -> 0 .. MaxHp]
      /\ \A r \in Session : r # s => hp'[r] = hp[r]
  BY <1>1, CombatAssumption DEF TypeOK
<1>5. TypeOK'
  BY <1>1, <1>4 DEF TypeOK
<1>6. PlayersLogIn' /\ IdsWereGiven' /\ UpdateInSlot'
  BY <1>1 DEF PlayersLogIn, IdsWereGiven, UpdateInSlot, TypeOK
<1>7. OneHits' /\ StrandedAreDead'
  <2>1. \A r \in players : r # s => r \in Session /\ hp'[r] = hp[r]
    BY <1>4 DEF TypeOK
  <2> QED  BY <1>1, <1>2, <1>3, <2>1 DEF OneHits, StrandedAreDead
<1>8. ASSUME NEW r \in Session, r # s
      PROVE  TimerOf(r)'
  <2>1. state'[r] = state[r]
    BY <1>1, <1>8 DEF TypeOK
  <2>2. Awaited(r)' <=> Awaited(r)
    BY <1>1, <1>2, <1>4, <1>8 DEF Awaited
  <2> QED  BY <1>1, <1>8, <2>1, <2>2, TimerOfStays
<1>9. TimerOf(s)'
  <2>1. state'[s] = "NONE" /\ s \notin players'
    BY <1>1 DEF TypeOK
  <2> QED  BY <2>1 DEF TimerOf, Awaited
<1> QED  BY <1>5, <1>6, <1>7, <1>8, <1>9

-----------------------------------------------------------------------------
\* A step of a thread on its way to, or past, a victim it does not hit.
LEMMA AimStep ==
    ASSUME CombatIInv, NEW t \in Thread,
           UNCHANGED <<identity, players, hp, wheel, history>>,
           at' \in [Thread -> {"idle", "target", "hit", "die"}],
           targets' \in [Thread -> SUBSET Session],
           damage' \in [Thread -> {0, DamageOne, DamageAround}],
           at[t] \notin {"hit", "die"}, at'[t] # "die",
           at'[t] = "hit" => /\ Victim(t)' \in players /\ hp[Victim(t)'] > 0
                             /\ ~ Locked(Victim(t)'),
           \A u \in Thread : u # t => at'[u] = at[u] /\ Victim(u)' = Victim(u)
    PROVE  CombatIInv'
<1> USE DEF CombatIInv, identity, wheel, history
<1>1. \A u \in Thread : at'[u] = "die" <=> at[u] = "die"
  OBVIOUS
<1>2. \A r : Dying(r)' <=> Dying(r)
  BY <1>1 DEF Dying
<1>3. TypeOK' /\ PlayersLogIn' /\ IdsWereGiven' /\ UpdateInSlot' /\ StrandedAreDead'
  BY DEF TypeOK, PlayersLogIn, IdsWereGiven, UpdateInSlot, StrandedAreDead
<1>4. OneHits'
  <2>1. ASSUME NEW u \in Thread, at'[u] \in {"hit", "die"}, u # t
        PROVE  /\ at[u] \in {"hit", "die"} /\ at'[u] = at[u] /\ Victim(u)' = Victim(u)
               /\ at'[t] = "hit" => Victim(t)' # Victim(u)'
    BY <2>1 DEF Locked
  <2> QED  BY <2>1 DEF OneHits
<1>5. ASSUME NEW r \in Session
      PROVE  TimerOf(r)'
  <2>1. Awaited(r)' <=> Awaited(r)
    BY <1>2 DEF Awaited
  <2> QED  BY <2>1, TimerOfStays
<1> QED  BY <1>3, <1>4, <1>5

LEMMA AttackStep ==
    ASSUME CombatIInv, NEW s \in Session, AttackOne(s) \/ AttackAround(s)
    PROVE  CombatIInv'
<1> DEFINE t == LogicThread(s)
<1>1. PICK T, d : /\ Attack(s, T, d) /\ T \in SUBSET Session
                  /\ d \in {DamageOne, DamageAround} /\ CanAttack(s)
  <2>1. \A p \in sessions : p[2] \in Session
    BY DEF CombatIInv, TypeOK
  <2>2. CASE AttackOne(s)
    BY <2>1, <2>2 DEF AttackOne
  <2>3. CASE AttackAround(s)
    <3>1. \A T \in SUBSET ({p[2] : p \in sessions} \ {s}) : T \subseteq Session
      BY <2>1
    <3> QED  BY <2>3, <3>1 DEF AttackAround
  <2> QED  BY <2>2, <2>3
<1>2. t \in Thread
  BY CombatAssumption DEF LogicThread, Thread, Session
<1>3. /\ at[t] = "idle" /\ at' = [at EXCEPT ![t] = "target"]
      /\ targets' = [targets EXCEPT ![t] = T] /\ damage' = [damage EXCEPT ![t] = d]
      /\ UNCHANGED <<identity, players, hp, wheel, history>>
  BY <1>1 DEF Attack, CanAttack, Idle
<1> HIDE DEF t
<1>4. /\ at' \in [Thread -> {"idle", "target", "hit", "die"}]
      /\ targets' \in [Thread -> SUBSET Session]
      /\ damage' \in [Thread -> {0, DamageOne, DamageAround}]
      /\ at'[t] = "target"
      /\ \A u \in Thread : u # t => at'[u] = at[u] /\ targets'[u] = targets[u]
  BY <1>1, <1>2, <1>3 DEF CombatIInv, TypeOK
<1>5. \A u \in Thread : u # t => Victim(u)' = Victim(u)
  BY <1>4 DEF Victim
<1> QED  BY <1>2, <1>3, <1>4, <1>5, AimStep

LEMMA TargetStep ==
    ASSUME CombatIInv, NEW t \in Thread, SkipTarget(t) \/ LockTarget(t)
    PROVE  CombatIInv'
<1>1. /\ UNCHANGED <<identity, players, hp, wheel, history>> /\ at[t] = "target"
      /\ \/ GoOn(t)
         \/ /\ at' = [at EXCEPT ![t] = "hit"] /\ UNCHANGED <<targets, damage>>
            /\ Victim(t) \in players /\ ~ (hp[Victim(t)] <= 0) /\ ~ Locked(Victim(t))
  BY DEF SkipTarget, LockTarget
<1>2. TypeOK
  BY DEF CombatIInv
<1>3. CASE GoOn(t)
  BY <1>1, <1>2, <1>3, GoesOn, AimStep
<1>4. CASE /\ at' = [at EXCEPT ![t] = "hit"] /\ UNCHANGED <<targets, damage>>
           /\ Victim(t) \in players /\ ~ (hp[Victim(t)] <= 0) /\ ~ Locked(Victim(t))
  <2>1. \A u \in Thread : Victim(u)' = Victim(u)
    BY <1>4 DEF Victim
  <2>2. hp[Victim(t)] > 0
    <3>1. hp[Victim(t)] \in Nat
      BY <1>2, <1>4, CombatAssumption DEF TypeOK
    <3> QED  BY <1>4, <3>1
  <2>3. /\ at' \in [Thread -> {"idle", "target", "hit", "die"}]
        /\ at'[t] = "hit"
        /\ \A u \in Thread : u # t => at'[u] = at[u]
    BY <1>2, <1>4 DEF TypeOK
  <2>4. /\ targets' \in [Thread -> SUBSET Session]
        /\ damage' \in [Thread -> {0, DamageOne, DamageAround}]
    BY <1>2, <1>4 DEF TypeOK
  <2> QED  BY <1>1, <1>4, <2>1, <2>2, <2>3, <2>4, AimStep
<1> QED  BY <1>1, <1>3, <1>4

\* A hit takes less than the victim has, or it dies and its timer is to come.
LEMMA DamageStep ==
    ASSUME CombatIInv, NEW t \in Thread, OnDamaged(t)
    PROVE  /\ CombatIInv'
           /\ \A r \in Session : hp'[r] <= hp[r]
<1>0. PICK s : s = Victim(t)
  OBVIOUS
<1> DEFINE left == hp[s] - damage[t]
<1> USE DEF CombatIInv
<1>1. /\ at[t] = "hit" /\ UNCHANGED <<identity, players, wheel, history>>
      /\ \/ /\ left <= 0 /\ hp' = [hp EXCEPT ![s] = 0]
            /\ at' = [at EXCEPT ![t] = "die"] /\ UNCHANGED <<targets, damage>>
         \/ /\ ~ (left <= 0) /\ hp' = [hp EXCEPT ![s] = left] /\ GoOn(t)
  BY <1>0 DEF OnDamaged
<1>2. /\ s \in players /\ s \in Session /\ hp[s] > 0
      /\ \A u \in Thread : u # t /\ at[u] \in {"hit", "die"} => Victim(u) # s
  BY <1>0, <1>1 DEF OneHits, TypeOK
<1>3. /\ hp[s] \in 0 .. MaxHp /\ damage[t] \in Nat
      /\ \A r \in Session : hp[r] \in Int
  <2>1. hp[s] \in 0 .. MaxHp /\ damage[t] \in {0, DamageOne, DamageAround}
    BY <1>2 DEF TypeOK
  <2>2. \A r \in Session : hp[r] \in 0 .. MaxHp
    BY DEF TypeOK
  <2>3. 0 .. MaxHp \subseteq Int /\ {0, DamageOne, DamageAround} \subseteq Nat
    BY CombatAssumption
  <2> QED  BY <2>1, <2>2, <2>3
<1>4. s \notin stranded /\ ~ Dying(s)
  <2>1. s \notin stranded
    BY <1>2, <1>3 DEF StrandedAreDead
  <2>2. ~ Dying(s)
    BY <1>0, <1>1, <1>2, <1>3 DEF Dying
  <2> QED  BY <2>1, <2>2
<1>5. ~ Awaited(s)
  BY <1>2, <1>3 DEF Awaited
<1>6. /\ at' \in [Thread -> {"idle", "target", "hit", "die"}]
      /\ targets' \in [Thread -> SUBSET Session]
      /\ damage' \in [Thread -> {0, DamageOne, DamageAround}]
      /\ \A u \in Thread : u # t => at'[u] = at[u] /\ Victim(u)' = Victim(u)
      /\ at'[t] # "hit"
      /\ at'[t] = "die" => Victim(t)' = s /\ hp'[s] = 0
      /\ at'[t] # "die" => hp'[s] > 0
      /\ hp' \in [Session -> 0 .. MaxHp]
      /\ hp'[s] <= hp[s] /\ \A r \in Session : r # s => hp'[r] = hp[r]
  <2>1. CASE /\ left <= 0 /\ hp' = [hp EXCEPT ![s] = 0]
             /\ at' = [at EXCEPT ![t] = "die"] /\ UNCHANGED <<targets, damage>>
    <3>1. \A u \in Thread : Victim(u)' = Victim(u)
      BY <2>1 DEF Victim
    <3>2. /\ at' \in [Thread -> {"idle", "target", "hit", "die"}]
          /\ at'[t] = "die" /\ \A u \in Thread : u # t => at'[u] = at[u]
      BY <2>1 DEF TypeOK
    <3>3. /\ targets' \in [Thread -> SUBSET Session]
          /\ damage' \in [Thread -> {0, DamageOne, DamageAround}]
      BY <2>1 DEF TypeOK
    <3>4. /\ hp' \in [Session -> 0 .. MaxHp] /\ hp'[s] = 0
          /\ \A r \in Session : r # s => hp'[r] = hp[r]
      BY <1>2, <2>1, CombatAssumption DEF TypeOK
    <3>5. hp'[s] <= hp[s]
      BY <1>3, <3>4
    <3> QED  BY <1>0, <3>1, <3>2, <3>3, <3>4, <3>5
  <2>2. CASE ~ (left <= 0) /\ hp' = [hp EXCEPT ![s] = left] /\ GoOn(t)
    <3>1. left \in 0 .. MaxHp /\ left > 0 /\ left <= hp[s]
      BY <1>3, <2>2, CombatAssumption
    <3> HIDE DEF left
    <3>2. /\ hp' \in [Session -> 0 .. MaxHp] /\ hp'[s] = left
          /\ \A r \in Session : r # s => hp'[r] = hp[r]
      BY <1>2, <2>2, <3>1 DEF TypeOK
    <3> QED  BY <2>2, <3>1, <3>2, GoesOn
  <2> QED  BY <1>1, <2>1, <2>2
<1> HIDE DEF left
<1>7. \A r \in Session : r # s => (Dying(r)' <=> Dying(r))
  <2>1. at[t] # "die" /\ Victim(t) = s
    BY <1>0, <1>1
  <2> QED  BY <1>6, <2>1 DEF Dying
<1>8. TypeOK' /\ PlayersLogIn' /\ IdsWereGiven' /\ UpdateInSlot'
  BY <1>1, <1>6 DEF TypeOK, PlayersLogIn, IdsWereGiven, UpdateInSlot, identity, wheel, history
<1>9. StrandedAreDead'
  BY <1>1, <1>4, <1>6 DEF StrandedAreDead, history, TypeOK
<1>10. OneHits'
  <2>1. ASSUME NEW u \in Thread, at'[u] \in {"hit", "die"}, u # t
        PROVE  /\ at[u] \in {"hit", "die"} /\ at'[u] = at[u] /\ Victim(u)' = Victim(u)
               /\ Victim(u) # s /\ Victim(u) \in Session /\ hp'[Victim(u)] = hp[Victim(u)]
    BY <1>2, <1>6, <2>1 DEF OneHits, TypeOK
  <2> QED  BY <1>1, <1>2, <1>4, <1>6, <2>1 DEF OneHits, history
<1>11. ASSUME NEW r \in Session, r # s
       PROVE  TimerOf(r)'
  <2>1. Awaited(r)' <=> Awaited(r)
    BY <1>1, <1>6, <1>7, <1>11 DEF Awaited, history
  <2> QED  BY <1>1, <2>1, TimerOfStays DEF identity, wheel, history
<1>12. TimerOf(s)'
  <2>1. ~ Awaited(s)'
    <3>1. at'[t] = "die" => Dying(s)'
      BY <1>6 DEF Dying
    <3>2. hp'[s] > 0 => hp'[s] # 0
      OBVIOUS
    <3> QED  BY <1>6, <3>1, <3>2 DEF Awaited
  <2>2. Awaited(s)' <=> Awaited(s)
    BY <1>5, <2>1
  <2>3. TimerOf(s)
    BY <1>2
  <2> QED  BY <1>1, <2>2, <2>3, TimerOfStays DEF identity, wheel, history
<1>13. \A r \in Session : hp'[r] <= hp[r]
  BY <1>3, <1>6
<1> QED  BY <1>8, <1>9, <1>10, <1>11, <1>12, <1>13

-----------------------------------------------------------------------------
\* Who dies gets a timer, a turn of the wheel or less away.
LEMMA DieStep ==
    ASSUME CombatIInv, NEW t \in Thread, Die(t)
    PROVE  CombatIInv'
<1>0. PICK s : s = Victim(t)
  OBVIOUS
<1>a. PICK c0 : c0 = TargetSlot(RespawnTicks)
  OBVIOUS
<1>b. PICK k0 : k0 = Len(slots[c0]) + 1
  OBVIOUS
<1> USE DEF CombatIInv
<1>1. /\ at[t] = "die" /\ GoOn(t)
      /\ slots' = [slots EXCEPT ![c0] = Append(slots[c0], <<s, id[s]>>)]
      /\ deadFor' = [deadFor EXCEPT ![s] = 0]
      /\ UNCHANGED <<state, id, nextId, sessions, players, hp, cursor, next, last, stranded>>
  BY <1>0, <1>a DEF Die, identity
<1>2. /\ s \in players /\ s \in Session /\ hp[s] = 0 /\ s \notin stranded
      /\ \A u \in Thread : u # t /\ at[u] \in {"hit", "die"} => Victim(u) # s
  BY <1>0, <1>1 DEF OneHits, TypeOK
<1>3. /\ at' \in [Thread -> {"idle", "target", "hit", "die"}]
      /\ targets' \in [Thread -> SUBSET Session]
      /\ damage' \in [Thread -> {0, DamageOne, DamageAround}]
      /\ at'[t] \notin {"hit", "die"}
      /\ \A u \in Thread : u # t => at'[u] = at[u] /\ Victim(u)' = Victim(u)
  BY <1>1, GoesOn
<1>4. /\ Dying(s) /\ ~ Dying(s)'
      /\ \A r \in Session : r # s => (Dying(r)' <=> Dying(r))
  BY <1>0, <1>1, <1>2, <1>3 DEF Dying
<1>5. /\ ~ Awaited(s) /\ Awaited(s)'
      /\ \A r \in Session : r # s => (Awaited(r)' <=> Awaited(r))
  BY <1>1, <1>2, <1>4 DEF Awaited
<1>6. c0 \in Slot /\ cursor \in Slot /\ RespawnTicks \in 0 .. WheelSize
  BY <1>a, SlotIs, CombatAssumption DEF TypeOK, TargetSlot
<1>7. <<s, id[s]>> \in Session \X PlayerId /\ id[s] < nextId
  <2>1. id[s] # 0 /\ id[s] \in {0} \cup PlayerId /\ id[s] < nextId
    BY <1>2 DEF PlayersLogIn, IdsWereGiven, TypeOK
  <2> QED  BY <1>2, <2>1
<1>8. /\ slots' \in [Slot -> Seq(Session \X PlayerId)]
      /\ k0 \in Nat \ {0} /\ k0 = Len(slots[c0]) + 1 /\ Len(slots[c0]) \in Nat
      /\ slots'[c0][k0] = <<s, id[s]>>
      /\ DOMAIN slots'[c0] = DOMAIN slots[c0] \cup {k0} /\ k0 \notin DOMAIN slots[c0]
      /\ \A k \in DOMAIN slots[c0] : slots'[c0][k] = slots[c0][k]
      /\ \A c \in Slot : c # c0 => slots'[c] = slots[c]
      /\ Len(slots'[c0]) = Len(slots[c0]) + 1
  <2>1. /\ slots[c0] \in Seq(Session \X PlayerId) /\ slots \in [Slot -> Seq(Session \X PlayerId)]
        /\ DOMAIN slots[c0] = 1 .. Len(slots[c0]) /\ Len(slots[c0]) \in Nat
    BY <1>6, SlotTimers DEF TypeOK
  <2>2. /\ Append(slots[c0], <<s, id[s]>>) \in Seq(Session \X PlayerId)
        /\ Len(Append(slots[c0], <<s, id[s]>>)) = Len(slots[c0]) + 1
        /\ \A k \in 1 .. Len(slots[c0]) : Append(slots[c0], <<s, id[s]>>)[k] = slots[c0][k]
        /\ Append(slots[c0], <<s, id[s]>>)[k0] = <<s, id[s]>>
    BY <1>b, <1>7, <2>1, AppendProperties
  <2>3. /\ slots'[c0] = Append(slots[c0], <<s, id[s]>>)
        /\ \A c \in Slot : c # c0 => slots'[c] = slots[c]
        /\ slots' \in [Slot -> Seq(Session \X PlayerId)]
    BY <1>1, <1>6, <2>1, <2>2
  <2>4. DOMAIN slots'[c0] = 1 .. k0
    BY <1>b, <2>2, <2>3
  <2>5. 1 .. k0 = 1 .. Len(slots[c0]) \cup {k0} /\ k0 \notin 1 .. Len(slots[c0])
        /\ k0 \in Nat \ {0}
    BY <1>b, <2>1
  <2> QED  BY <1>b, <2>1, <2>2, <2>3, <2>4, <2>5
<1>9. TypeOK'
  <2>1. deadFor' \in [Session -> 0 .. RespawnTicks + 1]
    <3>1. 0 \in 0 .. RespawnTicks + 1
      BY <1>6
    <3> QED  BY <1>1, <3>1 DEF TypeOK
  <2> QED  BY <1>1, <1>3, <1>8, <2>1 DEF TypeOK
<1>10. PlayersLogIn' /\ StrandedAreDead'
  BY <1>1 DEF PlayersLogIn, StrandedAreDead
<1>11. IdsWereGiven'
  <2>1. ASSUME NEW c \in Slot, NEW k \in DOMAIN slots'[c]
        PROVE  slots'[c][k][2] < nextId
    <3>1. CASE c = c0 /\ k = k0
      <4>1. slots'[c][k] = <<s, id[s]>> /\ <<s, id[s]>>[2] = id[s]
        BY <1>8, <3>1
      <4> QED  BY <1>7, <4>1
    <3>2. CASE ~ (c = c0 /\ k = k0)
      <4>1. k \in DOMAIN slots[c] /\ slots'[c][k] = slots[c][k]
        BY <1>8, <2>1, <3>2
      <4> QED  BY <4>1 DEF IdsWereGiven
    <3> QED  BY <3>1, <3>2
  <2> QED  BY <1>1, <2>1 DEF IdsWereGiven
<1>12. UpdateInSlot'
  <2>1. Len(slots[cursor]) \in Nat /\ last \in Nat
    BY <1>6, SlotTimers DEF TypeOK
  <2>2. Len(slots'[cursor]) \in {Len(slots[cursor]), Len(slots[cursor]) + 1}
    BY <1>6, <1>8
  <2> QED  BY <1>1, <2>1, <2>2 DEF UpdateInSlot
<1>13. OneHits'
  <2>1. ASSUME NEW u \in Thread, at'[u] \in {"hit", "die"}
        PROVE  u # t /\ at[u] \in {"hit", "die"} /\ at'[u] = at[u] /\ Victim(u)' = Victim(u)
    BY <1>3, <2>1
  <2> QED  BY <1>1, <2>1 DEF OneHits
<1>14. ASSUME NEW r \in Session, NEW c \in Slot, NEW k \in DOMAIN slots'[c],
              ~ (r = s /\ c = c0 /\ k = k0), Waits(r, c, k)'
       PROVE  k \in DOMAIN slots[c] /\ Waits(r, c, k) /\ slots'[c][k] = slots[c][k]
  <2>1. CASE c = c0 /\ k = k0
    BY <1>1, <1>8, <1>14, <2>1 DEF Waits
  <2>2. CASE ~ (c = c0 /\ k = k0)
    BY <1>1, <1>8, <1>14, <2>2 DEF Waits
  <2> QED  BY <2>1, <2>2
<1>15. ASSUME NEW r \in Session, NEW c \in Slot, NEW k \in DOMAIN slots[c], Waits(r, c, k)
       PROVE  k \in DOMAIN slots'[c] /\ Waits(r, c, k)'
  BY <1>1, <1>8, <1>15 DEF Waits
<1>16. ASSUME NEW r \in Session, r # s
       PROVE  TimerOf(r)'
  <2>1. /\ NoneWaits(r) => NoneWaits(r)'
        /\ OneWaits(r) => OneWaits(r)'
    BY <1>14, <1>15, <1>16 DEF NoneWaits, OneWaits
  <2>2. OnTime(r) => OnTime(r)'
    <3>1. deadFor'[r] = deadFor[r]
      BY <1>1, <1>16 DEF TypeOK
    <3> QED  BY <1>1, <1>14, <1>16, <3>1 DEF OnTime, TicksToGo, TargetSlot
  <2> QED  BY <1>1, <1>5, <1>16, <2>1, <2>2 DEF TimerOf
<1>17. TimerOf(s)'
  <2>1. NoneWaits(s)
    BY <1>2, <1>5 DEF TimerOf
  <2>2. \A c \in Slot : \A k \in DOMAIN slots'[c] : Waits(s, c, k)' => c = c0 /\ k = k0
    BY <1>2, <1>14, <2>1 DEF NoneWaits
  <2>3. last \in Nat /\ next \in Nat /\ (c0 = cursor => next <= k0 /\ last < k0)
    <3>1. next \in Nat /\ last \in Nat
      BY DEF TypeOK
    <3>2. next <= last + 1 /\ last <= Len(slots[cursor])
      BY DEF UpdateInSlot
    <3> QED  BY <1>8, <3>1, <3>2
  <2>4. k0 \in DOMAIN slots'[c0] /\ Waits(s, c0, k0)'
    BY <1>1, <1>6, <1>8, <2>3 DEF Waits
  <2>5. OneWaits(s)'
    BY <1>6, <2>2, <2>4 DEF OneWaits
  <2>6. OnTime(s)'
    <3>1. deadFor'[s] = 0 /\ RespawnTicks - 0 = RespawnTicks /\ 0 <= RespawnTicks
      BY <1>1, <1>2, <1>6 DEF TypeOK
    <3>2. c0 = TargetSlot(RespawnTicks)'
      BY <1>1, <1>a DEF TargetSlot
    <3>3. c0 = cursor => ~ (k0 <= last)
      BY <1>8, <2>3
    <3>4. TicksToGo(s, c0, k0)'
      BY <1>1, <3>1, <3>2, <3>3 DEF TicksToGo
    <3> QED  BY <2>2, <3>4 DEF OnTime
  <2> QED  BY <1>1, <1>2, <1>5, <2>5, <2>6 DEF TimerOf
<1> QED  BY <1>9, <1>10, <1>11, <1>12, <1>13, <1>16, <1>17

-----------------------------------------------------------------------------
\* The cursor moves on: every timer that waits is one tick nearer.
LEMMA AdvanceStep ==
    ASSUME CombatIInv, Advance
    PROVE  CombatIInv'
<1> USE DEF CombatIInv
<1>1. /\ next = 0 /\ next' = 1
      /\ cursor' = (cursor + 1) % WheelSize /\ last' = Len(slots[cursor'])
      /\ deadFor' = [s \in Session |->
                        IF s \in players /\ hp[s] = 0
                        THEN IF deadFor[s] <= RespawnTicks THEN deadFor[s] + 1
                                                           ELSE deadFor[s]
                        ELSE 0]
      /\ UNCHANGED <<state, id, nextId, sessions, players, hp, at, targets, damage,
                     slots, stranded>>
  BY DEF Advance, identity, attacks
<1>2. /\ WheelSize \in Nat \ {0} /\ RespawnTicks \in 1 .. WheelSize
      /\ RespawnTicks \in Nat \ {0} /\ cursor \in Slot /\ 1 \in 0 .. WheelSize
  BY CombatAssumption DEF TypeOK
<1>3. /\ cursor' \in Slot
      /\ cursor' = IF cursor + 1 < WheelSize THEN cursor + 1 ELSE cursor + 1 - WheelSize
  BY <1>1, <1>2, SlotIs
<1>4. \A s \in Session : deadFor[s] \in 0 .. RespawnTicks + 1
  BY DEF TypeOK
<1>5. /\ deadFor' \in [Session -> 0 .. RespawnTicks + 1]
      /\ \A s \in Session : s \in players /\ hp[s] = 0 /\ deadFor[s] <= RespawnTicks
            => deadFor'[s] = deadFor[s] + 1
  <2>1. \A s \in Session : deadFor[s] <= RespawnTicks
           => deadFor[s] + 1 \in 0 .. RespawnTicks + 1
    BY <1>2, <1>4
  <2>2. 0 \in 0 .. RespawnTicks + 1
    BY <1>2
  <2> QED  BY <1>1, <1>4, <2>1, <2>2
<1>6. /\ \A t \in Thread : Victim(t)' = Victim(t)
      /\ \A r : Dying(r)' <=> Dying(r)
  BY <1>1 DEF Victim, Dying
<1>7. last' \in Nat /\ next' \in Nat /\ 1 <= last' + 1
  BY <1>1, <1>3, SlotTimers
<1>8. TypeOK' /\ UpdateInSlot'
  BY <1>1, <1>3, <1>5, <1>7 DEF TypeOK, UpdateInSlot
<1>9. PlayersLogIn' /\ IdsWereGiven' /\ StrandedAreDead' /\ OneHits'
  BY <1>1, <1>6 DEF PlayersLogIn, IdsWereGiven, StrandedAreDead, OneHits
<1>10. ASSUME NEW s \in Session, NEW c \in Slot, NEW k \in DOMAIN slots[c]
       PROVE  Waits(s, c, k)' <=> Waits(s, c, k)
  <2>1. k >= 1 /\ k >= 0
    BY <1>10, SlotTimers
  <2> QED  BY <1>1, <2>1 DEF Waits
<1>11. ASSUME NEW s \in Session
       PROVE  TimerOf(s)'
  <2>1. /\ NoneWaits(s)' <=> NoneWaits(s)
        /\ OneWaits(s)' <=> OneWaits(s)
    BY <1>1, <1>10 DEF NoneWaits, OneWaits
  <2>2. Awaited(s)' <=> Awaited(s)
    BY <1>1, <1>6 DEF Awaited
  <2>3. ASSUME s \in players, NEW c \in Slot, NEW k \in DOMAIN slots[c], Waits(s, c, k)
        PROVE  TicksToGo(s, c, k)'
    <3>1. Awaited(s) /\ TicksToGo(s, c, k)
      BY <2>3 DEF TimerOf, NoneWaits, OnTime
    <3>2. /\ deadFor[s] <= RespawnTicks /\ deadFor[s] \in Nat
          /\ c = cursor => deadFor[s] = 0
          /\ c = (cursor + (RespawnTicks - deadFor[s])) % WheelSize
      BY <1>1, <1>4, <3>1 DEF TicksToGo, TargetSlot
    <3>3. deadFor'[s] = deadFor[s] + 1
      BY <1>5, <2>3, <3>1, <3>2 DEF Awaited
    <3>4. RespawnTicks - deadFor[s] \in 0 .. WheelSize
      BY <1>2, <3>2
    <3>5. c = IF cursor + (RespawnTicks - deadFor[s]) < WheelSize
              THEN cursor + (RespawnTicks - deadFor[s])
              ELSE cursor + (RespawnTicks - deadFor[s]) - WheelSize
      BY <1>2, <3>2, <3>4, SlotIs
    <3>6. deadFor[s] < RespawnTicks
      <4>1. deadFor[s] = RespawnTicks => c = cursor
        BY <1>2, <3>5 DEF Slot
      <4>2. deadFor[s] # RespawnTicks
        BY <1>2, <3>2, <4>1
      <4>3. RespawnTicks \in Int /\ deadFor[s] \in Int
        BY <1>2, <3>2
      <4> QED  BY <3>2, <4>2, <4>3
    <3>7. RespawnTicks - deadFor'[s] \in 0 .. WheelSize
      BY <1>2, <3>2, <3>3, <3>6
    <3>8. (cursor' + (RespawnTicks - deadFor'[s])) % WheelSize =
             IF cursor' + (RespawnTicks - deadFor'[s]) < WheelSize
             THEN cursor' + (RespawnTicks - deadFor'[s])
             ELSE cursor' + (RespawnTicks - deadFor'[s]) - WheelSize
      BY <1>3, <3>7, SlotIs
    <3>9. c = (cursor' + (RespawnTicks - deadFor'[s])) % WheelSize
      BY <1>2, <1>3, <3>2, <3>3, <3>5, <3>6, <3>8 DEF Slot
    <3>10. c = cursor' => deadFor'[s] = RespawnTicks
      BY <1>2, <1>3, <3>2, <3>3, <3>5, <3>6 DEF Slot
    <3>11. c = cursor' => k <= last'
      BY <1>1, <2>3, SlotTimers
    <3>12. deadFor'[s] <= RespawnTicks
      BY <1>2, <3>2, <3>3, <3>6
    <3> QED  BY <1>1, <3>9, <3>10, <3>11, <3>12 DEF TicksToGo, TargetSlot
  <2>4. s \in players => OnTime(s)'
    BY <1>1, <1>10, <2>3 DEF OnTime
  <2> QED  BY <1>1, <2>1, <2>2, <2>4 DEF TimerOf
<1> QED  BY <1>8, <1>9, <1>11

\* A timer is run: it revives the player it waits for, if there is one, and
\* nobody else, when it has been dead for as long as it should.
LEMMA RunStep ==
    ASSUME CombatIInv, RunTimer
    PROVE  /\ CombatIInv'
           /\ \A s \in players : hp'[s] > hp[s]
                  => hp[s] = 0 /\ deadFor[s] = RespawnTicks
<1> USE DEF CombatIInv
<1>1. PICK timer : timer = slots[cursor][next]
  OBVIOUS
<1>2. /\ next \in 1 .. last /\ next' = next + 1
      /\ hp' = IF IsForPlayer(timer) THEN [hp EXCEPT ![timer[1]] = MaxHp] ELSE hp
      /\ UNCHANGED <<state, id, nextId, sessions, players, at, targets, damage,
                     slots, cursor, last, deadFor, stranded>>
  BY <1>1 DEF RunTimer, identity, attacks, history
<1>3. /\ cursor \in Slot /\ last \in Nat /\ next \in Nat /\ next # 0 /\ next <= last
      /\ next \in DOMAIN slots[cursor] /\ timer \in Session \X PlayerId
      /\ timer = <<timer[1], timer[2]>>
  <2>1. cursor \in Slot /\ last \in Nat /\ next \in Nat /\ last <= Len(slots[cursor])
    BY DEF TypeOK, UpdateInSlot
  <2>2. next # 0 /\ next <= last /\ next \in 1 .. Len(slots[cursor])
    BY <1>2, <2>1, SlotTimers
  <2>3. timer \in Session \X PlayerId
    BY <1>1, <2>1, <2>2, SlotTimers
  <2> QED  BY <2>1, <2>2, <2>3, SlotTimers
<1>4. ASSUME NEW s \in players
      PROVE  Waits(s, cursor, next) <=> IsForPlayer(timer) /\ s = timer[1]
  <2>1. Waits(s, cursor, next) <=> timer = <<s, id[s]>>
    BY <1>1, <1>3 DEF Waits
  <2> QED  BY <1>3, <2>1 DEF IsForPlayer
<1>5. ASSUME IsForPlayer(timer)
      PROVE  /\ timer[1] \in players /\ timer[1] \in Session /\ Awaited(timer[1])
             /\ deadFor[timer[1]] = RespawnTicks /\ OneWaits(timer[1])
             /\ Waits(timer[1], cursor, next)
  <2>1. timer[1] \in players /\ timer[1] \in Session /\ Waits(timer[1], cursor, next)
    BY <1>3, <1>4, <1>5 DEF IsForPlayer
  <2>2. Awaited(timer[1]) /\ TicksToGo(timer[1], cursor, next)
    BY <1>3, <2>1 DEF TimerOf, NoneWaits, OnTime
  <2> QED  BY <1>3, <2>1, <2>2 DEF TimerOf, TicksToGo
<1>6. /\ \A t \in Thread : Victim(t)' = Victim(t)
      /\ \A r : Dying(r)' <=> Dying(r)
  BY <1>2 DEF Victim, Dying
<1>7. /\ hp' \in [Session -> 0 .. MaxHp]
      /\ \A r \in Session : ~ (IsForPlayer(timer) /\ r = timer[1]) => hp'[r] = hp[r]
      /\ IsForPlayer(timer) => hp'[timer[1]] = MaxHp /\ MaxHp # 0
  BY <1>2, <1>3, CombatAssumption DEF TypeOK
<1>8. TypeOK' /\ UpdateInSlot'
  <2>1. next' \in Nat /\ next' <= last' + 1 /\ next' # 0
    BY <1>2, <1>3
  <2> QED  BY <1>2, <1>7, <2>1 DEF TypeOK, UpdateInSlot
<1>9. PlayersLogIn' /\ IdsWereGiven'
  BY <1>2 DEF PlayersLogIn, IdsWereGiven
<1>10. StrandedAreDead'
  BY <1>2, <1>5, <1>7 DEF StrandedAreDead, Awaited, TypeOK
<1>11. OneHits'
  <2>1. ASSUME NEW t \in Thread, at[t] \in {"hit", "die"}
        PROVE  ~ (IsForPlayer(timer) /\ Victim(t) = timer[1])
    <3>1. at[t] = "hit" => hp[Victim(t)] # 0
      <4>1. Victim(t) \in Session
        BY <2>1 DEF OneHits, TypeOK
      <4>2. hp[Victim(t)] \in Nat
        BY <4>1, CombatAssumption DEF TypeOK
      <4> QED  BY <2>1, <4>2 DEF OneHits
    <3>2. at[t] = "die" => Dying(Victim(t))
      BY DEF Dying
    <3> QED  BY <1>5, <2>1, <3>1, <3>2 DEF Awaited
  <2>2. \A t \in Thread : at[t] \in {"hit", "die"} => hp'[Victim(t)] = hp[Victim(t)]
    BY <1>7, <2>1 DEF OneHits, TypeOK
  <2> QED  BY <1>2, <1>6, <2>2 DEF OneHits
<1>12. ASSUME NEW s \in Session, NEW c \in Slot, NEW k \in DOMAIN slots[c]
       PROVE  Waits(s, c, k)' <=> Waits(s, c, k) /\ ~ (c = cursor /\ k = next)
  <2>1. k \in Nat
    BY <1>12, SlotTimers
  <2>2. k >= next + 1 <=> k >= next /\ k # next
    BY <1>3, <2>1
  <2> QED  BY <1>2, <2>2 DEF Waits
<1>13. ASSUME NEW s \in Session, ~ (IsForPlayer(timer) /\ s = timer[1])
       PROVE  TimerOf(s)'
  <2>1. Awaited(s)' <=> Awaited(s)
    BY <1>2, <1>6, <1>7, <1>13 DEF Awaited
  <2>2. NoneWaits(s) => NoneWaits(s)'
    BY <1>2, <1>12 DEF NoneWaits
  <2>3. ASSUME s \in players
        PROVE  \A c \in Slot : \A k \in DOMAIN slots[c] : Waits(s, c, k)' <=> Waits(s, c, k)
    BY <1>4, <1>12, <1>13, <2>3
  <2>4. s \in players /\ OneWaits(s) => OneWaits(s)'
    BY <1>2, <2>3 DEF OneWaits
  <2>5. s \in players /\ OnTime(s) => OnTime(s)'
    <3>1. ASSUME NEW c, NEW k, TicksToGo(s, c, k)
          PROVE  TicksToGo(s, c, k)'
      <4>1. next' # 0
        BY <1>2, <1>3
      <4> QED  BY <1>2, <1>3, <3>1, <4>1 DEF TicksToGo, TargetSlot
    <3> QED  BY <1>2, <2>3, <3>1 DEF OnTime
  <2> QED  BY <1>2, <2>1, <2>2, <2>4, <2>5 DEF TimerOf, Awaited
<1>14. ASSUME IsForPlayer(timer), NEW s, s = timer[1]
       PROVE  TimerOf(s)'
  <2>1. ~ Awaited(s)'
    BY <1>7, <1>14 DEF Awaited
  <2>2. NoneWaits(s)'
    BY <1>2, <1>3, <1>5, <1>12, <1>14 DEF NoneWaits, OneWaits
  <2>3. OnTime(s)'
    BY <2>2 DEF OnTime, NoneWaits
  <2> QED  BY <2>1, <2>2, <2>3 DEF TimerOf
<1>15. \A s \in players : hp'[s] > hp[s] => hp[s] = 0 /\ deadFor[s] = RespawnTicks
  <2>1. \A s \in players : s \in Session /\ hp[s] \in Int
    BY CombatAssumption DEF TypeOK
  <2>2. \A s \in players : hp'[s] = hp[s] => ~ (hp'[s] > hp[s])
    BY <2>1
  <2> QED  BY <1>5, <1>7, <2>1, <2>2 DEF Awaited
<1> QED  BY <1>8, <1>9, <1>10, <1>11, <1>13, <1>14, <1>15

\* The slot is emptied: what Die added to it meanwhile strands its player.
LEMMA ClearStep ==
    ASSUME CombatIInv, ClearSlot
    PROVE  CombatIInv'
<1> USE DEF CombatIInv
<1> DEFINE Late(s) == s \in players /\ \E k \in last + 1 .. Len(slots[cursor]) :
                                          slots[cursor][k] = <<s, id[s]>>
<1>1. /\ next > last /\ next' = 0 /\ last' = 0
      /\ slots' = [slots EXCEPT ![cursor] = << >>]
      /\ \A s : s \in stranded' <=> s \in stranded \/ Late(s)
      /\ stranded' \subseteq stranded \cup players
      /\ UNCHANGED <<state, id, nextId, sessions, players, hp, at, targets, damage,
                     cursor, deadFor>>
  BY DEF ClearSlot, identity, attacks
<1>2. /\ cursor \in Slot /\ last \in Nat /\ next \in Nat
      /\ next <= last + 1 /\ last <= Len(slots[cursor])
  BY DEF TypeOK, UpdateInSlot
<1>3. /\ slots' \in [Slot -> Seq(Session \X PlayerId)]
      /\ slots'[cursor] = << >> /\ DOMAIN slots'[cursor] = {} /\ Len(slots'[cursor]) = 0
      /\ \A c \in Slot : c # cursor => slots'[c] = slots[c]
  <2>1. slots \in [Slot -> Seq(Session \X PlayerId)]
    BY DEF TypeOK
  <2> QED  BY <1>1, <1>2, <2>1
<1>4. /\ \A t \in Thread : Victim(t)' = Victim(t)
      /\ \A r : Dying(r)' <=> Dying(r)
  BY <1>1 DEF Victim, Dying
\* Whose timer is late is one who is awaited.
<1>5. ASSUME NEW s \in players, Late(s)
      PROVE  \E k \in DOMAIN slots[cursor] : Waits(s, cursor, k)
  <2>1. PICK k \in last + 1 .. Len(slots[cursor]) : slots[cursor][k] = <<s, id[s]>>
    BY <1>5
  <2>2. k \in DOMAIN slots[cursor] /\ k >= next
    BY <1>2, SlotTimers
  <2> QED  BY <1>2, <2>1, <2>2 DEF Waits
<1>6. ASSUME NEW s \in players, NEW k \in DOMAIN slots[cursor], Waits(s, cursor, k)
      PROVE  Late(s)
  <2>1. k >= next /\ k \in 1 .. Len(slots[cursor]) /\ slots[cursor][k] = <<s, id[s]>>
    BY <1>2, <1>6, SlotTimers DEF Waits
  <2>2. k \in last + 1 .. Len(slots[cursor])
    BY <1>1, <1>2, <2>1
  <2> QED  BY <2>1, <2>2
<1> HIDE DEF Late
<1>7. \A s \in players : Late(s) => Awaited(s) /\ s \in Session
  BY <1>2, <1>5 DEF TimerOf, NoneWaits, TypeOK
<1>8. TypeOK' /\ UpdateInSlot'
  <2>1. 0 \in Nat /\ 0 <= 0 + 1 /\ 0 <= 0
    OBVIOUS
  <2>2. stranded' \subseteq Session
    BY <1>1 DEF TypeOK
  <2> QED  BY <1>1, <1>3, <2>1, <2>2 DEF TypeOK, UpdateInSlot
<1>9. PlayersLogIn'
  BY <1>1 DEF PlayersLogIn
<1>10. IdsWereGiven'
  BY <1>1, <1>3 DEF IdsWereGiven
<1>11. StrandedAreDead'
  <2>1. \A s : Late(s) => s \in players
    BY DEF Late
  <2> QED  BY <1>1, <1>7, <2>1 DEF StrandedAreDead, Awaited
<1>12. OneHits'
  <2>1. \A t \in Thread : at[t] = "die" => Dying(Victim(t)) /\ Victim(t) \in players
    BY DEF Dying, OneHits
  <2>2. \A t \in Thread : at[t] = "die" => Victim(t) \notin stranded'
    BY <1>1, <1>7, <2>1 DEF Awaited, OneHits
  <2> QED  BY <1>1, <1>4, <2>2 DEF OneHits
<1>13. ASSUME NEW s \in Session, NEW c \in Slot, NEW k \in DOMAIN slots'[c], Waits(s, c, k)'
       PROVE  c # cursor /\ k \in DOMAIN slots[c] /\ Waits(s, c, k)
  BY <1>1, <1>3, <1>13 DEF Waits
<1>14. ASSUME NEW s \in Session, NEW c \in Slot, NEW k \in DOMAIN slots[c], Waits(s, c, k),
              c # cursor
       PROVE  k \in DOMAIN slots'[c] /\ Waits(s, c, k)'
  BY <1>1, <1>3, <1>14 DEF Waits
<1>15. ASSUME NEW s \in Session
       PROVE  TimerOf(s)'
  <2>1. NoneWaits(s) => NoneWaits(s)'
    BY <1>13 DEF NoneWaits
  <2>2. OnTime(s) => OnTime(s)'
    <3>1. ASSUME NEW c \in Slot, c # cursor, NEW k, TicksToGo(s, c, k)
          PROVE  TicksToGo(s, c, k)'
      BY <1>1, <3>1 DEF TicksToGo, TargetSlot
    <3> QED  BY <1>13, <3>1 DEF OnTime
  <2>3. CASE s \notin players
    BY <1>1, <2>1, <2>3 DEF TimerOf, Awaited
  <2>4. CASE s \in players /\ ~ Awaited(s)
    <3>1. ~ Awaited(s)'
      BY <1>1, <1>4, <2>4 DEF Awaited
    <3> QED  BY <1>1, <2>1, <2>2, <2>4, <3>1 DEF TimerOf
  <2>5. CASE s \in players /\ Awaited(s)
    <3>0. PICK c \in Slot : \E k \in DOMAIN slots[c] :
             /\ Waits(s, c, k)
             /\ \A d \in Slot : \A j \in DOMAIN slots[d] : Waits(s, d, j) => d = c /\ j = k
      BY <2>5 DEF TimerOf, OneWaits
    <3>1. PICK k \in DOMAIN slots[c] :
             /\ Waits(s, c, k)
             /\ \A d \in Slot : \A j \in DOMAIN slots[d] : Waits(s, d, j) => d = c /\ j = k
      BY <3>0
    <3>2. CASE c = cursor
      <4>1. s \in stranded'
        BY <1>1, <1>6, <2>5, <3>1, <3>2
      <4>2. ~ Awaited(s)'
        BY <4>1 DEF Awaited
      <4>3. NoneWaits(s)'
        BY <1>13, <3>1, <3>2 DEF NoneWaits
      <4> QED  BY <1>1, <2>2, <2>5, <4>2, <4>3 DEF TimerOf
    <3>3. CASE c # cursor
      <4>1. ~ Late(s)
        BY <1>2, <1>5, <2>5, <3>1, <3>3
      <4>2. Awaited(s)'
        BY <1>1, <1>4, <2>5, <4>1 DEF Awaited
      <4>3. k \in DOMAIN slots'[c] /\ Waits(s, c, k)'
        BY <1>14, <3>1, <3>3
      <4>4. \A d \in Slot : \A j \in DOMAIN slots'[d] : Waits(s, d, j)' => d = c /\ j = k
        BY <1>13, <3>1
      <4>5. OneWaits(s)'
        BY <4>3, <4>4 DEF OneWaits
      <4> QED  BY <1>1, <2>2, <2>5, <4>2, <4>5 DEF TimerOf
    <3> QED  BY <3>2, <3>3
  <2> QED  BY <2>3, <2>4, <2>5
<1> QED  BY <1>8, <1>9, <1>10, <1>11, <1>12, <1>15

-----------------------------------------------------------------------------
LEMMA CombatInit == Init => CombatIInv
<1> SUFFICES ASSUME Init
             PROVE  CombatIInv
  OBVIOUS
<1> USE DEF Init
<1>1. TypeOK
  <2>1. /\ 0 \in 0 .. MaxHp /\ 0 \in Slot /\ 0 \in 0 .. RespawnTicks + 1
        /\ 1 \in 1 .. MaxLogins + 1 /\ 0 \in Nat
    BY CombatAssumption DEF Slot
  <2>2. << >> \in Seq(Session \X PlayerId)
    OBVIOUS
  <2> QED  BY <2>1, <2>2 DEF TypeOK
<1>2. PlayersLogIn /\ IdsWereGiven /\ OneHits /\ StrandedAreDead
  BY DEF PlayersLogIn, IdsWereGiven, OneHits, StrandedAreDead
<1>3. UpdateInSlot
  <2>1. slots[cursor] = << >>
    BY CombatAssumption DEF Slot
  <2> QED  BY <2>1 DEF UpdateInSlot
<1>4. \A s \in Session : TimerOf(s)
  BY DEF TimerOf, Awaited
<1> QED  BY <1>1, <1>2, <1>3, <1>4 DEF CombatIInv

\* No step but the run of a timer gives a player life, and that on time.
LEMMA CombatStep ==
    ASSUME CombatIInv, [Next]_vars
    PROVE  /\ CombatIInv'
           /\ \A s \in players \cap players' :
                 hp'[s] > hp[s] => hp[s] = 0 /\ deadFor[s] = RespawnTicks
<1> DEFINE Rises == \A s \in players \cap players' :
                       hp'[s] > hp[s] => hp[s] = 0 /\ deadFor[s] = RespawnTicks
<1>1. /\ players \subseteq Session /\ hp \in [Session -> 0 .. MaxHp]
      /\ \A s \in Session : hp[s] \in Int
  BY CombatAssumption DEF CombatIInv, TypeOK
<1>2. ASSUME \A s \in players \cap players' : hp'[s] = hp[s]
      PROVE  Rises
  BY <1>1, <1>2
<1>3. ASSUME NEW s \in Session, Login(s) \/ AttackOne(s) \/ AttackAround(s)
      PROVE  CombatIInv' /\ Rises
  <2>1. hp' = hp
    BY <1>3 DEF Login, AttackOne, AttackAround, Attack
  <2>2. CombatIInv'
    BY <1>3, LoginStep, AttackStep
  <2> QED  BY <1>2, <2>1, <2>2
<1>4. ASSUME NEW s \in Session, EnterGame(s)
      PROVE  CombatIInv' /\ Rises
  <2>1. \A r \in players : hp'[r] = hp[r]
    BY <1>1, <1>4 DEF EnterGame
  <2> QED  BY <1>2, <1>4, <2>1, EnterStep
<1>5. ASSUME NEW s \in Session, LeaveGame(s)
      PROVE  CombatIInv' /\ Rises
  <2>1. \A r \in players \cap players' : hp'[r] = hp[r]
    BY <1>1, <1>5 DEF LeaveGame
  <2> QED  BY <1>2, <1>5, <2>1, LeaveStep
<1>6. ASSUME NEW t \in Thread, SkipTarget(t) \/ LockTarget(t) \/ Die(t)
      PROVE  CombatIInv' /\ Rises
  <2>1. hp' = hp
    BY <1>6 DEF SkipTarget, LockTarget, Die
  <2>2. CombatIInv'
    BY <1>6, TargetStep, DieStep
  <2> QED  BY <1>2, <2>1, <2>2
<1>7. ASSUME NEW t \in Thread, OnDamaged(t)
      PROVE  CombatIInv' /\ Rises
  <2>1. CombatIInv' /\ \A r \in Session : hp'[r] <= hp[r]
    BY <1>7, DamageStep
  <2>2. \A r \in Session : hp'[r] \in Int
    BY <2>1, CombatAssumption DEF CombatIInv, TypeOK
  <2> QED  BY <1>1, <2>1, <2>2
<1>8. ASSUME Advance \/ ClearSlot \/ UNCHANGED vars
      PROVE  CombatIInv' /\ Rises
  <2>1. hp' = hp
    BY <1>8 DEF Advance, ClearSlot, vars
  <2>2. CASE UNCHANGED vars
    <3>1. \A s \in Session : TimerOf(s) => TimerOf(s)'
      <4>1. \A s \in Session : Awaited(s)' <=> Awaited(s)
        BY <2>2 DEF Awaited, Dying, Victim, vars, attacks, history
      <4> QED  BY <2>2, <4>1, TimerOfStays DEF vars, identity, wheel, history
    <3>2. /\ TypeOK => TypeOK'
          /\ PlayersLogIn /\ IdsWereGiven /\ UpdateInSlot /\ StrandedAreDead
                => PlayersLogIn' /\ IdsWereGiven' /\ UpdateInSlot' /\ StrandedAreDead'
      BY <2>2 DEF vars, identity, attacks, wheel, history, TypeOK, PlayersLogIn,
                  IdsWereGiven, UpdateInSlot, StrandedAreDead
    <3>3. OneHits => OneHits'
      BY <2>2 DEF vars, attacks, history, OneHits, Victim
    <3> QED  BY <1>2, <2>1, <3>1, <3>2, <3>3 DEF CombatIInv
  <2>3. CASE Advance \/ ClearSlot
    BY <1>2, <2>1, <2>3, AdvanceStep, ClearStep
  <2> QED  BY <1>8, <2>2, <2>3
<1>9. ASSUME RunTimer
      PROVE  CombatIInv' /\ Rises
  BY <1>9, RunStep
<1> HIDE DEF Rises
<1>10. CombatIInv' /\ Rises
  BY <1>3, <1>4, <1>5, <1>6, <1>7, <1>8, <1>9 DEF Next
<1> QED  BY <1>10 DEF Rises

LEMMA CombatInvariance == Spec => []CombatIInv
BY CombatInit, CombatStep, PTL DEF Spec

\* The variables keep their types.
THEOREM TypeCorrect == Spec => []TypeOK
<1>1. CombatIInv => TypeOK
  BY DEF CombatIInv
<1> QED  BY <1>1, CombatInvariance, PTL

\* Two attackers never both kill, and no timer revives a player of a later
\* connection or one who is alive (PacketHandler.cpp, Player::Die).
THEOREM DeathsHaveOneTimer == Spec => []OneTimerPerDeath
<1>1. CombatIInv => OneTimerPerDeath
  <2> SUFFICES ASSUME CombatIInv, NEW s \in players
               PROVE  Cardinality(Pending(s)) = IF Awaited(s) THEN 1 ELSE 0
    BY DEF OneTimerPerDeath, Awaited
  <2>1. TimerOf(s)
    BY DEF CombatIInv, TypeOK
  <2>2. \A x : x \in Pending(s) <=>
           \E c \in Slot : \E k \in DOMAIN slots[c] : x = <<c, k>> /\ Waits(s, c, k)
    <3>1. ASSUME NEW c \in Slot
          PROVE  \A x : x \in {<<c, k>> : k \in {i \in DOMAIN slots[c] :
                                 /\ slots[c][i] = <<s, id[s]>>
                                 /\ c = cursor => i >= next}}
                    <=> \E k \in DOMAIN slots[c] : x = <<c, k>> /\ Waits(s, c, k)
      BY DEF Waits
    <3> QED  BY <3>1 DEF Pending
  <2>3. CASE Awaited(s)
    <3>0. PICK c \in Slot : \E k \in DOMAIN slots[c] :
             /\ Waits(s, c, k)
             /\ \A d \in Slot : \A j \in DOMAIN slots[d] : Waits(s, d, j) => d = c /\ j = k
      BY <2>1, <2>3 DEF TimerOf, OneWaits
    <3>1. PICK k \in DOMAIN slots[c] :
             /\ Waits(s, c, k)
             /\ \A d \in Slot : \A j \in DOMAIN slots[d] : Waits(s, d, j) => d = c /\ j = k
      BY <3>0
    <3>2. Pending(s) = {<<c, k>>}
      BY <2>2, <3>1
    <3> QED  BY <2>3, <3>2, FS_Singleton
  <2>4. CASE ~ Awaited(s)
    <3>1. Pending(s) = {}
      BY <2>1, <2>2, <2>4 DEF TimerOf, NoneWaits
    <3> QED  BY <2>4, <3>1, FS_EmptySet
  <2> QED  BY <2>3, <2>4
<1> QED  BY <1>1, CombatInvariance, PTL

\* A player comes back exactly RespawnTicks after its death, although that may
\* be a whole turn of the wheel (TimeWheel::AddTimer, Update).
THEOREM PlayersRespawnOnTime == Spec => RespawnOnTime
BY CombatStep, CombatInvariance, PTL DEF Spec, RespawnOnTime
=============================================================================
