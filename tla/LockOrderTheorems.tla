-------------------------- MODULE LockOrderTheorems --------------------------
(***************************************************************************)
(* No deadlock, for any number of sessions and threads: every function of  *)
(* the server takes the mutexes in the order of their ranks, the world's   *)
(* own again excepted, and sends while it holds players' mutexes at most.  *)
(***************************************************************************)
EXTENDS LockOrder, TLAPS

Rank(l) == IF l[1] = "Player" THEN 1
           ELSE IF l[1] = "g_worldMutex" THEN 2
           ELSE IF l[1] = "m_sendQueueMutex" THEN 3
           ELSE 4

\* What a thread that holds these locks may lock.
MayLock(locks, l) ==
    \A i \in 1 .. Len(locks) :
        \/ Rank(locks[i]) < Rank(l) /\ (l[1] = "m_sendQueueMutex" => locks[i] # World)
        \/ locks[i] = World /\ l = World

\* It may broadcast when it holds players' mutexes at most.
OnlyPlayers(locks) == \A i \in 1 .. Len(locks) : Rank(locks[i]) = 1

Bodies == {"Send", "Strike", "ReleaseBuffer"}

MayLoop(locks, body) ==
    /\ body = "Send" => OnlyPlayers(locks)
    /\ body = "Strike" => locks = << >>
    /\ body = "ReleaseBuffer" => MayLock(locks, The("SendBufferManager"))

Steps == {Acquire(l) : l \in Lock} \cup {Release(l) : l \in Lock}
         \cup {Loop(body) : body \in Bodies}

\* One step, with the locks held before and after it.
Does(step, before, after) ==
    \/ \E l \in Lock : /\ step = Acquire(l)
                       /\ MayLock(before, l)
                       /\ after = Append(before, l)
    \/ \E l \in Lock : /\ step = Release(l)
                       /\ before # << >>
                       /\ after = Front(before)
    \/ \E body \in Bodies : /\ step = Loop(body)
                            /\ MayLoop(before, body)
                            /\ after = before

\* All of the steps keep to the order; stack has the locks held at each.
Along(steps, stack) ==
    /\ stack \in [1 .. Len(steps) + 1 -> Seq(Lock)]
    /\ \A i \in 1 .. Len(steps) : Does(steps[i], stack[i], stack[i + 1])

InOrder(steps, before, after) ==
    /\ steps \in Seq(Steps)
    /\ \E stack : /\ Along(steps, stack)
                  /\ stack[1] = before
                  /\ stack[Len(steps) + 1] = after

\* A mutex has one holder.
OneHolder ==
    \A t, u \in Thread, l \in Lock : Holds(t, l) /\ Holds(u, l) => t = u

LockIInv ==
    /\ todo \in [Thread -> Seq(Steps)]
    /\ held \in [Thread -> Seq(Lock)]
    /\ OneHolder
    /\ \A t \in Thread : InOrder(todo[t], held[t], << >>)

-----------------------------------------------------------------------------
LEMMA NothingInOrder ==
    ASSUME NEW s \in Seq(Lock)
    PROVE  InOrder(<< >>, s, s)
<1> DEFINE stack == [i \in 1 .. 1 |-> s]
<1>1. stack \in [1 .. Len(<< >>) + 1 -> Seq(Lock)] /\ stack[1] = s
  OBVIOUS
<1>2. stack[Len(<< >>) + 1] = s
  OBVIOUS
<1>3. Along(<< >>, stack)
  BY <1>1 DEF Along
<1> HIDE DEF stack
<1>4. << >> \in Seq(Steps)
  OBVIOUS
<1> QED  BY <1>1, <1>2, <1>3, <1>4 DEF InOrder

LEMMA OneInOrder ==
    ASSUME NEW x \in Steps, NEW p \in Seq(Lock), NEW q \in Seq(Lock),
           Does(x, p, q)
    PROVE  InOrder(<<x>>, p, q)
<1> DEFINE stack == [i \in 1 .. 2 |-> IF i = 1 THEN p ELSE q]
<1>1. PICK steps : steps = <<x>>
  OBVIOUS
<1>2. steps \in Seq(Steps) /\ Len(steps) = 1 /\ steps[1] = x
  BY <1>1
<1>3. stack \in [1 .. Len(steps) + 1 -> Seq(Lock)]
  BY <1>2
<1>4. stack[1] = p /\ stack[2] = q
  OBVIOUS
<1> HIDE DEF stack
<1>5. \A i \in 1 .. Len(steps) : Does(steps[i], stack[i], stack[i + 1])
  <2> SUFFICES ASSUME NEW i \in 1 .. Len(steps)
               PROVE  Does(steps[i], stack[i], stack[i + 1])
    OBVIOUS
  <2>1. i = 1 /\ i + 1 = 2
    BY <1>2
  <2> QED  BY <1>2, <1>4, <2>1
<1>6. Along(steps, stack)
  BY <1>3, <1>5 DEF Along
<1>7. stack[Len(steps) + 1] = q
  BY <1>2, <1>4
<1>8. InOrder(steps, p, q)
  BY <1>2, <1>4, <1>6, <1>7 DEF InOrder
<1> QED  BY <1>1, <1>8

LEMMA BothInOrder ==
    ASSUME NEW a, NEW b, NEW p, NEW q, NEW r,
           InOrder(a, p, q), InOrder(b, q, r)
    PROVE  InOrder(a \o b, p, r)
<1>1. PICK first : Along(a, first) /\ first[1] = p /\ first[Len(a) + 1] = q
  BY DEF InOrder
<1>2. PICK second : Along(b, second) /\ second[1] = q /\ second[Len(b) + 1] = r
  BY DEF InOrder
<1>3. a \in Seq(Steps) /\ b \in Seq(Steps)
  BY DEF InOrder
<1>4. PICK m \in Nat, n \in Nat : m = Len(a) /\ n = Len(b)
  BY <1>3
<1>5. PICK both : both = a \o b
  OBVIOUS
<1>6. /\ both \in Seq(Steps) /\ Len(both) = m + n
      /\ \A i \in 1 .. m + n : both[i] = IF i <= m THEN a[i] ELSE b[i - m]
  BY <1>3, <1>4, <1>5
<1>7. /\ first \in [1 .. m + 1 -> Seq(Lock)]
      /\ \A i \in 1 .. m : Does(a[i], first[i], first[i + 1])
      /\ first[m + 1] = q
  BY <1>1, <1>4 DEF Along
<1>8. /\ second \in [1 .. n + 1 -> Seq(Lock)]
      /\ \A i \in 1 .. n : Does(b[i], second[i], second[i + 1])
      /\ second[1] = q /\ second[n + 1] = r
  BY <1>2, <1>4 DEF Along
<1> DEFINE stack == [i \in 1 .. m + n + 1 |-> IF i <= m + 1 THEN first[i]
                                                           ELSE second[i - m]]
<1>9. stack \in [1 .. m + n + 1 -> Seq(Lock)]
  <2>1. \A i \in 1 .. m + n + 1 : IF i <= m + 1 THEN i \in 1 .. m + 1
                                                ELSE i - m \in 1 .. n + 1
    BY <1>4
  <2>2. \A i \in 1 .. m + n + 1 :
           (IF i <= m + 1 THEN first[i] ELSE second[i - m]) \in Seq(Lock)
    BY <1>7, <1>8, <2>1
  <2> QED  BY <2>2
<1>10. \A i \in 1 .. m + n + 1 :
          stack[i] = IF i <= m + 1 THEN first[i] ELSE second[i - m]
  OBVIOUS
<1> HIDE DEF stack
<1>11. ASSUME NEW i \in 1 .. m + n
       PROVE  Does(both[i], stack[i], stack[i + 1])
  <2>1. CASE i <= m
    <3>1. i \in 1 .. m /\ i \in 1 .. m + n + 1 /\ i + 1 \in 1 .. m + n + 1
          /\ i <= m + 1 /\ i + 1 <= m + 1
      BY <2>1
    <3>2. both[i] = a[i] /\ stack[i] = first[i] /\ stack[i + 1] = first[i + 1]
      BY <1>6, <1>10, <2>1, <3>1
    <3> QED  BY <1>7, <3>1, <3>2
  <2>2. CASE i = m + 1
    <3>1. 1 \in 1 .. n /\ i \in 1 .. m + n + 1 /\ i + 1 \in 1 .. m + n + 1
          /\ ~ (i <= m) /\ ~ (i + 1 <= m + 1) /\ i - m = 1 /\ (i + 1) - m = 1 + 1
      BY <2>2
    <3>2. both[i] = b[1] /\ stack[i + 1] = second[1 + 1]
      BY <1>6, <1>10, <3>1
    <3>3. stack[i] = second[1]
      BY <1>7, <1>8, <1>10, <2>2, <3>1
    <3> QED  BY <1>8, <3>1, <3>2, <3>3
  <2>3. CASE i > m + 1
    <3>1. i - m \in 1 .. n /\ i \in 1 .. m + n + 1 /\ i + 1 \in 1 .. m + n + 1
          /\ ~ (i <= m) /\ ~ (i <= m + 1) /\ ~ (i + 1 <= m + 1)
          /\ (i + 1) - m = (i - m) + 1
      BY <2>3
    <3>2. both[i] = b[i - m] /\ stack[i] = second[i - m]
          /\ stack[i + 1] = second[(i - m) + 1]
      BY <1>6, <1>10, <3>1
    <3> QED  BY <1>8, <3>1, <3>2
  <2> QED  BY <2>1, <2>2, <2>3
<1>12. Along(both, stack)
  BY <1>6, <1>9, <1>11 DEF Along
<1>13. stack[1] = p
  BY <1>1, <1>10
<1>14. stack[Len(both) + 1] = r
  <2>1. CASE n = 0
    BY <1>6, <1>7, <1>8, <1>10, <2>1
  <2>2. CASE n > 0
    <3>1. m + n + 1 \in 1 .. m + n + 1 /\ ~ (m + n + 1 <= m + 1)
          /\ (m + n + 1) - m = n + 1
      BY <2>2
    <3> QED  BY <1>6, <1>8, <1>10, <3>1
  <2> QED  BY <2>1, <2>2
<1>15. InOrder(both, p, r)
  BY <1>6, <1>12, <1>13, <1>14 DEF InOrder
<1> QED  BY <1>5, <1>15

\* The first step, and then the others.
LEMMA RestInOrder ==
    ASSUME NEW steps, NEW p, NEW r, InOrder(steps, p, r), steps # << >>
    PROVE  \E q \in Seq(Lock) : /\ Does(Head(steps), p, q)
                                /\ InOrder(Tail(steps), q, r)
<1>1. PICK stack : /\ Along(steps, stack)
                   /\ stack[1] = p /\ stack[Len(steps) + 1] = r
  BY DEF InOrder
<1>2. steps \in Seq(Steps)
  BY DEF InOrder
<1>3. PICK n \in Nat : Len(steps) = n + 1
  <2>1. Len(steps) \in Nat /\ Len(steps) # 0
    BY <1>2
  <2>2. Len(steps) - 1 \in Nat /\ Len(steps) = (Len(steps) - 1) + 1
    BY <2>1
  <2> QED  BY <2>2
<1>4. PICK tail : tail = Tail(steps)
  OBVIOUS
<1>5. /\ Head(steps) = steps[1]
      /\ tail \in Seq(Steps) /\ Len(tail) = n
      /\ \A i \in 1 .. n : tail[i] = steps[i + 1]
  BY <1>2, <1>3, <1>4
<1>6. /\ stack \in [1 .. n + 2 -> Seq(Lock)]
      /\ \A i \in 1 .. n + 1 : Does(steps[i], stack[i], stack[i + 1])
  <2>1. (n + 1) + 1 = n + 2
    OBVIOUS
  <2> QED  BY <1>1, <1>3, <2>1 DEF Along
<1>7. Does(Head(steps), p, stack[2]) /\ stack[2] \in Seq(Lock)
  <2>1. 1 \in 1 .. n + 1 /\ 2 \in 1 .. n + 2 /\ 1 + 1 = 2
    OBVIOUS
  <2> QED  BY <1>1, <1>5, <1>6, <2>1
<1> DEFINE rest == [i \in 1 .. n + 1 |-> stack[i + 1]]
<1>8. /\ rest \in [1 .. n + 1 -> Seq(Lock)]
      /\ \A i \in 1 .. n + 1 : rest[i] = stack[i + 1]
  <2>1. \A i \in 1 .. n + 1 : i + 1 \in 1 .. n + 2
    OBVIOUS
  <2> QED  BY <1>6, <2>1
<1> HIDE DEF rest
<1>9. ASSUME NEW i \in 1 .. n
      PROVE  Does(tail[i], rest[i], rest[i + 1])
  <2>1. i \in 1 .. n + 1 /\ i + 1 \in 1 .. n + 1
    OBVIOUS
  <2>2. tail[i] = steps[i + 1] /\ rest[i] = stack[i + 1]
        /\ rest[i + 1] = stack[(i + 1) + 1]
    BY <1>5, <1>8, <2>1
  <2> QED  BY <1>6, <2>1, <2>2
<1>10. Along(tail, rest)
  BY <1>5, <1>8, <1>9 DEF Along
<1>11. rest[1] = stack[2] /\ rest[n + 1] = r
  <2>1. 1 \in 1 .. n + 1 /\ n + 1 \in 1 .. n + 1 /\ 1 + 1 = 2
    OBVIOUS
  <2> QED  BY <1>1, <1>3, <1>8, <2>1
<1>12. InOrder(tail, stack[2], r)
  BY <1>5, <1>10, <1>11 DEF InOrder
<1> QED  BY <1>4, <1>7, <1>12

-----------------------------------------------------------------------------
\* Releasing gives back what was held before acquiring.
LEMMA FrontOfAppend ==
    ASSUME NEW S, NEW s \in Seq(S), NEW x \in S
    PROVE  /\ Append(s, x) \in Seq(S)
           /\ Append(s, x) # << >>
           /\ Front(Append(s, x)) = s
<1>1. PICK q \in Seq(S) : q = Append(s, x)
  <2>1. Append(s, x) \in Seq(S)
    OBVIOUS
  <2> QED  BY <2>1
<1>2. PICK n \in Nat : n = Len(s)
  OBVIOUS
<1>3. Len(q) = n + 1 /\ \A i \in 1 .. n : q[i] = s[i]
  BY <1>1, <1>2
<1>4. Front(q) = SubSeq(q, 1, n)
  BY <1>3 DEF Front
<1>5. /\ SubSeq(q, 1, n) \in Seq(S)
      /\ Len(SubSeq(q, 1, n)) = n
      /\ \A i \in 1 .. n : SubSeq(q, 1, n)[i] = q[i]
  BY <1>3
<1>6. Front(q) = s
  BY <1>2, <1>3, <1>4, <1>5
<1>7. q # << >>
  BY <1>3
<1> QED  BY <1>1, <1>6, <1>7

LEMMA HoldInOrder ==
    ASSUME NEW s \in Seq(Lock), NEW l \in Lock, MayLock(s, l), NEW body,
           InOrder(body, Append(s, l), Append(s, l))
    PROVE  InOrder(Hold(l, body), s, s)
<1>1. PICK more \in Seq(Lock) : more = Append(s, l)
  <2>1. Append(s, l) \in Seq(Lock)
    OBVIOUS
  <2> QED  BY <2>1
<1>2. more # << >> /\ Front(more) = s
  BY <1>1, FrontOfAppend
<1>3. Acquire(l) \in Steps /\ Release(l) \in Steps
  BY DEF Steps
<1>4. Does(Acquire(l), s, more) /\ Does(Release(l), more, s)
  BY <1>1, <1>2 DEF Does
<1>5. InOrder(<<Acquire(l)>>, s, more) /\ InOrder(<<Release(l)>>, more, s)
  BY <1>3, <1>4, OneInOrder
<1>6. InOrder(body, more, more)
  BY <1>1
<1>7. InOrder(<<Acquire(l)>> \o body, s, more)
  BY <1>5, <1>6, BothInOrder
<1>8. InOrder((<<Acquire(l)>> \o body) \o <<Release(l)>>, s, s)
  BY <1>5, <1>7, BothInOrder
<1> QED  BY <1>8 DEF Hold

LEMMA BriefInOrder ==
    ASSUME NEW s \in Seq(Lock), NEW l \in Lock, MayLock(s, l)
    PROVE  InOrder(Brief(l), s, s)
<1>1. Append(s, l) \in Seq(Lock)
  OBVIOUS
<1>2. InOrder(<< >>, Append(s, l), Append(s, l))
  BY <1>1, NothingInOrder
<1> QED  BY <1>2, HoldInOrder DEF Brief

LEMMA LoopInOrder ==
    ASSUME NEW s \in Seq(Lock), NEW body \in Bodies, MayLoop(s, body)
    PROVE  InOrder(<<Loop(body)>>, s, s)
<1>1. Loop(body) \in Steps
  BY DEF Steps
<1>2. Does(Loop(body), s, s)
  BY DEF Does
<1> QED  BY <1>1, <1>2, OneInOrder

\* All the ways of one part, then all the ways of another.
LEMMA ThenInOrder ==
    ASSUME NEW A, NEW B, NEW s,
           \A a \in A : InOrder(a, s, s), \A b \in B : InOrder(b, s, s)
    PROVE  \A x \in Then(A, B) : InOrder(x, s, s)
<1> SUFFICES ASSUME NEW x \in Then(A, B) PROVE InOrder(x, s, s)
  OBVIOUS
<1>1. PICK a \in A, b \in B : x = a \o b
  BY DEF Then
<1> QED  BY <1>1, BothInOrder

-----------------------------------------------------------------------------
LEMMA Ranks ==
    /\ World \in Lock /\ World[1] = "g_worldMutex" /\ Rank(World) = 2
    /\ \A s \in Session :
          /\ SendQueue(s) \in Lock /\ SendQueue(s)[1] = "m_sendQueueMutex"
          /\ Rank(SendQueue(s)) = 3
          /\ PlayerOf(s) \in Lock /\ Rank(PlayerOf(s)) = 1
          /\ PlayerOf(s) # World /\ SendQueue(s) # World
    /\ \A name \in Single \ {"g_worldMutex"} :
          /\ The(name) \in Lock /\ Rank(The(name)) = 4
          /\ The(name)[1] # "m_sendQueueMutex"
    /\ \A l \in Lock : Rank(l) \in {1, 2, 3, 4} /\ (Rank(l) = 2 => l = World)
  BY DEF World, Lock, Single, Rank, SendQueue, PlayerOf, The

\* What may be locked with nothing held, or with players' mutexes.
LEMMA MayLockFirst ==
    /\ OnlyPlayers(<< >>)
    /\ \A l : MayLock(<< >>, l)
    /\ \A body \in Bodies : MayLoop(<< >>, body)
  BY DEF OnlyPlayers, MayLock, MayLoop

LEMMA MayLockNext ==
    ASSUME NEW s \in Seq(Lock), OnlyPlayers(s)
    PROVE  /\ MayLock(s, World)
           /\ \A name \in Single \ {"g_worldMutex"} : MayLock(s, The(name))
           /\ \A t \in Session :
                 /\ MayLock(s, SendQueue(t))
                 /\ Append(s, SendQueue(t)) \in Seq(Lock)
                 /\ MayLock(Append(s, SendQueue(t)), The("SendBufferManager"))
           /\ MayLoop(s, "Send")
<1>1. \A i \in 1 .. Len(s) : Rank(s[i]) = 1 /\ s[i] # World
  BY Ranks DEF OnlyPlayers
<1>2. /\ MayLock(s, World)
      /\ \A name \in Single \ {"g_worldMutex"} : MayLock(s, The(name))
      /\ \A t \in Session : MayLock(s, SendQueue(t))
      /\ MayLoop(s, "Send")
  BY <1>1, Ranks DEF MayLock, MayLoop
<1>3. ASSUME NEW t \in Session
      PROVE  /\ Append(s, SendQueue(t)) \in Seq(Lock)
             /\ MayLock(Append(s, SendQueue(t)), The("SendBufferManager"))
  <2>1. PICK l \in Lock : l = SendQueue(t)
    BY Ranks
  <2>2. \A i \in 1 .. Len(Append(s, l)) :
           Append(s, l)[i] = IF i = Len(s) + 1 THEN l ELSE s[i]
    OBVIOUS
  <2>3. \A i \in 1 .. Len(Append(s, l)) : i = Len(s) + 1 \/ i \in 1 .. Len(s)
    OBVIOUS
  <2>4. \A i \in 1 .. Len(Append(s, l)) : Rank(Append(s, l)[i]) \in {1, 3}
    BY <1>1, <2>1, <2>2, <2>3, Ranks
  <2>5. /\ Rank(The("SendBufferManager")) = 4
        /\ The("SendBufferManager")[1] # "m_sendQueueMutex"
    BY Ranks DEF Single
  <2>6. MayLock(Append(s, l), The("SendBufferManager"))
    BY <2>4, <2>5 DEF MayLock
  <2>7. Append(s, l) \in Seq(Lock)
    OBVIOUS
  <2> QED  BY <2>1, <2>6, <2>7
<1> QED  BY <1>2, <1>3

-----------------------------------------------------------------------------
\* The functions keep to the order.
LEMMA SendInOrder ==
    ASSUME NEW s \in Seq(Lock), OnlyPlayers(s), NEW t \in Session
    PROVE  /\ \A x \in Send(t) : InOrder(x, s, s)
           /\ \A x \in RegisterSend(t) : InOrder(x, s, s)
<1>1. /\ SendQueue(t) \in Lock /\ MayLock(s, SendQueue(t))
      /\ The("SendBufferManager") \in Lock
  BY Ranks, MayLockNext DEF Single
<1>2. InOrder(Brief(SendQueue(t)), s, s)
  BY <1>1, BriefInOrder
<1>3. InOrder(Brief(SendQueue(t)) \o Brief(SendQueue(t)), s, s)
  BY <1>2, BothInOrder
<1>4. \A x \in RegisterSend(t) : InOrder(x, s, s)
  BY <1>2, <1>3 DEF RegisterSend
<1>5. InOrder(Queueing(t), s, s)
  <2>1. PICK more \in Seq(Lock) : more = Append(s, SendQueue(t))
    BY MayLockNext
  <2>2. MayLock(more, The("SendBufferManager"))
    BY <2>1, MayLockNext
  <2>3. InOrder(Brief(The("SendBufferManager")), more, more)
    BY <1>1, <2>2, BriefInOrder
  <2> QED  BY <1>1, <2>1, <2>3, HoldInOrder DEF Queueing
<1>6. \A x \in Then({Queueing(t)}, RegisterSend(t)) : InOrder(x, s, s)
  <2>1. \A x \in {Queueing(t)} : InOrder(x, s, s)
    BY <1>5
  <2> QED  BY <1>4, <2>1, ThenInOrder
<1> QED  BY <1>2, <1>4, <1>5, <1>6 DEF Send

LEMMA BroadcastInOrder ==
    ASSUME NEW s \in Seq(Lock), OnlyPlayers(s)
    PROVE  InOrder(Broadcast, s, s)
<1>1. InOrder(Brief(World), s, s)
  BY Ranks, MayLockNext, BriefInOrder
<1>2. InOrder(<<Loop("Send")>>, s, s)
  BY MayLockNext, LoopInOrder DEF Bodies
<1> QED  BY <1>1, <1>2, BothInOrder DEF Broadcast, Sends

LEMMA StrikeInOrder ==
    ASSUME NEW t \in Session
    PROVE  \A x \in Strike(t) : InOrder(x, << >>, << >>)
<1>1. PICK none : none = << >>
  OBVIOUS
<1>2. none \in Seq(Lock) /\ OnlyPlayers(none)
  BY <1>1, MayLockFirst
<1>3. PICK more : more = Append(none, PlayerOf(t))
  OBVIOUS
<1>4. more \in Seq(Lock) /\ OnlyPlayers(more)
  <2>1. /\ Len(more) = 1 /\ more[1] = PlayerOf(t)
        /\ more \in Seq(Lock)
    BY <1>1, <1>3, Ranks
  <2> QED  BY <2>1, Ranks DEF OnlyPlayers
<1>5. \A damage \in {<<>>, Broadcast} : InOrder(damage, more, more)
  BY <1>4, NothingInOrder, BroadcastInOrder
<1>6. PlayerOf(t) \in Lock /\ MayLock(none, PlayerOf(t))
  BY <1>1, Ranks, MayLockFirst
<1>7. \A damage \in {<<>>, Broadcast} :
         InOrder(Hold(PlayerOf(t), damage), none, none)
  BY <1>2, <1>3, <1>5, <1>6, HoldInOrder
<1>8. InOrder(Broadcast, none, none)
  BY <1>2, BroadcastInOrder
<1>9. \A damage \in {<<>>, Broadcast} :
         InOrder(Hold(PlayerOf(t), damage) \o Broadcast, none, none)
  BY <1>7, <1>8, BothInOrder
<1> QED  BY <1>1, <1>9 DEF Strike

\* One round of a loop that the locks held allow.
LEMMA RoundInOrder ==
    ASSUME NEW s \in Seq(Lock), NEW body \in Bodies, MayLoop(s, body),
           NEW round \in LoopBody(body)
    PROVE  InOrder(round, s, s)
<1>1. CASE body = "Send"
  <2>1. OnlyPlayers(s)
    BY <1>1 DEF MayLoop
  <2>2. round \in UNION {Send(t) : t \in Session}
    BY <1>1 DEF LoopBody
  <2> QED  BY <2>1, <2>2, SendInOrder
<1>2. CASE body = "Strike"
  <2>1. s = << >>
    BY <1>2 DEF MayLoop
  <2>2. round \in UNION {Strike(t) : t \in Session}
    BY <1>2 DEF LoopBody
  <2> QED  BY <2>1, <2>2, StrikeInOrder
<1>3. CASE body = "ReleaseBuffer"
  <2>1. MayLock(s, The("SendBufferManager")) /\ The("SendBufferManager") \in Lock
    BY <1>3, Ranks DEF MayLoop, Single
  <2>2. round = Brief(The("SendBufferManager"))
    BY <1>3 DEF LoopBody
  <2> QED  BY <2>1, <2>2, BriefInOrder
<1> QED  BY <1>1, <1>2, <1>3 DEF Bodies

\* Every operation of a worker and of a logic thread.
LEMMA OperationsInOrder ==
    ASSUME NEW t \in Thread, NEW operation \in Operations(t)
    PROVE  InOrder(operation, << >>, << >>)
<1>1. PICK none : none = << >>
  OBVIOUS
<1>2. none \in Seq(Lock) /\ OnlyPlayers(none)
  BY <1>1, MayLockFirst
<1>3. \A l \in Lock : InOrder(Brief(l), none, none)
  BY <1>1, <1>2, MayLockFirst, BriefInOrder
<1>4. \A body \in Bodies : InOrder(<<Loop(body)>>, none, none)
  BY <1>1, <1>2, MayLockFirst, LoopInOrder
<1>5. \A name \in Single : The(name) \in Lock
  BY Ranks DEF World
<1>6. \A x \in Queues : InOrder(x, none, none)
  BY <1>3, <1>5 DEF Queues, Single
<1>7. InOrder(Broadcast, none, none)
  BY <1>2, BroadcastInOrder
<1>8. InOrder(Brief(The("SessionManager")), none, none)
  BY <1>3, <1>5 DEF Single
<1>9. InOrder(Brief(World), none, none)
  BY <1>3, Ranks
<1>10. ASSUME NEW s \in Session
       PROVE  InOrder(Clear(s), none, none)
  <2>1. PICK more : more = Append(none, SendQueue(s))
    OBVIOUS
  <2>2. more \in Seq(Lock) /\ MayLock(more, The("SendBufferManager"))
    BY <1>2, <2>1, MayLockNext
  <2>3. MayLoop(more, "ReleaseBuffer")
    BY <2>2 DEF MayLoop
  <2>4. InOrder(<<Loop("ReleaseBuffer")>>, more, more)
    BY <2>2, <2>3, LoopInOrder DEF Bodies
  <2>5. SendQueue(s) \in Lock /\ MayLock(none, SendQueue(s))
    BY <1>1, Ranks, MayLockFirst
  <2> QED  BY <1>2, <2>1, <2>4, <2>5, HoldInOrder DEF Clear
<1>11. \A s \in Session : InOrder(Disconnect(s), none, none)
  BY <1>8, <1>10, BothInOrder DEF Disconnect
<1>12. ASSUME NEW s \in Session
       PROVE  \A x \in OnSend(s) : InOrder(x, none, none)
  <2>1. InOrder(<<Loop("ReleaseBuffer")>> \o Brief(SendQueue(s)), none, none)
    BY <1>3, <1>4, BothInOrder, Ranks DEF Bodies
  <2>2. \A x \in {<<>>} \cup RegisterSend(s) : InOrder(x, none, none)
    BY <1>2, NothingInOrder, SendInOrder
  <2>3. \A x \in {<<Loop("ReleaseBuffer")>> \o Brief(SendQueue(s))} :
           InOrder(x, none, none)
    BY <2>1
  <2> QED  BY <2>2, <2>3, ThenInOrder DEF OnSend
<1>13. \A x \in RadialAttack : InOrder(x, none, none)
  BY <1>4, <1>9, BothInOrder DEF RadialAttack, Bodies
<1>14. \A x \in Periodic : InOrder(x, none, none)
  BY <1>8, <1>9, BothInOrder DEF Periodic
<1>15. ASSUME NEW s \in Session
       PROVE  \A x \in Attack(s) : InOrder(x, none, none)
  <2>1. PICK more : more = Append(none, World)
    OBVIOUS
  <2>2. more \in Seq(Lock) /\ MayLock(more, World)
    <3>1. more \in Seq(Lock) /\ Len(more) = 1 /\ more[1] = World
      BY <1>1, <2>1, Ranks
    <3> QED  BY <3>1 DEF MayLock
  <2>3. InOrder(FindSession, more, more)
    BY <2>2, BriefInOrder, Ranks DEF FindSession
  <2>4. InOrder(Hold(World, FindSession), none, none)
    BY <1>1, <1>2, <2>1, <2>3, HoldInOrder, Ranks, MayLockFirst
  <2>5. \A x \in {Hold(World, FindSession)} : InOrder(x, none, none)
    BY <2>4
  <2>6. \A x \in {<<>>} \cup Strike(s) : InOrder(x, none, none)
    BY <1>1, <1>2, NothingInOrder, StrikeInOrder
  <2> QED  BY <2>5, <2>6, ThenInOrder DEF Attack
<1>16. ASSUME NEW s \in Session
       PROVE  \A x \in Respawn(s) : InOrder(x, none, none)
  <2>1. \A x \in {Broadcast} : InOrder(x, none, none)
    BY <1>7
  <2> QED  BY <1>2, <2>1, SendInOrder, ThenInOrder DEF Respawn
<1>17. InOrder(operation, none, none)
  BY <1>6, <1>7, <1>8, <1>11, <1>12, <1>13, <1>14, <1>15, <1>16 DEF Operations
<1> QED  BY <1>1, <1>17

-----------------------------------------------------------------------------
LEMMA StepsDiffer ==
    \A l, m \in Lock, body \in Bodies :
        /\ Acquire(l) = Acquire(m) => l = m
        /\ Acquire(l) # Release(m)
        /\ Acquire(l) # Loop(body) /\ Release(l) # Loop(body)
        /\ Acquire(l).do = "acquire" /\ Release(l).do = "release"
        /\ Loop(body).do = "loop" /\ Loop(body).body = body
<1>1. \A l, m \in Lock, body \in Bodies :
        /\ Acquire(l).do = "acquire" /\ Release(l).do = "release"
        /\ Loop(body).do = "loop" /\ Loop(body).body = body
        /\ Acquire(l).lock = l /\ Acquire(m).lock = m
  BY DEF Acquire, Release, Loop
<1>2. "acquire" # "release" /\ "acquire" # "loop" /\ "release" # "loop"
  OBVIOUS
<1> HIDE DEF Acquire, Release, Loop
<1> QED  BY <1>1, <1>2

\* The next step keeps to the order, and so do the ones after it.
LEMMA NextInOrder ==
    ASSUME LockIInv, NEW t \in Thread, todo[t] # << >>
    PROVE  \E q \in Seq(Lock) :
              /\ InOrder(Tail(todo[t]), q, << >>)
              /\ \/ \E l \in Lock : /\ Head(todo[t]) = Acquire(l)
                                    /\ MayLock(held[t], l)
                                    /\ q = Append(held[t], l)
                 \/ \E l \in Lock : /\ Head(todo[t]) = Release(l)
                                    /\ held[t] # << >>
                                    /\ q = Front(held[t])
                 \/ \E body \in Bodies : /\ Head(todo[t]) = Loop(body)
                                         /\ MayLoop(held[t], body)
                                         /\ q = held[t]
<1>1. InOrder(todo[t], held[t], << >>)
  BY DEF LockIInv
<1> QED  BY <1>1, RestInOrder DEF Does

LEMMA WantedInOrder ==
    ASSUME LockIInv, NEW t \in Thread, NEW l \in Lock, Wants(t, l)
    PROVE  MayLock(held[t], l)
<1>1. todo[t] # << >> /\ Head(todo[t]) = Acquire(l)
  BY DEF Wants
<1>2. PICK q \in Seq(Lock) :
         \/ \E m \in Lock : Head(todo[t]) = Acquire(m) /\ MayLock(held[t], m)
         \/ \E m \in Lock : Head(todo[t]) = Release(m)
         \/ \E body \in Bodies : Head(todo[t]) = Loop(body)
  BY <1>1, NextInOrder
<1>3. \A m \in Lock : Acquire(l) # Release(m)
  BY StepsDiffer DEF Bodies
<1>4. \A body \in Bodies : Acquire(l) # Loop(body)
  BY StepsDiffer
<1>5. \A m \in Lock : Acquire(l) = Acquire(m) => l = m
  BY StepsDiffer DEF Bodies
<1> QED  BY <1>1, <1>2, <1>3, <1>4, <1>5

\* A thread goes on in order, and takes no lock that another one holds.
LEMMA ThreadGoesOn ==
    ASSUME LockIInv, NEW t \in Thread,
           NEW steps, NEW locks, InOrder(steps, locks, << >>),
           locks \in Seq(Lock),
           todo' = [todo EXCEPT ![t] = steps],
           held' = [held EXCEPT ![t] = locks],
           \A l \in Lock : Contains(locks, l) =>
              \/ Holds(t, l)
              \/ \A u \in Thread \ {t} : ~ Holds(u, l)
    PROVE  LockIInv'
<1>1. /\ todo \in [Thread -> Seq(Steps)] /\ held \in [Thread -> Seq(Lock)]
      /\ OneHolder
      /\ \A u \in Thread : InOrder(todo[u], held[u], << >>)
  BY DEF LockIInv
<1>2. steps \in Seq(Steps)
  BY DEF InOrder
<1>3. todo' \in [Thread -> Seq(Steps)] /\ held' \in [Thread -> Seq(Lock)]
  BY <1>1, <1>2
<1>4. \A u \in Thread : /\ todo'[u] = IF u = t THEN steps ELSE todo[u]
                        /\ held'[u] = IF u = t THEN locks ELSE held[u]
  BY <1>1
<1>5. \A u \in Thread : InOrder(todo'[u], held'[u], << >>)
  BY <1>1, <1>4
<1>6. \A u \in Thread, l \in Lock :
         Holds(u, l)' <=> IF u = t THEN Contains(locks, l) ELSE Holds(u, l)
  BY <1>4 DEF Holds
<1>7. OneHolder'
  <2> SUFFICES ASSUME NEW u \in Thread, NEW v \in Thread, NEW l \in Lock,
                      Holds(u, l)', Holds(v, l)', u # v
               PROVE  FALSE
    BY DEF OneHolder
  <2>1. CASE u # t /\ v # t
    BY <1>1, <1>6, <2>1 DEF OneHolder
  <2>2. CASE u = t
    <3>1. Contains(locks, l) /\ Holds(v, l) /\ v \in Thread \ {t}
      BY <1>6, <2>2
    <3> QED  BY <1>1, <2>2, <3>1 DEF OneHolder
  <2>3. CASE v = t
    <3>1. Contains(locks, l) /\ Holds(u, l) /\ u \in Thread \ {t}
      BY <1>6, <2>3
    <3> QED  BY <1>1, <2>3, <3>1 DEF OneHolder
  <2> QED  BY <2>1, <2>2, <2>3
<1>8. (\A u \in Thread : InOrder(todo[u], held[u], << >>))'
  BY <1>5
<1> QED  BY <1>3, <1>7, <1>8 DEF LockIInv

LEMMA LockInvariance == LockIInv /\ [Next]_vars => LockIInv'
<1> SUFFICES ASSUME LockIInv, [Next]_vars PROVE LockIInv'
  OBVIOUS
<1>1. /\ todo \in [Thread -> Seq(Steps)] /\ held \in [Thread -> Seq(Lock)]
      /\ \A t \in Thread : InOrder(todo[t], held[t], << >>)
  BY DEF LockIInv
<1>2. ASSUME UNCHANGED vars
      PROVE  LockIInv'
  BY <1>2 DEF vars, LockIInv, OneHolder, Holds
<1>3. ASSUME NEW t \in Thread, Begin(t)
      PROVE  LockIInv'
  <2>1. PICK operation \in Operations(t) :
           todo' = [todo EXCEPT ![t] = operation] /\ held' = held
    BY <1>3 DEF Begin
  <2>2. held[t] = << >>
    <3>1. todo[t] = << >> /\ InOrder(todo[t], held[t], << >>)
      BY <1>1, <1>3 DEF Begin
    <3>2. Len(<< >>) + 1 = 1
      OBVIOUS
    <3> QED  BY <3>1, <3>2 DEF InOrder
  <2>3. InOrder(operation, held[t], << >>)
    BY <2>2, OperationsInOrder
  <2>4. held' = [held EXCEPT ![t] = held[t]] /\ held[t] \in Seq(Lock)
    BY <1>1, <2>1
  <2>5. \A l \in Lock : Contains(held[t], l) => Holds(t, l)
    BY DEF Holds
  <2> QED  BY <2>1, <2>3, <2>4, <2>5, ThreadGoesOn
<1>4. ASSUME NEW t \in Thread, AcquireNext(t)
      PROVE  LockIInv'
  <2>1. PICK l \in Lock :
           /\ Wants(t, l)
           /\ \A u \in Thread : ~ Blocks(u, t, l)
           /\ held' = [held EXCEPT ![t] = Append(held[t], l)]
           /\ todo' = [todo EXCEPT ![t] = Tail(todo[t])]
    BY <1>1, <1>4 DEF AcquireNext
  <2>2. todo[t] # << >> /\ Head(todo[t]) = Acquire(l)
    BY <2>1 DEF Wants
  <2>3. InOrder(Tail(todo[t]), Append(held[t], l), << >>)
    <3>1. PICK q \in Seq(Lock) :
             /\ InOrder(Tail(todo[t]), q, << >>)
             /\ \/ \E m \in Lock : /\ Head(todo[t]) = Acquire(m)
                                   /\ q = Append(held[t], m)
                \/ \E m \in Lock : Head(todo[t]) = Release(m)
                \/ \E body \in Bodies : Head(todo[t]) = Loop(body)
      BY <2>2, NextInOrder
    <3>2. \A m \in Lock : Acquire(l) # Release(m)
                          /\ (Acquire(l) = Acquire(m) => l = m)
      BY StepsDiffer DEF Bodies
    <3>3. \A body \in Bodies : Acquire(l) # Loop(body)
      BY StepsDiffer
    <3> QED  BY <2>2, <3>1, <3>2, <3>3
  <2>4. PICK locks \in Seq(Lock) : locks = Append(held[t], l)
    <3>1. held[t] \in Seq(Lock)
      BY <1>1
    <3> QED  BY <3>1, FrontOfAppend
  <2>5. ASSUME NEW m \in Lock, Contains(locks, m)
        PROVE  Holds(t, m) \/ \A u \in Thread \ {t} : ~ Holds(u, m)
    <3>1. PICK i \in 1 .. Len(locks) : locks[i] = m
      BY <2>5 DEF Contains
    <3>2. /\ Len(locks) = Len(held[t]) + 1 /\ Len(held[t]) \in Nat
          /\ locks[Len(held[t]) + 1] = l
          /\ \A j \in 1 .. Len(held[t]) : locks[j] = held[t][j]
      BY <1>1, <2>4
    <3>3. CASE i = Len(held[t]) + 1
      <4>1. m = l
        BY <3>1, <3>2, <3>3
      <4> QED  BY <2>1, <4>1 DEF Blocks
    <3>4. CASE i # Len(held[t]) + 1
      <4>1. i \in 1 .. Len(held[t]) /\ held[t][i] = m
        BY <3>1, <3>2, <3>4
      <4> QED  BY <4>1 DEF Holds, Contains
    <3> QED  BY <3>3, <3>4
  <2> QED  BY <2>1, <2>3, <2>4, <2>5, ThreadGoesOn
<1>5. ASSUME NEW t \in Thread, ReleaseNext(t)
      PROVE  LockIInv'
  <2>1. /\ todo[t] # << >> /\ Head(todo[t]).do = "release"
        /\ held' = [held EXCEPT ![t] = Front(held[t])]
        /\ todo' = [todo EXCEPT ![t] = Tail(todo[t])]
    BY <1>1, <1>5 DEF ReleaseNext
  <2>2. PICK q \in Seq(Lock) :
           /\ InOrder(Tail(todo[t]), q, << >>)
           /\ held[t] # << >>
           /\ q = Front(held[t])
    <3>1. PICK q \in Seq(Lock) :
             /\ InOrder(Tail(todo[t]), q, << >>)
             /\ \/ \E m \in Lock : Head(todo[t]) = Acquire(m)
                \/ /\ held[t] # << >>
                   /\ q = Front(held[t])
                \/ \E body \in Bodies : Head(todo[t]) = Loop(body)
      BY <2>1, NextInOrder
    <3>2. \A m \in Lock : Acquire(m).do # "release"
      BY StepsDiffer DEF Bodies
    <3>3. \A body \in Bodies : Loop(body).do # "release"
      BY DEF Loop
    <3> QED  BY <2>1, <3>1, <3>2, <3>3
  <2>3. \A m \in Lock : Contains(q, m) => Holds(t, m)
    <3>1. held[t] \in Seq(Lock) /\ Len(held[t]) \in Nat
      BY <1>1
    <3>2. Len(held[t]) # 0
      BY <2>2, <3>1
    <3>3. /\ Len(q) = Len(held[t]) - 1
          /\ \A i \in 1 .. Len(held[t]) - 1 : q[i] = held[t][i]
      BY <2>2, <3>1, <3>2 DEF Front
    <3>4. \A i \in 1 .. Len(q) : i \in 1 .. Len(held[t]) /\ q[i] = held[t][i]
      BY <3>1, <3>3
    <3> QED  BY <3>4 DEF Contains, Holds
  <2> QED  BY <2>1, <2>2, <2>3, ThreadGoesOn
<1>6. ASSUME NEW t \in Thread, LoopNext(t)
      PROVE  LockIInv'
  <2>1. /\ todo[t] # << >> /\ Head(todo[t]).do = "loop"
        /\ held' = held
        /\ \/ todo' = [todo EXCEPT ![t] = Tail(todo[t])]
           \/ \E round \in LoopBody(Head(todo[t]).body) :
                 todo' = [todo EXCEPT ![t] = round \o todo[t]]
    BY <1>1, <1>6 DEF LoopNext
  <2>2. PICK body \in Bodies :
           /\ InOrder(Tail(todo[t]), held[t], << >>)
           /\ Head(todo[t]) = Loop(body)
           /\ MayLoop(held[t], body)
    <3>1. PICK q \in Seq(Lock) :
             /\ InOrder(Tail(todo[t]), q, << >>)
             /\ \/ \E m \in Lock : Head(todo[t]) = Acquire(m)
                \/ \E m \in Lock : Head(todo[t]) = Release(m)
                \/ \E body \in Bodies : /\ Head(todo[t]) = Loop(body)
                                        /\ MayLoop(held[t], body)
                                        /\ q = held[t]
      BY <2>1, NextInOrder
    <3>2. \A m \in Lock : Acquire(m).do # "loop" /\ Release(m).do # "loop"
      BY DEF Acquire, Release
    <3> QED  BY <2>1, <3>1, <3>2
  <2>3. held[t] \in Seq(Lock) /\ held' = [held EXCEPT ![t] = held[t]]
    BY <1>1, <2>1
  <2>4. \A l \in Lock : Contains(held[t], l) => Holds(t, l)
    BY DEF Holds
  <2>5. ASSUME NEW round \in LoopBody(Head(todo[t]).body)
        PROVE  InOrder(round \o todo[t], held[t], << >>)
    <3>1. round \in LoopBody(body)
      BY <2>2, <2>5 DEF Loop
    <3>2. InOrder(round, held[t], held[t])
      BY <2>2, <2>3, <3>1, RoundInOrder
    <3>3. InOrder(todo[t], held[t], << >>)
      BY <1>1
    <3> QED  BY <3>2, <3>3, BothInOrder
  <2>6. CASE todo' = [todo EXCEPT ![t] = Tail(todo[t])]
    BY <2>2, <2>3, <2>4, <2>6, ThreadGoesOn
  <2>7. CASE \E round \in LoopBody(Head(todo[t]).body) :
                todo' = [todo EXCEPT ![t] = round \o todo[t]]
    BY <2>3, <2>4, <2>5, <2>7, ThreadGoesOn
  <2> QED  BY <2>1, <2>6, <2>7
<1> QED  BY <1>2, <1>3, <1>4, <1>5, <1>6 DEF Next, Step

LEMMA LocksInOrder == Spec => []LockIInv
<1>1. Init => LockIInv
  <2> SUFFICES ASSUME Init PROVE LockIInv
    OBVIOUS
  <2>1. \A t \in Thread : todo[t] = << >> /\ held[t] = << >>
    BY DEF Init
  <2>2. todo \in [Thread -> Seq(Steps)] /\ held \in [Thread -> Seq(Lock)]
    BY DEF Init
  <2>3. \A t \in Thread, l \in Lock : ~ Holds(t, l)
    BY <2>1 DEF Holds, Contains
  <2>4. InOrder(<< >>, << >>, << >>)
    <3>1. << >> \in Seq(Lock)
      OBVIOUS
    <3> QED  BY <3>1, NothingInOrder
  <2> QED  BY <2>1, <2>2, <2>3, <2>4 DEF LockIInv, OneHolder
<1> QED  BY <1>1, LockInvariance, PTL DEF Spec

-----------------------------------------------------------------------------
\* For any number of sessions, logic threads and workers, no threads wait for
\* each other for ever, and none for itself: Strike may broadcast with the
\* target's mutex held, Broadcast takes the world's, and Send the queue's and
\* then the buffer pool's, and no function the other way round.
THEOREM NoDeadlock == Spec => []NobodyIsStuck
<1>1. LockIInv => NobodyIsStuck
  <2> SUFFICES ASSUME LockIInv, NEW threads \in (SUBSET Thread) \ {{}},
                      Stuck(threads)
               PROVE  FALSE
    BY DEF NobodyIsStuck
  <2> DEFINE Waits(t, l) == t \in threads /\ l \in Lock /\ Wants(t, l)
  <2>1. \A t \in threads : \E l \in Lock, u \in threads :
           Wants(t, l) /\ Blocks(u, t, l)
    BY DEF Stuck
  <2>2. \A t, l, m : Waits(t, l) /\ Waits(t, m) => l = m
    <3>1. \A l, m \in Lock : Acquire(l) = Acquire(m) => l = m
      BY StepsDiffer DEF Bodies
    <3> QED  BY <3>1 DEF Wants
  \* Whoever waits for a lock waits for one that waits for a higher one.
  <2>3. ASSUME NEW t, NEW l, Waits(t, l)
        PROVE  \E u, m : Waits(u, m) /\ Rank(l) < Rank(m)
    <3>1. PICK u \in threads : Blocks(u, t, l)
      BY <2>1, <2>2, <2>3
    <3>2. PICK m \in Lock, v \in threads : Wants(u, m) /\ Blocks(v, u, m)
      BY <2>1
    <3>3. Holds(u, l) /\ Holds(v, m) /\ (v # u \/ m # World)
      BY <3>1, <3>2 DEF Blocks
    <3>4. MayLock(held[u], m)
      BY <3>2, WantedInOrder
    <3>5. Rank(l) < Rank(m) \/ (l = World /\ m = World)
      BY <3>3, <3>4 DEF MayLock, Holds, Contains
    <3>6. ~ (l = World /\ m = World)
      BY <2>3, <3>3 DEF LockIInv, OneHolder
    <3> QED  BY <3>2, <3>5, <3>6
  <2>4. \A t, l : Waits(t, l) => Rank(l) \in {1, 2, 3, 4}
    BY Ranks
  <2>5. \E t, l : Waits(t, l)
    <3>1. PICK t \in threads : TRUE
      OBVIOUS
    <3>2. PICK l \in Lock, u \in threads : Wants(t, l) /\ Blocks(u, t, l)
      BY <2>1
    <3>3. Waits(t, l)
      BY <3>2
    <3> QED  BY <3>3
  <2> HIDE DEF Waits
  <2>6. PICK t1, l1 : Waits(t1, l1) /\ Rank(l1) \in {1, 2, 3, 4}
    BY <2>4, <2>5
  <2>7. PICK t2, l2 : Waits(t2, l2) /\ Rank(l2) \in {2, 3, 4}
    <3>1. PICK t, l : Waits(t, l) /\ Rank(l1) < Rank(l)
      BY <2>3, <2>6
    <3>2. Rank(l) \in {1, 2, 3, 4}
      BY <2>4, <3>1
    <3>3. Rank(l) \in {2, 3, 4}
      BY <2>6, <3>1, <3>2
    <3> QED  BY <3>1, <3>3
  <2>8. PICK t3, l3 : Waits(t3, l3) /\ Rank(l3) \in {3, 4}
    <3>1. PICK t, l : Waits(t, l) /\ Rank(l2) < Rank(l)
      BY <2>3, <2>7
    <3>2. Rank(l) \in {1, 2, 3, 4}
      BY <2>4, <3>1
    <3>3. Rank(l) \in {3, 4}
      BY <2>7, <3>1, <3>2
    <3> QED  BY <3>1, <3>3
  <2>9. PICK t4, l4 : Waits(t4, l4) /\ Rank(l4) = 4
    <3>1. PICK t, l : Waits(t, l) /\ Rank(l3) < Rank(l)
      BY <2>3, <2>8
    <3>2. Rank(l) \in {1, 2, 3, 4}
      BY <2>4, <3>1
    <3>3. Rank(l) = 4
      BY <2>8, <3>1, <3>2
    <3> QED  BY <3>1, <3>3
  <2>10. PICK t, l : Waits(t, l) /\ Rank(l4) < Rank(l)
    BY <2>3, <2>9
  <2>11. Rank(l) \in {1, 2, 3, 4}
    BY <2>4, <2>10
  <2> QED  BY <2>9, <2>10, <2>11
<1> QED  BY <1>1, LocksInOrder, PTL

\* Nobody waits for a session's send queue with the world's mutex held: the
\* targets of a broadcast are collected under it and sent to without it.
THEOREM WorldIsNotHeldUp == Spec => []SendsOutsideTheWorld
<1>1. LockIInv => SendsOutsideTheWorld
  <2> SUFFICES ASSUME LockIInv, NEW t \in Thread, NEW s \in Session,
                      Holds(t, World), Wants(t, SendQueue(s))
               PROVE  FALSE
    BY DEF SendsOutsideTheWorld
  <2>1. MayLock(held[t], SendQueue(s))
    BY WantedInOrder, Ranks
  <2>2. SendQueue(s)[1] = "m_sendQueueMutex" /\ SendQueue(s) # World
    BY Ranks
  <2> QED  BY <2>1, <2>2 DEF MayLock, Holds, Contains
<1> QED  BY <1>1, LocksInOrder, PTL
=============================================================================
