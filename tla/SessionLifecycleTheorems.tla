---------------------- MODULE SessionLifecycleTheorems ----------------------
(***************************************************************************)
(* How sessions circulate, for every size of the pool, number of sockets,  *)
(* of workers and of logic threads: none is lost and, until a WSASend      *)
(* races with the WSARecv, each is in exactly one place.                   *)
(***************************************************************************)
EXTENDS SessionLifecycle, FiniteSetTheorems, SequenceTheorems, TLAPS

\* A handle that a session or a logic thread still names is not given out
\* again, unless nobody but the workers closes one.
HandlesStay == Reuse => ~ Timeouts /\ ~ Logouts

\* Logic threads close nothing without timeouts and logouts.
OnlyWorkersClose ==
    ~ Timeouts /\ ~ Logouts =>
        jobs = {} /\ \A t \in LogicThread : closing[t] = Resting

\* A worker has a session in its hands just where its handler needs one.
WorkersServe ==
    \A w \in Worker : serving[w] = None <=> pc[w] \in {"idle", "replenish"}

\* What is posted is posted on an open handle registered for its session ...
PostedAreOwn ==
    \A op \in posted : handle[op.on] # "closed" /\ keyOf[op.on] = op.by

\* ... so every completion is its session's own.
DoneAreOwn == \A i \in 1 .. Len(done) : done[i].by = done[i].key

\* The handle a session names is its own, or a logic thread has closed it.
NamesAreOwn ==
    \A s \in Session : socket[s] # None =>
        IF handle[socket[s]] = "closed" THEN Timeouts \/ Logouts
                                        ELSE keyOf[socket[s]] = s

\* Before the first WSASend, operations are posted on the handles that their
\* sessions name.
PostedAtHome ==
    sends = 0 =>
        /\ \A op \in posted : op.kind # "send" /\ socket[op.by] = op.on
        /\ \A i \in 1 .. Len(done) : done[i].kind # "send"

LifecycleIInv ==
    /\ TypeOK
    /\ IsFiniteSet(posted)
    /\ OnlyWorkersClose
    /\ WorkersServe
    /\ PostedAreOwn
    /\ DoneAreOwn
    /\ NamesAreOwn
    /\ SocketsNotShared
    /\ PostedAtHome
    /\ NoSessionLost
    /\ OnePlace

-----------------------------------------------------------------------------
LEMMA NoneIsNothing == None \notin Session /\ None \notin Socket
  BY LifecycleAssumption DEF None, Session, Socket

\* How many elements of a sequence are in a set.
CountIn(q, X) == Cardinality({i \in 1 .. Len(q) : q[i] \in X})

LEMMA CountType ==
    ASSUME NEW S, NEW q \in Seq(S), NEW X
    PROVE  /\ IsFiniteSet({i \in 1 .. Len(q) : q[i] \in X})
           /\ CountIn(q, X) \in Nat
<1> DEFINE hits == {i \in 1 .. Len(q) : q[i] \in X}
<1>1. IsFiniteSet(1 .. Len(q))
  BY FS_Interval
<1>2. IsFiniteSet(hits)
  BY <1>1, FS_Subset
<1> QED  BY <1>2, FS_CardinalityType DEF CountIn

\* An injection onto a set counts it.
LEMMA SameCount ==
    ASSUME NEW A, NEW B, IsFiniteSet(A), NEW f \in [A -> B],
           \A x, y \in A : f[x] = f[y] => x = y,
           \A b \in B : \E x \in A : f[x] = b
    PROVE  IsFiniteSet(B) /\ Cardinality(B) = Cardinality(A)
<1>1. f \in Bijection(A, B)
  BY DEF Bijection, Injection, Surjection, IsInjective
<1>2. ExistsBijection(A, B)
  BY <1>1 DEF ExistsBijection
<1> QED  BY <1>2, FS_Bijection

\* The parts of a concatenation are counted one by one.
LEMMA CountConcat ==
    ASSUME NEW S, NEW p \in Seq(S), NEW q \in Seq(S), NEW X
    PROVE  CountIn(p \o q, X) = CountIn(p, X) + CountIn(q, X)
<1> DEFINE both  == p \o q
           left  == {i \in 1 .. Len(p) : p[i] \in X}
           right == {i \in 1 .. Len(q) : q[i] \in X}
           moved == {j \in Len(p) + 1 .. Len(p) + Len(q) : both[j] \in X}
           shift == [i \in right |-> i + Len(p)]
<1>1. /\ Len(p) \in Nat /\ Len(q) \in Nat
      /\ Len(both) = Len(p) + Len(q)
      /\ \A i \in 1 .. Len(p) : both[i] = p[i]
      /\ \A i \in 1 .. Len(q) : both[i + Len(p)] = q[i]
  OBVIOUS
<1> HIDE DEF both
<1>2. IsFiniteSet(left) /\ IsFiniteSet(right)
  BY CountType
<1>3. IsFiniteSet(moved) /\ Cardinality(moved) = Cardinality(right)
  <2>1. shift \in [right -> moved]
    BY <1>1
  <2>2. \A x, y \in right : shift[x] = shift[y] => x = y
    BY <1>1
  <2>3. ASSUME NEW b \in moved
        PROVE  \E x \in right : shift[x] = b
    <3>1. b - Len(p) \in 1 .. Len(q) /\ (b - Len(p)) + Len(p) = b
      BY <1>1
    <3>2. b - Len(p) \in right
      BY <1>1, <3>1
    <3> QED  BY <3>1, <3>2
  <2> HIDE DEF right, moved, shift
  <2>4. IsFiniteSet(right)
    BY <1>2
  <2> QED  BY <2>1, <2>2, <2>3, <2>4, SameCount
<1>4. {j \in 1 .. Len(both) : both[j] \in X} = left \cup moved
  BY <1>1
<1>5. left \cap moved = {}
  BY <1>1
<1>6. Cardinality(left \cup moved) = Cardinality(left) + Cardinality(moved)
  <2>1. Cardinality(left \cap moved) = 0
    BY <1>5, FS_EmptySet
  <2>2. Cardinality(left) \in Nat /\ Cardinality(moved) \in Nat
    BY <1>2, <1>3, FS_CardinalityType
  <2>3. IsFiniteSet(left) /\ IsFiniteSet(moved)
    BY <1>2, <1>3
  <2> HIDE DEF left, moved
  <2>4. Cardinality(left \cup moved)
          = Cardinality(left) + Cardinality(moved) - Cardinality(left \cap moved)
    BY <2>3, FS_Union
  <2> QED  BY <2>1, <2>2, <2>4
<1> QED  BY <1>3, <1>4, <1>6 DEF CountIn, both

LEMMA CountOne ==
    ASSUME NEW x, NEW X
    PROVE  CountIn(<<x>>, X) = IF x \in X THEN 1 ELSE 0
<1> DEFINE hits == {i \in 1 .. Len(<<x>>) : <<x>>[i] \in X}
<1>1. CASE x \in X
  <2>1. hits = {1}
    BY <1>1
  <2> QED  BY <1>1, <2>1, FS_Singleton DEF CountIn
<1>2. CASE x \notin X
  <2>1. hits = {}
    BY <1>2
  <2> QED  BY <1>2, <2>1, FS_EmptySet DEF CountIn
<1> QED  BY <1>1, <1>2

LEMMA CountAppend ==
    ASSUME NEW S, NEW q \in Seq(S), NEW x \in S, NEW X
    PROVE  /\ CountIn(q, X) \in Nat
           /\ CountIn(Append(q, x), X)
                = IF x \in X THEN CountIn(q, X) + 1 ELSE CountIn(q, X)
<1>1. PICK one : one = <<x>>
  OBVIOUS
<1>2. one \in Seq(S) /\ Append(q, x) = q \o one
  BY <1>1
<1>3. CountIn(one, X) = IF x \in X THEN 1 ELSE 0
  BY <1>1, CountOne
<1>4. CountIn(q \o one, X) = CountIn(q, X) + CountIn(one, X)
  BY <1>2, CountConcat
<1>5. CountIn(q, X) \in Nat
  BY CountType
<1> QED  BY <1>2, <1>3, <1>4, <1>5

LEMMA CountTail ==
    ASSUME NEW S, NEW q \in Seq(S), q # << >>, NEW X
    PROVE  /\ CountIn(Tail(q), X) \in Nat
           /\ CountIn(q, X)
                = IF Head(q) \in X THEN CountIn(Tail(q), X) + 1
                                   ELSE CountIn(Tail(q), X)
<1>1. PICK one, rest : one = <<Head(q)>> /\ rest = Tail(q)
  OBVIOUS
<1>2. /\ one \in Seq(S) /\ rest \in Seq(S)
      /\ q = one \o rest
  BY <1>1
<1>3. CountIn(one, X) = IF Head(q) \in X THEN 1 ELSE 0
  BY <1>1, CountOne
<1>4. CountIn(one \o rest, X) = CountIn(one, X) + CountIn(rest, X)
  BY <1>2, CountConcat
<1>5. CountIn(rest, X) \in Nat /\ CountIn(one, X) \in Nat
  BY <1>2, CountType
<1>6. CountIn(q, X) = CountIn(rest, X) + CountIn(one, X)
  BY <1>2, <1>4, <1>5
<1> QED  BY <1>1, <1>3, <1>5, <1>6

\* SetToSeqs has the sequences with every element of a set once.
LEMMA SetToSeqsMeans ==
    ASSUME NEW S, NEW q \in SX!SetToSeqs(S)
    PROVE  /\ q \in [1 .. Cardinality(S) -> S]
           /\ \A i, j \in 1 .. Cardinality(S) : i # j => q[i] # q[j]
<1>1. SX!Cardinality(S) = Cardinality(S)
  BY DEF SX!Cardinality, Cardinality
<1> QED  BY <1>1 DEF SX!SetToSeqs

\* Such a sequence counts what the set has.
LEMMA CountSet ==
    ASSUME NEW S, IsFiniteSet(S),
           NEW q, q \in [1 .. Cardinality(S) -> S],
           \A i, j \in 1 .. Cardinality(S) : i # j => q[i] # q[j],
           NEW X
    PROVE  /\ q \in Seq(S)
           /\ CountIn(q, X) = Cardinality(S \cap X)
<1> DEFINE n == Cardinality(S)
           hits == {i \in 1 .. Len(q) : q[i] \in X}
           f == [i \in hits |-> q[i]]
<1>1. n \in Nat /\ IsFiniteSet(1 .. n) /\ Cardinality(1 .. n) = n
  BY FS_CardinalityType, FS_Interval
<1>2. q \in [1 .. n -> S] /\ \A i, j \in 1 .. n : i # j => q[i] # q[j]
  OBVIOUS
<1> HIDE DEF n
<1>3. q \in Seq(S) /\ Len(q) = n /\ \A i \in 1 .. Len(q) : q[i] \in S
  <2>1. PICK m \in Nat : m = n
    BY <1>1
  <2>2. q \in [1 .. m -> S]
    BY <1>2, <2>1
  <2>3. q \in Seq(S) /\ Len(q) = m
    BY <2>2
  <2>4. \A i \in 1 .. m : q[i] \in S
    BY <2>2
  <2> QED  BY <2>1, <2>3, <2>4
<1>4. \A x \in S : \E i \in 1 .. n : q[i] = x
  <2>1. q \in Injection(1 .. n, S)
    BY <1>2 DEF Injection, IsInjective
  <2>2. q \in Surjection(1 .. n, S)
    BY <1>1, <2>1, FS_Injection DEF n
  <2> QED  BY <2>2 DEF Surjection
<1>5. Cardinality(S \cap X) = Cardinality(hits)
  <2>1. IsFiniteSet(hits)
    BY <1>3, CountType
  <2>2. f \in [hits -> S \cap X]
    BY <1>3
  <2>3. \A x, y \in hits : f[x] = f[y] => x = y
    BY <1>2, <1>3
  <2>4. \A b \in S \cap X : \E x \in hits : f[x] = b
    BY <1>3, <1>4
  <2> HIDE DEF f, hits
  <2> QED  BY <2>1, <2>2, <2>3, <2>4, SameCount
<1> QED  BY <1>3, <1>5 DEF CountIn

-----------------------------------------------------------------------------
\* What stands for a session among operations, and among completions.
Reads(P, s) == {op \in P : op.by = s /\ op.kind # "send"}
ReadsOf(s) == {c \in Completion : c.by = s /\ c.kind # "send"}

\* A session's places, counted, before and after a step.
LEMMA Counts ==
    ASSUME TypeOK, IsFiniteSet(posted), NEW s \in Session
    PROVE  /\ Places(s) = CountIn(free, {s}) + Cardinality(Reads(posted, s))
                          + CountIn(done, ReadsOf(s)) + Cardinality(InHands(s))
           /\ CountIn(free, {s}) \in Nat /\ Cardinality(Reads(posted, s)) \in Nat
           /\ CountIn(done, ReadsOf(s)) \in Nat /\ Cardinality(InHands(s)) \in Nat
<1> free \in Seq(Session) /\ done \in Seq(Completion)
  BY DEF TypeOK
<1>1. DOMAIN free = 1 .. Len(free) /\ DOMAIN done = 1 .. Len(done)
  OBVIOUS
<1>2. InPool(s) = {i \in 1 .. Len(free) : free[i] \in {s}}
  BY <1>1 DEF InPool
<1>3. \A i \in 1 .. Len(done) : done[i] \in Completion
  OBVIOUS
<1>4. Returning(s) = {i \in 1 .. Len(done) : done[i] \in ReadsOf(s)}
  BY <1>1, <1>3 DEF Returning, ReadsOf
<1>5. Pending(s) = Reads(posted, s)
  BY DEF Pending, Reads
<1>6. IsFiniteSet(Reads(posted, s)) /\ IsFiniteSet(InHands(s))
  BY LifecycleAssumption, FS_Subset DEF Reads, InHands
<1>7. Cardinality(Reads(posted, s)) \in Nat /\ Cardinality(InHands(s)) \in Nat
  BY <1>6, FS_CardinalityType
<1>8. CountIn(free, {s}) \in Nat /\ CountIn(done, ReadsOf(s)) \in Nat
  BY CountType
<1> QED  BY <1>2, <1>4, <1>5, <1>7, <1>8 DEF Places, CountIn

LEMMA CountsAfter ==
    ASSUME TypeOK', IsFiniteSet(posted'), NEW s \in Session
    PROVE  /\ Places(s)' = CountIn(free', {s}) + Cardinality(Reads(posted', s))
                           + CountIn(done', ReadsOf(s)) + Cardinality(InHands(s)')
           /\ CountIn(free', {s}) \in Nat
           /\ Cardinality(Reads(posted', s)) \in Nat
           /\ CountIn(done', ReadsOf(s)) \in Nat
           /\ Cardinality(InHands(s)') \in Nat
<1> free' \in Seq(Session) /\ done' \in Seq(Completion)
  BY DEF TypeOK
<1>1. DOMAIN free' = 1 .. Len(free') /\ DOMAIN done' = 1 .. Len(done')
  OBVIOUS
<1>2. InPool(s)' = {i \in 1 .. Len(free') : free'[i] \in {s}}
  BY <1>1 DEF InPool
<1>3. \A i \in 1 .. Len(done') : done'[i] \in Completion
  OBVIOUS
<1>4. Returning(s)' = {i \in 1 .. Len(done') : done'[i] \in ReadsOf(s)}
  BY <1>1, <1>3 DEF Returning, ReadsOf
<1>5. Pending(s)' = Reads(posted', s)
  BY DEF Pending, Reads
<1>6. IsFiniteSet(Reads(posted', s)) /\ IsFiniteSet(InHands(s)')
  BY LifecycleAssumption, FS_Subset DEF Reads, InHands
<1>7. Cardinality(Reads(posted', s)) \in Nat /\ Cardinality(InHands(s)') \in Nat
  BY <1>6, FS_CardinalityType
<1>8. CountIn(free', {s}) \in Nat /\ CountIn(done', ReadsOf(s)) \in Nat
  BY CountType
<1> QED  BY <1>2, <1>4, <1>5, <1>7, <1>8 DEF Places, CountIn

\* Posting an operation, and taking one away.
LEMMA ReadsPosted ==
    ASSUME NEW P, IsFiniteSet(P), NEW op, op \notin P, NEW s
    PROVE  /\ IsFiniteSet(P \cup {op})
           /\ Cardinality(Reads(P \cup {op}, s))
                = IF op.by = s /\ op.kind # "send"
                  THEN Cardinality(Reads(P, s)) + 1 ELSE Cardinality(Reads(P, s))
<1>1. IsFiniteSet(Reads(P, s))
  BY FS_Subset DEF Reads
<1>2. IsFiniteSet(P \cup {op})
  BY FS_AddElement
<1>3. CASE op.by = s /\ op.kind # "send"
  <2>1. Reads(P \cup {op}, s) = Reads(P, s) \cup {op} /\ op \notin Reads(P, s)
    BY <1>3 DEF Reads
  <2> QED  BY <1>1, <1>2, <1>3, <2>1, FS_AddElement
<1>4. CASE ~ (op.by = s /\ op.kind # "send")
  <2>1. Reads(P \cup {op}, s) = Reads(P, s)
    BY <1>4 DEF Reads
  <2>2. Cardinality(Reads(P, s)) \in Nat
    BY <1>1, FS_CardinalityType
  <2> QED  BY <1>2, <1>4, <2>1, <2>2
<1> QED  BY <1>3, <1>4

LEMMA ReadsTaken ==
    ASSUME NEW P, IsFiniteSet(P), NEW op \in P, NEW s
    PROVE  /\ IsFiniteSet(P \ {op})
           /\ Cardinality(Reads(P, s))
                = IF op.by = s /\ op.kind # "send"
                  THEN Cardinality(Reads(P \ {op}, s)) + 1
                  ELSE Cardinality(Reads(P \ {op}, s))
<1>1. IsFiniteSet(P \ {op}) /\ op \notin P \ {op} /\ (P \ {op}) \cup {op} = P
  BY FS_RemoveElement
<1> QED  BY <1>1, ReadsPosted

\* Whom a worker serves changes.
LEMMA HandsChange ==
    ASSUME serving \in [Worker -> Session \cup {None}],
           NEW w \in Worker, NEW x,
           serving' = [serving EXCEPT ![w] = x],
           NEW s \in Session
    PROVE  /\ Cardinality(InHands(s)) \in Nat
           /\ Cardinality(InHands(s)') \in Nat
           /\ (x = s /\ serving[w] # s)
                => Cardinality(InHands(s)') = Cardinality(InHands(s)) + 1
           /\ (x # s /\ serving[w] = s)
                => Cardinality(InHands(s)') + 1 = Cardinality(InHands(s))
           /\ (x = s <=> serving[w] = s)
                => Cardinality(InHands(s)') = Cardinality(InHands(s))
<1> DEFINE others == {v \in Worker \ {w} : serving[v] = s}
<1>1. IsFiniteSet(others) /\ Cardinality(others) \in Nat
  BY LifecycleAssumption, FS_Subset, FS_CardinalityType
<1>2. w \notin others
  OBVIOUS
<1>3. InHands(s) = IF serving[w] = s THEN others \cup {w} ELSE others
  BY DEF InHands
<1>4. InHands(s)' = IF x = s THEN others \cup {w} ELSE others
  BY DEF InHands
<1> HIDE DEF others
<1>5. PICK n \in Nat : n = Cardinality(others)
  BY <1>1
<1>6. Cardinality(others \cup {w}) = n + 1
  BY <1>1, <1>2, <1>5, FS_AddElement
<1>7. Cardinality(InHands(s)) = IF serving[w] = s THEN n + 1 ELSE n
  BY <1>3, <1>5, <1>6
<1>8. Cardinality(InHands(s)') = IF x = s THEN n + 1 ELSE n
  BY <1>4, <1>5, <1>6
<1>9. CASE serving[w] = s
  <2>1. Cardinality(InHands(s)) = n + 1
    BY <1>7, <1>9
  <2> QED  BY <1>5, <1>8, <1>9, <2>1
<1>10. CASE serving[w] # s
  <2>1. Cardinality(InHands(s)) = n
    BY <1>7, <1>10
  <2> QED  BY <1>5, <1>8, <1>10, <2>1
<1> QED  BY <1>9, <1>10

LEMMA ServeStep ==
    ASSUME TypeOK, WorkersServe,
           NEW w \in Worker, NEW x \in Session \cup {None},
           NEW where \in {"idle", "firstRecv", "recv", "replenish", "accept"},
           x = None <=> where \in {"idle", "replenish"},
           Serve(w, x, where)
    PROVE  /\ pc' \in [Worker -> {"idle", "firstRecv", "recv", "replenish",
                                  "accept"}]
           /\ serving' \in [Worker -> Session \cup {None}]
           /\ WorkersServe'
           /\ \A s \in Session :
                /\ Cardinality(InHands(s)) \in Nat
                /\ Cardinality(InHands(s)') \in Nat
                /\ (x = s /\ serving[w] # s)
                     => Cardinality(InHands(s)') = Cardinality(InHands(s)) + 1
                /\ (x # s /\ serving[w] = s)
                     => Cardinality(InHands(s)') + 1 = Cardinality(InHands(s))
                /\ (x = s <=> serving[w] = s)
                     => Cardinality(InHands(s)') = Cardinality(InHands(s))
<1>1. /\ pc \in [Worker -> {"idle", "firstRecv", "recv", "replenish", "accept"}]
      /\ serving \in [Worker -> Session \cup {None}]
  BY DEF TypeOK
<1>2. pc' = [pc EXCEPT ![w] = where] /\ serving' = [serving EXCEPT ![w] = x]
  BY DEF Serve
<1>3. WorkersServe'
  BY <1>1, <1>2 DEF WorkersServe
<1>4. /\ pc' \in [Worker -> {"idle", "firstRecv", "recv", "replenish", "accept"}]
      /\ serving' \in [Worker -> Session \cup {None}]
  BY <1>1, <1>2
<1> QED  BY <1>1, <1>2, <1>3, <1>4, HandsChange, Zenon

\* Places stay as they are, and so does what they must be.
LEMMA StillPlaced ==
    ASSUME NoSessionLost, OnePlace, sends' = sends, dropped' = dropped,
           \A s \in Session : Places(s)' = Places(s)
    PROVE  NoSessionLost' /\ OnePlace'
  BY DEF NoSessionLost, OnePlace

\* The elements of a sequence whose first one is taken, or that gets another.
LEMMA TailOf ==
    ASSUME NEW S, NEW q \in Seq(S), q # << >>
    PROVE  /\ Tail(q) \in Seq(S) /\ Head(q) \in S
           /\ \E j \in 1 .. Len(q) : Head(q) = q[j]
           /\ \A i \in 1 .. Len(Tail(q)) : \E j \in 1 .. Len(q) : Tail(q)[i] = q[j]
<1>1. Len(q) \in Nat /\ Len(q) >= 1 /\ Head(q) = q[1]
  OBVIOUS
<1>2. /\ Tail(q) \in Seq(S) /\ Len(Tail(q)) = Len(q) - 1
      /\ \A i \in 1 .. Len(q) - 1 : Tail(q)[i] = q[i + 1]
  OBVIOUS
<1>3. \A i \in 1 .. Len(q) - 1 : i + 1 \in 1 .. Len(q)
  BY <1>1
<1>4. 1 \in 1 .. Len(q) /\ q[1] \in S
  BY <1>1
<1> QED  BY <1>1, <1>2, <1>3, <1>4

LEMMA AppendOf ==
    ASSUME NEW S, NEW q \in Seq(S), NEW x \in S
    PROVE  /\ Append(q, x) \in Seq(S)
           /\ \A i \in 1 .. Len(Append(q, x)) :
                 \/ Append(q, x)[i] = x
                 \/ \E j \in 1 .. Len(q) : Append(q, x)[i] = q[j]
<1>1. /\ Append(q, x) \in Seq(S) /\ Len(q) \in Nat
      /\ Len(Append(q, x)) = Len(q) + 1
      /\ Append(q, x)[Len(q) + 1] = x
      /\ \A i \in 1 .. Len(q) : Append(q, x)[i] = q[i]
  OBVIOUS
<1>2. \A i \in 1 .. Len(q) + 1 : i = Len(q) + 1 \/ i \in 1 .. Len(q)
  BY <1>1
<1> QED  BY <1>1, <1>2

-----------------------------------------------------------------------------
\* What is posted becomes, in part, completions behind those that are queued,
\* and no session's reads are lost or doubled by it.
MovedBehind(queued) ==
    /\ posted' \subseteq posted
    /\ IsFiniteSet(posted')
    /\ done' \in Seq(Completion)
    /\ (\A i \in 1 .. Len(queued) : queued[i].by = queued[i].key)
          => \A i \in 1 .. Len(done') : done'[i].by = done'[i].key
    /\ (/\ \A op \in posted : op.kind # "send"
        /\ \A i \in 1 .. Len(queued) : queued[i].kind # "send")
          => \A i \in 1 .. Len(done') : done'[i].kind # "send"
    /\ \A s \in Session :
          Cardinality(Reads(posted', s)) + CountIn(done', ReadsOf(s))
            = Cardinality(Reads(posted, s)) + CountIn(queued, ReadsOf(s))

LEMMA EndHandleMoves ==
    ASSUME TypeOK, IsFiniteSet(posted), PostedAreOwn,
           NEW h \in Socket, NEW as \in {"closed", "ended"},
           NEW queued \in Seq(Completion), EndHandle(h, as, queued)
    PROVE  posted' = {op \in posted : op.on # h} /\ MovedBehind(queued)
<1> DEFINE lost == {op \in posted : op.on = h}
           failed == {Completed(op, FALSE) : op \in lost}
           stay == {op \in posted : op.on # h}
<1>1. posted \subseteq Operation
  BY DEF TypeOK
<1>2. ASSUME NEW op \in posted
      PROVE  /\ op.kind \in {"accept", "recv", "send"}
             /\ op.by \in Session
             /\ Completed(op, FALSE) \in Completion
             /\ Completed(op, FALSE).by = op.by
             /\ Completed(op, FALSE).key = op.by
             /\ Completed(op, FALSE).kind = op.kind
  <2>1. keyOf[op.on] = op.by
    BY DEF PostedAreOwn
  <2> QED  BY <1>1, <2>1 DEF Operation, Completed, Completion
<1>3. ASSUME NEW a \in lost, NEW b \in lost,
             Completed(a, FALSE) = Completed(b, FALSE)
      PROVE  a = b
  <2>1. a.kind = b.kind /\ a.by = b.by /\ a.on = b.on
    BY <1>2, <1>3
  <2>2. a \in Operation /\ b \in Operation
    BY <1>1
  <2>3. /\ a = [kind |-> a.kind, by |-> a.by, on |-> a.on]
        /\ b = [kind |-> b.kind, by |-> b.by, on |-> b.on]
    BY <2>2 DEF Operation
  <2> QED  BY <2>1, <2>3
<1>4. IsFiniteSet(lost) /\ IsFiniteSet(stay)
  BY FS_Subset
<1>5. PICK q \in SX!SetToSeqs(failed) : done' = queued \o q
  BY DEF EndHandle
<1>6. posted' = stay
  BY DEF EndHandle
\* The completions of those of the lost in a set of operations are as many.
<1>7. ASSUME NEW A \in SUBSET lost
      PROVE  LET B == {Completed(op, FALSE) : op \in A}
             IN  IsFiniteSet(B) /\ Cardinality(B) = Cardinality(A)
  <2> DEFINE B == {Completed(op, FALSE) : op \in A}
             f == [op \in A |-> Completed(op, FALSE)]
  <2>1. IsFiniteSet(A)
    BY <1>4, FS_Subset
  <2>2. f \in [A -> B]
    OBVIOUS
  <2>3. \A x, y \in A : f[x] = f[y] => x = y
    BY <1>3
  <2>4. \A b \in B : \E x \in A : f[x] = b
    OBVIOUS
  <2> HIDE DEF B, f
  <2>5. IsFiniteSet(B) /\ Cardinality(B) = Cardinality(A)
    BY <2>1, <2>2, <2>3, <2>4, SameCount
  <2> QED  BY <2>5 DEF B
<1>8. IsFiniteSet(failed) /\ failed \subseteq Completion
  BY <1>2, <1>7
<1> HIDE DEF failed
<1>9. /\ q \in Seq(Completion)
      /\ \A i \in 1 .. Len(q) : q[i] \in failed
      /\ \A X : CountIn(q, X) = Cardinality(failed \cap X)
  <2>1. ASSUME NEW X
        PROVE  /\ q \in Seq(Completion)
               /\ \A i \in 1 .. Len(q) : q[i] \in failed
               /\ CountIn(q, X) = Cardinality(failed \cap X)
    <3>1. PICK set \in SUBSET Completion : set = failed
      BY <1>8
    <3>2. /\ set \subseteq Completion /\ IsFiniteSet(set)
          /\ q \in [1 .. Cardinality(set) -> set]
          /\ \A i, j \in 1 .. Cardinality(set) : i # j => q[i] # q[j]
      BY <1>5, <1>8, <3>1, SetToSeqsMeans
    <3>3. q \in Seq(set) /\ CountIn(q, X) = Cardinality(set \cap X)
      BY <3>2, CountSet
    <3> QED  BY <3>1, <3>3
  <2> QED  BY <2>1
<1>10. /\ done' \in Seq(Completion)
       /\ \A i \in 1 .. Len(done') :
             \/ \E j \in 1 .. Len(queued) : done'[i] = queued[j]
             \/ done'[i] \in failed
  <2>1. /\ done' \in Seq(Completion)
        /\ Len(done') = Len(queued) + Len(q)
        /\ \A i \in 1 .. Len(done') :
              done'[i] = IF i <= Len(queued) THEN queued[i]
                                             ELSE q[i - Len(queued)]
    BY <1>5, <1>9
  <2>2. Len(queued) \in Nat /\ Len(q) \in Nat
    BY <1>9
  <2>3. ASSUME NEW i \in 1 .. Len(done')
        PROVE  \/ \E j \in 1 .. Len(queued) : done'[i] = queued[j]
               \/ done'[i] \in failed
    <3>1. CASE i <= Len(queued)
      <4>1. i \in 1 .. Len(queued) /\ done'[i] = queued[i]
        BY <2>1, <2>2, <3>1
      <4> QED  BY <4>1
    <3>2. CASE ~ (i <= Len(queued))
      <4>1. i - Len(queued) \in 1 .. Len(q) /\ done'[i] = q[i - Len(queued)]
        BY <2>1, <2>2, <3>2
      <4> QED  BY <1>9, <4>1
    <3> QED  BY <3>1, <3>2
  <2> QED  BY <2>1, <2>3
<1>11. \A c \in failed : c.by = c.key /\ \E op \in posted : c.kind = op.kind
  BY <1>2 DEF failed
<1>12. ASSUME NEW s \in Session
       PROVE  Cardinality(Reads(posted', s)) + CountIn(done', ReadsOf(s))
                = Cardinality(Reads(posted, s)) + CountIn(queued, ReadsOf(s))
  <2> DEFINE gone == Reads(lost, s)
             kept == Reads(stay, s)
             back == {Completed(op, FALSE) : op \in gone}
  <2>1. back = failed \cap ReadsOf(s)
    <3>1. ASSUME NEW c \in back
          PROVE  c \in failed \cap ReadsOf(s)
      <4>1. PICK op \in gone : c = Completed(op, FALSE)
        OBVIOUS
      <4>2. op \in lost /\ op \in posted /\ op.by = s /\ op.kind # "send"
        BY DEF Reads
      <4> QED  BY <1>2, <4>1, <4>2 DEF failed, ReadsOf
    <3>2. ASSUME NEW c \in failed \cap ReadsOf(s)
          PROVE  c \in back
      <4>1. PICK op \in lost : c = Completed(op, FALSE)
        BY DEF failed
      <4>2. op.by = s /\ op.kind # "send"
        BY <1>2, <4>1 DEF ReadsOf
      <4> QED  BY <4>1, <4>2 DEF Reads
    <3> QED  BY <3>1, <3>2
  <2>2. gone \subseteq lost
    BY DEF Reads
  <2> HIDE DEF gone
  <2>3. Cardinality(back) = Cardinality(gone)
    BY <1>7, <2>2
  <2> HIDE DEF back
  <2>4. CountIn(done', ReadsOf(s))
          = CountIn(queued, ReadsOf(s)) + CountIn(q, ReadsOf(s))
    BY <1>5, <1>9, CountConcat
  <2>5. IsFiniteSet(gone) /\ IsFiniteSet(kept)
    BY <1>4, FS_Subset DEF gone, Reads
  <2>6. Reads(posted, s) = gone \cup kept /\ gone \cap kept = {}
    BY DEF gone, Reads
  <2> HIDE DEF kept
  <2>7. /\ Cardinality(gone) \in Nat /\ Cardinality(kept) \in Nat
        /\ Cardinality(gone \cup kept) = Cardinality(gone) + Cardinality(kept)
    <3>1. Cardinality(gone \cap kept) = 0
      BY <2>6, FS_EmptySet
    <3>2. Cardinality(gone \cup kept)
            = Cardinality(gone) + Cardinality(kept) - Cardinality(gone \cap kept)
      BY <2>5, FS_Union
    <3>3. Cardinality(gone) \in Nat /\ Cardinality(kept) \in Nat
      BY <2>5, FS_CardinalityType
    <3> QED  BY <3>1, <3>2, <3>3
  <2>8. CountIn(q, ReadsOf(s)) = Cardinality(gone)
    BY <1>9, <2>1, <2>3
  <2>9. CountIn(queued, ReadsOf(s)) \in Nat
    BY CountType
  <2>10. Cardinality(Reads(posted', s)) = Cardinality(kept)
    BY <1>6 DEF kept
  <2> QED  BY <2>4, <2>6, <2>7, <2>8, <2>9, <2>10
<1> QED  BY <1>4, <1>6, <1>10, <1>11, <1>12 DEF MovedBehind

LEMMA CloseMoves ==
    ASSUME TypeOK, IsFiniteSet(posted), PostedAreOwn,
           NEW h \in Socket \cup {None},
           NEW queued \in Seq(Completion), CloseSocket(h, queued)
    PROVE  /\ MovedBehind(queued)
           /\ posted' = {op \in posted : op.on # h}
           /\ handle' \in [Socket -> {"closed", "waiting", "connected", "ended"}]
           /\ keyOf' \in [Socket -> Session \cup {None}]
           /\ \A k \in Socket : handle'[k] = IF k = h THEN "closed" ELSE handle[k]
           /\ \A k \in Socket : k # h => keyOf'[k] = keyOf[k]
<1>1. CASE h = None \/ handle[h] = "closed"
  <2>1. done' = queued /\ UNCHANGED <<handle, keyOf, posted>>
    BY <1>1 DEF CloseSocket
  <2>2. \A op \in posted : op.on # h
    <3>1. \A op \in posted : op.on \in Socket /\ handle[op.on] # "closed"
      BY DEF TypeOK, Operation, PostedAreOwn
    <3>2. None \notin Socket
      BY DEF None, Socket
    <3> QED  BY <1>1, <3>1, <3>2
  <2>3. MovedBehind(queued)
    BY <2>1 DEF MovedBehind
  <2>4. \A k \in Socket : k = h => handle[k] = "closed"
    BY <1>1 DEF None, Socket
  <2> QED  BY <2>1, <2>2, <2>3, <2>4 DEF TypeOK
<1>2. CASE ~ (h = None \/ handle[h] = "closed")
  <2>1. h \in Socket /\ EndHandle(h, "closed", queued)
    BY <1>2 DEF CloseSocket
  <2>2. posted' = {op \in posted : op.on # h} /\ MovedBehind(queued)
    BY <2>1, EndHandleMoves
  <2>3. /\ handle' = [handle EXCEPT ![h] = "closed"]
        /\ keyOf' = [keyOf EXCEPT ![h] = None]
    BY <2>1 DEF EndHandle
  <2>4. /\ handle \in [Socket -> {"closed", "waiting", "connected", "ended"}]
        /\ keyOf \in [Socket -> Session \cup {None}]
    BY DEF TypeOK
  <2>5. /\ handle' \in [Socket -> {"closed", "waiting", "connected", "ended"}]
        /\ keyOf' \in [Socket -> Session \cup {None}]
        /\ \A k \in Socket : handle'[k] = IF k = h THEN "closed" ELSE handle[k]
        /\ \A k \in Socket : k # h => keyOf'[k] = keyOf[k]
    BY <2>1, <2>3, <2>4
  <2> QED  BY <2>2, <2>5
<1> QED  BY <1>1, <1>2

\* What the kernel holds for the sessions, and how they name it.
KernelAgrees ==
    /\ PostedAreOwn
    /\ DoneAreOwn
    /\ NamesAreOwn
    /\ SocketsNotShared
    /\ PostedAtHome

\* Clearing a session keeps that, when the completions queued do.
LEMMA ClearMoves ==
    ASSUME LifecycleIInv, sends' = sends, NEW s \in Session,
           NEW queued \in Seq(Completion),
           \A i \in 1 .. Len(queued) : \E j \in 1 .. Len(done) : queued[i] = done[j],
           ClearSession(s, queued)
    PROVE  /\ KernelAgrees'
           /\ MovedBehind(queued)
           /\ socket' \in [Session -> Socket \cup {None}]
           /\ handle' \in [Socket -> {"closed", "waiting", "connected", "ended"}]
           /\ keyOf' \in [Socket -> Session \cup {None}]
<1> USE DEF LifecycleIInv
<1> DEFINE h == socket[s]
<1>1. /\ socket \in [Session -> Socket \cup {None}]
      /\ posted \subseteq Operation
      /\ handle \in [Socket -> {"closed", "waiting", "connected", "ended"}]
  BY DEF TypeOK
<1>2. /\ h \in Socket \cup {None}
      /\ CloseSocket(h, queued)
      /\ socket' = [socket EXCEPT ![s] = None]
  BY <1>1 DEF ClearSession
<1> HIDE DEF h
<1>3. /\ MovedBehind(queued)
      /\ posted' = {op \in posted : op.on # h}
      /\ handle' \in [Socket -> {"closed", "waiting", "connected", "ended"}]
      /\ keyOf' \in [Socket -> Session \cup {None}]
      /\ \A k \in Socket : handle'[k] = IF k = h THEN "closed" ELSE handle[k]
      /\ \A k \in Socket : k # h => keyOf'[k] = keyOf[k]
  BY <1>2, CloseMoves
<1>4. socket' \in [Session -> Socket \cup {None}]
  BY <1>1, <1>2
<1>5. PostedAreOwn'
  <2>1. ASSUME NEW op \in posted'
        PROVE  handle'[op.on] # "closed" /\ keyOf'[op.on] = op.by
    <3>1. op \in posted /\ op.on # h /\ op.on \in Socket
      BY <1>1, <1>3 DEF Operation
    <3>2. handle[op.on] # "closed" /\ keyOf[op.on] = op.by
      BY <3>1 DEF PostedAreOwn
    <3> QED  BY <1>3, <3>1, <3>2
  <2> QED  BY <2>1 DEF PostedAreOwn
<1>6. DoneAreOwn'
  <2>1. \A i \in 1 .. Len(queued) : queued[i].by = queued[i].key
    BY DEF DoneAreOwn
  <2> QED  BY <1>3, <2>1 DEF MovedBehind, DoneAreOwn
<1>7. ASSUME NEW t \in Session, socket'[t] # None
      PROVE  t # s /\ socket'[t] = socket[t] /\ socket[t] \in Socket /\ socket[t] # h
  <2>1. t # s /\ socket'[t] = socket[t]
    BY <1>1, <1>2, <1>7
  <2>2. socket[t] \in Socket
    BY <1>1, <1>7, <2>1
  <2> QED  BY <1>7, <2>1, <2>2 DEF SocketsNotShared, h
<1>8. NamesAreOwn'
  <2>1. ASSUME NEW t \in Session, socket'[t] # None
        PROVE  IF handle'[socket'[t]] = "closed" THEN Timeouts \/ Logouts
                                                 ELSE keyOf'[socket'[t]] = t
    <3>1. socket'[t] = socket[t] /\ socket[t] \in Socket /\ socket[t] # h
      BY <1>7, <2>1
    <3>2. handle'[socket[t]] = handle[socket[t]] /\ keyOf'[socket[t]] = keyOf[socket[t]]
      BY <1>3, <3>1
    <3>3. IF handle[socket[t]] = "closed" THEN Timeouts \/ Logouts
                                          ELSE keyOf[socket[t]] = t
      BY <2>1, <3>1 DEF NamesAreOwn
    <3> QED  BY <3>1, <3>2, <3>3
  <2> QED  BY <2>1 DEF NamesAreOwn
<1>9. SocketsNotShared'
  <2>1. ASSUME NEW a \in Session, NEW b \in Session, a # b, socket'[a] # None
        PROVE  socket'[a] # socket'[b]
    <3>1. CASE socket'[b] = None
      BY <2>1, <3>1
    <3>2. CASE socket'[b] # None
      <4>1. socket'[a] = socket[a] /\ socket'[b] = socket[b]
        BY <1>7, <2>1, <3>2
      <4> QED  BY <2>1, <4>1 DEF SocketsNotShared
    <3> QED  BY <3>1, <3>2
  <2> QED  BY <2>1 DEF SocketsNotShared
<1>10. PostedAtHome'
  <2>1. ASSUME sends = 0
        PROVE  /\ \A op \in posted' : op.kind # "send" /\ socket'[op.by] = op.on
               /\ \A i \in 1 .. Len(done') : done'[i].kind # "send"
    <3>1. /\ \A op \in posted : op.kind # "send" /\ socket[op.by] = op.on
          /\ \A i \in 1 .. Len(done) : done[i].kind # "send"
      BY <2>1 DEF PostedAtHome
    <3>2. \A i \in 1 .. Len(done') : done'[i].kind # "send"
      BY <1>3, <3>1 DEF MovedBehind
    <3>3. ASSUME NEW op \in posted'
          PROVE  op.kind # "send" /\ socket'[op.by] = op.on
      <4>1. op \in posted /\ op.on # h /\ op.by \in Session
        BY <1>1, <1>3 DEF Operation
      <4>2. socket[op.by] = op.on /\ op.by # s
        BY <3>1, <4>1 DEF h
      <4> QED  BY <1>1, <1>2, <3>1, <4>1, <4>2
    <3> QED  BY <3>2, <3>3
  <2> QED  BY <2>1 DEF PostedAtHome
<1> QED  BY <1>3, <1>4, <1>5, <1>6, <1>8, <1>9, <1>10 DEF KernelAgrees

-----------------------------------------------------------------------------
LEMMA StartsWell == Init => LifecycleIInv
<1> SUFFICES ASSUME Init
             PROVE  LifecycleIInv
  OBVIOUS
<1> DEFINE Early == 1 .. PreAccepts
           f == [s \in Early |-> [kind |-> "accept", by |-> s, on |-> s]]
<1>1. /\ NumSessions \in Nat /\ NumSockets \in Nat /\ PreAccepts \in Nat
      /\ NumLogicThreads \in Nat /\ MaxSends \in Nat
      /\ PreAccepts <= NumSessions /\ PreAccepts <= NumSockets
  BY LifecycleAssumption
<1>2. /\ Early \subseteq Session /\ Early \subseteq Socket
      /\ None \notin Session /\ None \notin Socket
  BY <1>1 DEF Session, Socket, None
<1>3. /\ free = [i \in 1 .. NumSessions - PreAccepts |-> PreAccepts + i]
      /\ free \in Seq(Session)
      /\ Len(free) = NumSessions - PreAccepts
  <2>1. PICK n \in Nat : n = NumSessions - PreAccepts
    BY <1>1
  <2>2. free = [i \in 1 .. n |-> PreAccepts + i]
    BY <2>1 DEF Init
  <2>3. \A i \in 1 .. n : PreAccepts + i \in Session
    BY <1>1, <2>1 DEF Session
  <2>4. free \in Seq(Session) /\ Len(free) = n
    BY <2>2, <2>3
  <2> QED  BY <2>1, <2>2, <2>4
<1>4. /\ posted = {[kind |-> "accept", by |-> s, on |-> s] : s \in Early}
      /\ posted \subseteq Operation
      /\ done = << >>
  BY <1>2 DEF Init, Operation
<1>5. TypeOK
  <2>0. /\ \A s \in Session : s <= PreAccepts => s \in Socket
        /\ \A h \in Socket : h <= PreAccepts => h \in Session
    BY <1>1 DEF Session, Socket
  <2>1. socket \in [Session -> Socket \cup {None}]
    BY <2>0 DEF Init
  <2>2. handle \in [Socket -> {"closed", "waiting", "connected", "ended"}]
    BY DEF Init
  <2>3. keyOf \in [Socket -> Session \cup {None}]
    BY <2>0 DEF Init
  <2>4. pc \in [Worker -> {"idle", "firstRecv", "recv", "replenish", "accept"}]
        /\ serving \in [Worker -> Session \cup {None}]
    BY DEF Init
  <2>5. closing \in [LogicThread -> Closing]
    BY DEF Init, Closing
  <2>6. sends \in 0 .. MaxSends
    BY <1>1 DEF Init
  <2>7. inGame = {} /\ silent = {} /\ late = {} /\ jobs = {} /\ dropped = {}
    BY DEF Init
  <2>8. done \in Seq(Completion)
    BY <1>4
  <2>9. free \in Seq(Session) /\ posted \subseteq Operation
    BY <1>3, <1>4
  <2> QED  BY <2>1, <2>2, <2>3, <2>4, <2>5, <2>6, <2>7, <2>8, <2>9 DEF TypeOK
<1>6. IsFiniteSet(posted)
  <2>1. IsFiniteSet(Early)
    BY <1>1, FS_Interval
  <2>2. f \in [Early -> posted]
    BY <1>4
  <2>3. \A x, y \in Early : f[x] = f[y] => x = y
    <3>1. \A x \in Early : f[x].by = x
      OBVIOUS
    <3> QED  BY <3>1
  <2>4. \A b \in posted : \E x \in Early : f[x] = b
    BY <1>4
  <2> HIDE DEF f
  <2> QED  BY <2>1, <2>2, <2>3, <2>4, SameCount
<1>7. OnlyWorkersClose /\ WorkersServe /\ DoneAreOwn
  BY <1>4 DEF Init, OnlyWorkersClose, WorkersServe, DoneAreOwn
<1>8. PostedAreOwn /\ PostedAtHome
  BY <1>2, <1>4 DEF Init, PostedAreOwn, PostedAtHome
<1>9. NamesAreOwn /\ SocketsNotShared
  <2>1. \A s \in Session : socket[s] # None => s \in Early /\ socket[s] = s
    BY <1>1 DEF Init, Session
  <2>2. \A s \in Early : handle[s] = "waiting" /\ keyOf[s] = s
    BY <1>1, <1>2 DEF Init
  <2> QED  BY <2>1, <2>2 DEF NamesAreOwn, SocketsNotShared
<1>10. ASSUME NEW s \in Session
       PROVE  Places(s) = 1
  <2>1. InHands(s) = {} /\ Returning(s) = {}
    BY <1>2, <1>4 DEF InHands, Returning, Init
  <2>4. Cardinality(InHands(s)) = 0 /\ Cardinality(Returning(s)) = 0
    BY <2>1, FS_EmptySet
  <2>2. CASE s <= PreAccepts
    <3>1. s \in Early
      BY <1>1, <2>2 DEF Session
    <3>2. InPool(s) = {}
      BY <1>1, <1>3, <2>2 DEF InPool, Session
    <3>3. Pending(s) = {[kind |-> "accept", by |-> s, on |-> s]}
      <4>1. [kind |-> "accept", by |-> s, on |-> s] \in Pending(s)
        BY <1>4, <3>1 DEF Pending
      <4>2. \A op \in Pending(s) : op = [kind |-> "accept", by |-> s, on |-> s]
        BY <1>4 DEF Pending
      <4> QED  BY <4>1, <4>2
    <3>4. Cardinality(Pending(s)) = 1 /\ Cardinality(InPool(s)) = 0
      BY <3>2, <3>3, FS_EmptySet, FS_Singleton
    <3> QED  BY <2>4, <3>4 DEF Places
  <2>3. CASE ~ (s <= PreAccepts)
    <3>1. InPool(s) = {s - PreAccepts}
      BY <1>1, <1>3, <2>3 DEF InPool, Session
    <3>2. Pending(s) = {}
      BY <1>1, <1>4, <2>3 DEF Pending, Session
    <3>3. Cardinality(Pending(s)) = 0 /\ Cardinality(InPool(s)) = 1
      BY <3>1, <3>2, FS_EmptySet, FS_Singleton
    <3> QED  BY <2>4, <3>3 DEF Places
  <2> QED  BY <2>2, <2>3
<1>11. OnePlace /\ NoSessionLost
  BY <1>10 DEF OnePlace, NoSessionLost, Init
<1> QED  BY <1>5, <1>6, <1>7, <1>8, <1>9, <1>11 DEF LifecycleIInv

-----------------------------------------------------------------------------
\* A step that moves no session and touches no handle.
LEMMA QuietStep ==
    ASSUME LifecycleIInv,
           UNCHANGED <<free, socket, kernel, work, sends, dropped>>,
           inGame' \subseteq Session, silent' \subseteq Session,
           late' \subseteq Session, jobs' \subseteq Session,
           closing' \in [LogicThread -> Closing],
           OnlyWorkersClose'
    PROVE  LifecycleIInv'
<1> USE DEF LifecycleIInv, kernel, work
<1>1. TypeOK'
  BY DEF TypeOK
<1>2. WorkersServe' /\ PostedAreOwn' /\ DoneAreOwn' /\ NamesAreOwn'
      /\ SocketsNotShared' /\ PostedAtHome'
  BY DEF WorkersServe, PostedAreOwn, DoneAreOwn, NamesAreOwn, SocketsNotShared,
         PostedAtHome
<1>3. \A s \in Session : Places(s)' = Places(s)
  BY DEF Places, InPool, Pending, Returning, InHands
<1>4. NoSessionLost' /\ OnePlace'
  BY <1>3, StillPlaced
<1> QED  BY <1>1, <1>2, <1>4

LEMMA LogicSteps ==
    ASSUME LifecycleIInv, NEW t \in LogicThread,
           \/ \E s \in Session : TimePasses(s)
           \/ StartCheck(t) \/ FindSilent(t) \/ EndCheck(t)
           \/ ReadSilentSocket(t) \/ LogIn(t) \/ Logout(t)
    PROVE  LifecycleIInv'
<1> USE DEF LifecycleIInv, kernel, work, players, logic
<1>1. /\ inGame \subseteq Session /\ silent \subseteq Session
      /\ late \subseteq Session /\ jobs \subseteq Session
      /\ closing \in [LogicThread -> Closing]
      /\ socket \in [Session -> Socket \cup {None}]
  BY DEF TypeOK
<1>2. ASSUME NEW s \in Session
      PROVE  /\ [at |-> "kick", session |-> s, sock |-> None] \in Closing
             /\ \A h \in Socket :
                  /\ [at |-> "kickClose", session |-> s, sock |-> h] \in Closing
                  /\ [at |-> "close", session |-> s, sock |-> h] \in Closing
  BY DEF Closing
<1>3. Resting \in Closing /\ Checking \in Closing
  BY DEF Closing
<1>4. ASSUME NEW s \in Session, Tick(s)
      PROVE  silent' \subseteq Session /\ late' \subseteq Session
  BY <1>1, <1>4 DEF Tick
<1>5. closing[t].at # "idle" => closing[t] # Resting
  BY DEF Resting
<1>6. ASSUME NEW s \in Session, TimePasses(s)
      PROVE  LifecycleIInv'
  <2>1. /\ UNCHANGED <<free, socket, kernel, work, sends, dropped>>
        /\ silent' \subseteq Session
        /\ UNCHANGED <<inGame, late, jobs, closing>>
    BY <1>1, <1>6 DEF TimePasses
  <2>2. OnlyWorkersClose'
    BY <2>1 DEF OnlyWorkersClose
  <2> QED  BY <1>1, <2>1, <2>2, QuietStep
<1>7. CASE StartCheck(t)
  <2>1. /\ UNCHANGED <<free, socket, kernel, work, sends, dropped>>
        /\ UNCHANGED <<inGame, silent, jobs>> /\ late' \subseteq Session
        /\ closing' \in [LogicThread -> Closing]
    BY <1>1, <1>3, <1>7 DEF StartCheck
  <2>2. OnlyWorkersClose'
    BY <1>7 DEF StartCheck, OnlyWorkersClose
  <2> QED  BY <1>1, <2>1, <2>2, QuietStep
<1>8. CASE FindSilent(t)
  <2>1. PICK s \in TimedOut :
          closing' = [closing EXCEPT ![t] =
                        [at |-> "kick", session |-> s, sock |-> None]]
    BY <1>8 DEF FindSilent
  <2>2. s \in Session
    BY <1>1 DEF TimedOut
  <2>3. [at |-> "kick", session |-> s, sock |-> None] \in Closing
    BY <1>2, <2>2
  <2>4. /\ UNCHANGED <<free, socket, kernel, work, sends, dropped>>
        /\ UNCHANGED <<inGame, silent, late, jobs>>
        /\ closing' \in [LogicThread -> Closing]
    BY <1>1, <1>8, <2>1, <2>3 DEF FindSilent
  <2>5. OnlyWorkersClose'
    BY <1>5, <1>8 DEF FindSilent, OnlyWorkersClose
  <2> QED  BY <1>1, <2>4, <2>5, QuietStep
<1>9. CASE EndCheck(t)
  <2>1. /\ UNCHANGED <<free, socket, kernel, work, sends, dropped>>
        /\ UNCHANGED <<inGame, silent, late, jobs>>
        /\ closing' \in [LogicThread -> Closing]
    BY <1>1, <1>3, <1>9 DEF EndCheck
  <2>2. OnlyWorkersClose'
    BY <1>5, <1>9 DEF EndCheck, OnlyWorkersClose
  <2> QED  BY <1>1, <2>1, <2>2, QuietStep
<1>10. CASE ReadSilentSocket(t)
  <2> DEFINE s == closing[t].session
  <2>1. closing[t] \in Closing
    BY <1>1
  <2>2. s \in Session
    <3>1. closing[t].at = "kick"
      BY <1>10 DEF ReadSilentSocket
    <3>2. Resting.at # "kick" /\ Checking.at # "kick"
      BY DEF Resting, Checking
    <3> QED  BY <2>1, <3>1, <3>2 DEF Closing
  <2>3. /\ UNCHANGED <<free, socket, kernel, work, sends, dropped>>
        /\ UNCHANGED <<silent, late, jobs>>
    BY <1>10 DEF ReadSilentSocket
  <2>4. OnlyWorkersClose'
    BY <1>5, <1>10 DEF ReadSilentSocket, OnlyWorkersClose
  <2>5. inGame' \subseteq Session
    BY <1>1, <1>10 DEF ReadSilentSocket
  <2>6. CASE socket[s] = None
    <3>1. closing' = [closing EXCEPT ![t] = Checking]
      BY <1>10, <2>6 DEF ReadSilentSocket
    <3>2. closing' \in [LogicThread -> Closing]
      BY <1>1, <1>3, <3>1
    <3> QED  BY <1>1, <2>3, <2>4, <2>5, <3>2, QuietStep
  <2>7. CASE socket[s] # None
    <3>1. /\ closing[t].at = "kick"
          /\ closing' = [closing EXCEPT ![t] = [at |-> "kickClose",
                            session |-> s, sock |-> socket[s]]]
      BY <1>10, <2>7 DEF ReadSilentSocket
    <3>2. [at |-> "kickClose", session |-> s, sock |-> socket[s]] \in Closing
      BY <1>1, <1>2, <2>2, <2>7
    <3>3. closing' \in [LogicThread -> Closing]
      BY <1>1, <3>1, <3>2
    <3> QED  BY <1>1, <2>3, <2>4, <2>5, <3>3, QuietStep
  <2> QED  BY <2>6, <2>7
<1>11. CASE LogIn(t)
  <2>1. PICK s \in Session : /\ TakesJob(t, s)
                             /\ Tick(s)
                             /\ inGame' \in {inGame, inGame \cup {s}}
    BY <1>11 DEF LogIn
  <2>2. /\ UNCHANGED <<free, socket, kernel, work, sends, dropped>>
        /\ UNCHANGED closing
        /\ jobs' \subseteq jobs /\ jobs # {}
        /\ inGame' \subseteq Session
    BY <1>1, <1>11, <2>1 DEF LogIn, TakesJob
  <2>3. OnlyWorkersClose'
    BY <2>2 DEF OnlyWorkersClose
  <2> QED  BY <1>1, <1>4, <2>1, <2>2, <2>3, QuietStep
<1>12. CASE Logout(t)
  <2>1. PICK s \in Session :
          /\ TakesJob(t, s)
          /\ IF socket[s] = None
             THEN UNCHANGED closing
             ELSE closing' = [closing EXCEPT ![t] =
                    [at |-> "close", session |-> s, sock |-> socket[s]]]
    BY <1>12 DEF Logout
  <2>2. socket[s] # None
          => [at |-> "close", session |-> s, sock |-> socket[s]] \in Closing
    BY <1>1, <1>2
  <2>3. /\ UNCHANGED <<free, socket, kernel, work, sends, dropped>>
        /\ UNCHANGED <<inGame, silent, late>>
        /\ jobs' \subseteq jobs /\ jobs # {}
    BY <1>12, <2>1 DEF Logout, TakesJob
  <2>4. closing' \in [LogicThread -> Closing]
    BY <1>1, <2>1, <2>2
  <2>5. OnlyWorkersClose'
    BY <2>3 DEF OnlyWorkersClose
  <2> QED  BY <1>1, <2>3, <2>4, <2>5, QuietStep
<1> QED  BY <1>6, <1>7, <1>8, <1>9, <1>10, <1>11, <1>12

-----------------------------------------------------------------------------
LEMMA CompleteStep ==
    ASSUME LifecycleIInv, NEW op \in posted, Complete(op)
    PROVE  LifecycleIInv'
<1> USE DEF LifecycleIInv
<1> DEFINE c == Completed(op, TRUE)
<1>1. /\ posted \subseteq Operation /\ done \in Seq(Completion)
      /\ handle \in [Socket -> {"closed", "waiting", "connected", "ended"}]
  BY DEF TypeOK
<1>2. /\ posted' = posted \ {op} /\ done' = Append(done, c)
      /\ handle' = IF op.kind = "accept"
                   THEN [handle EXCEPT ![op.on] = "connected"] ELSE handle
      /\ UNCHANGED <<free, socket, inGame, silent, late, keyOf, pc, serving,
                     sends, jobs, closing, dropped>>
  BY DEF Complete, players, work, logic
<1>3. /\ op.on \in Socket /\ op.by \in Session
      /\ op.kind \in {"accept", "recv", "send"}
      /\ handle[op.on] # "closed" /\ keyOf[op.on] = op.by
  BY <1>1 DEF Operation, PostedAreOwn
<1>4. /\ c \in Completion /\ c.by = op.by /\ c.key = op.by /\ c.kind = op.kind
  BY <1>3 DEF Completed, Completion
<1> HIDE DEF c
<1>5. /\ done' \in Seq(Completion)
      /\ \A i \in 1 .. Len(done') :
            done'[i] = c \/ \E j \in 1 .. Len(done) : done'[i] = done[j]
  BY <1>1, <1>2, <1>4, AppendOf
<1>6. /\ handle' \in [Socket -> {"closed", "waiting", "connected", "ended"}]
      /\ \A h \in Socket : handle'[h] = "closed" <=> handle[h] = "closed"
  BY <1>1, <1>2, <1>3
<1>7. TypeOK'
  BY <1>2, <1>5, <1>6 DEF TypeOK
<1>8. IsFiniteSet(posted')
  BY <1>2, ReadsTaken
<1>9. OnlyWorkersClose' /\ WorkersServe'
  BY <1>2 DEF OnlyWorkersClose, WorkersServe
<1>10. PostedAreOwn'
  BY <1>1, <1>2, <1>6 DEF PostedAreOwn, Operation
<1>11. DoneAreOwn'
  BY <1>4, <1>5 DEF DoneAreOwn
<1>12. NamesAreOwn' /\ SocketsNotShared'
  <2>1. \A s \in Session : socket[s] # None => socket[s] \in Socket
    BY DEF TypeOK
  <2> QED  BY <1>2, <1>6, <2>1 DEF NamesAreOwn, SocketsNotShared
<1>13. PostedAtHome'
  BY <1>2, <1>4, <1>5 DEF PostedAtHome
<1>14. ASSUME NEW s \in Session
       PROVE  Places(s)' = Places(s)
  <2>1. c \in ReadsOf(s) <=> op.by = s /\ op.kind # "send"
    BY <1>4 DEF ReadsOf
  <2>2. CountIn(done', ReadsOf(s))
          = IF c \in ReadsOf(s) THEN CountIn(done, ReadsOf(s)) + 1
                                ELSE CountIn(done, ReadsOf(s))
    BY <1>1, <1>2, <1>4, CountAppend
  <2>3. Cardinality(Reads(posted, s))
          = IF op.by = s /\ op.kind # "send"
            THEN Cardinality(Reads(posted', s)) + 1
            ELSE Cardinality(Reads(posted', s))
    BY <1>2, ReadsTaken
  <2>4. InHands(s)' = InHands(s) /\ free' = free
    BY <1>2 DEF InHands
  <2>5. /\ Places(s) = CountIn(free, {s}) + Cardinality(Reads(posted, s))
                       + CountIn(done, ReadsOf(s)) + Cardinality(InHands(s))
        /\ Places(s)' = CountIn(free, {s}) + Cardinality(Reads(posted', s))
                        + CountIn(done', ReadsOf(s)) + Cardinality(InHands(s))
        /\ CountIn(free, {s}) \in Nat /\ Cardinality(Reads(posted', s)) \in Nat
        /\ CountIn(done, ReadsOf(s)) \in Nat /\ Cardinality(InHands(s)) \in Nat
    BY <1>7, <1>8, <2>4, Counts, CountsAfter
  <2>6. CASE c \in ReadsOf(s)
    <3>1. /\ CountIn(done', ReadsOf(s)) = CountIn(done, ReadsOf(s)) + 1
          /\ Cardinality(Reads(posted, s)) = Cardinality(Reads(posted', s)) + 1
      BY <2>1, <2>2, <2>3, <2>6
    <3> QED  BY <2>5, <3>1
  <2>7. CASE c \notin ReadsOf(s)
    <3>1. /\ CountIn(done', ReadsOf(s)) = CountIn(done, ReadsOf(s))
          /\ Cardinality(Reads(posted, s)) = Cardinality(Reads(posted', s))
      BY <2>1, <2>2, <2>3, <2>7
    <3> QED  BY <2>5, <3>1
  <2> QED  BY <2>6, <2>7
<1>15. NoSessionLost' /\ OnePlace'
  BY <1>2, <1>14, StillPlaced
<1> QED  BY <1>7, <1>8, <1>9, <1>10, <1>11, <1>12, <1>13, <1>15

LEMMA ClientGoneStep ==
    ASSUME LifecycleIInv, NEW h \in Socket, ClientGone(h)
    PROVE  LifecycleIInv'
<1> USE DEF LifecycleIInv
<1>1. /\ posted \subseteq Operation /\ done \in Seq(Completion)
      /\ handle \in [Socket -> {"closed", "waiting", "connected", "ended"}]
      /\ \A s \in Session : socket[s] # None => socket[s] \in Socket
  BY DEF TypeOK
<1>2. /\ handle[h] = "connected" /\ EndHandle(h, "ended", done)
      /\ UNCHANGED <<free, socket, inGame, silent, late, pc, serving,
                     sends, jobs, closing, dropped>>
  BY DEF ClientGone, players, work, logic
<1>3. /\ posted' = {op \in posted : op.on # h} /\ MovedBehind(done)
  BY <1>1, <1>2, EndHandleMoves
<1>4. keyOf' = keyOf /\ handle' = [handle EXCEPT ![h] = "ended"]
  BY <1>2 DEF EndHandle
<1>5. /\ handle' \in [Socket -> {"closed", "waiting", "connected", "ended"}]
      /\ \A k \in Socket : handle'[k] = "closed" <=> handle[k] = "closed"
  BY <1>1, <1>2, <1>4
<1>6. /\ IsFiniteSet(posted') /\ done' \in Seq(Completion)
      /\ \A s \in Session :
            Cardinality(Reads(posted', s)) + CountIn(done', ReadsOf(s))
              = Cardinality(Reads(posted, s)) + CountIn(done, ReadsOf(s))
  BY <1>3 DEF MovedBehind
<1>7. TypeOK'
  BY <1>2, <1>3, <1>4, <1>5, <1>6 DEF TypeOK
<1>8. OnlyWorkersClose' /\ WorkersServe'
  BY <1>2 DEF OnlyWorkersClose, WorkersServe
<1>9. PostedAreOwn'
  BY <1>1, <1>3, <1>4, <1>5 DEF PostedAreOwn, Operation
<1>10. DoneAreOwn'
  BY <1>3 DEF MovedBehind, DoneAreOwn
<1>11. NamesAreOwn' /\ SocketsNotShared'
  BY <1>1, <1>2, <1>4, <1>5 DEF NamesAreOwn, SocketsNotShared
<1>12. PostedAtHome'
  BY <1>2, <1>3 DEF MovedBehind, PostedAtHome
<1>13. ASSUME NEW s \in Session
       PROVE  Places(s)' = Places(s)
  <2>1. InHands(s)' = InHands(s) /\ free' = free
    BY <1>2 DEF InHands
  <2>2. /\ Places(s) = CountIn(free, {s}) + Cardinality(Reads(posted, s))
                       + CountIn(done, ReadsOf(s)) + Cardinality(InHands(s))
        /\ Places(s)' = CountIn(free, {s}) + Cardinality(Reads(posted', s))
                        + CountIn(done', ReadsOf(s)) + Cardinality(InHands(s))
        /\ CountIn(free, {s}) \in Nat /\ Cardinality(InHands(s)) \in Nat
        /\ Cardinality(Reads(posted, s)) \in Nat
        /\ Cardinality(Reads(posted', s)) \in Nat
        /\ CountIn(done, ReadsOf(s)) \in Nat /\ CountIn(done', ReadsOf(s)) \in Nat
    BY <1>6, <1>7, <2>1, Counts, CountsAfter
  <2>3. Cardinality(Reads(posted', s)) + CountIn(done', ReadsOf(s))
          = Cardinality(Reads(posted, s)) + CountIn(done, ReadsOf(s))
    BY <1>6
  <2> QED  BY <2>2, <2>3
<1>14. NoSessionLost' /\ OnePlace'
  BY <1>2, <1>13, StillPlaced
<1> QED  BY <1>6, <1>7, <1>8, <1>9, <1>10, <1>11, <1>12, <1>14

LEMMA PostSendStep ==
    ASSUME LifecycleIInv, NEW s \in Session, PostSend(s)
    PROVE  LifecycleIInv'
<1> USE DEF LifecycleIInv
<1> DEFINE op == [kind |-> "send", by |-> s, on |-> socket[s]]
<1>1. /\ sends < MaxSends /\ sends' = sends + 1 /\ socket[s] # None
      /\ handle[socket[s]] = "connected"
      /\ posted' = posted \cup {op}
      /\ \A p \in posted : p.kind = "send" => p.by # s
      /\ UNCHANGED <<free, socket, inGame, silent, late, handle, keyOf, done,
                     pc, serving, jobs, closing, dropped>>
  BY DEF PostSend, players, work
<1>2. /\ socket[s] \in Socket /\ keyOf[socket[s]] = s
  BY <1>1 DEF TypeOK, NamesAreOwn
<1>3. op \in Operation /\ op \notin posted
  BY <1>1, <1>2 DEF Operation
<1>4. sends' \in 0 .. MaxSends /\ sends' # 0
  <2>1. MaxSends \in Nat /\ sends \in 0 .. MaxSends
    BY LifecycleAssumption DEF TypeOK
  <2> QED  BY <1>1, <2>1
<1>5. TypeOK'
  BY <1>1, <1>3, <1>4 DEF TypeOK
<1>6. /\ IsFiniteSet(posted')
      /\ \A t \in Session : Reads(posted', t) = Reads(posted, t)
  <2>1. IsFiniteSet(posted \cup {op})
    BY FS_AddElement
  <2>2. op.kind = "send"
    OBVIOUS
  <2> HIDE DEF op
  <2> QED  BY <1>1, <2>1, <2>2 DEF Reads
<1>7. OnlyWorkersClose' /\ WorkersServe' /\ DoneAreOwn' /\ NamesAreOwn'
      /\ SocketsNotShared'
  BY <1>1 DEF OnlyWorkersClose, WorkersServe, DoneAreOwn, NamesAreOwn, SocketsNotShared
<1>8. PostedAreOwn'
  BY <1>1, <1>2 DEF PostedAreOwn
<1>9. PostedAtHome' /\ OnePlace'
  BY <1>4 DEF PostedAtHome, OnePlace
<1>10. \A t \in Session : Places(t)' = Places(t)
  <2>1. ASSUME NEW t \in Session
        PROVE  Places(t)' = Places(t)
    <3>1. InHands(t)' = InHands(t) /\ InPool(t)' = InPool(t)
          /\ Returning(t)' = Returning(t)
      BY <1>1 DEF InHands, InPool, Returning
    <3>2. Pending(t)' = Pending(t)
      BY <1>6 DEF Pending, Reads
    <3> QED  BY <3>1, <3>2 DEF Places
  <2> QED  BY <2>1
<1>11. NoSessionLost'
  BY <1>1, <1>10 DEF NoSessionLost
<1> QED  BY <1>5, <1>6, <1>7, <1>8, <1>9, <1>11

-----------------------------------------------------------------------------
\* What a worker finds when it takes a completion.
LEMMA Taken ==
    ASSUME LifecycleIInv, NEW w \in Worker, NEW kind, NEW ok, Takes(w, kind, ok)
    PROVE  /\ done \in Seq(Completion) /\ done # << >>
           /\ Tail(done) \in Seq(Completion)
           /\ Head(done) \in Completion
           /\ Head(done).by \in Session /\ Head(done).key = Head(done).by
           /\ Head(done).kind = kind
           /\ \A i \in 1 .. Len(Tail(done)) :
                 \E j \in 1 .. Len(done) : Tail(done)[i] = done[j]
           /\ pc[w] = "idle" /\ serving[w] = None
           /\ sends = 0 => kind # "send"
           /\ \A s \in Session :
                 /\ CountIn(Tail(done), ReadsOf(s)) \in Nat
                 /\ (Head(done).by = s /\ kind # "send")
                      => CountIn(done, ReadsOf(s))
                           = CountIn(Tail(done), ReadsOf(s)) + 1
                 /\ ~ (Head(done).by = s /\ kind # "send")
                      => CountIn(done, ReadsOf(s)) = CountIn(Tail(done), ReadsOf(s))
<1> USE DEF LifecycleIInv
<1>1. done \in Seq(Completion) /\ done # << >>
      /\ pc[w] = "idle" /\ Head(done).kind = kind
  BY DEF Takes, TypeOK
<1>2. /\ Tail(done) \in Seq(Completion) /\ Head(done) \in Completion
      /\ \E j \in 1 .. Len(done) : Head(done) = done[j]
      /\ \A i \in 1 .. Len(Tail(done)) :
            \E j \in 1 .. Len(done) : Tail(done)[i] = done[j]
  BY <1>1, TailOf
<1>3. Head(done).by \in Session /\ Head(done).key = Head(done).by
  BY <1>2 DEF DoneAreOwn, Completion
<1>4. serving[w] = None
  BY <1>1 DEF WorkersServe
<1>5. sends = 0 => kind # "send"
  BY <1>1, <1>2 DEF PostedAtHome
<1>6. ASSUME NEW s \in Session
      PROVE  /\ CountIn(Tail(done), ReadsOf(s)) \in Nat
             /\ (Head(done).by = s /\ kind # "send")
                  => CountIn(done, ReadsOf(s)) = CountIn(Tail(done), ReadsOf(s)) + 1
             /\ ~ (Head(done).by = s /\ kind # "send")
                  => CountIn(done, ReadsOf(s)) = CountIn(Tail(done), ReadsOf(s))
  <2>1. Head(done) \in ReadsOf(s) <=> Head(done).by = s /\ kind # "send"
    BY <1>1, <1>2 DEF ReadsOf
  <2>2. /\ CountIn(Tail(done), ReadsOf(s)) \in Nat
        /\ CountIn(done, ReadsOf(s))
             = IF Head(done) \in ReadsOf(s) THEN CountIn(Tail(done), ReadsOf(s)) + 1
                                            ELSE CountIn(Tail(done), ReadsOf(s))
    BY <1>1, CountTail
  <2> QED  BY <2>1, <2>2
<1> QED  BY <1>1, <1>2, <1>3, <1>4, <1>5, <1>6

\* A completion is taken and leaves handles, names and the free list alone.
LEMMA TakenKernel ==
    ASSUME LifecycleIInv, NEW w \in Worker, NEW kind, NEW ok, Takes(w, kind, ok),
           done' = Tail(done),
           UNCHANGED <<free, socket, handle, keyOf, posted, sends, dropped, closing>>
    PROVE  KernelAgrees'
<1> USE DEF LifecycleIInv
<1>1. \A i \in 1 .. Len(done') : \E j \in 1 .. Len(done) : done'[i] = done[j]
  BY Taken
<1>2. DoneAreOwn' /\ PostedAtHome'
  BY <1>1 DEF DoneAreOwn, PostedAtHome
<1> QED  BY <1>2 DEF KernelAgrees, PostedAreOwn, NamesAreOwn, SocketsNotShared

LEMMA TakeAndServe ==
    ASSUME LifecycleIInv, NEW w \in Worker, NEW kind \in {"accept", "recv"},
           Takes(w, kind, TRUE), done' = Tail(done),
           NEW where \in {"firstRecv", "recv"},
           Serve(w, Head(done).by, where),
           UNCHANGED <<free, socket, handle, keyOf, posted, sends, dropped, closing>>,
           inGame' \subseteq Session, silent' \subseteq Session,
           late' \subseteq Session, jobs' \subseteq Session,
           OnlyWorkersClose'
    PROVE  LifecycleIInv'
<1> USE DEF LifecycleIInv
<1> DEFINE x == Head(done).by
<1>1. /\ Tail(done) \in Seq(Completion) /\ x \in Session
      /\ serving[w] = None
      /\ \A s \in Session :
            /\ CountIn(Tail(done), ReadsOf(s)) \in Nat
            /\ x = s
                 => CountIn(done, ReadsOf(s)) = CountIn(Tail(done), ReadsOf(s)) + 1
            /\ x # s => CountIn(done, ReadsOf(s)) = CountIn(Tail(done), ReadsOf(s))
  BY Taken
<1> HIDE DEF x
<1>2. None \notin Session
  BY NoneIsNothing
<1>3. /\ pc' \in [Worker -> {"idle", "firstRecv", "recv", "replenish", "accept"}]
      /\ serving' \in [Worker -> Session \cup {None}]
      /\ WorkersServe'
      /\ \A s \in Session :
            /\ Cardinality(InHands(s)) \in Nat
            /\ x = s => Cardinality(InHands(s)') = Cardinality(InHands(s)) + 1
            /\ x # s => Cardinality(InHands(s)') = Cardinality(InHands(s))
  <2>1. /\ x \in Session \cup {None}
        /\ where \in {"idle", "firstRecv", "recv", "replenish", "accept"}
        /\ x = None <=> where \in {"idle", "replenish"}
        /\ Serve(w, x, where)
    BY <1>1, <1>2 DEF x
  <2>2. /\ pc' \in [Worker -> {"idle", "firstRecv", "recv", "replenish",
                               "accept"}]
        /\ serving' \in [Worker -> Session \cup {None}]
        /\ WorkersServe'
        /\ \A s \in Session :
              /\ Cardinality(InHands(s)) \in Nat
              /\ (x = s /\ serving[w] # s)
                   => Cardinality(InHands(s)') = Cardinality(InHands(s)) + 1
              /\ (x = s <=> serving[w] = s)
                   => Cardinality(InHands(s)') = Cardinality(InHands(s))
    BY <2>1, ServeStep
  <2> QED  BY <1>1, <1>2, <2>2
<1>4. TypeOK'
  BY <1>1, <1>3 DEF TypeOK
<1>5. IsFiniteSet(posted')
  OBVIOUS
<1>6. ASSUME NEW s \in Session
      PROVE  Places(s)' = Places(s)
  <2>1. /\ Places(s) = CountIn(free, {s}) + Cardinality(Reads(posted, s))
                       + CountIn(done, ReadsOf(s)) + Cardinality(InHands(s))
        /\ Places(s)' = CountIn(free, {s}) + Cardinality(Reads(posted, s))
                        + CountIn(Tail(done), ReadsOf(s)) + Cardinality(InHands(s)')
        /\ CountIn(free, {s}) \in Nat /\ Cardinality(Reads(posted, s)) \in Nat
    BY <1>4, <1>5, Counts, CountsAfter
  <2>2. CASE x = s
    <3>1. /\ CountIn(done, ReadsOf(s)) = CountIn(Tail(done), ReadsOf(s)) + 1
          /\ CountIn(Tail(done), ReadsOf(s)) \in Nat
          /\ Cardinality(InHands(s)') = Cardinality(InHands(s)) + 1
          /\ Cardinality(InHands(s)) \in Nat
      BY <1>1, <1>3, <2>2
    <3> QED  BY <2>1, <3>1
  <2>3. CASE x # s
    <3>1. /\ CountIn(done, ReadsOf(s)) = CountIn(Tail(done), ReadsOf(s))
          /\ CountIn(Tail(done), ReadsOf(s)) \in Nat
          /\ Cardinality(InHands(s)') = Cardinality(InHands(s))
          /\ Cardinality(InHands(s)) \in Nat
      BY <1>1, <1>3, <2>3
    <3> QED  BY <2>1, <3>1
  <2> QED  BY <2>2, <2>3
<1>7. NoSessionLost' /\ OnePlace'
  BY <1>6, StillPlaced
<1>8. KernelAgrees'
  BY TakenKernel
<1> QED  BY <1>3, <1>4, <1>5, <1>7, <1>8 DEF KernelAgrees

LEMMA TakeSteps ==
    ASSUME LifecycleIInv, NEW w \in Worker,
           TakeAccepted(w) \/ TakeReceived(w) \/ TakeSent(w)
    PROVE  LifecycleIInv'
<1> USE DEF LifecycleIInv, players, work, logic
<1>1. /\ inGame \subseteq Session /\ silent \subseteq Session
      /\ late \subseteq Session /\ jobs \subseteq Session
  BY DEF TypeOK
<1>2. CASE TakeAccepted(w)
  <2>1. /\ Takes(w, "accept", TRUE) /\ done' = Tail(done)
        /\ Serve(w, Head(done).by, "firstRecv")
        /\ UNCHANGED <<free, socket, handle, keyOf, posted, sends, dropped, closing>>
        /\ jobs' = jobs
        /\ inGame' = inGame \cup {Head(done).by} /\ Tick(Head(done).by)
    BY <1>2 DEF TakeAccepted
  <2>2. Head(done).by \in Session
    BY <2>1, Taken
  <2>3. /\ inGame' \subseteq Session /\ silent' \subseteq Session
        /\ late' \subseteq Session
    BY <1>1, <2>1, <2>2 DEF Tick
  <2>4. OnlyWorkersClose'
    BY <2>1 DEF OnlyWorkersClose
  <2> QED  BY <1>1, <2>1, <2>3, <2>4, TakeAndServe
<1>3. CASE TakeReceived(w)
  <2>1. /\ Takes(w, "recv", TRUE) /\ done' = Tail(done)
        /\ Serve(w, Head(done).key, "recv")
        /\ UNCHANGED <<free, socket, handle, keyOf, posted, sends, dropped, closing>>
        /\ UNCHANGED <<inGame, silent, late>>
        /\ jobs' = jobs \/ (Logouts /\ jobs' = jobs \cup {Head(done).key})
    BY <1>3 DEF TakeReceived
  <2>2. Head(done).by \in Session /\ Head(done).key = Head(done).by
    BY <2>1, Taken
  <2>3. jobs' \subseteq Session
    BY <1>1, <2>1, <2>2
  <2>4. OnlyWorkersClose'
    BY <2>1 DEF OnlyWorkersClose
  <2>5. Serve(w, Head(done).by, "recv")
    BY <2>1, <2>2
  <2> QED  BY <1>1, <2>1, <2>3, <2>4, <2>5, TakeAndServe
<1>4. CASE TakeSent(w)
  <2>1. /\ done' = Tail(done)
        /\ UNCHANGED <<free, socket, inGame, silent, late, handle, keyOf, posted,
                       pc, serving, sends, jobs, closing, dropped>>
    BY <1>4 DEF TakeSent
  <2>2. Takes(w, "send", TRUE)
    <3>1. Takes(w, "recv", TRUE) => Ours
      <4>1. Takes(w, "recv", TRUE) => Head(done).key = Head(done).by
        BY Taken
      <4> QED  BY <4>1 DEF Ours
    <3> QED  BY <1>4, <3>1 DEF TakeSent
  <2>3. /\ Tail(done) \in Seq(Completion)
        /\ \A s \in Session :
              CountIn(done, ReadsOf(s)) = CountIn(Tail(done), ReadsOf(s))
    BY <2>2, Taken
  <2>4. TypeOK'
    BY <2>1, <2>3 DEF TypeOK
  <2>5. IsFiniteSet(posted')
    BY <2>1
  <2>6. ASSUME NEW s \in Session
        PROVE  Places(s)' = Places(s)
    <3>1. InHands(s)' = InHands(s)
      BY <2>1 DEF InHands
    <3>2. /\ Places(s) = CountIn(free, {s}) + Cardinality(Reads(posted, s))
                         + CountIn(done, ReadsOf(s)) + Cardinality(InHands(s))
          /\ Places(s)' = CountIn(free', {s}) + Cardinality(Reads(posted', s))
                          + CountIn(done', ReadsOf(s)) + Cardinality(InHands(s)')
      BY <2>4, <2>5, Counts, CountsAfter
    <3> QED  BY <2>1, <2>3, <3>1, <3>2
  <2>7. NoSessionLost' /\ OnePlace'
    BY <2>1, <2>6, StillPlaced
  <2>8. KernelAgrees'
    BY <2>1, <2>2, TakenKernel
  <2>9. OnlyWorkersClose' /\ WorkersServe'
    BY <2>1 DEF OnlyWorkersClose, WorkersServe
  <2> QED  BY <2>4, <2>5, <2>7, <2>8, <2>9 DEF KernelAgrees
<1> QED  BY <1>2, <1>3, <1>4

-----------------------------------------------------------------------------
\* A step that may put a session into a second place, but only when sends do,
\* or that keeps it in one of several.
LEMMA StaysSomewhere ==
    ASSUME NoSessionLost, OnePlace, sends' = sends, dropped' = dropped,
           \A s \in Session :
              \/ Places(s)' = Places(s)
              \/ sends # 0 /\ Places(s)' >= 1
    PROVE  NoSessionLost' /\ OnePlace'
  BY DEF NoSessionLost, OnePlace

\* A session in a worker's hands is nowhere else before the first WSASend.
LEMMA HeldByWorker ==
    ASSUME LifecycleIInv, NEW w \in Worker, serving[w] \in Session
    PROVE  /\ Cardinality(InHands(serving[w])) >= 1
           /\ sends = 0 => /\ Reads(posted, serving[w]) = {}
                           /\ Places(serving[w]) = 1
                           /\ serving[w] \notin dropped
<1> USE DEF LifecycleIInv
<1>1. PICK s \in Session : s = serving[w]
  OBVIOUS
<1>2. w \in InHands(s) /\ IsFiniteSet(InHands(s))
  BY <1>1, LifecycleAssumption, FS_Subset DEF InHands
<1>3. Cardinality(InHands(s)) \in Nat /\ Cardinality(InHands(s)) # 0
  BY <1>2, FS_CardinalityType, FS_EmptySet
<1>4. Cardinality(InHands(s)) >= 1
  BY <1>3
<1>5. /\ Places(s) = CountIn(free, {s}) + Cardinality(Reads(posted, s))
                     + CountIn(done, ReadsOf(s)) + Cardinality(InHands(s))
      /\ CountIn(free, {s}) \in Nat /\ Cardinality(Reads(posted, s)) \in Nat
      /\ CountIn(done, ReadsOf(s)) \in Nat
  BY Counts
<1>6. ASSUME sends = 0
      PROVE  Reads(posted, s) = {} /\ Places(s) = 1 /\ s \notin dropped
  <2>1. Places(s) = IF s \in dropped THEN 0 ELSE 1
    BY <1>6 DEF OnePlace
  <2>2. Places(s) >= 1
    BY <1>3, <1>4, <1>5
  <2>3. Places(s) = 1 /\ s \notin dropped
    BY <2>1, <2>2
  <2>4. Cardinality(Reads(posted, s)) = 0
    BY <1>3, <1>4, <1>5, <2>3
  <2>5. IsFiniteSet(Reads(posted, s))
    BY FS_Subset DEF Reads
  <2> QED  BY <2>3, <2>4, <2>5, FS_EmptySet
<1> QED  BY <1>1, <1>4, <1>6

\* A worker lets go of the session it serves, if any.
LEMMA LetGo ==
    ASSUME LifecycleIInv, NEW w \in Worker, NEW where \in {"idle", "replenish"},
           Serve(w, None, where)
    PROVE  /\ pc' \in [Worker -> {"idle", "firstRecv", "recv", "replenish",
                                  "accept"}]
           /\ serving' \in [Worker -> Session \cup {None}]
           /\ WorkersServe'
           /\ \A s \in Session :
                 /\ Cardinality(InHands(s)) \in Nat
                 /\ Cardinality(InHands(s)') \in Nat
                 /\ serving[w] = s
                      => Cardinality(InHands(s)') + 1 = Cardinality(InHands(s))
                 /\ serving[w] # s
                      => Cardinality(InHands(s)') = Cardinality(InHands(s))
<1> USE DEF LifecycleIInv
<1>1. /\ None \in Session \cup {None} /\ None \notin Session
      /\ where \in {"idle", "firstRecv", "recv", "replenish", "accept"}
      /\ None = None <=> where \in {"idle", "replenish"}
  BY NoneIsNothing
<1>2. PICK x \in Session \cup {None} : x = None
  OBVIOUS
<1>3. x = None <=> where \in {"idle", "replenish"}
  BY <1>2
<1>4. Serve(w, x, where)
  BY <1>2
<1>5. /\ pc' \in [Worker -> {"idle", "firstRecv", "recv", "replenish", "accept"}]
      /\ serving' \in [Worker -> Session \cup {None}]
      /\ WorkersServe'
      /\ \A s \in Session :
            /\ Cardinality(InHands(s)) \in Nat
            /\ Cardinality(InHands(s)') \in Nat
            /\ (x # s /\ serving[w] = s)
                 => Cardinality(InHands(s)') + 1 = Cardinality(InHands(s))
            /\ (x = s <=> serving[w] = s)
                 => Cardinality(InHands(s)') = Cardinality(InHands(s))
  BY <1>1, <1>3, <1>4, ServeStep
<1>6. \A s \in Session : x # s
  BY <1>1, <1>2
<1> QED  BY <1>5, <1>6

-----------------------------------------------------------------------------
\* A completion is taken, its session cleared and served on.
LEMMA TakeAndClear ==
    ASSUME LifecycleIInv, NEW w \in Worker, NEW kind, NEW ok, Takes(w, kind, ok),
           ClearSession(Head(done).by, Tail(done)),
           NEW where \in {"recv", "accept"},
           Serve(w, Head(done).by, where),
           UNCHANGED <<free, inGame, silent, late, sends, jobs, closing, dropped>>
    PROVE  LifecycleIInv'
<1> USE DEF LifecycleIInv
<1>1. PICK x \in Session, rest \in Seq(Completion) :
          x = Head(done).by /\ rest = Tail(done)
  BY Taken
<1>2. /\ serving[w] = None
      /\ \A i \in 1 .. Len(rest) : \E j \in 1 .. Len(done) : rest[i] = done[j]
      /\ \A s \in Session :
            /\ CountIn(rest, ReadsOf(s)) \in Nat
            /\ x # s => CountIn(done, ReadsOf(s)) = CountIn(rest, ReadsOf(s))
            /\ x = s => \/ CountIn(done, ReadsOf(s)) = CountIn(rest, ReadsOf(s)) + 1
                        \/ /\ sends # 0
                           /\ CountIn(done, ReadsOf(s)) = CountIn(rest, ReadsOf(s))
  BY <1>1, Taken
<1>3. /\ KernelAgrees' /\ MovedBehind(rest)
      /\ socket' \in [Session -> Socket \cup {None}]
      /\ handle' \in [Socket -> {"closed", "waiting", "connected", "ended"}]
      /\ keyOf' \in [Socket -> Session \cup {None}]
  <2>1. ClearSession(x, rest)
    BY <1>1
  <2> QED  BY <1>1, <1>2, <2>1, ClearMoves
<1>4. /\ pc' \in [Worker -> {"idle", "firstRecv", "recv", "replenish", "accept"}]
      /\ serving' \in [Worker -> Session \cup {None}]
      /\ WorkersServe'
      /\ \A s \in Session :
            /\ Cardinality(InHands(s)) \in Nat
            /\ x = s => Cardinality(InHands(s)') = Cardinality(InHands(s)) + 1
            /\ x # s => Cardinality(InHands(s)') = Cardinality(InHands(s))
  <2>1. /\ x \in Session \cup {None} /\ None \notin Session
        /\ where \in {"idle", "firstRecv", "recv", "replenish", "accept"}
        /\ Serve(w, x, where)
    BY <1>1, NoneIsNothing
  <2>2. x = None <=> where \in {"idle", "replenish"}
    BY <1>1, NoneIsNothing
  <2>3. /\ pc' \in [Worker -> {"idle", "firstRecv", "recv", "replenish",
                               "accept"}]
        /\ serving' \in [Worker -> Session \cup {None}]
        /\ WorkersServe'
        /\ \A s \in Session :
              /\ Cardinality(InHands(s)) \in Nat
              /\ (x = s /\ serving[w] # s)
                   => Cardinality(InHands(s)') = Cardinality(InHands(s)) + 1
              /\ (x = s <=> serving[w] = s)
                   => Cardinality(InHands(s)') = Cardinality(InHands(s))
    BY <2>1, <2>2, ServeStep
  <2> QED  BY <1>2, <2>1, <2>3
<1>5. /\ posted' \subseteq posted /\ IsFiniteSet(posted')
      /\ done' \in Seq(Completion)
      /\ \A s \in Session :
            Cardinality(Reads(posted', s)) + CountIn(done', ReadsOf(s))
              = Cardinality(Reads(posted, s)) + CountIn(rest, ReadsOf(s))
  BY <1>3 DEF MovedBehind
<1>6. TypeOK'
  BY <1>3, <1>4, <1>5 DEF TypeOK
<1>7. ASSUME NEW s \in Session
      PROVE  \/ Places(s)' = Places(s)
             \/ sends # 0 /\ Places(s)' >= 1
  <2>1. /\ Places(s) = CountIn(free, {s}) + Cardinality(Reads(posted, s))
                       + CountIn(done, ReadsOf(s)) + Cardinality(InHands(s))
        /\ Places(s)' = CountIn(free, {s}) + Cardinality(Reads(posted', s))
                        + CountIn(done', ReadsOf(s)) + Cardinality(InHands(s)')
        /\ CountIn(free, {s}) \in Nat
        /\ Cardinality(Reads(posted, s)) \in Nat
        /\ Cardinality(Reads(posted', s)) \in Nat
        /\ CountIn(done', ReadsOf(s)) \in Nat
    BY <1>5, <1>6, Counts, CountsAfter
  <2>2. /\ Cardinality(Reads(posted', s)) + CountIn(done', ReadsOf(s))
             = Cardinality(Reads(posted, s)) + CountIn(rest, ReadsOf(s))
        /\ CountIn(rest, ReadsOf(s)) \in Nat
        /\ Cardinality(InHands(s)) \in Nat
    BY <1>2, <1>4, <1>5
  <2>3. CASE x # s
    <3>1. /\ CountIn(done, ReadsOf(s)) = CountIn(rest, ReadsOf(s))
          /\ Cardinality(InHands(s)') = Cardinality(InHands(s))
      BY <1>2, <1>4, <2>3
    <3>2. Places(s) = CountIn(free, {s}) + (Cardinality(Reads(posted, s))
                        + CountIn(rest, ReadsOf(s))) + Cardinality(InHands(s))
      BY <2>1, <2>2, <3>1
    <3>3. Places(s)' = CountIn(free, {s}) + (Cardinality(Reads(posted', s))
                        + CountIn(done', ReadsOf(s))) + Cardinality(InHands(s))
      BY <2>1, <2>2, <3>1
    <3> QED  BY <2>2, <3>2, <3>3
  <2>4. CASE x = s
    <3>1. Cardinality(InHands(s)') = Cardinality(InHands(s)) + 1
      BY <1>4, <2>4
    <3>2. CASE CountIn(done, ReadsOf(s)) = CountIn(rest, ReadsOf(s)) + 1
      <4>1. Places(s) = CountIn(free, {s}) + (Cardinality(Reads(posted, s))
                          + CountIn(rest, ReadsOf(s))) + Cardinality(InHands(s)) + 1
        BY <2>1, <2>2, <3>2
      <4>2. Places(s)' = CountIn(free, {s}) + (Cardinality(Reads(posted', s))
                          + CountIn(done', ReadsOf(s))) + Cardinality(InHands(s)) + 1
        BY <2>1, <2>2, <3>1
      <4> QED  BY <2>2, <4>1, <4>2
    <3>3. CASE /\ sends # 0
               /\ CountIn(done, ReadsOf(s)) = CountIn(rest, ReadsOf(s))
      BY <2>1, <2>2, <3>1, <3>3
    <3> QED  BY <1>2, <2>4, <3>2, <3>3
  <2> QED  BY <2>3, <2>4
<1>8. NoSessionLost' /\ OnePlace'
  BY <1>7, StaysSomewhere
<1>9. OnlyWorkersClose'
  BY DEF OnlyWorkersClose
<1> QED  BY <1>3, <1>4, <1>5, <1>6, <1>8, <1>9 DEF KernelAgrees

LEMMA ClearingSteps ==
    ASSUME LifecycleIInv, NEW w \in Worker, TakeMalformed(w) \/ TakeFailed(w)
    PROVE  LifecycleIInv'
<1> USE DEF players, logic
<1>1. CASE TakeMalformed(w)
  <2>1. /\ Takes(w, "recv", TRUE)
        /\ ClearSession(Head(done).key, Tail(done))
        /\ Serve(w, Head(done).key, "recv")
        /\ UNCHANGED <<free, inGame, silent, late, sends, jobs, closing, dropped>>
    BY <1>1 DEF TakeMalformed
  <2>2. Head(done).key = Head(done).by
    BY <2>1, Taken
  <2> QED  BY <2>1, <2>2, TakeAndClear
<1>2. CASE TakeFailed(w)
  <2>1. PICK kind \in {"accept", "recv", "send"} :
          LET s == IF kind = "accept" THEN Head(done).by ELSE Head(done).key
          IN  /\ Takes(w, kind, FALSE)
              /\ ClearSession(s, Tail(done))
              /\ Serve(w, s, "accept")
              /\ UNCHANGED <<free, inGame, silent, late, sends, jobs, closing,
                             dropped>>
    BY <1>2 DEF TakeFailed
  <2>2. Head(done).key = Head(done).by
    BY <2>1, Taken
  <2>3. /\ Takes(w, kind, FALSE)
        /\ ClearSession(Head(done).by, Tail(done))
        /\ Serve(w, Head(done).by, "accept")
        /\ UNCHANGED <<free, inGame, silent, late, sends, jobs, closing, dropped>>
    BY <2>1, <2>2
  <2> QED  BY <2>3, TakeAndClear
<1> QED  BY <1>1, <1>2

-----------------------------------------------------------------------------
LEMMA AfterRecvLetsGo ==
    ASSUME NEW w, AfterRecv(w)
    PROVE  \E where \in {"idle", "replenish"} : Serve(w, None, where)
  BY DEF AfterRecv, Rest

\* Posting the next receive, which may complete at once.
LEMMA RegisterRecvStep ==
    ASSUME LifecycleIInv, NEW w \in Worker, RegisterRecv(w)
    PROVE  LifecycleIInv'
<1> USE DEF LifecycleIInv
<1>1. /\ socket \in [Session -> Socket \cup {None}]
      /\ posted \subseteq Operation /\ done \in Seq(Completion)
      /\ serving \in [Worker -> Session \cup {None}]
      /\ handle \in [Socket -> {"closed", "waiting", "connected", "ended"}]
  BY DEF TypeOK
<1>2. PICK s \in Session : s = serving[w]
  <2>1. serving[w] # None
    BY DEF RegisterRecv, WorkersServe
  <2> QED  BY <1>1, <2>1
<1>3. PICK op : op = [kind |-> "recv", by |-> s, on |-> socket[s]]
  OBVIOUS
<1>4. /\ socket[s] # None
      /\ \/ /\ handle[socket[s]] = "connected"
            /\ posted' = posted \cup {op}
            /\ UNCHANGED done
         \/ /\ handle[socket[s]] = "ended"
            /\ done' = Append(done, Completed(op, FALSE))
            /\ UNCHANGED posted
      /\ AfterRecv(w)
      /\ UNCHANGED <<free, socket, inGame, silent, late, handle, keyOf, sends,
                     jobs, closing, dropped>>
  BY <1>2, <1>3 DEF RegisterRecv, players, logic
<1>5. /\ op \in Operation /\ op.kind = "recv" /\ op.by = s /\ op.on = socket[s]
      /\ socket[s] \in Socket /\ handle[socket[s]] # "closed"
      /\ keyOf[socket[s]] = s
  <2>1. socket[s] \in Socket /\ handle[socket[s]] # "closed"
    BY <1>1, <1>4
  <2> QED  BY <1>3, <1>4, <2>1 DEF Operation, NamesAreOwn
<1>6. PICK where \in {"idle", "replenish"} : Serve(w, None, where)
  BY <1>4, AfterRecvLetsGo
<1>7. /\ pc' \in [Worker -> {"idle", "firstRecv", "recv", "replenish", "accept"}]
      /\ serving' \in [Worker -> Session \cup {None}]
      /\ WorkersServe'
      /\ \A t \in Session :
            /\ Cardinality(InHands(t)) \in Nat
            /\ Cardinality(InHands(t)') \in Nat
            /\ s = t => Cardinality(InHands(t)') + 1 = Cardinality(InHands(t))
            /\ s # t => Cardinality(InHands(t)') = Cardinality(InHands(t))
  BY <1>2, <1>6, LetGo
<1>8. OnlyWorkersClose'
  BY <1>4 DEF OnlyWorkersClose
<1>9. NamesAreOwn' /\ SocketsNotShared'
  BY <1>4 DEF NamesAreOwn, SocketsNotShared
<1>10. CASE /\ handle[socket[s]] = "connected"
            /\ posted' = posted \cup {op}
            /\ UNCHANGED done
  <2>1. TypeOK'
    BY <1>4, <1>5, <1>7, <1>10 DEF TypeOK
  <2>2. IsFiniteSet(posted')
    BY <1>10, FS_AddElement
  <2>3. PostedAreOwn' /\ DoneAreOwn' /\ PostedAtHome'
    BY <1>4, <1>5, <1>10 DEF PostedAreOwn, DoneAreOwn, PostedAtHome
  <2>4. ASSUME NEW t \in Session
        PROVE  \/ Places(t)' = Places(t)
               \/ sends # 0 /\ Places(t)' >= 1
    <3>1. /\ Places(t) = CountIn(free, {t}) + Cardinality(Reads(posted, t))
                         + CountIn(done, ReadsOf(t)) + Cardinality(InHands(t))
          /\ Places(t)' = CountIn(free, {t}) + Cardinality(Reads(posted', t))
                          + CountIn(done, ReadsOf(t)) + Cardinality(InHands(t)')
          /\ CountIn(free, {t}) \in Nat
          /\ Cardinality(Reads(posted, t)) \in Nat
          /\ Cardinality(Reads(posted', t)) \in Nat
          /\ CountIn(done, ReadsOf(t)) \in Nat
      BY <1>4, <1>10, <2>1, <2>2, Counts, CountsAfter
    <3>2. CASE s # t
      <4>1. Reads(posted', t) = Reads(posted, t)
        BY <1>5, <1>10, <3>2 DEF Reads
      <4>2. Cardinality(InHands(t)') = Cardinality(InHands(t))
        BY <1>7, <3>2
      <4> QED  BY <3>1, <4>1, <4>2
    <3>3. CASE s = t /\ op \notin posted
      <4>1. Cardinality(Reads(posted', t)) = Cardinality(Reads(posted, t)) + 1
        BY <1>5, <1>10, <3>3, ReadsPosted
      <4>2. /\ Cardinality(InHands(t)') + 1 = Cardinality(InHands(t))
            /\ Cardinality(InHands(t)') \in Nat
        BY <1>7, <3>3
      <4> QED  BY <3>1, <4>1, <4>2
    <3>4. CASE s = t /\ op \in posted
      <4>1. op \in Reads(posted, t)
        BY <1>5, <3>4 DEF Reads
      <4>2. sends # 0
        BY <1>2, <3>4, <4>1, HeldByWorker
      <4>3. posted' = posted
        BY <1>10, <3>4
      <4>4. IsFiniteSet(Reads(posted, t))
        BY FS_Subset DEF Reads
      <4>5. Cardinality(Reads(posted', t)) >= 1
        <5>1. Cardinality(Reads(posted, t)) # 0
          BY <4>1, <4>4, FS_EmptySet
        <5> QED  BY <3>1, <4>3, <5>1
      <4>6. Cardinality(InHands(t)') \in Nat
        BY <1>7
      <4> QED  BY <3>1, <4>2, <4>5, <4>6
    <3> QED  BY <3>2, <3>3, <3>4
  <2>5. NoSessionLost' /\ OnePlace'
    BY <1>4, <2>4, StaysSomewhere
  <2> QED  BY <1>7, <1>8, <1>9, <2>1, <2>2, <2>3, <2>5
<1>11. CASE /\ handle[socket[s]] = "ended"
            /\ done' = Append(done, Completed(op, FALSE))
            /\ UNCHANGED posted
  <2>1. PICK c \in Completion : /\ c = Completed(op, FALSE)
                                /\ c.by = s /\ c.key = s /\ c.kind = "recv"
    <3>1. PICK c : c = [kind |-> "recv", by |-> s, key |-> s, ok |-> FALSE]
      OBVIOUS
    <3>2. c = Completed(op, FALSE)
      BY <1>5, <3>1 DEF Completed
    <3>3. c \in Completion /\ c.by = s /\ c.key = s /\ c.kind = "recv"
      BY <3>1 DEF Completion
    <3> QED  BY <3>2, <3>3
  <2>8. done' = Append(done, c)
    BY <1>11, <2>1
  <2>2. /\ done' \in Seq(Completion)
        /\ \A i \in 1 .. Len(done') :
              done'[i] = c \/ \E j \in 1 .. Len(done) : done'[i] = done[j]
    BY <1>1, <2>8, AppendOf
  <2>3. TypeOK'
    BY <1>4, <1>7, <1>11, <2>2 DEF TypeOK
  <2>4. IsFiniteSet(posted')
    BY <1>11
  <2>5. PostedAreOwn' /\ DoneAreOwn' /\ PostedAtHome'
    BY <1>4, <1>11, <2>1, <2>2 DEF PostedAreOwn, DoneAreOwn, PostedAtHome
  <2>6. ASSUME NEW t \in Session
        PROVE  Places(t)' = Places(t)
    <3>1. /\ Places(t) = CountIn(free, {t}) + Cardinality(Reads(posted, t))
                         + CountIn(done, ReadsOf(t)) + Cardinality(InHands(t))
          /\ Places(t)' = CountIn(free, {t}) + Cardinality(Reads(posted, t))
                          + CountIn(done', ReadsOf(t)) + Cardinality(InHands(t)')
          /\ CountIn(free, {t}) \in Nat
          /\ Cardinality(Reads(posted, t)) \in Nat
          /\ CountIn(done, ReadsOf(t)) \in Nat
      BY <1>4, <1>11, <2>3, <2>4, Counts, CountsAfter
    <3>2. c \in ReadsOf(t) <=> s = t
      BY <2>1 DEF ReadsOf
    <3>3. CountIn(done', ReadsOf(t))
            = IF c \in ReadsOf(t) THEN CountIn(done, ReadsOf(t)) + 1
                                  ELSE CountIn(done, ReadsOf(t))
      BY <1>1, <2>8, CountAppend
    <3>4. CASE s = t
      <4>1. /\ CountIn(done', ReadsOf(t)) = CountIn(done, ReadsOf(t)) + 1
            /\ Cardinality(InHands(t)') + 1 = Cardinality(InHands(t))
            /\ Cardinality(InHands(t)') \in Nat
        BY <1>7, <3>2, <3>3, <3>4
      <4> QED  BY <3>1, <4>1
    <3>5. CASE s # t
      <4>1. /\ CountIn(done', ReadsOf(t)) = CountIn(done, ReadsOf(t))
            /\ Cardinality(InHands(t)') = Cardinality(InHands(t))
        BY <1>7, <3>2, <3>3, <3>5
      <4> QED  BY <3>1, <4>1
    <3> QED  BY <3>4, <3>5
  <2>7. NoSessionLost' /\ OnePlace'
    BY <1>4, <2>6, StillPlaced
  <2> QED  BY <1>7, <1>8, <1>9, <2>3, <2>4, <2>5, <2>7
<1> QED  BY <1>4, <1>10, <1>11

\* When it cannot be posted, the session is cleared and released.
LEMMA RegisterRecvFailsStep ==
    ASSUME LifecycleIInv, NEW w \in Worker, RegisterRecvFails(w)
    PROVE  LifecycleIInv'
<1> USE DEF LifecycleIInv
<1>1. free \in Seq(Session) /\ done \in Seq(Completion)
      /\ serving \in [Worker -> Session \cup {None}]
  BY DEF TypeOK
<1>2. PICK s \in Session : s = serving[w]
  <2>1. serving[w] # None
    BY DEF RegisterRecvFails, WorkersServe
  <2> QED  BY <1>1, <2>1
<1>3. /\ ClearSession(s, done) /\ free' = Append(free, s) /\ AfterRecv(w)
      /\ UNCHANGED <<inGame, silent, late, sends, jobs, closing, dropped>>
  BY <1>2 DEF RegisterRecvFails, players, logic
<1>4. PICK where \in {"idle", "replenish"} : Serve(w, None, where)
  BY <1>3, AfterRecvLetsGo
<1>5. /\ pc' \in [Worker -> {"idle", "firstRecv", "recv", "replenish", "accept"}]
      /\ serving' \in [Worker -> Session \cup {None}]
      /\ WorkersServe'
      /\ \A t \in Session :
            /\ Cardinality(InHands(t)) \in Nat
            /\ Cardinality(InHands(t)') \in Nat
            /\ s = t => Cardinality(InHands(t)') + 1 = Cardinality(InHands(t))
            /\ s # t => Cardinality(InHands(t)') = Cardinality(InHands(t))
  BY <1>2, <1>4, LetGo
<1>6. /\ KernelAgrees' /\ MovedBehind(done)
      /\ socket' \in [Session -> Socket \cup {None}]
      /\ handle' \in [Socket -> {"closed", "waiting", "connected", "ended"}]
      /\ keyOf' \in [Socket -> Session \cup {None}]
  BY <1>1, <1>3, ClearMoves
<1>7. /\ posted' \subseteq posted /\ IsFiniteSet(posted')
      /\ done' \in Seq(Completion)
      /\ \A t \in Session :
            Cardinality(Reads(posted', t)) + CountIn(done', ReadsOf(t))
              = Cardinality(Reads(posted, t)) + CountIn(done, ReadsOf(t))
  BY <1>6 DEF MovedBehind
<1>8. free' \in Seq(Session)
  BY <1>1, <1>3
<1>9. TypeOK'
  BY <1>3, <1>5, <1>6, <1>7, <1>8 DEF TypeOK
<1>10. ASSUME NEW t \in Session
       PROVE  Places(t)' = Places(t)
  <2>1. /\ Places(t) = CountIn(free, {t}) + Cardinality(Reads(posted, t))
                       + CountIn(done, ReadsOf(t)) + Cardinality(InHands(t))
        /\ Places(t)' = CountIn(free', {t}) + Cardinality(Reads(posted', t))
                        + CountIn(done', ReadsOf(t)) + Cardinality(InHands(t)')
        /\ CountIn(free, {t}) \in Nat
        /\ Cardinality(Reads(posted, t)) \in Nat
        /\ Cardinality(Reads(posted', t)) \in Nat
        /\ CountIn(done, ReadsOf(t)) \in Nat /\ CountIn(done', ReadsOf(t)) \in Nat
    BY <1>7, <1>9, Counts, CountsAfter
  <2>2. PICK n \in Nat, m \in Nat :
           /\ n = Cardinality(Reads(posted, t)) + CountIn(done, ReadsOf(t))
           /\ n = Cardinality(Reads(posted', t)) + CountIn(done', ReadsOf(t))
           /\ m = Cardinality(InHands(t)')
    <3>1. Cardinality(InHands(t)') \in Nat
      BY <1>5
    <3>2. Cardinality(Reads(posted', t)) + CountIn(done', ReadsOf(t))
            = Cardinality(Reads(posted, t)) + CountIn(done, ReadsOf(t))
      BY <1>7
    <3> QED  BY <2>1, <3>1, <3>2
  <2>3. CountIn(free', {t}) = IF s \in {t} THEN CountIn(free, {t}) + 1
                                          ELSE CountIn(free, {t})
    BY <1>1, <1>3, CountAppend
  <2>4. CASE s = t
    <3>1. /\ CountIn(free', {t}) = CountIn(free, {t}) + 1
          /\ Cardinality(InHands(t)) = m + 1
      BY <1>5, <2>2, <2>3, <2>4
    <3>2. /\ Places(t) = CountIn(free, {t}) + n + (m + 1)
          /\ Places(t)' = (CountIn(free, {t}) + 1) + n + m
      BY <1>5, <2>1, <2>2, <3>1
    <3> QED  BY <2>1, <2>2, <3>2
  <2>5. CASE s # t
    <3>1. /\ CountIn(free', {t}) = CountIn(free, {t})
          /\ Cardinality(InHands(t)) = m
      BY <1>5, <2>2, <2>3, <2>5
    <3>2. /\ Places(t) = CountIn(free, {t}) + n + m
          /\ Places(t)' = CountIn(free, {t}) + n + m
      BY <1>5, <2>1, <2>2, <3>1
    <3> QED  BY <3>2
  <2> QED  BY <2>4, <2>5
<1>11. NoSessionLost' /\ OnePlace'
  BY <1>3, <1>10, StillPlaced
<1>12. OnlyWorkersClose'
  BY <1>3 DEF OnlyWorkersClose
<1> QED  BY <1>5, <1>6, <1>7, <1>9, <1>11, <1>12 DEF KernelAgrees

-----------------------------------------------------------------------------
\* A worker that took a session from the free list, or found none.
LEMMA ReplenishStep ==
    ASSUME LifecycleIInv, NEW w \in Worker, Replenish(w)
    PROVE  LifecycleIInv'
<1> USE DEF LifecycleIInv
<1>1. /\ free \in Seq(Session)
      /\ pc[w] = "replenish" /\ serving[w] = None
      /\ UNCHANGED <<socket, inGame, silent, late, handle, keyOf, posted, done,
                     sends, jobs, closing, dropped>>
  BY DEF TypeOK, Replenish, players, kernel, logic, WorkersServe
<1>2. KernelAgrees'
  BY <1>1 DEF KernelAgrees, PostedAreOwn, DoneAreOwn, NamesAreOwn, SocketsNotShared,
              PostedAtHome
<1>3. OnlyWorkersClose' /\ IsFiniteSet(posted')
  BY <1>1 DEF OnlyWorkersClose
<1>4. CASE free = << >>
  <2>1. Serve(w, None, "idle") /\ free' = free
    BY <1>4 DEF Replenish, Rest
  <2>2. /\ pc' \in [Worker -> {"idle", "firstRecv", "recv", "replenish",
                               "accept"}]
        /\ serving' \in [Worker -> Session \cup {None}]
        /\ WorkersServe'
    BY <2>1, LetGo
  <2>3. TypeOK'
    BY <1>1, <2>1, <2>2 DEF TypeOK
  <2>4. serving' = serving
    BY <1>1, <2>1 DEF Serve, TypeOK
  <2>5. \A s \in Session : Places(s)' = Places(s)
    BY <1>1, <2>1, <2>4 DEF Places, InPool, Pending, Returning, InHands
  <2>6. NoSessionLost' /\ OnePlace'
    BY <1>1, <2>5, StillPlaced
  <2> QED  BY <1>2, <1>3, <2>2, <2>3, <2>6 DEF KernelAgrees
<1>5. CASE free # << >>
  <2>1. PICK x \in Session : x = Head(free)
    BY <1>1, <1>5
  <2>2. Serve(w, x, "accept") /\ free' = Tail(free)
    BY <1>5, <2>1 DEF Replenish
  <2>3. /\ pc' \in [Worker -> {"idle", "firstRecv", "recv", "replenish",
                               "accept"}]
        /\ serving' \in [Worker -> Session \cup {None}]
        /\ WorkersServe'
        /\ \A s \in Session :
              /\ Cardinality(InHands(s)) \in Nat
              /\ x = s => Cardinality(InHands(s)') = Cardinality(InHands(s)) + 1
              /\ x # s => Cardinality(InHands(s)') = Cardinality(InHands(s))
    <3>1. /\ x \in Session \cup {None} /\ x # None /\ None \notin Session
          /\ x = None <=> "accept" \in {"idle", "replenish"}
      BY <2>1, NoneIsNothing
    <3>2. /\ pc' \in [Worker -> {"idle", "firstRecv", "recv", "replenish",
                                 "accept"}]
          /\ serving' \in [Worker -> Session \cup {None}]
          /\ WorkersServe'
          /\ \A s \in Session :
                /\ Cardinality(InHands(s)) \in Nat
                /\ (x = s /\ serving[w] # s)
                     => Cardinality(InHands(s)') = Cardinality(InHands(s)) + 1
                /\ (x = s <=> serving[w] = s)
                     => Cardinality(InHands(s)') = Cardinality(InHands(s))
      BY <2>2, <3>1, ServeStep
    <3> QED  BY <1>1, <3>1, <3>2
  <2>4. Tail(free) \in Seq(Session)
    BY <1>1, <1>5
  <2>5. TypeOK'
    BY <1>1, <2>2, <2>3, <2>4 DEF TypeOK
  <2>6. ASSUME NEW s \in Session
        PROVE  Places(s)' = Places(s)
    <3>1. /\ Places(s) = CountIn(free, {s}) + Cardinality(Reads(posted, s))
                         + CountIn(done, ReadsOf(s)) + Cardinality(InHands(s))
          /\ Places(s)' = CountIn(Tail(free), {s}) + Cardinality(Reads(posted, s))
                          + CountIn(done, ReadsOf(s)) + Cardinality(InHands(s)')
          /\ Cardinality(Reads(posted, s)) \in Nat
          /\ CountIn(done, ReadsOf(s)) \in Nat
      BY <1>1, <1>3, <2>2, <2>5, Counts, CountsAfter
    <3>2. /\ CountIn(Tail(free), {s}) \in Nat
          /\ CountIn(free, {s})
               = IF Head(free) \in {s} THEN CountIn(Tail(free), {s}) + 1
                                       ELSE CountIn(Tail(free), {s})
      BY <1>1, <1>5, CountTail
    <3>3. CASE x = s
      <4>1. /\ CountIn(free, {s}) = CountIn(Tail(free), {s}) + 1
            /\ Cardinality(InHands(s)') = Cardinality(InHands(s)) + 1
            /\ Cardinality(InHands(s)) \in Nat
        BY <2>1, <2>3, <3>2, <3>3
      <4> QED  BY <3>1, <3>2, <4>1
    <3>4. CASE x # s
      <4>1. /\ CountIn(free, {s}) = CountIn(Tail(free), {s})
            /\ Cardinality(InHands(s)') = Cardinality(InHands(s))
        BY <2>1, <2>3, <3>2, <3>4
      <4> QED  BY <3>1, <4>1
    <3> QED  BY <3>3, <3>4
  <2>7. NoSessionLost' /\ OnePlace'
    BY <1>1, <2>6, StillPlaced
  <2> QED  BY <1>2, <1>3, <2>3, <2>5, <2>7 DEF KernelAgrees
<1> QED  BY <1>4, <1>5

\* Opening a socket for a session in a worker's hands.
LEMMA OpenSocketMoves ==
    ASSUME LifecycleIInv, HandlesStay, NEW w \in Worker, NEW s \in Session,
           s = serving[w], NEW h \in Socket, OpenSocket(s, h),
           \/ posted' = posted
           \/ posted' = posted \cup {[kind |-> "accept", by |-> s, on |-> h]},
           done' = done, sends' = sends
    PROVE  /\ KernelAgrees'
           /\ socket' \in [Session -> Socket \cup {None}]
           /\ handle' \in [Socket -> {"closed", "waiting", "connected", "ended"}]
           /\ keyOf' \in [Socket -> Session \cup {None}]
           /\ posted' \subseteq Operation
           /\ [kind |-> "accept", by |-> s, on |-> h] \notin posted
<1> USE DEF LifecycleIInv
<1>1. PICK op : op = [kind |-> "accept", by |-> s, on |-> h]
  OBVIOUS
<1>2. op \in Operation /\ op.by = s /\ op.on = h /\ op.kind = "accept"
  BY <1>1 DEF Operation
<1>3. posted' = posted \/ posted' = posted \cup {op}
  BY <1>1
<1>4. /\ socket \in [Session -> Socket \cup {None}]
      /\ handle \in [Socket -> {"closed", "waiting", "connected", "ended"}]
      /\ keyOf \in [Socket -> Session \cup {None}]
      /\ posted \subseteq Operation
  BY DEF TypeOK
<1>5. /\ handle[h] = "closed"
      /\ socket' = [socket EXCEPT ![s] = h]
      /\ keyOf' = [keyOf EXCEPT ![h] = s]
      /\ handle' = [handle EXCEPT ![h] = "waiting"]
      /\ Reuse \/ \A other \in Session : socket[other] # h
  BY DEF OpenSocket
<1>6. \A t \in Session : socket[t] # h
  <2>1. CASE ~ Reuse
    BY <1>5, <2>1
  <2>2. CASE Reuse
    <3>1. ~ Timeouts /\ ~ Logouts
      BY <2>2 DEF HandlesStay
    <3>2. ASSUME NEW t \in Session, socket[t] = h
          PROVE  FALSE
      <4>1. socket[t] # None
        BY <3>2, NoneIsNothing
      <4> QED  BY <1>5, <3>1, <3>2, <4>1 DEF NamesAreOwn
    <3> QED  BY <3>2
  <2> QED  BY <2>1, <2>2
<1>7. \A p \in posted : p.on # h /\ p.on \in Socket /\ p.by \in Session
  BY <1>4, <1>5 DEF PostedAreOwn, Operation
<1>8. /\ socket' \in [Session -> Socket \cup {None}]
      /\ handle' \in [Socket -> {"closed", "waiting", "connected", "ended"}]
      /\ keyOf' \in [Socket -> Session \cup {None}]
  BY <1>4, <1>5
<1>9. posted' \subseteq Operation
  BY <1>2, <1>3, <1>4
<1>10. PostedAreOwn'
  <2>1. ASSUME NEW p \in posted
        PROVE  handle'[p.on] # "closed" /\ keyOf'[p.on] = p.by
    BY <1>4, <1>5, <1>7 DEF PostedAreOwn
  <2>2. handle'[op.on] # "closed" /\ keyOf'[op.on] = op.by
    BY <1>2, <1>4, <1>5
  <2> QED  BY <1>3, <2>1, <2>2 DEF PostedAreOwn
<1>11. DoneAreOwn'
  BY DEF DoneAreOwn
<1>12. NamesAreOwn'
  <2>1. ASSUME NEW t \in Session, socket'[t] # None
        PROVE  IF handle'[socket'[t]] = "closed" THEN Timeouts \/ Logouts
                                                 ELSE keyOf'[socket'[t]] = t
    <3>1. CASE t = s
      <4>1. socket'[t] = h /\ handle'[h] = "waiting" /\ keyOf'[h] = t
        BY <1>4, <1>5, <3>1
      <4> QED  BY <4>1
    <3>2. CASE t # s
      <4>1. socket'[t] = socket[t] /\ socket[t] # None
        BY <1>4, <1>5, <2>1, <3>2
      <4>2. socket[t] \in Socket /\ socket[t] # h
        BY <1>4, <1>6, <4>1
      <4>3. handle'[socket[t]] = handle[socket[t]] /\ keyOf'[socket[t]] = keyOf[socket[t]]
        BY <1>4, <1>5, <4>2
      <4> QED  BY <4>1, <4>3 DEF NamesAreOwn
    <3> QED  BY <3>1, <3>2
  <2> QED  BY <2>1 DEF NamesAreOwn
<1>13. SocketsNotShared'
  <2>1. \A t \in Session : socket'[t] = IF t = s THEN h ELSE socket[t]
    BY <1>4, <1>5
  <2> QED  BY <1>6, <2>1 DEF SocketsNotShared
<1>14. PostedAtHome'
  <2>1. ASSUME sends = 0
        PROVE  /\ \A p \in posted' : p.kind # "send" /\ socket'[p.by] = p.on
               /\ \A i \in 1 .. Len(done) : done[i].kind # "send"
    <3>1. /\ \A p \in posted : p.kind # "send" /\ socket[p.by] = p.on
          /\ \A i \in 1 .. Len(done) : done[i].kind # "send"
      BY <2>1 DEF PostedAtHome
    <3>2. Reads(posted, s) = {}
      BY <2>1, HeldByWorker
    <3>3. \A p \in posted : p.by # s
      BY <3>1, <3>2 DEF Reads
    <3>4. ASSUME NEW p \in posted
          PROVE  p.kind # "send" /\ socket'[p.by] = p.on
      BY <1>4, <1>5, <1>7, <3>1, <3>3
    <3>5. op.kind # "send" /\ socket'[op.by] = op.on
      BY <1>2, <1>4, <1>5
    <3> QED  BY <1>3, <3>1, <3>4, <3>5
  <2> QED  BY <2>1 DEF PostedAtHome
<1>15. op \notin posted
  BY <1>2, <1>7
<1> QED  BY <1>1, <1>8, <1>9, <1>10, <1>11, <1>12, <1>13, <1>14, <1>15 DEF KernelAgrees

\* An AcceptEx is posted for the session the worker lets go of.
LEMMA RegisterAcceptStep ==
    ASSUME LifecycleIInv, HandlesStay, NEW w \in Worker, RegisterAccept(w)
    PROVE  LifecycleIInv'
<1> USE DEF LifecycleIInv
<1>1. PICK s \in Session : s = serving[w]
  BY DEF RegisterAccept, WorkersServe, TypeOK
<1>2. PICK h \in Socket :
         /\ OpenSocket(s, h)
         /\ posted' = posted \cup {[kind |-> "accept", by |-> s, on |-> h]}
  BY <1>1 DEF RegisterAccept
<1>3. PICK op : op = [kind |-> "accept", by |-> s, on |-> h]
  OBVIOUS
<1>4. op.by = s /\ op.kind = "accept" /\ posted' = posted \cup {op}
  BY <1>2, <1>3
<1>5. /\ Serve(w, None, "idle")
      /\ UNCHANGED <<free, inGame, silent, late, done, sends, jobs, closing,
                     dropped>>
  BY DEF RegisterAccept, Rest, players, logic
<1>6. /\ KernelAgrees'
      /\ socket' \in [Session -> Socket \cup {None}]
      /\ handle' \in [Socket -> {"closed", "waiting", "connected", "ended"}]
      /\ keyOf' \in [Socket -> Session \cup {None}]
      /\ posted' \subseteq Operation
      /\ op \notin posted
  BY <1>1, <1>2, <1>3, <1>5, OpenSocketMoves
<1>7. /\ pc' \in [Worker -> {"idle", "firstRecv", "recv", "replenish", "accept"}]
      /\ serving' \in [Worker -> Session \cup {None}]
      /\ WorkersServe'
      /\ \A t \in Session :
            /\ Cardinality(InHands(t)) \in Nat
            /\ Cardinality(InHands(t)') \in Nat
            /\ s = t => Cardinality(InHands(t)') + 1 = Cardinality(InHands(t))
            /\ s # t => Cardinality(InHands(t)') = Cardinality(InHands(t))
  BY <1>1, <1>5, LetGo
<1>8. TypeOK'
  BY <1>5, <1>6, <1>7 DEF TypeOK
<1>9. IsFiniteSet(posted')
  BY <1>4, <1>6, ReadsPosted
<1>10. ASSUME NEW t \in Session
       PROVE  Places(t)' = Places(t)
  <2>1. /\ Places(t) = CountIn(free, {t}) + Cardinality(Reads(posted, t))
                       + CountIn(done, ReadsOf(t)) + Cardinality(InHands(t))
        /\ Places(t)' = CountIn(free, {t}) + Cardinality(Reads(posted', t))
                        + CountIn(done, ReadsOf(t)) + Cardinality(InHands(t)')
        /\ CountIn(free, {t}) \in Nat
        /\ Cardinality(Reads(posted, t)) \in Nat
        /\ CountIn(done, ReadsOf(t)) \in Nat
    BY <1>5, <1>8, <1>9, Counts, CountsAfter
  <2>2. Cardinality(Reads(posted', t))
          = IF op.by = t /\ op.kind # "send"
            THEN Cardinality(Reads(posted, t)) + 1
            ELSE Cardinality(Reads(posted, t))
    BY <1>4, <1>6, ReadsPosted
  <2>3. CASE s = t
    <3>1. /\ Cardinality(Reads(posted', t)) = Cardinality(Reads(posted, t)) + 1
          /\ Cardinality(InHands(t)) = Cardinality(InHands(t)') + 1
          /\ Cardinality(InHands(t)') \in Nat
      BY <1>4, <1>7, <2>2, <2>3
    <3> QED  BY <2>1, <3>1
  <2>4. CASE s # t
    <3>1. /\ Cardinality(Reads(posted', t)) = Cardinality(Reads(posted, t))
          /\ Cardinality(InHands(t)) = Cardinality(InHands(t)')
      BY <1>4, <1>7, <2>2, <2>4
    <3> QED  BY <2>1, <3>1
  <2> QED  BY <2>3, <2>4
<1>11. NoSessionLost' /\ OnePlace'
  BY <1>5, <1>10, StillPlaced
<1>12. OnlyWorkersClose'
  BY <1>5 DEF OnlyWorkersClose
<1> QED  BY <1>6, <1>7, <1>8, <1>9, <1>11, <1>12 DEF KernelAgrees

\* No AcceptEx is posted, and the session is gone.
LEMMA RegisterAcceptFailsStep ==
    ASSUME LifecycleIInv, HandlesStay, NEW w \in Worker, RegisterAcceptFails(w)
    PROVE  LifecycleIInv'
<1> USE DEF LifecycleIInv
<1>1. PICK s \in Session : s = serving[w]
  BY DEF RegisterAcceptFails, WorkersServe, TypeOK
<1>2. /\ Serve(w, None, "idle")
      /\ dropped' = dropped \cup {s}
      /\ UNCHANGED <<free, inGame, silent, late, posted, done, sends, jobs,
                     closing>>
  BY <1>1 DEF RegisterAcceptFails, Rest, players
<1>3. \/ UNCHANGED <<socket, keyOf, handle>>
      \/ \E h \in Socket : OpenSocket(s, h)
  BY <1>1 DEF RegisterAcceptFails
<1>4. /\ KernelAgrees'
      /\ socket' \in [Session -> Socket \cup {None}]
      /\ handle' \in [Socket -> {"closed", "waiting", "connected", "ended"}]
      /\ keyOf' \in [Socket -> Session \cup {None}]
  <2>1. CASE UNCHANGED <<socket, keyOf, handle>>
    BY <1>2, <2>1 DEF KernelAgrees, PostedAreOwn, DoneAreOwn, NamesAreOwn,
                      SocketsNotShared, PostedAtHome, TypeOK
  <2>2. CASE \E h \in Socket : OpenSocket(s, h)
    BY <1>1, <1>2, <2>2, OpenSocketMoves
  <2> QED  BY <1>3, <2>1, <2>2
<1>5. /\ pc' \in [Worker -> {"idle", "firstRecv", "recv", "replenish", "accept"}]
      /\ serving' \in [Worker -> Session \cup {None}]
      /\ WorkersServe'
      /\ \A t \in Session :
            /\ Cardinality(InHands(t)) \in Nat
            /\ Cardinality(InHands(t)') \in Nat
            /\ s = t => Cardinality(InHands(t)') + 1 = Cardinality(InHands(t))
            /\ s # t => Cardinality(InHands(t)') = Cardinality(InHands(t))
  BY <1>1, <1>2, LetGo
<1>6. TypeOK'
  BY <1>2, <1>4, <1>5 DEF TypeOK
<1>7. IsFiniteSet(posted') /\ OnlyWorkersClose'
  BY <1>2 DEF OnlyWorkersClose
<1>8. ASSUME NEW t \in Session
      PROVE  /\ s # t => Places(t)' = Places(t)
             /\ s = t => Places(t)' + 1 = Places(t) /\ Places(t)' \in Nat
  <2>1. /\ Places(t) = CountIn(free, {t}) + Cardinality(Reads(posted, t))
                       + CountIn(done, ReadsOf(t)) + Cardinality(InHands(t))
        /\ Places(t)' = CountIn(free, {t}) + Cardinality(Reads(posted, t))
                        + CountIn(done, ReadsOf(t)) + Cardinality(InHands(t)')
        /\ CountIn(free, {t}) \in Nat
        /\ Cardinality(Reads(posted, t)) \in Nat
        /\ CountIn(done, ReadsOf(t)) \in Nat
    BY <1>2, <1>6, <1>7, Counts, CountsAfter
  <2>2. CASE s = t
    <3>1. /\ Cardinality(InHands(t)) = Cardinality(InHands(t)') + 1
          /\ Cardinality(InHands(t)') \in Nat
      BY <1>5, <2>2
    <3> QED  BY <2>1, <2>2, <3>1
  <2>3. CASE s # t
    <3>1. Cardinality(InHands(t)) = Cardinality(InHands(t)')
      BY <1>5, <2>3
    <3> QED  BY <2>1, <2>3, <3>1
  <2> QED  BY <2>2, <2>3
<1>9. NoSessionLost'
  BY <1>2, <1>8 DEF NoSessionLost
<1>10. OnePlace'
  <2>1. ASSUME sends = 0, NEW t \in Session
        PROVE  Places(t)' = IF t \in dropped' THEN 0 ELSE 1
    <3>1. CASE s = t
      <4>1. Places(t) = 1
        BY <1>1, <2>1, <3>1, HeldByWorker
      <4> QED  BY <1>2, <1>8, <3>1, <4>1
    <3>2. CASE s # t
      <4>1. t \in dropped' <=> t \in dropped
        BY <1>2, <3>2
      <4> QED  BY <1>8, <2>1, <3>2, <4>1 DEF OnePlace
    <3> QED  BY <3>1, <3>2
  <2> QED  BY <1>2, <2>1 DEF OnePlace
<1> QED  BY <1>4, <1>5, <1>6, <1>7, <1>9, <1>10 DEF KernelAgrees

-----------------------------------------------------------------------------
\* A logic thread closes the handle it read.
LEMMA CloseForeignStep ==
    ASSUME LifecycleIInv, NEW t \in LogicThread, CloseForeign(t)
    PROVE  LifecycleIInv'
<1> USE DEF LifecycleIInv
<1>1. /\ closing \in [LogicThread -> Closing]
      /\ done \in Seq(Completion) /\ posted \subseteq Operation
      /\ socket \in [Session -> Socket \cup {None}]
  BY DEF TypeOK
<1>2. PICK h : h = closing[t].sock
  OBVIOUS
<1>3. h \in Socket /\ closing[t] # Resting
  BY <1>1, <1>2, NoneIsNothing DEF CloseForeign, Closing, Resting, Checking
<1>4. Timeouts \/ Logouts
  BY <1>3 DEF OnlyWorkersClose
<1>5. /\ CloseSocket(h, done)
      /\ closing' = [closing EXCEPT ![t] =
                       IF closing[t].at = "close" THEN Resting ELSE Checking]
      /\ UNCHANGED <<free, socket, inGame, silent, late, pc, serving, sends,
                     jobs, dropped>>
  BY <1>2 DEF CloseForeign, AfterClose, players, work
<1>6. /\ MovedBehind(done)
      /\ posted' = {op \in posted : op.on # h}
      /\ handle' \in [Socket -> {"closed", "waiting", "connected", "ended"}]
      /\ keyOf' \in [Socket -> Session \cup {None}]
      /\ \A k \in Socket : handle'[k] = IF k = h THEN "closed" ELSE handle[k]
      /\ \A k \in Socket : k # h => keyOf'[k] = keyOf[k]
  BY <1>1, <1>3, <1>5, CloseMoves
<1>7. /\ IsFiniteSet(posted') /\ done' \in Seq(Completion)
      /\ \A s \in Session :
            Cardinality(Reads(posted', s)) + CountIn(done', ReadsOf(s))
              = Cardinality(Reads(posted, s)) + CountIn(done, ReadsOf(s))
  BY <1>6 DEF MovedBehind
<1>8. closing' \in [LogicThread -> Closing]
  BY <1>1, <1>5 DEF Closing
<1>9. TypeOK'
  BY <1>5, <1>6, <1>7, <1>8 DEF TypeOK
<1>10. OnlyWorkersClose' /\ WorkersServe'
  BY <1>4, <1>5 DEF OnlyWorkersClose, WorkersServe
<1>11. PostedAreOwn'
  BY <1>1, <1>6 DEF PostedAreOwn, Operation
<1>12. DoneAreOwn'
  BY <1>6 DEF MovedBehind, DoneAreOwn
<1>13. NamesAreOwn'
  BY <1>1, <1>4, <1>5, <1>6 DEF NamesAreOwn
<1>14. SocketsNotShared'
  BY <1>5 DEF SocketsNotShared
<1>15. PostedAtHome'
  BY <1>5, <1>6 DEF MovedBehind, PostedAtHome
<1>16. ASSUME NEW s \in Session
       PROVE  Places(s)' = Places(s)
  <2>1. InHands(s)' = InHands(s) /\ free' = free
    BY <1>5 DEF InHands
  <2>2. /\ Places(s) = CountIn(free, {s}) + Cardinality(Reads(posted, s))
                       + CountIn(done, ReadsOf(s)) + Cardinality(InHands(s))
        /\ Places(s)' = CountIn(free, {s}) + Cardinality(Reads(posted', s))
                        + CountIn(done', ReadsOf(s)) + Cardinality(InHands(s))
        /\ CountIn(free, {s}) \in Nat /\ Cardinality(InHands(s)) \in Nat
        /\ Cardinality(Reads(posted, s)) \in Nat
        /\ Cardinality(Reads(posted', s)) \in Nat
        /\ CountIn(done, ReadsOf(s)) \in Nat /\ CountIn(done', ReadsOf(s)) \in Nat
    BY <1>7, <1>9, <2>1, Counts, CountsAfter
  <2>3. Cardinality(Reads(posted', s)) + CountIn(done', ReadsOf(s))
          = Cardinality(Reads(posted, s)) + CountIn(done, ReadsOf(s))
    BY <1>7
  <2> QED  BY <2>2, <2>3
<1>17. NoSessionLost' /\ OnePlace'
  BY <1>5, <1>16, StillPlaced
<1> QED  BY <1>7, <1>9, <1>10, <1>11, <1>12, <1>13, <1>14, <1>15, <1>17

-----------------------------------------------------------------------------
LEMMA LifecycleInvariance ==
    ASSUME LifecycleIInv, HandlesStay, [Next]_vars
    PROVE  LifecycleIInv'
<1>1. CASE UNCHANGED vars
  <2>1. /\ UNCHANGED <<free, socket, kernel, work, sends, dropped>>
        /\ UNCHANGED <<inGame, silent, late, jobs, closing>>
    BY <1>1 DEF vars, kernel, work
  <2>2. /\ inGame' \subseteq Session /\ silent' \subseteq Session
        /\ late' \subseteq Session /\ jobs' \subseteq Session
        /\ closing' \in [LogicThread -> Closing]
    BY <2>1 DEF LifecycleIInv, TypeOK
  <2>3. OnlyWorkersClose'
    BY <2>1 DEF LifecycleIInv, OnlyWorkersClose
  <2> QED  BY <2>1, <2>2, <2>3, QuietStep
<1>2. ASSUME NEW op \in posted, Complete(op)
      PROVE  LifecycleIInv'
  BY <1>2, CompleteStep
<1>3. ASSUME NEW h \in Socket, ClientGone(h)
      PROVE  LifecycleIInv'
  BY <1>3, ClientGoneStep
<1>4. ASSUME NEW s \in Session, TimePasses(s)
      PROVE  LifecycleIInv'
  <2>1. /\ silent' = silent \cup {s}
        /\ UNCHANGED <<free, socket, inGame, late, kernel, work, logic>>
    BY <1>4 DEF TimePasses
  <2>2. UNCHANGED <<sends, jobs, closing, dropped>>
    BY <2>1 DEF logic
  <2>3. /\ inGame' \subseteq Session /\ silent' \subseteq Session
        /\ late' \subseteq Session /\ jobs' \subseteq Session
        /\ closing' \in [LogicThread -> Closing]
    BY <2>1, <2>2 DEF LifecycleIInv, TypeOK
  <2>4. OnlyWorkersClose'
    BY <2>2 DEF LifecycleIInv, OnlyWorkersClose
  <2> QED  BY <2>1, <2>2, <2>3, <2>4, QuietStep
<1>5. ASSUME NEW s \in Session, PostSend(s)
      PROVE  LifecycleIInv'
  BY <1>5, PostSendStep
<1>6. ASSUME NEW w \in Worker,
             TakeAccepted(w) \/ TakeReceived(w) \/ TakeSent(w)
      PROVE  LifecycleIInv'
  BY <1>6, TakeSteps
<1>7. ASSUME NEW w \in Worker, TakeMalformed(w) \/ TakeFailed(w)
      PROVE  LifecycleIInv'
  BY <1>7, ClearingSteps
<1>8. ASSUME NEW w \in Worker, RegisterRecv(w)
      PROVE  LifecycleIInv'
  BY <1>8, RegisterRecvStep
<1>9. ASSUME NEW w \in Worker, RegisterRecvFails(w)
      PROVE  LifecycleIInv'
  BY <1>9, RegisterRecvFailsStep
<1>10. ASSUME NEW w \in Worker, Replenish(w)
       PROVE  LifecycleIInv'
  BY <1>10, ReplenishStep
<1>11. ASSUME NEW w \in Worker, RegisterAccept(w)
       PROVE  LifecycleIInv'
  BY <1>11, RegisterAcceptStep
<1>12. ASSUME NEW w \in Worker, RegisterAcceptFails(w)
       PROVE  LifecycleIInv'
  BY <1>12, RegisterAcceptFailsStep
<1>13. ASSUME NEW t \in LogicThread,
              \/ StartCheck(t) \/ FindSilent(t) \/ EndCheck(t)
              \/ ReadSilentSocket(t) \/ LogIn(t) \/ Logout(t)
       PROVE  LifecycleIInv'
  BY <1>13, LogicSteps
<1>14. ASSUME NEW t \in LogicThread, CloseForeign(t)
       PROVE  LifecycleIInv'
  BY <1>14, CloseForeignStep
<1>15. CASE Next
  BY <1>2, <1>3, <1>4, <1>5, <1>6, <1>7, <1>8, <1>9, <1>10, <1>11, <1>12,
     <1>13, <1>14, <1>15 DEF Next
<1> QED  BY <1>1, <1>15

\* The conjuncts of the invariant, which say more than the properties do.
LEMMA LifecycleHolds == HandlesStay => (Spec => []LifecycleIInv)
<1> SUFFICES ASSUME HandlesStay PROVE Spec => []LifecycleIInv
  OBVIOUS
<1>1. Init => LifecycleIInv
  BY StartsWell
<1>2. LifecycleIInv /\ [Next]_vars => LifecycleIInv'
  BY LifecycleInvariance
<1> QED  BY <1>1, <1>2, PTL DEF Spec

\* For every pool, every number of workers, logic threads and handles, with or
\* without timeouts, logouts, wrong headers and sockets that cannot be opened:
\* until a WSASend is posted, a session that was not dropped is in exactly one
\* of the free list, a posted AcceptEx or WSARecv, the completion of one, and
\* the hands of a worker (IocpCore::Dispatch, Session::RegisterRecv).
THEOREM SessionsHaveOnePlace == HandlesStay => (Spec => []OnePlace)
<1> SUFFICES ASSUME HandlesStay PROVE Spec => []OnePlace
  OBVIOUS
<1>1. LifecycleIInv => OnePlace
  BY DEF LifecycleIInv
<1>2. Spec => []LifecycleIInv
  BY LifecycleHolds
<1> QED  BY <1>1, <1>2, PTL

\* And whatever is sent, no session is ever in none of these places, except
\* where RegisterAccept fails and IocpCore ignores it.
THEOREM NoSessionIsLost == HandlesStay => (Spec => []NoSessionLost)
<1> SUFFICES ASSUME HandlesStay PROVE Spec => []NoSessionLost
  OBVIOUS
<1>1. LifecycleIInv => NoSessionLost
  BY DEF LifecycleIInv
<1>2. Spec => []LifecycleIInv
  BY LifecycleHolds
<1> QED  BY <1>1, <1>2, PTL

\* Whatever ends beside what, no two sessions' m_socket name the same handle, so
\* Session::Clear closes no other session's connection.
THEOREM SocketsHaveOneOwner == HandlesStay => (Spec => []SocketsNotShared)
<1> SUFFICES ASSUME HandlesStay PROVE Spec => []SocketsNotShared
  OBVIOUS
<1>1. LifecycleIInv => SocketsNotShared
  BY DEF LifecycleIInv, SocketsNotShared
<1>2. Spec => []LifecycleIInv
  BY LifecycleHolds
<1> QED  BY <1>1, <1>2, PTL

\* Dispatch serves the session whose OVERLAPPED completed, whatever was closed
\* and given out again meanwhile, and until a WSASend is posted, what is posted
\* is on the handle that its session names.
THEOREM CompletionsAreOwn == HandlesStay => (Spec => []CompletionsComeHome)
<1> SUFFICES ASSUME HandlesStay PROVE Spec => []CompletionsComeHome
  OBVIOUS
<1>1. LifecycleIInv => CompletionsComeHome
  <2> SUFFICES ASSUME LifecycleIInv PROVE CompletionsComeHome
    OBVIOUS
  <2>1. DOMAIN done = 1 .. Len(done)
    BY DEF LifecycleIInv, TypeOK
  <2> QED  BY <2>1 DEF LifecycleIInv, PostedAreOwn, PostedAtHome, DoneAreOwn,
                       CompletionsComeHome
<1>2. Spec => []LifecycleIInv
  BY LifecycleHolds
<1> QED  BY <1>1, <1>2, PTL
=============================================================================
