-------------------------- MODULE JobQueuesTheorems --------------------------
(***************************************************************************)
(* Every Job object has one owner, each logic thread is a first-in         *)
(* first-out inbox, and so is each session, for every number of threads,   *)
(* sessions and producers and every limit of the pool.                     *)
(***************************************************************************)
EXTENDS JobQueues, SequenceTheorems, WellFoundedInduction, TLAPS

\* The ways in which two owners could share an object.
PoolIsExclusive ==
    \A i \in DOMAIN pool :
        /\ \A k \in DOMAIN pool : pool[i] = pool[k] => i = k
        /\ \A p \in Producer : pool[i] # making[p]
        /\ \A t \in Thread :
              /\ \A k \in DOMAIN jobs[t] : pool[i] # jobs[t][k]
              /\ \A k \in DOMAIN currJobs[t] : pool[i] # currJobs[t][k]

MakersAreExclusive ==
    \A p \in Producer : making[p] # NoJob =>
        /\ \A q \in Producer : making[p] = making[q] => p = q
        /\ \A t \in Thread :
              /\ \A k \in DOMAIN jobs[t] : making[p] # jobs[t][k]
              /\ \A k \in DOMAIN currJobs[t] : making[p] # currJobs[t][k]

QueuesAreExclusive ==
    \A t \in Thread : \A i \in DOMAIN jobs[t] : \A u \in Thread :
        /\ \A k \in DOMAIN jobs[u] : jobs[t][i] = jobs[u][k] => t = u /\ i = k
        /\ \A k \in DOMAIN currJobs[u] : jobs[t][i] # currJobs[u][k]

BatchesAreExclusive ==
    \A t \in Thread : \A i \in DOMAIN currJobs[t] : \A u \in Thread :
        \A k \in DOMAIN currJobs[u] :
            currJobs[t][i] = currJobs[u][k] => t = u /\ i = k

\* No object that exists is without an owner.
NoneIsLost ==
    \A j \in allocated :
        \/ \E i \in DOMAIN pool : pool[i] = j
        \/ \E p \in Producer : making[p] = j
        \/ \E t \in Thread :
              \/ \E i \in DOMAIN jobs[t] : jobs[t][i] = j
              \/ \E i \in DOMAIN currJobs[t] : currJobs[t][i] = j

\* An object that is queued, or whose handler has yet to return, has its packet.
PacketsAreKept ==
    /\ \A p \in Producer : making[p] # NoJob => content[making[p]] \in Packet
    /\ \A t \in Thread :
          /\ \A i \in DOMAIN jobs[t] : content[jobs[t][i]] \in Packet
          /\ \A i \in DOMAIN currJobs[t] :
                i > 1 \/ step[t] \in {"next", "handling"}
                    => content[currJobs[t][i]] \in Packet
          /\ currJobs[t] = << >> => step[t] = "next"

Exclusive ==
    PoolIsExclusive /\ MakersAreExclusive /\ QueuesAreExclusive /\ BatchesAreExclusive

IInv == TypeOK /\ Exclusive /\ NoneIsLost /\ PacketsAreKept

-----------------------------------------------------------------------------
\* A sequence whose elements are all in T.
LEMMA SequenceOver ==
    ASSUME NEW S, NEW T, NEW q \in Seq(S), \A i \in DOMAIN q : q[i] \in T
    PROVE  q \in Seq(T)
<1>1. Len(q) \in Nat /\ q \in [1 .. Len(q) -> T]
  OBVIOUS
<1> QED  BY <1>1

\* Putting an element first.
LEMMA PutFirst ==
    ASSUME NEW S, NEW q \in Seq(S), NEW e \in S
    PROVE  /\ <<e>> \o q \in Seq(S)
           /\ Len(<<e>> \o q) = Len(q) + 1
           /\ DOMAIN (<<e>> \o q) = 1 .. Len(q) + 1
           /\ \A i \in 1 .. Len(q) + 1 :
                 (<<e>> \o q)[i] = IF i = 1 THEN e ELSE q[i - 1]
<1>1. <<e>> \in Seq(S) /\ Len(<<e>>) = 1 /\ <<e>>[1] = e
  OBVIOUS
<1>2. /\ <<e>> \o q \in Seq(S)
      /\ Len(<<e>> \o q) = 1 + Len(q)
      /\ \A i \in 1 .. 1 + Len(q) :
            (<<e>> \o q)[i] = IF i <= 1 THEN <<e>>[i] ELSE q[i - 1]
  BY <1>1, ConcatProperties
<1> QED  BY <1>1, <1>2

\* A sequence, Append and Tail, as functions.
LEMMA SequenceIs ==
    ASSUME NEW S, NEW q \in Seq(S)
    PROVE  q = [i \in 1 .. Len(q) |-> q[i]]
<1>1. q \in [1 .. Len(q) -> S]
  OBVIOUS
<1> QED  BY <1>1

LEMMA AppendIs ==
    ASSUME NEW S, NEW q \in Seq(S), NEW e \in S
    PROVE  Append(q, e) = [i \in 1 .. Len(q) + 1 |-> IF i = Len(q) + 1 THEN e ELSE q[i]]
<1>1. /\ Append(q, e) \in Seq(S) /\ Len(q) \in Nat
      /\ Len(Append(q, e)) = Len(q) + 1
      /\ \A i \in 1 .. Len(q) : Append(q, e)[i] = q[i]
      /\ Append(q, e)[Len(q) + 1] = e
  BY AppendProperties
<1>2. Append(q, e) = [i \in 1 .. Len(q) + 1 |-> Append(q, e)[i]]
  BY <1>1, SequenceIs
<1>3. \A i \in 1 .. Len(q) + 1 :
         Append(q, e)[i] = IF i = Len(q) + 1 THEN e ELSE q[i]
  BY <1>1
<1> QED  BY <1>2, <1>3

LEMMA TailIs ==
    ASSUME NEW S, NEW q \in Seq(S), q # << >>
    PROVE  Tail(q) = [i \in 1 .. Len(q) - 1 |-> q[i + 1]]
<1>1. /\ Tail(q) \in Seq(S) /\ Len(Tail(q)) = Len(q) - 1
      /\ \A i \in 1 .. Len(Tail(q)) : Tail(q)[i] = q[i + 1]
  BY HeadTailProperties
<1>2. Tail(q) = [i \in 1 .. Len(q) - 1 |-> Tail(q)[i]]
  BY <1>1, SequenceIs
<1> QED  BY <1>1, <1>2

LEMMA InitInv == Init => IInv
<1> SUFFICES ASSUME Init
             PROVE  IInv
  OBVIOUS
<1> USE JobQueuesAssumption DEF Init, Session, Thread, Job, Packet, NoJob, Cleared
<1>1. TypeOK
  BY DEF TypeOK
<1>2. Exclusive
  BY DEF Exclusive, PoolIsExclusive, MakersAreExclusive, QueuesAreExclusive,
         BatchesAreExclusive
<1>3. NoneIsLost /\ PacketsAreKept
  BY DEF NoneIsLost, PacketsAreKept
<1> QED  BY <1>1, <1>2, <1>3 DEF IInv

LEMMA TypeStep == IInv /\ [Next]_vars => TypeOK'
<1> SUFFICES ASSUME IInv, [Next]_vars
             PROVE  TypeOK'
  OBVIOUS
<1> USE JobQueuesAssumption DEF Session, Thread, Job, Packet
<1>1. ASSUME NEW p \in Producer, NEW s \in Session, Pop(p, s)
      PROVE  TypeOK'
  <2>1. pool \in Seq(allocated) /\ pool # << >>
    BY <1>1 DEF Pop, TypeOK, IInv
  <2>2. /\ Head(pool) \in allocated /\ Tail(pool) \in Seq(allocated)
        /\ Len(Tail(pool)) = Len(pool) - 1 /\ Len(pool) \in Nat
    BY <2>1, HeadTailProperties
  <2>3. pushes' \in 1 .. MaxPushes /\ <<s, pushes'>> \in Packet
    BY <1>1 DEF Pop, TypeOK, IInv
  <2>4. making' \in [Producer -> allocated \cup {NoJob}]
    BY <1>1, <2>2 DEF Pop, TypeOK, IInv
  <2>5. content' \in [Job -> Packet \cup {Cleared}]
    <3> HIDE DEF Packet
    <3> QED  BY <1>1, <2>3 DEF Pop, TypeOK, IInv
  <2>6. Len(Tail(pool)) <= PoolLimit
    BY <2>2 DEF TypeOK, IInv
  <2>7. pool' = Tail(pool) /\ UNCHANGED <<allocated, jobs, currJobs, step>>
    BY <1>1 DEF Pop
  <2> QED  BY <2>2, <2>3, <2>4, <2>5, <2>6, <2>7 DEF TypeOK, IInv
<1>2. ASSUME NEW p \in Producer, NEW s \in Session, PopNew(p, s)
      PROVE  TypeOK'
  <2>1. PICK j \in Job \ allocated :
           /\ allocated' = allocated \cup {j}
           /\ making' = [making EXCEPT ![p] = j]
           /\ content' = [content EXCEPT ![j] = <<s, pushes'>>]
    BY <1>2 DEF PopNew
  <2>2. /\ pool' \in Seq(allocated')
        /\ jobs' \in [Thread -> Seq(allocated')]
        /\ currJobs' \in [Thread -> Seq(allocated')]
    <3>1. allocated \subseteq allocated'
      BY <2>1
    <3>2. \A q \in Seq(allocated) : q \in Seq(allocated')
      BY <3>1, SeqMonotonic
    <3> QED  BY <1>2, <3>2 DEF PopNew, TypeOK, IInv
  <2>3. pushes' \in 1 .. MaxPushes /\ <<s, pushes'>> \in Packet
    BY <1>2 DEF PopNew, TypeOK, IInv
  <2>4. making' \in [Producer -> allocated' \cup {NoJob}] /\ allocated' \subseteq Job
    BY <2>1 DEF TypeOK, IInv
  <2>5. content' \in [Job -> Packet \cup {Cleared}]
    <3> HIDE DEF Packet
    <3> QED  BY <2>1, <2>3 DEF TypeOK, IInv
  <2> QED  BY <1>2, <2>2, <2>3, <2>4, <2>5 DEF PopNew, TypeOK, IInv
<1>3. ASSUME NEW p \in Producer, PushJob(p)
      PROVE  TypeOK'
  <2>1. making[p] \in allocated /\ content[making[p]] \in Packet
    BY <1>3 DEF PushJob, TypeOK, IInv, PacketsAreKept
  <2>2. ThreadOf(content[making[p]][1]) \in Thread
    BY <2>1 DEF ThreadOf
  <2> DEFINE u == ThreadOf(content[making[p]][1])
  <2>3. Append(jobs[u], making[p]) \in Seq(allocated)
    BY <2>1, <2>2 DEF TypeOK, IInv
  <2> HIDE DEF u
  <2>4. jobs' = [jobs EXCEPT ![u] = Append(@, making[p])]
    BY <1>3 DEF PushJob, u
  <2>5. jobs' \in [Thread -> Seq(allocated)]
    BY <2>2, <2>3, <2>4 DEF TypeOK, IInv, u
  <2> QED  BY <1>3, <2>5 DEF PushJob, TypeOK, IInv
<1>4. ASSUME NEW t \in Thread, TakeAll(t)
      PROVE  TypeOK'
  BY <1>4 DEF TakeAll, TypeOK, IInv
<1>5. ASSUME NEW t \in Thread, Handle(t) \/ HandlerReturns(t)
      PROVE  TypeOK'
  BY <1>5 DEF Handle, HandlerReturns, TypeOK, IInv
<1>6. ASSUME NEW t \in Thread, ClearJob(t)
      PROVE  TypeOK'
  BY <1>6 DEF ClearJob, TypeOK, IInv
<1>7. ASSUME NEW t \in Thread, PushToPool(t)
      PROVE  TypeOK'
  <2> DEFINE j == Head(currJobs[t])
  <2>1. currJobs[t] \in Seq(allocated) /\ currJobs[t] # << >>
    BY <1>7 DEF PushToPool, At, TypeOK, IInv
  <2>2. /\ j \in allocated /\ j = currJobs[t][1] /\ 1 \in DOMAIN currJobs[t]
        /\ Tail(currJobs[t]) \in Seq(allocated)
        /\ Len(Tail(currJobs[t])) = Len(currJobs[t]) - 1
        /\ \A i \in DOMAIN Tail(currJobs[t]) :
              i + 1 \in DOMAIN currJobs[t] /\ Tail(currJobs[t])[i] = currJobs[t][i + 1]
    BY <2>1
  <2> HIDE DEF j
  <2>3. currJobs' = [currJobs EXCEPT ![t] = Tail(@)]
    BY <1>7 DEF PushToPool
  <2>4. CASE Len(pool) >= PoolLimit
    <3>1. allocated' = allocated \ {j} /\ pool' = pool
      BY <1>7, <2>4 DEF PushToPool, j
    <3>2. pool' \in Seq(allocated')
      <4>1. \A i \in DOMAIN pool : pool[i] \in allocated'
        BY <2>2, <3>1 DEF TypeOK, IInv, Exclusive, PoolIsExclusive
      <4> QED  BY <3>1, <4>1, SequenceOver DEF TypeOK, IInv
    <3>3. \A u \in Thread : jobs[u] \in Seq(allocated')
      <4> SUFFICES ASSUME NEW u \in Thread
                   PROVE  jobs[u] \in Seq(allocated')
        OBVIOUS
      <4>1. jobs[u] \in Seq(allocated)
        BY DEF TypeOK, IInv
      <4>2. \A i \in DOMAIN jobs[u] : jobs[u][i] \in allocated'
        BY <2>2, <3>1, <4>1 DEF IInv, Exclusive, QueuesAreExclusive
      <4> QED  BY <4>1, <4>2, SequenceOver
    <3>4. \A u \in Thread : currJobs'[u] \in Seq(allocated')
      <4> SUFFICES ASSUME NEW u \in Thread
                   PROVE  currJobs'[u] \in Seq(allocated')
        OBVIOUS
      <4>1. currJobs[u] \in Seq(allocated)
        BY DEF TypeOK, IInv
      <4>2. CASE u # t
        <5>1. \A i \in DOMAIN currJobs[u] : currJobs[u][i] \in allocated'
          BY <2>2, <3>1, <4>1, <4>2 DEF IInv, Exclusive, BatchesAreExclusive
        <5>2. currJobs'[u] = currJobs[u]
          BY <2>3, <4>2 DEF TypeOK, IInv
        <5> QED  BY <4>1, <5>1, <5>2, SequenceOver
      <4>3. CASE u = t
        <5>1. \A i \in DOMAIN Tail(currJobs[t]) : Tail(currJobs[t])[i] \in allocated'
          BY <2>1, <2>2, <3>1 DEF IInv, Exclusive, BatchesAreExclusive
        <5>2. currJobs'[u] = Tail(currJobs[t])
          BY <2>3, <4>3 DEF TypeOK, IInv
        <5> QED  BY <2>2, <5>1, <5>2, SequenceOver
      <4> QED  BY <4>2, <4>3
    <3>5. \A q \in Producer : making[q] \in allocated' \cup {NoJob}
      BY <2>2, <3>1 DEF TypeOK, IInv, Exclusive, MakersAreExclusive
    <3> QED
      BY <1>7, <2>3, <3>1, <3>2, <3>3, <3>4, <3>5 DEF PushToPool, TypeOK, IInv
  <2>5. CASE ~ (Len(pool) >= PoolLimit)
    <3>1. pool' = <<j>> \o pool /\ allocated' = allocated
      BY <1>7, <2>5 DEF PushToPool, j
    <3>2. pool' \in Seq(allocated) /\ Len(pool') <= PoolLimit
      BY <2>2, <2>5, <3>1, PutFirst DEF TypeOK, IInv
    <3> QED  BY <1>7, <2>2, <2>3, <3>1, <3>2 DEF PushToPool, TypeOK, IInv
  <2> QED  BY <2>4, <2>5
<1>8. CASE UNCHANGED vars
  BY <1>8 DEF vars, TypeOK, IInv
<1> QED  BY <1>1, <1>2, <1>3, <1>4, <1>5, <1>6, <1>7, <1>8 DEF Next, Update

\* Head and Tail, element by element.
LEMMA TakeFirst ==
    ASSUME NEW S, NEW q \in Seq(S), q # << >>
    PROVE  /\ Head(q) = q[1] /\ 1 \in DOMAIN q /\ Head(q) \in S
           /\ Tail(q) \in Seq(S)
           /\ DOMAIN Tail(q) = 1 .. Len(q) - 1
           /\ \A i \in DOMAIN Tail(q) : i + 1 \in DOMAIN q /\ Tail(q)[i] = q[i + 1]
           /\ \A i \in DOMAIN q : i # 1 => i - 1 \in DOMAIN Tail(q)
OBVIOUS

LEMMA OwnershipStep == IInv /\ [Next]_vars => (Exclusive /\ NoneIsLost /\ PacketsAreKept)'
<1> SUFFICES ASSUME IInv, [Next]_vars
             PROVE  (Exclusive /\ NoneIsLost /\ PacketsAreKept)'
  OBVIOUS
<1> DEFINE Goal == Exclusive /\ NoneIsLost /\ PacketsAreKept
<1> USE JobQueuesAssumption DEF NoJob
<1>0. /\ pool \in Seq(allocated) /\ allocated \subseteq Job
      /\ making \in [Producer -> allocated \cup {NoJob}]
      /\ jobs \in [Thread -> Seq(allocated)]
      /\ currJobs \in [Thread -> Seq(allocated)]
      /\ content \in [Job -> Packet \cup {Cleared}]
      /\ step \in [Thread -> {"next", "handling", "handled", "cleared"}]
      /\ NoJob \notin Job
  BY DEF IInv, TypeOK, Job
<1>1. ASSUME NEW p \in Producer, NEW s \in Session, Pop(p, s)
      PROVE  Goal'
  <2>1. /\ making[p] = NoJob /\ pool # << >>
        /\ making' = [making EXCEPT ![p] = Head(pool)]
        /\ content' = [content EXCEPT ![Head(pool)] = <<s, pushes + 1>>]
        /\ pool' = Tail(pool)
        /\ UNCHANGED <<allocated, jobs, currJobs, step>>
        /\ <<s, pushes + 1>> \in Packet
    BY <1>1 DEF Pop, IInv, TypeOK, Packet
  <2> DEFINE j == pool[1]
  <2>2. /\ Head(pool) = j /\ 1 \in DOMAIN pool /\ j \in allocated
        /\ \A i \in DOMAIN pool' : i + 1 \in DOMAIN pool /\ pool'[i] = pool[i + 1]
        /\ \A i \in DOMAIN pool : i # 1 => i - 1 \in DOMAIN pool' /\ pool'[i - 1] = pool[i]
        /\ DOMAIN pool \subseteq Int
    BY <1>0, <2>1, TakeFirst
  <2>3. /\ \A q \in Producer : making'[q] = IF q = p THEN j ELSE making[q]
        /\ \A k \in Job : content'[k] = IF k = j THEN <<s, pushes + 1>> ELSE content[k]
    BY <1>0, <2>1, <2>2
  <2> HIDE DEF j
  <2>4. PoolIsExclusive'
    BY <2>1, <2>2, <2>3 DEF IInv, Exclusive, PoolIsExclusive, j
  <2>5. MakersAreExclusive'
    BY <2>1, <2>2, <2>3 DEF IInv, Exclusive, PoolIsExclusive, MakersAreExclusive, j
  <2>6. QueuesAreExclusive' /\ BatchesAreExclusive'
    BY <2>1 DEF IInv, Exclusive, QueuesAreExclusive, BatchesAreExclusive
  <2>7. NoneIsLost'
    <3> SUFFICES ASSUME NEW k \in allocated
                 PROVE  \/ \E i \in DOMAIN pool' : pool'[i] = k
                        \/ \E q \in Producer : making'[q] = k
                        \/ \E t \in Thread :
                              \/ \E i \in DOMAIN jobs[t] : jobs[t][i] = k
                              \/ \E i \in DOMAIN currJobs[t] : currJobs[t][i] = k
      BY <2>1 DEF NoneIsLost
    <3>1. CASE \E i \in DOMAIN pool : pool[i] = k
      <4>1. PICK i \in DOMAIN pool : pool[i] = k
        BY <3>1
      <4>2. CASE i = 1
        BY <2>3, <4>1, <4>2 DEF j
      <4>3. CASE i # 1
        BY <2>2, <4>1, <4>3
      <4> QED  BY <4>2, <4>3
    <3>2. CASE \E q \in Producer : making[q] = k
      <4>1. PICK q \in Producer : making[q] = k
        BY <3>2
      <4>2. k # NoJob
        BY <1>0
      <4> QED  BY <2>1, <2>3, <4>1, <4>2
    <3> QED  BY <3>1, <3>2 DEF IInv, NoneIsLost
  <2>8. PacketsAreKept'
    <3>1. \A q \in Producer : making'[q] # NoJob => content'[making'[q]] \in Packet
      BY <1>0, <2>1, <2>2, <2>3 DEF IInv, PacketsAreKept
    <3>2. ASSUME NEW t \in Thread
          PROVE  /\ \A i \in DOMAIN jobs[t] : content'[jobs[t][i]] = content[jobs[t][i]]
                 /\ \A i \in DOMAIN currJobs[t] :
                       content'[currJobs[t][i]] = content[currJobs[t][i]]
      <4>1. /\ \A i \in DOMAIN jobs[t] : jobs[t][i] \in Job /\ jobs[t][i] # j
            /\ \A i \in DOMAIN currJobs[t] : currJobs[t][i] \in Job /\ currJobs[t][i] # j
        BY <1>0, <2>2 DEF IInv, Exclusive, PoolIsExclusive, j
      <4> QED  BY <2>3, <4>1
    <3>3. UNCHANGED <<jobs, currJobs, step>>
      BY <2>1
    <3> QED  BY <3>1, <3>2, <3>3 DEF IInv, PacketsAreKept
  <2> QED  BY <2>4, <2>5, <2>6, <2>7, <2>8 DEF Exclusive
<1>2. ASSUME NEW p \in Producer, NEW s \in Session, PopNew(p, s)
      PROVE  Goal'
  <2>1. PICK j \in Job \ allocated :
           /\ allocated' = allocated \cup {j}
           /\ making' = [making EXCEPT ![p] = j]
           /\ content' = [content EXCEPT ![j] = <<s, pushes + 1>>]
    BY <1>2 DEF PopNew
  <2>0. j \in Job /\ j \notin allocated
    BY <2>1
  <2>2. /\ making[p] = NoJob
        /\ UNCHANGED <<pool, jobs, currJobs, step>>
        /\ <<s, pushes + 1>> \in Packet
    BY <1>2 DEF PopNew, IInv, TypeOK, Packet
  <2>3. /\ \A q \in Producer : making'[q] = IF q = p THEN j ELSE making[q]
        /\ \A k \in Job : content'[k] = IF k = j THEN <<s, pushes + 1>> ELSE content[k]
    BY <1>0, <2>1
  <2>4. /\ \A i \in DOMAIN pool : pool[i] \in allocated
        /\ \A t \in Thread : /\ \A i \in DOMAIN jobs[t] : jobs[t][i] \in allocated
                             /\ \A i \in DOMAIN currJobs[t] : currJobs[t][i] \in allocated
    BY <1>0
  <2>5. PoolIsExclusive' /\ MakersAreExclusive'
    <3>1. UNCHANGED <<pool, jobs, currJobs>>
      BY <2>2
    <3>2. PoolIsExclusive'
      BY <2>0, <2>3, <2>4, <3>1 DEF IInv, Exclusive, PoolIsExclusive
    <3>3. \A q \in Producer : q # p /\ making[q] # NoJob => making[q] # j
      BY <1>0, <2>0
    <3>4. MakersAreExclusive'
      BY <2>0, <2>2, <2>3, <2>4, <3>1, <3>3 DEF IInv, Exclusive, MakersAreExclusive
    <3> QED  BY <3>2, <3>4
  <2>6. QueuesAreExclusive' /\ BatchesAreExclusive'
    BY <2>2 DEF IInv, Exclusive, QueuesAreExclusive, BatchesAreExclusive
  <2>7. NoneIsLost'
    <3> SUFFICES ASSUME NEW k \in allocated \cup {j}
                 PROVE  \/ \E i \in DOMAIN pool : pool[i] = k
                        \/ \E q \in Producer : making'[q] = k
                        \/ \E t \in Thread :
                              \/ \E i \in DOMAIN jobs[t] : jobs[t][i] = k
                              \/ \E i \in DOMAIN currJobs[t] : currJobs[t][i] = k
      BY <2>1, <2>2 DEF NoneIsLost
    <3>1. CASE k = j
      BY <2>3, <3>1
    <3>2. CASE \E q \in Producer : making[q] = k
      <4>1. PICK q \in Producer : making[q] = k
        BY <3>2
      <4>2. k # NoJob
        BY <1>0, <2>0
      <4> QED  BY <2>2, <2>3, <4>1, <4>2
    <3> QED  BY <3>1, <3>2 DEF IInv, NoneIsLost
  <2>8. PacketsAreKept'
    <3>1. \A q \in Producer : making'[q] # NoJob => content'[making'[q]] \in Packet
      <4>1. ASSUME NEW q \in Producer, q # p, making[q] # NoJob
            PROVE  making[q] \in Job /\ making[q] # j /\ content[making[q]] \in Packet
        BY <1>0, <2>0, <4>1 DEF IInv, PacketsAreKept
      <4> QED  BY <2>0, <2>2, <2>3, <4>1
    <3>2. ASSUME NEW t \in Thread
          PROVE  /\ \A i \in DOMAIN jobs[t] : content'[jobs[t][i]] = content[jobs[t][i]]
                 /\ \A i \in DOMAIN currJobs[t] :
                       content'[currJobs[t][i]] = content[currJobs[t][i]]
      BY <1>0, <2>0, <2>3, <2>4
    <3> QED  BY <2>2, <3>1, <3>2 DEF IInv, PacketsAreKept
  <2> QED  BY <2>5, <2>6, <2>7, <2>8 DEF Exclusive
<1>3. ASSUME NEW p \in Producer, PushJob(p)
      PROVE  Goal'
  <2> DEFINE j == making[p]
             u == ThreadOf(content[making[p]][1])
  <2>1. /\ j # NoJob /\ j \in allocated /\ content[j] \in Packet
        /\ jobs' = [jobs EXCEPT ![u] = Append(@, j)]
        /\ making' = [making EXCEPT ![p] = NoJob]
        /\ UNCHANGED <<allocated, pool, content, currJobs, step>>
    BY <1>0, <1>3 DEF PushJob, IInv, PacketsAreKept
  <2>2. u \in Thread
    BY <2>1 DEF ThreadOf, Thread, Packet, Session
  <2> HIDE DEF u
  <2>3. /\ \A q \in Producer : making'[q] = IF q = p THEN NoJob ELSE making[q]
        /\ \A t \in Thread : t # u => jobs'[t] = jobs[t]
        /\ jobs'[u] = Append(jobs[u], j)
    BY <1>0, <2>1, <2>2
  <2>4. /\ DOMAIN jobs'[u] = 1 .. Len(jobs[u]) + 1
        /\ DOMAIN jobs[u] = 1 .. Len(jobs[u]) /\ Len(jobs[u]) \in Nat
        /\ \A i \in DOMAIN jobs[u] : jobs'[u][i] = jobs[u][i]
        /\ jobs'[u][Len(jobs[u]) + 1] = j
    <3>1. jobs[u] \in Seq(allocated) /\ j \in allocated
      BY <1>0, <2>1, <2>2
    <3> QED  BY <2>3, <3>1, AppendProperties
  <2> HIDE DEF j
  <2>5. /\ \A t \in Thread : \A i \in DOMAIN jobs'[t] :
              \/ i \in DOMAIN jobs[t] /\ jobs'[t][i] = jobs[t][i]
              \/ t = u /\ i = Len(jobs[u]) + 1 /\ jobs'[t][i] = j
        /\ \A t \in Thread : \A i \in DOMAIN jobs[t] :
              i \in DOMAIN jobs'[t] /\ jobs'[t][i] = jobs[t][i]
    BY <2>2, <2>3, <2>4
  <2>6. /\ \A i \in DOMAIN pool : pool[i] # j
        /\ \A q \in Producer : q # p => making[q] # j
        /\ \A t \in Thread : /\ \A i \in DOMAIN jobs[t] : jobs[t][i] # j
                             /\ \A i \in DOMAIN currJobs[t] : currJobs[t][i] # j
    BY <2>1 DEF IInv, Exclusive, PoolIsExclusive, MakersAreExclusive, j
  <2>7. PoolIsExclusive'
    <3>1. pool' = pool /\ currJobs' = currJobs
      BY <2>1
    <3>2. \A i \in DOMAIN pool : pool[i] # NoJob
      BY <1>0
    <3> QED  BY <2>3, <2>5, <2>6, <3>1, <3>2 DEF IInv, Exclusive, PoolIsExclusive
  <2>8. MakersAreExclusive'
    <3>1. currJobs' = currJobs
      BY <2>1
    <3> QED  BY <2>3, <2>5, <2>6, <3>1 DEF IInv, Exclusive, MakersAreExclusive
  <2>9. QueuesAreExclusive'
    <3>1. currJobs' = currJobs
      BY <2>1
    <3> QED  BY <2>5, <2>6, <3>1 DEF IInv, Exclusive, QueuesAreExclusive
  <2>10. BatchesAreExclusive'
    BY <2>1 DEF IInv, Exclusive, BatchesAreExclusive
  <2>11. NoneIsLost'
    <3>1. UNCHANGED <<allocated, pool, currJobs>>
      BY <2>1
    <3>2. \E i \in DOMAIN jobs'[u] : jobs'[u][i] = j
      BY <2>4
    <3> QED  BY <2>2, <2>3, <2>5, <3>1, <3>2 DEF IInv, NoneIsLost, j
  <2>12. PacketsAreKept'
    <3>1. UNCHANGED <<content, currJobs, step>>
      BY <2>1
    <3> QED  BY <2>1, <2>3, <2>5, <3>1 DEF IInv, PacketsAreKept
  <2> QED  BY <2>7, <2>8, <2>9, <2>10, <2>11, <2>12 DEF Exclusive
<1>4. ASSUME NEW u \in Thread, TakeAll(u)
      PROVE  Goal'
  <2>1. /\ currJobs[u] = << >>
        /\ currJobs'[u] = jobs[u] /\ jobs'[u] = << >>
        /\ \A t \in Thread : t # u => jobs'[t] = jobs[t] /\ currJobs'[t] = currJobs[t]
        /\ UNCHANGED <<allocated, pool, content, making, step>>
    BY <1>0, <1>4 DEF TakeAll
  <2>2. DOMAIN << >> = {}
    OBVIOUS
  <2>3. jobs[u] # << >>
    BY <1>4 DEF TakeAll
  <2>4. PoolIsExclusive' /\ MakersAreExclusive'
    BY <2>1, <2>2 DEF IInv, Exclusive, PoolIsExclusive, MakersAreExclusive
  <2>5. QueuesAreExclusive'
    BY <2>1, <2>2 DEF IInv, Exclusive, QueuesAreExclusive
  <2>6. BatchesAreExclusive'
    BY <2>1, <2>2 DEF IInv, Exclusive, QueuesAreExclusive, BatchesAreExclusive
  <2>7. NoneIsLost'
    BY <2>1, <2>2 DEF IInv, NoneIsLost
  <2>8. PacketsAreKept'
    BY <2>1, <2>2, <2>3 DEF IInv, PacketsAreKept
  <2> QED  BY <2>4, <2>5, <2>6, <2>7, <2>8 DEF Exclusive
<1>5. ASSUME NEW u \in Thread, Handle(u) \/ HandlerReturns(u)
      PROVE  Goal'
  <2>1. /\ UNCHANGED <<allocated, pool, content, making, jobs, currJobs>>
        /\ currJobs[u] # << >>
        /\ \A t \in Thread : t # u => step'[t] = step[t]
        /\ step'[u] \in {"next", "handling"} => step[u] \in {"next", "handling"}
    BY <1>0, <1>5 DEF Handle, HandlerReturns, At
  <2>2. Exclusive' /\ NoneIsLost'
    BY <2>1 DEF IInv, Exclusive, PoolIsExclusive, MakersAreExclusive,
                QueuesAreExclusive, BatchesAreExclusive, NoneIsLost
  <2>3. PacketsAreKept'
    BY <2>1 DEF IInv, PacketsAreKept
  <2> QED  BY <2>2, <2>3
<1>6. ASSUME NEW u \in Thread, ClearJob(u)
      PROVE  Goal'
  <2> DEFINE j == currJobs[u][1]
  <2>1. /\ UNCHANGED <<allocated, pool, making, jobs, currJobs>>
        /\ currJobs[u] # << >> /\ 1 \in DOMAIN currJobs[u]
        /\ \A t \in Thread : t # u => step'[t] = step[t]
        /\ step'[u] = "cleared"
        /\ \A k \in Job : k # j => content'[k] = content[k]
    BY <1>0, <1>6, TakeFirst DEF ClearJob, At
  <2>2. Exclusive' /\ NoneIsLost'
    BY <2>1 DEF IInv, Exclusive, PoolIsExclusive, MakersAreExclusive,
                QueuesAreExclusive, BatchesAreExclusive, NoneIsLost
  <2>3. /\ \A p \in Producer : making[p] # NoJob => making[p] \in Job /\ making[p] # j
        /\ \A t \in Thread :
              /\ \A i \in DOMAIN jobs[t] : jobs[t][i] \in Job /\ jobs[t][i] # j
              /\ \A i \in DOMAIN currJobs[t] :
                    currJobs[t][i] \in Job /\ (t # u \/ i # 1 => currJobs[t][i] # j)
    BY <1>0, <2>1 DEF IInv, Exclusive, MakersAreExclusive, QueuesAreExclusive,
                      BatchesAreExclusive
  <2> HIDE DEF j
  <2>4. \A t \in Thread : DOMAIN currJobs[t] \subseteq Nat \ {0}
    BY <1>0
  <2>5. PacketsAreKept'
    BY <2>1, <2>3, <2>4 DEF IInv, PacketsAreKept
  <2> QED  BY <2>2, <2>5
<1>7. ASSUME NEW u \in Thread, PushToPool(u)
      PROVE  Goal'
  <2> DEFINE j == currJobs[u][1]
  <2>1. currJobs[u] # << >> /\ currJobs[u] \in Seq(allocated)
    BY <1>0, <1>7 DEF PushToPool, At
  <2>2. /\ Head(currJobs[u]) = j /\ 1 \in DOMAIN currJobs[u] /\ j \in allocated
        /\ UNCHANGED <<content, making, jobs>>
        /\ \A t \in Thread : t # u => currJobs'[t] = currJobs[t] /\ step'[t] = step[t]
        /\ currJobs'[u] = Tail(currJobs[u]) /\ step'[u] = "next"
    BY <1>0, <1>7, <2>1, TakeFirst DEF PushToPool
  <2>3. /\ \A i \in DOMAIN currJobs'[u] :
              i + 1 \in DOMAIN currJobs[u] /\ currJobs'[u][i] = currJobs[u][i + 1]
        /\ \A i \in DOMAIN currJobs[u] :
              i # 1 => i - 1 \in DOMAIN currJobs'[u] /\ currJobs'[u][i - 1] = currJobs[u][i]
        /\ \A t \in Thread : DOMAIN currJobs[t] \subseteq Nat \ {0}
        /\ DOMAIN currJobs'[u] \subseteq Nat \ {0}
    BY <1>0, <2>1, <2>2, TakeFirst
  <2>4. /\ \A p \in Producer : making[p] # j
        /\ \A i \in DOMAIN pool : pool[i] # j
        /\ \A t \in Thread :
              /\ \A i \in DOMAIN jobs[t] : jobs[t][i] # j
              /\ \A i \in DOMAIN currJobs[t] : t # u \/ i # 1 => currJobs[t][i] # j
    <3>1. j # NoJob
      BY <1>0, <2>2
    <3>2. \A p \in Producer : making[p] # j
      BY <2>2, <3>1 DEF IInv, Exclusive, MakersAreExclusive
    <3>3. \A i \in DOMAIN pool : pool[i] # j
      BY <2>2 DEF IInv, Exclusive, PoolIsExclusive
    <3>4. \A t \in Thread : \A i \in DOMAIN jobs[t] : jobs[t][i] # j
      BY <2>2 DEF IInv, Exclusive, QueuesAreExclusive
    <3>5. \A t \in Thread : \A i \in DOMAIN currJobs[t] :
             t # u \/ i # 1 => currJobs[t][i] # j
      BY <2>2 DEF IInv, Exclusive, BatchesAreExclusive
    <3> QED  BY <3>2, <3>3, <3>4, <3>5
  <2> HIDE DEF j
  \* Every element of a batch was there before, and is not the first one's.
  <2>5. \A t \in Thread : \A i \in DOMAIN currJobs'[t] : \E k \in DOMAIN currJobs[t] :
            /\ k = IF t = u THEN i + 1 ELSE i
            /\ currJobs'[t][i] = currJobs[t][k] /\ currJobs'[t][i] # j
    <3> SUFFICES ASSUME NEW t \in Thread, NEW i \in DOMAIN currJobs'[t]
                 PROVE  \E k \in DOMAIN currJobs[t] :
                           /\ k = IF t = u THEN i + 1 ELSE i
                           /\ currJobs'[t][i] = currJobs[t][k] /\ currJobs'[t][i] # j
      OBVIOUS
    <3>1. CASE t = u
      <4>1. /\ i + 1 \in DOMAIN currJobs[u] /\ currJobs'[u][i] = currJobs[u][i + 1]
            /\ i + 1 # 1
        BY <2>3, <3>1
      <4> QED  BY <2>4, <3>1, <4>1
    <3>2. CASE t # u
      BY <2>2, <2>4, <3>2
    <3> QED  BY <3>1, <3>2
  <2>6. \/ allocated' = allocated \ {j} /\ pool' = pool
        \/ allocated' = allocated /\ pool' = <<j>> \o pool
    BY <1>7, <2>2 DEF PushToPool
  <2>7. \A i \in DOMAIN pool' :
            \/ pool'[i] = j /\ i = 1 /\ allocated' = allocated
            \/ /\ \E k \in DOMAIN pool : pool'[i] = pool[k] /\ k = IF pool' = pool THEN i ELSE i - 1
    BY <1>0, <2>2, <2>6, PutFirst
  <2>8. QueuesAreExclusive' /\ BatchesAreExclusive'
    <3>1. QueuesAreExclusive'
      BY <2>2, <2>5 DEF IInv, Exclusive, QueuesAreExclusive
    <3>2. BatchesAreExclusive'
      <4> SUFFICES ASSUME NEW t \in Thread, NEW i \in DOMAIN currJobs'[t],
                          NEW v \in Thread, NEW k \in DOMAIN currJobs'[v],
                          currJobs'[t][i] = currJobs'[v][k]
                   PROVE  t = v /\ i = k
        BY DEF BatchesAreExclusive
      <4>1. DOMAIN currJobs'[t] \subseteq Int /\ DOMAIN currJobs'[v] \subseteq Int
        BY <2>2, <2>3
      <4> QED  BY <2>5, <4>1 DEF IInv, Exclusive, BatchesAreExclusive
    <3> QED  BY <3>1, <3>2
  <2>9. MakersAreExclusive'
    BY <2>2, <2>5 DEF IInv, Exclusive, MakersAreExclusive
  <2>10. PoolIsExclusive'
    <3> SUFFICES ASSUME NEW i \in DOMAIN pool'
                 PROVE  /\ \A k \in DOMAIN pool' : pool'[i] = pool'[k] => i = k
                        /\ \A p \in Producer : pool'[i] # making'[p]
                        /\ \A t \in Thread :
                              /\ \A k \in DOMAIN jobs'[t] : pool'[i] # jobs'[t][k]
                              /\ \A k \in DOMAIN currJobs'[t] : pool'[i] # currJobs'[t][k]
      BY DEF PoolIsExclusive
    <3>1. DOMAIN pool' \subseteq Int /\ DOMAIN pool \subseteq Int
      BY <1>0, <2>2, <2>6, PutFirst
    <3>2. \A k \in DOMAIN pool' : pool'[i] = pool'[k] => i = k
      BY <2>4, <2>7, <3>1 DEF IInv, Exclusive, PoolIsExclusive
    <3>3. /\ \A p \in Producer : pool'[i] # making'[p]
          /\ \A t \in Thread :
                /\ \A k \in DOMAIN jobs'[t] : pool'[i] # jobs'[t][k]
                /\ \A k \in DOMAIN currJobs'[t] : pool'[i] # currJobs'[t][k]
      BY <2>2, <2>4, <2>5, <2>7 DEF IInv, Exclusive, PoolIsExclusive
    <3> QED  BY <3>2, <3>3
  <2>11. NoneIsLost'
    <3> SUFFICES ASSUME NEW k \in allocated'
                 PROVE  \/ \E i \in DOMAIN pool' : pool'[i] = k
                        \/ \E p \in Producer : making'[p] = k
                        \/ \E t \in Thread :
                              \/ \E i \in DOMAIN jobs'[t] : jobs'[t][i] = k
                              \/ \E i \in DOMAIN currJobs'[t] : currJobs'[t][i] = k
      BY DEF NoneIsLost
    <3>1. CASE k = j
      <4>1. pool' = <<j>> \o pool
        BY <2>6, <3>1
      <4>2. 1 \in DOMAIN pool' /\ pool'[1] = j
        BY <1>0, <2>2, <4>1, PutFirst
      <4> QED  BY <3>1, <4>2
    <3>2. CASE k # j
      <4>1. k \in allocated
        BY <2>6
      <4>2. CASE \E i \in DOMAIN pool : pool[i] = k
        <5>1. PICK i \in DOMAIN pool : pool[i] = k
          BY <4>2
        <5>2. \E n \in DOMAIN pool' : pool'[n] = k
          <6>1. CASE pool' = pool
            BY <5>1, <6>1
          <6>2. CASE pool' = <<j>> \o pool
            <7>1. i + 1 \in 1 .. Len(pool) + 1 /\ i + 1 # 1 /\ i + 1 - 1 = i
              BY <1>0
            <7>2. i + 1 \in DOMAIN pool' /\ pool'[i + 1] = pool[i]
              BY <1>0, <2>2, <6>2, <7>1, PutFirst
            <7> QED  BY <5>1, <7>2
          <6> QED  BY <2>6, <6>1, <6>2
        <5> QED  BY <5>2
      <4>3. CASE ~ \E i \in DOMAIN pool : pool[i] = k
        <5>1. CASE \E t \in Thread : \E i \in DOMAIN currJobs[t] : currJobs[t][i] = k
          <6>1. PICK t \in Thread : \E i \in DOMAIN currJobs[t] : currJobs[t][i] = k
            BY <5>1
          <6>2. PICK i \in DOMAIN currJobs[t] : currJobs[t][i] = k
            BY <6>1
          <6>3. CASE t = u
            <7>1. i # 1
              BY <3>2, <6>2, <6>3 DEF j
            <7> QED  BY <2>3, <6>2, <6>3, <7>1
          <6>4. CASE t # u
            BY <2>2, <6>2, <6>4
          <6> QED  BY <6>3, <6>4
        <5> QED  BY <2>2, <4>1, <4>3, <5>1 DEF IInv, NoneIsLost
      <4> QED  BY <4>2, <4>3
    <3> QED  BY <3>1, <3>2
  <2>12. PacketsAreKept'
    <3>1. \A t \in Thread : \A i \in DOMAIN currJobs'[t] :
             i > 1 \/ step'[t] \in {"next", "handling"}
                => content'[currJobs'[t][i]] \in Packet
      <4> SUFFICES ASSUME NEW t \in Thread, NEW i \in DOMAIN currJobs'[t],
                          i > 1 \/ step'[t] \in {"next", "handling"}
                   PROVE  content'[currJobs'[t][i]] \in Packet
        OBVIOUS
      <4>1. CASE t = u
        <5>1. i + 1 \in DOMAIN currJobs[u] /\ currJobs'[u][i] = currJobs[u][i + 1] /\ i + 1 > 1
          BY <2>3, <4>1
        <5> QED  BY <2>2, <4>1, <5>1 DEF IInv, PacketsAreKept
      <4>2. CASE t # u
        BY <2>2, <4>2 DEF IInv, PacketsAreKept
      <4> QED  BY <4>1, <4>2
    <3> QED  BY <2>2, <3>1 DEF IInv, PacketsAreKept
  <2> QED  BY <2>8, <2>9, <2>10, <2>11, <2>12 DEF Exclusive
<1>8. CASE UNCHANGED vars
  BY <1>8 DEF vars, IInv, Exclusive, PoolIsExclusive, MakersAreExclusive,
              QueuesAreExclusive, BatchesAreExclusive, NoneIsLost, PacketsAreKept
<1> QED  BY <1>1, <1>2, <1>3, <1>4, <1>5, <1>6, <1>7, <1>8 DEF Next, Update

LEMMA Invariance == Spec => []IInv
<1>1. IInv /\ [Next]_vars => IInv'
  BY TypeStep, OwnershipStep DEF IInv
<1> QED  BY InitInv, <1>1, PTL DEF Spec

\* The variables keep their types.
THEOREM TypeCorrect == Spec => []TypeOK
<1>1. IInv => TypeOK
  BY DEF IInv
<1> QED  BY <1>1, Invariance, PTL

\* A Job object that exists is in one place: the pool, one producer's hands, one
\* queue or one thread's batch, once (NoJobShared).
THEOREM JobsHaveOneOwner == Spec => []NoJobShared
<1>1. IInv => NoJobShared
  <2> SUFFICES ASSUME IInv, NEW j \in allocated
               PROVE  \E place \in Places(j) : Places(j) = {place}
    BY DEF NoJobShared
  <2> USE DEF IInv, Exclusive
  <2>1. j # NoJob
    BY DEF TypeOK, Job, NoJob
  <2>2. CASE \E i \in DOMAIN pool : pool[i] = j
    <3>1. PICK i \in DOMAIN pool : pool[i] = j
      BY <2>2
    <3>2. /\ {k \in DOMAIN pool : pool[k] = j} = {i}
          /\ {q \in Producer : making[q] = j} = {}
          /\ \A t \in Thread : /\ {k \in DOMAIN jobs[t] : jobs[t][k] = j} = {}
                               /\ {k \in DOMAIN currJobs[t] : currJobs[t][k] = j} = {}
      BY <3>1 DEF PoolIsExclusive
    <3>3. InPool(j) = {<<"pool", i>>} /\ MadeBy(j) = {}
      BY <3>2 DEF InPool, MadeBy
    <3>4. \A t \in Thread : InQueue(j, t) = {} /\ InBatch(j, t) = {}
      BY <3>2 DEF InQueue, InBatch
    <3>5. InQueues(j) = {} /\ InBatches(j) = {}
      BY <3>4 DEF InQueues, InBatches
    <3>6. Places(j) = {<<"pool", i>>}
      BY <3>3, <3>5 DEF Places
    <3> QED  BY <3>6
  <2>3. CASE \E p \in Producer : making[p] = j
    <3>1. PICK p \in Producer : making[p] = j
      BY <2>3
    <3>2. /\ {k \in DOMAIN pool : pool[k] = j} = {}
          /\ {q \in Producer : making[q] = j} = {p}
          /\ \A t \in Thread : /\ {k \in DOMAIN jobs[t] : jobs[t][k] = j} = {}
                               /\ {k \in DOMAIN currJobs[t] : currJobs[t][k] = j} = {}
      BY <2>1, <3>1 DEF PoolIsExclusive, MakersAreExclusive
    <3>3. InPool(j) = {} /\ MadeBy(j) = {<<"made by", p>>}
      BY <3>2 DEF InPool, MadeBy
    <3>4. \A t \in Thread : InQueue(j, t) = {} /\ InBatch(j, t) = {}
      BY <3>2 DEF InQueue, InBatch
    <3>5. InQueues(j) = {} /\ InBatches(j) = {}
      BY <3>4 DEF InQueues, InBatches
    <3>6. Places(j) = {<<"made by", p>>}
      BY <3>3, <3>5 DEF Places
    <3> QED  BY <3>6
  <2>4. CASE \E u \in Thread : \E i \in DOMAIN jobs[u] : jobs[u][i] = j
    <3>1. PICK u \in Thread : \E i \in DOMAIN jobs[u] : jobs[u][i] = j
      BY <2>4
    <3>2. PICK i \in DOMAIN jobs[u] : jobs[u][i] = j
      BY <3>1
    <3>3. /\ {k \in DOMAIN pool : pool[k] = j} = {}
          /\ {q \in Producer : making[q] = j} = {}
          /\ \A t \in Thread :
                /\ {k \in DOMAIN jobs[t] : jobs[t][k] = j} = IF t = u THEN {i} ELSE {}
                /\ {k \in DOMAIN currJobs[t] : currJobs[t][k] = j} = {}
      BY <2>1, <3>2 DEF PoolIsExclusive, MakersAreExclusive, QueuesAreExclusive
    <3>4. InPool(j) = {} /\ MadeBy(j) = {} /\ InQueue(j, u) = {<<"queue", u, i>>}
      BY <3>1, <3>3 DEF InPool, MadeBy, InQueue
    <3>5. \A t \in Thread : InBatch(j, t) = {} /\ (t # u => InQueue(j, t) = {})
      BY <3>3 DEF InQueue, InBatch
    <3>6. InQueues(j) = {<<"queue", u, i>>} /\ InBatches(j) = {}
      BY <3>1, <3>4, <3>5 DEF InQueues, InBatches
    <3>7. Places(j) = {<<"queue", u, i>>}
      BY <3>4, <3>6 DEF Places
    <3> QED  BY <3>7
  <2>5. CASE \E u \in Thread : \E i \in DOMAIN currJobs[u] : currJobs[u][i] = j
    <3>1. PICK u \in Thread : \E i \in DOMAIN currJobs[u] : currJobs[u][i] = j
      BY <2>5
    <3>2. PICK i \in DOMAIN currJobs[u] : currJobs[u][i] = j
      BY <3>1
    <3>3. /\ {k \in DOMAIN pool : pool[k] = j} = {}
          /\ {q \in Producer : making[q] = j} = {}
          /\ \A t \in Thread :
                /\ {k \in DOMAIN jobs[t] : jobs[t][k] = j} = {}
                /\ {k \in DOMAIN currJobs[t] : currJobs[t][k] = j}
                      = IF t = u THEN {i} ELSE {}
      BY <2>1, <3>2 DEF PoolIsExclusive, MakersAreExclusive, QueuesAreExclusive,
                        BatchesAreExclusive
    <3>4. InPool(j) = {} /\ MadeBy(j) = {} /\ InBatch(j, u) = {<<"batch", u, i>>}
      BY <3>1, <3>3 DEF InPool, MadeBy, InBatch
    <3>5. \A t \in Thread : InQueue(j, t) = {} /\ (t # u => InBatch(j, t) = {})
      BY <3>3 DEF InQueue, InBatch
    <3>6. InQueues(j) = {} /\ InBatches(j) = {<<"batch", u, i>>}
      BY <3>1, <3>4, <3>5 DEF InQueues, InBatches
    <3>7. Places(j) = {<<"batch", u, i>>}
      BY <3>4, <3>6 DEF Places
    <3> QED  BY <3>7
  <2> QED  BY <2>2, <2>3, <2>4, <2>5 DEF NoneIsLost
<1> QED  BY <1>1, Invariance, PTL

-----------------------------------------------------------------------------
\* The packets that are queued for a thread are those of its sessions.
PacketsFor(t) == {c \in Packet : ThreadOf(c[1]) = t}

InboxOfThread == INSTANCE Inbox
    WITH Session <- Thread,
         PacketsOf <- [t \in Thread |-> PacketsFor(t)],
         pending <- [t \in Thread |-> PendingFor(t)],
         working <- [t \in Thread |-> WorkingFor(t)]

\* Each logic thread is one inbox: the packets that are queued for it are
\* handled in the order they were queued, each once, one at a time, whatever
\* sessions they are of (LogicManager::PushJob and Update).
IsFifo == InboxOfThread!InboxInit /\ [][InboxOfThread!InboxNext]_(InboxOfThread!inboxVars)

\* The sequences a thread works from.
LEMMA WaitingType ==
    ASSUME IInv, NEW t \in Thread
    PROVE  /\ currJobs[t] \in Seq(allocated) /\ jobs[t] \in Seq(allocated)
           /\ Rest(t) \in Seq(allocated) /\ Waiting(t) \in Seq(allocated)
           /\ Len(Waiting(t)) = Len(Rest(t)) + Len(jobs[t])
           /\ \A i \in 1 .. Len(Waiting(t)) :
                 Waiting(t)[i] = IF i <= Len(Rest(t)) THEN Rest(t)[i]
                                 ELSE jobs[t][i - Len(Rest(t))]
<1>1. currJobs[t] \in Seq(allocated) /\ jobs[t] \in Seq(allocated)
  BY DEF IInv, TypeOK
<1>2. Rest(t) \in Seq(allocated)
  <2>1. CASE currJobs[t] = << >>
    BY <1>1, <2>1 DEF Rest
  <2>2. CASE currJobs[t] # << >>
    <3>1. Tail(currJobs[t]) \in Seq(allocated)
      BY <1>1, <2>2, HeadTailProperties
    <3> QED  BY <1>1, <3>1 DEF Rest
  <2> QED  BY <2>1, <2>2
<1>3. /\ Waiting(t) \in Seq(allocated)
      /\ Len(Waiting(t)) = Len(Rest(t)) + Len(jobs[t])
      /\ \A i \in 1 .. Len(Rest(t)) + Len(jobs[t]) :
            Waiting(t)[i] = IF i <= Len(Rest(t)) THEN Rest(t)[i]
                            ELSE jobs[t][i - Len(Rest(t))]
  BY <1>1, <1>2, ConcatProperties DEF Waiting
<1> QED  BY <1>1, <1>2, <1>3

\* What waits is in the batch, the job in hand excepted, or in the queue.
LEMMA WaitingFrom ==
    ASSUME IInv, NEW t \in Thread, NEW i \in 1 .. Len(Waiting(t))
    PROVE  \/ \E k \in DOMAIN jobs[t] : Waiting(t)[i] = jobs[t][k]
           \/ \E k \in DOMAIN currJobs[t] :
                 /\ Waiting(t)[i] = currJobs[t][k]
                 /\ k > 1 \/ step[t] = "next"
<1>1. /\ currJobs[t] \in Seq(allocated) /\ jobs[t] \in Seq(allocated)
      /\ Rest(t) \in Seq(allocated)
      /\ Len(Waiting(t)) = Len(Rest(t)) + Len(jobs[t])
      /\ Waiting(t)[i] = IF i <= Len(Rest(t)) THEN Rest(t)[i]
                         ELSE jobs[t][i - Len(Rest(t))]
  BY WaitingType
<1>2. CASE i > Len(Rest(t))
  <2>1. i - Len(Rest(t)) \in DOMAIN jobs[t]
    BY <1>1, <1>2
  <2> QED  BY <1>1, <1>2, <2>1
<1>3. CASE i <= Len(Rest(t)) /\ (step[t] = "next" \/ currJobs[t] = << >>)
  <2>1. Rest(t) = currJobs[t]
    BY <1>3 DEF Rest, At
  <2>2. i \in DOMAIN currJobs[t] /\ step[t] = "next"
    BY <1>1, <1>3, <2>1
  <2> QED  BY <1>1, <1>3, <2>1, <2>2
<1>4. CASE i <= Len(Rest(t)) /\ step[t] # "next" /\ currJobs[t] # << >>
  <2>1. Rest(t) = Tail(currJobs[t])
    BY <1>4 DEF Rest, At
  <2>2. /\ Len(Tail(currJobs[t])) = Len(currJobs[t]) - 1
        /\ \A k \in 1 .. Len(Tail(currJobs[t])) : Tail(currJobs[t])[k] = currJobs[t][k + 1]
    BY <1>1, <1>4, HeadTailProperties
  <2>3. i + 1 \in DOMAIN currJobs[t] /\ Waiting(t)[i] = currJobs[t][i + 1] /\ i + 1 > 1
    BY <1>1, <1>4, <2>1, <2>2
  <2> QED  BY <2>3
<1> QED  BY <1>1, <1>2, <1>3, <1>4

\* A step that leaves the order and what waits alone leaves the inbox alone.
LEMMA SamePending ==
    ASSUME IInv, NEW t \in Thread,
           Waiting(t)' = Waiting(t),
           \A k \in DOMAIN jobs[t] : content'[jobs[t][k]] = content[jobs[t][k]],
           \A k \in DOMAIN currJobs[t] :
              k > 1 \/ step[t] = "next" => content'[currJobs[t][k]] = content[currJobs[t][k]]
    PROVE  PendingFor(t)' = PendingFor(t)
<1>1. \A i \in 1 .. Len(Waiting(t)) : content'[Waiting(t)[i]] = content[Waiting(t)[i]]
  BY WaitingFrom
<1> QED  BY <1>1 DEF PendingFor

\* What waits, as packets, is a sequence.
LEMMA PendingType ==
    ASSUME IInv, NEW t \in Thread
    PROVE  /\ PendingFor(t) \in Seq(Packet \cup {Cleared})
           /\ Len(PendingFor(t)) = Len(Waiting(t))
           /\ \A i \in 1 .. Len(Waiting(t)) : PendingFor(t)[i] = content[Waiting(t)[i]]
<1>1. Waiting(t) \in Seq(allocated) /\ Len(Waiting(t)) \in Nat
  BY WaitingType
<1>2. \A i \in 1 .. Len(Waiting(t)) : content[Waiting(t)[i]] \in Packet \cup {Cleared}
  BY <1>1 DEF IInv, TypeOK
<1> QED  BY <1>1, <1>2 DEF PendingFor

\* A step that leaves each thread's inbox alone is none of the inboxes'.
LEMMA NoInboxStep ==
    ASSUME \A t \in Thread : PendingFor(t)' = PendingFor(t) /\ WorkingFor(t)' = WorkingFor(t)
    PROVE  UNCHANGED InboxOfThread!inboxVars
BY DEF InboxOfThread!inboxVars

\* A producer that takes an object fills in nobody's packet.
LEMMA PopIsHidden ==
    ASSUME IInv, NEW j,
           \A t \in Thread : /\ \A k \in DOMAIN jobs[t] : jobs[t][k] # j
                             /\ \A k \in DOMAIN currJobs[t] : currJobs[t][k] # j,
           NEW c, content' = [content EXCEPT ![j] = c],
           UNCHANGED <<jobs, currJobs, step>>
    PROVE  UNCHANGED InboxOfThread!inboxVars
<1>1. ASSUME NEW t \in Thread
      PROVE  PendingFor(t)' = PendingFor(t) /\ WorkingFor(t)' = WorkingFor(t)
  <2>1. Waiting(t)' = Waiting(t)
    BY DEF Waiting, Rest, At
  <2>2. /\ \A k \in DOMAIN jobs[t] : content'[jobs[t][k]] = content[jobs[t][k]]
        /\ \A k \in DOMAIN currJobs[t] : content'[currJobs[t][k]] = content[currJobs[t][k]]
    <3>1. /\ \A k \in DOMAIN jobs[t] : jobs[t][k] \in Job
          /\ \A k \in DOMAIN currJobs[t] : currJobs[t][k] \in Job
      BY WaitingType DEF IInv, TypeOK
    <3> QED  BY <3>1 DEF IInv, TypeOK
  <2>3. PendingFor(t)' = PendingFor(t)
    BY <2>1, <2>2, SamePending
  <2>4. WorkingFor(t)' = WorkingFor(t)
    <3>1. CASE Handling(t)
      <4>1. 1 \in DOMAIN currJobs[t] /\ Head(currJobs[t]) = currJobs[t][1]
        BY <3>1, WaitingType DEF Handling, At
      <4> QED  BY <2>2, <4>1 DEF WorkingFor, Handling, At
    <3>2. CASE ~Handling(t)
      BY <3>2 DEF WorkingFor, Handling, At
    <3> QED  BY <3>1, <3>2
  <2> QED  BY <2>3, <2>4
<1> QED  BY <1>1, NoInboxStep

\* A packet that is queued arrives in the inbox of its thread.
LEMMA PushJobArrives ==
    ASSUME IInv, NEW p \in Producer, PushJob(p)
    PROVE  InboxOfThread!InboxNext
<1> DEFINE c == content[making[p]]
           u == ThreadOf(c[1])
<1>1. c \in Packet /\ making[p] \in allocated
  BY DEF PushJob, IInv, PacketsAreKept, TypeOK
<1>2. u \in Thread
  BY <1>1, JobQueuesAssumption DEF ThreadOf, Thread, Packet, Session
<1>3. /\ jobs' = [jobs EXCEPT ![u] = Append(@, making[p])]
      /\ UNCHANGED <<content, currJobs, step>>
  BY DEF PushJob
<1>4. ASSUME NEW t \in Thread
      PROVE  /\ WorkingFor(t)' = WorkingFor(t)
             /\ PendingFor(t)' = IF t = u THEN Append(PendingFor(t), c) ELSE PendingFor(t)
  <2> HIDE DEF u, c
  <2>1. WorkingFor(t)' = WorkingFor(t) /\ Rest(t)' = Rest(t)
    BY <1>3 DEF WorkingFor, Handling, Rest, At
  <2>2. CASE t # u
    <3>1. Waiting(t)' = Waiting(t)
      BY <1>2, <1>3, <2>1, <2>2 DEF Waiting, IInv, TypeOK
    <3> QED  BY <1>3, <2>1, <2>2, <3>1, SamePending
  <2>3. CASE t = u
    <3>1. jobs'[t] = Append(jobs[t], making[p])
      BY <1>2, <1>3, <2>3 DEF IInv, TypeOK
    <3>2. /\ Rest(t) \in Seq(allocated) /\ jobs[t] \in Seq(allocated)
          /\ Waiting(t) \in Seq(allocated)
      BY WaitingType
    <3>3. Waiting(t)' = Append(Waiting(t), making[p])
      <4>1. Waiting(t)' = Rest(t) \o Append(jobs[t], making[p])
        BY <2>1, <3>1 DEF Waiting
      <4> QED  BY <1>1, <3>2, <4>1 DEF Waiting
    <3>4. /\ Len(Waiting(t)') = Len(Waiting(t)) + 1
          /\ \A i \in 1 .. Len(Waiting(t)) : Waiting(t)'[i] = Waiting(t)[i]
          /\ Waiting(t)'[Len(Waiting(t)) + 1] = making[p]
      BY <1>1, <3>2, <3>3
    <3>5. PendingFor(t)' = [i \in 1 .. Len(Waiting(t)) + 1 |-> content[Waiting(t)'[i]]]
      BY <1>3, <3>4 DEF PendingFor
    <3>6. /\ PendingFor(t) \in Seq(Packet \cup {Cleared})
          /\ Len(PendingFor(t)) = Len(Waiting(t))
          /\ \A i \in 1 .. Len(Waiting(t)) : PendingFor(t)[i] = content[Waiting(t)[i]]
      BY PendingType
    <3>7. content[making[p]] = c
      BY DEF c
    <3>8. Append(PendingFor(t), c) = [i \in 1 .. Len(Waiting(t)) + 1 |->
                                        IF i = Len(Waiting(t)) + 1 THEN c
                                        ELSE PendingFor(t)[i]]
      BY <1>1, <3>6, <3>7, AppendIs
    <3>9. \A i \in 1 .. Len(Waiting(t)) + 1 :
             content[Waiting(t)'[i]] = IF i = Len(Waiting(t)) + 1 THEN c
                                       ELSE PendingFor(t)[i]
      BY <3>2, <3>4, <3>6, <3>7
    <3>10. PendingFor(t)' = Append(PendingFor(t), c)
      BY <3>5, <3>8, <3>9
    <3> QED  BY <2>1, <2>3, <3>10
  <2> QED  BY <2>2, <2>3
<1>5. InboxOfThread!Arrive(u, c)
  <2> HIDE DEF u, c
  <2> QED  BY <1>2, <1>4 DEF InboxOfThread!Arrive
<1>6. c \in [t \in Thread |-> PacketsFor(t)][u]
  BY <1>1, <1>2 DEF PacketsFor
<1> QED  BY <1>2, <1>5, <1>6 DEF InboxOfThread!InboxNext

\* A thread that takes its queue leaves the order alone.
LEMMA TakeAllIsHidden ==
    ASSUME IInv, NEW u \in Thread, TakeAll(u)
    PROVE  UNCHANGED InboxOfThread!inboxVars
<1>1. /\ currJobs[u] = << >> /\ step[u] = "next"
      /\ currJobs' = [currJobs EXCEPT ![u] = jobs[u]]
      /\ jobs' = [jobs EXCEPT ![u] = << >>]
      /\ UNCHANGED <<content, step>>
  BY DEF TakeAll, IInv, PacketsAreKept
<1>2. ASSUME NEW t \in Thread
      PROVE  PendingFor(t)' = PendingFor(t) /\ WorkingFor(t)' = WorkingFor(t)
  <2>1. WorkingFor(t)' = WorkingFor(t)
    BY <1>1 DEF WorkingFor, Handling, At, IInv, TypeOK
  <2>2. CASE t # u
    <3>1. Waiting(t)' = Waiting(t)
      BY <1>1, <2>2 DEF Waiting, Rest, At, IInv, TypeOK
    <3> QED  BY <1>1, <2>1, <3>1, SamePending
  <2>3. CASE t = u
    <3>1. jobs[u] \in Seq(allocated)
      BY WaitingType
    <3>2. Rest(u) = << >> /\ Rest(u)' = jobs[u] /\ jobs'[u] = << >>
      BY <1>1 DEF Rest, At, IInv, TypeOK
    <3>3. Waiting(u)' = Waiting(u)
      BY <3>1, <3>2, ConcatEmptySeq DEF Waiting
    <3> QED  BY <1>1, <2>1, <2>3, <3>3, SamePending
  <2> QED  BY <2>2, <2>3
<1> QED  BY <1>2, NoInboxStep

\* A thread starts on the packet that waits longest.
LEMMA HandleStarts ==
    ASSUME IInv, NEW u \in Thread, Handle(u)
    PROVE  InboxOfThread!InboxNext
<1>1. /\ currJobs[u] # << >> /\ step[u] = "next"
      /\ step' = [step EXCEPT ![u] = "handling"]
      /\ step'[u] = "handling"
      /\ UNCHANGED <<content, currJobs, jobs>>
  BY DEF Handle, At, IInv, TypeOK
<1>2. ASSUME NEW t \in Thread, t # u
      PROVE  PendingFor(t)' = PendingFor(t) /\ WorkingFor(t)' = WorkingFor(t)
  <2>1. step'[t] = step[t]
    BY <1>1, <1>2 DEF IInv, TypeOK
  <2>2. WorkingFor(t)' = WorkingFor(t)
    BY <1>1, <2>1 DEF WorkingFor, Handling, At
  <2>3. Waiting(t)' = Waiting(t)
    BY <1>1, <2>1 DEF Waiting, Rest, At
  <2> QED  BY <1>1, <2>2, <2>3, SamePending
<1> DEFINE b == currJobs[u]
           n == Len(b) + Len(jobs[u])
<1>3. /\ b \in Seq(allocated) /\ b # << >> /\ jobs[u] \in Seq(allocated)
      /\ Rest(u) = b /\ Rest(u)' = Tail(b)
  BY <1>1, WaitingType DEF Rest, At
<1>4. /\ Head(b) = b[1] /\ Tail(b) \in Seq(allocated)
      /\ Len(b) \in Nat \ {0} /\ Len(jobs[u]) \in Nat
      /\ Len(Tail(b)) = Len(b) - 1
      /\ \A i \in 1 .. Len(b) - 1 : Tail(b)[i] = b[i + 1]
  BY <1>3, HeadTailProperties
<1>5. /\ Len(Waiting(u)) = n
      /\ \A i \in 1 .. n : Waiting(u)[i] = IF i <= Len(b) THEN b[i] ELSE jobs[u][i - Len(b)]
  BY <1>3, WaitingType
<1>6. /\ Waiting(u)' = Tail(b) \o jobs[u]
      /\ Len(Tail(b) \o jobs[u]) = n - 1
      /\ \A i \in 1 .. n - 1 :
            (Tail(b) \o jobs[u])[i]
               = IF i <= Len(b) - 1 THEN Tail(b)[i] ELSE jobs[u][i - (Len(b) - 1)]
  <2>1. Waiting(u)' = Tail(b) \o jobs[u]
    BY <1>1, <1>3 DEF Waiting
  <2>2. /\ Len(Tail(b) \o jobs[u]) = Len(Tail(b)) + Len(jobs[u])
        /\ \A i \in 1 .. Len(Tail(b)) + Len(jobs[u]) :
              (Tail(b) \o jobs[u])[i]
                 = IF i <= Len(Tail(b)) THEN Tail(b)[i] ELSE jobs[u][i - Len(Tail(b))]
    BY <1>3, <1>4, ConcatProperties
  <2>3. Len(Tail(b)) + Len(jobs[u]) = n - 1
    <3> HIDE DEF b
    <3> QED  BY <1>4
  <2> QED  BY <1>4, <2>1, <2>2, <2>3
<1>7. \A i \in 1 .. n - 1 : Waiting(u)'[i] = Waiting(u)[i + 1]
  <2> SUFFICES ASSUME NEW i \in 1 .. n - 1
               PROVE  Waiting(u)'[i] = Waiting(u)[i + 1]
    OBVIOUS
  <2> HIDE DEF b
  <2>1. i + 1 \in 1 .. n
    BY <1>4
  <2>2. CASE i <= Len(b) - 1
    BY <1>4, <1>5, <1>6, <2>1, <2>2
  <2>3. CASE ~(i <= Len(b) - 1)
    <3>1. ~(i + 1 <= Len(b)) /\ i - (Len(b) - 1) = i + 1 - Len(b)
      BY <1>4, <2>3
    <3>2. Waiting(u)'[i] = jobs[u][i - (Len(b) - 1)]
      BY <1>6, <2>3
    <3>3. Waiting(u)[i + 1] = jobs[u][i + 1 - Len(b)]
      BY <1>5, <2>1, <3>1
    <3> QED  BY <3>1, <3>2, <3>3
  <2> QED  BY <2>2, <2>3
<1>8. /\ PendingFor(u) \in Seq(Packet \cup {Cleared}) /\ Len(PendingFor(u)) = n
      /\ \A i \in 1 .. n : PendingFor(u)[i] = content[Waiting(u)[i]]
  BY <1>5, PendingType
<1> HIDE DEF b, n
<1>9. n \in Nat \ {0}
  BY <1>4 DEF n
<1>10. /\ PendingFor(u) # << >>
       /\ Head(PendingFor(u)) = content[b[1]]
       /\ Tail(PendingFor(u)) = [i \in 1 .. n - 1 |-> PendingFor(u)[i + 1]]
  <2>1. PendingFor(u) # << >>
    BY <1>8, <1>9
  <2>2. Head(PendingFor(u)) = PendingFor(u)[1] /\ 1 \in 1 .. n
    BY <1>8, <1>9
  <2>3. Waiting(u)[1] = b[1]
    BY <1>4, <1>5, <2>2
  <2>4. Tail(PendingFor(u)) = [i \in 1 .. n - 1 |-> PendingFor(u)[i + 1]]
    BY <1>8, <2>1, TailIs
  <2> QED  BY <1>8, <2>1, <2>2, <2>3, <2>4
<1>11. PendingFor(u)' = Tail(PendingFor(u))
  <2>1. PendingFor(u)' = [i \in 1 .. n - 1 |-> content[Waiting(u)'[i]]]
    BY <1>1, <1>6 DEF PendingFor
  <2>2. \A i \in 1 .. n - 1 : content[Waiting(u)'[i]] = PendingFor(u)[i + 1]
    BY <1>7, <1>8, <1>9
  <2> QED  BY <1>10, <2>1, <2>2
<1>12. WorkingFor(u) = {} /\ WorkingFor(u)' = {Head(PendingFor(u))}
  BY <1>1, <1>4, <1>10 DEF WorkingFor, Handling, At, b
<1>13. InboxOfThread!Start(u)
  BY <1>2, <1>10, <1>11, <1>12 DEF InboxOfThread!Start
<1> QED  BY <1>13 DEF InboxOfThread!InboxNext

\* A handler that returns is done with its packet.
LEMMA HandlerReturnsIsDone ==
    ASSUME IInv, NEW u \in Thread, HandlerReturns(u)
    PROVE  InboxOfThread!InboxNext
<1>1. /\ currJobs[u] # << >> /\ step[u] = "handling"
      /\ step' = [step EXCEPT ![u] = "handled"]
      /\ step'[u] = "handled"
      /\ \A t \in Thread : t # u => step'[t] = step[t]
      /\ UNCHANGED <<content, currJobs, jobs>>
  BY DEF HandlerReturns, At, IInv, TypeOK
<1>2. ASSUME NEW t \in Thread
      PROVE  PendingFor(t)' = PendingFor(t)
  <2>1. Waiting(t)' = Waiting(t)
    BY <1>1 DEF Waiting, Rest, At
  <2> QED  BY <1>1, <2>1, SamePending
<1>3. ASSUME NEW t \in Thread
      PROVE  WorkingFor(t)' = IF t = u THEN {} ELSE WorkingFor(t)
  BY <1>1 DEF WorkingFor, Handling, At
<1>4. WorkingFor(u) # {}
  BY <1>1 DEF WorkingFor, Handling, At
<1>5. InboxOfThread!Done(u)
  BY <1>2, <1>3, <1>4 DEF InboxOfThread!Done
<1> QED  BY <1>5 DEF InboxOfThread!InboxNext

\* Clearing a job clears no packet that waits or is being handled.
LEMMA ClearJobIsHidden ==
    ASSUME IInv, NEW u \in Thread, ClearJob(u)
    PROVE  UNCHANGED InboxOfThread!inboxVars
<1> DEFINE j == currJobs[u][1]
<1>1. /\ currJobs[u] # << >> /\ step[u] = "handled"
      /\ Head(currJobs[u]) = j /\ 1 \in DOMAIN currJobs[u]
      /\ content' = [content EXCEPT ![j] = Cleared]
      /\ step'[u] = "cleared"
      /\ \A t \in Thread : t # u => step'[t] = step[t]
      /\ UNCHANGED <<currJobs, jobs>>
  BY WaitingType DEF ClearJob, At, IInv, TypeOK
<1>2. ASSUME NEW t \in Thread
      PROVE  PendingFor(t)' = PendingFor(t) /\ WorkingFor(t)' = WorkingFor(t)
  <2>1. Waiting(t)' = Waiting(t)
    BY <1>1 DEF Waiting, Rest, At
  <2>2. /\ \A k \in DOMAIN jobs[t] : jobs[t][k] \in Job /\ jobs[t][k] # j
        /\ \A k \in DOMAIN currJobs[t] :
              currJobs[t][k] \in Job /\ (t # u \/ k # 1 => currJobs[t][k] # j)
    <3>1. /\ \A k \in DOMAIN jobs[t] : jobs[t][k] # j
          /\ \A k \in DOMAIN currJobs[t] : t # u \/ k # 1 => currJobs[t][k] # j
      BY <1>1 DEF IInv, Exclusive, QueuesAreExclusive, BatchesAreExclusive
    <3>2. /\ \A k \in DOMAIN jobs[t] : jobs[t][k] \in Job
          /\ \A k \in DOMAIN currJobs[t] : currJobs[t][k] \in Job
      BY WaitingType DEF IInv, TypeOK
    <3> QED  BY <3>1, <3>2
  <2> HIDE DEF j
  <2>3. /\ \A k \in DOMAIN jobs[t] : content'[jobs[t][k]] = content[jobs[t][k]]
        /\ \A k \in DOMAIN currJobs[t] :
              t # u \/ k # 1 => content'[currJobs[t][k]] = content[currJobs[t][k]]
    BY <1>1, <2>2 DEF IInv, TypeOK
  <2>4. \A k \in DOMAIN currJobs[t] :
           k > 1 \/ step[t] = "next" => content'[currJobs[t][k]] = content[currJobs[t][k]]
    <3> SUFFICES ASSUME NEW k \in DOMAIN currJobs[t], k > 1 \/ step[t] = "next"
                 PROVE  t # u \/ k # 1
      BY <2>3
    <3> QED  BY <1>1
  <2>5. PendingFor(t)' = PendingFor(t)
    BY <2>1, <2>3, <2>4, SamePending
  <2>6. WorkingFor(t)' = WorkingFor(t)
    <3>1. CASE t = u
      BY <1>1, <3>1 DEF WorkingFor, Handling, At
    <3>2. CASE t # u /\ ~Handling(t)
      BY <1>1, <3>2 DEF WorkingFor, Handling, At
    <3>3. CASE t # u /\ Handling(t)
      <4>1. 1 \in DOMAIN currJobs[t] /\ Head(currJobs[t]) = currJobs[t][1]
        BY <3>3, WaitingType DEF Handling, At
      <4>2. content'[Head(currJobs[t])] = content[Head(currJobs[t])]
        BY <2>3, <3>3, <4>1
      <4> QED  BY <1>1, <3>3, <4>2 DEF WorkingFor, Handling, At
    <3> QED  BY <3>1, <3>2, <3>3
  <2> QED  BY <2>5, <2>6
<1> QED  BY <1>2, NoInboxStep

\* Returning an object leaves what waits alone.
LEMMA PushToPoolIsHidden ==
    ASSUME IInv, NEW u \in Thread, PushToPool(u)
    PROVE  UNCHANGED InboxOfThread!inboxVars
<1>1. /\ currJobs[u] # << >> /\ step[u] = "cleared"
      /\ currJobs'[u] = Tail(currJobs[u]) /\ step'[u] = "next"
      /\ \A t \in Thread : t # u => currJobs'[t] = currJobs[t] /\ step'[t] = step[t]
      /\ UNCHANGED <<content, jobs>>
  BY DEF PushToPool, At, IInv, TypeOK
<1>2. ASSUME NEW t \in Thread
      PROVE  PendingFor(t)' = PendingFor(t) /\ WorkingFor(t)' = WorkingFor(t)
  <2>1. Rest(t)' = Rest(t)
    <3>1. CASE t = u
      <4>1. Rest(u) = Tail(currJobs[u]) /\ Rest(u)' = Tail(currJobs[u])
        BY <1>1 DEF Rest, At
      <4> QED  BY <3>1, <4>1
    <3>2. CASE t # u
      BY <1>1, <3>2 DEF Rest, At
    <3> QED  BY <3>1, <3>2
  <2>2. Waiting(t)' = Waiting(t)
    BY <1>1, <2>1 DEF Waiting
  <2>3. WorkingFor(t)' = WorkingFor(t)
    BY <1>1 DEF WorkingFor, Handling, At
  <2> QED  BY <1>1, <2>2, <2>3, SamePending
<1> QED  BY <1>2, NoInboxStep

LEMMA FifoStep == IInv /\ [Next]_vars => [InboxOfThread!InboxNext]_(InboxOfThread!inboxVars)
<1> SUFFICES ASSUME IInv, [Next]_vars
             PROVE  InboxOfThread!InboxNext \/ UNCHANGED InboxOfThread!inboxVars
  OBVIOUS
<1>1. ASSUME NEW p \in Producer, NEW s \in Session, Pop(p, s)
      PROVE  UNCHANGED InboxOfThread!inboxVars
  <2>1. 1 \in DOMAIN pool /\ Head(pool) = pool[1]
    BY <1>1 DEF Pop, IInv, TypeOK
  <2>2. \A t \in Thread : /\ \A k \in DOMAIN jobs[t] : jobs[t][k] # pool[1]
                          /\ \A k \in DOMAIN currJobs[t] : currJobs[t][k] # pool[1]
    BY <2>1 DEF IInv, Exclusive, PoolIsExclusive
  <2>3. /\ content' = [content EXCEPT ![pool[1]] = <<s, pushes'>>]
        /\ UNCHANGED <<jobs, currJobs, step>>
    BY <1>1, <2>1 DEF Pop
  <2> QED  BY <2>2, <2>3, PopIsHidden
<1>2. ASSUME NEW p \in Producer, NEW s \in Session, PopNew(p, s)
      PROVE  UNCHANGED InboxOfThread!inboxVars
  <2>1. PICK j \in Job \ allocated : content' = [content EXCEPT ![j] = <<s, pushes'>>]
    BY <1>2 DEF PopNew
  <2>2. \A t \in Thread : /\ \A k \in DOMAIN jobs[t] : jobs[t][k] # j
                          /\ \A k \in DOMAIN currJobs[t] : currJobs[t][k] # j
    <3>1. \A t \in Thread : /\ \A k \in DOMAIN jobs[t] : jobs[t][k] \in allocated
                            /\ \A k \in DOMAIN currJobs[t] : currJobs[t][k] \in allocated
      BY WaitingType
    <3> QED  BY <2>1, <3>1
  <2>3. UNCHANGED <<jobs, currJobs, step>>
    BY <1>2 DEF PopNew
  <2> QED  BY <2>1, <2>2, <2>3, PopIsHidden
<1>3. CASE UNCHANGED vars
  <2>1. \A t \in Thread : PendingFor(t)' = PendingFor(t) /\ WorkingFor(t)' = WorkingFor(t)
    BY <1>3 DEF vars, PendingFor, WorkingFor, Waiting, Rest, Handling, At
  <2> QED  BY <2>1, NoInboxStep
<1> QED  BY <1>1, <1>2, <1>3, PushJobArrives, TakeAllIsHidden, HandleStarts,
            HandlerReturnsIsDone, ClearJobIsHidden, PushToPoolIsHidden DEF Next, Update

\* Whatever the numbers of threads, sessions and producers and the limit of the
\* pool, a logic thread handles what is queued for it first in, first out, each
\* packet once and one at a time, and only packets of the sessions ThreadOf
\* gives it (LogicManager::PushJob and Update).
THEOREM ThreadsAreFifo == Spec => IsFifo
<1>1. Init => InboxOfThread!InboxInit
  <2> SUFFICES ASSUME Init, NEW t \in Thread
               PROVE  PendingFor(t) = << >> /\ WorkingFor(t) = {}
    BY DEF InboxOfThread!InboxInit
  <2>1. Waiting(t) = << >>
    BY DEF Init, Waiting, Rest
  <2>2. Len(Waiting(t)) = 0
    BY <2>1
  <2> QED  BY <2>2 DEF Init, PendingFor, WorkingFor, Handling, At
<1> QED  BY <1>1, Invariance, FifoStep, PTL DEF Spec, IsFifo

-----------------------------------------------------------------------------
\* A set of numbers has a least.
LEMMA LeastOf ==
    ASSUME NEW S \in SUBSET Nat, S # {}
    PROVE  \E m \in S : \A n \in S : m <= n
<1> DEFINE Less == {ss \in Nat \X Nat : ss[1] < ss[2]}
<1>1. IsWellFoundedOn(Less, Nat)
  BY NatLessThanWellFounded DEF OpToRel
<1> HIDE DEF Less
<1>2. PICK m \in S : \A n \in S : ~ (<<n, m>> \in Less)
  BY <1>1, WFMin
<1>3. \A n \in S : ~ (n < m)
  BY <1>2 DEF Less
<1> QED  BY <1>2, <1>3

\* A set that has 0 and passes from each number to the next has all up to m.
LEMMA Climb ==
    ASSUME NEW m \in Nat, NEW S, 0 \in S,
           \A n \in 0 .. m, k \in 0 .. m : k = n + 1 /\ n \in S => k \in S
    PROVE  \A n \in 0 .. m : n \in S
<1> SUFFICES ASSUME (0 .. m) \ S # {}
             PROVE  FALSE
  OBVIOUS
<1>1. PICK k \in (0 .. m) \ S : \A n \in (0 .. m) \ S : k <= n
  <2>1. (0 .. m) \ S \in SUBSET Nat
    OBVIOUS
  <2> QED  BY <2>1, LeastOf
<1>2. PICK n \in 0 .. m : k = n + 1
  <2>1. k \in 1 .. m
    BY <1>1
  <2>2. k - 1 \in 0 .. m /\ k = (k - 1) + 1
    BY <2>1
  <2> QED  BY <2>2
<1>3. n \in S
  BY <1>1, <1>2
<1> QED  BY <1>1, <1>2, <1>3

-----------------------------------------------------------------------------
\* f joins the first n parts, for each n.
Joins(f, parts, m) ==
    /\ f[0] = << >>
    /\ \A n \in 0 .. m, k \in 0 .. m : k = n + 1 => f[k] = f[n] \o parts[k]

\* FlattenSeq's function.
Flatten(g, parts, m) ==
    g = [i \in 1 .. m |-> IF i = 1 THEN parts[i] ELSE g[i - 1] \o parts[i]]

LEMMA FlattenExists ==
    ASSUME NEW parts, NEW m \in Nat, m # 0
    PROVE  \E g : Flatten(g, parts, m)
<1> DEFINE S == {n \in Nat : n = 0 \/ \E g : Flatten(g, parts, n)}
<1>1. 0 \in S
  OBVIOUS
<1>2. ASSUME NEW n \in 0 .. m, NEW k \in 0 .. m, k = n + 1, n \in S
      PROVE  k \in S
  <2>1. CASE n = 0
    <3>1. PICK g : g = [i \in 1 .. 1 |-> parts[i]]
      OBVIOUS
    <3>2. Flatten(g, parts, 1) /\ k = 1
      BY <1>2, <2>1, <3>1 DEF Flatten
    <3> QED  BY <3>2
  <2>2. CASE n # 0
    <3>1. PICK g : Flatten(g, parts, n)
      BY <1>2, <2>2
    <3>2. PICK last : last = g[n] \o parts[k]
      OBVIOUS
    <3>3. PICK h : h = [i \in 1 .. k |-> IF i = k THEN last ELSE g[i]]
      OBVIOUS
    <3>4. ASSUME NEW i \in 1 .. k
          PROVE  h[i] = IF i = 1 THEN parts[i] ELSE h[i - 1] \o parts[i]
      <4>1. CASE i = k
        <5>1. h[i] = last /\ h[i - 1] = g[n] /\ i # 1
          BY <1>2, <2>2, <3>3, <4>1
        <5> QED  BY <3>2, <4>1, <5>1
      <4>2. CASE i # k
        <5>1. i \in 1 .. n /\ h[i] = g[i] /\ (i # 1 => h[i - 1] = g[i - 1])
          BY <1>2, <3>3, <4>2
        <5>2. g[i] = IF i = 1 THEN parts[i] ELSE g[i - 1] \o parts[i]
          BY <3>1, <5>1 DEF Flatten
        <5> QED  BY <5>1, <5>2
      <4> QED  BY <4>1, <4>2
    <3>5. h = [i \in 1 .. k |-> h[i]]
      BY <3>3
    <3>6. Flatten(h, parts, k)
      BY <3>4, <3>5 DEF Flatten
    <3> QED  BY <3>6
  <2> QED  BY <2>1, <2>2
<1> HIDE DEF S
<1>3. \A n \in 0 .. m : n \in S
  BY <1>1, <1>2, Climb
<1>4. m \in S
  BY <1>3
<1> QED  BY <1>4 DEF S

\* What FlattenSeq computes, part by part.
LEMMA FlattenIs ==
    ASSUME NEW T, NEW parts \in Seq(Seq(T)), NEW m \in Nat, Len(parts) = m
    PROVE  \E f : /\ FlattenSeq(parts) = f[m] /\ Joins(f, parts, m)
                  /\ \A n \in 0 .. m : f[n] \in Seq(T)
<1>1. PICK f : Joins(f, parts, m) /\ FlattenSeq(parts) = f[m]
  <2>1. CASE m = 0
    <3>1. FlattenSeq(parts) = << >>
      BY <2>1 DEF FlattenSeq
    <3>2. PICK f : f = [n \in 0 .. m |-> << >>]
      OBVIOUS
    <3>3. Joins(f, parts, m) /\ f[m] = << >>
      BY <2>1, <3>2 DEF Joins
    <3> QED  BY <3>1, <3>3
  <2>2. CASE m # 0
    <3> DEFINE g == CHOOSE g : Flatten(g, parts, m)
    <3>1. Flatten(g, parts, m)
      BY <2>2, FlattenExists
    <3>2. FlattenSeq(parts) = g[m]
      BY <2>2 DEF FlattenSeq, Flatten
    <3> HIDE DEF g
    <3>3. PICK f : f = [n \in 0 .. m |-> IF n = 0 THEN << >> ELSE g[n]]
      OBVIOUS
    <3>4. ASSUME NEW n \in 0 .. m, NEW k \in 0 .. m, k = n + 1
          PROVE  f[k] = f[n] \o parts[k]
      <4>1. g[k] = IF k = 1 THEN parts[k] ELSE g[k - 1] \o parts[k]
        <5>1. k \in 1 .. m
          BY <3>4
        <5> QED  BY <3>1, <5>1 DEF Flatten
      <4>2. f[k] = g[k] /\ k - 1 = n /\ (k # 1 => f[n] = g[n]) /\ (k = 1 => f[n] = << >>)
        BY <3>3, <3>4
      <4>3. << >> \o parts[k] = parts[k]
        <5>1. parts[k] \in Seq(T)
          BY <3>4
        <5> QED  BY <5>1, ConcatEmptySeq
      <4> QED  BY <4>1, <4>2, <4>3
    <3>5. f[0] = << >> /\ f[m] = g[m]
      BY <2>2, <3>3
    <3> QED  BY <3>2, <3>4, <3>5 DEF Joins
  <2> QED  BY <2>1, <2>2
<1> DEFINE S == {n \in 0 .. m : f[n] \in Seq(T)}
<1>2. 0 \in S
  <2>1. f[0] \in Seq(T)
    BY <1>1 DEF Joins
  <2> QED  BY <2>1
<1>3. ASSUME NEW n \in 0 .. m, NEW k \in 0 .. m, k = n + 1, n \in S
      PROVE  k \in S
  <2>1. f[k] = f[n] \o parts[k]
    BY <1>1, <1>3 DEF Joins
  <2>2. PICK q \in Seq(T), r \in Seq(T) : q = f[n] /\ r = parts[k]
    BY <1>3
  <2>3. q \o r \in Seq(T)
    BY ConcatProperties
  <2> QED  BY <2>1, <2>2, <2>3
<1> HIDE DEF S
<1>4. \A n \in 0 .. m : n \in S
  BY <1>2, <1>3, Climb
<1>5. \A n \in 0 .. m : f[n] \in Seq(T)
  BY <1>4 DEF S
<1> QED  BY <1>1, <1>5

LEMMA FlattenLast ==
    ASSUME NEW T, NEW parts \in Seq(Seq(T)), NEW p \in Seq(T)
    PROVE  /\ FlattenSeq(parts) \in Seq(T)
           /\ FlattenSeq(Append(parts, p)) = FlattenSeq(parts) \o p
<1>1. PICK m \in Nat : m = Len(parts)
  OBVIOUS
<1>2. PICK more \in Seq(Seq(T)) : more = Append(parts, p)
  <2>1. Append(parts, p) \in Seq(Seq(T))
    BY AppendProperties
  <2> QED  BY <2>1
<1>3. PICK l \in Nat : l = m + 1
  OBVIOUS
<1>4. /\ Len(more) = l /\ more[l] = p
      /\ \A n \in 1 .. m : more[n] = parts[n]
  BY <1>1, <1>2, <1>3
<1>5. PICK f : /\ FlattenSeq(parts) = f[m] /\ Joins(f, parts, m)
               /\ \A n \in 0 .. m : f[n] \in Seq(T)
  BY <1>1, FlattenIs
<1>6. PICK g : FlattenSeq(more) = g[l] /\ Joins(g, more, l)
  BY <1>4, FlattenIs
<1> DEFINE S == {n \in 0 .. m : f[n] = g[n]}
<1>7. 0 \in S
  BY <1>5, <1>6 DEF Joins
<1>8. ASSUME NEW n \in 0 .. m, NEW k \in 0 .. m, k = n + 1, n \in S
      PROVE  k \in S
  <2>1. f[k] = f[n] \o parts[k]
    BY <1>5, <1>8 DEF Joins
  <2>2. g[k] = g[n] \o more[k]
    <3>1. n \in 0 .. l /\ k \in 0 .. l
      BY <1>3
    <3> QED  BY <1>6, <1>8, <3>1 DEF Joins
  <2>3. more[k] = parts[k]
    <3>1. k \in 1 .. m
      BY <1>8
    <3> QED  BY <1>4, <3>1
  <2> QED  BY <1>8, <2>1, <2>2, <2>3
<1> HIDE DEF S
<1>9. f[m] = g[m]
  <2>1. \A n \in 0 .. m : n \in S
    BY <1>7, <1>8, Climb
  <2>2. m \in S
    BY <2>1
  <2> QED  BY <2>2 DEF S
<1>10. g[l] = g[m] \o more[l]
  <2>1. m \in 0 .. l /\ l \in 0 .. l
    BY <1>3
  <2> QED  BY <1>3, <1>6, <2>1 DEF Joins
<1>11. f[m] \in Seq(T)
  BY <1>5
<1> QED  BY <1>2, <1>4, <1>5, <1>6, <1>9, <1>10, <1>11

LEMMA FlattenFirst ==
    ASSUME NEW T, NEW parts \in Seq(Seq(T)), parts # << >>
    PROVE  FlattenSeq(parts) = Head(parts) \o FlattenSeq(Tail(parts))
<1>1. PICK x \in Seq(T), rest \in Seq(Seq(T)) : x = Head(parts) /\ rest = Tail(parts)
  BY HeadTailProperties
<1>2. PICK m \in Nat, l \in Nat : m = Len(rest) /\ l = m + 1
  OBVIOUS
<1>3. /\ x = parts[1] /\ Len(parts) = l
      /\ \A n \in 1 .. m : rest[n] = parts[n + 1]
  BY <1>1, <1>2, HeadTailProperties
<1>4. PICK f : FlattenSeq(parts) = f[l] /\ Joins(f, parts, l)
  BY <1>3, FlattenIs
<1>5. PICK g : /\ FlattenSeq(rest) = g[m] /\ Joins(g, rest, m)
               /\ \A n \in 0 .. m : g[n] \in Seq(T)
  BY <1>2, FlattenIs
<1> DEFINE S == {n \in 0 .. m : f[n + 1] = x \o g[n]}
<1>6. 0 \in S
  <2>1. f[0] = << >> /\ g[0] = << >>
    BY <1>4, <1>5 DEF Joins
  <2>2. PICK one \in 0 .. l : one = 1
    BY <1>2
  <2>3. f[one] = f[0] \o parts[one]
    <3>1. 0 \in 0 .. l /\ one = 0 + 1
      BY <2>2
    <3> QED  BY <1>4, <3>1 DEF Joins
  <2>4. << >> \o x = x \o << >>
    BY ConcatEmptySeq
  <2> QED  BY <1>3, <2>1, <2>2, <2>3, <2>4
<1>7. ASSUME NEW n \in 0 .. m, NEW k \in 0 .. m, k = n + 1, n \in S
      PROVE  k \in S
  <2>1. PICK j \in 0 .. l : j = k + 1
    BY <1>2
  <2>2. f[j] = f[k] \o parts[j]
    <3>1. k \in 0 .. l
      BY <1>2
    <3> QED  BY <1>4, <2>1, <3>1 DEF Joins
  <2>3. g[k] = g[n] \o rest[k]
    BY <1>5, <1>7 DEF Joins
  <2>4. PICK q \in Seq(T), r \in Seq(T) : q = g[n] /\ r = rest[k]
    BY <1>2, <1>5, <1>7
  <2>5. rest[k] = parts[j]
    BY <1>2, <1>3, <1>7, <2>1
  <2>6. f[k] = x \o q
    BY <1>7, <2>4
  <2>7. (x \o q) \o r = x \o (q \o r)
    OBVIOUS
  <2>8. f[j] = x \o g[k]
    BY <2>2, <2>3, <2>4, <2>5, <2>6, <2>7
  <2> QED  BY <2>1, <2>8
<1> HIDE DEF S
<1>8. f[l] = x \o g[m]
  <2>1. \A n \in 0 .. m : n \in S
    BY <1>6, <1>7, Climb
  <2>2. m \in S
    BY <2>1
  <2> QED  BY <1>2, <2>2 DEF S
<1> QED  BY <1>1, <1>4, <1>5, <1>8

\* If all parts but one are empty, that one is the whole.
LEMMA FlattenOne ==
    ASSUME NEW T, NEW parts \in Seq(Seq(T)), NEW c,
           \A i \in DOMAIN parts : i # c => parts[i] = << >>
    PROVE  FlattenSeq(parts) = IF c \in DOMAIN parts THEN parts[c] ELSE << >>
<1>1. PICK m \in Nat : m = Len(parts)
  OBVIOUS
<1>2. PICK f : /\ FlattenSeq(parts) = f[m] /\ Joins(f, parts, m)
               /\ \A n \in 0 .. m : f[n] \in Seq(T)
  BY <1>1, FlattenIs
<1> DEFINE S == {n \in 0 .. m : f[n] = IF c \in 1 .. n THEN parts[c] ELSE << >>}
<1>3. 0 \in S
  BY <1>2 DEF Joins
<1>4. ASSUME NEW n \in 0 .. m, NEW k \in 0 .. m, k = n + 1, n \in S
      PROVE  k \in S
  <2>1. f[k] = f[n] \o parts[k]
    BY <1>2, <1>4 DEF Joins
  <2>2. k \in DOMAIN parts /\ parts[k] \in Seq(T) /\ f[n] \in Seq(T)
    BY <1>1, <1>2, <1>4
  <2>3. CASE k = c
    <3>1. f[n] = << >> /\ c \in 1 .. k
      BY <1>4, <2>3
    <3> QED  BY <2>1, <2>2, <2>3, <3>1, ConcatEmptySeq
  <2>4. CASE k # c
    <3>1. parts[k] = << >> /\ (c \in 1 .. k <=> c \in 1 .. n)
      BY <1>4, <2>2, <2>4
    <3>2. f[k] = f[n]
      BY <2>1, <2>2, <3>1, ConcatEmptySeq
    <3> QED  BY <1>4, <3>1, <3>2
  <2> QED  BY <2>3, <2>4
<1> HIDE DEF S
<1>5. m \in S
  <2>1. \A n \in 0 .. m : n \in S
    BY <1>3, <1>4, Climb
  <2> QED  BY <2>1
<1> QED  BY <1>1, <1>2, <1>5 DEF S

-----------------------------------------------------------------------------
\* The packets of a session among others: when one comes last, and when the
\* first is taken away.
LEMMA PartType ==
    ASSUME NEW T, NEW s, NEW packets \in Seq(T)
    PROVE  /\ [i \in DOMAIN packets |-> Part(s, packets[i])] \in Seq(Seq(T))
           /\ Len([i \in DOMAIN packets |-> Part(s, packets[i])]) = Len(packets)
<1>1. \A i \in DOMAIN packets : Part(s, packets[i]) \in Seq(T)
  BY DEF Part
<1>2. PICK m \in Nat : m = Len(packets) /\ DOMAIN packets = 1 .. m
  OBVIOUS
<1>3. PICK f : f = [i \in 1 .. m |-> Part(s, packets[i])]
  OBVIOUS
<1>4. f \in [1 .. m -> Seq(T)]
  BY <1>1, <1>2, <1>3
<1>5. f \in Seq(Seq(T)) /\ Len(f) = m
  BY <1>4
<1> QED  BY <1>2, <1>3, <1>5

LEMMA OfSessionLast ==
    ASSUME NEW T, NEW s, NEW packets \in Seq(T), NEW x \in T
    PROVE  /\ OfSession(s, packets) \in Seq(T)
           /\ OfSession(s, Append(packets, x)) = OfSession(s, packets) \o Part(s, x)
<1>1. PICK parts \in Seq(Seq(T)) : parts = [i \in DOMAIN packets |-> Part(s, packets[i])]
  BY PartType
<1>2. PICK p \in Seq(T) : p = Part(s, x)
  <2>1. Part(s, x) \in Seq(T)
    BY DEF Part
  <2> QED  BY <2>1
<1>3. [i \in DOMAIN Append(packets, x) |-> Part(s, Append(packets, x)[i])]
         = Append(parts, p)
  <2>1. PICK m \in Nat : m = Len(packets) /\ DOMAIN packets = 1 .. m
    OBVIOUS
  <2>2. Append(parts, p) = [i \in 1 .. m + 1 |-> IF i = m + 1 THEN p ELSE parts[i]]
    BY <1>1, <2>1, PartType, AppendIs
  <2>3. /\ DOMAIN Append(packets, x) = 1 .. m + 1
        /\ \A i \in 1 .. m : Append(packets, x)[i] = packets[i]
        /\ Append(packets, x)[m + 1] = x
    BY <2>1, AppendProperties
  <2>4. \A i \in 1 .. m + 1 :
           Part(s, Append(packets, x)[i]) = IF i = m + 1 THEN p ELSE parts[i]
    BY <1>1, <1>2, <2>1, <2>3
  <2> QED  BY <2>2, <2>3, <2>4
<1> QED  BY <1>1, <1>2, <1>3, FlattenLast DEF OfSession

LEMMA OfSessionFirst ==
    ASSUME NEW T, NEW s, NEW packets \in Seq(T), packets # << >>
    PROVE  OfSession(s, packets) = Part(s, Head(packets)) \o OfSession(s, Tail(packets))
<1>1. PICK parts \in Seq(Seq(T)) :
         /\ parts = [i \in DOMAIN packets |-> Part(s, packets[i])]
         /\ Len(parts) = Len(packets)
  <2>1. PICK parts \in Seq(Seq(T)) : parts = [i \in DOMAIN packets |-> Part(s, packets[i])]
    BY PartType
  <2>2. Len(parts) = Len(packets)
    BY <2>1
  <2> QED  BY <2>1, <2>2
<1>2. PICK m \in Nat : Len(packets) = m + 1 /\ DOMAIN packets = 1 .. m + 1
  <2>1. Len(packets) \in Nat \ {0} /\ DOMAIN packets = 1 .. Len(packets)
    BY EmptySeq
  <2>2. Len(packets) - 1 \in Nat /\ Len(packets) = (Len(packets) - 1) + 1
    BY <2>1
  <2> QED  BY <2>1, <2>2
<1>3. /\ Head(packets) = packets[1]
      /\ Tail(packets) = [i \in 1 .. m |-> packets[i + 1]]
  BY <1>2, TailIs
<1>4. parts # << >> /\ Head(parts) = parts[1]
  BY <1>1, <1>2
<1>5. Tail(parts) = [i \in 1 .. m |-> parts[i + 1]]
  BY <1>1, <1>2, <1>4, TailIs
<1>6. Head(parts) = Part(s, Head(packets))
  BY <1>1, <1>2, <1>3, <1>4
<1>7. Tail(parts) = [i \in DOMAIN Tail(packets) |-> Part(s, Tail(packets)[i])]
  <2>1. \A i \in 1 .. m : parts[i + 1] = Part(s, Tail(packets)[i])
    BY <1>1, <1>2, <1>3
  <2>2. DOMAIN Tail(packets) = 1 .. m
    BY <1>3
  <2> QED  BY <1>5, <2>1, <2>2
<1> QED  BY <1>1, <1>4, <1>6, <1>7, FlattenFirst DEF OfSession

\* A thread has no packets of other threads' sessions.
LEMMA OfSessionNone ==
    ASSUME NEW s, NEW packets \in Seq(Packet), \A i \in DOMAIN packets : packets[i][1] # s
    PROVE  OfSession(s, packets) = << >>
<1>1. PICK parts \in Seq(Seq(Packet)) :
         parts = [i \in DOMAIN packets |-> Part(s, packets[i])]
  BY PartType
<1>2. \A i \in DOMAIN parts : parts[i] = << >>
  BY <1>1 DEF Part
<1>3. 0 \notin DOMAIN parts
  OBVIOUS
<1> QED  BY <1>1, <1>2, <1>3, FlattenOne DEF OfSession

-----------------------------------------------------------------------------
\* What is queued for a thread and being handled by it is of its sessions.
Sorted ==
    \A t \in Thread : /\ PendingFor(t) \in Seq(PacketsFor(t))
                      /\ WorkingFor(t) \subseteq PacketsFor(t)

\* What a step does to the threads' inboxes.
Arrives(u, c) ==
    /\ \A t \in Thread : WorkingFor(t)' = WorkingFor(t)
    /\ \A t \in Thread \ {u} : PendingFor(t)' = PendingFor(t)
    /\ PendingFor(u)' = Append(PendingFor(u), c)

Starts(u) ==
    /\ PendingFor(u) # << >> /\ WorkingFor(u) = {}
    /\ \A t \in Thread \ {u} :
          PendingFor(t)' = PendingFor(t) /\ WorkingFor(t)' = WorkingFor(t)
    /\ PendingFor(u)' = Tail(PendingFor(u))
    /\ WorkingFor(u)' = {Head(PendingFor(u))}

Finishes(u) ==
    /\ WorkingFor(u) # {} /\ WorkingFor(u)' = {}
    /\ \A t \in Thread : PendingFor(t)' = PendingFor(t)
    /\ \A t \in Thread \ {u} : WorkingFor(t)' = WorkingFor(t)

Rests == \A t \in Thread : PendingFor(t)' = PendingFor(t) /\ WorkingFor(t)' = WorkingFor(t)

ThreadStep ==
    \/ \E u \in Thread : Starts(u) \/ Finishes(u) \/ \E c \in PacketsFor(u) : Arrives(u, c)
    \/ Rests

LEMMA ThreadSteps ==
    ASSUME [InboxOfThread!InboxNext]_(InboxOfThread!inboxVars)
    PROVE  ThreadStep
<1>1. ASSUME NEW u \in Thread, InboxOfThread!Start(u)
      PROVE  Starts(u)
  BY <1>1 DEF InboxOfThread!Start, Starts
<1>2. ASSUME NEW u \in Thread, InboxOfThread!Done(u)
      PROVE  Finishes(u)
  BY <1>2 DEF InboxOfThread!Done, Finishes
<1>3. ASSUME NEW u \in Thread, NEW c \in PacketsFor(u), InboxOfThread!Arrive(u, c)
      PROVE  Arrives(u, c)
  BY <1>3 DEF InboxOfThread!Arrive, Arrives
<1>4. CASE UNCHANGED InboxOfThread!inboxVars
  <2>1. Rests
    BY <1>4 DEF InboxOfThread!inboxVars, Rests
  <2> QED  BY <2>1 DEF ThreadStep
<1>5. CASE InboxOfThread!InboxNext
  <2>1. PICK u \in Thread : \/ InboxOfThread!Start(u) \/ InboxOfThread!Done(u)
                            \/ \E c \in PacketsFor(u) : InboxOfThread!Arrive(u, c)
    BY <1>5 DEF InboxOfThread!InboxNext
  <2>2. Starts(u) \/ Finishes(u) \/ \E c \in PacketsFor(u) : Arrives(u, c)
    BY <1>1, <1>2, <1>3, <2>1
  <2> QED  BY <2>2 DEF ThreadStep
<1> QED  BY <1>4, <1>5 DEF ThreadStep

LEMMA SortedStep ==
    ASSUME Sorted, ThreadStep
    PROVE  Sorted'
<1> SUFFICES ASSUME NEW t \in Thread
             PROVE  /\ PendingFor(t)' \in Seq(PacketsFor(t))
                    /\ WorkingFor(t)' \subseteq PacketsFor(t)
  BY DEF Sorted, PacketsFor
<1>1. PendingFor(t) \in Seq(PacketsFor(t)) /\ WorkingFor(t) \subseteq PacketsFor(t)
  BY DEF Sorted
<1>2. CASE PendingFor(t)' = PendingFor(t) /\ WorkingFor(t)' = WorkingFor(t)
  BY <1>1, <1>2
<1>3. CASE Starts(t)
  <2>1. /\ Head(PendingFor(t)) \in PacketsFor(t)
        /\ Tail(PendingFor(t)) \in Seq(PacketsFor(t))
    BY <1>1, <1>3, HeadTailProperties DEF Starts
  <2> QED  BY <1>3, <2>1 DEF Starts
<1>4. CASE Finishes(t)
  BY <1>1, <1>4 DEF Finishes
<1>5. ASSUME NEW c \in PacketsFor(t), Arrives(t, c)
      PROVE  /\ PendingFor(t)' \in Seq(PacketsFor(t))
             /\ WorkingFor(t)' \subseteq PacketsFor(t)
  <2>1. Append(PendingFor(t), c) \in Seq(PacketsFor(t))
    BY <1>1, AppendProperties
  <2> QED  BY <1>1, <1>5, <2>1 DEF Arrives
<1> QED  BY <1>2, <1>3, <1>4, <1>5 DEF ThreadStep, Starts, Finishes, Arrives, Rests

\* What waits for a session is what its thread has for it.
SessionsFollow ==
    \A s \in Session :
        /\ PendingOf(s) = OfSession(s, PendingFor(ThreadOf(s)))
        /\ WorkingOf(s) = {c \in WorkingFor(ThreadOf(s)) : c[1] = s}

LEMMA Following == Sorted => SessionsFollow
<1> SUFFICES ASSUME Sorted, NEW s \in Session
             PROVE  /\ PendingOf(s) = OfSession(s, PendingFor(ThreadOf(s)))
                    /\ WorkingOf(s) = {c \in WorkingFor(ThreadOf(s)) : c[1] = s}
  BY DEF SessionsFollow
<1>1. ThreadOf(s) \in Thread
  BY JobQueuesAssumption DEF ThreadOf, Thread, Session
<1>2. ASSUME NEW t \in Thread
      PROVE  /\ OfSession(s, PendingFor(t)) \in Seq(Packet)
             /\ t # ThreadOf(s) => OfSession(s, PendingFor(t)) = << >>
  <2>1. PendingFor(t) \in Seq(PacketsFor(t))
    BY DEF Sorted
  <2>2. PICK q \in Seq(PacketsFor(t)) : q = PendingFor(t)
    BY <2>1
  <2>3. q \in Seq(Packet) /\ \A i \in DOMAIN q : ThreadOf(q[i][1]) = t
    BY SequenceOver DEF PacketsFor
  <2>4. t # ThreadOf(s) => OfSession(s, q) = << >>
    BY <2>3, OfSessionNone
  <2>5. OfSession(s, q) \in Seq(Packet)
    <3>1. PICK parts \in Seq(Seq(Packet)) : parts = [i \in DOMAIN q |-> Part(s, q[i])]
      BY <2>3, PartType
    <3> QED  BY <3>1, FlattenLast DEF OfSession
  <2> QED  BY <2>2, <2>3, <2>4, <2>5
<1>3. PendingOf(s) = OfSession(s, PendingFor(ThreadOf(s)))
  <2>1. PICK parts : parts = [n \in 1 .. NumThreads |-> OfSession(s, PendingFor(n - 1))]
    OBVIOUS
  <2>2. \A n \in 1 .. NumThreads : n - 1 \in Thread
    BY JobQueuesAssumption DEF Thread
  <2>3. parts \in [1 .. NumThreads -> Seq(Packet)]
    BY <1>2, <2>1, <2>2
  <2>4. parts \in Seq(Seq(Packet)) /\ DOMAIN parts = 1 .. NumThreads
    BY <2>3, JobQueuesAssumption
  <2>5. PICK k \in 1 .. NumThreads : k - 1 = ThreadOf(s)
    <3>1. ThreadOf(s) + 1 \in 1 .. NumThreads /\ (ThreadOf(s) + 1) - 1 = ThreadOf(s)
      BY <1>1, JobQueuesAssumption DEF Thread
    <3> QED  BY <3>1
  <2>6. \A n \in DOMAIN parts : n # k => parts[n] = << >>
    <3> SUFFICES ASSUME NEW n \in 1 .. NumThreads, n # k
                 PROVE  parts[n] = << >>
      BY <2>4
    <3>1. n - 1 # ThreadOf(s)
      BY <2>5, JobQueuesAssumption
    <3> QED  BY <1>2, <2>1, <2>2, <3>1
  <2>7. FlattenSeq(parts) = parts[k]
    BY <2>4, <2>6, FlattenOne
  <2> QED  BY <2>1, <2>5, <2>7 DEF PendingOf
<1>4. WorkingOf(s) = {c \in WorkingFor(ThreadOf(s)) : c[1] = s}
  <2>1. \A t \in Thread : \A c \in WorkingFor(t) : ThreadOf(c[1]) = t
    BY DEF Sorted, PacketsFor
  <2> QED  BY <1>1, <2>1 DEF WorkingOf
<1> QED  BY <1>3, <1>4

\* A packet that arrives at a thread arrives at its session.
LEMMA ArrivesForSession ==
    ASSUME Sorted, SessionsFollow, SessionsFollow',
           NEW u \in Thread, NEW c \in PacketsFor(u), Arrives(u, c)
    PROVE  InboxOf!InboxNext
<1> DEFINE s0 == c[1]
<1>1. s0 \in Session /\ ThreadOf(s0) = u /\ c \in Packet
  BY DEF PacketsFor, Packet
<1>2. c \in {s0} \X (1 .. MaxPushes)
  BY DEF PacketsFor, Packet
<1>3. PendingFor(u) \in Seq(Packet)
  <2>1. PICK q \in Seq(PacketsFor(u)) : q = PendingFor(u)
    BY DEF Sorted
  <2>2. q \in Seq(Packet)
    BY SequenceOver DEF PacketsFor
  <2> QED  BY <2>1, <2>2
<1>4. ASSUME NEW s \in Session
      PROVE  /\ WorkingOf(s)' = WorkingOf(s)
             /\ PendingOf(s)' = IF s = s0 THEN Append(PendingOf(s), c) ELSE PendingOf(s)
  <2>1. ThreadOf(s) \in Thread
    BY JobQueuesAssumption DEF ThreadOf, Thread, Session
  <2>2. /\ PendingOf(s) = OfSession(s, PendingFor(ThreadOf(s)))
        /\ WorkingOf(s) = {d \in WorkingFor(ThreadOf(s)) : d[1] = s}
        /\ PendingOf(s)' = OfSession(s, PendingFor(ThreadOf(s))')
        /\ WorkingOf(s)' = {d \in WorkingFor(ThreadOf(s))' : d[1] = s}
    BY DEF SessionsFollow, ThreadOf
  <2>3. WorkingOf(s)' = WorkingOf(s)
    BY <2>1, <2>2 DEF Arrives
  <2>4. CASE ThreadOf(s) # u
    BY <1>1, <2>1, <2>2, <2>3, <2>4 DEF Arrives
  <2>5. CASE ThreadOf(s) = u
    <3>1. /\ OfSession(s, PendingFor(u)) \in Seq(Packet)
          /\ OfSession(s, Append(PendingFor(u), c)) = OfSession(s, PendingFor(u)) \o Part(s, c)
      BY <1>1, <1>3, OfSessionLast
    <3>2. PendingOf(s) \in Seq(Packet) /\ PendingOf(s)' = PendingOf(s) \o Part(s, c)
      BY <2>2, <2>5, <3>1 DEF Arrives
    <3>3. PICK q \in Seq(Packet) : q = PendingOf(s)
      BY <3>2
    <3>4. q \o << >> = q /\ q \o << c >> = Append(q, c)
      BY <1>1, ConcatEmptySeq, AppendIsConcat
    <3> QED  BY <2>3, <3>2, <3>3, <3>4 DEF Part
  <2> QED  BY <2>4, <2>5
<1> HIDE DEF s0
<1>5. InboxOf!Arrive(s0, c)
  BY <1>1, <1>4 DEF InboxOf!Arrive
<1>6. c \in [s \in Session |-> {s} \X (1 .. MaxPushes)][s0]
  BY <1>1, <1>2
<1> QED  BY <1>1, <1>5, <1>6 DEF InboxOf!InboxNext

\* A thread that starts on a packet starts on the first of the packet's session.
LEMMA StartsForSession ==
    ASSUME Sorted, SessionsFollow, SessionsFollow', NEW u \in Thread, Starts(u)
    PROVE  InboxOf!InboxNext
<1>1. PICK x \in PacketsFor(u), rest \in Seq(PacketsFor(u)) :
         x = Head(PendingFor(u)) /\ rest = Tail(PendingFor(u))
  BY HeadTailProperties DEF Sorted, Starts
<1> DEFINE s0 == x[1]
<1>2. s0 \in Session /\ ThreadOf(s0) = u /\ x \in Packet
  BY DEF PacketsFor, Packet
<1>3. PendingFor(u) \in Seq(Packet) /\ rest \in Seq(Packet) /\ PendingFor(u) # << >>
  <2>1. PICK q \in Seq(PacketsFor(u)) : q = PendingFor(u)
    BY DEF Sorted
  <2>2. q \in Seq(Packet) /\ rest \in Seq(Packet)
    BY SequenceOver DEF PacketsFor
  <2> QED  BY <2>1, <2>2 DEF Starts
<1>4. ASSUME NEW s \in Session
      PROVE  /\ s = s0 => /\ PendingOf(s) # << >> /\ Head(PendingOf(s)) = x
                          /\ PendingOf(s)' = Tail(PendingOf(s))
                          /\ WorkingOf(s) = {} /\ WorkingOf(s)' = {x}
             /\ s # s0 => PendingOf(s)' = PendingOf(s) /\ WorkingOf(s)' = WorkingOf(s)
  <2>1. ThreadOf(s) \in Thread
    BY JobQueuesAssumption DEF ThreadOf, Thread, Session
  <2>2. /\ PendingOf(s) = OfSession(s, PendingFor(ThreadOf(s)))
        /\ WorkingOf(s) = {d \in WorkingFor(ThreadOf(s)) : d[1] = s}
        /\ PendingOf(s)' = OfSession(s, PendingFor(ThreadOf(s))')
        /\ WorkingOf(s)' = {d \in WorkingFor(ThreadOf(s))' : d[1] = s}
    BY DEF SessionsFollow, ThreadOf
  <2>3. CASE ThreadOf(s) # u
    BY <1>2, <2>1, <2>2, <2>3 DEF Starts
  <2>4. CASE ThreadOf(s) = u
    <3>1. /\ OfSession(s, PendingFor(u)) = Part(s, x) \o OfSession(s, rest)
          /\ OfSession(s, rest) \in Seq(Packet)
      <4>1. OfSession(s, PendingFor(u)) = Part(s, x) \o OfSession(s, rest)
        BY <1>1, <1>3, OfSessionFirst
      <4>2. OfSession(s, rest) \in Seq(Packet)
        BY <1>2, <1>3, OfSessionLast
      <4> QED  BY <4>1, <4>2
    <3>2. PICK q \in Seq(Packet) : q = OfSession(s, rest)
      BY <3>1
    <3>3. PendingOf(s) = Part(s, x) \o q /\ PendingOf(s)' = q
      BY <1>1, <2>2, <2>4, <3>1, <3>2 DEF Starts
    <3>4. WorkingOf(s) = {} /\ WorkingOf(s)' = IF x[1] = s THEN {x} ELSE {}
      BY <1>1, <2>2, <2>4 DEF Starts
    <3>5. /\ << >> \o q = q
          /\ << x >> \o q # << >> /\ Head(<< x >> \o q) = x /\ Tail(<< x >> \o q) = q
      BY <1>2
    <3> QED  BY <3>3, <3>4, <3>5 DEF Part
  <2> QED  BY <2>3, <2>4
<1> HIDE DEF s0
<1>5. InboxOf!Start(s0)
  BY <1>2, <1>4 DEF InboxOf!Start
<1> QED  BY <1>2, <1>5 DEF InboxOf!InboxNext

\* A thread that is done with a packet is done with its session's.
LEMMA FinishesForSession ==
    ASSUME Sorted, SessionsFollow, SessionsFollow', NEW u \in Thread, Finishes(u)
    PROVE  InboxOf!InboxNext
<1>1. PICK x \in PacketsFor(u) : WorkingFor(u) = {x}
  <2>1. PICK x : WorkingFor(u) = {x}
    BY DEF Finishes, WorkingFor
  <2> QED  BY <2>1 DEF Sorted
<1> DEFINE s0 == x[1]
<1>2. s0 \in Session /\ ThreadOf(s0) = u
  BY DEF PacketsFor, Packet
<1>3. ASSUME NEW s \in Session
      PROVE  /\ PendingOf(s)' = PendingOf(s)
             /\ WorkingOf(s)' = IF s = s0 THEN {} ELSE WorkingOf(s)
             /\ s = s0 => WorkingOf(s) # {}
  <2>1. ThreadOf(s) \in Thread
    BY JobQueuesAssumption DEF ThreadOf, Thread, Session
  <2>2. /\ PendingOf(s) = OfSession(s, PendingFor(ThreadOf(s)))
        /\ WorkingOf(s) = {d \in WorkingFor(ThreadOf(s)) : d[1] = s}
        /\ PendingOf(s)' = OfSession(s, PendingFor(ThreadOf(s))')
        /\ WorkingOf(s)' = {d \in WorkingFor(ThreadOf(s))' : d[1] = s}
    BY DEF SessionsFollow, ThreadOf
  <2>3. PendingOf(s)' = PendingOf(s)
    BY <2>1, <2>2 DEF Finishes
  <2>4. CASE ThreadOf(s) # u
    BY <1>2, <2>1, <2>2, <2>3, <2>4 DEF Finishes
  <2>5. CASE ThreadOf(s) = u
    BY <1>1, <2>2, <2>3, <2>5 DEF Finishes
  <2> QED  BY <2>4, <2>5
<1> HIDE DEF s0
<1>4. InboxOf!Done(s0)
  BY <1>2, <1>3 DEF InboxOf!Done
<1> QED  BY <1>2, <1>4 DEF InboxOf!InboxNext

LEMMA SessionStep ==
    ASSUME Sorted, SessionsFollow, SessionsFollow', ThreadStep
    PROVE  [InboxOf!InboxNext]_(InboxOf!inboxVars)
<1>1. CASE Rests
  <2>1. ASSUME NEW s \in Session
        PROVE  PendingOf(s)' = PendingOf(s) /\ WorkingOf(s)' = WorkingOf(s)
    <3>1. ThreadOf(s) \in Thread
      BY JobQueuesAssumption DEF ThreadOf, Thread, Session
    <3> QED  BY <1>1, <3>1 DEF SessionsFollow, ThreadOf, Rests
  <2> QED  BY <2>1 DEF InboxOf!inboxVars
<1> QED  BY <1>1, ArrivesForSession, StartsForSession, FinishesForSession DEF ThreadStep

\* Nothing waits at first.
LEMMA InitSorted == Init => Sorted /\ InboxOf!InboxInit
<1> SUFFICES ASSUME Init
             PROVE  Sorted /\ InboxOf!InboxInit
  OBVIOUS
<1>1. ASSUME NEW t \in Thread
      PROVE  PendingFor(t) = << >> /\ WorkingFor(t) = {}
  <2>1. Waiting(t) = << >>
    BY DEF Init, Waiting, Rest
  <2>2. Len(Waiting(t)) = 0
    BY <2>1
  <2> QED  BY <2>2 DEF Init, PendingFor, WorkingFor, Handling, At
<1>2. Sorted
  <2> SUFFICES ASSUME NEW t \in Thread
               PROVE  PendingFor(t) \in Seq(PacketsFor(t)) /\ WorkingFor(t) \subseteq PacketsFor(t)
    BY DEF Sorted
  <2>1. << >> \in Seq(PacketsFor(t))
    OBVIOUS
  <2> QED  BY <1>1, <2>1
<1>3. ASSUME NEW s \in Session
      PROVE  PendingOf(s) = << >> /\ WorkingOf(s) = {}
  <2>1. ThreadOf(s) \in Thread
    BY JobQueuesAssumption DEF ThreadOf, Thread, Session
  <2>2. OfSession(s, << >>) = << >>
    <3>1. << >> \in Seq(Packet) /\ DOMAIN << >> = {}
      OBVIOUS
    <3> QED  BY <3>1, OfSessionNone
  <2> QED  BY <1>1, <1>2, <2>1, <2>2, Following DEF SessionsFollow
<1> QED  BY <1>2, <1>3 DEF InboxOf!InboxInit

\* Each session is one inbox, whichever threads its packets are queued for: its
\* packets are handled in the order they were queued, each once, and never two
\* of them at a time.  This is the safety part of ImplementsInbox.
IsInbox == InboxOf!InboxInit /\ [][InboxOf!InboxNext]_(InboxOf!inboxVars)

\* Whatever the numbers of threads, sessions and producers and the limit of the
\* pool, the job queues implement Inbox: a session's packets are handled one at
\* a time and in order, although every worker may queue them and every thread
\* handles (LogicManager.h:64: the same session always goes to the same thread).
THEOREM SessionsAreFifo == Spec => IsInbox
<1>1. IInv /\ Sorted /\ [Next]_vars => Sorted' /\ ThreadStep
  BY FifoStep, ThreadSteps, SortedStep
<1>2. Spec => [](IInv /\ Sorted /\ SessionsFollow)
  BY <1>1, InitSorted, Invariance, Following, PTL DEF Spec
<1>3. IInv /\ Sorted /\ SessionsFollow /\ SessionsFollow' /\ [Next]_vars
         => [InboxOf!InboxNext]_(InboxOf!inboxVars)
  BY <1>1, SessionStep
<1> QED  BY <1>2, <1>3, InitSorted, PTL DEF Spec, IsInbox
=============================================================================
