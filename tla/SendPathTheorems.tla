-------------------------- MODULE SendPathTheorems --------------------------
(***************************************************************************)
(* What m_isSending guarantees on one connection, for every number of      *)
(* threads, every limit and every batch size.                              *)
(***************************************************************************)
EXTENDS SendTeardown, SequenceTheorems, FiniteSetTheorems, TLAPS

\* Cutting a sequence in two keeps its elements, in their places.
LEMMA CutInTwo ==
    ASSUME NEW S, NEW s \in Seq(S), NEW n \in 0 .. Len(s)
    PROVE  LET head == SubSeq(s, 1, n)
               tail == SubSeq(s, n + 1, Len(s))
           IN  /\ head \in Seq(S) /\ Len(head) = n
               /\ tail \in Seq(S) /\ Len(tail) = Len(s) - n
               /\ \A i \in 1 .. n : head[i] = s[i]
               /\ \A i \in 1 .. Len(s) - n : tail[i] = s[i + n]
               /\ s = head \o tail
<1> DEFINE head == SubSeq(s, 1, n)
           tail == SubSeq(s, n + 1, Len(s))
<1>1. Len(s) \in Nat /\ n \in Nat /\ n <= Len(s)
  OBVIOUS
<1>2. head \in Seq(S) /\ Len(head) = n /\ \A i \in 1 .. n : head[i] = s[i]
  BY <1>1
<1>3. tail \in Seq(S) /\ Len(tail) = Len(s) - n
      /\ \A i \in 1 .. Len(s) - n : tail[i] = s[i + n]
  BY <1>1
<1>4. s = head \o tail
  <2>1. /\ 1 \in 1 .. Len(s) + 1
        /\ n \in 1 - 1 .. Len(s)
        /\ Len(s) \in n .. Len(s)
    BY <1>1
  <2>2. SubSeq(s, 1, n) \o SubSeq(s, n + 1, Len(s)) = SubSeq(s, 1, Len(s))
    BY <2>1, ConcatAdjacentSubSeq, Zenon
  <2> QED  BY <2>2, SubSeqFull, Zenon
<1> QED  BY <1>2, <1>3, <1>4

\* What a concatenation holds before and after its first part.
LEMMA RestOfConcat ==
    ASSUME NEW S, NEW b \in Seq(S), NEW q \in Seq(S), b # << >>
    PROVE  /\ Len(b) \in 1 .. Len(b \o q)
           /\ SubSeq(b \o q, 1, Len(b)) = b
           /\ SubSeq(b \o q, Len(b) + 1, Len(b \o q)) = q
<1> DEFINE both == b \o q
<1>1. /\ both \in Seq(S)
      /\ Len(both) = Len(b) + Len(q)
      /\ \A i \in 1 .. Len(b) + Len(q) :
            both[i] = IF i <= Len(b) THEN b[i] ELSE q[i - Len(b)]
  BY ConcatProperties
<1>2. Len(b) \in Nat /\ Len(q) \in Nat /\ Len(b) > 0
  OBVIOUS
<1> HIDE DEF both
<1>3. Len(b) \in 0 .. Len(both)
  BY <1>1, <1>2
<1> DEFINE head == SubSeq(both, 1, Len(b))
           tail == SubSeq(both, Len(b) + 1, Len(both))
<1>4. /\ head \in Seq(S) /\ Len(head) = Len(b)
      /\ tail \in Seq(S) /\ Len(tail) = Len(q)
      /\ \A i \in 1 .. Len(b) : head[i] = both[i]
      /\ \A i \in 1 .. Len(q) : tail[i] = both[i + Len(b)]
  BY <1>1, <1>2, <1>3, CutInTwo
<1> HIDE DEF head, tail
<1>5. head = b
  <2>1. \A i \in 1 .. Len(b) : head[i] = b[i]
    BY <1>1, <1>2, <1>4
  <2>2. \A i \in 1 .. Len(head) : head[i] = b[i]
    BY <1>4, <2>1
  <2> QED  BY <1>4, <2>2, SeqEqual
<1>6. tail = q
  <2>1. ASSUME NEW i \in 1 .. Len(q)
        PROVE  tail[i] = q[i]
    <3>1. PICK j \in 1 .. Len(b) + Len(q) : j = i + Len(b) /\ ~ (j <= Len(b))
      BY <1>2
    <3>2. both[j] = q[j - Len(b)] /\ j - Len(b) = i
      BY <1>1, <1>2, <3>1
    <3> QED  BY <1>4, <3>1, <3>2
  <2>2. \A i \in 1 .. Len(tail) : tail[i] = q[i]
    BY <1>4, <2>1
  <2> QED  BY <1>4, <2>2, SeqEqual
<1> QED  BY <1>1, <1>2, <1>5, <1>6 DEF both, head, tail

\* How much Gather takes is a positive part of a queue that is not empty.
LEMMA GatherCount ==
    ASSUME NEW q \in Seq(Message), q # << >>
    PROVE  (IF Len(q) < BatchMax THEN Len(q) ELSE BatchMax) \in 1 .. Len(q)
  BY SendPathAssumption

-----------------------------------------------------------------------------
\* The variables start with their types and keep them.
LEMMA TypeStep ==
    /\ Init => TypeOK
    /\ TypeOK /\ [Next]_vars => TypeOK'
<1>1. Init => TypeOK
  <2> SUFFICES ASSUME Init
               PROVE  TypeOK
    OBVIOUS
  <2>1. /\ << >> \in Seq(Message)
        /\ << >> \in Seq(Batch)
        /\ 0 \in 0 .. MaxSends
    BY SendPathAssumption
  <2>2. /\ pc \in [Thread -> {"idle", "gather", "post", "check"}]
        /\ bufs \in [Thread -> Batch]
        /\ released \in [Message -> Nat]
    BY <2>1 DEF Init, Batch
  <2> QED  BY <2>1, <2>2 DEF Init, TypeOK
<1>2. TypeOK /\ [Next]_vars => TypeOK'
  <2> SUFFICES ASSUME TypeOK, [Next]_vars
               PROVE  TypeOK'
    OBVIOUS
  <2> USE DEF TypeOK, Batch, GoTo, counts
  <2>1. ASSUME NEW t \in Sender, Send(t)
        PROVE  TypeOK'
    <3>1. taken' \in Message /\ taken' \in 0 .. MaxSends
      BY <2>1, SendPathAssumption DEF Send, Message
    <3>2. queue' \in Seq(Message)
      BY <2>1, <3>1 DEF Send
    <3>3. pc' \in [Thread -> {"idle", "gather", "post", "check"}]
      BY <2>1 DEF Send, Thread
    <3> QED  BY <2>1, <3>1, <3>2, <3>3 DEF Send
  <2>2. ASSUME NEW t \in Sender, SendRefused(t)
        PROVE  TypeOK'
    BY <2>2, SendPathAssumption DEF SendRefused
  <2>3. ASSUME NEW t \in Thread, Gather(t)
        PROVE  TypeOK'
    <3>1. CASE queue = << >>
      BY <2>3, <3>1 DEF Gather
    <3>2. CASE queue # << >>
      <4> DEFINE n == IF Len(queue) < BatchMax THEN Len(queue) ELSE BatchMax
      <4>1. n \in 0 .. Len(queue)
        BY <3>2, GatherCount
      <4>2. /\ sendingList' = sendingList \o SubSeq(queue, 1, n)
            /\ bufs' = [bufs EXCEPT ![t] = SubSeq(queue, 1, n)]
            /\ queue' = SubSeq(queue, n + 1, Len(queue))
            /\ pc' = [pc EXCEPT ![t] = "post"]
            /\ UNCHANGED <<taken, refused, isSending, inFlight, completed,
                           wire, released, failed>>
        BY <2>3, <3>2 DEF Gather
      <4> HIDE DEF n
      <4>3. /\ SubSeq(queue, 1, n) \in Seq(Message)
            /\ SubSeq(queue, n + 1, Len(queue)) \in Seq(Message)
        BY <4>1, CutInTwo
      <4>4. sendingList' \in Seq(Message)
        <5>1. sendingList \in Seq(Message)
          OBVIOUS
        <5> QED  BY <4>2, <4>3, <5>1, ConcatProperties
      <4>5. queue' \in Seq(Message) /\ bufs' \in [Thread -> Seq(Message)]
        BY <4>2, <4>3
      <4>6. pc' \in [Thread -> {"idle", "gather", "post", "check"}]
        BY <4>2
      <4> QED  BY <4>2, <4>4, <4>5, <4>6
    <3> QED  BY <3>1, <3>2
  <2>4. ASSUME NEW t \in Thread, Post(t)
        PROVE  TypeOK'
    <3>1. bufs[t] \in Seq(Message)
      OBVIOUS
    <3>2. inFlight' \in Seq(Seq(Message))
      BY <2>4, <3>1 DEF Post
    <3>3. /\ bufs' \in [Thread -> Seq(Message)]
          /\ pc' \in [Thread -> {"idle", "gather", "post", "check"}]
      BY <2>4 DEF Post
    <3> QED  BY <2>4, <3>2, <3>3 DEF Post
  <2>5. ASSUME NEW t \in Thread, PostFails(t)
        PROVE  TypeOK'
    <3>1. /\ bufs' \in [Thread -> Seq(Message)]
          /\ pc' \in [Thread -> {"idle", "gather", "post", "check"}]
      BY <2>5 DEF PostFails
    <3> QED  BY <2>5, <3>1 DEF PostFails
  <2>6. CASE Transmit
    <3>1. Head(inFlight) \in Seq(Message) /\ Tail(inFlight) \in Seq(Seq(Message))
      BY <2>6 DEF Transmit
    <3> QED  BY <2>6, <3>1 DEF Transmit
  <2>7. ASSUME NEW t \in Worker, OnSend(t)
        PROVE  TypeOK'
    <3>1. released' \in [Message -> Nat]
      BY <2>7 DEF OnSend, ReleaseAll
    <3> QED  BY <2>7, <3>1 DEF OnSend, Thread
  <2>8. ASSUME NEW t \in Worker, CheckQueue(t)
        PROVE  TypeOK'
    BY <2>8 DEF CheckQueue, Thread
  <2>9. CASE UNCHANGED vars
    BY <2>9 DEF vars
  <2> QED  BY <2>1, <2>2, <2>3, <2>4, <2>5, <2>6, <2>7, <2>8, <2>9 DEF Next
<1> QED  BY <1>1, <1>2

-----------------------------------------------------------------------------
\* Only a thread about to call WSASend holds a batch.
OnlyPostersHoldBatch == \A t \in Thread : pc[t] # "post" => bufs[t] = << >>

\* Messages move in the order they were taken: what was released or is in
\* m_sendingList is older than what is queued, and the queue is sorted.
OldestFirst ==
    /\ \A i \in DOMAIN queue : queue[i] <= taken
    /\ \A i, j \in DOMAIN queue : i < j => queue[i] < queue[j]
    /\ \A k \in DOMAIN sendingList, i \in DOMAIN queue :
          sendingList[k] < queue[i]
    /\ \A k \in DOMAIN sendingList : sendingList[k] <= taken
    /\ \A m \in Message : released[m] > 0 =>
          m <= taken /\ \A i \in DOMAIN queue : m < queue[i]

\* A buffer that was taken is held or was released, and not both.
Accounted ==
    /\ \A i, j \in DOMAIN sendingList : sendingList[i] = sendingList[j] => i = j
    /\ \A k \in DOMAIN sendingList : released[sendingList[k]] = 0
    /\ \A m \in Message : released[m] <= 1
    /\ \A m \in 1 .. taken :
          \/ \E i \in DOMAIN queue : queue[i] = m
          \/ \E k \in DOMAIN sendingList : sendingList[k] = m
          \/ released[m] = 1

IInv ==
    /\ TypeOK
    /\ OneSendAtATime
    /\ OnlyPostersHoldBatch
    /\ NoOrphanInQueue
    /\ QueueBounded
    /\ OldestFirst
    /\ Accounted
    /\ NoReleaseInFlight

-----------------------------------------------------------------------------
\* One holder of the send path stays one (m_isSending in Session::Send,
\* RegisterSend and OnSend).
LEMMA OneSendStep ==
    /\ Init => OneSendAtATime
    /\ TypeOK /\ OneSendAtATime /\ [Next]_vars => OneSendAtATime'
<1> USE DEF OneSendAtATime, Busy, GoTo, counts
<1>1. Init => OneSendAtATime
  BY DEF Init
<1>2. ASSUME TypeOK, OneSendAtATime, [Next]_vars
      PROVE  OneSendAtATime'
  <2>0. /\ pc \in [Thread -> {"idle", "gather", "post", "check"}]
        /\ bufs \in [Thread -> Seq(Message)]
        /\ inFlight \in Seq(Seq(Message))
        /\ completed \in Nat
        /\ Len(inFlight) \in Nat
        /\ inFlight # << >> => Len(inFlight) > 0
        /\ inFlight = << >> => Len(inFlight) = 0
    BY <1>2 DEF TypeOK, Batch
  <2>1. ASSUME NEW t \in Sender, Send(t)
        PROVE  OneSendAtATime'
    <3>1. CASE isSending
      BY <1>2, <2>0, <2>1, <3>1 DEF Send
    <3>2. CASE ~ isSending
      <4>1. \A u \in Thread : pc[u] = "idle"
        BY <1>2, <3>2
      <4>2. /\ pc' = [pc EXCEPT ![t] = "gather"]
            /\ isSending' = TRUE
            /\ UNCHANGED <<inFlight, completed>>
            /\ inFlight = << >> /\ completed = 0
        BY <1>2, <2>0, <2>1, <3>2 DEF Send
      <4> QED  BY <2>0, <4>1, <4>2 DEF Thread
    <3> QED  BY <1>2, <3>1, <3>2 DEF TypeOK
  <2>2. ASSUME NEW t \in Sender, SendRefused(t)
        PROVE  OneSendAtATime'
    BY <1>2, <2>2 DEF SendRefused
  <2>3. ASSUME NEW t \in Thread, Gather(t)
        PROVE  OneSendAtATime'
    <3>1. /\ inFlight' = << >> /\ completed' = 0
          /\ \A u \in Thread \ {t} : pc[u] = "idle"
      BY <1>2, <2>0, <2>3 DEF Gather
    <3>2. CASE queue = << >>
      <4>1. pc' = [pc EXCEPT ![t] = "idle"] /\ isSending' = FALSE
        BY <2>3, <3>2 DEF Gather
      <4>2. \A u \in Thread : pc'[u] = "idle"
        BY <2>0, <3>1, <4>1
      <4>3. Len(inFlight') + completed' = 0
        BY <3>1
      <4> QED  BY <3>1, <4>1, <4>2, <4>3
    <3>3. CASE queue # << >>
      <4>1. pc' = [pc EXCEPT ![t] = "post"] /\ isSending' = isSending
        BY <2>3, <3>3 DEF Gather
      <4>2. isSending
        BY <1>2, <2>0, <2>3 DEF Gather
      <4>3. pc'[t] = "post" /\ \A u \in Thread \ {t} : pc'[u] = "idle"
        BY <2>0, <3>1, <4>1
      <4>4. Len(inFlight') + completed' = 0
        BY <3>1
      <4> QED  BY <2>3, <3>1, <4>1, <4>2, <4>3, <4>4
    <3> QED  BY <3>2, <3>3
  <2>4. ASSUME NEW t \in Thread, Post(t)
        PROVE  OneSendAtATime'
    <3>1. /\ inFlight = << >> /\ completed = 0 /\ isSending
          /\ \A u \in Thread \ {t} : pc[u] = "idle"
      BY <1>2, <2>0, <2>4 DEF Post
    <3>2. /\ pc' = [pc EXCEPT ![t] = "idle"]
          /\ isSending' = isSending /\ completed' = completed
          /\ inFlight' = Append(inFlight, bufs[t])
      BY <2>4 DEF Post
    <3>3. Len(inFlight') = 1 /\ inFlight' # << >>
      BY <2>0, <3>1, <3>2
    <3>4. \A u \in Thread : pc'[u] = "idle"
      BY <2>0, <3>1, <3>2
    <3> QED  BY <3>1, <3>2, <3>3, <3>4
  <2>5. ASSUME NEW t \in Thread, PostFails(t)
        PROVE  OneSendAtATime'
    BY <1>2, <2>0, <2>5 DEF PostFails
  <2>6. CASE Transmit
    <3>0. inFlight # << >>
      BY <2>6 DEF Transmit
    <3>1. Len(inFlight) = 1 /\ completed = 0 /\ Busy = {} /\ isSending
      <4>1. Len(inFlight) = 1 /\ completed = 0
        <5>1. Len(inFlight) + completed <= 1
          BY <1>2
        <5>2. Len(inFlight) > 0 /\ Len(inFlight) \in Nat /\ completed \in Nat
          BY <2>0, <3>0
        <5>3. PICK l \in Nat : l = Len(inFlight)
          BY <5>2
        <5>4. l + completed <= 1 /\ l > 0
          BY <5>1, <5>2, <5>3
        <5>5. l = 1 /\ completed = 0
          BY <5>2, <5>4
        <5> QED  BY <5>3, <5>5
      <4>2. Busy = {} /\ isSending
        BY <1>2, <3>0
      <4> QED  BY <4>1, <4>2
    <3>2. inFlight' = Tail(inFlight) /\ completed' = completed + 1
          /\ UNCHANGED <<pc, isSending>>
      BY <2>6 DEF Transmit
    <3>3. Len(inFlight') = 0 /\ inFlight' = << >> /\ completed' = 1
      BY <2>0, <3>1, <3>2
    <3> QED  BY <3>1, <3>2, <3>3
  <2>7. ASSUME NEW t \in Worker, OnSend(t)
        PROVE  OneSendAtATime'
    <3>1. completed = 1 /\ inFlight = << >> /\ Busy = {} /\ isSending
      BY <1>2, <2>0, <2>7 DEF OnSend
    <3>2. /\ pc' = [pc EXCEPT ![t] = "check"]
          /\ completed' = 0
          /\ UNCHANGED <<isSending, inFlight>>
      BY <2>7, <3>1 DEF OnSend
    <3>3. t \in Thread /\ pc'[t] = "check"
          /\ \A u \in Thread \ {t} : pc'[u] = "idle"
      BY <2>0, <3>1, <3>2 DEF Thread
    <3>4. Len(inFlight') + completed' = 0
      BY <3>1, <3>2
    <3> QED  BY <3>1, <3>2, <3>3, <3>4
  <2>8. ASSUME NEW t \in Worker, CheckQueue(t)
        PROVE  OneSendAtATime'
    <3>1. t \in Thread /\ pc[t] = "check"
      BY <2>8 DEF CheckQueue, Thread
    <3>2. /\ inFlight = << >> /\ completed = 0 /\ isSending
          /\ \A u \in Thread \ {t} : pc[u] = "idle"
      BY <1>2, <3>1
    <3>3. /\ \/ pc' = [pc EXCEPT ![t] = "idle"] /\ isSending' = FALSE
             \/ pc' = [pc EXCEPT ![t] = "gather"] /\ isSending' = isSending
          /\ inFlight' = inFlight /\ completed' = completed
      BY <2>8 DEF CheckQueue
    <3>4. \A u \in Thread \ {t} : pc'[u] = "idle"
      BY <2>0, <3>2, <3>3
    <3>5. (pc'[t] = "idle" /\ ~ isSending') \/ (pc'[t] = "gather" /\ isSending')
      BY <2>0, <3>1, <3>2, <3>3
    <3>6. Len(inFlight') + completed' = 0
      BY <3>2, <3>3
    <3> QED  BY <3>1, <3>2, <3>3, <3>4, <3>5, <3>6
  <2>9. CASE UNCHANGED vars
    BY <1>2, <2>9 DEF vars
  <2> QED  BY <1>2, <2>1, <2>2, <2>3, <2>4, <2>5, <2>6, <2>7, <2>8, <2>9 DEF Next
<1> QED  BY <1>1, <1>2

\* A thread holds a batch only between gathering it and WSASend.
LEMMA HoldersStep ==
    /\ Init => OnlyPostersHoldBatch
    /\ TypeOK /\ OnlyPostersHoldBatch /\ [Next]_vars => OnlyPostersHoldBatch'
<1> USE DEF OnlyPostersHoldBatch, GoTo, counts
<1>1. Init => OnlyPostersHoldBatch
  BY DEF Init
<1>2. ASSUME TypeOK, OnlyPostersHoldBatch, [Next]_vars
      PROVE  OnlyPostersHoldBatch'
  <2>0. /\ pc \in [Thread -> {"idle", "gather", "post", "check"}]
        /\ bufs \in [Thread -> Seq(Message)]
    BY <1>2 DEF TypeOK, Batch
  <2>1. ASSUME NEW t \in Sender, Send(t) \/ SendRefused(t)
        PROVE  OnlyPostersHoldBatch'
    BY <1>2, <2>0, <2>1 DEF Send, SendRefused
  <2>2. ASSUME NEW t \in Thread, Gather(t) \/ Post(t) \/ PostFails(t)
        PROVE  OnlyPostersHoldBatch'
    BY <1>2, <2>0, <2>2 DEF Gather, Post, PostFails
  <2>3. CASE Transmit
    BY <1>2, <2>3 DEF Transmit
  <2>4. ASSUME NEW t \in Worker, OnSend(t) \/ CheckQueue(t)
        PROVE  OnlyPostersHoldBatch'
    BY <1>2, <2>0, <2>4 DEF OnSend, CheckQueue
  <2>5. CASE UNCHANGED vars
    BY <1>2, <2>5 DEF vars
  <2> QED  BY <1>2, <2>1, <2>2, <2>3, <2>4, <2>5 DEF Next
<1> QED  BY <1>1, <1>2

\* The queue stays within its bound, and never waits for nobody.
LEMMA QueueStep ==
    /\ Init => NoOrphanInQueue /\ QueueBounded
    /\ TypeOK /\ NoOrphanInQueue /\ QueueBounded /\ [Next]_vars
       => (NoOrphanInQueue /\ QueueBounded)'
<1> USE DEF NoOrphanInQueue, QueueBounded, GoTo, counts
<1>1. Init => NoOrphanInQueue /\ QueueBounded
  BY SendPathAssumption DEF Init
<1>2. ASSUME TypeOK, NoOrphanInQueue, QueueBounded, [Next]_vars
      PROVE  (NoOrphanInQueue /\ QueueBounded)'
  <2>0. queue \in Seq(Message) /\ Len(queue) \in Nat /\ taken \in Nat
    BY <1>2, SendPathAssumption DEF TypeOK
  <2>1. ASSUME NEW t \in Sender, Send(t) \/ SendRefused(t)
        PROVE  (NoOrphanInQueue /\ QueueBounded)'
    <3>1. CASE Send(t)
      <4>1. taken' \in Message
        BY <2>0, <3>1, <1>2, SendPathAssumption DEF Send, Message, TypeOK
      <4>2. Len(queue') = Len(queue) + 1 /\ isSending'
        BY <2>0, <3>1, <4>1 DEF Send
      <4>3. Len(queue) <= Limit
        BY <3>1 DEF Send
      <4> QED  BY <2>0, <4>2, <4>3, SendPathAssumption
    <3>2. CASE SendRefused(t)
      BY <1>2, <3>2 DEF SendRefused
    <3> QED  BY <2>1, <3>1, <3>2
  <2>2. ASSUME NEW t \in Thread, Gather(t) \/ Post(t) \/ PostFails(t)
        PROVE  (NoOrphanInQueue /\ QueueBounded)'
    <3>1. CASE Gather(t)
      <4>1. CASE queue = << >>
        BY <1>2, <3>1, <4>1 DEF Gather
      <4>2. CASE queue # << >>
        <5> DEFINE n == IF Len(queue) < BatchMax THEN Len(queue) ELSE BatchMax
        <5>1. n \in 0 .. Len(queue)
          BY <2>0, <4>2, GatherCount
        <5>2. /\ queue' = SubSeq(queue, n + 1, Len(queue))
              /\ UNCHANGED <<isSending, failed>>
          BY <3>1, <4>2 DEF Gather
        <5> HIDE DEF n
        <5>3. Len(queue') = Len(queue) - n
          BY <2>0, <5>1, <5>2, CutInTwo
        <5> QED  BY <1>2, <2>0, <4>2, <5>1, <5>2, <5>3, SendPathAssumption
      <4> QED  BY <4>1, <4>2
    <3>2. CASE Post(t)
      BY <1>2, <3>2 DEF Post
    <3>3. CASE PostFails(t)
      BY <1>2, <3>3 DEF PostFails
    <3> QED  BY <2>2, <3>1, <3>2, <3>3
  <2>3. CASE Transmit
    BY <1>2, <2>3 DEF Transmit
  <2>4. ASSUME NEW t \in Worker, OnSend(t) \/ CheckQueue(t)
        PROVE  (NoOrphanInQueue /\ QueueBounded)'
    BY <1>2, <2>4 DEF OnSend, CheckQueue
  <2>5. CASE UNCHANGED vars
    BY <1>2, <2>5 DEF vars
  <2> QED  BY <1>2, <2>1, <2>2, <2>3, <2>4, <2>5 DEF Next
<1> QED  BY <1>1, <1>2

\* Buffers move from the queue to m_sendingList to the pool oldest first, so
\* what is gathered was never released before.
LEMMA OrderStep ==
    /\ Init => OldestFirst
    /\ TypeOK /\ OldestFirst /\ [Next]_vars => OldestFirst'
<1> USE DEF OldestFirst, GoTo, counts
<1>1. Init => OldestFirst
  BY DEF Init
<1>2. ASSUME TypeOK, OldestFirst, [Next]_vars
      PROVE  OldestFirst'
  <2>0. /\ queue \in Seq(Message)
        /\ sendingList \in Seq(Message)
        /\ taken \in Nat
        /\ Message \subseteq Int
        /\ released \in [Message -> Nat]
    BY <1>2, SendPathAssumption DEF TypeOK, Message
  <2>a. /\ \A i \in DOMAIN queue : i \in Int /\ queue[i] \in Int
        /\ \A k \in DOMAIN sendingList : sendingList[k] \in Int
    <3>1. /\ \A i \in DOMAIN queue : i \in Int /\ queue[i] \in Message
          /\ \A k \in DOMAIN sendingList : sendingList[k] \in Message
      BY <2>0
    <3> QED  BY <2>0, <3>1
  <2>b. \A k \in DOMAIN sendingList : sendingList[k] <= taken
    BY <1>2, Zenon
  <2>1. ASSUME NEW t \in Sender, Send(t)
        PROVE  OldestFirst'
    <3>1. /\ taken' = taken + 1
          /\ taken' \in Message
          /\ queue' = Append(queue, taken')
          /\ sendingList' = sendingList /\ released' = released
      BY <2>0, <2>1, <1>2, SendPathAssumption DEF Send, Message, TypeOK
    <3>2. /\ Len(queue) \in Nat
          /\ Len(queue') = Len(queue) + 1
          /\ \A i \in DOMAIN queue : queue'[i] = queue[i]
          /\ queue'[Len(queue) + 1] = taken'
          /\ DOMAIN queue' = DOMAIN queue \cup {Len(queue) + 1}
          /\ DOMAIN queue = 1 .. Len(queue)
      BY <2>0, <3>1
    <3>3. \A i \in DOMAIN queue' :
            \/ i \in DOMAIN queue /\ queue'[i] = queue[i] /\ queue'[i] <= taken
            \/ i = Len(queue) + 1 /\ queue'[i] = taken + 1
      BY <1>2, <3>1, <3>2
    <3>4. \A i \in DOMAIN queue' : queue'[i] <= taken'
      BY <2>0, <2>a, <3>1, <3>3
    <3>5. \A i, j \in DOMAIN queue' : i < j => queue'[i] < queue'[j]
      <4> SUFFICES ASSUME NEW i \in DOMAIN queue', NEW j \in DOMAIN queue', i < j
                   PROVE  queue'[i] < queue'[j]
        OBVIOUS
      <4>1. i \in DOMAIN queue
        BY <3>2
      <4>2. CASE j \in DOMAIN queue
        BY <1>2, <3>2, <4>1, <4>2
      <4>3. CASE j \notin DOMAIN queue
        BY <2>0, <2>a, <3>3, <4>1, <4>3
      <4> QED  BY <4>2, <4>3
    <3>6. \A k \in DOMAIN sendingList', i \in DOMAIN queue' :
             sendingList'[k] < queue'[i]
      <4> SUFFICES ASSUME NEW k \in DOMAIN sendingList, NEW i \in DOMAIN queue'
                   PROVE  sendingList[k] < queue'[i]
        BY <3>1
      <4>1. sendingList[k] \in Int /\ sendingList[k] <= taken
        BY <2>a, <2>b
      <4>2. CASE i \in DOMAIN queue /\ queue'[i] = queue[i]
        BY <1>2, <4>2
      <4>3. CASE queue'[i] = taken + 1
        BY <2>0, <4>1, <4>3
      <4> QED  BY <3>3, <4>2, <4>3
    <3>7. \A k \in DOMAIN sendingList' : sendingList'[k] <= taken'
      <4> SUFFICES ASSUME NEW k \in DOMAIN sendingList
                   PROVE  sendingList[k] <= taken + 1
        BY <3>1
      <4>1. sendingList[k] \in Int /\ sendingList[k] <= taken
        BY <2>a, <2>b
      <4> QED  BY <2>0, <4>1
    <3>8. \A m \in Message : released'[m] > 0 =>
             m <= taken' /\ \A i \in DOMAIN queue' : m < queue'[i]
      BY <1>2, <2>0, <3>1, <3>3
    <3> QED  BY <3>4, <3>5, <3>6, <3>7, <3>8
  <2>2. ASSUME NEW t \in Thread, Gather(t), queue # << >>
        PROVE  OldestFirst'
    <3> DEFINE n == IF Len(queue) < BatchMax THEN Len(queue) ELSE BatchMax
    <3>1. n \in 1 .. Len(queue) /\ n \in 0 .. Len(queue) /\ Len(queue) \in Nat
      BY <2>0, <2>2, GatherCount
    <3>2. /\ sendingList' = sendingList \o SubSeq(queue, 1, n)
          /\ queue' = SubSeq(queue, n + 1, Len(queue))
          /\ UNCHANGED <<taken, released>>
      BY <2>2 DEF Gather
    <3> HIDE DEF n
    <3>3. /\ SubSeq(queue, 1, n) \in Seq(Message)
          /\ Len(SubSeq(queue, 1, n)) = n
          /\ \A i \in 1 .. n : SubSeq(queue, 1, n)[i] = queue[i]
          /\ queue' \in Seq(Message)
          /\ Len(queue') = Len(queue) - n
          /\ \A i \in 1 .. Len(queue) - n : queue'[i] = queue[i + n]
      <4> DEFINE first == SubSeq(queue, 1, n)
                 rest == SubSeq(queue, n + 1, Len(queue))
      <4>1. queue \in Seq(Message)
        BY <2>0
      <4>2. /\ first \in Seq(Message) /\ Len(first) = n
            /\ \A i \in 1 .. n : first[i] = queue[i]
            /\ rest \in Seq(Message) /\ Len(rest) = Len(queue) - n
            /\ \A i \in 1 .. Len(queue) - n : rest[i] = queue[i + n]
        BY <3>1, <4>1, CutInTwo
      <4>3. queue' = rest
        BY <3>2
      <4> HIDE DEF first, rest
      <4>4. SubSeq(queue, 1, n) = first
        BY DEF first
      <4> QED  BY <4>2, <4>3, <4>4
    <3>4. \A i \in DOMAIN queue' :
             \E j \in DOMAIN queue : j = i + n /\ queue'[i] = queue[j]
      <4> SUFFICES ASSUME NEW i \in 1 .. Len(queue) - n
                   PROVE  \E j \in 1 .. Len(queue) :
                             j = i + n /\ queue'[i] = queue[j]
        BY <2>0, <3>1, <3>3
      <4>1. PICK j \in 1 .. Len(queue) : j = i + n
        BY <3>1
      <4>2. queue'[i] = queue[i + n]
        BY <3>3
      <4>3. queue[i + n] = queue[j]
        BY <4>1
      <4> QED  BY <4>1, <4>2, <4>3
    <3>5. \A k \in DOMAIN sendingList' :
             \/ k \in DOMAIN sendingList /\ sendingList'[k] = sendingList[k]
             \/ \E j \in DOMAIN queue : j <= n /\ sendingList'[k] = queue[j]
      <4>1. /\ Len(sendingList') = Len(sendingList) + n
            /\ Len(sendingList) \in Nat
            /\ sendingList' \in Seq(Message)
            /\ \A k \in 1 .. Len(sendingList) + n : sendingList'[k] =
                  IF k <= Len(sendingList) THEN sendingList[k]
                  ELSE SubSeq(queue, 1, n)[k - Len(sendingList)]
        <5> DEFINE first == SubSeq(queue, 1, n)
        <5>1. /\ sendingList \in Seq(Message) /\ Len(sendingList) \in Nat
              /\ first \in Seq(Message) /\ Len(first) = n
              /\ sendingList' = sendingList \o first
          BY <2>0, <3>2, <3>3
        <5> HIDE DEF first
        <5>2. /\ sendingList \o first \in Seq(Message)
              /\ Len(sendingList \o first) = Len(sendingList) + n
              /\ \A k \in 1 .. Len(sendingList) + n :
                    (sendingList \o first)[k] =
                       IF k <= Len(sendingList) THEN sendingList[k]
                       ELSE first[k - Len(sendingList)]
          BY <5>1, ConcatProperties
        <5>3. first = SubSeq(queue, 1, n)
          BY DEF first
        <5> QED  BY <5>1, <5>2, <5>3
      <4>2. SUFFICES ASSUME NEW k \in 1 .. Len(sendingList) + n
                     PROVE  \/ /\ k \in 1 .. Len(sendingList)
                               /\ sendingList'[k] = sendingList[k]
                            \/ \E j \in 1 .. Len(queue) :
                                  j <= n /\ sendingList'[k] = queue[j]
        BY <2>0, <3>1, <4>1
      <4>3. CASE k <= Len(sendingList)
        BY <4>1, <4>3
      <4>4. CASE ~ (k <= Len(sendingList))
        <5>1. PICK j \in 1 .. n : j = k - Len(sendingList)
          <6>1. Len(sendingList) \in Int /\ n \in Int /\ k \in Int
            BY <3>1, <4>1
          <6>2. k > Len(sendingList) /\ k <= Len(sendingList) + n
            BY <4>1, <4>4, <6>1
          <6>3. k - Len(sendingList) \in 1 .. n
            BY <6>1, <6>2
          <6> QED  BY <6>3
        <5>2. sendingList'[k] = SubSeq(queue, 1, n)[j]
          BY <4>1, <4>4, <5>1
        <5>3. SubSeq(queue, 1, n)[j] = queue[j] /\ j \in 1 .. Len(queue) /\ j <= n
          BY <3>1, <3>3
        <5> QED  BY <5>2, <5>3
      <4> QED  BY <4>3, <4>4
    <3>6. \A i \in DOMAIN queue : i \in Int /\ queue[i] \in Int
      BY <2>a
    <3>7. \A i \in DOMAIN queue' : i \in Int /\ queue'[i] <= taken
      BY <1>2, <3>3, <3>4
    <3>8. \A i, j \in DOMAIN queue' : i < j => queue'[i] < queue'[j]
      BY <1>2, <3>1, <3>4, <3>6, <3>7
    <3>9. \A k \in DOMAIN sendingList', i \in DOMAIN queue' :
             sendingList'[k] < queue'[i]
      <4> SUFFICES ASSUME NEW k \in DOMAIN sendingList', NEW i \in DOMAIN queue'
                   PROVE  sendingList'[k] < queue'[i]
        OBVIOUS
      <4>1. PICK j \in DOMAIN queue : j = i + n /\ queue'[i] = queue[j]
        BY <3>4
      <4>2. CASE k \in DOMAIN sendingList /\ sendingList'[k] = sendingList[k]
        BY <1>2, <4>1, <4>2
      <4>3. CASE \E l \in DOMAIN queue : l <= n /\ sendingList'[k] = queue[l]
        <5>1. PICK l \in DOMAIN queue : l <= n /\ sendingList'[k] = queue[l]
          BY <4>3
        <5>2. l < j
          BY <3>1, <3>3, <3>6, <3>7, <4>1, <5>1
        <5> QED  BY <1>2, <4>1, <5>1, <5>2
      <4> QED  BY <3>5, <4>2, <4>3
    <3>10. \A k \in DOMAIN sendingList' : sendingList'[k] <= taken
      BY <1>2, <3>5
    <3>11. \A m \in Message : released[m] > 0 =>
              m <= taken /\ \A i \in DOMAIN queue' : m < queue'[i]
      BY <1>2, <3>4
    <3> QED  BY <3>2, <3>7, <3>8, <3>9, <3>10, <3>11
  <2>3. ASSUME NEW t \in Worker, OnSend(t)
        PROVE  OldestFirst'
    <3>1. /\ sendingList' = << >>
          /\ released' = ReleaseAll(sendingList)
          /\ UNCHANGED <<queue, taken>>
      BY <2>3 DEF OnSend
    <3>2. ASSUME NEW m \in Message, released'[m] > 0
          PROVE  m <= taken /\ \A i \in DOMAIN queue : m < queue[i]
      <4>1. released[m] > 0 \/ \E i \in DOMAIN sendingList : sendingList[i] = m
        BY <2>0, <3>1, <3>2 DEF ReleaseAll
      <4> QED  BY <1>2, <4>1
    <3>3. DOMAIN sendingList' = {}
      BY <3>1
    <3> QED  BY <1>2, <3>1, <3>2, <3>3
  <2>4. ASSUME UNCHANGED <<taken, queue, sendingList, released>>
        PROVE  OldestFirst'
    BY <1>2, <2>4
  <2>5. ASSUME NEW t \in Thread,
               SendRefused(t) \/ (Gather(t) /\ queue = << >>) \/ Post(t)
                  \/ PostFails(t) \/ CheckQueue(t)
        PROVE  OldestFirst'
    BY <2>4, <2>5 DEF SendRefused, Gather, Post, PostFails, CheckQueue
  <2>6. CASE Transmit \/ UNCHANGED vars
    BY <2>4, <2>6 DEF Transmit, vars
  <2> QED  BY <1>2, <2>1, <2>2, <2>3, <2>5, <2>6 DEF Next, Thread
<1> QED  BY <1>1, <1>2

\* What is gathered was never released, and nothing is released while a batch
\* is held or in flight, because OnSend runs only when none is.
LEMMA ReleaseStep ==
    /\ Init => NoReleaseInFlight
    /\ /\ TypeOK /\ OneSendAtATime /\ OnlyPostersHoldBatch /\ OldestFirst
       /\ NoReleaseInFlight /\ [Next]_vars
       => NoReleaseInFlight'
<1> USE DEF NoReleaseInFlight, GoTo, counts
<1>1. Init => NoReleaseInFlight
  BY DEF Init
<1>2. ASSUME TypeOK, OneSendAtATime, OnlyPostersHoldBatch, OldestFirst,
             NoReleaseInFlight, [Next]_vars
      PROVE  NoReleaseInFlight'
  <2>0. /\ bufs \in [Thread -> Seq(Message)]
        /\ pc \in [Thread -> {"idle", "gather", "post", "check"}]
        /\ inFlight \in Seq(Seq(Message))
        /\ released \in [Message -> Nat]
        /\ queue \in Seq(Message)
        /\ Message \subseteq Int
    BY <1>2, SendPathAssumption DEF TypeOK, Batch, Message
  <2>1. ASSUME NEW t \in Sender, Send(t) \/ SendRefused(t)
        PROVE  NoReleaseInFlight'
    BY <1>2, <2>1 DEF Send, SendRefused
  <2>2. ASSUME NEW t \in Thread, Gather(t)
        PROVE  NoReleaseInFlight'
    <3>1. CASE queue = << >>
      BY <1>2, <2>2, <3>1 DEF Gather
    <3>2. CASE queue # << >>
      <4> DEFINE n == IF Len(queue) < BatchMax THEN Len(queue) ELSE BatchMax
      <4>1. n \in 0 .. Len(queue) /\ Len(queue) \in Nat
        BY <2>0, <3>2, GatherCount
      <4>2. /\ bufs' = [bufs EXCEPT ![t] = SubSeq(queue, 1, n)]
            /\ inFlight' = inFlight /\ released' = released
        BY <2>2, <3>2 DEF Gather
      <4> HIDE DEF n
      <4>3. /\ SubSeq(queue, 1, n) \in Seq(Message)
            /\ Len(SubSeq(queue, 1, n)) = n
            /\ \A i \in 1 .. n : SubSeq(queue, 1, n)[i] = queue[i]
        BY <2>0, <4>1, CutInTwo
      <4>4. \A i \in DOMAIN queue : released[queue[i]] = 0
        <5> SUFFICES ASSUME NEW i \in DOMAIN queue, released[queue[i]] # 0
                     PROVE  FALSE
          OBVIOUS
        <5>0. queue[i] \in Message
          BY <2>0
        <5>1. queue[i] \in Message /\ queue[i] \in Int
              /\ released[queue[i]] \in Nat
          BY <2>0, <5>0
        <5>2. released[queue[i]] > 0
          BY <5>1
        <5>3. queue[i] < queue[i]
          BY <1>2, <5>1, <5>2 DEF OldestFirst
        <5> QED  BY <5>1, <5>3
      <4>5. \A k \in DOMAIN SubSeq(queue, 1, n) :
               released[SubSeq(queue, 1, n)[k]] = 0
        BY <2>0, <4>1, <4>3, <4>4
      <4>6. \A u \in Thread : \A k \in DOMAIN bufs'[u] :
               released[bufs'[u][k]] = 0
        BY <1>2, <2>0, <4>2, <4>5
      <4> QED  BY <1>2, <4>2, <4>6
    <3> QED  BY <3>1, <3>2
  <2>3. ASSUME NEW t \in Thread, Post(t)
        PROVE  NoReleaseInFlight'
    <3>1. /\ inFlight' = Append(inFlight, bufs[t])
          /\ bufs' = [bufs EXCEPT ![t] = << >>]
          /\ released' = released
      BY <2>3 DEF Post
    <3>2. bufs[t] \in Seq(Message)
      BY <2>0
    <3>3. /\ Len(inFlight) \in Nat
          /\ DOMAIN inFlight' = 1 .. Len(inFlight) + 1
          /\ \A i \in 1 .. Len(inFlight) : inFlight'[i] = inFlight[i]
          /\ inFlight'[Len(inFlight) + 1] = bufs[t]
      BY <2>0, <3>1, <3>2
    <3>4. \A i \in DOMAIN inFlight' :
             \/ inFlight'[i] = bufs[t]
             \/ i \in DOMAIN inFlight /\ inFlight'[i] = inFlight[i]
      <4> SUFFICES ASSUME NEW i \in 1 .. Len(inFlight) + 1
                   PROVE  \/ inFlight'[i] = bufs[t]
                          \/ /\ i \in 1 .. Len(inFlight)
                             /\ inFlight'[i] = inFlight[i]
        BY <2>0, <3>3
      <4>1. i \in 1 .. Len(inFlight) \/ i = Len(inFlight) + 1
        BY <3>3
      <4> QED  BY <3>3, <4>1
    <3>5. \A i \in DOMAIN inFlight' : \A k \in DOMAIN inFlight'[i] :
             released[inFlight'[i][k]] = 0
      BY <1>2, <3>4
    <3>6. \A u \in Thread : \A k \in DOMAIN bufs'[u] : released[bufs'[u][k]] = 0
      BY <1>2, <2>0, <3>1
    <3> QED  BY <3>1, <3>5, <3>6
  <2>4. ASSUME NEW t \in Thread, PostFails(t)
        PROVE  NoReleaseInFlight'
    BY <1>2, <2>0, <2>4 DEF PostFails
  <2>5. CASE Transmit
    <3>1. /\ inFlight' = Tail(inFlight) /\ inFlight # << >>
          /\ bufs' = bufs /\ released' = released
      BY <2>5 DEF Transmit
    <3>2. \A i \in DOMAIN inFlight' :
             \E j \in DOMAIN inFlight : inFlight'[i] = inFlight[j]
      <4>1. inFlight \in Seq(Seq(Message))
        BY <2>0
      <4>2. /\ inFlight' \in Seq(Seq(Message))
            /\ Len(inFlight') = Len(inFlight) - 1
            /\ \A i \in 1 .. Len(inFlight') : inFlight'[i] = inFlight[i + 1]
        BY <3>1, <4>1, HeadTailProperties
      <4>3. /\ DOMAIN inFlight = 1 .. Len(inFlight)
            /\ DOMAIN inFlight' = 1 .. Len(inFlight')
            /\ Len(inFlight) \in Nat
        BY <4>1, <4>2
      <4>4. ASSUME NEW i \in 1 .. Len(inFlight')
            PROVE  \E j \in 1 .. Len(inFlight) : inFlight'[i] = inFlight[j]
        <5>1. PICK j \in 1 .. Len(inFlight) : j = i + 1
          BY <4>2, <4>3
        <5> QED  BY <4>2, <5>1
      <4> QED  BY <4>3, <4>4
    <3> QED  BY <1>2, <3>1, <3>2
  <2>6. ASSUME NEW t \in Worker, OnSend(t)
        PROVE  NoReleaseInFlight'
    <3>1. completed > 0 /\ inFlight' = inFlight /\ bufs' = bufs
      BY <2>6 DEF OnSend
    <3>2. completed \in Nat /\ Len(inFlight) \in Nat
      BY <1>2, <2>0 DEF TypeOK
    <3>3. Busy = {} /\ Len(inFlight) = 0
      <4>1. Len(inFlight) + completed <= 1
        BY <1>2 DEF OneSendAtATime
      <4>2. Busy = {}
        BY <1>2, <3>1, <3>2 DEF OneSendAtATime
      <4> QED  BY <3>1, <3>2, <4>1, <4>2
    <3>4. \A u \in Thread : bufs[u] = << >>
      BY <1>2, <3>3 DEF Busy, OnlyPostersHoldBatch
    <3>5. DOMAIN inFlight = {} /\ \A u \in Thread : DOMAIN bufs[u] = {}
      BY <2>0, <3>3, <3>4
    <3> QED  BY <3>1, <3>5
  <2>7. ASSUME NEW t \in Worker, CheckQueue(t)
        PROVE  NoReleaseInFlight'
    BY <1>2, <2>7 DEF CheckQueue
  <2>8. CASE UNCHANGED vars
    BY <1>2, <2>8 DEF vars
  <2> QED  BY <1>2, <2>1, <2>2, <2>3, <2>4, <2>5, <2>6, <2>7, <2>8 DEF Next
<1> QED  BY <1>1, <1>2

\* Send adds one buffer, Gather moves some, OnSend releases what is held.
LEMMA AccountStep ==
    /\ Init => Accounted
    /\ TypeOK /\ OldestFirst /\ Accounted /\ [Next]_vars => Accounted'
<1> USE DEF Accounted, GoTo, counts
<1>1. Init => Accounted
  BY DEF Init
<1>2. ASSUME TypeOK, OldestFirst, Accounted, [Next]_vars
      PROVE  Accounted'
  <2>0. /\ released \in [Message -> Nat]
        /\ queue \in Seq(Message) /\ sendingList \in Seq(Message)
        /\ taken \in Nat
        /\ \A i \in DOMAIN sendingList : sendingList[i] \in Message
        /\ \A i \in DOMAIN queue : queue[i] \in Message
    BY <1>2, SendPathAssumption DEF TypeOK
  <2>1. ASSUME NEW t \in Sender, Send(t)
        PROVE  Accounted'
    <3>1. /\ taken' = taken + 1 /\ taken' \in Message
          /\ queue' = Append(queue, taken')
          /\ UNCHANGED <<sendingList, released>>
      BY <1>2, <2>1, SendPathAssumption DEF Send, TypeOK, Message
    <3>2. /\ Len(queue) \in Nat /\ DOMAIN queue' = 1 .. Len(queue) + 1
          /\ \A i \in 1 .. Len(queue) : queue'[i] = queue[i]
          /\ queue'[Len(queue) + 1] = taken'
      BY <2>0, <3>1
    <3>3. \A m \in 1 .. taken' : m = taken' \/ m \in 1 .. taken
      BY <2>0, <3>1
    <3>4. \A i \in DOMAIN queue : i \in DOMAIN queue' /\ queue'[i] = queue[i]
      <4>1. DOMAIN queue = 1 .. Len(queue)
        BY <2>0
      <4>2. 1 .. Len(queue) \subseteq 1 .. Len(queue) + 1
        BY <3>2
      <4> QED  BY <3>2, <4>1, <4>2
    <3>5. Len(queue) + 1 \in DOMAIN queue'
      BY <3>2
    <3> QED  BY <1>2, <3>1, <3>2, <3>3, <3>4, <3>5
  <2>2. ASSUME NEW t \in Thread, Gather(t), queue # << >>
        PROVE  Accounted'
    <3> DEFINE n == IF Len(queue) < BatchMax THEN Len(queue) ELSE BatchMax
               head == SubSeq(queue, 1, n)
               tail == SubSeq(queue, n + 1, Len(queue))
    <3>1. n \in 0 .. Len(queue) /\ Len(queue) \in Nat
      BY <2>0, <2>2, GatherCount
    <3>2. /\ sendingList' = sendingList \o head /\ queue' = tail
          /\ UNCHANGED <<taken, released>>
      BY <2>2 DEF Gather
    <3>3. /\ head \in Seq(Message) /\ Len(head) = n
          /\ tail \in Seq(Message) /\ Len(tail) = Len(queue) - n
          /\ \A i \in 1 .. n : head[i] = queue[i]
          /\ \A i \in 1 .. Len(queue) - n : tail[i] = queue[i + n]
      <4> HIDE DEF n
      <4> QED  BY <2>0, <3>1, CutInTwo
    <3> HIDE DEF n, head, tail
    <3>4. /\ Len(sendingList) \in Nat
          /\ DOMAIN sendingList' = 1 .. Len(sendingList) + n
          /\ \A i \in 1 .. Len(sendingList) + n :
                sendingList'[i] = IF i <= Len(sendingList) THEN sendingList[i]
                                  ELSE head[i - Len(sendingList)]
      <4>1. /\ sendingList \o head \in Seq(Message)
            /\ Len(sendingList \o head) = Len(sendingList) + Len(head)
            /\ \A i \in 1 .. Len(sendingList) + Len(head) :
                  (sendingList \o head)[i]
                     = IF i <= Len(sendingList) THEN sendingList[i]
                       ELSE head[i - Len(sendingList)]
        BY <2>0, <3>3, ConcatProperties
      <4> QED  BY <2>0, <3>2, <3>3, <4>1
    <3>5. \A i \in DOMAIN sendingList' :
             \/ /\ i \in DOMAIN sendingList /\ i <= Len(sendingList)
                /\ sendingList'[i] = sendingList[i]
             \/ /\ i > Len(sendingList) /\ i - Len(sendingList) \in DOMAIN queue
                /\ sendingList'[i] = queue[i - Len(sendingList)]
      <4> SUFFICES ASSUME NEW i \in 1 .. Len(sendingList) + n
                   PROVE  \/ /\ i \in 1 .. Len(sendingList)
                             /\ sendingList'[i] = sendingList[i]
                          \/ /\ i > Len(sendingList)
                             /\ i - Len(sendingList) \in 1 .. n
                             /\ sendingList'[i] = queue[i - Len(sendingList)]
        BY <2>0, <3>1, <3>4
      <4>1. CASE i <= Len(sendingList)
        BY <3>4, <4>1
      <4>2. CASE i > Len(sendingList)
        <5>1. i - Len(sendingList) \in 1 .. n /\ ~ (i <= Len(sendingList))
          BY <3>1, <3>4, <4>2
        <5> QED  BY <3>3, <3>4, <4>2, <5>1
      <4> QED  BY <3>1, <3>4, <4>1, <4>2
    <3>6. \A i \in DOMAIN queue : \A j \in DOMAIN queue : queue[i] = queue[j] => i = j
      <4> SUFFICES ASSUME NEW i \in DOMAIN queue, NEW j \in DOMAIN queue,
                          queue[i] = queue[j], i # j
                   PROVE  FALSE
        OBVIOUS
      <4>1. i \in Int /\ j \in Int /\ queue[i] \in Int
        BY <2>0 DEF Message
      <4>2. i < j \/ j < i
        BY <4>1
      <4> QED  BY <1>2, <4>1, <4>2 DEF OldestFirst
    <3>7. \A i \in DOMAIN queue :
             /\ released[queue[i]] = 0
             /\ \A k \in DOMAIN sendingList : sendingList[k] # queue[i]
      <4> SUFFICES ASSUME NEW i \in DOMAIN queue
                   PROVE  /\ ~ (released[queue[i]] > 0)
                          /\ \A k \in DOMAIN sendingList : sendingList[k] # queue[i]
        BY <2>0
      <4>1. queue[i] \in Int /\ ~ (queue[i] < queue[i])
        BY <2>0 DEF Message
      <4> QED  BY <1>2, <2>0, <4>1 DEF OldestFirst
    <3>8. \A i, j \in DOMAIN sendingList' : sendingList'[i] = sendingList'[j] => i = j
      <4> SUFFICES ASSUME NEW i \in DOMAIN sendingList', NEW j \in DOMAIN sendingList',
                          sendingList'[i] = sendingList'[j]
                   PROVE  i = j
        OBVIOUS
      <4>1. i \in Int /\ j \in Int /\ Len(sendingList) \in Int
        BY <3>1, <3>4
      <4>2. CASE i > Len(sendingList) /\ j > Len(sendingList)
        <5>1. i - Len(sendingList) = j - Len(sendingList)
          BY <3>5, <3>6, <4>1, <4>2
        <5> QED  BY <4>1, <5>1
      <4>3. CASE ~ (i > Len(sendingList) /\ j > Len(sendingList))
        BY <1>2, <3>5, <3>7, <4>1, <4>3
      <4> QED  BY <4>2, <4>3
    <3>9. \A k \in DOMAIN sendingList' : released'[sendingList'[k]] = 0
      BY <1>2, <3>2, <3>5, <3>7
    <3>10. ASSUME NEW m \in 1 .. taken'
           PROVE  \/ \E i \in DOMAIN queue' : queue'[i] = m
                  \/ \E k \in DOMAIN sendingList' : sendingList'[k] = m
                  \/ released'[m] = 1
      <4>1. CASE \E i \in DOMAIN queue : queue[i] = m
        <5>1. PICK i \in 1 .. Len(queue) : queue[i] = m
          BY <2>0, <4>1
        <5>2. CASE i <= n
          <6>1. PICK k \in 1 .. Len(sendingList) + n :
                   k = Len(sendingList) + i /\ ~ (k <= Len(sendingList))
                      /\ k - Len(sendingList) = i
            BY <3>1, <3>4, <5>1, <5>2
          <6>2. i \in 1 .. n
            BY <3>1, <5>1, <5>2
          <6>3. sendingList'[k] = m
            BY <3>3, <3>4, <5>1, <6>1, <6>2
          <6> QED  BY <3>4, <6>1, <6>3
        <5>3. CASE i > n
          <6>1. PICK k \in 1 .. Len(queue) - n : k + n = i
            BY <3>1, <5>1, <5>3
          <6>2. k \in DOMAIN queue' /\ queue'[k] = m
            BY <3>2, <3>3, <5>1, <6>1
          <6> QED  BY <6>2
        <5> QED  BY <3>1, <5>1, <5>2, <5>3
      <4>2. CASE \E k \in DOMAIN sendingList : sendingList[k] = m
        <5>1. PICK k \in 1 .. Len(sendingList) : sendingList[k] = m
          BY <2>0, <4>2
        <5>2. k \in DOMAIN sendingList' /\ sendingList'[k] = m
          BY <3>1, <3>4, <5>1
        <5> QED  BY <5>2
      <4> QED  BY <1>2, <3>2, <4>1, <4>2
    <3> QED  BY <1>2, <3>2, <3>8, <3>9, <3>10
  <2>3. ASSUME NEW t \in Worker, OnSend(t)
        PROVE  Accounted'
    <3>1. /\ released' = ReleaseAll(sendingList) /\ sendingList' = << >>
          /\ UNCHANGED <<taken, queue>>
      BY <2>3 DEF OnSend
    <3>2. \A m \in Message :
             released'[m] = IF \E k \in DOMAIN sendingList : sendingList[k] = m
                            THEN released[m] + 1 ELSE released[m]
      BY <3>1 DEF ReleaseAll
    <3>3. \A m \in Message : released'[m] <= 1
      BY <1>2, <2>0, <3>2
    <3>4. \A m \in 1 .. taken : m \in Message
      BY <1>2, SendPathAssumption DEF TypeOK, Message
    <3> QED  BY <1>2, <2>0, <3>1, <3>2, <3>3, <3>4
  <2>4. CASE UNCHANGED <<taken, queue, sendingList, released>>
    BY <1>2, <2>4
  <2>5. ASSUME NEW t \in Thread, Gather(t), queue = << >>
        PROVE  UNCHANGED <<taken, queue, sendingList, released>>
    BY <2>5 DEF Gather
  <2> QED  BY <1>2, <2>1, <2>2, <2>3, <2>4, <2>5
           DEF Next, SendRefused, Post, PostFails, Transmit, CheckQueue, vars
<1> QED  BY <1>1, <1>2

-----------------------------------------------------------------------------
\* The invariant the safety of the send path rests on holds in every state.
THEOREM Invariance == Spec => []IInv
<1>1. Init => IInv
  BY TypeStep, OneSendStep, HoldersStep, QueueStep, OrderStep,
     AccountStep, ReleaseStep
  DEF IInv
<1>2. IInv /\ [Next]_vars => IInv'
  BY TypeStep, OneSendStep, HoldersStep, QueueStep, OrderStep,
     AccountStep, ReleaseStep
  DEF IInv
<1> QED  BY <1>1, <1>2, PTL DEF Spec

\* The variables keep their types (Session::Send, RegisterSend, OnSend).
THEOREM TypeCorrect == Spec => []TypeOK
  BY Invariance, PTL DEF IInv

\* m_isSending excludes two users of the send path, whatever the threads do
\* between its locks: one WSASend at most is posted on a session.
THEOREM MutualExclusion == Spec => []OneSendAtATime
  BY Invariance, PTL DEF IInv

\* No message is left behind by Send and OnSend missing each other.
THEOREM NoLostWakeup == Spec => []NoOrphanInQueue
  BY Invariance, PTL DEF IInv

\* The kernel never reads a buffer that is back in its pool.
THEOREM BufferSafety == Spec => []NoReleaseInFlight
  BY Invariance, PTL DEF IInv

\* The queue is bounded for every limit.
THEOREM Backpressure == Spec => []QueueBounded
  BY Invariance, PTL DEF IInv

\* No buffer leaks and none is released twice, however many threads send and
\* whichever WSASends fail, as long as nobody clears the session.
THEOREM BuffersAccountedFor == Spec => []EveryBufferInOnePlace
<1>1. IInv => EveryBufferInOnePlace
  <2> SUFFICES ASSUME IInv, NEW m \in 1 .. taken
               PROVE  Cardinality({i \in DOMAIN queue : queue[i] = m})
                        + Cardinality({i \in DOMAIN sendingList : sendingList[i] = m})
                        + released[m] = 1
    BY DEF EveryBufferInOnePlace
  <2> DEFINE queued == {i \in DOMAIN queue : queue[i] = m}
             kept == {i \in DOMAIN sendingList : sendingList[i] = m}
  <2>0. /\ m \in Message /\ m \in Int /\ released[m] \in Nat
        /\ queue \in Seq(Message) /\ sendingList \in Seq(Message)
    BY SendPathAssumption DEF IInv, TypeOK, Message
  <2>1. \A i, j \in queued : i = j
    <3> SUFFICES ASSUME NEW i \in queued, NEW j \in queued, i # j
                 PROVE  FALSE
      OBVIOUS
    <3>1. (i < j \/ j < i) /\ ~ (m < m)
      BY <2>0
    <3> QED  BY <3>1 DEF IInv, OldestFirst
  <2>2. \A i, j \in kept : i = j
    BY DEF IInv, Accounted
  <2>3. queued # {} => kept = {} /\ released[m] = 0
    <3> SUFFICES ASSUME NEW i \in queued
                 PROVE  kept = {} /\ ~ (released[m] > 0)
      BY <2>0
    <3>1. ~ (m < m)
      BY <2>0
    <3> QED  BY <2>0, <3>1 DEF IInv, OldestFirst
  <2>4. kept # {} => released[m] = 0
    BY DEF IInv, Accounted
  <2>5. queued # {} \/ kept # {} \/ released[m] = 1
    BY DEF IInv, Accounted
  <2> HIDE DEF queued, kept
  <2>6. ASSUME NEW S, \A i, j \in S : i = j
        PROVE  Cardinality(S) = IF S = {} THEN 0 ELSE 1
    <3>1. CASE S = {}
      BY <3>1, FS_EmptySet
    <3>2. CASE S # {}
      <4>1. PICK i \in S : S = {i}
        BY <2>6, <3>2
      <4> QED  BY <3>2, <4>1, FS_Singleton
    <3> QED  BY <3>1, <3>2
  <2>7. /\ Cardinality(queued) = IF queued = {} THEN 0 ELSE 1
        /\ Cardinality(kept) = IF kept = {} THEN 0 ELSE 1
    BY <2>1, <2>2, <2>6
  <2>8. Cardinality(queued) + Cardinality(kept) + released[m] = 1
    <3>1. CASE queued # {}
      BY <2>3, <2>7, <3>1
    <3>2. CASE queued = {} /\ kept # {}
      BY <2>4, <2>7, <3>2
    <3>3. CASE queued = {} /\ kept = {}
      BY <2>5, <2>7, <3>3
    <3> QED  BY <3>1, <3>2, <3>3
  <2> QED  BY <2>8 DEF queued, kept
<1> QED  BY <1>1, Invariance, PTL

-----------------------------------------------------------------------------
\* What Outstanding is, by who holds the send path.
LEMMA OutstandingValue ==
    ASSUME TypeOK, OneSendAtATime
    PROVE  /\ inFlight # << >> => Outstanding = Head(inFlight)
           /\ \A t \in Thread : pc[t] = "post" => Outstanding = bufs[t]
           /\ inFlight = << >> /\ (\A t \in Thread : pc[t] # "post")
              => Outstanding = << >>
           /\ Outstanding \in Seq(Message)
<1>1. inFlight # << >> => Outstanding = Head(inFlight)
  BY DEF Outstanding
<1>2. ASSUME NEW t \in Thread, pc[t] = "post"
      PROVE  Outstanding = bufs[t]
  <2>1. inFlight = << >>
    BY <1>2 DEF OneSendAtATime, Busy
  <2>2. \A u \in Thread : pc[u] = "post" => u = t
    BY <1>2 DEF OneSendAtATime, Busy
  <2>3. (CHOOSE u \in Thread : pc[u] = "post") = t
    BY <1>2, <2>2
  <2> QED  BY <1>2, <2>1, <2>3 DEF Outstanding
<1>3. inFlight = << >> /\ (\A t \in Thread : pc[t] # "post")
      => Outstanding = << >>
  BY DEF Outstanding
<1>4. Outstanding \in Seq(Message)
  <2>1. CASE inFlight # << >>
    <3>1. inFlight \in Seq(Seq(Message))
      BY DEF TypeOK, Batch
    <3>2. Head(inFlight) \in Seq(Message)
      BY <2>1, <3>1, HeadTailProperties
    <3> QED  BY <1>1, <2>1, <3>2
  <2>2. CASE \E t \in Thread : pc[t] = "post"
    <3>1. PICK t \in Thread : pc[t] = "post"
      BY <2>2
    <3>2. bufs[t] \in Seq(Message)
      BY DEF TypeOK, Batch
    <3> QED  BY <1>2, <3>1, <3>2
  <2>3. CASE inFlight = << >> /\ \A t \in Thread : pc[t] # "post"
    <3>1. Outstanding = << >>
      BY <1>3, <2>3
    <3> QED  BY <3>1
  <2> QED  BY <2>1, <2>2, <2>3
<1> QED  BY <1>1, <1>2, <1>3, <1>4

\* Every step of the send path is a step of the abstract channel, or changes
\* nothing there.
LEMMA ChannelStep ==
    /\ Init => Channel!Init
    /\ IInv /\ IInv' /\ [Next]_vars
       => [Channel!Next]_<<Outstanding \o queue, wire>>
<1> DEFINE pending == Outstanding \o queue
<1>1. Init => Channel!Init
  <2> SUFFICES ASSUME Init
               PROVE  Channel!Init
    OBVIOUS
  <2>1. Outstanding = << >>
    BY DEF Init, Outstanding
  <2>2. queue = << >> /\ wire = << >>
    BY DEF Init
  <2>3. Outstanding \o queue = << >>
    BY <2>1, <2>2
  <2> QED  BY <2>2, <2>3 DEF Channel!Init
<1>2. ASSUME IInv, IInv', [Next]_vars
      PROVE  Channel!Next \/ UNCHANGED <<pending, wire>>
  <2>0. /\ queue \in Seq(Message) /\ queue' \in Seq(Message)
        /\ wire \in Seq(Message)
        /\ bufs \in [Thread -> Seq(Message)]
        /\ pc \in [Thread -> {"idle", "gather", "post", "check"}]
        /\ inFlight \in Seq(Seq(Message))
        /\ Outstanding \in Seq(Message)
    <3>1. Outstanding \in Seq(Message)
      BY <1>2, OutstandingValue DEF IInv
    <3> QED  BY <1>2, <3>1 DEF IInv, TypeOK, Batch
  <2>1. ASSUME NEW t \in Sender, Send(t)
        PROVE  Channel!Next
    <3>1. /\ queue' = Append(queue, taken') /\ wire' = wire
          /\ bufs' = bufs /\ inFlight' = inFlight
      BY <2>1 DEF Send, counts
    <3>2. taken' \in Message
      BY <1>2, <2>1, SendPathAssumption DEF Send, Message, IInv, TypeOK
    <3>3. \A u \in Thread : (pc'[u] = "post") <=> (pc[u] = "post")
      BY <2>0, <2>1 DEF Send, GoTo, Thread
    <3>4. Outstanding' = Outstanding
      BY <3>1, <3>3 DEF Outstanding
    <3>5. Outstanding \o Append(queue, taken') = Append(pending, taken')
      BY <2>0, <3>2
    <3>6. Channel!Take(taken')
      BY <3>1, <3>4, <3>5 DEF Channel!Take
    <3> QED  BY <3>2, <3>6 DEF Channel!Next
  <2>2. ASSUME NEW t \in Sender, SendRefused(t)
        PROVE  UNCHANGED <<pending, wire>>
    BY <2>2 DEF SendRefused, Outstanding
  <2>3. ASSUME NEW t \in Thread, Gather(t)
        PROVE  UNCHANGED <<pending, wire>>
    <3>1. inFlight = << >> /\ \A u \in Thread : u # t => pc[u] = "idle"
      BY <1>2, <2>0, <2>3 DEF Gather, IInv, OneSendAtATime, Busy
    <3>2. Outstanding = << >>
      BY <1>2, <2>3, <3>1, OutstandingValue DEF Gather, IInv
    <3>3. inFlight' = inFlight /\ wire' = wire
      BY <2>3 DEF Gather
    <3>4. CASE queue = << >>
      <4>1. queue' = queue /\ bufs' = bufs /\ pc' = [pc EXCEPT ![t] = "idle"]
        BY <2>3, <3>4 DEF Gather, GoTo
      <4>2. \A u \in Thread : pc'[u] # "post"
        BY <2>0, <3>1, <4>1
      <4>3. Outstanding' = << >>
        BY <3>1, <3>3, <4>2 DEF Outstanding
      <4> QED  BY <3>2, <3>3, <4>1, <4>3
    <3>5. CASE queue # << >>
      <4> DEFINE n == IF Len(queue) < BatchMax THEN Len(queue) ELSE BatchMax
      <4>1. n \in 0 .. Len(queue)
        BY <2>0, <3>5, GatherCount
      <4>2. /\ bufs' = [bufs EXCEPT ![t] = SubSeq(queue, 1, n)]
            /\ queue' = SubSeq(queue, n + 1, Len(queue))
            /\ pc' = [pc EXCEPT ![t] = "post"]
        BY <2>3, <3>5 DEF Gather, GoTo
      <4> HIDE DEF n
      <4>3. \A u \in Thread : pc'[u] = "post" <=> u = t
        BY <2>0, <3>1, <4>2
      <4>4. (CHOOSE u \in Thread : pc'[u] = "post") = t
        BY <4>3
      <4>5. Outstanding' = SubSeq(queue, 1, n)
        BY <2>0, <3>1, <3>3, <4>2, <4>3, <4>4 DEF Outstanding
      <4>6. pending' = queue
        <5>1. queue = SubSeq(queue, 1, n) \o SubSeq(queue, n + 1, Len(queue))
          BY <2>0, <4>1, CutInTwo
        <5> QED  BY <4>2, <4>5, <5>1
      <4>7. pending = queue
        BY <2>0, <3>2
      <4> QED  BY <3>3, <4>6, <4>7
    <3> QED  BY <3>4, <3>5
  <2>4. ASSUME NEW t \in Thread, Post(t)
        PROVE  UNCHANGED <<pending, wire>>
    <3>1. /\ inFlight = << >> /\ inFlight' = Append(inFlight, bufs[t])
          /\ queue' = queue /\ wire' = wire
      BY <1>2, <2>4 DEF Post, IInv, OneSendAtATime, Busy
    <3>2. Outstanding = bufs[t]
      BY <1>2, <2>4, OutstandingValue DEF Post, IInv
    <3>3. inFlight' # << >> /\ Head(inFlight') = bufs[t]
      BY <2>0, <3>1
    <3>4. Outstanding' = bufs[t]
      BY <3>3 DEF Outstanding
    <3> QED  BY <3>1, <3>2, <3>4
  <2>5. ASSUME NEW t \in Thread, PostFails(t)
        PROVE  Channel!Next \/ UNCHANGED <<pending, wire>>
    <3>1. /\ inFlight = << >> /\ inFlight' = << >>
          /\ queue' = queue /\ wire' = wire
          /\ pc' = [pc EXCEPT ![t] = "idle"]
          /\ \A u \in Thread : u # t => pc[u] = "idle"
      BY <1>2, <2>0, <2>5 DEF PostFails, GoTo, IInv, OneSendAtATime, Busy
    <3>2. Outstanding = bufs[t] /\ bufs[t] \in Seq(Message)
      BY <1>2, <2>0, <2>5, OutstandingValue DEF PostFails, IInv
    <3>3. \A u \in Thread : pc'[u] # "post"
      BY <2>0, <3>1
    <3>4. Outstanding' = << >>
      BY <3>1, <3>3 DEF Outstanding
    <3>5. pending' = queue
      BY <2>0, <3>1, <3>4
    <3>6. CASE bufs[t] = << >>
      <4>1. pending = queue
        BY <2>0, <3>2, <3>6
      <4> QED  BY <3>1, <3>5, <4>1
    <3>7. CASE bufs[t] # << >>
      <4>1. /\ Len(bufs[t]) \in 1 .. Len(pending)
            /\ SubSeq(pending, Len(bufs[t]) + 1, Len(pending)) = queue
        BY <2>0, <3>2, <3>7, RestOfConcat
      <4>2. Channel!Drop(Len(bufs[t]))
        BY <3>1, <3>5, <4>1 DEF Channel!Drop
      <4> QED  BY <4>1, <4>2 DEF Channel!Next
    <3> QED  BY <3>6, <3>7
  <2>6. CASE Transmit
    <3>1. /\ inFlight # << >> /\ inFlight' = Tail(inFlight)
          /\ queue' = queue /\ wire' = wire \o Head(inFlight) /\ pc' = pc
      BY <2>6 DEF Transmit
    <3>2. Head(inFlight) \in Seq(Message) /\ Outstanding = Head(inFlight)
      BY <1>2, <2>0, <3>1, OutstandingValue, HeadTailProperties DEF IInv
    <3>3. inFlight' = << >>
      <4>1. completed' > 0
        BY <1>2, <2>6 DEF Transmit, IInv, TypeOK
      <4>2. Len(inFlight') + completed' <= 1 /\ completed' \in Nat
            /\ inFlight' \in Seq(Seq(Message))
        BY <1>2 DEF IInv, OneSendAtATime, TypeOK, Batch
      <4> QED  BY <4>1, <4>2
    <3>4. \A u \in Thread : pc'[u] # "post"
      BY <1>2, <3>1 DEF IInv, OneSendAtATime, Busy
    <3>5. Outstanding' = << >>
      BY <3>3, <3>4 DEF Outstanding
    <3>6. pending' = queue
      BY <2>0, <3>1, <3>5
    <3>7. CASE Head(inFlight) = << >>
      <4>1. pending = queue /\ wire' = wire
        <5>1. << >> \o queue = queue /\ wire \o << >> = wire
          BY <2>0, ConcatEmptySeq
        <5> QED  BY <3>1, <3>2, <3>7, <5>1
      <4> QED  BY <3>6, <4>1
    <3>8. CASE Head(inFlight) # << >>
      <4> DEFINE b == Head(inFlight)
      <4>1. /\ Len(b) \in 1 .. Len(pending)
            /\ SubSeq(pending, 1, Len(b)) = b
            /\ SubSeq(pending, Len(b) + 1, Len(pending)) = queue
        <5>1. b \in Seq(Message) /\ b # << >> /\ pending = b \o queue
          BY <3>2, <3>8
        <5> HIDE DEF b, pending
        <5>2. /\ Len(b) \in 1 .. Len(b \o queue)
              /\ SubSeq(b \o queue, 1, Len(b)) = b
              /\ SubSeq(b \o queue, Len(b) + 1, Len(b \o queue)) = queue
          BY <2>0, <5>1, RestOfConcat
        <5> QED  BY <5>1, <5>2
      <4>2. Channel!Transmit(Len(b))
        BY <3>1, <3>6, <4>1 DEF Channel!Transmit
      <4> QED  BY <4>1, <4>2 DEF Channel!Next
    <3> QED  BY <3>7, <3>8
  <2>7. ASSUME NEW t \in Worker, OnSend(t) \/ CheckQueue(t)
        PROVE  UNCHANGED <<pending, wire>>
    <3>1. /\ queue' = queue /\ wire' = wire
          /\ inFlight' = inFlight /\ bufs' = bufs
      BY <2>7 DEF OnSend, CheckQueue
    <3>2. \A u \in Thread : (pc'[u] = "post") <=> (pc[u] = "post")
      BY <2>0, <2>7 DEF OnSend, CheckQueue, GoTo, Thread
    <3>3. Outstanding' = Outstanding
      BY <3>1, <3>2 DEF Outstanding
    <3> QED  BY <3>1, <3>3
  <2>8. CASE UNCHANGED vars
    BY <2>8 DEF vars, Outstanding
  <2> QED  BY <1>2, <2>1, <2>2, <2>3, <2>4, <2>5, <2>6, <2>7, <2>8 DEF Next
<1> QED  BY <1>1, <1>2

\* The send path delivers what Send takes in order and at most once, for
\* every set of threads, every limit and every batch size.
THEOREM SendPathImplementsChannel == Spec => ImplementsChannel
  BY ChannelStep, Invariance, PTL DEF Spec, ImplementsChannel, Channel!Spec

-----------------------------------------------------------------------------
(* What is left of it when other workers clear the session. *)

Elems(seq) == {seq[i] : i \in DOMAIN seq}
Distinct(seq) == \A i, j \in DOMAIN seq : seq[i] = seq[j] => i = j

\* A message is in one of the queue, a thread's batch, a posted batch and the
\* wire at most, and there once.
OneCopy ==
    /\ Distinct(queue) /\ Distinct(wire) /\ Elems(queue) \cap Elems(wire) = {}
    /\ \A t \in Thread :
          /\ Distinct(bufs[t])
          /\ Elems(bufs[t]) \cap Elems(queue) = {}
          /\ Elems(bufs[t]) \cap Elems(wire) = {}
          /\ \A u \in Thread : t # u => Elems(bufs[t]) \cap Elems(bufs[u]) = {}
          /\ \A i \in DOMAIN inFlight : Elems(bufs[t]) \cap Elems(inFlight[i]) = {}
    /\ \A i \in DOMAIN inFlight :
          /\ Distinct(inFlight[i])
          /\ Elems(inFlight[i]) \cap Elems(queue) = {}
          /\ Elems(inFlight[i]) \cap Elems(wire) = {}
          /\ \A k \in DOMAIN inFlight : i # k => Elems(inFlight[i]) \cap Elems(inFlight[k]) = {}

\* Only a message that was taken is anywhere.
OnlyTaken ==
    LET old == 1 .. taken
    IN  /\ Elems(queue) \subseteq old /\ Elems(wire) \subseteq old
        /\ Elems(sendingList) \subseteq old
        /\ \A t \in Thread : Elems(bufs[t]) \subseteq old
        /\ \A i \in DOMAIN inFlight : Elems(inFlight[i]) \subseteq old
        /\ \A m \in Message \ old : released[m] = 0

\* A queued buffer was not released, and nobody can release it.
QueueUntouched ==
    /\ Elems(queue) \cap Elems(sendingList) = {}
    /\ \A m \in Elems(queue) : released[m] = 0

TeardownIInv == TeardownTypeOK /\ OneCopy /\ OnlyTaken /\ QueueUntouched

\* Elements and repetitions, under the operators that the send path uses.
LEMMA AppendElems ==
    ASSUME NEW S, NEW q \in Seq(S), NEW e \in S
    PROVE  /\ Elems(Append(q, e)) = Elems(q) \cup {e}
           /\ Distinct(q) /\ e \notin Elems(q) => Distinct(Append(q, e))
<1>1. /\ Len(q) \in Nat /\ DOMAIN q = 1 .. Len(q)
      /\ DOMAIN Append(q, e) = 1 .. Len(q) + 1
      /\ \A i \in 1 .. Len(q) : Append(q, e)[i] = q[i]
      /\ Append(q, e)[Len(q) + 1] = e
  OBVIOUS
<1>2. \A i \in 1 .. Len(q) + 1 : i \in 1 .. Len(q) \/ i = Len(q) + 1
  BY <1>1
<1>3. 1 .. Len(q) \subseteq 1 .. Len(q) + 1 /\ Len(q) + 1 \in 1 .. Len(q) + 1
  BY <1>1
<1> QED  BY <1>1, <1>2, <1>3 DEF Elems, Distinct

LEMMA ConcatElems ==
    ASSUME NEW S, NEW p \in Seq(S), NEW q \in Seq(S)
    PROVE  /\ Elems(p \o q) = Elems(p) \cup Elems(q)
           /\ Distinct(p) /\ Distinct(q) /\ Elems(p) \cap Elems(q) = {} => Distinct(p \o q)
<1> DEFINE both == p \o q
<1>1. /\ Len(p) \in Nat /\ DOMAIN p = 1 .. Len(p)
      /\ Len(q) \in Nat /\ DOMAIN q = 1 .. Len(q)
      /\ DOMAIN both = 1 .. Len(p) + Len(q)
      /\ \A i \in 1 .. Len(p) + Len(q) :
            both[i] = IF i <= Len(p) THEN p[i] ELSE q[i - Len(p)]
  BY ConcatProperties
<1> HIDE DEF both
<1>2. \A i \in DOMAIN both : \/ i \in DOMAIN p /\ both[i] = p[i]
                             \/ i - Len(p) \in DOMAIN q /\ both[i] = q[i - Len(p)]
  <2> SUFFICES ASSUME NEW i \in 1 .. Len(p) + Len(q)
               PROVE  \/ i \in 1 .. Len(p) /\ both[i] = p[i]
                      \/ i - Len(p) \in 1 .. Len(q) /\ both[i] = q[i - Len(p)]
    BY <1>1
  <2>1. CASE i <= Len(p)
    BY <1>1, <2>1
  <2>2. CASE ~ (i <= Len(p))
    <3>1. i - Len(p) \in 1 .. Len(q)
      BY <1>1, <2>2
    <3> QED  BY <1>1, <2>2, <3>1
  <2> QED  BY <2>1, <2>2
<1>3. \A i \in DOMAIN p : i \in DOMAIN both /\ both[i] = p[i]
  <2> SUFFICES ASSUME NEW i \in 1 .. Len(p)
               PROVE  i \in 1 .. Len(p) + Len(q) /\ both[i] = p[i]
    BY <1>1
  <2> QED  BY <1>1
<1>4. \A i \in DOMAIN q : i + Len(p) \in DOMAIN both /\ both[i + Len(p)] = q[i]
  <2> SUFFICES ASSUME NEW i \in 1 .. Len(q)
               PROVE  i + Len(p) \in 1 .. Len(p) + Len(q) /\ both[i + Len(p)] = q[i]
    BY <1>1
  <2>1. /\ i + Len(p) \in 1 .. Len(p) + Len(q) /\ ~ (i + Len(p) <= Len(p))
        /\ (i + Len(p)) - Len(p) = i
    BY <1>1
  <2> QED  BY <1>1, <2>1
<1>5. Elems(both) = Elems(p) \cup Elems(q)
  BY <1>2, <1>3, <1>4 DEF Elems
<1>6. ASSUME Distinct(p), Distinct(q), Elems(p) \cap Elems(q) = {},
             NEW i \in DOMAIN both, NEW j \in DOMAIN both, both[i] = both[j]
      PROVE  i = j
  <2>1. i \in Int /\ j \in Int
    BY <1>1
  <2>2. \A k \in DOMAIN p, l \in DOMAIN q : p[k] # q[l]
    BY <1>6 DEF Elems
  <2>3. CASE i \in DOMAIN p /\ both[i] = p[i] /\ j \in DOMAIN p /\ both[j] = p[j]
    BY <1>6, <2>3 DEF Distinct
  <2>4. CASE /\ i - Len(p) \in DOMAIN q /\ both[i] = q[i - Len(p)]
             /\ j - Len(p) \in DOMAIN q /\ both[j] = q[j - Len(p)]
    <3>1. i - Len(p) = j - Len(p)
      BY <1>6, <2>4 DEF Distinct
    <3> QED  BY <1>1, <2>1, <3>1
  <2> QED  BY <1>2, <1>6, <2>2, <2>3, <2>4
<1> QED  BY <1>5, <1>6 DEF both, Distinct

LEMMA CutElems ==
    ASSUME NEW S, NEW q \in Seq(S), NEW n \in 0 .. Len(q)
    PROVE  LET head == SubSeq(q, 1, n)
               tail == SubSeq(q, n + 1, Len(q))
           IN  /\ Elems(head) \cup Elems(tail) = Elems(q)
               /\ Distinct(q) => /\ Distinct(head) /\ Distinct(tail)
                                 /\ Elems(head) \cap Elems(tail) = {}
<1> DEFINE head == SubSeq(q, 1, n)
           tail == SubSeq(q, n + 1, Len(q))
<1>1. /\ head \in Seq(S) /\ Len(head) = n
      /\ tail \in Seq(S) /\ Len(tail) = Len(q) - n
      /\ \A i \in 1 .. n : head[i] = q[i]
      /\ \A i \in 1 .. Len(q) - n : tail[i] = q[i + n]
      /\ q = head \o tail
  BY CutInTwo
<1>2. Len(q) \in Nat /\ n \in Nat /\ n <= Len(q) /\ DOMAIN q = 1 .. Len(q)
  OBVIOUS
<1>3. DOMAIN head = 1 .. n /\ DOMAIN tail = 1 .. Len(q) - n
  BY <1>1
<1> HIDE DEF head, tail
<1>4. Elems(head) \cup Elems(tail) = Elems(q)
  BY <1>1, ConcatElems
<1>5. ASSUME Distinct(q)
      PROVE  Distinct(head) /\ Distinct(tail) /\ Elems(head) \cap Elems(tail) = {}
  <2>1. \A i \in 1 .. n : i \in DOMAIN q /\ i <= n
    BY <1>2
  <2>2. \A i \in 1 .. Len(q) - n : i + n \in DOMAIN q /\ i + n > n
    BY <1>2
  <2>3. Distinct(head)
    BY <1>1, <1>3, <1>5, <2>1 DEF Distinct
  <2>4. Distinct(tail)
    <3> SUFFICES ASSUME NEW i \in 1 .. Len(q) - n, NEW j \in 1 .. Len(q) - n,
                        tail[i] = tail[j]
                 PROVE  i = j
      BY <1>3 DEF Distinct
    <3>1. q[i + n] = q[j + n] /\ i + n \in DOMAIN q /\ j + n \in DOMAIN q
      BY <1>1, <2>2
    <3>2. i + n = j + n
      BY <1>5, <3>1, Zenon DEF Distinct
    <3> QED  BY <1>2, <3>2
  <2>5. \A i \in 1 .. n, j \in 1 .. Len(q) - n : head[i] # tail[j]
    <3> SUFFICES ASSUME NEW i \in 1 .. n, NEW j \in 1 .. Len(q) - n, head[i] = tail[j]
                 PROVE  FALSE
      OBVIOUS
    <3>1. q[i] = q[j + n] /\ i \in DOMAIN q /\ j + n \in DOMAIN q
      BY <1>1, <2>1, <2>2
    <3>2. i = j + n
      BY <1>5, <3>1, Zenon DEF Distinct
    <3> QED  BY <1>2, <3>2
  <2> QED  BY <1>3, <2>3, <2>4, <2>5 DEF Elems
<1> QED  BY <1>4, <1>5 DEF head, tail

LEMMA TeardownTypes ==
    /\ TeardownInit => TeardownTypeOK
    /\ TeardownTypeOK /\ [TeardownNext]_allVars => TeardownTypeOK'
<1> DEFINE Places == {"idle", "gather", "post", "forget", "check"}
<1>1. ASSUME TeardownInit
      PROVE  TeardownTypeOK
  <2>1. /\ << >> \in Seq(Message) /\ << >> \in Seq(Seq(Message))
        /\ 0 \in 0 .. MaxConns /\ 1 \in 1 .. MaxConns
    BY MaxConnsAssumption
  <2>2. /\ pc \in [Thread -> Places] /\ bufs \in [Thread -> Seq(Message)]
        /\ released \in [Message -> Nat]
        /\ takenOn \in [Message -> 0 .. MaxConns]
        /\ sentOn \in [Message -> SUBSET (1 .. MaxConns)]
    BY <1>1, <2>1 DEF TeardownInit, Init
  <2>3. taken + refused <= MaxSends /\ conn \in 1 .. MaxConns
    BY <1>1, <2>1, SendPathAssumption DEF TeardownInit, Init
  <2> QED  BY <1>1, <2>1, <2>2, <2>3 DEF TeardownInit, Init, TeardownTypeOK
<1>2. ASSUME TeardownTypeOK, [TeardownNext]_allVars
      PROVE  TeardownTypeOK'
  <2> USE <1>2 DEF TeardownTypeOK, GoTo, counts, session, history, Unchanged, vars
  <2>0. \A q \in Seq(Message) : ReleaseAll(q) \in [Message -> Nat]
    BY DEF ReleaseAll
  <2>1. ASSUME NEW t \in Sender, TakeMessage(t)
        PROVE  TeardownTypeOK'
    <3>1. taken' \in Message /\ taken' \in Nat /\ taken' + refused' <= MaxSends
      BY <2>1, SendPathAssumption DEF TakeMessage, Send, Message
    <3>2. queue' \in Seq(Message) /\ takenOn' \in [Message -> 0 .. MaxConns]
      BY <2>1, <3>1, MaxConnsAssumption DEF TakeMessage, Send
    <3>3. pc' \in [Thread -> Places]
      BY <2>1 DEF TakeMessage, Send, Thread
    <3> QED  BY <2>1, <3>1, <3>2, <3>3 DEF TakeMessage, Send
  <2>2. ASSUME NEW t \in Sender, Unchanged(SendRefused(t))
        PROVE  TeardownTypeOK'
    BY <2>2, SendPathAssumption DEF SendRefused
  <2>3. ASSUME NEW t \in Thread, Unchanged(Gather(t)), queue # << >>
        PROVE  TeardownTypeOK'
    <3> DEFINE n == IF Len(queue) < BatchMax THEN Len(queue) ELSE BatchMax
    <3>1. n \in 0 .. Len(queue)
      BY <2>3, GatherCount
    <3>2. /\ sendingList' = sendingList \o SubSeq(queue, 1, n)
          /\ bufs' = [bufs EXCEPT ![t] = SubSeq(queue, 1, n)]
          /\ queue' = SubSeq(queue, n + 1, Len(queue))
          /\ pc' = [pc EXCEPT ![t] = "post"]
          /\ UNCHANGED <<taken, refused, isSending, inFlight, completed, wire, released,
                         failed, session, aborted, history>>
      BY <2>3 DEF Gather
    <3> HIDE DEF n
    <3>3. /\ SubSeq(queue, 1, n) \in Seq(Message)
          /\ SubSeq(queue, n + 1, Len(queue)) \in Seq(Message)
      BY <3>1, CutInTwo
    <3>4. /\ queue' \in Seq(Message) /\ sendingList' \in Seq(Message)
          /\ bufs' \in [Thread -> Seq(Message)] /\ pc' \in [Thread -> Places]
      BY <3>2, <3>3
    <3>5. UNCHANGED <<taken, refused, isSending, inFlight, completed, wire, released, failed,
                      conn, open, recvPosted, aborted, takenOn, sentOn>>
      BY <3>2
    <3> QED  BY <3>4, <3>5
  <2>4. ASSUME NEW t \in Thread, Unchanged(Gather(t)), queue = << >>
        PROVE  TeardownTypeOK'
    BY <2>4 DEF Gather
  <2>5. ASSUME NEW t \in Thread, PostBatch(t)
        PROVE  TeardownTypeOK'
    <3>1. bufs[t] \in Seq(Message) /\ inFlight' \in Seq(Seq(Message))
      BY <2>5 DEF PostBatch, Post
    <3>2. sentOn' \in [Message -> SUBSET (1 .. MaxConns)]
      BY <2>5 DEF PostBatch
    <3>3. bufs' \in [Thread -> Seq(Message)] /\ pc' \in [Thread -> Places]
      BY <2>5 DEF PostBatch, Post
    <3>4. UNCHANGED <<taken, refused, queue, sendingList, isSending, completed, wire,
                      released, failed, conn, open, recvPosted, aborted, takenOn>>
      BY <2>5 DEF PostBatch, Post
    <3> QED  BY <3>1, <3>2, <3>3, <3>4
  <2>6. ASSUME NEW t \in Thread, PostBatchFails(t)
        PROVE  TeardownTypeOK'
    <3>1. bufs' \in [Thread -> Seq(Message)] /\ pc' \in [Thread -> Places]
      BY <2>6 DEF PostBatchFails, PostFails
    <3>2. /\ isSending' \in BOOLEAN /\ failed' \in BOOLEAN
          /\ UNCHANGED <<taken, refused, queue, sendingList, inFlight, completed, wire,
                         released, conn, open, recvPosted, aborted, takenOn, sentOn>>
      BY <2>6 DEF PostBatchFails, PostFails
    <3> QED  BY <3>1, <3>2
  <2>7. ASSUME NEW t \in Worker, ReleaseSent(t)
        PROVE  TeardownTypeOK'
    <3>1. pc' \in [Thread -> Places] /\ released' \in [Message -> Nat]
      BY <2>0, <2>7 DEF ReleaseSent, Thread
    <3> QED  BY <2>7, <3>1 DEF ReleaseSent
  <2>8. ASSUME NEW t \in Worker, ForgetSent(t) \/ Unchanged(CheckQueue(t))
        PROVE  TeardownTypeOK'
    <3>1. pc' \in [Thread -> Places] /\ sendingList' \in Seq(Message)
          /\ isSending' \in BOOLEAN
      <4>1. t \in Thread
        BY DEF Thread
      <4>2. CASE ForgetSent(t)
        BY <4>1, <4>2 DEF ForgetSent
      <4>3. CASE Unchanged(CheckQueue(t))
        BY <4>1, <4>3 DEF CheckQueue
      <4> QED  BY <2>8, <4>2, <4>3
    <3>2. UNCHANGED <<taken, refused, queue, bufs, inFlight, completed, wire, released,
                      failed, conn, open, recvPosted, aborted, takenOn, sentOn>>
      BY <2>8 DEF ForgetSent, CheckQueue
    <3> QED  BY <3>1, <3>2
  <2>9. ASSUME NEW t \in Worker, RecvEnds(t) \/ SendEnds(t)
        PROVE  TeardownTypeOK'
    <3>1. queue \o sendingList \in Seq(Message)
      OBVIOUS
    <3>2. released' \in [Message -> Nat]
      BY <2>0, <2>9, <3>1 DEF RecvEnds, SendEnds, ClearSession
    <3>3. /\ queue' \in Seq(Message) /\ sendingList' \in Seq(Message)
          /\ isSending' \in BOOLEAN /\ open' \in BOOLEAN /\ recvPosted' \in BOOLEAN
          /\ aborted' \in Nat
      <4>1. queue' = << >> /\ sendingList' = << >> /\ isSending' = FALSE /\ open' = FALSE
        BY <2>9, Zenon DEF RecvEnds, SendEnds, ClearSession
      <4>2. recvPosted' \in BOOLEAN
        BY <2>9 DEF RecvEnds, SendEnds
      <4>3. aborted' \in Nat
        BY <2>9 DEF RecvEnds, SendEnds
      <4>4. << >> \in Seq(Message)
        OBVIOUS
      <4> HIDE <1>2
      <4> QED  BY <4>1, <4>2, <4>3, <4>4
    <3>4. UNCHANGED <<taken, refused, pc, bufs, inFlight, completed, wire, failed, conn,
                      takenOn, sentOn>>
      BY <2>9 DEF RecvEnds, SendEnds
    <3> QED  BY <3>2, <3>3, <3>4
  <2>10. ASSUME NEW t \in Worker, Accept(t)
         PROVE  TeardownTypeOK'
    <3>1. conn' \in 1 .. MaxConns /\ open' \in BOOLEAN /\ recvPosted' \in BOOLEAN
      BY <2>10, MaxConnsAssumption DEF Accept
    <3>2. UNCHANGED <<taken, refused, queue, sendingList, isSending, pc, bufs, inFlight,
                      completed, wire, released, failed, aborted, takenOn, sentOn>>
      BY <2>10 DEF Accept
    <3> QED  BY <3>1, <3>2
  <2>11. CASE Unchanged(Transmit)
    <3>1. Head(inFlight) \in Seq(Message) /\ Tail(inFlight) \in Seq(Seq(Message))
      BY <2>11, HeadTailProperties DEF Transmit
    <3>2. wire \o Head(inFlight) \in Seq(Message)
      BY <3>1
    <3>3. wire' \in Seq(Message) /\ inFlight' \in Seq(Seq(Message)) /\ completed' \in Nat
      BY <2>11, <3>1, <3>2 DEF Transmit
    <3>4. UNCHANGED <<taken, refused, queue, sendingList, isSending, pc, bufs, released,
                      failed, conn, open, recvPosted, aborted, takenOn, sentOn>>
      BY <2>11 DEF Transmit
    <3> QED  BY <3>3, <3>4
  <2>12. CASE Abort
    <3>1. inFlight' \in Seq(Seq(Message)) /\ aborted' \in Nat
      BY <2>12, HeadTailProperties DEF Abort
    <3>2. UNCHANGED <<taken, refused, queue, sendingList, isSending, pc, bufs, completed,
                      wire, released, failed, conn, open, recvPosted, takenOn, sentOn>>
      BY <2>12 DEF Abort
    <3> QED  BY <3>1, <3>2
  <2>13. CASE UNCHANGED allVars
    BY <2>13 DEF allVars
  <2> QED  BY <2>1, <2>2, <2>3, <2>4, <2>5, <2>6, <2>7, <2>8, <2>9, <2>10, <2>11, <2>12,
              <2>13 DEF TeardownNext
<1> QED  BY <1>1, <1>2

LEMMA EmptyElems == Elems(<< >>) = {} /\ Distinct(<< >>)
BY DEF Elems, Distinct

\* What Tail leaves of the posted batches.
LEMMA TailOfPosted ==
    ASSUME TeardownTypeOK, inFlight # << >>, inFlight' = Tail(inFlight)
    PROVE  /\ 1 \in DOMAIN inFlight /\ Head(inFlight) = inFlight[1]
           /\ Head(inFlight) \in Seq(Message)
           /\ \A i \in DOMAIN inFlight' :
                 i \in Nat /\ i + 1 \in DOMAIN inFlight /\ i + 1 # 1
                    /\ inFlight'[i] = inFlight[i + 1]
<1>1. inFlight \in Seq(Seq(Message))
  BY DEF TeardownTypeOK
<1>2. /\ inFlight' \in Seq(Seq(Message)) /\ Head(inFlight) \in Seq(Message)
      /\ Len(inFlight') = Len(inFlight) - 1 /\ Len(inFlight) \in Nat \ {0}
      /\ \A i \in 1 .. Len(inFlight') : inFlight'[i] = inFlight[i + 1]
      /\ Head(inFlight) = inFlight[1]
  BY <1>1, HeadTailProperties
<1>3. DOMAIN inFlight' = 1 .. Len(inFlight') /\ DOMAIN inFlight = 1 .. Len(inFlight)
  BY <1>1, <1>2
<1>4. \A i \in 1 .. Len(inFlight') : i \in Nat /\ i + 1 \in 1 .. Len(inFlight) /\ i + 1 # 1
  BY <1>2
<1>5. 1 \in 1 .. Len(inFlight)
  BY <1>2
<1> QED  BY <1>2, <1>3, <1>4, <1>5

\* What Post adds to them.
LEMMA AppendToPosted ==
    ASSUME TeardownTypeOK, NEW t \in Thread, inFlight' = Append(inFlight, bufs[t])
    PROVE  \E last : /\ last \notin DOMAIN inFlight
                     /\ DOMAIN inFlight' = DOMAIN inFlight \cup {last}
                     /\ inFlight'[last] = bufs[t]
                     /\ \A i \in DOMAIN inFlight : inFlight'[i] = inFlight[i]
<1>1. bufs[t] \in Seq(Message) /\ inFlight \in Seq(Seq(Message))
  BY DEF TeardownTypeOK
<1>2. /\ Len(inFlight) \in Nat /\ DOMAIN inFlight = 1 .. Len(inFlight)
      /\ DOMAIN inFlight' = 1 .. Len(inFlight) + 1
      /\ \A i \in 1 .. Len(inFlight) : inFlight'[i] = inFlight[i]
      /\ inFlight'[Len(inFlight) + 1] = bufs[t]
  BY <1>1
<1>3. /\ 1 .. Len(inFlight) + 1 = 1 .. Len(inFlight) \cup {Len(inFlight) + 1}
      /\ Len(inFlight) + 1 \notin 1 .. Len(inFlight)
  BY <1>2
<1> QED  BY <1>2, <1>3

LEMMA OneCopyStep ==
    TeardownTypeOK /\ OneCopy /\ OnlyTaken /\ [TeardownNext]_allVars => OneCopy'
<1> SUFFICES ASSUME TeardownTypeOK, OneCopy, OnlyTaken, [TeardownNext]_allVars
             PROVE  OneCopy'
  OBVIOUS
<1>0. /\ queue \in Seq(Message) /\ wire \in Seq(Message)
      /\ bufs \in [Thread -> Seq(Message)]
      /\ inFlight \in Seq(Seq(Message))
      /\ taken \in Nat
  BY DEF TeardownTypeOK
<1>1. ASSUME NEW t \in Sender, TakeMessage(t)
      PROVE  OneCopy'
  <2>1. /\ taken' = taken + 1 /\ taken' \in Message
        /\ queue' = Append(queue, taken')
        /\ UNCHANGED <<wire, bufs, inFlight>>
    BY <1>0, <1>1, SendPathAssumption DEF TakeMessage, Send, Message, TeardownTypeOK
  <2>2. taken' \notin 1 .. taken
    BY <1>0, <2>1
  <2>3. /\ taken' \notin Elems(queue) /\ taken' \notin Elems(wire)
        /\ \A u \in Thread : taken' \notin Elems(bufs[u])
        /\ \A i \in DOMAIN inFlight : taken' \notin Elems(inFlight[i])
    BY <2>2 DEF OnlyTaken
  <2>4. Elems(queue') = Elems(queue) \cup {taken'} /\ Distinct(queue')
    BY <1>0, <2>1, <2>3, AppendElems DEF OneCopy
  <2>5. Elems(queue') \cap Elems(wire) = {}
    BY <2>3, <2>4 DEF OneCopy
  <2>6. \A u \in Thread : Elems(bufs[u]) \cap Elems(queue') = {}
    BY <2>3, <2>4 DEF OneCopy
  <2>7. \A i \in DOMAIN inFlight : Elems(inFlight[i]) \cap Elems(queue') = {}
    BY <2>3, <2>4 DEF OneCopy
  <2> QED  BY <2>1, <2>4, <2>5, <2>6, <2>7 DEF OneCopy
<1>2. ASSUME NEW t \in Thread, Gather(t), queue # << >>
      PROVE  OneCopy'
  <2> DEFINE n == IF Len(queue) < BatchMax THEN Len(queue) ELSE BatchMax
             head == SubSeq(queue, 1, n)
             tail == SubSeq(queue, n + 1, Len(queue))
  <2>1. n \in 0 .. Len(queue)
    BY <1>0, <1>2, GatherCount
  <2>2. /\ bufs' = [bufs EXCEPT ![t] = head] /\ queue' = tail
        /\ UNCHANGED <<wire, inFlight>>
    BY <1>2 DEF Gather
  <2>3. /\ Elems(head) \cup Elems(tail) = Elems(queue)
        /\ Distinct(head) /\ Distinct(tail) /\ Elems(head) \cap Elems(tail) = {}
    <3> HIDE DEF n
    <3>1. Distinct(queue)
      BY DEF OneCopy
    <3> QED  BY <1>0, <2>1, <3>1, CutElems
  <2>4. \A u \in Thread : bufs'[u] = IF u = t THEN head ELSE bufs[u]
    BY <1>0, <2>2
  <2> HIDE DEF n, head, tail
  <2>5. \A u \in Thread : Distinct(bufs'[u])
    BY <2>3, <2>4 DEF OneCopy
  <2>6. \A u \in Thread : /\ Elems(bufs'[u]) \cap Elems(queue') = {}
                          /\ Elems(bufs'[u]) \cap Elems(wire) = {}
    BY <2>2, <2>3, <2>4 DEF OneCopy
  <2>7. \A u, v \in Thread : u # v => Elems(bufs'[u]) \cap Elems(bufs'[v]) = {}
    BY <2>3, <2>4 DEF OneCopy
  <2>8. \A u \in Thread : \A i \in DOMAIN inFlight :
           Elems(bufs'[u]) \cap Elems(inFlight[i]) = {}
    BY <2>3, <2>4 DEF OneCopy
  <2> QED  BY <2>2, <2>3, <2>5, <2>6, <2>7, <2>8 DEF OneCopy
<1>3. ASSUME NEW t \in Thread, PostBatch(t)
      PROVE  OneCopy'
  <2>1. /\ bufs' = [bufs EXCEPT ![t] = << >>]
        /\ inFlight' = Append(inFlight, bufs[t])
        /\ UNCHANGED <<queue, wire>>
    BY <1>3 DEF PostBatch, Post
  <2>2. PICK last : /\ last \notin DOMAIN inFlight
                    /\ DOMAIN inFlight' = DOMAIN inFlight \cup {last}
                    /\ inFlight'[last] = bufs[t]
                    /\ \A i \in DOMAIN inFlight : inFlight'[i] = inFlight[i]
    BY <2>1, AppendToPosted
  <2>3. \A u \in Thread : bufs'[u] = IF u = t THEN << >> ELSE bufs[u]
    BY <1>0, <2>1
  <2>4. \A i \in DOMAIN inFlight' : inFlight'[i] = IF i = last THEN bufs[t] ELSE inFlight[i]
    BY <2>2
  <2>5. \A u \in Thread : /\ Distinct(bufs'[u])
                          /\ Elems(bufs'[u]) \cap Elems(queue) = {}
                          /\ Elems(bufs'[u]) \cap Elems(wire) = {}
                          /\ \A v \in Thread : u # v => Elems(bufs'[u]) \cap Elems(bufs'[v]) = {}
    BY <2>3, EmptyElems DEF OneCopy
  <2>6. \A u \in Thread : \A i \in DOMAIN inFlight' :
           Elems(bufs'[u]) \cap Elems(inFlight'[i]) = {}
    BY <2>2, <2>3, <2>4, EmptyElems DEF OneCopy
  <2>7. \A i \in DOMAIN inFlight' : /\ Distinct(inFlight'[i])
                                    /\ Elems(inFlight'[i]) \cap Elems(queue) = {}
                                    /\ Elems(inFlight'[i]) \cap Elems(wire) = {}
    BY <2>2, <2>4 DEF OneCopy
  <2>8. \A i, k \in DOMAIN inFlight' :
           i # k => Elems(inFlight'[i]) \cap Elems(inFlight'[k]) = {}
    BY <2>2, <2>4 DEF OneCopy
  <2> QED  BY <2>1, <2>5, <2>6, <2>7, <2>8 DEF OneCopy
<1>4. ASSUME NEW t \in Thread, bufs' = [bufs EXCEPT ![t] = << >>],
             UNCHANGED <<queue, wire, inFlight>>
      PROVE  OneCopy'
  <2>1. \A u \in Thread : bufs'[u] = IF u = t THEN << >> ELSE bufs[u]
    BY <1>0, <1>4
  <2> QED  BY <1>4, <2>1, EmptyElems DEF OneCopy
<1>5. CASE Transmit
  <2>1. /\ inFlight # << >> /\ inFlight' = Tail(inFlight)
        /\ wire' = wire \o Head(inFlight)
        /\ UNCHANGED <<queue, bufs>>
    BY <1>5 DEF Transmit
  <2>2. /\ 1 \in DOMAIN inFlight /\ Head(inFlight) = inFlight[1]
        /\ Head(inFlight) \in Seq(Message)
        /\ \A i \in DOMAIN inFlight' :
              i \in Nat /\ i + 1 \in DOMAIN inFlight /\ i + 1 # 1
                 /\ inFlight'[i] = inFlight[i + 1]
    BY <2>1, TailOfPosted
  <2>3. Elems(wire') = Elems(wire) \cup Elems(inFlight[1]) /\ Distinct(wire')
    BY <1>0, <2>1, <2>2, ConcatElems DEF OneCopy
  <2>4. \A i \in DOMAIN inFlight' : /\ Distinct(inFlight'[i])
                                    /\ Elems(inFlight'[i]) \cap Elems(queue) = {}
                                    /\ Elems(inFlight'[i]) \cap Elems(wire') = {}
    BY <2>2, <2>3 DEF OneCopy
  <2>5. \A i, k \in DOMAIN inFlight' :
           i # k => Elems(inFlight'[i]) \cap Elems(inFlight'[k]) = {}
    <3> SUFFICES ASSUME NEW i \in DOMAIN inFlight', NEW k \in DOMAIN inFlight', i # k
                 PROVE  Elems(inFlight'[i]) \cap Elems(inFlight'[k]) = {}
      OBVIOUS
    <3>1. i + 1 # k + 1
      BY <2>2
    <3> QED  BY <2>2, <3>1 DEF OneCopy
  <2>6. \A t \in Thread : /\ Elems(bufs[t]) \cap Elems(wire') = {}
                          /\ \A i \in DOMAIN inFlight' :
                                Elems(bufs[t]) \cap Elems(inFlight'[i]) = {}
    BY <2>2, <2>3 DEF OneCopy
  <2>7. Elems(queue) \cap Elems(wire') = {}
    BY <2>2, <2>3 DEF OneCopy
  <2> QED  BY <2>1, <2>3, <2>4, <2>5, <2>6, <2>7 DEF OneCopy
<1>6. CASE Abort
  <2>1. /\ inFlight # << >> /\ inFlight' = Tail(inFlight)
        /\ UNCHANGED <<queue, bufs, wire>>
    BY <1>6 DEF Abort
  <2>2. \A i \in DOMAIN inFlight' :
           i \in Nat /\ i + 1 \in DOMAIN inFlight /\ inFlight'[i] = inFlight[i + 1]
    BY <2>1, TailOfPosted
  <2>3. \A i, k \in DOMAIN inFlight' :
           i # k => Elems(inFlight'[i]) \cap Elems(inFlight'[k]) = {}
    <3> SUFFICES ASSUME NEW i \in DOMAIN inFlight', NEW k \in DOMAIN inFlight', i # k
                 PROVE  Elems(inFlight'[i]) \cap Elems(inFlight'[k]) = {}
      OBVIOUS
    <3>1. i + 1 # k + 1
      BY <2>2
    <3> QED  BY <2>2, <3>1 DEF OneCopy
  <2>4. \A i \in DOMAIN inFlight' : /\ Distinct(inFlight'[i])
                                    /\ Elems(inFlight'[i]) \cap Elems(queue) = {}
                                    /\ Elems(inFlight'[i]) \cap Elems(wire) = {}
    BY <2>2 DEF OneCopy
  <2>5. \A t \in Thread : \A i \in DOMAIN inFlight' :
           Elems(bufs[t]) \cap Elems(inFlight'[i]) = {}
    BY <2>2 DEF OneCopy
  <2> QED  BY <2>1, <2>3, <2>4, <2>5 DEF OneCopy
<1>7. ASSUME NEW t \in Worker, RecvEnds(t) \/ SendEnds(t)
      PROVE  OneCopy'
  <2>1. queue' = << >> /\ UNCHANGED <<bufs, wire, inFlight>>
    BY <1>7 DEF RecvEnds, SendEnds, ClearSession
  <2> QED  BY <2>1, EmptyElems DEF OneCopy
<1>8. CASE UNCHANGED <<queue, bufs, wire, inFlight>>
  BY <1>8 DEF OneCopy
<1>9. ASSUME NEW t \in Sender, Unchanged(SendRefused(t))
      PROVE  UNCHANGED <<queue, bufs, wire, inFlight>>
  BY <1>9 DEF Unchanged, SendRefused
<1>10. ASSUME NEW t \in Thread, Unchanged(Gather(t))
       PROVE  OneCopy'
  <2>1. CASE queue = << >>
    BY <1>8, <1>10, <2>1 DEF Unchanged, Gather
  <2>2. CASE queue # << >>
    BY <1>2, <1>10, <2>2 DEF Unchanged
  <2> QED  BY <2>1, <2>2
<1>11. ASSUME NEW t \in Thread, PostBatchFails(t)
       PROVE  OneCopy'
  BY <1>4, <1>11 DEF PostBatchFails, PostFails
<1>12. ASSUME NEW t \in Worker,
              ReleaseSent(t) \/ ForgetSent(t) \/ Unchanged(CheckQueue(t)) \/ Accept(t)
       PROVE  UNCHANGED <<queue, bufs, wire, inFlight>>
  BY <1>12 DEF ReleaseSent, ForgetSent, Unchanged, CheckQueue, Accept, vars
<1>13. CASE UNCHANGED allVars
  BY <1>8, <1>13 DEF allVars, vars
<1> QED  BY <1>1, <1>3, <1>5, <1>6, <1>7, <1>8, <1>9, <1>10, <1>11, <1>12, <1>13
         DEF TeardownNext, Unchanged

LEMMA OnlyTakenStep == TeardownTypeOK /\ OnlyTaken /\ [TeardownNext]_allVars => OnlyTaken'
<1> SUFFICES ASSUME TeardownTypeOK, OnlyTaken, [TeardownNext]_allVars
             PROVE  OnlyTaken'
  OBVIOUS
<1>0. /\ queue \in Seq(Message) /\ wire \in Seq(Message) /\ sendingList \in Seq(Message)
      /\ bufs \in [Thread -> Seq(Message)]
      /\ inFlight \in Seq(Seq(Message))
      /\ taken \in Nat
      /\ released \in [Message -> Nat]
  BY DEF TeardownTypeOK
<1>1. ASSUME NEW t \in Sender, TakeMessage(t)
      PROVE  OnlyTaken'
  <2>1. /\ taken' = taken + 1 /\ taken' \in Message
        /\ queue' = Append(queue, taken')
        /\ UNCHANGED <<wire, sendingList, bufs, inFlight, released>>
    BY <1>0, <1>1, SendPathAssumption DEF TakeMessage, Send, Message, TeardownTypeOK
  <2>2. 1 .. taken \subseteq 1 .. taken' /\ taken' \in 1 .. taken'
    BY <1>0, <2>1
  <2>3. Elems(queue') = Elems(queue) \cup {taken'}
    BY <1>0, <2>1, AppendElems
  <2>4. /\ Elems(queue') \subseteq 1 .. taken'
        /\ Elems(wire) \subseteq 1 .. taken' /\ Elems(sendingList) \subseteq 1 .. taken'
        /\ \A m \in Message \ (1 .. taken') : released[m] = 0
    BY <2>2, <2>3 DEF OnlyTaken
  <2>5. /\ \A u \in Thread : Elems(bufs[u]) \subseteq 1 .. taken'
        /\ \A i \in DOMAIN inFlight : Elems(inFlight[i]) \subseteq 1 .. taken'
    BY <2>2 DEF OnlyTaken
  <2> QED  BY <2>1, <2>4, <2>5 DEF OnlyTaken
<1>2. ASSUME NEW t \in Thread, Gather(t), queue # << >>
      PROVE  OnlyTaken'
  <2> DEFINE n == IF Len(queue) < BatchMax THEN Len(queue) ELSE BatchMax
             head == SubSeq(queue, 1, n)
             tail == SubSeq(queue, n + 1, Len(queue))
  <2>1. n \in 0 .. Len(queue)
    BY <1>0, <1>2, GatherCount
  <2>2. /\ bufs' = [bufs EXCEPT ![t] = head] /\ queue' = tail
        /\ sendingList' = sendingList \o head
        /\ UNCHANGED <<taken, wire, inFlight, released>>
    BY <1>2 DEF Gather, counts
  <2>3. /\ Elems(head) \cup Elems(tail) = Elems(queue)
        /\ head \in Seq(Message)
    <3> HIDE DEF n
    <3> QED  BY <1>0, <2>1, CutElems, CutInTwo
  <2>4. \A u \in Thread : bufs'[u] = IF u = t THEN head ELSE bufs[u]
    BY <1>0, <2>2
  <2> HIDE DEF n, head, tail
  <2>5. Elems(sendingList') = Elems(sendingList) \cup Elems(head)
    BY <1>0, <2>2, <2>3, ConcatElems
  <2> QED  BY <2>2, <2>3, <2>4, <2>5 DEF OnlyTaken
<1>3. ASSUME NEW t \in Thread, PostBatch(t)
      PROVE  OnlyTaken'
  <2>1. /\ bufs' = [bufs EXCEPT ![t] = << >>]
        /\ inFlight' = Append(inFlight, bufs[t])
        /\ UNCHANGED <<taken, queue, wire, sendingList, released>>
    BY <1>3 DEF PostBatch, Post, counts
  <2>2. PICK last : /\ DOMAIN inFlight' = DOMAIN inFlight \cup {last}
                    /\ inFlight'[last] = bufs[t]
                    /\ \A i \in DOMAIN inFlight : inFlight'[i] = inFlight[i]
    BY <2>1, AppendToPosted
  <2>3. \A u \in Thread : bufs'[u] = IF u = t THEN << >> ELSE bufs[u]
    BY <1>0, <2>1
  <2> QED  BY <2>1, <2>2, <2>3, EmptyElems DEF OnlyTaken
<1>4. ASSUME NEW t \in Thread, PostBatchFails(t)
      PROVE  OnlyTaken'
  <2>1. /\ bufs' = [bufs EXCEPT ![t] = << >>]
        /\ UNCHANGED <<taken, queue, wire, sendingList, released, inFlight>>
    BY <1>4 DEF PostBatchFails, PostFails, counts
  <2>2. \A u \in Thread : bufs'[u] = IF u = t THEN << >> ELSE bufs[u]
    BY <1>0, <2>1
  <2> QED  BY <2>1, <2>2, EmptyElems DEF OnlyTaken
<1>5. CASE Unchanged(Transmit) \/ Abort
  <2>1. /\ inFlight # << >> /\ inFlight' = Tail(inFlight)
        /\ wire' = wire \/ wire' = wire \o Head(inFlight)
        /\ UNCHANGED <<taken, queue, bufs, sendingList, released>>
    BY <1>5 DEF Unchanged, Transmit, Abort, counts
  <2>2. /\ 1 \in DOMAIN inFlight /\ Head(inFlight) = inFlight[1]
        /\ Head(inFlight) \in Seq(Message)
        /\ \A i \in DOMAIN inFlight' :
              i + 1 \in DOMAIN inFlight /\ inFlight'[i] = inFlight[i + 1]
    BY <2>1, TailOfPosted
  <2>3. Elems(wire') \subseteq Elems(wire) \cup Elems(inFlight[1])
    <3>1. Elems(wire \o Head(inFlight)) = Elems(wire) \cup Elems(Head(inFlight))
      BY <1>0, <2>2, ConcatElems
    <3>2. CASE wire' = wire
      BY <3>2
    <3>3. CASE wire' = wire \o Head(inFlight)
      BY <2>2, <3>1, <3>3
    <3> QED  BY <2>1, <3>2, <3>3
  <2> QED  BY <2>1, <2>2, <2>3 DEF OnlyTaken
<1>6. ASSUME NEW q \in Seq(Message), Elems(q) \subseteq 1 .. taken,
             released' = ReleaseAll(q),
             Elems(queue') \subseteq Elems(queue),
             Elems(sendingList') \subseteq Elems(sendingList),
             UNCHANGED <<taken, bufs, wire, inFlight>>
      PROVE  OnlyTaken'
  <2>1. \A m \in Message \ (1 .. taken) : released'[m] = released[m]
    BY <1>6 DEF ReleaseAll, Elems
  <2> QED  BY <1>6, <2>1 DEF OnlyTaken
<1>7. ASSUME NEW t \in Worker, RecvEnds(t) \/ SendEnds(t)
      PROVE  OnlyTaken'
  <2>1. /\ queue' = << >> /\ sendingList' = << >>
        /\ released' = ReleaseAll(queue \o sendingList)
        /\ UNCHANGED <<taken, bufs, wire, inFlight>>
    BY <1>7 DEF RecvEnds, SendEnds, ClearSession, counts
  <2>2. /\ queue \o sendingList \in Seq(Message)
        /\ Elems(queue \o sendingList) \subseteq 1 .. taken
    BY <1>0, ConcatElems DEF OnlyTaken
  <2> QED  BY <1>6, <2>1, <2>2, EmptyElems
<1>8. ASSUME NEW t \in Worker, ReleaseSent(t)
      PROVE  OnlyTaken'
  <2>1. /\ released' = ReleaseAll(sendingList)
        /\ UNCHANGED <<taken, queue, sendingList, bufs, wire, inFlight>>
    BY <1>8 DEF ReleaseSent, counts
  <2> QED  BY <1>0, <1>6, <2>1 DEF OnlyTaken
<1>9. ASSUME NEW t \in Worker, ForgetSent(t)
      PROVE  OnlyTaken'
  BY <1>9, EmptyElems DEF ForgetSent, OnlyTaken, counts
<1>10. CASE UNCHANGED <<taken, queue, bufs, wire, inFlight, sendingList, released>>
  BY <1>10 DEF OnlyTaken
<1>11. ASSUME NEW t \in Thread, Unchanged(Gather(t))
       PROVE  OnlyTaken'
  <2>1. CASE queue = << >>
    BY <1>10, <1>11, <2>1 DEF Unchanged, Gather, counts
  <2>2. CASE queue # << >>
    BY <1>2, <1>11, <2>2 DEF Unchanged
  <2> QED  BY <2>1, <2>2
<1>12. ASSUME NEW t \in Sender, Unchanged(SendRefused(t))
       PROVE  OnlyTaken'
  BY <1>10, <1>12 DEF Unchanged, SendRefused
<1>13. ASSUME NEW t \in Worker, Unchanged(CheckQueue(t)) \/ Accept(t)
       PROVE  OnlyTaken'
  BY <1>10, <1>13 DEF Unchanged, CheckQueue, Accept, vars, counts
<1>14. CASE UNCHANGED allVars
  BY <1>10, <1>14 DEF allVars, vars
<1> QED  BY <1>1, <1>3, <1>4, <1>5, <1>7, <1>8, <1>9, <1>11, <1>12, <1>13, <1>14
         DEF TeardownNext

LEMMA QueueUntouchedStep ==
    TeardownIInv /\ [TeardownNext]_allVars => QueueUntouched'
<1> SUFFICES ASSUME TeardownTypeOK, OneCopy, OnlyTaken, QueueUntouched,
                    [TeardownNext]_allVars
             PROVE  QueueUntouched'
  BY DEF TeardownIInv
<1>0. /\ queue \in Seq(Message) /\ sendingList \in Seq(Message)
      /\ released \in [Message -> Nat] /\ taken \in Nat
      /\ Elems(queue) \subseteq Message
  BY DEF TeardownTypeOK, Elems
<1>1. ASSUME NEW t \in Sender, TakeMessage(t)
      PROVE  QueueUntouched'
  <2>1. /\ taken' = taken + 1 /\ taken' \in Message
        /\ queue' = Append(queue, taken')
        /\ UNCHANGED <<sendingList, released>>
    BY <1>0, <1>1, SendPathAssumption DEF TakeMessage, Send, Message, TeardownTypeOK
  <2>2. taken' \notin 1 .. taken
    BY <1>0, <2>1
  <2>3. Elems(queue') = Elems(queue) \cup {taken'}
    BY <1>0, <2>1, AppendElems
  <2>4. taken' \notin Elems(sendingList) /\ released[taken'] = 0
    BY <2>1, <2>2 DEF OnlyTaken
  <2> QED  BY <2>1, <2>3, <2>4 DEF QueueUntouched
<1>2. ASSUME NEW t \in Thread, Gather(t), queue # << >>
      PROVE  QueueUntouched'
  <2> DEFINE n == IF Len(queue) < BatchMax THEN Len(queue) ELSE BatchMax
             head == SubSeq(queue, 1, n)
             tail == SubSeq(queue, n + 1, Len(queue))
  <2>1. n \in 0 .. Len(queue)
    BY <1>0, <1>2, GatherCount
  <2>2. /\ queue' = tail /\ sendingList' = sendingList \o head /\ released' = released
    BY <1>2 DEF Gather
  <2>3. /\ Elems(head) \cup Elems(tail) = Elems(queue)
        /\ Elems(head) \cap Elems(tail) = {}
        /\ head \in Seq(Message)
    <3> HIDE DEF n
    <3>1. Distinct(queue)
      BY DEF OneCopy
    <3> QED  BY <1>0, <2>1, <3>1, CutElems, CutInTwo
  <2> HIDE DEF n, head, tail
  <2>4. Elems(sendingList') = Elems(sendingList) \cup Elems(head)
    BY <1>0, <2>2, <2>3, ConcatElems
  <2> QED  BY <2>2, <2>3, <2>4 DEF QueueUntouched
<1>3. ASSUME NEW t \in Worker, ReleaseSent(t)
      PROVE  QueueUntouched'
  <2>1. /\ released' = ReleaseAll(sendingList) /\ UNCHANGED <<queue, sendingList>>
    BY <1>3 DEF ReleaseSent
  <2>2. \A m \in Elems(queue) : released'[m] = released[m]
    BY <1>0, <2>1 DEF ReleaseAll, Elems, QueueUntouched
  <2> QED  BY <2>1, <2>2 DEF QueueUntouched
<1>4. ASSUME NEW t \in Worker, ForgetSent(t)
      PROVE  QueueUntouched'
  BY <1>4, EmptyElems DEF ForgetSent, QueueUntouched
<1>5. ASSUME NEW t \in Worker, RecvEnds(t) \/ SendEnds(t)
      PROVE  QueueUntouched'
  <2>1. queue' = << >>
    BY <1>5 DEF RecvEnds, SendEnds, ClearSession
  <2> QED  BY <2>1, EmptyElems DEF QueueUntouched
<1>6. CASE UNCHANGED <<queue, sendingList, released>>
  BY <1>6 DEF QueueUntouched
<1>7. ASSUME NEW t \in Thread, Unchanged(Gather(t))
      PROVE  QueueUntouched'
  <2>1. CASE queue = << >>
    BY <1>6, <1>7, <2>1 DEF Unchanged, Gather
  <2>2. CASE queue # << >>
    BY <1>2, <1>7, <2>2 DEF Unchanged
  <2> QED  BY <2>1, <2>2
<1>8. ASSUME NEW t \in Thread, PostBatch(t) \/ PostBatchFails(t)
      PROVE  QueueUntouched'
  BY <1>6, <1>8 DEF PostBatch, Post, PostBatchFails, PostFails
<1>9. CASE Unchanged(Transmit) \/ Abort
  BY <1>6, <1>9 DEF Unchanged, Transmit, Abort
<1>10. ASSUME NEW t \in Sender, Unchanged(SendRefused(t))
       PROVE  QueueUntouched'
  BY <1>6, <1>10 DEF Unchanged, SendRefused
<1>11. ASSUME NEW t \in Worker, Unchanged(CheckQueue(t)) \/ Accept(t)
       PROVE  QueueUntouched'
  BY <1>6, <1>11 DEF Unchanged, CheckQueue, Accept, vars
<1>12. CASE UNCHANGED allVars
  BY <1>6, <1>12 DEF allVars, vars
<1> QED  BY <1>1, <1>3, <1>4, <1>5, <1>7, <1>8, <1>9, <1>10, <1>11, <1>12 DEF TeardownNext

\* What a queue that other workers clear still guarantees, as one invariant.
THEOREM TeardownInvariance == TeardownSpec => []TeardownIInv
<1>1. TeardownInit => TeardownIInv
  <2> SUFFICES ASSUME TeardownInit
               PROVE  OneCopy /\ OnlyTaken /\ QueueUntouched
    BY TeardownTypes DEF TeardownIInv
  <2>1. /\ queue = << >> /\ wire = << >> /\ sendingList = << >> /\ inFlight = << >>
        /\ \A t \in Thread : bufs[t] = << >>
        /\ \A m \in Message : released[m] = 0
    BY DEF TeardownInit, Init
  <2> QED  BY <2>1, EmptyElems DEF OneCopy, OnlyTaken, QueueUntouched
<1>2. TeardownIInv /\ [TeardownNext]_allVars => TeardownIInv'
  BY TeardownTypes, OneCopyStep, OnlyTakenStep, QueueUntouchedStep DEF TeardownIInv
<1> QED  BY <1>1, <1>2, PTL DEF TeardownSpec

\* However often and whenever other workers clear the session, and whoever
\* releases what m_sendingList holds without the lock, a message still queued
\* keeps its buffer (Session::Clear against Send, RegisterSend and OnSend).
THEOREM QueuedBuffersKept == TeardownSpec => []QueuedBuffersAreOurs
<1>1. TeardownIInv => QueuedBuffersAreOurs
  BY DEF TeardownIInv, QueueUntouched, QueuedBuffersAreOurs, Elems
<1> QED  BY <1>1, TeardownInvariance, PTL

\* Nor is any message put on a connection twice, on this one or a later one.
THEOREM NothingSentTwice == TeardownSpec => []SentAtMostOnce
<1>1. TeardownIInv => SentAtMostOnce
  BY DEF TeardownIInv, OneCopy, Distinct, SentAtMostOnce
<1> QED  BY <1>1, TeardownInvariance, PTL
=============================================================================
