----------------------------- MODULE JobQueues -----------------------------
(***************************************************************************)
(* LogicManager's queues, one for each logic thread, and the pool that Job *)
(* objects come from and go back to.                                       *)
(*                                                                         *)
(* A producer - an IOCP worker with a packet, a database worker with an    *)
(* answer - takes an object from the pool, fills it in and queues it for   *)
(* the thread of its session.  The thread takes all that is queued, and    *)
(* for each job calls the handler and puts the object back.  wait_for has  *)
(* a timeout, so a thread needs no notification to find a job.             *)
(***************************************************************************)
EXTENDS Integers, SequencesExt

CONSTANTS
    NumThreads,     \* THREAD_COUNT: 4
    NumSessions,
    Producer,       \* the IOCP and database workers
    PoolLimit,      \* objects the pool keeps: 1000
    MaxPushes       \* a bound: packets that are queued in a behaviour

ASSUME JobQueuesAssumption ==
    /\ NumThreads \in Nat \ {0}
    /\ NumSessions \in Nat
    /\ PoolLimit \in Nat
    /\ MaxPushes \in Nat

Session == 1 .. NumSessions
Thread == 0 .. NumThreads - 1
Packet == Session \X (1 .. MaxPushes)

\* As many Job objects as packets are enough.
Job == 1 .. MaxPushes
NoJob == 0

\* A Job without its packet: JobPool::Push cleared it.
Cleared == <<0, 0>>

VARIABLES
    allocated,      \* the Job objects that exist
    pool,           \* m_pool: a stack, its top first
    content,        \* the packet in each object, as <<session, number>>
    making,         \* the object each producer is filling in, or NoJob
    jobs,           \* m_jobs
    currJobs,       \* currJobs, its handled jobs removed
    step,           \* where each thread is with the first of currJobs:
                    \* "next", "handling", "handled" or "cleared"
    pushes          \* how many packets were made

vars == <<allocated, pool, content, making, jobs, currJobs, step, pushes>>

Init ==
    /\ allocated = {}
    /\ pool = <<>>
    /\ content = [j \in Job |-> Cleared]
    /\ making = [p \in Producer |-> NoJob]
    /\ jobs = [t \in Thread |-> <<>>]
    /\ currJobs = [t \in Thread |-> <<>>]
    /\ step = [t \in Thread |-> "next"]
    /\ pushes = 0

-----------------------------------------------------------------------------
\* The address of a session chooses its thread; mutation: the queues take turns.
ThreadInTurn(s) == (s + pushes) % NumThreads
ThreadOf(s) == s % NumThreads

\* Mutation: the object stays in the pool.
PopWithoutRemoving(p, s) ==
    /\ making[p] = NoJob /\ pushes < MaxPushes /\ pool # <<>>
    /\ pushes' = pushes + 1
    /\ making' = [making EXCEPT ![p] = Head(pool)]
    /\ content' = [content EXCEPT ![Head(pool)] = <<s, pushes'>>]
    /\ UNCHANGED <<allocated, pool, jobs, currJobs, step>>

\* JobPool::Pop, and the producer fills in its packet.
Pop(p, s) ==
    /\ making[p] = NoJob /\ pushes < MaxPushes /\ pool # <<>>
    /\ pushes' = pushes + 1
    /\ making' = [making EXCEPT ![p] = Head(pool)]
    /\ content' = [content EXCEPT ![Head(pool)] = <<s, pushes'>>]
    /\ pool' = Tail(pool)
    /\ UNCHANGED <<allocated, jobs, currJobs, step>>

\* Pop from an empty pool makes an object; which one does not matter.
PopNew(p, s) ==
    /\ making[p] = NoJob /\ pushes < MaxPushes /\ pool = <<>>
    /\ pushes' = pushes + 1
    /\ \E j \in Job \ allocated :
          /\ \A k \in Job \ allocated : j <= k
          /\ allocated' = allocated \cup {j}
          /\ making' = [making EXCEPT ![p] = j]
          /\ content' = [content EXCEPT ![j] = <<s, pushes'>>]
    /\ UNCHANGED <<pool, jobs, currJobs, step>>

PushJob(p) ==
    /\ making[p] # NoJob
    /\ jobs' = [jobs EXCEPT ![ThreadOf(content[making[p]][1])] = Append(@, making[p])]
    /\ making' = [making EXCEPT ![p] = NoJob]
    /\ UNCHANGED <<allocated, pool, content, currJobs, step, pushes>>

\* Update takes the whole queue, under its lock.
TakeAll(t) ==
    /\ currJobs[t] = <<>> /\ jobs[t] # <<>>
    /\ currJobs' = [currJobs EXCEPT ![t] = jobs[t]]
    /\ jobs' = [jobs EXCEPT ![t] = <<>>]
    /\ UNCHANGED <<allocated, pool, content, making, step, pushes>>

At(t, place) == currJobs[t] # <<>> /\ step[t] = place

\* HandlePacket reads the packet in the object until it returns.
Handle(t) ==
    /\ At(t, "next")
    /\ step' = [step EXCEPT ![t] = "handling"]
    /\ UNCHANGED <<allocated, pool, content, making, jobs, currJobs, pushes>>

HandlerReturns(t) ==
    /\ At(t, "handling")
    /\ step' = [step EXCEPT ![t] = "handled"]
    /\ UNCHANGED <<allocated, pool, content, making, jobs, currJobs, pushes>>

\* JobPool::Push clears the object before it takes the pool's lock ...
ClearJob(t) ==
    /\ At(t, "handled")
    /\ content' = [content EXCEPT ![Head(currJobs[t])] = Cleared]
    /\ step' = [step EXCEPT ![t] = "cleared"]
    /\ UNCHANGED <<allocated, pool, making, jobs, currJobs, pushes>>

\* Mutation: the pool has no limit.
PushToPoolUnlimited(t) ==
    /\ At(t, "cleared")
    /\ pool' = <<Head(currJobs[t])>> \o pool
    /\ currJobs' = [currJobs EXCEPT ![t] = Tail(@)]
    /\ step' = [step EXCEPT ![t] = "next"]
    /\ UNCHANGED <<allocated, content, making, jobs, pushes>>

\* ... and keeps it, unless the pool is full: then it deletes it.
PushToPool(t) ==
    /\ At(t, "cleared")
    /\ IF Len(pool) >= PoolLimit
          THEN allocated' = allocated \ {Head(currJobs[t])} /\ pool' = pool
          ELSE pool' = <<Head(currJobs[t])>> \o pool /\ allocated' = allocated
    /\ currJobs' = [currJobs EXCEPT ![t] = Tail(@)]
    /\ step' = [step EXCEPT ![t] = "next"]
    /\ UNCHANGED <<content, making, jobs, pushes>>

Update(t) ==
    TakeAll(t) \/ Handle(t) \/ HandlerReturns(t) \/ ClearJob(t) \/ PushToPool(t)

Next ==
    \/ \E p \in Producer : PushJob(p) \/ \E s \in Session : Pop(p, s) \/ PopNew(p, s)
    \/ \E t \in Thread : Update(t)

\* wait_for ends after 100 ms at the latest, and handlers return.
Spec == Init /\ [][Next]_vars /\ \A t \in Thread : WF_vars(Update(t))

-----------------------------------------------------------------------------
TypeOK ==
    /\ allocated \subseteq Job
    /\ pool \in Seq(allocated) /\ Len(pool) <= PoolLimit
    /\ content \in [Job -> Packet \cup {Cleared}]
    /\ making \in [Producer -> allocated \cup {NoJob}]
    /\ jobs \in [Thread -> Seq(allocated)]
    /\ currJobs \in [Thread -> Seq(allocated)]
    /\ step \in [Thread -> {"next", "handling", "handled", "cleared"}]
    /\ pushes \in 0 .. MaxPushes

\* The places an object can be in.
InPool(j) == {<<"pool", i>> : i \in {k \in DOMAIN pool : pool[k] = j}}
MadeBy(j) == {<<"made by", p>> : p \in {q \in Producer : making[q] = j}}
InQueue(j, t) == {<<"queue", t, i>> : i \in {k \in DOMAIN jobs[t] : jobs[t][k] = j}}
InBatch(j, t) ==
    {<<"batch", t, i>> : i \in {k \in DOMAIN currJobs[t] : currJobs[t][k] = j}}
InQueues(j) == UNION {InQueue(j, t) : t \in Thread}
InBatches(j) == UNION {InBatch(j, t) : t \in Thread}
Places(j) == InPool(j) \cup MadeBy(j) \cup InQueues(j) \cup InBatches(j)

\* A Job object that exists is in one place: nobody fills in, handles or
\* returns an object that somebody else has, and none is lost (PacketHandler's
\* and JobPool's raw pointers; README.md's claim that the pool replaces new and
\* delete rests on it).
NoJobShared == \A j \in allocated : \E place \in Places(j) : Places(j) = {place}

\* What waits for a thread, the rest of its batch and then its queue, and what
\* it is handling.
Handling(t) == At(t, "handling")
Rest(t) == IF At(t, "next") \/ currJobs[t] = <<>> THEN currJobs[t] ELSE Tail(currJobs[t])
Waiting(t) == Rest(t) \o jobs[t]
PendingFor(t) == [i \in 1 .. Len(Waiting(t)) |-> content[Waiting(t)[i]]]
WorkingFor(t) == IF Handling(t) THEN {content[Head(currJobs[t])]} ELSE {}

\* What is queued and being handled for a session, whichever threads have it.
Part(s, packet) == IF packet[1] = s THEN <<packet>> ELSE <<>>
OfSession(s, packets) == FlattenSeq([i \in DOMAIN packets |-> Part(s, packets[i])])
PendingOf(s) == FlattenSeq([n \in 1 .. NumThreads |-> OfSession(s, PendingFor(n - 1))])
WorkingOf(s) == {c \in UNION {WorkingFor(t) : t \in Thread} : c[1] = s}

InboxOf == INSTANCE Inbox
    WITH PacketsOf <- [s \in Session |-> {s} \X (1 .. MaxPushes)],
         pending <- [s \in Session |-> PendingOf(s)],
         working <- [s \in Session |-> WorkingOf(s)]

\* Whatever the producers and the threads do, each session's packets are
\* handled one at a time, in order, once and in the end (LogicManager.h:64:
\* the same session always goes to the same thread).
ImplementsInbox == InboxOf!InboxSpec
=============================================================================
