------------------------------ MODULE DbWorkers ------------------------------
(***************************************************************************)
(* DBManager: a queue of tasks that logic threads push to and database     *)
(* workers take from, with a mutex and a condition variable.  PushQuery    *)
(* notifies after it has let go of the mutex, so a thread that has pushed  *)
(* is "notifying" for a while.  A worker without a connection ends before  *)
(* it looks at the queue; one whose connection is no longer valid drops    *)
(* its task, and one that meets an exception ends.  Nothing calls Shutdown, *)
(* so m_stop stays false.                                                  *)
(***************************************************************************)
EXTENDS Naturals, Sequences, FiniteSets

CONSTANTS
    DbWorker,           \* the threads of DBManager::Init
    NumThreads,         \* THREAD_COUNT, the logic threads
    MaxTasks            \* bound: queries pushed in all

ASSUME DbAssumption ==
    /\ IsFiniteSet(DbWorker)
    /\ NumThreads \in Nat \ {0}
    /\ MaxTasks \in Nat

LogicThread == 0 .. NumThreads - 1
Task == 1 .. MaxTasks
NoTask == 0

VARIABLES
    tasks,          \* m_tasks
    db,             \* where each worker is
    running,        \* the task it took
    notifying       \* logic threads between the push and the notify_one

dbVars == <<tasks, db, running, notifying>>

DbPlace == {"starting", "awake", "waiting", "busy", "gone"}

DbInit ==
    /\ tasks = << >>
    /\ db = [w \in DbWorker |-> "starting"]
    /\ running = [w \in DbWorker |-> NoTask]
    /\ notifying = {}

-----------------------------------------------------------------------------
At(place) == {w \in DbWorker : db[w] = place}

GoTo(w, place) == db' = [db EXCEPT ![w] = place]

PushQuery(t, task) ==
    /\ t \notin notifying
    /\ tasks' = Append(tasks, task)
    /\ notifying' = notifying \cup {t}
    /\ UNCHANGED <<db, running>>

\* Mutation: nobody is notified when a worker is awake already.
NotifyOneIfAllSleep(t) ==
    /\ t \in notifying
    /\ notifying' = notifying \ {t}
    /\ IF At("waiting") = {} \/ At("awake") # {} THEN UNCHANGED db
       ELSE \E w \in At("waiting") : GoTo(w, "awake")
    /\ UNCHANGED <<tasks, running>>

\* m_cv.notify_one: one of the waiting workers, if there is one.
NotifyOne(t) ==
    /\ t \in notifying
    /\ notifying' = notifying \ {t}
    /\ IF At("waiting") = {} THEN UNCHANGED db
       ELSE \E w \in At("waiting") : GoTo(w, "awake")
    /\ UNCHANGED <<tasks, running>>

-----------------------------------------------------------------------------
Connect(w) ==
    /\ db[w] = "starting"
    /\ GoTo(w, "awake")
    /\ UNCHANGED <<tasks, running, notifying>>

ConnectFails(w) ==
    /\ db[w] = "starting"
    /\ GoTo(w, "gone")
    /\ UNCHANGED <<tasks, running, notifying>>

\* A condition variable may wake a thread without a notify.
WakeUp(w) ==
    /\ db[w] = "waiting"
    /\ GoTo(w, "awake")
    /\ UNCHANGED <<tasks, running, notifying>>

\* The predicate of m_cv.wait, evaluated under the mutex.
Sleep(w) ==
    /\ db[w] = "awake"
    /\ tasks = << >>
    /\ GoTo(w, "waiting")
    /\ UNCHANGED <<tasks, running, notifying>>

Take(w) ==
    /\ db[w] = "awake"
    /\ tasks # << >>
    /\ running' = [running EXCEPT ![w] = Head(tasks)]
    /\ tasks' = Tail(tasks)
    /\ GoTo(w, "busy")
    /\ UNCHANGED <<notifying>>

\* The task has run, or was dropped because the connection is not valid.
Finish(w) ==
    /\ db[w] = "busy"
    /\ running' = [running EXCEPT ![w] = NoTask]
    /\ GoTo(w, "awake")
    /\ UNCHANGED <<tasks, notifying>>

\* isValid throws, and the worker's catch is outside its loop.
EndByException(w) ==
    /\ db[w] = "busy"
    /\ running' = [running EXCEPT ![w] = NoTask]
    /\ GoTo(w, "gone")
    /\ UNCHANGED <<tasks, notifying>>

DbNext ==
    \/ \E t \in LogicThread :
          (\E task \in Task : PushQuery(t, task)) \/ NotifyOne(t)
    \/ \E w \in DbWorker :
          \/ Connect(w) \/ ConnectFails(w) \/ WakeUp(w) \/ Sleep(w)
          \/ Take(w) \/ Finish(w) \/ EndByException(w)

DbSpec == DbInit /\ [][DbNext]_dbVars

-----------------------------------------------------------------------------
DbTypeOK ==
    /\ tasks \in Seq(Task)
    /\ db \in [DbWorker -> DbPlace]
    /\ running \in [DbWorker -> Task \cup {NoTask}]
    /\ notifying \subseteq LogicThread

\* While a worker sleeps, every queued task has somebody on the way to it: a
\* worker that is awake, or a thread that is about to notify one
\* (DBManager.cpp:28, 77).
NoSleepingOnWork ==
    At("waiting") # {} =>
        Len(tasks) <= Cardinality(At("awake")) + Cardinality(notifying)
=============================================================================
