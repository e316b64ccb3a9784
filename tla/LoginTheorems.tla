---------------------------- MODULE LoginTheorems ----------------------------
(***************************************************************************)
(* No database worker sleeps on a queued task, no two sessions have the    *)
(* same id, no late answer lets anybody in, and who is let in can enter,   *)
(* for every number of threads, workers, sessions, clients and accounts.   *)
(***************************************************************************)
EXTENDS Login, FiniteSetTheorems, SequenceTheorems, TLAPS

\* Types and steps of the workers, whatever numbers the tasks have.
DbTypes ==
    /\ tasks \in Seq(Nat)
    /\ db \in [DbWorker -> DbPlace]
    /\ running \in [DbWorker -> Nat]
    /\ notifying \subseteq LogicThread

DbStep ==
    \/ \E t \in LogicThread :
          (\E task \in Nat : PushQuery(t, task)) \/ NotifyOne(t)
    \/ \E w \in DbWorker :
          \/ Connect(w) \/ ConnectFails(w) \/ WakeUp(w) \/ Sleep(w)
          \/ Take(w) \/ Finish(w) \/ EndByException(w)

\* The places where the workers are.
LEMMA PlacesAreFinite ==
    ASSUME NEW place
    PROVE  /\ IsFiniteSet(At(place))
           /\ Cardinality(At(place)) \in Nat
<1>1. At(place) \in SUBSET DbWorker
  BY DEF At
<1> QED  BY <1>1, FS_Subset, FS_CardinalityType, DbAssumption

\* A worker that goes from one place to another.
LEMMA OneMoves ==
    ASSUME DbTypes, NEW w \in DbWorker, NEW from, NEW place, from # place,
           db[w] = from, GoTo(w, place)
    PROVE  /\ At(place)' = At(place) \cup {w}
           /\ At(from)' = At(from) \ {w}
           /\ \A other : other \notin {place, from} => At(other)' = At(other)
           /\ Cardinality(At(place)') = Cardinality(At(place)) + 1
           /\ Cardinality(At(from)') = Cardinality(At(from)) - 1
<1>1. /\ At(place)' = At(place) \cup {w}
      /\ At(from)' = At(from) \ {w}
      /\ \A other : other \notin {place, from} => At(other)' = At(other)
  BY DEF At, GoTo, DbTypes
<1>2. w \notin At(place) /\ w \in At(from)
  BY DEF At
<1>3. Cardinality(At(place) \cup {w}) = Cardinality(At(place)) + 1
  BY <1>2, PlacesAreFinite, FS_AddElement
<1>4. Cardinality(At(from) \ {w}) = Cardinality(At(from)) - 1
  BY <1>2, PlacesAreFinite, FS_RemoveElement
<1> QED
  BY <1>1, <1>3, <1>4

\* The variables keep their types.
THEOREM DbTypeCorrect == DbSpec => []DbTypeOK
<1>1. DbInit => DbTypeOK
  BY DEF DbInit, DbTypeOK, DbPlace, NoTask
<1>2. DbTypeOK /\ [DbNext]_dbVars => DbTypeOK'
  <2> SUFFICES ASSUME DbTypeOK, [DbNext]_dbVars
               PROVE  DbTypeOK'
    OBVIOUS
  <2> USE DEF DbTypeOK, DbPlace, GoTo
  <2>1. ASSUME NEW t \in LogicThread, NEW task \in Task, PushQuery(t, task)
        PROVE  DbTypeOK'
    BY <2>1 DEF PushQuery
  <2>2. ASSUME NEW t \in LogicThread, NotifyOne(t)
        PROVE  DbTypeOK'
    BY <2>2 DEF NotifyOne, At
  <2>3. ASSUME NEW w \in DbWorker, Take(w)
        PROVE  DbTypeOK'
    <3>1. tasks # << >> => Head(tasks) \in Task /\ Tail(tasks) \in Seq(Task)
      OBVIOUS
    <3> QED  BY <2>3, <3>1 DEF Take
  <2>4. ASSUME NEW w \in DbWorker,
               \/ Connect(w) \/ ConnectFails(w) \/ WakeUp(w) \/ Sleep(w)
               \/ Finish(w) \/ EndByException(w)
        PROVE  DbTypeOK'
    BY <2>4 DEF Connect, ConnectFails, WakeUp, Sleep, Finish, EndByException
  <2>5. CASE UNCHANGED dbVars
    BY <2>5 DEF dbVars
  <2> QED  BY <2>1, <2>2, <2>3, <2>4, <2>5 DEF DbNext
<1> QED  BY <1>1, <1>2, PTL DEF DbSpec

\* Every step leaves somebody on the way to every task that is queued while a
\* worker sleeps.
LEMMA SleepStep ==
    DbTypes /\ NoSleepingOnWork /\ [DbStep]_dbVars => NoSleepingOnWork'
<1> SUFFICES ASSUME DbTypes, NoSleepingOnWork, [DbStep]_dbVars
             PROVE  NoSleepingOnWork'
  OBVIOUS
<1>1. /\ Len(tasks) \in Nat
      /\ Cardinality(At("awake")) \in Nat
      /\ Cardinality(At("waiting")) \in Nat
  BY PlacesAreFinite DEF DbTypes
<1>2. IsFiniteSet(notifying) /\ Cardinality(notifying) \in Nat
  <2>1. IsFiniteSet(LogicThread)
    BY FS_Interval, DbAssumption DEF LogicThread
  <2> QED  BY <2>1, FS_Subset, FS_CardinalityType DEF DbTypes
<1>3. ASSUME UNCHANGED db
      PROVE  \A place : At(place)' = At(place)
  BY <1>3 DEF At
<1>4. ASSUME NEW t \in LogicThread, NEW task \in Nat, PushQuery(t, task)
      PROVE  NoSleepingOnWork'
  <2>1. Cardinality(notifying') = Cardinality(notifying) + 1
    BY <1>4, <1>2, FS_AddElement DEF PushQuery
  <2>2. Len(tasks') = Len(tasks) + 1
    BY <1>4 DEF PushQuery, DbTypes
  <2>3. \A place : At(place)' = At(place)
    BY <1>3, <1>4 DEF PushQuery
  <2> QED  BY <1>1, <1>2, <2>1, <2>2, <2>3 DEF NoSleepingOnWork
<1>5. ASSUME NEW t \in LogicThread, NotifyOne(t)
      PROVE  NoSleepingOnWork'
  <2>1. Cardinality(notifying') = Cardinality(notifying) - 1 /\ tasks' = tasks
    BY <1>5, <1>2, FS_RemoveElement DEF NotifyOne
  <2>2. CASE At("waiting") = {}
    BY <1>3, <1>5, <2>2 DEF NotifyOne, NoSleepingOnWork
  <2>3. CASE At("waiting") # {}
    <3>1. PICK w \in At("waiting") : GoTo(w, "awake")
      BY <1>5, <2>3 DEF NotifyOne
    <3>2. w \in DbWorker /\ db[w] = "waiting"
      BY DEF At
    <3>3. Cardinality(At("awake")') = Cardinality(At("awake")) + 1
      BY <3>1, <3>2, OneMoves
    <3> QED  BY <1>1, <1>2, <2>1, <2>3, <3>3 DEF NoSleepingOnWork
  <2> QED  BY <2>2, <2>3
<1>6. ASSUME NEW w \in DbWorker, Take(w)
      PROVE  NoSleepingOnWork'
  <2>1. Len(tasks') = Len(tasks) - 1 /\ notifying' = notifying
    BY <1>6 DEF Take, DbTypes
  <2>2. /\ Cardinality(At("awake")') = Cardinality(At("awake")) - 1
        /\ At("waiting")' = At("waiting")
    BY <1>6, OneMoves DEF Take
  <2> QED  BY <1>1, <1>2, <2>1, <2>2 DEF NoSleepingOnWork
<1>7. ASSUME NEW w \in DbWorker, Sleep(w)
      PROVE  NoSleepingOnWork'
  <2>1. Len(tasks') = 0 /\ notifying' = notifying
    BY <1>7 DEF Sleep
  <2>2. Cardinality(At("awake")') \in Nat
    <3>1. At("awake")' = At("awake") \ {w}
      BY <1>7, OneMoves DEF Sleep
    <3> QED  BY <3>1, PlacesAreFinite, FS_RemoveElement, FS_CardinalityType
  <2> QED  BY <1>2, <2>1, <2>2 DEF NoSleepingOnWork
<1>8. ASSUME NEW w \in DbWorker, Connect(w) \/ WakeUp(w) \/ Finish(w)
      PROVE  NoSleepingOnWork'
  <2>1. db[w] \in {"starting", "waiting", "busy"} /\ GoTo(w, "awake")
        /\ UNCHANGED <<tasks, notifying>>
    BY <1>8 DEF Connect, WakeUp, Finish
  <2>2. Cardinality(At("awake")') = Cardinality(At("awake")) + 1
    BY <2>1, OneMoves
  <2>3. At("waiting")' # {} => At("waiting") # {}
    BY <2>1 DEF At, GoTo, DbTypes
  <2> QED  BY <1>1, <1>2, <2>1, <2>2, <2>3 DEF NoSleepingOnWork
<1>9. ASSUME NEW w \in DbWorker, ConnectFails(w) \/ EndByException(w)
      PROVE  NoSleepingOnWork'
  <2>1. db[w] \in {"starting", "busy"} /\ GoTo(w, "gone")
        /\ UNCHANGED <<tasks, notifying>>
    BY <1>9 DEF ConnectFails, EndByException
  <2>2. At("awake")' = At("awake") /\ At("waiting")' = At("waiting")
    BY <2>1, OneMoves
  <2> QED  BY <2>1, <2>2 DEF NoSleepingOnWork
<1>10. CASE UNCHANGED dbVars
  BY <1>3, <1>10 DEF dbVars, NoSleepingOnWork
<1> QED  BY <1>4, <1>5, <1>6, <1>7, <1>8, <1>9, <1>10 DEF DbStep

\* Every task that is queued while a worker sleeps has a worker that is awake,
\* or a notification, on the way to it: none is lost between PushQuery's two
\* steps, and a woken worker that finds the queue empty takes nothing away from
\* another.
THEOREM NoTaskIsSleptOn == DbSpec => []NoSleepingOnWork
<1>1. DbInit => NoSleepingOnWork
  BY DEF DbInit, NoSleepingOnWork, At
<1>2. DbTypeOK => DbTypes
  <2> SUFFICES ASSUME DbTypeOK
               PROVE  DbTypes
    OBVIOUS
  <2>1. Task \subseteq Nat /\ NoTask \in Nat
    BY DEF Task, NoTask
  <2>2. tasks \in Seq(Nat)
    <3>1. tasks \in Seq(Task)
      BY DEF DbTypeOK
    <3>2. tasks \in [1 .. Len(tasks) -> Task] /\ Len(tasks) \in Nat
      BY <3>1
    <3>3. tasks \in [1 .. Len(tasks) -> Nat]
      BY <2>1, <3>2
    <3> QED  BY <3>2, <3>3
  <2> QED  BY <2>1, <2>2 DEF DbTypeOK, DbTypes
<1>3. [DbNext]_dbVars => [DbStep]_dbVars
  BY DEF DbNext, DbStep, Task
<1> QED  BY <1>1, <1>2, <1>3, SleepStep, DbTypeCorrect, PTL DEF DbSpec

-----------------------------------------------------------------------------
(* The login that runs on these workers. *)

\* The types the proofs rest on: numbers are not bounded here.
LoginJob == [kind : {"C_LOGIN", "S_LOGIN", "C_ENTER_GAME", "C_MOVE"},
             session : Session, for : Nat, account : Account \cup {Nobody},
             password : Password \cup {Nobody}, id : Nat]
LoginQuery == [session : Session, gen : Nat, for : Nat, account : Account,
               password : Password]

LoginTypes ==
    /\ inbox \in [LogicThread -> Seq(LoginJob)]
    /\ letting \in [LogicThread -> LoginJob \cup {<< >>}]
    /\ queries \in Seq(LoginQuery)
    /\ stage \in [DbWorker -> {Rest, "compare", "select", "update", "insert"}]
    /\ accounts \in [Account -> Password \cup {Nobody}]
    /\ nextId \in Nat \ {0}
    /\ state \in [Session -> {"NONE", "CONNECTED", "LOBBY", "GAME"}]
    /\ playerId \in [Session -> Nat]
    /\ gen \in [Session -> Nat]
    /\ online \subseteq Session
    /\ client \in [Session -> {"gone", "new", "asked", "refused",
                               "knows its id", "moved", "entered"}]
    /\ asked \in [Session -> (Account \X Password) \cup {Nobody}]

\* A C_LOGIN says what is asked.
RequestsAreFull ==
    \A t \in LogicThread : \A i \in DOMAIN inbox[t] :
        inbox[t][i].kind = "C_LOGIN" =>
            inbox[t][i].account \in Account /\ inbox[t][i].password \in Password

\* A task is the number of a query that was pushed.
TasksAreQueries ==
    /\ tasks \in Seq(Nat) /\ running \in [DbWorker -> Nat]
    /\ \A i \in DOMAIN tasks : tasks[i] \in 1 .. Len(queries)
    /\ \A w \in DbWorker : stage[w] # Rest => running[w] \in 1 .. Len(queries)

\* An id that was assigned is below the next one, and with one session, in one
\* answer, or about to be set by one thread.
IdsAreUsedOnce ==
    /\ \A s \in Session :
          /\ playerId[s] < nextId
          /\ playerId[s] # 0 => \A r \in Session : playerId[s] = playerId[r] => s = r
    /\ \A t \in LogicThread :
          /\ \A i \in DOMAIN inbox[t] :
                /\ inbox[t][i].id < nextId
                /\ inbox[t][i].id # 0 =>
                      /\ \A s \in Session : playerId[s] # inbox[t][i].id
                      /\ \A u \in LogicThread :
                            /\ letting[u] # << >> => letting[u].id # inbox[t][i].id
                            /\ \A k \in DOMAIN inbox[u] :
                                  inbox[u][k].id = inbox[t][i].id => t = u /\ i = k
          /\ letting[t] # << >> =>
                /\ letting[t].id < nextId /\ letting[t].id # 0
                /\ \A s \in Session : playerId[s] # letting[t].id
                /\ \A u \in LogicThread :
                      letting[u] # << >> /\ letting[u].id = letting[t].id => t = u

\* The client of s may enter: what it asked is in the table.
Entitled(s) == asked[s] # Nobody /\ accounts[asked[s][1]] = asked[s][2]
Asks(s, x) == asked[s] = <<x.account, x.password>>

\* What can act on s is of its client: its state, ...
OwnState(s) == state[s] \in {"LOBBY", "GAME"} => Entitled(s)

\* ... the answers that are about to be applied and the jobs that are queued, ...
OwnJobs(s) ==
    \A t \in LogicThread :
        /\ letting[t] # << >> /\ letting[t].session = s => Entitled(s)
        /\ \A i \in DOMAIN inbox[t] : inbox[t][i].session = s =>
              /\ inbox[t][i].kind = "C_LOGIN" => Asks(s, inbox[t][i])
              /\ inbox[t][i].kind = "S_LOGIN" /\ inbox[t][i].id # 0 => Entitled(s)

\* ... the tasks that will pass the comparison of generations, ...
OwnTasks(s) ==
    \A i \in DOMAIN tasks :
        queries[tasks[i]].session = s /\ queries[tasks[i]].gen = gen[s]
            => Asks(s, queries[tasks[i]])

\* ... and those that will pass it or have.
OwnWorkers(s) ==
    \A w \in DbWorker :
        /\ stage[w] # Rest
        /\ queries[running[w]].session = s
        /\ stage[w] = "compare" => queries[running[w]].gen = gen[s]
        => Asks(s, queries[running[w]])

\* All that can still act on a session accepted without traces of another
\* client is of its own client.
ActsAreOwn ==
    \A s \in online \cap clean :
        OwnState(s) /\ OwnJobs(s) /\ OwnTasks(s) /\ OwnWorkers(s)

\* A worker that updates has found the password, and who has not asked yet is
\* new.
FoundAndNew ==
    /\ \A w \in DbWorker : stage[w] = "update" =>
          accounts[queries[running[w]].account] = queries[running[w]].password
    /\ \A s \in Session : client[s] \in {"gone", "new"} => asked[s] = Nobody
    /\ \A s \in Session \ online : client[s] = "gone"

LoginIInv ==
    /\ LoginTypes /\ RequestsAreFull /\ TasksAreQueries
    /\ IdsAreUsedOnce /\ ActsAreOwn /\ FoundAndNew

-----------------------------------------------------------------------------
\* A job that is pushed is the last of its thread's queue.
LEMMA Pushed ==
    ASSUME LoginTypes, NEW job \in LoginJob, PushJob(job)
    PROVE  \E t \in LogicThread, n \in Nat :
              /\ inbox' \in [LogicThread -> Seq(LoginJob)]
              /\ n \notin DOMAIN inbox[t] /\ inbox'[t][n] = job
              /\ DOMAIN inbox'[t] = DOMAIN inbox[t] \cup {n}
              /\ \A i \in DOMAIN inbox[t] : inbox'[t][i] = inbox[t][i]
              /\ \A u \in LogicThread : u # t => inbox'[u] = inbox[u]
<1> DEFINE t == ThreadOf(job.session, job.kind)
           n == Len(inbox[t]) + 1
<1>1. t \in LogicThread
  BY DbAssumption DEF ThreadOf, LogicThread, LoginJob, Session
<1>2. inbox' = [inbox EXCEPT ![t] = Append(inbox[t], job)]
  BY DEF PushJob
<1> HIDE DEF t
<1>3. inbox[t] \in Seq(LoginJob) /\ inbox \in [LogicThread -> Seq(LoginJob)]
  BY <1>1 DEF LoginTypes
<1>4. /\ inbox'[t] = Append(inbox[t], job)
      /\ \A u \in LogicThread : u # t => inbox'[u] = inbox[u]
      /\ inbox' \in [LogicThread -> Seq(LoginJob)]
  BY <1>1, <1>2, <1>3
<1>5. /\ Len(inbox[t]) \in Nat /\ DOMAIN inbox[t] = 1 .. Len(inbox[t])
      /\ DOMAIN inbox'[t] = 1 .. n
      /\ \A i \in 1 .. Len(inbox[t]) : inbox'[t][i] = inbox[t][i]
      /\ inbox'[t][n] = job
  BY <1>3, <1>4
<1>6. /\ 1 .. n = 1 .. Len(inbox[t]) \cup {n} /\ n \notin 1 .. Len(inbox[t])
      /\ n \in Nat
  BY <1>5
<1> HIDE DEF n
<1> QED  BY <1>1, <1>4, <1>5, <1>6

\* A job that is handled was the first.
LEMMA Popped ==
    ASSUME LoginTypes, NEW t \in LogicThread, inbox[t] # << >>,
           inbox' = [inbox EXCEPT ![t] = Tail(@)]
    PROVE  /\ inbox' \in [LogicThread -> Seq(LoginJob)]
           /\ 1 \in DOMAIN inbox[t] /\ Head(inbox[t]) = inbox[t][1]
           /\ Head(inbox[t]) \in LoginJob
           /\ \A i \in DOMAIN inbox'[t] : /\ i \in Nat /\ i + 1 \in DOMAIN inbox[t]
                                          /\ i + 1 # 1
                                          /\ inbox'[t][i] = inbox[t][i + 1]
           /\ \A u \in LogicThread : u # t => inbox'[u] = inbox[u]
<1>1. inbox[t] \in Seq(LoginJob) /\ inbox \in [LogicThread -> Seq(LoginJob)]
  BY DEF LoginTypes
<1>2. /\ Tail(inbox[t]) \in Seq(LoginJob) /\ Head(inbox[t]) \in LoginJob
      /\ Len(Tail(inbox[t])) = Len(inbox[t]) - 1 /\ Len(inbox[t]) \in Nat \ {0}
      /\ \A i \in 1 .. Len(Tail(inbox[t])) : Tail(inbox[t])[i] = inbox[t][i + 1]
      /\ Head(inbox[t]) = inbox[t][1]
  BY <1>1, HeadTailProperties
<1>3. /\ inbox'[t] = Tail(inbox[t])
      /\ \A u \in LogicThread : u # t => inbox'[u] = inbox[u]
      /\ inbox' \in [LogicThread -> Seq(LoginJob)]
  BY <1>1, <1>2
<1>4. /\ DOMAIN inbox[t] = 1 .. Len(inbox[t])
      /\ DOMAIN inbox'[t] = 1 .. Len(inbox[t]) - 1
  BY <1>1, <1>2, <1>3
<1>5. \A i \in 1 .. Len(inbox[t]) - 1 :
         i \in Nat /\ i + 1 \in 1 .. Len(inbox[t]) /\ i + 1 # 1
  BY <1>2
<1> QED  BY <1>2, <1>3, <1>4, <1>5

\* The query a worker has.
LEMMA QueryType ==
    ASSUME LoginTypes, TasksAreQueries, NEW w \in DbWorker, stage[w] # Rest
    PROVE  Query(w) \in LoginQuery /\ Query(w) = queries[running[w]]
<1>1. queries \in Seq(LoginQuery) /\ running[w] \in 1 .. Len(queries)
  BY DEF LoginTypes, TasksAreQueries
<1> QED  BY <1>1 DEF Query

\* The jobs that are pushed.
LEMMA PlainType ==
    ASSUME LoginTypes, NEW s \in Session, NEW kind \in {"C_ENTER_GAME", "C_MOVE"}
    PROVE  /\ Plain(kind, s) \in LoginJob /\ Plain(kind, s).id = 0
           /\ Plain(kind, s).kind = kind /\ Plain(kind, s).session = s
           /\ Plain(kind, s).kind # "C_LOGIN"
<1>1. gen[s] \in Nat
  BY DEF LoginTypes
<1> QED  BY <1>1 DEF Plain, LoginJob

LoginRequest(s, a, p) == [Plain("C_LOGIN", s) EXCEPT !.account = a, !.password = p]

LEMMA LoginRequestType ==
    ASSUME LoginTypes, NEW s \in Session, NEW a \in Account, NEW p \in Password
    PROVE  /\ LoginRequest(s, a, p) \in LoginJob /\ LoginRequest(s, a, p).id = 0
           /\ LoginRequest(s, a, p).kind = "C_LOGIN"
           /\ LoginRequest(s, a, p).session = s
           /\ LoginRequest(s, a, p).account = a /\ LoginRequest(s, a, p).password = p
<1>1. gen[s] \in Nat
  BY DEF LoginTypes
<1> QED  BY <1>1 DEF LoginRequest, Plain, LoginJob

AnswerJob(q, id) ==
    [kind |-> "S_LOGIN", session |-> q.session, for |-> q.for,
     account |-> Nobody, password |-> Nobody, id |-> id]

LEMMA AnswerType ==
    ASSUME NEW q \in LoginQuery, NEW id \in Nat
    PROVE  /\ AnswerJob(q, id) \in LoginJob
           /\ AnswerJob(q, id).id = id /\ AnswerJob(q, id).kind = "S_LOGIN"
           /\ AnswerJob(q, id).session = q.session
           /\ Answer(q, id) <=> PushJob(AnswerJob(q, id))
<1>1. Answer(q, id) <=> PushJob(AnswerJob(q, id))
  BY DEF Answer, AnswerJob
<1> QED  BY <1>1 DEF AnswerJob, LoginJob, LoginQuery

\* Append to the queries leaves those there are alone.
LEMMA QueryAdded ==
    ASSUME LoginTypes, NEW q \in LoginQuery, queries' = Append(queries, q)
    PROVE  /\ queries' \in Seq(LoginQuery)
           /\ Len(queries) \in Nat /\ Len(queries') = Len(queries) + 1
           /\ Len(queries) + 1 \in 1 .. Len(queries')
           /\ 1 .. Len(queries) \subseteq 1 .. Len(queries')
           /\ \A i \in 1 .. Len(queries) : queries'[i] = queries[i]
           /\ queries'[Len(queries) + 1] = q
<1>1. queries \in Seq(LoginQuery)
  BY DEF LoginTypes
<1>2. /\ queries' \in Seq(LoginQuery)
      /\ Len(queries) \in Nat /\ Len(queries') = Len(queries) + 1
      /\ \A i \in 1 .. Len(queries) : queries'[i] = queries[i]
      /\ queries'[Len(queries) + 1] = q
  BY <1>1, AppendProperties
<1> QED  BY <1>2

-----------------------------------------------------------------------------
\* How each step changes the queues of jobs: by nothing, by one job of a client
\* or of a worker, or by the job that a thread handles.
NewRequest(job) ==
    /\ job \in LoginJob /\ PushJob(job) /\ job.id = 0
    /\ job.kind = "C_LOGIN" => job.account \in Account /\ job.password \in Password

LEMMA WorkerPushes ==
    ASSUME LoginTypes, TasksAreQueries, NEW w \in DbWorker, stage[w] # Rest
    PROVE  \A id \in Nat : Answer(Query(w), id) <=> PushJob(AnswerJob(Query(w), id))
BY QueryType, AnswerType

LEMMA InboxStep ==
    ASSUME LoginTypes, TasksAreQueries, [Next]_vars
    PROVE  \/ inbox' = inbox
           \/ \E job \in LoginJob : NewRequest(job)
           \/ \E w \in DbWorker, id \in Nat :
                 stage[w] # Rest /\ PushJob(AnswerJob(Query(w), id))
           \/ \E t \in LogicThread :
                 inbox[t] # << >> /\ inbox' = [inbox EXCEPT ![t] = Tail(@)]
<1>1. ASSUME NEW s \in Session, ClientLogin(s)
      PROVE  \E job \in LoginJob : NewRequest(job)
  <2>1. PICK a \in Account, p \in Password : PushJob(LoginRequest(s, a, p))
    BY <1>1 DEF ClientLogin, LoginRequest
  <2> QED  BY <2>1, LoginRequestType DEF NewRequest
<1>2. ASSUME NEW s \in Session, ClientMovesEarly(s) \/ ClientEnter(s)
      PROVE  \E job \in LoginJob : NewRequest(job)
  <2>1. PICK kind \in {"C_ENTER_GAME", "C_MOVE"} : PushJob(Plain(kind, s))
    BY <1>2 DEF ClientMovesEarly, ClientEnter
  <2> QED  BY <2>1, PlainType DEF NewRequest
<1>3. ASSUME NEW t \in LogicThread,
             HandleLogin(t) \/ HandleAnswer(t) \/ HandleEnter(t) \/ HandleMove(t)
      PROVE  inbox[t] # << >> /\ inbox' = [inbox EXCEPT ![t] = Tail(@)]
  BY <1>3 DEF HandleLogin, HandleAnswer, HandleEnter, HandleMove, Handles
<1>4. ASSUME NEW t \in LogicThread, Notify(t) \/ LetIn(t)
      PROVE  inbox' = inbox
  BY <1>4 DEF Notify, LetIn
<1>5. ASSUME NEW w \in DbWorker, Select(w) \/ Update(w) \/ Insert(w)
      PROVE  \/ inbox' = inbox
             \/ \E id \in Nat : stage[w] # Rest /\ PushJob(AnswerJob(Query(w), id))
  <2>1. stage[w] # Rest
    BY <1>5 DEF Select, Update, Insert, Rest
  <2>2. inbox' = inbox \/ \E id \in {0, nextId} : Answer(Query(w), id)
    BY <1>5 DEF Select, Update, Insert
  <2>3. nextId \in Nat
    BY DEF LoginTypes
  <2> QED  BY <2>1, <2>2, <2>3, WorkerPushes
<1>6. ASSUME NEW w \in DbWorker,
             \/ WorkerAlone(w) \/ TakeTask(w) \/ ConnectionInvalid(w)
             \/ CompareGeneration(w) \/ StatementFails(w) \/ WakesForNothing(w)
      PROVE  inbox' = inbox
  BY <1>6 DEF WorkerAlone, TakeTask, ConnectionInvalid, CompareGeneration, StatementFails,
              WakesForNothing, Loses
<1>7. ASSUME NEW s \in Session, Accept(s) \/ Disconnect(s) \/ ClientReads(s)
      PROVE  inbox' = inbox
  BY <1>7 DEF Accept, Disconnect, ClientReads
<1>8. CASE UNCHANGED vars
  BY <1>8 DEF vars
<1> QED  BY <1>1, <1>2, <1>3, <1>4, <1>5, <1>6, <1>7, <1>8 DEF Next, LogicStep, WorkerStep

LEMMA RequestsStep ==
    LoginTypes /\ TasksAreQueries /\ RequestsAreFull /\ [Next]_vars
        => inbox' \in [LogicThread -> Seq(LoginJob)] /\ RequestsAreFull'
<1> SUFFICES ASSUME LoginTypes, TasksAreQueries, RequestsAreFull, [Next]_vars
             PROVE  inbox' \in [LogicThread -> Seq(LoginJob)] /\ RequestsAreFull'
  OBVIOUS
<1>1. CASE inbox' = inbox
  BY <1>1 DEF LoginTypes, RequestsAreFull
<1>2. ASSUME NEW job \in LoginJob, PushJob(job),
             job.kind = "C_LOGIN" => job.account \in Account /\ job.password \in Password
      PROVE  inbox' \in [LogicThread -> Seq(LoginJob)] /\ RequestsAreFull'
  <2>1. PICK t \in LogicThread, n \in Nat :
           /\ inbox' \in [LogicThread -> Seq(LoginJob)]
           /\ n \notin DOMAIN inbox[t] /\ inbox'[t][n] = job
           /\ DOMAIN inbox'[t] = DOMAIN inbox[t] \cup {n}
           /\ \A i \in DOMAIN inbox[t] : inbox'[t][i] = inbox[t][i]
           /\ \A u \in LogicThread : u # t => inbox'[u] = inbox[u]
    BY <1>2, Pushed
  <2> QED  BY <1>2, <2>1 DEF RequestsAreFull
<1>3. ASSUME NEW w \in DbWorker, NEW id \in Nat, stage[w] # Rest,
             PushJob(AnswerJob(Query(w), id))
      PROVE  inbox' \in [LogicThread -> Seq(LoginJob)] /\ RequestsAreFull'
  <2>1. /\ AnswerJob(Query(w), id) \in LoginJob
        /\ AnswerJob(Query(w), id).kind # "C_LOGIN"
    BY <1>3, QueryType, AnswerType
  <2> QED  BY <1>2, <1>3, <2>1
<1>4. ASSUME NEW t \in LogicThread, inbox[t] # << >>,
             inbox' = [inbox EXCEPT ![t] = Tail(@)]
      PROVE  inbox' \in [LogicThread -> Seq(LoginJob)] /\ RequestsAreFull'
  <2>1. /\ inbox' \in [LogicThread -> Seq(LoginJob)]
        /\ \A i \in DOMAIN inbox'[t] :
              i + 1 \in DOMAIN inbox[t] /\ inbox'[t][i] = inbox[t][i + 1]
        /\ \A u \in LogicThread : u # t => inbox'[u] = inbox[u]
    BY <1>4, Popped
  <2> QED  BY <2>1 DEF RequestsAreFull
<1> QED  BY <1>1, <1>2, <1>3, <1>4, InboxStep DEF NewRequest

\* The job that a thread handles.
LEMMA Handled ==
    ASSUME LoginTypes, NEW t \in LogicThread, NEW kind, Handles(t, kind)
    PROVE  /\ Head(inbox[t]) \in LoginJob /\ Head(inbox[t]).kind = kind
           /\ 1 \in DOMAIN inbox[t] /\ Head(inbox[t]) = inbox[t][1]
           /\ letting[t] = << >>
BY Popped DEF Handles

\* The first task that is taken, and the others.
LEMMA TaskTaken ==
    ASSUME TasksAreQueries, tasks # << >>, tasks' = Tail(tasks)
    PROVE  /\ tasks' \in Seq(Nat)
           /\ 1 \in DOMAIN tasks /\ Head(tasks) = tasks[1]
           /\ \A i \in DOMAIN tasks' : i + 1 \in DOMAIN tasks /\ tasks'[i] = tasks[i + 1]
<1>1. tasks \in Seq(Nat)
  BY DEF TasksAreQueries
<1>2. /\ Tail(tasks) \in Seq(Nat)
      /\ Len(Tail(tasks)) = Len(tasks) - 1 /\ Len(tasks) \in Nat \ {0}
      /\ \A i \in 1 .. Len(Tail(tasks)) : Tail(tasks)[i] = tasks[i + 1]
      /\ Head(tasks) = tasks[1]
  BY <1>1, HeadTailProperties
<1>3. DOMAIN tasks = 1 .. Len(tasks) /\ DOMAIN tasks' = 1 .. Len(tasks) - 1
  BY <1>1, <1>2
<1>4. \A i \in 1 .. Len(tasks) - 1 : i + 1 \in 1 .. Len(tasks)
  BY <1>2
<1> QED  BY <1>2, <1>3, <1>4

\* A task that is pushed is the last.
LEMMA TaskAdded ==
    ASSUME TasksAreQueries, NEW n \in Nat, tasks' = Append(tasks, n)
    PROVE  /\ tasks' \in Seq(Nat)
           /\ \A i \in DOMAIN tasks' :
                 \/ i \in DOMAIN tasks /\ tasks'[i] = tasks[i]
                 \/ tasks'[i] = n
<1>1. tasks \in Seq(Nat)
  BY DEF TasksAreQueries
<1> QED  BY <1>1, AppendProperties

\* What the steps do to the queries that are queued or run: a task that is
\* queued or running was so, or was queued and is taken, or is new.
LEMMA TasksStep ==
    ASSUME LoginTypes, RequestsAreFull, TasksAreQueries, [Next]_vars
    PROVE  TasksAreQueries' /\ queries' \in Seq(LoginQuery)
<1> USE DEF TasksAreQueries
<1>1. ASSUME UNCHANGED <<tasks, running, queries>>, 
             \A w \in DbWorker : stage'[w] # Rest => stage[w] # Rest
      PROVE  TasksAreQueries' /\ queries' \in Seq(LoginQuery)
  BY <1>1 DEF LoginTypes
<1>2. ASSUME NEW w \in DbWorker, stage[w] # Rest, stage'[w] # Rest,
             UNCHANGED <<tasks, running, queries>>,
             \A v \in DbWorker \ {w} : stage'[v] = stage[v]
      PROVE  TasksAreQueries' /\ queries' \in Seq(LoginQuery)
  BY <1>2, <1>1
<1>3. ASSUME NEW w \in DbWorker, ToStage(w, Rest), Finish(w) \/ EndByException(w),
             UNCHANGED queries
      PROVE  TasksAreQueries' /\ queries' \in Seq(LoginQuery)
  <2>1. /\ tasks' = tasks /\ running' = [running EXCEPT ![w] = NoTask]
        /\ stage' = [stage EXCEPT ![w] = Rest]
    BY <1>3 DEF Finish, EndByException, ToStage
  <2>2. NoTask \in Nat
    BY DEF NoTask
  <2>3. \A v \in DbWorker : stage'[v] # Rest => stage[v] # Rest /\ running'[v] = running[v]
    BY <2>1 DEF LoginTypes
  <2> QED  BY <1>3, <2>1, <2>2, <2>3 DEF LoginTypes
<1>4. ASSUME NEW s \in Session,
             \/ Accept(s) \/ Disconnect(s) \/ ClientLogin(s) \/ ClientReads(s)
             \/ ClientMovesEarly(s) \/ ClientEnter(s)
      PROVE  TasksAreQueries' /\ queries' \in Seq(LoginQuery)
  BY <1>4, <1>1 DEF Accept, Disconnect, ClientLogin, ClientReads, ClientMovesEarly,
                    ClientEnter, sql, dbVars
<1>5. ASSUME NEW t \in LogicThread, HandleLogin(t)
      PROVE  TasksAreQueries' /\ queries' \in Seq(LoginQuery)
  <2> DEFINE job == Head(inbox[t])
             q == [session |-> job.session, gen |-> gen[job.session],
                   for |-> job.for, account |-> job.account, password |-> job.password]
  <2>1. job \in LoginJob /\ job.kind = "C_LOGIN" /\ job = inbox[t][1] /\ 1 \in DOMAIN inbox[t]
    BY <1>5, Handled DEF HandleLogin
  <2>2. job.account \in Account /\ job.password \in Password
    BY <2>1 DEF RequestsAreFull
  <2>3. q \in LoginQuery
    BY <2>1, <2>2 DEF LoginJob, LoginQuery, LoginTypes
  <2>4. /\ queries' = Append(queries, q) /\ tasks' = Append(tasks, Len(queries) + 1)
        /\ running' = running /\ stage' = stage
    BY <1>5 DEF HandleLogin, PushQuery
  <2> HIDE DEF job, q
  <2>5. /\ queries' \in Seq(LoginQuery) /\ Len(queries) \in Nat
        /\ Len(queries) + 1 \in 1 .. Len(queries')
        /\ 1 .. Len(queries) \subseteq 1 .. Len(queries')
    BY <2>3, <2>4, QueryAdded
  <2>6. /\ tasks' \in Seq(Nat)
        /\ \A i \in DOMAIN tasks' : \/ i \in DOMAIN tasks /\ tasks'[i] = tasks[i]
                                    \/ tasks'[i] = Len(queries) + 1
    BY <2>4, <2>5, TaskAdded
  <2> QED  BY <2>4, <2>5, <2>6
<1>6. ASSUME NEW t \in LogicThread,
             Notify(t) \/ HandleAnswer(t) \/ LetIn(t) \/ HandleEnter(t) \/ HandleMove(t)
      PROVE  TasksAreQueries' /\ queries' \in Seq(LoginQuery)
  BY <1>6, <1>1 DEF Notify, NotifyOne, HandleAnswer, LetIn, HandleEnter, HandleMove,
                    sql, dbVars
<1>7. ASSUME NEW w \in DbWorker, WorkerAlone(w) \/ WakesForNothing(w)
      PROVE  TasksAreQueries' /\ queries' \in Seq(LoginQuery)
  BY <1>7, <1>1 DEF WorkerAlone, WakesForNothing, Connect, ConnectFails, Sleep, WakeUp, sql
<1>8. ASSUME NEW w \in DbWorker, TakeTask(w)
      PROVE  TasksAreQueries' /\ queries' \in Seq(LoginQuery)
  <2>1. /\ tasks # << >> /\ tasks' = Tail(tasks) /\ queries' = queries
        /\ running' = [running EXCEPT ![w] = Head(tasks)]
        /\ stage' = [stage EXCEPT ![w] = "compare"]
    BY <1>8 DEF TakeTask, Take, ToStage
  <2>2. /\ tasks' \in Seq(Nat) /\ 1 \in DOMAIN tasks /\ Head(tasks) = tasks[1]
        /\ \A i \in DOMAIN tasks' : i + 1 \in DOMAIN tasks /\ tasks'[i] = tasks[i + 1]
    BY <2>1, TaskTaken
  <2>3. Head(tasks) \in Nat /\ Head(tasks) \in 1 .. Len(queries)
    BY <2>2
  <2>4. \A v \in DbWorker : v # w => stage'[v] = stage[v] /\ running'[v] = running[v]
    BY <2>1 DEF LoginTypes
  <2>5. running'[w] = Head(tasks) /\ running' \in [DbWorker -> Nat]
    BY <2>1, <2>3
  <2> QED  BY <2>1, <2>2, <2>3, <2>4, <2>5 DEF LoginTypes
<1>9. ASSUME NEW w \in DbWorker, ConnectionInvalid(w) \/ StatementFails(w)
      PROVE  TasksAreQueries' /\ queries' \in Seq(LoginQuery)
  BY <1>9, <1>3 DEF ConnectionInvalid, StatementFails, Loses
<1>10. ASSUME NEW w \in DbWorker, CompareGeneration(w)
       PROVE  TasksAreQueries' /\ queries' \in Seq(LoginQuery)
  <2>1. stage[w] # Rest /\ "select" # Rest
    BY <1>10 DEF CompareGeneration, Rest
  <2>2. CASE ToStage(w, "select") /\ UNCHANGED dbVars
    BY <1>10, <2>1, <2>2, <1>2 DEF CompareGeneration, ToStage, dbVars, LoginTypes
  <2>3. CASE ToStage(w, Rest) /\ Finish(w)
    BY <1>10, <2>3, <1>3 DEF CompareGeneration
  <2> QED  BY <1>10, <2>2, <2>3 DEF CompareGeneration
<1>11. ASSUME NEW w \in DbWorker, Select(w)
       PROVE  TasksAreQueries' /\ queries' \in Seq(LoginQuery)
  <2>1. stage[w] # Rest /\ "insert" # Rest /\ "update" # Rest
    BY <1>11 DEF Select, Rest
  <2>2. CASE (ToStage(w, "insert") \/ ToStage(w, "update")) /\ UNCHANGED dbVars
    BY <1>11, <2>1, <2>2, <1>2 DEF Select, ToStage, dbVars, LoginTypes
  <2>3. CASE ToStage(w, Rest) /\ Finish(w)
    BY <1>11, <2>3, <1>3 DEF Select
  <2> QED  BY <1>11, <2>2, <2>3 DEF Select
<1>12. ASSUME NEW w \in DbWorker, Update(w) \/ Insert(w)
       PROVE  TasksAreQueries' /\ queries' \in Seq(LoginQuery)
  BY <1>12, <1>3 DEF Update, Insert
<1>13. CASE UNCHANGED vars
  BY <1>13, <1>1 DEF vars, dbVars, sql
<1> QED
  BY <1>4, <1>5, <1>6, <1>7, <1>8, <1>9, <1>10, <1>11, <1>12, <1>13
     DEF Next, LogicStep, WorkerStep

LEMMA TypesStep ==
    ASSUME LoginTypes, RequestsAreFull, TasksAreQueries, [Next]_vars
    PROVE  LoginTypes' /\ RequestsAreFull' /\ TasksAreQueries'
<1>1. /\ inbox' \in [LogicThread -> Seq(LoginJob)]
      /\ queries' \in Seq(LoginQuery) /\ RequestsAreFull' /\ TasksAreQueries'
  BY RequestsStep, TasksStep
<1> DEFINE Logic == letting' \in [LogicThread -> LoginJob \cup {<< >>}]
           Worker == /\ stage' \in [DbWorker -> {Rest, "compare", "select", "update", "insert"}]
                     /\ accounts' \in [Account -> Password \cup {Nobody}]
                     /\ nextId' \in Nat \ {0}
           Sessions == /\ state' \in [Session -> {"NONE", "CONNECTED", "LOBBY", "GAME"}]
                       /\ playerId' \in [Session -> Nat]
           Clients == /\ gen' \in [Session -> Nat]
                      /\ online' \subseteq Session
                      /\ client' \in [Session -> {"gone", "new", "asked", "refused",
                                                  "knows its id", "moved", "entered"}]
                      /\ asked' \in [Session -> (Account \X Password) \cup {Nobody}]
<1>2. Logic /\ Worker /\ Sessions /\ Clients => LoginTypes'
  BY <1>1 DEF LoginTypes
<1> SUFFICES Logic /\ Worker /\ Sessions /\ Clients
  BY <1>1, <1>2
<1>3. UNCHANGED letting => Logic
  BY DEF LoginTypes
<1>4. UNCHANGED <<stage, accounts, nextId>> => Worker
  BY DEF LoginTypes
<1>5. UNCHANGED session => Sessions
  BY DEF LoginTypes, session
<1>6. UNCHANGED <<conn, client, asked>> => Clients
  BY DEF LoginTypes, conn
<1> HIDE DEF Logic, Worker, Sessions, Clients
<1>7. ASSUME NEW s \in Session,
             \/ Accept(s) \/ Disconnect(s) \/ ClientLogin(s) \/ ClientReads(s)
             \/ ClientMovesEarly(s) \/ ClientEnter(s)
      PROVE  Logic /\ Worker /\ Sessions /\ Clients
  <2>1. Logic /\ Worker
    BY <1>3, <1>4, <1>7 DEF Accept, Disconnect, ClientLogin, ClientReads, ClientMovesEarly,
                            ClientEnter, sql
  <2>2. Sessions
    <3>1. CASE Accept(s)
      BY <3>1 DEF Accept, Sessions, LoginTypes
    <3> QED
      BY <1>5, <1>7, <3>1 DEF Disconnect, ClientLogin, ClientReads, ClientMovesEarly, ClientEnter
  <2>3. Clients
    <3>7. gen \in [Session -> Nat]
      BY DEF LoginTypes
    <3>8. Disconnect(s) => gen' \in [Session -> Nat]
      BY <3>7 DEF Disconnect
    <3> USE DEF Clients, LoginTypes
    <3>1. CASE Accept(s)
      BY <3>1 DEF Accept
    <3>2. CASE Disconnect(s)
      BY <3>2, <3>8 DEF Disconnect
    <3>3. CASE ClientLogin(s)
      <4>1. PICK a \in Account, p \in Password : asked' = [asked EXCEPT ![s] = <<a, p>>]
        BY <3>3 DEF ClientLogin
      <4> QED  BY <3>3, <4>1 DEF ClientLogin, conn
    <3>4. CASE ClientReads(s)
      BY <3>4 DEF ClientReads, conn
    <3>5. CASE ClientMovesEarly(s)
      BY <3>5 DEF ClientMovesEarly, conn
    <3>6. CASE ClientEnter(s)
      BY <3>6 DEF ClientEnter, conn
    <3> QED  BY <1>7, <3>1, <3>2, <3>3, <3>4, <3>5, <3>6
  <2> QED  BY <2>1, <2>2, <2>3
<1>8. ASSUME NEW t \in LogicThread, LogicStep(t)
      PROVE  Logic /\ Worker /\ Sessions /\ Clients
  <2>1. Worker /\ Clients
    BY <1>4, <1>6, <1>8 DEF LogicStep, HandleLogin, Notify, HandleAnswer, LetIn, HandleEnter,
                            HandleMove, sql, clients
  <2>2. Logic
    <3>1. CASE HandleAnswer(t)
      <4>1. Head(inbox[t]) \in LoginJob
        BY <3>1, Handled DEF HandleAnswer
      <4> QED  BY <3>1, <4>1 DEF HandleAnswer, Logic, LoginTypes
    <3>2. CASE LetIn(t)
      BY <3>2 DEF LetIn, Logic, LoginTypes
    <3> QED  BY <1>3, <1>8, <3>1, <3>2 DEF LogicStep, HandleLogin, Notify, HandleEnter, HandleMove
  <2>3. Sessions
    <3>1. CASE LetIn(t)
      <4>1. letting[t] \in LoginJob
        BY <3>1 DEF LetIn, LoginTypes
      <4>2. letting[t].id \in Nat
        BY <4>1 DEF LoginJob
      <4> QED  BY <3>1, <4>2 DEF LetIn, Sessions, LoginTypes
    <3>2. CASE HandleEnter(t)
      BY <3>2 DEF HandleEnter, Sessions, LoginTypes
    <3> QED  BY <1>5, <1>8, <3>1, <3>2 DEF LogicStep, HandleLogin, Notify, HandleAnswer, HandleMove
  <2> QED  BY <2>1, <2>2, <2>3
<1>9. ASSUME NEW w \in DbWorker, WorkerStep(w) \/ WakesForNothing(w)
      PROVE  Logic /\ Worker /\ Sessions /\ Clients
  <2>1. Logic /\ Sessions /\ Clients
    BY <1>3, <1>5, <1>6, <1>9
       DEF WorkerStep, WakesForNothing, WorkerAlone, TakeTask, ConnectionInvalid,
           CompareGeneration, Select, Update, Insert, StatementFails, clients
  <2>2. \/ UNCHANGED stage
        \/ \E where \in {Rest, "compare", "select", "update", "insert"} : ToStage(w, where)
    BY <1>9 DEF WorkerStep, WakesForNothing, WorkerAlone, TakeTask, ConnectionInvalid,
                CompareGeneration, Select, Update, Insert, StatementFails, Loses, sql
  <2>3. stage' \in [DbWorker -> {Rest, "compare", "select", "update", "insert"}]
    BY <2>2 DEF LoginTypes, ToStage
  <2>4. nextId' \in {nextId, nextId + 1}
    BY <1>9 DEF WorkerStep, WakesForNothing, WorkerAlone, TakeTask, ConnectionInvalid,
                CompareGeneration, Select, Update, Insert, StatementFails, sql
  <2>5. accounts' \in [Account -> Password \cup {Nobody}]
    <3>1. CASE Insert(w)
      <4>1. Query(w) \in LoginQuery
        BY <3>1, QueryType DEF Insert, Rest
      <4>2. Query(w).password \in Password
        BY <4>1 DEF LoginQuery
      <4> QED  BY <3>1, <4>2 DEF Insert, LoginTypes
    <3>2. CASE UNCHANGED accounts
      BY <3>2 DEF LoginTypes
    <3> QED
      BY <1>9, <3>1, <3>2
         DEF WorkerStep, WakesForNothing, WorkerAlone, TakeTask, ConnectionInvalid,
             CompareGeneration, Select, Update, StatementFails, sql
  <2>6. nextId' \in Nat \ {0}
    <3>1. nextId \in Nat \ {0}
      BY DEF LoginTypes
    <3> QED  BY <2>4, <3>1
  <2> QED  BY <2>1, <2>3, <2>5, <2>6 DEF Worker
<1>10. CASE UNCHANGED vars
  BY <1>3, <1>4, <1>5, <1>6, <1>10 DEF vars, sql, clients
<1> QED  BY <1>7, <1>8, <1>9, <1>10 DEF Next

-----------------------------------------------------------------------------
\* A worker's answer has no id, or the next one, which is used up by it.
Numbered(job) ==
    \/ job.id = 0 /\ nextId' = nextId
    \/ job.id = nextId /\ nextId' = nextId + 1

\* How each step changes the ids that were assigned.
LEMMA IdSteps ==
    ASSUME LoginTypes, TasksAreQueries, [Next]_vars
    PROVE  \/ /\ UNCHANGED <<inbox, letting, playerId>>
              /\ nextId' \in {nextId, nextId + 1}
           \/ /\ \E job \in LoginJob : PushJob(job) /\ Numbered(job)
              /\ UNCHANGED <<letting, playerId>>
           \/ /\ \E t \in LogicThread :
                    /\ inbox[t] # << >> /\ letting[t] = << >>
                    /\ inbox' = [inbox EXCEPT ![t] = Tail(@)]
                    /\ \/ letting' = letting
                       \/ /\ Head(inbox[t]).id # 0
                          /\ letting' = [letting EXCEPT ![t] = Head(inbox[t])]
              /\ UNCHANGED <<playerId, nextId>>
           \/ /\ \E t \in LogicThread :
                    /\ letting[t] # << >>
                    /\ playerId' = [playerId EXCEPT ![letting[t].session] = letting[t].id]
                    /\ letting' = [letting EXCEPT ![t] = << >>]
              /\ UNCHANGED <<inbox, nextId>>
<1>1. ASSUME NEW s \in Session, ClientLogin(s)
      PROVE  \E job \in LoginJob : PushJob(job) /\ Numbered(job)
  <2>1. PICK a \in Account, p \in Password : PushJob(LoginRequest(s, a, p))
    BY <1>1 DEF ClientLogin, LoginRequest
  <2> QED  BY <1>1, <2>1, LoginRequestType DEF ClientLogin, Numbered, sql
<1>2. ASSUME NEW s \in Session, ClientMovesEarly(s) \/ ClientEnter(s)
      PROVE  \E job \in LoginJob : PushJob(job) /\ Numbered(job)
  <2>1. PICK kind \in {"C_ENTER_GAME", "C_MOVE"} : PushJob(Plain(kind, s))
    BY <1>2 DEF ClientMovesEarly, ClientEnter
  <2>2. nextId' = nextId
    BY <1>2 DEF ClientMovesEarly, ClientEnter, sql
  <2> QED  BY <2>1, <2>2, PlainType DEF Numbered
<1>3. ASSUME NEW s \in Session, ClientLogin(s) \/ ClientMovesEarly(s) \/ ClientEnter(s)
      PROVE  UNCHANGED <<letting, playerId>>
  BY <1>3 DEF ClientLogin, ClientMovesEarly, ClientEnter, session
<1>4. ASSUME NEW s \in Session, Accept(s) \/ Disconnect(s) \/ ClientReads(s)
      PROVE  UNCHANGED <<inbox, letting, playerId, nextId>>
  BY <1>4 DEF Accept, Disconnect, ClientReads, session, sql
<1>5. ASSUME NEW t \in LogicThread, HandleLogin(t) \/ HandleEnter(t) \/ HandleMove(t)
      PROVE  /\ inbox[t] # << >> /\ letting[t] = << >>
             /\ inbox' = [inbox EXCEPT ![t] = Tail(@)]
             /\ UNCHANGED <<letting, playerId, nextId>>
  BY <1>5 DEF HandleLogin, HandleEnter, HandleMove, Handles, sql, session
<1>6. ASSUME NEW t \in LogicThread, HandleAnswer(t)
      PROVE  /\ inbox[t] # << >> /\ letting[t] = << >>
             /\ inbox' = [inbox EXCEPT ![t] = Tail(@)]
             /\ UNCHANGED <<playerId, nextId>>
             /\ \/ letting' = letting
                \/ /\ Head(inbox[t]).id # 0
                   /\ letting' = [letting EXCEPT ![t] = Head(inbox[t])]
  <2>1. letting' = [letting EXCEPT ![t] = IF Head(inbox[t]).id # 0 THEN Head(inbox[t])
                                                                  ELSE letting[t]]
    BY <1>6 DEF HandleAnswer
  <2>2. CASE Head(inbox[t]).id = 0
    BY <1>6, <2>1, <2>2 DEF HandleAnswer, Handles, sql, session, LoginTypes
  <2>3. CASE Head(inbox[t]).id # 0
    BY <1>6, <2>1, <2>3 DEF HandleAnswer, Handles, sql, session
  <2> QED  BY <2>2, <2>3
<1>7. ASSUME NEW t \in LogicThread, LetIn(t)
      PROVE  /\ letting[t] # << >>
             /\ playerId' = [playerId EXCEPT ![letting[t].session] = letting[t].id]
             /\ letting' = [letting EXCEPT ![t] = << >>]
             /\ UNCHANGED <<inbox, nextId>>
  BY <1>7 DEF LetIn, sql
<1>8. ASSUME NEW t \in LogicThread, Notify(t)
      PROVE  UNCHANGED <<inbox, letting, playerId, nextId>>
  BY <1>8 DEF Notify, session, sql
<1>9. ASSUME NEW w \in DbWorker, Select(w) \/ Update(w) \/ Insert(w)
      PROVE  /\ UNCHANGED <<letting, playerId>>
             /\ \/ UNCHANGED <<inbox, nextId>>
                \/ \E job \in LoginJob : PushJob(job) /\ Numbered(job)
  <2>1. stage[w] # Rest
    BY <1>9 DEF Select, Update, Insert, Rest
  <2>2. Query(w) \in LoginQuery /\ nextId \in Nat /\ 0 \in Nat
    BY <2>1, QueryType DEF LoginTypes
  <2>3. \/ UNCHANGED <<inbox, nextId>>
        \/ \E id \in {0, nextId} : /\ Answer(Query(w), id)
                                   /\ \/ id = 0 /\ nextId' = nextId
                                      \/ id = nextId /\ nextId' = nextId + 1
    BY <1>9 DEF Select, Update, Insert
  <2>4. UNCHANGED <<letting, playerId>>
    BY <1>9 DEF Select, Update, Insert, session
  <2>5. ASSUME NEW id \in {0, nextId}, Answer(Query(w), id),
               \/ id = 0 /\ nextId' = nextId
               \/ id = nextId /\ nextId' = nextId + 1
        PROVE  \E job \in LoginJob : PushJob(job) /\ Numbered(job)
    <3>1. id \in Nat
      BY <2>2
    <3>2. /\ AnswerJob(Query(w), id) \in LoginJob
          /\ AnswerJob(Query(w), id).id = id
          /\ PushJob(AnswerJob(Query(w), id))
      BY <2>2, <2>5, <3>1, AnswerType
    <3> QED  BY <2>5, <3>2 DEF Numbered
  <2> QED  BY <2>3, <2>4, <2>5
<1>10. ASSUME NEW w \in DbWorker,
              \/ WorkerAlone(w) \/ TakeTask(w) \/ ConnectionInvalid(w)
              \/ CompareGeneration(w) \/ StatementFails(w) \/ WakesForNothing(w)
       PROVE  /\ UNCHANGED <<inbox, letting, playerId>>
              /\ nextId' \in {nextId, nextId + 1}
  BY <1>10 DEF WorkerAlone, TakeTask, ConnectionInvalid, CompareGeneration, StatementFails,
               WakesForNothing, Loses, sql, session
<1>11. CASE UNCHANGED vars
  BY <1>11 DEF vars, sql, session
<1> QED
  BY <1>1, <1>2, <1>3, <1>4, <1>5, <1>6, <1>7, <1>8, <1>9, <1>10, <1>11
     DEF Next, LogicStep, WorkerStep

LEMMA IdsStep ==
    ASSUME LoginTypes, TasksAreQueries, IdsAreUsedOnce, [Next]_vars
    PROVE  IdsAreUsedOnce'
<1>1. nextId \in Nat /\ nextId > 0 /\ nextId + 1 \in Nat
  <2>1. nextId \in Nat \ {0}
    BY DEF LoginTypes
  <2> QED  BY <2>1
<1>2. /\ \A s \in Session : playerId[s] \in Nat
      /\ \A t \in LogicThread : letting[t] # << >> => letting[t] \in LoginJob
      /\ \A t \in LogicThread : \A i \in DOMAIN inbox[t] : inbox[t][i] \in LoginJob
  <2>1. ASSUME NEW t \in LogicThread, NEW i \in DOMAIN inbox[t]
        PROVE  inbox[t][i] \in LoginJob
    <3>1. inbox[t] \in Seq(LoginJob)
      BY DEF LoginTypes
    <3> QED  BY <2>1, <3>1
  <2> QED  BY <2>1 DEF LoginTypes
<1>3. \A job \in LoginJob : job.id \in Nat /\ job.session \in Session
  BY DEF LoginJob
<1>4. CASE /\ UNCHANGED <<inbox, letting, playerId>>
           /\ nextId' \in {nextId, nextId + 1}
  <2>1. \A n \in Nat : n < nextId => n < nextId'
    BY <1>1, <1>4
  <2> QED  BY <1>2, <1>3, <1>4, <2>1 DEF IdsAreUsedOnce
<1>5. ASSUME NEW job \in LoginJob, PushJob(job), Numbered(job), UNCHANGED <<letting, playerId>>
      PROVE  IdsAreUsedOnce'
  <2>1. PICK t \in LogicThread, n \in Nat :
           /\ inbox' \in [LogicThread -> Seq(LoginJob)]
           /\ n \notin DOMAIN inbox[t] /\ inbox'[t][n] = job
           /\ DOMAIN inbox'[t] = DOMAIN inbox[t] \cup {n}
           /\ \A i \in DOMAIN inbox[t] : inbox'[t][i] = inbox[t][i]
           /\ \A u \in LogicThread : u # t => inbox'[u] = inbox[u]
    BY <1>5, Pushed
  <2>2. /\ nextId' \in Nat /\ job.id \in Nat /\ job.id < nextId'
        /\ \A k \in Nat : k < nextId => k < nextId' /\ (job.id # 0 => k # job.id)
    BY <1>1, <1>3, <1>5 DEF Numbered
  <2>3. \A u \in LogicThread : \A i \in DOMAIN inbox'[u] :
           \/ i \in DOMAIN inbox[u] /\ inbox'[u][i] = inbox[u][i] /\ ~(u = t /\ i = n)
           \/ u = t /\ i = n /\ inbox'[u][i] = job
    BY <2>1
  <2> QED  BY <1>2, <1>3, <1>5, <2>2, <2>3 DEF IdsAreUsedOnce
<1>6. ASSUME NEW t \in LogicThread, inbox[t] # << >>, letting[t] = << >>,
             inbox' = [inbox EXCEPT ![t] = Tail(@)],
             \/ letting' = letting
             \/ /\ Head(inbox[t]).id # 0
                /\ letting' = [letting EXCEPT ![t] = Head(inbox[t])],
             UNCHANGED <<playerId, nextId>>
      PROVE  IdsAreUsedOnce'
  <2>1. /\ inbox' \in [LogicThread -> Seq(LoginJob)]
        /\ 1 \in DOMAIN inbox[t] /\ Head(inbox[t]) = inbox[t][1]
        /\ Head(inbox[t]) \in LoginJob
        /\ \A i \in DOMAIN inbox'[t] : /\ i \in Nat /\ i + 1 \in DOMAIN inbox[t]
                                       /\ i + 1 # 1
                                       /\ inbox'[t][i] = inbox[t][i + 1]
        /\ \A u \in LogicThread : u # t => inbox'[u] = inbox[u]
    BY <1>6, Popped
  <2> DEFINE Was(u, i) == IF u = t THEN i + 1 ELSE i
  <2>2. /\ \A u \in LogicThread : \A i \in DOMAIN inbox'[u] :
              /\ Was(u, i) \in DOMAIN inbox[u] /\ inbox'[u][i] = inbox[u][Was(u, i)]
              /\ ~(u = t /\ Was(u, i) = 1)
        /\ \A u \in LogicThread : \A i, k \in DOMAIN inbox'[u] :
              Was(u, i) = Was(u, k) => i = k
    BY <2>1
  <2> HIDE DEF Was
  <2>3. CASE letting' = letting
    BY <1>6, <2>2, <2>3 DEF IdsAreUsedOnce
  <2>4. CASE /\ Head(inbox[t]).id # 0
             /\ letting' = [letting EXCEPT ![t] = Head(inbox[t])]
    <3>1. /\ letting'[t] = inbox[t][1] /\ letting'[t].id # 0
          /\ \A u \in LogicThread : u # t => letting'[u] = letting[u]
      BY <2>1, <2>4 DEF LoginTypes
    <3> QED  BY <1>2, <1>6, <2>1, <2>2, <3>1 DEF IdsAreUsedOnce
  <2> QED  BY <1>6, <2>3, <2>4
<1>7. ASSUME NEW t \in LogicThread, letting[t] # << >>,
             playerId' = [playerId EXCEPT ![letting[t].session] = letting[t].id],
             letting' = [letting EXCEPT ![t] = << >>],
             UNCHANGED <<inbox, nextId>>
      PROVE  IdsAreUsedOnce'
  <2> DEFINE s == letting[t].session
  <2>1. /\ s \in Session /\ playerId'[s] = letting[t].id
        /\ \A r \in Session : r # s => playerId'[r] = playerId[r]
        /\ letting'[t] = << >>
        /\ \A u \in LogicThread : u # t => letting'[u] = letting[u]
    BY <1>2, <1>3, <1>7 DEF LoginTypes
  <2> HIDE DEF s
  <2> QED  BY <1>2, <1>7, <2>1 DEF IdsAreUsedOnce
<1> QED  BY <1>4, <1>5, <1>6, <1>7, IdSteps

-----------------------------------------------------------------------------
(* What each step changes of what can act on a session. *)

\* A state that lets a client in is set from an answer.
LEMMA StatesChange ==
    ASSUME LoginTypes, [Next]_vars, NEW s \in Session, state'[s] \in {"LOBBY", "GAME"}
    PROVE  \/ state[s] \in {"LOBBY", "GAME"} /\ ~Accept(s)
           \/ \E t \in LogicThread : letting[t] # << >> /\ letting[t].session = s
<1>1. ASSUME NEW r \in Session, Accept(r)
      PROVE  state'[s] = state[s] /\ r # s
  BY <1>1 DEF Accept, LoginTypes
<1>2. ASSUME NEW t \in LogicThread, LetIn(t), letting[t].session # s
      PROVE  state'[s] = state[s]
  BY <1>2 DEF LetIn, LoginTypes
<1>3. ASSUME NEW t \in LogicThread, HandleEnter(t)
      PROVE  state[s] \in {"LOBBY", "GAME"}
  BY <1>3 DEF HandleEnter, LoginTypes
<1>4. ASSUME UNCHANGED state
      PROVE  state[s] \in {"LOBBY", "GAME"} /\ ~Accept(s)
  BY <1>4 DEF Accept, LoginTypes
<1>5. ASSUME NEW t \in LogicThread, LetIn(t) \/ HandleEnter(t)
      PROVE  ~Accept(s)
  <2>1. UNCHANGED online
    BY <1>5 DEF LetIn, HandleEnter, conn
  <2> QED  BY <2>1 DEF Accept
<1>6. ASSUME NEW t \in LogicThread,
             HandleLogin(t) \/ Notify(t) \/ HandleAnswer(t) \/ HandleMove(t)
      PROVE  UNCHANGED state
  BY <1>6 DEF HandleLogin, Notify, HandleAnswer, HandleMove, session
<1>7. ASSUME NEW r \in Session,
             \/ Disconnect(r) \/ ClientLogin(r) \/ ClientReads(r)
             \/ ClientMovesEarly(r) \/ ClientEnter(r)
      PROVE  UNCHANGED state
  BY <1>7 DEF Disconnect, ClientLogin, ClientReads, ClientMovesEarly, ClientEnter, session
<1>8. ASSUME NEW w \in DbWorker, WorkerStep(w) \/ WakesForNothing(w)
      PROVE  UNCHANGED state
  BY <1>8 DEF WorkerStep, WakesForNothing, WorkerAlone, TakeTask, ConnectionInvalid,
              CompareGeneration, Select, Update, Insert, StatementFails, session
<1>9. CASE UNCHANGED vars
  BY <1>4, <1>9 DEF vars, session
<1>10. ASSUME NEW r \in Session, Accept(r)
       PROVE  state[s] \in {"LOBBY", "GAME"} /\ ~Accept(s)
  <2>1. s \notin online => s \notin online'
    BY <1>1, <1>10 DEF Accept
  <2> QED  BY <1>1, <1>10, <2>1 DEF Accept
<1>11. ASSUME NEW t \in LogicThread, LetIn(t)
       PROVE  letting[t] # << >>
  BY <1>11 DEF LetIn
<1> QED
  BY <1>2, <1>3, <1>4, <1>5, <1>6, <1>7, <1>8, <1>9, <1>10, <1>11 DEF Next, LogicStep

\* An answer that is about to be applied is a good one.
LEMMA LettingChanges ==
    ASSUME LoginTypes, [Next]_vars, NEW t \in LogicThread, letting'[t] # << >>
    PROVE  \/ letting'[t] = letting[t]
           \/ /\ 1 \in DOMAIN inbox[t] /\ letting'[t] = inbox[t][1]
              /\ inbox[t][1].kind = "S_LOGIN" /\ inbox[t][1].id # 0
<1>1. ASSUME NEW u \in LogicThread, HandleAnswer(u)
      PROVE  \/ letting'[t] = letting[t]
             \/ /\ 1 \in DOMAIN inbox[t] /\ letting'[t] = inbox[t][1]
                /\ inbox[t][1].kind = "S_LOGIN" /\ inbox[t][1].id # 0
  <2>1. /\ 1 \in DOMAIN inbox[u] /\ Head(inbox[u]) = inbox[u][1]
        /\ Head(inbox[u]).kind = "S_LOGIN"
    BY <1>1, Handled DEF HandleAnswer
  <2> QED  BY <1>1, <2>1 DEF HandleAnswer, LoginTypes
<1>2. ASSUME NEW u \in LogicThread, LetIn(u)
      PROVE  letting'[t] = letting[t]
  BY <1>2 DEF LetIn, LoginTypes
<1>3. ASSUME NEW u \in LogicThread,
             HandleLogin(u) \/ Notify(u) \/ HandleEnter(u) \/ HandleMove(u)
      PROVE  UNCHANGED letting
  BY <1>3 DEF HandleLogin, Notify, HandleEnter, HandleMove
<1>4. ASSUME NEW r \in Session,
             \/ Accept(r) \/ Disconnect(r) \/ ClientLogin(r) \/ ClientReads(r)
             \/ ClientMovesEarly(r) \/ ClientEnter(r)
      PROVE  UNCHANGED letting
  BY <1>4 DEF Accept, Disconnect, ClientLogin, ClientReads, ClientMovesEarly, ClientEnter
<1>5. ASSUME NEW w \in DbWorker, WorkerStep(w) \/ WakesForNothing(w)
      PROVE  UNCHANGED letting
  BY <1>5 DEF WorkerStep, WakesForNothing, WorkerAlone, TakeTask, ConnectionInvalid,
              CompareGeneration, Select, Update, Insert, StatementFails
<1>6. CASE UNCHANGED vars
  BY <1>6 DEF vars
<1> QED  BY <1>1, <1>2, <1>3, <1>4, <1>5, <1>6 DEF Next, LogicStep

\* The table only gets accounts.
LEMMA AccountsChange ==
    ASSUME LoginTypes, [Next]_vars, NEW a \in Account, accounts[a] # Nobody
    PROVE  accounts'[a] = accounts[a]
<1>1. ASSUME NEW w \in DbWorker, Insert(w)
      PROVE  accounts'[a] = accounts[a]
  BY <1>1 DEF Insert, LoginTypes
<1>2. ASSUME NEW t \in LogicThread, LogicStep(t)
      PROVE  UNCHANGED accounts
  BY <1>2 DEF LogicStep, HandleLogin, Notify, HandleAnswer, LetIn, HandleEnter, HandleMove, sql
<1>3. ASSUME NEW r \in Session,
             \/ Accept(r) \/ Disconnect(r) \/ ClientLogin(r) \/ ClientReads(r)
             \/ ClientMovesEarly(r) \/ ClientEnter(r)
      PROVE  UNCHANGED accounts
  BY <1>3 DEF Accept, Disconnect, ClientLogin, ClientReads, ClientMovesEarly, ClientEnter, sql
<1>4. ASSUME NEW w \in DbWorker,
             \/ WorkerAlone(w) \/ WakesForNothing(w) \/ TakeTask(w) \/ ConnectionInvalid(w)
             \/ CompareGeneration(w) \/ Select(w) \/ Update(w) \/ StatementFails(w)
      PROVE  UNCHANGED accounts
  BY <1>4 DEF WakesForNothing, WorkerAlone, TakeTask, ConnectionInvalid,
              CompareGeneration, Select, Update, StatementFails, sql
<1>5. CASE UNCHANGED vars
  BY <1>5 DEF vars, sql
<1> QED  BY <1>1, <1>2, <1>3, <1>4, <1>5 DEF Next, WorkerStep

\* A job is one that was queued, or it lets nobody in, or it is what a client
\* asks or the answer of a worker that assigned an id.
LEMMA JobsChange ==
    ASSUME LoginTypes, TasksAreQueries, [Next]_vars,
           NEW t \in LogicThread, NEW i \in DOMAIN inbox'[t]
    PROVE  \/ \E k \in DOMAIN inbox[t] : inbox'[t][i] = inbox[t][k]
           \/ /\ inbox'[t][i].kind # "C_LOGIN"
              /\ inbox'[t][i].kind = "S_LOGIN" => inbox'[t][i].id = 0
           \/ \E s \in Session, a \in Account, p \in Password :
                 /\ ClientLogin(s) /\ asked' = [asked EXCEPT ![s] = <<a, p>>]
                 /\ inbox'[t][i] = LoginRequest(s, a, p)
           \/ \E w \in DbWorker :
                 /\ Update(w) \/ Insert(w)
                 /\ inbox'[t][i].kind = "S_LOGIN"
                 /\ inbox'[t][i].session = Query(w).session
<1>1. ASSUME NEW job \in LoginJob, PushJob(job)
      PROVE  \/ \E k \in DOMAIN inbox[t] : inbox'[t][i] = inbox[t][k]
             \/ inbox'[t][i] = job
  <2>1. PICK u \in LogicThread, n \in Nat :
           /\ inbox' \in [LogicThread -> Seq(LoginJob)]
           /\ n \notin DOMAIN inbox[u] /\ inbox'[u][n] = job
           /\ DOMAIN inbox'[u] = DOMAIN inbox[u] \cup {n}
           /\ \A k \in DOMAIN inbox[u] : inbox'[u][k] = inbox[u][k]
           /\ \A v \in LogicThread : v # u => inbox'[v] = inbox[v]
    BY <1>1, Pushed
  <2> QED  BY <2>1
<1>2. ASSUME NEW s \in Session, ClientLogin(s)
      PROVE  \E a \in Account, p \in Password :
                /\ asked' = [asked EXCEPT ![s] = <<a, p>>]
                /\ \/ \E k \in DOMAIN inbox[t] : inbox'[t][i] = inbox[t][k]
                   \/ inbox'[t][i] = LoginRequest(s, a, p)
  <2>1. PICK a \in Account, p \in Password :
           /\ PushJob(LoginRequest(s, a, p))
           /\ asked' = [asked EXCEPT ![s] = <<a, p>>]
    BY <1>2 DEF ClientLogin, LoginRequest
  <2>2. \/ \E k \in DOMAIN inbox[t] : inbox'[t][i] = inbox[t][k]
        \/ inbox'[t][i] = LoginRequest(s, a, p)
    BY <1>1, <2>1, LoginRequestType
  <2> QED  BY <2>1, <2>2
<1>3. ASSUME NEW s \in Session, ClientMovesEarly(s) \/ ClientEnter(s)
      PROVE  \/ \E k \in DOMAIN inbox[t] : inbox'[t][i] = inbox[t][k]
             \/ inbox'[t][i].kind \in {"C_ENTER_GAME", "C_MOVE"}
  <2>1. PICK kind \in {"C_ENTER_GAME", "C_MOVE"} : PushJob(Plain(kind, s))
    BY <1>3 DEF ClientMovesEarly, ClientEnter
  <2> QED  BY <1>1, <2>1, PlainType
<1>4. ASSUME NEW u \in LogicThread,
             HandleLogin(u) \/ HandleAnswer(u) \/ HandleEnter(u) \/ HandleMove(u)
      PROVE  \E k \in DOMAIN inbox[t] : inbox'[t][i] = inbox[t][k]
  <2>1. inbox[u] # << >> /\ inbox' = [inbox EXCEPT ![u] = Tail(@)]
    BY <1>4 DEF HandleLogin, HandleAnswer, HandleEnter, HandleMove, Handles
  <2>2. /\ \A k \in DOMAIN inbox'[u] :
              k + 1 \in DOMAIN inbox[u] /\ inbox'[u][k] = inbox[u][k + 1]
        /\ \A v \in LogicThread : v # u => inbox'[v] = inbox[v]
    BY <2>1, Popped
  <2> QED  BY <2>2
<1>5. ASSUME inbox' = inbox
      PROVE  \E k \in DOMAIN inbox[t] : inbox'[t][i] = inbox[t][k]
  BY <1>5
<1>6. ASSUME NEW u \in LogicThread, Notify(u) \/ LetIn(u)
      PROVE  inbox' = inbox
  BY <1>6 DEF Notify, LetIn
<1>7. ASSUME NEW s \in Session, Accept(s) \/ Disconnect(s) \/ ClientReads(s)
      PROVE  inbox' = inbox
  BY <1>7 DEF Accept, Disconnect, ClientReads
<1>8. ASSUME NEW w \in DbWorker,
             \/ WorkerAlone(w) \/ TakeTask(w) \/ ConnectionInvalid(w)
             \/ CompareGeneration(w) \/ StatementFails(w) \/ WakesForNothing(w)
      PROVE  inbox' = inbox
  BY <1>8 DEF WorkerAlone, TakeTask, ConnectionInvalid, CompareGeneration, StatementFails,
              WakesForNothing, Loses
<1>9. ASSUME NEW w \in DbWorker, NEW id \in Nat, stage[w] # Rest, Answer(Query(w), id)
      PROVE  \/ \E k \in DOMAIN inbox[t] : inbox'[t][i] = inbox[t][k]
             \/ /\ inbox'[t][i].kind = "S_LOGIN" /\ inbox'[t][i].id = id
                /\ inbox'[t][i].session = Query(w).session
  <2>1. Query(w) \in LoginQuery
    BY <1>9, QueryType
  <2> QED  BY <1>1, <1>9, <2>1, AnswerType
<1>10. ASSUME NEW w \in DbWorker, Select(w)
       PROVE  \/ \E k \in DOMAIN inbox[t] : inbox'[t][i] = inbox[t][k]
              \/ inbox'[t][i].kind = "S_LOGIN" /\ inbox'[t][i].id = 0
  <2>1. stage[w] # Rest /\ (inbox' = inbox \/ Answer(Query(w), 0))
    BY <1>10 DEF Select, Rest
  <2> QED  BY <1>5, <1>9, <2>1
<1>11. ASSUME NEW w \in DbWorker, Update(w) \/ Insert(w)
       PROVE  \/ \E k \in DOMAIN inbox[t] : inbox'[t][i] = inbox[t][k]
              \/ /\ inbox'[t][i].kind = "S_LOGIN"
                 /\ inbox'[t][i].session = Query(w).session
  <2>1. stage[w] # Rest /\ Answer(Query(w), nextId) /\ nextId \in Nat
    BY <1>11 DEF Update, Insert, Rest, LoginTypes
  <2> QED  BY <1>9, <2>1
<1>12. CASE UNCHANGED vars
  BY <1>5, <1>12 DEF vars
<1>13. \A kind \in {"C_ENTER_GAME", "C_MOVE", "S_LOGIN"} : kind # "C_LOGIN"
  OBVIOUS
<1> QED
  BY <1>2, <1>3, <1>4, <1>5, <1>6, <1>7, <1>8, <1>10, <1>11, <1>12, <1>13
     DEF Next, LogicStep, WorkerStep

\* The queries that were pushed stay, and a task is one that was queued, or a
\* thread pushes it for the client whose job it handles.
LEMMA QueriesChange ==
    ASSUME LoginTypes, RequestsAreFull, TasksAreQueries, [Next]_vars
    PROVE  /\ \A n \in 1 .. Len(queries) : queries'[n] = queries[n]
           /\ \A i \in DOMAIN tasks' :
                 \/ \E k \in DOMAIN tasks : tasks'[i] = tasks[k]
                 \/ \E t \in LogicThread :
                       /\ HandleLogin(t) /\ 1 \in DOMAIN inbox[t]
                       /\ inbox[t][1].kind = "C_LOGIN"
                       /\ queries'[tasks'[i]].session = inbox[t][1].session
                       /\ queries'[tasks'[i]].account = inbox[t][1].account
                       /\ queries'[tasks'[i]].password = inbox[t][1].password
<1>1. ASSUME NEW t \in LogicThread, HandleLogin(t)
      PROVE  /\ \A n \in 1 .. Len(queries) : queries'[n] = queries[n]
             /\ \A i \in DOMAIN tasks' :
                   \/ \E k \in DOMAIN tasks : tasks'[i] = tasks[k]
                   \/ /\ HandleLogin(t) /\ 1 \in DOMAIN inbox[t]
                      /\ inbox[t][1].kind = "C_LOGIN"
                      /\ queries'[tasks'[i]].session = inbox[t][1].session
                      /\ queries'[tasks'[i]].account = inbox[t][1].account
                      /\ queries'[tasks'[i]].password = inbox[t][1].password
  <2> DEFINE job == Head(inbox[t])
             q == [session |-> job.session, gen |-> gen[job.session],
                   for |-> job.for, account |-> job.account, password |-> job.password]
  <2>1. job \in LoginJob /\ job.kind = "C_LOGIN" /\ job = inbox[t][1] /\ 1 \in DOMAIN inbox[t]
    BY <1>1, Handled DEF HandleLogin
  <2>2. job.account \in Account /\ job.password \in Password
    BY <2>1 DEF RequestsAreFull
  <2>3. /\ q \in LoginQuery /\ q.session = job.session /\ q.account = job.account
        /\ q.password = job.password
    BY <2>1, <2>2 DEF LoginJob, LoginQuery, LoginTypes
  <2>4. queries' = Append(queries, q) /\ tasks' = Append(tasks, Len(queries) + 1)
    BY <1>1 DEF HandleLogin, PushQuery
  <2> HIDE DEF job, q
  <2>5. /\ \A n \in 1 .. Len(queries) : queries'[n] = queries[n]
        /\ queries'[Len(queries) + 1] = q /\ Len(queries) + 1 \in Nat
    BY <2>3, <2>4, QueryAdded
  <2>6. \A i \in DOMAIN tasks' : \/ i \in DOMAIN tasks /\ tasks'[i] = tasks[i]
                                 \/ tasks'[i] = Len(queries) + 1
    BY <2>4, <2>5, TaskAdded
  <2> QED  BY <1>1, <2>1, <2>3, <2>5, <2>6
<1>2. ASSUME NEW w \in DbWorker, TakeTask(w)
      PROVE  /\ UNCHANGED queries
             /\ \A i \in DOMAIN tasks' : \E k \in DOMAIN tasks : tasks'[i] = tasks[k]
  <2>1. tasks # << >> /\ tasks' = Tail(tasks) /\ queries' = queries
    BY <1>2 DEF TakeTask, Take
  <2>2. \A i \in DOMAIN tasks' : i + 1 \in DOMAIN tasks /\ tasks'[i] = tasks[i + 1]
    BY <2>1, TaskTaken
  <2> QED  BY <2>1, <2>2
<1>3. ASSUME NEW t \in LogicThread,
             Notify(t) \/ HandleAnswer(t) \/ LetIn(t) \/ HandleEnter(t) \/ HandleMove(t)
      PROVE  UNCHANGED <<queries, tasks>>
  BY <1>3 DEF Notify, NotifyOne, HandleAnswer, LetIn, HandleEnter, HandleMove, dbVars, sql
<1>4. ASSUME NEW r \in Session,
             \/ Accept(r) \/ Disconnect(r) \/ ClientLogin(r) \/ ClientReads(r)
             \/ ClientMovesEarly(r) \/ ClientEnter(r)
      PROVE  UNCHANGED <<queries, tasks>>
  BY <1>4 DEF Accept, Disconnect, ClientLogin, ClientReads, ClientMovesEarly, ClientEnter,
              dbVars, sql
<1>5. ASSUME NEW w \in DbWorker,
             \/ WorkerAlone(w) \/ WakesForNothing(w) \/ ConnectionInvalid(w)
             \/ CompareGeneration(w) \/ Select(w) \/ Update(w) \/ Insert(w)
             \/ StatementFails(w)
      PROVE  UNCHANGED <<queries, tasks>>
  BY <1>5 DEF WakesForNothing, WorkerAlone, ConnectionInvalid, CompareGeneration, Select,
              Update, Insert, StatementFails, Connect, ConnectFails, Sleep, WakeUp, Finish,
              EndByException, dbVars, sql
<1>6. CASE UNCHANGED vars
  BY <1>6 DEF vars, dbVars, sql
<1> QED  BY <1>1, <1>2, <1>3, <1>4, <1>5, <1>6 DEF Next, LogicStep, WorkerStep

\* A worker has the task it had, and does not compare again, or it takes the
\* first.
LEMMA WorkersChange ==
    ASSUME LoginTypes, TasksAreQueries, [Next]_vars, NEW w \in DbWorker, stage'[w] # Rest
    PROVE  \/ /\ stage[w] # Rest /\ running'[w] = running[w]
              /\ stage'[w] = "compare" => stage[w] = "compare"
              /\ stage'[w] # "compare" /\ stage[w] = "compare"
                    => gen[queries[running[w]].session] = queries[running[w]].gen
              /\ \/ stage'[w] = "update" => stage[w] = "update"
                 \/ Select(w)
           \/ /\ stage'[w] = "compare" /\ 1 \in DOMAIN tasks /\ running'[w] = tasks[1]
<1> DEFINE Keeps == /\ stage[w] # Rest /\ running'[w] = running[w]
                    /\ stage'[w] = "compare" => stage[w] = "compare"
                    /\ stage'[w] # "compare" /\ stage[w] = "compare"
                          => gen[queries[running[w]].session] = queries[running[w]].gen
                    /\ \/ stage'[w] = "update" => stage[w] = "update"
                       \/ Select(w)
           Takes == stage'[w] = "compare" /\ 1 \in DOMAIN tasks /\ running'[w] = tasks[1]
<1>1. ASSUME stage'[w] = stage[w], running'[w] = running[w]
      PROVE  Keeps
  BY <1>1
<1>2. ASSUME NEW v \in DbWorker, NEW where, ToStage(v, where),
             \/ UNCHANGED running
             \/ \E task : running' = [running EXCEPT ![v] = task]
      PROVE  v # w => Keeps
  BY <1>2, <1>1 DEF ToStage, LoginTypes, TasksAreQueries
<1>3. ASSUME NEW v \in DbWorker, ToStage(v, Rest)
      PROVE  v # w
  BY <1>3 DEF ToStage, LoginTypes
<1>4. ASSUME NEW v \in DbWorker, ToStage(v, Rest), Finish(v) \/ EndByException(v)
      PROVE  Keeps
  BY <1>2, <1>3, <1>4 DEF Finish, EndByException
<1>5. ASSUME NEW v \in DbWorker, TakeTask(v)
      PROVE  Keeps \/ Takes
  <2>1. /\ ToStage(v, "compare") /\ running' = [running EXCEPT ![v] = Head(tasks)]
        /\ tasks # << >> /\ tasks' = Tail(tasks)
    BY <1>5 DEF TakeTask, Take
  <2>2. 1 \in DOMAIN tasks /\ Head(tasks) = tasks[1]
    BY <2>1, TaskTaken
  <2>3. CASE v = w
    BY <2>1, <2>2, <2>3 DEF ToStage, LoginTypes, TasksAreQueries
  <2> QED  BY <1>2, <2>1, <2>3
<1>6. ASSUME NEW v \in DbWorker, CompareGeneration(v)
      PROVE  Keeps
  <2>1. CASE ToStage(v, Rest) /\ Finish(v)
    BY <1>4, <2>1
  <2>2. CASE /\ ToStage(v, "select") /\ UNCHANGED dbVars /\ v = w
             /\ gen[Query(v).session] = Query(v).gen
    <3>1. stage[w] = "compare" /\ stage'[w] = "select" /\ running'[w] = running[w]
      BY <1>6, <2>2 DEF CompareGeneration, ToStage, dbVars, LoginTypes
    <3> QED  BY <2>2, <3>1 DEF Query, Rest
  <2>3. CASE ToStage(v, "select") /\ UNCHANGED dbVars /\ v # w
    BY <1>2, <2>3 DEF dbVars
  <2> QED  BY <1>6, <2>1, <2>2, <2>3 DEF CompareGeneration
<1>7. ASSUME NEW v \in DbWorker, Select(v)
      PROVE  Keeps
  <2>1. CASE ToStage(v, Rest) /\ Finish(v)
    BY <1>4, <2>1
  <2>2. ASSUME NEW where \in {"insert", "update"}, ToStage(v, where), UNCHANGED dbVars
        PROVE  Keeps
    <3>1. CASE v = w
      <4>1. stage[w] = "select" /\ stage'[w] = where /\ running'[w] = running[w]
        BY <1>7, <2>2, <3>1 DEF Select, ToStage, dbVars, LoginTypes
      <4> QED  BY <1>7, <3>1, <4>1 DEF Rest
    <3> QED  BY <1>2, <2>2, <3>1 DEF dbVars
  <2> QED  BY <1>7, <2>1, <2>2 DEF Select
<1>8. ASSUME NEW v \in DbWorker,
             ConnectionInvalid(v) \/ Update(v) \/ Insert(v) \/ StatementFails(v)
      PROVE  Keeps
  BY <1>4, <1>8 DEF ConnectionInvalid, Update, Insert, StatementFails, Loses
<1>9. ASSUME UNCHANGED <<stage, running>>
      PROVE  Keeps
  BY <1>1, <1>9
<1> HIDE DEF Keeps, Takes
<1>10. ASSUME NEW v \in DbWorker, WorkerAlone(v) \/ WakesForNothing(v)
       PROVE  Keeps
  BY <1>9, <1>10 DEF WorkerAlone, WakesForNothing, Connect, ConnectFails, Sleep, WakeUp, sql
<1>11. ASSUME NEW t \in LogicThread, LogicStep(t)
       PROVE  Keeps
  BY <1>9, <1>11 DEF LogicStep, HandleLogin, PushQuery, Notify, NotifyOne, HandleAnswer,
                     LetIn, HandleEnter, HandleMove, dbVars, sql
<1>12. ASSUME NEW r \in Session,
              \/ Accept(r) \/ Disconnect(r) \/ ClientLogin(r) \/ ClientReads(r)
              \/ ClientMovesEarly(r) \/ ClientEnter(r)
       PROVE  Keeps
  BY <1>9, <1>12 DEF Accept, Disconnect, ClientLogin, ClientReads, ClientMovesEarly,
                     ClientEnter, dbVars, sql
<1>13. ASSUME UNCHANGED vars
       PROVE  Keeps
  BY <1>9, <1>13 DEF vars, dbVars, sql
<1>14. ASSUME NEW v \in DbWorker, WorkerStep(v)
       PROVE  Keeps \/ Takes
  BY <1>5, <1>6, <1>7, <1>8, <1>10, <1>14 DEF WorkerStep
<1>15. Keeps \/ Takes
  BY <1>10, <1>11, <1>12, <1>13, <1>14 DEF Next
<1> QED  BY <1>15 DEF Keeps, Takes

\* Which sessions are accepted without traces of another client: those that
\* were, and those that are accepted now.
LEMMA SessionsChange ==
    ASSUME LoginTypes, FoundAndNew, [Next]_vars, NEW s \in online' \cap clean'
    PROVE  /\ s \in Session /\ gen'[s] = gen[s]
           /\ \/ s \in online \cap clean /\ asked'[s] = asked[s]
              \/ Accept(s) /\ ~Traces(s)
              \/ s \in online \cap clean /\ ClientLogin(s) /\ asked[s] = Nobody
<1> DEFINE Goal == /\ s \in Session /\ gen'[s] = gen[s]
                   /\ \/ s \in online \cap clean /\ asked'[s] = asked[s]
                      \/ Accept(s) /\ ~Traces(s)
                      \/ s \in online \cap clean /\ ClientLogin(s) /\ asked[s] = Nobody
<1>1. ASSUME UNCHANGED <<gen, online, clean, asked>>
      PROVE  Goal
  BY <1>1 DEF LoginTypes
<1>2. ASSUME NEW r \in Session, Accept(r)
      PROVE  Goal
  <2>1. /\ online' = online \cup {r} /\ UNCHANGED <<gen, asked>>
        /\ clean' = IF Traces(r) THEN clean \ {r} ELSE clean \cup {r}
    BY <1>2 DEF Accept
  <2>2. CASE s = r
    BY <1>2, <2>1, <2>2
  <2>3. CASE s # r
    BY <2>1, <2>3 DEF LoginTypes
  <2> QED  BY <2>2, <2>3
<1>3. ASSUME NEW r \in Session, Disconnect(r)
      PROVE  Goal
  <2>1. /\ online' = online \ {r} /\ gen' = [gen EXCEPT ![r] = gen[r] + 1]
        /\ asked' = [asked EXCEPT ![r] = Nobody] /\ UNCHANGED clean
    BY <1>3 DEF Disconnect
  <2> QED  BY <2>1 DEF LoginTypes
<1>4. ASSUME NEW r \in Session, ClientLogin(r)
      PROVE  Goal
  <2>1. UNCHANGED <<gen, online, clean>> /\ client[r] = "new"
    BY <1>4 DEF ClientLogin, conn
  <2>2. PICK a \in Account, p \in Password : asked' = [asked EXCEPT ![r] = <<a, p>>]
    BY <1>4 DEF ClientLogin
  <2>3. asked[r] = Nobody
    BY <2>1 DEF FoundAndNew
  <2>4. r # s => asked'[s] = asked[s]
    <3>1. asked \in [Session -> (Account \X Password) \cup {Nobody}] /\ s \in Session
      BY <2>1 DEF LoginTypes
    <3> QED  BY <2>2, <3>1
  <2> QED  BY <1>4, <2>1, <2>3, <2>4 DEF LoginTypes
<1> HIDE DEF Goal
<1>5. ASSUME NEW r \in Session, ClientReads(r) \/ ClientMovesEarly(r) \/ ClientEnter(r)
      PROVE  Goal
  BY <1>1, <1>5 DEF ClientReads, ClientMovesEarly, ClientEnter, conn
<1>6. ASSUME NEW t \in LogicThread, LogicStep(t)
      PROVE  Goal
  BY <1>1, <1>6 DEF LogicStep, HandleLogin, Notify, HandleAnswer, LetIn, HandleEnter,
                    HandleMove, conn, clients
<1>7. ASSUME NEW w \in DbWorker, WorkerStep(w) \/ WakesForNothing(w)
      PROVE  Goal
  BY <1>1, <1>7
     DEF WorkerStep, WakesForNothing, WorkerAlone, TakeTask, ConnectionInvalid,
         CompareGeneration, Select, Update, Insert, StatementFails, conn, clients
<1>8. ASSUME UNCHANGED vars
      PROVE  Goal
  BY <1>1, <1>8 DEF vars, conn, clients
<1>9. Goal
  BY <1>2, <1>3, <1>4, <1>5, <1>6, <1>7, <1>8 DEF Next
<1> QED  BY <1>9 DEF Goal

\* Who may enter keeps the right to: the table does not forget a password.
LEMMA EntitledStays ==
    ASSUME LoginTypes, [Next]_vars, NEW s \in Session, asked'[s] = asked[s], Entitled(s)
    PROVE  Entitled(s)'
<1>1. PICK a \in Account, p \in Password : asked[s] = <<a, p>>
  <2>1. asked \in [Session -> (Account \X Password) \cup {Nobody}]
    BY DEF LoginTypes
  <2>2. asked[s] \in Account \X Password
    BY <2>1 DEF Entitled
  <2> QED  BY <2>2
<1>2. accounts[a] = p /\ p # Nobody
  BY <1>1, LoginAssumption DEF Entitled
<1>3. accounts'[a] = p
  BY <1>2, AccountsChange
<1> QED  BY <1>1, <1>3 DEF Entitled

\* Who is given an id may enter, if the query is its own.
LEMMA NumberedIsEntitled ==
    ASSUME LoginTypes, TasksAreQueries, FoundAndNew,
           NEW w \in DbWorker, Update(w) \/ Insert(w),
           NEW s \in Session, asked'[s] = asked[s], Asks(s, Query(w))
    PROVE  Entitled(s)'
<1> DEFINE q == queries[running[w]]
<1>1. stage[w] # Rest
  BY DEF Update, Insert, Rest
<1>2. q \in LoginQuery /\ Query(w) = q
  BY <1>1, QueryType
<1> HIDE DEF q
<1>3. q.account \in Account /\ q.password \in Password
  BY <1>2 DEF LoginQuery
<1>4. accounts'[q.account] = q.password
  <2>1. CASE Update(w)
    BY <2>1 DEF Update, FoundAndNew, q
  <2>2. CASE Insert(w)
    BY <1>2, <1>3, <2>2 DEF Insert, LoginTypes
  <2> QED  BY <2>1, <2>2
<1>5. asked'[s] = <<q.account, q.password>>
  BY <1>2 DEF Asks
<1>6. asked'[s] # Nobody
  BY <1>3, <1>5, LoginAssumption
<1> QED  BY <1>4, <1>5, <1>6 DEF Entitled

-----------------------------------------------------------------------------
(* What can act on a session stays of its own client. *)

\* A session whose client is connected and has nothing new to ask.
LEMMA OwnStays ==
    ASSUME LoginIInv, [Next]_vars, NEW s \in online \cap clean,
           s \in Session, asked'[s] = asked[s], gen'[s] = gen[s]
    PROVE  OwnState(s)' /\ OwnJobs(s)' /\ OwnTasks(s)' /\ OwnWorkers(s)'
<1>1. /\ LoginTypes /\ RequestsAreFull /\ TasksAreQueries /\ FoundAndNew
      /\ OwnState(s) /\ OwnJobs(s) /\ OwnTasks(s) /\ OwnWorkers(s)
  BY DEF LoginIInv, ActsAreOwn
<1>2. Entitled(s) => Entitled(s)'
  BY <1>1, EntitledStays
<1>3. OwnState(s)'
  <2> SUFFICES ASSUME state'[s] \in {"LOBBY", "GAME"}
               PROVE  Entitled(s)'
    BY DEF OwnState
  <2>1. \/ state[s] \in {"LOBBY", "GAME"}
        \/ \E t \in LogicThread : letting[t] # << >> /\ letting[t].session = s
    BY <1>1, StatesChange
  <2> QED  BY <1>1, <1>2, <2>1 DEF OwnState, OwnJobs
<1>4. OwnJobs(s)'
  <2>1. ASSUME NEW t \in LogicThread, letting'[t] # << >>, letting'[t].session = s
        PROVE  Entitled(s)'
    <3>1. \/ letting'[t] = letting[t]
          \/ /\ 1 \in DOMAIN inbox[t] /\ letting'[t] = inbox[t][1]
             /\ inbox[t][1].kind = "S_LOGIN" /\ inbox[t][1].id # 0
      BY <1>1, <2>1, LettingChanges
    <3>2. CASE letting'[t] = letting[t]
      BY <1>1, <1>2, <2>1, <3>2 DEF OwnJobs
    <3>3. CASE /\ 1 \in DOMAIN inbox[t] /\ letting'[t] = inbox[t][1]
               /\ inbox[t][1].kind = "S_LOGIN" /\ inbox[t][1].id # 0
      BY <1>1, <1>2, <2>1, <3>3 DEF OwnJobs
    <3> QED  BY <3>1, <3>2, <3>3
  <2>2. ASSUME NEW t \in LogicThread, NEW i \in DOMAIN inbox'[t],
               inbox'[t][i].session = s
        PROVE  /\ inbox'[t][i].kind = "C_LOGIN" =>
                     asked'[s] = <<inbox'[t][i].account, inbox'[t][i].password>>
               /\ inbox'[t][i].kind = "S_LOGIN" /\ inbox'[t][i].id # 0 => Entitled(s)'
    <3>1. CASE \E k \in DOMAIN inbox[t] : inbox'[t][i] = inbox[t][k]
      <4>1. PICK k \in DOMAIN inbox[t] : inbox'[t][i] = inbox[t][k]
        BY <3>1
      <4>2. /\ inbox[t][k].kind = "C_LOGIN" => Asks(s, inbox[t][k])
            /\ inbox[t][k].kind = "S_LOGIN" /\ inbox[t][k].id # 0 => Entitled(s)
        BY <1>1, <2>2, <4>1 DEF OwnJobs
      <4> QED  BY <1>2, <4>1, <4>2 DEF Asks
    <3>2. ASSUME NEW r \in Session, NEW a \in Account, NEW p \in Password,
                 ClientLogin(r), asked' = [asked EXCEPT ![r] = <<a, p>>],
                 inbox'[t][i] = LoginRequest(r, a, p)
          PROVE  FALSE
      <4>1. r = s
        BY <1>1, <2>2, <3>2, LoginRequestType
      <4>2. asked[s] = Nobody
        BY <1>1, <3>2, <4>1 DEF ClientLogin, FoundAndNew
      <4>3. asked'[s] = <<a, p>>
        BY <1>1, <3>2, <4>1 DEF LoginTypes
      <4> QED  BY <4>2, <4>3, LoginAssumption
    <3>3. ASSUME NEW w \in DbWorker, Update(w) \/ Insert(w),
                 inbox'[t][i].kind = "S_LOGIN", inbox'[t][i].session = Query(w).session
          PROVE  Entitled(s)'
      <4>1. stage[w] \notin {Rest, "compare"} /\ Query(w) = queries[running[w]]
        BY <3>3 DEF Update, Insert, Rest, Query
      <4>2. Asks(s, Query(w))
        BY <1>1, <2>2, <3>3, <4>1 DEF OwnWorkers
      <4> QED  BY <1>1, <3>3, <4>2, NumberedIsEntitled
    <3>4. "S_LOGIN" # "C_LOGIN"
      OBVIOUS
    <3> QED  BY <1>1, <3>1, <3>2, <3>3, <3>4, JobsChange
  <2>3. ASSUME NEW t \in LogicThread, NEW i \in DOMAIN inbox'[t],
               inbox'[t][i].session = s
        PROVE  (/\ inbox[t][i].kind = "C_LOGIN" => Asks(s, inbox[t][i])
                /\ inbox[t][i].kind = "S_LOGIN" /\ inbox[t][i].id # 0 => Entitled(s))'
    BY <2>2, <2>3 DEF Asks
  <2> QED  BY <2>1, <2>3 DEF OwnJobs
<1>5. OwnTasks(s)'
  <2> SUFFICES ASSUME NEW i \in DOMAIN tasks',
                      queries'[tasks'[i]].session = s, queries'[tasks'[i]].gen = gen[s]
               PROVE  Asks(s, queries[tasks[i]])'
    BY DEF OwnTasks
  <2>1. CASE \E k \in DOMAIN tasks : tasks'[i] = tasks[k]
    <3>1. PICK k \in DOMAIN tasks : tasks'[i] = tasks[k]
      BY <2>1
    <3>2. queries'[tasks'[i]] = queries[tasks[k]]
      BY <1>1, <3>1, QueriesChange DEF TasksAreQueries
    <3>3. Asks(s, queries[tasks[k]])
      BY <1>1, <3>2 DEF OwnTasks
    <3> QED  BY <3>2, <3>3 DEF Asks
  <2>2. ASSUME NEW t \in LogicThread, 1 \in DOMAIN inbox[t], inbox[t][1].kind = "C_LOGIN",
               queries'[tasks'[i]].session = inbox[t][1].session,
               queries'[tasks'[i]].account = inbox[t][1].account,
               queries'[tasks'[i]].password = inbox[t][1].password
        PROVE  Asks(s, queries[tasks[i]])'
    <3>1. Asks(s, inbox[t][1])
      BY <1>1, <2>2 DEF OwnJobs
    <3> QED  BY <2>2, <3>1 DEF Asks
  <2> QED  BY <1>1, <2>1, <2>2, QueriesChange
<1>6. OwnWorkers(s)'
  <2> SUFFICES ASSUME NEW w \in DbWorker, stage'[w] # Rest,
                      queries'[running'[w]].session = s,
                      stage'[w] = "compare" => queries'[running'[w]].gen = gen[s]
               PROVE  Asks(s, queries[running[w]])'
    BY DEF OwnWorkers
  <2>1. CASE /\ stage[w] # Rest /\ running'[w] = running[w]
             /\ stage'[w] = "compare" => stage[w] = "compare"
             /\ stage'[w] # "compare" /\ stage[w] = "compare"
                   => gen[queries[running[w]].session] = queries[running[w]].gen
    <3>1. queries'[running'[w]] = queries[running[w]]
      BY <1>1, <2>1, QueriesChange DEF TasksAreQueries
    <3>2. Asks(s, queries[running[w]])
      BY <1>1, <2>1, <3>1 DEF OwnWorkers
    <3> QED  BY <3>1, <3>2 DEF Asks
  <2>2. CASE stage'[w] = "compare" /\ 1 \in DOMAIN tasks /\ running'[w] = tasks[1]
    <3>1. queries'[running'[w]] = queries[tasks[1]]
      BY <1>1, <2>2, QueriesChange DEF TasksAreQueries
    <3>2. Asks(s, queries[tasks[1]])
      BY <1>1, <2>2, <3>1 DEF OwnTasks
    <3> QED  BY <3>1, <3>2 DEF Asks
  <2> QED  BY <1>1, <2>1, <2>2, WorkersChange
<1> QED  BY <1>3, <1>4, <1>5, <1>6

\* A session that is accepted with nothing of another client left.
LEMMA OwnAccepted ==
    ASSUME LoginIInv, NEW s \in Session, Accept(s), ~Traces(s)
    PROVE  OwnState(s)' /\ OwnJobs(s)' /\ OwnTasks(s)' /\ OwnWorkers(s)'
<1>1. /\ UNCHANGED <<inbox, letting, tasks, running, queries, stage, gen>>
      /\ state' = [state EXCEPT ![s] = "CONNECTED"]
  BY DEF Accept, dbVars, sql
<1>2. OwnState(s)'
  BY <1>1 DEF OwnState, LoginIInv, LoginTypes
<1> QED  BY <1>1, <1>2 DEF Traces, OwnJobs, OwnTasks, OwnWorkers

\* A client that asks: nothing could act on its session before.
LEMMA OwnAsked ==
    ASSUME LoginIInv, [Next]_vars, NEW s \in online \cap clean,
           s \in Session, ClientLogin(s), asked[s] = Nobody
    PROVE  OwnState(s)' /\ OwnJobs(s)' /\ OwnTasks(s)' /\ OwnWorkers(s)'
<1>1. /\ LoginTypes /\ RequestsAreFull /\ TasksAreQueries /\ FoundAndNew
      /\ OwnState(s) /\ OwnJobs(s) /\ OwnTasks(s) /\ OwnWorkers(s)
  BY DEF LoginIInv, ActsAreOwn
<1>2. /\ UNCHANGED <<tasks, running, letting, queries, stage, nextId, state, gen>>
  BY DEF ClientLogin, dbVars, sql, session, conn
<1>3. ~Entitled(s)
  BY DEF Entitled
<1>4. \A x : x.account \in Account /\ x.password \in Password => ~Asks(s, x)
  BY LoginAssumption DEF Asks
<1>5. \A n \in 1 .. Len(queries) :
         queries[n].account \in Account /\ queries[n].password \in Password
  <2>1. queries \in Seq(LoginQuery)
    BY <1>1 DEF LoginTypes
  <2>2. \A n \in 1 .. Len(queries) : queries[n] \in LoginQuery
    BY <2>1
  <2> QED  BY <2>2 DEF LoginQuery
<1>6. OwnState(s)'
  BY <1>1, <1>2, <1>3 DEF OwnState
<1>7. OwnTasks(s)'
  BY <1>1, <1>2, <1>4, <1>5 DEF OwnTasks, TasksAreQueries
<1>8. OwnWorkers(s)'
  BY <1>1, <1>2, <1>4, <1>5 DEF OwnWorkers, TasksAreQueries
<1>9. OwnJobs(s)'
  <2>1. ASSUME NEW t \in LogicThread, letting'[t] # << >>
        PROVE  letting'[t].session # s
    BY <1>1, <1>2, <1>3, <2>1 DEF OwnJobs
  <2>2. ASSUME NEW t \in LogicThread, NEW i \in DOMAIN inbox'[t],
               inbox'[t][i].session = s
        PROVE  (/\ inbox[t][i].kind = "C_LOGIN" => Asks(s, inbox[t][i])
                /\ inbox[t][i].kind = "S_LOGIN" /\ inbox[t][i].id # 0 => Entitled(s))'
    <3>1. CASE \E k \in DOMAIN inbox[t] : inbox'[t][i] = inbox[t][k]
      <4>1. PICK k \in DOMAIN inbox[t] : inbox'[t][i] = inbox[t][k]
        BY <3>1
      <4>2. inbox[t][k].kind # "C_LOGIN"
        BY <1>1, <1>4, <2>2, <4>1 DEF OwnJobs, RequestsAreFull
      <4>3. ~(inbox[t][k].kind = "S_LOGIN" /\ inbox[t][k].id # 0)
        BY <1>1, <1>3, <2>2, <4>1 DEF OwnJobs
      <4> QED  BY <4>1, <4>2, <4>3
    <3>2. ASSUME NEW r \in Session, NEW a \in Account, NEW p \in Password,
                 ClientLogin(r), asked' = [asked EXCEPT ![r] = <<a, p>>],
                 inbox'[t][i] = LoginRequest(r, a, p)
          PROVE  /\ asked'[s] = <<inbox'[t][i].account, inbox'[t][i].password>>
                 /\ inbox'[t][i].kind = "C_LOGIN"
      <4>1. /\ inbox'[t][i].session = r /\ inbox'[t][i].account = a
            /\ inbox'[t][i].password = p /\ inbox'[t][i].kind = "C_LOGIN"
        BY <1>1, <3>2, LoginRequestType
      <4>2. asked'[r] = <<a, p>>
        BY <1>1, <3>2 DEF LoginTypes
      <4> QED  BY <2>2, <4>1, <4>2
    <3>3. ASSUME NEW w \in DbWorker, Update(w) \/ Insert(w)
          PROVE  FALSE
      <4>1. nextId \in Nat
        BY <1>1 DEF LoginTypes
      <4> QED  BY <1>2, <3>3, <4>1 DEF Update, Insert
    <3>4. "S_LOGIN" # "C_LOGIN"
      OBVIOUS
    <3> QED  BY <1>1, <3>1, <3>2, <3>3, <3>4, JobsChange DEF Asks
  <2> QED  BY <2>1, <2>2 DEF OwnJobs
<1> QED  BY <1>6, <1>7, <1>8, <1>9

LEMMA OwnStep == LoginIInv /\ [Next]_vars => ActsAreOwn'
<1> SUFFICES ASSUME LoginIInv, [Next]_vars, NEW s \in online' \cap clean'
             PROVE  OwnState(s)' /\ OwnJobs(s)' /\ OwnTasks(s)' /\ OwnWorkers(s)'
  BY DEF ActsAreOwn
<1>1. /\ s \in Session /\ gen'[s] = gen[s]
      /\ \/ s \in online \cap clean /\ asked'[s] = asked[s]
         \/ Accept(s) /\ ~Traces(s)
         \/ s \in online \cap clean /\ ClientLogin(s) /\ asked[s] = Nobody
  BY SessionsChange DEF LoginIInv
<1> QED  BY <1>1, OwnStays, OwnAccepted, OwnAsked

\* A worker that goes on to update has compared the password, and a client that
\* asks is no longer new.
LEMMA FoundStep ==
    ASSUME LoginTypes, RequestsAreFull, TasksAreQueries, FoundAndNew, [Next]_vars
    PROVE  FoundAndNew'
<1>1. ASSUME NEW w \in DbWorker, stage'[w] = "update"
      PROVE  accounts'[queries'[running'[w]].account] = queries'[running'[w]].password
  <2> DEFINE q == queries[running[w]]
  <2>1. /\ stage[w] # Rest /\ running'[w] = running[w]
        /\ stage[w] = "update" \/ Select(w)
    BY <1>1, WorkersChange DEF Rest
  <2>2. queries'[running'[w]] = q
    BY <2>1, QueriesChange DEF TasksAreQueries
  <2>3. q \in LoginQuery /\ Query(w) = q
    BY <2>1, QueryType
  <2> HIDE DEF q
  <2>4. q.account \in Account /\ q.password \in Password /\ q.password # Nobody
    BY <2>3, LoginAssumption DEF LoginQuery
  <2>5. accounts[q.account] = q.password
    <3>1. CASE stage[w] = "update"
      BY <3>1 DEF FoundAndNew, q
    <3>2. CASE Select(w)
      <4>1. \/ accounts[q.account] \in {Nobody, q.password} /\ accounts[q.account] # Nobody
            \/ stage' = [stage EXCEPT ![w] = "insert"]
            \/ stage' = [stage EXCEPT ![w] = Rest]
        BY <2>3, <3>2 DEF Select, ToStage
      <4>2. \A where : stage' = [stage EXCEPT ![w] = where] => stage'[w] = where
        BY DEF LoginTypes
      <4> QED  BY <1>1, <4>1, <4>2 DEF Rest
    <3> QED  BY <2>1, <3>1, <3>2
  <2> QED  BY <2>2, <2>4, <2>5, AccountsChange
<1>2. (\A s \in Session : client'[s] \in {"gone", "new"} => asked'[s] = Nobody)
      /\ (\A s \in Session \ online' : client'[s] = "gone")
  <2> DEFINE Goal == /\ \A s \in Session : client'[s] \in {"gone", "new"} => asked'[s] = Nobody
                     /\ \A s \in Session \ online' : client'[s] = "gone"
  <2>1. ASSUME UNCHANGED <<client, asked, online>>
        PROVE  Goal
    BY <2>1 DEF FoundAndNew
  <2>2. ASSUME NEW r \in Session, Accept(r)
        PROVE  Goal
    <3>1. /\ online' = online \cup {r} /\ UNCHANGED asked /\ r \notin online
          /\ client' = [client EXCEPT ![r] = "new"]
      BY <2>2 DEF Accept
    <3> QED  BY <3>1 DEF FoundAndNew, LoginTypes
  <2>3. ASSUME NEW r \in Session, Disconnect(r)
        PROVE  Goal
    <3>1. /\ online' = online \ {r} /\ asked' = [asked EXCEPT ![r] = Nobody]
          /\ client' = [client EXCEPT ![r] = "gone"]
      BY <2>3 DEF Disconnect
    <3> QED  BY <3>1 DEF FoundAndNew, LoginTypes
  <2>4. ASSUME NEW r \in Session, client[r] \notin {"gone", "new"} \/ ClientLogin(r),
               NEW how \in {"asked", "refused", "knows its id", "moved", "entered"},
               client' = [client EXCEPT ![r] = how], UNCHANGED online,
               \A s \in Session \ {r} : asked'[s] = asked[s]
        PROVE  Goal
    <3>1. client[r] # "gone" /\ how \notin {"gone", "new"}
      BY <2>4 DEF ClientLogin
    <3>2. client'[r] = how /\ \A s \in Session \ {r} : client'[s] = client[s]
      BY <2>4 DEF LoginTypes
    <3> QED  BY <2>4, <3>1, <3>2 DEF FoundAndNew
  <2>5. ASSUME NEW r \in Session, ClientLogin(r)
        PROVE  Goal
    <3>1. PICK a \in Account, p \in Password : asked' = [asked EXCEPT ![r] = <<a, p>>]
      BY <2>5 DEF ClientLogin
    <3>2. \A s \in Session \ {r} : asked'[s] = asked[s]
      <4>1. asked \in [Session -> (Account \X Password) \cup {Nobody}]
        BY DEF LoginTypes
      <4> QED  BY <3>1, <4>1
    <3>3. client' = [client EXCEPT ![r] = "asked"] /\ UNCHANGED online
      BY <2>5 DEF ClientLogin, conn
    <3> QED  BY <2>4, <2>5, <3>2, <3>3
  <2>6. ASSUME NEW r \in Session, ClientReads(r) \/ ClientMovesEarly(r) \/ ClientEnter(r)
        PROVE  Goal
    <3>1. /\ client[r] \in {"asked", "refused", "entered", "knows its id", "moved"}
          /\ UNCHANGED <<asked, online>>
          /\ \E how \in {"asked", "refused", "knows its id", "moved", "entered"} :
                client' = [client EXCEPT ![r] = how]
      BY <2>6 DEF ClientReads, ClientMovesEarly, ClientEnter, conn
    <3>2. client[r] \notin {"gone", "new"}
      BY <3>1
    <3> QED  BY <2>4, <3>1, <3>2
  <2> HIDE DEF Goal
  <2>7. ASSUME NEW t \in LogicThread, LogicStep(t)
        PROVE  Goal
    BY <2>1, <2>7 DEF LogicStep, HandleLogin, Notify, HandleAnswer, LetIn, HandleEnter,
                      HandleMove, conn, clients
  <2>8. ASSUME NEW w \in DbWorker, WorkerStep(w) \/ WakesForNothing(w)
        PROVE  Goal
    BY <2>1, <2>8
       DEF WorkerStep, WakesForNothing, WorkerAlone, TakeTask, ConnectionInvalid,
           CompareGeneration, Select, Update, Insert, StatementFails, conn, clients
  <2>9. ASSUME UNCHANGED vars
        PROVE  Goal
    BY <2>1, <2>9 DEF vars, conn, clients
  <2>10. Goal
    BY <2>2, <2>3, <2>5, <2>6, <2>7, <2>8, <2>9 DEF Next
  <2> QED  BY <2>10 DEF Goal
<1> QED  BY <1>1, <1>2 DEF FoundAndNew

-----------------------------------------------------------------------------
LEMMA LoginInvariance == Spec => []LoginIInv
<1>1. Init => LoginIInv
  <2> SUFFICES ASSUME Init
               PROVE  LoginIInv
    OBVIOUS
  <2> USE DEF Init, DbInit
  <2>1. LoginTypes
    BY LoginAssumption DEF LoginTypes, Rest
  <2>2. RequestsAreFull /\ TasksAreQueries
    BY DEF RequestsAreFull, TasksAreQueries, NoTask
  <2>3. IdsAreUsedOnce
    BY DEF IdsAreUsedOnce
  <2>4. ActsAreOwn /\ FoundAndNew
    BY DEF ActsAreOwn, FoundAndNew, Rest
  <2> QED  BY <2>1, <2>2, <2>3, <2>4 DEF LoginIInv
<1>2. LoginIInv /\ [Next]_vars => LoginIInv'
  <2> SUFFICES ASSUME LoginIInv, [Next]_vars
               PROVE  LoginIInv'
    OBVIOUS
  <2>1. LoginTypes' /\ RequestsAreFull' /\ TasksAreQueries'
    BY TypesStep DEF LoginIInv
  <2>2. IdsAreUsedOnce'
    BY IdsStep DEF LoginIInv
  <2>3. ActsAreOwn'
    BY OwnStep
  <2>4. FoundAndNew'
    BY FoundStep DEF LoginIInv
  <2> QED  BY <2>1, <2>2, <2>3, <2>4 DEF LoginIInv
<1> QED  BY <1>1, <1>2, PTL DEF Spec

\* However many workers assign ids at once, and whatever sessions outlive their
\* clients, no two sessions have the same id (PacketHandler.cpp:52).
THEOREM IdsOfSessionsDiffer == Spec => []IdsDiffer
<1>1. LoginIInv => IdsDiffer
  BY DEF LoginIInv, IdsAreUsedOnce, IdsDiffer
<1> QED  BY <1>1, LoginInvariance, PTL

\* No late answer to another client lets a client in
\* (PacketHandler.cpp:34), however many share the session one after another.
THEOREM NobodyElseEnters == Spec => []OnlyTheRightfulEnter
<1>1. LoginIInv => OnlyTheRightfulEnter
  BY DEF LoginIInv, ActsAreOwn, OwnState, Entitled, OnlyTheRightfulEnter
<1> QED  BY <1>1, LoginInvariance, PTL

-----------------------------------------------------------------------------
\* Under a login the workers do what they do alone, on tasks that are queries.
LEMMA WorkersRun == LoginTypes /\ [Next]_vars => [DbStep]_dbVars
<1> SUFFICES ASSUME LoginTypes, [Next]_vars
             PROVE  DbStep \/ UNCHANGED dbVars
  OBVIOUS
<1>1. ASSUME NEW t \in LogicThread, HandleLogin(t)
      PROVE  DbStep
  <2>1. Len(queries) + 1 \in Nat
    <3>1. queries \in Seq(LoginQuery)
      BY DEF LoginTypes
    <3> QED  BY <3>1
  <2> QED  BY <1>1, <2>1 DEF HandleLogin, DbStep
<1>2. ASSUME NEW t \in LogicThread, Notify(t)
      PROVE  DbStep
  BY <1>2 DEF Notify, DbStep
<1>3. ASSUME NEW t \in LogicThread,
             HandleAnswer(t) \/ LetIn(t) \/ HandleEnter(t) \/ HandleMove(t)
      PROVE  UNCHANGED dbVars
  BY <1>3 DEF HandleAnswer, LetIn, HandleEnter, HandleMove
<1>4. ASSUME NEW s \in Session,
             \/ Accept(s) \/ Disconnect(s) \/ ClientLogin(s) \/ ClientReads(s)
             \/ ClientMovesEarly(s) \/ ClientEnter(s)
      PROVE  UNCHANGED dbVars
  BY <1>4 DEF Accept, Disconnect, ClientLogin, ClientReads, ClientMovesEarly, ClientEnter
<1>5. ASSUME NEW w \in DbWorker, WorkerStep(w) \/ WakesForNothing(w)
      PROVE  DbStep \/ UNCHANGED dbVars
  BY <1>5 DEF WorkerStep, WakesForNothing, WorkerAlone, TakeTask, ConnectionInvalid,
              CompareGeneration, Select, Update, Insert, StatementFails, DbStep
<1>6. CASE UNCHANGED vars
  BY <1>6 DEF vars
<1> QED  BY <1>1, <1>2, <1>3, <1>4, <1>5, <1>6 DEF Next, LogicStep

LEMMA DbTypesStep == DbTypes /\ [DbStep]_dbVars => DbTypes'
<1> SUFFICES ASSUME DbTypes, [DbStep]_dbVars
             PROVE  DbTypes'
  OBVIOUS
<1> USE DEF DbTypes, DbPlace, GoTo, NoTask
<1>1. ASSUME NEW t \in LogicThread, NEW task \in Nat, PushQuery(t, task)
      PROVE  DbTypes'
  BY <1>1 DEF PushQuery
<1>2. ASSUME NEW t \in LogicThread, NotifyOne(t)
      PROVE  DbTypes'
  BY <1>2 DEF NotifyOne, At
<1>3. ASSUME NEW w \in DbWorker, Take(w)
      PROVE  DbTypes'
  <2>1. tasks # << >> => Head(tasks) \in Nat /\ Tail(tasks) \in Seq(Nat)
    OBVIOUS
  <2> QED  BY <1>3, <2>1 DEF Take
<1>4. ASSUME NEW w \in DbWorker,
             \/ Connect(w) \/ ConnectFails(w) \/ WakeUp(w) \/ Sleep(w)
             \/ Finish(w) \/ EndByException(w)
      PROVE  DbTypes'
  BY <1>4 DEF Connect, ConnectFails, WakeUp, Sleep, Finish, EndByException
<1>5. CASE UNCHANGED dbVars
  BY <1>5 DEF dbVars
<1> QED  BY <1>1, <1>2, <1>3, <1>4, <1>5 DEF DbStep

\* No login waits for a worker that nobody wakes (DBManager.cpp:28, 77).
THEOREM NoLoginIsSleptOn == Spec => []NoSleepingOnWork
<1>1. Init => DbTypes /\ NoSleepingOnWork
  BY DEF Init, DbInit, DbTypes, DbPlace, NoTask, NoSleepingOnWork, At
<1>2. LoginIInv => LoginTypes
  BY DEF LoginIInv
<1> QED
  BY <1>1, <1>2, WorkersRun, DbTypesStep, SleepStep, LoginInvariance, PTL DEF Spec

-----------------------------------------------------------------------------
(* A connection has one login under way at most, wherever it is.           *)

Logins == {"C_LOGIN", "S_LOGIN"}
Entries == {"C_ENTER_GAME"}

\* Where the login of s can be: in a logic thread's queue, ...
IsJob(s, t, i, kinds) == inbox[t][i].session = s /\ inbox[t][i].kind \in kinds
SomeJob(s, kinds) ==
    \E t \in LogicThread : \E i \in DOMAIN inbox[t] : IsJob(s, t, i, kinds)
OneJob(s, kinds) ==
    \A t \in LogicThread : \A i, k \in DOMAIN inbox[t] :
        IsJob(s, t, i, kinds) /\ IsJob(s, t, k, kinds) => i = k

\* ... in the task queue, ...
IsTask(s, i) == queries[tasks[i]].session = s /\ queries[tasks[i]].gen = gen[s]
SomeTask(s) == \E i \in DOMAIN tasks : IsTask(s, i)
OneTask(s) == \A i, k \in DOMAIN tasks : IsTask(s, i) /\ IsTask(s, k) => i = k

\* ... with a worker.
WorksFor(w, s) ==
    /\ stage[w] # Rest
    /\ queries[running[w]].session = s
    /\ stage[w] = "compare" => queries[running[w]].gen = gen[s]
SomeWorker(s) == \E w \in DbWorker : WorksFor(w, s)
OneWorker(s) == \A v, w \in DbWorker : WorksFor(v, s) /\ WorksFor(w, s) => v = w

UnderWay(s) == SomeJob(s, Logins) \/ SomeTask(s) \/ SomeWorker(s)

OneLogin(s) ==
    /\ OneJob(s, Logins) /\ OneTask(s) /\ OneWorker(s)
    /\ SomeJob(s, Logins) => ~ SomeTask(s) /\ ~ SomeWorker(s)
    /\ SomeTask(s) => ~ SomeWorker(s)

\* The answer was sent, and s is in the lobby or about to be.
IsLetIn(s) == \E t \in LogicThread : letting[t] # << >> /\ letting[t].session = s
Allowed(s) == IsLetIn(s) \/ state[s] = "LOBBY"

\* The client has its answer after the login, and asks to enter, once, after the
\* answer.
InTurn(s) ==
    /\ client[s] = "new" => ~ IsLetIn(s)
    /\ UnderWay(s) => client[s] = "asked" /\ mail[s] = << >> /\ ~ IsLetIn(s)
    /\ mail[s] # << >> => /\ client[s] = "asked" /\ Len(mail[s]) = 1
                          /\ mail[s][1].id # 0 => Allowed(s)
    /\ client[s] \in {"knows its id", "moved"} => Allowed(s)
    /\ OneJob(s, Entries)
    /\ SomeJob(s, Entries) => client[s] = "entered" /\ Allowed(s)

\* A session's jobs are in one queue, and its answer is applied by that thread.
AtHome ==
    \A t \in LogicThread :
        /\ \A i \in DOMAIN inbox[t] : t = ThreadOf(inbox[t][i].session, inbox[t][i].kind)
        /\ letting[t] # << >> => t = ThreadOf(letting[t].session, letting[t].kind)

Mailbox ==
    /\ mail \in [Session -> Seq([id : Nat, for : Nat])]
    /\ \A s \in Session \ online : mail[s] = << >>

EnterIInv ==
    /\ AtHome /\ Mailbox
    /\ \A s \in online \cap clean : OneLogin(s) /\ InTurn(s)

\* A step that adds nothing to where the login, or an entry, can be ...
JobsKept(s, kinds) ==
    OneJob(s, kinds)' /\ (SomeJob(s, kinds)' => SomeJob(s, kinds))
TasksKept(s) == OneTask(s)' /\ (SomeTask(s)' => SomeTask(s))
WorkersKept(s) == OneWorker(s)' /\ (SomeWorker(s)' => SomeWorker(s))

\* ... and one that changes nothing of the session and its client.
Untouched(s) ==
    /\ client'[s] = client[s] /\ mail'[s] = mail[s] /\ state'[s] = state[s]
    /\ IsLetIn(s)' <=> IsLetIn(s)

LEMMA CarriesOn ==
    ASSUME NEW s, OneLogin(s), InTurn(s), Untouched(s), TasksKept(s), WorkersKept(s),
           JobsKept(s, Logins), JobsKept(s, Entries)
    PROVE  OneLogin(s)' /\ InTurn(s)'
<1>1. OneLogin(s)' /\ (UnderWay(s)' => UnderWay(s))
  BY DEF OneLogin, UnderWay, TasksKept, WorkersKept, JobsKept
<1>2. Allowed(s)' <=> Allowed(s)
  BY DEF Allowed, Untouched
<1> QED  BY <1>1, <1>2 DEF InTurn, Untouched, JobsKept

\* A job that is pushed.
LEMMA JobsPushed ==
    ASSUME LoginTypes, NEW job \in LoginJob, PushJob(job), NEW s, NEW kinds,
           OneJob(s, kinds)
    PROVE  /\ job.session # s \/ job.kind \notin kinds => JobsKept(s, kinds)
           /\ ~ SomeJob(s, kinds) => OneJob(s, kinds)'
<1>1. PICK t \in LogicThread, n \in Nat :
         /\ inbox' \in [LogicThread -> Seq(LoginJob)]
         /\ n \notin DOMAIN inbox[t] /\ inbox'[t][n] = job
         /\ DOMAIN inbox'[t] = DOMAIN inbox[t] \cup {n}
         /\ \A i \in DOMAIN inbox[t] : inbox'[t][i] = inbox[t][i]
         /\ \A u \in LogicThread : u # t => inbox'[u] = inbox[u]
  BY Pushed
<1>2. ASSUME NEW u \in LogicThread, NEW i \in DOMAIN inbox'[u], IsJob(s, u, i, kinds)'
      PROVE  \/ i \in DOMAIN inbox[u] /\ IsJob(s, u, i, kinds)
             \/ u = t /\ i = n /\ job.session = s /\ job.kind \in kinds
  BY <1>1, <1>2 DEF IsJob
<1>3. ASSUME job.session # s \/ job.kind \notin kinds
      PROVE  JobsKept(s, kinds)
  BY <1>2, <1>3 DEF OneJob, SomeJob, JobsKept
<1>4. ASSUME ~ SomeJob(s, kinds)
      PROVE  OneJob(s, kinds)'
  BY <1>2, <1>4 DEF OneJob, SomeJob
<1> QED  BY <1>3, <1>4

\* A job that is handled.
LEMMA JobsPopped ==
    ASSUME LoginTypes, AtHome, NEW t \in LogicThread, inbox[t] # << >>,
           inbox' = [inbox EXCEPT ![t] = Tail(@)], NEW s, NEW kinds,
           OneJob(s, kinds)
    PROVE  /\ JobsKept(s, kinds)
           /\ IsJob(s, t, 1, kinds) => ~ SomeJob(s, kinds)'
<1>1. /\ 1 \in DOMAIN inbox[t]
      /\ \A i \in DOMAIN inbox'[t] : /\ i \in Nat /\ i + 1 \in DOMAIN inbox[t]
                                     /\ i + 1 # 1
                                     /\ inbox'[t][i] = inbox[t][i + 1]
      /\ \A u \in LogicThread : u # t => inbox'[u] = inbox[u]
  BY Popped
<1>2. \A i \in DOMAIN inbox'[t] : IsJob(s, t, i, kinds)' => IsJob(s, t, i + 1, kinds)
  BY <1>1 DEF IsJob
<1>3. \A u \in LogicThread \ {t} :
         /\ DOMAIN inbox'[u] = DOMAIN inbox[u]
         /\ \A i \in DOMAIN inbox[u] : IsJob(s, u, i, kinds)' => IsJob(s, u, i, kinds)
  BY <1>1 DEF IsJob
<1>4. OneJob(s, kinds)'
  <2> SUFFICES ASSUME NEW u \in LogicThread, NEW i \in DOMAIN inbox'[u],
                      NEW k \in DOMAIN inbox'[u],
                      IsJob(s, u, i, kinds)', IsJob(s, u, k, kinds)'
               PROVE  i = k
    BY DEF OneJob
  <2>1. CASE u = t
    <3>1. i + 1 = k + 1 /\ i \in Nat /\ k \in Nat
      BY <1>1, <1>2, <2>1 DEF OneJob
    <3> QED  BY <3>1
  <2>2. CASE u # t
    BY <1>3, <2>2 DEF OneJob
  <2> QED  BY <2>1, <2>2
<1>5. SomeJob(s, kinds)' => SomeJob(s, kinds)
  BY <1>1, <1>2, <1>3 DEF SomeJob
<1>6. ASSUME IsJob(s, t, 1, kinds), SomeJob(s, kinds)'
      PROVE  FALSE
  <2>0. PICK u \in LogicThread : \E i \in DOMAIN inbox'[u] : IsJob(s, u, i, kinds)'
    BY <1>6 DEF SomeJob
  <2>1. PICK i \in DOMAIN inbox'[u] : IsJob(s, u, i, kinds)'
    BY <2>0
  <2>2. CASE u = t
    BY <1>1, <1>2, <1>6, <2>1, <2>2 DEF OneJob
  <2>3. CASE u # t
    <3>1. u = ThreadOf(inbox[u][i].session, inbox[u][i].kind) /\ inbox[u][i].session = s
      BY <1>3, <2>1, <2>3 DEF AtHome, IsJob
    <3>2. t = ThreadOf(inbox[t][1].session, inbox[t][1].kind) /\ inbox[t][1].session = s
      BY <1>1, <1>6 DEF AtHome, IsJob
    <3> QED  BY <2>3, <3>1, <3>2 DEF ThreadOf
  <2> QED  BY <2>2, <2>3
<1> QED  BY <1>4, <1>5, <1>6 DEF JobsKept

LEMMA JobsStay ==
    ASSUME NEW s, NEW kinds, inbox' = inbox, OneJob(s, kinds)
    PROVE  JobsKept(s, kinds)
BY DEF OneJob, SomeJob, IsJob, JobsKept

\* The queries that were pushed stay.
LEMMA TasksStay ==
    ASSUME TasksAreQueries, NEW s, gen'[s] = gen[s], tasks' = tasks,
           \A n \in 1 .. Len(queries) : queries'[n] = queries[n], OneTask(s)
    PROVE  TasksKept(s)
<1>1. \A i \in DOMAIN tasks : queries'[tasks'[i]] = queries[tasks[i]]
  BY DEF TasksAreQueries
<1> QED  BY <1>1 DEF OneTask, SomeTask, IsTask, TasksKept

LEMMA WorkersStay ==
    ASSUME TasksAreQueries, NEW s, gen'[s] = gen[s], UNCHANGED <<stage, running>>,
           \A n \in 1 .. Len(queries) : queries'[n] = queries[n], OneWorker(s)
    PROVE  WorkersKept(s)
<1>1. \A w \in DbWorker : WorksFor(w, s)' => WorksFor(w, s)
  BY DEF WorksFor, TasksAreQueries
<1> QED  BY <1>1 DEF OneWorker, SomeWorker, WorkersKept

\* A task that is taken.
LEMMA FirstTaken ==
    ASSUME TasksAreQueries, NEW s, gen'[s] = gen[s], tasks # << >>,
           tasks' = Tail(tasks), UNCHANGED queries, OneTask(s)
    PROVE  /\ TasksKept(s)
           /\ 1 \in DOMAIN tasks /\ Head(tasks) = tasks[1]
           /\ IsTask(s, 1) => ~ SomeTask(s)'
<1>1. /\ 1 \in DOMAIN tasks /\ Head(tasks) = tasks[1]
      /\ \A i \in DOMAIN tasks' : i + 1 \in DOMAIN tasks /\ tasks'[i] = tasks[i + 1]
      /\ tasks' \in Seq(Nat)
  BY TaskTaken
<1>2. \A i \in DOMAIN tasks' : i \in Nat /\ i # 0
  <2>1. DOMAIN tasks' = 1 .. Len(tasks') /\ Len(tasks') \in Nat
    BY <1>1
  <2> QED  BY <2>1
<1>3. \A i \in DOMAIN tasks' : IsTask(s, i)' => IsTask(s, i + 1)
  BY <1>1 DEF IsTask
<1>4. OneTask(s)'
  <2> SUFFICES ASSUME NEW i \in DOMAIN tasks', NEW k \in DOMAIN tasks',
                      IsTask(s, i)', IsTask(s, k)'
               PROVE  i = k
    BY DEF OneTask
  <2>1. i + 1 = k + 1
    BY <1>1, <1>3 DEF OneTask
  <2> QED  BY <1>2, <2>1
<1>5. ASSUME IsTask(s, 1), SomeTask(s)'
      PROVE  FALSE
  <2>1. PICK i \in DOMAIN tasks' : IsTask(s, i)'
    BY <1>5 DEF SomeTask
  <2>2. i + 1 = 1
    BY <1>1, <1>3, <1>5, <2>1 DEF OneTask
  <2> QED  BY <1>2, <2>1, <2>2
<1> QED  BY <1>1, <1>3, <1>4, <1>5 DEF SomeTask, TasksKept

\* A worker that goes on with its task, or ends it.
LEMMA WorkerGoesOn ==
    ASSUME LoginTypes, TasksAreQueries, NEW w \in DbWorker, NEW s, gen'[s] = gen[s],
           UNCHANGED queries, OneWorker(s),
           \/ ConnectionInvalid(w) \/ CompareGeneration(w) \/ Select(w) \/ Update(w)
           \/ Insert(w) \/ StatementFails(w)
    PROVE  /\ WorkersKept(s)
           /\ stage'[w] = Rest /\ WorksFor(w, s) => ~ SomeWorker(s)'
<1>1. /\ \A v \in DbWorker \ {w} : stage'[v] = stage[v] /\ running'[v] = running[v]
      /\ \/ stage'[w] = Rest
         \/ /\ running'[w] = running[w] /\ stage[w] # Rest
            /\ stage'[w] \in {"select", "update", "insert"}
            /\ stage[w] = "compare" =>
                  gen[queries[running[w]].session] = queries[running[w]].gen
  <2>1. ASSUME NEW where, stage' = [stage EXCEPT ![w] = where],
               \/ running' = [running EXCEPT ![w] = NoTask] \/ UNCHANGED running
        PROVE  /\ \A v \in DbWorker \ {w} : stage'[v] = stage[v] /\ running'[v] = running[v]
               /\ stage'[w] = where
    BY <2>1 DEF LoginTypes, TasksAreQueries
  <2>2. CASE CompareGeneration(w)
    BY <2>1, <2>2 DEF CompareGeneration, ToStage, Finish, Query, Rest, dbVars
  <2>3. CASE Select(w)
    BY <2>1, <2>3 DEF Select, ToStage, Finish, Rest, dbVars
  <2>4. CASE ConnectionInvalid(w) \/ Update(w) \/ Insert(w) \/ StatementFails(w)
    BY <2>1, <2>4 DEF ConnectionInvalid, Update, Insert, StatementFails, Loses, ToStage,
                      Finish, EndByException
  <2> QED  BY <2>2, <2>3, <2>4
<1>2. \A v \in DbWorker : WorksFor(v, s)' => WorksFor(v, s) /\ (v = w => stage'[w] # Rest)
  BY <1>1 DEF WorksFor
<1> QED  BY <1>2 DEF OneWorker, SomeWorker, WorkersKept

\* What the steps of a session's life rest on.
Going(s) ==
    /\ LoginTypes /\ RequestsAreFull /\ TasksAreQueries /\ AtHome /\ Mailbox
    /\ s \in Session /\ s \in online /\ gen'[s] = gen[s]
    /\ OneLogin(s) /\ InTurn(s)

\* Steps that leave the queues, the workers and the session as they are.
LEMMA NothingMoves ==
    ASSUME NEW s, Going(s), Untouched(s),
           UNCHANGED <<inbox, tasks, running, stage, queries>>
    PROVE  OneLogin(s)' /\ InTurn(s)'
<1>1. TasksKept(s) /\ WorkersKept(s) /\ JobsKept(s, Logins) /\ JobsKept(s, Entries)
  BY TasksStay, WorkersStay, JobsStay DEF Going, OneLogin, InTurn
<1> QED  BY <1>1, CarriesOn DEF Going

\* A job that is pushed changes nothing for another session.
LEMMA OtherPushes ==
    ASSUME NEW s, Going(s), Untouched(s), NEW job \in LoginJob, PushJob(job),
           job.session # s \/ job.kind \notin Logins \cup Entries,
           UNCHANGED <<tasks, running, stage, queries>>
    PROVE  OneLogin(s)' /\ InTurn(s)'
<1>1. TasksKept(s) /\ WorkersKept(s)
  BY TasksStay, WorkersStay DEF Going, OneLogin
<1>2. JobsKept(s, Logins) /\ JobsKept(s, Entries)
  BY JobsPushed DEF Going, OneLogin, InTurn
<1> QED  BY <1>1, <1>2, CarriesOn DEF Going

\* The client of s, or of another session, asks.
LEMMA LoginStarts ==
    ASSUME NEW s, Going(s), NEW r \in Session, ClientLogin(r)
    PROVE  OneLogin(s)' /\ InTurn(s)'
<1>1. /\ client[r] = "new" /\ client' = [client EXCEPT ![r] = "asked"]
      /\ UNCHANGED <<tasks, running, stage, queries, letting, state, mail>>
  BY DEF ClientLogin, dbVars, sql, session
<1>2. PICK a \in Account, p \in Password : PushJob(LoginRequest(r, a, p))
  BY DEF ClientLogin, LoginRequest
<1>3. /\ LoginRequest(r, a, p) \in LoginJob /\ LoginRequest(r, a, p).session = r
      /\ LoginRequest(r, a, p).kind = "C_LOGIN"
  BY LoginRequestType DEF Going
<1>4. CASE r # s
  <2>1. Untouched(s)
    BY <1>1, <1>4 DEF Untouched, IsLetIn, Going, LoginTypes
  <2> QED  BY <1>1, <1>2, <1>3, <1>4, <2>1, OtherPushes
<1>5. CASE r = s
  <2>1. ~ UnderWay(s) /\ mail[s] = << >> /\ ~ SomeJob(s, Entries)
    BY <1>1, <1>5 DEF Going, InTurn
  <2>2. TasksKept(s) /\ WorkersKept(s)
    BY <1>1, TasksStay, WorkersStay DEF Going, OneLogin
  <2>3. OneJob(s, Logins)'
    BY <1>2, <1>3, <2>1, JobsPushed DEF UnderWay, Going, OneLogin
  <2>4. JobsKept(s, Entries)
    BY <1>2, <1>3, JobsPushed DEF Entries, Going, InTurn
  <2>5. client'[s] = "asked" /\ mail'[s] = << >>
    BY <1>1, <1>5, <2>1 DEF Going, LoginTypes
  <2>6. ~ IsLetIn(s)'
    BY <1>1, <1>5 DEF IsLetIn, Going, InTurn
  <2> QED  BY <2>1, <2>2, <2>3, <2>4, <2>5, <2>6
           DEF OneLogin, InTurn, UnderWay, TasksKept, WorkersKept, JobsKept
<1> QED  BY <1>4, <1>5

\* It reads its answer.
LEMMA AnswerIsRead ==
    ASSUME NEW s, Going(s), NEW r \in Session, ClientReads(r)
    PROVE  OneLogin(s)' /\ InTurn(s)'
<1>1. /\ UNCHANGED <<inbox, tasks, running, stage, queries, letting, state>>
      /\ mail[r] # << >> /\ mail' = [mail EXCEPT ![r] = Tail(mail[r])]
      /\ client' = [client EXCEPT ![r] = IF Head(mail[r]).id = 0 THEN "refused"
                                         ELSE "knows its id"]
  BY DEF ClientReads, dbVars, sql, session
<1>2. CASE r # s
  <2>1. Untouched(s)
    BY <1>1, <1>2 DEF Untouched, IsLetIn, Going, LoginTypes, Mailbox
  <2> QED  BY <1>1, <2>1, NothingMoves
<1>3. CASE r = s
  <2>1. ~ UnderWay(s) /\ ~ SomeJob(s, Entries) /\ Len(mail[s]) = 1
    BY <1>1, <1>3 DEF Going, InTurn
  <2>2. mail[s] \in Seq([id : Nat, for : Nat])
    BY DEF Going, Mailbox
  <2>3. Tail(mail[s]) = << >> /\ Head(mail[s]) = mail[s][1]
    <3>1. mail[s] # << >>
      BY <1>1, <1>3
    <3>2. /\ Tail(mail[s]) \in Seq([id : Nat, for : Nat])
          /\ Len(Tail(mail[s])) = 0 /\ Head(mail[s]) = mail[s][1]
      BY <2>1, <2>2, <3>1, HeadTailProperties
    <3> QED  BY <3>2, EmptySeq
  <2>4. mail'[s] = << >> /\ client'[s] \in {"refused", "knows its id"}
    BY <1>1, <1>3, <2>3 DEF Going, LoginTypes, Mailbox
  <2>5. client'[s] = "knows its id" => Allowed(s)
    BY <1>1, <1>3, <2>1, <2>3 DEF Going, LoginTypes, InTurn
  <2>6. Allowed(s)' <=> Allowed(s)
    BY <1>1 DEF Allowed, IsLetIn
  <2>7. /\ TasksKept(s) /\ WorkersKept(s) /\ JobsKept(s, Logins)
        /\ JobsKept(s, Entries)
    BY <1>1, TasksStay, WorkersStay, JobsStay DEF Going, OneLogin, InTurn
  <2>8. ~ UnderWay(s)' /\ ~ SomeJob(s, Entries)'
    BY <2>1, <2>7 DEF TasksKept, WorkersKept, JobsKept, UnderWay
  <2> QED  BY <2>4, <2>5, <2>6, <2>7, <2>8
           DEF OneLogin, InTurn, UnderWay, TasksKept, WorkersKept, JobsKept
<1> QED  BY <1>2, <1>3

\* It moves, too early or not, and enters.
LEMMA ClientGoesOn ==
    ASSUME NEW s, Going(s), NEW r \in Session, ClientMovesEarly(r) \/ ClientEnter(r)
    PROVE  OneLogin(s)' /\ InTurn(s)'
<1>1. /\ UNCHANGED <<tasks, running, stage, queries, letting, state, mail>>
      /\ client[r] \in {"knows its id", "moved"}
  BY DEF ClientMovesEarly, ClientEnter, dbVars, sql, session
<1>2. PICK kind \in {"C_MOVE", "C_ENTER_GAME"} :
         /\ PushJob(Plain(kind, r))
         /\ client' = [client EXCEPT ![r] = IF kind = "C_MOVE" THEN "moved"
                                            ELSE "entered"]
  BY DEF ClientMovesEarly, ClientEnter
<1>3. /\ Plain(kind, r) \in LoginJob /\ Plain(kind, r).session = r
      /\ Plain(kind, r).kind = kind
  BY PlainType DEF Going
<1>4. CASE r # s
  <2>1. Untouched(s)
    BY <1>1, <1>2, <1>4 DEF Untouched, IsLetIn, Going, LoginTypes
  <2> QED  BY <1>1, <1>2, <1>3, <1>4, <2>1, OtherPushes
<1>5. CASE r = s
  <2>1. /\ ~ UnderWay(s) /\ mail[s] = << >> /\ ~ SomeJob(s, Entries) /\ Allowed(s)
    BY <1>1, <1>5 DEF Going, InTurn
  <2>2. Allowed(s)' /\ mail'[s] = << >>
    BY <1>1, <2>1 DEF Allowed, IsLetIn
  <2>3. TasksKept(s) /\ WorkersKept(s)
    BY <1>1, TasksStay, WorkersStay DEF Going, OneLogin
  <2>4. JobsKept(s, Logins)
    <3>1. kind \notin Logins
      BY DEF Logins
    <3> QED  BY <1>2, <1>3, <3>1, JobsPushed DEF Going, OneLogin
  <2>5. ~ UnderWay(s)'
    BY <2>1, <2>3, <2>4 DEF TasksKept, WorkersKept, JobsKept, UnderWay
  <2>6. OneJob(s, Entries)'
    BY <1>2, <1>3, <2>1, JobsPushed DEF Going, InTurn
  <2>7. SomeJob(s, Entries)' => client'[s] = "entered"
    <3>1. CASE kind = "C_MOVE"
      <4>1. kind \notin Entries
        BY <3>1 DEF Entries
      <4> QED  BY <1>2, <1>3, <2>1, <4>1, JobsPushed DEF Going, InTurn, JobsKept
    <3>2. CASE kind = "C_ENTER_GAME"
      BY <1>2, <1>5, <3>2 DEF Going, LoginTypes
    <3> QED  BY <3>1, <3>2
  <2>8. client'[s] \in {"moved", "entered"}
    BY <1>2, <1>5 DEF Going, LoginTypes
  <2> QED  BY <2>2, <2>3, <2>4, <2>5, <2>6, <2>7, <2>8
           DEF OneLogin, InTurn, UnderWay, TasksKept, WorkersKept, JobsKept
<1> QED  BY <1>4, <1>5

\* A thread takes a job, and what it can be.
LEMMA HandledKept ==
    ASSUME NEW s, Going(s), NEW t \in LogicThread, NEW kind, Handles(t, kind)
    PROVE  /\ Head(inbox[t]) = inbox[t][1] /\ Head(inbox[t]) \in LoginJob
           /\ 1 \in DOMAIN inbox[t] /\ inbox[t][1].kind = kind /\ letting[t] = << >>
           /\ JobsKept(s, Logins) /\ JobsKept(s, Entries)
           /\ inbox[t][1].session = s /\ kind \in Logins =>
                 SomeJob(s, Logins) /\ ~ SomeJob(s, Logins)'
           /\ inbox[t][1].session = s /\ kind \in Entries =>
                 SomeJob(s, Entries) /\ ~ SomeJob(s, Entries)'
<1>1. /\ Head(inbox[t]) = inbox[t][1] /\ Head(inbox[t]) \in LoginJob
      /\ 1 \in DOMAIN inbox[t] /\ inbox[t][1].kind = kind /\ letting[t] = << >>
  BY Handled DEF Going
<1>2. inbox[t] # << >> /\ inbox' = [inbox EXCEPT ![t] = Tail(@)]
  BY DEF Handles
<1>3. ASSUME NEW kinds \in {Logins, Entries}
      PROVE  /\ JobsKept(s, kinds)
             /\ IsJob(s, t, 1, kinds) => SomeJob(s, kinds) /\ ~ SomeJob(s, kinds)'
  BY <1>1, <1>2, JobsPopped DEF Going, OneLogin, InTurn, SomeJob
<1> QED  BY <1>1, <1>3 DEF IsJob

\* The C_LOGIN becomes a task.
LEMMA LoginIsHandled ==
    ASSUME NEW s, Going(s), NEW t \in LogicThread, HandleLogin(t)
    PROVE  OneLogin(s)' /\ InTurn(s)'
<1> DEFINE job == Head(inbox[t])
           q == [session |-> job.session, gen |-> gen[job.session],
                 for |-> job.for, account |-> job.account, password |-> job.password]
<1>1. /\ job = inbox[t][1] /\ job \in LoginJob /\ job.kind = "C_LOGIN"
      /\ 1 \in DOMAIN inbox[t] /\ JobsKept(s, Logins) /\ JobsKept(s, Entries)
      /\ job.session = s => SomeJob(s, Logins) /\ ~ SomeJob(s, Logins)'
  BY HandledKept DEF HandleLogin, Logins
<1>2. q \in LoginQuery /\ q.session = job.session
  BY <1>1 DEF Going, RequestsAreFull, LoginJob, LoginQuery, LoginTypes
<1>3. /\ queries' = Append(queries, q) /\ tasks' = Append(tasks, Len(queries) + 1)
      /\ UNCHANGED <<running, stage, letting, state, client, mail>>
  BY DEF HandleLogin, PushQuery, session, clients
<1> HIDE DEF job, q
<1>4. /\ \A n \in 1 .. Len(queries) : queries'[n] = queries[n]
      /\ queries'[Len(queries) + 1] = q /\ Len(queries) + 1 \in Nat
  BY <1>2, <1>3, QueryAdded DEF Going
<1>5. WorkersKept(s) /\ Untouched(s)
  BY <1>3, <1>4, WorkersStay DEF Going, OneLogin, Untouched, IsLetIn
<1>6. /\ \A i \in DOMAIN tasks : tasks'[i] = tasks[i]
      /\ \A i \in DOMAIN tasks' \ DOMAIN tasks :
            i = Len(tasks) + 1 /\ tasks'[i] = Len(queries) + 1
  <2>1. tasks \in Seq(Nat)
    BY DEF Going, TasksAreQueries
  <2> QED  BY <1>3, <1>4, <2>1, AppendProperties
<1>7. ASSUME NEW i \in DOMAIN tasks', IsTask(s, i)'
      PROVE  \/ i \in DOMAIN tasks /\ IsTask(s, i)
             \/ i = Len(tasks) + 1 /\ job.session = s
  <2>1. CASE i \in DOMAIN tasks
    <3>1. queries'[tasks'[i]] = queries[tasks[i]]
      BY <1>4, <1>6, <2>1 DEF Going, TasksAreQueries
    <3> QED  BY <1>7, <2>1, <3>1 DEF IsTask, Going
  <2>2. CASE i \notin DOMAIN tasks
    BY <1>2, <1>4, <1>6, <1>7, <2>2 DEF IsTask
  <2> QED  BY <2>1, <2>2
<1>8. CASE job.session # s
  <2>1. TasksKept(s)
    BY <1>7, <1>8 DEF TasksKept, OneTask, SomeTask, Going, OneLogin
  <2> QED  BY <1>1, <1>5, <2>1, CarriesOn DEF Going
<1>9. CASE job.session = s
  <2>1. ~ SomeTask(s) /\ ~ SomeWorker(s) /\ UnderWay(s)
    BY <1>1, <1>9 DEF Going, OneLogin, UnderWay
  <2>2. OneTask(s)'
    BY <1>7, <2>1 DEF OneTask, SomeTask
  <2>3. OneLogin(s)'
    BY <1>1, <1>5, <1>9, <2>1, <2>2 DEF OneLogin, JobsKept, WorkersKept
  <2> QED  BY <1>1, <1>5, <2>1, <2>3 DEF InTurn, Going, Untouched, Allowed, JobsKept
<1> QED  BY <1>8, <1>9

\* The S_LOGIN is sent, and who is let in is about to be in the lobby.
LEMMA AnswerIsHandled ==
    ASSUME NEW s, Going(s), NEW t \in LogicThread, HandleAnswer(t)
    PROVE  OneLogin(s)' /\ InTurn(s)'
<1> DEFINE job == Head(inbox[t])
<1>1. /\ job = inbox[t][1] /\ job \in LoginJob /\ 1 \in DOMAIN inbox[t]
      /\ letting[t] = << >> /\ JobsKept(s, Logins) /\ JobsKept(s, Entries)
      /\ job.session = s => SomeJob(s, Logins) /\ ~ SomeJob(s, Logins)'
  BY HandledKept DEF HandleAnswer, Logins
<1>2. /\ UNCHANGED <<tasks, running, stage, queries, state, client>>
      /\ mail' = IF job.session \in online
                 THEN [mail EXCEPT ![job.session] =
                         Append(mail[job.session], [id |-> job.id, for |-> job.for])]
                 ELSE mail
      /\ letting' = [letting EXCEPT ![t] = IF job.id # 0 THEN job ELSE letting[t]]
  BY DEF HandleAnswer, dbVars, sql, session
<1> HIDE DEF job
<1>3. TasksKept(s) /\ WorkersKept(s)
  BY <1>2, TasksStay, WorkersStay DEF Going, OneLogin
<1>4. \A u \in LogicThread :
         letting'[u] = IF u = t /\ job.id # 0 THEN job ELSE letting[u]
  BY <1>2 DEF Going, LoginTypes
<1>5. CASE job.session # s
  <2>1. mail'[s] = mail[s]
    BY <1>1, <1>2, <1>5 DEF Going, Mailbox, LoginJob
  <2>2. IsLetIn(s)' <=> IsLetIn(s)
    <3>1. \A u \in LogicThread : letting'[u] # << >> /\ letting'[u].session = s
                                 <=> letting[u] # << >> /\ letting[u].session = s
      BY <1>1, <1>4, <1>5
    <3> QED  BY <3>1 DEF IsLetIn
  <2>3. Untouched(s)
    BY <1>2, <2>1, <2>2 DEF Untouched
  <2> QED  BY <1>1, <1>3, <2>3, CarriesOn DEF Going
<1>6. CASE job.session = s
  <2>1. /\ ~ SomeTask(s) /\ ~ SomeWorker(s)
        /\ client[s] = "asked" /\ mail[s] = << >> /\ ~ IsLetIn(s)
        /\ ~ SomeJob(s, Entries)
    BY <1>1, <1>6 DEF Going, OneLogin, InTurn, UnderWay
  <2>2. ~ UnderWay(s)' /\ ~ SomeJob(s, Entries)'
    BY <1>1, <1>3, <1>6, <2>1 DEF UnderWay, TasksKept, WorkersKept, JobsKept
  <2>3. /\ Len(mail'[s]) = 1 /\ mail'[s][1].id = job.id
    <3>1. mail'[s] = Append(mail[s], [id |-> job.id, for |-> job.for])
      BY <1>2, <1>6 DEF Going, Mailbox
    <3>2. mail'[s] = <<[id |-> job.id, for |-> job.for]>>
      BY <2>1, <3>1
    <3> QED  BY <3>2
  <2>4. job.id # 0 => Allowed(s)'
    <3>1. job.id # 0 => letting'[t] = job
      BY <1>4
    <3>2. job # << >>
      BY <1>1 DEF LoginJob
    <3> QED  BY <1>6, <3>1, <3>2 DEF Allowed, IsLetIn
  <2>5. client'[s] = "asked"
    BY <1>2, <2>1
  <2>6. mail'[s][1].id # 0 => Allowed(s)'
    BY <2>3, <2>4
  <2> QED  BY <1>1, <1>3, <2>2, <2>3, <2>5, <2>6
           DEF OneLogin, InTurn, UnderWay, TasksKept, WorkersKept, JobsKept
<1> QED  BY <1>5, <1>6

LEMMA IsInLobby ==
    ASSUME NEW s, Going(s), NEW t \in LogicThread, LetIn(t)
    PROVE  OneLogin(s)' /\ InTurn(s)'
<1>1. /\ letting[t] # << >> /\ letting' = [letting EXCEPT ![t] = << >>]
      /\ state' = [state EXCEPT ![letting[t].session] = "LOBBY"]
      /\ UNCHANGED <<inbox, tasks, running, stage, queries, client, mail>>
  BY DEF LetIn, dbVars, sql, clients
<1>2. \A u \in LogicThread : letting'[u] = IF u = t THEN << >> ELSE letting[u]
  BY <1>1 DEF Going, LoginTypes
<1>3. TasksKept(s) /\ WorkersKept(s) /\ JobsKept(s, Logins) /\ JobsKept(s, Entries)
  BY <1>1, TasksStay, WorkersStay, JobsStay DEF Going, OneLogin, InTurn
<1>4. CASE letting[t].session # s
  <2>1. IsLetIn(s)' <=> IsLetIn(s)
    <3>1. \A u \in LogicThread : letting'[u] # << >> /\ letting'[u].session = s
                                 <=> letting[u] # << >> /\ letting[u].session = s
      BY <1>2, <1>4
    <3> QED  BY <3>1 DEF IsLetIn
  <2>2. state'[s] = state[s]
    BY <1>1, <1>4 DEF Going, LoginTypes
  <2>3. Untouched(s)
    BY <1>1, <2>1, <2>2 DEF Untouched
  <2> QED  BY <1>3, <2>3, CarriesOn DEF Going
<1>5. CASE letting[t].session = s
  <2>1. IsLetIn(s)
    BY <1>1, <1>5 DEF IsLetIn
  <2>2. state'[s] = "LOBBY"
    BY <1>1, <1>5 DEF Going, LoginTypes
  <2>3. Allowed(s)'
    BY <2>2 DEF Allowed
  <2>4. OneLogin(s)' /\ ~ UnderWay(s)'
    BY <1>3, <2>1 DEF Going, OneLogin, InTurn, UnderWay, TasksKept, WorkersKept, JobsKept
  <2>5. client[s] # "new"
    BY <2>1 DEF Going, InTurn
  <2> QED  BY <1>1, <1>3, <2>3, <2>4, <2>5 DEF Going, InTurn, JobsKept
<1> QED  BY <1>4, <1>5

\* The C_ENTER_GAME is handled, and nothing is left to do.
LEMMA EntryIsHandled ==
    ASSUME NEW s, Going(s), NEW t \in LogicThread, HandleEnter(t) \/ HandleMove(t)
    PROVE  OneLogin(s)' /\ InTurn(s)'
<1> DEFINE job == Head(inbox[t])
<1>1. PICK kind \in {"C_ENTER_GAME", "C_MOVE"} :
         /\ Handles(t, kind)
         /\ kind = "C_MOVE" => UNCHANGED state
         /\ kind = "C_ENTER_GAME" =>
               state' = IF state[job.session] = "LOBBY"
                        THEN [state EXCEPT ![job.session] = "GAME"] ELSE state
  BY DEF HandleEnter, HandleMove, session
<1>2. UNCHANGED <<tasks, running, stage, queries, letting, client, mail>>
  BY DEF HandleEnter, HandleMove, dbVars, sql, clients
<1>3. /\ job = inbox[t][1] /\ JobsKept(s, Logins) /\ JobsKept(s, Entries)
      /\ job.session = s /\ kind = "C_ENTER_GAME" =>
            SomeJob(s, Entries) /\ ~ SomeJob(s, Entries)'
  BY <1>1, HandledKept DEF Entries
<1> HIDE DEF job
<1>4. TasksKept(s) /\ WorkersKept(s)
  BY <1>2, TasksStay, WorkersStay DEF Going, OneLogin
<1>5. CASE job.session # s \/ kind = "C_MOVE"
  <2>1. Untouched(s)
    BY <1>1, <1>2, <1>5 DEF Untouched, IsLetIn, Going, LoginTypes
  <2> QED  BY <1>3, <1>4, <2>1, CarriesOn DEF Going
<1>6. CASE job.session = s /\ kind = "C_ENTER_GAME"
  <2>1. client[s] = "entered" /\ ~ UnderWay(s) /\ mail[s] = << >>
    BY <1>3, <1>6 DEF Going, InTurn
  <2>2. OneLogin(s)' /\ ~ UnderWay(s)'
    BY <1>3, <1>4, <2>1 DEF Going, OneLogin, UnderWay, TasksKept, WorkersKept, JobsKept
  <2> QED  BY <1>2, <1>3, <1>6, <2>1, <2>2 DEF InTurn, JobsKept
<1> QED  BY <1>5, <1>6

\* A worker takes the task.
LEMMA TaskIsTaken ==
    ASSUME NEW s, Going(s), NEW w \in DbWorker, TakeTask(w)
    PROVE  OneLogin(s)' /\ InTurn(s)'
<1>1. /\ tasks # << >> /\ tasks' = Tail(tasks) /\ stage' = [stage EXCEPT ![w] = "compare"]
      /\ running' = [running EXCEPT ![w] = Head(tasks)]
      /\ UNCHANGED <<inbox, letting, queries, state, client, mail>>
  BY DEF TakeTask, Take, ToStage, session, clients
<1>2. /\ TasksKept(s) /\ 1 \in DOMAIN tasks /\ Head(tasks) = tasks[1]
      /\ IsTask(s, 1) => ~ SomeTask(s)'
  BY <1>1, FirstTaken DEF Going, OneLogin
<1>3. JobsKept(s, Logins) /\ JobsKept(s, Entries) /\ Untouched(s)
  BY <1>1, JobsStay DEF Going, OneLogin, InTurn, Untouched, IsLetIn
<1>4. /\ \A v \in DbWorker \ {w} : stage'[v] = stage[v] /\ running'[v] = running[v]
      /\ stage'[w] = "compare" /\ running'[w] = tasks[1]
  BY <1>1, <1>2 DEF Going, LoginTypes, TasksAreQueries
<1>5. \A v \in DbWorker : WorksFor(v, s)' =>
         IF v = w THEN IsTask(s, 1) ELSE WorksFor(v, s)
  BY <1>1, <1>4 DEF WorksFor, IsTask, Going
<1>6. CASE IsTask(s, 1)
  <2>1. ~ SomeWorker(s) /\ ~ SomeJob(s, Logins) /\ UnderWay(s)
    BY <1>2, <1>6 DEF Going, OneLogin, SomeTask, UnderWay
  <2>2. OneWorker(s)'
    BY <1>5, <2>1 DEF OneWorker, SomeWorker
  <2>3. OneLogin(s)'
    BY <1>2, <1>3, <1>6, <2>1, <2>2 DEF OneLogin, TasksKept, JobsKept
  <2> QED  BY <1>3, <2>1, <2>3 DEF InTurn, Going, Untouched, Allowed, JobsKept
<1>7. CASE ~ IsTask(s, 1)
  <2>1. WorkersKept(s)
    BY <1>5, <1>7 DEF WorkersKept, OneWorker, SomeWorker, Going, OneLogin
  <2> QED  BY <1>2, <1>3, <2>1, CarriesOn DEF Going
<1> QED  BY <1>6, <1>7

\* It goes on with it, or ends it, and may push an answer.
LEMMA WorkerAnswers ==
    ASSUME NEW s, Going(s), NEW w \in DbWorker,
           \/ ConnectionInvalid(w) \/ CompareGeneration(w) \/ Select(w) \/ Update(w)
           \/ Insert(w) \/ StatementFails(w)
    PROVE  OneLogin(s)' /\ InTurn(s)'
<1>1. UNCHANGED <<queries, tasks, letting, state, client, mail>>
  BY DEF ConnectionInvalid, CompareGeneration, Select, Update, Insert, StatementFails,
         Finish, EndByException, dbVars, session, clients
<1>2. Untouched(s) /\ TasksKept(s)
  BY <1>1, TasksStay DEF Untouched, IsLetIn, Going, OneLogin
<1>3. /\ WorkersKept(s)
      /\ stage'[w] = Rest /\ WorksFor(w, s) => ~ SomeWorker(s)'
  BY <1>1, WorkerGoesOn DEF Going, OneLogin
<1>4. CASE inbox' = inbox
  BY <1>2, <1>3, <1>4, JobsStay, CarriesOn DEF Going, OneLogin, InTurn
<1>5. ASSUME NEW id \in Nat, stage[w] \notin {Rest, "compare"}, Answer(Query(w), id),
             stage'[w] = Rest
      PROVE  OneLogin(s)' /\ InTurn(s)'
  <2> DEFINE job == AnswerJob(Query(w), id)
  <2>1. Query(w) \in LoginQuery /\ Query(w) = queries[running[w]]
    BY <1>5, QueryType DEF Going
  <2>2. /\ job \in LoginJob /\ job.kind = "S_LOGIN" /\ job.session = Query(w).session
        /\ PushJob(job)
    BY <1>5, <2>1, AnswerType
  <2> HIDE DEF job
  <2>3. JobsKept(s, Entries)
    BY <2>2, JobsPushed DEF Entries, Going, InTurn
  <2>4. CASE job.session # s
    <3>1. JobsKept(s, Logins)
      BY <2>2, <2>4, JobsPushed DEF Going, OneLogin
    <3> QED  BY <1>2, <1>3, <2>3, <3>1, CarriesOn DEF Going
  <2>5. CASE job.session = s
    <3>1. WorksFor(w, s)
      BY <1>5, <2>1, <2>2, <2>5 DEF WorksFor
    <3>2. ~ SomeJob(s, Logins) /\ ~ SomeTask(s) /\ UnderWay(s)
      BY <3>1 DEF Going, OneLogin, SomeWorker, UnderWay
    <3>3. OneJob(s, Logins)'
      BY <2>2, <3>2, JobsPushed DEF Going, OneLogin
    <3>4. OneLogin(s)'
      BY <1>2, <1>3, <1>5, <3>1, <3>2, <3>3 DEF OneLogin, TasksKept, WorkersKept
    <3> QED  BY <1>2, <2>3, <3>2, <3>4 DEF InTurn, Going, Untouched, Allowed, JobsKept
  <2> QED  BY <2>4, <2>5
<1>6. CASE ConnectionInvalid(w) \/ CompareGeneration(w) \/ StatementFails(w)
  BY <1>4, <1>6 DEF ConnectionInvalid, CompareGeneration, StatementFails, Loses
<1>7. \A where : ToStage(w, where) => stage'[w] = where
  BY DEF ToStage, Going, LoginTypes
<1>8. CASE Select(w)
  BY <1>4, <1>5, <1>7, <1>8 DEF Select, Rest
<1>9. CASE Update(w) \/ Insert(w)
  <2>1. nextId \in Nat
    BY DEF Going, LoginTypes
  <2> QED  BY <1>5, <1>7, <1>9, <2>1 DEF Update, Insert, Rest
<1> QED  BY <1>6, <1>8, <1>9

\* Steps of other sessions, and of threads and workers on their own.
LEMMA OthersMove ==
    ASSUME NEW s, Going(s),
           \/ \E r \in Session \ {s} : Accept(r) \/ Disconnect(r)
           \/ \E t \in LogicThread : Notify(t)
           \/ \E w \in DbWorker : WorkerAlone(w) \/ WakesForNothing(w)
           \/ UNCHANGED vars
    PROVE  OneLogin(s)' /\ InTurn(s)'
<1>1. CASE \E r \in Session \ {s} : Accept(r) \/ Disconnect(r)
  <2>1. PICK r \in Session \ {s} : Accept(r) \/ Disconnect(r)
    BY <1>1
  <2>2. UNCHANGED <<inbox, tasks, running, stage, queries, letting>>
    BY <2>1 DEF Accept, Disconnect, dbVars, sql
  <2>3. client'[s] = client[s] /\ mail'[s] = mail[s] /\ state'[s] = state[s]
    BY <2>1 DEF Accept, Disconnect, session, Going, LoginTypes, Mailbox
  <2> QED  BY <2>2, <2>3, NothingMoves DEF Untouched, IsLetIn
<1>2. ASSUME UNCHANGED <<inbox, tasks, running, stage, queries, letting, client, mail, state>>
      PROVE  OneLogin(s)' /\ InTurn(s)'
  BY <1>2, NothingMoves DEF Untouched, IsLetIn
<1>3. CASE \E t \in LogicThread : Notify(t)
  BY <1>2, <1>3 DEF Notify, NotifyOne, sql, session, clients
<1>4. CASE \E w \in DbWorker : WorkerAlone(w) \/ WakesForNothing(w)
  BY <1>2, <1>4 DEF WorkerAlone, WakesForNothing, Connect, ConnectFails, Sleep, WakeUp,
                    sql, session, clients
<1>5. CASE UNCHANGED vars
  BY <1>2, <1>5 DEF vars, dbVars, sql, session, clients
<1> QED  BY <1>1, <1>3, <1>4, <1>5

\* A session that is accepted without traces of another client.
LEMMA NewInTurn ==
    ASSUME LoginTypes, Mailbox, NEW s \in Session, Accept(s), ~Traces(s)
    PROVE  OneLogin(s)' /\ InTurn(s)'
<1>1. /\ UNCHANGED <<inbox, letting, tasks, running, queries, stage, gen>>
      /\ client' = [client EXCEPT ![s] = "new"] /\ mail' = mail /\ s \notin online
  BY DEF Accept, dbVars, sql
<1>2. client'[s] = "new" /\ mail'[s] = << >>
  BY <1>1 DEF LoginTypes, Mailbox
<1>3. \A kinds : ~ SomeJob(s, kinds)' /\ OneJob(s, kinds)'
  BY <1>1 DEF Traces, SomeJob, OneJob, IsJob
<1>4. ~ SomeTask(s)' /\ OneTask(s)'
  BY <1>1 DEF Traces, SomeTask, OneTask, IsTask
<1>5. ~ SomeWorker(s)' /\ OneWorker(s)'
  BY <1>1 DEF Traces, SomeWorker, OneWorker, WorksFor
<1>6. ~ IsLetIn(s)'
  BY <1>1 DEF Traces, IsLetIn
<1> QED  BY <1>2, <1>3, <1>4, <1>5, <1>6 DEF OneLogin, InTurn, UnderWay

\* Every step of a connection that goes on.
LEMMA GoingStep ==
    ASSUME NEW s, Going(s), [Next]_vars
    PROVE  OneLogin(s)' /\ InTurn(s)'
<1>1. ~ Accept(s) /\ ~ Disconnect(s)
  <2>1. ~ Accept(s)
    BY DEF Going, Accept
  <2>2. ASSUME Disconnect(s)
        PROVE  FALSE
    <3>1. gen'[s] = gen[s] + 1 /\ gen[s] \in Nat
      BY <2>2 DEF Disconnect, Going, LoginTypes
    <3>2. gen'[s] = gen[s]
      BY DEF Going
    <3> QED  BY <3>1, <3>2
  <2> QED  BY <2>1, <2>2
<1>2. ASSUME NEW r \in Session,
             \/ Accept(r) \/ Disconnect(r) \/ ClientLogin(r) \/ ClientReads(r)
             \/ ClientMovesEarly(r) \/ ClientEnter(r)
      PROVE  OneLogin(s)' /\ InTurn(s)'
  <2>1. CASE Accept(r) \/ Disconnect(r)
    <3>1. r # s
      BY <1>1, <2>1
    <3> QED  BY <2>1, <3>1, OthersMove
  <2> QED  BY <1>2, <2>1, LoginStarts, AnswerIsRead, ClientGoesOn
<1>3. ASSUME NEW t \in LogicThread, LogicStep(t)
      PROVE  OneLogin(s)' /\ InTurn(s)'
  <2>1. CASE Notify(t)
    BY <2>1, OthersMove
  <2> QED  BY <1>3, <2>1, LoginIsHandled, AnswerIsHandled, IsInLobby, EntryIsHandled
           DEF LogicStep
<1>4. ASSUME NEW w \in DbWorker, WorkerStep(w) \/ WakesForNothing(w)
      PROVE  OneLogin(s)' /\ InTurn(s)'
  <2>1. CASE WorkerAlone(w) \/ WakesForNothing(w)
    BY <2>1, OthersMove
  <2> QED  BY <1>4, <2>1, TaskIsTaken, WorkerAnswers DEF WorkerStep
<1>5. CASE UNCHANGED vars
  BY <1>5, OthersMove
<1> QED  BY <1>2, <1>3, <1>4, <1>5 DEF Next

\* A job goes to the thread of its session.
LEMMA PushedAtHome ==
    ASSUME LoginTypes, AtHome, NEW job \in LoginJob, PushJob(job)
    PROVE  \A t \in LogicThread : \A i \in DOMAIN inbox'[t] :
              t = ThreadOf(inbox'[t][i].session, inbox'[t][i].kind)
<1> DEFINE home == ThreadOf(job.session, job.kind)
<1>1. PICK t \in LogicThread, n \in Nat :
         /\ n \notin DOMAIN inbox[t] /\ inbox'[t][n] = job
         /\ DOMAIN inbox'[t] = DOMAIN inbox[t] \cup {n}
         /\ \A i \in DOMAIN inbox[t] : inbox'[t][i] = inbox[t][i]
         /\ \A u \in LogicThread : u # t => inbox'[u] = inbox[u]
  BY Pushed
<1>2. inbox' = [inbox EXCEPT ![home] = Append(inbox[home], job)]
  BY DEF PushJob
<1>3. t = home
  <2>1. t # home => inbox'[t] = inbox[t]
    BY <1>2 DEF LoginTypes
  <2> QED  BY <1>1, <2>1
<1> HIDE DEF home
<1> QED  BY <1>1, <1>3 DEF AtHome, home

LEMMA AtHomeStep ==
    ASSUME LoginTypes, TasksAreQueries, AtHome, [Next]_vars
    PROVE  AtHome'
<1>1. ASSUME NEW t \in LogicThread, NEW i \in DOMAIN inbox'[t]
      PROVE  t = ThreadOf(inbox'[t][i].session, inbox'[t][i].kind)
  <2>1. CASE inbox' = inbox
    BY <2>1 DEF AtHome
  <2>2. CASE \E job \in LoginJob : NewRequest(job)
    BY <2>2, PushedAtHome DEF NewRequest
  <2>3. CASE \E w \in DbWorker, id \in Nat :
                stage[w] # Rest /\ PushJob(AnswerJob(Query(w), id))
    <3>1. PICK w \in DbWorker, id \in Nat :
             stage[w] # Rest /\ PushJob(AnswerJob(Query(w), id))
      BY <2>3
    <3>2. AnswerJob(Query(w), id) \in LoginJob
      BY <3>1, QueryType, AnswerType
    <3> QED  BY <3>1, <3>2, PushedAtHome
  <2>4. CASE \E u \in LogicThread :
                inbox[u] # << >> /\ inbox' = [inbox EXCEPT ![u] = Tail(@)]
    <3>1. PICK u \in LogicThread :
             inbox[u] # << >> /\ inbox' = [inbox EXCEPT ![u] = Tail(@)]
      BY <2>4
    <3>2. /\ \A k \in DOMAIN inbox'[u] : k + 1 \in DOMAIN inbox[u]
                                         /\ inbox'[u][k] = inbox[u][k + 1]
          /\ \A v \in LogicThread : v # u => inbox'[v] = inbox[v]
      BY <3>1, Popped
    <3> QED  BY <3>2 DEF AtHome
  <2> QED  BY <2>1, <2>2, <2>3, <2>4, InboxStep
<1>2. ASSUME NEW t \in LogicThread, letting'[t] # << >>
      PROVE  t = ThreadOf(letting'[t].session, letting'[t].kind)
  BY <1>2, LettingChanges DEF AtHome
<1> QED  BY <1>1, <1>2 DEF AtHome, ThreadOf

\* Answers wait for clients that are connected.
LEMMA MailStep ==
    ASSUME LoginTypes, Mailbox, [Next]_vars
    PROVE  Mailbox'
<1> DEFINE Letter == [id : Nat, for : Nat]
<1>1. ASSUME mail' = mail, online \subseteq online'
      PROVE  Mailbox'
  BY <1>1 DEF Mailbox
<1>2. ASSUME NEW s \in Session, Disconnect(s)
      PROVE  Mailbox'
  BY <1>2 DEF Disconnect, Mailbox
<1>3. ASSUME NEW s \in Session, ClientReads(s)
      PROVE  Mailbox'
  <2>1. mail[s] # << >> /\ mail' = [mail EXCEPT ![s] = Tail(mail[s])] /\ online' = online
    BY <1>3 DEF ClientReads, conn
  <2>2. mail[s] \in Seq(Letter) /\ s \in online
    BY <2>1 DEF Mailbox
  <2>3. Tail(mail[s]) \in Seq(Letter)
    BY <2>1, <2>2, HeadTailProperties
  <2> QED  BY <2>1, <2>2, <2>3 DEF Mailbox
<1>4. ASSUME NEW t \in LogicThread, HandleAnswer(t)
      PROVE  Mailbox'
  <2> DEFINE job == Head(inbox[t])
             letter == [id |-> job.id, for |-> job.for]
  <2>1. /\ job \in LoginJob /\ online' = online
        /\ mail' = IF job.session \in online
                   THEN [mail EXCEPT ![job.session] = Append(mail[job.session], letter)]
                   ELSE mail
    BY <1>4, Handled DEF HandleAnswer, conn
  <2>2. letter \in Letter /\ job.session \in Session
    BY <2>1 DEF LoginJob
  <2> HIDE DEF job, letter
  <2>3. Append(mail[job.session], letter) \in Seq(Letter)
    BY <2>2, AppendProperties DEF Mailbox
  <2> QED  BY <2>1, <2>2, <2>3 DEF Mailbox
<1>5. ASSUME NEW s \in Session,
             Accept(s) \/ ClientLogin(s) \/ ClientMovesEarly(s) \/ ClientEnter(s)
      PROVE  mail' = mail /\ online \subseteq online'
  BY <1>5 DEF Accept, ClientLogin, ClientMovesEarly, ClientEnter, conn
<1>6. ASSUME NEW t \in LogicThread,
             HandleLogin(t) \/ Notify(t) \/ LetIn(t) \/ HandleEnter(t) \/ HandleMove(t)
      PROVE  mail' = mail /\ online \subseteq online'
  BY <1>6 DEF HandleLogin, Notify, LetIn, HandleEnter, HandleMove, conn, clients
<1>7. ASSUME NEW w \in DbWorker, WorkerStep(w) \/ WakesForNothing(w)
      PROVE  mail' = mail /\ online \subseteq online'
  BY <1>7
     DEF WorkerStep, WakesForNothing, WorkerAlone, TakeTask, ConnectionInvalid,
         CompareGeneration, Select, Update, Insert, StatementFails, conn, clients
<1>8. CASE UNCHANGED vars
  BY <1>1, <1>8 DEF vars, conn, clients
<1> QED
  BY <1>1, <1>2, <1>3, <1>4, <1>5, <1>6, <1>7, <1>8 DEF Next, LogicStep

LEMMA EnterStep == LoginIInv /\ EnterIInv /\ [Next]_vars => EnterIInv'
<1> SUFFICES ASSUME LoginIInv, EnterIInv, [Next]_vars
             PROVE  EnterIInv'
  OBVIOUS
<1>1. /\ LoginTypes /\ RequestsAreFull /\ TasksAreQueries /\ FoundAndNew
      /\ AtHome /\ Mailbox
  BY DEF LoginIInv, EnterIInv
<1>2. AtHome' /\ Mailbox'
  BY <1>1, AtHomeStep, MailStep
<1>3. ASSUME NEW s \in online' \cap clean'
      PROVE  OneLogin(s)' /\ InTurn(s)'
  <2>1. /\ s \in Session /\ gen'[s] = gen[s]
        /\ s \in online \cap clean \/ (Accept(s) /\ ~Traces(s))
    BY <1>1, SessionsChange
  <2>2. CASE s \in online \cap clean
    <3>1. Going(s)
      BY <1>1, <2>1, <2>2 DEF Going, EnterIInv
    <3> QED  BY <3>1, GoingStep
  <2>3. CASE Accept(s) /\ ~Traces(s)
    BY <1>1, <2>1, <2>3, NewInTurn
  <2> QED  BY <2>1, <2>2, <2>3
<1> QED  BY <1>2, <1>3 DEF EnterIInv

\* A client that was let in and asks to enter is in the lobby when its job is
\* handled, although its answer is sent before the state is set: one thread does
\* both and takes the job (PacketHandler.cpp:159, LogicManager.h:64), however many
\* threads and workers there are.
THEOREM WhoIsLetInEnters == Spec => []EnterIsAccepted
<1>1. Init => EnterIInv
  BY DEF Init, DbInit, EnterIInv, AtHome, Mailbox
<1>2. LoginIInv /\ EnterIInv => EnterIsAccepted
  <2> SUFFICES ASSUME LoginIInv, EnterIInv, NEW t \in LogicThread,
                      inbox[t] # << >>, letting[t] = << >>,
                      Head(inbox[t]).kind = "C_ENTER_GAME",
                      Head(inbox[t]).session \in online \cap clean
               PROVE  state[Head(inbox[t]).session] = "LOBBY"
    BY DEF EnterIsAccepted
  <2> DEFINE s == Head(inbox[t]).session
  <2>1. inbox[t] \in Seq(LoginJob)
    BY DEF LoginIInv, LoginTypes
  <2>2. 1 \in DOMAIN inbox[t] /\ Head(inbox[t]) = inbox[t][1]
    BY <2>1
  <2>3. OneLogin(s) /\ InTurn(s) /\ AtHome
    BY DEF EnterIInv
  <2>4. t = ThreadOf(s, "C_ENTER_GAME")
    BY <2>2, <2>3 DEF AtHome
  <2>5. SomeJob(s, Entries)
    BY <2>2 DEF SomeJob, IsJob, Entries
  <2> HIDE DEF s
  <2>6. ~ IsLetIn(s)
    BY <2>3, <2>4 DEF AtHome, IsLetIn, ThreadOf
  <2> QED  BY <2>3, <2>5, <2>6 DEF InTurn, Allowed, s
<1> QED  BY <1>1, <1>2, EnterStep, LoginInvariance, PTL DEF Spec
=============================================================================
