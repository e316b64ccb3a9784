-------------------------------- MODULE Login --------------------------------
(***************************************************************************)
(* A login from one end to the other: a client asks (Client/Main.cpp), the *)
(* logic thread that its session's address selects pushes a query, a       *)
(* database worker runs it and pushes the answer as a job, the same logic  *)
(* thread sends it and lets the session into the lobby, and the client     *)
(* asks to enter the game.  Meanwhile the connection may end and the       *)
(* session be used for another client.                                     *)
(*                                                                         *)
(* Clients of a session are numbered from 0; GetGeneration, which is not   *)
(* in the repository, is that number: Clear increments it.  Jobs, queries  *)
(* and answers carry the number of the client they are for, which the code *)
(* does not: only properties read it.                                      *)
(***************************************************************************)
EXTENDS DbWorkers

LOCAL INSTANCE Functions

CONSTANTS
    NumSessions,
    MaxClients,         \* bound: clients in all, each with one query
    Account, Password,
    Nobody              \* the password of an account that does not exist

ASSUME LoginAssumption ==
    /\ {NumSessions, MaxClients} \subseteq Nat
    /\ MaxTasks >= MaxClients
    /\ Nobody \notin Password /\ Nobody \notin Account \X Password

Session == 1 .. NumSessions
Client == 0 .. MaxClients

VARIABLES
    inbox,          \* m_jobs of each logic thread
    letting,        \* what each thread is about to do after it sent an S_LOGIN
    queries,        \* what the lambda of each task has captured
    stage,          \* how far each worker is in its task
    accounts,       \* the table accounts: user_id to password
    nextId,         \* g_IdCounter
    state,          \* m_state
    playerId,       \* m_playerId
    gen,            \* GetGeneration: the client a session has, or has next
    online,         \* sessions whose client is connected
    client,         \* how far that client is
    asked,          \* what it asked
    mail,           \* answers on their way to it
    lost,           \* tasks that ended without an answer
    clean           \* sessions accepted with nothing of an earlier client left

conn == <<gen, online, clean>>
clients == <<client, asked, mail>>
session == <<state, playerId>>
sql == <<queries, stage, accounts, nextId, lost>>
vars == <<dbVars, inbox, letting, sql, session, conn, clients>>

Job == [kind : {"C_LOGIN", "S_LOGIN", "C_ENTER_GAME", "C_MOVE"},
        session : Session, for : Client, account : Account \cup {Nobody},
        password : Password \cup {Nobody}, id : 0 .. MaxTasks]

Rest == "none"

Init ==
    /\ DbInit
    /\ inbox = [t \in LogicThread |-> << >>]
    /\ letting = [t \in LogicThread |-> << >>]
    /\ queries = << >>
    /\ stage = [w \in DbWorker |-> Rest]
    /\ accounts = [a \in Account |-> Nobody]
    /\ nextId = 1
    /\ state = [s \in Session |-> "NONE"]
    /\ playerId = [s \in Session |-> 0]
    /\ gen = [s \in Session |-> 0]
    /\ online = {}
    /\ client = [s \in Session |-> "gone"]
    /\ asked = [s \in Session |-> Nobody]
    /\ mail = [s \in Session |-> << >>]
    /\ lost = {}
    /\ clean = {}

-----------------------------------------------------------------------------
\* Mutation: any thread takes any job.
ThreadByJob(s, kind) ==
    (s + IF kind = "S_LOGIN" THEN 1 ELSE 0) % NumThreads

\* PushJob: the address of the session selects the thread, whatever the job.
ThreadOf(s, kind) == s % NumThreads

PushJob(job) ==
    LET t == ThreadOf(job.session, job.kind)
    IN  inbox' = [inbox EXCEPT ![t] = Append(@, job)]

Plain(kind, s) == [kind |-> kind, session |-> s, for |-> gen[s],
                   account |-> Nobody, password |-> Nobody, id |-> 0]

\* What is left of earlier clients of s that can still act on it: a job, an
\* answer about to be applied, a query that will pass the comparison of
\* generations or has passed it.
Traces(s) ==
    \/ \E t \in LogicThread :
          \/ \E i \in DOMAIN inbox[t] : inbox[t][i].session = s
          \/ letting[t] # << >> /\ letting[t].session = s
    \/ \E i \in DOMAIN tasks :
          queries[tasks[i]].session = s /\ queries[tasks[i]].gen = gen[s]
    \/ \E w \in DbWorker :
          /\ stage[w] # Rest
          /\ queries[running[w]].session = s
          /\ stage[w] = "compare" => queries[running[w]].gen = gen[s]

\* Dispatch: the session's state is reset when it is accepted, ...
Accept(s) ==
    /\ s \notin online
    /\ Cardinality(online) + FoldFunction(+, 0, gen) < MaxClients
    /\ online' = online \cup {s}
    /\ state' = [state EXCEPT ![s] = "CONNECTED"]
    /\ client' = [client EXCEPT ![s] = "new"]
    /\ clean' = IF Traces(s) THEN clean \ {s} ELSE clean \cup {s}
    /\ UNCHANGED <<dbVars, inbox, letting, sql, playerId, gen, asked, mail>>

\* ... but not when it is cleared.
Disconnect(s) ==
    /\ s \in online
    /\ online' = online \ {s}
    /\ gen' = [gen EXCEPT ![s] = @ + 1]
    /\ client' = [client EXCEPT ![s] = "gone"]
    /\ asked' = [asked EXCEPT ![s] = Nobody]
    /\ mail' = [mail EXCEPT ![s] = << >>]
    /\ UNCHANGED <<dbVars, inbox, letting, sql, session, clean>>

\* The client asks, ...
ClientLogin(s) ==
    /\ client[s] = "new"
    /\ \E a \in Account, p \in Password :
          /\ PushJob([Plain("C_LOGIN", s) EXCEPT !.account = a, !.password = p])
          /\ asked' = [asked EXCEPT ![s] = <<a, p>>]
    /\ client' = [client EXCEPT ![s] = "asked"]
    /\ UNCHANGED <<dbVars, letting, sql, session, conn, mail>>

\* ... takes its id from a good answer, ...
ClientReads(s) ==
    /\ client[s] \in {"asked", "refused", "entered"}
    /\ mail[s] # << >>
    /\ client' = [client EXCEPT ![s] = IF Head(mail[s]).id = 0 THEN "refused"
                                       ELSE "knows its id"]
    /\ mail' = [mail EXCEPT ![s] = Tail(@)]
    /\ UNCHANGED <<dbVars, inbox, letting, sql, session, conn, asked>>

\* ... asks to enter on one thread, and on the other moves as soon as it has
\* an id (what it does later is World's and Combat's).
ClientMovesEarly(s) ==
    /\ client[s] = "knows its id"
    /\ PushJob(Plain("C_MOVE", s))
    /\ client' = [client EXCEPT ![s] = "moved"]
    /\ UNCHANGED <<dbVars, letting, sql, session, conn, asked, mail>>

ClientEnter(s) ==
    /\ client[s] \in {"knows its id", "moved"}
    /\ PushJob(Plain("C_ENTER_GAME", s))
    /\ client' = [client EXCEPT ![s] = "entered"]
    /\ UNCHANGED <<dbVars, letting, sql, session, conn, asked, mail>>

-----------------------------------------------------------------------------
\* Thread t takes its next job, which is of this kind.
Handles(t, kind) ==
    /\ t \notin notifying /\ letting[t] = << >>
    /\ inbox[t] # << >> /\ Head(inbox[t]).kind = kind
    /\ inbox' = [inbox EXCEPT ![t] = Tail(@)]

\* Handle_C_LOGIN captures the session, its generation and what was asked.
HandleLogin(t) ==
    LET job == Head(inbox[t])
    IN  /\ Handles(t, "C_LOGIN")
        /\ PushQuery(t, Len(queries) + 1)
        /\ queries' = Append(queries,
              [session |-> job.session, gen |-> gen[job.session],
               for |-> job.for, account |-> job.account,
               password |-> job.password])
        /\ UNCHANGED <<letting, stage, accounts, nextId, lost, session, conn,
                       clients>>

Notify(t) ==
    /\ NotifyOne(t)
    /\ UNCHANGED <<inbox, letting, sql, session, conn, clients>>

\* Handle_S_LOGIN sends the answer to whoever is connected, ...
HandleAnswer(t) ==
    LET job == Head(inbox[t])
        s == job.session
    IN  /\ Handles(t, "S_LOGIN")
        /\ mail' = IF s \in online
                   THEN [mail EXCEPT ![s] = Append(@, [id |-> job.id,
                                                       for |-> job.for])]
                   ELSE mail
        /\ letting' = [letting EXCEPT ![t] = IF job.id # 0 THEN job ELSE @]
        /\ UNCHANGED <<dbVars, sql, session, conn, client, asked>>

\* ... and then sets the session's id and state.
LetIn(t) ==
    LET job == letting[t]
    IN  /\ job # << >>
        /\ playerId' = [playerId EXCEPT ![job.session] = job.id]
        /\ state' = [state EXCEPT ![job.session] = "LOBBY"]
        /\ letting' = [letting EXCEPT ![t] = << >>]
        /\ UNCHANGED <<dbVars, inbox, sql, conn, clients>>

\* Handle_C_ENTER_GAME ignores a session that is not in the lobby.
HandleEnter(t) ==
    LET s == Head(inbox[t]).session
    IN  /\ Handles(t, "C_ENTER_GAME")
        /\ state' = IF state[s] = "LOBBY" THEN [state EXCEPT ![s] = "GAME"]
                                          ELSE state
        /\ UNCHANGED <<dbVars, letting, sql, playerId, conn, clients>>

HandleMove(t) ==
    /\ Handles(t, "C_MOVE")
    /\ UNCHANGED <<dbVars, letting, sql, session, conn, clients>>

-----------------------------------------------------------------------------
\* What a worker does about its task.
Query(w) == queries[running[w]]

ToStage(w, where) == stage' = [stage EXCEPT ![w] = where]

Answer(q, id) ==
    PushJob([kind |-> "S_LOGIN", session |-> q.session, for |-> q.for,
             account |-> Nobody, password |-> Nobody, id |-> id])

\* The task, or the worker, ends without an answer that should be one.
Loses(w) ==
    /\ ToStage(w, Rest)
    /\ lost' = lost \cup {running[w]}
    /\ UNCHANGED inbox

TakeTask(w) ==
    /\ Take(w)
    /\ ToStage(w, "compare")
    /\ UNCHANGED <<inbox, letting, queries, accounts, nextId, lost, session,
                   conn, clients>>

ConnectionInvalid(w) ==
    /\ stage[w] = "compare"
    /\ Finish(w) \/ EndByException(w)
    /\ Loses(w)
    /\ UNCHANGED <<letting, queries, accounts, nextId, session, conn, clients>>

\* Mutation: the generation is not looked at.
CompareNothing(w) ==
    /\ stage[w] = "compare"
    /\ ToStage(w, "select")
    /\ UNCHANGED <<dbVars, inbox, letting, queries, accounts, nextId, lost,
                   session, conn, clients>>

\* The connection is valid, and the lambda runs: it compares the generation...
CompareGeneration(w) ==
    /\ stage[w] = "compare"
    /\ IF gen[Query(w).session] = Query(w).gen
       THEN ToStage(w, "select") /\ UNCHANGED dbVars
       ELSE ToStage(w, Rest) /\ Finish(w)
    /\ UNCHANGED <<inbox, letting, queries, accounts, nextId, lost, session,
                   conn, clients>>

\* ... and looks for the account.
Select(w) ==
    LET q == Query(w)
        found == accounts[q.account]
    IN  /\ stage[w] = "select"
        /\ IF found \in {Nobody, q.password}
           THEN /\ ToStage(w, IF found = Nobody THEN "insert" ELSE "update")
                /\ UNCHANGED <<dbVars, inbox>>
           ELSE ToStage(w, Rest) /\ Finish(w) /\ Answer(q, 0)
        /\ UNCHANGED <<letting, queries, accounts, nextId, lost, session, conn,
                       clients>>

\* The password matches: an id is assigned, last_login updated, and the answer
\* pushed.
Update(w) ==
    /\ stage[w] = "update"
    /\ nextId' = nextId + 1
    /\ ToStage(w, Rest) /\ Finish(w) /\ Answer(Query(w), nextId)
    /\ UNCHANGED <<letting, queries, accounts, lost, session, conn, clients>>

\* Mutation: a new account's id is not counted.
InsertUncounted(w) ==
    LET q == Query(w)
    IN  /\ stage[w] = "insert"
        /\ accounts[q.account] = Nobody
        /\ accounts' = [accounts EXCEPT ![q.account] = q.password]
        /\ ToStage(w, Rest) /\ Finish(w) /\ Answer(q, nextId)
        /\ UNCHANGED <<letting, queries, nextId, lost, session, conn, clients>>

\* The account is new, unless another worker has inserted it meanwhile
\* (user_id is the key of the table).
Insert(w) ==
    LET q == Query(w)
    IN  /\ stage[w] = "insert"
        /\ accounts[q.account] = Nobody
        /\ accounts' = [accounts EXCEPT ![q.account] = q.password]
        /\ nextId' = nextId + 1
        /\ ToStage(w, Rest) /\ Finish(w) /\ Answer(q, nextId)
        /\ UNCHANGED <<letting, queries, lost, session, conn, clients>>

\* A statement throws, and the lambda catches it: the client is told nothing.
StatementFails(w) ==
    /\ stage[w] \in {"select", "update", "insert"}
    /\ nextId' = IF stage[w] = "update" THEN nextId + 1 ELSE nextId
    /\ Finish(w) /\ Loses(w)
    /\ UNCHANGED <<letting, queries, accounts, session, conn, clients>>

WorkerAlone(w) ==
    /\ Connect(w) \/ ConnectFails(w) \/ Sleep(w)
    /\ UNCHANGED <<inbox, letting, sql, session, conn, clients>>

WakesForNothing(w) ==
    /\ WakeUp(w)
    /\ UNCHANGED <<inbox, letting, sql, session, conn, clients>>

-----------------------------------------------------------------------------
LogicStep(t) ==
    \/ HandleLogin(t) \/ Notify(t) \/ HandleAnswer(t) \/ LetIn(t)
    \/ HandleEnter(t) \/ HandleMove(t)

WorkerStep(w) ==
    \/ WorkerAlone(w) \/ TakeTask(w) \/ ConnectionInvalid(w)
    \/ CompareGeneration(w) \/ Select(w) \/ Update(w) \/ Insert(w)
    \/ StatementFails(w)

Next ==
    \/ \E s \in Session :
          \/ Accept(s) \/ Disconnect(s) \/ ClientLogin(s) \/ ClientReads(s)
          \/ ClientMovesEarly(s) \/ ClientEnter(s)
    \/ \E t \in LogicThread : LogicStep(t)
    \/ \E w \in DbWorker : WorkerStep(w) \/ WakesForNothing(w)

Spec == Init /\ [][Next]_vars

\* Threads run on: a logic thread with a job, and a worker that is not asleep;
\* nobody owes a sleeping worker a spurious wake-up.
Fairness ==
    /\ \A t \in LogicThread : WF_vars(LogicStep(t))
    /\ \A w \in DbWorker : WF_vars(WorkerStep(w))

FairSpec == Spec /\ Fairness

-----------------------------------------------------------------------------
Captured == [session : Session, gen : Client, for : Client, account : Account,
             password : Password]

TypeOK ==
    /\ DbTypeOK
    /\ inbox \in [LogicThread -> Seq(Job)]
    /\ letting \in [LogicThread -> Job \cup {<< >>}]
    /\ queries \in Seq(Captured) /\ Len(queries) <= MaxTasks
    /\ stage \in [DbWorker ->
                    {Rest, "compare", "select", "update", "insert"}]
    /\ accounts \in [Account -> Password \cup {Nobody}]
    /\ nextId \in 1 .. MaxTasks + 1
    /\ state \in [Session -> {"NONE", "CONNECTED", "LOBBY", "GAME"}]
    /\ playerId \in [Session -> 0 .. MaxTasks]
    /\ gen \in [Session -> Client]
    /\ online \subseteq Session /\ clean \subseteq Session
    /\ client \in [Session -> {"gone", "new", "asked", "refused",
                               "knows its id", "moved", "entered"}]
    /\ asked \in [Session -> (Account \X Password) \cup {Nobody}]
    /\ mail \in [Session -> Seq([id : 0 .. MaxTasks, for : Client])]
    /\ lost \subseteq Task

\* FindSession (World.cpp:391) and the respawn timer find a player by its id:
\* no two sessions have the same one, also when two workers answer at once or
\* the session outlives its client.
IdsDiffer ==
    \A s, r \in Session :
        s # r /\ playerId[s] # 0 => playerId[s] # playerId[r]

\* Who is let into the lobby or the game knows the password of the account it
\* asked for: no late answer to another client lets it in, provided nothing of
\* that client was past the comparison of generations when it was accepted
\* (PacketHandler.cpp:34).
OnlyTheRightfulEnter ==
    \A s \in online \cap clean :
        state[s] \in {"LOBBY", "GAME"} =>
            asked[s] # Nobody /\ accounts[asked[s][1]] = asked[s][2]

\* A client that was let in and asks to enter is in the lobby by the time its
\* job is handled, although Handle_S_LOGIN sends before it sets the state: the
\* thread is the same (LogicManager.h:64-65).
EnterIsAccepted ==
    \A t \in LogicThread :
        inbox[t] # << >> /\ letting[t] = << >> =>
            LET job == Head(inbox[t])
            IN  /\ job.kind = "C_ENTER_GAME"
                /\ job.session \in online \cap clean
                /\ job.for = gen[job.session]
                => state[job.session] = "LOBBY"

\* A login is answered while the connection lasts, unless its statements
\* failed, its worker's connection did, or no worker is left
\* (DBManager.cpp:86, 92).
LoginIsAnswered ==
    \A s \in Session :
        (client[s] = "asked" /\ s \in clean)
            ~> (\/ client[s] # "asked" \/ mail[s] # << >>
                \/ \E q \in lost :
                      queries[q].session = s /\ queries[q].for = gen[s]
                \/ At("gone") = DbWorker)

-----------------------------------------------------------------------------
\* Statements that the repository makes and the code does not keep.

\* The result is ignored when the session was reused meanwhile
\* (PacketHandler.cpp:33): an answer is for the client that asked.
AnswersAreOwn ==
    \A s \in online : \A i \in DOMAIN mail[s] : mail[s][i].for = gen[s]

\* The client does not move before it is in the game (Client/Main.cpp:244).
NoMoveBeforeEntering ==
    \A t \in LogicThread :
        inbox[t] # << >> /\ letting[t] = << >> /\ Head(inbox[t]).kind = "C_MOVE"
            => state[Head(inbox[t]).session] = "GAME"
=============================================================================
