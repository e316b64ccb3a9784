------------------------------- MODULE Inbox -------------------------------
(***************************************************************************)
(* What the job queues promise a session: its packets are handled in the   *)
(* order they were queued, each once, and never two of them at a time, so  *)
(* that a handler needs no lock for what belongs to its own session.       *)
(***************************************************************************)
EXTENDS Sequences

CONSTANTS
    Session,
    PacketsOf   \* the packets of each session

VARIABLES
    pending,    \* the packets of each session that wait, in order
    working     \* those that are being handled

inboxVars == <<pending, working>>

InboxInit ==
    /\ pending = [s \in Session |-> <<>>]
    /\ working = [s \in Session |-> {}]

Arrive(s, packet) ==
    /\ pending' = [pending EXCEPT ![s] = Append(@, packet)]
    /\ UNCHANGED working

Start(s) ==
    /\ pending[s] # <<>>
    /\ working[s] = {}
    /\ working' = [working EXCEPT ![s] = {Head(pending[s])}]
    /\ pending' = [pending EXCEPT ![s] = Tail(@)]

Done(s) ==
    /\ working[s] # {}
    /\ working' = [working EXCEPT ![s] = {}]
    /\ UNCHANGED pending

InboxNext ==
    \E s \in Session : Start(s) \/ Done(s) \/ \E p \in PacketsOf[s] : Arrive(s, p)

InboxSpec ==
    /\ InboxInit
    /\ [][InboxNext]_inboxVars
    /\ \A s \in Session : WF_inboxVars(Start(s)) /\ WF_inboxVars(Done(s))
=============================================================================
