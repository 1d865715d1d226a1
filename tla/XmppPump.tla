------------------------------ MODULE XmppPump ------------------------------
(***************************************************************************)
(* The thread with a client for one login (talk/xmpp/xmppthread.cc and     *)
(* xmpppump.cc).  Login and Disconnect post messages; the pump handles     *)
(* them and its own wake-ups in order, one per action.                     *)
(*                                                                         *)
(* The client is a task of the pump from its construction, and the runner  *)
(* deletes it in the run in which it is found done.  What comes from the   *)
(* server is external here: the engine of a client that is connected opens *)
(* and closes at any time (module XmppEngine).                             *)
(***************************************************************************)
EXTENDS Naturals, Sequences

CONSTANT MaxInputs      \* bound: calls of Login, Disconnect and SendStanza

VARIABLES
    queue,          \* messages of the thread
    pump_state,     \* state_
    told,           \* what OnStateChange of notify_ was given last
    socket,         \* the client has a socket: Connect was called
    task,           \* the client as a task: INIT, RESPONSE, ENDED, DELETED
    blocked,        \* blocked_ of the task
    entries,        \* how often the runner has it in its list
    deletions,      \* how often the runner has deleted it
    engine,         \* state of the client's engine
    early,          \* a second Login came before the client had run
    touched,        \* a client that was deleted has been called
    inputs          \* what is left of the bound

client_vars == <<socket, task, blocked, entries, deletions, engine>>
vars == <<queue, pump_state, told, client_vars, early, touched, inputs>>

\* XmppEngine::State
EngineState == {"NONE", "START", "OPENING", "OPEN", "CLOSED"}

Init ==
    /\ queue = <<>> /\ pump_state = "NONE" /\ told = "NONE"
    /\ socket = FALSE /\ task = "INIT" /\ blocked = FALSE /\ entries = 0 /\ deletions = 0
    /\ engine = "NONE"
    /\ early = FALSE /\ touched = FALSE /\ inputs = MaxInputs

Input == inputs > 0 /\ inputs' = inputs - 1

\* A task that has stopped is no child of the runner any more.
AllChildrenDone == task \in {"ENDED", "DELETED"}

\* The guard before a call of the client is forgotten.
AlwaysCall == TRUE
MayCall == ~AllChildrenDone

\* OnStateChange: the same state is not told twice.
OnStateChange(state) ==
    /\ pump_state' = state
    /\ told' = IF pump_state = state THEN told ELSE state

\* Task::Wake of the client, with what is left of the queue.
Wake(rest) ==
    /\ queue' = IF blocked THEN Append(rest, "WAKE") ELSE rest
    /\ blocked' = FALSE

-----------------------------------------------------------------------------

\* XmppThread::Login and Disconnect, by any thread.
Login ==
    /\ Input /\ queue' = Append(queue, "LOGIN")
    /\ UNCHANGED <<pump_state, told, client_vars, early, touched>>
Disconnect ==
    /\ Input /\ queue' = Append(queue, "DISCONNECT")
    /\ UNCHANGED <<pump_state, told, client_vars, early, touched>>

\* DoLogin: Connect of a client that has a socket is refused, Start of one
\* that has run does nothing, but of one that has not run yet puts it on the
\* list of the runner once more.
DoLogin ==
    /\ queue # <<>> /\ Head(queue) = "LOGIN"
    /\ OnStateChange("START")
    /\ IF MayCall
       THEN /\ touched' = (touched \/ task = "DELETED")
            /\ socket' = TRUE
            /\ engine' = IF socket THEN engine ELSE "START"
            /\ early' = (early \/ (task = "INIT" /\ entries > 0))
            /\ IF task = "INIT"
               THEN entries' = entries + 1 /\ queue' = Append(Tail(queue), "WAKE")
               ELSE UNCHANGED entries /\ queue' = Tail(queue)
       ELSE UNCHANGED <<touched, socket, engine, early, entries>> /\ queue' = Tail(queue)
    /\ UNCHANGED <<task, blocked, deletions, inputs>>

\* DoDisconnect: Disconnect of the client aborts its task, which wakes the
\* runner, closes the engine, and lets the socket go; without a socket it does
\* nothing.  The pump says closed in any case.
DoDisconnect ==
    /\ queue # <<>> /\ Head(queue) = "DISCONNECT"
    /\ IF MayCall /\ socket
       THEN /\ touched' = (touched \/ task = "DELETED")
            /\ task' = "ENDED" /\ blocked' = TRUE
            /\ engine' = "CLOSED" /\ socket' = FALSE
            /\ queue' = Append(Tail(queue), "WAKE")
       ELSE UNCHANGED <<touched, task, blocked, engine, socket>> /\ queue' = Tail(queue)
    /\ OnStateChange("CLOSED")
    /\ UNCHANGED <<entries, deletions, early, inputs>>

\* The runner deletes a client that is done, for every entry of its list.
Deleted == task' = "DELETED" /\ deletions' = deletions + entries /\ entries' = 0

\* OnMessage, RunTasks: the client runs until it blocks or is done.  One that
\* was started passes the authentication, which XmppAuth does at once, and
\* connects, which may fail; one that is connected is done when its engine is
\* closed.
OnMessage ==
    /\ queue # <<>> /\ Head(queue) = "WAKE"
    /\ queue' = Tail(queue)
    /\ IF entries = 0 THEN UNCHANGED <<pump_state, told, task, blocked, entries, deletions>>
       ELSE \/ /\ task = "INIT"
               /\ task' = "RESPONSE" /\ blocked' = TRUE
               /\ UNCHANGED <<pump_state, told, entries, deletions>>
            \/ task = "INIT" /\ OnStateChange("CLOSED") /\ Deleted /\ blocked' = TRUE
            \/ /\ task = "RESPONSE" /\ engine # "CLOSED"
               /\ blocked' = TRUE
               /\ UNCHANGED <<pump_state, told, task, entries, deletions>>
            \/ /\ task = "ENDED" \/ (task = "RESPONSE" /\ engine = "CLOSED")
               /\ Deleted /\ blocked' = TRUE
               /\ UNCHANGED <<pump_state, told>>
    /\ UNCHANGED <<socket, engine, early, touched, inputs>>

\* SendStanza, called on the thread of the pump by a program that has logged
\* in: before that there is no engine.
SendStanza ==
    /\ Input /\ engine # "NONE"
    /\ touched' = (touched \/ (MayCall /\ task = "DELETED"))
    /\ UNCHANGED <<queue, pump_state, told, client_vars, early>>

\* What the engine of a connected client says goes to the pump, and the client
\* is woken (XmppClient::Private::OnStateChange).
EngineSays(state) ==
    /\ task = "RESPONSE"
    /\ engine' = state
    /\ OnStateChange(state)
    /\ Wake(queue)
    /\ UNCHANGED <<socket, task, entries, deletions, early, touched, inputs>>

EngineProceeds ==
    \/ engine = "START" /\ EngineSays("OPENING")
    \/ engine = "OPENING" /\ EngineSays("OPEN")
EngineCloses == engine # "CLOSED" /\ EngineSays("CLOSED")

Next ==
    \/ Login \/ Disconnect \/ SendStanza
    \/ DoLogin \/ DoDisconnect \/ OnMessage
    \/ EngineProceeds \/ EngineCloses

Spec == Init /\ [][Next]_vars

-----------------------------------------------------------------------------

TypeOK ==
    /\ \A i \in DOMAIN queue : queue[i] \in {"LOGIN", "DISCONNECT", "WAKE"}
    /\ pump_state \in EngineState /\ told \in EngineState
    /\ task \in {"INIT", "RESPONSE", "ENDED", "DELETED"} /\ blocked \in BOOLEAN /\ engine \in EngineState
    /\ entries \in Nat /\ deletions \in Nat

\* The client is deleted at most once and never used afterwards, and what the
\* program was told of the connection is true of the engine: open only if it
\* is, closed only if it is closed, was never started or could not connect; and
\* a client with something to do is in the queue of the thread.  The exception
\* to the first is a second login before the first one has run, which has the
\* client twice on the list of the runner.
ClientUsedWell ==
    /\ ~touched
    /\ deletions <= 1 \/ early
    /\ told = "OPEN" => engine = "OPEN"
    /\ told = "CLOSED" => \/ engine \in {"NONE", "CLOSED"}
                          \/ engine = "START" /\ task = "DELETED"
    /\ entries > 0 /\ (task = "ENDED" \/ ~blocked) =>
           \E k \in DOMAIN queue : queue[k] = "WAKE"

\* The same without the exception.  It does not hold.
DeletedOnce == deletions <= 1
=============================================================================
