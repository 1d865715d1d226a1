------------------------------ MODULE XmppClient ------------------------------
(***************************************************************************)
(* The session as an application sees it: PumpThread (gxmpp), the          *)
(* XmppClient task it logs in with, the XmppSocket under it and the        *)
(* XmppTasks above it (talk/xmpp).                                         *)
(*                                                                         *)
(* Everything runs on the pump's thread, one posted message or one socket  *)
(* event at a time, so each of them is one action; what makes the order    *)
(* interesting is the queue between them.  Application threads post LOGIN  *)
(* and DISCONNECT; the pump posts OPEN and CLOSED to itself, and the task  *)
(* runner RUN, when a task wakes or is aborted.  TaskRunner specifies the  *)
(* runner in detail: here one RUN steps every runnable task until it       *)
(* blocks and deletes the finished ones.  XmppEngine specifies the engine: *)
(* here it only goes forward through its states, and hands stanzas to the  *)
(* tasks that registered with it.                                          *)
(*                                                                         *)
(* The output buffer of XmppSocket and the roster module of the pump are   *)
(* left out, as are TLS sockets: FEATURE_ENABLE_SSL is not defined.        *)
(***************************************************************************)
EXTENDS Integers, Sequences

CONSTANTS
    MaxLogins,      \* bound: logins, one XmppClient each
    MaxDisconnects, \* bound: DISCONNECT messages
    MaxStanzas,     \* bound: stanzas for tasks
    Task,           \* the XmppTasks applications create
    Iq,             \* those of them that are IqTasks, the others ReceiveTasks
    AuthOutcome     \* what StartPreXmppAuth may lead to

ASSUME BoundAssumption ==
    MaxLogins \in Nat /\ MaxDisconnects \in Nat /\ MaxStanzas \in Nat
ASSUME TaskAssumption == Iq \subseteq Task
ASSUME AuthAssumption == AuthOutcome \subseteq {"authorized", "denied", "pending"}

Client  == 1 .. MaxLogins
Message == {"LOGIN", "DISCONNECT", "OPEN", "CLOSED", "RUN"}

\* Where an XmppClient task rests between runs.
Phase == {"none", "INIT", "PRE_XMPP_LOGIN", "RESPONSE", "DONE", "deleted"}

EngineStates == {"NONE", "START", "OPENING", "OPEN", "CLOSED"}
Rank == [s \in EngineStates |->
            CASE s = "NONE" -> 0 [] s = "START" -> 1 [] s = "OPENING" -> 2
              [] s = "OPEN" -> 3 [] OTHER -> 4]

VARIABLES
    msgs,           \* the queue of the pump's thread
    client,         \* PumpThread::client_, 0 while unassigned
    state,          \* PumpThread::state_
    connected,      \* clients whose SignalStateChange the pump is connected to
    phase,          \* state_ and done_ of each client
    engine,         \* state of its engine_
    socket,         \* state_ of its socket_, "none" when it has no socket
    net,            \* the connection under the socket
    pre_auth,       \* its pre_auth_
    signal_closed,  \* clients whose signal_closed_ is set
    task,           \* "none", "live", "DONE" or "deleted"
    parent,         \* the client a task was created under
    handlers,       \* tasks registered with their client's engine
    queue,          \* number of stanzas in a task's stanza_queue_
    runnable,       \* started clients with blocked_ not set
    awake,          \* started tasks with blocked_ not set
    undefined,      \* a deleted or unassigned client_ has been used
    \* history
    reported,       \* how often a client's end was reported to the pump
    signalled,      \* how many ends were signalled to the application
    logins,         \* how many logins it asked for
    disconnects, stanzas    \* what is left of the bounds

client_vars == <<phase, engine, socket, net, pre_auth, signal_closed>>
task_vars   == <<task, parent, handlers, queue>>
run_vars    == <<runnable, awake>>
pump_vars   == <<client, state, connected, reported>>
app_vars    == <<signalled, logins, disconnects, stanzas>>
vars == <<msgs, client_vars, task_vars, pump_vars, run_vars, undefined,
          app_vars>>

Init ==
    /\ msgs = <<>> /\ client = 0 /\ state = "NONE" /\ connected = {}
    /\ phase = [c \in Client |-> "none"]
    /\ engine = [c \in Client |-> "NONE"]
    /\ socket = [c \in Client |-> "none"]
    /\ net = [c \in Client |-> "none"]
    /\ pre_auth = [c \in Client |-> "none"]
    /\ signal_closed = {}
    /\ task = [t \in Task |-> "none"]
    /\ parent = [t \in Task |-> 0]
    /\ handlers = {} /\ runnable = {} /\ awake = {} /\ undefined = FALSE
    /\ queue = [t \in Task |-> 0]
    /\ reported = [c \in Client |-> 0]
    /\ signalled = 0 /\ logins = 0
    /\ disconnects = MaxDisconnects /\ stanzas = MaxStanzas

-----------------------------------------------------------------------------
Created   == {c \in Client : phase[c] # "none"}
Live      == {c \in Created : phase[c] \notin {"DONE", "deleted"}}
LiveTasks == {t \in Task : task[t] = "live"}
Under(cs) == {t \in LiveTasks : parent[t] \in cs}

\* Task::Wake posts a message when the task was blocked.
WakeClient(c) == runnable' = runnable \union ({c} \cap Live)
WakeUp(c)     == IF c \in Live \ runnable THEN <<"RUN">> ELSE <<>>

\* PumpThread::OnStateChange, and what XmppClient makes of the state of its
\* engine: EnsureClosed signals the end once.
Told(c, s)  == c \in connected /\ (s = "CLOSED" => c \notin signal_closed)
PostsAll(c, s) == IF Told(c, s) THEN <<s>> ELSE <<>>
Posts(c, s) == IF Told(c, s) /\ s \in {"OPEN", "CLOSED"} THEN <<s>> ELSE <<>>
StateOnMessage(c, s) == IF Told(c, s) /\ s # "CLOSED" THEN s ELSE state
NewState(c, s)       == IF Told(c, s) THEN s ELSE state
OnStateChange(c, s) ==
    /\ state' = NewState(c, s)
    /\ reported' = IF Told(c, s) /\ s = "CLOSED"
                   THEN [reported EXCEPT ![c] = @ + 1] ELSE reported
    /\ signal_closed' = IF s = "CLOSED" THEN signal_closed \union {c}
                        ELSE signal_closed

\* The tasks in ts stop: XmppTask::Stop drains their queues and unregisters
\* them.
Unregistered(ts) == ts
StopTasks(ts, fate) ==
    /\ task' = [t \in Task |-> IF t \in ts THEN fate ELSE task[t]]
    /\ handlers' = handlers \ Unregistered(ts)
    /\ queue' = [t \in Task |-> IF t \in ts THEN 0 ELSE queue[t]]

NoTaskWakeUp(t) == <<>>
TaskWakeUp(t) == IF t \in LiveTasks \ awake THEN <<"RUN">> ELSE <<>>

\* Code runs until client_ has been used after its deletion.
Going       == ~undefined
Received(m) == Going /\ msgs # <<>> /\ Head(msgs) = m

-----------------------------------------------------------------------------
\* The application.  It logs in again once the end of the last session has
\* been signalled, and disconnects only what it has logged in.
Login ==
    /\ Going /\ logins < MaxLogins /\ logins = signalled
    /\ logins' = logins + 1
    /\ msgs' = Append(msgs, "LOGIN")
    /\ UNCHANGED <<client_vars, task_vars, pump_vars, run_vars, undefined,
                   signalled, disconnects, stanzas>>

Disconnect ==
    /\ Going /\ logins > 0 /\ disconnects > 0
    /\ disconnects' = disconnects - 1
    /\ msgs' = Append(msgs, "DISCONNECT")
    /\ UNCHANGED <<client_vars, task_vars, pump_vars, run_vars, undefined,
                   signalled, logins, stanzas>>

\* Code of the application on the pump's thread asks for client() and starts
\* a task under it.  XmppTask::XmppTask registers with the engine.
HandedOut == IF state = "OPEN" THEN {client} ELSE {}

StartTask(t) ==
    /\ Going /\ task[t] = "none"
    /\ \E c \in HandedOut :
           /\ task' = [task EXCEPT ![t] = "live"]
           /\ parent' = [parent EXCEPT ![t] = c]
    /\ handlers' = handlers \union {t}
    /\ awake' = awake \union {t}
    /\ msgs' = Append(msgs, "RUN")
    /\ UNCHANGED <<runnable, client_vars, pump_vars, queue, undefined,
                   app_vars>>

AbortTask(t) ==
    /\ Going /\ t \in LiveTasks
    /\ StopTasks({t}, "DONE")
    /\ awake' = awake \ {t}
    /\ msgs' = Append(msgs, "RUN")
    /\ UNCHANGED <<runnable, client_vars, pump_vars, parent, undefined,
                   app_vars>>

-----------------------------------------------------------------------------
\* Messages.
DoLogin ==
    LET c == client + 1 IN
    /\ Received("LOGIN") /\ client < MaxLogins
    /\ client' = c
    /\ state' = "START"
    /\ connected' = connected \union {c}
    /\ phase' = [phase EXCEPT ![c] = "INIT"]
    /\ engine' = [engine EXCEPT ![c] = "START"]
    /\ socket' = [socket EXCEPT ![c] = "CLOSED"]
    /\ runnable' = runnable \union {c}
    /\ msgs' = Append(Tail(msgs), "RUN")
    /\ UNCHANGED <<awake, net, pre_auth, signal_closed, task_vars, reported,
                   undefined, app_vars>>

Aborted(c) == [phase EXCEPT ![c] = "DONE"]

\* XmppClient::Disconnect: Abort takes the children along, the engine closes
\* and reports it, and the socket is deleted.
DisconnectClient(c) ==
    LET closing == engine[c] # "CLOSED" IN
    /\ phase' = Aborted(c)
    /\ StopTasks(Under({c}), "DONE")
    /\ runnable' = runnable \ {c}
    /\ awake' = awake \ Under({c})
    /\ engine' = [engine EXCEPT ![c] = "CLOSED"]
    /\ IF closing THEN OnStateChange(c, "CLOSED")
       ELSE UNCHANGED <<state, reported, signal_closed>>
    /\ msgs' = Tail(msgs) \o <<"RUN">>
                    \o (IF closing THEN Posts(c, "CLOSED") ELSE <<>>)
    /\ socket' = [socket EXCEPT ![c] = "none"]
    /\ net' = [net EXCEPT ![c] = IF @ = "none" THEN @ ELSE "closed"]
    /\ UNCHANGED <<pre_auth, parent>>

\* What client_->SignalStateChange.disconnect(this) does.
LetGo == connected' = connected \ {client}

DoDisconnect ==
    /\ Received("DISCONNECT")
    /\ client # 0 /\ phase[client] # "deleted"
    /\ Live # {} /\ socket[client] # "none"
    /\ DisconnectClient(client)
    /\ LetGo
    /\ UNCHANGED <<client, undefined, app_vars>>

\* AllChildrenDone, or the client is disconnected already: only the signal is
\* let go.
DoDisconnectDone ==
    /\ Received("DISCONNECT")
    /\ client # 0 /\ phase[client] # "deleted"
    /\ Live = {} \/ socket[client] = "none"
    /\ LetGo
    /\ msgs' = Tail(msgs)
    /\ UNCHANGED <<client_vars, task_vars, client, state, reported, run_vars,
                   undefined, app_vars>>

\* client_ points to a client that RunTasks has deleted: nothing more is said
\* of this behaviour.
DoDisconnectDangling ==
    /\ Received("DISCONNECT")
    /\ client = 0 \/ phase[client] = "deleted"
    /\ undefined' = TRUE
    /\ UNCHANGED <<msgs, client_vars, task_vars, pump_vars, run_vars,
                   app_vars>>

DoOnXmppOpen ==
    /\ Received("OPEN")
    /\ msgs' = Tail(msgs)
    /\ UNCHANGED <<client_vars, task_vars, pump_vars, run_vars, undefined,
                   app_vars>>

DoOnXmppClosed ==
    /\ Received("CLOSED")
    /\ signalled' = signalled + 1
    /\ msgs' = Tail(msgs)
    /\ UNCHANGED <<client_vars, task_vars, pump_vars, run_vars, undefined,
                   logins, disconnects, stanzas>>

-----------------------------------------------------------------------------
\* RunTasks.  Where a runnable client goes before it blocks: ProcessStart
\* starts the authentication, which may end at once (outcome o),
\* ProcessTokenLogin waits for it, ProcessStartXmppLogin connects the socket
\* (ok when that does not fail at once), and ProcessResponse ends the task
\* when the engine is closed.
Auth(c, o) == IF phase[c] = "INIT" THEN o ELSE pre_auth[c]

After(c, o, ok) ==
    IF phase[c] = "RESPONSE"
    THEN IF engine[c] = "CLOSED" THEN "DONE" ELSE "RESPONSE"
    ELSE IF socket[c] = "none" THEN "DONE"
    ELSE IF Auth(c, o) = "pending" THEN "PRE_XMPP_LOGIN"
    ELSE IF Auth(c, o) = "authorized" /\ ok THEN "RESPONSE" ELSE "DONE"

\* A login that fails before the engine is connected: EnsureClosed tells the
\* pump.
FailingSilently(c, next) == FALSE
Failing(c, next) ==
    phase[c] # "RESPONSE" /\ socket[c] # "none" /\ next = "DONE"
EnsureClosed(c, next) ==
    IF Failing(c, next) THEN OnStateChange(c, "CLOSED")
    ELSE UNCHANGED <<state, reported, signal_closed>>

\* The client c is stepped, and goes to next.
StepClient(c, o, next) ==
    /\ EnsureClosed(c, next)
    /\ phase' = [x \in Client |->
                    IF phase[x] = "DONE" \/ (x = c /\ next = "DONE")
                    THEN "deleted" ELSE IF x = c THEN next ELSE phase[x]]
    /\ pre_auth' = [pre_auth EXCEPT ![c] = Auth(c, o)]
    /\ net' = [net EXCEPT ![c] =
                  IF next = "DONE" THEN IF @ = "none" THEN @ ELSE "closed"
                  ELSE IF next = "RESPONSE" /\ @ = "none" THEN "connecting"
                  ELSE @]
    /\ socket' = [socket EXCEPT ![c] = IF next = "DONE" THEN "none" ELSE @]
    /\ msgs' = Tail(msgs) \o (IF Failing(c, next) THEN Posts(c, "CLOSED")
                              ELSE <<>>)

\* No client is runnable.
StepNoClient ==
    /\ phase' = [x \in Client |->
                    IF phase[x] = "DONE" THEN "deleted" ELSE phase[x]]
    /\ msgs' = Tail(msgs)
    /\ UNCHANGED <<pre_auth, net, socket, state, reported, signal_closed>>

\* A runnable ReceiveTask acts on every stanza it has queued.  An IqTask acts
\* on the first, the answer to its request, and is done: Stop drops the rest.
StepTasks(gone) ==
    LET woken == (LiveTasks \cap awake) \ gone
        ended == {t \in woken \cap Iq : queue[t] > 0}
        dead  == {t \in Task : task[t] = "DONE"} \union gone \union ended
    IN  /\ task' = [t \in Task |-> IF t \in dead THEN "deleted" ELSE task[t]]
        /\ handlers' = handlers \ Unregistered(gone \union ended)
        /\ queue' = [t \in Task |->
                        IF t \in woken \union gone THEN 0 ELSE queue[t]]
        /\ awake' = {}
        /\ UNCHANGED parent

RunTasks ==
    /\ Received("RUN")
    /\ \/ \E c \in runnable \cap Live, o \in AuthOutcome, ok \in BOOLEAN :
              LET next == After(c, o, ok) IN
              /\ StepClient(c, o, next)
              /\ StepTasks(IF next = "DONE" THEN Under({c}) ELSE {})
              /\ runnable' = runnable \ {c}
       \/ /\ runnable \cap Live = {}
          /\ StepNoClient
          /\ StepTasks({})
          /\ UNCHANGED runnable
    /\ UNCHANGED <<engine, client, connected, undefined, app_vars>>

\* PreXmppAuth::SignalAuthDone, when the authentication took its time.
AuthDone(c, o) ==
    /\ Going /\ phase[c] = "PRE_XMPP_LOGIN" /\ pre_auth[c] = "pending"
    /\ o # "pending"
    /\ pre_auth' = [pre_auth EXCEPT ![c] = o]
    /\ msgs' = msgs \o WakeUp(c) /\ WakeClient(c)
    /\ UNCHANGED <<awake, phase, engine, socket, net, signal_closed, task_vars,
                   pump_vars, undefined, app_vars>>

-----------------------------------------------------------------------------
\* Socket events.  OnSocketConnected connects the engine.
SocketConnected(c) ==
    /\ Going /\ net[c] = "connecting" /\ engine[c] = "START"
    /\ net' = [net EXCEPT ![c] = "connected"]
    /\ socket' = [socket EXCEPT ![c] = "OPEN"]
    /\ engine' = [engine EXCEPT ![c] = "OPENING"]
    /\ OnStateChange(c, "OPENING")
    /\ msgs' = msgs \o Posts(c, "OPENING") \o WakeUp(c) /\ WakeClient(c)
    /\ UNCHANGED <<awake, phase, pre_auth, task_vars, client, connected,
                   undefined, app_vars>>

\* OnSocketRead: the engine's state goes on to s.  When it closes it has the
\* socket closed; XmppSocket::SignalClosed then finds the engine closed.
SocketRead(c, s) ==
    /\ Going /\ net[c] = "connected" /\ socket[c] = "OPEN"
    /\ s \in {"OPEN", "CLOSED"} /\ Rank[engine[c]] < Rank[s]
    /\ engine' = [engine EXCEPT ![c] = s]
    /\ socket' = [socket EXCEPT ![c] = IF s = "CLOSED" THEN s ELSE @]
    /\ net' = [net EXCEPT ![c] = IF s = "CLOSED" THEN "closed" ELSE @]
    /\ OnStateChange(c, s)
    /\ msgs' = msgs \o Posts(c, s) \o WakeUp(c) /\ WakeClient(c)
    /\ UNCHANGED <<awake, phase, pre_auth, task_vars, client, connected,
                   undefined, app_vars>>

\* OnSocketRead: the engine calls HandleStanza of t, which queues the stanza.
\* An IqTask takes only an answer to the request it has sent.
Wants(t) == t \in Iq => t \notin awake \/ queue[t] > 0

SocketReadStanza(c, t) ==
    /\ Going /\ net[c] = "connected" /\ socket[c] = "OPEN" /\ engine[c] = "OPEN"
    /\ t \in handlers /\ parent[t] = c /\ Wants(t)
    /\ stanzas > 0 /\ stanzas' = stanzas - 1
    /\ queue' = [queue EXCEPT ![t] = @ + 1]
    /\ awake' = awake \union {t}
    /\ msgs' = msgs \o TaskWakeUp(t)
    /\ UNCHANGED <<client_vars, task, parent, handlers, pump_vars,
                   runnable, undefined, signalled, logins, disconnects>>

\* The connection fails or the server closes it.  XmppSocket::OnCloseEvent
\* emits SignalCloseEvent, which nobody is connected to.
SocketCloses(c) ==
    /\ Going /\ net[c] \in {"connecting", "connected"}
    /\ net' = [net EXCEPT ![c] = "lost"]
    /\ UNCHANGED <<msgs, phase, engine, socket, pre_auth, signal_closed,
                   task_vars, pump_vars, run_vars, undefined, app_vars>>

-----------------------------------------------------------------------------
Dispatch ==
    \/ DoLogin
    \/ DoDisconnect \/ DoDisconnectDone \/ DoDisconnectDangling
    \/ DoOnXmppOpen \/ DoOnXmppClosed
    \/ RunTasks

Application ==
    \/ Login \/ Disconnect
    \/ \E t \in Task : StartTask(t) \/ AbortTask(t)

Socket ==
    \E c \in Client :
        \/ SocketConnected(c)
        \/ \E s \in EngineStates : SocketRead(c, s)
        \/ \E t \in Task : SocketReadStanza(c, t)
        \/ SocketCloses(c)
        \/ \E o \in AuthOutcome : AuthDone(c, o)

Next == Dispatch \/ Application \/ Socket

Spec == Init /\ [][Next]_vars

\* The pump's thread goes on handling messages.
FairSpec == Spec /\ WF_vars(Dispatch)

-----------------------------------------------------------------------------
ClientTypeOK ==
    /\ phase \in [Client -> Phase]
    /\ engine \in [Client -> EngineStates]
    /\ socket \in [Client -> {"none", "CLOSED", "OPEN"}]
    /\ net \in [Client ->
                   {"none", "connecting", "connected", "lost", "closed"}]
    /\ pre_auth \in [Client -> {"none"} \union AuthOutcome]
    /\ signal_closed \subseteq Client

TaskTypeOK ==
    /\ task \in [Task -> {"none", "live", "DONE", "deleted"}]
    /\ parent \in [Task -> Client \union {0}]
    /\ handlers \subseteq Task
    /\ queue \in [Task -> Nat]

PumpTypeOK ==
    /\ msgs \in Seq(Message)
    /\ client \in Client \union {0}
    /\ state \in EngineStates
    /\ connected \subseteq Client
    /\ runnable \subseteq Client
    /\ awake \subseteq Task
    /\ undefined \in BOOLEAN
    /\ reported \in [Client -> Nat]
    /\ signalled \in Nat
    /\ logins \in 0 .. MaxLogins
    /\ disconnects \in 0 .. MaxDisconnects
    /\ stanzas \in 0 .. MaxStanzas

\* Every variable has its type.
TypeOK == ClientTypeOK /\ TaskTypeOK /\ PumpTypeOK

\* The end of a session is reported to the pump once, before RunTasks deletes
\* the client, whether the login failed, the server ended it or the
\* application disconnected.
EndReportedOnce ==
    \A c \in Client :
        /\ reported[c] <= 1
        /\ phase[c] \in {"DONE", "deleted"} => reported[c] = 1

\* client_ is the only client alive, and client() hands it out (state_ is OPEN)
\* only while it is and its session is open.
HandedOutAlive ==
    /\ Live \subseteq {client}
    /\ state = "OPEN" => client \in Live /\ engine[client] = "OPEN"

\* "Should not happen, but was observed in crash reports" (ProcessStart,
\* ProcessTokenLogin, ProcessStartXmppLogin, OnSocketRead): a client that is
\* still to be stepped has its socket.
SocketThere == \A c \in Live : socket[c] # "none"

\* client_ is used after RunTasks deleted it only by a DISCONNECT that is
\* handled after the pump was told of the end.
DanglingOnlyAfterEnd == undefined => state = "CLOSED"

\* The engine calls only tasks that are alive, under a client that is.
HandlersAlive ==
    \A t \in handlers : t \in LiveTasks /\ parent[t] \in Live

\* Nobody uses a client, a socket or a task that is gone, but for a DISCONNECT
\* that comes after the end (XmppPump, XmppClient::Private, XmppEngineImpl).
PointersAlive ==
    HandedOutAlive /\ SocketThere /\ DanglingOnlyAfterEnd /\ HandlersAlive

\* A session whose engine is closed is deleted, after which it is no longer
\* live for DoLogin and DoDisconnect.
EndIsDeleted ==
    \A c \in Client :
        engine[c] = "CLOSED" ~> phase[c] = "deleted" \/ undefined

\* A queued stanza is acted on or, when the task stops, dropped.
StanzasTaken ==
    \A t \in Task : queue[t] > 0 ~> queue[t] = 0 \/ undefined

\* Sessions that have ended are deleted, and stanzas are taken (XmppPump::RunTasks).
EndsAndStanzasServed == EndIsDeleted /\ StanzasTaken

\* "Hang around while we are connected": without a connection the client
\* does not.
RemoteCloseNoticed ==
    \A c \in Client :
        net[c] = "lost" ~> phase[c] = "deleted" \/ undefined
=============================================================================
