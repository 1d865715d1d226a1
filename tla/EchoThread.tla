----------------------------- MODULE EchoThread -----------------------------
(***************************************************************************)
(* The echo program (examples/echo): a console that logs in and out, and   *)
(* the thread that owns a pump, a roster module and three tasks, and calls *)
(* the handler of the program.                                             *)
(*                                                                         *)
(* Everything that happens is posted to the queue of the thread, by the    *)
(* console, by the pump and by the thread itself; what the messages are    *)
(* about is looked up when they are handled.  The thread polls its socket  *)
(* only once the queue is empty, but the console may post meanwhile.       *)
(* A message to a pump or a task goes with it.  The server and the clock   *)
(* are external; XmppPump specifies the pump, of which a login makes a new *)
(* one here.                                                               *)
(***************************************************************************)
EXTENDS Naturals, Sequences, FiniteSets

CONSTANTS
    MaxCalls,       \* bound: logins and disconnects of the console
    MaxStanzas      \* bound: chat messages of the server

VARIABLES
    queue,          \* messages of the thread
    polling,        \* it is in Wait of its socket server
    module,         \* module_ is set
    handler,        \* the roster module at the engine: none, live or deleted
    state,          \* state_ of the pump, NONE while there is none
    client,         \* its client: none, INIT, RESPONSE, ENDED or DELETED
    tasks,          \* send_task_ and the others: none, live, ENDED, orphan or DELETED
    awake,          \* those that are not blocked_
    unread,         \* messages in the queue of the receive task
    message,        \* message_ and from_: the number of the message in them
    try,            \* try_ of the program
    lost,           \* what was used without being there: none, or its name
    \* history
    passed,         \* messages the receive task has passed on
    heard,          \* messages DoOnXmppMessage was given
    told,           \* how often open and closed were posted
    logins,         \* how many pumps there have been
    meddled,        \* the console has called while a session was under way
    overtaken,      \* a session was closed while its OPEN was in the queue
    calls, stanzas  \* what is left of the bounds

pump_vars == <<state, client, tasks, awake, unread>>
history   == <<passed, heard, told, logins, meddled, overtaken, calls, stanzas>>
vars == <<queue, polling, module, handler, pump_vars, message, try, lost, history>>

Init ==
    /\ queue = <<>> /\ polling = FALSE /\ module = FALSE /\ handler = "none"
    /\ state = "NONE" /\ client = "none" /\ tasks = "none" /\ awake = {} /\ unread = 0
    /\ message = 0 /\ try = 0 /\ lost = "none"
    /\ passed = 0 /\ heard = <<>> /\ told = [open |-> 0, closed |-> 0] /\ logins = 0
    /\ meddled = FALSE /\ overtaken = FALSE /\ calls = MaxCalls /\ stanzas = MaxStanzas

-----------------------------------------------------------------------------
Going         == lost = "none"
InQueue(m)    == \E k \in DOMAIN queue : queue[k] = m
Received(m)   == Going /\ ~polling /\ queue # <<>> /\ Head(queue) = m
Times(m, n)   == [k \in 1 .. n |-> m]

\* What is left of a sequence, in its order, without those of ms.
Left(s, ms) ==
    LET kept == {i \in DOMAIN s : s[i] \notin ms}
    IN  [k \in 1 .. Cardinality(kept) |->
            s[CHOOSE i \in kept : Cardinality({j \in kept : j <= i}) = k]]

\* A deleted pump or task has no messages in the queue.
Without(ms)   == Left(Tail(queue), ms)

\* Task::Wake posts when the task was blocked.
Wake(t)   == awake' = awake \union {t}
WakeUp(t) == IF t \in awake THEN <<>> ELSE <<"WAKE">>

\* Login and Disconnect, with what is left of the queue.  They replace module_
\* at once, on the thread that calls them, and the engine is not told.
Reset == handler' = IF handler = "live" THEN "deleted" ELSE handler
Login(rest)      == module' = TRUE /\ Reset /\ queue' = Append(rest, "LOGIN")
Disconnect(rest) == module' = FALSE /\ Reset /\ queue' = Append(rest, "DISCONNECT")

-----------------------------------------------------------------------------
\* The console of the program, which logs in first: the only call of its that
\* does not come in the middle of something.
ConsoleLogin ==
    /\ Going /\ calls > 0 /\ calls' = calls - 1
    /\ meddled' = (meddled \/ calls < MaxCalls)
    /\ Login(queue)
    /\ UNCHANGED <<polling, pump_vars, message, try, lost, passed, heard, told, logins,
                   overtaken, stanzas>>

ConsoleDisconnect ==
    /\ Going /\ calls > 0 /\ calls < MaxCalls /\ calls' = calls - 1
    /\ meddled' = TRUE
    /\ Disconnect(queue)
    /\ UNCHANGED <<polling, pump_vars, message, try, lost, passed, heard, told, logins,
                   overtaken, stanzas>>

\* OnMessage, MSG_LOGIN: the old pump is deleted, with its client and the tasks
\* of that; the pointers to the tasks stay.
OnLogin ==
    /\ Received("LOGIN")
    /\ queue' = Append(Without({"WAKE", "PING"}), "WAKE")
    /\ state' = "START" /\ client' = "INIT" /\ awake' = {"client"} /\ unread' = 0
    /\ tasks' = IF tasks = "none" THEN "none" ELSE "DELETED"
    /\ handler' = "none" /\ logins' = logins + 1
    /\ UNCHANGED <<polling, module, message, try, lost, passed, heard, told, meddled,
                   overtaken, calls, stanzas>>

\* MSG_DISCONNECT: a client that is not done is aborted, with its tasks, and
\* tells that it is closed.
OnDisconnect ==
    /\ Received("DISCONNECT")
    /\ IF client \in {"INIT", "RESPONSE"}
       THEN /\ client' = "ENDED" /\ unread' = 0 /\ awake' = {}
            /\ tasks' = IF tasks = "live" THEN "ENDED" ELSE tasks
            /\ state' = "CLOSED"
            /\ IF state = "CLOSED"
               THEN told' = told /\ queue' = Append(Tail(queue), "WAKE")
               ELSE /\ told' = [told EXCEPT !.closed = @ + 1]
                    /\ queue' = Tail(queue) \o <<"WAKE", "CLOSED">>
       ELSE UNCHANGED <<pump_vars, told>> /\ queue' = Tail(queue)
    /\ UNCHANGED <<polling, module, handler, message, try, lost, passed, heard, logins,
                   meddled, overtaken, calls, stanzas>>

\* What the program does when it is told of the beginning and the end of a
\* session: it disconnects after its first login, and logs in again while it has
\* tries left.
DoOnXmppOpen(rest) ==
    /\ try' = try + 1
    /\ IF try + 1 < 2
       THEN module' = FALSE /\ handler' = "deleted" /\ queue' = Append(rest, "DISCONNECT")
       ELSE module' = module /\ handler' = "live" /\ queue' = rest
DoOnXmppClosed(rest) ==
    /\ try' = try + 1
    /\ IF try + 1 < 3 THEN Login(rest) ELSE UNCHANGED <<module, handler>> /\ queue' = rest

\* SendTask::Send with the echo of a message, for a task that is there.
Send(rest) ==
    IF tasks = "live" THEN Wake("send") /\ queue' = rest \o WakeUp("send")
    ELSE UNCHANGED awake /\ queue' = rest

\* OnXmppOpen: the module is started at the engine of the client, which keeps it
\* as a handler, and the tasks are created under the client.
OnXmppOpen ==
    /\ Received("OPEN")
    /\ lost' = IF ~module THEN "module" ELSE IF client = "DELETED" THEN "client" ELSE "none"
    /\ tasks' = IF client = "ENDED" THEN "orphan" ELSE "live"
    /\ awake' = awake \union {"send", "receive", "ping"}
    /\ DoOnXmppOpen(Append(Tail(queue), "WAKE"))
    /\ UNCHANGED <<polling, state, client, unread, message, history>>

\* OnXmppMessage: the program gets the message that is there now, and an echo
\* goes to its sender unless that is this client.
OnXmppMessage ==
    /\ Received("MESSAGE")
    /\ heard' = Append(heard, message)
    /\ \E answer \in BOOLEAN :
         /\ lost' = IF client = "DELETED" THEN "client"
                    ELSE IF answer /\ tasks = "DELETED" THEN "task" ELSE "none"
         /\ IF answer THEN Send(Tail(queue)) ELSE UNCHANGED awake /\ queue' = Tail(queue)
    /\ UNCHANGED <<polling, module, handler, state, client, tasks, unread, message, try,
                   passed, told, logins, meddled, overtaken, calls, stanzas>>

OnXmppClosed ==
    /\ Received("CLOSED")
    /\ DoOnXmppClosed(Tail(queue))
    /\ UNCHANGED <<polling, pump_vars, message, lost, history>>

\* PingTask::OnMessage.
OnPing ==
    /\ Received("PING")
    /\ IF tasks = "live" THEN Wake("ping") /\ queue' = Tail(queue) \o WakeUp("ping")
       ELSE UNCHANGED awake /\ queue' = Tail(queue)
    /\ UNCHANGED <<polling, module, handler, state, client, tasks, unread, message, try,
                   lost, history>>

\* The client is deleted, and the tasks with it that were its children in time.
Deleted ==
    /\ client' = "DELETED" /\ unread' = 0 /\ awake' = {}
    /\ tasks' = CASE tasks \in {"live", "ENDED"} -> "DELETED" [] OTHER -> tasks
    /\ lost' = IF tasks = "orphan" THEN "client" ELSE "none"

\* OnXmppMessage with the messages of the receive task: each takes the place of
\* the one before it, and a MESSAGE is posted for each.
PassOn ==
    /\ passed' = passed + unread /\ unread' = 0
    /\ message' = IF unread = 0 THEN message ELSE passed + unread

\* OnPingTimeout, when the ping task runs and may find that its time is over.
PingTimeout(silent) == IF silent THEN <<"DISCONNECT">> ELSE <<>>

\* RunTasks.  The client connects, which may fail, or finds its engine closed;
\* with an engine that is open its tasks run.
RunTasks ==
    /\ Received("WAKE")
    /\ \/ /\ client = "INIT"
          /\ \/ /\ client' = "RESPONSE" /\ awake' = {}
                /\ queue' = Tail(queue) /\ UNCHANGED <<state, tasks, unread, lost, told>>
             \/ /\ Deleted /\ state' = "CLOSED" /\ told' = [told EXCEPT !.closed = @ + 1]
                /\ queue' = Append(Without({"PING"}), "CLOSED")
          /\ UNCHANGED <<message, passed>>
       \/ /\ client = "ENDED" \/ (client = "RESPONSE" /\ state = "CLOSED")
          /\ Deleted /\ queue' = Without({"PING"})
          /\ UNCHANGED <<state, message, passed, told>>
       \/ /\ client = "RESPONSE" /\ state # "CLOSED"
          /\ awake' = {} /\ PassOn
          /\ \E silent \in BOOLEAN :
               /\ silent => "ping" \in awake
               /\ queue' = Tail(queue) \o Times("MESSAGE", unread) \o PingTimeout(silent)
          /\ UNCHANGED <<state, client, tasks, lost, told>>
       \/ /\ client \in {"none", "DELETED"}
          /\ queue' = Tail(queue)
          /\ UNCHANGED <<pump_vars, message, lost, passed, told>>
    /\ UNCHANGED <<polling, module, handler, try, heard, logins, meddled, overtaken, calls,
                   stanzas>>

-----------------------------------------------------------------------------
\* MessageQueue::Get waits for the socket while there is nothing else.
Poll ==
    /\ Going /\ polling = (queue # <<>>) /\ polling' = ~polling
    /\ UNCHANGED <<queue, module, handler, pump_vars, message, try, lost, history>>

\* OnStateChange of the engine, by way of the pump, while the socket is polled.
EngineSays(s) ==
    /\ Going /\ polling /\ client = "RESPONSE"
    /\ state' = s /\ Wake("client")
    /\ queue' = queue \o (IF s = "OPENING" THEN <<>> ELSE <<s>>) \o WakeUp("client")
    /\ told' = [told EXCEPT !.open = IF s = "OPEN" THEN @ + 1 ELSE @,
                            !.closed = IF s = "CLOSED" THEN @ + 1 ELSE @]
    /\ overtaken' = (overtaken \/ (s = "CLOSED" /\ InQueue("OPEN")))
    /\ UNCHANGED <<polling, module, handler, client, tasks, unread, message, try, lost,
                   passed, heard, logins, meddled, calls, stanzas>>

EngineProceeds ==
    \/ state = "START" /\ EngineSays("OPENING")
    \/ state = "OPENING" /\ EngineSays("OPEN")
EngineCloses == state # "CLOSED" /\ EngineSays("CLOSED")

\* A stanza goes to the roster module first, then to the receive task.
StanzaArrives ==
    /\ Going /\ polling /\ client = "RESPONSE" /\ state = "OPEN"
    /\ stanzas > 0 /\ stanzas' = stanzas - 1
    /\ lost' = IF handler = "deleted" THEN "module" ELSE "none"
    /\ IF tasks = "live"
       THEN unread' = unread + 1 /\ Wake("receive") /\ queue' = queue \o WakeUp("receive")
       ELSE UNCHANGED <<unread, awake, queue>>
    /\ UNCHANGED <<polling, module, handler, state, client, tasks, message, try, passed,
                   heard, told, logins, meddled, overtaken, calls>>

\* The time of the ping task comes.
PingDue ==
    /\ Going /\ tasks = "live" /\ ~InQueue("PING") /\ "ping" \notin awake
    /\ queue' = Append(queue, "PING")
    /\ UNCHANGED <<polling, module, handler, pump_vars, message, try, lost, history>>

OnMessage ==
    OnLogin \/ OnDisconnect \/ OnXmppOpen \/ OnXmppMessage \/ OnXmppClosed \/ OnPing \/ RunTasks

Next ==
    \/ ConsoleLogin \/ ConsoleDisconnect
    \/ OnMessage \/ Poll
    \/ EngineProceeds \/ EngineCloses \/ StanzaArrives \/ PingDue

Spec == Init /\ [][Next]_vars

-----------------------------------------------------------------------------

TypeOK ==
    /\ \A k \in DOMAIN queue : queue[k] \in
           {"LOGIN", "DISCONNECT", "OPEN", "MESSAGE", "CLOSED", "WAKE", "PING"}
    /\ handler \in {"none", "live", "deleted"}
    /\ state \in {"NONE", "START", "OPENING", "OPEN", "CLOSED"}
    /\ client \in {"none", "INIT", "RESPONSE", "ENDED", "DELETED"}
    /\ tasks \in {"none", "live", "ENDED", "orphan", "DELETED"}
    /\ awake \subseteq {"client", "send", "receive", "ping"}
    /\ lost \in {"none", "module", "client", "task"}

\* A program that logs in and out only when it is told of the end and the
\* beginning of its sessions never uses a module, a client or a task that is
\* gone, unless a session ends before its beginning was handled.
NothingLost == Going \/ meddled \/ overtaken

\* Every message that the receive task passed on is heard once, in its place, as
\* itself or as a later one that has taken its place in message_.
HeardInPlace ==
    /\ \A i \in DOMAIN heard : heard[i] \in i .. passed
    /\ \A i \in 1 .. Len(heard) - 1 : heard[i] <= heard[i + 1]
    /\ Len(heard) + Cardinality({k \in DOMAIN queue : queue[k] = "MESSAGE"}) = passed
    /\ passed > 0 => message = passed

\* No session is told open or closed twice, and none is told open that was
\* closed before.
ToldOnce == told.open <= logins /\ told.closed <= logins

\* What the program does not do: it hears a message as another one.
HeardAsSent == \A i \in DOMAIN heard : heard[i] = i
=============================================================================
