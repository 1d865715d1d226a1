# A TLA+ verification development for gxmpp

gxmpp is a C++ XMPP client library cut out of libjingle. This directory holds
TLA+ models of its parts, TLC configurations that check them on small instances
and TLAPS proofs of theorems about them. Paths such as `talk/xmpp/xmppclient.cc`
are relative to the repository's root.

Contents: [inventory](#inventory) of the system, [plan](#plan),
[modules](#modules), [runs](#runs), [disagreements](#disagreements) between the
code and what is written about it, [proofs](#proofs),
[what is left out](#what-is-left-out).

## Inventory

### How the parts fit together

One thread (`Thread`, or the application's `PumpThread`) owns a `MessageQueue`.
A `TaskRunner` on that thread is woken by a message posted to the queue and runs
the `Task`s that are not blocked. `XmppClient` is such a task: it owns a socket
and an `XmppEngine`, turns socket events into calls of the engine and engine
callbacks into signals. The engine parses input with `XmppStanzaParser` (expat),
drives `XmppLoginTask` until the session is open and then dispatches stanzas to
handlers: `XmppTask`s that queue them and wake themselves, `IqTask`s that wait
for one answer, and the roster and chat-room modules.

    application --Post/Send--> Thread/MessageQueue --OnMessage--> TaskRunner
         |                                                            | Step
         |                                                    XmppTask, IqTask, XmppClient
         |                                                            |
    SocketServer --signals--> XmppSocket --HandleInput--> XmppEngine + XmppLoginTask
                                        <--WriteOutput--      |  stanza / iq handlers

### Components

| part | source | state | operations | what makes it correct |
|---|---|---|---|---|
| XMPP engine | `talk/xmpp/xmppengineimpl*.cc`, `xmpplogintask.cc`, `xmppstanzaparser.cc` | connection state, error, login state, output buffer, iq table, handler vectors, depth of re-entrancy | Connect, HandleInput, ConnectionClosed, Disconnect, SendStanza/Iq/Raw, add/remove handlers; one turn of the login | no credentials before TLS when TLS is required; a session only after authentication and binding; stanzas submitted during the login neither lost nor reordered; closed once, each state reported once; an iq handler called at most once |
| task scheduler | `talk/base/task*.cc` | per task: state, blocked, done, aborted, error, timeout; per runner: task vector, next timeout task, running flag | Start, Step, Wake, Error, Abort, Stop, set/suspend/resume timeout, RunTasks, PollTasks | a woken task runs; a finished task is stopped once and deleted after its children; an abort reaches every descendant; the earliest timeout is the one polled |
| message queue and thread | `talk/base/messagequeue.cc`, `thread.cc` | posted and delayed messages, peeked message, stop flag, pending sends | Post, PostDelayed, Get, Peek, Clear, Dispose, Quit, Restart, Send, ReceiveSends, Start, Stop | order of posts, delayed messages not early and in order, a cleared message never dispatched, a send answered, a waiting reader woken |
| SignalThread | `talk/base/signalthread.cc` | life-cycle state, reference count, worker thread | Start, Destroy, Release, OnMessage, Run, OnMainThreadDestroyed | deleted exactly once, work-done signalled once, no signal after Destroy |
| XmppClient, XmppSocket | `talk/xmpp/xmppclient.cc`, `xmppsocket.cc`, `xmpptask.cc` | task state, engine, socket, closed flag, task queues | Connect, Start, Disconnect, socket events, task queues | SignalClosed once; every task told of a disconnect; a remote close noticed |
| pumps | `gxmpp/pumpthread.cc`, `talk/xmpp/xmpppump.cc`, `xmppthread.cc` | reported state, current client | DoLogin, DoDisconnect, OnStateChange | no call on a deleted client; the state seen by the application is the client's |
| iq, presence and ping tasks | `talk/xmpp/iqtask.cc`, `receivetask.cc`, `presence*task.cc`, `pingtask.cc` | pending answer, deadline, queue | ProcessStart, ProcessResponse, HandleStanza, OnTimeout | result or error exactly once; a late answer ignored; a missed pong reported |
| roster module | `talk/xmpp/rostermoduleimpl.cc` | contacts, presences per contact | roster result and push, presence, requests | the contact list follows the server's; handlers told of each change |
| chat-room module | `talk/xmpp/chatroommoduleimpl.cc` | room state, members, nick | enter, exit, presence, message | members and callbacks agree with the room's presence; legal transitions only |
| pubsub, disco, muc, hangout tasks | `talk/xmpp/pubsub*.cc`, `hangoutpubsubclient.cc`, `disco*.cc`, `mucroom*.cc` | item state per publisher | publish, retract, item notifications | state follows the last notification |
| socket servers | `talk/base/physicalsocketserver.cc`, `asyncsocket.cc` | dispatcher set, enabled events, wake-up pipe | Add, Remove, Wait, WakeUp | a wake-up is not lost; a removed dispatcher is not called |
| streams and buffers | `talk/base/stream.cc`, `bytebuffer.cc` | ring buffer positions | Read, Write, offsets, resize | bytes come out as they went in |
| XML layer | `talk/xmllite` | namespace stack, element tree | push/pop frames, resolve, print, build | prefixes resolve to the innermost binding |
| signals | `talk/base/sigslot.h` | connected slots | connect, disconnect, emit | a slot is called once per emission, not after it disconnected |
| helpers and addresses | `talk/base/base64.cc`, `stringencode.cc`, `timeutils.cc`, `talk/xmpp/jid.cc`, `ipaddress.cc`, `socketaddress.cc` | none | conversions, time comparison with wrap-around | round trips, wrap-around order |
| authentication | `talk/xmpp/xmppauth.cc`, `saslmechanism.cc`, `plainsaslhandler.h`, `talk/base/cryptstring.h` | chosen mechanism, storage of a secret | choose, start, exchange, format | the server reads user and secret, as the handler allows; no secret left in memory given back |
| logging | `talk/base/logging.cc` | streams with their levels, least severity | log, add and remove streams, log lines | a walk over the streams is whole; nothing asked for is missed |
| third party | `third_party/expat-2.1.0` | - | - | external: modelled by the events it reports |
| smart pointers | `talk/base/linked_ptr.h`, `scoped_ref_ptr.h`, `scoped_ptr.h` | ring of owners, reference count, pointer | construct, assign, reset, release, destroy | an object is deleted once, by its last owner, also while one that holds it is being deleted |
| chat and echo programs | `examples/chat`, `examples/echo` | menu, contacts, tasks; pump, module and tasks of a login | lines of the console, messages of the thread | a line means what the user meant; nothing of a session that is gone is used |
| other examples | `examples/hello`, `examples/echo/client.mm` | - | - | a copy of the pump; a program for another platform |

### What is hard here

* *Re-entrancy.* Handlers run in the middle of the engine's loops and call it
  back; signals run in the middle of `Close`; tasks wake, abort and start tasks
  while the runner walks its vector.
* *Termination paths.* A connection can end in the parser, in a callback, by the
  application, by the socket; each has to close once and report once.
* *Threads.* `Post`, `Send`, `Quit` and `Clear` race with a reader that checks
  its flags outside the lock.
* *Time.* Timeouts are cached in the runner (`next_timeout_task_`); delayed
  messages wait in a heap; time stamps wrap.
* *Login protocol.* The stream is restarted twice, the parser with it, while
  stanzas of the application wait.

## Plan

The modules were written in the order of what the rest of the library leans on:
engine, scheduler, threads and client first, then what stands on a session, then
what threads, sockets and data are made of. What can still be added is under
[what is left out](#what-is-left-out).

| module | models | stands in |
|---|---|---|
| `XmppEngine` | engine, login, dispatch, iq table | `MCXmppEngine`; implements `Session` |
| `Session` | abstract: a session over one connection | refined by `XmppEngine` |
| `TaskRunner` | tasks, their tree, the runner, timeouts | itself (`TaskRunner_*.cfg`) |
| `MessageThread` | queues, `Send`, the loop of a thread | itself (`MessageThread_*.cfg`) |
| `XmppClient` | pump, client task, socket events, tasks above | itself (`XmppClient_*.cfg`); stands on the promises of the three above |
| `IqRequests` | `IqTask` and the five tasks that ask once | `MCBase` |
| `PingTask`, `Presence`, `PubsubTask` | the tasks that ping, tell and learn statuses, follow nodes | `MCTasks` |
| `XmppPump`, `XmppSocket` | the pump for one login; the socket below the client | `MCTasks` |
| `QueueManager`, `DelayQueue` | handlers and queues that come and go; time stamps that wrap | `MCBase` |
| `SignalThread` | a worker thread and its owner | `MCBase` |
| `SocketServer`, `PosixSignals` | the select loop; signals in it | `MCBase` |
| `AsyncWrite` | the asynchronous writer of a stream | `MCBase` |
| `EchoThread`, `Chat` | the programs that use the library | `MCTasks` |
| `Roster`, `RosterData` | the roster module; the caches of its values | `MCModules` |
| `ChatRoom`, `HangoutPubSub` | a room and its members; states published in it | `MCModules` |
| `FifoBuffer`, `ByteQueue` | the ring buffer; abstract: a bounded queue | `MCModules`; the first implements the second |
| `StreamFlow`, `ByteBuffer` | moving bytes, numbers in bytes | `MCModules` |
| `Encodings`, `Addresses` | texts, jids and addresses, and what reads them back | `MCModules` |
| `XmlNames`, `XmlElement` | documents from the printer to the builder; the lists of an element | `MCModules` |
| `Sasl` | choice and exchange of credentials | `MCModules` |
| `Sigslot`, `Logging` | signals and slots; log streams and log lines | `MCModules` |
| `Ownership` | the smart pointers | `MCModules` |

`MCModules`, `MCTasks` and `MCBase` hold modules that share no state: each
variable belongs to one module, and `part` says which of them moves in a
behaviour, so that a state of one is not multiplied by the states of another.
Each of them extends one of its modules (`FifoBuffer`, `XmppSocket`,
`IqRequests`), so that the theorems about it and the run speak of the same
definitions, and instantiates the others; `AllInit`, `AllNext` and `AllSpec` are
of all of them together. `IqRequests` stands in `MCBase` because its liveness and
that of `XmppSocket` are too much for one run. What `MCModules` says of a
module it says where that module moves: elsewhere the module stands in one of its
initial states, which are among those it moves from.
Where components do share state they are one module: the client with the pump,
the socket's events and the tasks above; the roster with the pump that replaces
it; the threads with their queues and the manager; the sockets with the loop.

A component whose theorems are long has them in a module of its own, `...Proofs`;
those of `PingTask` stand behind its definitions, and `MCTasksProofs` has those of
all that `MCTasks` puts together, but for `PingTask`, with what they make of its
invariants. `MCBaseProofs` has those of all seven parts of `MCBase`, requests,
messages and what the threads share. Theorems worth proving next, most important
first:

1. `Sigslot`: both ends of a connection know of each other (`BothEndsKnow`).
2. `Ownership`: what a smart pointer owns is there (`Owned`).
3. `Sasl`: `SecretsArrive`, for any names and secrets.
4. `Roster` follows the server, and `ChatRoom` the room, once nothing is on its way.

## Modules

Each module says in its head what is one action, and each definition that models
code keeps the name of the function it models where there is one. Definitions
placed next to a guard or an update, such as `KeepFlag` beside `RaiseFlag`, are
the same step with a fault seeded in it: no action uses them, they state what the
property named in `PROJECT.json` guards against. `PROJECT.json` maps definitions to
the lines they model; a helper whose lines lie within those of a definition that is
mapped is not listed apart.

### XmppEngine

The engine runs on one thread but is re-entered by its callbacks. `pc` says where
the outermost call is: `idle` (no call), `input` (parsing), `login` (turning the
login task), `dispatch` and `iqcb` (in a handler of the application), `next`
(between handlers). An action is one parse event (`IncomingStart`,
`IncomingStanza`, `IncomingEnd`), one turn of `XmppLoginTask::Advance` (one action
for each `LOGINSTATE_*` branch), one step of the dispatch loop, or one call of the
public interface (`Connect`, `SendStanza`, `SendIq`, `Disconnect`, ...). `Leave`
is the destructor of `EnterExit`, used by each of them: the outermost one flushes
the output, resets the parser and reports the state, a nested one only flushes
when it closed the session. `frame` is the state the outermost guard saved.

What the engine looks at in a stanza is a record (name, type, id, sender, whether
its content is what the consumer wants, and the features it offers). Output items
are names, with a number for the stanzas of the application. `wire` is everything
`WriteOutput` has been given; `closes`, `notified`, `submitted` and `answered`
record calls to the application.

### TaskRunner

`tasks` and `place` are the vector `tasks_`, the bool members of `Task` are sets
of tasks. A step of a task is split where its own code runs: `ErrorStep`,
`InitStep` and `ProcessStep` enter it, `ReturnAborted`, `ReturnBlocked`,
`ReturnNext` and `ReturnFinal` leave it, and in between (and between runs) the
calls `New`, `Start`, `Wake`, `Error`, `Abort`, `SetTimeoutSeconds`,
`SuspendTimeout` and `ResumeTimeout` may be made on any task. `Doomed(S)` is what
`Abort` reaches from `S`, the descendants that are not running; `Finish` is `Stop`
of all of them. `RunTasks` starts the scan, `Due` is the task it steps next,
`RunEnd` deletes what is done. `Destroy` is `~TaskRunner`. The subclass's timer
(external: no pump of the repository has one) is set by `OnTimeoutChange` and fires
in `TimerFires`.

### MessageThread

Every thread is a stack of frames, since a thread that waits in `Send` serves the
sends made to it. An action is what one thread does between taking and releasing
the lock of a queue; each test outside the lock is an action of its own. In `Get`:
`GetSends` (has_sends_, and then `ReceiveSends`), `GetPoll` (the queues, against the
clock read before the Sends were served), `GetStop` (fStop_), `GetWait` (the socket
server). A message taken replaces the frame of `Get` by one of its handler, and only
when that has returned does `NextGet` begin the next `Get`, which reads the clock.
In `Send`: `SendQueue`,
`SendWake`, `SendCheck`, `SendWait`, `SendReturns` (which restores the wake-ups it
swallowed). `PostQueue` and `QuitWake` are the second halves of `Post` and `Quit`.
`signaled` is the pending wake-up of the thread's socket server, which stays until
the thread waits.

### XmppClient

Everything runs on the pump's thread, so an action is one message
(`DoLogin`, `DoDisconnect`, `DoOnXmppOpen`, `DoOnXmppClosed`, `RunTasks`) or one
event of the socket or the authentication (`SocketConnected`, `SocketRead`,
`SocketReadStanza`, `SocketCloses`, `AuthDone`). `msgs` is the queue between them;
`client_` is the number of the last client, and a client that `RunTasks` deleted
has phase `deleted`. `RunTasks` stands for a whole run of the scheduler: it moves a
runnable client through `ProcessStart`, `ProcessTokenLogin`,
`ProcessStartXmppLogin` and `ProcessResponse` until it blocks (`After`), lets each
runnable task act, and deletes what is done. `OnStateChange` is the chain
`XmppClient::Private::OnStateChange`, `EnsureClosed`,
`PumpThread::OnStateChange`. The use of a deleted client_ sets `undefined`, after
which nothing happens: the model says nothing of what follows.

The application is assumed to log in again only when the end of the last session
was signalled, and to disconnect only after it has logged in.

### Session

The abstract specification of a session as `xmppengine.h` promises it: the
`state` only grows from START to CLOSED, an `error` is kept from the first on,
the stanzas that were `accepted`, numbered, are `delivered` in order and without gaps, each state is
`told` once and in order, the connection is closed once and nothing follows. A
step of it is one turn of the engine, whatever calls are nested in that. The
refinement `SessionImplemented` maps `accepted` to the stanzas submitted,
`delivered` to those among what was written, `told` to the states reported and
`inside` to whether a call is under way; steps of the login and of the dispatch
are stuttering steps.

### On top of a session

* `Roster`: `HandleStanza` and the answers of the server against a server that
  keeps a roster and pushes its changes; `list` is `contacts_`, `bucket` the
  presences by bare jid. The history `view` is what a handler has that follows
  `ContactsAdded`, `ContactChanged` and `ContactRemoved` to the letter.
* `RosterData`: `XmppRosterContactImpl` and `XmppPresenceImpl`, elements as
  sequences of children and the cached group and count beside them. `result` is what
  the last question was answered, which is what the element says but for a contact
  that was given a group before its groups were counted (`miscounted`).
* `ChatRoom`: `RequestEnterChatroom`, `RequestExitChatroom`, `HandleStanza` for
  presences and messages, and the enumerators, with a room that may refuse, put
  out and be left while its stanzas are on their way. In every visit the members are
  the occupants and those whose going the user did not see (`unseen`).
* `HangoutPubSub`: presenter, mute and block states as items of nodes;
  `SignalStateChange` is what the three handlers of a change tell the
  application, `heard` what an application has that listens to them.
* `IqRequests`: one task is stepped by the runner while it is not blocked;
  `Deliver`, `OnTimeout` and `Disconnect` race. `HandleResult` has one clause per
  task: lookup, discovery, configuration, naming of rooms and disco items.
* `PingTask`: `Period`, `Timeout` and `Word` are parameters, so that the clock
  wraps within a run; `WakeUps` are the delayed messages.
* `Presence`: `TranslateStatus` and `DecodeStatus` with what the server does
  between them, and the queues of both tasks.
* `PubsubTask`: the answer to a subscription, events of nodes, and the handler
  of a node; `Foreign` says whether the server puts other children into a list.
* `XmppPump`: the messages of the thread in order; `undefined` is set when a
  deleted client is used.
* `XmppSocket`: `Connect` to an address or a name, `Read`, `Write`, `OnWriteEvent`
  and `Close` over the connection states of a `PhysicalSocket`. A call is an
  operator on the record of what it changes (`Now`), since handlers call others;
  `Become` makes it the next state. `OnPreEvent` takes what select found and
  `OnEvent` delivers it one by one. Bytes are numbered.
* `EchoThread`: the messages in the queue of the thread name what they are about,
  which is looked up when they are handled: `heard` has the message a handler got
  and `lost` what it used that was gone. `NothingLost` excepts a program that calls
  from elsewhere than its handler, and a session that ends before its beginning was
  handled.
* `Chat`: `intent` is the state of the menu that the lines typed so far lead to; a
  line carries what the user `meant`. `misled` is set when the list changed between
  a choice and its handling.
* `Sasl`: a handler (`PlainSaslHandler` or `XmppAuth`) chooses a mechanism, the
  login task exchanges what it makes, and `FormatCryptString` grows its storage;
  memory that is given back is kept in view.

### Between threads

* `QueueManager`: handlers and the queues that may hold messages for them: the
  peek slot, `Clear`, `Dispose`, `Start`, `Stop`, `Join`, `Restart` and the end of
  threads. The destruction of a handler walks over the active queues, one lock
  at a time (`ClearNext`).
* `DelayQueue`: `TimeIsLaterOrEqual` and its like on words of any size, and `Get`
  over messages that are sorted as numbers. A message never comes early; while
  all that wait are due on one side of a wrap (`OneSide`), messages come in order and
  no wait outlasts the next of them.
* `SignalThread`: the owner and the worker; what is done under `cs_` is an
  action, a join is one of its own.
* `SocketServer`: one action per turn of `Wait`'s loop and per dispatched socket,
  with handlers that receive, send, close, connect and open sockets whose
  descriptors are used again; `PosixSignals` is the pipe of that loop.
* `AsyncWrite`: caller and write thread, one action per critical section.

### Data

* `FifoBuffer`: each call is one action under the lock; `lent_in` and `lent_out`
  are the parts that `GetWriteBuffer` and `GetReadData` gave away. `IsQueue` maps
  the ring to the sequence of its bytes (`ByteQueue`).
* `StreamFlow`: `Flow` from a segment of a memory stream through a tap to a sink,
  and `ReadLine`, which cuts a line where `Read` blocks or fails and returns the part
  with `SR_SUCCESS`. `ByteBuffer`: numbers are sequences of bytes, and memory moves,
  grows and keeps read positions.
* `Encodings` (with Base64), `Addresses` (with jids): pure functions. One action
  calls one of them on every input of a bounded set, with what its inverse makes of
  the result; the properties say what comes back.
* `XmlNames`: `XmlPrinterImpl` declares prefixes on its `XmlnsStack` and escapes
  text; `XmlParser`, given what was printed in any parts, resolves the names on a
  stack of its own for `XmlBuilder`. Ends of lines and control characters are printed
  as they are; `NormalText` and `NormalValue` say what a parser makes of the first,
  and it refuses the second. `XmlElement`: the two linked lists of an element in a
  heap of numbered nodes; one action is one call.
* `Sigslot`: connections as both ends know them, and `emitting`, the stack of
  emissions with the connection each has next.
* `Logging`: `min_sev_` read outside of the lock, and the walk of a message over the
  streams within. `UpdateMinLogSeverity` is a walk and a store (`updating`), under the
  lock where streams are added and removed and without it in `LogToDebug`; a walk of a
  list that changes may end with any level (`torn`, `raced`). `LogMultiline` over its
  calls by lines, without a state and in hex, each with its check of the level.
* `Ownership`: one action is one access of a pointer's code, and `todo` what the
  calls under way have left to do, since deleting an object destroys the pointers
  in it.

## Runs

| run | question | bounds |
|---|---|---|
| `engine_login` | whatever the server answers during a login: TLS, credentials and sessions in their order and each stream with a fresh parser (`LoginInOrder`), the order of the stanzas submitted meanwhile, iq handlers called at most once | 10 parse events: a login with TLS, SASL and binding takes all of them, one without TLS leaves three for the session; two stanzas, both possibly iq requests; iq ids 0 to 3, so wrong and right ones |
| `engine_session` | handlers that send, disconnect, add and remove handlers during dispatch: the engine implements `Session`, indexes stay in range, every call returns | 8 parse events, seven of them the login, so that one stanza is dispatched to all handlers; two handlers, one of them on two levels; two stanzas |
| `engine_disconnect_promise` | disagreement, see below | as `engine_session`, with one stanza |
| `runner_tree` | tree, aborts, wake-ups and destruction | three tasks (a chain, siblings, or both), seven calls; the tasks are interchangeable |
| `runner_service` | timeouts and progress | two tasks, five calls, two timeouts on a clock of two |
| `thread_sends` | sends among three threads, nested and crossing, with a Quit | four calls in all, up to three of them Sends: one in progress, one nested in it, one crossing |
| `thread_progress` | posts, delays, sends and progress: every Send returns, also the nested and crossed ones that swallow wake-ups, and every message is taken | a thread and its owner, three calls of up to two posts, three Sends and one Quit, one delay, a clock of two. Two threads are enough for a Send nested in one that is served, and for two that cross; with a third the progress is not checked, but that no sender sleeps on its answer is (`SendsWait`), in `thread_sends` and as a theorem |
| `client` | two sessions on one pump, with tasks above them and disconnects at any time | two logins, two disconnects, so that one can be late; two stanzas; one `ReceiveTask`, one `IqTask` |
| `client_remote` | disagreement, see below | one login |
| `tasks` | pings come in time, statuses and items arrive in order, the pump uses its client only while there is one, the socket sends what is written | pings every 3 with a timeout of 2 on a clock modulo 16, from 1 and through 10; two statuses of five kinds, two subscriptions to two nodes and two changes, five calls of the pump; three bytes in Writes of up to two over a kernel buffer of one; two calls and two stanzas of the echo program; four lines and two presences of the chat program |
| `base` | no handler is called after its destruction, no delayed message comes early, and they come in order while they are due on one side of a wrap; threads, signals and sockets lose nothing and serve whoever waits; requests are told their end once and answered | one request and three inputs (an answer, a timeout and the end of the connection); three chunks; two signals raised three times over a pipe of three bytes; two sockets with every operation in their handlers and two events; two starts of a worker; two threads with a handler each and three calls; two messages with delays up to 6 on a clock modulo 16 that wraps |
| `modules` | what roster, chat rooms and hangouts keep and tell is what the server meant; signals reach their slots, log streams their messages, and pointers their objects; buffers are queues; texts, names, XML and credentials are read back; each with the exceptions that its comment names | two contacts with two resources and a roster push beside a request; five calls on a contact or a presence; two members and six inputs, enough for a second visit; three inputs of two members of a hangout; a ring of up to three bytes; a stream of four bytes that blocks twice; texts of up to four characters, one of each kind that the code tells apart; documents of three nodes with one text of every kind of character the printer escapes or leaves, and documents from elsewhere that a parser has to refuse or resolve; four calls on an element, five on signals; two messages and two calls on two log streams, log lines of up to three bytes (two without a state or in hex); two objects that hold a pointer each, and three pointers outside |

The bounds count inputs (calls, stanzas, parse events), never internal steps, so a
behaviour is cut only between inputs. They are the smallest at which each hazard of
the list occurs: a second session after the first, a nested send inside a send, a
grandchild of an aborted task, a handler that removes itself while a later one
waits, an answer that crosses a timeout, a descriptor used again within one turn
of the loop, a ring that wraps while it grows. Deadlock is not checked in any run:
when the bounded inputs are spent the system rests, as the program does when
nobody calls it. That it does not rest too early is what the liveness properties
say.

The runs `tasks`, `base` and `modules` have one property for each question, which
joins what the modules behind it say; the comment over each names the parts. The
parts are stated and explained in their modules.

Fairness. `FairSpec` of `XmppEngine` is weak fairness of `Run`, what the code does
by itself once it is called: it is sequential code, and handlers are assumed to
return. In `TaskRunner` it is weak fairness of `Run`: the message that `WakeTasks`
posted is delivered, and task code returns. In `MessageThread` it is weak fairness
of the steps of each thread and of the clock: the platform schedules every thread;
and its two liveness properties assume `Served`, that nobody sends to a thread
which has no loop and is in no Send of its own, since such a `Send` has no one to
answer it.
In `XmppClient` it is weak fairness of `Dispatch`: the loop of the pump's thread
goes on. In `MCTasks` and `MCBase` it is that of each part while it moves: the
runner steps a task that is not blocked and delivers what is in its queue; the
loop of a socket server turns and the kernel takes bytes; each thread goes on,
and so do its steps one by one where two threads take turns. It is strong for the
worker of `SignalThread`, whose critical section may be entered by its owner
again and again, but not forever. No fairness is assumed of the network, the
server or the application, with three exceptions: `PubsubTask` is answered, since
it promises nothing otherwise; `XmppSocket` gets an answer of the resolver and
of the connect, which the system bounds by a timeout of its own; and its peer
reads (`Drain`), which is what makes room in the kernel.

## Disagreements

Two are runs that end in a counterexample, and entries under `findings`.

* `NoCallbackAfterDisconnect` (`talk/xmpp/xmppengineimpl.cc:298`):
  `xmppengineimpl.h:137` guarantees no further callbacks after `Disconnect`. Stanzas
  are dropped only when there is an error or a reset is pending, and `Disconnect`
  sets no error, so the handlers behind the one that called it, and the rest of the
  buffer, are still delivered.
* `RemoteCloseNoticed` (`talk/xmpp/xmppsocket.cc:127`): a failed connect or a
  close by the server is emitted as `SignalCloseEvent`, to which nothing is
  connected; the client hangs around although it is not connected
  (`xmppclient.cc:304`).

The others are definitions beside the properties of their modules, each with a
comment that says what is promised and why it does not hold. No run of the project
lists them; each was seen to fail when its module was checked with it.

| definition | where | what is said, and what the code does |
|---|---|---|
| `XmppEngine.EveryPeekHandlerCalled` | `talk/xmpp/xmppengineimpl.cc:313` | line 312 gives every peek handler a shot at all stanzas; a handler that removes itself makes the next one miss the stanza |
| `TaskRunner.ErrorIsSignalled` | `talk/base/task.cc:126` | `task.h:151`: after `Error()` the task wakes and signals an error; called within `Process`, the wake-up is undone when that returns `STATE_BLOCKED` |
| `MessageThread.QuitDelivers` | `talk/base/messagequeue.cc:232` | `messagequeue.h:180`: ready posts are delivered before `Get` returns false; `fStop_` is tested after the lock is released, and a post in between stays behind |
| `QueueManager.DisposedIsDeleted` | `talk/base/messagequeue.cc:225` | the comment says a disposed message is deleted; the line that does it is commented out |
| `DelayQueue.SortedByTrigger` | `talk/base/messagequeue.h:161` | line 153: sorted by trigger time; they are, as numbers, so that across a wrap the later one is the top and what it hides is delivered late |
| `FifoBuffer.BlockedAlwaysTold` | `talk/base/stream.cc:838` | `stream.h:111`: after `SR_BLOCK` an event follows; a larger capacity makes room and posts none |
| `AsyncWrite.AlwaysInOrder`, `NoneDropped` | `talk/base/stream.cc:590` | a `Flush` overtakes what the write thread has taken; `Close` does not wait for it |
| `SocketServer.SetsStartEmpty`, `NeverFails`, `NothingUnasked` | `talk/base/physicalsocketserver.cc:1302` | the comment says that select zeroes the sets; what the loop did not look at stays, so that a closed descriptor is selected on, or a new socket gets the bits of an old one |
| `Sigslot.NextIsThere` | `talk/base/sigslot.h:2262` | emission goes on from a connection that the handler before has freed |
| `Logging.StreamsLocked` | `talk/base/logging.cc:247` | lines 100 and 205: access to the streams is serialized by the lock; `LogToDebug` takes none, and its walk over a list that changes may leave a level at which messages are missed |
| `Logging.MinIsTheMinimum` | `talk/base/logging.cc:385` | `logging.h:227`: the most verbose of the levels; only the last stream counts |
| `Roster.NoDeadEngine` | `gxmpp/pumpthread.cc:245` | `moduleimpl.h:38`: a module is unregistered before its engine goes; a roster module made for a login calls the engine of a deleted client |
| `RosterData.GroupsCounted` | `talk/xmpp/rostermoduleimpl.cc:508` | the count is off once a group was added before they were counted |
| `RosterData.CountIsPositive` | `talk/xmpp/rostermoduleimpl.cc:454` | asserts that a contact whose groups are counted has one; the server need not put it into any |
| `ChatRoom.ValidWhenChanged` | `talk/xmpp/chatroommoduleimpl.cc:739` | `chatroommodule.h:131`: `IsValid` returns true if the collection has changed; it returns true as long as it has not |
| `ChatRoom.MembersAlwaysFollow` | `talk/xmpp/chatroommoduleimpl.cc:432` | members are not forgotten when the room is left |
| `HangoutPubSub.UnmutesHeard`, `AnsweredAsAsked` | `talk/xmpp/hangoutpubsubclient.cc:502` | a member that unmutes itself after a remote mute is taken for remotely unmuted and not signalled; the result of a retraction is signalled as that of a remote mute of nobody |
| `IqRequests.EveryRequestEnds` | `talk/xmpp/iqtask.cc:45` | a request has a timeout of 15 s, which no pump polls |
| `PingTask.TimeoutAlwaysSilence` | `talk/xmpp/pingtask.cc:55` | a deadline past the wrap of the clock has passed at once |
| `EchoThread.HeardAsSent` | `examples/echo/echothread.cc:186` | a message is kept in one member till the posted one is handled, and a second that comes before replaces it |
| `Chat.NeverMisled` | `examples/chat/chatapp.cc:136` | a choice is a place in a list, and the list may have changed when the choice is handled |
| `XmppPump.DeletedOnce` | `talk/xmpp/xmpppump.cc:44` | a second login before the first run starts the client twice, and it is deleted twice |
| `PubsubTask.ErrorsReported` | `talk/xmpp/pubsub_task.cc:79` | `pubsub_task.h:59`: the error handler is called when there is an error; the attribute is looked for on the wrong element. With `Foreign`, an unknown child of a list is never stepped over (line 207) |
| `XmlNames.PrintedIsParsed` | `talk/xmllite/xmlnsstack.cc:101` | an element with no namespace under a default one is printed in a way that cannot be parsed, and so is a control character |
| `XmlNames.TextsArrive` | `talk/xmllite/xmlprinter.cc:146` | line 146 and 166 escape what a parser would take apart, but leave ends of lines as they are: a carriage return, and any end of line in a value, is read as another character |
| `XmlElement.AlwaysHold` | `talk/xmllite/xmlelement.cc:348` | what is added behind a last child that `InsertChildAfter` inserted replaces it |
| `Encodings.TerminatorFits` | `talk/base/stringencode.h:43` | a decoder leaves room for the terminator; a reference to a character of several bytes may fill the buffer |
| `Addresses.ResourceChecked` | `talk/xmpp/jid.cc:230` | the comment says control characters are refused; what finds them is not looked at |
| `Addresses.CompleteIsResolved`, `NamesDiffer`, `CountsLeadingOnes`, `LoopbackIsARange` | `talk/base/socketaddress.cc:261`, `ipaddress.cc:387` | an unresolved name is complete and equal to another one; bits of a mask are counted behind a hole; one IPv4 address is a loopback address |
| `Sasl.PicksWhatItMakes` | `talk/xmpp/xmppauth.cc:77` | `saslhandler.h:42`: the best method according to the handler; `XmppAuth` picks the cookie mechanism, which it does not make, where PLAIN was offered |

## Proofs

Theorems hold for every value of the constants (any number of tasks, sessions,
handlers and any bounds), from the assumptions the modules name: bounds are natural
numbers, `Runner` and `NoTask` are not tasks, timeouts are positive, the sets of
stanzas, registrations and outcomes have their types.

`TaskRunnerProofs` proves every safety property that `runner_tree` and
`runner_service` check (`TreeSound` and `TimeoutsKept` from their parts), from one
invariant,

    IInv == TypeOK /\ TreeInv /\ LifeInv /\ NoLostWake /\ DestroyInv /\ TimeInv

The property that needs the most is `NoOrphans`: an abort walks down the children
lists, and `Doomed` says what it reaches as the least set closed under live
children that are not running. `LifeInv` adds to it that a task marked aborted is
done or is the one running, which goes when its code returns. `TreeInv` says that
parents are created tasks or the runner, and that the tree is well-founded: every
non-empty set of created tasks has one whose parent is outside it. That is what
makes `Destroy` reach every live task: those it did not reach would form a set in
which each has its parent. It is stated over sets because induction along the
parent relation is not available to the prover. `DestroyInv` then gives
`SilentDestruction`; `TimeInv` relates the cached next timeout, the deadline
before the run and the timer, and gives `NextTimeoutAlive` and `TimerNotLate`.

`XmppEngineProofs` proves every safety property of the engine's two runs, and that
it implements `Session`, in three layers. The first is the types and that the
dispatch loop never indexes past a vector, although handlers add and remove
handlers while it runs: positions are recomputed against the vector as it is. The
second is the login,

    LoginInv == ControlInv /\ TlsInv /\ AuthInv /\ ResetInv

where `ControlInv` says what each `pc` knows (an error closes the engine, the login
task runs in an opening engine only, handlers after it), `TlsInv` that a login which
still has to get TLS is before its credentials and has written none, `AuthInv` what
comes after the authentication, and `ResetInv` that login and parser wait for the
header of a stream together, but for the rest of the buffer that asked for a reset.
`LoginInOrder` and `CallbacksInSession` follow. The third is the session,

    SessionInv == IInv /\ LoginInv /\ TellInv /\ OrderInv /\ IdleInv

`TellInv` relates the state the outermost guard saved, the states told and the
output handler; `OrderInv` says that what the login holds back are the last of the
stanzas submitted, and that the others stand in the output in order, all of them
unless the engine is closed. A step is looked at from two sides: its shape is how
it enters or leaves the `EnterExit` guard, its move what it does with the stanzas.
`SubmittedInOrder` and each step of the refinement follow from both. `IqOnce` has an
invariant of its own: ids are given out in order, and each is in the table, answered
or removed.

`XmppClientProofs` proves the types, `EndReportedOnce` and `SocketThere` from

    IInv == TypeOK /\ Life

where `Life` says of each client what its phase implies: until it connects its
engine waits in START; while it is alive it has a socket, the pump listens to it,
and its end has been signalled exactly when its engine is closed; afterwards its
end has been signalled, it has no socket and no connection. `EndReportedOnce`
alone is not inductive: that an end is signalled once depends on the pump still
listening when it happens, and on no event reaching a client after it.
`PointersAlive` needs `PInv`, which adds what is in the queue of the pump (`Mail`): a
LOGIN is there only when the end of the last session was told, so that it makes the
next client, and while a client lives its RUN comes before a LOGIN; that a client
which may be stepped, and so one whose engine is closed, has a RUN on its way; and
that the pump knows of the end once it was signalled.

`MessageThreadProofs` proves the types, `SendsAreFlagged` and `LoopIsWoken` from

    IInv == TypeOK /\ Shape /\ SendsAreFlagged /\ \A t \in Thread : WokenInGet(t)

`Shape` says which frame of a stack may be entered from which: it is what tells
that a thread which comes back to `Get` from a handler starts over, and one that
comes back from `ReceiveSends` goes on to the poll. `WokenInGet` is `LoopIsWoken`
said of every place of `Get` from which something on may still be overlooked: a
listed Send from the poll on, a posted message from the test of `fStop_` on, a Quit
only in the wait. It needs `SendsAreFlagged`, since `Get` passes `ReceiveSends` by
when the flag is not set; `OthersWoken` says once what a step of one thread does
for all others.

What a handler may count on, `DelayKept` and `SendsWait`, is proved from

    HInv == IInv /\ TimeInv /\ SendInv /\ WakeInv

`TimeInv` is about the queues: what is posted was due, what is delayed is sorted,
and together they keep the order of messages of one time. `SendInv` gives every
Send that is not answered one place, in the list of its receiver or in the frame
that serves it, and a sender that waits for it. `WakeInv` is the part that a test
would not find: a sender whose answer is there is signalled, or a Send nested in it
has swallowed that wake-up and will give it back.

`FifoBufferProofs` proves that the ring implements `ByteQueue` (`IsQueue`), for every
capacity and any bytes, from `TypeOK /\ Loan`. `Loan` says that the part lent to a
writer starts behind the contents and ends before them, which is what lets the
reader go on meanwhile, and that a closed buffer has lent nothing. `Contents` is the
sequence of bytes of a ring from a position on; one lemma for each call says what it
does to it (a part taken from the front, a part put behind, a move to another ring),
and each action is then a step of the queue. `BlockedIsTold` is proved from the same
invariant.

`MCBaseProofs` proves `RequestsTellOnce` of `IqRequests` by itself and of the run, and
`ThreadsKeepOrder` and `MessagesInTime`, for any values of the constants of `MCBase`.
Each of its seven
parts has an inductive invariant, and as in `MCTasksProofs` a step of all of them is a
step or a stutter of each.

* Requests: `ToldOnce` is not inductive, since nothing in it keeps a request that has
  told from telling again before it ends. It becomes so with `SilentTillEnd`, a request
  that has not ended has told nothing, and `AskedIsSent`.
* Writer (`AsyncInv`): the chunks are parted (`Parted`) over the stream, the two
  threads and the buffer, and those dropped. Counting alone is not inductive, since a
  thread may take what is in the buffer while the other has a part; `AsyncParted` says
  that what is in the four places is in order as long as this has not happened, and
  `AsyncClosing` that after the last take of a caller nothing comes any more, so that
  a closed stream drops nothing.
* Signals (`PosixInv`): a flag that is set is ahead of the loop that looks for flags,
  or a byte is in the pipe, or its handler is still to write one (`FlagsAreSeen`). The
  loop may have passed a flag that is set behind it, but then its byte has not been
  read.
* Select loop (`ServerInv`): the list of dispatchers is the wake-up and every open
  socket, each once (`Sound`); a use of a socket in a handler keeps that, and unless it closes one only adds behind (`Keeps`). So what is
  left in the sets belongs to dispatchers that the loop will come to (`ToCome`), and
  the sets are empty when they are filled again. A close breaks exactly this, which is
  the disagreement at line 1302; `SelectsWhatIsAsked` therefore ends with the first
  close in a `Wait`.
* `SignalThread` (`SignalInv`): the count is that of the owner, of the frames of the
  main thread that hold a reference and of the worker while it holds `cs_`
  (`SignalCount`); `SignalLock` and `SignalMessage` say who may still lock `cs_` and
  who may still be sent a message, and `SignalState` and `SignalMain` what the state
  means for each thread.
* Queues (`QueueInv`): what a queue holds, or a thread has taken, is for a handler that
  is there and whose home it is (`QueueHeld`). A destruction walks over the queues the
  manager knows, so this needs that it knows every queue that holds anything
  (`QueueKnown`), and that a walk under way has cleared those behind it (`QueueClears`).
* Delayed messages (`DelayInv`): a trigger is the stamp of a time less than half a word
  away (`DelayStamped`), so that comparing stamps is comparing times whether or not the
  clock has wrapped, and nothing comes early. `DelayScans` says how
  old the clock of a pass of `Get` may be, `DelayWaits` that no wait goes beyond what
  is due next, and `DelayInOrder` that what was delivered is before what waits, while
  all are on one side (`OneSide`).

`MCTasksProofs` proves every invariant of the run `tasks` as a theorem of `AllSpec`,
for any values of the constants of `MCTasks`: the times of the ping task, the
statuses a program sends, the nodes, the contacts, and all bounds. Each part has an
inductive invariant of its own; `EachBegins` and `EachMoves` say that a step of all of
them is a step or a stutter of each.

The socket's (`BytesSentInOrder`) is

    IInv == Sound(Now, events) /\ NotYet /\ events \subseteq {...}

`Sound` has three parts. The bytes written are those the kernel took and then those
that wait. What waits has asked for its turn on a connection that is made *or on its
way*: a handler that writes while it connects leaves bytes that only `DoConnect` and
the event of the connect can send. And a socket found closed waits for no connect,
without which `OnPreEvent` could make a closed socket a connected one, with nobody
asked. The calls are operators on a record, so each has one lemma about any record,
and an action is a few of them.

`StatusInv` cuts the statuses that were sent at three places, by where each is: those
learned, those that wait at the receiver, those on their way, and those that wait at
the sender. `LearnedInOrder` follows for any statuses, since `DecodedAsMeant` says of
each kind what comes out at the other end. `NodeInv` says for each node which word of
it is the last, on the wire and in the queue: it is the server's, and where there is no
word, the handler knows it or a request is on its way. `PumpInv` follows the one client
of a pump from its socket to its entry in the list of the runner. `ChatInv` relates the
menu to the one the user has in mind by folding the typed lines that wait.

`EchoInv` is the longest, since what its messages are about is looked up when they are
handled:

    EchoInv == EchoTypes /\ EchoLife /\ EchoHeard
               /\ (the console and the server have let it be => EchoClean)

`EchoLife` counts what a pump told against the pumps there have been, and gives
`ToldOnce`. `EchoHeard` counts the messages heard and those that wait, and gives
`HeardInPlace`; the size of a part of a queue is a cardinality, so that the lemmas about
finite sets say how it changes, and `LeftEmbeds` says that what is left of a queue when
the messages of a deleted pump are taken out is in its order. `EchoClean` gives
`NothingLost`: an OPEN waits only while its session is open and its tasks are not made,
a MESSAGE only while the tasks live, a LOGIN only with a module and no CLOSED, and none
of OPEN and MESSAGE stands behind a message that ends their session (`EchoLine`). It says
nothing once the console has meddled with a session or a session ended with its OPEN in
the queue; that the program may then use what is gone is part of the property.

`PingTask` proves `PingsInTime` behind its definitions, for any period and a timeout
that is not longer, as the constructor asserts, while neither the clock nor a sum
with it has wrapped. The invariant says that a time is `Awaited`: its message is on
its way, or it came and woke the task; and that a deadline belongs to the last ping
or its answer is in the queue (`Pending`). So there is one ping without an answer at
most (`OneByOne`), and no answer can be taken for that of another ping. One corner
is excluded: a timeout of 0 on a clock that starts at 0, where a deadline is the
value that means none.

The assumptions of `FifoBufferProofs`, `MCTasksProofs` and `PingTask` are named there
or in `MCTasks` (`Sizes`, `Periods`, `PingAssumption`, `StatusAssumption`,
`NodeAssumption`, `BoundAssumption`): bounds are natural numbers, a buffer has room for
a byte, a timeout is as just said, statuses are of the kinds of `PresenceStatus`, and no
node has the empty name. `RequestsHold` and `CallersAreTold` assume nothing; the rest
of `MCBaseProofs` assumes what `MCBase` names (`SignalAssumption`, `SocketAssumption`,
`BoundAssumption`, `QueueAssumption`, `DelayAssumption`): signals are numbered from 1, a pipe takes a byte at least, the uses of
a socket are those of the code, bounds are natural numbers, the main thread is one of
the threads and each handler has one, and no delay is as long as half of a word. In `MCTasks` the server
puts no children of other names into a list of items (`Foreign` is `FALSE`): what
happens with them is a disagreement.

Only model-checked: all liveness, since it rests on fairness and `ENABLED`, which are
out of the prover's reach (`CallsReturn`, `Serviced`, `AllAnswered`,
`EndsAndStanzasServed`, `AnswersCome`, `WaitersServed`); what recursive definitions
compute (`Encodings`, `Addresses`, `XmlNames`), which takes induction over data; and
the properties of `modules` that join several modules
(`RosterFollows`, `RoomsFollow`, `ListenersHear`, `BytesArrive` but for
`BlockedIsTold`, `ReadsBack`) or are next on the list above (`SecretsArrive`). The
disagreements do not hold.

## What is left out

* `XmppEngine`: the setters that only store a value before `Connect`; the text of
  stanzas; output and session handlers that call the engine back synchronously
  (those of `XmppClient` do not).
* `TaskRunner`: starting a task twice (but for `XmppPump`, where it happens),
  deleting a task from outside the runner, adding a child to a finished parent. The
  code supports none of them and checks none of them.
* `MessageThread` and `QueueManager` split the queue between them: the first has
  every interleaving of `Get` and `Send`, the second the life of handlers, queues
  and threads. Names, priorities and automatic threads are left out.
* `XmppClient`: calls from other threads of `client()` and `state()`; TLS sockets
  (`FEATURE_ENABLE_SSL` is not defined). The authentication is taken with all its
  outcomes, although `PumpThread` passes an `XmppAuth` that succeeds at once.
* `SocketServer`: datagrams, options, files as dispatchers, Windows. A handler that
  receives from a socket after its close event is left out: it enables the event
  again and gets it forever.
* `SignalThread`: destroying the object with a wait inside its own
  `SignalWorkDone`, right after starting it again there, does not return.
* `Sigslot`: `multi_threaded_local` and the other policies with locks, which the
  repository does not use.
* Streams of files and strings, references to streams, string utilities, the text
  of documents and log messages: they wrap the C library or hold nothing that
  changes.
* Constants, proxies and name resolution: data and blocking calls. Expat:
  third-party, seen through its events.
* The examples but for the threads and menus of the chat and echo programs:
  `main` functions, a copy of the pump, printing. Of the smart pointers the array
  and `malloc` forms, which differ in how they delete.
