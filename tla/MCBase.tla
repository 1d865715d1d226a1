------------------------------- MODULE MCBase -------------------------------
(***************************************************************************)
(* What several threads share, sockets, signals and timers, and requests   *)
(* that race with their timeouts, in one run.  They share no state: in a   *)
(* behaviour only one of them, part, moves.  IqRequests is extended, so    *)
(* that its theorems speak of what is checked here; the others are         *)
(* instances.                                                              *)
(***************************************************************************)
EXTENDS IqRequests

CONSTANTS
    MaxChunks,                                  \* of the asynchronous writer
    PosixSignal, PipeSize, ReadSize, MaxRaised, \* of the POSIX signals
    SocketOps, MaxSockets, MaxSocketInputs,     \* of the socket server
    MaxStarts,                                  \* of the SignalThread
    QueueThread, QueueHandler, HandlerHome,
    MaxQueueCalls,                              \* of the queues
    StampWord, ClockStart, ClockEnd, PassTime, PostDelay, MaxDelayed
                                                \* of the delayed messages

\* The thread that each handler belongs to.
Home == [h \in {"a", "b"} |-> IF h = "a" THEN 1 ELSE 2]

\* Signals are numbered from 1, and a pipe takes a byte at least.
SignalAssumption ==
    /\ IsFiniteSet(PosixSignal) /\ PosixSignal = 1 .. Cardinality(PosixSignal)
    /\ PipeSize \in Nat \ {0} /\ ReadSize \in Nat
ASSUME SignalAssumption
\* What an application does with a socket; and bounds are numbers.
SocketAssumption ==
    /\ SocketOps \subseteq {"nothing", "receive", "send", "close", "close others",
                            "connect", "listen"}
    /\ MaxSockets \in Nat
ASSUME SocketAssumption
BoundAssumption == MaxChunks \in Nat /\ MaxStarts \in Nat
ASSUME BoundAssumption
\* The main thread is one of them; a message without a handler is one of Dispose.
QueueAssumption ==
    /\ 1 \in QueueThread /\ QueueThread \subseteq Nat \ {0}
    /\ "nobody" \notin QueueHandler /\ HandlerHome \in [QueueHandler -> QueueThread]
ASSUME QueueAssumption
\* Half of a word is more than any delay and what a few passes of Get take.
DelayAssumption ==
    /\ StampWord \in Nat /\ StampWord = 2 * (StampWord \div 2)
    /\ ClockStart \in Nat /\ PassTime \in Nat /\ PostDelay \subseteq Nat
    /\ \A delay \in PostDelay : delay + PassTime < StampWord \div 2
    /\ 2 * PassTime < StampWord \div 2
ASSUME DelayAssumption

VARIABLES
    part,           \* the module that moves
    async_buffer, async_messages, async_state, async_pc, async_doing,
    async_to_write, async_stream, async_open, async_accepted, async_late,
    async_crossed,
    posix_received, posix_pipe, posix_handlers, posix_raising, posix_pc,
    posix_signum, posix_owed, posix_raised,
    server_dispatchers, server_sock, server_signaled, server_pc,
    server_process_io, server_forever, server_fWait, server_failed,
    server_reads, server_writes, server_i, server_removed, server_unasked,
    server_inputs,
    signal_state, signal_refcount, signal_queue, signal_main, signal_lock,
    signal_main_at, signal_do_delete, signal_started, signal_stopping,
    signal_worker_at, signal_deleted, signal_owner, signal_due, signal_starts,
    queues_msgq, queues_dmsgq, queues_sendlist, queues_msgPeek, queues_fStop,
    queues_active, queues_message_queues, queues_manager, queues_crit,
    queues_handlers, queues_started, queues_exists, queues_at, queues_doing,
    queues_data, queues_stale, queues_calls,
    delayed_clock, delayed_dmsgq_, delayed_dmsgq_next_num_, delayed_delivered,
    delayed_at, delayed_msCurrent, delayed_wakeAt, delayed_early,
    delayed_overslept, delayed_straddled

AsyncWrite == INSTANCE AsyncWrite WITH
    MaxChunks <- MaxChunks, buffer <- async_buffer, messages <- async_messages,
    state <- async_state, pc <- async_pc, doing <- async_doing,
    to_write <- async_to_write, stream <- async_stream, open <- async_open,
    accepted <- async_accepted, late <- async_late, crossed <- async_crossed
PosixSignals == INSTANCE PosixSignals WITH
    Signal <- PosixSignal, PipeSize <- PipeSize, ReadSize <- ReadSize,
    MaxRaised <- MaxRaised,
    received <- posix_received, pipe <- posix_pipe, handlers <- posix_handlers,
    raising <- posix_raising, pc <- posix_pc, signum <- posix_signum,
    owed <- posix_owed, raised <- posix_raised
SocketServer == INSTANCE SocketServer WITH
    Op <- SocketOps, MaxSockets <- MaxSockets,
    MaxInputs <- MaxSocketInputs, dispatchers <- server_dispatchers,
    sock <- server_sock, signaled <- server_signaled, pc <- server_pc,
    process_io <- server_process_io, forever <- server_forever,
    fWait <- server_fWait, failed <- server_failed, reads <- server_reads,
    writes <- server_writes, i <- server_i, removed <- server_removed,
    unasked <- server_unasked, inputs <- server_inputs
SignalThread == INSTANCE SignalThread WITH
    MaxStarts <- MaxStarts, state <- signal_state, refcount <- signal_refcount,
    queue <- signal_queue, main <- signal_main, lock <- signal_lock,
    main_at <- signal_main_at, do_delete <- signal_do_delete,
    started <- signal_started, stopping <- signal_stopping,
    worker_at <- signal_worker_at, deleted <- signal_deleted,
    owner <- signal_owner, due <- signal_due, starts <- signal_starts
QueueManager == INSTANCE QueueManager WITH
    Thread <- QueueThread, Handler <- QueueHandler, Home <- HandlerHome,
    MaxCalls <- MaxQueueCalls,
    msgq <- queues_msgq, dmsgq <- queues_dmsgq, sendlist <- queues_sendlist,
    msgPeek <- queues_msgPeek, fStop <- queues_fStop, active <- queues_active,
    message_queues <- queues_message_queues, manager <- queues_manager,
    crit <- queues_crit, handlers <- queues_handlers,
    started <- queues_started, exists <- queues_exists, at <- queues_at,
    doing <- queues_doing, data <- queues_data, stale <- queues_stale,
    calls <- queues_calls
DelayQueue == INSTANCE DelayQueue WITH
    Word <- StampWord, Start <- ClockStart, End <- ClockEnd, MaxPass <- PassTime,
    Delay <- PostDelay, MaxPosts <- MaxDelayed,
    clock <- delayed_clock, dmsgq_ <- delayed_dmsgq_,
    dmsgq_next_num_ <- delayed_dmsgq_next_num_, delivered <- delayed_delivered,
    at <- delayed_at, msCurrent <- delayed_msCurrent, wakeAt <- delayed_wakeAt,
    early <- delayed_early, overslept <- delayed_overslept,
    straddled <- delayed_straddled

Part == {"IqRequests", "AsyncWrite", "PosixSignals", "SocketServer",
         "SignalThread", "QueueManager", "DelayQueue"}

AllInit ==
    /\ part \in Part
    /\ Init
    /\ AsyncWrite!Init
    /\ PosixSignals!Init
    /\ SocketServer!Init
    /\ SignalThread!Init
    /\ QueueManager!Init
    /\ DelayQueue!Init

async_vars ==
    <<async_buffer, async_messages, async_state, async_pc, async_doing,
      async_to_write, async_stream, async_open, async_accepted, async_late,
      async_crossed>>
posix_vars ==
    <<posix_received, posix_pipe, posix_handlers, posix_raising, posix_pc,
      posix_signum, posix_owed, posix_raised>>
server_vars ==
    <<server_dispatchers, server_sock, server_signaled, server_pc,
      server_process_io, server_forever, server_fWait, server_failed,
      server_reads, server_writes, server_i, server_removed, server_unasked,
      server_inputs>>
signal_vars ==
    <<signal_state, signal_refcount, signal_queue, signal_main, signal_lock,
      signal_main_at, signal_do_delete, signal_started, signal_stopping,
      signal_worker_at, signal_deleted, signal_owner, signal_due, signal_starts>>
queues_vars ==
    <<queues_msgq, queues_dmsgq, queues_sendlist, queues_msgPeek, queues_fStop,
      queues_active, queues_message_queues, queues_manager, queues_crit,
      queues_handlers, queues_started, queues_exists, queues_at, queues_doing,
      queues_data, queues_stale, queues_calls>>
delayed_vars ==
    <<delayed_clock, delayed_dmsgq_, delayed_dmsgq_next_num_,
      delayed_delivered, delayed_at, delayed_msCurrent, delayed_wakeAt,
      delayed_early, delayed_overslept, delayed_straddled>>
all_vars == <<part, vars, async_vars, posix_vars, server_vars,
          signal_vars, queues_vars, delayed_vars>>

IqRequestsStep ==
    /\ part = "IqRequests" /\ Next
    /\ UNCHANGED <<part, async_vars, posix_vars, server_vars, signal_vars,
                   queues_vars, delayed_vars>>
AsyncWriteStep ==
    /\ part = "AsyncWrite" /\ AsyncWrite!Next
    /\ UNCHANGED <<part, vars, posix_vars, server_vars, signal_vars,
                   queues_vars, delayed_vars>>
PosixSignalsStep ==
    /\ part = "PosixSignals" /\ PosixSignals!Next
    /\ UNCHANGED <<part, vars, async_vars, server_vars, signal_vars,
                   queues_vars, delayed_vars>>
SocketServerStep ==
    /\ part = "SocketServer" /\ SocketServer!Next
    /\ UNCHANGED <<part, vars, async_vars, posix_vars, signal_vars,
                   queues_vars, delayed_vars>>
SignalThreadStep ==
    /\ part = "SignalThread" /\ SignalThread!Next
    /\ UNCHANGED <<part, vars, async_vars, posix_vars, server_vars,
                   queues_vars, delayed_vars>>
QueueManagerStep ==
    /\ part = "QueueManager" /\ QueueManager!Next
    /\ UNCHANGED <<part, vars, async_vars, posix_vars, server_vars,
                   signal_vars, delayed_vars>>
DelayQueueStep ==
    /\ part = "DelayQueue" /\ DelayQueue!Next
    /\ UNCHANGED <<part, vars, async_vars, posix_vars, server_vars,
                   signal_vars, queues_vars>>
AllNext ==
    \/ IqRequestsStep \/ AsyncWriteStep \/ PosixSignalsStep \/ SocketServerStep
    \/ SignalThreadStep \/ QueueManagerStep \/ DelayQueueStep

\* What the modules are fair to, each while it moves.
AllFairness ==
    /\ WF_vars(part = "IqRequests" /\ Deliver)
    /\ \A r \in Request : WF_vars(part = "IqRequests" /\ Step(r))
    /\ WF_async_vars(part = "AsyncWrite" /\ AsyncWrite!Post)
    /\ WF_async_vars(part = "AsyncWrite" /\ AsyncWrite!Finish)
    /\ WF_async_vars(part = "AsyncWrite" /\ AsyncWrite!OnMessage)
    /\ WF_async_vars(part = "AsyncWrite" /\ AsyncWrite!TransferTo("caller"))
    /\ WF_async_vars(part = "AsyncWrite" /\ AsyncWrite!WriteAll("caller"))
    /\ WF_async_vars(part = "AsyncWrite" /\ AsyncWrite!TransferTo("writer"))
    /\ WF_async_vars(part = "AsyncWrite" /\ AsyncWrite!WriteAll("writer"))
    /\ WF_posix_vars(part = "PosixSignals" /\ PosixSignals!OnPreEvent)
    /\ WF_posix_vars(part = "PosixSignals" /\ PosixSignals!OnEvent)
    /\ WF_posix_vars(part = "PosixSignals" /\ PosixSignals!CallHandler)
    /\ \A s \in PosixSignal :
           WF_posix_vars(part = "PosixSignals" /\ PosixSignals!Notify(s))
    /\ WF_server_vars(part = "SocketServer" /\ SocketServer!Begin)
    /\ WF_server_vars(part = "SocketServer" /\ SocketServer!Select)
    /\ WF_server_vars(part = "SocketServer" /\ SocketServer!Error)
    /\ WF_server_vars(part = "SocketServer" /\ SocketServer!DispatchWakeUp)
    /\ WF_server_vars(part = "SocketServer" /\ SocketServer!Dispatch)
    /\ WF_server_vars(part = "SocketServer" /\ SocketServer!EndLoop)
    /\ WF_queues_vars(part = "QueueManager" /\ QueueManager!Sent)
    /\ \A t \in QueueThread :
           WF_queues_vars(part = "QueueManager" /\ QueueManager!ThreadStep(t))
    /\ WF_delayed_vars(part = "DelayQueue" /\ DelayQueue!Tick)
    /\ WF_delayed_vars(part = "DelayQueue" /\ DelayQueue!Trigger)
    /\ WF_delayed_vars(part = "DelayQueue" /\ DelayQueue!BeginWait)
    /\ WF_delayed_vars(part = "DelayQueue" /\ DelayQueue!EndWait)
    /\ WF_signal_vars(part = "SignalThread" /\ SignalThread!MainStep)
    /\ SF_signal_vars(part = "SignalThread" /\ SignalThread!WorkerStep)
    /\ SF_signal_vars(part = "SignalThread" /\ SignalThread!DoWorkEnds)

AllSpec == AllInit /\ [][AllNext]_all_vars /\ AllFairness

-----------------------------------------------------------------------------

\* No handler is called after its destruction or for a queue that is gone; the
\* manager knows the queues that are in use (MessageQueueManager, MessageQueue
\* ::Clear).  A delayed message never comes before its time, whether the clock
\* wraps or not, and in its order and time as long as those that wait with it are
\* due on the same side of a wrap as it (PostDelayed, Get).
MessagesInTime ==
    /\ QueueManager!TypeOK /\ QueueManager!HandlersOutliveMessages
    /\ QueueManager!ManagerKnowsQueues
    /\ DelayQueue!TypeOK /\ DelayQueue!DeliveredInTime

\* Each chunk is written once, or dropped by a Close, and in order unless both
\* threads held a part at one time; a signal whose byte found the pipe full is
\* still owed; select waits for what is asked for, unless a handler of this Wait
\* has closed a socket, after which a socket may also get an event that it did
\* not ask for; a SignalThread is deleted once, last of all, and signals the end
\* of its work once for each start (AsyncWriteStream, PosixSignalHandler,
\* PhysicalSocketServer::Wait, SignalThread).
ThreadsKeepOrder ==
    /\ AsyncWrite!TypeOK /\ AsyncWrite!EachChunkOnce
    /\ PosixSignals!TypeOK /\ PosixSignals!NeverBlocksOwing
    /\ SocketServer!TypeOK /\ SocketServer!SelectsWhatIsAsked
    /\ SignalThread!TypeOK /\ SignalThread!DeletedLast /\ SignalThread!SignalledOnce

\* Whoever waits is served: a delayed message is delivered, a Clear ends, a
\* SignalThread that its owner let go is deleted (MessageQueue::Get,
\* MessageQueueManager::Clear, SignalThread::Release, Destroy); chunks are
\* written, signals handled, wake-ups end the wait and events are told
\* (AsyncWriteStream, PosixSignalDispatcher, PhysicalSocketServer::Wait); an
\* answer in the queue ends its request (IqTask::HandleStanza).
WaitersServed ==
    /\ DelayQueue!AllDelivered /\ QueueManager!DestructionEnds
    /\ SignalThread!EndsDeleted
    /\ AsyncWrite!ChunksArrive /\ PosixSignals!SignalsHandled
    /\ SocketServer!WakeUpEndsWait /\ SocketServer!EventsArrive
    /\ AnswerEnds
=============================================================================
