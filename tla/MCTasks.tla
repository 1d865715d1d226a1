------------------------------- MODULE MCTasks -------------------------------
(***************************************************************************)
(* The tasks on top of a client, its socket and the pump that logs it in,  *)
(* in one run.  They share no state: in a behaviour only one of them,      *)
(* part, moves.  XmppSocket is extended, so that its theorems speak of     *)
(* what is checked here; the others are instances.                         *)
(***************************************************************************)
EXTENDS XmppSocket

CONSTANTS
    PingPeriod, PingLimit,      \* of the ping task
    PingStart, PingEnd,         \* when its clock begins, and a bound of it
    PingWord,                   \* how many times a clock tells apart
    Statuses,                   \* what a program sends, and how often at most
    StatusInputs,
    PumpInputs,                 \* bounds of the pump and of the programs on it
    EchoCalls, EchoStanzas,
    Contacts,                   \* of the chat program, in the order of its list
    ChatLines, ChatPresences,
    Nodes,                      \* that a pubsub task can follow
    NodeCalls, NodeChanges

\* Statuses that differ in what the presence tasks tell apart.
FiveStatuses ==
    {[available |-> TRUE, show |-> "NONE", status |-> "short", caps |-> ""],
     [available |-> TRUE, show |-> "AWAY", status |-> "long", caps |-> "node"],
     [available |-> TRUE, show |-> "OFFLINE", status |-> "short", caps |-> "node"],
     [available |-> TRUE, show |-> "DND", status |-> "short", caps |-> ""],
     [available |-> FALSE, show |-> "ONLINE", status |-> "short", caps |-> "node"]}

\* The contacts of the chat program.
TwoContacts == <<"bob", "eve">>

VARIABLES
    part,           \* the module that moves
    ping_now, ping_next_ping_time, ping_deadline, ping_woken, ping_answers,
    ping_due, ping_pings, ping_phase,
    presence_out_state, presence_out_blocked, presence_out_queue,
    presence_connected, presence_to_receiver, presence_in_queue,
    presence_in_blocked, presence_sent, presence_learned, presence_known,
    presence_inputs,
    pump_queue, pump_pump_state, pump_told, pump_socket, pump_task,
    pump_blocked, pump_entries, pump_deletions, pump_engine, pump_early,
    pump_touched, pump_inputs,
    echo_queue, echo_polling, echo_module, echo_handler, echo_state,
    echo_client, echo_tasks, echo_awake, echo_unread, echo_message, echo_try,
    echo_lost, echo_passed, echo_heard, echo_told, echo_logins, echo_meddled,
    echo_overtaken, echo_calls, echo_stanzas,
    chat_inbox, chat_reading, chat_main, chat_session, chat_tasks, chat_ui,
    chat_roster, chat_dest, chat_lost, chat_shown, chat_intent, chat_misled,
    chat_sent, chat_lines, chat_presences,
    pubsub_subscribed_nodes, pubsub_value, pubsub_version, pubsub_gets,
    pubsub_wire, pubsub_queue, pubsub_items, pubsub_learned, pubsub_answered,
    pubsub_errors, pubsub_reported, pubsub_calls

PingTask == INSTANCE PingTask WITH
    Period <- PingPeriod, Timeout <- PingLimit, Start <- PingStart,
    End <- PingEnd, Word <- PingWord,
    now <- ping_now, next_ping_time <- ping_next_ping_time,
    deadline <- ping_deadline, woken <- ping_woken, answers <- ping_answers,
    due <- ping_due, pings <- ping_pings, phase <- ping_phase
Presence == INSTANCE Presence WITH
    Sample <- Statuses, MaxInputs <- StatusInputs, out_state <- presence_out_state,
    out_blocked <- presence_out_blocked, out_queue <- presence_out_queue,
    connected <- presence_connected, to_receiver <- presence_to_receiver,
    in_queue <- presence_in_queue, in_blocked <- presence_in_blocked,
    sent <- presence_sent, learned <- presence_learned,
    known <- presence_known, inputs <- presence_inputs
XmppPump == INSTANCE XmppPump WITH
    MaxInputs <- PumpInputs, queue <- pump_queue, pump_state <- pump_pump_state,
    told <- pump_told, socket <- pump_socket, task <- pump_task,
    blocked <- pump_blocked, entries <- pump_entries,
    deletions <- pump_deletions, engine <- pump_engine, early <- pump_early,
    touched <- pump_touched, inputs <- pump_inputs
EchoThread == INSTANCE EchoThread WITH
    MaxCalls <- EchoCalls, MaxStanzas <- EchoStanzas, queue <- echo_queue,
    polling <- echo_polling, module <- echo_module, handler <- echo_handler,
    state <- echo_state, client <- echo_client, tasks <- echo_tasks,
    awake <- echo_awake, unread <- echo_unread, message <- echo_message,
    try <- echo_try, lost <- echo_lost, passed <- echo_passed,
    heard <- echo_heard, told <- echo_told, logins <- echo_logins,
    meddled <- echo_meddled, overtaken <- echo_overtaken, calls <- echo_calls,
    stanzas <- echo_stanzas
Chat == INSTANCE Chat WITH
    Contact <- Contacts, MaxLines <- ChatLines,
    MaxPresences <- ChatPresences, inbox <- chat_inbox,
    reading <- chat_reading, main <- chat_main, session <- chat_session,
    tasks <- chat_tasks, ui <- chat_ui, roster <- chat_roster,
    dest <- chat_dest, lost <- chat_lost, shown <- chat_shown,
    intent <- chat_intent, misled <- chat_misled, sent <- chat_sent,
    lines <- chat_lines, presences <- chat_presences
PubsubTask == INSTANCE PubsubTask WITH
    Node <- Nodes, Foreign <- FALSE, MaxCalls <- NodeCalls,
    MaxChanges <- NodeChanges,
    subscribed_nodes <- pubsub_subscribed_nodes, value <- pubsub_value,
    version <- pubsub_version, gets <- pubsub_gets, wire <- pubsub_wire,
    queue <- pubsub_queue, items <- pubsub_items, learned <- pubsub_learned,
    answered <- pubsub_answered, errors <- pubsub_errors,
    reported <- pubsub_reported, calls <- pubsub_calls

\* The constructor of PingTask asserts that the timeout is at most the period.
ASSUME PingAssumption ==
    /\ PingPeriod \in Nat /\ PingLimit \in Nat /\ PingLimit <= PingPeriod
    /\ PingStart \in Nat /\ PingEnd \in Nat /\ PingStart <= PingEnd
    /\ PingStart + PingLimit > 0 /\ PingWord \in Nat \ {0}
ASSUME StatusAssumption == Statuses \subseteq Presence!Status
ASSUME NodeAssumption == "" \notin Nodes
ASSUME BoundAssumption ==
    /\ MaxBytes \in Nat /\ MaxWrite \in Nat /\ Room \in Nat
    /\ StatusInputs \in Nat /\ PumpInputs \in Nat
    /\ EchoCalls \in Nat /\ EchoStanzas \in Nat
    /\ ChatLines \in Nat /\ ChatPresences \in Nat
    /\ NodeCalls \in Nat /\ NodeChanges \in Nat

Part == {"XmppSocket", "PingTask", "Presence", "XmppPump", "EchoThread",
         "Chat", "PubsubTask"}

AllInit ==
    /\ part \in Part
    /\ Init
    /\ PingTask!Init
    /\ Presence!Init
    /\ XmppPump!Init
    /\ EchoThread!Init
    /\ Chat!Init
    /\ PubsubTask!Init

ping_vars ==
    <<ping_now, ping_next_ping_time, ping_deadline, ping_woken, ping_answers,
      ping_due, ping_pings, ping_phase>>
presence_vars ==
    <<presence_out_state, presence_out_blocked, presence_out_queue,
      presence_connected, presence_to_receiver, presence_in_queue,
      presence_in_blocked, presence_sent, presence_learned, presence_known,
      presence_inputs>>
pump_vars ==
    <<pump_queue, pump_pump_state, pump_told, pump_socket, pump_task,
      pump_blocked, pump_entries, pump_deletions, pump_engine, pump_early,
      pump_touched, pump_inputs>>
echo_vars ==
    <<echo_queue, echo_polling, echo_module, echo_handler, echo_state,
      echo_client, echo_tasks, echo_awake, echo_unread, echo_message, echo_try,
      echo_lost, echo_passed, echo_heard, echo_told, echo_logins, echo_meddled,
      echo_overtaken, echo_calls, echo_stanzas>>
chat_vars ==
    <<chat_inbox, chat_reading, chat_main, chat_session, chat_tasks, chat_ui,
      chat_roster, chat_dest, chat_lost, chat_shown, chat_intent, chat_misled,
      chat_sent, chat_lines, chat_presences>>
pubsub_vars ==
    <<pubsub_subscribed_nodes, pubsub_value, pubsub_version, pubsub_gets,
      pubsub_wire, pubsub_queue, pubsub_items, pubsub_learned, pubsub_answered,
      pubsub_errors, pubsub_reported, pubsub_calls>>
all_vars == <<part, vars, ping_vars, presence_vars, pump_vars,
          echo_vars, chat_vars, pubsub_vars>>

XmppSocketStep ==
    /\ part = "XmppSocket" /\ Next
    /\ UNCHANGED <<part, ping_vars, presence_vars, pump_vars, echo_vars,
                   chat_vars, pubsub_vars>>
PingTaskStep ==
    /\ part = "PingTask" /\ PingTask!Next
    /\ UNCHANGED <<part, vars, presence_vars, pump_vars, echo_vars, chat_vars,
                   pubsub_vars>>
PresenceStep ==
    /\ part = "Presence" /\ Presence!Next
    /\ UNCHANGED <<part, vars, ping_vars, pump_vars, echo_vars, chat_vars,
                   pubsub_vars>>
XmppPumpStep ==
    /\ part = "XmppPump" /\ XmppPump!Next
    /\ UNCHANGED <<part, vars, ping_vars, presence_vars, echo_vars, chat_vars,
                   pubsub_vars>>
EchoThreadStep ==
    /\ part = "EchoThread" /\ EchoThread!Next
    /\ UNCHANGED <<part, vars, ping_vars, presence_vars, pump_vars, chat_vars,
                   pubsub_vars>>
ChatStep ==
    /\ part = "Chat" /\ Chat!Next
    /\ UNCHANGED <<part, vars, ping_vars, presence_vars, pump_vars, echo_vars,
                   pubsub_vars>>
PubsubTaskStep ==
    /\ part = "PubsubTask" /\ PubsubTask!Next
    /\ UNCHANGED <<part, vars, ping_vars, presence_vars, pump_vars, echo_vars,
                   chat_vars>>

AllNext ==
    \/ XmppSocketStep \/ PingTaskStep \/ PresenceStep \/ XmppPumpStep
    \/ EchoThreadStep \/ ChatStep \/ PubsubTaskStep


\* What the modules are fair to, each while it moves.
AllFairness ==
    /\ WF_vars(part = "XmppSocket" /\ OnResolveResult)
    /\ WF_vars(part = "XmppSocket" /\ OnPreEvent)
    /\ WF_vars(part = "XmppSocket" /\ OnEvent)
    /\ WF_vars(part = "XmppSocket" /\ Answered)
    /\ WF_vars(part = "XmppSocket" /\ Drain)
    /\ WF_presence_vars(part = "Presence" /\ Presence!OutStep)
    /\ WF_presence_vars(part = "Presence" /\ Presence!HandleStanza)
    /\ WF_presence_vars(part = "Presence" /\ Presence!InStep)
    /\ WF_pubsub_vars(part = "PubsubTask" /\ PubsubTask!Answer)
    /\ WF_pubsub_vars(part = "PubsubTask" /\ PubsubTask!HandleStanza)
    /\ WF_pubsub_vars(part = "PubsubTask" /\ PubsubTask!ProcessResponse)
    /\ WF_pubsub_vars(part = "PubsubTask" /\ PubsubTask!HandleItem)

AllSpec == AllInit /\ [][AllNext]_all_vars /\ AllFairness

-----------------------------------------------------------------------------

\* While no time has wrapped, a ping task that sleeps is woken in time, sends a
\* ping when the one before was answered, and its timeout means that the server
\* was silent (PingTask::ProcessStart).
PingsInTime == PingTask!PingsInTime

\* Statuses and items are learned as they were sent, and the last of them last
\* (PresenceOutTask::TranslateStatus, PresenceReceiveTask::DecodeStatus,
\* PubsubTask::HandlePubsubEventMessage); messages are heard in their place
\* (EchoThread::OnXmppMessage) and sent where the user meant (ChatApp).
UpdatesInOrder ==
    /\ Presence!TypeOK /\ Presence!LearnedInOrder
    /\ PubsubTask!TypeOK /\ PubsubTask!LearnsTheLast
    /\ EchoThread!TypeOK /\ EchoThread!HeardInPlace
    /\ Chat!TypeOK /\ Chat!SentAsMeant

\* The pump uses its client only while there is one, and what it told of the
\* connection is true (XmppPump::DoLogin, OnStateChange); so do the programs on
\* top of it, with the exceptions that the modules name (EchoThread::OnMessage,
\* ChatApp::HandleChatInput).
PumpUsesClient ==
    /\ XmppPump!TypeOK /\ XmppPump!ClientUsedWell
    /\ EchoThread!NothingLost /\ EchoThread!ToldOnce
    /\ Chat!TasksThere

\* Every status that was accepted is learned unless the client is disconnected
\* (PresenceReceiveTask), and the task comes to the answer of each subscription:
\* the items in it, or an error that repeats the request, which the task takes
\* for an answer without items and reports to nobody.  Lists of items have
\* nothing else in them: a child of another name ends in an endless loop
\* (PubsubTask).  A connect that was asked for is answered, and what is written
\* is sent unless the connection ends (XmppSocket::Connect, OnEvent).
AnswersCome ==
    /\ Presence!EventuallyLearned /\ PubsubTask!SubscriptionsAnswered
    /\ ConnectAnswered /\ WrittenIsSent
=============================================================================
