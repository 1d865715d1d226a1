--------------------------- MODULE XmppClientProofs ---------------------------
(***************************************************************************)
(* Proofs about XmppClient: the types; that the end of a session is        *)
(* reported to the pump once whoever ends it; and that nobody uses what is *)
(* gone, but for a DISCONNECT that comes after the end.                    *)
(***************************************************************************)
EXTENDS XmppClient, SequenceTheorems, TLAPS

USE DEF client_vars, task_vars, run_vars, pump_vars, app_vars

\* Where a client is in its life, and what goes with it: until it is connected
\* its engine waits in START, while it is alive it has a socket and the pump
\* listens to it, and its end has been signalled exactly when its engine is
\* closed; afterwards nothing can happen to it.
Waiting(c) == phase[c] \in {"INIT", "PRE_XMPP_LOGIN"}
LifeOf(c) ==
    /\ phase[c] # "none" <=> c <= client
    /\ phase[c] = "none" => c \notin signal_closed
    /\ Waiting(c) => engine[c] = "START"
    /\ net[c] \in {"connecting", "connected"} => phase[c] = "RESPONSE"
    /\ c \in Live => /\ c \in connected /\ socket[c] # "none"
                     /\ engine[c] = "CLOSED" <=> c \in signal_closed
    /\ phase[c] \notin {"none"} /\ c \notin Live => c \in signal_closed
    /\ c \notin Live => socket[c] = "none"
    /\ reported[c] = IF c \in signal_closed THEN 1 ELSE 0

Life == \A c \in Client : LifeOf(c)

IInv == TypeOK /\ Life

-----------------------------------------------------------------------------
\* What is posted besides literal messages is a message.
LEMMA PostedMessages ==
    ASSUME NEW c, NEW t, NEW s
    PROVE  /\ Posts(c, s) \in Seq(Message)
           /\ WakeUp(c) \in Seq(Message)
           /\ TaskWakeUp(t) \in Seq(Message)
<1> "RUN" \in Message /\ "OPEN" \in Message /\ "CLOSED" \in Message
  BY DEF Message
<1>1. CASE s \in {"OPEN", "CLOSED"}
  BY <1>1 DEF Posts, WakeUp, TaskWakeUp
<1>2. CASE s \notin {"OPEN", "CLOSED"}
  BY <1>2 DEF Posts, WakeUp, TaskWakeUp
<1> QED
  BY <1>1, <1>2

\* The queue after a message is taken from it.
LEMMA Taken ==
    ASSUME msgs \in Seq(Message), msgs # <<>>
    PROVE  Tail(msgs) \in Seq(Message)
    OBVIOUS

\* Messages posted one after the other.
LEMMA Posted ==
    ASSUME NEW a \in Seq(Message), NEW b \in Seq(Message)
    PROVE  a \o b \in Seq(Message)
    OBVIOUS

LEMMA Associates ==
    ASSUME NEW a \in Seq(Message), NEW b \in Seq(Message), NEW c \in Seq(Message)
    PROVE  (a \o b) \o c = a \o (b \o c)
    BY ConcatAssociative

\* What OnStateChange leaves of the types and of the report of an end.
LEMMA StateChangeTyped ==
    ASSUME TypeOK, NEW c \in Client, NEW s \in EngineStates,
           OnStateChange(c, s)
    PROVE  /\ state' \in EngineStates
           /\ reported' \in [Client -> Nat]
           /\ signal_closed' \subseteq Client
    BY DEF OnStateChange, NewState, Told, TypeOK, ClientTypeOK, PumpTypeOK

\* Of a client that is alive the end is reported once.
LEMMA StateChangeReports ==
    ASSUME TypeOK, Life, NEW c \in Live, NEW s \in EngineStates,
           s = "CLOSED" => engine[c] # "CLOSED",
           OnStateChange(c, s)
    PROVE  /\ signal_closed' = IF s = "CLOSED" THEN signal_closed \union {c}
                               ELSE signal_closed
           /\ \A d \in Client :
                  reported'[d] = IF d \in signal_closed' THEN 1 ELSE 0
<1>1. c \in Client /\ LifeOf(c)
  BY DEF Live, Created, Life
<1>2. s = "CLOSED" => c \notin signal_closed /\ c \in connected
  BY <1>1 DEF LifeOf
<1>3. \A d \in Client : reported[d] = IF d \in signal_closed THEN 1 ELSE 0
  BY DEF Life, LifeOf
<1>4. reported \in [Client -> Nat]
  BY DEF TypeOK, PumpTypeOK
<1> QED
  BY <1>1, <1>2, <1>3, <1>4 DEF OnStateChange, Told

\* Tasks that stop keep the types of what the engine knows about them.
LEMMA StopTyped ==
    ASSUME TypeOK, NEW ts \in SUBSET Task, NEW fate \in {"DONE", "deleted"},
           StopTasks(ts, fate)
    PROVE  /\ task' \in [Task -> {"none", "live", "DONE", "deleted"}]
           /\ handlers' \subseteq Task
           /\ queue' \in [Task -> Nat]
    BY DEF StopTasks, Unregistered, TypeOK, TaskTypeOK

LEMMA LoginKeeps ==
    ASSUME IInv, Login
    PROVE  IInv'
<1> USE BoundAssumption, TaskAssumption, AuthAssumption
<1>a. ClientTypeOK /\ TaskTypeOK /\ PumpTypeOK /\ Life
  BY DEF IInv, TypeOK
<1>1. ClientTypeOK'
  BY <1>a DEF Login, Going, Received, ClientTypeOK, PumpTypeOK
<1>2. TaskTypeOK'
  BY <1>a DEF Login, Going, Received, TaskTypeOK, PumpTypeOK, StopTasks, Unregistered
<1>3. PumpTypeOK'
  BY <1>a DEF Login, Going, Received, PumpTypeOK, Message
<1>4. Life'
  BY <1>a DEF Login, Going, Received, Life, LifeOf, Waiting, Live, Created, ClientTypeOK, PumpTypeOK
<1> QED
  BY <1>1, <1>2, <1>3, <1>4 DEF IInv, TypeOK

LEMMA DisconnectKeeps ==
    ASSUME IInv, Disconnect
    PROVE  IInv'
<1> USE BoundAssumption, TaskAssumption, AuthAssumption
<1>a. ClientTypeOK /\ TaskTypeOK /\ PumpTypeOK /\ Life
  BY DEF IInv, TypeOK
<1>1. ClientTypeOK'
  BY <1>a DEF Disconnect, Going, Received, ClientTypeOK, PumpTypeOK
<1>2. TaskTypeOK'
  BY <1>a DEF Disconnect, Going, Received, TaskTypeOK, PumpTypeOK, StopTasks, Unregistered
<1>3. PumpTypeOK'
  BY <1>a DEF Disconnect, Going, Received, PumpTypeOK, Message
<1>4. Life'
  BY <1>a DEF Disconnect, Going, Received, Life, LifeOf, Waiting, Live, Created, ClientTypeOK, PumpTypeOK
<1> QED
  BY <1>1, <1>2, <1>3, <1>4 DEF IInv, TypeOK

LEMMA StartTaskKeeps ==
    ASSUME IInv, NEW t \in Task, StartTask(t)
    PROVE  IInv'
<1> USE BoundAssumption, TaskAssumption, AuthAssumption
<1>a. ClientTypeOK /\ TaskTypeOK /\ PumpTypeOK /\ Life
  BY DEF IInv, TypeOK
<1>1. ClientTypeOK'
  BY <1>a DEF StartTask, HandedOut, Going, Received, ClientTypeOK, PumpTypeOK
<1>2. TaskTypeOK'
  BY <1>a DEF StartTask, HandedOut, Going, Received, TaskTypeOK, PumpTypeOK, StopTasks, Unregistered
<1>3. PumpTypeOK'
  BY <1>a DEF StartTask, HandedOut, Going, Received, PumpTypeOK, Message
<1>4. Life'
  BY <1>a DEF StartTask, HandedOut, Going, Received, Life, LifeOf, Waiting, Live, Created, ClientTypeOK, PumpTypeOK
<1> QED
  BY <1>1, <1>2, <1>3, <1>4 DEF IInv, TypeOK

LEMMA AbortTaskKeeps ==
    ASSUME IInv, NEW t \in Task, AbortTask(t)
    PROVE  IInv'
<1> USE BoundAssumption, TaskAssumption, AuthAssumption
<1>a. ClientTypeOK /\ TaskTypeOK /\ PumpTypeOK /\ Life
  BY DEF IInv, TypeOK
<1>1. ClientTypeOK'
  BY <1>a DEF AbortTask, LiveTasks, Going, Received, ClientTypeOK, PumpTypeOK
<1>2. TaskTypeOK'
  BY <1>a DEF AbortTask, LiveTasks, Going, Received, TaskTypeOK, PumpTypeOK, StopTasks, Unregistered
<1>3. PumpTypeOK'
  BY <1>a DEF AbortTask, LiveTasks, Going, Received, PumpTypeOK, Message
<1>4. Life'
  BY <1>a DEF AbortTask, LiveTasks, Going, Received, Life, LifeOf, Waiting, Live, Created, ClientTypeOK, PumpTypeOK
<1> QED
  BY <1>1, <1>2, <1>3, <1>4 DEF IInv, TypeOK

LEMMA DoLoginKeeps ==
    ASSUME IInv, DoLogin
    PROVE  IInv'
<1> USE BoundAssumption, TaskAssumption, AuthAssumption
<1>a. ClientTypeOK /\ TaskTypeOK /\ PumpTypeOK /\ Life
  BY DEF IInv, TypeOK
<1> DEFINE c == client + 1
<1>1. c \in Client /\ client \in Nat /\ LifeOf(c)
  BY <1>a DEF DoLogin, PumpTypeOK, Client, Life
<1>2. phase[c] = "none" /\ c \notin signal_closed
  BY <1>1 DEF LifeOf
<1> HIDE DEF c
<1>3. /\ client' = c /\ phase' = [phase EXCEPT ![c] = "INIT"]
      /\ engine' = [engine EXCEPT ![c] = "START"]
      /\ socket' = [socket EXCEPT ![c] = "CLOSED"]
      /\ connected' = connected \union {c}
      /\ UNCHANGED <<net, signal_closed, reported>>
  BY DEF DoLogin, c
<1>4. /\ Tail(msgs) \in Seq(Message)
      /\ msgs' = Append(Tail(msgs), "RUN") /\ "RUN" \in Message
      /\ runnable' = runnable \union {c} /\ state' = "START"
      /\ UNCHANGED <<pre_auth, awake, task_vars, undefined, app_vars>>
  BY <1>a, Taken DEF DoLogin, c, Received, PumpTypeOK, Message
<1>5. ClientTypeOK'
  BY <1>a, <1>1, <1>3, <1>4 DEF ClientTypeOK, Phase, EngineStates
<1>6. TaskTypeOK'
  BY <1>a, <1>4 DEF TaskTypeOK
<1>7. PumpTypeOK'
  BY <1>a, <1>1, <1>3, <1>4 DEF PumpTypeOK, EngineStates
<1>8. Life'
  <2> SUFFICES ASSUME NEW d \in Client PROVE LifeOf(d)'
    BY DEF Life
  <2>1. LifeOf(d)
    BY <1>a DEF Life
  <2>2. c = client + 1
    BY DEF c
  <2>3. d \in Int
    BY DEF Client
  <2>4. CASE d = c
    BY <1>a, <1>1, <1>2, <1>3, <2>1, <2>2, <2>4
       DEF LifeOf, Waiting, Live, Created, ClientTypeOK
  <2>5. CASE d # c
    <3>1. d <= client <=> d <= c
      BY <2>2, <2>3, <2>5, <1>1
    <3> QED
      BY <1>a, <1>1, <1>3, <2>1, <2>5, <3>1
         DEF LifeOf, Waiting, Live, Created, ClientTypeOK
  <2> QED
    BY <2>4, <2>5
<1> QED
  BY <1>5, <1>6, <1>7, <1>8 DEF IInv, TypeOK

LEMMA DoDisconnectKeeps ==
    ASSUME IInv, DoDisconnect
    PROVE  IInv'
<1> USE BoundAssumption, TaskAssumption, AuthAssumption
<1>a. ClientTypeOK /\ TaskTypeOK /\ PumpTypeOK /\ Life
  BY DEF IInv, TypeOK
<1> DEFINE c == client
<1>1. c \in Live /\ c \in Client /\ LifeOf(c) /\ TypeOK
  BY <1>a DEF DoDisconnect, Life, LifeOf, Live, Created, IInv, PumpTypeOK,
              ClientTypeOK, Phase
<1>2. /\ signal_closed' = signal_closed \union {c}
      /\ \A d \in Client : reported'[d] = IF d \in signal_closed' THEN 1 ELSE 0
      /\ state' \in EngineStates /\ reported' \in [Client -> Nat]
  <2>1. CASE engine[c] = "CLOSED"
    <3>1. c \in signal_closed /\ UNCHANGED <<state, reported, signal_closed>>
      BY <1>1, <2>1 DEF LifeOf, DoDisconnect, DisconnectClient
    <3>2. \A d \in Client : reported[d] = IF d \in signal_closed THEN 1 ELSE 0
      BY <1>a DEF Life, LifeOf
    <3> QED
      BY <1>a, <3>1, <3>2 DEF PumpTypeOK
  <2>2. CASE engine[c] # "CLOSED"
    <3>1. OnStateChange(c, "CLOSED") /\ "CLOSED" \in EngineStates
      BY <2>2 DEF DoDisconnect, DisconnectClient, EngineStates
    <3> QED
      BY <1>a, <1>1, <2>2, <3>1, StateChangeReports, StateChangeTyped
  <2> QED
    BY <2>1, <2>2
<1>3. /\ phase' = [phase EXCEPT ![c] = "DONE"]
      /\ engine' = [engine EXCEPT ![c] = "CLOSED"]
      /\ socket' = [socket EXCEPT ![c] = "none"]
      /\ net' = [net EXCEPT ![c] = IF @ = "none" THEN @ ELSE "closed"]
      /\ connected' = connected \ {c}
      /\ UNCHANGED <<pre_auth, parent, client, undefined, app_vars>>
  BY DEF DoDisconnect, DisconnectClient, Aborted, LetGo
<1>4. /\ msgs' \in Seq(Message)
      /\ runnable' \subseteq Client /\ awake' \subseteq Task
  <2>1. Tail(msgs) \in Seq(Message)
    BY <1>a, Taken DEF DoDisconnect, Received, PumpTypeOK
  <2>2. <<"RUN">> \in Seq(Message) /\ <<>> \in Seq(Message)
    BY DEF Message
  <2>3. msgs' \in Seq(Message)
    <3> DEFINE p == IF engine[c] # "CLOSED" THEN Posts(c, "CLOSED") ELSE <<>>
    <3>1. p \in Seq(Message)
      BY <2>2, PostedMessages
    <3>2. msgs' = Tail(msgs) \o <<"RUN">> \o p
      BY DEF DoDisconnect, DisconnectClient
    <3> HIDE DEF p
    <3>3. Tail(msgs) \o <<"RUN">> \in Seq(Message)
      BY <2>1, <2>2
    <3> QED
      BY <3>1, <3>2, <3>3
  <2> QED
    BY <1>a, <2>3 DEF DoDisconnect, DisconnectClient, PumpTypeOK
<1>5. ClientTypeOK'
  BY <1>a, <1>1, <1>2, <1>3 DEF ClientTypeOK, Phase, EngineStates
<1>6. TaskTypeOK'
  <2>1. Under({c}) \subseteq Task /\ StopTasks(Under({c}), "DONE")
    BY DEF Under, LiveTasks, DoDisconnect, DisconnectClient
  <2> QED
    BY <1>a, <1>1, <1>3, <2>1, StopTyped DEF TaskTypeOK
<1>7. PumpTypeOK'
  BY <1>a, <1>2, <1>3, <1>4 DEF PumpTypeOK
<1>8. Life'
  <2> SUFFICES ASSUME NEW d \in Client PROVE LifeOf(d)'
    BY DEF Life
  <2>1. LifeOf(d)
    BY <1>a DEF Life
  <2>2. CASE d = c
    BY <1>a, <1>1, <1>2, <1>3, <2>1, <2>2
       DEF LifeOf, Waiting, Live, Created, ClientTypeOK
  <2>3. CASE d # c
    BY <1>a, <1>1, <1>2, <1>3, <2>1, <2>3
       DEF LifeOf, Waiting, Live, Created, ClientTypeOK
  <2> QED
    BY <2>2, <2>3
<1> QED
  BY <1>5, <1>6, <1>7, <1>8 DEF IInv, TypeOK

LEMMA DoDisconnectDoneKeeps ==
    ASSUME IInv, DoDisconnectDone
    PROVE  IInv'
<1> USE BoundAssumption, TaskAssumption, AuthAssumption
<1>a. ClientTypeOK /\ TaskTypeOK /\ PumpTypeOK /\ Life
  BY DEF IInv, TypeOK
<1>1. ClientTypeOK'
  BY <1>a DEF DoDisconnectDone, LetGo, Going, Received, ClientTypeOK, PumpTypeOK
<1>2. TaskTypeOK'
  BY <1>a DEF DoDisconnectDone, LetGo, Going, Received, TaskTypeOK, PumpTypeOK, StopTasks, Unregistered
<1>3. PumpTypeOK'
  BY <1>a DEF DoDisconnectDone, LetGo, Going, Received, PumpTypeOK, Message
<1>4. Life'
  BY <1>a DEF DoDisconnectDone, LetGo, Going, Received, Life, LifeOf, Waiting, Live, Created, ClientTypeOK, PumpTypeOK
<1> QED
  BY <1>1, <1>2, <1>3, <1>4 DEF IInv, TypeOK

LEMMA DoDisconnectDanglingKeeps ==
    ASSUME IInv, DoDisconnectDangling
    PROVE  IInv'
<1> USE BoundAssumption, TaskAssumption, AuthAssumption
<1>a. ClientTypeOK /\ TaskTypeOK /\ PumpTypeOK /\ Life
  BY DEF IInv, TypeOK
<1>1. ClientTypeOK'
  BY <1>a DEF DoDisconnectDangling, Going, Received, ClientTypeOK, PumpTypeOK
<1>2. TaskTypeOK'
  BY <1>a DEF DoDisconnectDangling, Going, Received, TaskTypeOK, PumpTypeOK, StopTasks, Unregistered
<1>3. PumpTypeOK'
  BY <1>a DEF DoDisconnectDangling, Going, Received, PumpTypeOK, Message
<1>4. Life'
  BY <1>a DEF DoDisconnectDangling, Going, Received, Life, LifeOf, Waiting, Live, Created, ClientTypeOK, PumpTypeOK
<1> QED
  BY <1>1, <1>2, <1>3, <1>4 DEF IInv, TypeOK

LEMMA DoOnXmppOpenKeeps ==
    ASSUME IInv, DoOnXmppOpen
    PROVE  IInv'
<1> USE BoundAssumption, TaskAssumption, AuthAssumption
<1>a. ClientTypeOK /\ TaskTypeOK /\ PumpTypeOK /\ Life
  BY DEF IInv, TypeOK
<1>1. ClientTypeOK'
  BY <1>a DEF DoOnXmppOpen, Going, Received, ClientTypeOK, PumpTypeOK
<1>2. TaskTypeOK'
  BY <1>a DEF DoOnXmppOpen, Going, Received, TaskTypeOK, PumpTypeOK, StopTasks, Unregistered
<1>3. PumpTypeOK'
  BY <1>a DEF DoOnXmppOpen, Going, Received, PumpTypeOK, Message
<1>4. Life'
  BY <1>a DEF DoOnXmppOpen, Going, Received, Life, LifeOf, Waiting, Live, Created, ClientTypeOK, PumpTypeOK
<1> QED
  BY <1>1, <1>2, <1>3, <1>4 DEF IInv, TypeOK

LEMMA DoOnXmppClosedKeeps ==
    ASSUME IInv, DoOnXmppClosed
    PROVE  IInv'
<1> USE BoundAssumption, TaskAssumption, AuthAssumption
<1>a. ClientTypeOK /\ TaskTypeOK /\ PumpTypeOK /\ Life
  BY DEF IInv, TypeOK
<1>1. ClientTypeOK'
  BY <1>a DEF DoOnXmppClosed, Going, Received, ClientTypeOK, PumpTypeOK
<1>2. TaskTypeOK'
  BY <1>a DEF DoOnXmppClosed, Going, Received, TaskTypeOK, PumpTypeOK, StopTasks, Unregistered
<1>3. PumpTypeOK'
  BY <1>a DEF DoOnXmppClosed, Going, Received, PumpTypeOK, Message
<1>4. Life'
  BY <1>a DEF DoOnXmppClosed, Going, Received, Life, LifeOf, Waiting, Live, Created, ClientTypeOK, PumpTypeOK
<1> QED
  BY <1>1, <1>2, <1>3, <1>4 DEF IInv, TypeOK

LEMMA SocketConnectedKeeps ==
    ASSUME IInv, NEW c \in Client, SocketConnected(c)
    PROVE  IInv'
<1> USE BoundAssumption, TaskAssumption, AuthAssumption
<1>a. ClientTypeOK /\ TaskTypeOK /\ PumpTypeOK /\ Life
  BY DEF IInv, TypeOK
<1>1. c \in Live /\ TypeOK /\ "OPENING" \in EngineStates
  BY <1>a DEF SocketConnected, Life, LifeOf, Live, Created, IInv, EngineStates
<1>2. /\ signal_closed' = signal_closed
      /\ \A d \in Client : reported'[d] = IF d \in signal_closed THEN 1 ELSE 0
      /\ state' \in EngineStates /\ reported' \in [Client -> Nat]
  BY <1>a, <1>1, StateChangeReports, StateChangeTyped DEF SocketConnected
<1>3. msgs' \in Seq(Message) /\ runnable' \subseteq Client
  <2> DEFINE p == Posts(c, "OPENING")
             w == WakeUp(c)
  <2>1. p \in Seq(Message) /\ w \in Seq(Message)
    BY PostedMessages
  <2>2. msgs' = msgs \o p \o w /\ WakeClient(c)
    BY DEF SocketConnected
  <2> HIDE DEF p, w
  <2>3. msgs \o p \in Seq(Message)
    BY <1>a, <2>1, Posted DEF PumpTypeOK
  <2>4. msgs' \in Seq(Message)
    BY <2>1, <2>2, <2>3, Posted
  <2>5. runnable' \subseteq Client
    BY <1>a, <2>2 DEF WakeClient, PumpTypeOK
  <2> QED
    BY <2>4, <2>5
<1>4. ClientTypeOK'
  BY <1>a, <1>2 DEF SocketConnected, ClientTypeOK, EngineStates
<1>5. TaskTypeOK'
  BY <1>a DEF SocketConnected, TaskTypeOK
<1>6. PumpTypeOK'
  BY <1>a, <1>2, <1>3 DEF SocketConnected, PumpTypeOK
<1>7. Life'
  <2> SUFFICES ASSUME NEW d \in Client PROVE LifeOf(d)'
    BY DEF Life
  <2>1. LifeOf(d)
    BY <1>a DEF Life
  <2>2. UNCHANGED <<phase, client, connected>>
    BY DEF SocketConnected
  <2>3. CASE d = c
    BY <1>a, <1>1, <1>2, <2>1, <2>2, <2>3
       DEF SocketConnected, LifeOf, Waiting, Live, Created, ClientTypeOK
  <2>4. CASE d # c
    BY <1>a, <1>1, <1>2, <2>1, <2>2, <2>4
       DEF SocketConnected, LifeOf, Waiting, Live, Created, ClientTypeOK
  <2> QED
    BY <2>3, <2>4
<1> QED
  BY <1>4, <1>5, <1>6, <1>7 DEF IInv, TypeOK

LEMMA SocketReadKeeps ==
    ASSUME IInv, NEW c \in Client, NEW s \in EngineStates, SocketRead(c, s)
    PROVE  IInv'
<1> USE BoundAssumption, TaskAssumption, AuthAssumption
<1>a. ClientTypeOK /\ TaskTypeOK /\ PumpTypeOK /\ Life
  BY DEF IInv, TypeOK
<1>1. c \in Live /\ TypeOK /\ phase[c] = "RESPONSE" /\ LifeOf(c)
  BY <1>a DEF SocketRead, Life, LifeOf, Live, Created, IInv
<1>2. engine[c] # "CLOSED" /\ s \in {"OPEN", "CLOSED"}
  BY <1>a DEF SocketRead, Rank, EngineStates, ClientTypeOK
<1>3. /\ signal_closed' = IF s = "CLOSED" THEN signal_closed \union {c}
                          ELSE signal_closed
      /\ \A d \in Client : reported'[d] = IF d \in signal_closed' THEN 1 ELSE 0
      /\ state' \in EngineStates /\ reported' \in [Client -> Nat]
  BY <1>a, <1>1, <1>2, StateChangeReports, StateChangeTyped DEF SocketRead
<1>4. msgs' \in Seq(Message) /\ runnable' \subseteq Client
  <2> DEFINE p == Posts(c, s)
             w == WakeUp(c)
  <2>1. p \in Seq(Message) /\ w \in Seq(Message)
    BY PostedMessages
  <2>2. msgs' = msgs \o p \o w /\ WakeClient(c)
    BY DEF SocketRead
  <2> HIDE DEF p, w
  <2>3. msgs \o p \in Seq(Message)
    BY <1>a, <2>1, Posted DEF PumpTypeOK
  <2>4. msgs' \in Seq(Message)
    BY <2>1, <2>2, <2>3, Posted
  <2>5. runnable' \subseteq Client
    BY <1>a, <2>2 DEF WakeClient, PumpTypeOK
  <2> QED
    BY <2>4, <2>5
<1>5. ClientTypeOK'
  BY <1>a, <1>2, <1>3 DEF SocketRead, ClientTypeOK, EngineStates
<1>6. TaskTypeOK'
  BY <1>a DEF SocketRead, TaskTypeOK
<1>7. PumpTypeOK'
  BY <1>a, <1>3, <1>4 DEF SocketRead, PumpTypeOK
<1>8. Life'
  <2> SUFFICES ASSUME NEW d \in Client PROVE LifeOf(d)'
    BY DEF Life
  <2>1. LifeOf(d)
    BY <1>a DEF Life
  <2>2. UNCHANGED <<phase, client, connected>>
    BY DEF SocketRead
  <2>3. CASE d = c
    BY <1>a, <1>1, <1>2, <1>3, <2>1, <2>2, <2>3
       DEF SocketRead, LifeOf, Waiting, Live, Created, ClientTypeOK
  <2>4. CASE d # c
    BY <1>a, <1>1, <1>2, <1>3, <2>1, <2>2, <2>4
       DEF SocketRead, LifeOf, Waiting, Live, Created, ClientTypeOK
  <2> QED
    BY <2>3, <2>4
<1> QED
  BY <1>5, <1>6, <1>7, <1>8 DEF IInv, TypeOK

LEMMA SocketReadStanzaKeeps ==
    ASSUME IInv, NEW c \in Client, NEW t \in Task, SocketReadStanza(c, t)
    PROVE  IInv'
<1> USE BoundAssumption, TaskAssumption, AuthAssumption
<1>a. ClientTypeOK /\ TaskTypeOK /\ PumpTypeOK /\ Life
  BY DEF IInv, TypeOK
<1>1. msgs' \in Seq(Message) /\ runnable' \subseteq Client
  <2> DEFINE w == TaskWakeUp(t)
  <2>1. w \in Seq(Message)
    BY PostedMessages
  <2>2. msgs' = msgs \o w /\ UNCHANGED runnable
    BY DEF SocketReadStanza
  <2> HIDE DEF w
  <2>3. msgs' \in Seq(Message)
    BY <1>a, <2>1, <2>2, Posted DEF PumpTypeOK
  <2>4. runnable' \subseteq Client
    BY <1>a, <2>2 DEF WakeClient, PumpTypeOK
  <2> QED
    BY <2>3, <2>4
<1>2. ClientTypeOK'
  BY <1>a DEF SocketReadStanza, ClientTypeOK
<1>3. TaskTypeOK'
  BY <1>a DEF SocketReadStanza, TaskTypeOK
<1>4. PumpTypeOK'
  BY <1>a, <1>1 DEF SocketReadStanza, PumpTypeOK
<1>5. Life'
  BY <1>a DEF SocketReadStanza, Life, LifeOf, Waiting, Live, Created, ClientTypeOK, PumpTypeOK
<1> QED
  BY <1>2, <1>3, <1>4, <1>5 DEF IInv, TypeOK

LEMMA SocketClosesKeeps ==
    ASSUME IInv, NEW c \in Client, SocketCloses(c)
    PROVE  IInv'
<1> USE BoundAssumption, TaskAssumption, AuthAssumption
<1>a. ClientTypeOK /\ TaskTypeOK /\ PumpTypeOK /\ Life
  BY DEF IInv, TypeOK
<1>1. ClientTypeOK'
  BY <1>a DEF SocketCloses, Going, Received, ClientTypeOK, PumpTypeOK
<1>2. TaskTypeOK'
  BY <1>a DEF SocketCloses, Going, Received, TaskTypeOK, PumpTypeOK, StopTasks, Unregistered
<1>3. PumpTypeOK'
  BY <1>a DEF SocketCloses, Going, Received, PumpTypeOK, Message
<1>4. Life'
  BY <1>a DEF SocketCloses, Going, Received, Life, LifeOf, Waiting, Live, Created, ClientTypeOK, PumpTypeOK
<1> QED
  BY <1>1, <1>2, <1>3, <1>4 DEF IInv, TypeOK

LEMMA AuthDoneKeeps ==
    ASSUME IInv, NEW c \in Client, NEW o \in AuthOutcome, AuthDone(c, o)
    PROVE  IInv'
<1> USE BoundAssumption, TaskAssumption, AuthAssumption
<1>a. ClientTypeOK /\ TaskTypeOK /\ PumpTypeOK /\ Life
  BY DEF IInv, TypeOK
<1>1. msgs' \in Seq(Message) /\ runnable' \subseteq Client
  <2> DEFINE w == WakeUp(c)
  <2>1. w \in Seq(Message)
    BY PostedMessages
  <2>2. msgs' = msgs \o w /\ WakeClient(c)
    BY DEF AuthDone
  <2> HIDE DEF w
  <2>3. msgs' \in Seq(Message)
    BY <1>a, <2>1, <2>2, Posted DEF PumpTypeOK
  <2>4. runnable' \subseteq Client
    BY <1>a, <2>2 DEF WakeClient, PumpTypeOK
  <2> QED
    BY <2>3, <2>4
<1>2. ClientTypeOK'
  BY <1>a DEF AuthDone, ClientTypeOK
<1>3. TaskTypeOK'
  BY <1>a DEF AuthDone, TaskTypeOK
<1>4. PumpTypeOK'
  BY <1>a, <1>1 DEF AuthDone, PumpTypeOK
<1>5. Life'
  BY <1>a DEF AuthDone, Life, LifeOf, Waiting, Live, Created, ClientTypeOK, PumpTypeOK
<1> QED
  BY <1>2, <1>3, <1>4, <1>5 DEF IInv, TypeOK

-----------------------------------------------------------------------------
\* What a RUN leaves of the types of the tasks.
LEMMA StepTasksTyped ==
    ASSUME TypeOK, NEW gone \in SUBSET Task, StepTasks(gone)
    PROVE  TaskTypeOK' /\ awake' \subseteq Task
    BY DEF StepTasks, Unregistered, TypeOK, TaskTypeOK

\* A RUN that steps a client.
LEMMA StepClientKeeps ==
    ASSUME IInv, Received("RUN"),
           NEW c \in runnable \cap Live, NEW o \in AuthOutcome,
           NEW ok \in BOOLEAN, NEW next, next = After(c, o, ok),
           StepClient(c, o, next),
           StepTasks(IF next = "DONE" THEN Under({c}) ELSE {}),
           runnable' = runnable \ {c},
           UNCHANGED <<engine, client, connected, undefined, app_vars>>
    PROVE  IInv'
<1> USE BoundAssumption, TaskAssumption, AuthAssumption
<1>a. ClientTypeOK /\ TaskTypeOK /\ PumpTypeOK /\ Life /\ TypeOK
  BY DEF IInv, TypeOK
<1>1. c \in Live /\ c \in Client /\ LifeOf(c) /\ socket[c] # "none"
  BY <1>a DEF Live, Created, Life, LifeOf
<1>2. /\ next \in {"PRE_XMPP_LOGIN", "RESPONSE", "DONE"}
      /\ Auth(c, o) \in {"none"} \union AuthOutcome
      /\ phase[c] = "RESPONSE" /\ next = "DONE" => engine[c] = "CLOSED"
      /\ phase[c] = "RESPONSE" => next \in {"RESPONSE", "DONE"}
  BY <1>a, <1>1 DEF After, Auth, ClientTypeOK
<1>3. phase[c] \in {"INIT", "PRE_XMPP_LOGIN", "RESPONSE"}
  BY <1>1, <1>a DEF Live, Created, ClientTypeOK, Phase
<1>4. /\ signal_closed' = IF Failing(c, next) THEN signal_closed \union {c}
                          ELSE signal_closed
      /\ \A d \in Client : reported'[d] = IF d \in signal_closed' THEN 1 ELSE 0
      /\ state' \in EngineStates /\ reported' \in [Client -> Nat]
  <2>1. CASE Failing(c, next)
    <3>1. OnStateChange(c, "CLOSED") /\ "CLOSED" \in EngineStates
      BY <2>1 DEF StepClient, EnsureClosed, EngineStates
    <3>2. engine[c] # "CLOSED"
      BY <1>1, <1>3, <2>1 DEF Failing, LifeOf, Waiting
    <3> QED
      BY <1>a, <1>1, <2>1, <3>1, <3>2, StateChangeReports, StateChangeTyped
  <2>2. CASE ~Failing(c, next)
    <3>1. UNCHANGED <<state, reported, signal_closed>>
      BY <2>2 DEF StepClient, EnsureClosed
    <3>2. \A d \in Client : reported[d] = IF d \in signal_closed THEN 1 ELSE 0
      BY <1>a DEF Life, LifeOf
    <3> QED
      BY <1>a, <2>2, <3>1, <3>2 DEF PumpTypeOK
  <2> QED
    BY <2>1, <2>2
<1>5. /\ phase' = [x \in Client |->
                      IF phase[x] = "DONE" \/ (x = c /\ next = "DONE")
                      THEN "deleted" ELSE IF x = c THEN next ELSE phase[x]]
      /\ pre_auth' = [pre_auth EXCEPT ![c] = Auth(c, o)]
      /\ socket' = [socket EXCEPT ![c] = IF next = "DONE" THEN "none" ELSE @]
      /\ net' = [net EXCEPT ![c] =
                    IF next = "DONE" THEN IF @ = "none" THEN @ ELSE "closed"
                    ELSE IF next = "RESPONSE" /\ @ = "none" THEN "connecting"
                    ELSE @]
  BY DEF StepClient
<1>6. msgs' \in Seq(Message)
  <2> DEFINE p == IF Failing(c, next) THEN Posts(c, "CLOSED") ELSE <<>>
  <2>1. p \in Seq(Message) /\ Tail(msgs) \in Seq(Message)
    BY <1>a, PostedMessages, Taken DEF Received, PumpTypeOK
  <2>2. msgs' = Tail(msgs) \o p
    BY DEF StepClient
  <2> HIDE DEF p
  <2> QED
    BY <2>1, <2>2, Posted
<1>7. ClientTypeOK'
  <2>1. phase' \in [Client -> Phase]
    BY <1>a, <1>2, <1>5 DEF ClientTypeOK, Phase
  <2>2. /\ socket' \in [Client -> {"none", "CLOSED", "OPEN"}]
        /\ net' \in [Client ->
                        {"none", "connecting", "connected", "lost", "closed"}]
        /\ pre_auth' \in [Client -> {"none"} \union AuthOutcome]
    BY <1>a, <1>1, <1>2, <1>5 DEF ClientTypeOK
  <2> QED
    BY <1>a, <1>1, <1>4, <2>1, <2>2 DEF ClientTypeOK
<1>8. TaskTypeOK' /\ awake' \subseteq Task
  <2> DEFINE gone == IF next = "DONE" THEN Under({c}) ELSE {}
  <2>1. gone \in SUBSET Task /\ StepTasks(gone)
    BY DEF Under, LiveTasks
  <2> QED
    BY <1>a, <2>1, StepTasksTyped
<1>9. PumpTypeOK'
  BY <1>a, <1>4, <1>6, <1>8 DEF PumpTypeOK
<1>10. Life'
  <2> SUFFICES ASSUME NEW d \in Client PROVE LifeOf(d)'
    BY DEF Life
  <2>1. LifeOf(d)
    BY <1>a DEF Life
  <2>2. CASE d = c
    <3>1. CASE next = "DONE"
      <4>1. phase'[d] = "deleted" /\ socket'[d] = "none"
            /\ net'[d] \in {"none", "closed"}
        BY <1>1, <1>5, <1>a, <2>2, <3>1 DEF ClientTypeOK
      <4>2. d \in signal_closed'
        BY <1>1, <1>2, <1>4, <2>1, <2>2, <3>1 DEF Failing, LifeOf
      <4> QED
        BY <1>1, <1>4, <2>1, <2>2, <4>1, <4>2
           DEF LifeOf, Waiting, Live, Created
    <3>2. CASE next # "DONE"
      <4>1. phase'[d] = next /\ socket'[d] = socket[d]
            /\ (next # "RESPONSE" => net'[d] = net[d])
        BY <1>1, <1>3, <1>5, <1>a, <2>2, <3>2 DEF ClientTypeOK
      <4>2. signal_closed' = signal_closed
        BY <1>4, <3>2 DEF Failing
      <4>3. next = "PRE_XMPP_LOGIN" => phase[d] # "RESPONSE"
        BY <1>2, <2>2
      <4> QED
        BY <1>1, <1>2, <1>3, <1>4, <2>1, <2>2, <3>2, <4>1, <4>2, <4>3
           DEF LifeOf, Waiting, Live, Created
    <3> QED
      BY <3>1, <3>2
  <2>3. CASE d # c
    <3>1. /\ phase'[d] = IF phase[d] = "DONE" THEN "deleted" ELSE phase[d]
          /\ socket'[d] = socket[d] /\ net'[d] = net[d]
      BY <1>5, <1>a, <2>3 DEF ClientTypeOK
    <3>2. d \in signal_closed' <=> d \in signal_closed
      BY <1>4, <2>3
    <3> QED
      BY <1>4, <2>1, <2>3, <3>1, <3>2 DEF LifeOf, Waiting, Live, Created
  <2> QED
    BY <2>2, <2>3
<1> QED
  BY <1>7, <1>8, <1>9, <1>10 DEF IInv, TypeOK

\* A RUN that finds no client to step.
LEMMA StepNoClientKeeps ==
    ASSUME IInv, Received("RUN"), StepNoClient, StepTasks({}),
           UNCHANGED runnable,
           UNCHANGED <<engine, client, connected, undefined, app_vars>>
    PROVE  IInv'
<1> USE BoundAssumption, TaskAssumption, AuthAssumption
<1>a. ClientTypeOK /\ TaskTypeOK /\ PumpTypeOK /\ Life /\ TypeOK
  BY DEF IInv, TypeOK
<1>1. /\ phase' = [x \in Client |->
                      IF phase[x] = "DONE" THEN "deleted" ELSE phase[x]]
      /\ msgs' = Tail(msgs)
      /\ UNCHANGED <<pre_auth, net, socket, state, reported, signal_closed>>
  BY DEF StepNoClient
<1>2. Tail(msgs) \in Seq(Message)
  BY <1>a, Taken DEF Received, PumpTypeOK
<1>3. TaskTypeOK' /\ awake' \subseteq Task
  BY <1>a, StepTasksTyped
<1>4. ClientTypeOK'
  BY <1>a, <1>1 DEF ClientTypeOK, Phase
<1>5. PumpTypeOK'
  BY <1>a, <1>1, <1>2, <1>3 DEF PumpTypeOK
<1>6. Life'
  <2> SUFFICES ASSUME NEW d \in Client PROVE LifeOf(d)'
    BY DEF Life
  <2>1. LifeOf(d)
    BY <1>a DEF Life
  <2>2. phase'[d] = IF phase[d] = "DONE" THEN "deleted" ELSE phase[d]
    BY <1>1
  <2> QED
    BY <1>1, <2>1, <2>2 DEF LifeOf, Waiting, Live, Created
<1> QED
  BY <1>3, <1>4, <1>5, <1>6 DEF IInv, TypeOK

LEMMA RunTasksKeeps ==
    ASSUME IInv, RunTasks
    PROVE  IInv'
<1>1. CASE \E c \in runnable \cap Live, o \in AuthOutcome, ok \in BOOLEAN :
               LET next == After(c, o, ok) IN
               /\ StepClient(c, o, next)
               /\ StepTasks(IF next = "DONE" THEN Under({c}) ELSE {})
               /\ runnable' = runnable \ {c}
  <2>1. PICK c \in runnable \cap Live, o \in AuthOutcome, ok \in BOOLEAN :
               /\ StepClient(c, o, After(c, o, ok))
               /\ StepTasks(IF After(c, o, ok) = "DONE" THEN Under({c}) ELSE {})
               /\ runnable' = runnable \ {c}
    BY <1>1
  <2> QED
    BY <2>1, StepClientKeeps DEF RunTasks
<1>2. CASE /\ StepNoClient /\ StepTasks({}) /\ UNCHANGED runnable
  BY <1>2, StepNoClientKeeps DEF RunTasks
<1> QED
  BY <1>1, <1>2 DEF RunTasks

-----------------------------------------------------------------------------
LEMMA InitKeeps ==
    ASSUME Init
    PROVE  IInv
<1> USE BoundAssumption
<1>1. TypeOK
  <2>1. ClientTypeOK
    BY DEF Init, ClientTypeOK, Phase, EngineStates
  <2>2. TaskTypeOK
    BY DEF Init, TaskTypeOK
  <2>3. PumpTypeOK
    <3>1. msgs \in Seq(Message)
      BY DEF Init
    <3>2. /\ logins \in 0 .. MaxLogins /\ disconnects \in 0 .. MaxDisconnects
          /\ stanzas \in 0 .. MaxStanzas /\ signalled \in Nat
      BY DEF Init
    <3>3. reported \in [Client -> Nat] /\ state \in EngineStates
      BY DEF Init, EngineStates
    <3> QED
      BY <3>1, <3>2, <3>3 DEF Init, PumpTypeOK
  <2> QED
    BY <2>1, <2>2, <2>3 DEF TypeOK
<1>2. Life
  BY DEF Init, Life, LifeOf, Waiting, Live, Created, Client
<1> QED
  BY <1>1, <1>2 DEF IInv

LEMMA StutterKeeps ==
    ASSUME IInv, UNCHANGED vars
    PROVE  IInv'
<1>1. TypeOK'
  BY DEF IInv, TypeOK, ClientTypeOK, TaskTypeOK, PumpTypeOK, vars
<1>2. Life'
  BY DEF IInv, Life, LifeOf, Waiting, Live, Created, vars
<1> QED
  BY <1>1, <1>2 DEF IInv

\* Every step keeps the types and the life of every client.
LEMMA StepKeeps ==
    ASSUME IInv, [Next]_vars
    PROVE  IInv'
<1>1. CASE Dispatch
  BY <1>1, DoLoginKeeps, DoDisconnectKeeps, DoDisconnectDoneKeeps,
     DoDisconnectDanglingKeeps, DoOnXmppOpenKeeps, DoOnXmppClosedKeeps,
     RunTasksKeeps DEF Dispatch
<1>2. CASE Application
  BY <1>2, LoginKeeps, DisconnectKeeps, StartTaskKeeps, AbortTaskKeeps
     DEF Application
<1>3. CASE Socket
  BY <1>3, SocketConnectedKeeps, SocketReadKeeps, SocketReadStanzaKeeps,
     SocketClosesKeeps, AuthDoneKeeps DEF Socket
<1>4. CASE UNCHANGED vars
  BY <1>4, StutterKeeps
<1> QED
  BY <1>1, <1>2, <1>3, <1>4 DEF Next

LEMMA Inductive == Spec => []IInv
<1>1. Init => IInv
  BY InitKeeps
<1>2. IInv /\ [Next]_vars => IInv'
  BY StepKeeps
<1> QED
  BY <1>1, <1>2, PTL DEF Spec

-----------------------------------------------------------------------------
\* Every variable of the pump, its clients and their tasks has its type.
THEOREM TypeCorrect == Spec => []TypeOK
<1>1. IInv => TypeOK
  BY DEF IInv
<1> QED
  BY <1>1, Inductive, PTL

\* EnsureClosed and signal_closed_: whoever ends a session, and however many
\* times it is tried, the pump is told once, before the client is deleted.
THEOREM EndsReported == Spec => []EndReportedOnce
<1>1. IInv => EndReportedOnce
  BY DEF IInv, Life, LifeOf, Live, Created, EndReportedOnce
<1> QED
  BY <1>1, Inductive, PTL

\* A client whose task RunTasks may still step has its socket: the "observed in
\* crash reports" branches of the login and of OnSocketRead are not reached.
THEOREM SocketStays == Spec => []SocketThere
<1>1. IInv => SocketThere
  BY DEF IInv, Life, LifeOf, Live, Created, SocketThere
<1> QED
  BY <1>1, Inductive, PTL

-----------------------------------------------------------------------------
(* What is used is there.                                                  *)

\* What a queue of messages holds, and in which order.
Has(s, m)  == \E i \in 1 .. Len(s) : s[i] = m
Once(s, m) == \A i, j \in 1 .. Len(s) : s[i] = m /\ s[j] = m => i = j
Behind(s, a, b) == \A j \in 1 .. Len(s) : s[j] = b => \E i \in 1 .. j - 1 : s[i] = a

\* The messages that are on their way: one LOGIN at most, once the end of the
\* session before has been signalled, and behind the RUN that deletes its
\* client; one CLOSED at most, of the client that has closed.
Quiet == client = 0 \/ (client \in signal_closed /\ ~Has(msgs, "CLOSED"))
Mail ==
    /\ logins = IF Has(msgs, "LOGIN") THEN client + 1 ELSE client
    /\ signalled = IF Quiet THEN client ELSE client - 1
    /\ Has(msgs, "LOGIN") => Quiet
    /\ Has(msgs, "CLOSED") => client \in signal_closed
    /\ Once(msgs, "LOGIN") /\ Once(msgs, "CLOSED")
    /\ Live # {} => Behind(msgs, "RUN", "LOGIN")
    /\ client = 0 => Behind(msgs, "LOGIN", "DISCONNECT")

\* A client that may be stepped has a RUN on its way, and one whose engine is
\* closed may be.
Run ==
    \A c \in Live : /\ engine[c] = "CLOSED" => c \in runnable
                    /\ c \in runnable => Has(msgs, "RUN")

\* The pump knows of the end.
Ended == client \in signal_closed => state = "CLOSED"

PInv ==
    /\ IInv /\ Mail /\ Run /\ Ended
    /\ HandedOutAlive /\ DanglingOnlyAfterEnd /\ HandlersAlive

LEMMA Appended ==
    ASSUME NEW s \in Seq(Message), NEW t \in Seq(Message)
    PROVE  /\ s \o t \in Seq(Message)
           /\ \A m : Has(s \o t, m) <=> Has(s, m) \/ Has(t, m)
           /\ \A m : Once(s, m) /\ Once(t, m) /\ ~(Has(s, m) /\ Has(t, m)) => Once(s \o t, m)
           /\ \A a, b : Behind(s, a, b) /\ (Has(t, b) => Has(s, a)) => Behind(s \o t, a, b)
<1>1. /\ s \o t \in Seq(Message) /\ Len(s \o t) = Len(s) + Len(t)
      /\ Len(s) \in Nat /\ Len(t) \in Nat
      /\ \A i \in 1 .. Len(s) : (s \o t)[i] = s[i]
      /\ \A i \in 1 .. Len(t) : (s \o t)[Len(s) + i] = t[i]
  <2>1. s \o t \in Seq(Message) /\ Len(s \o t) = Len(s) + Len(t)
    BY ConcatProperties
  <2>2. Len(s) \in Nat /\ Len(t) \in Nat
    BY LenProperties
  <2>3. \A i \in 1 .. Len(s) + Len(t) : (s \o t)[i] = IF i <= Len(s) THEN s[i] ELSE t[i - Len(s)]
    BY ConcatProperties
  <2>4. \A i \in 1 .. Len(s) : i \in 1 .. Len(s) + Len(t) /\ i <= Len(s)
    BY <2>2
  <2>5. \A i \in 1 .. Len(t) : /\ Len(s) + i \in 1 .. Len(s) + Len(t)
                                /\ ~(Len(s) + i <= Len(s)) /\ (Len(s) + i) - Len(s) = i
    BY <2>2
  <2> QED
    BY <2>1, <2>2, <2>3, <2>4, <2>5
<1>2. \A j \in 1 .. Len(s \o t) :
          j \in 1 .. Len(s) \/ (j - Len(s) \in 1 .. Len(t) /\ j = Len(s) + (j - Len(s)))
  BY <1>1
<1> DEFINE u == s \o t
<1> HIDE DEF u
<1>3. \A j \in 1 .. Len(u) :
          \/ j \in 1 .. Len(s) /\ u[j] = s[j]
          \/ j - Len(s) \in 1 .. Len(t) /\ u[j] = t[j - Len(s)]
  BY <1>1, <1>2 DEF u
<1>4. /\ Len(u) = Len(s) + Len(t)
      /\ \A i \in 1 .. Len(s) : i \in 1 .. Len(u) /\ u[i] = s[i]
      /\ \A i \in 1 .. Len(t) : Len(s) + i \in 1 .. Len(u) /\ u[Len(s) + i] = t[i]
  BY <1>1 DEF u
<1>5. \A m : Has(u, m) <=> Has(s, m) \/ Has(t, m)
  BY <1>3, <1>4 DEF Has
<1>6. ASSUME NEW m, Once(s, m), Once(t, m), ~(Has(s, m) /\ Has(t, m))
      PROVE  Once(u, m)
  <2> SUFFICES ASSUME NEW i \in 1 .. Len(u), NEW j \in 1 .. Len(u), u[i] = m, u[j] = m
               PROVE  i = j
    BY DEF Once
  <2>1. \/ i \in 1 .. Len(s) /\ s[i] = m
        \/ i - Len(s) \in 1 .. Len(t) /\ t[i - Len(s)] = m
    BY <1>3
  <2>2. \/ j \in 1 .. Len(s) /\ s[j] = m
        \/ j - Len(s) \in 1 .. Len(t) /\ t[j - Len(s)] = m
    BY <1>3
  <2>3. i \in Int /\ j \in Int /\ Len(s) \in Int
    BY <1>1
  <2> QED
    BY <1>6, <2>1, <2>2, <2>3 DEF Once, Has
<1>7. ASSUME NEW a, NEW b, Behind(s, a, b), Has(t, b) => Has(s, a)
      PROVE  Behind(u, a, b)
  <2> SUFFICES ASSUME NEW j \in 1 .. Len(u), u[j] = b
               PROVE  \E i \in 1 .. j - 1 : u[i] = a
    BY DEF Behind
  <2>1. CASE j \in 1 .. Len(s) /\ s[j] = b
    <3>1. PICK i \in 1 .. j - 1 : s[i] = a
      BY <1>7, <2>1 DEF Behind
    <3>2. i \in 1 .. Len(s)
      BY <1>1, <2>1, <3>1
    <3> QED
      BY <1>4, <3>1, <3>2
  <2>2. CASE j - Len(s) \in 1 .. Len(t) /\ t[j - Len(s)] = b
    <3>1. PICK i \in 1 .. Len(s) : s[i] = a
      BY <1>7, <2>2 DEF Has
    <3>2. i \in 1 .. j - 1
      BY <1>1, <2>2, <3>1
    <3> QED
      BY <1>4, <3>1, <3>2
  <2> QED
    BY <1>3, <2>1, <2>2
<1> QED
  BY <1>1, <1>5, <1>6, <1>7 DEF u

LEMMA Beheaded ==
    ASSUME NEW s \in Seq(Message), s # <<>>
    PROVE  /\ Tail(s) \in Seq(Message)
           /\ \A m : Has(s, m) <=> Head(s) = m \/ Has(Tail(s), m)
           /\ \A m : Once(s, m) =>
                  Once(Tail(s), m) /\ (Head(s) = m => ~Has(Tail(s), m))
           /\ \A a, b : Behind(s, a, b) =>
                  Head(s) # b /\ (Head(s) # a => Behind(Tail(s), a, b))
<1> DEFINE u == Tail(s)
<1>1. /\ u \in Seq(Message) /\ Len(u) = Len(s) - 1 /\ Len(s) \in Nat /\ Len(s) > 0
      /\ Head(s) = s[1] /\ \A i \in 1 .. Len(u) : u[i] = s[i + 1]
  <2>1. Len(s) \in Nat /\ Len(s) > 0
    BY EmptySeq
  <2> QED
    BY <2>1, HeadTailProperties
<1> HIDE DEF u
<1>2. \A i \in 1 .. Len(u) : i + 1 \in 1 .. Len(s)
  BY <1>1
<1>3. \A i \in 1 .. Len(s) : i = 1 \/ (i - 1 \in 1 .. Len(u) /\ u[i - 1] = s[i])
  BY <1>1
<1>4. \A m : Has(s, m) <=> Head(s) = m \/ Has(u, m)
  BY <1>1, <1>2, <1>3 DEF Has
<1>5. ASSUME NEW m, Once(s, m)
      PROVE  Once(u, m) /\ (Head(s) = m => ~Has(u, m))
  <2>1. \A i, j \in 1 .. Len(u) : u[i] = m /\ u[j] = m => i + 1 = j + 1
    BY <1>1, <1>2, <1>5 DEF Once
  <2>2. \A i \in 1 .. Len(u) : Head(s) = m /\ u[i] = m => 1 = i + 1
    BY <1>1, <1>2, <1>5 DEF Once
  <2> QED
    BY <1>1, <2>1, <2>2 DEF Once, Has
<1>6. ASSUME NEW a, NEW b, Behind(s, a, b)
      PROVE  Head(s) # b /\ (Head(s) # a => Behind(u, a, b))
  <2>1. Head(s) # b
    BY <1>1, <1>6 DEF Behind
  <2>2. ASSUME Head(s) # a, NEW j \in 1 .. Len(u), u[j] = b
        PROVE  \E i \in 1 .. j - 1 : u[i] = a
    <3>1. PICK i \in 1 .. j : s[i] = a
      BY <1>1, <1>2, <1>6, <2>2 DEF Behind
    <3>2. i - 1 \in 1 .. j - 1 /\ i \in 1 .. Len(s) /\ i # 1
      BY <1>1, <2>2, <3>1
    <3> QED
      BY <1>3, <3>1, <3>2
  <2> QED
    BY <2>1, <2>2 DEF Behind
<1> QED
  BY <1>1, <1>4, <1>5, <1>6 DEF u

\* A queue of one message, and one of none.
LEMMA Alone ==
    ASSUME NEW x \in Message
    PROVE  /\ <<x>> \in Seq(Message) /\ <<>> \in Seq(Message)
           /\ \A m : (Has(<<x>>, m) <=> m = x) /\ ~Has(<<>>, m)
           /\ \A m : Once(<<x>>, m) /\ Once(<<>>, m)
<1>1. <<x>> \in Seq(Message)
  OBVIOUS
<1>1a. <<>> \in Seq(Message)
  BY EmptySeq
<1>2. \A m : (Has(<<x>>, m) <=> m = x) /\ ~Has(<<>>, m)
  BY DEF Has
<1>3. \A m : Once(<<x>>, m) /\ Once(<<>>, m)
  BY DEF Once
<1> QED
  BY <1>1, <1>1a, <1>2, <1>3

\* What a step takes from the queue, if anything.
Left(rest) == rest = msgs \/ (msgs # <<>> /\ rest = Tail(msgs))

LEMMA LeftHas ==
    ASSUME msgs \in Seq(Message), NEW rest, Left(rest)
    PROVE  /\ rest \in Seq(Message)
           /\ \A m : /\ Has(rest, m) => Has(msgs, m)
                     /\ Has(msgs, m) => Has(rest, m) \/ (rest # msgs /\ Head(msgs) = m)
                     /\ Once(msgs, m) => Once(rest, m)
<1>1. CASE rest = msgs
  BY <1>1
<1>2. CASE msgs # <<>> /\ rest = Tail(msgs)
  <2>1. rest # msgs
    <3>1. Len(Tail(msgs)) = Len(msgs) - 1 /\ Len(msgs) \in Nat
      BY <1>2, HeadTailProperties, LenProperties
    <3>2. rest = msgs => Len(Tail(msgs)) = Len(msgs)
      BY <1>2
    <3>3. Len(Tail(msgs)) # Len(msgs)
      BY <3>1
    <3> QED
      BY <3>2, <3>3
  <2> QED
    BY <1>2, <2>1, Beheaded
<1> QED
  BY <1>1, <1>2 DEF Left

\* A step that neither logs in nor closes a session.
LEMMA MailGoesOn ==
    ASSUME Mail, msgs \in Seq(Message), NEW rest, Left(rest),
           rest # msgs => Head(msgs) \notin {"LOGIN", "CLOSED"},
           NEW add \in Seq(Message),
           \A m : Has(add, m) => m \in {"RUN", "OPEN"} \/ (m = "DISCONNECT" /\ logins > 0),
           msgs' = rest \o add,
           UNCHANGED <<logins, signalled, client, signal_closed>>,
           Live' # {} => Live # {},
           Live' # {} /\ rest # msgs /\ Head(msgs) = "RUN" => ~Has(msgs, "LOGIN")
    PROVE  Mail'
<1>1. /\ rest \in Seq(Message)
      /\ \A m : /\ Has(rest, m) => Has(msgs, m)
                /\ Has(msgs, m) => Has(rest, m) \/ (rest # msgs /\ Head(msgs) = m)
                /\ Once(msgs, m) => Once(rest, m)
  BY LeftHas
<1>2. \A m : Has(msgs', m) <=> Has(rest, m) \/ Has(add, m)
  BY <1>1, Appended
<1>3. ~Has(add, "LOGIN") /\ ~Has(add, "CLOSED")
  OBVIOUS
<1>4. \A m \in {"LOGIN", "CLOSED"} : Has(msgs', m) <=> Has(msgs, m)
  BY <1>1, <1>2, <1>3
<1>5. Once(msgs', "LOGIN") /\ Once(msgs', "CLOSED")
  <2>1. Once(rest, "LOGIN") /\ Once(rest, "CLOSED")
    BY <1>1 DEF Mail
  <2>2. \A m : Once(rest, m) /\ Once(add, m) /\ ~(Has(rest, m) /\ Has(add, m)) => Once(msgs', m)
    BY <1>1, Appended
  <2>3. Once(add, "LOGIN") /\ Once(add, "CLOSED")
    BY <1>3 DEF Once, Has
  <2> QED
    BY <1>3, <2>1, <2>2, <2>3
<1>6. \A a, b : Behind(rest, a, b) /\ (Has(add, b) => Has(rest, a)) => Behind(msgs', a, b)
  BY <1>1, Appended
<1>7. \A a, b : Behind(msgs, a, b) /\ (rest # msgs => Head(msgs) # a) => Behind(rest, a, b)
  <2>1. CASE rest = msgs
    BY <2>1
  <2>2. CASE rest # msgs
    <3>1. msgs # <<>> /\ rest = Tail(msgs)
      BY <2>2 DEF Left
    <3>2. \A a, b : Behind(msgs, a, b) /\ Head(msgs) # a => Behind(Tail(msgs), a, b)
      BY <3>1, Beheaded
    <3> QED
      BY <2>2, <3>1, <3>2
  <2> QED
    BY <2>1, <2>2
<1>8. Live' # {} => Behind(msgs', "RUN", "LOGIN")
  <2>1. CASE Has(msgs, "LOGIN")
    BY <1>3, <1>6, <1>7, <2>1 DEF Mail
  <2>2. CASE ~Has(msgs, "LOGIN")
    BY <1>4, <2>2 DEF Has, Behind
  <2> QED
    BY <2>1, <2>2
<1>9. client = 0 => Behind(msgs', "LOGIN", "DISCONNECT")
  <2> SUFFICES ASSUME client = 0
               PROVE  Behind(msgs', "LOGIN", "DISCONNECT")
    OBVIOUS
  <2>1. Behind(rest, "LOGIN", "DISCONNECT")
    BY <1>7 DEF Mail
  <2>2. Has(add, "DISCONNECT") => Has(rest, "LOGIN")
    <3>1. Has(add, "DISCONNECT") => logins > 0
      OBVIOUS
    <3>2. logins > 0 => Has(msgs, "LOGIN")
      BY DEF Mail
    <3> QED
      BY <1>1, <3>1, <3>2
  <2> QED
    BY <1>6, <2>1, <2>2
<1> QED
  BY <1>4, <1>5, <1>8, <1>9 DEF Mail, Quiet

\* A step that closes the session of client.
LEMMA MailCloses ==
    ASSUME Mail, msgs \in Seq(Message), NEW rest, Left(rest),
           rest # msgs => Head(msgs) \notin {"LOGIN", "CLOSED"},
           NEW add \in Seq(Message), Once(add, "CLOSED"), Has(add, "CLOSED"),
           \A m : Has(add, m) => m \in {"RUN", "CLOSED"},
           msgs' = rest \o add,
           client # 0, client \notin signal_closed,
           signal_closed' = signal_closed \union {client},
           UNCHANGED <<logins, signalled, client>>
    PROVE  Mail'
<1>1. /\ rest \in Seq(Message)
      /\ \A m : Has(rest, m) => Has(msgs, m)
  BY LeftHas
<1>2. \A m : Has(msgs', m) <=> Has(rest, m) \/ Has(add, m)
  BY <1>1, Appended
<1>3. ~Quiet /\ ~Has(msgs, "LOGIN") /\ ~Has(msgs, "CLOSED")
  BY DEF Mail, Quiet
<1>4. ~Has(msgs', "LOGIN") /\ Has(msgs', "CLOSED") /\ ~Has(rest, "CLOSED")
  BY <1>1, <1>2, <1>3
<1>5. Once(msgs', "CLOSED")
  <2>1. Once(rest, "CLOSED")
    BY <1>4 DEF Once, Has
  <2> QED
    BY <1>1, <1>4, <2>1, Appended
<1>6. Once(msgs', "LOGIN") /\ Behind(msgs', "RUN", "LOGIN")
  BY <1>4 DEF Once, Has, Behind
<1>7. ~Quiet'
  BY <1>4 DEF Quiet
<1> QED
  BY <1>3, <1>4, <1>5, <1>6, <1>7 DEF Mail, Quiet

\* What the invariant says of the client that is alive and of the queue.
LEMMA Facts ==
    ASSUME PInv
    PROVE  /\ TypeOK /\ msgs \in Seq(Message) /\ client \in Nat /\ 0 \notin Client
           /\ \A c \in Live : /\ c = client /\ c \in Client /\ c \in connected
                              /\ engine[c] = "CLOSED" <=> c \in signal_closed
                              /\ engine[c] = "CLOSED" => phase[c] = "RESPONSE"
           /\ Has(msgs, "LOGIN") /\ client \in Live =>
                  /\ engine[client] = "CLOSED" /\ client \in runnable /\ Has(msgs, "RUN")
           /\ client \in signal_closed => client # 0
<1>1. /\ TypeOK /\ msgs \in Seq(Message) /\ client \in Nat /\ 0 \notin Client
      /\ client \in signal_closed => client # 0
  BY DEF PInv, IInv, TypeOK, ClientTypeOK, PumpTypeOK, Client
<1>2. \A c \in Live : /\ c = client /\ c \in Client /\ c \in connected
                      /\ engine[c] = "CLOSED" <=> c \in signal_closed
                      /\ engine[c] = "CLOSED" => phase[c] = "RESPONSE"
  <2> SUFFICES ASSUME NEW c \in Live
               PROVE  /\ c = client /\ c \in Client /\ c \in connected
                      /\ engine[c] = "CLOSED" <=> c \in signal_closed
                      /\ engine[c] = "CLOSED" => phase[c] = "RESPONSE"
    OBVIOUS
  <2>1. c \in Client /\ c = client /\ LifeOf(c) /\ phase \in [Client -> Phase]
    BY <1>1 DEF PInv, IInv, Life, HandedOutAlive, Live, Created, TypeOK, ClientTypeOK
  <2> QED
    BY <2>1 DEF LifeOf, Waiting, Live, Created, Phase
<1>3. Has(msgs, "LOGIN") /\ client \in Live =>
          /\ engine[client] = "CLOSED" /\ client \in runnable /\ Has(msgs, "RUN")
  BY <1>1, <1>2 DEF PInv, Mail, Quiet, Run
<1> QED
  BY <1>1, <1>2, <1>3

\* A step that leaves the clients where they are.
LEMMA ClientsStay ==
    ASSUME PInv, UNCHANGED <<phase, engine, client, state, signal_closed>>,
           runnable \subseteq runnable',
           \A c \in Live : c \in runnable' => Has(msgs, "RUN")',
           undefined' => state = "CLOSED",
           \A t \in handlers' : t \in LiveTasks' /\ parent'[t] \in Live
    PROVE  /\ Live' = Live
           /\ Run' /\ Ended' /\ HandedOutAlive' /\ DanglingOnlyAfterEnd' /\ HandlersAlive'
<1>1. Live' = Live
  BY DEF Live, Created
<1>2. Run'
  BY <1>1 DEF PInv, Run
<1>3. Ended' /\ HandedOutAlive' /\ DanglingOnlyAfterEnd' /\ HandlersAlive'
  BY <1>1 DEF PInv, Ended, HandedOutAlive, DanglingOnlyAfterEnd, HandlersAlive
<1> QED
  BY <1>1, <1>2, <1>3

LEMMA LoginSafe ==
    ASSUME PInv, Login
    PROVE  PInv'
<1>1. IInv'
  BY LoginKeeps DEF PInv
<1>2. /\ TypeOK /\ msgs \in Seq(Message) /\ client \in Nat /\ 0 \notin Client
      /\ \A c \in Live : c = client /\ (engine[c] = "CLOSED" <=> c \in signal_closed)
  BY Facts
<1>3. /\ logins = signalled /\ logins' = logins + 1 /\ msgs' = Append(msgs, "LOGIN")
      /\ UNCHANGED <<phase, engine, client, state, signal_closed, runnable, undefined,
                     handlers, task, parent, signalled>>
      /\ ~undefined
  BY DEF Login, Going
<1>4. "LOGIN" \in Message
  BY DEF Message
<1>5. msgs' = msgs \o <<"LOGIN">>
  BY <1>2, <1>3, <1>4, AppendIsConcat
<1>6. ~Has(msgs, "LOGIN") /\ Quiet /\ logins = client /\ signalled = client
  BY <1>2, <1>3 DEF PInv, Mail
<1>7. \A m : Has(msgs', m) <=> Has(msgs, m) \/ m = "LOGIN"
  <2>1. <<"LOGIN">> \in Seq(Message) /\ \A m : Has(<<"LOGIN">>, m) <=> m = "LOGIN"
    BY <1>4, Alone
  <2> DEFINE add == <<"LOGIN">>
  <2> HIDE DEF add
  <2>2. \A m : Has(msgs \o add, m) <=> Has(msgs, m) \/ Has(add, m)
    BY <1>2, <2>1, Appended DEF add
  <2>3. msgs' = msgs \o add /\ \A m : Has(add, m) <=> m = "LOGIN"
    BY <1>5, <2>1 DEF add
  <2> QED
    BY <2>2, <2>3
<1>8. Once(msgs', "LOGIN") /\ Once(msgs', "CLOSED")
  <2>1. Once(msgs, "LOGIN") /\ Once(msgs, "CLOSED")
    BY DEF PInv, Mail
  <2> QED
    BY <1>2, <1>4, <1>5, <1>6, <2>1, Appended, Alone
<1>9. \A a, b : Behind(msgs, a, b) /\ (b = "LOGIN" => Has(msgs, a)) => Behind(msgs', a, b)
  <2>1. <<"LOGIN">> \in Seq(Message) /\ \A m : Has(<<"LOGIN">>, m) <=> m = "LOGIN"
    BY <1>4, Alone
  <2> DEFINE add == <<"LOGIN">>
  <2> HIDE DEF add
  <2>2. \A a, b : Behind(msgs, a, b) /\ (Has(add, b) => Has(msgs, a)) => Behind(msgs \o add, a, b)
    BY <1>2, <2>1, Appended DEF add
  <2>3. msgs' = msgs \o add /\ \A m : Has(add, m) <=> m = "LOGIN"
    BY <1>5, <2>1 DEF add
  <2> QED
    BY <2>2, <2>3
<1>10. Live # {} => Has(msgs, "RUN")
  <2>1. \A c \in Live : c = client /\ c \in Client
    BY <1>2 DEF Live, Created
  <2>2. \A c \in Live : c \in signal_closed
    BY <1>2, <1>6, <2>1 DEF Quiet
  <2> QED
    BY <1>2, <2>2 DEF PInv, Run
<1>11. Live' = Live
  BY <1>3 DEF Live, Created
<1>12. Mail'
  <2>1. Live' # {} => Behind(msgs', "RUN", "LOGIN")
    BY <1>9, <1>10, <1>11 DEF PInv, Mail
  <2>2. client' = 0 => Behind(msgs', "LOGIN", "DISCONNECT")
    BY <1>3, <1>9 DEF PInv, Mail
  <2>3. Quiet'
    BY <1>3, <1>6, <1>7 DEF Quiet
  <2>4. Has(msgs', "CLOSED") => client' \in signal_closed'
    BY <1>3, <1>7 DEF PInv, Mail
  <2> QED
    BY <1>3, <1>6, <1>7, <1>8, <2>1, <2>2, <2>3, <2>4 DEF Mail
<1>13. \A c \in Live : c \in runnable' => Has(msgs, "RUN")'
  BY <1>3, <1>7 DEF PInv, Run
<1>14. \A t \in handlers' : t \in LiveTasks' /\ parent'[t] \in Live
  BY <1>3 DEF PInv, HandlersAlive, LiveTasks
<1> QED
  BY <1>1, <1>3, <1>12, <1>13, <1>14, ClientsStay DEF PInv

\* What is posted, if anything.
LEMMA PostedHas ==
    ASSUME NEW c, NEW t, NEW s
    PROVE  /\ \A m : Has(WakeUp(c), m) <=> m = "RUN" /\ c \in Live \ runnable
           /\ \A m : Has(TaskWakeUp(t), m) => m = "RUN"
           /\ \A m : Has(Posts(c, s), m) <=>
                  m = s /\ Told(c, s) /\ s \in {"OPEN", "CLOSED"}
           /\ \A m : Once(Posts(c, s), m)
<1> "RUN" \in Message /\ "OPEN" \in Message /\ "CLOSED" \in Message
  BY DEF Message
<1>1. \A x \in Message : \A m : (Has(<<x>>, m) <=> m = x) /\ ~Has(<<>>, m)
  BY Alone
<1>2. \A x \in Message : \A m : Once(<<x>>, m) /\ Once(<<>>, m)
  BY Alone
<1>3. \A m : Has(WakeUp(c), m) <=> m = "RUN" /\ c \in Live \ runnable
  BY <1>1 DEF WakeUp
<1>4. \A m : Has(TaskWakeUp(t), m) => m = "RUN"
  BY <1>1 DEF TaskWakeUp
<1>5. \A m : Has(Posts(c, s), m) <=>
          m = s /\ Told(c, s) /\ s \in {"OPEN", "CLOSED"}
  <2>1. CASE Told(c, s) /\ s \in {"OPEN", "CLOSED"}
    <3>1. Posts(c, s) = <<s>> /\ s \in Message
      BY <2>1 DEF Posts
    <3> QED
      BY <1>1, <2>1, <3>1
  <2>2. CASE ~(Told(c, s) /\ s \in {"OPEN", "CLOSED"})
    <3>1. Posts(c, s) = <<>>
      BY <2>2 DEF Posts
    <3> QED
      BY <1>1, <2>2, <3>1
  <2> QED
    BY <2>1, <2>2
<1>6. \A m : Once(Posts(c, s), m)
  <2>1. Posts(c, s) = <<>> \/ (Posts(c, s) = <<s>> /\ s \in Message)
    BY DEF Posts
  <2> QED
    BY <1>2, <2>1
<1> QED
  BY <1>3, <1>4, <1>5, <1>6

\* A step that changes neither the clients nor what the pump knows of them.
LEMMA QuietSafe ==
    ASSUME PInv, IInv', NEW rest, Left(rest),
           rest # msgs => Head(msgs) \notin {"LOGIN", "CLOSED", "RUN"},
           NEW add \in Seq(Message),
           \A m : Has(add, m) => m \in {"RUN", "OPEN"} \/ (m = "DISCONNECT" /\ logins > 0),
           msgs' = rest \o add,
           UNCHANGED <<logins, signalled, phase, engine, client, state, signal_closed>>,
           runnable \subseteq runnable',
           \A c \in Live : c \in runnable' => c \in runnable \/ Has(add, "RUN"),
           undefined' => state = "CLOSED",
           \A t \in handlers' : t \in LiveTasks' /\ parent'[t] \in Live
    PROVE  PInv'
<1>1. msgs \in Seq(Message) /\ Live' = Live
  BY Facts DEF Live, Created
<1>2. Mail'
  BY <1>1, MailGoesOn DEF PInv
<1>3. /\ rest \in Seq(Message)
      /\ \A m : Has(msgs, m) => Has(rest, m) \/ (rest # msgs /\ Head(msgs) = m)
  BY <1>1, LeftHas
<1>4. \A m : Has(msgs', m) <=> Has(rest, m) \/ Has(add, m)
  BY <1>3, Appended
<1>5. \A c \in Live : c \in runnable' => Has(msgs, "RUN")'
  BY <1>3, <1>4 DEF PInv, Run
<1> QED
  BY <1>1, <1>2, <1>5, ClientsStay DEF PInv

LEMMA DisconnectSafe ==
    ASSUME PInv, Disconnect
    PROVE  PInv'
<1>1. IInv'
  BY DisconnectKeeps DEF PInv
<1>2. msgs \in Seq(Message) /\ Left(msgs)
  BY Facts DEF Left
<1>3. "DISCONNECT" \in Message
  BY DEF Message
<1> DEFINE add == <<"DISCONNECT">>
<1>4. add \in Seq(Message) /\ \A m : Has(add, m) <=> m = "DISCONNECT"
  BY <1>3, Alone
<1>5. msgs' = msgs \o add
  BY <1>2, <1>3, AppendIsConcat DEF Disconnect
<1> HIDE DEF add
<1>6. /\ UNCHANGED <<logins, signalled, phase, engine, client, state, signal_closed,
                     runnable, undefined, handlers, task, parent>>
      /\ logins > 0
  BY DEF Disconnect
<1>7. \A t \in handlers' : t \in LiveTasks' /\ parent'[t] \in Live
  BY <1>6 DEF PInv, HandlersAlive, LiveTasks
<1>8. undefined' => state = "CLOSED"
  BY <1>6 DEF PInv, DanglingOnlyAfterEnd
<1> QED
  BY <1>1, <1>2, <1>4, <1>5, <1>6, <1>7, <1>8, QuietSafe

LEMMA StartTaskSafe ==
    ASSUME PInv, NEW t \in Task, StartTask(t)
    PROVE  PInv'
<1>1. IInv'
  BY StartTaskKeeps DEF PInv
<1>2. msgs \in Seq(Message) /\ Left(msgs)
  BY Facts DEF Left
<1>3. "RUN" \in Message
  BY DEF Message
<1> DEFINE add == <<"RUN">>
<1>4. add \in Seq(Message) /\ \A m : Has(add, m) <=> m = "RUN"
  BY <1>3, Alone
<1>5. msgs' = msgs \o add
  BY <1>2, <1>3, AppendIsConcat DEF StartTask
<1> HIDE DEF add
<1>6. UNCHANGED <<logins, signalled, phase, engine, client, state, signal_closed,
                  runnable, undefined>>
  BY DEF StartTask
<1>7. \A u \in handlers' : u \in LiveTasks' /\ parent'[u] \in Live
  <2>1. /\ task \in [Task -> {"none", "live", "DONE", "deleted"}]
        /\ parent \in [Task -> Client \union {0}]
    BY Facts DEF TypeOK, TaskTypeOK
  <2>2. PICK c \in HandedOut : /\ task' = [task EXCEPT ![t] = "live"]
                               /\ parent' = [parent EXCEPT ![t] = c]
    BY DEF StartTask
  <2>3. c \in Live
    BY DEF HandedOut, PInv, HandedOutAlive
  <2>4. handlers' = handlers \union {t}
    BY DEF StartTask
  <2> QED
    BY <2>1, <2>2, <2>3, <2>4 DEF PInv, HandlersAlive, LiveTasks
<1>8. undefined' => state = "CLOSED"
  BY <1>6 DEF PInv, DanglingOnlyAfterEnd
<1> QED
  BY <1>1, <1>2, <1>4, <1>5, <1>6, <1>7, <1>8, QuietSafe

LEMMA AbortTaskSafe ==
    ASSUME PInv, NEW t \in Task, AbortTask(t)
    PROVE  PInv'
<1>1. IInv'
  BY AbortTaskKeeps DEF PInv
<1>2. msgs \in Seq(Message) /\ Left(msgs)
  BY Facts DEF Left
<1>3. "RUN" \in Message
  BY DEF Message
<1> DEFINE add == <<"RUN">>
<1>4. add \in Seq(Message) /\ \A m : Has(add, m) <=> m = "RUN"
  BY <1>3, Alone
<1>5. msgs' = msgs \o add
  BY <1>2, <1>3, AppendIsConcat DEF AbortTask
<1> HIDE DEF add
<1>6. UNCHANGED <<logins, signalled, phase, engine, client, state, signal_closed,
                  runnable, undefined>>
  BY DEF AbortTask
<1>7. \A u \in handlers' : u \in LiveTasks' /\ parent'[u] \in Live
  BY DEF AbortTask, StopTasks, Unregistered, PInv, HandlersAlive, LiveTasks
<1>8. undefined' => state = "CLOSED"
  BY <1>6 DEF PInv, DanglingOnlyAfterEnd
<1> QED
  BY <1>1, <1>2, <1>4, <1>5, <1>6, <1>7, <1>8, QuietSafe

\* A step that posts nothing.
LEMMA NothingPosted ==
    ASSUME NEW rest \in Seq(Message)
    PROVE  <<>> \in Seq(Message) /\ rest = rest \o <<>> /\ \A m : ~Has(<<>>, m)
<1>1. "RUN" \in Message
  BY DEF Message
<1> QED
  BY <1>1, Alone, ConcatEmptySeq

LEMMA DoDisconnectDoneSafe ==
    ASSUME PInv, DoDisconnectDone
    PROVE  PInv'
<1>1. IInv'
  BY DoDisconnectDoneKeeps DEF PInv
<1> DEFINE rest == Tail(msgs)
           add == <<>>
<1>2. /\ msgs # <<>> /\ Head(msgs) = "DISCONNECT" /\ msgs' = rest
      /\ UNCHANGED <<logins, signalled, phase, engine, client, state, signal_closed,
                     runnable, undefined, handlers, task, parent>>
  BY DEF DoDisconnectDone, Received
<1>3. Left(rest) /\ rest \in Seq(Message)
  BY <1>2, Facts, Beheaded DEF Left
<1> HIDE DEF rest, add
<1>4. add \in Seq(Message) /\ msgs' = rest \o add /\ \A m : ~Has(add, m)
  BY <1>2, <1>3, NothingPosted DEF add
<1>5. \A t \in handlers' : t \in LiveTasks' /\ parent'[t] \in Live
  BY <1>2 DEF PInv, HandlersAlive, LiveTasks
<1>6. undefined' => state = "CLOSED"
  BY <1>2 DEF PInv, DanglingOnlyAfterEnd
<1> QED
  BY <1>1, <1>2, <1>3, <1>4, <1>5, <1>6, QuietSafe

LEMMA DoOnXmppOpenSafe ==
    ASSUME PInv, DoOnXmppOpen
    PROVE  PInv'
<1>1. IInv'
  BY DoOnXmppOpenKeeps DEF PInv
<1> DEFINE rest == Tail(msgs)
           add == <<>>
<1>2. /\ msgs # <<>> /\ Head(msgs) = "OPEN" /\ msgs' = rest
      /\ UNCHANGED <<logins, signalled, phase, engine, client, state, signal_closed,
                     runnable, undefined, handlers, task, parent>>
  BY DEF DoOnXmppOpen, Received
<1>3. Left(rest) /\ rest \in Seq(Message)
  BY <1>2, Facts, Beheaded DEF Left
<1> HIDE DEF rest, add
<1>4. add \in Seq(Message) /\ msgs' = rest \o add /\ \A m : ~Has(add, m)
  BY <1>2, <1>3, NothingPosted DEF add
<1>5. \A t \in handlers' : t \in LiveTasks' /\ parent'[t] \in Live
  BY <1>2 DEF PInv, HandlersAlive, LiveTasks
<1>6. undefined' => state = "CLOSED"
  BY <1>2 DEF PInv, DanglingOnlyAfterEnd
<1> QED
  BY <1>1, <1>2, <1>3, <1>4, <1>5, <1>6, QuietSafe

\* client_ is never used before it is assigned: a DISCONNECT comes after the
\* LOGIN.  What it finds deleted has ended before.
LEMMA DoDisconnectDanglingSafe ==
    ASSUME PInv, DoDisconnectDangling
    PROVE  PInv'
<1>1. IInv'
  BY DoDisconnectDanglingKeeps DEF PInv
<1> DEFINE add == <<>>
<1>2. /\ msgs # <<>> /\ Head(msgs) = "DISCONNECT" /\ msgs' = msgs
      /\ UNCHANGED <<logins, signalled, phase, engine, client, state, signal_closed,
                     runnable, handlers, task, parent>>
      /\ client = 0 \/ phase[client] = "deleted"
  BY DEF DoDisconnectDangling, Received
<1>3. Left(msgs) /\ msgs \in Seq(Message)
  BY Facts DEF Left
<1> HIDE DEF add
<1>4. add \in Seq(Message) /\ msgs' = msgs \o add /\ \A m : ~Has(add, m)
  BY <1>2, <1>3, NothingPosted DEF add
<1>5. \A t \in handlers' : t \in LiveTasks' /\ parent'[t] \in Live
  BY <1>2 DEF PInv, HandlersAlive, LiveTasks
<1>6. state = "CLOSED"
  <2>1. client # 0
    <3>1. client = 0 => Behind(msgs, "LOGIN", "DISCONNECT")
      BY DEF PInv, Mail
    <3>2. ~Behind(msgs, "LOGIN", "DISCONNECT")
      BY <1>2, <1>3, Beheaded
    <3> QED
      BY <3>1, <3>2
  <2>2. client \in Client /\ LifeOf(client)
    BY <2>1 DEF PInv, IInv, TypeOK, PumpTypeOK, Life
  <2>3. client \in signal_closed
    BY <1>2, <2>1, <2>2 DEF LifeOf, Live, Created
  <2> QED
    BY <2>3 DEF PInv, Ended
<1> QED
  BY <1>1, <1>2, <1>3, <1>4, <1>5, <1>6, QuietSafe

LEMMA SocketClosesSafe ==
    ASSUME PInv, NEW c \in Client, SocketCloses(c)
    PROVE  PInv'
<1>1. IInv'
  BY SocketClosesKeeps DEF PInv
<1> DEFINE add == <<>>
<1>2. UNCHANGED <<msgs, logins, signalled, phase, engine, client, state, signal_closed,
                  runnable, undefined, handlers, task, parent>>
  BY DEF SocketCloses
<1>3. Left(msgs) /\ msgs \in Seq(Message)
  BY Facts DEF Left
<1> HIDE DEF add
<1>4. add \in Seq(Message) /\ msgs' = msgs \o add /\ \A m : ~Has(add, m)
  BY <1>2, <1>3, NothingPosted DEF add
<1>5. \A t \in handlers' : t \in LiveTasks' /\ parent'[t] \in Live
  BY <1>2 DEF PInv, HandlersAlive, LiveTasks
<1>6. undefined' => state = "CLOSED"
  BY <1>2 DEF PInv, DanglingOnlyAfterEnd
<1> QED
  BY <1>1, <1>2, <1>3, <1>4, <1>5, <1>6, QuietSafe

LEMMA SocketReadStanzaSafe ==
    ASSUME PInv, NEW c \in Client, NEW t \in Task, SocketReadStanza(c, t)
    PROVE  PInv'
<1>1. IInv'
  BY SocketReadStanzaKeeps DEF PInv
<1> DEFINE add == TaskWakeUp(t)
<1>2. /\ msgs' = msgs \o add
      /\ UNCHANGED <<logins, signalled, phase, engine, client, state, signal_closed,
                     runnable, undefined, handlers, task, parent>>
  BY DEF SocketReadStanza
<1>3. Left(msgs) /\ msgs \in Seq(Message)
  BY Facts DEF Left
<1>4. add \in Seq(Message) /\ \A m : Has(add, m) => m = "RUN"
  BY PostedMessages, PostedHas
<1> HIDE DEF add
<1>5. \A u \in handlers' : u \in LiveTasks' /\ parent'[u] \in Live
  BY <1>2 DEF PInv, HandlersAlive, LiveTasks
<1>6. undefined' => state = "CLOSED"
  BY <1>2 DEF PInv, DanglingOnlyAfterEnd
<1> QED
  BY <1>1, <1>2, <1>3, <1>4, <1>5, <1>6, QuietSafe

LEMMA AuthDoneSafe ==
    ASSUME PInv, NEW c \in Client, NEW o \in AuthOutcome, AuthDone(c, o)
    PROVE  PInv'
<1>1. IInv'
  BY AuthDoneKeeps DEF PInv
<1> DEFINE add == WakeUp(c)
<1>2. /\ msgs' = msgs \o add
      /\ runnable' = runnable \union ({c} \cap Live)
      /\ UNCHANGED <<logins, signalled, phase, engine, client, state, signal_closed,
                     undefined, handlers, task, parent>>
  BY DEF AuthDone, WakeClient
<1>3. Left(msgs) /\ msgs \in Seq(Message)
  BY Facts DEF Left
<1>4. /\ add \in Seq(Message)
      /\ \A m : Has(add, m) <=> m = "RUN" /\ c \in Live \ runnable
  BY PostedMessages, PostedHas
<1> HIDE DEF add
<1>5. \A u \in handlers' : u \in LiveTasks' /\ parent'[u] \in Live
  BY <1>2 DEF PInv, HandlersAlive, LiveTasks
<1>6. undefined' => state = "CLOSED"
  BY <1>2 DEF PInv, DanglingOnlyAfterEnd
<1> QED
  BY <1>1, <1>2, <1>3, <1>4, <1>5, <1>6, QuietSafe

LEMMA DoOnXmppClosedSafe ==
    ASSUME PInv, DoOnXmppClosed
    PROVE  PInv'
<1>1. IInv'
  BY DoOnXmppClosedKeeps DEF PInv
<1>2. /\ msgs # <<>> /\ Head(msgs) = "CLOSED" /\ msgs' = Tail(msgs)
      /\ signalled' = signalled + 1
      /\ UNCHANGED <<logins, phase, engine, client, state, signal_closed,
                     runnable, undefined, handlers, task, parent>>
  BY DEF DoOnXmppClosed, Received
<1>3. msgs \in Seq(Message) /\ client \in Nat
      /\ (client \in signal_closed => client # 0)
  BY Facts
<1>4. /\ \A m : Has(msgs, m) <=> Head(msgs) = m \/ Has(msgs', m)
      /\ \A m : Once(msgs, m) =>
             Once(msgs', m) /\ (Head(msgs) = m => ~Has(msgs', m))
  BY <1>2, <1>3, Beheaded
<1>5. /\ Has(msgs, "CLOSED") /\ client \in signal_closed /\ client # 0
      /\ ~Quiet /\ ~Has(msgs, "LOGIN")
  BY <1>2, <1>3, <1>4 DEF PInv, Mail, Quiet
<1>6. /\ Once(msgs', "LOGIN") /\ Once(msgs', "CLOSED")
      /\ ~Has(msgs', "CLOSED") /\ ~Has(msgs', "LOGIN")
  BY <1>2, <1>4, <1>5 DEF PInv, Mail
<1>7. Mail'
  <2>1. Quiet'
    BY <1>2, <1>5, <1>6 DEF Quiet
  <2>2. logins = client /\ signalled = client - 1
    BY <1>5 DEF PInv, Mail
  <2>3. logins' = client' /\ signalled' = client'
    BY <1>2, <1>3, <2>2
  <2>4. Behind(msgs', "RUN", "LOGIN")
    BY <1>6 DEF Behind, Has
  <2> QED
    BY <1>2, <1>5, <1>6, <2>1, <2>3, <2>4 DEF Mail
<1>8. \A c \in Live : c \in runnable' => Has(msgs, "RUN")'
  BY <1>2, <1>4 DEF PInv, Run
<1>9. \A t \in handlers' : t \in LiveTasks' /\ parent'[t] \in Live
  BY <1>2 DEF PInv, HandlersAlive, LiveTasks
<1>10. undefined' => state = "CLOSED"
  BY <1>2 DEF PInv, DanglingOnlyAfterEnd
<1> QED
  BY <1>1, <1>2, <1>7, <1>8, <1>9, <1>10, ClientsStay DEF PInv

\* A LOGIN finds the client of the last session gone: its RUN was in front.
LEMMA DoLoginSafe ==
    ASSUME PInv, DoLogin
    PROVE  PInv'
<1> DEFINE c == client + 1
<1>1. IInv'
  BY DoLoginKeeps DEF PInv
<1>2. /\ msgs \in Seq(Message) /\ client \in Nat /\ client' = c /\ c # client /\ c # 0
      /\ phase \in [Client -> Phase] /\ engine \in [Client -> EngineStates]
      /\ c \in Client
      /\ (client \in signal_closed => client # 0)
  <2>1. /\ msgs \in Seq(Message) /\ client \in Nat
        /\ phase \in [Client -> Phase] /\ engine \in [Client -> EngineStates]
        /\ (client \in signal_closed => client # 0)
    BY Facts DEF TypeOK, ClientTypeOK
  <2>2. client' = c /\ client < MaxLogins
    BY DEF DoLogin
  <2> QED
    BY <2>1, <2>2, BoundAssumption DEF Client
<1>3. c \notin signal_closed
  <2>1. LifeOf(c) /\ ~(c <= client)
    BY <1>2 DEF PInv, IInv, Life
  <2> QED
    BY <2>1 DEF LifeOf
<1> HIDE DEF c
<1>4. /\ msgs # <<>> /\ Head(msgs) = "LOGIN" /\ ~undefined
      /\ msgs' = Append(Tail(msgs), "RUN")
      /\ phase' = [phase EXCEPT ![c] = "INIT"]
      /\ engine' = [engine EXCEPT ![c] = "START"]
      /\ state' = "START" /\ runnable' = runnable \union {c}
      /\ UNCHANGED <<logins, signalled, signal_closed, undefined, handlers, task, parent>>
  BY DEF DoLogin, Received, Going, c
<1>5. /\ Tail(msgs) \in Seq(Message)
      /\ \A m : Has(msgs, m) <=> Head(msgs) = m \/ Has(Tail(msgs), m)
      /\ \A m : Once(msgs, m) =>
             Once(Tail(msgs), m) /\ (Head(msgs) = m => ~Has(Tail(msgs), m))
      /\ ~Behind(msgs, "RUN", "LOGIN")
  BY <1>2, <1>4, Beheaded
<1>6. Live = {} /\ Quiet /\ logins = client + 1 /\ signalled = client /\ ~Has(msgs, "CLOSED")
  <2>1. Has(msgs, "LOGIN")
    BY <1>4, <1>5
  <2> QED
    BY <1>2, <1>5, <2>1 DEF PInv, Mail, Quiet
<1>7. /\ \A m : Has(msgs', m) <=> Has(Tail(msgs), m) \/ m = "RUN"
      /\ Once(msgs', "LOGIN") /\ Once(msgs', "CLOSED")
  <2> DEFINE add == <<"RUN">>
             rest == Tail(msgs)
  <2>1. "RUN" \in Message
    BY DEF Message
  <2>2. add \in Seq(Message) /\ \A m : Once(add, m) /\ (Has(add, m) <=> m = "RUN")
    BY <2>1, Alone
  <2>3. rest \in Seq(Message) /\ msgs' = rest \o add
    BY <1>4, <1>5, <2>1, AppendIsConcat
  <2>4. Once(rest, "LOGIN") /\ Once(rest, "CLOSED")
    BY <1>5 DEF PInv, Mail
  <2>5. \A m : Has(rest, m) <=> Has(Tail(msgs), m)
    OBVIOUS
  <2> HIDE DEF add, rest
  <2> QED
    BY <2>2, <2>3, <2>4, <2>5, Appended
<1>8. ~Has(msgs', "LOGIN") /\ ~Has(msgs', "CLOSED") /\ Has(msgs', "RUN")
  BY <1>4, <1>5, <1>6, <1>7 DEF PInv, Mail
<1>9. Live' = {c}
  BY <1>2, <1>4, <1>6 DEF Live, Created, Phase
<1>10. Mail'
  <2>1. ~Quiet'
    BY <1>2, <1>3, <1>4 DEF Quiet
  <2>2. logins' = client' /\ signalled' = client' - 1
    BY <1>2, <1>4, <1>6 DEF c
  <2>3. Behind(msgs', "RUN", "LOGIN")
    BY <1>8 DEF Behind, Has
  <2> QED
    BY <1>2, <1>7, <1>8, <2>1, <2>2, <2>3 DEF Mail
<1>11. Run'
  BY <1>2, <1>4, <1>8, <1>9 DEF Run
<1>12. Ended' /\ HandedOutAlive' /\ DanglingOnlyAfterEnd'
  BY <1>2, <1>3, <1>4, <1>9 DEF Ended, HandedOutAlive, DanglingOnlyAfterEnd
<1>13. HandlersAlive'
  BY <1>4, <1>6 DEF PInv, HandlersAlive
<1> QED
  BY <1>1, <1>10, <1>11, <1>12, <1>13 DEF PInv

\* The connection of the client that is alive comes up.
LEMMA SocketConnectedSafe ==
    ASSUME PInv, NEW c \in Client, SocketConnected(c)
    PROVE  PInv'
<1>1. IInv'
  BY SocketConnectedKeeps DEF PInv
<1>2. LifeOf(c) /\ net[c] = "connecting" /\ engine[c] = "START"
  BY DEF PInv, IInv, Life, SocketConnected
<1>3. c \in Live
  BY <1>2 DEF LifeOf, Live, Created
<1>4. /\ msgs \in Seq(Message) /\ Left(msgs) /\ c = client
      /\ c \notin signal_closed
      /\ engine \in [Client -> EngineStates]
      /\ ~Has(msgs, "LOGIN")
      /\ \A d \in Live : d = client
  BY <1>2, <1>3, Facts DEF Left, TypeOK, ClientTypeOK
<1> DEFINE add == WakeUp(c)
<1>5. add \in Seq(Message) /\ \A m : Has(add, m) <=> m = "RUN" /\ c \in Live \ runnable
  BY PostedMessages, PostedHas
<1>6. /\ engine' = [engine EXCEPT ![c] = "OPENING"] /\ state' = NewState(c, "OPENING")
      /\ UNCHANGED <<logins, signalled, signal_closed, phase, client, undefined, handlers,
                     task, parent>>
      /\ runnable' = runnable \union ({c} \cap Live)
  BY DEF SocketConnected, OnStateChange, WakeClient
<1>7. msgs' = msgs \o add
  <2>1. Posts(c, "OPENING") = <<>>
    BY DEF Posts
  <2>2. msgs' = (msgs \o <<>>) \o add
    BY <2>1 DEF SocketConnected
  <2>3. msgs \o <<>> = msgs
    BY <1>4, ConcatEmptySeq
  <2> QED
    BY <2>2, <2>3
<1> HIDE DEF add
<1>8. Live' = Live
  BY <1>6 DEF Live, Created
<1>9. Mail'
  BY <1>3, <1>4, <1>5, <1>6, <1>7, MailGoesOn DEF PInv
<1>10. \A m : Has(msgs', m) <=> Has(msgs, m) \/ Has(add, m)
  BY <1>4, <1>5, <1>7, Appended
<1>11. Run'
  BY <1>3, <1>4, <1>5, <1>6, <1>8, <1>10 DEF PInv, Run
<1>12. state' = "OPENING" /\ ~undefined' /\ Ended' /\ HandedOutAlive' /\ DanglingOnlyAfterEnd'
  <2>1. Told(c, "OPENING")
    BY <1>3, Facts DEF Told
  <2>2. state' = "OPENING"
    BY <1>6, <2>1 DEF NewState
  <2>3. ~undefined'
    BY <1>6 DEF SocketConnected, Going
  <2> QED
    BY <1>4, <1>6, <1>8, <2>2, <2>3 DEF Ended, HandedOutAlive, DanglingOnlyAfterEnd
<1>13. HandlersAlive'
  BY <1>6, <1>8 DEF PInv, HandlersAlive, LiveTasks
<1> QED
  BY <1>1, <1>9, <1>11, <1>12, <1>13 DEF PInv

\* The engine's state goes on, at last to its end.
LEMMA SocketReadSafe ==
    ASSUME PInv, NEW c \in Client, NEW s \in EngineStates, SocketRead(c, s)
    PROVE  PInv'
<1>1. IInv'
  BY SocketReadKeeps DEF PInv
<1>2. /\ LifeOf(c) /\ net[c] = "connected" /\ s \in {"OPEN", "CLOSED"}
      /\ Rank[engine[c]] < Rank[s]
  BY DEF PInv, IInv, Life, SocketRead
<1>3. c \in Live
  BY <1>2 DEF LifeOf, Live, Created
<1>4. engine \in [Client -> EngineStates] /\ engine[c] # "CLOSED"
  <2>1. engine \in [Client -> EngineStates]
    BY DEF PInv, IInv, TypeOK, ClientTypeOK
  <2>2. Rank["CLOSED"] = 4 /\ Rank["OPEN"] = 3
    BY DEF Rank, EngineStates
  <2> QED
    BY <1>2, <2>1, <2>2
<1>5. /\ msgs \in Seq(Message) /\ Left(msgs) /\ c = client /\ c \in connected
      /\ c \notin signal_closed /\ ~Has(msgs, "LOGIN") /\ client # 0
      /\ \A d \in Live : d = client
  BY <1>3, <1>4, Facts DEF Left
<1>6. Told(c, s)
  BY <1>5 DEF Told
<1>7. /\ engine' = [engine EXCEPT ![c] = s] /\ state' = s /\ ~undefined'
      /\ signal_closed' = IF s = "CLOSED" THEN signal_closed \union {c} ELSE signal_closed
      /\ UNCHANGED <<logins, signalled, phase, client, handlers, task, parent>>
      /\ runnable' = runnable \union {c}
  BY <1>3, <1>6 DEF SocketRead, Going, OnStateChange, NewState, WakeClient
<1> DEFINE add == Posts(c, s) \o WakeUp(c)
<1>8. /\ add \in Seq(Message)
      /\ \A m : Has(add, m) <=> m = s \/ (m = "RUN" /\ c \notin runnable)
      /\ Once(add, "CLOSED")
      /\ msgs' = msgs \o add
  <2> DEFINE p == Posts(c, s)
             w == WakeUp(c)
  <2>1. /\ p \in Seq(Message) /\ w \in Seq(Message)
        /\ \A m : Has(p, m) <=> m = s
        /\ \A m : Has(w, m) <=> m = "RUN" /\ c \notin runnable
        /\ Once(p, "CLOSED") /\ Once(w, "CLOSED")
    <3>1. \A m : Has(w, m) <=> m = "RUN" /\ c \notin runnable
      BY <1>3, PostedHas
    <3>2. Once(w, "CLOSED")
      BY <3>1 DEF Once, Has
    <3> QED
      BY <1>2, <1>6, <3>1, <3>2, PostedMessages, PostedHas
  <2>2. msgs' = msgs \o p \o w
    BY DEF SocketRead
  <2>3. add = p \o w
    OBVIOUS
  <2> HIDE DEF p, w, add
  <2>4. msgs' = msgs \o add
    <3>1. msgs \in Seq(Message) /\ p \in Seq(Message) /\ w \in Seq(Message)
      BY <1>5, <2>1
    <3>2. (msgs \o p) \o w = msgs \o (p \o w)
      BY <3>1, Associates, Zenon
    <3> QED
      BY <2>2, <2>3, <3>2
  <2> QED
    BY <2>1, <2>3, <2>4, Appended
<1> HIDE DEF add
<1>9. Live' = Live
  BY <1>7 DEF Live, Created
<1>10. Mail'
  <2>1. CASE s = "OPEN"
    BY <1>3, <1>5, <1>7, <1>8, <1>9, <2>1, MailGoesOn DEF PInv
  <2>2. CASE s = "CLOSED"
    <3>1. /\ signal_closed' = signal_closed \union {client}
          /\ Has(add, "CLOSED") /\ \A m : Has(add, m) => m \in {"RUN", "CLOSED"}
          /\ client \notin signal_closed /\ UNCHANGED <<logins, signalled, client>>
      BY <1>5, <1>7, <1>8, <2>2
    <3>2. Mail
      BY DEF PInv
    <3> QED
      BY <1>5, <1>8, <3>1, <3>2, MailCloses
  <2> QED
    BY <1>2, <2>1, <2>2
<1>11. Has(msgs', "RUN")
  <2>1. \A m : Has(msgs', m) <=> Has(msgs, m) \/ Has(add, m)
    BY <1>5, <1>8, Appended
  <2>2. c \in runnable => Has(msgs, "RUN")
    BY <1>3 DEF PInv, Run
  <2> QED
    BY <1>8, <2>1, <2>2
<1>12. Run' /\ Ended' /\ HandedOutAlive' /\ DanglingOnlyAfterEnd'
  BY <1>2, <1>3, <1>4, <1>5, <1>7, <1>9, <1>11
     DEF Run, Ended, HandedOutAlive, DanglingOnlyAfterEnd
<1>13. HandlersAlive'
  BY <1>7, <1>9 DEF PInv, HandlersAlive, LiveTasks
<1> QED
  BY <1>1, <1>10, <1>12, <1>13 DEF PInv

\* The client that is alive and its tasks are gone, and the pump knows.
LEMMA NobodyLeft ==
    ASSUME PInv, Live' = {}, state' = "CLOSED", UNCHANGED undefined,
           \A t \in handlers' : t \in handlers \ Under(Live)
    PROVE  Run' /\ Ended' /\ HandedOutAlive' /\ DanglingOnlyAfterEnd' /\ HandlersAlive'
<1>1. handlers' = {}
  BY DEF PInv, HandlersAlive, Under
<1> QED
  BY <1>1 DEF PInv, Run, Ended, HandedOutAlive, DanglingOnlyAfterEnd, HandlersAlive

\* The application ends the session.
LEMMA DoDisconnectSafe ==
    ASSUME PInv, DoDisconnect
    PROVE  PInv'
<1> DEFINE c == client
<1>1. IInv'
  BY DoDisconnectKeeps DEF PInv
<1>2. /\ phase \in [Client -> Phase] /\ msgs \in Seq(Message)
      /\ \A d \in Live : /\ d = c /\ d \in Client /\ d \in connected
                         /\ engine[d] = "CLOSED" <=> d \in signal_closed
  BY Facts DEF TypeOK, ClientTypeOK
<1>3. c \in Live /\ c \in Client /\ c # 0 /\ Live = {c}
  BY <1>2, Facts DEF DoDisconnect
<1>4. /\ msgs # <<>> /\ Head(msgs) = "DISCONNECT"
      /\ phase' = [phase EXCEPT ![c] = "DONE"]
      /\ handlers' = handlers \ Under({c})
      /\ UNCHANGED <<logins, signalled, client, undefined>>
  BY DEF DoDisconnect, DisconnectClient, Received, Aborted, StopTasks, Unregistered
<1> DEFINE rest == Tail(msgs)
           last == IF engine[c] # "CLOSED" THEN Posts(c, "CLOSED") ELSE <<>>
           add  == <<"RUN">> \o last
<1>5. Live' = {}
  BY <1>2, <1>3, <1>4 DEF Live, Created
<1>6. Left(rest) /\ rest \in Seq(Message)
  BY <1>2, <1>4, Beheaded DEF Left
<1>7. /\ last \in Seq(Message) /\ Once(last, "CLOSED")
      /\ \A m : Has(last, m) <=> m = "CLOSED" /\ engine[c] # "CLOSED"
  <2>1. CASE engine[c] # "CLOSED"
    <3>1. Told(c, "CLOSED")
      BY <1>2, <1>3, <2>1 DEF Told
    <3> QED
      BY <2>1, <3>1, PostedMessages, PostedHas
  <2>2. CASE engine[c] = "CLOSED"
    <3>1. last = <<>> /\ "RUN" \in Message
      BY <2>2 DEF Message
    <3> HIDE DEF last
    <3>2. \A m : ~Has(last, m) /\ Once(last, m)
      BY <3>1, Alone
    <3> QED
      BY <2>2, <3>1, <3>2, EmptySeq
  <2> QED
    BY <2>1, <2>2
<1>8. /\ add \in Seq(Message) /\ msgs' = rest \o add /\ Once(add, "CLOSED")
      /\ \A m : Has(add, m) <=> m = "RUN" \/ (m = "CLOSED" /\ engine[c] # "CLOSED")
  <2> DEFINE run == <<"RUN">>
  <2>1. /\ run \in Seq(Message) /\ Once(run, "CLOSED")
        /\ \A m : Has(run, m) <=> m = "RUN"
    <3>1. "RUN" \in Message
      BY DEF Message
    <3> QED
      BY <3>1, Alone
  <2>2. msgs' = rest \o run \o last
    BY DEF DoDisconnect, DisconnectClient
  <2>3. add = run \o last
    OBVIOUS
  <2> HIDE DEF run, last, rest, add
  <2>4. msgs' = rest \o add
    <3>1. (rest \o run) \o last = rest \o (run \o last)
      <4>1. rest \in Seq(Message) /\ run \in Seq(Message) /\ last \in Seq(Message)
        BY <1>6, <1>7, <2>1
      <4> QED
        BY <4>1, Associates, Zenon
    <3> QED
      BY <2>2, <2>3, <3>1
  <2> QED
    BY <1>7, <2>1, <2>3, <2>4, Appended
<1>9. Mail' /\ state' = "CLOSED"
  <2>1. CASE engine[c] # "CLOSED"
    <3>1. OnStateChange(c, "CLOSED") /\ c \notin signal_closed /\ c \in connected
      BY <1>2, <1>3, <2>1 DEF DoDisconnect, DisconnectClient
    <3>2. state' = "CLOSED" /\ signal_closed' = signal_closed \union {c}
      BY <3>1 DEF OnStateChange, NewState, Told
    <3> HIDE DEF add, rest
    <3> QED
      BY <1>2, <1>3, <1>4, <1>6, <1>8, <2>1, <3>1, <3>2, MailCloses DEF PInv, rest
  <2>2. CASE engine[c] = "CLOSED"
    <3>1. UNCHANGED <<state, signal_closed>> /\ c \in signal_closed
      BY <1>2, <1>3, <2>2 DEF DoDisconnect, DisconnectClient
    <3>2. state' = "CLOSED"
      BY <3>1 DEF PInv, Ended
    <3> HIDE DEF add, rest
    <3>3. Mail'
      BY <1>2, <1>4, <1>5, <1>6, <1>8, <2>2, <3>1, MailGoesOn DEF PInv
    <3> QED
      BY <3>2, <3>3
  <2> QED
    BY <2>1, <2>2
<1> QED
  BY <1>1, <1>3, <1>4, <1>5, <1>9, NobodyLeft DEF PInv

\* The tasks that a run of the tasks leaves registered are alive.
LEMMA StepTasksSafe ==
    ASSUME PInv, NEW gone \in SUBSET Task, StepTasks(gone)
    PROVE  \A t \in handlers' : t \in handlers \ gone /\ t \in LiveTasks' /\ parent'[t] = parent[t]
<1>1. /\ task \in [Task -> {"none", "live", "DONE", "deleted"}] /\ handlers \subseteq Task
      /\ \A t \in handlers : t \in LiveTasks
  BY Facts DEF TypeOK, TaskTypeOK, PInv, HandlersAlive
<1> QED
  BY <1>1 DEF StepTasks, Unregistered, LiveTasks

\* The client that is alive is stepped.
LEMMA StepClientSafe ==
    ASSUME PInv, Received("RUN"),
           NEW c \in runnable \cap Live, NEW o \in AuthOutcome, NEW ok \in BOOLEAN,
           NEW next, next = After(c, o, ok), StepClient(c, o, next),
           StepTasks(IF next = "DONE" THEN Under({c}) ELSE {}),
           runnable' = runnable \ {c},
           UNCHANGED <<engine, client, connected, undefined, app_vars>>
    PROVE  Mail' /\ Run' /\ Ended' /\ HandedOutAlive' /\ DanglingOnlyAfterEnd' /\ HandlersAlive'
<1> DEFINE rest == Tail(msgs)
           add  == IF Failing(c, next) THEN Posts(c, "CLOSED") ELSE <<>>
<1>1. /\ msgs # <<>> /\ Head(msgs) = "RUN" /\ msgs' = rest \o add
      /\ UNCHANGED <<logins, signalled, client, undefined, engine>>
  BY DEF Received, StepClient
<1>2. /\ msgs \in Seq(Message) /\ phase \in [Client -> Phase]
      /\ engine \in [Client -> EngineStates]
      /\ \A d \in Live : /\ d = c /\ d = client /\ d \in Client /\ d \in connected
                         /\ engine[d] = "CLOSED" <=> d \in signal_closed
                         /\ engine[d] = "CLOSED" => phase[d] = "RESPONSE"
      /\ 0 \notin Client
  BY Facts DEF TypeOK, ClientTypeOK
<1>3. Left(rest) /\ rest \in Seq(Message)
  BY <1>1, <1>2, Beheaded DEF Left
<1> HIDE DEF rest
<1>4. c = client /\ c \in Client /\ Live = {c} /\ LifeOf(c) /\ c # 0
  BY <1>2 DEF PInv, IInv, Life
<1>5. Mail
  BY DEF PInv
<1>6. \A t \in handlers' : /\ t \in handlers \ (IF next = "DONE" THEN Under({c}) ELSE {})
                            /\ t \in LiveTasks' /\ parent'[t] = parent[t]
  BY StepTasksSafe DEF Under, LiveTasks
<1>7. CASE next = "DONE"
  <2>1. Live' = {}
    BY <1>2, <1>4, <1>7 DEF StepClient, Live, Created
  <2>2. Mail' /\ state' = "CLOSED"
    <3>1. CASE Failing(c, next)
      <4>1. OnStateChange(c, "CLOSED") /\ engine[c] # "CLOSED" /\ Told(c, "CLOSED")
        BY <1>2, <1>4, <3>1 DEF StepClient, EnsureClosed, Failing, Told
      <4>2. state' = "CLOSED" /\ signal_closed' = signal_closed \union {client}
        BY <1>4, <4>1 DEF OnStateChange, NewState
      <4>3. /\ add \in Seq(Message) /\ Once(add, "CLOSED")
            /\ \A m : Has(add, m) <=> m = "CLOSED"
        BY <3>1, <4>1, PostedMessages, PostedHas
      <4> HIDE DEF add
      <4>4. /\ rest # msgs => Head(msgs) \notin {"LOGIN", "CLOSED"}
            /\ Has(add, "CLOSED") /\ \A m : Has(add, m) => m \in {"RUN", "CLOSED"}
            /\ client # 0 /\ client \notin signal_closed
        BY <1>1, <1>2, <1>4, <4>1, <4>3
      <4> QED
        BY <1>1, <1>2, <1>3, <1>5, <4>2, <4>3, <4>4, MailCloses
    <3>2. CASE ~Failing(c, next)
      <4>1. UNCHANGED <<state, signal_closed>>
        BY <3>2 DEF StepClient, EnsureClosed
      <4>2. phase[c] = "RESPONSE" /\ engine[c] = "CLOSED"
        BY <1>4, <1>7, <3>2 DEF Failing, After, LifeOf
      <4>3. state' = "CLOSED"
        BY <1>2, <1>4, <4>1, <4>2 DEF PInv, Ended
      <4>4. add \in Seq(Message) /\ \A m : ~Has(add, m)
        BY <1>3, <3>2, NothingPosted
      <4> HIDE DEF add
      <4>5. Mail'
        BY <1>1, <1>2, <1>3, <1>5, <2>1, <4>1, <4>4, MailGoesOn
      <4> QED
        BY <4>3, <4>5
    <3> QED
      BY <3>1, <3>2
  <2> QED
    BY <1>1, <1>4, <1>6, <1>7, <2>1, <2>2, NobodyLeft
<1>8. CASE next # "DONE"
  <2>1. ~Failing(c, next)
    BY <1>8 DEF Failing
  <2>2. UNCHANGED <<state, signal_closed>>
    BY <2>1 DEF StepClient, EnsureClosed
  <2>3. phase'[c] = next /\ next \in {"PRE_XMPP_LOGIN", "RESPONSE"}
    BY <1>2, <1>4, <1>8 DEF StepClient, Live, Created, After
  <2>4. Live' = Live
    BY <1>2, <1>4, <1>8, <2>3 DEF StepClient, Live, Created
  <2>5. engine[c] # "CLOSED"
    BY <1>2, <1>4, <1>8 DEF After
  <2>6. add \in Seq(Message) /\ \A m : ~Has(add, m)
    BY <1>3, <2>1, NothingPosted
  <2> HIDE DEF add
  <2>7. Mail'
    <3>1. ~Has(msgs, "LOGIN")
      BY <1>4, <2>5, Facts
    <3> QED
      BY <1>1, <1>2, <1>3, <1>5, <2>2, <2>4, <2>6, <3>1, MailGoesOn
  <2>8. Run'
    BY <1>1, <1>4, <2>4, <2>5 DEF Run
  <2>9. Ended' /\ HandedOutAlive' /\ DanglingOnlyAfterEnd'
    BY <1>1, <2>2, <2>4 DEF PInv, Ended, HandedOutAlive, DanglingOnlyAfterEnd
  <2>10. HandlersAlive'
    BY <1>6, <2>4 DEF PInv, HandlersAlive
  <2> QED
    BY <2>7, <2>8, <2>9, <2>10
<1> QED
  BY <1>7, <1>8

\* No client is runnable.
LEMMA StepNoClientSafe ==
    ASSUME PInv, Received("RUN"), runnable \cap Live = {}, StepNoClient, StepTasks({}),
           UNCHANGED <<runnable, engine, client, connected, undefined, app_vars>>
    PROVE  Mail' /\ Run' /\ Ended' /\ HandedOutAlive' /\ DanglingOnlyAfterEnd' /\ HandlersAlive'
<1> DEFINE rest == Tail(msgs)
           add  == <<>>
<1>1. /\ msgs # <<>> /\ Head(msgs) = "RUN" /\ msgs' = rest
      /\ UNCHANGED <<logins, signalled, client, undefined, engine, runnable, state,
                     signal_closed>>
  BY DEF Received, StepNoClient
<1>2. msgs \in Seq(Message) /\ phase \in [Client -> Phase] /\ \A d \in Live : d = client
  BY Facts DEF TypeOK, ClientTypeOK
<1>3. Left(rest) /\ rest \in Seq(Message)
  BY <1>1, <1>2, Beheaded DEF Left
<1> HIDE DEF rest, add
<1>4. add \in Seq(Message) /\ msgs' = rest \o add /\ \A m : ~Has(add, m)
  BY <1>1, <1>3, NothingPosted DEF add
<1>5. Live' = Live
  BY <1>2 DEF StepNoClient, Live, Created
<1>6. Live # {} => ~Has(msgs, "LOGIN")
  BY <1>2, Facts
<1>7. Mail'
  BY <1>1, <1>2, <1>3, <1>4, <1>5, <1>6, MailGoesOn DEF PInv
<1>8. Run' /\ Ended' /\ HandedOutAlive' /\ DanglingOnlyAfterEnd'
  BY <1>1, <1>5 DEF PInv, Run, Ended, HandedOutAlive, DanglingOnlyAfterEnd
<1>9. HandlersAlive'
  BY <1>5, StepTasksSafe DEF PInv, HandlersAlive
<1> QED
  BY <1>7, <1>8, <1>9

LEMMA RunTasksSafe ==
    ASSUME PInv, RunTasks
    PROVE  PInv'
<1>1. IInv'
  BY RunTasksKeeps DEF PInv
<1>2. Received("RUN") /\ UNCHANGED <<engine, client, connected, undefined, app_vars>>
  BY DEF RunTasks
<1>3. CASE \E c \in runnable \cap Live, o \in AuthOutcome, ok \in BOOLEAN :
              LET next == After(c, o, ok) IN
              /\ StepClient(c, o, next)
              /\ StepTasks(IF next = "DONE" THEN Under({c}) ELSE {})
              /\ runnable' = runnable \ {c}
  <2>1. PICK c \in runnable \cap Live, o \in AuthOutcome, ok \in BOOLEAN :
              /\ StepClient(c, o, After(c, o, ok))
              /\ StepTasks(IF After(c, o, ok) = "DONE" THEN Under({c}) ELSE {})
              /\ runnable' = runnable \ {c}
    BY <1>3
  <2> QED
    BY <1>1, <1>2, <2>1, StepClientSafe DEF PInv
<1>4. CASE runnable \cap Live = {} /\ StepNoClient /\ StepTasks({}) /\ UNCHANGED runnable
  BY <1>1, <1>2, <1>4, StepNoClientSafe DEF PInv
<1> QED
  BY <1>3, <1>4 DEF RunTasks

LEMMA InitSafe == Init => PInv
<1> SUFFICES ASSUME Init PROVE PInv
  OBVIOUS
<1>1. IInv
  BY InitKeeps
<1>2. Live = {}
  BY DEF Init, Live, Created
<1>3. \A m : ~Has(msgs, m) /\ Once(msgs, m)
  <2>1. msgs = <<>> /\ "RUN" \in Message
    BY DEF Init, Message
  <2> QED
    BY <2>1, Alone
<1>4. Mail
  <2>1. \A a, b : Behind(msgs, a, b)
    BY <1>3 DEF Behind, Has
  <2>2. Quiet /\ logins = 0 /\ signalled = 0 /\ client = 0
    BY DEF Init, Quiet
  <2> QED
    BY <1>3, <2>1, <2>2 DEF Mail
<1> QED
  BY <1>1, <1>2, <1>4
     DEF PInv, Run, Ended, HandedOutAlive, DanglingOnlyAfterEnd, HandlersAlive, Init

LEMMA StutterSafe ==
    ASSUME PInv, UNCHANGED vars
    PROVE  PInv'
<1>1. IInv'
  BY StutterKeeps DEF PInv
<1>2. Mail' /\ Run' /\ Ended'
  BY DEF PInv, Mail, Quiet, Run, Ended, Live, Created, vars
<1>3. HandedOutAlive' /\ DanglingOnlyAfterEnd' /\ HandlersAlive'
  BY DEF PInv, HandedOutAlive, DanglingOnlyAfterEnd, HandlersAlive, LiveTasks, Live, Created, vars
<1> QED
  BY <1>1, <1>2, <1>3 DEF PInv

\* Every step keeps what is used alive, and the messages in their order.
LEMMA StepSafe ==
    ASSUME PInv, [Next]_vars
    PROVE  PInv'
<1>1. CASE Dispatch
  BY <1>1, DoLoginSafe, DoDisconnectSafe, DoDisconnectDoneSafe,
     DoDisconnectDanglingSafe, DoOnXmppOpenSafe, DoOnXmppClosedSafe,
     RunTasksSafe DEF Dispatch
<1>2. CASE Application
  BY <1>2, LoginSafe, DisconnectSafe, StartTaskSafe, AbortTaskSafe
     DEF Application
<1>3. CASE Socket
  BY <1>3, SocketConnectedSafe, SocketReadSafe, SocketReadStanzaSafe,
     SocketClosesSafe, AuthDoneSafe DEF Socket
<1>4. CASE UNCHANGED vars
  BY <1>4, StutterSafe
<1> QED
  BY <1>1, <1>2, <1>3, <1>4 DEF Next

LEMMA AliveInductive == Spec => []PInv
<1>1. Init => PInv
  BY InitSafe
<1>2. PInv /\ [Next]_vars => PInv'
  BY StepSafe
<1> QED
  BY <1>1, <1>2, PTL DEF Spec

\* client_ of the pump, the engine's handlers_ and a client's socket_: what is
\* used has not been deleted, but for a DISCONNECT that comes after the end of
\* the session.
THEOREM PointersStayAlive == Spec => []PointersAlive
<1>1. PInv => PointersAlive
  BY DEF PInv, IInv, Life, LifeOf, Live, Created, SocketThere, PointersAlive
<1> QED
  BY <1>1, AliveInductive, PTL
=============================================================================
