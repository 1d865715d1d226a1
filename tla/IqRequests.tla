----------------------------- MODULE IqRequests -----------------------------
(***************************************************************************)
(* Requests over iq stanzas: IqTask (talk/xmpp/iqtask.cc) with the tasks   *)
(* that are built on it, the lookup, discovery, configuration and naming   *)
(* of rooms and the query of disco items.                                  *)
(*                                                                         *)
(* A request is a task of the client's runner; Step is one step of it, and *)
(* the runner steps every task that is not blocked.  The deadline of a     *)
(* request may pass at any time, and nothing but PollTasks, which no pump  *)
(* of the repository calls, looks for that.  The server is external: it    *)
(* answers with or without what the task looks for, or never.              *)
(***************************************************************************)
EXTENDS Naturals, Sequences, FiniteSets

CONSTANTS
    Request,        \* tasks
    MaxInputs       \* bound: answers, disconnections and polls

VARIABLES
    kind,           \* which task it is, none before it is made
    state,          \* state_: INIT, START, RESPONSE, DONE, ERROR
    blocked, error, \* of Task
    timer,          \* timeout_time_: off, running or due
    stanza_queue,   \* answers that were queued
    signals,        \* what was signalled to the caller
    connected,      \* the client still takes stanzas
    asked,          \* requests that reached the server
    to_client,      \* answers on their way
    inputs          \* what is left of the bound

task_vars == <<kind, state, blocked, error, timer, stanza_queue, signals>>
vars == <<task_vars, connected, asked, to_client, inputs>>

Kind == {"discovery", "lookup", "config", "hangout_id", "disco_items"}

\* An answer, as the tasks tell answers apart: whether it is an error, has
\* the query element, and has in it what the task needs (a valid room, an id,
\* an identity).
Answer == [type : {"result"}, query : {FALSE}, item : {FALSE}]
          \cup [type : {"result"}, query : {TRUE}, item : BOOLEAN]
          \cup [type : {"error", "set"}, query : {FALSE}, item : {FALSE}]

\* HandleResult of each task.
DiscoveryResult(a) == IF a.query THEN "result" ELSE "error"
LookupResult(a) == IF a.query /\ a.item THEN "result" ELSE "error"
ConfigResult(a) == "result"
HangoutIdResult(a) == IF a.query /\ a.item THEN "result" ELSE "error"
DiscoItemsResult(a) == IF a.query THEN "result" ELSE "error"
HandleResult(k, a) ==
    CASE k = "discovery" -> DiscoveryResult(a) [] k = "lookup" -> LookupResult(a)
      [] k = "config" -> ConfigResult(a) [] k = "hangout_id" -> HangoutIdResult(a)
      [] k = "disco_items" -> DiscoItemsResult(a)

Init ==
    /\ kind = [r \in Request |-> "none"]
    /\ state = [r \in Request |-> "INIT"] /\ blocked = [r \in Request |-> FALSE]
    /\ error = [r \in Request |-> FALSE] /\ timer = [r \in Request |-> "off"]
    /\ stanza_queue = [r \in Request |-> <<>>]
    /\ signals = [r \in Request |-> <<>>]
    /\ connected = TRUE /\ asked = {} /\ to_client = <<>>
    /\ inputs = MaxInputs

Input == inputs > 0 /\ inputs' = inputs - 1
Ended(r) == state[r] \in {"DONE", "ERROR"}

-----------------------------------------------------------------------------

Enter(r, new_state) ==
    /\ state' = [state EXCEPT ![r] = new_state]
    /\ blocked' = [blocked EXCEPT ![r] = new_state \in {"DONE", "ERROR"}]
    /\ timer' = [timer EXCEPT ![r] = IF new_state \in {"START", "RESPONSE"}
                                     THEN "running" ELSE "off"]
Block(r) == blocked' = [blocked EXCEPT ![r] = TRUE] /\ UNCHANGED <<state, timer>>

\* A task that has timed out ends without telling.
SilentTimeout(r) == UNCHANGED signals
OnTimeout(r) == signals' = [signals EXCEPT ![r] = Append(@, "error")]

\* The constructor of a task and Start, which only wakes the runner.
Make(r, k) ==
    /\ kind[r] = "none" /\ connected
    /\ kind' = [kind EXCEPT ![r] = k]
    /\ UNCHANGED <<state, blocked, error, timer, stanza_queue, signals, connected,
                   asked, to_client, inputs>>

ProcessStart(r) ==
    /\ IF connected THEN asked' = asked \cup {r} /\ Enter(r, "RESPONSE")
       ELSE asked' = asked /\ Enter(r, "ERROR")
    /\ UNCHANGED <<stanza_queue, signals>>

ProcessResponse(r) ==
    /\ IF stanza_queue[r] = <<>> THEN Block(r) /\ UNCHANGED <<stanza_queue, signals>>
       ELSE LET a == Head(stanza_queue[r])
                told == IF a.type = "result" THEN HandleResult(kind[r], a) ELSE "error"
            IN  /\ stanza_queue' = [stanza_queue EXCEPT ![r] = Tail(@)]
                /\ signals' = [signals EXCEPT ![r] = Append(@, told)]
                /\ Enter(r, "DONE")
    /\ UNCHANGED asked

\* Task::Step and Task::Process: an error first, then a timeout, even one that
\* an answer has met in the queue, then the state.
Step(r) ==
    /\ kind[r] # "none" /\ ~blocked[r] /\ ~Ended(r)
    /\ \/ /\ error[r] /\ Enter(r, "ERROR")
          /\ UNCHANGED <<stanza_queue, signals, asked>>
       \/ /\ ~error[r] /\ timer[r] = "due"
          /\ OnTimeout(r) /\ Enter(r, "ERROR")
          /\ UNCHANGED <<stanza_queue, asked>>
       \/ /\ ~error[r] /\ timer[r] # "due"
          /\ CASE state[r] = "INIT" ->
                    Enter(r, "START") /\ UNCHANGED <<stanza_queue, signals, asked>>
               [] state[r] = "START" -> ProcessStart(r)
               [] state[r] = "RESPONSE" -> ProcessResponse(r)
    /\ UNCHANGED <<kind, error, connected, to_client, inputs>>

\* HandleStanza and QueueStanza: the handler of a task that has ended is gone,
\* and a stanza that is neither result nor error is not taken.
Deliver ==
    /\ to_client # <<>>
    /\ to_client' = Tail(to_client)
    /\ LET r == Head(to_client).to
           a == Head(to_client).answer
       IN  IF Ended(r) \/ a.type = "set" \/ ~connected
           THEN UNCHANGED <<stanza_queue, blocked>>
           ELSE /\ stanza_queue' = [stanza_queue EXCEPT ![r] = Append(@, a)]
                /\ blocked' = [blocked EXCEPT ![r] = FALSE]
    /\ UNCHANGED <<kind, state, error, timer, signals, connected, asked, inputs>>

\* OnDisconnect, of every task that has not stopped.
Disconnect ==
    /\ Input /\ connected
    /\ connected' = FALSE
    /\ error' = [r \in Request |-> error[r] \/ (kind[r] # "none" /\ ~Ended(r))]
    /\ blocked' = [r \in Request |-> blocked[r] /\ Ended(r)]
    /\ UNCHANGED <<kind, state, timer, stanza_queue, signals, asked, to_client>>

TimePasses(r) ==
    /\ timer[r] = "running"
    /\ timer' = [timer EXCEPT ![r] = "due"]
    /\ UNCHANGED <<kind, state, blocked, error, stanza_queue, signals, connected,
                   asked, to_client, inputs>>

\* TaskRunner::PollTasks, in a program that calls it.
PollTasks ==
    /\ Input
    /\ blocked' = [r \in Request |-> blocked[r] /\ timer[r] # "due"]
    /\ UNCHANGED <<kind, state, error, timer, stanza_queue, signals, connected,
                   asked, to_client>>

ServerAnswers ==
    /\ Input
    /\ \E r \in asked, a \in Answer :
           to_client' = Append(to_client, [to |-> r, answer |-> a])
    /\ UNCHANGED <<task_vars, connected, asked>>

Next ==
    \/ \E r \in Request, k \in Kind : Make(r, k)
    \/ \E r \in Request : Step(r) \/ TimePasses(r)
    \/ Deliver \/ Disconnect \/ PollTasks \/ ServerAnswers

\* The runner steps what is not blocked, and stanzas arrive.
Fairness == WF_vars(Deliver) /\ \A r \in Request : WF_vars(Step(r))

Spec == Init /\ [][Next]_vars /\ Fairness

-----------------------------------------------------------------------------

TypeOK ==
    /\ kind \in [Request -> Kind \cup {"none"}]
    /\ state \in [Request -> {"INIT", "START", "RESPONSE", "DONE", "ERROR"}]
    /\ blocked \in [Request -> BOOLEAN] /\ error \in [Request -> BOOLEAN]
    /\ timer \in [Request -> {"off", "running", "due"}]
    /\ signals \in [Request -> UNION {[1 .. n -> {"result", "error"}] : n \in 0 .. 2}]

\* A request that ends while the client is connected has told its caller so,
\* exactly once, whatever raced with what: a late answer with its deadline, a
\* second answer, an answer that lacks what was asked for.
ToldOnce ==
    \A r \in Request :
        /\ Len(signals[r]) <= 1
        /\ Ended(r) /\ ~error[r] /\ r \in asked => Len(signals[r]) = 1
RequestsTellOnce == TypeOK /\ ToldOnce

\* An answer that has been queued ends its request.
AnswerEnds == \A r \in Request : stanza_queue[r] # <<>> ~> Ended(r)

\* Every request ends: the task has a timeout of 15 seconds.  It does not hold,
\* for want of a PollTasks.
EveryRequestEnds == \A r \in Request : state[r] # "INIT" ~> Ended(r)
=============================================================================
