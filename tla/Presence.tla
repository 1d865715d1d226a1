------------------------------ MODULE Presence ------------------------------
(***************************************************************************)
(* The presence tasks (talk/xmpp/presenceouttask.cc, presencereceivetask.cc *)
(* and presencestatus.cc): the statuses one client sends, as another one    *)
(* learns them.                                                            *)
(*                                                                         *)
(* Each task is stepped by the runner of its client while it is not        *)
(* blocked.  The server is external: it passes presences on in order.      *)
(***************************************************************************)
EXTENDS Naturals, Sequences

CONSTANTS
    Sample,         \* statuses a program sends
    MaxInputs       \* bound: how many

Show == {"NONE", "OFFLINE", "XA", "AWAY", "DND", "ONLINE", "CHAT"}
\* A status: texts of up to 300 bytes and longer ones, the capabilities by
\* their node.
Status == [available : BOOLEAN, show : Show, status : {"short", "long"},
           caps : {"", "node"}]

VARIABLES
    out_state,      \* of the sending task: INIT, START or ERROR
    out_blocked,
    out_queue,      \* its stanzas
    connected,      \* the client takes stanzas
    to_receiver,    \* presences on their way
    in_queue, in_blocked,   \* stanzas of the receiving task
    sent,           \* statuses that Send accepted
    learned,        \* statuses the receiver told of
    known,          \* the status a program keeps by UpdateWith
    inputs          \* what is left of the bound

out_vars == <<out_state, out_blocked, out_queue, connected, sent>>
in_vars == <<in_queue, in_blocked, learned, known>>
vars == <<out_vars, to_receiver, in_vars, inputs>>

NoStatus == [available |-> FALSE, show |-> "NONE", status |-> "", caps |-> ""]

Init ==
    /\ out_state = "INIT" /\ out_blocked = FALSE /\ out_queue = <<>>
    /\ connected = TRUE /\ to_receiver = <<>>
    /\ in_queue = <<>> /\ in_blocked = FALSE
    /\ sent = <<>> /\ learned = <<>> /\ known = NoStatus
    /\ inputs = MaxInputs

-----------------------------------------------------------------------------

\* The show element: none when online or offline, away when it is not set.
ShowElement(show) ==
    IF show \in {"ONLINE", "OFFLINE"} THEN "none"
    ELSE IF show = "NONE" THEN "AWAY" ELSE show

\* A show element is left out when the show is away as well.
NoAway(s) ==
    IF ~s.available THEN [type |-> "unavailable"]
    ELSE [type |-> "", show |-> IF s.show = "AWAY" THEN "none" ELSE ShowElement(s.show),
          status |-> s.status, caps |-> s.caps]
TranslateStatus(s) ==
    IF ~s.available THEN [type |-> "unavailable"]
    ELSE [type |-> "", show |-> ShowElement(s.show), status |-> s.status,
          caps |-> s.caps]

\* DecodeStatus: what an unavailable presence says besides is not read, and
\* a long status is cut.
DecodeStatus(p) ==
    IF p.type = "unavailable" THEN NoStatus
    ELSE [available |-> TRUE, show |-> IF p.show = "none" THEN "ONLINE" ELSE p.show,
          status |-> IF p.status = "long" THEN "cut" ELSE p.status, caps |-> p.caps]

\* UpdateWith: capabilities are kept when the new value has none.
UpdateWith(old, new) == IF new.caps = "" THEN [new EXCEPT !.caps = old.caps] ELSE new

\* Send, SendDirected and SendProbe: not once the task has ended.
Send ==
    /\ inputs > 0 /\ inputs' = inputs - 1
    /\ out_state \in {"INIT", "START"}
    /\ \E s \in Sample :
           /\ out_queue' = Append(out_queue, TranslateStatus(s))
           /\ sent' = Append(sent, s)
    /\ out_blocked' = FALSE
    /\ UNCHANGED <<out_state, connected, to_receiver, in_vars>>

\* ProcessStart of PresenceOutTask, one stanza at a time.
OutStep ==
    /\ ~out_blocked /\ out_state # "ERROR"
    /\ \/ /\ out_state = "INIT" /\ out_state' = "START"
          /\ UNCHANGED <<out_blocked, out_queue, to_receiver>>
       \/ /\ out_state = "START" /\ out_queue = <<>>
          /\ out_blocked' = TRUE
          /\ UNCHANGED <<out_state, out_queue, to_receiver>>
       \/ /\ out_state = "START" /\ out_queue # <<>>
          /\ out_queue' = Tail(out_queue)
          /\ IF connected
             THEN to_receiver' = Append(to_receiver, Head(out_queue)) /\ out_state' = out_state
             ELSE out_state' = "ERROR" /\ UNCHANGED to_receiver
          /\ UNCHANGED out_blocked
    /\ UNCHANGED <<connected, sent, in_vars, inputs>>

CloseConnection ==
    /\ connected /\ connected' = FALSE
    /\ UNCHANGED <<out_state, out_blocked, out_queue, sent, to_receiver, in_vars, inputs>>

\* A stanza is queued and a task that is blocked stays so.
QueueAsleep ==
    /\ to_receiver # <<>>
    /\ to_receiver' = Tail(to_receiver)
    /\ in_queue' = Append(in_queue, Head(to_receiver))
    /\ UNCHANGED <<out_vars, in_blocked, learned, known, inputs>>

\* HandleStanza of PresenceReceiveTask: queued, and the task is woken.
HandleStanza ==
    /\ to_receiver # <<>>
    /\ to_receiver' = Tail(to_receiver)
    /\ in_queue' = Append(in_queue, Head(to_receiver))
    /\ in_blocked' = FALSE
    /\ UNCHANGED <<out_vars, learned, known, inputs>>

\* ProcessStart of PresenceReceiveTask, with HandlePresence.
InStep ==
    /\ ~in_blocked
    /\ IF in_queue = <<>> THEN in_blocked' = TRUE /\ UNCHANGED <<in_queue, learned, known>>
       ELSE LET s == DecodeStatus(Head(in_queue))
            IN  /\ in_queue' = Tail(in_queue)
                /\ learned' = Append(learned, s)
                /\ known' = UpdateWith(known, s)
                /\ UNCHANGED in_blocked
    /\ UNCHANGED <<out_vars, to_receiver, inputs>>

Next == Send \/ OutStep \/ CloseConnection \/ HandleStanza \/ InStep

Fairness == WF_vars(OutStep) /\ WF_vars(HandleStanza) /\ WF_vars(InStep)

Spec == Init /\ [][Next]_vars /\ Fairness

-----------------------------------------------------------------------------

TypeOK ==
    /\ out_state \in {"INIT", "START", "ERROR"} /\ out_blocked \in BOOLEAN
    /\ in_blocked \in BOOLEAN
    /\ \A i \in DOMAIN sent : sent[i] \in Sample
    /\ Len(learned) <= Len(sent)

\* What a status comes to at the other end: the availability as it was, and of
\* an available one all but the tail of a long text; a show that was never
\* set comes to away.
Meant(s) ==
    IF ~s.available THEN NoStatus
    ELSE [s EXCEPT !.show = CASE s.show = "NONE" -> "AWAY" [] s.show = "OFFLINE" -> "ONLINE"
                              [] OTHER -> s.show,
                   !.status = IF s.status = "long" THEN "cut" ELSE s.status]

\* The receiver learns what was sent, in the order it was sent and nothing
\* twice; a stanza that cannot be sent ends the task, so that none is skipped.
\* What is kept by UpdateWith has the capabilities that were sent last.
LearnedInOrder ==
    /\ \A i \in DOMAIN learned : learned[i] = Meant(sent[i])
    /\ known.caps = "" <=> \A i \in DOMAIN learned : learned[i].caps = ""

\* While the client is connected, everything that was accepted is learned.
EventuallyLearned ==
    \A n \in 1 .. MaxInputs :
        Len(sent) >= n ~> Len(learned) >= n \/ ~connected
=============================================================================
