------------------------------- MODULE XmppSocket -------------------------------
(***************************************************************************)
(* XmppSocket over a socket of PhysicalSocketServer                        *)
(* (talk/xmpp/xmppsocket.cc as it is built, without FEATURE_ENABLE_SSL and *)
(* USE_SSLSTREAM, and the connection part of                               *)
(* talk/base/physicalsocketserver.cc): Connect to an address or to a name  *)
(* that a resolver thread looks up, Read, Write through buffer_, Close and *)
(* the destructor.                                                         *)
(*                                                                         *)
(* A pump makes a socket for each login, so one is connected once, and not *)
(* written before Connect, when there would be no cricket_socket_.  Bytes  *)
(* written are the numbers of their order, bytes received are there or     *)
(* not.  The handlers of its signals may write and close.                  *)
(***************************************************************************)
EXTENDS Naturals, Sequences, FiniteSetsExt, SequencesExt

CONSTANTS
    MaxBytes,       \* bound: bytes that are written
    MaxWrite,       \* bound: bytes of one Write
    Room            \* send buffer of the kernel

VARIABLES
    state,          \* state_
    buffer,         \* buffer_
    sock,           \* [open: s_ is valid, state: state_, enabled: enabled_events_]
    resolver,       \* "none", "busy" or "done"
    net,            \* of Net; the error of one that was refused or reset is
                    \* pending until a call of the kernel returns it
    queued, data,   \* bytes in the kernel's send buffer; something to receive
    at_once,        \* connect() succeeded immediately
    wire,           \* bytes that the kernel took
    written,        \* number of the last byte written
    events,         \* what OnEvent has yet to deliver
    asked,          \* Connect returned true
    told,           \* signals emitted: "Connected", "Closed", "CloseEvent"
    gone            \* the socket is deleted

vars == <<state, buffer, sock, resolver, net, queued, data, at_once, wire, written,
          events, asked, told, gone>>

Net == {"none", "pending", "refused", "up", "eof", "reset", "broken"}

Init ==
    /\ state = "CLOSED" /\ buffer = <<>> /\ resolver = "none" /\ net = "none"
    /\ sock = [open |-> FALSE, state |-> "CS_CLOSED", enabled |-> {}]
    /\ queued = 0 /\ data = FALSE /\ at_once = FALSE /\ wire = <<>> /\ written = 0
    /\ events = {} /\ asked = FALSE /\ told = {} /\ gone = FALSE

-----------------------------------------------------------------------------
(* What the calls do to r, the record of the variables they change.        *)

Now == [state |-> state, buffer |-> buffer, sock |-> sock, net |-> net, queued |-> queued,
        data |-> data, resolver |-> resolver, wire |-> wire, written |-> written,
        told |-> told]

Become(r) ==
    /\ state' = r.state /\ buffer' = r.buffer /\ sock' = r.sock /\ net' = r.net
    /\ queued' = r.queued /\ data' = r.data /\ resolver' = r.resolver
    /\ wire' = r.wire /\ written' = r.written /\ told' = r.told

Tell(r, s) == [r EXCEPT !.told = @ \cup {s}]

\* A pending error is returned once, by send, recv or getsockopt; after it recv
\* finds the end.
Reaped(r) ==
    [r EXCEPT !.net = IF @ \in {"refused", "reset"} THEN "broken" ELSE @]

\* PhysicalSocket::Recv until it blocks or fails, as the reader of SignalRead
\* calls it through Read: what was received, and an end, turn READ on again.
Read(r) ==
    IF ~r.sock.open THEN r
    ELSE LET again == r.data \/ r.net \in {"up", "eof", "broken"}
         IN  Reaped([r EXCEPT !.data = FALSE,
                              !.sock.enabled = IF again THEN @ \cup {"READ"} ELSE @])

Taken(r, n) == SubSeq(r.buffer, 1, n)
\* Seeded fault: what is sent in part is given up.
ConsumeAll(r, n) == IF n = 0 THEN r.buffer ELSE <<>>
\* ByteBuffer::Consume
Consume(r, n) == SubSeq(r.buffer, n + 1, Len(r.buffer))

\* PhysicalSocket::Send that would block asks to be told.
Block(r) == [r EXCEPT !.sock.enabled = @ \cup {"WRITE"}]

\* XmppSocket::OnWriteEvent: sends until the buffer is empty, or a send blocks
\* or fails; then the rest is kept.
OnWriteEvent(r) ==
    LET n == Min({Len(r.buffer), Room - r.queued})
        sent == [r EXCEPT !.buffer = Consume(r, n), !.wire = @ \o Taken(r, n),
                          !.queued = @ + n]
    IN  IF r.buffer = <<>> \/ ~r.sock.open THEN r
        ELSE IF r.net = "pending" THEN Block(r)
        ELSE IF r.net \notin {"up", "eof"} THEN Reaped(r)
        ELSE IF sent.buffer = <<>> THEN sent
        ELSE Block(sent)

Write(r, n) ==
    OnWriteEvent([r EXCEPT !.buffer = @ \o [k \in 1 .. n |-> r.written + k],
                           !.written = @ + n])

\* SocketDispatcher::Close, that tells nobody by itself.
CloseSocket(r) ==
    IF ~r.sock.open THEN r
    ELSE [r EXCEPT !.sock = [open |-> FALSE, state |-> "CS_CLOSED", enabled |-> {}],
                   !.resolver = "none"]

\* XmppSocket::Close, of an open socket only.
Close(r) ==
    IF r.state # "OPEN" THEN r
    ELSE Tell([CloseSocket(r) EXCEPT !.state = "CLOSED"], "Closed")

\* What an application does when it runs.
Use(r, op, n) ==
    CASE op = "nothing" -> r
      [] op = "write"   -> IF r.written + n > MaxBytes THEN r ELSE Write(r, n)
      [] op = "close"   -> Close(r)
Op == {"nothing", "write", "close"}

\* Call, between two events; it may close a socket that is still connecting, in
\* vain.
Call ==
    /\ asked /\ ~gone /\ events = {}
    /\ \E op \in Op, n \in 1 .. MaxWrite : Become(Use(Now, op, n))
    /\ UNCHANGED <<at_once, events, asked, gone>>

\* ~XmppSocket: Close, and then the socket below is deleted in any state.
Destroy ==
    /\ asked /\ ~gone /\ events = {}
    /\ Become(CloseSocket(Close(Now)))
    /\ gone' = TRUE
    /\ UNCHANGED <<at_once, events, asked>>

-----------------------------------------------------------------------------
(* Connecting.                                                             *)

\* PhysicalSocket::DoConnect with the outcome of connect().
DoConnect(r, outcome) ==
    CASE outcome = "failed" -> r
      [] outcome = "up" ->
            [r EXCEPT !.net = "up", !.sock.state = "CS_CONNECTED",
                      !.sock.enabled = @ \cup {"READ", "WRITE"}]
      [] outcome = "pending" ->
            [r EXCEPT !.net = "pending", !.sock.state = "CS_CONNECTING",
                      !.sock.enabled = @ \cup {"CONNECT", "READ", "WRITE"}]
Outcome == {"failed", "up", "pending"}

\* CreateCricketSocket
Created == [Now EXCEPT !.sock.open = TRUE]

\* Connect to an address: it fails unless the connection is made or on its way.
ConnectAddress ==
    /\ ~sock.open /\ ~asked /\ ~gone
    /\ \E outcome \in Outcome :
        /\ Become(DoConnect(Created, outcome))
        /\ asked' = (outcome # "failed") /\ at_once' = (outcome = "up")
    /\ UNCHANGED <<events, gone>>

\* Connect to a name.
ConnectName ==
    /\ ~sock.open /\ ~asked /\ ~gone
    /\ Become([Created EXCEPT !.sock.state = "CS_CONNECTING", !.resolver = "busy"])
    /\ asked' = TRUE
    /\ UNCHANGED <<at_once, events, gone>>

\* OnResolveResult: with no error it connects to the first address found.
OnResolveResult ==
    /\ resolver = "busy" /\ events = {}
    /\ LET r == [Now EXCEPT !.resolver = "done"] IN
       \/ /\ Become(Tell(CloseSocket(r), "CloseEvent"))
          /\ UNCHANGED at_once
       \/ \E outcome \in Outcome :
             /\ Become(IF outcome = "failed" THEN Tell(r, "CloseEvent")
                       ELSE DoConnect(r, outcome))
             /\ at_once' = (outcome = "up")
    /\ UNCHANGED <<events, asked, gone>>

-----------------------------------------------------------------------------
(* Events of the socket server.                                            *)

Connecting == "CONNECT" \in sock.enabled
Readable == data \/ net \in {"none", "eof", "reset", "broken", "refused"}
Writable ==
    \/ net \in {"none", "refused", "reset", "broken"}
    \/ net \in {"up", "eof"} /\ queued < Room

\* SocketDispatcher::IsDescriptorClosed: a peek finds the end.
IsDescriptorClosed == ~data /\ net \in {"eof", "broken"}

Asked(e) == e \in sock.enabled
\* PhysicalSocketServer::Wait: the events of a socket that select reports.
Events ==
    LET read == Asked("READ") /\ Readable
        write == (Asked("WRITE") \/ Connecting) /\ Writable
        failed == net \in {"refused", "reset"}
    IN  {e \in {"CONNECT", "READ", "WRITE", "CLOSE"} :
            \/ e = "CONNECT" /\ write /\ Connecting /\ ~failed
            \/ e = "WRITE"   /\ write /\ ~Connecting
            \/ e = "READ"    /\ read /\ ~failed /\ ~IsDescriptorClosed
            \/ e = "CLOSE"   /\ read /\ (failed \/ IsDescriptorClosed)
            \/ e = "CLOSE"   /\ write /\ Connecting /\ failed}

\* The handlers of XmppSocket and of the application behind it.
Handle(r, e, op, n) ==
    CASE e = "CONNECT" -> Use([Tell(r, "Connected") EXCEPT !.state = "OPEN"], op, n)
      [] e = "READ"    -> Use(Read(r), op, n)
      [] e = "WRITE"   -> OnWriteEvent(r)
      [] e = "CLOSE"   -> Use(Tell(r, "CloseEvent"), op, n)

\* Connects are delivered first.
Order == <<"CONNECT", "READ", "WRITE", "CLOSE">>

\* PhysicalSocketServer::Wait, which reaps the error, up to OnPreEvent.
OnPreEvent ==
    /\ events = {} /\ sock.open /\ Events # {}
    /\ events' = Events
    /\ sock' = [sock EXCEPT !.state = IF "CLOSE" \in Events THEN "CS_CLOSED"
                                     ELSE IF "CONNECT" \in Events THEN "CS_CONNECTED"
                                     ELSE @]
    /\ net' = Reaped(Now).net
    /\ UNCHANGED <<state, buffer, resolver, queued, data, at_once, wire, written,
                   asked, told, gone>>

\* SocketDispatcher::OnEvent: the next event is turned off before its handler
\* runs, which may turn it on again.  The other events follow, also when the
\* handler has closed the socket.
OnEvent ==
    /\ events # {}
    /\ LET e == Order[Min({k \in DOMAIN Order : Order[k] \in events})] IN
       /\ events' = events \ {e}
       /\ \E op \in Op, n \in 1 .. MaxWrite :
             Become(Handle([Now EXCEPT !.sock.enabled =
                                IF e = "CLOSE" THEN {} ELSE @ \ {e}], e, op, n))
    /\ UNCHANGED <<at_once, asked, gone>>

\* The network: a connection is made or refused, the peer sends, takes what was
\* sent, closes or breaks the connection.
Network ==
    /\ sock.open
    /\ \/ net = "pending" /\ net' \in {"up", "refused"} /\ UNCHANGED <<queued, data>>
       \/ net = "up" /\ ~data /\ data' = TRUE /\ UNCHANGED <<net, queued>>
       \/ net = "up" /\ net' \in {"eof", "reset"} /\ UNCHANGED <<queued, data>>
    /\ UNCHANGED <<state, buffer, sock, resolver, at_once, wire, written,
                   events, asked, told, gone>>

Drain ==
    /\ net \in {"up", "eof"} /\ queued > 0
    /\ queued' = queued - 1
    /\ UNCHANGED <<state, buffer, sock, resolver, net, data, at_once, wire, written,
                   events, asked, told, gone>>

Answered == net = "pending" /\ Network
Next ==
    \/ Call \/ Destroy \/ ConnectAddress \/ ConnectName \/ OnResolveResult
    \/ OnPreEvent \/ OnEvent \/ Network \/ Drain

\* The resolver ends and its message is taken, the loop serves its socket, the
\* network answers a connect, and a peer takes what was sent.
Fairness ==
    /\ WF_vars(OnResolveResult) /\ WF_vars(OnPreEvent) /\ WF_vars(OnEvent)
    /\ WF_vars(Answered) /\ WF_vars(Drain)

Spec == Init /\ [][Next]_vars /\ Fairness

-----------------------------------------------------------------------------

TypeOK ==
    /\ state \in {"CLOSED", "OPEN"} /\ resolver \in {"none", "busy", "done"}
    /\ sock.state \in {"CS_CLOSED", "CS_CONNECTING", "CS_CONNECTED"}
    /\ sock.enabled \subseteq {"CONNECT", "READ", "WRITE"}
    /\ net \in Net
    /\ events \subseteq {"CONNECT", "READ", "WRITE", "CLOSE"}
    /\ queued \in 0 .. Room /\ written \in 0 .. MaxBytes
    /\ told \subseteq {"Connected", "Closed", "CloseEvent"}

\* The kernel gets the bytes in the order of the Writes, each once, whatever a
\* send takes; what waits in buffer_ on a good connection will be sent, because
\* the socket asks for its turn (XmppSocket::OnWriteEvent, PhysicalSocket::Send).
BytesInOrder ==
    /\ wire \o buffer = [k \in 1 .. written |-> k]
    /\ buffer # <<>> /\ sock.open /\ sock.state # "CS_CLOSED" /\ net \in {"up", "eof"} =>
           "WRITE" \in sock.enabled \cup events
BytesSentInOrder == TypeOK /\ BytesInOrder

\* A Connect that returned true is answered: Connected or CloseEvent, also
\* when the name is not found or connect() fails after the lookup
\* (PhysicalSocket::OnResolveResult).  Not so if connect() succeeds at once:
\* DoConnect then asks for READ and WRITE only, and state_ stays closed.
ConnectAnswered == asked ~> told # {} \/ at_once \/ gone

\* What is written on a connection that stays up is sent in the end.
WrittenIsSent ==
    buffer # <<>> /\ state = "OPEN" ~>
        buffer = <<>> \/ state # "OPEN" \/ gone \/ told \cap {"Closed", "CloseEvent"} # {}
=============================================================================
