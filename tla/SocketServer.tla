----------------------------- MODULE SocketServer -----------------------------
(***************************************************************************)
(* PhysicalSocketServer and the sockets it serves                          *)
(* (talk/base/physicalsocketserver.cc, on POSIX): Wait selects on what its *)
(* dispatchers ask for and calls them; WakeUp ends it from any thread.     *)
(*                                                                         *)
(* Dispatcher 1 is the wake-up, the others are stream sockets, each used   *)
(* for one descriptor.  Handlers run within Wait and may receive, send,    *)
(* close any socket and open new ones, which get the lowest free           *)
(* descriptor.  Nothing is received from a socket that was told closed.    *)
(* Wait holds crit_ while it collects and while it calls.                  *)
(***************************************************************************)
EXTENDS Naturals, Sequences, FiniteSets, FiniteSetsExt, SequencesExt

CONSTANTS
    Op,             \* calls of the application: of AnyOp
    MaxSockets,     \* bound: sockets that are made
    MaxInputs       \* bound: of the network, other threads, and idle applications

Socket == 2 .. MaxSockets + 1
Event == {"CONNECT", "ACCEPT", "READ", "WRITE", "CLOSE"}
Net == {"none", "fresh", "connecting", "refused", "listening", "connected", "eof"}

VARIABLES
    dispatchers,    \* dispatchers_
    sock,           \* [Socket -> s_ (0 for none), enabled_events_, and the kernel's
                    \*  net, data to read or accept, full send buffer]
    signaled,       \* fSignaled_, and a byte in the pipe
    pc,             \* "out", or where Wait is
    process_io, forever,    \* its arguments
    fWait, failed,  \* fWait_, and whether Wait returned an error
    reads, writes,  \* fdsRead, fdsWrite
    i,              \* the index of its loop
    removed,        \* a socket was closed by a handler of this Wait
    unasked,        \* a socket got an event that it had not asked for
    inputs

set_vars == <<reads, writes>>
wait_vars == <<process_io, forever, fWait, failed, i, removed>>
vars == <<dispatchers, sock, signaled, pc, wait_vars, set_vars, unasked, inputs>>

Init ==
    /\ dispatchers = <<1>>
    /\ sock = [s \in Socket |-> [fd |-> 0, enabled |-> {}, net |-> "none",
                                 data |-> 0, full |-> FALSE]]
    /\ signaled = FALSE /\ pc = "out" /\ process_io = TRUE /\ forever = TRUE
    /\ fWait = FALSE /\ failed = FALSE /\ reads = {} /\ writes = {} /\ i = 1
    /\ removed = FALSE /\ unasked = FALSE /\ inputs = 0

Budget == inputs < MaxInputs /\ inputs' = inputs + 1

-----------------------------------------------------------------------------
(* Sockets: r is [dispatchers, sock, removed].                             *)

Descriptor(r, d) == IF d = 1 THEN 1 ELSE r.sock[d].fd
Open(r) == {s \in Socket : r.sock[s].fd # 0}

\* A new socket: created, added to the dispatchers, and connecting, listening,
\* or accepted.
Make(r, net, events) ==
    LET free == {s \in Socket : r.sock[s].net = "none"}
        s == Min(free)
        fd == Min((2 .. MaxSockets + 2) \ {r.sock[o].fd : o \in Open(r)})
    IN  IF free = {} THEN r
        ELSE [r EXCEPT !.sock[s].fd = fd, !.sock[s].net = net, !.sock[s].enabled = events,
                       !.dispatchers = Append(@, s)]

\* PhysicalSocket::Recv, and Accept of one that listens.
Receive(r, s) ==
    CASE r.sock[s].fd # 0 /\ r.sock[s].net = "listening" /\ r.sock[s].data > 0 ->
             Make([r EXCEPT !.sock[s].data = @ - 1,
                            !.sock[s].enabled = @ \cup {"ACCEPT"}],
                  "connected", {"READ", "WRITE"})
      [] r.sock[s].fd # 0 /\ r.sock[s].net \in {"connected", "eof"} ->
             [r EXCEPT !.sock[s].data = IF @ > 0 THEN @ - 1 ELSE 0,
                       !.sock[s].enabled = @ \cup {"READ"}]
      [] OTHER -> r

\* Send: what blocks is to be told when it can go on.
Send(r, s) ==
    IF r.sock[s].fd = 0 \/ r.sock[s].net \notin {"connecting", "connected", "eof"} THEN r
    ELSE IF r.sock[s].full \/ r.sock[s].net = "connecting"
    THEN [r EXCEPT !.sock[s].enabled = @ \cup {"WRITE"}]
    ELSE [r EXCEPT !.sock[s].full = TRUE]

\* Remove erases a dispatcher from the list; the descriptor is free.
Erase(list, d) == RemoveAt(list, CHOOSE j \in DOMAIN list : list[j] = d)
Closed(socket) == [socket EXCEPT !.fd = 0, !.enabled = {}]
Close(r, s) ==
    IF r.sock[s].fd = 0 THEN r
    ELSE [r EXCEPT !.dispatchers = Erase(@, s), !.removed = TRUE,
                   !.sock[s] = Closed(@)]

\* Close of each of the others: the wake-up stays, first in the list.
CloseOthers(r, s) ==
    IF Open(r) \subseteq {s} THEN r
    ELSE [dispatchers |-> IF s \in Open(r) THEN <<1, s>> ELSE <<1>>, removed |-> TRUE,
          sock |-> [o \in Socket |-> IF o = s \/ r.sock[o].fd = 0 THEN r.sock[o]
                                     ELSE Closed(r.sock[o])]]

\* What an application does with its sockets.
Call(r, s, op) ==
    CASE op = "nothing" -> r
      [] op = "receive" -> Receive(r, s)
      [] op = "send" -> Send(r, s)
      [] op = "close" -> Close(r, s)
      [] op = "close others" -> CloseOthers(r, s)
      [] op = "connect" -> Make(r, "connecting", {"CONNECT", "READ", "WRITE"})
      [] op = "listen" -> Make(r, "listening", {"ACCEPT"})

Sockets == [dispatchers |-> dispatchers, sock |-> sock, removed |-> removed]
Become(r) == dispatchers' = r.dispatchers /\ sock' = r.sock /\ removed' = r.removed

\* The application between two Waits.
Use ==
    /\ pc = "out" /\ ~failed /\ Budget
    /\ \E op \in Op, s \in Socket :
           /\ Call(Sockets, s, op) # Sockets
           /\ Become([Call(Sockets, s, op) EXCEPT !.removed = FALSE])
    /\ UNCHANGED <<signaled, pc, process_io, forever, fWait, failed, i, set_vars, unasked>>

-----------------------------------------------------------------------------
(* The network, and other threads.                                         *)

Network(s) ==
    /\ Budget
    /\ \E net \in {"connected", "refused", "eof"}, data \in 0 .. 1, full \in BOOLEAN :
           /\ sock[s].fd # 0
           /\ \/ sock[s].net = "connecting" /\ net \in {"connected", "refused"}
                 /\ data = 0 /\ ~full
              \/ sock[s].net = "connected" /\ data >= sock[s].data /\ (full => sock[s].full)
                 /\ net \in {"connected", "eof"}
              \/ sock[s].net = "listening" /\ net = "connected" /\ data = 1 /\ ~full
           /\ sock' = [sock EXCEPT ![s].net = IF @ = "listening" THEN @ ELSE net,
                                   ![s].data = data, ![s].full = full]
    /\ UNCHANGED <<dispatchers, signaled, pc, wait_vars, set_vars, unasked>>

\* EventDispatcher::Signal writes one byte.
WakeUp ==
    /\ Budget /\ ~signaled
    /\ signaled' = TRUE
    /\ UNCHANGED <<dispatchers, sock, pc, wait_vars, set_vars, unasked>>

-----------------------------------------------------------------------------
(* Wait.                                                                   *)

Asks(d) == IF d = 1 THEN {"READ"} ELSE sock[d].enabled
\* Or only the wake-up.
Served(io) == IF io THEN Range(dispatchers) ELSE {1}
Asking(io, events) ==
    {Descriptor(Sockets, d) : d \in {e \in Served(io) : Asks(e) \cap events # {}}}

\* What the dispatchers ask for is added to the sets, under crit_.
Collect(io, readable, writable) ==
    /\ reads' = readable \cup Asking(io, {"READ", "ACCEPT"})
    /\ writes' = writable \cup Asking(io, {"WRITE", "CONNECT"})
    /\ pc' = "select"

Begin ==
    /\ pc = "out" /\ ~failed
    /\ process_io' \in BOOLEAN /\ forever' \in (IF process_io' THEN BOOLEAN ELSE {TRUE})
    /\ Collect(process_io', {}, {})
    /\ fWait' = TRUE /\ removed' = FALSE
    /\ UNCHANGED <<dispatchers, sock, signaled, failed, i, unasked, inputs>>

Kernel(fd) == {s \in Socket : sock[s].fd = fd}
Readable(s) ==
    \/ sock[s].net \in {"fresh", "refused", "eof"}
    \/ sock[s].net \in {"connected", "listening"} /\ sock[s].data > 0
Writable(s) ==
    \/ sock[s].net \in {"fresh", "refused"}
    \/ sock[s].net \in {"connected", "eof"} /\ ~sock[s].full
ReadyToRead == {fd \in reads : IF fd = 1 THEN signaled ELSE \E s \in Kernel(fd) : Readable(s)}
ReadyToWrite == {fd \in writes : \E s \in Kernel(fd) : Writable(s)}
\* Descriptors up to the largest that is asked for must be open.
Largest == Max({1} \cup {Descriptor(Sockets, d) : d \in Served(process_io)})
Bad == {fd \in reads \cup writes : fd # 1 /\ fd <= Largest /\ Kernel(fd) = {}}

\* Wait returns; what is local to it is gone.
Return(error) ==
    /\ pc' = "out" /\ failed' = error
    /\ process_io' = TRUE /\ forever' = TRUE /\ reads' = {} /\ writes' = {} /\ i' = 1
    /\ removed' = FALSE
    /\ UNCHANGED <<dispatchers, sock, signaled, fWait, unasked, inputs>>

\* select returns with descriptors that are ready: the sets are what is.
Select ==
    /\ pc = "select" /\ Bad = {} /\ ReadyToRead \cup ReadyToWrite # {}
    /\ reads' = ReadyToRead /\ writes' = ReadyToWrite
    /\ pc' = "dispatch" /\ i' = 1
    /\ UNCHANGED <<dispatchers, sock, signaled, process_io, forever, fWait, failed,
                   removed, unasked, inputs>>

Error == pc = "select" /\ Bad # {} /\ Return(TRUE)

Timeout ==
    /\ pc = "select" /\ Bad = {} /\ ReadyToRead \cup ReadyToWrite = {} /\ ~forever
    /\ Return(FALSE)

\* EINTR: once more, with the sets as they are.
Interrupted ==
    /\ pc = "select" /\ Budget
    /\ Collect(process_io, reads, writes)
    /\ UNCHANGED <<dispatchers, sock, signaled, wait_vars, unasked>>

\* A peek finds the end, behind what there is to read.
IsDescriptorClosed(s) == sock[s].net = "eof" /\ sock[s].data = 0

\* An error that is reaped, and an end, mean that it is closed.
EventsOf(s, readable, writable) ==
    LET error == (readable \/ writable) /\ sock[s].net = "refused"
    IN  (IF ~readable THEN {}
         ELSE IF "ACCEPT" \in sock[s].enabled THEN {"ACCEPT"}
         ELSE IF error \/ IsDescriptorClosed(s) THEN {"CLOSE"} ELSE {"READ"})
        \cup
        (IF ~writable THEN {}
         ELSE IF "CONNECT" \notin sock[s].enabled THEN {"WRITE"}
         ELSE IF error THEN {"CLOSE"} ELSE {"CONNECT"})

\* SocketDispatcher::OnEvent: an event is turned off, then its handler runs.
\* It goes on with the other events when a handler has closed the socket.
Turn(r, s, e, events, handler) ==
    IF e \notin events THEN r
    ELSE Call([r EXCEPT !.sock[s].enabled = IF e = "CLOSE" THEN {} ELSE @ \ {e}],
              s, handler[e])
OnEvent(r, s, events, handler) ==
    LET On(x, e) == Turn(x, s, e, events, handler)
        begun == On(On(r, "CONNECT"), "ACCEPT")
    IN  On(On(On(begun, "READ"), "WRITE"), "CLOSE")

\* A dispatcher's bits are cleared when they are looked at.
ClearBits(fd) == reads' = reads \ {fd} /\ writes' = writes \ {fd}

\* Signaler: the byte is read, then fWait_ is reset.
DispatchWakeUp ==
    /\ pc = "dispatch" /\ i <= Len(dispatchers) /\ dispatchers[i] = 1
    /\ IF 1 \in reads THEN signaled' = FALSE /\ fWait' = FALSE
       ELSE UNCHANGED <<signaled, fWait>>
    /\ ClearBits(1)
    /\ i' = i + 1
    /\ UNCHANGED <<dispatchers, sock, pc, process_io, forever, failed, removed,
                   unasked, inputs>>

Dispatch ==
    /\ pc = "dispatch" /\ i <= Len(dispatchers) /\ dispatchers[i] # 1
    /\ LET s == dispatchers[i]
           fd == sock[s].fd
           events == EventsOf(s, fd \in reads, fd \in writes)
           reaped == [Sockets EXCEPT !.sock[s].net = IF @ = "refused" THEN "fresh" ELSE @]
       IN  /\ \E handler \in [events -> Op] :
                  /\ "CLOSE" \in events => handler["CLOSE"] # "receive"
                  /\ Become(OnEvent(IF events = {} THEN Sockets ELSE reaped, s, events, handler))
           /\ ClearBits(fd)
           /\ unasked' = (unasked \/ ~(events \subseteq sock[s].enabled \cup {"CLOSE"}))
    /\ i' = i + 1
    /\ UNCHANGED <<signaled, pc, process_io, forever, fWait, failed, inputs>>

\* The end of the loop: once more, or Wait returns.
EndLoop ==
    /\ pc = "dispatch" /\ i > Len(dispatchers)
    /\ IF fWait THEN /\ Collect(process_io, reads, writes)
                     /\ UNCHANGED <<dispatchers, sock, signaled, wait_vars, unasked, inputs>>
       ELSE Return(FALSE)

Next ==
    \/ Use \/ WakeUp \/ (\E s \in Socket : Network(s))
    \/ Begin \/ Select \/ Error \/ Timeout \/ Interrupted
    \/ DispatchWakeUp \/ Dispatch \/ EndLoop

\* A thread that is in Wait goes on, and one that is not waits again.
Fairness ==
    /\ WF_vars(Begin) /\ WF_vars(Select) /\ WF_vars(Error)
    /\ WF_vars(DispatchWakeUp) /\ WF_vars(Dispatch) /\ WF_vars(EndLoop)

Spec == Init /\ [][Next]_vars /\ Fairness

-----------------------------------------------------------------------------

TypeOK ==
    /\ Range(dispatchers) = {1} \cup {s \in Socket : sock[s].fd # 0}
    /\ \A s \in Socket : /\ sock[s].net \in Net /\ sock[s].enabled \subseteq Event
                         /\ sock[s].data \in 0 .. 1 /\ sock[s].fd \in 0 .. MaxSockets + 2
    /\ pc \in {"out", "select", "dispatch"}

\* What select waits for is what the dispatchers ask for, and every descriptor
\* in its sets is open, unless a handler of this Wait has closed a socket
\* (PhysicalSocketServer::Wait).
SelectsWhatIsAsked ==
    ~removed =>
        /\ pc = "select" =>
               /\ reads = Asking(process_io, {"READ", "ACCEPT"})
               /\ writes = Asking(process_io, {"WRITE", "CONNECT"})
               /\ Bad = {}

\* A wake-up is never lost: whenever it comes, the Wait that it finds ends, or
\* the next (EventDispatcher::Signal, Signaler::OnEvent).
WakeUpEndsWait == signaled ~> pc = "out"

\* What a socket asks for and can have it is told, unless Wait is not to
\* process it, or has failed (Wait, OnEvent, Recv).
EventsArrive ==
    \A s \in Socket :
        "READ" \in sock[s].enabled /\ Readable(s) ~>
            \/ ~("READ" \in sock[s].enabled /\ Readable(s))
            \/ ~process_io \/ failed

\* Each turn of the loop starts with sets that select has zeroed, as the
\* comment above FD_ZERO says.  It does not hold: what the loop has not looked
\* at stays, because a socket was removed before it or was it.
SetsStartEmpty == pc = "dispatch" /\ i > Len(dispatchers) => reads \cup writes = {}

\* Wait does not fail.  It does not hold: a descriptor that a handler has
\* closed can still be in a set.
NeverFails == ~failed

\* Sockets get only the events that they ask for.  It does not hold: a new
\* socket may get the descriptor of a closed one, and its bits.
NothingUnasked == ~unasked
=============================================================================
