----------------------------- MODULE PosixSignals -----------------------------
(***************************************************************************)
(* POSIX signals in the select loop (talk/base/physicalsocketserver.cc):   *)
(* the real handler sets a flag and writes a byte to a pipe, and the       *)
(* dispatcher of that pipe calls the user's handlers from Wait.            *)
(*                                                                         *)
(* A signal arrives at any time and on any thread: its handler's two steps *)
(* interleave with those of the dispatcher.                                *)
(***************************************************************************)
EXTENDS Naturals, FiniteSets

CONSTANTS
    Signal,         \* 1 .. n
    PipeSize,       \* bytes that the pipe holds
    ReadSize,       \* bytes that OnPreEvent reads at most
    MaxRaised       \* bound: signals that arrive

VARIABLES
    received,       \* received_signal_
    pipe,           \* bytes in afd_
    handlers,       \* handlers_; there is a signal_dispatcher_ while it has some
    raising,        \* signals whose real handler has set the flag only
    pc, signum,     \* where the dispatcher is: its loop over the signals
    owed,           \* signals that arrived and have not been handled since
    raised

vars == <<received, pipe, handlers, raising, pc, signum, owed, raised>>

Init ==
    /\ received = {} /\ pipe = 0 /\ handlers = {} /\ raising = {}
    /\ pc = "select" /\ signum = 0 /\ owed = {} /\ raised = 0

-----------------------------------------------------------------------------
(* The real handler, on any thread.                                        *)

\* OnPosixSignalReceived, up to the flag; a handler must be installed.
Raise(s) ==
    /\ s \in handlers /\ s \notin raising /\ raised < MaxRaised
    /\ raised' = raised + 1
    /\ received' = received \cup {s}
    /\ raising' = raising \cup {s} /\ owed' = owed \cup {s}
    /\ UNCHANGED <<pipe, handlers, pc, signum>>

\* The rest of it: a full pipe takes no byte.
Notify(s) ==
    /\ s \in raising
    /\ raising' = raising \ {s}
    /\ pipe' = IF pipe < PipeSize THEN pipe + 1 ELSE pipe
    /\ UNCHANGED <<received, handlers, pc, signum, owed, raised>>

-----------------------------------------------------------------------------
(* The dispatcher, from Wait.                                              *)

\* OnPreEvent: up to 16 bytes are read.
OnPreEvent ==
    /\ pc = "select" /\ handlers # {} /\ pipe > 0
    /\ pipe' = IF pipe > ReadSize THEN pipe - ReadSize ELSE 0
    /\ pc' = "scan" /\ signum' = 1
    /\ UNCHANGED <<received, handlers, raising, owed, raised>>

\* The flag of one signal is cleared, the others are kept.
ClearSignal(s) == received \ {s}

\* The next signal of OnEvent's loop: a flag that is set is cleared, then the
\* handler is called.
OnEvent ==
    /\ pc = "scan"
    /\ IF signum \in received
       THEN /\ received' = ClearSignal(signum) /\ pc' = "call" /\ UNCHANGED signum
       ELSE /\ signum' = signum + 1
            /\ pc' = IF signum + 1 \in Signal THEN "scan" ELSE "select"
            /\ UNCHANGED received
    /\ UNCHANGED <<pipe, handlers, raising, owed, raised>>

CallHandler ==
    /\ pc = "call"
    /\ owed' = owed \ {signum}
    /\ signum' = signum + 1
    /\ pc' = IF signum + 1 \in Signal THEN "scan" ELSE "select"
    /\ UNCHANGED <<received, pipe, handlers, raising, raised>>

\* SetPosixSignalHandler, between two events: a handler, or SIG_DFL.  The flag
\* and the bytes of a signal outlive its handler.
SetPosixSignalHandler(s) ==
    /\ pc = "select" /\ s \notin raising
    /\ \/ s \notin handlers /\ handlers' = handlers \cup {s} /\ UNCHANGED owed
       \/ s \in handlers /\ handlers' = handlers \ {s} /\ owed' = owed \ {s}
    /\ UNCHANGED <<received, pipe, raising, pc, signum, raised>>

Next ==
    \/ OnPreEvent \/ OnEvent \/ CallHandler
    \/ \E s \in Signal : Raise(s) \/ Notify(s) \/ SetPosixSignalHandler(s)

\* The real handler runs to its end, and so does the loop.
Fairness ==
    /\ WF_vars(OnPreEvent) /\ WF_vars(OnEvent) /\ WF_vars(CallHandler)
    /\ \A s \in Signal : WF_vars(Notify(s))

Spec == Init /\ [][Next]_vars /\ Fairness

-----------------------------------------------------------------------------

TypeOK ==
    /\ received \subseteq Signal /\ handlers \subseteq Signal /\ raising \subseteq Signal
    /\ pipe \in 0 .. PipeSize /\ pc \in {"select", "scan", "call"}
    /\ signum \in 0 .. Cardinality(Signal) + 1

\* The loop never blocks in select while a flag is set, as the comment at
\* received_signal_ says, but for a real handler that has yet to write: what a
\* flag stands for is not forgotten, however signals and loop cross.
NeverBlocksOwing ==
    /\ pc = "select" /\ pipe = 0 => received \subseteq raising
    /\ owed \subseteq received \cup (IF pc = "call" THEN {signum} ELSE {})

\* Every signal that arrives is followed by a call of its handler, unless the
\* handler is taken away: of two that are close, the second may be missed, not
\* both (OnPosixSignalReceived, PosixSignalDispatcher::OnEvent).
SignalsHandled == \A s \in Signal : s \in owed ~> s \notin owed
=============================================================================
