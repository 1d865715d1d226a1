-------------------------------- MODULE Sigslot --------------------------------
(***************************************************************************)
(* Signals and slots (talk/base/sigslot.h, for every number of arguments,  *)
(* which are passed on unseen): connections known to both of their ends,   *)
(* and emission, whose handlers may connect, disconnect, copy, destroy and *)
(* emit.  The default policy is single_threaded: nothing is locked.        *)
(*                                                                         *)
(* An object connects to a signal once, as in the code that uses this, and *)
(* a signal is not destroyed or emptied in its own emission.  Emission     *)
(* looks at the next connection before it calls a handler: a handler that  *)
(* takes that one away has freed it (`misused'), and the model ends.       *)
(***************************************************************************)
EXTENDS Naturals, Sequences, FiniteSets, SequencesExt

CONSTANTS
    Signal, Slot,
    MaxCalls        \* bound: calls made by anybody, emissions included

\* A connection: its number, and the object it calls.
Connection == [id : Nat, dest : Slot]

VARIABLES
    signals, slots,     \* objects that exist
    m_connected_slots,  \* of each signal, in the order of their emission
    m_senders,          \* of each object
    emitting,           \* the emissions under way, the innermost last: signal,
                        \* itNext (0: the end), the connections it began with,
                        \* and the ones it called
    ids, misused, calls

vars == <<signals, slots, m_connected_slots, m_senders, emitting, ids, misused, calls>>

Init ==
    /\ signals = Signal /\ slots = Slot
    /\ m_connected_slots = [s \in Signal |-> <<>>]
    /\ m_senders = [o \in Slot |-> {}]
    /\ emitting = <<>> /\ ids = 0 /\ misused = FALSE /\ calls = 0

Budget == calls < MaxCalls /\ calls' = calls + 1

Ids(list) == {list[k].id : k \in DOMAIN list}
Dests(list) == {list[k].dest : k \in DOMAIN list}

\* Connections are freed: an emission that has one of them next goes wrong.
Free ==
    misused' = (\E k \in DOMAIN emitting :
                   emitting[k].next \notin Ids(m_connected_slots'[emitting[k].signal]) \cup {0})

Without(list, o) == SelectSeq(list, LAMBDA c : c.dest # o)

-----------------------------------------------------------------------------
(* Calls, by anybody at any time, handlers included.                       *)

\* Both ends learn of a connection.
Connect(s, o) ==
    /\ Budget /\ ~misused /\ s \in signals /\ o \in slots
    /\ o \notin Dests(m_connected_slots[s])
    /\ m_connected_slots' = [m_connected_slots EXCEPT
                                 ![s] = Append(@, [id |-> ids + 1, dest |-> o])]
    /\ ids' = ids + 1
    /\ m_senders' = [m_senders EXCEPT ![o] = @ \cup {s}]
    /\ UNCHANGED <<signals, slots, emitting, misused>>

SignalDisconnect(s, o) == [m_senders EXCEPT ![o] = @ \ {s}]

\* signal::disconnect: the first connection of the object.
Disconnect(s, o) ==
    /\ Budget /\ ~misused /\ s \in signals /\ o \in slots
    /\ o \in Dests(m_connected_slots[s])
    /\ m_connected_slots' = [m_connected_slots EXCEPT ![s] = Without(@, o)]
    /\ m_senders' = SignalDisconnect(s, o)
    /\ Free
    /\ UNCHANGED <<signals, slots, emitting, ids>>

\* Seeded fault: the first sender only.
FirstSender(o) == {CHOOSE s \in m_senders[o] : TRUE}
Senders(o) == m_senders[o]

\* ~has_slots: disconnect_all calls slot_disconnect of every sender.
DestroySlot(o) ==
    /\ Budget /\ ~misused /\ o \in slots
    /\ slots' = slots \ {o}
    /\ m_connected_slots' =
           [s \in Signal |-> IF m_senders[o] # {} /\ s \in Senders(o)
                             THEN Without(m_connected_slots[s], o)
                             ELSE m_connected_slots[s]]
    /\ m_senders' = [m_senders EXCEPT ![o] = {}]
    /\ Free
    /\ UNCHANGED <<signals, emitting, ids>>

\* ~signal: disconnect_all tells the objects.
DestroySignal(s) ==
    /\ Budget /\ ~misused /\ s \in signals
    /\ \A k \in DOMAIN emitting : emitting[k].signal # s
    /\ signals' = signals \ {s}
    /\ m_connected_slots' = [m_connected_slots EXCEPT ![s] = <<>>]
    /\ m_senders' = [o \in Slot |-> IF o \in Dests(m_connected_slots[s])
                                    THEN m_senders[o] \ {s} ELSE m_senders[o]]
    /\ UNCHANGED <<slots, emitting, ids, misused>>

\* slot_duplicate, in each sender of the object copied.
Duplicate(list, o, new) ==
    IF o \in Dests(list) THEN Append(list, [id |-> ids + 1, dest |-> new]) ELSE list

\* The copy constructor of has_slots: the copy is connected as its model is.
CopySlot(o, new) ==
    /\ Budget /\ ~misused /\ o \in slots /\ new \in Slot \ slots
    /\ slots' = slots \cup {new}
    /\ m_connected_slots' =
           [s \in Signal |-> IF s \in m_senders[o]
                             THEN Duplicate(m_connected_slots[s], o, new)
                             ELSE m_connected_slots[s]]
    /\ m_senders' = [m_senders EXCEPT ![new] = m_senders[o]]
    /\ ids' = ids + 1
    /\ UNCHANGED <<signals, emitting, misused>>

\* The copy constructor of a signal.
CopySignal(s, new) ==
    /\ Budget /\ ~misused /\ s \in signals /\ new \in Signal \ signals
    /\ signals' = signals \cup {new}
    /\ m_connected_slots' =
           [m_connected_slots EXCEPT
                ![new] = [k \in DOMAIN m_connected_slots[s] |->
                             [m_connected_slots[s][k] EXCEPT !.id = ids + k]]]
    /\ m_senders' = [o \in Slot |-> IF o \in Dests(m_connected_slots[s])
                                    THEN m_senders[o] \cup {new} ELSE m_senders[o]]
    /\ ids' = ids + Len(m_connected_slots[s])
    /\ UNCHANGED <<slots, emitting, misused>>

-----------------------------------------------------------------------------
(* Emission.                                                               *)

\* The number of the connection at position k, 0 at the end.
IdAt(list, k) == IF k \in DOMAIN list THEN list[k].id ELSE 0
Position(list, id) == CHOOSE k \in DOMAIN list : list[k].id = id

\* emit, up to its loop.
Emit(s) ==
    /\ Budget /\ ~misused /\ s \in signals
    /\ emitting' = Append(emitting,
           [signal |-> s, next |-> IdAt(m_connected_slots[s], 1),
            began |-> Ids(m_connected_slots[s]), called |-> {}])
    /\ UNCHANGED <<signals, slots, m_connected_slots, m_senders, ids, misused>>

Top == emitting[Len(emitting)]

ItNext(list, id) == IdAt(list, Position(list, id) + 1)

\* The next handler is called: what it calls comes before the next Call or
\* Return of this emission.
Call ==
    /\ ~misused /\ emitting # <<>> /\ Top.next # 0
    /\ emitting' = [emitting EXCEPT
           ![Len(emitting)].next = ItNext(m_connected_slots[Top.signal], Top.next),
           ![Len(emitting)].called = @ \cup {Top.next}]
    /\ UNCHANGED <<signals, slots, m_connected_slots, m_senders, ids, misused, calls>>

Return ==
    /\ ~misused /\ emitting # <<>> /\ Top.next = 0
    /\ emitting' = Front(emitting)
    /\ UNCHANGED <<signals, slots, m_connected_slots, m_senders, ids, misused, calls>>

Next ==
    \/ \E s \in Signal, o \in Slot : Connect(s, o) \/ Disconnect(s, o)
    \/ \E o \in Slot : DestroySlot(o) \/ (\E new \in Slot : CopySlot(o, new))
    \/ \E s \in Signal :
          DestroySignal(s) \/ Emit(s) \/ (\E new \in Signal : CopySignal(s, new))
    \/ Call \/ Return

Spec == Init /\ [][Next]_vars

-----------------------------------------------------------------------------

TypeOK ==
    /\ signals \subseteq Signal /\ slots \subseteq Slot
    /\ \A s \in Signal : Dests(m_connected_slots[s]) \subseteq Slot
    /\ \A o \in Slot : m_senders[o] \subseteq Signal
    /\ misused \in BOOLEAN /\ calls \in 0 .. MaxCalls

\* A signal and an object know of each other or neither does, and only while
\* both exist: so no connection is left that calls what is gone, whichever end
\* goes first, copies included (signal_connect, signal_disconnect,
\* slot_disconnect).
BothEndsKnow ==
    /\ \A s \in Signal, o \in Slot :
           o \in Dests(m_connected_slots[s]) <=> s \in m_senders[o]
    /\ \A s \in Signal : m_connected_slots[s] # <<>> => s \in signals
    /\ \A o \in Slot : m_senders[o] # {} => o \in slots

\* An emission that ends has called every connection that it began with and
\* that is still there, although its handlers connected, disconnected and
\* destroyed others, in nested emissions too (signal::emit, itNext).
AllCalled ==
    \A k \in DOMAIN emitting :
        ~misused /\ emitting[k].next = 0 =>
            emitting[k].began \cap Ids(m_connected_slots[emitting[k].signal])
                \subseteq emitting[k].called

\* Emission never goes on from a connection that is gone.  It does not hold: a
\* handler may take away the connection after its own.
NextIsThere == ~misused
=============================================================================
