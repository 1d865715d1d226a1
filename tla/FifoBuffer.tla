----------------------------- MODULE FifoBuffer -----------------------------
(***************************************************************************)
(* FifoBuffer (talk/base/stream.cc): a ring buffer between a writer and a  *)
(* reader on different threads.                                            *)
(*                                                                         *)
(* One action is one call, which the object lock makes atomic.  A reader   *)
(* may take a pointer into the buffer (GetReadData) and a writer another   *)
(* (GetWriteBuffer), and use them between calls, outside the lock.         *)
(***************************************************************************)
EXTENDS Integers, Sequences, FiniteSets, FiniteSetsExt

CONSTANTS
    Byte,           \* what is written
    MaxCapacity     \* bound: how far it is resized

VARIABLES
    buffer,         \* [0 .. buffer_length - 1 -> Byte]
    data_length, read_position,
    state,          \* OPEN or CLOSED
    lent_out,       \* GetReadData: the size it gave, 0 when there is none
    lent_in,        \* GetWriteBuffer: [at, size, used], size 0 likewise
    posted,         \* events on their way to the owner
    waits,          \* those that met SR_BLOCK and were not told since
    grown           \* SetCapacity made room for a writer that waits

buffer_vars == <<buffer, data_length, read_position, state>>
loan_vars == <<lent_out, lent_in>>
event_vars == <<posted, waits, grown>>
vars == <<buffer_vars, loan_vars, event_vars>>

buffer_length == Cardinality(DOMAIN buffer)
NoLoan == [at |-> 0, size |-> 0, used |-> 0]

\* What is buffered, in order, of a buffer at hand.
Contents(b, at, n) == [i \in 1 .. n |-> b[(at + i - 1) % Cardinality(DOMAIN b)]]
contents == Contents(buffer, read_position, data_length)

Init ==
    /\ buffer = [i \in 0 .. MaxCapacity - 1 |-> CHOOSE b \in Byte : TRUE]
    /\ data_length = 0 /\ read_position = 0 /\ state = "OPEN"
    /\ lent_out = 0 /\ lent_in = NoLoan
    /\ posted = {} /\ waits = {} /\ grown = FALSE

\* Events are for the edges: a buffer that was full or empty.
PostOnRead(n) == posted' = IF data_length = buffer_length /\ n > 0
                           THEN posted \cup {"SE_WRITE"} ELSE posted
PostOnWrite(n) == posted' = IF data_length = 0 /\ n > 0
                            THEN posted \cup {"SE_READ"} ELSE posted

\* The two halves of a copy into the ring: up to its end, then from its start.
CopyIn(b, at, bytes) ==
    LET tail_copy == Min({Len(bytes), Cardinality(DOMAIN b) - at})
    IN  [i \in DOMAIN b |->
            IF i >= at /\ i < at + tail_copy THEN bytes[i - at + 1]
            ELSE IF i < Len(bytes) - tail_copy THEN bytes[tail_copy + i + 1]
            ELSE b[i]]

\* WriteOffsetLocked: how much of n bytes is written at an offset, and where.
WriteBlocks(offset) == data_length + offset >= buffer_length
WriteCopy(n, offset) == Min({n, buffer_length - data_length - offset})
WriteAt(offset) == (read_position + data_length + offset) % buffer_length

-----------------------------------------------------------------------------

Write ==
    /\ lent_in = NoLoan /\ state = "OPEN"
    /\ \E n \in 1 .. MaxCapacity : \E bytes \in [1 .. n -> Byte] :
       IF WriteBlocks(0)
       THEN /\ waits' = waits \cup {"SE_WRITE"}
            /\ UNCHANGED <<buffer_vars, posted>>
       ELSE LET copy == WriteCopy(n, 0)
            IN  /\ buffer' = CopyIn(buffer, WriteAt(0), SubSeq(bytes, 1, copy))
                /\ data_length' = data_length + copy
                /\ PostOnWrite(copy)
                /\ UNCHANGED <<read_position, state, waits>>
    /\ UNCHANGED <<loan_vars, grown>>

\* A read leaves the position where it was.
StayAt(n) == read_position
NextRead(n) == (read_position + n) % buffer_length

Read ==
    /\ lent_out = 0
    /\ \E n \in 1 .. MaxCapacity :
       IF data_length = 0
       THEN /\ waits' = IF state = "CLOSED" THEN waits ELSE waits \cup {"SE_READ"}
            /\ UNCHANGED <<buffer_vars, posted>>
       ELSE LET copy == Min({n, data_length})
            IN  /\ read_position' = NextRead(copy)
                /\ data_length' = data_length - copy
                /\ PostOnRead(copy)
                /\ UNCHANGED <<buffer, state, waits>>
    /\ UNCHANGED <<loan_vars, grown>>

\* WriteOffset ahead of what is buffered, from the front on, and then
\* ConsumeWriteBuffer for all of it.
WriteOffset ==
    /\ state = "OPEN" /\ lent_in.size = 0
    /\ LET offset == lent_in.used IN
       /\ ~WriteBlocks(offset)
       /\ \E b \in Byte :
              buffer' = CopyIn(buffer, WriteAt(offset), SubSeq(<<b>>, 1, WriteCopy(1, offset)))
       /\ lent_in' = [lent_in EXCEPT !.used = offset + 1]
    /\ UNCHANGED <<data_length, read_position, state, lent_out, event_vars>>

\* GetWriteBuffer moves an empty buffer to its start, for the biggest block.
GetWriteBuffer ==
    /\ state = "OPEN" /\ lent_in = NoLoan
    /\ read_position' = IF data_length = 0 THEN 0 ELSE read_position
    /\ LET at == (read_position' + data_length) % buffer_length
           size == IF at > read_position' \/ data_length = 0
                   THEN buffer_length - at ELSE read_position' - at
       IN  lent_in' = [at |-> at, size |-> size, used |-> 0]
    /\ UNCHANGED <<buffer, data_length, state, lent_out, event_vars>>

\* The writer fills in what it was lent.
Fill ==
    /\ lent_in.used < lent_in.size
    /\ \E b \in Byte : buffer' = [buffer EXCEPT ![lent_in.at + lent_in.used] = b]
    /\ lent_in' = [lent_in EXCEPT !.used = @ + 1]
    /\ UNCHANGED <<data_length, read_position, state, lent_out, event_vars>>

ConsumeWriteBuffer ==
    /\ lent_in # NoLoan
    /\ data_length' = data_length + lent_in.used
    /\ PostOnWrite(lent_in.used)
    /\ lent_in' = NoLoan
    /\ UNCHANGED <<buffer, read_position, state, lent_out, waits, grown>>

\* GetReadData gives what is there up to the end of the ring.
GetReadData ==
    /\ lent_out = 0 /\ data_length > 0
    /\ lent_out' = IF read_position + data_length <= buffer_length
                   THEN data_length ELSE buffer_length - read_position
    /\ UNCHANGED <<buffer_vars, lent_in, event_vars>>

ConsumeReadData ==
    /\ lent_out > 0
    /\ \E size \in 0 .. lent_out :
           /\ read_position' = NextRead(size)
           /\ data_length' = data_length - size
           /\ PostOnRead(size)
    /\ lent_out' = 0
    /\ UNCHANGED <<buffer, state, lent_in, waits, grown>>

\* The new buffer of SetCapacity: the contents from its start on.
Copied(size) ==
    [i \in 0 .. size - 1 |->
        IF i < data_length THEN contents[i + 1] ELSE CHOOSE b \in Byte : TRUE]

\* SetCapacity frees the buffer: nothing may be lent meanwhile.
SetCapacity ==
    /\ lent_in = NoLoan /\ lent_out = 0
    /\ \E size \in 1 .. MaxCapacity :
           /\ size >= data_length /\ size # buffer_length
           /\ buffer' = Copied(size)
           /\ grown' = (grown \/ ("SE_WRITE" \in waits /\ size > buffer_length))
    /\ read_position' = 0
    /\ UNCHANGED <<data_length, state, loan_vars, posted, waits>>

\* The writer closes when it has consumed what it was lent: ConsumeWriteBuffer
\* does not look at the state.
Close ==
    /\ state = "OPEN" /\ lent_in = NoLoan /\ state' = "CLOSED"
    /\ UNCHANGED <<buffer, data_length, read_position, loan_vars, event_vars>>

\* The owner's thread handles an event: StreamInterface::OnMessage.
OnMessage ==
    /\ \E e \in posted : posted' = posted \ {e} /\ waits' = waits \ {e}
    /\ UNCHANGED <<buffer_vars, loan_vars, grown>>

Next ==
    \/ Write \/ Read \/ WriteOffset
    \/ GetWriteBuffer \/ Fill \/ ConsumeWriteBuffer
    \/ GetReadData \/ ConsumeReadData
    \/ SetCapacity \/ Close \/ OnMessage

Spec == Init /\ [][Next]_vars

-----------------------------------------------------------------------------

TypeOK ==
    /\ buffer \in UNION {[0 .. n - 1 -> Byte] : n \in 1 .. MaxCapacity}
    /\ data_length \in 0 .. buffer_length /\ read_position \in 0 .. buffer_length - 1
    /\ state \in {"OPEN", "CLOSED"} /\ lent_out \in 0 .. data_length
    /\ data_length + lent_in.used <= buffer_length
    /\ posted \cup waits \subseteq {"SE_READ", "SE_WRITE"}

\* The buffer is a queue of bytes: whatever wraps, grows, shrinks or is lent
\* out, the bytes come out as they went in.
Queue == INSTANCE ByteQueue WITH
    bytes <- contents, capacity <- buffer_length, closed <- (state = "CLOSED")
IsQueue == Queue!Spec

\* A writer or a reader that met SR_BLOCK and could go on now has an event on
\* its way; a writer for whom SetCapacity made room has none.
BlockedIsTold ==
    /\ "SE_READ" \in waits /\ data_length > 0 => "SE_READ" \in posted
    /\ "SE_WRITE" \in waits /\ data_length < buffer_length /\ ~grown =>
           "SE_WRITE" \in posted

\* The same with no exception.  It does not hold.
BlockedAlwaysTold ==
    "SE_WRITE" \in waits /\ data_length < buffer_length => "SE_WRITE" \in posted
=============================================================================
