------------------------------- MODULE ByteBuffer -------------------------------
(***************************************************************************)
(* ByteBuffer (talk/base/bytebuffer.cc) on a little-endian host: bytes are *)
(* appended and consumed, numbers are written and read in either order of  *)
(* their bytes (talk/base/byteorder.h), the memory moves and grows, and a  *)
(* read position can be remembered.                                        *)
(*                                                                         *)
(* A number is the sequence of its bytes, the least significant first.     *)
(* Every byte written is different, so that a misplaced one is seen.  A    *)
(* byte of memory that holds nothing is 0.                                 *)
(***************************************************************************)
EXTENDS Naturals, Sequences, FiniteSets, FiniteSetsExt, SequencesExt

CONSTANTS
    DefaultSize,    \* DEFAULT_SIZE
    Width,          \* widths of numbers, of {1, 2, 3, 4, 8}
    Lengths,        \* lengths of byte strings, and sizes
    MaxCalls        \* bound: calls

VARIABLES
    bytes,          \* [0 .. size_ - 1 -> byte]
    start, end,     \* start_, end_
    version,
    byte_order,
    position,       \* a ReadPosition: start and version, and how much of the log
                    \* had been read then
    log,            \* what was written and not resized away, since Clear
    read,           \* how much of it has been read
    numbers,        \* written and not read: [width, at], at a place of the log
    got,            \* the last number read, and what it should be
    calls

vars == <<bytes, start, end, version, byte_order, position, log, read, numbers, got,
          calls>>

size == Cardinality(DOMAIN bytes)
Length == end - start
Capacity == size - start

Memory(n) == [k \in 0 .. n - 1 |-> 0]

\* Construct
Init ==
    /\ bytes = Memory(DefaultSize) /\ start = 0 /\ end = 0 /\ version = 0
    /\ byte_order \in {"ORDER_NETWORK", "ORDER_HOST"}
    /\ position = [start |-> 0, version |-> 0, read |-> 0]
    /\ log = <<>> /\ read = 0 /\ numbers = <<>> /\ got = <<<<>>, <<>>>> /\ calls = 0

Budget == calls < MaxCalls /\ calls' = calls + 1

Contents == [k \in 1 .. Length |-> bytes[start + k - 1]]

-----------------------------------------------------------------------------
(* Memory: what the calls do to a buffer b.                                *)

Buffer == [bytes |-> bytes, start |-> start, end |-> end, version |-> version]

NextVersion(b) == b.version + 1

\* Resize: moved backwards, or copied to larger memory.
Resized(b, n) ==
    LET old == Cardinality(DOMAIN b.bytes)
        len == Min({b.end - b.start, n})
        new == IF n <= old THEN old ELSE Max({n, (3 * old) \div 2})
        kept == [k \in 0 .. new - 1 |->
                    IF k < len THEN b.bytes[b.start + k]
                    ELSE IF n <= old THEN b.bytes[k] ELSE 0]
    IN  [bytes |-> kept, start |-> 0, end |-> len, version |-> NextVersion(b)]

LacksRoom(n) == Length + n > Capacity

\* ReserveWriteBuffer
Reserved(n) == IF LacksRoom(n) THEN Resized(Buffer, Length + n) ELSE Buffer

\* WriteBytes; a byte past the memory is lost.
Written(s) ==
    LET b == Reserved(Len(s))
    IN  [b EXCEPT !.bytes = [k \in DOMAIN @ |->
                                IF k \in b.end .. b.end + Len(s) - 1
                                THEN s[k - b.end + 1] ELSE @[k]],
                  !.end = @ + Len(s)]

Become(b) ==
    bytes' = b.bytes /\ start' = b.start /\ end' = b.end /\ version' = b.version

WriteBytes(s) == Become(Written(s)) /\ log' = log \o s

Fresh(n) == [k \in 1 .. n |-> Len(log) + k]

-----------------------------------------------------------------------------
(* Numbers.                                                                *)

\* HostToNetwork16, 32 and 64, and back.
HostToNetwork(v) == Reverse(v)

\* What is written of a number: of 24 bits, the last or the first three bytes
\* of a word whose highest byte is 0.
Encoded(v) ==
    IF Len(v) = 3
    THEN IF byte_order = "ORDER_NETWORK" THEN Tail(HostToNetwork(v \o <<0>>))
         ELSE SubSeq(v \o <<0>>, 1, 3)
    ELSE IF byte_order = "ORDER_NETWORK" THEN HostToNetwork(v) ELSE v

Decoded(s) ==
    IF Len(s) = 3
    THEN IF byte_order = "ORDER_NETWORK" THEN HostToNetwork(<<0>> \o s) ELSE s \o <<0>>
    ELSE IF byte_order = "ORDER_NETWORK" THEN HostToNetwork(s) ELSE s

\* WriteUInt8 to WriteUInt64.
WriteUInt(w) ==
    /\ Budget
    /\ WriteBytes(Encoded(Fresh(w)))
    /\ numbers' = Append(numbers, [width |-> w, at |-> Len(log)])
    /\ UNCHANGED <<byte_order, position, read, got>>

\* The value as a word of the read: a number of 24 bits fills 32.
Word(w, at) == [k \in 1 .. w |-> at + k] \o (IF w = 3 THEN <<0>> ELSE <<>>)

\* ReadUInt8 to ReadUInt64, by a reader who knows what was written.
ReadUInt ==
    /\ Budget /\ numbers # <<>> /\ Head(numbers).at = read
    /\ LET w == Head(numbers).width IN
       /\ Length >= w
       /\ got' = <<Decoded(SubSeq(Contents, 1, w)), Word(w, read)>>
       /\ start' = start + w /\ read' = read + w
    /\ numbers' = Tail(numbers)
    /\ UNCHANGED <<bytes, end, version, byte_order, position, log>>

-----------------------------------------------------------------------------
(* Bytes, and positions.                                                   *)

\* WriteBytes, WriteString
WriteString(n) ==
    /\ Budget /\ WriteBytes(Fresh(n))
    /\ UNCHANGED <<byte_order, position, read, numbers, got>>

\* What has been read over is read.
Unread(at) == SelectSeq(numbers, LAMBDA x : x.at >= at)

\* Consume, ReadBytes and ReadString: all of it or nothing.
Consume(n) ==
    /\ Budget
    /\ IF n > Length THEN UNCHANGED <<start, read, numbers>>
       ELSE start' = start + n /\ read' = read + n /\ numbers' = Unread(read + n)
    /\ UNCHANGED <<bytes, end, version, byte_order, position, log, got>>

Resize(n) ==
    /\ Budget
    /\ Become(Resized(Buffer, n))
    /\ log' = SubSeq(log, 1, Min({read + n, Len(log)}))
    /\ numbers' = SelectSeq(numbers, LAMBDA x : x.at + x.width <= read + n)
    /\ UNCHANGED <<byte_order, position, read, got>>

Clear ==
    /\ Budget
    /\ bytes' = [k \in DOMAIN bytes |-> 0] /\ start' = 0 /\ end' = 0
    /\ version' = NextVersion(Buffer)
    /\ log' = <<>> /\ read' = 0 /\ numbers' = <<>>
    /\ UNCHANGED <<byte_order, position, got>>

GetReadPosition ==
    /\ Budget
    /\ position' = [start |-> start, version |-> version, read |-> read]
    /\ UNCHANGED <<bytes, start, end, version, byte_order, log, read, numbers, got>>

\* Only while the version is the same.
SetReadPosition ==
    /\ Budget /\ position.version = version
    /\ start' = position.start /\ read' = position.read
    /\ numbers' = Unread(position.read)
    /\ UNCHANGED <<bytes, end, version, byte_order, position, log, got>>

Next ==
    \/ ReadUInt \/ Clear \/ GetReadPosition \/ SetReadPosition
    \/ \E w \in Width : WriteUInt(w)
    \/ \E n \in Lengths : WriteString(n) \/ Consume(n) \/ Resize(n)

Spec == Init /\ [][Next]_vars

-----------------------------------------------------------------------------

TypeOK ==
    /\ start \in 0 .. end /\ end \in 0 .. size
    /\ version \in 0 .. MaxCalls /\ read \in 0 .. Len(log)

\* The buffer holds what was written and not read, in that order, however the
\* memory moved and grew, and after the reader went back to a position that it
\* remembered (Resize, ReserveWriteBuffer, SetReadPosition).  A number of the
\* log stands there as it was encoded.
KeepsWhatWasWritten ==
    /\ Contents = SubSeq(log, read + 1, Len(log))
    /\ position.version = version => position.read <= Len(log)

\* A number is read as it was written, in both orders (ReadUInt24, WriteUInt24).
NumbersReadBack == got[1] = got[2]
=============================================================================
