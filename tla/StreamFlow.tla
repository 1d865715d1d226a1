----------------------------- MODULE StreamFlow -----------------------------
(***************************************************************************)
(* Flow, the line reader and the stream adapters (talk/base/stream.cc):    *)
(* bytes move from a segment of a memory stream, past a tap, to a sink,    *)
(* over as many calls of Flow as it takes.                                 *)
(*                                                                         *)
(* One action is one Read of the source or one Write to the sink, the      *)
(* steps of Flow's loops, or a call of the application between them.  The  *)
(* segment's stream may be one that blocks, like a socket's.               *)
(***************************************************************************)
EXTENDS Integers, Sequences, FiniteSets, FiniteSetsExt, SequencesExt

CONSTANTS
    Text,           \* contents of the source, a sequence; EndOfLine is a byte
    EndOfLine,
    Old,            \* contents of a memory sink before
    BufferLen,      \* buffer_len of Flow
    Block,          \* memory streams grow to multiples of this: 256
    MaxBlocks       \* bound: how often source and sink block

VARIABLES
    seek,           \* source: seek_position_
    start, pos, length,     \* source: start_, pos_ and length_ of the segment
    lines,          \* what ReadLine returned
    tap, tap_result,
    flow,           \* idle, reading or writing
    buffer,         \* what Flow has read and not written
    end_of_stream, result,
    sink,           \* [kind, data, at, size]: contents, seek_position_, buffer_length_
    mark,           \* where the source was opened and the flow began, in
                    \* source and sink
    blocks          \* what is left of the bound

source_vars == <<seek, start, pos, length>>
vars == <<source_vars, lines, tap, tap_result, flow, buffer, end_of_stream,
          result, sink, mark, blocks>>

UnknownSize == -1
Rest == SubSeq(Text, seek + 1, Len(Text))

\* What a segment of that start and length exposes.
Segment(from, len) ==
    SubSeq(Text, from + 1,
           IF len = UnknownSize THEN Len(Text) ELSE Min({Len(Text), from + len}))

Init ==
    /\ seek = 0 /\ start = 0 /\ pos = 0 /\ length = UnknownSize
    /\ lines = <<>> /\ tap = <<>> /\ tap_result = "SUCCESS"
    /\ flow = "idle" /\ buffer = <<>> /\ end_of_stream = FALSE /\ result = "none"
    /\ sink = [kind |-> "none", data |-> <<>>, at |-> 0, size |-> 0]
    /\ mark = [opened |-> 0, from |-> 0, base |-> 0, flowing |-> FALSE]
    /\ blocks = MaxBlocks

-----------------------------------------------------------------------------
(* The source.                                                             *)

\* The application opens the segment where the stream is, with or without a
\* length, and the sink.
Open ==
    /\ sink.kind = "none"
    /\ \E at \in 0 .. 1, len \in {UnknownSize, 2, Len(Text) + 1} :
           seek' = at /\ start' = at /\ length' = len
    /\ \E kind \in {"memory", "external", "fifo"} :
       \E size \in IF kind = "memory" THEN {Len(Old)} ELSE {2, 4},
          at \in IF kind = "memory" THEN 0 .. Len(Old) ELSE {0} :
           sink' = [kind |-> kind, data |-> IF kind = "memory" THEN Old ELSE <<>>,
                    at |-> at, size |-> size]
    /\ mark' = [mark EXCEPT !.opened = seek', !.base = sink'.at]
    /\ UNCHANGED <<pos, lines, tap, tap_result, flow, buffer, end_of_stream,
                   result, blocks>>

\* StreamSegment::Read, then MemoryStreamBase::Read: how many bytes of at most
\* n, 0 at the end.
ReadCount(n) ==
    IF length = UnknownSize THEN Min({n, Len(Rest)})
    ELSE Min({n, Max({length - pos, 0}), Len(Rest)})

ReadBytes(n) ==
    /\ seek' = seek + n /\ pos' = pos + n
    /\ UNCHANGED <<start, length>>

\* StreamTap::Read: WriteAll to a tap that takes any part of it and fails;
\* after that nothing is written to it.
Tapped(bytes) ==
    IF tap_result # "SUCCESS" THEN UNCHANGED <<tap, tap_result>>
    ELSE \/ tap' = tap \o bytes /\ UNCHANGED tap_result
         \/ /\ blocks > 0
            /\ \E n \in 0 .. Len(bytes) - 1 : tap' = tap \o SubSeq(bytes, 1, n)
            /\ tap_result' = "BLOCK"

\* StreamSegment::SetPosition, Rewind with it.
SetPosition ==
    /\ flow = "idle" /\ result = "none" /\ sink.kind # "none" /\ tap = <<>>
    /\ \E position \in 0 .. Len(Text) :
           /\ length # UnknownSize => position <= length
           /\ start + position <= Len(Text)
           /\ seek' = start + position /\ pos' = position
           /\ mark' = [mark EXCEPT !.opened = seek']
    /\ lines' = <<>>
    /\ UNCHANGED <<start, length, tap, tap_result, flow, buffer, end_of_stream,
                   result, sink, blocks>>

\* The bytes of a line, with its end, of what can be read.
LineOf(bytes) ==
    LET ends == {i \in DOMAIN bytes : bytes[i] = EndOfLine}
    IN  IF ends = {} THEN bytes ELSE SubSeq(bytes, 1, Min(ends))

\* ReadLine: read byte by byte until the end of a line, which it does not
\* return; where Read blocks or fails, or the stream ends, the line so far is
\* returned, with success when it has a byte.  A line that was not read to its
\* end is not whole.
GetLine(bytes) ==
    LET whole == EndOfLine \in Range(bytes) IN
    /\ bytes # <<>>
    /\ ReadBytes(Len(bytes))
    /\ Tapped(bytes)
    /\ lines' = Append(lines, [text |-> IF whole THEN Front(bytes) ELSE bytes,
                               whole |-> whole])

ReadLine ==
    /\ flow = "idle" /\ result = "none" /\ sink.kind # "none"
    /\ LET line == LineOf(SubSeq(Rest, 1, ReadCount(Len(Text)))) IN
       \/ GetLine(line) /\ UNCHANGED blocks
       \/ /\ blocks > 0 /\ blocks' = blocks - 1
          /\ \E n \in 1 .. Len(line) - 1 : GetLine(SubSeq(line, 1, n))
    /\ UNCHANGED <<flow, buffer, end_of_stream, result, sink, mark>>

-----------------------------------------------------------------------------
(* Flow.                                                                   *)

\* What was read and not written is passed in again as data_len.
Flow ==
    /\ flow = "idle" /\ result \in {"none", "BLOCK"} /\ sink.kind # "none"
    /\ flow' = "reading" /\ end_of_stream' = FALSE
    /\ mark' = [mark EXCEPT !.from = IF mark.flowing THEN @ ELSE seek, !.flowing = TRUE]
    /\ UNCHANGED <<source_vars, lines, tap, tap_result, buffer, result, sink, blocks>>

Return(r) == flow' = "idle" /\ result' = r

\* The buffer is filled, or the stream ends.
FlowRead ==
    /\ flow = "reading" /\ ~end_of_stream /\ Len(buffer) < BufferLen
    /\ \E n \in 1 .. BufferLen - Len(buffer) :
       LET count == ReadCount(n) IN
       IF count = 0
       THEN /\ n = 1 /\ end_of_stream' = TRUE
            /\ UNCHANGED <<source_vars, buffer, tap, tap_result>>
       ELSE /\ ReadBytes(count)
            /\ buffer' = buffer \o SubSeq(Rest, 1, count)
            /\ Tapped(SubSeq(Rest, 1, count))
            /\ UNCHANGED end_of_stream
    /\ UNCHANGED <<lines, flow, result, sink, blocks, mark>>

FlowReadBlocks ==
    /\ flow = "reading" /\ ~end_of_stream /\ Len(buffer) < BufferLen
    /\ blocks > 0 /\ blocks' = blocks - 1
    /\ Return("BLOCK")
    /\ UNCHANGED <<source_vars, lines, tap, tap_result, buffer, end_of_stream, sink, mark>>

FlowTurns ==
    /\ flow = "reading" /\ (end_of_stream \/ Len(buffer) = BufferLen)
    /\ flow' = "writing"
    /\ UNCHANGED <<source_vars, lines, tap, tap_result, buffer, end_of_stream,
                   result, sink, blocks, mark>>

\* MemoryStreamBase::Write grows only a buffer that is full.
Grown(n) ==
    IF sink.size # sink.at THEN sink.size
    ELSE Max({((sink.at + n) \div Block + 1) * Block, sink.size * 2})
Written(n) ==
    [sink EXCEPT
        !.data = SubSeq(sink.data, 1, sink.at) \o SubSeq(buffer, 1, n)
                 \o SubSeq(sink.data, sink.at + n + 1, Len(sink.data)),
        !.at = @ + n]

\* The size a sink has room in, for n bytes.
Room(n) == IF sink.kind = "memory" THEN Grown(n) ELSE sink.size

\* What the sink did not take is dropped with what it took.
DropBuffer(n) == <<>>
Unwritten(n) == SubSeq(buffer, n + 1, Len(buffer))

FlowWrite ==
    /\ flow = "writing" /\ buffer # <<>>
    /\ LET size == Room(Len(buffer))
           count == Min({Len(buffer), size - sink.at})
       IN  IF count = 0
           THEN /\ Return(IF sink.kind = "fifo" THEN "BLOCK" ELSE "EOS")
                /\ UNCHANGED <<buffer, sink>>
           ELSE /\ sink' = [Written(count) EXCEPT !.size = size]
                /\ buffer' = Unwritten(count)
                /\ UNCHANGED <<flow, result>>
    /\ UNCHANGED <<source_vars, lines, tap, tap_result, end_of_stream, blocks, mark>>

FlowEnds ==
    /\ flow = "writing" /\ buffer = <<>>
    /\ IF end_of_stream THEN Return("SUCCESS")
       ELSE flow' = "reading" /\ UNCHANGED result
    /\ UNCHANGED <<source_vars, lines, tap, tap_result, buffer, end_of_stream,
                   sink, blocks, mark>>

\* The reader at the other end of a fifo makes room.
Drain ==
    /\ sink.kind = "fifo" /\ blocks > 0 /\ blocks' = blocks - 1
    /\ sink' = [sink EXCEPT !.size = @ + 1]
    /\ UNCHANGED <<source_vars, lines, tap, tap_result, flow, buffer,
                   end_of_stream, result, mark>>

Next ==
    \/ Open \/ SetPosition \/ ReadLine
    \/ Flow \/ FlowRead \/ FlowReadBlocks \/ FlowTurns \/ FlowWrite \/ FlowEnds
    \/ Drain

Spec == Init /\ [][Next]_vars

-----------------------------------------------------------------------------

TypeOK ==
    /\ seek \in 0 .. Len(Text) /\ start \in 0 .. 1 /\ pos \in 0 .. Len(Text)
    /\ tap_result \in {"SUCCESS", "BLOCK"} /\ flow \in {"idle", "reading", "writing"}
    /\ result \in {"none", "SUCCESS", "BLOCK", "EOS"}
    /\ Len(buffer) <= BufferLen
    /\ sink.at <= Len(sink.data) /\ Len(sink.data) <= sink.size

Moved == SubSeq(sink.data, mark.base + 1, sink.at)

\* No byte is lost, doubled or moved around between source, buffer and sink,
\* whatever blocks and however often Flow is called again; what the sink held
\* around it is left alone; and success means that the segment has ended.
FlowKeepsBytes ==
    sink.kind # "none" =>
        /\ mark.flowing => Moved \o buffer = SubSeq(Text, mark.from + 1, seek)
        /\ sink.kind = "memory" =>
               /\ SubSeq(sink.data, 1, mark.base) = SubSeq(Old, 1, mark.base)
               /\ SubSeq(sink.data, sink.at + 1, Len(sink.data))
                      = SubSeq(Old, sink.at + 1, Len(Old))
        /\ result = "SUCCESS" =>
               buffer = <<>> /\ seek = start + Len(Segment(start, length))

\* The tap has what was read, up to its first failure.  The lines, each whole
\* one with its end, are what was read of the segment: no byte of a line is lost
\* when Read blocks within it, and a line is cut only there or where the
\* segment ends.
TapAndLines ==
    LET passed == SubSeq(Text, mark.opened + 1, seek)
        joined == FlattenSeq([i \in DOMAIN lines |->
                      lines[i].text \o IF lines[i].whole THEN <<EndOfLine>> ELSE <<>>])
        cut == {i \in DOMAIN lines : ~lines[i].whole}
        ended == seek = start + Len(Segment(start, length))
    IN  /\ IsPrefix(tap, passed)
        /\ tap_result = "SUCCESS" => tap = passed
        /\ ~mark.flowing => joined = passed
        /\ \A i \in DOMAIN lines : EndOfLine \notin Range(lines[i].text)
        /\ Cardinality(cut) <= MaxBlocks - blocks + (IF ended THEN 1 ELSE 0)
=============================================================================
