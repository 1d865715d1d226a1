----------------------------- MODULE AsyncWrite -----------------------------
(***************************************************************************)
(* AsyncWriteStream (talk/base/stream.cc): what is written to it goes into *)
(* a buffer, and a thread of its own moves the buffer to the stream.       *)
(*                                                                         *)
(* Two threads: the caller, who writes, flushes and closes, and the write  *)
(* thread, which handles the messages posted to it.  A critical section of *)
(* the buffer or of the stream is one action, what is between two of them  *)
(* is not protected.  Chunks are numbered as they are written.             *)
(***************************************************************************)
EXTENDS Naturals, Sequences, FiniteSets, SequencesExt

CONSTANT MaxChunks  \* bound: writes of the caller

Thread == {"caller", "writer"}

VARIABLES
    buffer,         \* buffer_
    messages,       \* posted to the write thread and not handled
    state,          \* state_
    pc, doing,      \* what each thread does next, and what the caller does it for
    to_write,       \* what a thread took out of the buffer
    stream, open,   \* what the stream got, and whether it is open
    accepted,       \* chunks that were written
    late,           \* chunks that reached a closed stream
    crossed         \* both threads held a part of the buffer at a time

caller_vars == <<state, doing, accepted>>
stream_vars == <<stream, open, late>>
vars == <<buffer, messages, pc, to_write, crossed, caller_vars, stream_vars>>

Init ==
    /\ buffer = <<>> /\ messages = 0 /\ state = "OPEN"
    /\ pc = [t \in Thread |-> "idle"] /\ doing = "none"
    /\ to_write = [t \in Thread |-> <<>>]
    /\ stream = <<>> /\ open = TRUE /\ accepted = 0 /\ late = {} /\ crossed = FALSE

Goto(t, where) == pc' = [pc EXCEPT ![t] = where]

-----------------------------------------------------------------------------

\* Write posts for a buffer that was empty: else a message is on its way.
AfterAppend == IF buffer = <<>> THEN "post" ELSE "idle"

Write ==
    /\ pc["caller"] = "idle" /\ state = "OPEN" /\ accepted < MaxChunks
    /\ accepted' = accepted + 1
    /\ buffer' = Append(buffer, accepted + 1)
    /\ Goto("caller", AfterAppend)
    /\ UNCHANGED <<messages, to_write, crossed, state, doing, stream_vars>>

Post ==
    /\ pc["caller"] = "post"
    /\ messages' = messages + 1 /\ Goto("caller", "idle")
    /\ UNCHANGED <<buffer, to_write, crossed, caller_vars, stream_vars>>

\* Flush and Close, once their check of the state is passed; Close clears the
\* messages first.
Begin ==
    /\ pc["caller"] = "idle" /\ state = "OPEN"
    /\ doing' \in {"flush", "close"}
    /\ messages' = IF doing' = "close" THEN 0 ELSE messages
    /\ Goto("caller", "take")
    /\ UNCHANGED <<buffer, to_write, crossed, state, accepted, stream_vars>>

\* The write thread gets its message.
OnMessage ==
    /\ pc["writer"] = "idle" /\ messages > 0
    /\ messages' = messages - 1 /\ Goto("writer", "take")
    /\ UNCHANGED <<buffer, to_write, crossed, caller_vars, stream_vars>>

ClearBuffer == buffer' = <<>>

\* ClearBufferAndWrite: the transfer of the buffer, under crit_buffer_.
TransferTo(t) ==
    /\ pc[t] = "take"
    /\ to_write' = [to_write EXCEPT ![t] = buffer]
    /\ ClearBuffer
    /\ crossed' = (crossed \/ (\E u \in Thread \ {t} : to_write[u] # <<>>))
    /\ Goto(t, "write")
    /\ UNCHANGED <<messages, caller_vars, stream_vars>>

\* WriteAll, under crit_stream_.
WriteAll(t) ==
    /\ pc[t] = "write"
    /\ IF open THEN stream' = stream \o to_write[t] /\ UNCHANGED late
       ELSE late' = late \cup Range(to_write[t]) /\ UNCHANGED stream
    /\ to_write' = [to_write EXCEPT ![t] = <<>>]
    /\ Goto(t, IF t = "caller" THEN doing ELSE "idle")
    /\ UNCHANGED <<buffer, messages, crossed, caller_vars, open>>

\* The last part of Flush and of Close.
Finish ==
    /\ pc["caller"] \in {"flush", "close"}
    /\ IF pc["caller"] = "close" THEN open' = FALSE /\ state' = "CLOSED"
       ELSE UNCHANGED <<open, state>>
    /\ doing' = "none" /\ Goto("caller", "idle")
    /\ UNCHANGED <<buffer, messages, to_write, crossed, accepted, stream, late>>

Next ==
    \/ Write \/ Post \/ Begin \/ OnMessage \/ Finish
    \/ \E t \in Thread : TransferTo(t) \/ WriteAll(t)

\* Both threads go on with what they have begun, and the write thread gets its
\* messages.
Fairness ==
    /\ WF_vars(Post) /\ WF_vars(OnMessage) /\ WF_vars(Finish)
    /\ \A t \in Thread : WF_vars(TransferTo(t)) /\ WF_vars(WriteAll(t))

Spec == Init /\ [][Next]_vars /\ Fairness

-----------------------------------------------------------------------------

TypeOK ==
    /\ buffer \in Seq(1 .. MaxChunks) /\ stream \in Seq(1 .. MaxChunks)
    /\ state \in {"OPEN", "CLOSED"} /\ doing \in {"none", "flush", "close"}
    /\ \A t \in Thread : pc[t] \in {"idle", "post", "take", "write", "flush", "close"}
    /\ late \subseteq 1 .. accepted

\* Every chunk is in one place, once: in the buffer, with a thread, in the
\* stream, or dropped by a stream that was closed meanwhile.  And unless the
\* two threads crossed, the stream has them in order and none is dropped.
EachChunkOnce ==
    LET all == stream \o to_write["caller"] \o to_write["writer"] \o buffer
    IN  /\ Len(all) + Cardinality(late) = accepted
        /\ Range(all) \cup late = 1 .. accepted
        /\ ~crossed => late = {} /\ \A i, j \in DOMAIN stream : i < j => stream[i] < stream[j]

\* Every chunk gets to the stream, but for those that a Close overtakes.
ChunksArrive ==
    \A n \in 1 .. MaxChunks : accepted >= n ~> n \in Range(stream) \cup late

\* The stream has the chunks in the order of their Writes.  It does not hold: a
\* Flush writes what is in the buffer before what the write thread has taken.
AlwaysInOrder == \A i, j \in DOMAIN stream : i < j => stream[i] < stream[j]

\* No chunk is dropped.  It does not hold: Close does not wait for what the
\* write thread has taken.
NoneDropped == late = {}
=============================================================================
