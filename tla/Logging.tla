-------------------------------- MODULE Logging --------------------------------
(***************************************************************************)
(* Log messages and where they go (talk/base logging.cc): a message is     *)
(* made when its severity passes min_sev_, read without a lock, and is     *)
(* written to the console and, under the lock, to every stream of at most  *)
(* its severity when it is destroyed.  The application adds, replaces and  *)
(* removes streams meanwhile; it may delete a stream it has removed.  A    *)
(* stream asks for messages once the call that installs it has returned.   *)
(* LogToDebug takes no lock: what it reads of the streams while another    *)
(* thread changes them is any level.                                       *)
(*                                                                         *)
(* LogMultiline logs what goes through a stream line by line: runs of      *)
(* lines that are not printable are counted, across calls, and reported    *)
(* before the next line that is.  A line with a password is left out.      *)
(* Bytes are of a few kinds; the words the code looks for are one byte, as *)
(* if no call ended within one.  It keeps its state apart from the         *)
(* streams, and is specified apart from them: all it sees of them is       *)
(* whether messages of its level are made, which other threads change.     *)
(***************************************************************************)
EXTENDS Naturals, Sequences, FiniteSets, SequencesExt, FiniteSetsExt

CONSTANTS
    Thread, Stream,
    Severity,       \* of messages
    Byte,           \* of "letter", "space", "newline", "control", "Passwd"
    kMinPrintableLine,      \* 4 in the code
    LINE_SIZE,              \* of a line in hex_mode: 24
    MaxMessages, MaxCalls,  \* bounds
    MaxLength       \* bound of the data of a call of LogMultiline, by its mode

NO_LOGGING == Max(Severity) + 1
Warning == Max(Severity)
Level == Severity \cup {NO_LOGGING}
Direction == {"in", "out"}

VARIABLES
    streams_,       \* the list of streams with their levels
    dbg_sev_, min_sev_,
    crit_,          \* who holds the lock, 0: nobody
    updating,       \* of each thread: UpdateMinLogSeverity under way
    message,        \* of each thread: the message it makes or writes
    left,           \* of each thread: the streams it has not come to
    heard,          \* [stream -> messages written to it]
    deleted,        \* streams that are gone
    missed,         \* messages not made that a stream asked for
    broken,         \* a stream was written to that was gone
    crowded,        \* there were two streams at once
    raced,          \* the list changed within an UpdateMinLogSeverity that
                    \* does not hold the lock
    count, calls,
    \* LogMultiline
    unprintable_count_,     \* of each direction, kept between calls
    loggable,               \* messages of the level of the calls are made
    input,                  \* direction of the call under way, "" between calls
    mode,                   \* of the call: lines, stateless, hex or flush
    udata,                  \* what the call has not come to
    consecutive,            \* consecutive_unprintable
    log,                    \* [direction -> what was logged: lines and counts]
    seen,                   \* [direction -> bytes given to calls]
    unlogged,               \* [direction -> bytes whose line or count was not
                            \* logged: for the level, or without a state]
    chunks                  \* calls of LogMultiline

message_vars == <<streams_, dbg_sev_, min_sev_, crit_, updating, message, left, heard,
                  deleted, missed, broken, crowded, raced, count, calls>>
line_vars == <<unprintable_count_, loggable, input, mode, udata, consecutive, log, seen,
               unlogged, chunks>>
vars == <<message_vars, line_vars>>

None == [id |-> 0, severity |-> 0, writing |-> FALSE, slow |-> FALSE]
NoUpdate == [step |-> "none", locked |-> FALSE, torn |-> FALSE, min_sev |-> NO_LOGGING]

Init ==
    /\ streams_ = <<>> /\ dbg_sev_ = NO_LOGGING /\ min_sev_ = NO_LOGGING /\ crit_ = 0
    /\ updating = [t \in Thread |-> NoUpdate]
    /\ message = [t \in Thread |-> None] /\ left = [t \in Thread |-> <<>>]
    /\ heard = [s \in Stream |-> <<>>] /\ deleted = {} /\ missed = {}
    /\ broken = FALSE /\ crowded = FALSE /\ raced = FALSE /\ count = 0 /\ calls = 0
    /\ unprintable_count_ = [d \in Direction |-> 0] /\ loggable = TRUE
    /\ input = "" /\ mode = "lines" /\ udata = <<>>
    /\ consecutive = 0 /\ log = [d \in Direction |-> <<>>]
    /\ seen = [d \in Direction |-> 0] /\ unlogged = [d \in Direction |-> 0]
    /\ chunks = 0

Entry(s, level) == [stream |-> s, level |-> level]
Installed(list) == {list[k].stream : k \in DOMAIN list}

-----------------------------------------------------------------------------
(* A message.                                                              *)

Loggable(severity) == severity >= min_sev_

Idle(t) == message[t] = None /\ updating[t].step = "none"

\* A stream asks for messages once no call that installs one is under way.
Asking(severity) ==
    /\ \A t \in Thread : ~updating[t].locked
    /\ \E k \in DOMAIN streams_ : severity >= streams_[k].level

\* LOG(severity).
Make(t, severity) ==
    /\ Idle(t) /\ count < MaxMessages /\ count' = count + 1
    /\ IF Loggable(severity)
       THEN /\ message' = [message EXCEPT ![t] =
                              [None EXCEPT !.id = count', !.severity = severity]]
            /\ UNCHANGED missed
       ELSE /\ missed' = missed \cup (IF Asking(severity) THEN {count'} ELSE {})
            /\ UNCHANGED message
    /\ UNCHANGED <<streams_, dbg_sev_, min_sev_, crit_, updating, left, heard, deleted,
                   broken, crowded, raced, calls>>

\* ~LogMessage takes the lock for its walk over the streams.
TakeLock(t) == crit_ = 0 /\ crit_' = t
StartWrite(t) ==
    /\ message[t] # None /\ ~message[t].writing
    /\ TakeLock(t)
    /\ message' = [message EXCEPT ![t].writing = TRUE]
    /\ left' = [left EXCEPT ![t] = streams_]
    /\ UNCHANGED <<streams_, dbg_sev_, min_sev_, updating, heard, deleted, missed, broken,
                   crowded, raced, count, calls>>

Reaches(m, e) == m.severity >= e.level

\* OutputToStream.
WriteNext(t) ==
    /\ message[t].writing /\ left[t] # <<>>
    /\ LET e == Head(left[t]) IN
       IF Reaches(message[t], e)
       THEN /\ heard' = [heard EXCEPT ![e.stream] = Append(@, message[t].id)]
            /\ broken' = (broken \/ e.stream \in deleted)
       ELSE UNCHANGED <<heard, broken>>
    /\ left' = [left EXCEPT ![t] = Tail(@)]
    /\ UNCHANGED <<streams_, dbg_sev_, min_sev_, crit_, updating, message, deleted, missed,
                   crowded, raced, count, calls>>

\* A walk that took long is followed by a warning of its own, still under the
\* lock, and not by another.
EndWrite(t, slow) ==
    /\ message[t].writing /\ left[t] = <<>>
    /\ IF slow /\ ~message[t].slow /\ count < MaxMessages
       THEN /\ count' = count + 1
            /\ message' = [message EXCEPT ![t] = [id |-> count', severity |-> Warning,
                                                  writing |-> TRUE, slow |-> TRUE]]
            /\ left' = [left EXCEPT ![t] = streams_]
            /\ UNCHANGED crit_
       ELSE /\ message' = [message EXCEPT ![t] = None]
            /\ crit_' = 0 /\ UNCHANGED <<left, count>>
    /\ UNCHANGED <<streams_, dbg_sev_, min_sev_, updating, heard, deleted, missed, broken,
                   crowded, raced, calls>>

-----------------------------------------------------------------------------
(* Where messages go.                                                      *)

Called == calls < MaxCalls /\ calls' = calls + 1

\* UpdateMinLogSeverity walks the streams, each level replacing that of the one
\* before, and then stores what it has found.
MinLogSeverity(list, debug) ==
    IF list = <<>> THEN debug ELSE Min({debug, list[Len(list)].level})

Update(t, locked) ==
    updating' = [updating EXCEPT ![t] = [NoUpdate EXCEPT !.step = "walk", !.locked = locked]]

Walk(t) ==
    /\ updating[t].step = "walk"
    /\ \E level \in IF updating[t].torn THEN Level
                    ELSE {MinLogSeverity(streams_, dbg_sev_)} :
           updating' = [updating EXCEPT ![t].step = "store", ![t].min_sev = level]
    /\ UNCHANGED <<streams_, dbg_sev_, min_sev_, crit_, message, left, heard, deleted,
                   missed, broken, crowded, raced, count, calls>>

\* A caller with the lock then gives it back.
Store(t) ==
    /\ updating[t].step = "store"
    /\ min_sev_' = updating[t].min_sev
    /\ crit_' = IF updating[t].locked THEN 0 ELSE crit_
    /\ updating' = [updating EXCEPT ![t] = NoUpdate]
    /\ UNCHANGED <<streams_, dbg_sev_, message, left, heard, deleted, missed, broken,
                   crowded, raced, count, calls>>

\* It does not take the lock.
LogToDebug(t, level) ==
    /\ Called /\ Idle(t) /\ dbg_sev_' = level /\ Update(t, FALSE)
    /\ UNCHANGED <<streams_, min_sev_, crit_, message, left, heard, deleted, missed,
                   broken, crowded, raced, count>>

\* The list becomes this one, under the lock; what walks it without is torn.
Walking == {t \in Thread : updating[t].step = "walk" /\ ~updating[t].locked}
Unlocked == {t \in Thread : updating[t].step # "none" /\ ~updating[t].locked}
Torn == [t \in Thread |-> [updating[t] EXCEPT !.torn = @ \/ t \in Walking]]

Change(t, list) ==
    /\ Called /\ Idle(t) /\ crit_ = 0 /\ streams_' = list
    /\ crowded' = (crowded \/ Len(list) > 1)
    /\ raced' = (raced \/ Unlocked # {})
    /\ UNCHANGED <<dbg_sev_, min_sev_, message, left, heard, missed, broken, count>>

\* UpdateMinLogSeverity follows under the lock.
ChangeAndUpdate(t, list) ==
    /\ Change(t, list)
    /\ crit_' = t
    /\ updating' = [Torn EXCEPT ![t] = [NoUpdate EXCEPT !.step = "walk", !.locked = TRUE]]

New(s) == s \notin deleted /\ s \notin Installed(streams_)

LogToStream(t, s, level) ==
    /\ New(s)
    /\ ChangeAndUpdate(t, <<Entry(s, level)>>)
    /\ deleted' = deleted \cup Installed(streams_)

\* With no stream min_sev_ stays as it was.
LogToNoStream(t) ==
    /\ Change(t, <<>>)
    /\ deleted' = deleted \cup Installed(streams_)
    /\ updating' = Torn
    /\ UNCHANGED crit_

AddLogToStream(t, s, level) ==
    /\ New(s)
    /\ ChangeAndUpdate(t, Append(streams_, Entry(s, level)))
    /\ UNCHANGED deleted

\* Its owner deletes it afterwards.
RemoveLogToStream(t, s) ==
    /\ s \in Installed(streams_)
    /\ ChangeAndUpdate(t, SelectSeq(streams_, LAMBDA e : e.stream # s))
    /\ deleted' = deleted \cup {s}

Messages ==
    \E t \in Thread :
       \/ \E severity \in Severity : Make(t, severity)
       \/ StartWrite(t) \/ WriteNext(t)
       \/ \E slow \in BOOLEAN : EndWrite(t, slow)
       \/ Walk(t) \/ Store(t)
       \/ \E level \in Level :
             \/ LogToDebug(t, level)
             \/ \E s \in Stream : LogToStream(t, s, level) \/ AddLogToStream(t, s, level)
       \/ \E s \in Stream : RemoveLogToStream(t, s)
       \/ LogToNoStream(t)

-----------------------------------------------------------------------------
(* LogMultiline.                                                           *)

Count(n) == [kind |-> "count", bytes |-> n, text |-> <<>>]
Line(text, n) == [kind |-> "line", bytes |-> n, text |-> text]
Omitted(n) == [kind |-> "omitted", bytes |-> n, text |-> <<>>]
Hex(text) == [kind |-> "hex", bytes |-> Len(text), text |-> text]

\* LOG_V within LogMultiline: min_sev_ is read again.
Log(entry) ==
    IF loggable
    THEN log' = [log EXCEPT ![input] = Append(@, entry)] /\ UNCHANGED unlogged
    ELSE unlogged' = [unlogged EXCEPT ![input] = @ + entry.bytes] /\ UNCHANGED log

\* Another thread changes min_sev_.
LevelChanges ==
    /\ loggable' = ~loggable
    /\ UNCHANGED <<unprintable_count_, input, mode, udata, consecutive, log, seen,
                   unlogged, chunks>>

\* A call that its level does not let through returns at once.
LogMultiline(d, how, data) ==
    /\ chunks < MaxCalls /\ chunks' = chunks + 1 /\ input = "" /\ loggable
    /\ input' = d /\ mode' = how /\ udata' = data
    /\ consecutive' = IF how = "lines" THEN unprintable_count_[d] ELSE 0
    /\ seen' = [seen EXCEPT ![d] = @ + Len(data)]
    /\ UNCHANGED <<unprintable_count_, loggable, log, unlogged>>

\* Without data the count is flushed.
CountFlushed(d) == [unprintable_count_ EXCEPT ![d] = 0]
FlushCount ==
    /\ input # "" /\ mode = "flush"
    /\ IF unprintable_count_[input] > 0
       THEN /\ Log(Count(unprintable_count_[input]))
            /\ unprintable_count_' = CountFlushed(input)
       ELSE UNCHANGED <<log, unlogged, unprintable_count_>>
    /\ input' = ""
    /\ UNCHANGED <<loggable, mode, udata, consecutive, seen, chunks>>

\* In hex_mode each byte is shown, one that is not printable as a dot, and the
\* count is left alone.
Shown(byte) == IF byte \in {"newline", "control"} THEN "dot" ELSE byte
HexLine ==
    /\ input # "" /\ mode = "hex" /\ udata # <<>>
    /\ LET n == Min({Len(udata), LINE_SIZE}) IN
       /\ Log(Hex([k \in 1 .. n |-> Shown(udata[k])]))
       /\ udata' = SubSeq(udata, n + 1, Len(udata))
    /\ UNCHANGED <<unprintable_count_, loggable, input, mode, consecutive, seen, chunks>>

Newline == SelectInSeq(udata, LAMBDA b : b = "newline")
LineOf == IF Newline = 0 THEN udata ELSE SubSeq(udata, 1, Newline - 1)
\* With the newline.
Length == IF Newline = 0 THEN Len(udata) ELSE Newline

Blank(line) == \A k \in DOMAIN line : line[k] = "space"

\* In unprintable mode a line has to have some characters to end it.
IsPrintable(line) ==
    /\ \A k \in DOMAIN line : line[k] # "control"
    /\ consecutive > 0 => Len(line) >= kMinPrintableLine /\ ~Blank(line)

\* Trailing whitespace is stripped.
Stripped(line) ==
    SubSeq(line, 1, SelectLastInSeq(line, LAMBDA b : b # "space"))

Filtered(line) == IF Contains(line, "Passwd") THEN Omitted(Length) ELSE Line(Stripped(line), Length)

InLines == input # "" /\ mode \in {"lines", "stateless"} /\ udata # <<>>

\* The count of prior unprintable characters comes before a line.
LogCount ==
    /\ InLines /\ consecutive > 0 /\ IsPrintable(LineOf)
    /\ Log(Count(consecutive))
    /\ consecutive' = 0
    /\ UNCHANGED <<unprintable_count_, loggable, input, mode, udata, seen, chunks>>

LogLine ==
    /\ InLines
    /\ \/ /\ consecutive = 0 /\ IsPrintable(LineOf)
          /\ Log(Filtered(LineOf))
          /\ UNCHANGED consecutive
       \/ /\ ~IsPrintable(LineOf)
          /\ consecutive' = consecutive + Length
          /\ UNCHANGED <<log, unlogged>>
    /\ udata' = SubSeq(udata, Length + 1, Len(udata))
    /\ UNCHANGED <<unprintable_count_, loggable, input, mode, seen, chunks>>

\* Without a state the count ends with the call.
KeepCount ==
    /\ input # "" /\ mode # "flush" /\ udata = <<>>
    /\ IF mode = "lines"
       THEN /\ unprintable_count_' = [unprintable_count_ EXCEPT ![input] = consecutive]
            /\ UNCHANGED unlogged
       ELSE /\ unlogged' = [unlogged EXCEPT ![input] = @ + consecutive]
            /\ UNCHANGED unprintable_count_
    /\ input' = "" /\ consecutive' = 0
    /\ UNCHANGED <<loggable, mode, udata, log, seen, chunks>>

Lines ==
    \/ \E d \in Direction :
          \/ LogMultiline(d, "flush", <<>>)
          \/ \E how \in {"lines", "stateless", "hex"} : \E n \in 1 .. MaxLength[how] :
             \E data \in [1 .. n -> Byte] : LogMultiline(d, how, data)
    \/ FlushCount \/ HexLine \/ LogCount \/ LogLine \/ KeepCount \/ LevelChanges

Next ==
    \/ chunks = 0 /\ Messages /\ UNCHANGED line_vars
    \/ count = 0 /\ calls = 0 /\ Lines /\ UNCHANGED message_vars

Spec == Init /\ [][Next]_vars

-----------------------------------------------------------------------------

TypeOK ==
    /\ dbg_sev_ \in Level /\ min_sev_ \in Level /\ crit_ \in Thread \cup {0}
    /\ Installed(streams_) \subseteq Stream /\ deleted \subseteq Stream
    /\ IsInjective(streams_) /\ count \in 0 .. MaxMessages /\ calls \in 0 .. MaxCalls
    /\ \A t \in Thread : updating[t].step = "none" \/ message[t] = None
    /\ unprintable_count_ \in [Direction -> Nat] /\ consecutive \in Nat
    /\ input \in Direction \cup {""} /\ chunks \in 0 .. MaxCalls

\* No stream is written to that is gone, and two streams hear the messages that
\* reach both in the same order, whole walk by whole walk, whichever threads
\* made them and whatever is removed meanwhile (LogMessage::~LogMessage).
WalksAreWhole ==
    /\ ~broken
    /\ \A s, r \in Stream : \A i, j \in DOMAIN heard[s] : \A k, l \in DOMAIN heard[r] :
           heard[s][i] = heard[r][k] /\ heard[s][j] = heard[r][l] => (i < j <=> k < l)

\* While there is never more than one stream, and no thread changes the list
\* within the LogToDebug of another, no message the stream asks for is dropped
\* by the check that comes first (Loggable, UpdateMinLogSeverity).
LoneStreamMissesNothing == crowded \/ raced \/ missed = {}

\* The streams are looked at under their lock, says the comment on crit_.  It
\* does not hold: LogToDebug walks them without, and the walk of a list that
\* changes may leave min_sev_ at any level, above what a stream asks for.
StreamsLocked == Walking = {}

\* Every byte of a direction is in a line that was logged, or left out, or in a
\* count that was reported, or will be, or ended with a call that has no state
\* or in a line min_sev_ did not let through: the two directions do not mix and
\* no byte is counted twice, however the data is cut into calls.
BytesAccounted ==
    \A d \in Direction :
        seen[d] = FoldSeq(LAMBDA e, n : e.bytes + n, 0, log[d]) + unlogged[d]
                  + (IF input # d THEN unprintable_count_[d]
                     ELSE IF mode = "lines" THEN consecutive + Len(udata)
                     ELSE consecutive + Len(udata) + unprintable_count_[d])

\* No control character is in the log, and no password but in hex_mode, which
\* does not look for any.
OnlyPrintableLogged ==
    \A d \in Direction : \A k \in DOMAIN log[d] :
        LET entry == log[d][k] IN
        /\ ToSet(entry.text) \cap {"control", "newline"} = {}
        /\ entry.kind # "hex" => "Passwd" \notin ToSet(entry.text)

\* The most verbose of the levels, says the header of min_sev_.  It does not
\* hold: only the last stream counts, and none that LogToStream removes.
MinIsTheMinimum == min_sev_ = Min({dbg_sev_} \cup {streams_[k].level : k \in DOMAIN streams_})
=============================================================================
