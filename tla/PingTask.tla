------------------------------ MODULE PingTask ------------------------------
(***************************************************************************)
(* The task that pings the server (talk/xmpp/pingtask.cc), on the delayed  *)
(* messages of its thread and with the clock of talk_base::Time, which is  *)
(* an unsigned number of milliseconds that wraps.                          *)
(*                                                                         *)
(* The thread is external: it delivers a delayed message when it is due or *)
(* later.  So is the server: it answers a ping once, at any time, or not.  *)
(***************************************************************************)
EXTENDS Naturals, TLAPS

CONSTANTS
    Period, Timeout,    \* ping_period_millis_, the shorter ping_timeout_millis_
    Start, End,         \* the clock when the task is made, and where it stops
    Word                \* 2^32, where the clock wraps

VARIABLES
    now,            \* the clock, not wrapped
    next_ping_time, deadline,   \* next_ping_time_, ping_response_deadline_
    woken,          \* the task is not blocked
    answers,        \* stanzas in the queue of the task
    due,            \* delayed messages, by the time they are due
    pings,          \* when pings were sent that have no answer yet
    phase           \* running, or the end: timeout

vars == <<now, next_ping_time, deadline, woken, answers, due, pings, phase>>

Time == now % Word

Init ==
    /\ now = Start
    /\ next_ping_time = 0 /\ deadline = 0
    /\ woken = TRUE /\ answers = 0 /\ due = {} /\ pings = {}
    /\ phase = "running"

\* A ping that goes out without a message to wake the task for its deadline.
WakeForPing(t) == {t + Period}
\* The messages that are posted with a ping.
WakeUps(t) == {t + Timeout, t + Period}

SendPing ==
    /\ pings' = pings \cup {now}
    /\ deadline' = (Time + Timeout) % Word
    /\ next_ping_time' = (Time + Period) % Word
    /\ due' = due \cup WakeUps(now)

\* ProcessStart: whatever the queue holds counts as an answer to the last
\* ping; then the timeout, then the next ping.
ProcessStart ==
    /\ phase = "running" /\ woken
    /\ LET left == IF answers > 0 THEN 0 ELSE deadline
           timed_out == left # 0 /\ Time >= left
       IN  /\ answers' = IF answers > 0 THEN answers - 1 ELSE 0
           /\ phase' = IF timed_out THEN "timeout" ELSE phase
           /\ IF ~timed_out /\ Time >= next_ping_time THEN SendPing
              ELSE deadline' = left /\ UNCHANGED <<next_ping_time, due, pings>>
    /\ woken' = FALSE
    /\ UNCHANGED now

\* OnMessage
OnMessage ==
    /\ \E t \in due : t <= now /\ due' = due \ {t}
    /\ woken' = TRUE
    /\ UNCHANGED <<now, next_ping_time, deadline, answers, pings, phase>>

\* HandleStanza, of the answer to a ping.
HandleStanza ==
    /\ phase = "running" /\ pings # {}
    /\ \E t \in pings : pings' = pings \ {t}
    /\ answers' = answers + 1 /\ woken' = TRUE
    /\ UNCHANGED <<now, next_ping_time, deadline, due, phase>>

Tick ==
    /\ now < End /\ now' = now + 1
    /\ UNCHANGED <<next_ping_time, deadline, woken, answers, due, pings, phase>>

Next == ProcessStart \/ OnMessage \/ HandleStanza \/ Tick

Spec == Init /\ [][Next]_vars

-----------------------------------------------------------------------------

TypeOK ==
    /\ now \in Start .. End /\ next_ping_time \in 0 .. Word - 1
    /\ deadline \in 0 .. Word - 1
    /\ woken \in BOOLEAN /\ answers \in Nat
    /\ pings \subseteq Start .. End /\ phase \in {"running", "timeout"}

\* Neither the clock nor what is computed from it has wrapped.
NotWrapped == End + Period < Word /\ End + Timeout < Word

\* A task that sleeps will be woken in time: a message is under way for its
\* deadline and one for its next ping.
WokenInTime ==
    NotWrapped /\ phase = "running" /\ ~woken =>
        /\ \E t \in due : t <= next_ping_time
        /\ deadline # 0 => \E t \in due : t <= deadline

\* A timeout means that a ping had no answer for as long as the timeout.
TimeoutIsSilence ==
    NotWrapped /\ phase = "timeout" => \E t \in pings : t + Timeout <= now

\* A ping goes out only when the one before it was answered, so that no answer
\* is taken for that of another ping.
OneByOne == NotWrapped => \A s, t \in pings : s = t

PingsInTime == TypeOK /\ WokenInTime /\ TimeoutIsSilence /\ OneByOne

\* A timeout means silence also when the clock wraps.  It does not hold: a
\* deadline past the wrap is smaller than the time.
TimeoutAlwaysSilence ==
    phase = "timeout" => \E t \in pings : t + Timeout <= now

-----------------------------------------------------------------------------
(* PingsInTime for every period and timeout that the constructor asserts.  *)

Periods ==
    /\ Period \in Nat /\ Timeout \in Nat /\ Timeout <= Period
    /\ Start \in Nat /\ End \in Nat /\ Start <= End
    /\ Start + Timeout > 0 /\ Word \in Nat \ {0}

Types == TypeOK /\ due \subseteq Nat

\* The message for a time is under way, or came and woke the task.
Awaited(t) == t \in due \/ (woken /\ t <= now)

\* A deadline belongs to the last ping, which is the only one without an answer,
\* or its answer waits in the queue.
Pending ==
    \/ deadline = 0 /\ pings = {} /\ answers = 0
    \/ /\ deadline # 0 /\ next_ping_time + Timeout = deadline + Period /\ Awaited(deadline)
       /\ \/ pings = {} /\ answers = 1
          \/ answers = 0 /\ \E t \in pings : t + Timeout = deadline /\ pings = {t}

Running == Pending /\ Awaited(next_ping_time)
TimedOut == \E t \in pings : t + Timeout <= now /\ pings = {t}

IInv ==
    Types /\ (NotWrapped => IF phase = "running" THEN Running ELSE TimedOut)

LEMMA TypesKept ==
    ASSUME Periods, Types, [Next]_vars
    PROVE  Types'
<1>1. CASE ProcessStart
  <2>1. \A n \in Nat : n % Word \in 0 .. Word - 1
    BY DEF Periods
  <2>4. /\ now \in Nat /\ now' = now /\ woken' = FALSE /\ answers' \in Nat
        /\ phase' \in {"running", "timeout"}
    BY <1>1 DEF Periods, Types, TypeOK, ProcessStart
  <2>2. CASE SendPing
    <3>1. Time \in Nat /\ Time + Timeout \in Nat /\ Time + Period \in Nat
      BY <2>1, <2>4 DEF Time, Periods
    <3>2. deadline' \in 0 .. Word - 1 /\ next_ping_time' \in 0 .. Word - 1
      BY <2>1, <2>2, <3>1 DEF SendPing
    <3>3. pings' \subseteq Start .. End /\ due' \subseteq Nat
      BY <2>2, <2>4 DEF SendPing, WakeUps, Types, TypeOK, Periods
    <3> QED
      BY <2>4, <3>2, <3>3 DEF Types, TypeOK
  <2>3. CASE deadline' \in {0, deadline} /\ UNCHANGED <<next_ping_time, due, pings>>
    <3>1. 0 \in 0 .. Word - 1
      BY DEF Periods
    <3> QED
      BY <2>3, <2>4, <3>1 DEF Types, TypeOK
  <2> QED
    BY <1>1, <2>2, <2>3 DEF ProcessStart
<1>2. CASE OnMessage
  BY <1>2 DEF Types, TypeOK, OnMessage
<1>3. CASE HandleStanza
  BY <1>3 DEF Types, TypeOK, HandleStanza
<1>4. CASE Tick
  BY <1>4 DEF Periods, Types, TypeOK, Tick
<1>5. CASE UNCHANGED vars
  BY <1>5 DEF Types, TypeOK, vars
<1> QED
  BY <1>1, <1>2, <1>3, <1>4, <1>5 DEF Next

\* Without a wrap the clock is the time, and so is what is computed from it.
LEMMA TimeIsNow ==
    ASSUME Periods, Types, NotWrapped
    PROVE  /\ Time = now /\ (Time + Timeout) % Word = now + Timeout
           /\ (Time + Period) % Word = now + Period /\ now \in Nat
<1>1. now \in Nat /\ now < Word /\ now + Timeout < Word /\ now + Period < Word
  BY DEF Periods, Types, TypeOK, NotWrapped
<1>2. \A n \in Nat : n < Word => n % Word = n
  BY DEF Periods
<1> QED
  BY <1>1, <1>2 DEF Time, Periods

\* ProcessStart: a ping goes out only when nothing is pending any more.
LEMMA ProcessStartKeeps ==
    ASSUME Periods, IInv, NotWrapped, ProcessStart
    PROVE  IF phase' = "running" THEN Running' ELSE TimedOut'
<1> DEFINE left == IF answers > 0 THEN 0 ELSE deadline
           timed_out == left # 0 /\ now >= left
<1>1. /\ phase = "running" /\ woken /\ ~woken' /\ now' = now
      /\ answers' = IF answers > 0 THEN answers - 1 ELSE 0
      /\ phase' = IF timed_out THEN "timeout" ELSE phase
      /\ IF ~timed_out /\ now >= next_ping_time THEN SendPing
         ELSE deadline' = left /\ UNCHANGED <<next_ping_time, due, pings>>
  BY TimeIsNow DEF ProcessStart, IInv
<1>2. /\ now \in Nat /\ answers \in Nat /\ next_ping_time \in Nat /\ deadline \in Nat
      /\ Period \in Nat /\ Timeout \in Nat /\ Timeout <= Period /\ now + Timeout > 0
      /\ pings \subseteq Nat
  BY DEF IInv, Types, TypeOK, Periods
<1>3. Pending /\ Awaited(next_ping_time)
  BY <1>1 DEF IInv, Running
<1>4. answers' = 0
  BY <1>1, <1>2, <1>3 DEF Pending
<1>5. left # 0 => /\ answers = 0 /\ left = deadline /\ deadline # 0
                  /\ next_ping_time + Timeout = deadline + Period /\ Awaited(deadline)
                  /\ \E t \in pings : t + Timeout = deadline /\ pings = {t}
  BY <1>1, <1>2, <1>3 DEF Pending
<1>6. left = 0 => pings = {}
  BY <1>2, <1>3 DEF Pending
<1> HIDE DEF left
<1>7. CASE timed_out
  BY <1>1, <1>2, <1>5, <1>7 DEF TimedOut
<1>8. CASE ~timed_out /\ now >= next_ping_time
  <2>1. /\ pings' = pings \cup {now} /\ deadline' = now + Timeout
        /\ next_ping_time' = now + Period /\ due' = due \cup {now + Timeout, now + Period}
    BY <1>1, <1>8, TimeIsNow DEF SendPing, WakeUps, IInv
  <2>2. left = 0
    BY <1>2, <1>5, <1>8
  <2> QED
    <3>1. pings' = {now} /\ phase' = "running"
      BY <1>1, <1>6, <1>8, <2>1, <2>2
    <3>2. deadline' # 0 /\ next_ping_time' + Timeout = deadline' + Period
      BY <1>2, <2>1
    <3>3. Awaited(deadline)' /\ Awaited(next_ping_time)'
      BY <2>1 DEF Awaited
    <3>4. \E t \in pings' : t + Timeout = deadline' /\ pings' = {t}
      BY <2>1, <3>1
    <3> QED
      BY <1>4, <3>1, <3>2, <3>3, <3>4 DEF Running, Pending
<1>9. CASE ~timed_out /\ ~(now >= next_ping_time)
  <2>1. deadline' = left /\ UNCHANGED <<next_ping_time, due, pings>>
    BY <1>1, <1>9
  <2>2. next_ping_time \in due
    BY <1>2, <1>3, <1>9 DEF Awaited
  <2>3. CASE left = 0
    BY <1>1, <1>4, <1>6, <1>9, <2>1, <2>2, <2>3 DEF Running, Pending, Awaited
  <2>4. CASE left # 0
    <3>1. deadline \in due
      BY <1>2, <1>5, <1>9, <2>4 DEF Awaited
    <3> QED
      BY <1>1, <1>4, <1>5, <1>9, <2>1, <2>2, <2>4, <3>1 DEF Running, Pending, Awaited
  <2> QED
    BY <2>3, <2>4
<1> QED
  BY <1>7, <1>8, <1>9

\* The thread, the server and the clock.
LEMMA OthersKeep ==
    ASSUME Periods, IInv, NotWrapped, OnMessage \/ HandleStanza \/ Tick \/ UNCHANGED vars
    PROVE  IF phase' = "running" THEN Running' ELSE TimedOut'
<1>1. /\ now \in Nat /\ answers \in Nat /\ next_ping_time \in Nat /\ deadline \in Nat
      /\ pings \subseteq Nat /\ Timeout \in Nat
  BY DEF IInv, Types, TypeOK, Periods
<1>2. IF phase = "running" THEN Pending /\ Awaited(next_ping_time) ELSE TimedOut
  BY DEF IInv, Running
<1>3. CASE OnMessage
  BY <1>1, <1>2, <1>3 DEF OnMessage, Running, Pending, Awaited, TimedOut
<1>4. CASE HandleStanza
  <2>1. /\ phase = "running" /\ phase' = phase /\ pings' = {} /\ answers' = 1 /\ woken'
        /\ UNCHANGED <<now, next_ping_time, deadline, due>>
        /\ deadline # 0 /\ next_ping_time + Timeout = deadline + Period /\ Awaited(deadline)
    BY <1>2, <1>4 DEF HandleStanza, Pending
  <2> QED
    BY <1>1, <1>2, <2>1 DEF Running, Pending, Awaited
<1>5. CASE Tick
  BY <1>1, <1>2, <1>5 DEF Tick, Running, Pending, Awaited, TimedOut
<1>6. CASE UNCHANGED vars
  BY <1>2, <1>6 DEF vars, Running, Pending, Awaited, TimedOut
<1> QED
  BY <1>3, <1>4, <1>5, <1>6

\* While no time has wrapped, a ping task that sleeps is woken for its deadline
\* and its next ping, sends a ping only when the one before was answered, and
\* times out only when the server was silent (PingTask::ProcessStart, OnMessage).
THEOREM PingsStayInTime ==
    ASSUME Periods
    PROVE  Spec => []PingsInTime
<1>1. Init => IInv
  BY DEF Periods, Init, IInv, Types, TypeOK, Running, Pending, Awaited
<1>2. IInv /\ [Next]_vars => IInv'
  <2>1. SUFFICES ASSUME IInv, [Next]_vars
                 PROVE  Types' /\ (NotWrapped => IF phase' = "running" THEN Running' ELSE TimedOut')
    BY DEF IInv, NotWrapped
  <2>2. Types'
    BY <2>1, TypesKept DEF IInv
  <2>3. ASSUME NotWrapped
        PROVE  IF phase' = "running" THEN Running' ELSE TimedOut'
    BY <2>1, <2>3, ProcessStartKeeps, OthersKeep DEF Next
  <2> QED
    BY <2>2, <2>3
<1>3. IInv => PingsInTime
  <2> SUFFICES ASSUME IInv
               PROVE  PingsInTime
    OBVIOUS
  <2>1. now \in Nat /\ next_ping_time \in Nat /\ deadline \in Nat /\ TypeOK
    BY DEF IInv, Types, TypeOK, Periods
  <2> QED
    BY <2>1 DEF IInv, PingsInTime, WokenInTime, TimeoutIsSilence, OneByOne, Running, Pending,
                Awaited, TimedOut, TypeOK
<1> QED
  BY <1>1, <1>2, <1>3, PTL DEF Spec
=============================================================================
