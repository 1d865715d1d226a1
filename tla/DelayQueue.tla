------------------------------ MODULE DelayQueue ------------------------------
(***************************************************************************)
(* Time stamps that wrap around (talk/base timeutils.cc) and the delayed   *)
(* messages of a queue (messagequeue.cc, DelayedMessage), which are sorted *)
(* by their trigger times as numbers and found due by comparisons that     *)
(* know of the wrap.  One thread runs Get again and again; others post     *)
(* meanwhile, which wakes it.  The word of a time stamp is short.          *)
(***************************************************************************)
EXTENDS Integers, Sequences, FiniteSets, SequencesExt

CONSTANTS
    Word,           \* time stamps are 0 .. Word - 1; 2^32 in the code
    Start, End,     \* bounds: when the clock starts, and stops unless waited for
    MaxPass,        \* how long a pass of Get, or waking up, takes
    Delay,          \* with MaxPass below half a word, as TimeAfter asserts
    MaxPosts        \* bound

Half == Word \div 2
kForever == -1

VARIABLES
    clock,          \* the true time, in milliseconds
    dmsgq_,         \* delayed messages; due is the true time of the trigger
    dmsgq_next_num_,
    delivered,      \* numbers of the messages that went to the queue proper
    at,             \* "scan" or "wait"
    msCurrent,
    wakeAt,         \* true time when the wait ends, kForever: it does not
    early,          \* a message was delivered before its time
    overslept,      \* a wait was begun that ends after a message is due
    straddled       \* two messages waited that are due on two sides of a wrap

vars == <<clock, dmsgq_, dmsgq_next_num_, delivered, at, msCurrent, wakeAt, early,
          overslept, straddled>>

-----------------------------------------------------------------------------
(* Time stamps.                                                            *)

Time == clock % Word
Stamp(n) == n % Word

\* A difference as a signed number.
Signed(n) == IF Stamp(n) < Half THEN Stamp(n) ELSE Stamp(n) - Word

TimeAfter(elapsed) == Stamp(Time + elapsed)
TimeIsBetween(earlier, middle, later) ==
    IF earlier <= later THEN earlier <= middle /\ middle <= later
    ELSE ~(later < middle /\ middle < earlier)
TimeIsLaterOrEqual(earlier, later) == Signed(later - earlier) >= 0

TimeIsLater(earlier, later) == Signed(later - earlier) > 0

TimeDiff(later, earlier) == Signed(later - earlier)
TimeMax(s, t) == IF TimeIsLaterOrEqual(s, t) THEN t ELSE s
TimeMin(s, t) == IF TimeIsLaterOrEqual(s, t) THEN s ELSE t

-----------------------------------------------------------------------------
(* The queue.                                                              *)

Init ==
    /\ clock = Start /\ dmsgq_ = {} /\ dmsgq_next_num_ = 0 /\ delivered = <<>>
    /\ at = "scan" /\ msCurrent = Time /\ wakeAt = kForever
    /\ early = FALSE /\ overslept = FALSE /\ straddled = FALSE

Tick ==
    /\ clock < End \/ (at = "wait" /\ clock < wakeAt)
    /\ IF at = "scan" THEN TimeDiff(Time, msCurrent) < MaxPass
       ELSE wakeAt # kForever => clock < wakeAt + MaxPass
    /\ clock' = clock + 1
    /\ UNCHANGED <<dmsgq_, dmsgq_next_num_, delivered, at, msCurrent, wakeAt, early,
                   overslept, straddled>>

\* PostDelayed and DoDelayPost; it ends a wait that goes on.
Post(delay) ==
    /\ dmsgq_next_num_ < MaxPosts /\ clock < End
    /\ dmsgq_' = dmsgq_ \cup {[trigger |-> TimeAfter(delay), num |-> dmsgq_next_num_,
                               due |-> clock + delay]}
    /\ dmsgq_next_num_' = dmsgq_next_num_ + 1
    /\ wakeAt' = IF at = "wait" /\ (wakeAt = kForever \/ clock < wakeAt) THEN clock ELSE wakeAt
    /\ straddled' = (straddled \/ \E m \in dmsgq_ : m.due \div Word # (clock + delay) \div Word)
    /\ UNCHANGED <<clock, delivered, at, msCurrent, early, overslept>>

\* DelayedMessage::operator<.
SoonerThan(m, n) == m.trigger < n.trigger \/ (m.trigger = n.trigger /\ m.num < n.num)
Top == CHOOSE m \in dmsgq_ : \A n \in dmsgq_ \ {m} : SoonerThan(m, n)

\* Get: what is due goes to the queue proper.
Trigger ==
    /\ at = "scan" /\ dmsgq_ # {} /\ ~TimeIsLater(msCurrent, Top.trigger)
    /\ delivered' = Append(delivered, Top)
    /\ early' = (early \/ clock < Top.due)
    /\ dmsgq_' = dmsgq_ \ {Top}
    /\ UNCHANGED <<clock, dmsgq_next_num_, at, msCurrent, wakeAt, overslept, straddled>>

\* Nothing more is: it waits for the top's time, counted from when the clock
\* was read.
DelayNext == IF dmsgq_ = {} THEN kForever ELSE TimeDiff(Top.trigger, msCurrent)
BeginWait ==
    /\ at = "scan" /\ (dmsgq_ # {} => TimeIsLater(msCurrent, Top.trigger))
    /\ at' = "wait"
    /\ wakeAt' = IF DelayNext = kForever THEN kForever ELSE clock + DelayNext
    /\ overslept' = \E m \in dmsgq_ :
                        wakeAt' = kForever \/ wakeAt' > m.due + TimeDiff(Time, msCurrent)
    /\ UNCHANGED <<clock, dmsgq_, dmsgq_next_num_, delivered, msCurrent, early, straddled>>

EndWait ==
    /\ at = "wait" /\ wakeAt # kForever /\ clock >= wakeAt
    /\ at' = "scan" /\ msCurrent' = Time
    /\ UNCHANGED <<clock, dmsgq_, dmsgq_next_num_, delivered, wakeAt, early, overslept,
                   straddled>>

\* What Thread::ProcessMessages and the socket server wait for otherwise.
GetDelay ==
    IF dmsgq_ = {} THEN kForever
    ELSE IF TimeDiff(Top.trigger, Time) < 0 THEN 0 ELSE TimeDiff(Top.trigger, Time)

Next == Tick \/ (\E delay \in Delay : Post(delay)) \/ Trigger \/ BeginWait \/ EndWait

Fairness == WF_vars(Tick) /\ WF_vars(Trigger) /\ WF_vars(BeginWait) /\ WF_vars(EndWait)

Spec == Init /\ [][Next]_vars /\ Fairness

-----------------------------------------------------------------------------

TypeOK ==
    /\ clock \in Nat /\ clock >= Start /\ wakeAt \in {kForever} \cup Nat
    /\ msCurrent \in 0 .. Word - 1 /\ at \in {"scan", "wait"}
    /\ at = "scan" => TimeDiff(Time, msCurrent) \in 0 .. MaxPass
    /\ \A m \in dmsgq_ : m.trigger = Stamp(m.due)

\* Whether those that waited at one time were due on one side of a wrap.
OneSide == ~straddled

\* No message is delivered before its time, wrap or no wrap.  As long as those
\* that wait at one time are due on one side of a wrap, before it or after it,
\* they are delivered in the order of their times, and posts within one, and no
\* wait is begun that outlasts the next (MessageQueue::Get).
DeliveredInTime ==
    /\ ~early
    /\ OneSide => /\ ~overslept
                  /\ \A i, j \in DOMAIN delivered : i < j =>
                         \/ delivered[i].due < delivered[j].due
                         \/ /\ delivered[i].due = delivered[j].due
                            /\ delivered[i].num < delivered[j].num

\* Every message is delivered, if late after a wrap (MessageQueue::Get).
AllDelivered ==
    \A num \in 0 .. MaxPosts - 1 :
        num < dmsgq_next_num_ ~> \E k \in DOMAIN delivered : delivered[k].num = num

\* Sorted by trigger time, says the header of DelayedMessage.  It does not hold
\* across a wrap: the message that comes after it is the top.
SortedByTrigger == \A m \in dmsgq_ : Top.due <= m.due
=============================================================================
