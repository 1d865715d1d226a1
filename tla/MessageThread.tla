----------------------------- MODULE MessageThread -----------------------------
(***************************************************************************)
(* Threads with message queues (talk/base messagequeue.cc and thread.cc):  *)
(* Post, PostDelayed, the blocking Send, Quit, and the loop of Get and     *)
(* Dispatch.  Every thread runs by itself; what one does between taking    *)
(* and releasing a queue's lock is one action, and what the code does      *)
(* outside the lock (the tests of fStop_ and has_sends_, the WakeUp after a *)
(* Send, the wait) is another.                                             *)
(*                                                                         *)
(* A thread is a stack of frames.  Message handlers nest, because a thread *)
(* that waits in Send goes on serving the Sends made to it.  A handler may *)
(* make any call.  A thread of Outside runs code of the application and    *)
(* never returns to a loop; the others run ProcessMessages(kForever).      *)
(*                                                                         *)
(* The peek slot, Clear of one handler's messages, restarting a thread and *)
(* I/O are left out.                                                       *)
(***************************************************************************)
EXTENDS Integers, Sequences, FiniteSets

CONSTANTS
    Thread,
    Outside,    \* threads that run application code
    Delays,     \* delays of PostDelayed
    MaxPosts,   \* bound: messages posted
    MaxSends,   \* bound: messages sent
    MaxQuits,   \* bound: calls of Quit
    MaxCalls,   \* bound: all of these together
    MaxTime     \* bound: the clock, unless a thread waits for a later time

ASSUME OutsideAssumption == Outside \subseteq Thread
ASSUME DelayAssumption == Delays \subseteq Nat \ {0}
ASSUME BoundsAssumption ==
    /\ MaxPosts \in Nat /\ MaxSends \in Nat /\ MaxQuits \in Nat
    /\ MaxCalls \in Nat /\ MaxTime \in Nat

\* What a message carries: when it triggers (0: at once), and whether it came
\* after Quit.
Message     == [id : Nat, trigger : Nat, late : BOOLEAN]
\* _SendMessage
SendMessage == [id : Nat, from : Thread, late : BOOLEAN]

\* Frames: "get" is in MessageQueue::Get (called by ProcessMessages), "receive"
\* in the loop of ReceiveSends, "handle" in OnMessage; "post", "send" and "quit"
\* are calls on `peer'.
Frame ==
    [kind   : {"get", "receive", "handle", "post", "send", "quit"},
     at     : {"sends", "poll", "stop", "wait", "queue", "wake", "check", ""},
     peer   : Thread,
     id     : Nat,
     time   : Nat,          \* get: msCurrent, then cmsDelayNext, then the end
                            \* of the wait (0: for ever); post and handle: the
                            \* trigger
     waited : BOOLEAN]

VARIABLES
    stack,      \* frames of each thread, the innermost last
    msgq,       \* ready messages
    dmsgq,      \* delayed messages, soonest first
    sendlist,
    has_sends,  \* threads whose has_sends_ is set
    fStop,      \* threads whose fStop_ is set
    signaled,   \* threads whose socket server has a WakeUp pending
    ready,      \* ids of Sends whose `ready' is set
    next,       \* id of the next message (dmsgq_next_num_ orders the same way)
    now,
    posts, sends, quits     \* what is left of the bounds

queue_vars == <<msgq, dmsgq, sendlist, has_sends>>
bound_vars == <<posts, sends, quits>>
vars == <<stack, queue_vars, fStop, signaled, ready, next, now,
          bound_vars>>

NewFrame(kind, at, peer, id, time) ==
    [kind |-> kind, at |-> at, peer |-> peer, id |-> id, time |-> time,
     waited |-> FALSE]

Init ==
    /\ stack = [t \in Thread |->
                   IF t \in Outside THEN <<NewFrame("handle", "", t, 0, 0)>>
                   ELSE <<NewFrame("get", "sends", t, 0, 1)>>]
    /\ msgq = [t \in Thread |-> <<>>]
    /\ dmsgq = [t \in Thread |-> <<>>]
    /\ sendlist = [t \in Thread |-> <<>>]
    /\ has_sends = {} /\ fStop = {} /\ signaled = {}
    /\ ready = {}
    /\ next = 1
    /\ now = 1
    /\ posts = MaxPosts /\ sends = MaxSends /\ quits = MaxQuits

-----------------------------------------------------------------------------
Depth(t) == Len(stack[t])
Top(t)   == stack[t][Depth(t)]
In(t, kind, at) == Depth(t) > 0 /\ Top(t).kind = kind /\ Top(t).at = at

Under(t) == SubSeq(stack[t], 1, Depth(t) - 1)

Pop(t)        == stack' = [stack EXCEPT ![t] = Under(t)]
Become(t, f)  == stack' = [stack EXCEPT ![t] = Append(Under(t), f)]
Enter(t, f, g) == stack' = [stack EXCEPT ![t] = Append(Append(Under(t), f), g)]

ReceiveFrame(t) == NewFrame("receive", "", t, 0, 0)

\* Thread::ReceiveSends up to its loop, called in frame f, which goes on as g.
\* has_sends_ is read without the lock.
ReceiveSends(t, g) ==
    IF t \in has_sends THEN Enter(t, g, ReceiveFrame(t)) ELSE Become(t, g)

-----------------------------------------------------------------------------
(* MessageQueue::Get and Thread::ProcessMessages.                          *)

GetSends(t) ==
    /\ In(t, "get", "sends")
    /\ ReceiveSends(t, [Top(t) EXCEPT !.at = "poll"])
    /\ UNCHANGED <<queue_vars, fStop, signaled, ready, next, now,
                   bound_vars>>

Triggered(trigger, time) == trigger <= time

\* Seeded fault: the operands of TimeDiff are swapped.
Since(t, trigger) == Top(t).time - trigger
\* cmsDelayNext
Until(t, trigger) == trigger - Top(t).time

\* n messages of the delayed queue have triggered.
IsTriggered(t, n) ==
    /\ \A i \in 1 .. n : Triggered(dmsgq[t][i].trigger, Top(t).time)
    /\ n < Len(dmsgq[t]) => ~Triggered(dmsgq[t][n + 1].trigger, Top(t).time)

\* Under the lock: what has triggered joins the queue, and the first message of
\* it is dispatched by the loop.
GetPoll(t) ==
    /\ In(t, "get", "poll")
    /\ \E n \in 0 .. Len(dmsgq[t]) :
        /\ IsTriggered(t, n)
        /\ LET q    == msgq[t] \o SubSeq(dmsgq[t], 1, n)
               rest == SubSeq(dmsgq[t], n + 1, Len(dmsgq[t]))
           IN  /\ dmsgq' = [dmsgq EXCEPT ![t] = rest]
               /\ IF q = <<>>
                  THEN /\ Become(t, [Top(t) EXCEPT !.at = "stop",
                                       !.time = IF rest = <<>> THEN 0
                                                ELSE Until(t, rest[1].trigger)])
                       /\ UNCHANGED msgq
                  ELSE /\ msgq' = [msgq EXCEPT ![t] = Tail(q)]
                       /\ Become(t, NewFrame("handle", "", t, Head(q).id,
                                             Head(q).trigger))
    /\ UNCHANGED <<sendlist, has_sends, fStop, signaled, ready, next,
                   now, bound_vars>>

\* Dispatch returns to ProcessMessages, whose next Get reads the clock.
NextGet(t) ==
    /\ In(t, "handle", "")
    /\ Depth(t) = 1 /\ t \notin Outside
    /\ Become(t, NewFrame("get", "sends", t, 0, now))
    /\ UNCHANGED <<queue_vars, fStop, signaled, ready, next, now,
                   bound_vars>>

\* Nothing was ready: the loop ends if the queue is quitting, and waits
\* otherwise, as long as the first delayed message asked then.
GetStop(t) ==
    /\ In(t, "get", "stop")
    /\ IF t \in fStop THEN Pop(t)
       ELSE Become(t, [Top(t) EXCEPT !.at = "wait",
                           !.time = IF @ = 0 THEN 0 ELSE now + @])
    /\ UNCHANGED <<queue_vars, fStop, signaled, ready, next, now,
                   bound_vars>>

\* SocketServer::Wait returns: woken, or the time is over.
GetWait(t) ==
    /\ In(t, "get", "wait")
    /\ t \in signaled \/ (Top(t).time # 0 /\ now >= Top(t).time)
    /\ signaled' = signaled \ {t}
    /\ Become(t, NewFrame("get", "sends", t, 0, now))
    /\ UNCHANGED <<queue_vars, fStop, ready, next, now, bound_vars>>

-----------------------------------------------------------------------------
(* Thread::ReceiveSends.                                                   *)

ReceiveOne(t) ==
    /\ In(t, "receive", "")
    /\ sendlist[t] # <<>>
    /\ LET s == Head(sendlist[t])
       IN  stack' = [stack EXCEPT ![t] =
                        Append(@, NewFrame("handle", "", s.from, s.id, 0))]
    /\ sendlist' = [sendlist EXCEPT ![t] = Tail(@)]
    /\ UNCHANGED <<msgq, dmsgq, has_sends, fStop, signaled, ready,
                   next, now, bound_vars>>

ReceiveEnd(t) ==
    /\ In(t, "receive", "")
    /\ sendlist[t] = <<>>
    /\ has_sends' = has_sends \ {t}
    /\ Pop(t)
    /\ UNCHANGED <<msgq, dmsgq, sendlist, fStop, signaled, ready,
                   next, now, bound_vars>>

\* Under the lock: the sender is told.
Answer(f) ==
    /\ ready' = ready \union {f.id}
    /\ signaled' = signaled \union {f.peer}

\* OnMessage returns to ReceiveSends, or to a Send to the thread itself.
HandlerReturns(t) ==
    /\ In(t, "handle", "")
    /\ Depth(t) > 1
    /\ Pop(t)
    /\ IF stack[t][Depth(t) - 1].kind = "receive"
       THEN Answer(Top(t))
       ELSE UNCHANGED <<ready, signaled>>
    /\ UNCHANGED <<queue_vars, fStop, next, now, bound_vars>>

-----------------------------------------------------------------------------
(* Calls of a handler.                                                     *)

\* The bound MaxCalls.
CallsLeft ==
    (MaxPosts - posts) + (MaxSends - sends) + (MaxQuits - quits) < MaxCalls

\* Post or PostDelayed to u: fStop_ is read before the lock is taken.
Post(t, u, delay) ==
    /\ In(t, "handle", "")
    /\ CallsLeft /\ posts > 0 /\ posts' = posts - 1
    /\ u \notin fStop
    /\ stack' = [stack EXCEPT ![t] =
                    Append(@, NewFrame("post", "", u, 0,
                                  IF delay = 0 THEN 0 ELSE now + delay))]
    /\ UNCHANGED <<queue_vars, fStop, signaled, ready, next, now,
                   sends, quits>>

\* Seeded fault: a delayed message goes before those of the same time.
InsertBefore(q, i, m) ==
    /\ \A j \in 1 .. i - 1 : q[j].trigger < m.trigger
    /\ i <= Len(q) => q[i].trigger >= m.trigger
\* The place of m in the delayed queue q: behind those of the same time.
InsertAfter(q, i, m) ==
    /\ \A j \in 1 .. i - 1 : q[j].trigger <= m.trigger
    /\ i <= Len(q) => q[i].trigger > m.trigger

WakeReader(u, m) == signaled' = signaled \union {u}

\* The rest of Post and DoDelayPost, under the lock.
PostQueue(t) ==
    /\ In(t, "post", "")
    /\ LET u == Top(t).peer
           m == [id |-> next, trigger |-> Top(t).time, late |-> u \in fStop]
       IN  /\ IF m.trigger = 0
              THEN msgq' = [msgq EXCEPT ![u] = Append(@, m)] /\ UNCHANGED dmsgq
              ELSE /\ \E i \in 1 .. Len(dmsgq[u]) + 1 :
                        /\ InsertAfter(dmsgq[u], i, m)
                        /\ dmsgq' = [dmsgq EXCEPT ![u] =
                                        SubSeq(@, 1, i - 1) \o <<m>>
                                        \o SubSeq(@, i, Len(@))]
                   /\ UNCHANGED msgq
           /\ WakeReader(u, m)
    /\ next' = next + 1
    /\ Pop(t)
    /\ UNCHANGED <<sendlist, has_sends, fStop, ready, now, bound_vars>>

\* Send to another thread; it returns at once when fStop_ is set.
Send(t, u) ==
    /\ In(t, "handle", "")
    /\ CallsLeft /\ sends > 0 /\ sends' = sends - 1
    /\ u # t /\ u \notin fStop
    /\ stack' = [stack EXCEPT ![t] =
                    Append(@, NewFrame("send", "queue", u, next, 0))]
    /\ next' = next + 1
    /\ UNCHANGED <<queue_vars, fStop, signaled, ready, now, posts,
                   quits>>

\* Send to the thread itself calls the handler.
SendSelf(t) ==
    /\ In(t, "handle", "")
    /\ CallsLeft /\ sends > 0 /\ sends' = sends - 1
    /\ t \notin fStop
    /\ stack' = [stack EXCEPT ![t] =
                    Append(@, NewFrame("handle", "", t, next, 0))]
    /\ next' = next + 1
    /\ UNCHANGED <<queue_vars, fStop, signaled, ready, now, posts,
                   quits>>

\* Seeded fault: the flag is left to the receiver.
KeepFlag(u) == UNCHANGED has_sends
RaiseFlag(u) == has_sends' = has_sends \union {u}

SendQueue(t) ==
    /\ In(t, "send", "queue")
    /\ LET u == Top(t).peer
           s == [id |-> Top(t).id, from |-> t, late |-> u \in fStop]
       IN  /\ sendlist' = [sendlist EXCEPT ![u] = Append(@, s)]
           /\ RaiseFlag(u)
    /\ Become(t, [Top(t) EXCEPT !.at = "wake"])
    /\ UNCHANGED <<msgq, dmsgq, fStop, signaled, ready, next, now,
                   bound_vars>>

SendWake(t) ==
    /\ In(t, "send", "wake")
    /\ signaled' = signaled \union {Top(t).peer}
    /\ Become(t, [Top(t) EXCEPT !.at = "check"])
    /\ UNCHANGED <<queue_vars, fStop, ready, next, now, bound_vars>>

Answered(t) == Top(t).id \in ready

\* Seeded fault: the Sends made to the thread are not served while it waits.
SendChecksOnly(t) ==
    /\ In(t, "send", "check")
    /\ ~Answered(t)
    /\ Become(t, [Top(t) EXCEPT !.at = "wait"])
    /\ UNCHANGED <<queue_vars, fStop, signaled, ready, next, now,
                   bound_vars>>

\* while (!ready): serve the Sends made to this thread, then wait.
SendCheck(t) ==
    /\ In(t, "send", "check")
    /\ ~Answered(t)
    /\ ReceiveSends(t, [Top(t) EXCEPT !.at = "wait"])
    /\ UNCHANGED <<queue_vars, fStop, signaled, ready, next, now,
                   bound_vars>>

SendWait(t) ==
    /\ In(t, "send", "wait")
    /\ t \in signaled
    /\ signaled' = signaled \ {t}
    /\ Become(t, [Top(t) EXCEPT !.at = "check", !.waited = TRUE])
    /\ UNCHANGED <<queue_vars, fStop, ready, next, now, bound_vars>>

\* Seeded fault: the WakeUps the wait consumed are lost.
LoseWakeUps(t) == UNCHANGED signaled
\* The wait may have consumed WakeUps meant for the loop: give one back.
RestoreWakeUp(t) ==
    signaled' = IF Top(t).waited THEN signaled \union {t} ELSE signaled

SendReturns(t) ==
    /\ In(t, "send", "check")
    /\ Answered(t)
    /\ RestoreWakeUp(t)
    /\ Pop(t)
    /\ UNCHANGED <<queue_vars, fStop, ready, next, now, bound_vars>>

\* MessageQueue::Quit: no lock is taken.
Quit(t, u) ==
    /\ In(t, "handle", "")
    /\ CallsLeft /\ quits > 0 /\ quits' = quits - 1
    /\ fStop' = fStop \union {u}
    /\ stack' = [stack EXCEPT ![t] =
                    Append(@, NewFrame("quit", "wake", u, 0, 0))]
    /\ UNCHANGED <<queue_vars, signaled, ready, next, now, posts, sends>>

QuitWake(t) ==
    /\ In(t, "quit", "wake")
    /\ signaled' = signaled \union {Top(t).peer}
    /\ Pop(t)
    /\ UNCHANGED <<queue_vars, fStop, ready, next, now, bound_vars>>

\* No call on u is in progress but Sends that wait for their answer.
Unused(u) ==
    \A t \in Thread : \A i \in 1 .. Depth(t) :
        LET f == stack[t][i]
        IN  f.peer = u => /\ f.kind \notin {"post", "quit"}
                          /\ f.kind = "send" => f.at \in {"check", "wait"}

\* ~Thread after the thread was joined: Thread::Clear and ~MessageQueue.
\* fStop_ stays set, so no call is made on it any more.
Destroy(t, u) ==
    /\ In(t, "handle", "")
    /\ stack[u] = <<>>
    /\ u \in fStop
    /\ Unused(u)
    /\ msgq[u] # <<>> \/ dmsgq[u] # <<>> \/ sendlist[u] # <<>>
    /\ LET s == sendlist[u]
       IN  /\ ready' = ready \union {s[i].id : i \in 1 .. Len(s)}
           /\ signaled' = signaled \union {s[i].from : i \in 1 .. Len(s)}
    /\ msgq' = [msgq EXCEPT ![u] = <<>>]
    /\ dmsgq' = [dmsgq EXCEPT ![u] = <<>>]
    /\ sendlist' = [sendlist EXCEPT ![u] = <<>>]
    /\ UNCHANGED <<stack, has_sends, fStop, next, now, bound_vars>>

\* After MaxTime the clock goes on only as long as a thread sleeps till then.
Tick ==
    /\ now < MaxTime
       \/ \E t \in Thread : In(t, "get", "wait") /\ now < Top(t).time
    /\ now' = now + 1
    /\ UNCHANGED <<stack, queue_vars, fStop, signaled, ready, next,
                   bound_vars>>

-----------------------------------------------------------------------------
\* What a thread does without deciding anything.
Step(t) ==
    \/ GetSends(t) \/ GetPoll(t) \/ NextGet(t) \/ GetStop(t) \/ GetWait(t)
    \/ ReceiveOne(t) \/ ReceiveEnd(t) \/ HandlerReturns(t)
    \/ PostQueue(t) \/ QuitWake(t)
    \/ SendQueue(t) \/ SendWake(t) \/ SendCheck(t) \/ SendWait(t)
    \/ SendReturns(t)

Call(t) ==
    \/ \E u \in Thread :
        \/ \E delay \in Delays \union {0} : Post(t, u, delay)
        \/ Send(t, u)
        \/ Quit(t, u)
        \/ Destroy(t, u)
    \/ SendSelf(t)

Next == (\E t \in Thread : Step(t) \/ Call(t)) \/ Tick

Spec == Init /\ [][Next]_vars

\* The platform runs every thread, handlers return, and time passes.
FairSpec == Spec /\ (\A t \in Thread : WF_vars(Step(t))) /\ WF_vars(Tick)

-----------------------------------------------------------------------------
\* Every variable has its type.
TypeOK ==
    /\ stack \in [Thread -> Seq(Frame)]
    /\ msgq \in [Thread -> Seq(Message)]
    /\ dmsgq \in [Thread -> Seq(Message)]
    /\ sendlist \in [Thread -> Seq(SendMessage)]
    /\ has_sends \subseteq Thread
    /\ fStop \subseteq Thread
    /\ signaled \subseteq Thread
    /\ ready \subseteq Nat
    /\ next \in Nat /\ now \in Nat
    /\ posts \in 0 .. MaxPosts /\ sends \in 0 .. MaxSends
    /\ quits \in 0 .. MaxQuits

\* A thread about to wake thread t.
Waking(t) ==
    \E u \in Thread :
        (In(u, "send", "wake") \/ In(u, "quit", "wake")) /\ Top(u).peer = t

\* A thread that waits in Get while there is something for it has a WakeUp
\* pending or on its way, although nested Sends consume WakeUps too.
LoopIsWoken ==
    \A t \in Thread :
        /\ In(t, "get", "wait")
        /\ msgq[t] # <<>> \/ sendlist[t] # <<>> \/ t \in fStop
        => t \in signaled \/ Waking(t)

\* A thread that waits in Send for an answer that is there, or while a Send is
\* made to it, has a WakeUp pending or on its way.
SenderIsWoken ==
    \A t \in Thread :
        /\ In(t, "send", "wait")
        /\ Top(t).id \in ready \/ sendlist[t] # <<>>
        => t \in signaled \/ Waking(t)

\* has_sends_, read without the lock, is set whenever a Send is listed.
SendsAreFlagged == \A t \in Thread : sendlist[t] # <<>> => t \in has_sends

\* While the handler of a Send runs, its sender waits for it.
SenderWaits ==
    \A t \in Thread : \A i \in 2 .. Depth(t) :
        stack[t][i].kind = "handle" /\ stack[t][i - 1].kind = "receive" =>
            LET f == stack[t][i]
            IN  \E j \in 1 .. Depth(f.peer) :
                    /\ stack[f.peer][j].kind = "send"
                    /\ stack[f.peer][j].id = f.id
                    /\ f.id \notin ready

\* A Send lasts as long as its handler runs, and who waits in it is woken
\* (Thread::Send, ReceiveSends).
SendsWait == SenderIsWoken /\ SenderWaits

\* A delayed message is not dispatched before its time, and those of one time
\* are queued in the order they were posted.
DelayKept ==
    \A t \in Thread :
        /\ \A i \in 1 .. Depth(t) :
               stack[t][i].kind = "handle" => stack[t][i].time <= now
        /\ LET q == msgq[t] \o dmsgq[t]
           IN  \A i, j \in 1 .. Len(q) :
                   i < j /\ q[i].trigger = q[j].trigger => q[i].id < q[j].id

Sending(t) == \E i \in 1 .. Depth(t) : stack[t][i].kind = "send"

\* No Send is left for ever to a thread that serves none: one of Outside that is
\* in no Send itself, or one that has finished and is not destroyed.
Served ==
    []<>(\A t \in Thread :
            (t \in Outside /\ ~Sending(t)) \/ stack[t] = <<>>
                => sendlist[t] = <<>>)

\* Every Send returns when two threads send to each other, crossed or in each
\* other's handlers, beside posts and Quit.  (The run has two threads; that no
\* Send of a third one costs a sender its wake-up is SenderIsWoken.)
EverySendReturns == Served => \A t \in Thread : Sending(t) ~> ~Sending(t)

\* Every message posted to a thread that runs its loop and is not quit is taken
\* from the queue, the delayed ones once their time has come.
EveryPostTaken ==
    Served =>
        \A t \in Thread \ Outside :
            /\ msgq[t] # <<>> ~> msgq[t] = <<>> \/ t \in fStop
            /\ dmsgq[t] # <<>> /\ dmsgq[t][1].trigger <= now
                   ~> \/ dmsgq[t] = <<>> \/ dmsgq[t][1].trigger > now
                      \/ t \in fStop

\* Sends return and posts are taken (Thread::Send, MessageQueue::Get).
AllAnswered == EverySendReturns /\ EveryPostTaken

\* What messagequeue.h promises of a stopped queue: "any pending Sends and
\* *ready* Posts [...] will be delivered before Get (or Peek) returns false".
QuitDelivers ==
    \A t \in Thread :
        stack[t] = <<>> =>
            /\ \A i \in 1 .. Len(msgq[t]) : msgq[t][i].late
            /\ \A i \in 1 .. Len(sendlist[t]) : sendlist[t][i].late
=============================================================================
