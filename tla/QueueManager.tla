------------------------------ MODULE QueueManager ------------------------------
(***************************************************************************)
(* Message handlers and the queues that hold messages for them             *)
(* (talk/base messagequeue.cc, messagehandler.cc, thread.cc): a handler    *)
(* that is destroyed is taken out of every active queue by the             *)
(* MessageQueueManager; queues become active with their first message and  *)
(* go with their thread; threads are started, stopped, joined and started  *)
(* again.  MessageThread has the rest of Get and Send.                     *)
(*                                                                         *)
(* Thread 1 is the main thread; the others are made, stopped and deleted   *)
(* by it.  Handlers are called and destroyed on their home thread; the     *)
(* main thread also destroys one whose home does not run.  Nobody posts to *)
(* a handler that is being destroyed.  A delayed message is due at any     *)
(* time.  The locks are those of the queues and of the manager.            *)
(***************************************************************************)
EXTENDS Naturals, Sequences, FiniteSets, SequencesExt

CONSTANTS
    Thread,         \* each with its queue
    Handler,
    Home,           \* [Handler -> Thread]
    MaxCalls        \* bound: calls of the application

Message == [id : Nat, handler : Handler \cup {"nobody"}]
NoMessage == [id |-> 0, handler |-> "nobody"]

VARIABLES
    msgq, dmsgq, sendlist,  \* of each queue; a Send is by thread 1
    msgPeek,        \* of each queue, NoMessage unless fPeekKeep_
    fStop, active,
    message_queues, \* the manager's list
    manager,        \* who holds the manager's lock, 0: nobody
    crit,           \* [queue -> who holds its lock]
    handlers,       \* that exist
    started,        \* threads with an operating system thread
    exists,         \* threads that have not been deleted
    at,             \* of each thread: "none", "loop", "took", "handler", "add",
                    \* "clear", "send", "remove" or "ended"
    doing,          \* its message, the handler it destroys, the queues to go
    data,           \* [message -> what became of its pdata]
    stale,          \* a handler was called that was gone
    calls

queue_vars == <<msgq, dmsgq, sendlist, msgPeek>>
thread_vars == <<fStop, started, exists>>
lock_vars == <<active, message_queues, manager, crit>>
vars == <<queue_vars, thread_vars, lock_vars, handlers, at, doing, data, stale, calls>>

Nothing == [message |-> NoMessage, handler |-> "nobody", queues |-> <<>>, back |-> "loop",
            resume |-> "loop"]

Init ==
    /\ msgq = [q \in Thread |-> <<>>] /\ dmsgq = [q \in Thread |-> <<>>]
    /\ sendlist = [q \in Thread |-> <<>>] /\ msgPeek = [q \in Thread |-> NoMessage]
    /\ fStop = {} /\ active = {} /\ message_queues = <<>> /\ manager = 0
    /\ crit = [q \in Thread |-> 0]
    /\ handlers = Handler /\ started = {1} /\ exists = Thread
    /\ at = [t \in Thread |-> IF t = 1 THEN "loop" ELSE "none"]
    /\ doing = [t \in Thread |-> Nothing]
    /\ data = <<>> /\ stale = FALSE /\ calls = 0

\* Code of the application runs in handlers and, on the main thread, between.
Calls(t) ==
    /\ \/ at[t] = "handler"
       \/ t = 1 /\ at[1] = "loop"
    /\ calls < MaxCalls /\ calls' = calls + 1

Dying == {doing[t].handler : t \in Thread}
Alive(h) == h \in handlers /\ h \notin Dying
Free(q) == crit[q] = 0

\* A message of Dispose has no handler.
IsDispose(m) == m.handler = "nobody"
NewMessage(h) == [id |-> Len(data) + 1, handler |-> h]

-----------------------------------------------------------------------------
(* Posting.                                                                *)

Push(q, m, delayed) ==
    IF delayed THEN dmsgq' = [dmsgq EXCEPT ![q] = Append(@, m)] /\ UNCHANGED msgq
    ELSE msgq' = [msgq EXCEPT ![q] = Append(@, m)] /\ UNCHANGED dmsgq

\* Post and DoDelayPost; a message without a handler is one of Dispose.  A queue
\* that was not active is added to the manager's list, under both locks.
Post(t, q, h, delayed) ==
    /\ Calls(t) /\ q \in exists /\ Free(q)
    /\ (h = "nobody" \/ (Alive(h) /\ Home[h] = q))
    /\ IF q \in fStop
       THEN /\ data' = Append(data, "refused")
            /\ UNCHANGED <<msgq, dmsgq, crit, at, doing>>
       ELSE /\ Push(q, NewMessage(h), delayed)
            /\ data' = Append(data, "queued")
            /\ IF q \in active THEN UNCHANGED <<crit, at, doing>>
               ELSE /\ crit' = [crit EXCEPT ![q] = t]
                    /\ at' = [at EXCEPT ![t] = "add"]
                    /\ doing' = [doing EXCEPT ![t].queues = <<q>>, ![t].back = at[t]]
    /\ UNCHANGED <<sendlist, msgPeek, thread_vars, active, message_queues, manager,
                   handlers, stale>>

Listed(q) == Append(message_queues, q)

\* EnsureActive.
Add(t) ==
    /\ at[t] = "add" /\ manager = 0
    /\ LET q == Head(doing[t].queues) IN
       /\ active' = active \cup {q}
       /\ message_queues' = Listed(q)
       /\ crit' = [crit EXCEPT ![q] = 0]
    /\ at' = [at EXCEPT ![t] = doing[t].back]
    /\ doing' = [doing EXCEPT ![t].queues = <<>>]
    /\ UNCHANGED <<queue_vars, thread_vars, manager, handlers, data, stale, calls>>

\* Thread::Send by the main thread, which waits; the queue becomes active too.
Send(q, h) ==
    /\ Calls(1) /\ q \in exists \ {1} /\ q \notin fStop /\ Free(q)
    /\ Alive(h) /\ Home[h] = q
    /\ sendlist' = [sendlist EXCEPT ![q] = Append(@, NewMessage(h))]
    /\ data' = Append(data, "queued")
    /\ doing' = [doing EXCEPT ![1].resume = at[1], ![1].queues = <<q>>, ![1].back = "send"]
    /\ IF q \in active THEN at' = [at EXCEPT ![1] = "send"] /\ UNCHANGED crit
       ELSE at' = [at EXCEPT ![1] = "add"] /\ crit' = [crit EXCEPT ![q] = 1]
    /\ UNCHANGED <<msgq, dmsgq, msgPeek, thread_vars, active, message_queues, manager,
                   handlers, stale>>

\* Its message is in no list and has been handled, or cleared.
Sent ==
    /\ at[1] = "send"
    /\ \A q \in Thread : sendlist[q] = <<>>
    /\ \A k \in DOMAIN data : data[k] # "sent"
    /\ at' = [at EXCEPT ![1] = doing[1].resume]
    /\ UNCHANGED <<queue_vars, thread_vars, lock_vars, handlers, doing, data, stale, calls>>

-----------------------------------------------------------------------------
(* Taking and dispatching.                                                 *)

Take(t, m, how) ==
    /\ at' = [at EXCEPT ![t] = "took"]
    /\ doing' = [doing EXCEPT ![t].message = m]
    /\ data' = [data EXCEPT ![m.id] = how]

\* ReceiveSends comes first.
Receive(t) ==
    /\ at[t] = "loop" /\ Free(t) /\ sendlist[t] # <<>>
    /\ sendlist' = [sendlist EXCEPT ![t] = Tail(@)]
    /\ Take(t, Head(sendlist[t]), "sent")
    /\ UNCHANGED <<msgq, dmsgq, msgPeek, thread_vars, lock_vars, handlers, stale, calls>>

\* A delayed message is due.
Trigger(t) ==
    /\ at[t] = "loop" /\ Free(t) /\ sendlist[t] = <<>> /\ dmsgq[t] # <<>>
    /\ msgq' = [msgq EXCEPT ![t] = Append(@, Head(dmsgq[t]))]
    /\ dmsgq' = [dmsgq EXCEPT ![t] = Tail(@)]
    /\ UNCHANGED <<sendlist, msgPeek, thread_vars, lock_vars, handlers, at, doing, data,
                   stale, calls>>

Ready(t) == at[t] = "loop" /\ Free(t) /\ sendlist[t] = <<>>

\* Get: the message that was peeked at, or the next.  The delete of what is to
\* be disposed of is commented out.
Get(t) ==
    /\ Ready(t)
    /\ IF msgPeek[t] # NoMessage
       THEN /\ Take(t, msgPeek[t], "taken")
            /\ msgPeek' = [msgPeek EXCEPT ![t] = NoMessage] /\ UNCHANGED msgq
       ELSE /\ msgq[t] # <<>>
            /\ msgq' = [msgq EXCEPT ![t] = Tail(@)]
            /\ IF IsDispose(Head(msgq[t]))
               THEN data' = [data EXCEPT ![Head(msgq[t]).id] = "kept"]
                    /\ UNCHANGED <<at, doing>>
               ELSE Take(t, Head(msgq[t]), "taken")
            /\ UNCHANGED msgPeek
    /\ UNCHANGED <<dmsgq, sendlist, thread_vars, lock_vars, handlers, stale, calls>>

\* Peek, on the main thread: the next message stays first.
Peek ==
    /\ Calls(1) /\ Ready(1) /\ msgPeek[1] = NoMessage
    /\ msgq[1] # <<>> /\ ~IsDispose(Head(msgq[1]))
    /\ msgPeek' = [msgPeek EXCEPT ![1] = Head(msgq[1])]
    /\ msgq' = [msgq EXCEPT ![1] = Tail(@)]
    /\ UNCHANGED <<dmsgq, sendlist, thread_vars, lock_vars, handlers, at, doing, data,
                   stale>>

\* The handler is called.
Dispatch(t) ==
    /\ at[t] = "took"
    /\ at' = [at EXCEPT ![t] = "handler"]
    /\ stale' = (stale \/ doing[t].message.handler \notin handlers)
    /\ UNCHANGED <<queue_vars, thread_vars, lock_vars, handlers, doing, data, calls>>

Return(t) ==
    /\ at[t] = "handler"
    /\ at' = [at EXCEPT ![t] = "loop"]
    /\ doing' = [doing EXCEPT ![t] = Nothing]
    /\ data' = [data EXCEPT ![doing[t].message.id] = "taken"]
    /\ UNCHANGED <<queue_vars, thread_vars, lock_vars, handlers, stale, calls>>

-----------------------------------------------------------------------------
(* Clearing.                                                               *)

\* Message::Match; "nobody" matches all.
Matches(m, h) == h = "nobody" \/ m.handler = h
Keep(list, h) ==
    LET kept == {i \in DOMAIN list : ~Matches(list[i], h)}
    IN  [k \in 1 .. Cardinality(kept) |->
            list[CHOOSE i \in kept : Cardinality({j \in kept : j <= i}) = k]]
Ids(list) == {list[k].id : k \in DOMAIN list}

\* Seeded fault: a message that was peeked at is not looked for.
PeekKept(q, h) == msgPeek
PeekCleared(q, h) == IF Matches(msgPeek[q], h) THEN [msgPeek EXCEPT ![q] = NoMessage] ELSE msgPeek

\* The sender of what Thread::Clear removes goes on.
KeptSends(q, h) == [sendlist EXCEPT ![q] = Keep(@, h)]

\* Thread::Clear and MessageQueue::Clear: what is removed is deleted.
Clear(q, h) ==
    /\ msgq' = [msgq EXCEPT ![q] = Keep(@, h)]
    /\ dmsgq' = [dmsgq EXCEPT ![q] = Keep(@, h)]
    /\ sendlist' = KeptSends(q, h)
    /\ msgPeek' = PeekCleared(q, h)
    /\ LET before == Ids(msgq[q]) \cup Ids(dmsgq[q]) \cup Ids(sendlist[q]) \cup {msgPeek[q].id}
           after == Ids(msgq'[q]) \cup Ids(dmsgq'[q]) \cup Ids(sendlist'[q]) \cup {msgPeek'[q].id}
       IN  data' = [k \in DOMAIN data |-> IF k \in before \ after THEN "deleted" ELSE data[k]]

\* ~MessageHandler, on its home thread or while that does not run: the manager
\* clears one queue after the other.
DestroyHandler(t, h) ==
    /\ Calls(t) /\ Alive(h) /\ manager = 0
    /\ \/ Home[h] = t
       \/ t = 1 /\ Home[h] \notin started
    /\ \A u \in Thread : at[u] = "add" => Head(doing[u].queues) # Home[h]
    /\ manager' = t
    /\ at' = [at EXCEPT ![t] = "clear"]
    /\ doing' = [doing EXCEPT ![t].handler = h, ![t].queues = message_queues,
                              ![t].back = at[t]]
    /\ UNCHANGED <<queue_vars, thread_vars, active, message_queues, crit, handlers, data,
                   stale>>

ClearNext(t) ==
    /\ at[t] = "clear" /\ doing[t].queues # <<>>
    /\ Free(Head(doing[t].queues))
    /\ Clear(Head(doing[t].queues), doing[t].handler)
    /\ doing' = [doing EXCEPT ![t].queues = Tail(@)]
    /\ UNCHANGED <<thread_vars, lock_vars, handlers, at, stale, calls>>

ClearEnds(t) ==
    /\ at[t] = "clear" /\ doing[t].queues = <<>>
    /\ manager' = 0
    /\ handlers' = handlers \ {doing[t].handler}
    /\ doing' = [doing EXCEPT ![t].handler = "nobody"]
    /\ at' = [at EXCEPT ![t] = doing[t].back]
    /\ UNCHANGED <<queue_vars, thread_vars, active, message_queues, crit, data, stale, calls>>

-----------------------------------------------------------------------------
(* Threads.                                                                *)

\* Thread::Start; Restart lets messages in again.
Start(t) ==
    /\ Calls(1) /\ t \in exists \ started
    /\ started' = started \cup {t} /\ fStop' = fStop \ {t}
    /\ at' = [at EXCEPT ![t] = "loop"]
    /\ UNCHANGED <<queue_vars, exists, lock_vars, handlers, doing, data, stale>>

Quit(t) ==
    /\ Calls(1) /\ t \in started \ {1}
    /\ fStop' = fStop \cup {t}
    /\ UNCHANGED <<queue_vars, started, exists, lock_vars, handlers, at, doing, data, stale>>

\* Get returns false when it finds nothing and fStop_; delayed messages stay.
LoopEnds(t) ==
    /\ Ready(t) /\ t \in fStop /\ msgq[t] = <<>>
    /\ at' = [at EXCEPT ![t] = "ended"]
    /\ UNCHANGED <<queue_vars, thread_vars, lock_vars, handlers, doing, data, stale, calls>>

Join(t) ==
    /\ Calls(1) /\ t \in started \cap fStop /\ at[t] = "ended"
    /\ started' = started \ {t}
    /\ UNCHANGED <<queue_vars, fStop, exists, lock_vars, handlers, at, doing, data, stale>>

\* ~MessageQueue takes the queue out of the manager's list, if it is there.
RemoveQueue(t) ==
    IF t \in active
    THEN message_queues' = RemoveAt(message_queues, CHOOSE j \in DOMAIN message_queues :
                                                        message_queues[j] = t)
    ELSE UNCHANGED message_queues

\* ~Thread of a thread that has been joined, and ~MessageQueue.
Delete(t) ==
    /\ Calls(1) /\ t \in exists \ (started \cup {1}) /\ manager = 0 /\ Free(t)
    /\ exists' = exists \ {t}
    /\ RemoveQueue(t)
    /\ IF t \in active THEN Clear(t, "nobody") ELSE UNCHANGED <<queue_vars, data>>
    /\ UNCHANGED <<fStop, started, active, manager, crit, handlers, at, doing, stale>>

ThreadStep(t) ==
    \/ Add(t) \/ Receive(t) \/ Trigger(t) \/ Get(t) \/ Dispatch(t) \/ Return(t)
    \/ ClearNext(t) \/ ClearEnds(t) \/ LoopEnds(t)

Next ==
    \/ \E t \in Thread :
          \/ ThreadStep(t) \/ Start(t) \/ Quit(t) \/ Join(t) \/ Delete(t)
          \/ \E h \in Handler : DestroyHandler(t, h) \/ Send(t, h)
          \/ \E q \in Thread, h \in Handler \cup {"nobody"}, delayed \in BOOLEAN :
                Post(t, q, h, delayed)
    \/ Sent \/ Peek

\* Every thread that can go on does.
Fairness == WF_vars(Sent) /\ \A t \in Thread : WF_vars(ThreadStep(t))

Spec == Init /\ [][Next]_vars /\ Fairness

-----------------------------------------------------------------------------

TypeOK ==
    /\ handlers \subseteq Handler /\ active \subseteq Thread /\ exists \subseteq Thread
    /\ manager \in Thread \cup {0} /\ fStop \cup started \subseteq Thread
    /\ \A t \in Thread : crit[t] \in Thread \cup {0}
                         /\ at[t] \in {"none", "loop", "took", "handler", "add", "clear",
                                       "send", "ended"}

Held(q) ==
    {m.handler : m \in ToSet(msgq[q]) \cup ToSet(dmsgq[q]) \cup ToSet(sendlist[q])
                           \cup {msgPeek[q]}} \ {"nobody"}

\* No queue holds a message for a handler that is gone, peeked at, delayed or
\* sent as it may be; and a handler is called only while it exists, on whatever
\* thread it is posted to, although a message is taken before the handler is
\* called (MessageQueueManager::Clear, MessageQueue::Get).
HandlersOutliveMessages ==
    /\ ~stale
    /\ \A q \in Thread : Held(q) \subseteq handlers

\* The manager knows the queues that hold something and no others: none that
\* was deleted is cleared, and none with messages is missed (EnsureActive,
\* ~MessageQueue).
ManagerKnowsQueues ==
    /\ ToSet(message_queues) = active \cap exists
    /\ IsInjective(message_queues)
    /\ \A q \in exists : Held(q) # {} /\ Free(q) => q \in active

\* Destroying a handler ends: the manager's lock and those of the queues are
\* not taken in a circle (MessageQueueManager::Clear, EnsureActive).
DestructionEnds == \A t \in Thread : at[t] = "clear" ~> at[t] # "clear"

\* What is given to Dispose is deleted, as the comment in Get says.  It does not
\* hold: the line that does it is commented out.
DisposedIsDeleted == \A k \in DOMAIN data : data[k] # "kept"
=============================================================================
