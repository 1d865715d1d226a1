------------------------------ MODULE SignalThread ------------------------------
(***************************************************************************)
(* A worker thread that reports to the thread which created it             *)
(* (talk/base/signalthread.cc), as the name resolver uses it: Start,       *)
(* Release and Destroy on the main thread, DoWork on the worker, and       *)
(* ST_MSG_WORKER_DONE through the main thread's queue.                     *)
(*                                                                         *)
(* The two threads share state under cs_, which is recursive.  What one of *)
(* them does while it holds cs_ is one action, unless it blocks there: a   *)
(* join of the worker is a step of its own, with cs_ held in OnMessage and *)
(* without it in Destroy.  The owner calls what the header allows, also    *)
(* from its handler of SignalWorkDone.  It does not destroy there what it  *)
(* has just started there: Destroy leaves cs_ once, OnMessage would still  *)
(* hold it, and the join would not end.                                    *)
(***************************************************************************)
EXTENDS Integers

CONSTANTS
    MaxStarts       \* bound: how often the owner starts it

VARIABLES
    state,          \* state_
    refcount,
    queue,          \* ST_MSG_WORKER_DONE messages in the main thread's queue
    main,           \* main_ is set
    lock,           \* who holds cs_: "free", "main" or "worker"
    main_at,        \* where the main thread is: "idle" between two events,
                    \* "join" in worker_.Stop() of OnMessage, "signal" in its handler
                    \* of SignalWorkDone, "wait" in worker_.Stop() of Destroy,
                    \* "delete" in the destructor, "gone" when its queue is
    do_delete,      \* OnMessage's variable
    started,        \* the worker's started_: it has not been joined
    stopping,       \* the worker's fStop_
    worker_at,      \* "none", "work" in DoWork, "serve" in ContinueWork, "done"
                    \* after DoWork, "posted" when Run is over, "ended"
    deleted,
    owner,          \* "holds" the thread, "released" or "destroyed" it
    due,            \* starts whose work was neither signalled nor destroyed
    starts

worker_vars == <<started, stopping, worker_at>>
vars == <<state, refcount, queue, main, lock, main_at, do_delete, worker_vars,
          deleted, owner, due, starts>>

Init ==
    /\ state = "kInit" /\ refcount = 1 /\ queue = 0 /\ main = TRUE /\ lock = "free"
    /\ main_at = "idle" /\ do_delete = FALSE
    /\ started = FALSE /\ stopping = FALSE /\ worker_at = "none"
    /\ deleted = FALSE /\ owner = "holds" /\ due = 0 /\ starts = 0

\* The main thread runs the owner's code: between two events, when cs_ can be
\* had, or in the handler of SignalWorkDone, called with cs_ held.
OwnerRuns ==
    \/ main_at = "idle" /\ lock = "free"
    \/ main_at = "signal"

\* An EnterExit of the main thread ends and leaves the count at r: at 0 the
\* thread is deleted, which takes its messages out of the queue.
EndMain(r) ==
    /\ refcount' = r
    /\ lock' = "free"
    /\ main_at' = IF r = 0 THEN "delete" ELSE "idle"

-----------------------------------------------------------------------------
(* The owner, on the main thread.                                          *)

\* Thread::Start does nothing to a worker that has not been joined.
Start ==
    /\ OwnerRuns /\ owner = "holds" /\ state \in {"kInit", "kComplete"}
    /\ starts < MaxStarts
    /\ state' = "kRunning" /\ starts' = starts + 1 /\ due' = due + 1
    /\ IF started THEN UNCHANGED worker_vars
       ELSE started' = TRUE /\ stopping' = FALSE /\ worker_at' = "work"
    /\ UNCHANGED <<refcount, queue, main, lock, main_at, do_delete, deleted, owner>>

\* Destroy, and Release, of a worker that does not run.  In the handler the
\* EnterExit of OnMessage keeps the thread until it returns.
GiveUpIdle(how) ==
    /\ OwnerRuns /\ owner = "holds"
    /\ state \in IF how = "destroyed" THEN {"kInit", "kComplete"} ELSE {"kComplete"}
    /\ owner' = how
    /\ IF main_at = "signal" THEN refcount' = refcount - 1 /\ UNCHANGED <<lock, main_at>>
       ELSE EndMain(refcount - 1)
    /\ UNCHANGED <<state, queue, main, do_delete, worker_vars, deleted, due, starts>>

ReleaseRunning ==
    /\ OwnerRuns /\ owner = "holds" /\ state = "kRunning"
    /\ owner' = "released" /\ state' = "kReleasing"
    /\ UNCHANGED <<refcount, queue, main, lock, main_at, do_delete, worker_vars,
                   deleted, due, starts>>

\* Who holds cs_ while Destroy waits.
KeepLock == "main"
LockInWait == "free"

\* Destroy while it runs; an owner that has called Release may still abort it,
\* unless it has been signalled.  OnWorkStop is empty.
Destroy(wait) ==
    /\ main_at = "idle" /\ lock = "free" /\ due = 1
    /\ state \in {"kRunning", "kReleasing"}
    /\ state' = "kStopping" /\ stopping' = TRUE /\ owner' = "destroyed" /\ due' = 0
    /\ IF wait THEN main_at' = "wait" /\ lock' = LockInWait /\ refcount' = refcount + 1
       ELSE UNCHANGED <<main_at, lock, refcount>>
    /\ UNCHANGED <<queue, main, do_delete, started, worker_at, deleted, starts>>

\* The worker has ended, and the lock is had again.
DestroyWaited ==
    /\ main_at = "wait" /\ worker_at = "ended" /\ lock = LockInWait
    /\ started' = FALSE
    /\ EndMain(refcount - 2)
    /\ UNCHANGED <<state, queue, main, do_delete, stopping, worker_at, deleted,
                   owner, due, starts>>

\* ~MessageHandler takes the messages away, and ~Thread joins the worker.
Delete ==
    /\ main_at = "delete" /\ worker_at \in {"none", "ended"}
    /\ deleted' = TRUE /\ queue' = 0 /\ started' = FALSE /\ main_at' = "idle"
    /\ UNCHANGED <<state, refcount, main, lock, do_delete, stopping, worker_at,
                   owner, due, starts>>

\* OnMainThreadDestroyed: the queue goes with its messages.
OnMainThreadDestroyed ==
    /\ main_at = "idle" /\ lock = "free" /\ ~deleted
    /\ main' = FALSE /\ queue' = 0 /\ main_at' = "gone"
    /\ UNCHANGED <<state, refcount, lock, do_delete, worker_vars, deleted, owner,
                   due, starts>>

-----------------------------------------------------------------------------
(* OnMessage, on the main thread.                                          *)

\* Who is told of the end of its work, after the worker has been joined.
IsSignalled(s) == s # "kStopping"

\* ST_MSG_WORKER_DONE is taken, up to the join; OnWorkDone is empty.
OnMessage ==
    /\ main_at = "idle" /\ lock = "free" /\ queue > 0
    /\ queue' = queue - 1
    /\ do_delete' = (state # "kRunning")
    /\ state' = IF state = "kRunning" THEN "kComplete" ELSE state
    /\ IF IsSignalled(state)
       THEN refcount' = refcount + 1 /\ lock' = "main" /\ main_at' = "join"
       ELSE EndMain(IF do_delete' THEN refcount - 1 ELSE refcount)
    /\ UNCHANGED <<main, worker_vars, deleted, owner, due, starts>>

\* Seeded fault: the work is signalled and its worker left alone.
LeaveWorker == UNCHANGED started
\* worker_.Stop(): Quit and a join.
StopWorker == worker_at = "ended" /\ started' = FALSE

\* The join ends; then SignalWorkDone is emitted.
SignalWorkDone ==
    /\ main_at = "join" /\ StopWorker
    /\ stopping' = TRUE
    /\ main_at' = "signal" /\ due' = due - 1
    /\ UNCHANGED <<state, refcount, queue, main, lock, do_delete, worker_at,
                   deleted, owner, starts>>

\* The handler returns, and so does OnMessage.
SignalReturns ==
    /\ main_at = "signal"
    /\ EndMain(IF do_delete THEN refcount - 2 ELSE refcount - 1)
    /\ UNCHANGED <<state, queue, main, do_delete, worker_vars, deleted, owner,
                   due, starts>>

-----------------------------------------------------------------------------
(* The worker.                                                             *)

\* ContinueWork serves the worker's messages, with cs_ held, and tells DoWork
\* to stop once Quit has been called.
ContinueWork ==
    /\ worker_at = "work" /\ lock = "free"
    /\ lock' = "worker" /\ refcount' = refcount + 1 /\ worker_at' = "serve"
    /\ UNCHANGED <<state, queue, main, main_at, do_delete, started, stopping,
                   deleted, owner, due, starts>>

ContinueReturns ==
    /\ worker_at = "serve"
    /\ lock' = "free" /\ refcount' = refcount - 1
    /\ worker_at' = IF stopping THEN "done" ELSE "work"
    /\ UNCHANGED <<state, queue, main, main_at, do_delete, started, stopping,
                   deleted, owner, due, starts>>

DoWorkEnds ==
    /\ worker_at = "work"
    /\ worker_at' = "done"
    /\ UNCHANGED <<state, refcount, queue, main, lock, main_at, do_delete, started,
                   stopping, deleted, owner, due, starts>>

\* The rest of Run.
PostDone ==
    /\ worker_at = "done" /\ lock = "free"
    /\ queue' = IF main THEN queue + 1 ELSE queue
    /\ worker_at' = "posted"
    /\ UNCHANGED <<state, refcount, main, lock, main_at, do_delete, started,
                   stopping, deleted, owner, due, starts>>

WorkerEnds ==
    /\ worker_at = "posted"
    /\ worker_at' = "ended"
    /\ UNCHANGED <<state, refcount, queue, main, lock, main_at, do_delete, started,
                   stopping, deleted, owner, due, starts>>

WorkerStep == ContinueReturns \/ DoWorkEnds \/ PostDone \/ WorkerEnds
MainStep   == DestroyWaited \/ Delete \/ OnMessage \/ SignalWorkDone \/ SignalReturns

Next ==
    \/ WorkerStep \/ ContinueWork \/ MainStep
    \/ Start \/ ReleaseRunning \/ OnMainThreadDestroyed
    \/ \E how \in {"released", "destroyed"} : GiveUpIdle(how)
    \/ \E wait \in BOOLEAN : Destroy(wait)

\* The main thread serves its queue, the worker runs, and DoWork ends, however
\* often it calls ContinueWork.
Fairness == WF_vars(MainStep) /\ SF_vars(WorkerStep) /\ SF_vars(DoWorkEnds)

Spec == Init /\ [][Next]_vars /\ Fairness

-----------------------------------------------------------------------------

TypeOK ==
    /\ state \in {"kInit", "kRunning", "kReleasing", "kComplete", "kStopping"}
    /\ refcount \in 0 .. 4 /\ queue \in 0 .. 1 /\ due \in -1 .. MaxStarts
    /\ lock \in {"free", "main", "worker"} /\ owner \in {"holds", "released", "destroyed"}
    /\ main_at \in {"idle", "join", "signal", "wait", "delete", "gone"}
    /\ worker_at \in {"none", "work", "serve", "done", "posted", "ended"}
    /\ {main, do_delete, started, stopping, deleted} \subseteq BOOLEAN

\* The thread is not deleted while its owner holds it, nor while the worker may
\* still lock cs_; and no message outlives it: of the releases by Destroy and
\* by the worker's message, exactly one is the last (EnterExit, Destroy,
\* OnMessage).
DeletedLast ==
    main_at = "delete" \/ deleted =>
        /\ owner # "holds" /\ refcount = 0
        /\ worker_at \in {"none", "posted", "ended"}
        /\ deleted => queue = 0

\* Each start is signalled once, and none after Destroy has been called, even
\* when the worker's message was in the queue already; at that time the worker
\* has been joined, so that it can be started again (comment at
\* signalthread.cc:132-141).
SignalledOnce ==
    /\ due \in {0, 1}
    /\ due = 1 <=> \/ main_at = "join" \/ state = "kRunning"
                   \/ state = "kReleasing" /\ ~do_delete
    /\ state = "kRunning" /\ main =>
           started /\ (worker_at \in {"work", "serve", "done"} \/ queue = 1)

\* Released or destroyed, the thread is deleted in the end, unless the main
\* thread goes first: no join waits for a worker that waits for cs_.
EndsDeleted == owner # "holds" ~> deleted \/ ~main
=============================================================================
