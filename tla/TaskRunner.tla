------------------------------ MODULE TaskRunner ------------------------------
(***************************************************************************)
(* The cooperative scheduler of talk/base: a TaskRunner and its tree of    *)
(* Tasks (task.cc, taskparent.cc, taskrunner.cc).  All of it runs on one   *)
(* thread.  WakeTasks posts a message to that thread; the message runs     *)
(* RunTasks, which steps unblocked tasks until every one is blocked and    *)
(* then deletes the finished ones.  A step runs the task's own code, which *)
(* may create, start, wake, fail, abort or time any task; so may the       *)
(* application between runs.                                               *)
(*                                                                         *)
(* One Step up to the task's own code is one action (ErrorStep, InitStep   *)
(* or ProcessStep), the rest of it after that code is another (Return),    *)
(* and each call the code makes meanwhile is one.  The bool members of a   *)
(* Task are sets of tasks here; tasks_ is the set `tasks' with the order   *)
(* of push_back in `place'.                                                *)
(*                                                                         *)
(* Callers' rules: a task is started once, and is created under a parent   *)
(* that is not done yet.                                                   *)
(***************************************************************************)
EXTENDS Integers, FiniteSets, TLC

CONSTANTS
    Task,       \* the Task objects a behaviour may create
    Runner,     \* the TaskRunner, root of the tree
    NoTask,     \* NULL
    Seconds,    \* what set_timeout_seconds is given, in units of time
    MaxCalls,   \* bound: calls made by tasks and the application
    MaxTurns,   \* bound: steps that return a state to go on with
    MaxTime     \* bound: the clock

\* Tasks are told apart by what they do only.
TaskSymmetry == Permutations(Task)

ASSUME TreeAssumption == Runner \notin Task /\ NoTask \notin Task
ASSUME SecondsAssumption == Seconds \subseteq Nat \ {0}
ASSUME BoundsAssumption ==
    MaxCalls \in Nat /\ MaxTurns \in Nat /\ MaxTime \in Nat

\* STATE_NEXT and above are further working states; RESPONSE stands for them.
States   == {"INIT", "START", "RESPONSE", "DONE", "ERROR"}
Working  == {"START", "RESPONSE"}
Parents  == Task \union {Runner}

VARIABLES
    created,    \* constructed tasks
    parent,     \* Task::parent_
    state,      \* Task::state_
    blocked, done, aborted, error,      \* the tasks whose flag is set
    timeout_seconds, timeout_time,      \* 0 for none
    timeout_suspended,
    child_error,        \* parents whose child_error_ is set
    tasks,              \* TaskRunner::tasks_, as a set
    place, pushed,      \* order of push_back, and how many there were
    next_timeout_task,  \* or NoTask
    pc,         \* "idle", "run" (in InternalRunTasks), "process" (in a task's
                \* code), "gone" (the runner is destroyed)
    busy,       \* the task whose busy_ is set, or NoTask
    at,         \* place the scan of tasks_ has reached
    previous,   \* previous_timeout_time of the run
    destroying, \* in ~TaskRunner
    awake,      \* a message of WakeTasks is waiting
    now,        \* CurrentTime
    timer,      \* when the subclass's timer fires (0: off); see OnTimeoutChange
    calls, turns    \* what is left of the bounds

flag_vars    == <<blocked, done, aborted, error>>
timeout_vars == <<timeout_seconds, timeout_time, timeout_suspended,
                  next_timeout_task>>
tree_vars    == <<created, parent, child_error>>
queue_vars   == <<tasks, place, pushed>>
run_vars     == <<pc, busy, at, previous, destroying>>
vars == <<flag_vars, timeout_vars, tree_vars, queue_vars, run_vars,
          state, awake, now, timer, calls, turns>>

Init ==
    /\ created = {}
    /\ parent = [t \in Task |-> Runner]
    /\ state = [t \in Task |-> "INIT"]
    /\ blocked = {} /\ done = {} /\ aborted = {} /\ error = {}
    /\ timeout_seconds = [t \in Task |-> 0]
    /\ timeout_time = [t \in Task |-> 0]
    /\ timeout_suspended = {}
    /\ child_error = {}
    /\ tasks = {} /\ place = [t \in Task |-> 0] /\ pushed = 0
    /\ next_timeout_task = NoTask
    /\ pc = "idle" /\ busy = NoTask /\ at = 0 /\ previous = 0
    /\ destroying = FALSE
    /\ awake = FALSE
    /\ now = 1
    /\ timer = 0
    /\ calls = MaxCalls /\ turns = MaxTurns

-----------------------------------------------------------------------------
(* The tree.  A child leaves children_ when it is done (Stop).             *)

Live == created \ done

\* Stop aborts the children, and they theirs; a task whose code is running
\* is marked but keeps its children until that code returns.
Closed(X) == \A c \in Live : parent[c] \in X \ {busy} => c \in X

\* Seeded fault: only the children are aborted, not what hangs below them.
ChildrenOnly(S) == S \intersect Live

\* What Abort reaches from the tasks of S.
Doomed(S) ==
    {c \in Live : \A X \in SUBSET Task :
                      (S \intersect Live \subseteq X /\ Closed(X)) => c \in X}

Children(p) == {c \in Live : parent[c] = p}

\* The tasks of F are finished: each is done, blocked and in error.
Finish(F) ==
    /\ done' = done \union F
    /\ blocked' = blocked \union F
    /\ error' = error \union F

\* Task::Abort of every task in S, and of what that reaches.
AbortAll(S) ==
    /\ aborted' = aborted \union Doomed(S)
    /\ Finish(Doomed(S) \ {busy})

-----------------------------------------------------------------------------
(* Timeouts.                                                               *)

TimeoutOf(t, T) == IF t = NoTask THEN 0 ELSE T[t]
next_task_timeout == TimeoutOf(next_timeout_task, timeout_time)

TimedOut(t) ==
    /\ timeout_seconds[t] # 0
    /\ timeout_time[t] # 0
    /\ now >= timeout_time[t]

\* TaskRunner::RecalcNextTimeout: the last of the soonest in tasks_.
RecalcNextTimeout(Q, finished, T, exclude) ==
    LET timed == {t \in Q \ finished : T[t] > 0 /\ t # exclude}
    IN  IF timed = {}
        THEN next_timeout_task' = NoTask
        ELSE \E t \in timed :
                /\ \A u \in timed : \/ T[t] < T[u]
                                    \/ T[t] = T[u] /\ place[u] <= place[t]
                /\ next_timeout_task' = t

\* Seeded fault: a timeout that moved closer is not announced.
NewOrPast(before, after) ==
    \/ before = 0 /\ after # 0
    \/ before <= now /\ before # after

\* The OnTimeoutChange that taskrunner.h asks a subclass for sets its timer
\* to the next timeout.
TimeoutChanged(before, after) ==
    \/ before = 0 /\ after # 0
    \/ after < before
    \/ before <= now /\ before # after

CheckForTimeoutChange(before, after) ==
    timer' = IF TimeoutChanged(before, after) THEN after ELSE timer

\* TaskRunner::UpdateTaskTimeout(t, timeout_time[t]), after the task's
\* timeout_time_ became `when'.
UpdateTaskTimeout(t, when) ==
    /\ timeout_time' = [timeout_time EXCEPT ![t] = when]
    /\ IF when # 0
       THEN next_timeout_task' =
                IF \/ next_timeout_task = NoTask
                   \/ when <= TimeoutOf(next_timeout_task, timeout_time')
                THEN t ELSE next_timeout_task
       ELSE IF t = next_timeout_task
            THEN RecalcNextTimeout(tasks, done, timeout_time', t)
            ELSE UNCHANGED next_timeout_task
    /\ IF pc = "idle"
       THEN CheckForTimeoutChange(next_task_timeout,
                                  TimeoutOf(next_timeout_task', timeout_time'))
       ELSE UNCHANGED timer

\* Seeded fault: a timeout relative to the clock.
FromNow(seconds) == seconds - now
Deadline(seconds) == now + seconds

\* Task::ResetTimeout, with the state, seconds and suspension as they now are.
ResetTimeout(t, s, seconds, suspended) ==
    UpdateTaskTimeout(t, IF s \in Working /\ seconds # 0 /\ ~suspended
                         THEN Deadline(seconds) ELSE 0)

-----------------------------------------------------------------------------
(* Calls: by the application between runs, or by the code of a task.       *)

Calling ==
    /\ pc \in {"idle", "process"}
    /\ calls > 0
    /\ calls' = calls - 1
    /\ UNCHANGED <<run_vars, now, turns>>

\* Objects that were constructed and not deleted.
Object == {t \in created : t \in tasks \/ place[t] = 0}

New(t, p) ==
    /\ Calling
    /\ t \notin created
    /\ p \in Live \union {Runner}
    /\ created' = created \union {t}
    /\ parent' = [parent EXCEPT ![t] = p]
    /\ UNCHANGED <<flag_vars, timeout_vars, queue_vars, child_error, state,
                   awake, timer>>

\* Task::Start and TaskRunner::StartTask; the timeout of a task in
\* STATE_INIT is 0, so UpdateTaskTimeout changes nothing.
Start(t) ==
    /\ Calling
    /\ t \in created /\ place[t] = 0
    /\ tasks' = tasks \union {t}
    /\ place' = [place EXCEPT ![t] = pushed + 1]
    /\ pushed' = pushed + 1
    /\ awake' = TRUE
    /\ UNCHANGED <<flag_vars, timeout_vars, tree_vars, state, timer>>

\* Seeded fault: the task is made runnable, the runner is not told.
UnblockOnly(t) == blocked' = blocked \ ({t} \ done) /\ UNCHANGED awake

Unblock(t) ==
    IF t \in blocked \ done
    THEN blocked' = blocked \ {t} /\ awake' = TRUE
    ELSE UNCHANGED <<blocked, awake>>

Wake(t) ==
    /\ Calling
    /\ t \in Object
    /\ Unblock(t)
    /\ UNCHANGED <<done, aborted, error, timeout_vars, tree_vars, queue_vars,
                   state, timer>>

Error(t) ==
    /\ Calling
    /\ t \in Object \ (error \union done)
    /\ error' = error \union {t}
    /\ Unblock(t)
    /\ UNCHANGED <<done, aborted, timeout_vars, tree_vars, queue_vars,
                   state, timer>>

\* Seeded fault: an abort leaves the runner asleep.
StaySilent(t) == UNCHANGED awake
WakeAfterAbort(t) == awake' = (awake \/ t # busy)

Abort(t) ==
    /\ Calling
    /\ t \in Object \ done
    /\ AbortAll({t})
    /\ WakeAfterAbort(t)
    /\ UNCHANGED <<timeout_vars, tree_vars, queue_vars, state, timer>>

SetTimeoutSeconds(t, seconds) ==
    /\ Calling
    /\ t \in Object
    /\ timeout_seconds' = [timeout_seconds EXCEPT ![t] = seconds]
    /\ ResetTimeout(t, state[t], seconds, t \in timeout_suspended)
    /\ UNCHANGED <<flag_vars, timeout_suspended, tree_vars, queue_vars, state,
                   awake>>

SuspendTimeout(t) ==
    /\ Calling
    /\ t \in Object \ timeout_suspended
    /\ timeout_suspended' = timeout_suspended \union {t}
    /\ ResetTimeout(t, state[t], timeout_seconds[t], TRUE)
    /\ UNCHANGED <<flag_vars, timeout_seconds, tree_vars, queue_vars, state,
                   awake>>

ResumeTimeout(t) ==
    /\ Calling
    /\ t \in Object \intersect timeout_suspended
    /\ timeout_suspended' = timeout_suspended \ {t}
    /\ ResetTimeout(t, state[t], timeout_seconds[t], FALSE)
    /\ UNCHANGED <<flag_vars, timeout_seconds, tree_vars, queue_vars, state,
                   awake>>

-----------------------------------------------------------------------------
(* TaskRunner::InternalRunTasks.                                           *)

\* The message of WakeTasks arrives.
RunTasks ==
    /\ pc = "idle" /\ awake
    /\ awake' = FALSE
    /\ pc' = "run"
    /\ at' = 0
    /\ previous' = next_task_timeout
    /\ UNCHANGED <<flag_vars, timeout_vars, tree_vars, queue_vars, busy,
                   destroying, state, now, timer, calls, turns>>

\* The scan goes on from where it is, and round again.
Distance(t) == IF place[t] >= at THEN place[t] - at ELSE place[t] - at + pushed

Due(t) ==
    /\ t \in tasks \ blocked
    /\ \A u \in tasks \ blocked : Distance(t) <= Distance(u)

\* Task::Step of a task whose Error() was called.  OnChildStopped sees
\* STATE_ERROR.
ErrorStep(t) ==
    /\ pc = "run"
    /\ Due(t)
    /\ t \in error \ done
    /\ at' = place[t]
    /\ state' = [state EXCEPT ![t] = "ERROR"]
    /\ aborted' = aborted \union Doomed(Children(t))
    /\ Finish({t} \union Doomed(Children(t)))
    /\ child_error' = child_error \union {parent[t]}
    /\ UNCHANGED <<timeout_vars, created, parent, queue_vars, pc, busy,
                   previous, destroying, awake, now, timer, calls, turns>>

\* Task::Step of a task in STATE_INIT: Process runs no code of the task.
InitStep(t) ==
    /\ pc = "run"
    /\ Due(t)
    /\ t \notin error \union done
    /\ state[t] = "INIT"
    /\ at' = place[t]
    /\ state' = [state EXCEPT ![t] = "START"]
    /\ ResetTimeout(t, "START", timeout_seconds[t], t \in timeout_suspended)
    /\ UNCHANGED <<flag_vars, timeout_seconds, timeout_suspended, tree_vars,
                   queue_vars, pc, busy, previous, destroying, awake, now,
                   calls, turns>>

\* Task::Step and Task::Process up to ProcessStart, ProcessResponse or
\* OnTimeout.
ProcessStep(t) ==
    /\ pc = "run"
    /\ Due(t)
    /\ t \notin error \union done
    /\ state[t] \in Working
    /\ at' = place[t]
    /\ pc' = "process"
    /\ busy' = t
    /\ IF TimedOut(t) THEN UpdateTaskTimeout(t, 0)
       ELSE UNCHANGED <<timeout_time, next_timeout_task, timer>>
    /\ UNCHANGED <<flag_vars, timeout_seconds, timeout_suspended, tree_vars,
                   queue_vars, previous, destroying, state, awake, now, calls,
                   turns>>

\* Seeded fault: an abort that came while the code ran is forgotten.
ForgetAbort == {}
AbortedMeanwhile == aborted

\* The code has returned and the task was aborted meanwhile: Abort(true).
ReturnAborted ==
    /\ pc = "process"
    /\ busy \in AbortedMeanwhile
    /\ pc' = "run"
    /\ busy' = NoTask
    /\ aborted' = aborted \union Doomed(Children(busy))
    /\ Finish({busy} \union Doomed(Children(busy)))
    /\ UNCHANGED <<timeout_vars, tree_vars, queue_vars, at, previous,
                   destroying, state, awake, now, timer, calls, turns>>

Back ==
    /\ pc = "process"
    /\ busy \notin AbortedMeanwhile
    /\ pc' = "run"
    /\ busy' = NoTask
    /\ UNCHANGED <<queue_vars, at, previous, destroying, awake, now, calls>>

ReturnBlocked ==
    /\ Back
    /\ blocked' = blocked \union {busy}
    /\ UNCHANGED <<done, aborted, error, timeout_vars, tree_vars, state, timer,
                   turns>>

\* A state to go on with: the task stays unblocked and its timeout starts anew.
ReturnNext(s) ==
    /\ Back
    /\ s \in Working
    /\ turns > 0 /\ turns' = turns - 1
    /\ state' = [state EXCEPT ![busy] = s]
    /\ blocked' = blocked \ {busy}
    /\ ResetTimeout(busy, s, timeout_seconds[busy], busy \in timeout_suspended)
    /\ UNCHANGED <<done, aborted, error, timeout_seconds, timeout_suspended,
                   tree_vars>>

BlockAtEnd(F, t) == blocked' = blocked \union F \union {t}

StateAtStop(t, s) == s

\* STATE_DONE or STATE_ERROR: the task stops, its children are aborted.
ReturnFinal(s) ==
    LET children == Doomed(Children(busy))
    IN  /\ Back
        /\ s \in {"DONE", "ERROR"}
        /\ state' = [state EXCEPT ![busy] = s]
        /\ ResetTimeout(busy, s, timeout_seconds[busy], FALSE)
        /\ aborted' = aborted \union children
        /\ done' = done \union children \union {busy}
        /\ error' = error \union children
                          \union (IF s = "ERROR" THEN {busy} ELSE {})
        /\ BlockAtEnd(children, busy)
        /\ child_error' = child_error \union
               (IF StateAtStop(busy, s) = "ERROR" THEN {parent[busy]} ELSE {})
        /\ UNCHANGED <<timeout_seconds, timeout_suspended, created, parent,
                       turns>>

AfterDeleting(rest) ==
    IF next_timeout_task \in done
    THEN RecalcNextTimeout(rest, done, timeout_time, NoTask)
    ELSE UNCHANGED next_timeout_task

\* Every task is blocked: the finished ones are deleted.
RunEnd ==
    LET rest == tasks \ done
    IN  /\ pc = "run"
        /\ tasks \subseteq blocked
        /\ tasks' = rest
        /\ AfterDeleting(rest)
        /\ IF destroying
           THEN pc' = "gone" /\ UNCHANGED timer
           ELSE /\ pc' = "idle"
                /\ CheckForTimeoutChange(previous,
                       TimeoutOf(next_timeout_task', timeout_time))
        /\ at' = 0 /\ previous' = 0
        /\ UNCHANGED <<flag_vars, timeout_seconds, timeout_time,
                       timeout_suspended, tree_vars, place, pushed, busy,
                       destroying, state, awake, now, calls, turns>>

Kill == Children(Runner)

\* TaskRunner::~TaskRunner, between runs.
Destroy ==
    /\ pc = "idle"
    /\ AbortAll(Kill)
    /\ destroying' = TRUE
    /\ pc' = "run"
    /\ at' = 0
    /\ previous' = next_task_timeout
    /\ UNCHANGED <<timeout_vars, tree_vars, queue_vars, busy, state, awake,
                   now, timer, calls, turns>>

-----------------------------------------------------------------------------
(* Time, and the timer of a subclass that follows taskrunner.h: it fires,  *)
(* calls PollTasks, and sets itself to next_task_timeout again.  After the *)
(* Wake the next timeout is the same, so PollTasks turns once.             *)

Tick ==
    /\ pc # "gone"
    /\ now < MaxTime
    /\ now' = now + 1
    /\ UNCHANGED <<flag_vars, timeout_vars, tree_vars, queue_vars, run_vars,
                   state, awake, timer, calls, turns>>

PollTasks ==
    /\ IF next_timeout_task # NoTask /\ TimedOut(next_timeout_task)
       THEN /\ blocked' = blocked \ ({next_timeout_task} \ done)
            /\ awake' = TRUE
       ELSE UNCHANGED <<blocked, awake>>
    /\ timer' = next_task_timeout

TimerFires ==
    /\ pc = "idle"
    /\ timer # 0 /\ now >= timer
    /\ PollTasks
    /\ UNCHANGED <<done, aborted, error, timeout_vars, tree_vars, queue_vars,
                   run_vars, state, now, calls, turns>>

-----------------------------------------------------------------------------
Call ==
    \E t \in Task :
        \/ \E p \in Parents : New(t, p)
        \/ Start(t)
        \/ Wake(t)
        \/ Error(t)
        \/ Abort(t)
        \/ \E s \in Seconds : SetTimeoutSeconds(t, s)
        \/ SuspendTimeout(t)
        \/ ResumeTimeout(t)

Run ==
    \/ RunTasks
    \/ \E t \in Task : ErrorStep(t) \/ InitStep(t) \/ ProcessStep(t)
    \/ ReturnAborted
    \/ ReturnBlocked
    \/ \E s \in States : ReturnNext(s) \/ ReturnFinal(s)
    \/ RunEnd

Next == Call \/ Run \/ Destroy \/ Tick \/ TimerFires

Spec == Init /\ [][Next]_vars

\* The thread's message loop delivers a posted message, and the code of a
\* task returns.
FairSpec == Spec /\ WF_vars(Run)

-----------------------------------------------------------------------------
TreeTypeOK ==
    /\ created \subseteq Task
    /\ parent \in [Task -> Parents]
    /\ child_error \subseteq Parents

FlagTypeOK ==
    /\ state \in [Task -> States]
    /\ blocked \subseteq Task /\ done \subseteq Task
    /\ aborted \subseteq Task /\ error \subseteq Task

TimeoutTypeOK ==
    /\ timeout_seconds \in [Task -> Nat]
    /\ timeout_time \in [Task -> Nat]
    /\ timeout_suspended \subseteq Task
    /\ next_timeout_task \in Task \union {NoTask}
    /\ now \in Nat /\ timer \in Nat /\ previous \in Nat

RunTypeOK ==
    /\ tasks \subseteq Task
    /\ place \in [Task -> Nat] /\ pushed \in Nat /\ at \in Nat
    /\ pc \in {"idle", "run", "process", "gone"}
    /\ busy \in Task \union {NoTask}
    /\ pc = "process" => busy \in Task
    /\ destroying \in BOOLEAN /\ awake \in BOOLEAN
    /\ calls \in 0 .. MaxCalls /\ turns \in 0 .. MaxTurns

\* Every variable has its type, and while task code runs one task is busy.
TypeOK == TreeTypeOK /\ FlagTypeOK /\ TimeoutTypeOK /\ RunTypeOK

\* A finished task is never runnable: the case Task::Step asserts against
\* ("should be impossible").
DoneIsBlocked == done \subseteq blocked

\* No live task has a finished parent, except the one whose code is running:
\* it is marked aborted and goes when that code returns.  (The parent may be
\* deleted at the end of the run; a live child would then call OnChildStopped
\* of a deleted object.)
NoOrphans ==
    \A t \in Live : parent[t] \in done => (t = busy /\ t \in aborted)

\* Between runs, a started task that has something to do, or is to be deleted,
\* has a wake-up on its way.
NoLostWake ==
    pc = "idle" =>
        \A t \in tasks : (t \notin blocked \/ t \in done) => awake

\* The next task to time out is an object of the runner, with a timeout; and
\* while any live task has a timeout there is a next one.
NextTimeoutAlive ==
    /\ next_timeout_task # NoTask =>
           next_timeout_task \in tasks /\ timeout_time[next_timeout_task] > 0
    /\ (\E t \in tasks \ done : timeout_time[t] > 0) =>
           next_timeout_task # NoTask

\* Between runs, a timer set as OnTimeoutChange asks is set no later than the
\* next timeout.
TimerNotLate ==
    (pc = "idle" /\ next_timeout_task # NoTask) =>
        timer # 0 /\ timer <= next_task_timeout

\* A child that ended in STATE_ERROR is known to its parent (AnyChildError).
ChildErrorSeen ==
    \A t \in done : state[t] = "ERROR" => parent[t] \in child_error

\* "Called from outside to stop task without any more callbacks": once
\* aborted, no code of the task is entered again.
NoCallbackAfterAbort ==
    [][\A t \in aborted : busy' = t => busy = t]_vars

\* ~TaskRunner "kills and deletes children silently": no task code runs in it,
\* and it leaves no started task behind.
SilentDestruction ==
    /\ destroying => pc # "process"
    /\ pc = "gone" => tasks = {}

\* The tree of tasks, whatever starts, stops and fails in it: finished tasks are
\* not stepped and have no live children, errors are known above, and the
\* destructor is silent (Task::Step, Stop, OnChildStopped, ~TaskRunner).
TreeSound == DoneIsBlocked /\ NoOrphans /\ ChildErrorSeen /\ SilentDestruction

\* Timeouts: the next one is known, and the timer is set in time for it
\* (TaskRunner::UpdateTaskTimeout, CheckForTimeoutChange).
TimeoutsKept == NextTimeoutAlive /\ TimerNotLate

\* A runnable task is stepped until it blocks, and a finished one is deleted.
Serviced ==
    \A t \in Task :
        /\ (t \in tasks \ blocked) ~> (t \notin tasks \ blocked)
        /\ (t \in tasks \intersect done) ~> (t \notin tasks)

\* What task.h says of Error: "the task should wake and signal an error".
ErrorIsSignalled ==
    \A t \in Task : (t \in tasks \intersect error) ~> (t \in done)
=============================================================================
