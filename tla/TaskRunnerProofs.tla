--------------------------- MODULE TaskRunnerProofs ---------------------------
(***************************************************************************)
(* Proofs about the task scheduler, for any set of tasks, any timeouts and *)
(* any bounds.                                                             *)
(***************************************************************************)
EXTENDS TaskRunner, TLAPS

-----------------------------------------------------------------------------
(* What Abort reaches.                                                     *)

\* Only live tasks are aborted.
LEMMA DoomedIsLive ==
    ASSUME NEW S
    PROVE  Doomed(S) \subseteq created \ done
BY DEF Doomed, Live

\* A live task that is aborted is reached.
LEMMA DoomedHasRoots ==
    ASSUME NEW S, NEW t \in S, t \in created, t \notin done
    PROVE  t \in Doomed(S)
BY DEF Doomed, Live

\* Below a reached task whose code is not running, every live task is reached.
LEMMA DoomedIsClosed ==
    ASSUME NEW S, NEW c \in created, c \notin done,
           parent[c] \in Doomed(S), parent[c] # busy
    PROVE  c \in Doomed(S)
<1>1. SUFFICES ASSUME NEW X \in SUBSET Task,
                      S \intersect Live \subseteq X, Closed(X)
               PROVE  c \in X
    BY DEF Doomed, Live
<1>2. parent[c] \in X
    BY <1>1 DEF Doomed
<1> QED
    BY <1>1, <1>2 DEF Closed, Live

-----------------------------------------------------------------------------
(* Types.                                                                  *)

\* UpdateTaskTimeout leaves the times and the next task in their types.
LEMMA UpdateType ==
    ASSUME TypeOK, NEW t \in Task, NEW when \in Nat, UpdateTaskTimeout(t, when)
    PROVE  /\ timeout_time' \in [Task -> Nat]
           /\ next_timeout_task' \in Task \union {NoTask}
           /\ timer' \in Nat
<1> USE DEF TypeOK, TimeoutTypeOK, RunTypeOK, FlagTypeOK
<1>1. timeout_time' \in [Task -> Nat]
    BY DEF UpdateTaskTimeout
<1>2. next_timeout_task' \in Task \union {NoTask}
    <2>1. CASE when # 0
        BY <2>1 DEF UpdateTaskTimeout
    <2>2. CASE when = 0 /\ t = next_timeout_task
        BY <2>2 DEF UpdateTaskTimeout, RecalcNextTimeout
    <2>3. CASE when = 0 /\ t # next_timeout_task
        BY <2>3 DEF UpdateTaskTimeout
    <2> QED
        BY <2>1, <2>2, <2>3
<1>3. timer' \in Nat
    <2>1. TimeoutOf(next_timeout_task', timeout_time') \in Nat
        BY <1>1, <1>2, TreeAssumption DEF TimeoutOf
    <2> QED
        BY <2>1 DEF UpdateTaskTimeout, CheckForTimeoutChange
<1> QED
    BY <1>1, <1>2, <1>3

\* So does ResetTimeout.
LEMMA ResetType ==
    ASSUME TypeOK, NEW t \in Task, NEW s, NEW seconds \in Nat, NEW suspended,
           ResetTimeout(t, s, seconds, suspended)
    PROVE  /\ timeout_time' \in [Task -> Nat]
           /\ next_timeout_task' \in Task \union {NoTask}
           /\ timer' \in Nat
<1>1. PICK when \in Nat : UpdateTaskTimeout(t, when)
    <2>1. now + seconds \in Nat
        BY DEF TypeOK, TimeoutTypeOK
    <2>2. CASE s \in Working /\ seconds # 0 /\ ~suspended
        BY <2>1, <2>2 DEF ResetTimeout, Deadline
    <2>3. CASE ~(s \in Working /\ seconds # 0 /\ ~suspended)
        BY <2>3 DEF ResetTimeout
    <2> QED
        BY <2>2, <2>3
<1> QED
    BY <1>1, UpdateType

\* The initial state is well typed.
LEMMA InitType == Init => TypeOK
<1> SUFFICES ASSUME Init PROVE TypeOK
    OBVIOUS
<1>1. TreeTypeOK
    BY DEF Init, TreeTypeOK, Parents
<1>2. FlagTypeOK
    BY DEF Init, FlagTypeOK, States
<1>3. TimeoutTypeOK
    BY DEF Init, TimeoutTypeOK
<1>4. RunTypeOK
    <2>1. MaxCalls \in 0 .. MaxCalls /\ MaxTurns \in 0 .. MaxTurns
        BY BoundsAssumption
    <2>2. place \in [Task -> Nat] /\ pushed \in Nat /\ at \in Nat
        BY DEF Init
    <2>3. destroying \in BOOLEAN /\ awake \in BOOLEAN
        BY Zenon DEF Init
    <2> QED
        BY <2>1, <2>2, <2>3 DEF Init, RunTypeOK
<1> QED
    BY <1>1, <1>2, <1>3, <1>4 DEF TypeOK

\* A call by the application or by a task keeps the types.
LEMMA CallType ==
    ASSUME TypeOK, Call
    PROVE  TypeOK'
<1> USE DEF TypeOK, TreeTypeOK, FlagTypeOK, TimeoutTypeOK, RunTypeOK,
            flag_vars, timeout_vars, tree_vars, queue_vars, run_vars
<1>1. PICK t \in Task :
        \/ \E p \in Parents : New(t, p)
        \/ Start(t)
        \/ Wake(t)
        \/ Error(t)
        \/ Abort(t)
        \/ \E s \in Seconds : SetTimeoutSeconds(t, s)
        \/ SuspendTimeout(t)
        \/ ResumeTimeout(t)
    BY DEF Call
<1>2. Calling => calls' \in 0 .. MaxCalls
    BY BoundsAssumption DEF Calling
<1>3. ASSUME NEW p \in Parents, New(t, p) PROVE TypeOK'
    BY <1>2, <1>3 DEF New, Calling
<1>4. CASE Start(t)
    BY <1>2, <1>4 DEF Start, Calling
<1>5. CASE Wake(t)
    BY <1>2, <1>5 DEF Wake, Calling, Unblock
<1>6. CASE Error(t)
    BY <1>2, <1>6 DEF Error, Calling, Unblock
<1>7. CASE Abort(t)
    <2>1. Doomed({t}) \subseteq Task
        BY DoomedIsLive
    <2>2. FlagTypeOK'
        BY <2>1, <1>7 DEF Abort, AbortAll, Finish
    <2> QED
        BY <2>2, <1>2, <1>7 DEF Abort, Calling, WakeAfterAbort
<1>8. ASSUME NEW s \in Seconds, SetTimeoutSeconds(t, s) PROVE TypeOK'
    <2>1. s \in Nat
        BY SecondsAssumption
    <2>2. TimeoutTypeOK'
        BY <2>1, <1>8, ResetType DEF SetTimeoutSeconds, Calling
    <2> QED
        BY <2>2, <1>2, <1>8 DEF SetTimeoutSeconds, Calling
<1>9. CASE SuspendTimeout(t)
    <2>1. TimeoutTypeOK'
        BY <1>9, ResetType DEF SuspendTimeout, Calling
    <2> QED
        BY <2>1, <1>2, <1>9 DEF SuspendTimeout, Calling
<1>10. CASE ResumeTimeout(t)
    <2>1. TimeoutTypeOK'
        BY <1>10, ResetType DEF ResumeTimeout, Calling
    <2> QED
        BY <2>1, <1>2, <1>10 DEF ResumeTimeout, Calling
<1> QED
    BY <1>1, <1>3, <1>4, <1>5, <1>6, <1>7, <1>8, <1>9, <1>10

\* A step of the run keeps the types.
LEMMA RunType ==
    ASSUME TypeOK, Run
    PROVE  TypeOK'
<1> USE DEF TypeOK, TreeTypeOK, FlagTypeOK, TimeoutTypeOK, RunTypeOK,
            flag_vars, timeout_vars, tree_vars, queue_vars, run_vars
<1>1. next_task_timeout \in Nat
    BY TreeAssumption DEF next_task_timeout, TimeoutOf
<1>2. CASE RunTasks
    BY <1>1, <1>2 DEF RunTasks
<1>3. ASSUME NEW t \in Task, ErrorStep(t) PROVE TypeOK'
    <2>1. Doomed(Children(t)) \subseteq Task
        BY DoomedIsLive
    <2>2. FlagTypeOK'
        BY <2>1, <1>3 DEF ErrorStep, Finish, States
    <2>3. TreeTypeOK'
        BY <1>3 DEF ErrorStep
    <2> QED
        BY <2>2, <2>3, <1>3 DEF ErrorStep
<1>4. ASSUME NEW t \in Task, InitStep(t) PROVE TypeOK'
    <2>1. TimeoutTypeOK'
        BY <1>4, ResetType DEF InitStep
    <2> QED
        BY <2>1, <1>4 DEF InitStep, States
<1>5. ASSUME NEW t \in Task, ProcessStep(t) PROVE TypeOK'
    <2>1. TimeoutTypeOK'
        BY <1>5, UpdateType DEF ProcessStep
    <2> QED
        BY <2>1, <1>5 DEF ProcessStep
<1>6. CASE ReturnAborted
    <2>1. Doomed(Children(busy)) \subseteq Task
        BY DoomedIsLive
    <2>2. FlagTypeOK'
        BY <2>1, <1>6 DEF ReturnAborted, Finish
    <2> QED
        BY <2>2, <1>6 DEF ReturnAborted
<1>7. CASE ReturnBlocked
    BY <1>7 DEF ReturnBlocked, Back
<1>8. ASSUME NEW s \in States, ReturnNext(s) PROVE TypeOK'
    <2>1. TimeoutTypeOK'
        BY <1>8, ResetType DEF ReturnNext, Back
    <2>2. turns' \in 0 .. MaxTurns
        BY <1>8, BoundsAssumption DEF ReturnNext
    <2> QED
        BY <2>1, <2>2, <1>8 DEF ReturnNext, Back
<1>9. ASSUME NEW s \in States, ReturnFinal(s) PROVE TypeOK'
    <2>1. Doomed(Children(busy)) \subseteq Task
        BY DoomedIsLive
    <2>2. busy \in Task
        BY <1>9 DEF ReturnFinal, Back
    <2>3. TimeoutTypeOK'
        BY <2>2, <1>9, ResetType DEF ReturnFinal, Back
    <2>4. FlagTypeOK'
        BY <2>1, <2>2, <1>9 DEF ReturnFinal, BlockAtEnd
    <2>5. TreeTypeOK'
        BY <2>2, <1>9 DEF ReturnFinal
    <2> QED
        BY <2>3, <2>4, <2>5, <1>9 DEF ReturnFinal, Back
<1>10. CASE RunEnd
    <2>1. next_timeout_task' \in Task \union {NoTask}
        BY <1>10 DEF RunEnd, AfterDeleting, RecalcNextTimeout
    <2>2. TimeoutOf(next_timeout_task', timeout_time) \in Nat
        BY <2>1, TreeAssumption DEF TimeoutOf
    <2>3. timer' \in Nat
        BY <2>2, <1>10 DEF RunEnd, CheckForTimeoutChange
    <2> QED
        BY <2>1, <2>3, <1>10 DEF RunEnd
<1> QED
    BY <1>2, <1>3, <1>4, <1>5, <1>6, <1>7, <1>8, <1>9, <1>10 DEF Run

\* Every step keeps the types.
LEMMA StepType ==
    ASSUME TypeOK, [Next]_vars
    PROVE  TypeOK'
<1> USE DEF TypeOK, TreeTypeOK, FlagTypeOK, TimeoutTypeOK, RunTypeOK,
            flag_vars, timeout_vars, tree_vars, queue_vars, run_vars
<1>1. next_task_timeout \in Nat
    BY TreeAssumption DEF next_task_timeout, TimeoutOf
<1>2. CASE Call
    BY <1>2, CallType
<1>3. CASE Run
    BY <1>3, RunType
<1>4. CASE Destroy
    <2>1. Doomed(Kill) \subseteq Task
        BY DoomedIsLive
    <2>2. FlagTypeOK'
        BY <2>1, <1>4 DEF Destroy, AbortAll, Finish
    <2> QED
        BY <2>2, <1>1, <1>4 DEF Destroy
<1>5. CASE Tick
    BY <1>5 DEF Tick
<1>6. CASE TimerFires
    BY <1>1, <1>6 DEF TimerFires, PollTasks
<1>7. CASE UNCHANGED vars
    BY <1>7 DEF vars
<1> QED
    BY <1>2, <1>3, <1>4, <1>5, <1>6, <1>7 DEF Next

-----------------------------------------------------------------------------
(* The tree: what is started or finished was created, one task at most has *)
(* code running, and following parent_ from any set of tasks leads out of  *)
(* it (so every task hangs below the runner).                              *)

BusyIsLive ==
    IF pc = "process" THEN busy \in created \ done ELSE busy = NoTask

WellFounded ==
    \A U \in SUBSET created : U # {} => \E t \in U : parent[t] \notin U

TreeInv ==
    /\ tasks \subseteq created
    /\ done \subseteq created
    /\ \A t \in created : parent[t] \in created \union {Runner}
    /\ BusyIsLive
    /\ WellFounded

\* No unfinished task below a finished one, none aborted but running, and an
\* error is known to the parent.
LifeInv ==
    /\ DoneIsBlocked
    /\ NoOrphans
    /\ \A t \in aborted : t \in done \/ t = busy
    /\ \A t \in created : state[t] = "ERROR" => t \in done
    /\ \A t \in Task \ created : state[t] = "INIT"
    /\ ChildErrorSeen

\* The shape of the tree is kept by every step.
LEMMA TreeStep ==
    ASSUME TypeOK, TreeInv, [Next]_vars
    PROVE  TreeInv'
<1> USE DEF TypeOK, TreeTypeOK, FlagTypeOK, RunTypeOK, TreeInv, BusyIsLive, WellFounded,
            flag_vars, timeout_vars, tree_vars, queue_vars, run_vars, Calling
<1>1. ASSUME NEW t \in Task, NEW p \in Parents, New(t, p) PROVE TreeInv'
    <2>1. WellFounded'
        <3>1. SUFFICES ASSUME NEW U \in SUBSET created', U # {}
                       PROVE  \E u \in U : parent'[u] \notin U
            BY DEF WellFounded
        <3>2. created' = created \union {t} /\ parent'[t] = p /\ p # t
              /\ \A u \in created : parent'[u] = parent[u] /\ parent[u] # t
            BY <1>1, TreeAssumption DEF New, Live
        <3>3. CASE U \ {t} = {}
            <4>1. U = {t}
                BY <3>1, <3>3
            <4> QED
                BY <3>2, <4>1
        <3>4. CASE U \ {t} # {}
            <4>1. U \ {t} \in SUBSET created
                BY <3>1, <3>2
            <4>2. PICK u \in U \ {t} : parent[u] \notin U \ {t}
                BY <3>4, <4>1
            <4> QED
                BY <3>1, <3>2, <4>1, <4>2
        <3> QED
            BY <3>3, <3>4
    <2>2. /\ tasks' \subseteq created' /\ done' \subseteq created'
          /\ \A u \in created' : parent'[u] \in created' \union {Runner}
        BY <1>1 DEF New, Live
    <2>3. BusyIsLive'
        BY <1>1 DEF New
    <2> QED
        BY <2>1, <2>2, <2>3
<1>2. ASSUME NEW t \in Task, Start(t) PROVE TreeInv'
    BY <1>2 DEF Start
<1>3. ASSUME NEW t \in Task, Wake(t) PROVE TreeInv'
    BY <1>3 DEF Wake, Unblock
<1>4. ASSUME NEW t \in Task, Error(t) PROVE TreeInv'
    BY <1>4 DEF Error, Unblock
<1>5. ASSUME NEW t \in Task, Abort(t) PROVE TreeInv'
    <2>1. Doomed({t}) \subseteq created \ done
        BY DoomedIsLive
    <2> QED
        BY <2>1, <1>5 DEF Abort, AbortAll, Finish
<1>6. ASSUME NEW t \in Task, NEW s \in Seconds, SetTimeoutSeconds(t, s) PROVE TreeInv'
    BY <1>6 DEF SetTimeoutSeconds
<1>7. ASSUME NEW t \in Task, SuspendTimeout(t) PROVE TreeInv'
    BY <1>7 DEF SuspendTimeout
<1>8. ASSUME NEW t \in Task, ResumeTimeout(t) PROVE TreeInv'
    BY <1>8 DEF ResumeTimeout
<1>9. CASE RunTasks
    BY <1>9 DEF RunTasks
<1>10. ASSUME NEW t \in Task, ErrorStep(t) PROVE TreeInv'
    <2>1. Doomed(Children(t)) \subseteq created \ done
        BY DoomedIsLive
    <2> QED
        BY <2>1, <1>10 DEF ErrorStep, Finish, Due
<1>11. ASSUME NEW t \in Task, InitStep(t) PROVE TreeInv'
    BY <1>11 DEF InitStep, Due
<1>12. ASSUME NEW t \in Task, ProcessStep(t) PROVE TreeInv'
    BY <1>12 DEF ProcessStep, Due
<1>13. CASE ReturnAborted
    <2>1. Doomed(Children(busy)) \subseteq created \ done
        BY DoomedIsLive
    <2> QED
        BY <2>1, <1>13 DEF ReturnAborted, Finish
<1>14. CASE ReturnBlocked
    BY <1>14 DEF ReturnBlocked, Back
<1>15. ASSUME NEW s \in States, ReturnNext(s) PROVE TreeInv'
    BY <1>15 DEF ReturnNext, Back
<1>16. ASSUME NEW s \in States, ReturnFinal(s) PROVE TreeInv'
    <2>1. Doomed(Children(busy)) \subseteq created \ done
        BY DoomedIsLive
    <2> QED
        BY <2>1, <1>16 DEF ReturnFinal, Back, BlockAtEnd
<1>17. CASE RunEnd
    BY <1>17 DEF RunEnd
<1>18. CASE Destroy
    <2>1. Doomed(Kill) \subseteq created \ done
        BY DoomedIsLive
    <2> QED
        BY <2>1, <1>18 DEF Destroy, AbortAll, Finish
<1>19. CASE Tick
    BY <1>19 DEF Tick
<1>20. CASE TimerFires
    BY <1>20 DEF TimerFires, PollTasks
<1>21. CASE UNCHANGED vars
    BY <1>21 DEF vars
<1> QED
    BY <1>1, <1>2, <1>3, <1>4, <1>5, <1>6, <1>7, <1>8, <1>9, <1>10,
       <1>11, <1>12, <1>13, <1>14, <1>15, <1>16, <1>17, <1>18, <1>19, <1>20, <1>21
       DEF Next, Call, Run

\* So is what is known of finished tasks.
LEMMA LifeStep ==
    ASSUME TypeOK, TreeInv, LifeInv, [Next]_vars
    PROVE  LifeInv'
<1> USE DEF TypeOK, TreeTypeOK, FlagTypeOK, RunTypeOK, TreeInv, BusyIsLive,
            DoneIsBlocked, NoOrphans, Live, ChildErrorSeen, LifeInv,
            flag_vars, timeout_vars, tree_vars, queue_vars, run_vars, Calling
<1>1. ASSUME NEW t \in Task, NEW p \in Parents, New(t, p) PROVE LifeInv'
    <2>1. /\ Runner \notin done /\ t \notin done
          /\ p \notin done
        BY <1>1, TreeAssumption DEF New
    <2>2. NoOrphans'
        BY <1>1, <2>1 DEF New
    <2>3. ChildErrorSeen'
        BY <1>1, <2>1 DEF New
    <2> QED
        BY <1>1, <2>2, <2>3 DEF New
<1>2. ASSUME NEW t \in Task, Start(t) PROVE LifeInv'
    BY <1>2 DEF Start
<1>3. ASSUME NEW t \in Task, Wake(t) PROVE LifeInv'
    BY <1>3 DEF Wake, Unblock
<1>4. ASSUME NEW t \in Task, Error(t) PROVE LifeInv'
    BY <1>4 DEF Error, Unblock
<1>5. ASSUME NEW t \in Task, Abort(t) PROVE LifeInv'
    <2> DEFINE D == Doomed({t})
    <2>1. D \subseteq created \ done
        BY DoomedIsLive
    <2>2. \A c \in created \ done :
             parent[c] \in D /\ parent[c] # busy => c \in D
        BY DoomedIsClosed
    <2>3. \A c \in created \ done : c \in {t} => c \in D
        BY DoomedHasRoots
    <2> HIDE DEF D
    <2>4. DoneIsBlocked'
        BY <2>1, <1>5 DEF Abort, AbortAll, Finish, D
    <2>5. NoOrphans'
        BY <2>1, <2>2, <2>3, <1>5 DEF Abort, AbortAll, Finish, D, Children
    <2>6. \A u \in aborted' : u \in done' \/ u = busy'
        BY <2>1, <1>5 DEF Abort, AbortAll, Finish, D
    <2>7. /\ \A u \in created' : state'[u] = "ERROR" => u \in done'
          /\ \A u \in Task \ created' : state'[u] = "INIT"
        BY <2>1, <1>5 DEF Abort, AbortAll, Finish, D
    <2>8. ChildErrorSeen'
        BY <2>1, <1>5 DEF Abort, AbortAll, Finish, D
    <2> QED
        BY <2>4, <2>5, <2>6, <2>7, <2>8
<1>6. ASSUME NEW t \in Task, NEW s \in Seconds, SetTimeoutSeconds(t, s) PROVE LifeInv'
    BY <1>6 DEF SetTimeoutSeconds
<1>7. ASSUME NEW t \in Task, SuspendTimeout(t) PROVE LifeInv'
    BY <1>7 DEF SuspendTimeout
<1>8. ASSUME NEW t \in Task, ResumeTimeout(t) PROVE LifeInv'
    BY <1>8 DEF ResumeTimeout
<1>9. CASE RunTasks
    BY <1>9 DEF RunTasks
<1>10. ASSUME NEW t \in Task, ErrorStep(t) PROVE LifeInv'
    <2> DEFINE D == Doomed(Children(t))
    <2>1. D \subseteq created \ done
        BY DoomedIsLive
    <2>2. \A c \in created \ done :
             parent[c] \in D /\ parent[c] # busy => c \in D
        BY DoomedIsClosed
    <2>3. \A c \in created \ done : c \in Children(t) => c \in D
        BY DoomedHasRoots
    <2> HIDE DEF D
    <2>4. DoneIsBlocked'
        BY <2>1, <1>10 DEF ErrorStep, Finish, Due, D
    <2>0. busy = NoTask /\ busy \notin Task
        BY <1>10, TreeAssumption DEF ErrorStep
    <2>5. NoOrphans'
        BY <2>0, <2>1, <2>2, <2>3, <1>10 DEF ErrorStep, Finish, Due, D, Children
    <2>6. \A u \in aborted' : u \in done' \/ u = busy'
        BY <2>1, <1>10 DEF ErrorStep, Finish, Due, D
    <2>7. /\ \A u \in created' : state'[u] = "ERROR" => u \in done'
          /\ \A u \in Task \ created' : state'[u] = "INIT"
        BY <2>1, <1>10 DEF ErrorStep, Finish, Due, D
    <2>8. ChildErrorSeen'
        BY <2>1, <1>10 DEF ErrorStep, Finish, Due, D
    <2> QED
        BY <2>4, <2>5, <2>6, <2>7, <2>8
<1>11. ASSUME NEW t \in Task, InitStep(t) PROVE LifeInv'
    BY <1>11 DEF InitStep, Due
<1>12. ASSUME NEW t \in Task, ProcessStep(t) PROVE LifeInv'
    <2>1. busy = NoTask /\ busy \notin Task
        BY <1>12, TreeAssumption DEF ProcessStep
    <2>2. NoOrphans'
        BY <1>12, <2>1 DEF ProcessStep
    <2>3. \A u \in aborted' : u \in done' \/ u = busy'
        BY <1>12, <2>1 DEF ProcessStep
    <2> QED
        BY <1>12, <2>2, <2>3 DEF ProcessStep
<1>13. CASE ReturnAborted
    <2> DEFINE D == Doomed(Children(busy))
    <2>1. D \subseteq created \ done
        BY DoomedIsLive
    <2>2. \A c \in created \ done :
             parent[c] \in D /\ parent[c] # busy => c \in D
        BY DoomedIsClosed
    <2>3. \A c \in created \ done : c \in Children(busy) => c \in D
        BY DoomedHasRoots
    <2> HIDE DEF D
    <2>4. DoneIsBlocked'
        BY <2>1, <1>13 DEF ReturnAborted, AbortedMeanwhile, Finish, D
    <2>5. NoOrphans'
        BY <2>1, <2>2, <2>3, <1>13 DEF ReturnAborted, AbortedMeanwhile, Finish, D, Children
    <2>6. \A u \in aborted' : u \in done' \/ u = busy'
        BY <2>1, <1>13 DEF ReturnAborted, AbortedMeanwhile, Finish, D
    <2>7. /\ \A u \in created' : state'[u] = "ERROR" => u \in done'
          /\ \A u \in Task \ created' : state'[u] = "INIT"
        BY <2>1, <1>13 DEF ReturnAborted, AbortedMeanwhile, Finish, D
    <2>8. ChildErrorSeen'
        BY <2>1, <1>13 DEF ReturnAborted, AbortedMeanwhile, Finish, D
    <2> QED
        BY <2>4, <2>5, <2>6, <2>7, <2>8
<1>14. CASE ReturnBlocked
    BY <1>14 DEF ReturnBlocked, Back, AbortedMeanwhile
<1>15. ASSUME NEW s \in States, ReturnNext(s) PROVE LifeInv'
    BY <1>15 DEF ReturnNext, Back, AbortedMeanwhile, Working
<1>16. ASSUME NEW s \in States, ReturnFinal(s) PROVE LifeInv'
    <2> DEFINE D == Doomed(Children(busy))
    <2>1. D \subseteq created \ done
        BY DoomedIsLive
    <2>2. \A c \in created \ done :
             parent[c] \in D /\ parent[c] # busy => c \in D
        BY DoomedIsClosed
    <2>3. \A c \in created \ done : c \in Children(busy) => c \in D
        BY DoomedHasRoots
    <2> HIDE DEF D
    <2>4. DoneIsBlocked'
        BY <2>1, <1>16 DEF ReturnFinal, Back, BlockAtEnd, StateAtStop, D
    <2>5. NoOrphans'
        BY <2>1, <2>2, <2>3, <1>16 DEF ReturnFinal, Back, BlockAtEnd, StateAtStop, D, Children
    <2>6. \A u \in aborted' : u \in done' \/ u = busy'
        BY <2>1, <1>16 DEF ReturnFinal, Back, BlockAtEnd, StateAtStop, D
    <2>7. /\ \A u \in created' : state'[u] = "ERROR" => u \in done'
          /\ \A u \in Task \ created' : state'[u] = "INIT"
        BY <2>1, <1>16 DEF ReturnFinal, Back, BlockAtEnd, StateAtStop, D
    <2>8. ChildErrorSeen'
        BY <2>1, <1>16 DEF ReturnFinal, Back, BlockAtEnd, StateAtStop, D
    <2> QED
        BY <2>4, <2>5, <2>6, <2>7, <2>8
<1>17. CASE RunEnd
    BY <1>17 DEF RunEnd
<1>18. CASE Destroy
    <2> DEFINE D == Doomed(Kill)
    <2>1. D \subseteq created \ done
        BY DoomedIsLive
    <2>2. \A c \in created \ done :
             parent[c] \in D /\ parent[c] # busy => c \in D
        BY DoomedIsClosed
    <2>3. \A c \in created \ done : c \in Kill => c \in D
        BY DoomedHasRoots
    <2> HIDE DEF D
    <2>4. DoneIsBlocked'
        BY <2>1, <1>18 DEF Destroy, AbortAll, Finish, D
    <2>5. NoOrphans'
        BY <2>1, <2>2, <2>3, <1>18 DEF Destroy, AbortAll, Finish, D, Children
    <2>6. \A u \in aborted' : u \in done' \/ u = busy'
        BY <2>1, <1>18 DEF Destroy, AbortAll, Finish, D
    <2>7. /\ \A u \in created' : state'[u] = "ERROR" => u \in done'
          /\ \A u \in Task \ created' : state'[u] = "INIT"
        BY <2>1, <1>18 DEF Destroy, AbortAll, Finish, D
    <2>8. ChildErrorSeen'
        BY <2>1, <1>18 DEF Destroy, AbortAll, Finish, D
    <2> QED
        BY <2>4, <2>5, <2>6, <2>7, <2>8
<1>19. CASE Tick
    BY <1>19 DEF Tick
<1>20. CASE TimerFires
    BY <1>20 DEF TimerFires, PollTasks
<1>21. CASE UNCHANGED vars
    BY <1>21 DEF vars
<1> QED
    BY <1>1, <1>2, <1>3, <1>4, <1>5, <1>6, <1>7, <1>8, <1>9, <1>10,
       <1>11, <1>12, <1>13, <1>14, <1>15, <1>16, <1>17, <1>18, <1>19, <1>20, <1>21
       DEF Next, Call, Run

-----------------------------------------------------------------------------
(* The wake-up, the destructor and the timeouts.                           *)

\* A wake-up is never lost.
LEMMA WakeStep ==
    ASSUME TypeOK, TreeInv, LifeInv, NoLostWake, [Next]_vars
    PROVE  NoLostWake'
<1> USE DEF TypeOK, TreeTypeOK, FlagTypeOK, RunTypeOK, TreeInv, BusyIsLive, LifeInv,
            DoneIsBlocked, NoLostWake,
            flag_vars, timeout_vars, tree_vars, queue_vars, run_vars, Calling
<1>1. ASSUME NEW t \in Task, NEW p \in Parents, New(t, p) PROVE NoLostWake'
    BY <1>1 DEF New
<1>2. ASSUME NEW t \in Task, Start(t) PROVE NoLostWake'
    BY <1>2 DEF Start
<1>3. ASSUME NEW t \in Task, Wake(t) PROVE NoLostWake'
    BY <1>3 DEF Wake, Unblock
<1>4. ASSUME NEW t \in Task, Error(t) PROVE NoLostWake'
    BY <1>4 DEF Error, Unblock
<1>5. ASSUME NEW t \in Task, Abort(t) PROVE NoLostWake'
    <2>1. pc = "idle" => awake'
        BY <1>5, TreeAssumption DEF Abort, WakeAfterAbort
    <2> QED
        BY <1>5, <2>1 DEF Abort
<1>6. ASSUME NEW t \in Task, NEW s \in Seconds, SetTimeoutSeconds(t, s) PROVE NoLostWake'
    BY <1>6 DEF SetTimeoutSeconds
<1>7. ASSUME NEW t \in Task, SuspendTimeout(t) PROVE NoLostWake'
    BY <1>7 DEF SuspendTimeout
<1>8. ASSUME NEW t \in Task, ResumeTimeout(t) PROVE NoLostWake'
    BY <1>8 DEF ResumeTimeout
<1>9. CASE RunTasks
    BY <1>9 DEF RunTasks
<1>10. ASSUME NEW t \in Task, ErrorStep(t) PROVE NoLostWake'
    BY <1>10 DEF ErrorStep, Finish, Due
<1>11. ASSUME NEW t \in Task, InitStep(t) PROVE NoLostWake'
    BY <1>11 DEF InitStep, Due
<1>12. ASSUME NEW t \in Task, ProcessStep(t) PROVE NoLostWake'
    BY <1>12 DEF ProcessStep, Due
<1>13. CASE ReturnAborted
    BY <1>13 DEF ReturnAborted, Finish
<1>14. CASE ReturnBlocked
    BY <1>14 DEF ReturnBlocked, Back
<1>15. ASSUME NEW s \in States, ReturnNext(s) PROVE NoLostWake'
    BY <1>15 DEF ReturnNext, Back
<1>16. ASSUME NEW s \in States, ReturnFinal(s) PROVE NoLostWake'
    BY <1>16 DEF ReturnFinal, Back, BlockAtEnd
<1>17. CASE RunEnd
    BY <1>17 DEF RunEnd
<1>18. CASE Destroy
    BY <1>18 DEF Destroy, AbortAll, Finish
<1>19. CASE Tick
    BY <1>19 DEF Tick
<1>20. CASE TimerFires
    BY <1>20 DEF TimerFires, PollTasks
<1>21. CASE UNCHANGED vars
    BY <1>21 DEF vars
<1> QED
    BY <1>1, <1>2, <1>3, <1>4, <1>5, <1>6, <1>7, <1>8, <1>9, <1>10,
       <1>11, <1>12, <1>13, <1>14, <1>15, <1>16, <1>17, <1>18, <1>19, <1>20, <1>21
       DEF Next, Call, Run

\* With no code running, every live task is reached from the runner.
LEMMA AllReached ==
    ASSUME TypeOK, TreeInv, NoOrphans, busy = NoTask
    PROVE  created \ done \subseteq Doomed(Children(Runner))
<1> DEFINE D == Doomed(Children(Runner))
           U == (created \ done) \ D
<1>1. SUFFICES ASSUME U # {} PROVE FALSE
    OBVIOUS
<1>2. PICK t \in U : parent[t] \notin U
    BY <1>1 DEF TreeInv, WellFounded
<1>3. t \notin Children(Runner)
    BY <1>2, DoomedHasRoots
<1>4. parent[t] # Runner
    BY <1>2, <1>3 DEF Children, Live
<1>5. parent[t] \in created \ done
    BY <1>2, <1>4, TreeAssumption
    DEF TreeInv, NoOrphans, Live, TypeOK, TreeTypeOK
<1>6. parent[t] \in D /\ parent[t] # busy
    BY <1>2, <1>5, TreeAssumption DEF TypeOK, TreeTypeOK
<1> QED
    BY <1>2, <1>6, DoomedIsClosed

\* In the destructor every task is finished already.
DestroyInv ==
    /\ destroying => created \subseteq done /\ pc \in {"run", "gone"}
    /\ pc = "gone" => tasks = {}

\* The destructor steps no task.
LEMMA DestroyStep ==
    ASSUME TypeOK, TreeInv, LifeInv, DestroyInv, [Next]_vars
    PROVE  DestroyInv'
<1> USE DEF TypeOK, TreeTypeOK, FlagTypeOK, RunTypeOK, TreeInv, BusyIsLive, DestroyInv,
            flag_vars, timeout_vars, tree_vars, queue_vars, run_vars, Calling
<1>1. ASSUME NEW t \in Task, NEW p \in Parents, New(t, p) PROVE DestroyInv'
    BY <1>1 DEF New
<1>2. ASSUME NEW t \in Task, Start(t) PROVE DestroyInv'
    BY <1>2 DEF Start
<1>3. ASSUME NEW t \in Task, Wake(t) PROVE DestroyInv'
    BY <1>3 DEF Wake, Unblock
<1>4. ASSUME NEW t \in Task, Error(t) PROVE DestroyInv'
    BY <1>4 DEF Error, Unblock
<1>5. ASSUME NEW t \in Task, Abort(t) PROVE DestroyInv'
    BY <1>5 DEF Abort, AbortAll, Finish
<1>6. ASSUME NEW t \in Task, NEW s \in Seconds, SetTimeoutSeconds(t, s) PROVE DestroyInv'
    BY <1>6 DEF SetTimeoutSeconds
<1>7. ASSUME NEW t \in Task, SuspendTimeout(t) PROVE DestroyInv'
    BY <1>7 DEF SuspendTimeout
<1>8. ASSUME NEW t \in Task, ResumeTimeout(t) PROVE DestroyInv'
    BY <1>8 DEF ResumeTimeout
<1>9. CASE RunTasks
    BY <1>9 DEF RunTasks
<1>10. ASSUME NEW t \in Task, ErrorStep(t) PROVE DestroyInv'
    BY <1>10 DEF ErrorStep, Finish, Due
<1>11. ASSUME NEW t \in Task, InitStep(t) PROVE DestroyInv'
    BY <1>11 DEF InitStep, Due
<1>12. ASSUME NEW t \in Task, ProcessStep(t) PROVE DestroyInv'
    BY <1>12 DEF ProcessStep, Due
<1>13. CASE ReturnAborted
    BY <1>13 DEF ReturnAborted, Finish
<1>14. CASE ReturnBlocked
    BY <1>14 DEF ReturnBlocked, Back
<1>15. ASSUME NEW s \in States, ReturnNext(s) PROVE DestroyInv'
    BY <1>15 DEF ReturnNext, Back
<1>16. ASSUME NEW s \in States, ReturnFinal(s) PROVE DestroyInv'
    BY <1>16 DEF ReturnFinal, Back, BlockAtEnd
<1>17. CASE RunEnd
    BY <1>17 DEF RunEnd
<1>18. CASE Destroy
    <2>1. created \ done \subseteq Doomed(Kill) /\ busy = NoTask
        BY <1>18, AllReached DEF Destroy, Kill, LifeInv
    <2>2. NoTask \notin created
        BY TreeAssumption
    <2> QED
        BY <2>1, <2>2, <1>18 DEF Destroy, AbortAll, Finish
<1>19. CASE Tick
    BY <1>19 DEF Tick
<1>20. CASE TimerFires
    BY <1>20 DEF TimerFires, PollTasks
<1>21. CASE UNCHANGED vars
    BY <1>21 DEF vars
<1> QED
    BY <1>1, <1>2, <1>3, <1>4, <1>5, <1>6, <1>7, <1>8, <1>9, <1>10,
       <1>11, <1>12, <1>13, <1>14, <1>15, <1>16, <1>17, <1>18, <1>19, <1>20, <1>21
       DEF Next, Call, Run

\* Only started tasks have timeouts, and the timer is set no later than the
\* timeout that was next when the run began.
TimeInv ==
    /\ NextTimeoutAlive
    /\ TimerNotLate
    /\ \A t \in tasks : place[t] # 0
    /\ \A t \in Task : place[t] = 0 => state[t] = "INIT"
    /\ \A t \in Task : state[t] = "INIT" => timeout_time[t] = 0
    /\ pc = "process" => busy \in tasks
    /\ pc = "idle" => previous = 0
    /\ previous # 0 => timer # 0 /\ timer <= previous

\* UpdateTaskTimeout finds the next task, and keeps the timer early enough.
LEMMA UpdateAlive ==
    ASSUME TypeOK, TimeInv, NEW t \in Task, NEW when \in Nat,
           UpdateTaskTimeout(t, when), when # 0 => t \in tasks
    PROVE  /\ next_timeout_task' # NoTask =>
                  /\ next_timeout_task' \in tasks
                  /\ timeout_time'[next_timeout_task'] > 0
           /\ (\E u \in tasks \ done : timeout_time'[u] > 0) =>
                  next_timeout_task' # NoTask
           /\ pc = "idle" /\ next_timeout_task' # NoTask =>
                  timer' # 0 /\ timer' <= timeout_time'[next_timeout_task']
           /\ pc # "idle" => timer' = timer
<1> USE DEF TypeOK, TimeoutTypeOK, RunTypeOK, FlagTypeOK, TimeInv,
            NextTimeoutAlive
<1>0. /\ timeout_time' = [timeout_time EXCEPT ![t] = when]
      /\ timeout_time' \in [Task -> Nat]
    BY DEF UpdateTaskTimeout
<1>1. /\ next_timeout_task' # NoTask =>
              /\ next_timeout_task' \in tasks
              /\ timeout_time'[next_timeout_task'] > 0
      /\ (\E u \in tasks \ done : timeout_time'[u] > 0) =>
              next_timeout_task' # NoTask
    <2>1. CASE when # 0
        BY <1>0, <2>1, TreeAssumption DEF UpdateTaskTimeout, TimeoutOf
    <2>2. CASE when = 0 /\ t = next_timeout_task
        BY <1>0, <2>2, TreeAssumption DEF UpdateTaskTimeout, RecalcNextTimeout
    <2>3. CASE when = 0 /\ t # next_timeout_task
        BY <1>0, <2>3 DEF UpdateTaskTimeout
    <2> QED
        BY <2>1, <2>2, <2>3
<1>2. ASSUME pc = "idle", next_timeout_task' # NoTask
      PROVE  timer' # 0 /\ timer' <= timeout_time'[next_timeout_task']
    <2> DEFINE before == next_task_timeout
               after  == timeout_time'[next_timeout_task']
    <2>1. after \in Nat /\ after > 0
        BY <1>0, <1>1, <1>2
    <2>2. before \in Nat /\ timer \in Nat
          /\ (before # 0 => timer # 0 /\ timer <= before)
        BY <1>2, TreeAssumption DEF TimerNotLate, next_task_timeout, TimeoutOf
    <2>3. timer' = IF TimeoutChanged(before, after) THEN after ELSE timer
        BY <1>2 DEF UpdateTaskTimeout, CheckForTimeoutChange, TimeoutOf
    <2>4. timer' # 0 /\ timer' <= after
        <3> HIDE DEF before, after
        <3> QED
            BY <2>1, <2>2, <2>3 DEF TimeoutChanged
    <2> QED
        BY <2>4
<1>3. pc # "idle" => timer' = timer
    BY DEF UpdateTaskTimeout
<1> QED
    BY <1>1, <1>2, <1>3

\* So does ResetTimeout, for a task that was started if it is in a working state.
LEMMA ResetAlive ==
    ASSUME TypeOK, TimeInv, NEW t \in Task, NEW s, NEW seconds \in Nat,
           NEW suspended, ResetTimeout(t, s, seconds, suspended),
           s \in Working => t \in tasks
    PROVE  /\ next_timeout_task' # NoTask =>
                  /\ next_timeout_task' \in tasks
                  /\ timeout_time'[next_timeout_task'] > 0
           /\ (\E u \in tasks \ done : timeout_time'[u] > 0) =>
                  next_timeout_task' # NoTask
           /\ pc = "idle" /\ next_timeout_task' # NoTask =>
                  timer' # 0 /\ timer' <= timeout_time'[next_timeout_task']
           /\ pc # "idle" => timer' = timer
           /\ \A u \in Task \ {t} : timeout_time'[u] = timeout_time[u]
           /\ s \notin Working => timeout_time'[t] = 0
<1>1. PICK when \in Nat : /\ UpdateTaskTimeout(t, when)
                          /\ when # 0 => t \in tasks
                          /\ s \notin Working => when = 0
    <2>1. now + seconds \in Nat
        BY DEF TypeOK, TimeoutTypeOK
    <2>2. CASE s \in Working /\ seconds # 0 /\ ~suspended
        BY <2>1, <2>2 DEF ResetTimeout, Deadline
    <2>3. CASE ~(s \in Working /\ seconds # 0 /\ ~suspended)
        BY <2>3 DEF ResetTimeout
    <2> QED
        BY <2>2, <2>3
<1>2. timeout_time' = [timeout_time EXCEPT ![t] = when]
    BY <1>1 DEF UpdateTaskTimeout
<1>3. /\ \A u \in Task \ {t} : timeout_time'[u] = timeout_time[u]
      /\ s \notin Working => timeout_time'[t] = 0
    BY <1>1, <1>2 DEF TypeOK, TimeoutTypeOK
<1> QED
    BY <1>1, <1>3, UpdateAlive

\* So are the timeouts and the timer.
LEMMA TimeStep ==
    ASSUME TypeOK, BusyIsLive, TreeInv, TimeInv, [Next]_vars
    PROVE  TimeInv'
<1> USE DEF TypeOK, TreeTypeOK, FlagTypeOK, RunTypeOK, TimeoutTypeOK, TimeInv,
            NextTimeoutAlive, TimerNotLate, next_task_timeout, TimeoutOf,
            flag_vars, timeout_vars, tree_vars, queue_vars, run_vars, Calling
<1>1. ASSUME NEW t \in Task, NEW p \in Parents, New(t, p) PROVE TimeInv'
    BY <1>1 DEF New
<1>2. ASSUME NEW t \in Task, Start(t) PROVE TimeInv'
    <2>1. NextTimeoutAlive'
        BY <1>2, TreeAssumption DEF Start
    <2>2. TimerNotLate'
        BY <1>2 DEF Start
    <2>3. /\ \A u \in tasks' : place'[u] # 0
          /\ \A u \in Task : place'[u] = 0 => state'[u] = "INIT"
        BY <1>2 DEF Start
    <2> QED
        BY <1>2, <2>1, <2>2, <2>3 DEF Start
<1>3. ASSUME NEW t \in Task, Wake(t) PROVE TimeInv'
    BY <1>3 DEF Wake, Unblock
<1>4. ASSUME NEW t \in Task, Error(t) PROVE TimeInv'
    BY <1>4 DEF Error, Unblock
<1>5. ASSUME NEW t \in Task, Abort(t) PROVE TimeInv'
    BY <1>5 DEF Abort, AbortAll, Finish
<1>6. ASSUME NEW t \in Task, NEW s \in Seconds, SetTimeoutSeconds(t, s) PROVE TimeInv'
    <2>1. /\ next_timeout_task' # NoTask =>
                  /\ next_timeout_task' \in tasks
                  /\ timeout_time'[next_timeout_task'] > 0
          /\ (\E u \in tasks \ done : timeout_time'[u] > 0) =>
                  next_timeout_task' # NoTask
          /\ pc = "idle" /\ next_timeout_task' # NoTask =>
                  timer' # 0 /\ timer' <= timeout_time'[next_timeout_task']
          /\ pc # "idle" => timer' = timer
          /\ \A u \in Task \ {t} : timeout_time'[u] = timeout_time[u]
          /\ state[t] \notin Working => timeout_time'[t] = 0
        <3>1. /\ ResetTimeout(t, state[t], s, t \in timeout_suspended)
             /\ s \in Nat /\ (state[t] \in Working => t \in tasks)
            BY <1>6, SecondsAssumption DEF SetTimeoutSeconds, Object, Working
        <3> QED
            BY <3>1, ResetAlive
    <2>2. NextTimeoutAlive'
        BY <1>6, <2>1, TreeAssumption DEF SetTimeoutSeconds, Object, Working
    <2>3. TimerNotLate'
        BY <1>6, <2>1, TreeAssumption DEF SetTimeoutSeconds, Object, Working
    <2>4. \A u \in Task : state'[u] = "INIT" => timeout_time'[u] = 0
        BY <1>6, <2>1 DEF SetTimeoutSeconds, Object, Working
    <2>5. /\ \A u \in tasks' : place'[u] # 0
          /\ \A u \in Task : place'[u] = 0 => state'[u] = "INIT"
        BY <1>6 DEF SetTimeoutSeconds, Object, Working
    <2>6. /\ previous' # 0 => timer' # 0 /\ timer' <= previous'
          /\ pc' = "idle" => previous' = 0
        BY <1>6, <2>1 DEF SetTimeoutSeconds, Object, Working
    <2>7. pc' = "process" => busy' \in tasks'
        BY <1>6 DEF SetTimeoutSeconds, Object, Working
    <2> QED
        BY <2>2, <2>3, <2>4, <2>5, <2>6, <2>7
<1>7. ASSUME NEW t \in Task, SuspendTimeout(t) PROVE TimeInv'
    <2>1. /\ next_timeout_task' # NoTask =>
                  /\ next_timeout_task' \in tasks
                  /\ timeout_time'[next_timeout_task'] > 0
          /\ (\E u \in tasks \ done : timeout_time'[u] > 0) =>
                  next_timeout_task' # NoTask
          /\ pc = "idle" /\ next_timeout_task' # NoTask =>
                  timer' # 0 /\ timer' <= timeout_time'[next_timeout_task']
          /\ pc # "idle" => timer' = timer
          /\ \A u \in Task \ {t} : timeout_time'[u] = timeout_time[u]
          /\ state[t] \notin Working => timeout_time'[t] = 0
        <3>1. /\ ResetTimeout(t, state[t], timeout_seconds[t], TRUE)
             /\ timeout_seconds[t] \in Nat
             /\ (state[t] \in Working => t \in tasks)
            BY <1>7, SecondsAssumption DEF SuspendTimeout, Object, Working
        <3> QED
            BY <3>1, ResetAlive
    <2>2. NextTimeoutAlive'
        BY <1>7, <2>1, TreeAssumption DEF SuspendTimeout, Object, Working
    <2>3. TimerNotLate'
        BY <1>7, <2>1, TreeAssumption DEF SuspendTimeout, Object, Working
    <2>4. \A u \in Task : state'[u] = "INIT" => timeout_time'[u] = 0
        BY <1>7, <2>1 DEF SuspendTimeout, Object, Working
    <2>5. /\ \A u \in tasks' : place'[u] # 0
          /\ \A u \in Task : place'[u] = 0 => state'[u] = "INIT"
        BY <1>7 DEF SuspendTimeout, Object, Working
    <2>6. /\ previous' # 0 => timer' # 0 /\ timer' <= previous'
          /\ pc' = "idle" => previous' = 0
        BY <1>7, <2>1 DEF SuspendTimeout, Object, Working
    <2>7. pc' = "process" => busy' \in tasks'
        BY <1>7 DEF SuspendTimeout, Object, Working
    <2> QED
        BY <2>2, <2>3, <2>4, <2>5, <2>6, <2>7
<1>8. ASSUME NEW t \in Task, ResumeTimeout(t) PROVE TimeInv'
    <2>1. /\ next_timeout_task' # NoTask =>
                  /\ next_timeout_task' \in tasks
                  /\ timeout_time'[next_timeout_task'] > 0
          /\ (\E u \in tasks \ done : timeout_time'[u] > 0) =>
                  next_timeout_task' # NoTask
          /\ pc = "idle" /\ next_timeout_task' # NoTask =>
                  timer' # 0 /\ timer' <= timeout_time'[next_timeout_task']
          /\ pc # "idle" => timer' = timer
          /\ \A u \in Task \ {t} : timeout_time'[u] = timeout_time[u]
          /\ state[t] \notin Working => timeout_time'[t] = 0
        <3>1. /\ ResetTimeout(t, state[t], timeout_seconds[t], FALSE)
             /\ timeout_seconds[t] \in Nat
             /\ (state[t] \in Working => t \in tasks)
            BY <1>8, SecondsAssumption DEF ResumeTimeout, Object, Working
        <3> QED
            BY <3>1, ResetAlive
    <2>2. NextTimeoutAlive'
        BY <1>8, <2>1, TreeAssumption DEF ResumeTimeout, Object, Working
    <2>3. TimerNotLate'
        BY <1>8, <2>1, TreeAssumption DEF ResumeTimeout, Object, Working
    <2>4. \A u \in Task : state'[u] = "INIT" => timeout_time'[u] = 0
        BY <1>8, <2>1 DEF ResumeTimeout, Object, Working
    <2>5. /\ \A u \in tasks' : place'[u] # 0
          /\ \A u \in Task : place'[u] = 0 => state'[u] = "INIT"
        BY <1>8 DEF ResumeTimeout, Object, Working
    <2>6. /\ previous' # 0 => timer' # 0 /\ timer' <= previous'
          /\ pc' = "idle" => previous' = 0
        BY <1>8, <2>1 DEF ResumeTimeout, Object, Working
    <2>7. pc' = "process" => busy' \in tasks'
        BY <1>8 DEF ResumeTimeout, Object, Working
    <2> QED
        BY <2>2, <2>3, <2>4, <2>5, <2>6, <2>7
<1>9. CASE RunTasks
    BY <1>9, TreeAssumption DEF RunTasks
<1>10. ASSUME NEW t \in Task, ErrorStep(t) PROVE TimeInv'
    BY <1>10 DEF ErrorStep, Finish, Due
<1>11. ASSUME NEW t \in Task, InitStep(t) PROVE TimeInv'
    <2>1. /\ next_timeout_task' # NoTask =>
                  /\ next_timeout_task' \in tasks
                  /\ timeout_time'[next_timeout_task'] > 0
          /\ (\E u \in tasks \ done : timeout_time'[u] > 0) =>
                  next_timeout_task' # NoTask
          /\ pc = "idle" /\ next_timeout_task' # NoTask =>
                  timer' # 0 /\ timer' <= timeout_time'[next_timeout_task']
          /\ pc # "idle" => timer' = timer
          /\ \A u \in Task \ {t} : timeout_time'[u] = timeout_time[u]
          /\ "START" \notin Working => timeout_time'[t] = 0
        <3>1. /\ ResetTimeout(t, "START", timeout_seconds[t],
                             t \in timeout_suspended)
             /\ timeout_seconds[t] \in Nat /\ t \in tasks
            BY <1>11, SecondsAssumption DEF InitStep, Due
        <3> QED
            BY <3>1, ResetAlive
    <2>2. NextTimeoutAlive'
        BY <1>11, <2>1, TreeAssumption DEF InitStep, Due
    <2>3. TimerNotLate'
        BY <1>11, <2>1, TreeAssumption DEF InitStep, Due
    <2>4. \A u \in Task : state'[u] = "INIT" => timeout_time'[u] = 0
        BY <1>11, <2>1 DEF InitStep, Due
    <2>5. /\ \A u \in tasks' : place'[u] # 0
          /\ \A u \in Task : place'[u] = 0 => state'[u] = "INIT"
        BY <1>11 DEF InitStep, Due
    <2>6. /\ previous' # 0 => timer' # 0 /\ timer' <= previous'
          /\ pc' = "idle" => previous' = 0
        BY <1>11, <2>1 DEF InitStep, Due
    <2>7. pc' = "process" => busy' \in tasks'
        BY <1>11 DEF InitStep, Due
    <2> QED
        BY <2>2, <2>3, <2>4, <2>5, <2>6, <2>7
<1>12. ASSUME NEW t \in Task, ProcessStep(t) PROVE TimeInv'
    <2>1. CASE TimedOut(t)
        <3>1. /\ next_timeout_task' # NoTask =>
                      /\ next_timeout_task' \in tasks
                      /\ timeout_time'[next_timeout_task'] > 0
              /\ (\E u \in tasks \ done : timeout_time'[u] > 0) =>
                      next_timeout_task' # NoTask
              /\ pc = "idle" /\ next_timeout_task' # NoTask =>
                      timer' # 0 /\ timer' <= timeout_time'[next_timeout_task']
              /\ pc # "idle" => timer' = timer
            <4>1. UpdateTaskTimeout(t, 0)
                BY <2>1, <1>12, SecondsAssumption DEF ProcessStep, Due, Working
            <4> QED
                BY <4>1, UpdateAlive
        <3>2. NextTimeoutAlive'
            BY <2>1, <1>12, <3>1, TreeAssumption DEF ProcessStep, Due, Working
        <3>3. TimerNotLate'
            BY <2>1, <1>12, <3>1, TreeAssumption DEF ProcessStep, Due, Working
        <3>4. \A u \in Task : state'[u] = "INIT" => timeout_time'[u] = 0
            BY <2>1, <1>12, <3>1 DEF UpdateTaskTimeout, ProcessStep
        <3>5. /\ \A u \in tasks' : place'[u] # 0
              /\ \A u \in Task : place'[u] = 0 => state'[u] = "INIT"
            BY <2>1, <1>12 DEF ProcessStep, Due, Working
        <3>6. /\ previous' # 0 => timer' # 0 /\ timer' <= previous'
              /\ pc' = "idle" => previous' = 0
            BY <2>1, <1>12, <3>1 DEF ProcessStep, Due, Working
        <3>7. pc' = "process" => busy' \in tasks'
            BY <2>1, <1>12 DEF ProcessStep, Due, Working
        <3> QED
            BY <3>2, <3>3, <3>4, <3>5, <3>6, <3>7
    <2>2. CASE ~TimedOut(t)
        <3>1. NextTimeoutAlive'
            BY <2>2, <1>12 DEF ProcessStep, Due, Working
        <3>2. /\ TimerNotLate'
              /\ previous' # 0 => timer' # 0 /\ timer' <= previous'
            BY <2>2, <1>12 DEF ProcessStep, Due, Working
        <3> QED
            BY <3>1, <3>2, <2>2, <1>12 DEF ProcessStep, Due
    <2> QED
        BY <2>1, <2>2
<1>13. CASE ReturnAborted
    BY <1>13 DEF ReturnAborted, Finish
<1>14. CASE ReturnBlocked
    BY <1>14 DEF ReturnBlocked, Back
<1>15. ASSUME NEW s \in States, ReturnNext(s) PROVE TimeInv'
    <2>1. /\ next_timeout_task' # NoTask =>
                  /\ next_timeout_task' \in tasks
                  /\ timeout_time'[next_timeout_task'] > 0
          /\ (\E u \in tasks \ done : timeout_time'[u] > 0) =>
                  next_timeout_task' # NoTask
          /\ pc = "idle" /\ next_timeout_task' # NoTask =>
                  timer' # 0 /\ timer' <= timeout_time'[next_timeout_task']
          /\ pc # "idle" => timer' = timer
          /\ \A u \in Task \ {busy} : timeout_time'[u] = timeout_time[u]
          /\ s \notin Working => timeout_time'[busy] = 0
        <3>1. /\ ResetTimeout(busy, s, timeout_seconds[busy],
                             busy \in timeout_suspended)
             /\ timeout_seconds[busy] \in Nat /\ busy \in tasks
            BY <1>15, SecondsAssumption DEF ReturnNext, Back, Working
        <3> QED
            BY <3>1, ResetAlive
    <2>2. NextTimeoutAlive'
        BY <1>15, <2>1, TreeAssumption DEF ReturnNext, Back, Working
    <2>3. TimerNotLate'
        BY <1>15, <2>1, TreeAssumption DEF ReturnNext, Back, Working
    <2>4. \A u \in Task : state'[u] = "INIT" => timeout_time'[u] = 0
        BY <1>15, <2>1 DEF ReturnNext, Back, Working
    <2>5. /\ \A u \in tasks' : place'[u] # 0
          /\ \A u \in Task : place'[u] = 0 => state'[u] = "INIT"
        BY <1>15 DEF ReturnNext, Back, Working
    <2>6. /\ previous' # 0 => timer' # 0 /\ timer' <= previous'
          /\ pc' = "idle" => previous' = 0
        BY <1>15, <2>1 DEF ReturnNext, Back, Working
    <2>7. pc' = "process" => busy' \in tasks'
        BY <1>15 DEF ReturnNext, Back, Working
    <2> QED
        BY <2>2, <2>3, <2>4, <2>5, <2>6, <2>7
<1>16. ASSUME NEW s \in States, ReturnFinal(s) PROVE TimeInv'
    <2>1. /\ next_timeout_task' # NoTask =>
                  /\ next_timeout_task' \in tasks
                  /\ timeout_time'[next_timeout_task'] > 0
          /\ (\E u \in tasks \ done : timeout_time'[u] > 0) =>
                  next_timeout_task' # NoTask
          /\ pc = "idle" /\ next_timeout_task' # NoTask =>
                  timer' # 0 /\ timer' <= timeout_time'[next_timeout_task']
          /\ pc # "idle" => timer' = timer
          /\ \A u \in Task \ {busy} : timeout_time'[u] = timeout_time[u]
          /\ s \notin Working => timeout_time'[busy] = 0
        <3>1. /\ ResetTimeout(busy, s, timeout_seconds[busy], FALSE)
             /\ timeout_seconds[busy] \in Nat /\ s \notin Working /\ busy \in Task
            BY <1>16, SecondsAssumption DEF ReturnFinal, Back, Working
        <3> QED
            BY <3>1, ResetAlive
    <2>2. NextTimeoutAlive'
        BY <1>16, <2>1, TreeAssumption DEF ReturnFinal, Back, Working
    <2>3. TimerNotLate'
        BY <1>16, <2>1, TreeAssumption DEF ReturnFinal, Back, Working
    <2>4. \A u \in Task : state'[u] = "INIT" => timeout_time'[u] = 0
        BY <1>16, <2>1 DEF ReturnFinal, Back, Working
    <2>5. /\ \A u \in tasks' : place'[u] # 0
          /\ \A u \in Task : place'[u] = 0 => state'[u] = "INIT"
        BY <1>16 DEF ReturnFinal, Back, Working
    <2>6. /\ previous' # 0 => timer' # 0 /\ timer' <= previous'
          /\ pc' = "idle" => previous' = 0
        BY <1>16, <2>1 DEF ReturnFinal, Back, Working
    <2>7. pc' = "process" => busy' \in tasks'
        BY <1>16 DEF ReturnFinal, Back, Working
    <2> QED
        BY <2>2, <2>3, <2>4, <2>5, <2>6, <2>7
<1>17. CASE RunEnd
    <2> DEFINE rest  == tasks \ done
               after == TimeoutOf(next_timeout_task', timeout_time)
    <2>1. /\ next_timeout_task' # NoTask =>
                  /\ next_timeout_task' \in rest
                  /\ timeout_time[next_timeout_task'] > 0
          /\ (\E u \in rest : timeout_time[u] > 0) =>
                  next_timeout_task' # NoTask
        BY <1>17, TreeAssumption DEF RunEnd, AfterDeleting, RecalcNextTimeout
    <2>2. after \in Nat /\ (next_timeout_task' # NoTask => after > 0)
        BY <2>1
    <2>3. pc' = "idle" => timer' = IF TimeoutChanged(previous, after)
                                   THEN after ELSE timer
        BY <1>17 DEF RunEnd, CheckForTimeoutChange
    <2>4. pc' = "idle" /\ next_timeout_task' # NoTask =>
              timer' # 0 /\ timer' <= after
        <3> HIDE DEF after
        <3> QED
            BY <2>2, <2>3 DEF TimeoutChanged
    <2>5. TimerNotLate'
        BY <2>1, <2>4, <1>17 DEF RunEnd
    <2>6. NextTimeoutAlive'
        BY <2>1, <1>17 DEF RunEnd
    <2> QED
        BY <2>5, <2>6, <1>17 DEF RunEnd
<1>18. CASE Destroy
    BY <1>18, TreeAssumption DEF Destroy, AbortAll, Finish
<1>19. CASE Tick
    BY <1>19 DEF Tick
<1>20. CASE TimerFires
    <2>1. NextTimeoutAlive'
        BY <1>20 DEF TimerFires
    <2>2. TimerNotLate'
        BY <1>20, TreeAssumption DEF TimerFires, PollTasks
    <2> QED
        BY <1>20, <2>1, <2>2 DEF TimerFires
<1>21. CASE UNCHANGED vars
    BY <1>21 DEF vars
<1> QED
    BY <1>1, <1>2, <1>3, <1>4, <1>5, <1>6, <1>7, <1>8, <1>9, <1>10,
       <1>11, <1>12, <1>13, <1>14, <1>15, <1>16, <1>17, <1>18, <1>19, <1>20, <1>21
       DEF Next, Call, Run

-----------------------------------------------------------------------------
(* The inductive invariant, and what follows from it.                      *)

IInv ==
    TypeOK /\ TreeInv /\ LifeInv /\ NoLostWake /\ DestroyInv /\ TimeInv

LEMMA InitIInv == Init => IInv
<1> SUFFICES ASSUME Init PROVE IInv
    OBVIOUS
<1>1. TypeOK
    BY InitType
<1>2. TreeInv
    BY DEF Init, TreeInv, BusyIsLive, WellFounded
<1>3. LifeInv
    BY DEF Init, LifeInv, DoneIsBlocked, NoOrphans, Live, ChildErrorSeen
<1>4. NoLostWake
    BY DEF Init, NoLostWake
<1>5. DestroyInv
    BY DEF Init, DestroyInv
<1>6. TimeInv
    BY DEF Init, TimeInv, NextTimeoutAlive, TimerNotLate
<1> QED
    BY <1>1, <1>2, <1>3, <1>4, <1>5, <1>6 DEF IInv

LEMMA StepIInv == IInv /\ [Next]_vars => IInv'
BY StepType, TreeStep, LifeStep, WakeStep, DestroyStep, TimeStep
DEF IInv, TreeInv

\* The invariant of the scheduler.
THEOREM InvariantHolds == Spec => []IInv
BY InitIInv, StepIInv, PTL DEF Spec

\* Every variable keeps its type.
THEOREM TypeCorrect == Spec => []TypeOK
BY InitType, StepType, PTL DEF Spec

\* Task::Step never meets a finished task that is not blocked.
THEOREM FinishedStaysBlocked == Spec => []DoneIsBlocked
<1>1. IInv => DoneIsBlocked
    BY DEF IInv, LifeInv
<1> QED
    BY <1>1, InvariantHolds, PTL

\* No live task is left below a finished one.
THEOREM TreeIsAborted == Spec => []NoOrphans
<1>1. IInv => NoOrphans
    BY DEF IInv, LifeInv
<1> QED
    BY <1>1, InvariantHolds, PTL

\* Between runs whatever is runnable or to be deleted has a wake-up posted.
THEOREM WakeIsPosted == Spec => []NoLostWake
<1>1. IInv => NoLostWake
    BY DEF IInv
<1> QED
    BY <1>1, InvariantHolds, PTL

\* A child that ended in STATE_ERROR is known to its parent.
THEOREM ErrorsReachParents == Spec => []ChildErrorSeen
<1>1. IInv => ChildErrorSeen
    BY DEF IInv, LifeInv
<1> QED
    BY <1>1, InvariantHolds, PTL

\* next_timeout_task_ never dangles, and is not NULL while a timeout is set.
THEOREM NextIsAlive == Spec => []NextTimeoutAlive
<1>1. IInv => NextTimeoutAlive
    BY DEF IInv, TimeInv
<1> QED
    BY <1>1, InvariantHolds, PTL

\* A timer that follows OnTimeoutChange fires no later than the next timeout.
THEOREM TimerIsEarly == Spec => []TimerNotLate
<1>1. IInv => TimerNotLate
    BY DEF IInv, TimeInv
<1> QED
    BY <1>1, InvariantHolds, PTL

\* The destructor runs no task code and leaves no started task.
THEOREM DestructionIsSilent == Spec => []SilentDestruction
<1>1. IInv => SilentDestruction
    BY DEF IInv, DestroyInv, SilentDestruction
<1> QED
    BY <1>1, InvariantHolds, PTL

\* The tree of tasks is sound, whatever starts, stops and fails in it.
THEOREM TreeIsSound == Spec => []TreeSound
<1>1. DoneIsBlocked /\ NoOrphans /\ ChildErrorSeen /\ SilentDestruction => TreeSound
    BY DEF TreeSound
<1> QED
    BY <1>1, FinishedStaysBlocked, TreeIsAborted, ErrorsReachParents,
       DestructionIsSilent, PTL

\* The next timeout is known and the timer set in time for it.
THEOREM TimeoutsAreKept == Spec => []TimeoutsKept
<1>1. NextTimeoutAlive /\ TimerNotLate => TimeoutsKept
    BY DEF TimeoutsKept
<1> QED
    BY <1>1, NextIsAlive, TimerIsEarly, PTL

\* The code of an aborted task is not entered again.
THEOREM AbortIsFinal == Spec => NoCallbackAfterAbort
<1>1. ASSUME IInv, [Next]_vars, NEW t \in aborted, busy' = t
      PROVE  busy = t
    <2> USE DEF IInv, LifeInv, TypeOK, FlagTypeOK, run_vars, Calling
    <2>1. t \in Task
        BY <1>1
    <2>2. ASSUME NEW u \in Task, ProcessStep(u) PROVE busy = t
        BY <1>1, <2>1, <2>2 DEF ProcessStep
    <2>3. CASE Call
        BY <1>1, <2>3 DEF Call, New, Start, Wake, Error, Abort,
                          SetTimeoutSeconds, SuspendTimeout, ResumeTimeout
    <2>4. CASE Run
        <3>1. CASE RunTasks \/ RunEnd
            BY <1>1, <3>1 DEF RunTasks, RunEnd
        <3>2. ASSUME NEW u \in Task, ErrorStep(u) \/ InitStep(u)
              PROVE  busy = t
            BY <1>1, <3>2 DEF ErrorStep, InitStep
        <3>3. CASE ReturnAborted
            BY <1>1, <2>1, <3>3, TreeAssumption DEF ReturnAborted
        <3>4. ASSUME Back PROVE busy = t
            BY <1>1, <2>1, <3>4, TreeAssumption DEF Back
        <3> QED
            BY <2>2, <2>4, <3>1, <3>2, <3>3, <3>4
            DEF Run, ReturnBlocked, ReturnNext, ReturnFinal
    <2>5. CASE Destroy \/ Tick \/ TimerFires \/ UNCHANGED vars
        BY <1>1, <2>5 DEF Destroy, Tick, TimerFires, vars
    <2> QED
        BY <1>1, <2>3, <2>4, <2>5 DEF Next
<1>2. IInv /\ [Next]_vars =>
          [\A t \in aborted : busy' = t => busy = t]_vars
    BY <1>1
<1> QED
    BY <1>2, InvariantHolds, PTL DEF Spec, NoCallbackAfterAbort
=============================================================================
