----------------------------- MODULE MCBaseProofs -----------------------------
(***************************************************************************)
(* Theorems about the parts of MCBase, for every value of its constants:   *)
(* requests that race with their timeouts; the asynchronous writer; POSIX  *)
(* signals; the socket server; the SignalThread; queues and handlers that  *)
(* come and go; delayed messages.  Each part is a section with an          *)
(* invariant of its own; the last one puts them together.                  *)
(***************************************************************************)
EXTENDS MCBase, FiniteSetTheorems, SequenceTheorems, WellFoundedInduction, TLAPS

-----------------------------------------------------------------------------
(***************************************************************************)
(* Requests, any number of them and any answers, disconnections and polls. *)
(***************************************************************************)
\* Telling and ending are one step.
SilentTillEnd == \A r \in Request : ~Ended(r) => signals[r] = <<>>

\* Only a request in RESPONSE, or that has been there, was sent.
AskedIsSent == \A r \in Request : state[r] \in {"INIT", "START"} => r \notin asked

IInv == TypeOK /\ ToldOnce /\ SilentTillEnd /\ AskedIsSent

-----------------------------------------------------------------------------
(* What a signal is.                                                       *)

Signals == UNION {[1 .. n -> {"result", "error"}] : n \in 0 .. 2}

LEMMA FirstSignal ==
    ASSUME NEW told \in {"result", "error"}
    PROVE  Append(<<>>, told) \in Signals /\ Len(Append(<<>>, told)) = 1
<1>1. Append(<<>>, told) = <<told>>
  OBVIOUS
<1>2. <<told>> \in [1 .. 1 -> {"result", "error"}] /\ Len(<<told>>) = 1
  OBVIOUS
<1> QED
  BY <1>1, <1>2 DEF Signals

\* A task tells one of two things of any result.
LEMMA ResultTold ==
    ASSUME NEW k \in Kind, NEW a
    PROVE  HandleResult(k, a) \in {"result", "error"}
<1>1. CASE k = "discovery"
  BY <1>1 DEF HandleResult, DiscoveryResult
<1>2. CASE k = "lookup"
  BY <1>2 DEF HandleResult, LookupResult
<1>3. CASE k = "config"
  BY <1>3 DEF HandleResult, ConfigResult
<1>4. CASE k = "hangout_id"
  BY <1>4 DEF HandleResult, HangoutIdResult
<1>5. CASE k = "disco_items"
  BY <1>5 DEF HandleResult, DiscoItemsResult
<1> QED
  BY <1>1, <1>2, <1>3, <1>4, <1>5 DEF Kind

-----------------------------------------------------------------------------
(* The steps.                                                              *)

\* A step that changes neither what was told, nor where a request is.
LEMMA Silent ==
    ASSUME IInv, UNCHANGED <<state, signals, asked>>,
           \A r \in Request : error[r] => error'[r],
           TypeOK'
    PROVE  IInv'
<1>1. \A r \in Request : Ended(r)' <=> Ended(r)
  BY DEF Ended
<1> QED
  BY <1>1 DEF IInv, ToldOnce, SilentTillEnd, AskedIsSent

\* Task::Enter keeps the types.
LEMMA Entered ==
    ASSUME TypeOK, NEW r \in Request,
           NEW s \in {"INIT", "START", "RESPONSE", "DONE", "ERROR"}, Enter(r, s)
    PROVE  /\ state' \in [Request -> {"INIT", "START", "RESPONSE", "DONE", "ERROR"}]
           /\ blocked' \in [Request -> BOOLEAN]
           /\ timer' \in [Request -> {"off", "running", "due"}]
           /\ state'[r] = s /\ \A q \in Request \ {r} : state'[q] = state[q]
BY DEF TypeOK, Enter

\* Only r moves, and it is asked for and told as it should be: all is well.
LEMMA Moved ==
    ASSUME IInv, TypeOK', NEW r \in Request, error' = error,
           \A q \in Request \ {r} :
               state'[q] = state[q] /\ signals'[q] = signals[q] /\ (q \in asked' <=> q \in asked),
           Len(signals'[r]) <= 1,
           Ended(r)' /\ ~error[r] /\ r \in asked' => Len(signals'[r]) = 1,
           ~Ended(r)' => signals'[r] = <<>>,
           state'[r] \in {"INIT", "START"} => r \notin asked'
    PROVE  IInv'
<1>1. \A q \in Request \ {r} : Ended(q)' <=> Ended(q)
  BY DEF Ended
<1>2. ToldOnce'
  BY <1>1 DEF IInv, ToldOnce
<1>3. SilentTillEnd'
  BY <1>1 DEF IInv, SilentTillEnd
<1>4. AskedIsSent'
  BY DEF IInv, AskedIsSent
<1> QED
  BY <1>2, <1>3, <1>4 DEF IInv

\* Task::Step: an error, a timeout, or the code of the state.
LEMMA StepKeeps ==
    ASSUME IInv, NEW r \in Request, Step(r)
    PROVE  IInv'
<1> USE DEF Ended
<1>1. /\ kind[r] # "none" /\ ~Ended(r) /\ kind' = kind /\ error' = error
      /\ signals[r] = <<>> /\ Len(signals[r]) = 0
  BY DEF Step, IInv, SilentTillEnd
<1>2. /\ kind \in [Request -> Kind \cup {"none"}] /\ error \in [Request -> BOOLEAN]
      /\ signals \in [Request -> Signals] /\ kind[r] \in Kind
  BY <1>1 DEF IInv, TypeOK, Signals
<1> DEFINE Tells(told) == signals' = [signals EXCEPT ![r] = Append(signals[r], told)]
\* What follows of a step into s.
<1>3. ASSUME NEW s \in {"START", "RESPONSE", "ERROR"}, Enter(r, s),
             UNCHANGED signals,
             s = "ERROR" => error[r] \/ r \notin asked',
             s = "START" => r \notin asked',
             \A q \in Request \ {r} : q \in asked' <=> q \in asked
      PROVE  IInv'
  <2>1. TypeOK'
    BY <1>1, <1>2, <1>3, Entered DEF IInv, TypeOK, Signals
  <2>2. state'[r] = s /\ \A q \in Request \ {r} : state'[q] = state[q]
    BY <1>3, Entered DEF IInv
  <2> QED
    BY <1>1, <1>3, <2>1, <2>2, Moved
<1>4. ASSUME NEW s \in {"DONE", "ERROR"}, Enter(r, s), UNCHANGED asked,
             NEW told \in {"result", "error"}, Tells(told)
      PROVE  IInv'
  <2>1. signals'[r] \in Signals /\ Len(signals'[r]) = 1
    BY <1>1, <1>2, <1>4, FirstSignal
  <2>2. signals' \in [Request -> Signals] /\ \A q \in Request \ {r} : signals'[q] = signals[q]
    BY <1>2, <1>4, <2>1
  <2>3. TypeOK'
    BY <1>1, <1>2, <1>4, <2>2, Entered DEF IInv, TypeOK, Signals
  <2>4. state'[r] = s /\ \A q \in Request \ {r} : state'[q] = state[q]
    BY <1>4, Entered DEF IInv
  <2> QED
    BY <1>1, <1>4, <2>1, <2>2, <2>3, <2>4, Moved
<1>5. CASE error[r] /\ Enter(r, "ERROR") /\ UNCHANGED <<stanza_queue, signals, asked>>
  BY <1>3, <1>5
<1>6. CASE ~error[r] /\ timer[r] = "due" /\ OnTimeout(r) /\ Enter(r, "ERROR")
           /\ UNCHANGED <<stanza_queue, asked>>
  <2>1. Tells("error")
    BY <1>6 DEF OnTimeout
  <2> QED
    BY <1>4, <1>6, <2>1
<1>7. CASE state[r] = "INIT" /\ Enter(r, "START") /\ UNCHANGED <<stanza_queue, signals, asked>>
  <2>1. r \notin asked
    BY <1>7 DEF IInv, AskedIsSent
  <2> QED
    BY <1>3, <1>7, <2>1
<1>8. CASE state[r] = "START" /\ ProcessStart(r)
  <2>1. r \notin asked /\ UNCHANGED signals
    BY <1>8 DEF IInv, AskedIsSent, ProcessStart
  <2>2. CASE asked' = asked \cup {r} /\ Enter(r, "RESPONSE")
    BY <1>3, <2>1, <2>2
  <2>3. CASE asked' = asked /\ Enter(r, "ERROR")
    BY <1>3, <2>1, <2>3
  <2> QED
    BY <1>8, <2>2, <2>3 DEF ProcessStart
<1>9. CASE state[r] = "RESPONSE" /\ ProcessResponse(r)
  <2>1. CASE stanza_queue[r] = <<>>
    <3>1. UNCHANGED <<state, signals, asked, timer>> /\ blocked' = [blocked EXCEPT ![r] = TRUE]
      BY <1>9, <2>1 DEF ProcessResponse, Block
    <3>2. TypeOK'
      BY <1>1, <3>1 DEF IInv, TypeOK
    <3> QED
      BY <1>1, <3>1, <3>2, Silent
  <2>2. CASE stanza_queue[r] # <<>>
    <3> DEFINE a == Head(stanza_queue[r])
               told == IF a.type = "result" THEN HandleResult(kind[r], a) ELSE "error"
    <3>1. told \in {"result", "error"}
      BY <1>2, ResultTold
    <3>2. Tells(told) /\ Enter(r, "DONE") /\ UNCHANGED asked
      BY <1>9, <2>2 DEF ProcessResponse
    <3> HIDE DEF told
    <3> QED
      BY <1>4, <3>1, <3>2
  <2> QED
    BY <2>1, <2>2
<1> QED
  <2>1. state[r] \in {"INIT", "START", "RESPONSE"}
    BY <1>1 DEF IInv, TypeOK
  <2> QED
    BY <1>5, <1>6, <1>7, <1>8, <1>9, <2>1 DEF Step

LEMMA DeliverKeeps ==
    ASSUME IInv, Deliver
    PROVE  IInv'
<1>1. UNCHANGED <<kind, state, error, timer, signals, asked>>
  BY DEF Deliver
<1>2. blocked' \in [Request -> BOOLEAN]
  BY DEF Deliver, IInv, TypeOK
<1>3. TypeOK'
  BY <1>1, <1>2 DEF IInv, TypeOK
<1> QED
  BY <1>1, <1>3, Silent

LEMMA DisconnectKeeps ==
    ASSUME IInv, Disconnect
    PROVE  IInv'
<1>1. /\ UNCHANGED <<kind, state, timer, signals, asked>>
      /\ error' = [r \in Request |-> error[r] \/ (kind[r] # "none" /\ ~Ended(r))]
      /\ blocked' = [r \in Request |-> blocked[r] /\ Ended(r)]
  BY DEF Disconnect
<1>2. error' \in [Request -> BOOLEAN] /\ \A r \in Request : error[r] => error'[r]
  BY <1>1, Zenon
<1>3. blocked' \in [Request -> BOOLEAN]
  BY <1>1, Zenon
<1>4. TypeOK'
  BY <1>1, <1>2, <1>3 DEF IInv, TypeOK
<1> QED
  BY <1>1, <1>2, <1>4, Silent

LEMMA PollKeeps ==
    ASSUME IInv, PollTasks
    PROVE  IInv'
<1>1. /\ UNCHANGED <<kind, state, error, timer, signals, asked>>
      /\ blocked' = [r \in Request |-> blocked[r] /\ timer[r] # "due"]
  BY DEF PollTasks
<1>2. blocked' \in [Request -> BOOLEAN]
  BY <1>1, Zenon
<1>3. TypeOK'
  BY <1>1, <1>2 DEF IInv, TypeOK
<1> QED
  BY <1>1, <1>3, Silent

LEMMA OthersKeep ==
    ASSUME IInv,
           \/ \E r \in Request, k \in Kind : Make(r, k)
           \/ \E r \in Request : TimePasses(r)
           \/ ServerAnswers \/ UNCHANGED vars
    PROVE  IInv'
<1>1. UNCHANGED <<state, blocked, error, signals, asked>>
  BY DEF Make, TimePasses, ServerAnswers, vars, task_vars
<1>2. /\ kind' \in [Request -> Kind \cup {"none"}]
      /\ timer' \in [Request -> {"off", "running", "due"}]
  BY DEF Make, TimePasses, ServerAnswers, vars, task_vars, IInv, TypeOK
<1>3. TypeOK'
  BY <1>1, <1>2 DEF IInv, TypeOK
<1> QED
  BY <1>1, <1>3, Silent

-----------------------------------------------------------------------------
(* The requests alone.                                                     *)

LEMMA IqInit == Init => IInv
<1> SUFFICES ASSUME Init PROVE IInv
  OBVIOUS
<1>1. \A r \in Request : signals[r] = <<>> /\ ~Ended(r)
  BY DEF Init, Ended
<1>2. signals \in [Request -> Signals]
  <2>1. <<>> \in [1 .. 0 -> {"result", "error"}]
    OBVIOUS
  <2>2. <<>> \in Signals
    BY <2>1 DEF Signals
  <2> QED
    BY <2>2 DEF Init
<1>3. TypeOK
  BY <1>2 DEF Init, TypeOK, Signals
<1> QED
  BY <1>1, <1>3 DEF Init, IInv, ToldOnce, SilentTillEnd, AskedIsSent

LEMMA IqNext == IInv /\ [Next]_vars => IInv'
BY StepKeeps, DeliverKeeps, DisconnectKeeps, PollKeeps, OthersKeep DEF Next

\* Whatever races, a late answer with the deadline, a second answer, the end
\* of the connection: a request tells once (IqTask::ProcessResponse,
\* OnTimeout).
THEOREM RequestsHold == Spec => []IInv
BY IqInit, IqNext, PTL DEF Spec

\* Every caller is told once of a request that ends (IqTask and its tasks).
THEOREM CallersAreTold == Spec => []RequestsTellOnce
<1>1. IInv => RequestsTellOnce
  BY DEF IInv, RequestsTellOnce
<1> QED
  BY <1>1, RequestsHold, PTL

-----------------------------------------------------------------------------
(***************************************************************************)
(* The asynchronous writer, for any number of chunks.  A chunk is in one   *)
(* of four places or was dropped, and a step moves what one place has to   *)
(* another; q says what each place has, so that a move is a lemma about q. *)
(***************************************************************************)
Place == {"stream", "caller", "writer", "buffer"}
Chunks(q) == {q[k] : k \in 1 .. Len(q)}
Once(q) == \A j, k \in 1 .. Len(q) : q[j] = q[k] => j = k
Rising(q) == \A j, k \in 1 .. Len(q) : j < k => q[j] < q[k]

\* Each of the chunks 1 to n is in one place, once, or was dropped.
Parted(q, dropped, n) ==
    /\ q \in [Place -> Seq(Nat)]
    /\ \A p \in Place :
           /\ Once(q[p]) /\ Chunks(q[p]) \subseteq (1 .. n) \ dropped
           /\ \A o \in Place \ {p} : Chunks(q[p]) \cap Chunks(q[o]) = {}
    /\ dropped \subseteq 1 .. n
    /\ \A k \in 1 .. n : k \in dropped \/ \E p \in Place : k \in Chunks(q[p])

\* The places in the order of what they have.
Earlier == {"stream"} \X {"caller", "writer", "buffer"} \cup {"caller", "writer"} \X {"buffer"}
Sorted(q) ==
    /\ \A p \in Place : Rising(q[p])
    /\ \A e \in Earlier : \A j \in Chunks(q[e[1]]), k \in Chunks(q[e[2]]) : j < k

LEMMA NothingThere ==
    /\ <<>> \in Seq(Nat) /\ Chunks(<<>>) = {} /\ Once(<<>>) /\ Rising(<<>>)
    /\ \A s \in Seq(Nat) : s # <<>> => Chunks(s) # {}
<1>1. <<>> \in Seq(Nat) /\ Chunks(<<>>) = {} /\ Once(<<>>) /\ Rising(<<>>)
  BY DEF Chunks, Once, Rising
<1>2. ASSUME NEW s \in Seq(Nat), s # <<>>
      PROVE  Chunks(s) # {}
  <2>1. Len(s) \in Nat \ {0}
    BY <1>2, EmptySeq
  <2> QED
    <3>1. 1 \in 1 .. Len(s)
      BY <2>1
    <3> QED
      BY <3>1 DEF Chunks
<1> QED
  BY <1>1, <1>2

\* Two sequences that have nothing in common, one behind the other.
LEMMA Joined ==
    ASSUME NEW s \in Seq(Nat), NEW t \in Seq(Nat)
    PROVE  /\ s \o t \in Seq(Nat)
           /\ Len(s \o t) = Len(s) + Len(t)
           /\ Chunks(s \o t) = Chunks(s) \cup Chunks(t)
           /\ Once(s) /\ Once(t) /\ Chunks(s) \cap Chunks(t) = {} => Once(s \o t)
           /\ Rising(s) /\ Rising(t) /\ (\A j \in Chunks(s), k \in Chunks(t) : j < k)
                  => Rising(s \o t)
<1> DEFINE m == Len(s)
           n == Len(t)
           c == s \o t
<1>1. /\ c \in Seq(Nat) /\ Len(c) = m + n /\ m \in Nat /\ n \in Nat
      /\ \A i \in 1 .. m + n : c[i] = IF i <= m THEN s[i] ELSE t[i - m]
  BY ConcatProperties, LenProperties
<1>2. /\ \A i \in 1 .. m : i \in 1 .. m + n /\ c[i] = s[i]
      /\ \A i \in 1 .. n : m + i \in 1 .. m + n /\ c[m + i] = t[i]
      /\ \A i \in 1 .. m + n : i \in 1 .. m \/ \E j \in 1 .. n : i = m + j
  <2>1. \A i \in 1 .. m : i \in 1 .. m + n /\ i <= m
    BY <1>1
  <2>2. \A i \in 1 .. n : m + i \in 1 .. m + n /\ ~(m + i <= m) /\ m + i - m = i
    BY <1>1
  <2>3. \A i \in 1 .. m + n : i \in 1 .. m \/ (i - m \in 1 .. n /\ i = m + (i - m))
    BY <1>1
  <2>4. \A i \in 1 .. n : c[m + i] = t[i]
    <3> TAKE i \in 1 .. n
    <3>1. c[m + i] = t[m + i - m]
      BY <1>1, <2>2
    <3> QED
      BY <3>1, <2>2
  <2> QED
    BY <1>1, <2>1, <2>2, <2>3, <2>4
<1>3. \A i \in 1 .. m : s[i] \in Nat
  BY ElementOfSeq
<1>4. \A i \in 1 .. n : t[i] \in Nat
  BY ElementOfSeq
<1>5. (\A i \in 1 .. m : s[i] \in Chunks(s)) /\ (\A i \in 1 .. n : t[i] \in Chunks(t))
  BY DEF Chunks
<1>6. Chunks(c) = Chunks(s) \cup Chunks(t)
  <2>1. \A x \in Chunks(c) : x \in Chunks(s) \cup Chunks(t)
    BY <1>1, <1>2, <1>5 DEF Chunks
  <2>2. ASSUME NEW x \in Chunks(s)
        PROVE  x \in Chunks(c)
    <3>1. PICK i \in 1 .. m : x = s[i]
      BY DEF Chunks
    <3>2. i \in 1 .. m + n /\ x = c[i]
      BY <1>2, <3>1
    <3> HIDE DEF c
    <3> QED
      BY <1>1, <3>2 DEF Chunks
  <2>3. ASSUME NEW x \in Chunks(t)
        PROVE  x \in Chunks(c)
    <3>1. PICK i \in 1 .. n : x = t[i]
      BY DEF Chunks
    <3>2. m + i \in 1 .. m + n /\ x = c[m + i]
      BY <1>2, <3>1
    <3> HIDE DEF c
    <3> QED
      BY <1>1, <3>2 DEF Chunks
  <2> QED
    BY <2>1, <2>2, <2>3
<1> HIDE DEF m, n, c
<1>7. ASSUME Once(s), Once(t), Chunks(s) \cap Chunks(t) = {}
      PROVE  Once(c)
  <2> SUFFICES ASSUME NEW j \in 1 .. m + n, NEW k \in 1 .. m + n, c[j] = c[k]
               PROVE  j = k
    BY <1>1 DEF Once
  <2>1. CASE j \in 1 .. m /\ k \in 1 .. m
    BY <1>2, <1>7, <2>1 DEF Once, m
  <2>2. CASE j \in 1 .. m /\ \E i \in 1 .. n : k = m + i
    BY <1>2, <1>5, <1>7, <2>2
  <2>3. CASE k \in 1 .. m /\ \E i \in 1 .. n : j = m + i
    BY <1>2, <1>5, <1>7, <2>3
  <2>4. CASE (\E i \in 1 .. n : j = m + i) /\ (\E i \in 1 .. n : k = m + i)
    BY <1>2, <1>7, <2>4 DEF Once, n
  <2> QED
    BY <1>2, <2>1, <2>2, <2>3, <2>4
<1>8. ASSUME Rising(s), Rising(t), \A j \in Chunks(s), k \in Chunks(t) : j < k
      PROVE  Rising(c)
  <2> SUFFICES ASSUME NEW j \in 1 .. m + n, NEW k \in 1 .. m + n, j < k
               PROVE  c[j] < c[k]
    BY <1>1 DEF Rising
  <2>1. CASE j \in 1 .. m /\ k \in 1 .. m
    BY <1>2, <1>8, <2>1 DEF Rising, m
  <2>2. CASE j \in 1 .. m /\ \E i \in 1 .. n : k = m + i
    BY <1>2, <1>5, <1>8, <2>2
  <2>3. CASE k \in 1 .. m /\ \E i \in 1 .. n : j = m + i
    BY <1>1, <2>3
  <2>4. ASSUME NEW a \in 1 .. n, NEW b \in 1 .. n, j = m + a, k = m + b
        PROVE  c[j] < c[k]
    <3>1. a < b
      BY <1>1, <2>4
    <3>2. t[a] < t[b]
      BY <3>1, <1>8 DEF Rising, n
    <3> QED
      BY <1>2, <2>4, <3>2
  <2> QED
    BY <1>2, <2>1, <2>2, <2>3, <2>4
<1> QED
  BY <1>1, <1>6, <1>7, <1>8 DEF m, n, c

\* What is there once is as much as is counted.
LEMMA Counted ==
    ASSUME NEW s \in Seq(Nat), Once(s)
    PROVE  IsFiniteSet(Chunks(s)) /\ Cardinality(Chunks(s)) = Len(s)
<1> DEFINE I == 1 .. Len(s)
           f == [k \in I |-> s[k]]
<1>1. Len(s) \in Nat
  BY LenProperties
<1>2. f \in Bijection(I, Chunks(s))
  BY DEF Bijection, Injection, Surjection, IsInjective, Chunks, Once
<1>3. ExistsBijection(I, Chunks(s))
  BY <1>2 DEF ExistsBijection
<1>4. \A n \in Nat : IsFiniteSet(1 .. n) /\ Cardinality(1 .. n) = n
  BY FS_Interval
<1> QED
  BY <1>1, <1>3, <1>4, FS_Bijection

\* A Write puts one more into the buffer.
LEMMA PartedByWrite ==
    ASSUME NEW q, NEW dropped, NEW n \in Nat, Parted(q, dropped, n),
           NEW r \in [Place -> Seq(Nat)],
           \A p \in Place : r[p] = IF p = "buffer" THEN Append(q["buffer"], n + 1) ELSE q[p]
    PROVE  Parted(r, dropped, n + 1) /\ (Sorted(q) => Sorted(r))
<1>1. /\ q \in [Place -> Seq(Nat)] /\ "buffer" \in Place /\ q["buffer"] \in Seq(Nat)
      /\ <<n + 1>> \in Seq(Nat) /\ Len(<<n + 1>>) = 1 /\ <<n + 1>>[1] = n + 1
  BY DEF Parted, Place
<1>2. Append(q["buffer"], n + 1) = q["buffer"] \o <<n + 1>>
  BY <1>1
<1> DEFINE x == <<n + 1>>
           b == q["buffer"] \o x
<1>3. Chunks(x) = {n + 1} /\ Once(x) /\ Rising(x) /\ x \in Seq(Nat)
  BY DEF Chunks, Once, Rising
<1>4. \A p \in Place : Chunks(q[p]) \subseteq 1 .. n
  BY DEF Parted
<1>5. /\ b \in Seq(Nat) /\ Chunks(b) = Chunks(q["buffer"]) \cup {n + 1}
      /\ Once(b) /\ (Rising(q["buffer"]) => Rising(b))
  <2> HIDE DEF x
  <2>1. \A j \in Chunks(q["buffer"]), k \in {n + 1} : j < k
    BY <1>1, <1>4
  <2>2. Once(q["buffer"]) /\ Chunks(q["buffer"]) \cap {n + 1} = {}
    BY <1>1, <1>4 DEF Parted
  <2> QED
    BY <1>1, <1>3, <2>1, <2>2, Joined
<1>6. \A p \in Place : r[p] = IF p = "buffer" THEN b ELSE q[p]
  BY <1>2
<1> HIDE DEF b
<1>7. \A p \in Place : /\ Once(r[p])
                       /\ Chunks(r[p]) = Chunks(q[p]) \cup (IF p = "buffer" THEN {n + 1} ELSE {})
  BY <1>5, <1>6 DEF Parted
<1>8. Parted(r, dropped, n + 1)
  <2>1. (1 .. n + 1) = (1 .. n) \cup {n + 1} /\ n + 1 \notin 1 .. n
    OBVIOUS
  <2>2. \A p \in Place : Chunks(r[p]) \subseteq (1 .. n + 1) \ dropped
    BY <1>7, <2>1 DEF Parted
  <2>3. \A p \in Place : \A o \in Place \ {p} : Chunks(r[p]) \cap Chunks(r[o]) = {}
    <3> TAKE p \in Place
    <3> TAKE o \in Place \ {p}
    <3>1. /\ Chunks(q[p]) \cap Chunks(q[o]) = {}
          /\ n + 1 \notin Chunks(q[p]) /\ n + 1 \notin Chunks(q[o])
      BY <1>4, <2>1 DEF Parted
    <3>2. /\ Chunks(r[p]) = Chunks(q[p]) \cup (IF p = "buffer" THEN {n + 1} ELSE {})
          /\ Chunks(r[o]) = Chunks(q[o]) \cup (IF o = "buffer" THEN {n + 1} ELSE {})
      BY <1>7
    <3>3. p # "buffer" \/ o # "buffer"
      OBVIOUS
    <3> QED
      BY <3>1, <3>2, <3>3
  <2>4. \A k \in 1 .. n + 1 : k \in dropped \/ \E p \in Place : k \in Chunks(r[p])
    BY <1>1, <1>7, <2>1 DEF Parted
  <2> QED
    BY <1>6, <1>7, <2>1, <2>2, <2>3, <2>4 DEF Parted
<1>9. ASSUME Sorted(q)
      PROVE  Sorted(r)
  <2>1. \A p \in Place : Rising(r[p])
    BY <1>5, <1>6, <1>9 DEF Sorted
  <2>2. ASSUME NEW e \in Earlier, NEW j \in Chunks(r[e[1]]), NEW k \in Chunks(r[e[2]])
        PROVE  j < k
    <3>1. e[1] \in Place \ {"buffer"} /\ e[2] \in Place
      BY DEF Earlier, Place
    <3>2. j \in Chunks(q[e[1]]) /\ j \in 1 .. n
      BY <3>1, <1>4, <1>7
    <3>3. CASE k = n + 1
      BY <3>2, <3>3
    <3>4. CASE k \in Chunks(q[e[2]])
      BY <3>2, <3>4, <1>9 DEF Sorted
    <3> QED
      BY <3>1, <3>3, <3>4, <1>7
  <2> QED
    BY <2>1, <2>2 DEF Sorted
<1> QED
  BY <1>8, <1>9

\* A thread that has nothing takes what is in the buffer.
LEMMA PartedByTransfer ==
    ASSUME NEW q, NEW dropped, NEW n \in Nat, Parted(q, dropped, n),
           NEW t \in {"caller", "writer"}, q[t] = <<>>, NEW r \in [Place -> Seq(Nat)],
           \A p \in Place : r[p] = IF p = t THEN q["buffer"]
                                   ELSE IF p = "buffer" THEN <<>> ELSE q[p]
    PROVE  Parted(r, dropped, n) /\ (Sorted(q) => Sorted(r))
<1>1. q \in [Place -> Seq(Nat)] /\ "buffer" \in Place /\ t \in Place /\ t # "buffer"
  BY DEF Parted, Place
<1>4. \A p \in Place : /\ Once(r[p])
                       /\ Chunks(r[p]) = IF p = t THEN Chunks(q["buffer"])
                                         ELSE IF p = "buffer" THEN {} ELSE Chunks(q[p])
  BY <1>1, NothingThere DEF Parted
<1>5. Chunks(q[t]) = {}
  BY NothingThere
<1>6. Parted(r, dropped, n)
  <2>1. \A p \in Place : Chunks(r[p]) \subseteq (1 .. n) \ dropped
    BY <1>1, <1>4 DEF Parted
  <2>2. \A p \in Place : \A o \in Place \ {p} : Chunks(r[p]) \cap Chunks(r[o]) = {}
    BY <1>1, <1>4 DEF Parted
  <2>3. \A k \in 1 .. n : k \in dropped \/ \E p \in Place : k \in Chunks(r[p])
    BY <1>1, <1>4, <1>5 DEF Parted
  <2> QED
    BY <1>4, <2>1, <2>2, <2>3 DEF Parted
<1>7. ASSUME Sorted(q)
      PROVE  Sorted(r)
  <2>1. \A p \in Place : Rising(r[p])
    BY <1>1, <1>7, NothingThere DEF Sorted
  <2>2. ASSUME NEW e \in Earlier, NEW j \in Chunks(r[e[1]]), NEW k \in Chunks(r[e[2]])
        PROVE  j < k
    <3>1. /\ e[1] \in Place \ {"buffer"} /\ e[2] \in Place
          /\ e[1] = "stream" => <<"stream", "buffer">> \in Earlier
          /\ e[1] = "stream" \/ e[2] = "buffer"
          /\ e = <<e[1], e[2]>>
      BY DEF Earlier, Place
    <3>2. CASE e[2] = "buffer"
      BY <3>1, <3>2, <1>1, <1>4
    <3>3. CASE e[1] = "stream" /\ e[2] = t
      <4>1. j \in Chunks(q["stream"]) /\ k \in Chunks(q["buffer"])
        BY <3>1, <3>3, <1>4
      <4>2. <<"stream", "buffer">>[1] = "stream" /\ <<"stream", "buffer">>[2] = "buffer"
        OBVIOUS
      <4> QED
        BY <3>1, <3>3, <4>1, <4>2, <1>7 DEF Sorted
    <3>4. CASE e[1] = "stream" /\ e[2] # t /\ e[2] # "buffer"
      <4>1. j \in Chunks(q[e[1]]) /\ k \in Chunks(q[e[2]])
        BY <3>1, <3>4, <1>4
      <4> QED
        BY <4>1, <1>7 DEF Sorted
    <3> QED
      BY <3>1, <3>2, <3>3, <3>4
  <2> QED
    BY <2>1, <2>2 DEF Sorted
<1> QED
  BY <1>6, <1>7

\* What a thread has goes to the stream.
LEMMA PartedByWriteAll ==
    ASSUME NEW q, NEW dropped, NEW n \in Nat, Parted(q, dropped, n),
           NEW t \in {"caller", "writer"}, NEW u \in {"caller", "writer"} \ {t},
           NEW r \in [Place -> Seq(Nat)],
           \A p \in Place : r[p] = IF p = t THEN <<>>
                                   ELSE IF p = "stream" THEN q["stream"] \o q[t] ELSE q[p]
    PROVE  Parted(r, dropped, n) /\ (Sorted(q) /\ (q[u] = <<>> \/ q[t] = <<>>) => Sorted(r))
<1>1. /\ q \in [Place -> Seq(Nat)] /\ "stream" \in Place /\ t \in Place /\ t # "stream"
      /\ u \in Place /\ u # "stream" /\ u # t
  BY DEF Parted, Place
<1> DEFINE s == q["stream"] \o q[t]
<1>2. /\ s \in Seq(Nat) /\ Chunks(s) = Chunks(q["stream"]) \cup Chunks(q[t])
      /\ Once(s)
      /\ Sorted(q) => Rising(s)
  <2>1. /\ q["stream"] \in Seq(Nat) /\ q[t] \in Seq(Nat) /\ Once(q["stream"]) /\ Once(q[t])
        /\ Chunks(q["stream"]) \cap Chunks(q[t]) = {}
    BY <1>1 DEF Parted
  <2>2. ASSUME Sorted(q)
        PROVE  /\ Rising(q["stream"]) /\ Rising(q[t])
               /\ \A j \in Chunks(q["stream"]), k \in Chunks(q[t]) : j < k
    <3>1. <<"stream", t>> \in Earlier /\ <<"stream", t>>[1] = "stream" /\ <<"stream", t>>[2] = t
      BY DEF Earlier
    <3> QED
      BY <1>1, <2>2, <3>1 DEF Sorted
  <2> QED
    BY <2>1, <2>2, Joined
<1>4. \A p \in Place : r[p] = IF p = t THEN <<>> ELSE IF p = "stream" THEN s ELSE q[p]
  OBVIOUS
<1> HIDE DEF s
<1>5. \A p \in Place : /\ Once(r[p])
                       /\ Chunks(r[p]) = IF p = t THEN {}
                                         ELSE IF p = "stream" THEN Chunks(q["stream"]) \cup Chunks(q[t])
                                         ELSE Chunks(q[p])
  BY <1>1, <1>2, <1>4, NothingThere DEF Parted
<1>6. Parted(r, dropped, n)
  <2>1. \A p \in Place : Chunks(r[p]) \subseteq (1 .. n) \ dropped
    BY <1>1, <1>5 DEF Parted
  <2>2. \A p \in Place : \A o \in Place \ {p} : Chunks(r[p]) \cap Chunks(r[o]) = {}
    BY <1>1, <1>5 DEF Parted
  <2>3. \A k \in 1 .. n : k \in dropped \/ \E p \in Place : k \in Chunks(r[p])
    BY <1>1, <1>5 DEF Parted
  <2> QED
    BY <1>5, <2>1, <2>2, <2>3 DEF Parted
<1>7. ASSUME Sorted(q), q[u] = <<>> \/ q[t] = <<>>
      PROVE  Sorted(r)
  <2>1. \A p \in Place : Rising(r[p])
    BY <1>1, <1>2, <1>4, <1>7, NothingThere DEF Sorted
  <2>2. ASSUME NEW e \in Earlier, NEW j \in Chunks(r[e[1]]), NEW k \in Chunks(r[e[2]])
        PROVE  j < k
    <3>1. /\ e[1] \in Place \ {"buffer"} /\ e[2] \in Place \ {"stream"}
          /\ e[2] # t /\ e[1] = "stream" => e[2] = u \/ e[2] = "buffer" 
          /\ e[2] = "buffer" => <<t, "buffer">> \in Earlier
      BY DEF Earlier, Place
    <3>2. e[1] # t /\ e[2] # t /\ k \in Chunks(q[e[2]])
      BY <3>1, <1>1, <1>5
    <3>3. CASE e[1] # "stream" \/ j \in Chunks(q["stream"])
      <4>1. j \in Chunks(q[e[1]])
        BY <3>1, <3>2, <3>3, <1>5
      <4> QED
        BY <3>2, <4>1, <1>7 DEF Sorted
    <3>4. CASE e[1] = "stream" /\ j \in Chunks(q[t])
      <4>1. q[u] = <<>>
        BY <3>4, <1>7, NothingThere
      <4>2. e[2] = "buffer"
        BY <3>1, <3>2, <3>4, <4>1, NothingThere
      <4>3. <<t, "buffer">>[1] = t /\ <<t, "buffer">>[2] = "buffer"
        OBVIOUS
      <4> QED
        BY <3>1, <3>2, <3>4, <4>2, <4>3, <1>7 DEF Sorted
    <3> QED
      BY <3>1, <3>2, <3>3, <3>4, <1>1, <1>5
  <2> QED
    BY <2>1, <2>2 DEF Sorted
<1> QED
  BY <1>6, <1>7

\* A closed stream drops it.
LEMMA PartedByDrop ==
    ASSUME NEW q, NEW dropped, NEW n \in Nat, Parted(q, dropped, n),
           NEW t \in {"caller", "writer"}, NEW r \in [Place -> Seq(Nat)],
           \A p \in Place : r[p] = IF p = t THEN <<>> ELSE q[p]
    PROVE  /\ Parted(r, dropped \cup Chunks(q[t]), n)
           /\ Sorted(q) => Sorted(r)
<1>1. t \in Place
  BY DEF Place
<1>3. \A p \in Place : Once(r[p]) /\ Chunks(r[p]) = IF p = t THEN {} ELSE Chunks(q[p])
  BY NothingThere DEF Parted
<1>4. Parted(r, dropped \cup Chunks(q[t]), n)
  BY <1>1, <1>3 DEF Parted
<1>5. ASSUME Sorted(q)
      PROVE  Sorted(r)
  <2>1. \A p \in Place : Rising(r[p])
    BY <1>5, NothingThere DEF Sorted
  <2>2. ASSUME NEW e \in Earlier, NEW j \in Chunks(r[e[1]]), NEW k \in Chunks(r[e[2]])
        PROVE  j < k
    <3>1. e[1] \in Place /\ e[2] \in Place
      BY DEF Earlier, Place
    <3>2. j \in Chunks(q[e[1]]) /\ k \in Chunks(q[e[2]])
      BY <3>1, <1>3
    <3> QED
      BY <3>2, <1>5 DEF Sorted
  <2> QED
    BY <2>1, <2>2 DEF Sorted
<1> QED
  BY <1>4, <1>5

Parts == [p \in Place |-> CASE p = "stream" -> async_stream
                            [] p = "buffer" -> async_buffer
                            [] OTHER        -> async_to_write[p]]

AsyncTypes ==
    /\ async_buffer \in Seq(Nat) /\ async_stream \in Seq(Nat)
    /\ async_to_write \in [{"caller", "writer"} -> Seq(Nat)]
    /\ async_pc \in [{"caller", "writer"} -> {"idle", "post", "take", "write", "flush", "close"}]
    /\ async_state \in {"OPEN", "CLOSED"} /\ async_open \in BOOLEAN
    /\ async_open <=> async_state = "OPEN"
    /\ async_doing \in {"none", "flush", "close"}
    /\ async_accepted \in 0 .. MaxChunks /\ async_crossed \in BOOLEAN
    /\ async_pc["caller"] \in {"take", "write"} => async_doing # "none"
    /\ async_pc["writer"] \in {"idle", "take", "write"}

\* Unless the threads crossed, only one of them has something.
AsyncParted ==
    /\ Parted(Parts, async_late, async_accepted)
    /\ ~async_crossed =>
           /\ async_late = {} /\ Sorted(Parts)
           /\ async_to_write["caller"] = <<>> \/ async_to_write["writer"] = <<>>

\* Once the caller has taken what is in the buffer, to close or to flush, the
\* buffer stays empty, and so does what the write thread takes out of it.
AsyncClosing ==
    /\ \A t \in {"caller", "writer"} : async_pc[t] # "write" => async_to_write[t] = <<>>
    /\ async_pc["caller"] \in {"write", "flush", "close"} \/ async_state = "CLOSED" =>
           /\ async_buffer = <<>>
           /\ ~async_crossed => async_to_write["writer"] = <<>>
    /\ async_state = "CLOSED" => async_pc["caller"] = "idle"

AsyncInv == AsyncTypes /\ AsyncParted /\ AsyncClosing

LEMMA AsyncInit == AsyncWrite!Init => AsyncInv
<1> SUFFICES ASSUME AsyncWrite!Init
             PROVE  AsyncInv
  OBVIOUS
<1>1. AsyncTypes
  <2>1. MaxChunks \in Nat
    BY BoundAssumption DEF BoundAssumption
  <2>2. /\ async_buffer = <<>> /\ async_stream = <<>> /\ async_state = "OPEN" /\ async_open = TRUE
        /\ async_pc = [t \in {"caller", "writer"} |-> "idle"] /\ async_doing = "none"
        /\ async_to_write = [t \in {"caller", "writer"} |-> <<>>]
        /\ async_accepted = 0 /\ async_crossed = FALSE
    BY DEF AsyncWrite!Init, AsyncWrite!Thread
  <2>3. async_to_write \in [{"caller", "writer"} -> Seq(Nat)]
    BY <2>2, NothingThere
  <2>4. /\ async_pc \in [{"caller", "writer"} -> {"idle", "post", "take", "write", "flush", "close"}]
        /\ async_pc["caller"] = "idle" /\ async_pc["writer"] = "idle"
    BY <2>2
  <2>5. /\ async_open \in BOOLEAN /\ async_crossed \in BOOLEAN
        /\ async_open <=> async_state = "OPEN"
    BY <2>2, Zenon
  <2>6. async_accepted \in 0 .. MaxChunks
    BY <2>1, <2>2
  <2>7. async_buffer \in Seq(Nat) /\ async_stream \in Seq(Nat)
    BY <2>2, NothingThere
  <2>8. /\ async_state \in {"OPEN", "CLOSED"} /\ async_doing \in {"none", "flush", "close"}
        /\ ~(async_pc["caller"] \in {"take", "write"}) /\ async_pc["writer"] \in {"idle", "take", "write"}
    BY <2>2, <2>4
  <2> QED
    BY <2>3, <2>4, <2>5, <2>6, <2>7, <2>8, Zenon DEF AsyncTypes
<1>6. AsyncClosing
  BY DEF AsyncWrite!Init, AsyncWrite!Thread, AsyncClosing
<1>2. Parts \in [Place -> Seq(Nat)] /\ \A p \in Place : Parts[p] = <<>>
  BY NothingThere DEF AsyncWrite!Init, AsyncWrite!Thread, Parts, Place
<1>3. Parted(Parts, {}, 0)
  BY <1>2, NothingThere DEF Parted
<1>4. \A e \in Earlier : e[1] \in Place /\ e[2] \in Place
  BY DEF Earlier, Place
<1>5. Sorted(Parts)
  BY <1>2, <1>4, NothingThere DEF Sorted
<1> QED
  BY <1>1, <1>3, <1>5, <1>6 DEF AsyncInv, AsyncParted, AsyncWrite!Init, AsyncWrite!Thread

LEMMA PartsTyped ==
    /\ AsyncTypes => Parts \in [Place -> Seq(Nat)]
    /\ AsyncTypes' => Parts' \in [Place -> Seq(Nat)]
BY DEF AsyncTypes, Parts, Place

\* A step that moves no chunk.
LEMMA NothingMoved ==
    ASSUME AsyncInv, UNCHANGED <<async_buffer, async_to_write, async_stream, async_late,
                                 async_accepted, async_crossed>>
    PROVE  AsyncParted'
BY DEF AsyncInv, AsyncParted, Parts

LEMMA AsyncNext == AsyncInv /\ [AsyncWrite!Next]_(AsyncWrite!vars) => AsyncInv'
<1> SUFFICES ASSUME AsyncInv, [AsyncWrite!Next]_(AsyncWrite!vars)
             PROVE  AsyncInv'
  OBVIOUS
<1> MaxChunks \in Nat
  BY BoundAssumption DEF BoundAssumption
<1> USE DEF AsyncWrite!Goto
<1>1. CASE AsyncWrite!Write
  <2>1. /\ async_pc["caller"] = "idle" /\ async_state = "OPEN" /\ async_accepted < MaxChunks
        /\ async_accepted' = async_accepted + 1
        /\ async_buffer' = Append(async_buffer, async_accepted + 1)
        /\ UNCHANGED <<async_to_write, async_crossed, async_state, async_doing, async_stream,
                       async_open, async_late>>
        /\ async_pc' = [async_pc EXCEPT !["caller"] = AsyncWrite!AfterAppend]
        /\ AsyncWrite!AfterAppend \in {"post", "idle"}
    BY <1>1 DEF AsyncWrite!Write, AsyncWrite!AfterAppend, AsyncWrite!stream_vars
  <2>2. async_accepted \in Nat /\ async_accepted + 1 \in 0 .. MaxChunks
    BY <2>1 DEF AsyncInv, AsyncTypes
  <2>3. async_buffer' \in Seq(Nat)
    BY <2>1, <2>2 DEF AsyncInv, AsyncTypes
  <2>4. async_pc' \in [{"caller", "writer"} -> {"idle", "post", "take", "write", "flush", "close"}]
        /\ async_pc'["caller"] \in {"post", "idle"} /\ async_pc'["writer"] = async_pc["writer"]
    BY <2>1 DEF AsyncInv, AsyncTypes
  <2>5. AsyncTypes'
    BY <2>1, <2>2, <2>3, <2>4 DEF AsyncInv, AsyncTypes
  <2>6. AsyncClosing'
    BY <2>1, <2>4 DEF AsyncInv, AsyncClosing
  <2>7. \A p \in Place : Parts'[p] = IF p = "buffer" THEN Append(Parts["buffer"], async_accepted + 1)
                                     ELSE Parts[p]
    BY <2>1 DEF Parts, Place
  <2>8. Parted(Parts', async_late, async_accepted + 1) /\ (Sorted(Parts) => Sorted(Parts'))
    <3>1. Parted(Parts, async_late, async_accepted)
      BY DEF AsyncInv, AsyncParted
    <3> QED
      BY <2>2, <2>5, <2>7, <3>1, PartsTyped, PartedByWrite
  <2>9. AsyncParted'
    BY <2>1, <2>8 DEF AsyncInv, AsyncParted, Parts
  <2> QED
    BY <2>5, <2>6, <2>9 DEF AsyncInv
<1>2. CASE AsyncWrite!Post
  BY <1>2, NothingMoved
     DEF AsyncWrite!Post, AsyncWrite!caller_vars, AsyncWrite!stream_vars, AsyncInv, AsyncTypes,
         AsyncClosing
<1>3. CASE AsyncWrite!Begin
  BY <1>3, NothingMoved
     DEF AsyncWrite!Begin, AsyncWrite!stream_vars, AsyncInv, AsyncTypes, AsyncClosing
<1>4. CASE AsyncWrite!OnMessage
  BY <1>4, NothingMoved
     DEF AsyncWrite!OnMessage, AsyncWrite!caller_vars, AsyncWrite!stream_vars, AsyncInv,
         AsyncTypes, AsyncClosing
<1>5. CASE AsyncWrite!Finish
  BY <1>5, NothingMoved DEF AsyncWrite!Finish, AsyncInv, AsyncTypes, AsyncClosing
<1>6. ASSUME NEW t \in {"caller", "writer"}, AsyncWrite!TransferTo(t)
      PROVE  AsyncInv'
  <2> PICK u \in {"caller", "writer"} \ {t} : {"caller", "writer"} = {t, u}
    OBVIOUS
  <2>1. /\ async_pc[t] = "take" /\ async_pc' = [async_pc EXCEPT ![t] = "write"]
        /\ async_to_write' = [async_to_write EXCEPT ![t] = async_buffer]
        /\ async_buffer' = <<>>
        /\ async_crossed' = (async_crossed \/ async_to_write[u] # <<>>)
        /\ UNCHANGED <<async_state, async_doing, async_accepted, async_stream, async_open,
                       async_late>>
    BY <1>6 DEF AsyncWrite!TransferTo, AsyncWrite!ClearBuffer, AsyncWrite!Thread,
                AsyncWrite!caller_vars, AsyncWrite!stream_vars
  <2>2. async_to_write[t] = <<>>
    BY <2>1 DEF AsyncInv, AsyncClosing
  <2>3. AsyncTypes'
    BY <2>1, NothingThere DEF AsyncInv, AsyncTypes
  <2>4. /\ async_to_write'[t] = async_buffer /\ async_to_write'[u] = async_to_write[u]
        /\ async_pc'[t] = "write" /\ async_pc'[u] = async_pc[u]
    BY <2>1 DEF AsyncInv, AsyncTypes
  <2>5. AsyncClosing'
    BY <2>1, <2>4 DEF AsyncInv, AsyncClosing
  <2>6. /\ Parts[t] = <<>>
        /\ \A p \in Place : Parts'[p] = IF p = t THEN Parts["buffer"]
                                        ELSE IF p = "buffer" THEN <<>> ELSE Parts[p]
    BY <2>1, <2>2 DEF Parts, Place, AsyncInv, AsyncTypes
  <2>7. Parted(Parts', async_late, async_accepted) /\ (Sorted(Parts) => Sorted(Parts'))
    <3>1. Parted(Parts, async_late, async_accepted) /\ async_accepted \in Nat
      BY DEF AsyncInv, AsyncParted, AsyncTypes
    <3> QED
      BY <2>3, <2>6, <3>1, PartsTyped, PartedByTransfer
  <2>8. AsyncParted'
    BY <2>1, <2>4, <2>7 DEF AsyncInv, AsyncParted
  <2> QED
    BY <2>3, <2>5, <2>8 DEF AsyncInv
<1>7. ASSUME NEW t \in {"caller", "writer"}, AsyncWrite!WriteAll(t)
      PROVE  AsyncInv'
  <2> PICK u \in {"caller", "writer"} \ {t} : {"caller", "writer"} = {t, u}
    OBVIOUS
  <2>1. /\ async_pc[t] = "write"
        /\ async_pc' = [async_pc EXCEPT ![t] = IF t = "caller" THEN async_doing ELSE "idle"]
        /\ async_to_write' = [async_to_write EXCEPT ![t] = <<>>]
        /\ UNCHANGED <<async_buffer, async_crossed, async_state, async_doing, async_accepted,
                       async_open>>
    BY <1>7 DEF AsyncWrite!WriteAll, AsyncWrite!caller_vars
  <2>2. /\ async_to_write'[t] = <<>> /\ async_to_write'[u] = async_to_write[u]
        /\ async_pc'[u] = async_pc[u]
        /\ async_pc'[t] = IF t = "caller" THEN async_doing ELSE "idle"
        /\ async_pc'[t] # "write"
    BY <2>1 DEF AsyncInv, AsyncTypes
  <2>3. async_to_write' \in [{"caller", "writer"} -> Seq(Nat)]
        /\ async_pc' \in [{"caller", "writer"} -> {"idle", "post", "take", "write", "flush", "close"}]
    BY <2>1, NothingThere DEF AsyncInv, AsyncTypes
  <2>4. AsyncClosing'
    BY <2>1, <2>2 DEF AsyncInv, AsyncClosing, AsyncTypes
  <2>5. Parted(Parts, async_late, async_accepted) /\ async_accepted \in Nat
    BY DEF AsyncInv, AsyncParted, AsyncTypes
  <2>6. CASE async_open
    <3>1. async_stream' = async_stream \o async_to_write[t] /\ async_late' = async_late
      BY <1>7, <2>6 DEF AsyncWrite!WriteAll
    <3>2. async_stream' \in Seq(Nat)
      BY <3>1, Joined DEF AsyncInv, AsyncTypes
    <3>6. AsyncTypes'
      BY <2>1, <2>2, <2>3, <3>2 DEF AsyncInv, AsyncTypes
    <3>3. /\ Parts[t] = async_to_write[t] /\ Parts[u] = async_to_write[u]
          /\ \A p \in Place : Parts'[p] = IF p = t THEN <<>> ELSE IF p = "stream"
                                          THEN Parts["stream"] \o Parts[t] ELSE Parts[p]
      BY <2>1, <3>1 DEF Parts, Place, AsyncInv, AsyncTypes
    <3>4. /\ Parted(Parts', async_late, async_accepted)
          /\ Sorted(Parts) /\ (Parts[u] = <<>> \/ Parts[t] = <<>>) => Sorted(Parts')
      BY <2>5, <3>3, <3>6, PartsTyped, PartedByWriteAll
    <3>5. AsyncParted'
      BY <2>1, <2>2, <3>1, <3>3, <3>4 DEF AsyncInv, AsyncParted
    <3> QED
      BY <2>4, <3>5, <3>6 DEF AsyncInv
  <2>7. CASE ~async_open
    <3>1. /\ async_late' = async_late \cup Chunks(async_to_write[t])
          /\ async_stream' = async_stream
      <4>1. AsyncWrite!Range(async_to_write[t]) = Chunks(async_to_write[t])
        BY LenProperties DEF AsyncWrite!Range, Chunks, AsyncInv, AsyncTypes
      <4> QED
        BY <1>7, <2>7, <4>1 DEF AsyncWrite!WriteAll
    <3>6. AsyncTypes'
      BY <2>1, <2>2, <2>3, <3>1 DEF AsyncInv, AsyncTypes
    <3>2. /\ Parts[t] = async_to_write[t]
          /\ \A p \in Place : Parts'[p] = IF p = t THEN <<>> ELSE Parts[p]
      BY <2>1, <3>1 DEF Parts, Place, AsyncInv, AsyncTypes
    <3>3. /\ Parted(Parts', async_late \cup Chunks(Parts[t]), async_accepted)
          /\ Sorted(Parts) => Sorted(Parts')
      BY <2>5, <3>2, <3>6, PartsTyped, PartedByDrop
    <3>4. ~async_crossed => async_to_write[t] = <<>>
      BY <2>1, <2>7 DEF AsyncInv, AsyncTypes, AsyncClosing
    <3>5. AsyncParted'
      BY <2>1, <2>2, <3>1, <3>2, <3>3, <3>4, NothingThere DEF AsyncInv, AsyncParted
    <3> QED
      BY <2>4, <3>5, <3>6 DEF AsyncInv
  <2> QED
    BY <2>6, <2>7
<1>8. CASE UNCHANGED AsyncWrite!vars
  BY <1>8, NothingMoved DEF AsyncWrite!vars, AsyncWrite!caller_vars, AsyncWrite!stream_vars,
                           AsyncInv, AsyncTypes, AsyncClosing
<1> QED
  BY <1>1, <1>2, <1>3, <1>4, <1>5, <1>6, <1>7, <1>8 DEF AsyncWrite!Next, AsyncWrite!Thread

LEMMA AsyncSize == \A T : AsyncWrite!Cardinality(T) = Cardinality(T)
BY DEF AsyncWrite!Cardinality, Cardinality

LEMMA InBounds ==
    ASSUME NEW s \in Seq(Nat), NEW n \in 0 .. MaxChunks, Chunks(s) \subseteq 1 .. n
    PROVE  s \in Seq(1 .. MaxChunks)
<1>1. s \in [1 .. Len(s) -> Nat] /\ Len(s) \in Nat
  BY LenProperties
<1>2. MaxChunks \in Nat
  BY BoundAssumption DEF BoundAssumption
<1>3. \A k \in 1 .. Len(s) : s[k] \in 1 .. n
  BY DEF Chunks
<1>4. \A k \in 1 .. Len(s) : s[k] \in 1 .. MaxChunks
  BY <1>2, <1>3
<1>5. s \in [1 .. Len(s) -> 1 .. MaxChunks]
  BY <1>1, <1>4
<1> DEFINE T == 1 .. MaxChunks
<1>6. \E m \in Nat : s \in [1 .. m -> T]
  BY <1>1, <1>5
<1> HIDE DEF T
<1>7. s \in Seq(T)
  BY <1>6, SeqDef
<1> QED
  BY <1>7 DEF T

LEMMA AsyncSuffices == AsyncInv => AsyncWrite!TypeOK /\ AsyncWrite!EachChunkOnce
<1> SUFFICES ASSUME AsyncInv
             PROVE  AsyncWrite!TypeOK /\ AsyncWrite!EachChunkOnce
  OBVIOUS
<1> DEFINE s == async_stream
           c == async_to_write["caller"]
           w == async_to_write["writer"]
           b == async_buffer
           n == async_accepted
           front == s \o c \o w
           all == front \o b
<1>1. /\ s \in Seq(Nat) /\ c \in Seq(Nat) /\ w \in Seq(Nat) /\ b \in Seq(Nat)
      /\ n \in 0 .. MaxChunks /\ n \in Nat
  BY BoundAssumption DEF AsyncInv, AsyncTypes, BoundAssumption
<1>2. Parts["stream"] = s /\ Parts["caller"] = c /\ Parts["writer"] = w /\ Parts["buffer"] = b
  BY DEF Parts, Place
<1>3. {"stream", "caller", "writer", "buffer"} = Place
  BY DEF Place
<1>4. Parted(Parts, async_late, n)
  BY DEF AsyncInv, AsyncParted
<1> HIDE DEF s, c, w, b, n
<1>5. /\ Once(s) /\ Once(c) /\ Once(w) /\ Once(b)
      /\ Chunks(s) \cap Chunks(c) = {} /\ Chunks(s) \cap Chunks(w) = {}
      /\ Chunks(s) \cap Chunks(b) = {} /\ Chunks(c) \cap Chunks(w) = {}
      /\ Chunks(c) \cap Chunks(b) = {} /\ Chunks(w) \cap Chunks(b) = {}
      /\ Chunks(s) \subseteq (1 .. n) \ async_late /\ Chunks(c) \subseteq (1 .. n) \ async_late
      /\ Chunks(w) \subseteq (1 .. n) \ async_late /\ Chunks(b) \subseteq (1 .. n) \ async_late
      /\ async_late \subseteq 1 .. n
  BY <1>2, <1>3, <1>4 DEF Parted
<1>6. \A k \in 1 .. n : k \in async_late \cup Chunks(s) \cup Chunks(c) \cup Chunks(w) \cup Chunks(b)
  BY <1>2, <1>3, <1>4 DEF Parted
<1>7. s \o c \in Seq(Nat) /\ Once(s \o c) /\ Chunks(s \o c) = Chunks(s) \cup Chunks(c)
  BY <1>1, <1>5, Joined
<1>8. /\ front \in Seq(Nat) /\ Once(front)
      /\ Chunks(front) = Chunks(s) \cup Chunks(c) \cup Chunks(w)
  BY <1>1, <1>5, <1>7, Joined
<1> HIDE DEF front
<1>9. /\ all \in Seq(Nat) /\ Once(all)
      /\ Chunks(all) = Chunks(s) \cup Chunks(c) \cup Chunks(w) \cup Chunks(b)
  BY <1>1, <1>5, <1>8, Joined
<1> HIDE DEF all
<1>10. Chunks(all) \cup async_late = 1 .. n /\ Chunks(all) \cap async_late = {}
  BY <1>5, <1>6, <1>9
<1>11. Len(all) + Cardinality(async_late) = n
  <2>1. IsFiniteSet(1 .. n) /\ Cardinality(1 .. n) = n
    BY <1>1, FS_Interval
  <2>2. IsFiniteSet(Chunks(all)) /\ Cardinality(Chunks(all)) = Len(all)
    BY <1>9, Counted
  <2>3. IsFiniteSet(async_late)
    BY <1>5, <2>1, FS_Subset
  <2>4. Cardinality(Chunks(all) \cup async_late)
            = Cardinality(Chunks(all)) + Cardinality(async_late)
    <3> DEFINE T == Chunks(all)
               U == async_late
    <3>1. IsFiniteSet(T) /\ IsFiniteSet(U) /\ T \cap U = {}
      BY <1>10, <2>2, <2>3
    <3> HIDE DEF T, U
    <3>2. /\ Cardinality(T \cup U) = Cardinality(T) + Cardinality(U) - Cardinality(T \cap U)
          /\ Cardinality(T) \in Nat /\ Cardinality(U) \in Nat /\ Cardinality(T \cap U) = 0
      BY <3>1, FS_Union, FS_EmptySet, FS_CardinalityType
    <3>3. Cardinality(T \cup U) = Cardinality(T) + Cardinality(U)
      BY <3>2
    <3> QED
      BY <3>3 DEF T, U
  <2> QED
    BY <1>10, <2>1, <2>2, <2>4
<1>12. AsyncWrite!Range(all) = Chunks(all)
  BY <1>9, LenProperties DEF AsyncWrite!Range, Chunks
<1>13. ~async_crossed => async_late = {} /\ \A i, j \in DOMAIN s : i < j => s[i] < s[j]
  <2>1. ~async_crossed => async_late = {} /\ Rising(s)
    BY <1>2, <1>3 DEF AsyncInv, AsyncParted, Sorted
  <2> QED
    BY <1>1, <2>1, LenProperties DEF Rising
<1>14. AsyncWrite!EachChunkOnce
  <2>1. /\ Len(all) + AsyncWrite!Cardinality(async_late) = n
        /\ AsyncWrite!Range(all) \cup async_late = 1 .. n
    BY <1>10, <1>11, <1>12, AsyncSize
  <2> QED
    BY <1>13, <2>1, Zenon DEF AsyncWrite!EachChunkOnce, all, front, s, c, w, b, n
<1>15. AsyncWrite!TypeOK
  <2>1. b \in Seq(1 .. MaxChunks) /\ s \in Seq(1 .. MaxChunks)
    BY <1>1, <1>5, InBounds
  <2>2. async_late \subseteq 1 .. async_accepted
    BY <1>5 DEF n
  <2>3. /\ async_state \in {"OPEN", "CLOSED"} /\ async_doing \in {"none", "flush", "close"}
        /\ \A t \in AsyncWrite!Thread :
               async_pc[t] \in {"idle", "post", "take", "write", "flush", "close"}
    BY DEF AsyncInv, AsyncTypes, AsyncWrite!Thread
  <2> QED
    BY <2>1, <2>2, <2>3 DEF AsyncWrite!TypeOK, b, s
<1> QED
  BY <1>14, <1>15

-----------------------------------------------------------------------------
(***************************************************************************)
(* The signals, any number of them and any pipe: while the pipe is empty,  *)
(* a flag that is set is before the loop, or its real handler has yet to   *)
(* write.                                                                  *)
(***************************************************************************)
PosixTypes ==
    /\ posix_received \subseteq PosixSignal /\ posix_handlers \subseteq PosixSignal
    /\ posix_raising \subseteq PosixSignal
    /\ posix_pipe \in 0 .. PipeSize /\ posix_pc \in {"select", "scan", "call"}
    /\ posix_signum \in Nat /\ posix_signum - 1 \in {-1, 0} \cup PosixSignal
    /\ posix_pc # "select" => posix_signum \in PosixSignal

\* The loop will come to it.
Ahead(s) ==
    \/ posix_pc = "scan" /\ s >= posix_signum
    \/ posix_pc = "call" /\ s > posix_signum

FlagsAreSeen ==
    posix_pipe = 0 => \A s \in posix_received : s \in posix_raising \/ Ahead(s)

OwedIsFlagged ==
    posix_owed \subseteq posix_received \cup (IF posix_pc = "call" THEN {posix_signum} ELSE {})

PosixInv == PosixTypes /\ FlagsAreSeen /\ OwedIsFlagged

LEMMA SignalsNumbered == \E n \in Nat : PosixSignal = 1 .. n
BY SignalAssumption, FS_CardinalityType DEF SignalAssumption

LEMMA PosixInit == PosixSignals!Init => PosixInv
BY SignalAssumption
   DEF SignalAssumption, PosixSignals!Init, PosixInv, PosixTypes, FlagsAreSeen, OwedIsFlagged

\* The loop goes on to the next signal, or has seen all.
LEMMA LoopAhead ==
    ASSUME PosixTypes, posix_pc # "select", posix_signum' = posix_signum + 1,
           posix_pc' = IF posix_signum + 1 \in PosixSignal THEN "scan" ELSE "select"
    PROVE  /\ posix_signum' \in Nat
           /\ posix_signum' - 1 \in {-1, 0} \cup PosixSignal
           /\ posix_pc' # "select" => posix_signum' \in PosixSignal
           /\ \A s \in PosixSignal : s > posix_signum => Ahead(s)'
<1> PICK n \in Nat : PosixSignal = 1 .. n
  BY SignalsNumbered
<1> QED
  BY DEF PosixTypes, Ahead

LEMMA PosixNext == PosixInv /\ [PosixSignals!Next]_(PosixSignals!vars) => PosixInv'
<1> SUFFICES ASSUME PosixInv, [PosixSignals!Next]_(PosixSignals!vars)
             PROVE  PosixInv'
  OBVIOUS
<1> PICK n \in Nat : PosixSignal = 1 .. n
  BY SignalsNumbered
<1> PipeSize \in Nat \ {0} /\ ReadSize \in Nat
  BY SignalAssumption DEF SignalAssumption
<1> USE DEF PosixInv
<1>1. ASSUME NEW s \in PosixSignal, PosixSignals!Raise(s)
      PROVE  PosixInv'
  BY <1>1 DEF PosixSignals!Raise, PosixTypes, FlagsAreSeen, OwedIsFlagged, Ahead
<1>2. ASSUME NEW s \in PosixSignal, PosixSignals!Notify(s)
      PROVE  PosixInv'
  <2>1. posix_pipe' \in 1 .. PipeSize
    BY <1>2 DEF PosixSignals!Notify, PosixTypes
  <2>2. PosixTypes'
    BY <1>2, <2>1 DEF PosixSignals!Notify, PosixTypes
  <2>3. FlagsAreSeen'
    BY <2>1 DEF FlagsAreSeen
  <2>4. OwedIsFlagged'
    BY <1>2 DEF PosixSignals!Notify, OwedIsFlagged
  <2> QED
    BY <2>2, <2>3, <2>4
<1>3. ASSUME NEW s \in PosixSignal, PosixSignals!SetPosixSignalHandler(s)
      PROVE  PosixInv'
  BY <1>3 DEF PosixSignals!SetPosixSignalHandler, PosixTypes, FlagsAreSeen, OwedIsFlagged, Ahead
<1>4. CASE PosixSignals!OnPreEvent
  <2>1. posix_pipe' \in 0 .. PipeSize
    BY <1>4 DEF PosixSignals!OnPreEvent, PosixTypes
  <2>2. 1 \in PosixSignal
    <3>1. PICK s \in posix_handlers : TRUE
      BY <1>4 DEF PosixSignals!OnPreEvent
    <3>2. s \in 1 .. n
      BY <3>1 DEF PosixTypes
    <3> QED
      BY <3>2
  <2>3. PosixTypes'
    <3>1. posix_signum' = 1 /\ posix_pc' = "scan"
          /\ UNCHANGED <<posix_received, posix_handlers, posix_raising>>
      BY <1>4 DEF PosixSignals!OnPreEvent
    <3> QED
      BY <3>1, <2>1, <2>2 DEF PosixTypes
  <2>4. FlagsAreSeen'
    BY <1>4 DEF PosixSignals!OnPreEvent, FlagsAreSeen, PosixTypes, Ahead
  <2>5. OwedIsFlagged'
    BY <1>4 DEF PosixSignals!OnPreEvent, OwedIsFlagged
  <2> QED
    BY <2>3, <2>4, <2>5
<1>5. CASE PosixSignals!OnEvent
  <2>1. CASE posix_signum \in posix_received
    <3>1. /\ posix_received' = posix_received \ {posix_signum}
          /\ posix_pc = "scan" /\ posix_pc' = "call"
          /\ UNCHANGED <<posix_signum, posix_pipe, posix_handlers, posix_raising, posix_owed>>
      BY <1>5, <2>1 DEF PosixSignals!OnEvent, PosixSignals!ClearSignal
    <3>2. PosixTypes'
      BY <3>1 DEF PosixTypes
    <3>3. FlagsAreSeen'
      BY <3>1 DEF FlagsAreSeen, PosixTypes, Ahead
    <3>4. OwedIsFlagged'
      BY <3>1 DEF OwedIsFlagged
    <3> QED
      BY <3>2, <3>3, <3>4
  <2>2. CASE posix_signum \notin posix_received
    <3>1. /\ posix_signum' = posix_signum + 1 /\ posix_pc # "select"
          /\ posix_pc' = IF posix_signum + 1 \in PosixSignal THEN "scan" ELSE "select"
          /\ UNCHANGED <<posix_pipe, posix_received, posix_handlers, posix_raising, posix_owed>>
          /\ posix_pc = "scan"
      BY <1>5, <2>2 DEF PosixSignals!OnEvent
    <3>2. PosixTypes'
      BY <3>1, LoopAhead DEF PosixTypes
    <3>3. FlagsAreSeen'
      BY <3>1, <2>2, LoopAhead DEF FlagsAreSeen, PosixTypes, Ahead
    <3>4. OwedIsFlagged'
      BY <3>1 DEF OwedIsFlagged
    <3> QED
      BY <3>2, <3>3, <3>4
  <2> QED
    BY <2>1, <2>2
<1>6. CASE PosixSignals!CallHandler
  <2>1. /\ posix_signum' = posix_signum + 1 /\ posix_pc # "select"
        /\ posix_pc' = IF posix_signum + 1 \in PosixSignal THEN "scan" ELSE "select"
        /\ UNCHANGED <<posix_pipe, posix_received, posix_handlers, posix_raising>>
        /\ posix_pc = "call" /\ posix_owed' = posix_owed \ {posix_signum}
    BY <1>6 DEF PosixSignals!CallHandler
  <2>2. PosixTypes'
    BY <2>1, LoopAhead DEF PosixTypes
  <2>3. FlagsAreSeen'
    BY <2>1, LoopAhead DEF FlagsAreSeen, PosixTypes, Ahead
  <2>4. OwedIsFlagged'
    BY <2>1 DEF OwedIsFlagged
  <2> QED
    BY <2>2, <2>3, <2>4
<1>7. CASE UNCHANGED PosixSignals!vars
  BY <1>7 DEF PosixSignals!vars, PosixTypes, FlagsAreSeen, OwedIsFlagged, Ahead
<1> QED
  BY <1>1, <1>2, <1>3, <1>4, <1>5, <1>6, <1>7 DEF PosixSignals!Next

LEMMA PosixSize == \A T : PosixSignals!Cardinality(T) = Cardinality(T)
BY DEF PosixSignals!Cardinality, Cardinality

LEMMA PosixSuffices == PosixInv => PosixSignals!TypeOK /\ PosixSignals!NeverBlocksOwing
<1> PICK n \in Nat : PosixSignal = 1 .. n
  BY SignalsNumbered
<1>1. Cardinality(PosixSignal) = n
  BY FS_Interval
<1> SUFFICES ASSUME PosixInv
             PROVE  PosixSignals!TypeOK /\ PosixSignals!NeverBlocksOwing
  OBVIOUS
<1>2. posix_signum \in 0 .. PosixSignals!Cardinality(PosixSignal) + 1
  BY <1>1, PosixSize DEF PosixInv, PosixTypes
<1>3. PosixSignals!TypeOK
  <2>1. posix_pipe \in 0 .. PipeSize /\ posix_pc \in {"select", "scan", "call"}
    BY DEF PosixInv, PosixTypes
  <2>2. /\ posix_received \subseteq PosixSignal /\ posix_handlers \subseteq PosixSignal
        /\ posix_raising \subseteq PosixSignal
    BY DEF PosixInv, PosixTypes
  <2> QED
    BY <1>2, <2>1, <2>2, Zenon DEF PosixSignals!TypeOK
<1>4. PosixSignals!NeverBlocksOwing
  BY DEF PosixInv, FlagsAreSeen, OwedIsFlagged, Ahead, PosixSignals!NeverBlocksOwing
<1> QED
  BY <1>3, <1>4

-----------------------------------------------------------------------------
(***************************************************************************)
(* The socket server, for any number of sockets.  A call of an application *)
(* makes one state of the sockets, q, another: Sound says which states are *)
(* right, and Keeps what a call leaves alone unless it closes a socket.    *)
(***************************************************************************)
SocketRecord ==
    [fd : 0 .. MaxSockets + 2, enabled : SUBSET SocketServer!Event,
     net : SocketServer!Net, data : 0 .. 1, full : BOOLEAN]
SocketState ==
    [dispatchers : Seq(Nat), sock : [SocketServer!Socket -> SocketRecord],
     removed : BOOLEAN]

\* The dispatchers are the wake-up and the open sockets, each once.
Listed(q) ==
    /\ \A j, k \in 1 .. Len(q.dispatchers) : q.dispatchers[j] = q.dispatchers[k] => j = k
    /\ \A k \in 1 .. Len(q.dispatchers) : q.dispatchers[k] \in {1} \cup SocketServer!Open(q)
    /\ \A d \in {1} \cup SocketServer!Open(q) :
           \E k \in 1 .. Len(q.dispatchers) : q.dispatchers[k] = d
    /\ \A s \in SocketServer!Open(q) : q.sock[s].net # "none"
Sound(q) == q \in SocketState /\ Listed(q)

\* What was removed stays removed; else the dispatchers stay, and those that
\* are new come behind them.
Keeps(q, x) ==
    /\ q.removed => x.removed
    /\ ~x.removed =>
           /\ Len(q.dispatchers) <= Len(x.dispatchers)
           /\ \A k \in 1 .. Len(q.dispatchers) : x.dispatchers[k] = q.dispatchers[k]
           /\ \A s \in SocketServer!Open(q) : x.sock[s].fd = q.sock[s].fd

LEMMA Bounds ==
    /\ MaxSockets \in Nat
    /\ SocketServer!Socket = 2 .. MaxSockets + 1
    /\ 1 \notin SocketServer!Socket
    /\ SocketServer!Socket \subseteq Nat
<1>1. MaxSockets \in Nat
  BY SocketAssumption DEF SocketAssumption
<1>2. SocketServer!Socket = 2 .. MaxSockets + 1
  BY DEF SocketServer!Socket
<1>3. \A s \in 2 .. MaxSockets + 1 : s \in Nat /\ s # 1
  BY <1>1
<1> QED
  BY <1>1, <1>2, <1>3

LEMMA KeepsItself == \A q \in SocketState : Keeps(q, q)
BY LenProperties DEF Keeps, SocketState

LEMMA KeepsOn ==
    ASSUME NEW q, NEW x, NEW y, Sound(q), Sound(x), Sound(y), Keeps(q, x), Keeps(x, y)
    PROVE  Keeps(q, y)
<1>1. q.removed => y.removed
  BY DEF Keeps
<1>2. ASSUME ~y.removed
      PROVE  /\ Len(q.dispatchers) <= Len(y.dispatchers)
             /\ \A k \in 1 .. Len(q.dispatchers) : y.dispatchers[k] = q.dispatchers[k]
             /\ \A s \in SocketServer!Open(q) : y.sock[s].fd = q.sock[s].fd
  <2>1. ~x.removed
    BY <1>2 DEF Keeps
  <2>2. /\ Len(q.dispatchers) \in Nat /\ Len(x.dispatchers) \in Nat
        /\ Len(y.dispatchers) \in Nat
    BY LenProperties DEF Sound, SocketState
  <2>3. /\ Len(q.dispatchers) <= Len(x.dispatchers)
        /\ Len(x.dispatchers) <= Len(y.dispatchers)
        /\ \A k \in 1 .. Len(q.dispatchers) : x.dispatchers[k] = q.dispatchers[k]
        /\ \A k \in 1 .. Len(x.dispatchers) : y.dispatchers[k] = x.dispatchers[k]
        /\ \A s \in SocketServer!Open(q) : x.sock[s].fd = q.sock[s].fd
        /\ \A s \in SocketServer!Open(x) : y.sock[s].fd = x.sock[s].fd
    BY <1>2, <2>1 DEF Keeps
  <2>4. SocketServer!Open(q) \subseteq SocketServer!Open(x)
    BY <2>3 DEF SocketServer!Open
  <2>5. \A k \in 1 .. Len(q.dispatchers) : k \in 1 .. Len(x.dispatchers)
    BY <2>2, <2>3
  <2> QED
    BY <2>2, <2>3, <2>4, <2>5
<1> QED
  BY <1>1, <1>2 DEF Keeps

\* A change of what the sockets wait for, and of what the network has.
LEMMA Changed ==
    ASSUME NEW q, Sound(q), NEW x \in SocketState,
           x.dispatchers = q.dispatchers, x.removed = q.removed,
           \A s \in SocketServer!Socket :
               x.sock[s].fd = q.sock[s].fd /\ (q.sock[s].net # "none" => x.sock[s].net # "none")
    PROVE  Sound(x) /\ Keeps(q, x)
<1>1. SocketServer!Open(x) = SocketServer!Open(q)
  BY DEF SocketServer!Open
<1>2. \A s \in SocketServer!Open(q) : s \in SocketServer!Socket
  BY DEF SocketServer!Open
<1>3. Listed(x)
  BY <1>1, <1>2 DEF Sound, Listed
<1>4. Len(q.dispatchers) \in Nat
  BY LenProperties DEF Sound, SocketState
<1>5. Keeps(q, x)
  BY <1>2, <1>4 DEF Keeps
<1> QED
  BY <1>3, <1>5 DEF Sound

\* One socket becomes another.
LEMMA SocketBecomes ==
    ASSUME NEW q \in SocketState, NEW s \in SocketServer!Socket, NEW y \in SocketRecord
    PROVE  /\ [q EXCEPT !.sock[s] = y] \in SocketState
           /\ [q EXCEPT !.sock[s] = y].dispatchers = q.dispatchers
           /\ [q EXCEPT !.sock[s] = y].removed = q.removed
           /\ \A o \in SocketServer!Socket :
                  [q EXCEPT !.sock[s] = y].sock[o] = IF o = s THEN y ELSE q.sock[o]
BY DEF SocketState

\* The numbers that are free.
LEMMA LeastNumber ==
    ASSUME NEW T \in SUBSET Nat, T # {}
    PROVE  \E x \in T : \A y \in T : x <= y
<1> DEFINE R == {ss \in Nat \X Nat : ss[1] < ss[2]}
<1>1. IsWellFoundedOn(R, Nat)
  BY NatLessThanWellFounded DEF OpToRel
<1>2. PICK x \in T : \A y \in T : ~ (<<y, x>> \in R)
  <2> HIDE DEF R
  <2> QED
    BY <1>1, WFMin
<1>3. ASSUME NEW y \in T
      PROVE  x <= y
  <2>1. x \in Nat /\ y \in Nat /\ ~ (y < x)
    BY <1>2
  <2> QED
    BY <2>1
<1> QED
  BY <1>3

LEMMA ServerMin ==
    ASSUME NEW T \in SUBSET Nat, T # {}
    PROVE  SocketServer!Min(T) \in T
BY LeastNumber DEF SocketServer!Min

\* There are more descriptors than sockets.
LEMMA DescriptorFree ==
    ASSUME NEW q \in SocketState
    PROVE  (2 .. MaxSockets + 2) \ {q.sock[o].fd : o \in SocketServer!Open(q)} # {}
<1> DEFINE D == 2 .. MaxSockets + 2
           O == SocketServer!Open(q)
           f == [d \in D |-> CHOOSE o \in O : q.sock[o].fd = d]
<1> SUFFICES ASSUME D \subseteq {q.sock[o].fd : o \in O}
             PROVE  FALSE
  BY DEF D, O
<1>1. O \subseteq SocketServer!Socket
  BY DEF SocketServer!Open
<1>2. \A d \in D : f[d] \in O /\ q.sock[f[d]].fd = d
  <2> HIDE DEF O, D
  <2> TAKE d \in D
  <2>1. \E o \in O : q.sock[o].fd = d
    OBVIOUS
  <2> QED
    BY <2>1
<1>3. f \in [D -> SocketServer!Socket]
  <2> HIDE DEF O, D
  <2> QED
    BY <1>1, <1>2
<1>4. /\ IsFiniteSet(D) /\ Cardinality(D) = MaxSockets + 1
      /\ IsFiniteSet(SocketServer!Socket) /\ Cardinality(SocketServer!Socket) = MaxSockets
  BY Bounds, FS_Interval
<1>5. PICK x, y \in D : x # y /\ f[x] = f[y]
  <2>1. Cardinality(SocketServer!Socket) < Cardinality(D)
    BY <1>4, Bounds
  <2> HIDE DEF f, D
  <2> QED
    BY <1>3, <1>4, <2>1, FS_PigeonHole
<1> HIDE DEF f, D
<1> QED
  BY <1>2, <1>5

\* A socket that is made goes behind the others.
LEMMA MakeKeeps ==
    ASSUME NEW q, Sound(q), NEW net \in SocketServer!Net \ {"none"},
           NEW events \in SUBSET SocketServer!Event
    PROVE  Sound(SocketServer!Make(q, net, events))
           /\ Keeps(q, SocketServer!Make(q, net, events))
<1> DEFINE free == {s \in SocketServer!Socket : q.sock[s].net = "none"}
           s == SocketServer!Min(free)
           fd == SocketServer!Min((2 .. MaxSockets + 2)
                                  \ {q.sock[o].fd : o \in SocketServer!Open(q)})
           y == [q.sock[s] EXCEPT !.fd = fd, !.net = net, !.enabled = events]
           x == [q EXCEPT !.sock[s] = y, !.dispatchers = Append(@, s)]
<1>0. q \in SocketState /\ Listed(q)
  BY DEF Sound
<1>1. CASE free = {}
  <2>1. SocketServer!Make(q, net, events) = q
    BY <1>1 DEF SocketServer!Make
  <2> QED
    BY <1>0, <2>1, KeepsItself
<1>2. CASE free # {}
  <2>1. s \in free
    <3>1. free \in SUBSET Nat
      BY Bounds
    <3> HIDE DEF free
    <3> QED
      BY <1>2, <3>1, ServerMin
  <2>2. fd \in 2 .. MaxSockets + 2
    <3> DEFINE D == (2 .. MaxSockets + 2) \ {q.sock[o].fd : o \in SocketServer!Open(q)}
    <3>1. D \in SUBSET Nat
      BY Bounds
    <3>2. D # {}
      BY <1>0, DescriptorFree
    <3>3. SocketServer!Min(D) \in D
      <4> HIDE DEF D
      <4> QED
        BY <3>1, <3>2, ServerMin
    <3> QED
      BY <3>3
  <2>3. SocketServer!Make(q, net, events) = x
    <3>1. SocketServer!Make(q, net, events)
          = [q EXCEPT !.sock[s].fd = fd, !.sock[s].net = net, !.sock[s].enabled = events,
                      !.dispatchers = Append(@, s)]
      BY <1>2 DEF SocketServer!Make
    <3>2. q \in SocketState /\ s \in SocketServer!Socket
      BY <1>0, <2>1
    <3> HIDE DEF fd, s
    <3>3. [q EXCEPT !.sock[s].fd = fd, !.sock[s].net = net, !.sock[s].enabled = events,
                    !.dispatchers = Append(@, s)] = x
      BY <3>2 DEF SocketState
    <3> QED
      BY <3>1, <3>3
  <2> HIDE DEF fd, s
  <2>4. s \in SocketServer!Socket /\ q.sock[s] \in SocketRecord /\ q.sock[s].net = "none"
    BY <1>0, <2>1 DEF SocketState
  <2>5. fd \in 0 .. MaxSockets + 2 /\ fd # 0
    BY <2>2, Bounds
  <2>6. y \in SocketRecord /\ y.fd = fd /\ y.net = net
    BY <2>4, <2>5 DEF SocketRecord
  <2> HIDE DEF y
  <2> DEFINE d == q.dispatchers
             n == Len(d)
             e == Append(d, s)
  <2>7. d \in Seq(Nat) /\ s \in Nat
    BY <1>0, <2>4, Bounds DEF SocketState
  <2>8. /\ n \in Nat /\ e \in Seq(Nat) /\ Len(e) = n + 1
        /\ \A k \in 1 .. n : e[k] = d[k]
        /\ e[n + 1] = s
    BY <2>7, AppendProperties, LenProperties
  <2>9. /\ x \in SocketState /\ x.dispatchers = e /\ x.removed = q.removed
        /\ \A o \in SocketServer!Socket : x.sock[o] = IF o = s THEN y ELSE q.sock[o]
    BY <1>0, <2>4, <2>6, <2>8 DEF SocketState
  <2> HIDE DEF x, e, n
  <2>10. /\ SocketServer!Open(x) = SocketServer!Open(q) \cup {s}
         /\ s \notin SocketServer!Open(q)
    <3>1. s \notin SocketServer!Open(q)
      BY <1>0, <2>4 DEF Listed
    <3>2. \A o \in SocketServer!Socket : x.sock[o].fd # 0 <=> o = s \/ q.sock[o].fd # 0
      BY <2>5, <2>6, <2>9
    <3> QED
      BY <2>4, <3>1, <3>2 DEF SocketServer!Open
  <2>11. s # 1
    BY <2>4, Bounds
  <2>12. \A k \in 1 .. n + 1 : k = n + 1 \/ k \in 1 .. n
    BY <2>8
  <2>13. \A k \in 1 .. n : k \in 1 .. n + 1 /\ k # n + 1
    BY <2>8
  <2>14. n + 1 \in 1 .. n + 1
    BY <2>8
  <2>15. /\ \A j, k \in 1 .. n : d[j] = d[k] => j = k
         /\ \A k \in 1 .. n : d[k] \in {1} \cup SocketServer!Open(q)
         /\ \A c \in {1} \cup SocketServer!Open(q) : \E k \in 1 .. n : d[k] = c
         /\ \A o \in SocketServer!Open(q) : q.sock[o].net # "none"
    BY <1>0 DEF Listed, n
  <2>16. \A k \in 1 .. n : d[k] # s
    BY <2>10, <2>11, <2>15
  <2>17. \A j, k \in 1 .. n + 1 : e[j] = e[k] => j = k
    BY <2>8, <2>12, <2>15, <2>16
  <2>18. \A k \in 1 .. n + 1 : e[k] \in {1} \cup SocketServer!Open(x)
    BY <2>8, <2>10, <2>12, <2>15
  <2>19. \A c \in {1} \cup SocketServer!Open(x) : \E k \in 1 .. n + 1 : e[k] = c
    BY <2>8, <2>10, <2>13, <2>14, <2>15
  <2>20. \A o \in SocketServer!Open(x) : x.sock[o].net # "none"
    BY <2>6, <2>9, <2>10, <2>15 DEF SocketServer!Open
  <2>21. Sound(x)
    BY <2>8, <2>9, <2>17, <2>18, <2>19, <2>20 DEF Sound, Listed
  <2>22. \A o \in SocketServer!Open(q) : x.sock[o].fd = q.sock[o].fd
    BY <2>9, <2>10 DEF SocketServer!Open
  <2>23. Keeps(q, x)
    BY <2>8, <2>9, <2>22 DEF Keeps, n
  <2> QED
    BY <2>3, <2>21, <2>23
<1> QED
  BY <1>1, <1>2

\* What is erased is gone, and all else is there.
LEMMA Erased ==
    ASSUME NEW list \in Seq(Nat), NEW d,
           \A j, k \in 1 .. Len(list) : list[j] = list[k] => j = k,
           \E k \in 1 .. Len(list) : list[k] = d
    PROVE  LET e == SocketServer!Erase(list, d)
           IN  /\ e \in Seq(Nat)
               /\ \A j, k \in 1 .. Len(e) : e[j] = e[k] => j = k
               /\ \A k \in 1 .. Len(e) : \E j \in 1 .. Len(list) : e[k] = list[j] /\ e[k] # d
               /\ \A j \in 1 .. Len(list) : list[j] # d => \E k \in 1 .. Len(e) : e[k] = list[j]
<1> DEFINE n == Len(list)
           j == CHOOSE k \in DOMAIN list : list[k] = d
           a == SubSeq(list, 1, j - 1)
           m == j + 1
           b == SubSeq(list, m, n)
           e == a \o b
<1>1. n \in Nat /\ DOMAIN list = 1 .. n
  BY LenProperties
<1>2. j \in 1 .. n /\ list[j] = d
  BY <1>1
<1>3. SocketServer!Erase(list, d) = e
  BY DEF SocketServer!Erase, SocketServer!RemoveAt
<1> HIDE DEF j, n
<1>4. \A k \in 1 .. n : list[k] \in Nat
  BY <1>1 DEF n
<1>5. /\ a \in Seq(Nat) /\ Len(a) = j - 1
      /\ \A k \in 1 .. j - 1 : a[k] = list[k]
  <2>1. 1 \in Int /\ j - 1 \in Int /\ \A k \in 1 .. j - 1 : list[k] \in Nat
    BY <1>1, <1>2, <1>4
  <2>2. /\ a \in Seq(Nat) /\ Len(a) = IF 1 <= j - 1 THEN j - 1 - 1 + 1 ELSE 0
        /\ \A k \in 1 .. j - 1 - 1 + 1 : a[k] = list[1 + k - 1]
    <3> HIDE DEF a
    <3> QED
      BY <2>1, SubSeqProperties DEF a
  <2> HIDE DEF a
  <2>3. Len(a) = j - 1
    BY <1>1, <1>2, <2>2
  <2>4. \A k \in 1 .. j - 1 : k \in 1 .. j - 1 - 1 + 1 /\ 1 + k - 1 = k
    BY <1>1, <1>2
  <2> QED
    BY <2>2, <2>3, <2>4
<1>6. /\ b \in Seq(Nat) /\ Len(b) = n - j
      /\ \A k \in 1 .. n - j : b[k] = list[j + k]
  <2>1. m \in Int /\ n \in Int /\ \A k \in m .. n : list[k] \in Nat
    BY <1>1, <1>2, <1>4
  <2> HIDE DEF m
  <2>2. /\ b \in Seq(Nat) /\ Len(b) = IF m <= n THEN n - m + 1 ELSE 0
        /\ \A k \in 1 .. n - m + 1 : b[k] = list[m + k - 1]
    <3> HIDE DEF b
    <3> QED
      BY <2>1, SubSeqProperties DEF b
  <2> HIDE DEF b
  <2> USE DEF m
  <2>3. Len(b) = n - j
    BY <1>1, <1>2, <2>2
  <2>4. \A k \in 1 .. n - j : k \in 1 .. n - (j + 1) + 1 /\ j + 1 + k - 1 = j + k
    BY <1>1, <1>2
  <2> QED
    BY <2>2, <2>3, <2>4
<1> HIDE DEF a, b
<1>7. /\ e \in Seq(Nat) /\ Len(e) = n - 1
      /\ \A k \in 1 .. n - 1 : e[k] = IF k < j THEN list[k] ELSE list[k + 1]
  <2>1. /\ e \in Seq(Nat) /\ Len(e) = Len(a) + Len(b)
        /\ \A k \in 1 .. Len(a) + Len(b) :
               e[k] = IF k <= Len(a) THEN a[k] ELSE b[k - Len(a)]
    <3>1. a \in Seq(Nat) /\ b \in Seq(Nat)
      BY <1>5, <1>6
    <3> QED
      BY <3>1, ConcatProperties
  <2> HIDE DEF e
  <2>2. Len(a) + Len(b) = n - 1
    BY <1>1, <1>2, <1>5, <1>6
  <2>3. ASSUME NEW k \in 1 .. n - 1
        PROVE  e[k] = IF k < j THEN list[k] ELSE list[k + 1]
    <3>1. CASE k < j
      <4>1. k \in 1 .. j - 1 /\ k <= j - 1
        BY <1>1, <1>2, <3>1
      <4> QED
        BY <1>5, <2>1, <2>2, <3>1, <4>1
    <3>2. CASE ~(k < j)
      <4>1. k - (j - 1) \in 1 .. n - j /\ ~(k <= j - 1) /\ j + (k - (j - 1)) = k + 1
        BY <1>1, <1>2, <3>2
      <4>2. e[k] = b[k - (j - 1)]
        BY <1>5, <2>1, <2>2, <4>1
      <4>3. b[k - (j - 1)] = list[k + 1]
        BY <1>6, <4>1
      <4> QED
        BY <3>2, <4>2, <4>3
    <3> QED
      BY <3>1, <3>2
  <2> QED
    BY <2>1, <2>2, <2>3
<1> HIDE DEF e
<1> DEFINE at(k) == IF k < j THEN k ELSE k + 1
<1>8. \A k \in 1 .. n - 1 : at(k) \in 1 .. n /\ at(k) # j /\ e[k] = list[at(k)]
  <2> TAKE k \in 1 .. n - 1
  <2>1. at(k) \in 1 .. n /\ at(k) # j
    BY <1>1, <1>2
  <2> QED
    BY <1>7, <2>1
<1>9. \A k, l \in 1 .. n - 1 : at(k) = at(l) => k = l
  <2> TAKE k, l \in 1 .. n - 1
  <2>1. k \in Nat /\ l \in Nat /\ j \in Nat
    BY <1>1, <1>2
  <2>2. CASE k < j /\ l < j
    BY <2>2
  <2>3. CASE k < j /\ ~(l < j)
    BY <2>1, <2>3
  <2>4. CASE ~(k < j) /\ l < j
    BY <2>1, <2>4
  <2>5. CASE ~(k < j) /\ ~(l < j)
    BY <2>1, <2>5
  <2> QED
    BY <2>2, <2>3, <2>4, <2>5
<1>10. \A i \in 1 .. n : i # j => \E k \in 1 .. n - 1 : at(k) = i
  <2> TAKE i \in 1 .. n
  <2> HAVE i # j
  <2> DEFINE k == IF i < j THEN i ELSE i - 1
  <2>1. k \in 1 .. n - 1 /\ at(k) = i
    BY <1>1, <1>2
  <2> QED
    BY <2>1
<1> HIDE DEF at
<1>11. \A k \in 1 .. n : k # j => list[k] # d
  BY <1>2 DEF n
<1>12. \A k, l \in 1 .. n - 1 : e[k] = e[l] => k = l
  BY <1>8, <1>9 DEF n
<1>13. \A k \in 1 .. n - 1 : \E i \in 1 .. n : e[k] = list[i] /\ e[k] # d
  BY <1>8, <1>11
<1>14. \A i \in 1 .. n : list[i] # d => \E k \in 1 .. n - 1 : e[k] = list[i]
  BY <1>2, <1>8, <1>10
<1> QED
  BY <1>3, <1>7, <1>12, <1>13, <1>14 DEF n

LEMMA ClosedSocket ==
    \A y \in SocketRecord :
        SocketServer!Closed(y) \in SocketRecord /\ SocketServer!Closed(y).fd = 0
<1>1. 0 \in 0 .. MaxSockets + 2
  BY Bounds
<1>2. {} \in SUBSET SocketServer!Event
  OBVIOUS
<1> QED
  BY <1>1, <1>2 DEF SocketServer!Closed, SocketRecord

LEMMA CloseKeeps ==
    ASSUME NEW q, Sound(q), NEW s \in SocketServer!Socket
    PROVE  Sound(SocketServer!Close(q, s)) /\ Keeps(q, SocketServer!Close(q, s))
<1> DEFINE y == SocketServer!Closed(q.sock[s])
           e == SocketServer!Erase(q.dispatchers, s)
           x == [q EXCEPT !.dispatchers = e, !.removed = TRUE, !.sock[s] = y]
<1>0. q \in SocketState /\ Listed(q)
  BY DEF Sound
<1>1. CASE q.sock[s].fd = 0
  <2>1. SocketServer!Close(q, s) = q
    BY <1>1 DEF SocketServer!Close
  <2> QED
    BY <1>0, <2>1, KeepsItself
<1>2. CASE q.sock[s].fd # 0
  <2>1. SocketServer!Close(q, s) = x
    <3> q \in SocketState
      BY <1>0
    <3> QED
      BY <1>2 DEF SocketServer!Close, SocketState
  <2>2. y \in SocketRecord /\ y.fd = 0
    <3> q.sock[s] \in SocketRecord
      BY <1>0 DEF SocketState
    <3> QED
      BY ClosedSocket
  <2> HIDE DEF y
  <2>3. /\ q.dispatchers \in Seq(Nat)
        /\ \A j, k \in 1 .. Len(q.dispatchers) :
               q.dispatchers[j] = q.dispatchers[k] => j = k
        /\ \A k \in 1 .. Len(q.dispatchers) :
               q.dispatchers[k] \in {1} \cup SocketServer!Open(q)
        /\ \A d \in {1} \cup SocketServer!Open(q) :
               \E k \in 1 .. Len(q.dispatchers) : q.dispatchers[k] = d
        /\ \A o \in SocketServer!Open(q) : q.sock[o].net # "none"
    BY <1>0 DEF SocketState, Listed
  <2>4. s \in SocketServer!Open(q)
    BY <1>2 DEF SocketServer!Open
  <2>5. /\ e \in Seq(Nat)
        /\ \A j, k \in 1 .. Len(e) : e[j] = e[k] => j = k
        /\ \A k \in 1 .. Len(e) :
               \E j \in 1 .. Len(q.dispatchers) : e[k] = q.dispatchers[j] /\ e[k] # s
        /\ \A j \in 1 .. Len(q.dispatchers) :
               q.dispatchers[j] # s => \E k \in 1 .. Len(e) : e[k] = q.dispatchers[j]
    BY <2>3, <2>4, Erased
  <2> HIDE DEF e
  <2>6. /\ x \in SocketState /\ x.dispatchers = e /\ x.removed = TRUE
        /\ \A o \in SocketServer!Socket : x.sock[o] = IF o = s THEN y ELSE q.sock[o]
    BY <1>0, <2>2, <2>5 DEF SocketState
  <2> HIDE DEF x
  <2>7. SocketServer!Open(x) = SocketServer!Open(q) \ {s}
    <3>1. \A o \in SocketServer!Socket : x.sock[o].fd # 0 <=> o # s /\ q.sock[o].fd # 0
      BY <2>2, <2>6
    <3> QED
      BY <3>1 DEF SocketServer!Open
  <2>8. s # 1
    BY Bounds
  <2>9. \A k \in 1 .. Len(e) : e[k] \in {1} \cup SocketServer!Open(x)
    BY <2>3, <2>5, <2>7
  <2>10. \A d \in {1} \cup SocketServer!Open(x) : \E k \in 1 .. Len(e) : e[k] = d
    <3> TAKE d \in {1} \cup SocketServer!Open(x)
    <3>1. d \in {1} \cup SocketServer!Open(q) /\ d # s
      BY <2>7, <2>8
    <3>2. PICK j \in 1 .. Len(q.dispatchers) : q.dispatchers[j] = d
      BY <2>3, <3>1
    <3> QED
      BY <2>5, <3>1, <3>2
  <2>11. \A o \in SocketServer!Open(x) : x.sock[o].net # "none"
    BY <2>3, <2>6, <2>7 DEF SocketServer!Open
  <2>12. Sound(x)
    BY <2>5, <2>6, <2>9, <2>10, <2>11 DEF Sound, Listed
  <2>13. Keeps(q, x)
    BY <2>6 DEF Keeps
  <2> QED
    BY <2>1, <2>12, <2>13
<1> QED
  BY <1>1, <1>2

LEMMA CloseOthersKeeps ==
    ASSUME NEW q, Sound(q), NEW s \in SocketServer!Socket
    PROVE  Sound(SocketServer!CloseOthers(q, s)) /\ Keeps(q, SocketServer!CloseOthers(q, s))
<1> DEFINE O == SocketServer!Open(q)
           e == IF s \in O THEN <<1, s>> ELSE <<1>>
           z == [o \in SocketServer!Socket |->
                     IF o = s \/ q.sock[o].fd = 0 THEN q.sock[o]
                     ELSE SocketServer!Closed(q.sock[o])]
           x == [dispatchers |-> e, removed |-> TRUE, sock |-> z]
<1>0. q \in SocketState /\ Listed(q)
  BY DEF Sound
<1>1. CASE O \subseteq {s}
  <2>1. SocketServer!CloseOthers(q, s) = q
    BY <1>1 DEF SocketServer!CloseOthers
  <2> QED
    BY <1>0, <2>1, KeepsItself
<1>2. CASE ~(O \subseteq {s})
  <2>1. SocketServer!CloseOthers(q, s) = x
    BY <1>2 DEF SocketServer!CloseOthers
  <2>2. \A o \in SocketServer!Socket : q.sock[o] \in SocketRecord
    BY <1>0 DEF SocketState
  <2>3. \A o \in SocketServer!Socket :
            SocketServer!Closed(q.sock[o]) \in SocketRecord
            /\ SocketServer!Closed(q.sock[o]).fd = 0
    BY <2>2, ClosedSocket
  <2>4. z \in [SocketServer!Socket -> SocketRecord]
    BY <2>2, <2>3
  <2>5. \A o \in SocketServer!Socket : z[o].fd # 0 <=> o = s /\ q.sock[o].fd # 0
    BY <2>3
  <2>6. z[s] = q.sock[s]
    OBVIOUS
  <2> HIDE DEF z
  <2>7. /\ e \in Seq(Nat)
        /\ \A j, k \in 1 .. Len(e) : e[j] = e[k] => j = k
        /\ \A k \in 1 .. Len(e) : e[k] = 1 \/ (e[k] = s /\ s \in O)
        /\ \E k \in 1 .. Len(e) : e[k] = 1
        /\ s \in O => \E k \in 1 .. Len(e) : e[k] = s
    <3>1. s \in Nat /\ s # 1
      BY Bounds
    <3> HIDE DEF O
    <3>2. CASE s \in O
      <4>1. e = <<1, s>> /\ Len(e) = 2 /\ e[1] = 1 /\ e[2] = s /\ e \in Seq(Nat)
        BY <3>1, <3>2
      <4>2. \A k \in 1 .. 2 : k = 1 \/ k = 2
        OBVIOUS
      <4>3. 1 \in 1 .. 2 /\ 2 \in 1 .. 2
        OBVIOUS
      <4> HIDE DEF e
      <4> QED
        BY <3>1, <3>2, <4>1, <4>2, <4>3
    <3>3. CASE s \notin O
      <4>1. e = <<1>> /\ Len(e) = 1 /\ e[1] = 1 /\ e \in Seq(Nat)
        BY <3>3
      <4>2. \A k \in 1 .. 1 : k = 1
        OBVIOUS
      <4> HIDE DEF e
      <4>3. \A j, k \in 1 .. Len(e) : e[j] = e[k] => j = k
        BY <4>1
      <4>4. \E k \in 1 .. Len(e) : e[k] = 1
        <5>1. 1 \in 1 .. Len(e)
          BY <4>1
        <5> QED
          BY <4>1, <5>1
      <4>5. \A k \in 1 .. Len(e) : e[k] = 1
        BY <4>1, <4>2
      <4> QED
        BY <3>3, <4>1, <4>3, <4>4, <4>5, Zenon
    <3> QED
      BY <3>2, <3>3
  <2> HIDE DEF e
  <2>8. /\ x \in SocketState /\ x.dispatchers = e /\ x.removed = TRUE /\ x.sock = z
    BY <2>4, <2>7 DEF SocketState
  <2> HIDE DEF x
  <2>9. SocketServer!Open(x) = O \cap {s}
    BY <2>5, <2>8 DEF SocketServer!Open
  <2>10. O \cap {s} = IF s \in O THEN {s} ELSE {}
    <3> HIDE DEF O
    <3> QED
      OBVIOUS
  <2>11. \A o \in SocketServer!Open(x) : x.sock[o].net # "none"
    <3>1. s \in O => q.sock[s].net # "none"
      BY <1>0 DEF Listed
    <3> HIDE DEF O
    <3> QED
      BY <2>6, <2>8, <2>9, <3>1
  <2> HIDE DEF O
  <2>12. Listed(x)
    <3>1. \A j, k \in 1 .. Len(x.dispatchers) : x.dispatchers[j] = x.dispatchers[k] => j = k
      BY <2>7, <2>8
    <3>2. \A k \in 1 .. Len(x.dispatchers) : x.dispatchers[k] \in {1} \cup SocketServer!Open(x)
      BY <2>7, <2>8, <2>9
    <3>3. \A d \in {1} \cup SocketServer!Open(x) :
              \E k \in 1 .. Len(x.dispatchers) : x.dispatchers[k] = d
      BY <2>7, <2>8, <2>9
    <3> QED
      BY <2>11, <3>1, <3>2, <3>3 DEF Listed
  <2>13. Keeps(q, x)
    BY <2>8 DEF Keeps
  <2> QED
    BY <2>1, <2>8, <2>12, <2>13 DEF Sound
<1> QED
  BY <1>1, <1>2

\* One socket changes, and stays open or closed.
LEMMA OneChanged ==
    ASSUME NEW q, Sound(q), NEW s \in SocketServer!Socket, NEW y \in SocketRecord,
           y.fd = q.sock[s].fd, q.sock[s].net # "none" => y.net # "none"
    PROVE  Sound([q EXCEPT !.sock[s] = y]) /\ Keeps(q, [q EXCEPT !.sock[s] = y])
<1> q \in SocketState
  BY DEF Sound
<1> DEFINE x == [q EXCEPT !.sock[s] = y]
<1>1. /\ x \in SocketState /\ x.dispatchers = q.dispatchers /\ x.removed = q.removed
      /\ \A o \in SocketServer!Socket : x.sock[o] = IF o = s THEN y ELSE q.sock[o]
  BY SocketBecomes
<1> HIDE DEF x
<1>2. \A o \in SocketServer!Socket :
          x.sock[o].fd = q.sock[o].fd /\ (q.sock[o].net # "none" => x.sock[o].net # "none")
  BY <1>1
<1>3. Sound(x) /\ Keeps(q, x)
  BY <1>1, <1>2, Changed
<1> QED
  BY <1>3 DEF x

LEMMA SocketIs ==
    ASSUME NEW q, Sound(q), NEW s \in SocketServer!Socket
    PROVE  /\ q \in SocketState /\ q.sock[s] \in SocketRecord
           /\ q.sock[s].fd \in 0 .. MaxSockets + 2
           /\ q.sock[s].enabled \in SUBSET SocketServer!Event
           /\ q.sock[s].net \in SocketServer!Net
           /\ q.sock[s].data \in 0 .. 1 /\ q.sock[s].full \in BOOLEAN
<1>1. q \in SocketState /\ q.sock[s] \in SocketRecord
  BY DEF Sound, SocketState
<1> QED
  BY <1>1 DEF SocketRecord

LEMMA ReceiveKeeps ==
    ASSUME NEW q, Sound(q), NEW s \in SocketServer!Socket
    PROVE  Sound(SocketServer!Receive(q, s)) /\ Keeps(q, SocketServer!Receive(q, s))
<1> DEFINE y == q.sock[s]
           a == [y EXCEPT !.data = @ - 1, !.enabled = @ \cup {"ACCEPT"}]
           b == [y EXCEPT !.data = IF @ > 0 THEN @ - 1 ELSE 0, !.enabled = @ \cup {"READ"}]
           x == [q EXCEPT !.sock[s] = a]
<1>1. /\ q \in SocketState /\ y \in SocketRecord
      /\ y.enabled \in SUBSET SocketServer!Event /\ y.data \in 0 .. 1
  BY SocketIs
<1>2. CASE y.fd = 0
  <2>1. SocketServer!Receive(q, s) = q
    BY <1>2 DEF SocketServer!Receive
  <2> QED
    BY <1>1, <2>1, KeepsItself
<1>3. CASE y.fd # 0 /\ y.net = "listening" /\ y.data > 0
  <2>1. a \in SocketRecord /\ a.fd = y.fd /\ a.net = y.net
    <3>1. y.data - 1 \in 0 .. 1
      BY <1>1, <1>3
    <3>2. y.enabled \cup {"ACCEPT"} \in SUBSET SocketServer!Event
      BY <1>1 DEF SocketServer!Event
    <3> QED
      BY <1>1, <3>1, <3>2 DEF SocketRecord
  <2>2. SocketServer!Receive(q, s) = SocketServer!Make(x, "connected", {"READ", "WRITE"})
    <3>1. x = [q EXCEPT !.sock[s].data = @ - 1, !.sock[s].enabled = @ \cup {"ACCEPT"}]
      BY <1>1 DEF SocketState
    <3> HIDE DEF x
    <3> QED
      BY <1>3, <3>1 DEF SocketServer!Receive
  <2>3. Sound(x) /\ Keeps(q, x)
    <3> HIDE DEF a
    <3> QED
      BY <1>1, <2>1, OneChanged
  <2> HIDE DEF x
  <2>4. /\ "connected" \in SocketServer!Net \ {"none"}
        /\ {"READ", "WRITE"} \in SUBSET SocketServer!Event
    BY DEF SocketServer!Net, SocketServer!Event
  <2> DEFINE z == SocketServer!Make(x, "connected", {"READ", "WRITE"})
  <2>5. Sound(z) /\ Keeps(x, z)
    BY <2>3, <2>4, MakeKeeps
  <2> HIDE DEF z
  <2>6. Keeps(q, z)
    BY <2>3, <2>5, KeepsOn
  <2> QED
    BY <2>2, <2>5, <2>6 DEF z
<1>4. CASE y.fd # 0 /\ ~(y.net = "listening" /\ y.data > 0) /\ y.net \in {"connected", "eof"}
  <2>1. b \in SocketRecord /\ b.fd = y.fd /\ b.net = y.net
    <3>1. (IF y.data > 0 THEN y.data - 1 ELSE 0) \in 0 .. 1
      BY <1>1
    <3>2. y.enabled \cup {"READ"} \in SUBSET SocketServer!Event
      BY <1>1 DEF SocketServer!Event
    <3> QED
      BY <1>1, <3>1, <3>2 DEF SocketRecord
  <2>2. SocketServer!Receive(q, s) = [q EXCEPT !.sock[s] = b]
    <3>1. [q EXCEPT !.sock[s] = b]
          = [q EXCEPT !.sock[s].data = IF @ > 0 THEN @ - 1 ELSE 0,
                      !.sock[s].enabled = @ \cup {"READ"}]
      BY <1>1 DEF SocketState
    <3>2. SocketServer!Receive(q, s)
          = [q EXCEPT !.sock[s].data = IF @ > 0 THEN @ - 1 ELSE 0,
                      !.sock[s].enabled = @ \cup {"READ"}]
      BY <1>4 DEF SocketServer!Receive
    <3> QED
      BY <3>1, <3>2
  <2> HIDE DEF b
  <2> QED
    BY <1>1, <2>1, <2>2, OneChanged
<1>5. CASE /\ y.fd # 0 /\ ~(y.net = "listening" /\ y.data > 0)
           /\ y.net \notin {"connected", "eof"}
  <2>1. SocketServer!Receive(q, s) = q
    BY <1>5 DEF SocketServer!Receive
  <2> QED
    BY <1>1, <2>1, KeepsItself
<1> QED
  BY <1>2, <1>3, <1>4, <1>5

LEMMA SendKeeps ==
    ASSUME NEW q, Sound(q), NEW s \in SocketServer!Socket
    PROVE  Sound(SocketServer!Send(q, s)) /\ Keeps(q, SocketServer!Send(q, s))
<1> DEFINE y == q.sock[s]
           a == [y EXCEPT !.enabled = @ \cup {"WRITE"}]
           b == [y EXCEPT !.full = TRUE]
<1>1. /\ q \in SocketState /\ y \in SocketRecord
      /\ y.enabled \in SUBSET SocketServer!Event
  BY SocketIs
<1>2. SocketServer!Send(q, s) \in {q, [q EXCEPT !.sock[s] = a], [q EXCEPT !.sock[s] = b]}
  <2>1. /\ [q EXCEPT !.sock[s] = a] = [q EXCEPT !.sock[s].enabled = @ \cup {"WRITE"}]
        /\ [q EXCEPT !.sock[s] = b] = [q EXCEPT !.sock[s].full = TRUE]
    BY <1>1 DEF SocketState
  <2>2. SocketServer!Send(q, s) \in {q, [q EXCEPT !.sock[s].enabled = @ \cup {"WRITE"}],
                                     [q EXCEPT !.sock[s].full = TRUE]}
    BY DEF SocketServer!Send
  <2> QED
    BY <2>1, <2>2
<1>3. a \in SocketRecord /\ a.fd = y.fd /\ a.net = y.net
  <2>1. y.enabled \cup {"WRITE"} \in SUBSET SocketServer!Event
    BY <1>1 DEF SocketServer!Event
  <2> QED
    BY <1>1, <2>1 DEF SocketRecord
<1>4. b \in SocketRecord /\ b.fd = y.fd /\ b.net = y.net
  BY <1>1 DEF SocketRecord
<1> HIDE DEF a, b
<1>5. Sound([q EXCEPT !.sock[s] = a]) /\ Keeps(q, [q EXCEPT !.sock[s] = a])
  BY <1>3, OneChanged
<1>6. Sound([q EXCEPT !.sock[s] = b]) /\ Keeps(q, [q EXCEPT !.sock[s] = b])
  BY <1>4, OneChanged
<1>7. Keeps(q, q)
  BY <1>1, KeepsItself
<1> QED
  BY <1>2, <1>5, <1>6, <1>7

LEMMA CallKeeps ==
    ASSUME NEW q, Sound(q), NEW s \in SocketServer!Socket, NEW op \in SocketOps
    PROVE  Sound(SocketServer!Call(q, s, op)) /\ Keeps(q, SocketServer!Call(q, s, op))
<1>1. op \in {"nothing", "receive", "send", "close", "close others", "connect", "listen"}
  BY SocketAssumption DEF SocketAssumption
<1>2. CASE op = "nothing"
  <2>1. SocketServer!Call(q, s, op) = q
    BY <1>2 DEF SocketServer!Call
  <2> QED
    BY <2>1, KeepsItself DEF Sound
<1>3. CASE op = "receive"
  <2>1. SocketServer!Call(q, s, op) = SocketServer!Receive(q, s)
    BY <1>3 DEF SocketServer!Call
  <2> QED
    BY <2>1, ReceiveKeeps
<1>4. CASE op = "send"
  <2>1. SocketServer!Call(q, s, op) = SocketServer!Send(q, s)
    BY <1>4 DEF SocketServer!Call
  <2> QED
    BY <2>1, SendKeeps
<1>5. CASE op = "close"
  <2>1. SocketServer!Call(q, s, op) = SocketServer!Close(q, s)
    BY <1>5 DEF SocketServer!Call
  <2> QED
    BY <2>1, CloseKeeps
<1>6. CASE op = "close others"
  <2>1. SocketServer!Call(q, s, op) = SocketServer!CloseOthers(q, s)
    BY <1>6 DEF SocketServer!Call
  <2> QED
    BY <2>1, CloseOthersKeeps
<1>7. CASE op = "connect"
  <2>1. SocketServer!Call(q, s, op)
        = SocketServer!Make(q, "connecting", {"CONNECT", "READ", "WRITE"})
    BY <1>7 DEF SocketServer!Call
  <2>2. /\ "connecting" \in SocketServer!Net \ {"none"}
        /\ {"CONNECT", "READ", "WRITE"} \in SUBSET SocketServer!Event
    BY DEF SocketServer!Net, SocketServer!Event
  <2> QED
    BY <2>1, <2>2, MakeKeeps
<1>8. CASE op = "listen"
  <2>1. SocketServer!Call(q, s, op) = SocketServer!Make(q, "listening", {"ACCEPT"})
    BY <1>8 DEF SocketServer!Call
  <2>2. /\ "listening" \in SocketServer!Net \ {"none"}
        /\ {"ACCEPT"} \in SUBSET SocketServer!Event
    BY DEF SocketServer!Net, SocketServer!Event
  <2> QED
    BY <2>1, <2>2, MakeKeeps
<1> QED
  BY <1>1, <1>2, <1>3, <1>4, <1>5, <1>6, <1>7, <1>8

LEMMA TurnKeeps ==
    ASSUME NEW q, Sound(q), NEW s \in SocketServer!Socket, NEW e, NEW events,
           NEW handler \in [events -> SocketOps]
    PROVE  /\ Sound(SocketServer!Turn(q, s, e, events, handler))
           /\ Keeps(q, SocketServer!Turn(q, s, e, events, handler))
<1> DEFINE y == q.sock[s]
           a == [y EXCEPT !.enabled = IF e = "CLOSE" THEN {} ELSE @ \ {e}]
           x == [q EXCEPT !.sock[s] = a]
<1>1. /\ q \in SocketState /\ y \in SocketRecord
      /\ y.enabled \in SUBSET SocketServer!Event
  BY SocketIs
<1>2. CASE e \notin events
  <2>1. SocketServer!Turn(q, s, e, events, handler) = q
    BY <1>2 DEF SocketServer!Turn
  <2> QED
    BY <1>1, <2>1, KeepsItself
<1>3. CASE e \in events
  <2>1. a \in SocketRecord /\ a.fd = y.fd /\ a.net = y.net
    <3>1. (IF e = "CLOSE" THEN {} ELSE y.enabled \ {e}) \in SUBSET SocketServer!Event
      BY <1>1
    <3> QED
      BY <1>1, <3>1 DEF SocketRecord
  <2>2. SocketServer!Turn(q, s, e, events, handler) = SocketServer!Call(x, s, handler[e])
    <3>1. x = [q EXCEPT !.sock[s].enabled = IF e = "CLOSE" THEN {} ELSE @ \ {e}]
      BY <1>1 DEF SocketState
    <3> HIDE DEF x
    <3> QED
      BY <1>3, <3>1 DEF SocketServer!Turn
  <2>3. Sound(x) /\ Keeps(q, x)
    <3> HIDE DEF a
    <3> QED
      BY <2>1, OneChanged
  <2> HIDE DEF x
  <2>4. handler[e] \in SocketOps
    BY <1>3
  <2> DEFINE z == SocketServer!Call(x, s, handler[e])
  <2>5. Sound(z) /\ Keeps(x, z)
    BY <2>3, <2>4, CallKeeps
  <2> HIDE DEF z
  <2>6. Keeps(q, z)
    BY <2>3, <2>5, KeepsOn
  <2> QED
    BY <2>2, <2>5, <2>6 DEF z
<1> QED
  BY <1>2, <1>3

LEMMA EventKeeps ==
    ASSUME NEW q, Sound(q), NEW s \in SocketServer!Socket, NEW events,
           NEW handler \in [events -> SocketOps]
    PROVE  /\ Sound(SocketServer!OnEvent(q, s, events, handler))
           /\ Keeps(q, SocketServer!OnEvent(q, s, events, handler))
<1> DEFINE a == SocketServer!Turn(q, s, "CONNECT", events, handler)
           b == SocketServer!Turn(a, s, "ACCEPT", events, handler)
           c == SocketServer!Turn(b, s, "READ", events, handler)
           d == SocketServer!Turn(c, s, "WRITE", events, handler)
           f == SocketServer!Turn(d, s, "CLOSE", events, handler)
<1>1. SocketServer!OnEvent(q, s, events, handler) = f
  BY DEF SocketServer!OnEvent
<1>2. Sound(a) /\ Keeps(q, a)
  BY TurnKeeps
<1> HIDE DEF a
<1>3. Sound(b) /\ Keeps(a, b)
  BY <1>2, TurnKeeps
<1> HIDE DEF b
<1>4. Sound(c) /\ Keeps(b, c)
  BY <1>3, TurnKeeps
<1> HIDE DEF c
<1>5. Sound(d) /\ Keeps(c, d)
  BY <1>4, TurnKeeps
<1> HIDE DEF d
<1>6. Sound(f) /\ Keeps(d, f)
  BY <1>5, TurnKeeps
<1> HIDE DEF f
<1>7. Keeps(q, b)
  BY <1>2, <1>3, KeepsOn
<1>8. Keeps(q, c)
  BY <1>3, <1>4, <1>7, KeepsOn
<1>9. Keeps(q, d)
  BY <1>4, <1>5, <1>8, KeepsOn
<1>10. Keeps(q, f)
  BY <1>5, <1>6, <1>9, KeepsOn
<1> QED
  BY <1>1, <1>6, <1>10

\* The descriptors that the dispatchers ask for; they depend on nothing else.
Asked(list, socks, io, events) ==
    {IF d = 1 THEN 1 ELSE socks[d].fd :
        d \in {e \in IF io THEN SocketServer!Range(list) ELSE {1} :
                   (IF e = 1 THEN {"READ"} ELSE socks[e].enabled) \cap events # {}}}
Reads == {"READ", "ACCEPT"}
Writes == {"WRITE", "CONNECT"}

\* What is in the sets belongs to dispatchers that are still to come.
ToCome(fds, k) ==
    \A fd \in fds : \E j \in k .. Len(server_dispatchers) :
        fd = IF server_dispatchers[j] = 1 THEN 1 ELSE server_sock[server_dispatchers[j]].fd

ServerInv ==
    /\ Sound(SocketServer!Sockets)
    /\ server_pc \in {"out", "select", "dispatch"} /\ server_process_io \in BOOLEAN
    /\ server_i \in Nat \ {0}
    /\ ~server_removed /\ server_pc = "select" =>
           /\ server_reads = Asked(server_dispatchers, server_sock, server_process_io, Reads)
           /\ server_writes = Asked(server_dispatchers, server_sock, server_process_io, Writes)
    /\ ~server_removed /\ server_pc = "dispatch" =>
           ToCome(server_reads, server_i) /\ ToCome(server_writes, server_i)

LEMMA AskingIs ==
    \A io, events :
        /\ SocketServer!Asking(io, events)
           = Asked(server_dispatchers, server_sock, io, events)
        /\ SocketServer!Asking(io, events)'
           = Asked(server_dispatchers', server_sock', io, events)
BY DEF SocketServer!Asking, Asked, SocketServer!Served, SocketServer!Asks,
       SocketServer!Descriptor, SocketServer!Sockets

LEMMA ServerRange ==
    ASSUME NEW list \in Seq(Nat)
    PROVE  SocketServer!Range(list) = {list[k] : k \in 1 .. Len(list)}
BY LenProperties DEF SocketServer!Range

\* What the network does changes nothing of it.
LEMMA AskedSame ==
    ASSUME NEW list \in Seq(Nat), NEW socks, NEW others, NEW io, NEW events,
           \A k \in 1 .. Len(list) :
               list[k] # 1 => /\ others[list[k]].fd = socks[list[k]].fd
                              /\ others[list[k]].enabled = socks[list[k]].enabled
    PROVE  Asked(list, others, io, events) = Asked(list, socks, io, events)
<1> DEFINE served == IF io THEN SocketServer!Range(list) ELSE {1}
<1>1. \A d \in served : d # 1 => /\ others[d].fd = socks[d].fd
                                 /\ others[d].enabled = socks[d].enabled
  BY ServerRange
<1> HIDE DEF served
<1>2. {e \in served : (IF e = 1 THEN {"READ"} ELSE others[e].enabled) \cap events # {}}
      = {e \in served : (IF e = 1 THEN {"READ"} ELSE socks[e].enabled) \cap events # {}}
  BY <1>1
<1> DEFINE asking == {e \in served : (IF e = 1 THEN {"READ"} ELSE socks[e].enabled)
                                     \cap events # {}}
<1>3. \A d \in asking : (IF d = 1 THEN 1 ELSE others[d].fd) = (IF d = 1 THEN 1 ELSE socks[d].fd)
  BY <1>1
<1>4. /\ Asked(list, others, io, events) = {IF d = 1 THEN 1 ELSE others[d].fd : d \in asking}
      /\ Asked(list, socks, io, events) = {IF d = 1 THEN 1 ELSE socks[d].fd : d \in asking}
  BY <1>2 DEF Asked, served
<1> HIDE DEF asking
<1> QED
  BY <1>3, <1>4

LEMMA SocketsAre ==
    /\ SocketServer!Sockets = [dispatchers |-> server_dispatchers, sock |-> server_sock,
                               removed |-> server_removed]
    /\ SocketServer!Sockets' = [dispatchers |-> server_dispatchers', sock |-> server_sock',
                                removed |-> server_removed']
BY DEF SocketServer!Sockets

LEMMA SoundParts ==
    ASSUME Sound(SocketServer!Sockets)
    PROVE  /\ server_dispatchers \in Seq(Nat)
           /\ server_sock \in [SocketServer!Socket -> SocketRecord]
           /\ server_removed \in BOOLEAN
           /\ \A k \in 1 .. Len(server_dispatchers) :
                  server_dispatchers[k] # 1 =>
                      /\ server_dispatchers[k] \in SocketServer!Socket
                      /\ server_sock[server_dispatchers[k]].fd # 0
           /\ \E k \in 1 .. Len(server_dispatchers) : server_dispatchers[k] = 1
<1>1. SocketServer!Sockets = [dispatchers |-> server_dispatchers, sock |-> server_sock,
                              removed |-> server_removed]
  BY SocketsAre
<1>2. SocketServer!Sockets \in SocketState /\ Listed(SocketServer!Sockets)
  BY DEF Sound
<1> QED
  BY <1>1, <1>2 DEF SocketState, Listed, SocketServer!Open

\* Whether a socket was removed may be forgotten.
LEMMA Forget ==
    ASSUME NEW q, Sound(q), NEW b \in BOOLEAN
    PROVE  Sound([q EXCEPT !.removed = b])
<1> DEFINE x == [q EXCEPT !.removed = b]
<1>1. q \in SocketState /\ Listed(q)
  BY DEF Sound
<1>2. x \in SocketState /\ x.dispatchers = q.dispatchers /\ x.sock = q.sock
  BY <1>1 DEF SocketState
<1> HIDE DEF x
<1>3. SocketServer!Open(x) = SocketServer!Open(q)
  BY <1>2 DEF SocketServer!Open
<1>4. Listed(x)
  BY <1>1, <1>2, <1>3 DEF Listed
<1> QED
  BY <1>2, <1>4 DEF Sound, x

LEMMA SocketsForget ==
    ASSUME Sound(SocketServer!Sockets), UNCHANGED <<server_dispatchers, server_sock>>,
           server_removed' \in BOOLEAN
    PROVE  Sound(SocketServer!Sockets')
<1>1. SocketServer!Sockets' = [SocketServer!Sockets EXCEPT !.removed = server_removed']
  BY SocketsAre
<1> QED
  BY <1>1, Forget

LEMMA ServerInit == SocketServer!Init => ServerInv
<1> SUFFICES ASSUME SocketServer!Init
             PROVE  ServerInv
  OBVIOUS
<1> DEFINE q == SocketServer!Sockets
<1>1. /\ server_dispatchers = <<1>> /\ server_removed = FALSE /\ server_pc = "out"
      /\ server_process_io = TRUE /\ server_i = 1
      /\ server_sock = [s \in SocketServer!Socket |->
                            [fd |-> 0, enabled |-> {}, net |-> "none",
                             data |-> 0, full |-> FALSE]]
  BY DEF SocketServer!Init
<1>2. server_sock \in [SocketServer!Socket -> SocketRecord]
  <2>1. 0 \in 0 .. MaxSockets + 2 /\ "none" \in SocketServer!Net /\ 0 \in 0 .. 1
    BY Bounds DEF SocketServer!Net
  <2> QED
    BY <1>1, <2>1 DEF SocketRecord
<1>3. \A s \in SocketServer!Socket : server_sock[s].fd = 0
  BY <1>1
<1>4. q = [dispatchers |-> server_dispatchers, sock |-> server_sock,
           removed |-> server_removed]
  BY SocketsAre
<1> HIDE DEF q
<1>5. q \in SocketState /\ q.dispatchers = <<1>> /\ q.sock = server_sock
  <2>1. server_dispatchers \in Seq(Nat)
    BY <1>1
  <2>2. server_removed \in BOOLEAN
    BY <1>1, Zenon
  <2> QED
    BY <1>1, <1>2, <1>4, <2>1, <2>2 DEF SocketState
<1>6. SocketServer!Open(q) = {}
  BY <1>3, <1>5 DEF SocketServer!Open
<1>7. Listed(q)
  <2>1. Len(<<1>>) = 1 /\ <<1>>[1] = 1
    OBVIOUS
  <2>2. 1 \in 1 .. 1 /\ \A k \in 1 .. 1 : k = 1
    OBVIOUS
  <2> QED
    BY <1>5, <1>6, <2>1, <2>2 DEF Listed
<1>8. Sound(SocketServer!Sockets)
  BY <1>5, <1>7 DEF Sound, q
<1> QED
  BY <1>1, <1>8 DEF ServerInv

\* An action of the application or of a handler: the sockets become another
\* state that is sound.
LEMMA Becomes ==
    ASSUME NEW x, Sound(x), SocketServer!Become(x)
    PROVE  /\ Sound(SocketServer!Sockets')
           /\ server_dispatchers' = x.dispatchers /\ server_sock' = x.sock
           /\ server_removed' = x.removed
<1>1. /\ server_dispatchers' = x.dispatchers /\ server_sock' = x.sock
      /\ server_removed' = x.removed
  BY DEF SocketServer!Become
<1>2. x = [dispatchers |-> x.dispatchers, sock |-> x.sock, removed |-> x.removed]
  BY DEF Sound, SocketState
<1>3. SocketServer!Sockets' = x
  BY <1>1, <1>2, SocketsAre
<1> QED
  BY <1>1, <1>3

LEMMA ServerUses ==
    ASSUME ServerInv, SocketServer!Use
    PROVE  ServerInv'
<1>1. PICK op \in SocketOps, s \in SocketServer!Socket :
          SocketServer!Become([SocketServer!Call(SocketServer!Sockets, s, op)
                               EXCEPT !.removed = FALSE])
  BY DEF SocketServer!Use
<1> DEFINE x == SocketServer!Call(SocketServer!Sockets, s, op)
<1>2. Sound(x)
  BY CallKeeps DEF ServerInv
<1> HIDE DEF x
<1>3. Sound([x EXCEPT !.removed = FALSE])
  BY <1>2, Forget
<1>4. SocketServer!Become([x EXCEPT !.removed = FALSE])
  BY <1>1 DEF x
<1>5. Sound(SocketServer!Sockets')
  BY <1>3, <1>4, Becomes
<1>6. server_pc' = "out" /\ UNCHANGED <<server_process_io, server_i>>
  BY DEF SocketServer!Use
<1> QED
  BY <1>5, <1>6 DEF ServerInv

LEMMA ServerNetwork ==
    ASSUME ServerInv, NEW s \in SocketServer!Socket, SocketServer!Network(s)
    PROVE  ServerInv'
<1> DEFINE q == SocketServer!Sockets
<1>1. PICK net \in {"connected", "refused", "eof"}, data \in 0 .. 1, full \in BOOLEAN :
          server_sock' = [server_sock EXCEPT ![s].net = IF @ = "listening" THEN @ ELSE net,
                                             ![s].data = data, ![s].full = full]
  BY DEF SocketServer!Network
<1>2. UNCHANGED <<server_dispatchers, server_removed, server_pc, server_process_io, server_i,
                  server_reads, server_writes>>
  BY DEF SocketServer!Network, SocketServer!wait_vars, SocketServer!set_vars
<1>3. /\ server_dispatchers \in Seq(Nat) /\ server_removed \in BOOLEAN
      /\ server_sock \in [SocketServer!Socket -> SocketRecord]
      /\ \A k \in 1 .. Len(server_dispatchers) :
             server_dispatchers[k] # 1 => server_dispatchers[k] \in SocketServer!Socket
  BY SoundParts DEF ServerInv
<1> DEFINE y == [server_sock[s] EXCEPT !.net = IF @ = "listening" THEN @ ELSE net,
                                       !.data = data, !.full = full]
<1>4. server_sock' = [server_sock EXCEPT ![s] = y]
  BY <1>1, <1>3
<1>5. /\ y \in SocketRecord /\ y.fd = server_sock[s].fd
      /\ y.enabled = server_sock[s].enabled /\ y.net # "none"
  <2>1. server_sock[s] \in SocketRecord
    BY <1>3
  <2>2. net \in SocketServer!Net /\ net # "none"
    BY DEF SocketServer!Net
  <2> QED
    BY <2>1, <2>2 DEF SocketRecord
<1> HIDE DEF y
<1>6. /\ server_sock' \in [SocketServer!Socket -> SocketRecord]
      /\ \A o \in SocketServer!Socket : server_sock'[o] = IF o = s THEN y ELSE server_sock[o]
  BY <1>3, <1>4, <1>5
<1>7. \A o \in SocketServer!Socket :
          /\ server_sock'[o].fd = server_sock[o].fd
          /\ server_sock'[o].enabled = server_sock[o].enabled
          /\ server_sock[o].net # "none" => server_sock'[o].net # "none"
  BY <1>5, <1>6
<1>8. Sound(SocketServer!Sockets')
  <2> DEFINE x == SocketServer!Sockets'
  <2>1. /\ q = [dispatchers |-> server_dispatchers, sock |-> server_sock,
                removed |-> server_removed]
        /\ x = [dispatchers |-> server_dispatchers, sock |-> server_sock',
                removed |-> server_removed]
    BY <1>2, SocketsAre
  <2>2. Sound(q)
    BY DEF ServerInv
  <2> HIDE DEF q, x
  <2>3. /\ x \in SocketState /\ x.dispatchers = q.dispatchers /\ x.removed = q.removed
        /\ x.sock = server_sock' /\ q.sock = server_sock
    BY <1>3, <1>6, <2>1 DEF SocketState
  <2>4. Sound(x)
    BY <1>7, <2>2, <2>3, Changed
  <2> QED
    BY <2>4 DEF x
<1>9. \A io, events : Asked(server_dispatchers, server_sock', io, events)
                      = Asked(server_dispatchers, server_sock, io, events)
  BY <1>3, <1>7, AskedSame
<1>10. \A fds, k : ToCome(fds, k) /\ k \in Nat \ {0} => ToCome(fds, k)'
  <2> TAKE fds, k
  <2> HAVE ToCome(fds, k) /\ k \in Nat \ {0}
  <2>1. \A j \in k .. Len(server_dispatchers) : j \in 1 .. Len(server_dispatchers)
    BY <1>3, LenProperties
  <2>2. \A j \in k .. Len(server_dispatchers) :
            (IF server_dispatchers[j] = 1 THEN 1 ELSE server_sock'[server_dispatchers[j]].fd)
            = (IF server_dispatchers[j] = 1 THEN 1 ELSE server_sock[server_dispatchers[j]].fd)
    BY <1>3, <1>7, <2>1
  <2> QED
    BY <1>2, <2>2 DEF ToCome
<1>11. server_i \in Nat \ {0}
  BY DEF ServerInv
<1>12. ToCome(server_reads, server_i) => ToCome(server_reads, server_i)'
  BY <1>2, <1>10, <1>11
<1>13. ToCome(server_writes, server_i) => ToCome(server_writes, server_i)'
  BY <1>2, <1>10, <1>11
<1> QED
  BY <1>2, <1>8, <1>9, <1>12, <1>13 DEF ServerInv

\* The sets are filled from what is asked for.
LEMMA ServerCollects ==
    ASSUME ServerInv, UNCHANGED <<server_dispatchers, server_sock, server_i>>,
           server_removed' \in BOOLEAN, server_process_io' \in BOOLEAN,
           NEW readable, NEW writable,
           SocketServer!Collect(server_process_io', readable, writable),
           ~server_removed' =>
               /\ readable \subseteq Asked(server_dispatchers, server_sock,
                                           server_process_io', Reads)
               /\ writable \subseteq Asked(server_dispatchers, server_sock,
                                           server_process_io', Writes)
    PROVE  ServerInv'
<1>1. Sound(SocketServer!Sockets')
  BY SocketsForget DEF ServerInv
<1>2. /\ server_pc' = "select"
      /\ server_reads' = readable \cup SocketServer!Asking(server_process_io', {"READ", "ACCEPT"})
      /\ server_writes'
         = writable \cup SocketServer!Asking(server_process_io', {"WRITE", "CONNECT"})
  BY DEF SocketServer!Collect
<1>3. /\ SocketServer!Asking(server_process_io', {"READ", "ACCEPT"})
         = Asked(server_dispatchers, server_sock, server_process_io', Reads)
      /\ SocketServer!Asking(server_process_io', {"WRITE", "CONNECT"})
         = Asked(server_dispatchers, server_sock, server_process_io', Writes)
  BY AskingIs DEF Reads, Writes
<1> QED
  BY <1>1, <1>2, <1>3 DEF ServerInv

LEMMA ServerReturns ==
    ASSUME ServerInv, NEW fails \in BOOLEAN, SocketServer!Return(fails)
    PROVE  ServerInv'
<1>1. /\ server_pc' = "out" /\ server_process_io' = TRUE /\ server_i' = 1
      /\ server_removed' = FALSE
      /\ UNCHANGED <<server_dispatchers, server_sock>>
  BY DEF SocketServer!Return
<1>2. Sound(SocketServer!Sockets')
  BY <1>1, SocketsForget DEF ServerInv
<1> QED
  BY <1>1, <1>2 DEF ServerInv

\* What is asked for belongs to the dispatchers.
LEMMA AskedToCome ==
    ASSUME Sound(SocketServer!Sockets), NEW io \in BOOLEAN, NEW events
    PROVE  ToCome(Asked(server_dispatchers, server_sock, io, events), 1)
<1>1. /\ server_dispatchers \in Seq(Nat)
      /\ \E k \in 1 .. Len(server_dispatchers) : server_dispatchers[k] = 1
  BY SoundParts
<1> SUFFICES ASSUME NEW fd \in Asked(server_dispatchers, server_sock, io, events)
             PROVE  \E j \in 1 .. Len(server_dispatchers) :
                        fd = IF server_dispatchers[j] = 1 THEN 1
                             ELSE server_sock[server_dispatchers[j]].fd
  BY DEF ToCome
<1>2. PICK d \in IF io THEN SocketServer!Range(server_dispatchers) ELSE {1} :
          fd = IF d = 1 THEN 1 ELSE server_sock[d].fd
  BY DEF Asked
<1>3. \E j \in 1 .. Len(server_dispatchers) : server_dispatchers[j] = d
  BY <1>1, <1>2, ServerRange
<1> QED
  BY <1>2, <1>3

LEMMA ServerSelects ==
    ASSUME ServerInv, SocketServer!Select
    PROVE  ServerInv'
<1>1. /\ server_pc = "select" /\ server_pc' = "dispatch" /\ server_i' = 1
      /\ server_reads' = SocketServer!ReadyToRead /\ server_writes' = SocketServer!ReadyToWrite
      /\ UNCHANGED <<server_dispatchers, server_sock, server_process_io, server_removed>>
  BY DEF SocketServer!Select
<1>2. server_reads' \subseteq server_reads /\ server_writes' \subseteq server_writes
  BY <1>1 DEF SocketServer!ReadyToRead, SocketServer!ReadyToWrite
<1>3. Sound(SocketServer!Sockets')
  <2>1. server_removed' \in BOOLEAN
    BY <1>1, SoundParts DEF ServerInv
  <2> QED
    BY <1>1, <2>1, SocketsForget DEF ServerInv
<1>4. ASSUME ~server_removed
      PROVE  ToCome(server_reads, 1)' /\ ToCome(server_writes, 1)'
  <2>1. ToCome(server_reads, 1) /\ ToCome(server_writes, 1)
    BY <1>1, <1>4, AskedToCome DEF ServerInv
  <2> QED
    BY <1>1, <1>2, <2>1 DEF ToCome
<1> QED
  BY <1>1, <1>3, <1>4 DEF ServerInv

LEMMA ServerIsInterrupted ==
    ASSUME ServerInv, SocketServer!Interrupted
    PROVE  ServerInv'
<1>1. /\ server_pc = "select"
      /\ SocketServer!Collect(server_process_io, server_reads, server_writes)
      /\ UNCHANGED <<server_dispatchers, server_sock, server_i, server_removed,
                     server_process_io>>
  BY DEF SocketServer!Interrupted, SocketServer!wait_vars
<1>2. server_removed' \in BOOLEAN /\ server_process_io' \in BOOLEAN
  BY <1>1, SoundParts DEF ServerInv
<1>3. SocketServer!Collect(server_process_io', server_reads, server_writes)
  BY <1>1
<1>4. ~server_removed' =>
          /\ server_reads \subseteq Asked(server_dispatchers, server_sock,
                                          server_process_io', Reads)
          /\ server_writes \subseteq Asked(server_dispatchers, server_sock,
                                           server_process_io', Writes)
  BY <1>1 DEF ServerInv
<1> QED
  BY <1>1, <1>2, <1>3, <1>4, ServerCollects

LEMMA ServerBegins ==
    ASSUME ServerInv, SocketServer!Begin
    PROVE  ServerInv'
<1>1. /\ SocketServer!Collect(server_process_io', {}, {})
      /\ server_process_io' \in BOOLEAN /\ server_removed' = FALSE
      /\ UNCHANGED <<server_dispatchers, server_sock, server_i>>
  BY DEF SocketServer!Begin
<1>2. server_removed' \in BOOLEAN
  BY <1>1, Zenon
<1> QED
  BY <1>1, <1>2, ServerCollects

\* What is looked at is not to come again.
LEMMA OneLess ==
    ASSUME NEW fds, NEW k \in Nat \ {0}, ToCome(fds, k), server_dispatchers \in Seq(Nat),
           NEW fd, k <= Len(server_dispatchers),
           fd = IF server_dispatchers[k] = 1 THEN 1 ELSE server_sock[server_dispatchers[k]].fd
    PROVE  ToCome(fds \ {fd}, k + 1)
<1> SUFFICES ASSUME NEW f \in fds \ {fd}
             PROVE  \E j \in k + 1 .. Len(server_dispatchers) :
                        f = IF server_dispatchers[j] = 1 THEN 1
                            ELSE server_sock[server_dispatchers[j]].fd
  BY DEF ToCome
<1>1. PICK j \in k .. Len(server_dispatchers) :
          f = IF server_dispatchers[j] = 1 THEN 1 ELSE server_sock[server_dispatchers[j]].fd
  BY DEF ToCome
<1>2. j # k
  BY <1>1
<1>3. j \in k + 1 .. Len(server_dispatchers)
  BY <1>2, LenProperties
<1> QED
  BY <1>1, <1>3

LEMMA ServerWakes ==
    ASSUME ServerInv, SocketServer!DispatchWakeUp
    PROVE  ServerInv'
<1>1. /\ server_pc = "dispatch" /\ server_i <= Len(server_dispatchers)
      /\ server_dispatchers[server_i] = 1
      /\ SocketServer!ClearBits(1) /\ server_i' = server_i + 1
      /\ UNCHANGED <<server_dispatchers, server_sock, server_pc, server_process_io,
                     server_removed>>
  BY DEF SocketServer!DispatchWakeUp
<1>2. server_reads' = server_reads \ {1} /\ server_writes' = server_writes \ {1}
  BY <1>1 DEF SocketServer!ClearBits
<1>3. server_dispatchers \in Seq(Nat) /\ server_removed' \in BOOLEAN
  BY <1>1, SoundParts DEF ServerInv
<1>4. Sound(SocketServer!Sockets')
  BY <1>1, <1>3, SocketsForget DEF ServerInv
<1>5. server_i \in Nat \ {0} /\ server_i + 1 \in Nat \ {0}
  BY DEF ServerInv
<1>6. ASSUME ~server_removed
      PROVE  /\ ToCome(server_reads \ {1}, server_i + 1)
             /\ ToCome(server_writes \ {1}, server_i + 1)
  <2>1. ToCome(server_reads, server_i) /\ ToCome(server_writes, server_i)
    BY <1>1, <1>6 DEF ServerInv
  <2> QED
    BY <1>1, <1>3, <1>5, <2>1, OneLess
<1>7. ASSUME ~server_removed'
      PROVE  ToCome(server_reads, server_i)' /\ ToCome(server_writes, server_i)'
  <2>1. /\ ToCome(server_reads \ {1}, server_i + 1)
        /\ ToCome(server_writes \ {1}, server_i + 1)
    BY <1>1, <1>6, <1>7
  <2> QED
    BY <1>1, <1>2, <2>1 DEF ToCome
<1> QED
  BY <1>1, <1>4, <1>5, <1>7 DEF ServerInv

LEMMA ServerDispatches ==
    ASSUME ServerInv, SocketServer!Dispatch
    PROVE  ServerInv'
<1> DEFINE q == SocketServer!Sockets
           s == server_dispatchers[server_i]
           fd == server_sock[s].fd
           events == SocketServer!EventsOf(s, fd \in server_reads, fd \in server_writes)
           reaped == [q EXCEPT !.sock[s].net = IF @ = "refused" THEN "fresh" ELSE @]
           start == IF events = {} THEN q ELSE reaped
<1>1. /\ server_pc = "dispatch" /\ server_i <= Len(server_dispatchers) /\ s # 1
      /\ SocketServer!ClearBits(fd) /\ server_i' = server_i + 1
      /\ UNCHANGED <<server_pc, server_process_io>>
  BY DEF SocketServer!Dispatch
<1>2. PICK handler \in [events -> SocketOps] :
          SocketServer!Become(SocketServer!OnEvent(start, s, events, handler))
  BY DEF SocketServer!Dispatch
<1>3. /\ Sound(q) /\ server_i \in Nat \ {0} /\ server_i + 1 \in Nat \ {0}
      /\ server_process_io \in BOOLEAN
  BY DEF ServerInv
<1>4. /\ server_dispatchers \in Seq(Nat)
      /\ server_sock \in [SocketServer!Socket -> SocketRecord]
      /\ \A k \in 1 .. Len(server_dispatchers) :
             server_dispatchers[k] # 1 =>
                 /\ server_dispatchers[k] \in SocketServer!Socket
                 /\ server_sock[server_dispatchers[k]].fd # 0
  BY <1>3, SoundParts
<1>5. /\ Len(server_dispatchers) \in Nat /\ server_i \in 1 .. Len(server_dispatchers)
      /\ s \in SocketServer!Socket
  <2>1. Len(server_dispatchers) \in Nat
    BY <1>4, LenProperties
  <2>2. server_i \in 1 .. Len(server_dispatchers)
    BY <1>1, <1>3, <2>1
  <2> QED
    BY <1>1, <1>4, <2>1, <2>2
<1>6. /\ q = [dispatchers |-> server_dispatchers, sock |-> server_sock,
              removed |-> server_removed]
      /\ SocketServer!Open(q) = {o \in SocketServer!Socket : server_sock[o].fd # 0}
  BY SocketsAre DEF SocketServer!Open
<1> HIDE DEF q, s, fd, events
<1>7. Sound(reaped) /\ Keeps(q, reaped)
  <2> DEFINE y == [q.sock[s] EXCEPT !.net = IF @ = "refused" THEN "fresh" ELSE @]
  <2>1. /\ q \in SocketState /\ q.sock[s] \in SocketRecord
        /\ q.sock[s].net \in SocketServer!Net
    BY <1>3, <1>5, SocketIs
  <2>2. /\ y \in SocketRecord /\ y.fd = q.sock[s].fd
        /\ q.sock[s].net # "none" => y.net # "none"
    <3>1. "fresh" \in SocketServer!Net
      BY DEF SocketServer!Net
    <3> QED
      BY <2>1, <3>1 DEF SocketRecord
  <2>3. reaped = [q EXCEPT !.sock[s] = y]
    BY <2>1 DEF SocketState
  <2> HIDE DEF y
  <2> QED
    BY <1>3, <1>5, <2>2, <2>3, OneChanged
<1> HIDE DEF reaped
<1>8. Sound(start) /\ Keeps(q, start)
  BY <1>3, <1>7, KeepsItself DEF Sound
<1> HIDE DEF start
<1> DEFINE x == SocketServer!OnEvent(start, s, events, handler)
<1>9. Sound(x) /\ Keeps(start, x)
  BY <1>5, <1>8, EventKeeps
<1>10. SocketServer!Become(x)
  BY <1>2
<1> HIDE DEF x
<1>11. Keeps(q, x)
  BY <1>3, <1>8, <1>9, KeepsOn
<1>12. /\ Sound(SocketServer!Sockets')
       /\ server_dispatchers' = x.dispatchers /\ server_sock' = x.sock
       /\ server_removed' = x.removed
  BY <1>9, <1>10, Becomes
<1>13. server_reads' = server_reads \ {fd} /\ server_writes' = server_writes \ {fd}
  BY <1>1 DEF SocketServer!ClearBits
<1>14. fd = IF server_dispatchers[server_i] = 1 THEN 1
            ELSE server_sock[server_dispatchers[server_i]].fd
  BY <1>1 DEF fd, s
<1>15. ASSUME ~server_removed'
       PROVE  ToCome(server_reads, server_i)' /\ ToCome(server_writes, server_i)'
  <2>1. /\ ~server_removed
        /\ Len(server_dispatchers) <= Len(server_dispatchers')
        /\ \A k \in 1 .. Len(server_dispatchers) :
               server_dispatchers'[k] = server_dispatchers[k]
        /\ \A o \in SocketServer!Open(q) : server_sock'[o].fd = server_sock[o].fd
    BY <1>6, <1>11, <1>12, <1>15 DEF Keeps
  <2>2. /\ ToCome(server_reads \ {fd}, server_i + 1)
        /\ ToCome(server_writes \ {fd}, server_i + 1)
    <3>1. ToCome(server_reads, server_i) /\ ToCome(server_writes, server_i)
      BY <1>1, <2>1 DEF ServerInv
    <3> QED
      BY <1>1, <1>3, <1>4, <1>14, <3>1, OneLess
  <2>3. ASSUME NEW k \in server_i + 1 .. Len(server_dispatchers)
        PROVE  /\ k \in server_i + 1 .. Len(server_dispatchers')
               /\ (IF server_dispatchers'[k] = 1 THEN 1
                   ELSE server_sock'[server_dispatchers'[k]].fd)
                  = (IF server_dispatchers[k] = 1 THEN 1
                     ELSE server_sock[server_dispatchers[k]].fd)
    <3>1. k \in 1 .. Len(server_dispatchers)
      BY <1>3, <1>5
    <3>2. Len(server_dispatchers') \in Nat
      BY <1>9, <1>12, LenProperties DEF Sound, SocketState
    <3>3. k \in server_i + 1 .. Len(server_dispatchers')
      BY <1>3, <1>5, <2>1, <3>2
    <3>4. server_dispatchers[k] # 1 => server_dispatchers[k] \in SocketServer!Open(q)
      BY <1>4, <1>6, <3>1
    <3> QED
      BY <2>1, <3>1, <3>3, <3>4
  <2>4. ASSUME NEW fds, ToCome(fds, server_i + 1)
        PROVE  \A f \in fds : \E j \in server_i + 1 .. Len(server_dispatchers') :
                   f = IF server_dispatchers'[j] = 1 THEN 1
                       ELSE server_sock'[server_dispatchers'[j]].fd
    <3> TAKE f \in fds
    <3>1. PICK j \in server_i + 1 .. Len(server_dispatchers) :
              f = IF server_dispatchers[j] = 1 THEN 1
                  ELSE server_sock[server_dispatchers[j]].fd
      BY <2>4 DEF ToCome
    <3> QED
      BY <2>3, <3>1
  <2>5. ToCome(server_reads, server_i)'
    BY <1>1, <1>13, <2>2, <2>4 DEF ToCome
  <2>6. ToCome(server_writes, server_i)'
    BY <1>1, <1>13, <2>2, <2>4 DEF ToCome
  <2> QED
    BY <2>5, <2>6
<1> QED
  BY <1>1, <1>3, <1>12, <1>15 DEF ServerInv

LEMMA ServerEndsLoop ==
    ASSUME ServerInv, SocketServer!EndLoop
    PROVE  ServerInv'
<1>1. server_pc = "dispatch" /\ server_i > Len(server_dispatchers)
  BY DEF SocketServer!EndLoop
<1>2. CASE server_fWait
  <2>1. /\ SocketServer!Collect(server_process_io, server_reads, server_writes)
        /\ UNCHANGED <<server_dispatchers, server_sock, server_i, server_removed,
                       server_process_io>>
    BY <1>2 DEF SocketServer!EndLoop, SocketServer!wait_vars
  <2>2. /\ server_removed' \in BOOLEAN /\ server_process_io' \in BOOLEAN
        /\ server_dispatchers \in Seq(Nat)
    BY <2>1, SoundParts DEF ServerInv
  <2>3. SocketServer!Collect(server_process_io', server_reads, server_writes)
    BY <2>1
  <2>4. ~server_removed' => server_reads = {} /\ server_writes = {}
    <3>1. server_i .. Len(server_dispatchers) = {}
      BY <1>1, <2>2, LenProperties DEF ServerInv
    <3> QED
      BY <1>1, <2>1, <3>1 DEF ServerInv, ToCome
  <2> QED
    BY <2>1, <2>2, <2>3, <2>4, ServerCollects
<1>3. CASE ~server_fWait
  <2>1. SocketServer!Return(FALSE)
    BY <1>3 DEF SocketServer!EndLoop
  <2> QED
    BY <2>1, ServerReturns
<1> QED
  BY <1>2, <1>3

LEMMA ServerNext == ServerInv /\ [SocketServer!Next]_(SocketServer!vars) => ServerInv'
<1> SUFFICES ASSUME ServerInv, [SocketServer!Next]_(SocketServer!vars)
             PROVE  ServerInv'
  OBVIOUS
<1>1. CASE SocketServer!Use
  BY <1>1, ServerUses
<1>2. CASE SocketServer!WakeUp
  <2>1. UNCHANGED <<server_dispatchers, server_sock, server_removed, server_pc,
                    server_process_io, server_i, server_reads, server_writes>>
    BY <1>2 DEF SocketServer!WakeUp, SocketServer!wait_vars, SocketServer!set_vars
  <2>2. SocketServer!Sockets' = SocketServer!Sockets
    BY <2>1, SocketsAre
  <2> QED
    BY <2>1, <2>2 DEF ServerInv, ToCome
<1>3. ASSUME NEW s \in SocketServer!Socket, SocketServer!Network(s)
      PROVE  ServerInv'
  BY <1>3, ServerNetwork
<1>4. CASE SocketServer!Begin
  BY <1>4, ServerBegins
<1>5. CASE SocketServer!Select
  BY <1>5, ServerSelects
<1>6. CASE SocketServer!Error
  BY <1>6, ServerReturns DEF SocketServer!Error
<1>7. CASE SocketServer!Timeout
  BY <1>7, ServerReturns DEF SocketServer!Timeout
<1>8. CASE SocketServer!Interrupted
  BY <1>8, ServerIsInterrupted
<1>9. CASE SocketServer!DispatchWakeUp
  BY <1>9, ServerWakes
<1>10. CASE SocketServer!Dispatch
  BY <1>10, ServerDispatches
<1>11. CASE SocketServer!EndLoop
  BY <1>11, ServerEndsLoop
<1>12. CASE UNCHANGED SocketServer!vars
  <2>1. UNCHANGED <<server_dispatchers, server_sock, server_removed, server_pc,
                    server_process_io, server_i, server_reads, server_writes>>
    BY <1>12 DEF SocketServer!vars, SocketServer!wait_vars, SocketServer!set_vars
  <2>2. SocketServer!Sockets' = SocketServer!Sockets
    BY <2>1, SocketsAre
  <2> QED
    BY <2>1, <2>2 DEF ServerInv, ToCome
<1> QED
  BY <1>1, <1>2, <1>3, <1>4, <1>5, <1>6, <1>7, <1>8, <1>9, <1>10, <1>11, <1>12
     DEF SocketServer!Next

LEMMA ServerSuffices ==
    ServerInv => SocketServer!TypeOK /\ SocketServer!SelectsWhatIsAsked
<1> SUFFICES ASSUME ServerInv
             PROVE  SocketServer!TypeOK /\ SocketServer!SelectsWhatIsAsked
  OBVIOUS
<1> DEFINE q == SocketServer!Sockets
           O == {s \in SocketServer!Socket : server_sock[s].fd # 0}
<1>1. /\ server_dispatchers \in Seq(Nat)
      /\ server_sock \in [SocketServer!Socket -> SocketRecord]
      /\ \A k \in 1 .. Len(server_dispatchers) :
             server_dispatchers[k] # 1 =>
                 /\ server_dispatchers[k] \in SocketServer!Socket
                 /\ server_sock[server_dispatchers[k]].fd # 0
  BY SoundParts DEF ServerInv
<1>2. SocketServer!Range(server_dispatchers) = {1} \cup O
  <2>1. SocketServer!Range(server_dispatchers)
        = {server_dispatchers[k] : k \in 1 .. Len(server_dispatchers)}
    BY <1>1, ServerRange
  <2>2. /\ \A k \in 1 .. Len(server_dispatchers) : server_dispatchers[k] \in {1} \cup O
        /\ \A d \in {1} \cup O :
               \E k \in 1 .. Len(server_dispatchers) : server_dispatchers[k] = d
    <3>1. Listed(q)
      BY DEF ServerInv, Sound
    <3>2. /\ q = [dispatchers |-> server_dispatchers, sock |-> server_sock,
                  removed |-> server_removed]
          /\ SocketServer!Open(q) = O
      BY SocketsAre DEF SocketServer!Open
    <3> HIDE DEF O
    <3> QED
      BY <3>1, <3>2 DEF Listed
  <2> HIDE DEF O
  <2> QED
    BY <2>1, <2>2
<1>3. SocketServer!TypeOK
  <2>1. \A s \in SocketServer!Socket :
            /\ server_sock[s].net \in SocketServer!Net
            /\ server_sock[s].enabled \subseteq SocketServer!Event
            /\ server_sock[s].data \in 0 .. 1 /\ server_sock[s].fd \in 0 .. MaxSockets + 2
    BY <1>1 DEF SocketRecord
  <2>2. server_pc \in {"out", "select", "dispatch"}
    BY DEF ServerInv
  <2> QED
    BY <1>2, <2>1, <2>2 DEF SocketServer!TypeOK
<1>4. ASSUME ~server_removed, server_pc = "select"
      PROVE  /\ server_reads = SocketServer!Asking(server_process_io, {"READ", "ACCEPT"})
             /\ server_writes = SocketServer!Asking(server_process_io, {"WRITE", "CONNECT"})
             /\ SocketServer!Bad = {}
  <2>1. /\ server_reads = SocketServer!Asking(server_process_io, {"READ", "ACCEPT"})
        /\ server_writes = SocketServer!Asking(server_process_io, {"WRITE", "CONNECT"})
    BY <1>4, AskingIs DEF ServerInv, Reads, Writes
  <2>2. ToCome(server_reads, 1) /\ ToCome(server_writes, 1)
    BY <1>4, AskedToCome DEF ServerInv
  <2>3. \A fd \in server_reads \cup server_writes :
            fd # 1 => \E s \in SocketServer!Socket : server_sock[s].fd = fd
    BY <1>1, <2>2 DEF ToCome
  <2>4. SocketServer!Bad = {}
    BY <2>3 DEF SocketServer!Bad, SocketServer!Kernel
  <2> QED
    BY <2>1, <2>4
<1>5. SocketServer!SelectsWhatIsAsked
  BY <1>4 DEF SocketServer!SelectsWhatIsAsked
<1> QED
  BY <1>3, <1>5

-----------------------------------------------------------------------------
(***************************************************************************)
(* The SignalThread, started any number of times.  Its count is what the   *)
(* threads hold, and a token until it is let go; the worker's message is   *)
(* on its way from the end of the work until the main thread takes it.     *)
(***************************************************************************)
Ends == signal_main_at = "delete" \/ signal_deleted
LetGo ==
    \/ Ends
    \/ signal_main_at = "signal" /\ signal_owner # "holds" /\ signal_state = "kComplete"
AtWork == signal_worker_at \in {"work", "serve", "done"}

SignalTypes ==
    /\ signal_state \in {"kInit", "kRunning", "kReleasing", "kComplete", "kStopping"}
    /\ signal_owner \in {"holds", "released", "destroyed"}
    /\ signal_main_at \in {"idle", "join", "signal", "wait", "delete", "gone"}
    /\ signal_worker_at \in {"none", "work", "serve", "done", "posted", "ended"}
    /\ signal_lock \in {"free", "main", "worker"}
    /\ signal_main \in BOOLEAN /\ signal_do_delete \in BOOLEAN /\ signal_started \in BOOLEAN
    /\ signal_stopping \in BOOLEAN /\ signal_deleted \in BOOLEAN
    /\ signal_queue \in 0 .. 1

SignalCount ==
    signal_refcount = (IF LetGo THEN 0 ELSE 1)
                    + (IF signal_main_at \in {"join", "signal", "wait"} THEN 1 ELSE 0)
                    + (IF signal_worker_at = "serve" THEN 1 ELSE 0)

\* Who holds cs_.
SignalLock ==
    /\ signal_lock = "main" <=> signal_main_at \in {"join", "signal"}
    /\ signal_lock = "worker" <=> signal_worker_at = "serve"

\* The message, and what the main thread does while it comes.
SignalMessage ==
    /\ signal_queue = 1 => /\ signal_main /\ ~signal_deleted
                           /\ signal_worker_at \in {"posted", "ended"}
                           /\ signal_main_at \in {"idle", "wait", "delete"}
                           /\ signal_started \/ signal_main_at = "delete"
    /\ signal_started /\ ~AtWork /\ signal_main /\ signal_queue = 0 =>
           signal_main_at \in {"join", "wait", "delete"}
    /\ signal_main_at = "wait" /\ ~AtWork => signal_queue = 1

SignalWorker ==
    /\ signal_started => signal_worker_at # "none"
    /\ ~signal_started => signal_worker_at \in {"none", "ended"}
    /\ signal_worker_at = "none" <=> signal_state = "kInit"
    /\ signal_main_at = "join" => signal_started /\ ~AtWork
    /\ signal_main_at = "wait" => signal_started

SignalState ==
    /\ signal_state = "kRunning" => signal_owner = "holds" /\ signal_started
    /\ signal_state = "kReleasing" =>
           signal_owner = "released" /\ (signal_started \/ signal_do_delete)
    /\ signal_state = "kStopping" => signal_owner = "destroyed" /\ (Ends \/ signal_started)
    /\ signal_state \in {"kInit", "kComplete"} =>
           /\ signal_main_at = "join" \/ ~signal_started
           /\ signal_owner = "holds" \/ LetGo
    /\ signal_do_delete => \/ /\ signal_state = "kReleasing"
                              /\ Ends \/ signal_main_at \in {"join", "signal"}
                           \/ signal_state = "kStopping" /\ Ends

\* What the main thread does tells what the state is.
SignalMain ==
    /\ signal_main <=> signal_main_at # "gone"
    /\ signal_main_at = "join" =>
           /\ signal_state = IF signal_do_delete THEN "kReleasing" ELSE "kComplete"
           /\ ~signal_do_delete => signal_owner = "holds"
    /\ signal_main_at = "signal" =>
           /\ signal_state \notin {"kInit", "kStopping"}
           /\ signal_do_delete => signal_state = "kReleasing" /\ ~signal_started
    /\ signal_main_at = "wait" => signal_state = "kStopping"
    /\ signal_deleted => signal_main_at = "idle"
    /\ Ends => /\ ~AtWork /\ signal_owner # "holds" /\ signal_state # "kRunning"
               /\ signal_state = "kReleasing" => signal_do_delete

SignalDue ==
    /\ signal_due = IF \/ signal_main_at = "join" \/ signal_state = "kRunning"
                       \/ signal_state = "kReleasing" /\ ~signal_do_delete
                    THEN 1 ELSE 0
    /\ signal_starts \in 0 .. MaxStarts
    /\ signal_state # "kInit" => signal_starts > 0

SignalInv ==
    /\ SignalTypes /\ SignalCount /\ SignalLock /\ SignalMessage
    /\ SignalWorker /\ SignalState /\ SignalMain /\ SignalDue

LEMMA SignalInit == SignalThread!Init => SignalInv
<1> SUFFICES ASSUME SignalThread!Init
             PROVE  SignalInv
  OBVIOUS
<1>1. /\ signal_main \in BOOLEAN /\ signal_do_delete \in BOOLEAN
      /\ signal_started \in BOOLEAN /\ signal_stopping \in BOOLEAN
      /\ signal_deleted \in BOOLEAN
      /\ signal_main /\ ~signal_do_delete /\ ~signal_started /\ ~signal_deleted
  BY Zenon DEF SignalThread!Init
<1>2. /\ signal_state = "kInit" /\ signal_refcount = 1 /\ signal_queue = 0
      /\ signal_lock = "free" /\ signal_main_at = "idle" /\ signal_worker_at = "none"
      /\ signal_owner = "holds" /\ signal_due = 0 /\ signal_starts = 0
  BY DEF SignalThread!Init
<1>3. SignalTypes
  BY <1>1, <1>2 DEF SignalTypes
<1>4. SignalCount /\ SignalLock /\ SignalMessage /\ SignalWorker
  BY <1>1, <1>2
     DEF SignalCount, SignalLock, SignalMessage, SignalWorker, Ends, LetGo, AtWork
<1>5. SignalState /\ SignalMain /\ SignalDue
  BY <1>1, <1>2, BoundAssumption
     DEF SignalState, SignalMain, SignalDue, Ends, LetGo, AtWork, BoundAssumption
<1> QED
  BY <1>3, <1>4, <1>5 DEF SignalInv

LEMMA SignalNext == SignalInv /\ [SignalThread!Next]_(SignalThread!vars) => SignalInv'
<1> SUFFICES ASSUME SignalInv, [SignalThread!Next]_(SignalThread!vars)
             PROVE  SignalInv'
  OBVIOUS
<1> MaxStarts \in Nat
  BY BoundAssumption DEF BoundAssumption
<1> USE DEF SignalInv, SignalTypes, SignalCount, SignalLock, SignalMessage,
            SignalWorker, SignalState, SignalMain, SignalDue, Ends, LetGo, AtWork,
            SignalThread!OwnerRuns, SignalThread!EndMain, SignalThread!worker_vars
<1>1. CASE SignalThread!Start
  <2>1. SignalTypes'
    BY <1>1 DEF SignalThread!Start
  <2>2. SignalCount'
    BY <1>1 DEF SignalThread!Start
  <2>3. SignalLock'
    BY <1>1 DEF SignalThread!Start
  <2>4. SignalMessage'
    BY <1>1 DEF SignalThread!Start
  <2>5. SignalWorker'
    BY <1>1 DEF SignalThread!Start
  <2>6. SignalState'
    BY <1>1 DEF SignalThread!Start
  <2>7. SignalMain'
    BY <1>1 DEF SignalThread!Start
  <2>8. SignalDue'
    BY <1>1 DEF SignalThread!Start
  <2> QED
    BY <2>1, <2>2, <2>3, <2>4, <2>5, <2>6, <2>7, <2>8
<1>2. ASSUME NEW how \in {"released", "destroyed"}, SignalThread!GiveUpIdle(how)
      PROVE  SignalInv'
  BY <1>2 DEF SignalThread!GiveUpIdle
<1>3. CASE SignalThread!ReleaseRunning
  BY <1>3 DEF SignalThread!ReleaseRunning
<1>4. ASSUME NEW wait \in BOOLEAN, SignalThread!Destroy(wait)
      PROVE  SignalInv'
  BY <1>4 DEF SignalThread!Destroy, SignalThread!LockInWait
<1>5. CASE SignalThread!DestroyWaited
  <2>1. SignalTypes'
    BY <1>5 DEF SignalThread!DestroyWaited, SignalThread!LockInWait
  <2>2. SignalCount'
    BY <1>5 DEF SignalThread!DestroyWaited, SignalThread!LockInWait
  <2>3. SignalLock'
    BY <1>5 DEF SignalThread!DestroyWaited, SignalThread!LockInWait
  <2>4. SignalMessage'
    BY <1>5 DEF SignalThread!DestroyWaited, SignalThread!LockInWait
  <2>5. SignalWorker'
    BY <1>5 DEF SignalThread!DestroyWaited, SignalThread!LockInWait
  <2>6. SignalState'
    BY <1>5 DEF SignalThread!DestroyWaited, SignalThread!LockInWait
  <2>7. SignalMain'
    BY <1>5 DEF SignalThread!DestroyWaited, SignalThread!LockInWait
  <2>8. SignalDue'
    BY <1>5 DEF SignalThread!DestroyWaited, SignalThread!LockInWait
  <2> QED
    BY <2>1, <2>2, <2>3, <2>4, <2>5, <2>6, <2>7, <2>8
<1>6. CASE SignalThread!Delete
  <2>1. SignalTypes'
    <3>1. /\ signal_main' \in BOOLEAN /\ signal_do_delete' \in BOOLEAN
          /\ signal_started' \in BOOLEAN /\ signal_stopping' \in BOOLEAN
          /\ signal_deleted' \in BOOLEAN
      BY <1>6, Zenon DEF SignalThread!Delete
    <3>2. /\ signal_state' = signal_state /\ signal_owner' = signal_owner
          /\ signal_main_at' \in {"idle", "gone"} /\ signal_worker_at' = signal_worker_at
          /\ signal_lock' = signal_lock /\ signal_queue' \in 0 .. 1
      BY <1>6 DEF SignalThread!Delete
    <3> QED
      BY <3>1, <3>2
  <2>2. SignalCount'
    BY <1>6 DEF SignalThread!Delete
  <2>3. SignalLock'
    BY <1>6 DEF SignalThread!Delete
  <2>4. SignalMessage'
    BY <1>6 DEF SignalThread!Delete
  <2>5. SignalWorker'
    BY <1>6 DEF SignalThread!Delete
  <2>6. SignalState'
    BY <1>6 DEF SignalThread!Delete
  <2>7. SignalMain'
    BY <1>6 DEF SignalThread!Delete
  <2>8. SignalDue'
    BY <1>6 DEF SignalThread!Delete
  <2> QED
    BY <2>1, <2>2, <2>3, <2>4, <2>5, <2>6, <2>7, <2>8
<1>7. CASE SignalThread!OnMainThreadDestroyed
  <2>1. SignalTypes'
    <3>1. /\ signal_main' \in BOOLEAN /\ signal_do_delete' \in BOOLEAN
          /\ signal_started' \in BOOLEAN /\ signal_stopping' \in BOOLEAN
          /\ signal_deleted' \in BOOLEAN
      BY <1>7, Zenon DEF SignalThread!OnMainThreadDestroyed
    <3>2. /\ signal_state' = signal_state /\ signal_owner' = signal_owner
          /\ signal_main_at' \in {"idle", "gone"} /\ signal_worker_at' = signal_worker_at
          /\ signal_lock' = signal_lock /\ signal_queue' \in 0 .. 1
      BY <1>7 DEF SignalThread!OnMainThreadDestroyed
    <3> QED
      BY <3>1, <3>2
  <2>2. SignalCount'
    BY <1>7 DEF SignalThread!OnMainThreadDestroyed
  <2>3. SignalLock'
    BY <1>7 DEF SignalThread!OnMainThreadDestroyed
  <2>4. SignalMessage'
    BY <1>7 DEF SignalThread!OnMainThreadDestroyed
  <2>5. SignalWorker'
    BY <1>7 DEF SignalThread!OnMainThreadDestroyed
  <2>6. SignalState'
    BY <1>7 DEF SignalThread!OnMainThreadDestroyed
  <2>7. SignalMain'
    BY <1>7 DEF SignalThread!OnMainThreadDestroyed
  <2>8. SignalDue'
    BY <1>7 DEF SignalThread!OnMainThreadDestroyed
  <2> QED
    BY <2>1, <2>2, <2>3, <2>4, <2>5, <2>6, <2>7, <2>8
<1>8. CASE SignalThread!OnMessage
  BY <1>8 DEF SignalThread!OnMessage, SignalThread!IsSignalled
<1>9. CASE SignalThread!SignalWorkDone
  <2>1. SignalTypes'
    BY <1>9 DEF SignalThread!SignalWorkDone, SignalThread!StopWorker
  <2>2. SignalCount'
    BY <1>9 DEF SignalThread!SignalWorkDone, SignalThread!StopWorker
  <2>3. SignalLock'
    BY <1>9 DEF SignalThread!SignalWorkDone, SignalThread!StopWorker
  <2>4. SignalMessage'
    BY <1>9 DEF SignalThread!SignalWorkDone, SignalThread!StopWorker
  <2>5. SignalWorker'
    BY <1>9 DEF SignalThread!SignalWorkDone, SignalThread!StopWorker
  <2>6. SignalState'
    BY <1>9 DEF SignalThread!SignalWorkDone, SignalThread!StopWorker
  <2>7. SignalMain'
    BY <1>9 DEF SignalThread!SignalWorkDone, SignalThread!StopWorker
  <2>8. SignalDue'
    BY <1>9 DEF SignalThread!SignalWorkDone, SignalThread!StopWorker
  <2> QED
    BY <2>1, <2>2, <2>3, <2>4, <2>5, <2>6, <2>7, <2>8
<1>10. CASE SignalThread!SignalReturns
  BY <1>10 DEF SignalThread!SignalReturns
<1>11. CASE SignalThread!ContinueWork
  BY <1>11 DEF SignalThread!ContinueWork
<1>12. CASE SignalThread!ContinueReturns
  BY <1>12 DEF SignalThread!ContinueReturns
<1>13. CASE SignalThread!DoWorkEnds
  BY <1>13 DEF SignalThread!DoWorkEnds
<1>14. CASE SignalThread!PostDone
  BY <1>14 DEF SignalThread!PostDone
<1>15. CASE SignalThread!WorkerEnds
  BY <1>15 DEF SignalThread!WorkerEnds
<1>16. CASE UNCHANGED SignalThread!vars
  BY <1>16 DEF SignalThread!vars
<1> QED
  BY <1>1, <1>2, <1>3, <1>4, <1>5, <1>6, <1>7, <1>8, <1>9, <1>10, <1>11, <1>12, <1>13, <1>14, <1>15, <1>16
     DEF SignalThread!Next, SignalThread!WorkerStep, SignalThread!MainStep

LEMMA SignalSuffices ==
    SignalInv => SignalThread!TypeOK /\ SignalThread!DeletedLast /\ SignalThread!SignalledOnce
<1> SUFFICES ASSUME SignalInv
             PROVE  SignalThread!TypeOK /\ SignalThread!DeletedLast /\ SignalThread!SignalledOnce
  OBVIOUS
<1> MaxStarts \in Nat
  BY BoundAssumption DEF BoundAssumption
<1> USE DEF SignalInv, SignalTypes, SignalCount, SignalLock, SignalMessage,
            SignalWorker, SignalState, SignalMain, SignalDue, Ends, LetGo, AtWork
<1>1. SignalThread!TypeOK
  BY DEF SignalThread!TypeOK
<1>2. SignalThread!DeletedLast
  BY DEF SignalThread!DeletedLast
<1>3. SignalThread!SignalledOnce
  BY DEF SignalThread!SignalledOnce
<1> QED
  BY <1>1, <1>2, <1>3

-----------------------------------------------------------------------------
(***************************************************************************)
(* Handlers and queues that come and go, for any threads and handlers.     *)
(***************************************************************************)
QueueFate == {"queued", "refused", "sent", "taken", "kept", "deleted"}
QueuePlace == {"none", "loop", "took", "handler", "add", "clear", "send", "ended"}
QueueDoing ==
    [message : QueueManager!Message, handler : QueueHandler \cup {"nobody"},
     queues : Seq(QueueThread), back : {"loop", "handler", "send"},
     resume : {"loop", "handler"}]

QueueLists ==
    /\ queues_msgq \in [QueueThread -> Seq(QueueManager!Message)]
    /\ queues_dmsgq \in [QueueThread -> Seq(QueueManager!Message)]
    /\ queues_sendlist \in [QueueThread -> Seq(QueueManager!Message)]
    /\ queues_msgPeek \in [QueueThread -> QueueManager!Message]
    /\ queues_data \in Seq(QueueFate)

QueueTypes ==
    /\ queues_fStop \subseteq QueueThread /\ queues_active \subseteq QueueThread
    /\ queues_message_queues \in Seq(QueueThread)
    /\ queues_manager \in QueueThread \cup {0}
    /\ queues_crit \in [QueueThread -> QueueThread \cup {0}]
    /\ queues_handlers \subseteq QueueHandler
    /\ queues_started \subseteq queues_exists /\ queues_exists \subseteq QueueThread
    /\ queues_at \in [QueueThread -> QueuePlace]
    /\ queues_doing \in [QueueThread -> QueueDoing]

\* What is sent and what was peeked at is for a handler.
QueueAddressed ==
    \A q \in QueueThread :
        /\ \A m \in QueueManager!ToSet(queues_sendlist[q]) : m.handler # "nobody"
        /\ queues_msgPeek[q].handler = "nobody" => queues_msgPeek[q] = QueueManager!NoMessage

\* A thread that is not started does nothing.
QueueStarted ==
    /\ 1 \in queues_started /\ 1 \notin queues_fStop
    /\ \A t \in QueueThread :
           /\ t \notin queues_started => queues_at[t] \in {"none", "ended"}
           /\ queues_at[t] = "none" => t \notin queues_started

\* A lock that is held is that of a queue to be added, by who adds it.
QueueLocked ==
    /\ \A q \in QueueThread : queues_crit[q] # 0 =>
           /\ queues_at[queues_crit[q]] = "add" /\ queues_doing[queues_crit[q]].queues = <<q>>
           /\ q \notin queues_active /\ q \in queues_exists
    /\ \A t \in QueueThread : queues_at[t] = "add" =>
           \E q \in QueueThread : queues_doing[t].queues = <<q>> /\ queues_crit[q] = t

\* What is held is for handlers that are there, in the queues of their threads.
QueueHeld ==
    /\ queues_stale = FALSE
    /\ \A q \in QueueThread : \A h \in QueueManager!Held(q) :
           h \in queues_handlers /\ HandlerHome[h] = q
    /\ \A t \in QueueThread : queues_at[t] = "took" =>
           LET h == queues_doing[t].message.handler
           IN  h \in queues_handlers /\ HandlerHome[h] = t

\* What the manager knows.
QueueKnown ==
    /\ QueueManager!ToSet(queues_message_queues) = queues_active \cap queues_exists
    /\ \A j, k \in 1 .. Len(queues_message_queues) :
           queues_message_queues[j] = queues_message_queues[k] => j = k
    /\ \A q \in queues_exists :
           QueueManager!Held(q) # {} /\ queues_crit[q] = 0 => q \in queues_active
    /\ \A q \in QueueThread \ queues_exists : QueueManager!Held(q) = {}

\* A handler that is being destroyed: its queue has nothing for it, or is one
\* that is still to be cleared.
QueueClears ==
    \A t \in QueueThread :
        /\ queues_doing[t].handler # "nobody" <=> queues_at[t] = "clear"
        /\ queues_at[t] = "clear" =>
               LET h == queues_doing[t].handler IN
               /\ h \in queues_handlers /\ queues_manager = t
               /\ \/ HandlerHome[h] = t
                  \/ t = 1 /\ HandlerHome[h] \notin queues_started
               /\ queues_doing[t].back \in {"loop", "handler"}
               /\ h \in QueueManager!Held(HandlerHome[h]) =>
                      HandlerHome[h] \in QueueManager!ToSet(queues_doing[t].queues)

QueueInv ==
    /\ QueueLists /\ QueueTypes /\ QueueAddressed /\ QueueStarted
    /\ QueueLocked /\ QueueHeld /\ QueueKnown /\ QueueClears

\* Lists.
LEMMA NoneListed == QueueManager!ToSet(<<>>) = {}
BY DEF QueueManager!ToSet

LEMMA ListAppended ==
    ASSUME NEW S, NEW s \in Seq(S), NEW x \in S
    PROVE  /\ Append(s, x) \in Seq(S)
           /\ QueueManager!ToSet(Append(s, x)) = QueueManager!ToSet(s) \cup {x}
<1> DEFINE a == Append(s, x)
<1>1. /\ a \in Seq(S) /\ Len(a) = Len(s) + 1 /\ Len(s) \in Nat
      /\ \A k \in 1 .. Len(s) : a[k] = s[k]
      /\ a[Len(s) + 1] = x
      /\ DOMAIN s = 1 .. Len(s) /\ DOMAIN a = 1 .. Len(s) + 1
  OBVIOUS
<1> HIDE DEF a
<1> QED
  BY <1>1 DEF QueueManager!ToSet, a

LEMMA ListTaken ==
    ASSUME NEW S, NEW s \in Seq(S), s # <<>>
    PROVE  /\ Head(s) \in S /\ Head(s) \in QueueManager!ToSet(s)
           /\ Tail(s) \in Seq(S)
           /\ QueueManager!ToSet(Tail(s)) \subseteq QueueManager!ToSet(s)
           /\ QueueManager!ToSet(s) \subseteq QueueManager!ToSet(Tail(s)) \cup {Head(s)}
<1> DEFINE a == Tail(s)
<1>1. /\ a \in Seq(S) /\ Len(s) \in Nat \ {0} /\ Len(a) = Len(s) - 1
      /\ \A k \in 1 .. Len(s) - 1 : a[k] = s[k + 1]
      /\ Head(s) = s[1] /\ Head(s) \in S
      /\ DOMAIN s = 1 .. Len(s) /\ DOMAIN a = 1 .. Len(s) - 1
  OBVIOUS
<1> HIDE DEF a
<1>2. \A k \in 1 .. Len(s) : k = 1 \/ (k - 1 \in 1 .. Len(s) - 1 /\ s[k] = a[k - 1])
  BY <1>1
<1>3. \A k \in 1 .. Len(s) - 1 : k + 1 \in 1 .. Len(s)
  BY <1>1
<1>4. \A x : x \in QueueManager!ToSet(s) <=> \E k \in 1 .. Len(s) : x = s[k]
  BY <1>1 DEF QueueManager!ToSet
<1>5. \A x : x \in QueueManager!ToSet(a) <=> \E k \in 1 .. Len(s) - 1 : x = a[k]
  BY <1>1 DEF QueueManager!ToSet
<1>6. 1 \in 1 .. Len(s)
  BY <1>1
<1>7. Head(s) \in QueueManager!ToSet(s)
  BY <1>1, <1>4, <1>6
<1>8. QueueManager!ToSet(a) \subseteq QueueManager!ToSet(s)
  BY <1>1, <1>3, <1>4, <1>5
<1>9. QueueManager!ToSet(s) \subseteq QueueManager!ToSet(a) \cup {Head(s)}
  BY <1>1, <1>2, <1>4, <1>5
<1> QED
  BY <1>1, <1>7, <1>8, <1>9 DEF a

\* Places in a set of numbers, in order.
UpTo(T, i) == {j \in T : j <= i}
Rank(T, i) == Cardinality(UpTo(T, i))
Nth(T, k) == CHOOSE i \in T : Rank(T, i) = k

\* The elements of a finite set of numbers have the ranks up to its size.
LEMMA RanksGrow ==
    ASSUME NEW T \in SUBSET Nat, IsFiniteSet(T)
    PROVE  /\ \A i \in T : Rank(T, i) \in 1 .. Cardinality(T)
           /\ \A i, j \in T : i < j => Rank(T, i) < Rank(T, j)
<1>1. \A i \in T : IsFiniteSet(UpTo(T, i)) /\ Rank(T, i) \in 1 .. Cardinality(T)
  <2> SUFFICES ASSUME NEW i \in T
               PROVE  IsFiniteSet(UpTo(T, i)) /\ Rank(T, i) \in 1 .. Cardinality(T)
    OBVIOUS
  <2>1. UpTo(T, i) \in SUBSET T /\ i \in UpTo(T, i)
    BY DEF UpTo
  <2>2. IsFiniteSet(UpTo(T, i)) /\ Rank(T, i) <= Cardinality(T)
    BY <2>1, FS_Subset DEF Rank
  <2>3. Rank(T, i) \in Nat /\ Rank(T, i) # 0 /\ Cardinality(T) \in Nat
    BY <2>1, <2>2, FS_CardinalityType, FS_EmptySet DEF Rank
  <2> QED
    BY <2>2, <2>3
<1>2. ASSUME NEW i \in T, NEW j \in T, i < j
      PROVE  Rank(T, i) < Rank(T, j)
  <2>1. UpTo(T, i) \cup {j} \in SUBSET UpTo(T, j) /\ j \notin UpTo(T, i)
    <3>1. i \in Nat /\ j \in Nat /\ i < j
      BY <1>2
    <3>2. ASSUME NEW x \in T, x <= i
          PROVE  x <= j /\ x # j
      BY <3>1, <3>2
    <3>3. j \notin UpTo(T, i)
      BY <3>2 DEF UpTo
    <3>4. ASSUME NEW x \in UpTo(T, i) \cup {j}
          PROVE  x \in UpTo(T, j)
      <4>1. CASE x = j
        BY <3>1, <4>1 DEF UpTo
      <4>2. CASE x \in UpTo(T, i)
        BY <3>2, <4>2 DEF UpTo
      <4> QED
        BY <3>4, <4>1, <4>2
    <3> QED
      BY <3>3, <3>4
  <2>2. Cardinality(UpTo(T, i) \cup {j}) = Rank(T, i) + 1
    BY <1>1, <2>1, FS_AddElement DEF Rank
  <2>3. Cardinality(UpTo(T, i) \cup {j}) <= Rank(T, j)
    BY <1>1, <2>1, FS_Subset DEF Rank
  <2>4. Rank(T, i) \in Nat /\ Rank(T, j) \in Nat
    BY <1>1
  <2> QED
    BY <2>2, <2>3, <2>4
<1> QED
  BY <1>1, <1>2

LEMMA EachRankIsTaken ==
    ASSUME NEW T \in SUBSET Nat, IsFiniteSet(T), NEW k \in 1 .. Cardinality(T)
    PROVE  \E i \in T : Rank(T, i) = k
<1> SUFFICES ASSUME \A i \in T : Rank(T, i) # k
             PROVE  FALSE
  OBVIOUS
<1> DEFINE n == Cardinality(T)
           R == (1 .. n) \ {k}
           f == [i \in T |-> Rank(T, i)]
<1>1. n \in Nat
  BY FS_CardinalityType
<1>2. IsFiniteSet(1 .. n) /\ Cardinality(1 .. n) = n
  BY <1>1, FS_Interval
<1>3. IsFiniteSet(R) /\ Cardinality(R) = n - 1
  <2> DEFINE S == 1 .. n
  <2>1. IsFiniteSet(S) /\ Cardinality(S) = n /\ k \in S
    BY <1>2
  <2> HIDE DEF S, n
  <2>2. IsFiniteSet(S \ {k}) /\ Cardinality(S \ {k}) = Cardinality(S) - 1
    BY <2>1, FS_RemoveElement
  <2> QED
    BY <2>1, <2>2 DEF S
<1>4. f \in [T -> R]
  BY RanksGrow
<1>5. \A i, j \in T : f[i] = f[j] => i = j
  <2>1. \A i, j \in T : i < j \/ j < i \/ i = j
    OBVIOUS
  <2>2. \A i \in T : Rank(T, i) \in Int /\ f[i] = Rank(T, i)
    BY <1>1, RanksGrow
  <2> QED
    BY <2>1, <2>2, RanksGrow
<1>6. Cardinality(R) < Cardinality(T)
  BY <1>1, <1>3
<1>7. IsFiniteSet(R)
  BY <1>3
<1> HIDE DEF R, f
<1>8. \E i, j \in T : i # j /\ f[i] = f[j]
  BY <1>4, <1>6, <1>7, FS_PigeonHole
<1> QED
  BY <1>5, <1>8

\* What is kept of a list does not match.
LEMMA ListKept ==
    ASSUME NEW S, NEW s \in Seq(S), NEW h
    PROVE  /\ QueueManager!Keep(s, h) \in Seq(S)
           /\ \A m \in QueueManager!ToSet(QueueManager!Keep(s, h)) :
                  m \in QueueManager!ToSet(s) /\ ~QueueManager!Matches(m, h)
<1> DEFINE T == {i \in DOMAIN s : ~QueueManager!Matches(s[i], h)}
           n == Cardinality(T)
           r == QueueManager!Keep(s, h)
<1>1. r = [k \in 1 .. n |-> s[Nth(T, k)]]
  BY DEF QueueManager!Keep, QueueManager!Cardinality, Cardinality, Nth, Rank, UpTo
<1>2. DOMAIN s = 1 .. Len(s) /\ Len(s) \in Nat /\ \A i \in 1 .. Len(s) : s[i] \in S
  OBVIOUS
<1>3. \A i \in T : i \in DOMAIN s /\ s[i] \in S /\ ~QueueManager!Matches(s[i], h)
  BY <1>2
<1>4. T \in SUBSET Nat /\ IsFiniteSet(T) /\ n \in Nat
  <2>1. IsFiniteSet(1 .. Len(s)) /\ T \in SUBSET (1 .. Len(s))
    BY <1>2, FS_Interval
  <2>2. IsFiniteSet(T)
    BY <2>1, FS_Subset
  <2> QED
    BY <1>2, <2>1, <2>2, FS_CardinalityType
<1> HIDE DEF T, r
<1>5. \A k \in 1 .. n : Nth(T, k) \in T
  BY <1>4, EachRankIsTaken DEF Nth
<1> HIDE DEF n
<1>6. r \in Seq(S) /\ DOMAIN r = 1 .. n /\ \A k \in 1 .. n : r[k] = s[Nth(T, k)]
  <2>1. \A k \in 1 .. n : s[Nth(T, k)] \in S
    BY <1>3, <1>5
  <2> QED
    BY <1>1, <1>4, <2>1
<1> QED
  BY <1>3, <1>5, <1>6 DEF QueueManager!ToSet, r

LEMMA HeldIs ==
    \A q, h : h \in QueueManager!Held(q) <=>
        /\ h # "nobody"
        /\ \/ \E m \in QueueManager!ToSet(queues_msgq[q]) : m.handler = h
           \/ \E m \in QueueManager!ToSet(queues_dmsgq[q]) : m.handler = h
           \/ \E m \in QueueManager!ToSet(queues_sendlist[q]) : m.handler = h
           \/ queues_msgPeek[q].handler = h
BY DEF QueueManager!Held

LEMMA HeldWhenUnchanged ==
    ASSUME UNCHANGED QueueManager!queue_vars
    PROVE  \A q : QueueManager!Held(q)' = QueueManager!Held(q)
BY DEF QueueManager!queue_vars, QueueManager!Held

LEMMA QueueFacts ==
    /\ 1 \in QueueThread /\ 0 \notin QueueThread /\ QueueThread \subseteq Nat
    /\ "nobody" \notin QueueHandler /\ HandlerHome \in [QueueHandler -> QueueThread]
    /\ QueueManager!NoMessage \in QueueManager!Message
    /\ QueueManager!NoMessage.handler = "nobody"
    /\ \A m \in QueueManager!Message : m.id \in Nat /\ m.handler \in QueueHandler \cup {"nobody"}
    /\ QueueManager!Nothing \in QueueDoing
    /\ QueueManager!Nothing.handler = "nobody" /\ QueueManager!Nothing.queues = <<>>
<1>1. /\ 1 \in QueueThread /\ 0 \notin QueueThread /\ QueueThread \subseteq Nat
      /\ "nobody" \notin QueueHandler /\ HandlerHome \in [QueueHandler -> QueueThread]
  BY QueueAssumption DEF QueueAssumption
<1>2. /\ QueueManager!NoMessage \in QueueManager!Message
      /\ QueueManager!NoMessage.handler = "nobody"
      /\ \A m \in QueueManager!Message : m.id \in Nat /\ m.handler \in QueueHandler \cup {"nobody"}
  BY DEF QueueManager!NoMessage, QueueManager!Message
<1>3. <<>> \in Seq(QueueThread)
  OBVIOUS
<1>4. /\ QueueManager!Nothing \in QueueDoing
      /\ QueueManager!Nothing.handler = "nobody" /\ QueueManager!Nothing.queues = <<>>
  BY <1>2, <1>3 DEF QueueManager!Nothing, QueueDoing
<1> QED
  BY <1>1, <1>2, <1>4

LEMMA QueueInit == QueueManager!Init => QueueInv
<1> SUFFICES ASSUME QueueManager!Init
             PROVE  QueueInv
  OBVIOUS
<1>1. <<>> \in Seq(QueueManager!Message) /\ <<>> \in Seq(QueueFate) /\ <<>> \in Seq(QueueThread)
  OBVIOUS
<1>2. QueueLists
  BY <1>1, QueueFacts DEF QueueManager!Init, QueueLists
<1>3. QueueTypes
  BY <1>1, QueueFacts DEF QueueManager!Init, QueueTypes, QueuePlace
<1>4. \A q \in QueueThread : QueueManager!Held(q) = {}
  BY NoneListed, QueueFacts DEF QueueManager!Init, QueueManager!Held
<1>5. QueueAddressed
  BY NoneListed, QueueFacts DEF QueueManager!Init, QueueAddressed
<1>6. QueueStarted
  BY QueueFacts DEF QueueManager!Init, QueueStarted
<1>7. QueueLocked
  BY QueueFacts DEF QueueManager!Init, QueueLocked
<1>8. QueueHeld
  BY <1>4, QueueFacts DEF QueueManager!Init, QueueHeld
<1>9. QueueKnown
  <2>1. Len(queues_message_queues) = 0
    BY DEF QueueManager!Init
  <2> QED
    <3>1. queues_message_queues = <<>> /\ queues_active = {} /\ queues_exists = QueueThread
      BY DEF QueueManager!Init
    <3>2. \A j \in 1 .. Len(queues_message_queues) : FALSE
      BY <2>1
    <3> QED
      BY <1>4, <3>1, <3>2, NoneListed DEF QueueKnown
<1>10. QueueClears
  BY QueueFacts DEF QueueManager!Init, QueueClears
<1> QED
  BY <1>2, <1>3, <1>5, <1>6, <1>7, <1>8, <1>9, <1>10 DEF QueueInv

\* A step that leaves the queues alone and the handlers.
LEMMA QueuesKept ==
    ASSUME QueueInv, UNCHANGED QueueManager!queue_vars, queues_data' \in Seq(QueueFate)
    PROVE  /\ QueueLists' /\ QueueAddressed'
           /\ \A q : QueueManager!Held(q)' = QueueManager!Held(q)
BY HeldWhenUnchanged DEF QueueInv, QueueLists, QueueAddressed, QueueManager!queue_vars

\* Posting.
LEMMA Marked ==
    ASSUME NEW d \in Seq(QueueFate), NEW k, NEW x \in QueueFate
    PROVE  [d EXCEPT ![k] = x] \in Seq(QueueFate)
<1> DEFINE n == Len(d)
           e == [d EXCEPT ![k] = x]
<1>1. n \in Nat /\ d \in [1 .. n -> QueueFate]
  BY LenProperties
<1> HIDE DEF n
<1>2. e = [j \in 1 .. n |-> IF j = k THEN x ELSE d[j]]
  BY <1>1
<1> HIDE DEF e
<1>3. \A j \in 1 .. n : (IF j = k THEN x ELSE d[j]) \in QueueFate
  BY <1>1
<1>4. e \in Seq(QueueFate)
  BY <1>1, <1>2, <1>3
<1> QED
  BY <1>4 DEF e

LEMMA MessageIsNew ==
    ASSUME QueueInv, NEW h \in QueueHandler \cup {"nobody"}
    PROVE  /\ QueueManager!NewMessage(h) \in QueueManager!Message
           /\ QueueManager!NewMessage(h).handler = h
           /\ Append(queues_data, "queued") \in Seq(QueueFate)
           /\ Append(queues_data, "refused") \in Seq(QueueFate)
<1>1. queues_data \in Seq(QueueFate) /\ Len(queues_data) + 1 \in Nat
  <2>1. queues_data \in Seq(QueueFate)
    BY DEF QueueInv, QueueLists
  <2>2. Len(queues_data) \in Nat
    BY <2>1, LenProperties
  <2> QED
    BY <2>1, <2>2
<1>2. "queued" \in QueueFate /\ "refused" \in QueueFate
  BY DEF QueueFate
<1>3. Append(queues_data, "queued") \in Seq(QueueFate) /\ Append(queues_data, "refused") \in Seq(QueueFate)
  BY <1>1, <1>2, ListAppended
<1> QED
  BY <1>1, <1>3 DEF QueueManager!NewMessage, QueueManager!Message

\* A message for a handler that is there goes into the queue of its thread.
LEMMA HandlerJoins ==
    ASSUME QueueInv, NEW q \in QueueThread, NEW h \in QueueHandler \cup {"nobody"},
           h = "nobody" \/ (QueueManager!Alive(h) /\ HandlerHome[h] = q),
           q \in queues_exists, queues_crit[q] = 0,
           \A o \in QueueThread \ {q} : QueueManager!Held(o)' = QueueManager!Held(o),
           QueueManager!Held(q)' = QueueManager!Held(q) \cup ({h} \ {"nobody"}),
           UNCHANGED <<queues_stale, queues_handlers, queues_started, queues_exists,
                       queues_manager, queues_fStop, queues_message_queues, queues_active>>,
           NEW t \in QueueThread, queues_at[t] \in {"loop", "handler"},
           \A u \in QueueThread \ {t} : queues_at'[u] = queues_at[u]
                                        /\ queues_doing'[u] = queues_doing[u],
           queues_doing'[t].handler = queues_doing[t].handler,
           \A o \in QueueThread \ {q} : queues_crit'[o] = queues_crit[o],
           \/ queues_at'[t] = "send" /\ t = 1 /\ q \in queues_active /\ UNCHANGED queues_crit
           \/ UNCHANGED <<queues_at, queues_doing, queues_crit>> /\ q \in queues_active
           \/ /\ queues_at'[t] = "add" /\ queues_doing'[t].queues = <<q>>
              /\ q \notin queues_active /\ queues_crit'[q] = t
    PROVE  QueueStarted' /\ QueueLocked' /\ QueueHeld' /\ QueueKnown' /\ QueueClears'
<1>1. QueueStarted'
  BY DEF QueueInv, QueueStarted
<1>2. QueueLocked'
  <2>1. ASSUME NEW o \in QueueThread, queues_crit'[o] # 0
        PROVE  /\ queues_at'[queues_crit'[o]] = "add" /\ queues_doing'[queues_crit'[o]].queues = <<o>>
               /\ o \notin queues_active /\ o \in queues_exists
    <3>1. CASE o = q
      BY <2>1, <3>1
    <3>2. CASE o # q
      <4>1. queues_crit'[o] = queues_crit[o] /\ queues_crit[o] # 0 /\ queues_crit[o] \in QueueThread
        BY <2>1, <3>2 DEF QueueInv, QueueTypes
      <4>2. /\ queues_at[queues_crit[o]] = "add" /\ queues_doing[queues_crit[o]].queues = <<o>>
            /\ o \notin queues_active /\ o \in queues_exists
        BY <4>1 DEF QueueInv, QueueLocked
      <4>3. queues_crit[o] # t
        BY <4>2
      <4> QED
        BY <4>1, <4>2, <4>3
    <3> QED
      BY <3>1, <3>2
  <2>2. ASSUME NEW u \in QueueThread, queues_at'[u] = "add"
        PROVE  \E o \in QueueThread : queues_doing'[u].queues = <<o>> /\ queues_crit'[o] = u
    <3>1. CASE u = t
      BY <2>2, <3>1
    <3>2. CASE u # t
      <4>1. queues_at[u] = "add" /\ queues_doing'[u] = queues_doing[u]
        BY <2>2, <3>2
      <4>2. PICK o \in QueueThread : queues_doing[u].queues = <<o>> /\ queues_crit[o] = u
        BY <4>1 DEF QueueInv, QueueLocked
      <4>3. o # q
        BY <4>2, QueueFacts
      <4> QED
        BY <4>1, <4>2, <4>3
    <3> QED
      BY <3>1, <3>2
  <2> QED
    BY <2>1, <2>2 DEF QueueLocked
<1>3. QueueHeld'
  <2>1. h # "nobody" => h \in queues_handlers /\ HandlerHome[h] = q
    BY DEF QueueManager!Alive
  <2>2. ASSUME NEW o \in QueueThread, NEW c \in QueueManager!Held(o)'
        PROVE  c \in queues_handlers /\ HandlerHome[c] = o
    <3>1. c \in QueueManager!Held(o) \/ (o = q /\ c = h /\ h # "nobody")
      BY <2>2
    <3> QED
      BY <2>1, <3>1 DEF QueueInv, QueueHeld
  <2>3. ASSUME NEW u \in QueueThread, queues_at'[u] = "took"
        PROVE  queues_at[u] = "took" /\ queues_doing'[u] = queues_doing[u]
    BY <2>3
  <2> QED
    BY <2>2, <2>3 DEF QueueInv, QueueHeld
<1>4. QueueKnown'
  <2>1. ASSUME NEW o \in queues_exists, QueueManager!Held(o)' # {}, queues_crit'[o] = 0
        PROVE  o \in queues_active
    <3>1. o \in QueueThread
      BY DEF QueueInv, QueueTypes
    <3>2. CASE o = q
      BY <2>1, <3>1, <3>2, QueueFacts
    <3>3. CASE o # q
      BY <2>1, <3>1, <3>3 DEF QueueInv, QueueKnown
    <3> QED
      BY <3>2, <3>3
  <2>2. ASSUME NEW o \in QueueThread \ queues_exists
        PROVE  QueueManager!Held(o)' = {}
    BY <2>2 DEF QueueInv, QueueKnown
  <2> QED
    BY <2>1, <2>2 DEF QueueInv, QueueKnown
<1>5. QueueClears'
  <2>1. \A u \in QueueThread : queues_at[u] = "clear" => queues_doing[u].handler # h
    BY QueueFacts DEF QueueManager!Alive, QueueManager!Dying, QueueInv, QueueClears
  <2>2. \A u \in QueueThread : queues_at[u] = "clear" =>
            LET c == queues_doing[u].handler
            IN  /\ u # t
                /\ c \in QueueManager!Held(HandlerHome[c])' => c \in QueueManager!Held(HandlerHome[c])
    <3> TAKE u \in QueueThread
    <3> SUFFICES ASSUME queues_at[u] = "clear"
                 PROVE  LET c == queues_doing[u].handler
                        IN  /\ u # t
                            /\ c \in QueueManager!Held(HandlerHome[c])'
                               => c \in QueueManager!Held(HandlerHome[c])
      OBVIOUS
    <3> DEFINE c == queues_doing[u].handler
    <3>1. c # h /\ c \in QueueHandler /\ HandlerHome[c] \in QueueThread
      BY <2>1, QueueFacts DEF QueueInv, QueueTypes, QueueClears
    <3> QED
      BY <3>1
  <2>3. queues_doing'[t].handler = "nobody" /\ queues_at'[t] # "clear"
    BY DEF QueueInv, QueueClears
  <2>4. \A u \in QueueThread : queues_at'[u] = "clear" =>
            u # t /\ queues_at[u] = "clear" /\ queues_doing'[u] = queues_doing[u]
    BY <2>3
  <2> QED
    BY <2>2, <2>3, <2>4 DEF QueueInv, QueueClears
<1> QED
  BY <1>1, <1>2, <1>3, <1>4, <1>5

LEMMA PostKeeps ==
    ASSUME QueueInv, NEW t \in QueueThread, NEW q \in QueueThread,
           NEW h \in QueueHandler \cup {"nobody"}, NEW delayed \in BOOLEAN,
           QueueManager!Post(t, q, h, delayed)
    PROVE  QueueInv'
<1> DEFINE m == QueueManager!NewMessage(h)
<1>0. /\ queues_at[t] \in {"loop", "handler"} /\ q \in queues_exists /\ queues_crit[q] = 0
      /\ h = "nobody" \/ (QueueManager!Alive(h) /\ HandlerHome[h] = q)
      /\ UNCHANGED <<queues_sendlist, queues_msgPeek, queues_fStop, queues_started,
                     queues_exists, queues_active, queues_message_queues, queues_manager,
                     queues_handlers, queues_stale>>
  BY DEF QueueManager!Post, QueueManager!Calls, QueueManager!Free, QueueManager!thread_vars
<1>1. CASE q \in queues_fStop
  <2>1. /\ queues_data' \in Seq(QueueFate)
        /\ UNCHANGED <<queues_msgq, queues_dmsgq, queues_crit, queues_at, queues_doing>>
    BY <1>1, MessageIsNew DEF QueueManager!Post
  <2>2. UNCHANGED QueueManager!queue_vars
    BY <1>0, <2>1 DEF QueueManager!queue_vars
  <2>3. QueueLists' /\ QueueAddressed' /\ \A o : QueueManager!Held(o)' = QueueManager!Held(o)
    BY <2>1, <2>2, QueuesKept
  <2>4. QueueTypes' /\ QueueStarted' /\ QueueLocked'
    BY <1>0, <2>1 DEF QueueInv, QueueTypes, QueueStarted, QueueLocked
  <2>5. QueueHeld' /\ QueueKnown' /\ QueueClears'
    <3>1. QueueHeld' /\ QueueClears'
      BY <1>0, <2>1, <2>3 DEF QueueInv, QueueHeld, QueueClears
    <3>2. QueueKnown'
      BY <1>0, <2>1, <2>3 DEF QueueInv, QueueKnown
    <3> QED
      BY <3>1, <3>2
  <2> QED
    BY <2>3, <2>4, <2>5 DEF QueueInv
<1>2. CASE q \notin queues_fStop
  <2>1. m \in QueueManager!Message /\ m.handler = h /\ queues_data' \in Seq(QueueFate)
    BY <1>2, MessageIsNew DEF QueueManager!Post
  <2>2. QueueManager!Push(q, m, delayed)
    BY <1>2 DEF QueueManager!Post
  <2> HIDE DEF m
  <2>3. /\ QueueLists' /\ QueueAddressed'
        /\ \A o \in QueueThread \ {q} : QueueManager!Held(o)' = QueueManager!Held(o)
        /\ QueueManager!Held(q)' = QueueManager!Held(q) \cup ({h} \ {"nobody"})
    <3>1. CASE delayed
      <4> DEFINE a == Append(queues_dmsgq[q], m)
      <4>1. queues_dmsgq' = [queues_dmsgq EXCEPT ![q] = a] /\ UNCHANGED queues_msgq
        BY <2>2, <3>1 DEF QueueManager!Push
      <4>2. /\ a \in Seq(QueueManager!Message)
            /\ QueueManager!ToSet(a) = QueueManager!ToSet(queues_dmsgq[q]) \cup {m}
        <5>1. queues_dmsgq[q] \in Seq(QueueManager!Message)
          BY DEF QueueInv, QueueLists
        <5> QED
          BY <2>1, <5>1, ListAppended
      <4> HIDE DEF a
      <4>3. QueueLists' /\ QueueAddressed'
        BY <1>0, <2>1, <4>1, <4>2 DEF QueueInv, QueueLists, QueueAddressed
      <4>4. queues_dmsgq'[q] = a /\ \A o \in QueueThread \ {q} : queues_dmsgq'[o] = queues_dmsgq[o]
        BY <4>1 DEF QueueInv, QueueLists
      <4>5. \A o \in QueueThread \ {q} : QueueManager!Held(o)' = QueueManager!Held(o)
        BY <1>0, <4>1, <4>4 DEF QueueManager!Held
      <4>6. QueueManager!Held(q)' = QueueManager!Held(q) \cup ({h} \ {"nobody"})
        <5>1. \A x : x \in QueueManager!Held(q)' <=>
                  x \in QueueManager!Held(q) \/ (x = h /\ h # "nobody")
          BY <1>0, <2>1, <4>1, <4>2, <4>4 DEF QueueManager!Held
        <5> QED
          BY <5>1
      <4> QED
        BY <4>3, <4>5, <4>6
    <3>2. CASE ~delayed
      <4> DEFINE a == Append(queues_msgq[q], m)
      <4>1. queues_msgq' = [queues_msgq EXCEPT ![q] = a] /\ UNCHANGED queues_dmsgq
        BY <2>2, <3>2 DEF QueueManager!Push
      <4>2. /\ a \in Seq(QueueManager!Message)
            /\ QueueManager!ToSet(a) = QueueManager!ToSet(queues_msgq[q]) \cup {m}
        <5>1. queues_msgq[q] \in Seq(QueueManager!Message)
          BY DEF QueueInv, QueueLists
        <5> QED
          BY <2>1, <5>1, ListAppended
      <4> HIDE DEF a
      <4>3. QueueLists' /\ QueueAddressed'
        BY <1>0, <2>1, <4>1, <4>2 DEF QueueInv, QueueLists, QueueAddressed
      <4>4. queues_msgq'[q] = a /\ \A o \in QueueThread \ {q} : queues_msgq'[o] = queues_msgq[o]
        BY <4>1 DEF QueueInv, QueueLists
      <4>5. \A o \in QueueThread \ {q} : QueueManager!Held(o)' = QueueManager!Held(o)
        BY <1>0, <4>1, <4>4 DEF QueueManager!Held
      <4>6. QueueManager!Held(q)' = QueueManager!Held(q) \cup ({h} \ {"nobody"})
        <5>1. \A x : x \in QueueManager!Held(q)' <=>
                  x \in QueueManager!Held(q) \/ (x = h /\ h # "nobody")
          BY <1>0, <2>1, <4>1, <4>2, <4>4 DEF QueueManager!Held
        <5> QED
          BY <5>1
      <4> QED
        BY <4>3, <4>5, <4>6
    <3> QED
      BY <3>1, <3>2
  <2>4. CASE q \in queues_active
    <3>1. UNCHANGED <<queues_crit, queues_at, queues_doing>>
      BY <1>2, <2>4 DEF QueueManager!Post
    <3>2. QueueTypes'
      BY <1>0, <3>1 DEF QueueInv, QueueTypes
    <3>3. QueueStarted' /\ QueueLocked' /\ QueueHeld' /\ QueueKnown' /\ QueueClears'
      BY <1>0, <2>3, <2>4, <3>1, HandlerJoins
    <3> QED
      BY <2>3, <3>2, <3>3 DEF QueueInv
  <2>5. CASE q \notin queues_active
    <3> DEFINE d == [queues_doing[t] EXCEPT !.queues = <<q>>, !.back = queues_at[t]]
    <3>1. /\ queues_crit' = [queues_crit EXCEPT ![q] = t]
          /\ queues_at' = [queues_at EXCEPT ![t] = "add"]
          /\ queues_doing' = [queues_doing EXCEPT ![t].queues = <<q>>, ![t].back = queues_at[t]]
      BY <1>2, <2>5 DEF QueueManager!Post
    <3>2. queues_doing[t] \in QueueDoing
      BY DEF QueueInv, QueueTypes
    <3>3. d \in QueueDoing /\ d.queues = <<q>> /\ d.handler = queues_doing[t].handler
      <4>1. <<q>> \in Seq(QueueThread) /\ queues_at[t] \in {"loop", "handler", "send"}
        BY <1>0
      <4> QED
        BY <3>2, <4>1 DEF QueueDoing
    <3>4. queues_doing' = [queues_doing EXCEPT ![t] = d]
      BY <3>1 DEF QueueInv, QueueTypes
    <3> HIDE DEF d
    <3>5. QueueTypes'
      BY <1>0, <3>1, <3>3, <3>4 DEF QueueInv, QueueTypes, QueuePlace
    <3>6. /\ \A u \in QueueThread \ {t} : queues_at'[u] = queues_at[u]
                                          /\ queues_doing'[u] = queues_doing[u]
          /\ queues_at'[t] = "add" /\ queues_doing'[t] = d
          /\ queues_crit'[q] = t /\ \A o \in QueueThread \ {q} : queues_crit'[o] = queues_crit[o]
      BY <3>1, <3>4 DEF QueueInv, QueueTypes
    <3>7. QueueStarted' /\ QueueLocked' /\ QueueHeld' /\ QueueKnown' /\ QueueClears'
      BY <1>0, <2>3, <2>5, <3>3, <3>6, HandlerJoins
    <3> QED
      BY <2>3, <3>5, <3>7 DEF QueueInv
  <2> QED
    BY <2>4, <2>5
<1> QED
  BY <1>1, <1>2

\* A step of a thread from one place to another that takes no lock.
LEMMA ThreadMoves ==
    ASSUME QueueInv, NEW t \in QueueThread,
           queues_at[t] \in {"loop", "took", "handler", "send"},
           NEW p \in {"loop", "took", "handler", "ended"},
           queues_at' = [queues_at EXCEPT ![t] = p],
           NEW d \in QueueDoing, queues_doing' = [queues_doing EXCEPT ![t] = d],
           d.handler = "nobody",
           p = "took" => d.message.handler \in queues_handlers
                         /\ HandlerHome[d.message.handler] = t,
           \A q \in QueueThread : QueueManager!Held(q)' \subseteq QueueManager!Held(q),
           queues_stale' = FALSE,
           UNCHANGED <<queues_fStop, queues_started, queues_exists, queues_active,
                       queues_message_queues, queues_manager, queues_crit, queues_handlers>>
    PROVE  QueueTypes' /\ QueueStarted' /\ QueueLocked' /\ QueueHeld' /\ QueueKnown' /\ QueueClears'
<1>1. /\ queues_at'[t] = p /\ queues_doing'[t] = d
      /\ \A u \in QueueThread \ {t} : queues_at'[u] = queues_at[u]
                                      /\ queues_doing'[u] = queues_doing[u]
  BY DEF QueueInv, QueueTypes
<1>2. QueueTypes'
  BY DEF QueueInv, QueueTypes, QueuePlace
<1>3. t \in queues_started
  BY DEF QueueInv, QueueStarted
<1>4. QueueStarted'
  BY <1>1, <1>3 DEF QueueInv, QueueStarted
<1>5. QueueLocked'
  <2>1. ASSUME NEW q \in QueueThread, queues_crit[q] # 0
        PROVE  /\ queues_at'[queues_crit[q]] = "add" /\ queues_doing'[queues_crit[q]].queues = <<q>>
               /\ q \notin queues_active /\ q \in queues_exists
    <3>1. /\ queues_at[queues_crit[q]] = "add" /\ queues_doing[queues_crit[q]].queues = <<q>>
          /\ q \notin queues_active /\ q \in queues_exists
      BY <2>1 DEF QueueInv, QueueLocked
    <3>2. queues_crit[q] \in QueueThread \ {t}
      BY <2>1, <3>1 DEF QueueInv, QueueTypes
    <3> QED
      BY <1>1, <3>1, <3>2
  <2>2. \A u \in QueueThread : queues_at'[u] = "add" =>
            u # t /\ queues_at[u] = "add" /\ queues_doing'[u] = queues_doing[u]
    BY <1>1
  <2>3. \A u \in QueueThread : queues_at'[u] = "add" =>
            \E q \in QueueThread : queues_doing'[u].queues = <<q>> /\ queues_crit[q] = u
    BY <2>2 DEF QueueInv, QueueLocked
  <2> QED
    BY <2>1, <2>3 DEF QueueLocked
<1>6. QueueHeld'
  <2>1. \A u \in QueueThread : queues_at'[u] = "took" =>
            \/ u = t /\ p = "took" /\ queues_doing'[u] = d
            \/ queues_at[u] = "took" /\ queues_doing'[u] = queues_doing[u]
    BY <1>1
  <2>2. ASSUME NEW u \in QueueThread, queues_at'[u] = "took"
        PROVE  /\ queues_doing'[u].message.handler \in queues_handlers
               /\ HandlerHome[queues_doing'[u].message.handler] = u
    BY <2>1, <2>2 DEF QueueInv, QueueHeld
  <2>3. ASSUME NEW q \in QueueThread, NEW h \in QueueManager!Held(q)'
        PROVE  h \in queues_handlers /\ HandlerHome[h] = q
    BY <2>3 DEF QueueInv, QueueHeld
  <2> QED
    BY <2>2, <2>3 DEF QueueHeld
<1>7. QueueKnown'
  <2>1. ASSUME NEW q \in queues_exists, QueueManager!Held(q)' # {}, queues_crit[q] = 0
        PROVE  q \in queues_active
    <3>1. q \in QueueThread
      BY DEF QueueInv, QueueTypes
    <3>2. QueueManager!Held(q) # {}
      BY <2>1, <3>1
    <3> QED
      BY <2>1, <3>2 DEF QueueInv, QueueKnown
  <2>2. ASSUME NEW q \in QueueThread \ queues_exists
        PROVE  QueueManager!Held(q)' = {}
    BY DEF QueueInv, QueueKnown
  <2> QED
    BY <2>1, <2>2 DEF QueueInv, QueueKnown
<1>8. QueueClears'
  <2>1. ASSUME NEW u \in QueueThread, queues_at'[u] = "clear",
               NEW h, h = queues_doing'[u].handler
        PROVE  /\ h \in queues_handlers /\ queues_manager = u
               /\ \/ HandlerHome[h] = u
                  \/ u = 1 /\ HandlerHome[h] \notin queues_started
               /\ queues_doing'[u].back \in {"loop", "handler"}
               /\ h \in QueueManager!Held(HandlerHome[h])' =>
                      HandlerHome[h] \in QueueManager!ToSet(queues_doing'[u].queues)
    <3>1. queues_at[u] = "clear" /\ queues_doing'[u] = queues_doing[u]
      BY <1>1, <2>1
    <3>2. /\ h \in queues_handlers /\ queues_manager = u
          /\ \/ HandlerHome[h] = u
             \/ u = 1 /\ HandlerHome[h] \notin queues_started
          /\ queues_doing[u].back \in {"loop", "handler"}
          /\ h \in QueueManager!Held(HandlerHome[h]) =>
                 HandlerHome[h] \in QueueManager!ToSet(queues_doing[u].queues)
      BY <2>1, <3>1 DEF QueueInv, QueueClears
    <3>3. HandlerHome[h] \in QueueThread
      BY <3>2, QueueFacts DEF QueueInv, QueueTypes
    <3>4. h \in QueueManager!Held(HandlerHome[h])' => h \in QueueManager!Held(HandlerHome[h])
      BY <3>3
    <3> QED
      BY <3>1, <3>2, <3>4
  <2>2. \A u \in QueueThread : queues_doing'[u].handler # "nobody" <=> queues_at'[u] = "clear"
    <3>1. \A u \in QueueThread : queues_doing[u].handler # "nobody" <=> queues_at[u] = "clear"
      BY DEF QueueInv, QueueClears
    <3>2. queues_at'[t] # "clear"
      BY <1>1
    <3> QED
      BY <1>1, <3>1, <3>2
  <2> QED
    BY <2>1, <2>2 DEF QueueClears
<1> QED
  BY <1>2, <1>4, <1>5, <1>6, <1>7, <1>8

\* What a thread that does not destroy a handler does.
LEMMA DoingIs ==
    ASSUME QueueInv, NEW t \in QueueThread
    PROVE  /\ queues_doing[t] \in QueueDoing
           /\ queues_at[t] # "clear" => queues_doing[t].handler = "nobody"
           /\ queues_at = [queues_at EXCEPT ![t] = queues_at[t]]
           /\ queues_doing = [queues_doing EXCEPT ![t] = queues_doing[t]]
BY DEF QueueInv, QueueTypes, QueueClears

LEMMA TakeMoves ==
    ASSUME QueueInv, NEW t \in QueueThread, queues_at[t] = "loop",
           NEW m \in QueueManager!Message, NEW how \in QueueFate,
           QueueManager!Take(t, m, how)
    PROVE  /\ queues_data' \in Seq(QueueFate)
           /\ queues_at' = [queues_at EXCEPT ![t] = "took"]
           /\ \E d \in QueueDoing : /\ queues_doing' = [queues_doing EXCEPT ![t] = d]
                                    /\ d.handler = "nobody" /\ d.message = m
<1> DEFINE d == [queues_doing[t] EXCEPT !.message = m]
<1>1. queues_doing[t] \in QueueDoing /\ queues_doing[t].handler = "nobody"
  BY DoingIs
<1>2. d \in QueueDoing /\ d.handler = "nobody" /\ d.message = m
  BY <1>1 DEF QueueDoing
<1>3. queues_doing' = [queues_doing EXCEPT ![t] = d]
  BY DEF QueueManager!Take, QueueInv, QueueTypes
<1> HIDE DEF d
<1>4. queues_data' \in Seq(QueueFate)
  <2>1. queues_data \in Seq(QueueFate)
    BY DEF QueueInv, QueueLists
  <2> QED
    BY <2>1, Marked DEF QueueManager!Take
<1> QED
  BY <1>2, <1>3, <1>4 DEF QueueManager!Take

\* A message for a handler in one of the lists.
LEMMA HeldIsThere ==
    ASSUME QueueInv, NEW q \in QueueThread, NEW m \in QueueManager!Message,
           m.handler # "nobody",
           \/ m \in QueueManager!ToSet(queues_msgq[q])
           \/ m \in QueueManager!ToSet(queues_dmsgq[q])
           \/ m \in QueueManager!ToSet(queues_sendlist[q])
           \/ m = queues_msgPeek[q]
    PROVE  m.handler \in queues_handlers /\ HandlerHome[m.handler] = q
<1>1. m.handler \in QueueManager!Held(q)
  BY HeldIs
<1> QED
  BY <1>1 DEF QueueInv, QueueHeld

\* Where the lists hold no more, no more is held.
LEMMA HeldNoMore ==
    ASSUME NEW q,
           \A m : \/ m \in QueueManager!ToSet(queues_msgq[q])'
                  \/ m \in QueueManager!ToSet(queues_dmsgq[q])'
                  \/ m \in QueueManager!ToSet(queues_sendlist[q])'
                  \/ m = queues_msgPeek'[q]
                  => \/ m \in QueueManager!ToSet(queues_msgq[q])
                     \/ m \in QueueManager!ToSet(queues_dmsgq[q])
                     \/ m \in QueueManager!ToSet(queues_sendlist[q])
                     \/ m = queues_msgPeek[q] \/ m.handler = "nobody"
    PROVE  QueueManager!Held(q)' \subseteq QueueManager!Held(q)
<1> SUFFICES ASSUME NEW h \in QueueManager!Held(q)'
             PROVE  h \in QueueManager!Held(q)
  OBVIOUS
<1>1. /\ h # "nobody"
      /\ \E m : /\ m.handler = h
                /\ \/ m \in QueueManager!ToSet(queues_msgq[q])'
                   \/ m \in QueueManager!ToSet(queues_dmsgq[q])'
                   \/ m \in QueueManager!ToSet(queues_sendlist[q])'
                   \/ m = queues_msgPeek'[q]
  BY DEF QueueManager!Held
<1> QED
  BY <1>1 DEF QueueManager!Held

\* The steps of a thread that takes no lock.
LEMMA SentKeeps ==
    ASSUME QueueInv, QueueManager!Sent
    PROVE  QueueInv'
<1>1. /\ queues_at[1] = "send" /\ queues_at' = [queues_at EXCEPT ![1] = queues_doing[1].resume]
      /\ UNCHANGED QueueManager!queue_vars
      /\ UNCHANGED <<queues_fStop, queues_started, queues_exists, queues_active,
                     queues_message_queues, queues_manager, queues_crit, queues_handlers,
                     queues_doing, queues_data, queues_stale>>
  BY DEF QueueManager!Sent, QueueManager!thread_vars, QueueManager!lock_vars
<1>2. queues_doing[1] \in QueueDoing /\ queues_doing[1].handler = "nobody"
      /\ queues_doing' = [queues_doing EXCEPT ![1] = queues_doing[1]]
  BY <1>1, DoingIs, QueueFacts
<1>3. queues_doing[1].resume \in {"loop", "handler"}
  BY <1>2 DEF QueueDoing
<1>4. QueueLists' /\ QueueAddressed' /\ \A q : QueueManager!Held(q)' = QueueManager!Held(q)
  BY <1>1, QueuesKept DEF QueueInv, QueueLists
<1>5. queues_stale' = FALSE
  BY <1>1 DEF QueueInv, QueueHeld
<1>6. QueueTypes' /\ QueueStarted' /\ QueueLocked' /\ QueueHeld' /\ QueueKnown' /\ QueueClears'
  BY <1>1, <1>2, <1>3, <1>4, <1>5, ThreadMoves, QueueFacts
<1> QED
  BY <1>4, <1>6 DEF QueueInv

LEMMA QueueReceiveKeeps ==
    ASSUME QueueInv, NEW t \in QueueThread, QueueManager!Receive(t)
    PROVE  QueueInv'
<1> DEFINE m == Head(queues_sendlist[t])
           a == Tail(queues_sendlist[t])
<1>1. /\ queues_at[t] = "loop" /\ queues_sendlist[t] # <<>>
      /\ queues_sendlist' = [queues_sendlist EXCEPT ![t] = a]
      /\ QueueManager!Take(t, m, "sent")
      /\ UNCHANGED <<queues_msgq, queues_dmsgq, queues_msgPeek, queues_fStop, queues_started,
                     queues_exists, queues_active, queues_message_queues, queues_manager,
                     queues_crit, queues_handlers, queues_stale>>
  BY DEF QueueManager!Receive, QueueManager!thread_vars, QueueManager!lock_vars
<1>2. /\ m \in QueueManager!Message /\ m \in QueueManager!ToSet(queues_sendlist[t])
      /\ a \in Seq(QueueManager!Message)
      /\ QueueManager!ToSet(a) \subseteq QueueManager!ToSet(queues_sendlist[t])
  <2>1. queues_sendlist[t] \in Seq(QueueManager!Message)
    BY DEF QueueInv, QueueLists
  <2> QED
    BY <1>1, <2>1, ListTaken
<1> HIDE DEF m, a
<1>3. m.handler # "nobody"
  BY <1>2 DEF QueueInv, QueueAddressed
<1>4. m.handler \in queues_handlers /\ HandlerHome[m.handler] = t
  BY <1>2, <1>3, HeldIsThere
<1>5. "sent" \in QueueFate
  BY DEF QueueFate
<1>6. /\ queues_data' \in Seq(QueueFate)
      /\ queues_at' = [queues_at EXCEPT ![t] = "took"]
      /\ \E d \in QueueDoing : /\ queues_doing' = [queues_doing EXCEPT ![t] = d]
                               /\ d.handler = "nobody" /\ d.message = m
  BY <1>1, <1>2, <1>5, TakeMoves
<1>7. /\ queues_sendlist'[t] = a
      /\ \A q \in QueueThread \ {t} : queues_sendlist'[q] = queues_sendlist[q]
  BY <1>1 DEF QueueInv, QueueLists
<1>8. QueueLists'
  BY <1>1, <1>2, <1>6 DEF QueueInv, QueueLists
<1>9. QueueAddressed'
  BY <1>1, <1>2, <1>7 DEF QueueInv, QueueAddressed
<1>10. \A q \in QueueThread : QueueManager!Held(q)' \subseteq QueueManager!Held(q)
  BY <1>1, <1>2, <1>7, HeldNoMore
<1>11. queues_stale' = FALSE
  BY <1>1 DEF QueueInv, QueueHeld
<1>12. QueueTypes' /\ QueueStarted' /\ QueueLocked' /\ QueueHeld' /\ QueueKnown' /\ QueueClears'
  BY <1>1, <1>4, <1>6, <1>10, <1>11, ThreadMoves
<1> QED
  BY <1>8, <1>9, <1>12 DEF QueueInv

LEMMA TriggerKeeps ==
    ASSUME QueueInv, NEW t \in QueueThread, QueueManager!Trigger(t)
    PROVE  QueueInv'
<1> DEFINE m == Head(queues_dmsgq[t])
           a == Tail(queues_dmsgq[t])
           b == Append(queues_msgq[t], m)
<1>1. /\ queues_at[t] = "loop" /\ queues_dmsgq[t] # <<>>
      /\ queues_dmsgq' = [queues_dmsgq EXCEPT ![t] = a]
      /\ queues_msgq' = [queues_msgq EXCEPT ![t] = b]
      /\ UNCHANGED <<queues_sendlist, queues_msgPeek, queues_fStop, queues_started,
                     queues_exists, queues_active, queues_message_queues, queues_manager,
                     queues_crit, queues_handlers, queues_stale, queues_at, queues_doing,
                     queues_data>>
  BY DEF QueueManager!Trigger, QueueManager!thread_vars, QueueManager!lock_vars
<1>2. /\ m \in QueueManager!Message /\ m \in QueueManager!ToSet(queues_dmsgq[t])
      /\ a \in Seq(QueueManager!Message)
      /\ QueueManager!ToSet(a) \subseteq QueueManager!ToSet(queues_dmsgq[t])
  <2>1. queues_dmsgq[t] \in Seq(QueueManager!Message)
    BY DEF QueueInv, QueueLists
  <2> QED
    BY <1>1, <2>1, ListTaken
<1> HIDE DEF m, a
<1>3. /\ b \in Seq(QueueManager!Message)
      /\ QueueManager!ToSet(b) = QueueManager!ToSet(queues_msgq[t]) \cup {m}
  <2>1. queues_msgq[t] \in Seq(QueueManager!Message)
    BY DEF QueueInv, QueueLists
  <2> QED
    BY <1>2, <2>1, ListAppended
<1> HIDE DEF b
<1>4. /\ queues_dmsgq'[t] = a /\ queues_msgq'[t] = b
      /\ \A q \in QueueThread \ {t} : queues_dmsgq'[q] = queues_dmsgq[q]
                                      /\ queues_msgq'[q] = queues_msgq[q]
  BY <1>1 DEF QueueInv, QueueLists
<1>5. QueueLists' /\ QueueAddressed'
  <2>1. QueueLists'
    BY <1>1, <1>2, <1>3 DEF QueueInv, QueueLists
  <2>2. QueueAddressed'
    BY <1>1 DEF QueueInv, QueueAddressed
  <2> QED
    BY <2>1, <2>2
<1>6. \A q \in QueueThread : QueueManager!Held(q)' \subseteq QueueManager!Held(q)
  BY <1>1, <1>2, <1>3, <1>4, HeldNoMore
<1>7. queues_stale' = FALSE
  BY <1>1 DEF QueueInv, QueueHeld
<1>8. /\ queues_doing[t] \in QueueDoing /\ queues_doing[t].handler = "nobody"
      /\ queues_at' = [queues_at EXCEPT ![t] = "loop"]
      /\ queues_doing' = [queues_doing EXCEPT ![t] = queues_doing[t]]
  BY <1>1, DoingIs
<1>9. QueueTypes' /\ QueueStarted' /\ QueueLocked' /\ QueueHeld' /\ QueueKnown' /\ QueueClears'
  BY <1>1, <1>6, <1>7, <1>8, ThreadMoves
<1> QED
  BY <1>5, <1>9 DEF QueueInv

LEMMA GetKeeps ==
    ASSUME QueueInv, NEW t \in QueueThread, QueueManager!Get(t)
    PROVE  QueueInv'
<1>1. /\ queues_at[t] = "loop"
      /\ UNCHANGED <<queues_dmsgq, queues_sendlist, queues_fStop, queues_started,
                     queues_exists, queues_active, queues_message_queues, queues_manager,
                     queues_crit, queues_handlers, queues_stale>>
  BY DEF QueueManager!Get, QueueManager!Ready, QueueManager!thread_vars, QueueManager!lock_vars
<1>2. queues_stale' = FALSE /\ "taken" \in QueueFate /\ "kept" \in QueueFate
  BY <1>1 DEF QueueInv, QueueHeld, QueueFate
<1>3. CASE queues_msgPeek[t] # QueueManager!NoMessage
  <2> DEFINE m == queues_msgPeek[t]
  <2>1. /\ QueueManager!Take(t, m, "taken") /\ UNCHANGED queues_msgq
        /\ queues_msgPeek' = [queues_msgPeek EXCEPT ![t] = QueueManager!NoMessage]
    BY <1>3 DEF QueueManager!Get
  <2>2. m \in QueueManager!Message /\ m.handler # "nobody"
    BY <1>3 DEF QueueInv, QueueLists, QueueAddressed
  <2>3. m.handler \in queues_handlers /\ HandlerHome[m.handler] = t
    BY <2>2, HeldIsThere
  <2> HIDE DEF m
  <2>4. /\ queues_data' \in Seq(QueueFate)
        /\ queues_at' = [queues_at EXCEPT ![t] = "took"]
        /\ \E d \in QueueDoing : /\ queues_doing' = [queues_doing EXCEPT ![t] = d]
                                 /\ d.handler = "nobody" /\ d.message = m
    BY <1>1, <1>2, <2>1, <2>2, TakeMoves
  <2>5. /\ queues_msgPeek'[t] = QueueManager!NoMessage
        /\ \A q \in QueueThread \ {t} : queues_msgPeek'[q] = queues_msgPeek[q]
    BY <2>1 DEF QueueInv, QueueLists
  <2>6. QueueLists'
    BY <1>1, <2>1, <2>4, QueueFacts DEF QueueInv, QueueLists
  <2>7. QueueAddressed'
    BY <1>1, <2>5 DEF QueueInv, QueueAddressed
  <2>8. \A q \in QueueThread : QueueManager!Held(q)' \subseteq QueueManager!Held(q)
    BY <1>1, <2>1, <2>5, QueueFacts, HeldNoMore
  <2>9. QueueTypes' /\ QueueStarted' /\ QueueLocked' /\ QueueHeld' /\ QueueKnown' /\ QueueClears'
    BY <1>1, <1>2, <2>3, <2>4, <2>8, ThreadMoves
  <2> QED
    BY <2>6, <2>7, <2>9 DEF QueueInv
<1>4. CASE queues_msgPeek[t] = QueueManager!NoMessage
  <2> DEFINE m == Head(queues_msgq[t])
             a == Tail(queues_msgq[t])
  <2>1. /\ queues_msgq[t] # <<>> /\ UNCHANGED queues_msgPeek
        /\ queues_msgq' = [queues_msgq EXCEPT ![t] = a]
        /\ \/ /\ m.handler = "nobody" /\ UNCHANGED <<queues_at, queues_doing>>
              /\ queues_data' = [queues_data EXCEPT ![m.id] = "kept"]
           \/ m.handler # "nobody" /\ QueueManager!Take(t, m, "taken")
    BY <1>4 DEF QueueManager!Get, QueueManager!IsDispose
  <2>2. /\ m \in QueueManager!Message /\ m \in QueueManager!ToSet(queues_msgq[t])
        /\ a \in Seq(QueueManager!Message)
        /\ QueueManager!ToSet(a) \subseteq QueueManager!ToSet(queues_msgq[t])
    <3>1. queues_msgq[t] \in Seq(QueueManager!Message)
      BY DEF QueueInv, QueueLists
    <3> QED
      BY <2>1, <3>1, ListTaken
  <2> HIDE DEF m, a
  <2>3. /\ queues_msgq'[t] = a
        /\ \A q \in QueueThread \ {t} : queues_msgq'[q] = queues_msgq[q]
    BY <2>1 DEF QueueInv, QueueLists
  <2>4. QueueAddressed'
    BY <1>1, <2>1 DEF QueueInv, QueueAddressed
  <2>5. \A q \in QueueThread : QueueManager!Held(q)' \subseteq QueueManager!Held(q)
    BY <1>1, <2>1, <2>2, <2>3, HeldNoMore
  <2>6. CASE m.handler = "nobody"
    <3>1. queues_data' \in Seq(QueueFate)
      <4>1. queues_data \in Seq(QueueFate)
        BY DEF QueueInv, QueueLists
      <4> QED
        BY <1>2, <2>1, <2>6, <4>1, Marked
    <3>2. QueueLists'
      BY <1>1, <2>1, <2>2, <3>1 DEF QueueInv, QueueLists
    <3>3. /\ queues_doing[t] \in QueueDoing /\ queues_doing[t].handler = "nobody"
          /\ queues_at' = [queues_at EXCEPT ![t] = "loop"]
          /\ queues_doing' = [queues_doing EXCEPT ![t] = queues_doing[t]]
      BY <1>1, <2>1, <2>6, DoingIs
    <3>4. QueueTypes' /\ QueueStarted' /\ QueueLocked' /\ QueueHeld' /\ QueueKnown' /\ QueueClears'
      BY <1>1, <1>2, <2>5, <3>3, ThreadMoves
    <3> QED
      BY <2>4, <3>2, <3>4 DEF QueueInv
  <2>7. CASE m.handler # "nobody"
    <3>1. m.handler \in queues_handlers /\ HandlerHome[m.handler] = t
      BY <2>2, <2>7, HeldIsThere
    <3>2. /\ queues_data' \in Seq(QueueFate)
          /\ queues_at' = [queues_at EXCEPT ![t] = "took"]
          /\ \E d \in QueueDoing : /\ queues_doing' = [queues_doing EXCEPT ![t] = d]
                                   /\ d.handler = "nobody" /\ d.message = m
      BY <1>1, <1>2, <2>1, <2>2, <2>7, TakeMoves
    <3>3. QueueLists'
      BY <1>1, <2>1, <2>2, <3>2 DEF QueueInv, QueueLists
    <3>4. QueueTypes' /\ QueueStarted' /\ QueueLocked' /\ QueueHeld' /\ QueueKnown' /\ QueueClears'
      BY <1>1, <1>2, <2>5, <3>1, <3>2, ThreadMoves
    <3> QED
      BY <2>4, <3>3, <3>4 DEF QueueInv
  <2> QED
    BY <2>6, <2>7
<1> QED
  BY <1>3, <1>4

LEMMA PeekKeeps ==
    ASSUME QueueInv, QueueManager!Peek
    PROVE  QueueInv'
<1> DEFINE m == Head(queues_msgq[1])
           a == Tail(queues_msgq[1])
<1>1. /\ queues_at[1] = "loop" /\ queues_msgq[1] # <<>> /\ m.handler # "nobody"
      /\ queues_msgq' = [queues_msgq EXCEPT ![1] = a]
      /\ queues_msgPeek' = [queues_msgPeek EXCEPT ![1] = m]
      /\ UNCHANGED <<queues_dmsgq, queues_sendlist, queues_fStop, queues_started,
                     queues_exists, queues_active, queues_message_queues, queues_manager,
                     queues_crit, queues_handlers, queues_stale, queues_at, queues_doing,
                     queues_data>>
  BY DEF QueueManager!Peek, QueueManager!Ready, QueueManager!IsDispose,
         QueueManager!thread_vars, QueueManager!lock_vars
<1>2. /\ m \in QueueManager!Message /\ m \in QueueManager!ToSet(queues_msgq[1])
      /\ a \in Seq(QueueManager!Message)
      /\ QueueManager!ToSet(a) \subseteq QueueManager!ToSet(queues_msgq[1])
  <2>1. queues_msgq[1] \in Seq(QueueManager!Message)
    BY QueueFacts DEF QueueInv, QueueLists
  <2> QED
    BY <1>1, <2>1, ListTaken
<1> HIDE DEF m, a
<1>3. /\ queues_msgq'[1] = a /\ queues_msgPeek'[1] = m
      /\ \A q \in QueueThread \ {1} : queues_msgq'[q] = queues_msgq[q]
                                      /\ queues_msgPeek'[q] = queues_msgPeek[q]
  BY <1>1, QueueFacts DEF QueueInv, QueueLists
<1>4. QueueLists'
  BY <1>1, <1>2, QueueFacts DEF QueueInv, QueueLists
<1>5. QueueAddressed'
  BY <1>1, <1>3 DEF QueueInv, QueueAddressed
<1>6. \A q \in QueueThread : QueueManager!Held(q)' \subseteq QueueManager!Held(q)
  BY <1>1, <1>2, <1>3, HeldNoMore
<1>7. queues_stale' = FALSE
  BY <1>1 DEF QueueInv, QueueHeld
<1>8. /\ queues_doing[1] \in QueueDoing /\ queues_doing[1].handler = "nobody"
      /\ queues_at' = [queues_at EXCEPT ![1] = "loop"]
      /\ queues_doing' = [queues_doing EXCEPT ![1] = queues_doing[1]]
  BY <1>1, DoingIs, QueueFacts
<1>9. QueueTypes' /\ QueueStarted' /\ QueueLocked' /\ QueueHeld' /\ QueueKnown' /\ QueueClears'
  BY <1>1, <1>6, <1>7, <1>8, ThreadMoves, QueueFacts
<1> QED
  BY <1>4, <1>5, <1>9 DEF QueueInv

\* A handler is called while it is there.
LEMMA DispatchKeeps ==
    ASSUME QueueInv, NEW t \in QueueThread, QueueManager!Dispatch(t)
    PROVE  QueueInv'
<1>1. /\ queues_at[t] = "took" /\ queues_at' = [queues_at EXCEPT ![t] = "handler"]
      /\ queues_stale' = (queues_stale \/ queues_doing[t].message.handler \notin queues_handlers)
      /\ UNCHANGED QueueManager!queue_vars
      /\ UNCHANGED <<queues_fStop, queues_started, queues_exists, queues_active,
                     queues_message_queues, queues_manager, queues_crit, queues_handlers,
                     queues_doing, queues_data>>
  BY DEF QueueManager!Dispatch, QueueManager!thread_vars, QueueManager!lock_vars
<1>2. queues_doing[t] \in QueueDoing /\ queues_doing[t].handler = "nobody"
      /\ queues_doing' = [queues_doing EXCEPT ![t] = queues_doing[t]]
  BY <1>1, DoingIs
<1>3. queues_stale' = FALSE
  BY <1>1 DEF QueueInv, QueueHeld
<1>4. QueueLists' /\ QueueAddressed' /\ \A q : QueueManager!Held(q)' = QueueManager!Held(q)
  BY <1>1, QueuesKept DEF QueueInv, QueueLists
<1>5. QueueTypes' /\ QueueStarted' /\ QueueLocked' /\ QueueHeld' /\ QueueKnown' /\ QueueClears'
  BY <1>1, <1>2, <1>3, <1>4, ThreadMoves
<1> QED
  BY <1>4, <1>5 DEF QueueInv

LEMMA ReturnKeeps ==
    ASSUME QueueInv, NEW t \in QueueThread, QueueManager!Return(t)
    PROVE  QueueInv'
<1>1. /\ queues_at[t] = "handler" /\ queues_at' = [queues_at EXCEPT ![t] = "loop"]
      /\ queues_doing' = [queues_doing EXCEPT ![t] = QueueManager!Nothing]
      /\ queues_data' = [queues_data EXCEPT ![queues_doing[t].message.id] = "taken"]
      /\ UNCHANGED QueueManager!queue_vars
      /\ UNCHANGED <<queues_fStop, queues_started, queues_exists, queues_active,
                     queues_message_queues, queues_manager, queues_crit, queues_handlers,
                     queues_stale>>
  BY DEF QueueManager!Return, QueueManager!thread_vars, QueueManager!lock_vars
<1>2. queues_data' \in Seq(QueueFate) /\ queues_stale' = FALSE
  <2>1. queues_data \in Seq(QueueFate) /\ queues_stale = FALSE
    BY DEF QueueInv, QueueLists, QueueHeld
  <2>2. "taken" \in QueueFate
    BY DEF QueueFate
  <2> QED
    BY <1>1, <2>1, <2>2, Marked
<1>3. QueueLists' /\ QueueAddressed' /\ \A q : QueueManager!Held(q)' = QueueManager!Held(q)
  BY <1>1, <1>2, QueuesKept
<1>4. QueueTypes' /\ QueueStarted' /\ QueueLocked' /\ QueueHeld' /\ QueueKnown' /\ QueueClears'
  BY <1>1, <1>2, <1>3, ThreadMoves, QueueFacts
<1> QED
  BY <1>3, <1>4 DEF QueueInv

LEMMA LoopEndsKeeps ==
    ASSUME QueueInv, NEW t \in QueueThread, QueueManager!LoopEnds(t)
    PROVE  QueueInv'
<1>1. /\ queues_at[t] = "loop" /\ queues_at' = [queues_at EXCEPT ![t] = "ended"]
      /\ UNCHANGED QueueManager!queue_vars
      /\ UNCHANGED <<queues_fStop, queues_started, queues_exists, queues_active,
                     queues_message_queues, queues_manager, queues_crit, queues_handlers,
                     queues_doing, queues_data, queues_stale>>
  BY DEF QueueManager!LoopEnds, QueueManager!Ready, QueueManager!thread_vars,
         QueueManager!lock_vars
<1>2. queues_doing[t] \in QueueDoing /\ queues_doing[t].handler = "nobody"
      /\ queues_doing' = [queues_doing EXCEPT ![t] = queues_doing[t]]
  BY <1>1, DoingIs
<1>3. QueueLists' /\ QueueAddressed' /\ \A q : QueueManager!Held(q)' = QueueManager!Held(q)
  BY <1>1, QueuesKept DEF QueueInv, QueueLists
<1>4. queues_stale' = FALSE
  BY <1>1 DEF QueueInv, QueueHeld
<1>5. QueueTypes' /\ QueueStarted' /\ QueueLocked' /\ QueueHeld' /\ QueueKnown' /\ QueueClears'
  BY <1>1, <1>2, <1>3, <1>4, ThreadMoves
<1> QED
  BY <1>3, <1>5 DEF QueueInv

\* A thread that destroys a handler holds the manager's lock.
LEMMA NobodyClears ==
    ASSUME QueueInv, queues_manager = 0
    PROVE  \A t \in QueueThread : queues_at[t] # "clear"
BY QueueFacts DEF QueueInv, QueueClears

\* The steps in which no handler is being destroyed.
LEMMA ClearsNothing ==
    ASSUME QueueInv, NEW t \in QueueThread,
           \A u \in QueueThread : queues_at[u] # "clear",
           \A u \in QueueThread \ {t} : queues_at'[u] = queues_at[u]
                                        /\ queues_doing'[u] = queues_doing[u],
           queues_at'[t] # "clear", queues_doing'[t].handler = queues_doing[t].handler
    PROVE  QueueClears'
<1>1. \A u \in QueueThread : queues_doing[u].handler = "nobody"
  BY DEF QueueInv, QueueClears
<1>2. \A u \in QueueThread : queues_at'[u] # "clear" /\ queues_doing'[u].handler = "nobody"
  BY <1>1
<1> QED
  BY <1>2 DEF QueueClears

LEMMA AddKeeps ==
    ASSUME QueueInv, NEW t \in QueueThread, QueueManager!Add(t)
    PROVE  QueueInv'
<1>1. PICK q \in QueueThread : queues_doing[t].queues = <<q>> /\ queues_crit[q] = t
  BY DEF QueueManager!Add, QueueInv, QueueLocked
<1>2. Head(<<q>>) = q
  OBVIOUS
<1> DEFINE d == [queues_doing[t] EXCEPT !.queues = <<>>]
           p == queues_doing[t].back
<1>3. /\ queues_at[t] = "add" /\ queues_manager = 0
      /\ queues_active' = queues_active \cup {q}
      /\ queues_message_queues' = Append(queues_message_queues, q)
      /\ queues_crit' = [queues_crit EXCEPT ![q] = 0]
      /\ queues_at' = [queues_at EXCEPT ![t] = p]
      /\ UNCHANGED QueueManager!queue_vars
      /\ UNCHANGED <<queues_fStop, queues_started, queues_exists, queues_manager,
                     queues_handlers, queues_data, queues_stale>>
  BY <1>1, <1>2 DEF QueueManager!Add, QueueManager!Listed, QueueManager!thread_vars
<1>4. queues_doing[t] \in QueueDoing /\ queues_doing[t].handler = "nobody"
  BY <1>3, DoingIs
<1>5. /\ d \in QueueDoing /\ d.handler = "nobody" /\ d.queues = <<>>
      /\ p \in {"loop", "handler", "send"}
  <2>1. <<>> \in Seq(QueueThread)
    OBVIOUS
  <2> QED
    BY <1>4, <2>1 DEF QueueDoing
<1>6. queues_doing' = [queues_doing EXCEPT ![t] = d]
  BY DEF QueueManager!Add, QueueInv, QueueTypes
<1> HIDE DEF d, p
<1>7. /\ queues_at'[t] = p /\ queues_doing'[t] = d /\ queues_crit'[q] = 0
      /\ \A u \in QueueThread \ {t} : queues_at'[u] = queues_at[u]
                                      /\ queues_doing'[u] = queues_doing[u]
      /\ \A o \in QueueThread \ {q} : queues_crit'[o] = queues_crit[o]
  BY <1>3, <1>6 DEF QueueInv, QueueTypes
<1>8. /\ queues_message_queues \in Seq(QueueThread)
      /\ q \notin queues_active /\ q \in queues_exists /\ t \in queues_started
  <2>1. queues_message_queues \in Seq(QueueThread) /\ t \in queues_started
    BY <1>3 DEF QueueInv, QueueTypes, QueueStarted
  <2>2. queues_crit[q] # 0
    BY <1>1, QueueFacts
  <2> QED
    BY <2>1, <2>2 DEF QueueInv, QueueLocked
<1>9. /\ queues_message_queues' \in Seq(QueueThread)
      /\ QueueManager!ToSet(queues_message_queues)' = QueueManager!ToSet(queues_message_queues) \cup {q}
  BY <1>3, <1>8, ListAppended
<1>10. QueueLists' /\ QueueAddressed' /\ \A o : QueueManager!Held(o)' = QueueManager!Held(o)
  BY <1>3, QueuesKept DEF QueueInv, QueueLists
<1>11. QueueTypes'
  BY <1>3, <1>5, <1>6, <1>9 DEF QueueInv, QueueTypes, QueuePlace
<1>12. QueueStarted'
  BY <1>3, <1>5, <1>7, <1>8 DEF QueueInv, QueueStarted
<1>13. QueueLocked'
  <2>1. ASSUME NEW o \in QueueThread, queues_crit'[o] # 0
        PROVE  /\ queues_at'[queues_crit'[o]] = "add"
               /\ queues_doing'[queues_crit'[o]].queues = <<o>>
               /\ o \notin queues_active' /\ o \in queues_exists'
    <3>1. o # q /\ queues_crit'[o] = queues_crit[o]
      BY <1>7, <2>1
    <3>2. /\ queues_at[queues_crit[o]] = "add" /\ queues_doing[queues_crit[o]].queues = <<o>>
          /\ o \notin queues_active /\ o \in queues_exists /\ queues_crit[o] \in QueueThread
      BY <2>1, <3>1 DEF QueueInv, QueueLocked, QueueTypes
    <3>3. queues_crit[o] # t
      <4>1. <<o>> # <<q>>
        BY <3>1
      <4> QED
        BY <1>1, <3>2, <4>1
    <3> QED
      BY <1>3, <1>7, <3>1, <3>2, <3>3
  <2>2. ASSUME NEW u \in QueueThread, queues_at'[u] = "add"
        PROVE  \E o \in QueueThread : queues_doing'[u].queues = <<o>> /\ queues_crit'[o] = u
    <3>1. u # t /\ queues_at[u] = "add" /\ queues_doing'[u] = queues_doing[u]
      BY <1>5, <1>7, <2>2
    <3>2. PICK o \in QueueThread : queues_doing[u].queues = <<o>> /\ queues_crit[o] = u
      BY <3>1 DEF QueueInv, QueueLocked
    <3>3. o # q
      BY <1>1, <3>1, <3>2
    <3> QED
      BY <1>7, <3>1, <3>2, <3>3
  <2> QED
    BY <2>1, <2>2 DEF QueueLocked
<1>14. QueueHeld'
  <2>1. \A u \in QueueThread : queues_at'[u] = "took" =>
            queues_at[u] = "took" /\ queues_doing'[u] = queues_doing[u]
    BY <1>5, <1>7
  <2> QED
    BY <1>3, <1>10, <2>1 DEF QueueInv, QueueHeld
<1>15. QueueKnown'
  <2>1. QueueManager!ToSet(queues_message_queues)' = (queues_active \cap queues_exists)'
    BY <1>3, <1>8, <1>9 DEF QueueInv, QueueKnown
  <2>2. ASSUME NEW j \in 1 .. Len(queues_message_queues'), NEW k \in 1 .. Len(queues_message_queues'),
               queues_message_queues'[j] = queues_message_queues'[k]
        PROVE  j = k
    <3> DEFINE s == queues_message_queues
               n == Len(s)
    <3>1. /\ n \in Nat /\ Len(queues_message_queues') = n + 1
          /\ queues_message_queues'[n + 1] = q
          /\ \A i \in 1 .. n : queues_message_queues'[i] = s[i]
          /\ DOMAIN s = 1 .. n
      BY <1>3, <1>8
    <3>2. \A i \in 1 .. n : s[i] # q
      <4>1. q \notin QueueManager!ToSet(s)
        BY <1>8 DEF QueueInv, QueueKnown
      <4> QED
        BY <3>1, <4>1 DEF QueueManager!ToSet
    <3>3. \A i, l \in 1 .. n : s[i] = s[l] => i = l
      BY DEF QueueInv, QueueKnown
    <3> HIDE DEF n, s
    <3>4. (j \in 1 .. n \/ j = n + 1) /\ (k \in 1 .. n \/ k = n + 1)
      BY <2>2, <3>1
    <3> QED
      BY <2>2, <3>1, <3>2, <3>3, <3>4
  <2>3. ASSUME NEW o \in queues_exists, QueueManager!Held(o)' # {}, queues_crit'[o] = 0
        PROVE  o \in queues_active'
    <3>1. o \in QueueThread
      BY DEF QueueInv, QueueTypes
    <3> QED
      BY <1>3, <1>7, <1>10, <2>3, <3>1 DEF QueueInv, QueueKnown
  <2>4. \A o \in QueueThread \ queues_exists : QueueManager!Held(o)' = {}
    BY <1>10 DEF QueueInv, QueueKnown
  <2> QED
    BY <1>3, <2>1, <2>2, <2>3, <2>4 DEF QueueKnown
<1>16. QueueClears'
  <2>1. \A u \in QueueThread : queues_at[u] # "clear"
    BY <1>3, NobodyClears
  <2> QED
    BY <1>4, <1>5, <1>7, <2>1, ClearsNothing
<1> QED
  BY <1>10, <1>11, <1>12, <1>13, <1>14, <1>15, <1>16 DEF QueueInv

LEMMA QueueSendKeeps ==
    ASSUME QueueInv, NEW q \in QueueThread, NEW h \in QueueHandler, QueueManager!Send(q, h)
    PROVE  QueueInv'
<1> DEFINE m == QueueManager!NewMessage(h)
           a == Append(queues_sendlist[q], m)
           d == [queues_doing[1] EXCEPT !.resume = queues_at[1], !.queues = <<q>>, !.back = "send"]
<1>1. /\ queues_at[1] \in {"loop", "handler"} /\ q \in queues_exists /\ queues_crit[q] = 0
      /\ QueueManager!Alive(h) /\ HandlerHome[h] = q
      /\ queues_sendlist' = [queues_sendlist EXCEPT ![q] = a]
      /\ queues_data' = Append(queues_data, "queued")
      /\ \/ /\ q \in queues_active /\ queues_at' = [queues_at EXCEPT ![1] = "send"]
            /\ UNCHANGED queues_crit
         \/ /\ q \notin queues_active /\ queues_at' = [queues_at EXCEPT ![1] = "add"]
            /\ queues_crit' = [queues_crit EXCEPT ![q] = 1]
      /\ UNCHANGED <<queues_msgq, queues_dmsgq, queues_msgPeek, queues_fStop, queues_started,
                     queues_exists, queues_active, queues_message_queues, queues_manager,
                     queues_handlers, queues_stale>>
  BY DEF QueueManager!Send, QueueManager!Calls, QueueManager!Free, QueueManager!thread_vars
<1>2. m \in QueueManager!Message /\ m.handler = h /\ queues_data' \in Seq(QueueFate)
  BY <1>1, MessageIsNew
<1>3. h # "nobody"
  BY QueueFacts
<1> HIDE DEF m
<1>4. /\ a \in Seq(QueueManager!Message)
      /\ QueueManager!ToSet(a) = QueueManager!ToSet(queues_sendlist[q]) \cup {m}
  <2>1. queues_sendlist[q] \in Seq(QueueManager!Message)
    BY DEF QueueInv, QueueLists
  <2> QED
    BY <1>2, <2>1, ListAppended
<1> HIDE DEF a
<1>5. /\ queues_sendlist'[q] = a
      /\ \A o \in QueueThread \ {q} : queues_sendlist'[o] = queues_sendlist[o]
  BY <1>1 DEF QueueInv, QueueLists
<1>6. QueueLists'
  BY <1>1, <1>2, <1>4 DEF QueueInv, QueueLists
<1>7. QueueAddressed'
  BY <1>1, <1>2, <1>3, <1>4, <1>5 DEF QueueInv, QueueAddressed
<1>8. \A o \in QueueThread \ {q} : QueueManager!Held(o)' = QueueManager!Held(o)
  BY <1>1, <1>5 DEF QueueManager!Held
<1>9. QueueManager!Held(q)' = QueueManager!Held(q) \cup ({h} \ {"nobody"})
  <2>1. \A x : x \in QueueManager!Held(q)' <=>
            x \in QueueManager!Held(q) \/ (x = h /\ h # "nobody")
    BY <1>1, <1>2, <1>4, <1>5 DEF QueueManager!Held
  <2> QED
    BY <2>1
<1>10. queues_doing[1] \in QueueDoing
  BY DoingIs, QueueFacts
<1>11. /\ d \in QueueDoing /\ d.queues = <<q>> /\ d.handler = queues_doing[1].handler
  <2>1. <<q>> \in Seq(QueueThread)
    OBVIOUS
  <2> QED
    BY <1>1, <1>10, <2>1 DEF QueueDoing
<1>12. queues_doing' = [queues_doing EXCEPT ![1] = d]
  BY QueueFacts DEF QueueManager!Send, QueueInv, QueueTypes
<1> HIDE DEF d
<1>13. QueueTypes'
  <2>1. queues_at' \in [QueueThread -> QueuePlace]
    BY <1>1 DEF QueueInv, QueueTypes, QueuePlace
  <2>2. queues_crit' \in [QueueThread -> QueueThread \cup {0}]
    BY <1>1, QueueFacts DEF QueueInv, QueueTypes
  <2>3. queues_doing' \in [QueueThread -> QueueDoing]
    BY <1>11, <1>12 DEF QueueInv, QueueTypes
  <2> QED
    BY <1>1, <2>1, <2>2, <2>3 DEF QueueInv, QueueTypes
<1>14. /\ queues_doing'[1] = d
       /\ \A u \in QueueThread \ {1} : queues_at'[u] = queues_at[u]
                                       /\ queues_doing'[u] = queues_doing[u]
       /\ \A o \in QueueThread \ {q} : queues_crit'[o] = queues_crit[o]
       /\ \/ queues_at'[1] = "send" /\ q \in queues_active /\ UNCHANGED queues_crit
          \/ /\ queues_at'[1] = "add" /\ queues_doing'[1].queues = <<q>>
             /\ q \notin queues_active /\ queues_crit'[q] = 1
  BY <1>1, <1>11, <1>12, QueueFacts DEF QueueInv, QueueTypes
<1>15. QueueStarted' /\ QueueLocked' /\ QueueHeld' /\ QueueKnown' /\ QueueClears'
  <2>1. 1 \in QueueThread /\ h \in QueueHandler \cup {"nobody"}
    BY QueueFacts
  <2>2. queues_doing'[1].handler = queues_doing[1].handler
    BY <1>11, <1>14
  <2>3. \/ queues_at'[1] = "send" /\ 1 = 1 /\ q \in queues_active /\ UNCHANGED queues_crit
        \/ UNCHANGED <<queues_at, queues_doing, queues_crit>> /\ q \in queues_active
        \/ /\ queues_at'[1] = "add" /\ queues_doing'[1].queues = <<q>>
           /\ q \notin queues_active /\ queues_crit'[q] = 1
    BY <1>14
  <2> QED
    BY <1>1, <1>8, <1>9, <1>14, <2>1, <2>2, <2>3, HandlerJoins
<1> QED
  BY <1>6, <1>7, <1>13, <1>15 DEF QueueInv

\* A handler that is destroyed: its queue is in the manager's list if it holds
\* anything for it.
LEMMA DestroyKeeps ==
    ASSUME QueueInv, NEW t \in QueueThread, NEW h \in QueueHandler,
           QueueManager!DestroyHandler(t, h)
    PROVE  QueueInv'
<1> DEFINE d == [queues_doing[t] EXCEPT !.handler = h, !.queues = queues_message_queues,
                                        !.back = queues_at[t]]
           o == HandlerHome[h]
<1>1. /\ queues_at[t] \in {"loop", "handler"} /\ queues_manager = 0
      /\ h \in queues_handlers
      /\ \/ o = t
         \/ t = 1 /\ o \notin queues_started
      /\ \A u \in QueueThread : queues_at[u] = "add" => Head(queues_doing[u].queues) # o
      /\ queues_manager' = t
      /\ queues_at' = [queues_at EXCEPT ![t] = "clear"]
      /\ UNCHANGED QueueManager!queue_vars
      /\ UNCHANGED <<queues_fStop, queues_started, queues_exists, queues_active,
                     queues_message_queues, queues_crit, queues_handlers, queues_data,
                     queues_stale>>
  BY DEF QueueManager!DestroyHandler, QueueManager!Calls, QueueManager!Alive,
         QueueManager!thread_vars
<1>2. queues_doing[t] \in QueueDoing /\ queues_message_queues \in Seq(QueueThread)
  BY DEF QueueInv, QueueTypes
<1>3. /\ d \in QueueDoing /\ d.handler = h /\ d.queues = queues_message_queues
      /\ d.back \in {"loop", "handler"}
  BY <1>1, <1>2 DEF QueueDoing
<1>4. queues_doing' = [queues_doing EXCEPT ![t] = d]
  BY DEF QueueManager!DestroyHandler, QueueInv, QueueTypes
<1> HIDE DEF d
<1>5. /\ queues_at'[t] = "clear" /\ queues_doing'[t] = d
      /\ \A u \in QueueThread \ {t} : queues_at'[u] = queues_at[u]
                                      /\ queues_doing'[u] = queues_doing[u]
  BY <1>1, <1>4 DEF QueueInv, QueueTypes
<1>6. QueueLists' /\ QueueAddressed' /\ \A q : QueueManager!Held(q)' = QueueManager!Held(q)
  BY <1>1, QueuesKept DEF QueueInv, QueueLists
<1>7. QueueTypes'
  BY <1>1, <1>3, <1>4 DEF QueueInv, QueueTypes, QueuePlace
<1>8. QueueStarted'
  BY <1>1, <1>5 DEF QueueInv, QueueStarted
<1>9. QueueLocked'
  <2>1. ASSUME NEW q \in QueueThread, queues_crit[q] # 0
        PROVE  /\ queues_at'[queues_crit[q]] = "add" /\ queues_doing'[queues_crit[q]].queues = <<q>>
               /\ q \notin queues_active /\ q \in queues_exists
    <3>1. /\ queues_at[queues_crit[q]] = "add" /\ queues_doing[queues_crit[q]].queues = <<q>>
          /\ q \notin queues_active /\ q \in queues_exists /\ queues_crit[q] \in QueueThread
      BY <2>1 DEF QueueInv, QueueLocked, QueueTypes
    <3>2. queues_crit[q] # t
      BY <1>1, <3>1
    <3> QED
      BY <1>5, <3>1, <3>2
  <2>2. \A u \in QueueThread : queues_at'[u] = "add" =>
            \E q \in QueueThread : queues_doing'[u].queues = <<q>> /\ queues_crit[q] = u
    <3>1. \A u \in QueueThread : queues_at'[u] = "add" =>
              u # t /\ queues_at[u] = "add" /\ queues_doing'[u] = queues_doing[u]
      BY <1>5
    <3> QED
      BY <3>1 DEF QueueInv, QueueLocked
  <2> QED
    BY <1>1, <2>1, <2>2 DEF QueueLocked
<1>10. QueueHeld'
  <2>1. \A u \in QueueThread : queues_at'[u] = "took" =>
            queues_at[u] = "took" /\ queues_doing'[u] = queues_doing[u]
    BY <1>5
  <2> QED
    BY <1>1, <1>6, <2>1 DEF QueueInv, QueueHeld
<1>11. QueueKnown'
  BY <1>1, <1>6 DEF QueueInv, QueueKnown
<1>12. QueueClears'
  <2>1. o \in QueueThread /\ h # "nobody"
    BY QueueFacts
  <2>2. ASSUME h \in QueueManager!Held(o)
        PROVE  o \in QueueManager!ToSet(queues_message_queues)
    <3>1. o \in queues_exists /\ (queues_crit[o] = 0 => o \in queues_active)
      BY <2>1, <2>2 DEF QueueInv, QueueKnown
    <3>2. queues_crit[o] = 0
      <4> SUFFICES ASSUME queues_crit[o] # 0
                   PROVE  FALSE
        OBVIOUS
      <4>1. /\ queues_crit[o] \in QueueThread /\ queues_at[queues_crit[o]] = "add"
            /\ queues_doing[queues_crit[o]].queues = <<o>>
        BY <2>1 DEF QueueInv, QueueLocked, QueueTypes
      <4>2. Head(<<o>>) = o
        OBVIOUS
      <4> QED
        BY <1>1, <4>1, <4>2
    <3> QED
      BY <3>1, <3>2 DEF QueueInv, QueueKnown
  <2>3. h \in QueueManager!Held(o)' => o \in QueueManager!ToSet(d.queues)
    BY <1>3, <1>6, <2>2
  <2>4. \A u \in QueueThread : queues_at[u] # "clear" /\ queues_doing[u].handler = "nobody"
    BY <1>1, NobodyClears DEF QueueInv, QueueClears
  <2>5. \A u \in QueueThread \ {t} : queues_at'[u] # "clear" /\ queues_doing'[u].handler = "nobody"
    BY <1>5, <2>4
  <2>6. QueueManager!ToSet(queues_doing'[t].queues) = QueueManager!ToSet(d.queues)
    BY <1>5
  <2>7. h = queues_doing'[t].handler
    BY <1>3, <1>5
  <2>8. ASSUME NEW u \in QueueThread
        PROVE  /\ queues_doing'[u].handler # "nobody" <=> queues_at'[u] = "clear"
               /\ queues_at'[u] = "clear" =>
                      /\ u = t /\ queues_doing'[u].handler = h
                      /\ queues_doing'[u].back \in {"loop", "handler"}
    BY <1>3, <1>5, <2>1, <2>5
  <2> QED
    BY <1>1, <2>3, <2>6, <2>7, <2>8 DEF QueueClears
<1> QED
  BY <1>6, <1>7, <1>8, <1>9, <1>10, <1>11, <1>12 DEF QueueInv

\* A queue that is cleared of what is for a handler, or of everything.
LEMMA ClearRemoves ==
    ASSUME QueueInv, NEW q \in QueueThread, NEW h \in QueueHandler \cup {"nobody"},
           QueueManager!Clear(q, h)
    PROVE  /\ QueueLists' /\ QueueAddressed'
           /\ \A o \in QueueThread \ {q} : QueueManager!Held(o)' = QueueManager!Held(o)
           /\ QueueManager!Held(q)' \subseteq QueueManager!Held(q)
           /\ h \notin QueueManager!Held(q)'
           /\ h = "nobody" => QueueManager!Held(q)' = {}
<1> DEFINE a == QueueManager!Keep(queues_msgq[q], h)
           b == QueueManager!Keep(queues_dmsgq[q], h)
           c == QueueManager!Keep(queues_sendlist[q], h)
           M(m) == QueueManager!Matches(m, h)
<1>1. /\ queues_msgq' = [queues_msgq EXCEPT ![q] = a]
      /\ queues_dmsgq' = [queues_dmsgq EXCEPT ![q] = b]
      /\ queues_sendlist' = [queues_sendlist EXCEPT ![q] = c]
      /\ queues_msgPeek' = IF M(queues_msgPeek[q])
                           THEN [queues_msgPeek EXCEPT ![q] = QueueManager!NoMessage]
                           ELSE queues_msgPeek
  BY DEF QueueManager!Clear, QueueManager!KeptSends, QueueManager!PeekCleared
<1>2. /\ a \in Seq(QueueManager!Message) /\ b \in Seq(QueueManager!Message)
      /\ c \in Seq(QueueManager!Message)
      /\ \A m \in QueueManager!ToSet(a) : m \in QueueManager!ToSet(queues_msgq[q]) /\ ~M(m)
      /\ \A m \in QueueManager!ToSet(b) : m \in QueueManager!ToSet(queues_dmsgq[q]) /\ ~M(m)
      /\ \A m \in QueueManager!ToSet(c) : m \in QueueManager!ToSet(queues_sendlist[q]) /\ ~M(m)
  <2>1. /\ queues_msgq[q] \in Seq(QueueManager!Message)
        /\ queues_dmsgq[q] \in Seq(QueueManager!Message)
        /\ queues_sendlist[q] \in Seq(QueueManager!Message)
    BY DEF QueueInv, QueueLists
  <2> HIDE DEF M
  <2> QED
    BY <2>1, ListKept DEF M
<1>3. \A m : ~M(m) => m.handler # h /\ h # "nobody"
  BY DEF QueueManager!Matches
<1> HIDE DEF a, b, c, M
<1>4. /\ queues_msgq'[q] = a /\ queues_dmsgq'[q] = b /\ queues_sendlist'[q] = c
      /\ queues_msgPeek'[q] = QueueManager!NoMessage
         \/ (queues_msgPeek'[q] = queues_msgPeek[q] /\ ~M(queues_msgPeek[q]))
      /\ \A o \in QueueThread \ {q} :
             /\ queues_msgq'[o] = queues_msgq[o] /\ queues_dmsgq'[o] = queues_dmsgq[o]
             /\ queues_sendlist'[o] = queues_sendlist[o]
             /\ queues_msgPeek'[o] = queues_msgPeek[o]
  BY <1>1 DEF QueueInv, QueueLists
<1>5. QueueLists'
  <2>1. queues_data' \in Seq(QueueFate)
    <3>1. PICK S : queues_data' = [k \in DOMAIN queues_data |->
                                       IF k \in S THEN "deleted" ELSE queues_data[k]]
      BY DEF QueueManager!Clear
    <3>2. queues_data \in Seq(QueueFate) /\ "deleted" \in QueueFate
      BY DEF QueueInv, QueueLists, QueueFate
    <3>3. DOMAIN queues_data = 1 .. Len(queues_data) /\ Len(queues_data) \in Nat
          /\ \A k \in 1 .. Len(queues_data) : queues_data[k] \in QueueFate
      BY <3>2
    <3> DEFINE n == Len(queues_data)
               f == [k \in 1 .. n |-> IF k \in S THEN "deleted" ELSE queues_data[k]]
    <3>4. queues_data' = f
      BY <3>1, <3>3
    <3> HIDE DEF n
    <3>5. n \in Nat /\ \A k \in 1 .. n : (IF k \in S THEN "deleted" ELSE queues_data[k]) \in QueueFate
      BY <3>2, <3>3 DEF n
    <3>6. f \in Seq(QueueFate)
      BY <3>5
    <3> QED
      BY <3>4, <3>6
  <2>2. queues_msgPeek' \in [QueueThread -> QueueManager!Message]
    BY <1>1, QueueFacts DEF QueueInv, QueueLists
  <2> QED
    BY <1>1, <1>2, <2>1, <2>2 DEF QueueInv, QueueLists
<1>6. QueueAddressed'
  <2>1. \A o \in QueueThread : \A m \in QueueManager!ToSet(queues_sendlist'[o]) : m.handler # "nobody"
    BY <1>2, <1>4 DEF QueueInv, QueueAddressed
  <2>2. \A o \in QueueThread :
            queues_msgPeek'[o].handler = "nobody" => queues_msgPeek'[o] = QueueManager!NoMessage
    BY <1>4 DEF QueueInv, QueueAddressed
  <2> QED
    BY <2>1, <2>2 DEF QueueAddressed
<1>7. \A o \in QueueThread \ {q} : QueueManager!Held(o)' = QueueManager!Held(o)
  BY <1>4 DEF QueueManager!Held
<1>8. QueueManager!Held(q)' \subseteq QueueManager!Held(q)
  BY <1>2, <1>4, QueueFacts, HeldNoMore
<1>9. \A x \in QueueManager!Held(q)' : x # h /\ h # "nobody"
  <2>1. \A x \in QueueManager!Held(q)' :
            /\ x # "nobody"
            /\ \E m : m.handler = x /\ (\/ m \in QueueManager!ToSet(a)
                                       \/ m \in QueueManager!ToSet(b)
                                       \/ m \in QueueManager!ToSet(c)
                                       \/ m = queues_msgPeek'[q])
    BY <1>4 DEF QueueManager!Held
  <2> QED
    BY <1>2, <1>3, <1>4, <2>1, QueueFacts
<1> QED
  BY <1>5, <1>6, <1>7, <1>8, <1>9

LEMMA ClearNextKeeps ==
    ASSUME QueueInv, NEW t \in QueueThread, QueueManager!ClearNext(t)
    PROVE  QueueInv'
<1> PICK q, h : q = Head(queues_doing[t].queues) /\ h = queues_doing[t].handler
  OBVIOUS
<1> DEFINE l == queues_doing[t].queues
           d == [queues_doing[t] EXCEPT !.queues = Tail(l)]
<1>1. /\ queues_at[t] = "clear" /\ l # <<>>
      /\ QueueManager!Clear(q, h)
      /\ UNCHANGED <<queues_fStop, queues_started, queues_exists, queues_active,
                     queues_message_queues, queues_manager, queues_crit, queues_handlers,
                     queues_at, queues_stale>>
  BY DEF QueueManager!ClearNext, QueueManager!thread_vars, QueueManager!lock_vars
<1>2. queues_doing[t] \in QueueDoing /\ l \in Seq(QueueThread)
  BY DEF QueueInv, QueueTypes, QueueDoing
<1>3. /\ q \in QueueThread /\ Tail(l) \in Seq(QueueThread)
      /\ QueueManager!ToSet(l) \subseteq QueueManager!ToSet(Tail(l)) \cup {q}
  BY <1>1, <1>2, ListTaken
<1>4. /\ d \in QueueDoing /\ d.handler = h /\ d.queues = Tail(l)
      /\ d.back = queues_doing[t].back /\ d.message = queues_doing[t].message
  BY <1>2, <1>3 DEF QueueDoing
<1>5. queues_doing' = [queues_doing EXCEPT ![t] = d]
  BY DEF QueueManager!ClearNext, QueueInv, QueueTypes
<1>6. /\ h \in queues_handlers /\ h \in QueueHandler /\ h # "nobody" /\ queues_manager = t
      /\ \/ HandlerHome[h] = t
         \/ t = 1 /\ HandlerHome[h] \notin queues_started
      /\ queues_doing[t].back \in {"loop", "handler"}
      /\ h \in QueueManager!Held(HandlerHome[h]) => HandlerHome[h] \in QueueManager!ToSet(l)
  BY <1>1, QueueFacts DEF QueueInv, QueueClears, QueueTypes
<1> HIDE DEF d
<1>7. /\ QueueLists' /\ QueueAddressed'
      /\ \A o \in QueueThread \ {q} : QueueManager!Held(o)' = QueueManager!Held(o)
      /\ QueueManager!Held(q)' \subseteq QueueManager!Held(q)
      /\ h \notin QueueManager!Held(q)'
  BY <1>1, <1>3, <1>6, ClearRemoves
<1>8. /\ queues_doing'[t] = d
      /\ \A u \in QueueThread \ {t} : queues_doing'[u] = queues_doing[u]
  BY <1>5 DEF QueueInv, QueueTypes
<1>9. QueueTypes'
  BY <1>1, <1>4, <1>5 DEF QueueInv, QueueTypes
<1>10. QueueStarted'
  BY <1>1 DEF QueueInv, QueueStarted
<1>11. \A u \in QueueThread : queues_at[u] # "clear" => queues_doing'[u] = queues_doing[u]
  BY <1>1, <1>8
<1>12. QueueLocked'
  <2>1. ASSUME NEW o \in QueueThread, queues_crit[o] # 0
        PROVE  /\ queues_at[queues_crit[o]] = "add" /\ queues_doing'[queues_crit[o]].queues = <<o>>
               /\ o \notin queues_active /\ o \in queues_exists
    <3>1. /\ queues_at[queues_crit[o]] = "add" /\ queues_doing[queues_crit[o]].queues = <<o>>
          /\ o \notin queues_active /\ o \in queues_exists /\ queues_crit[o] \in QueueThread
      BY <2>1 DEF QueueInv, QueueLocked, QueueTypes
    <3> QED
      BY <1>11, <3>1
  <2>2. \A u \in QueueThread : queues_at[u] = "add" =>
            \E o \in QueueThread : queues_doing'[u].queues = <<o>> /\ queues_crit[o] = u
    BY <1>11 DEF QueueInv, QueueLocked
  <2> QED
    BY <1>1, <2>1, <2>2 DEF QueueLocked
<1>13. QueueHeld'
  <2>1. \A u \in QueueThread : queues_at[u] = "took" =>
            /\ queues_doing'[u].message.handler \in queues_handlers
            /\ HandlerHome[queues_doing'[u].message.handler] = u
    BY <1>11 DEF QueueInv, QueueHeld
  <2>2. \A o \in QueueThread : \A c \in QueueManager!Held(o)' :
            c \in queues_handlers /\ HandlerHome[c] = o
    BY <1>7 DEF QueueInv, QueueHeld
  <2> QED
    BY <1>1, <2>1, <2>2 DEF QueueInv, QueueHeld
<1>14. QueueKnown'
  <2>1. \A o \in QueueThread : QueueManager!Held(o)' # {} => QueueManager!Held(o) # {}
    BY <1>7
  <2>2. queues_exists \subseteq QueueThread
    BY DEF QueueInv, QueueTypes
  <2> QED
    BY <1>1, <2>1, <2>2 DEF QueueInv, QueueKnown
<1>15. QueueClears'
  <2>1. \A u \in QueueThread \ {t} : queues_at[u] # "clear" /\ queues_doing[u].handler = "nobody"
    <3>1. t # 0
      BY QueueFacts
    <3> QED
      BY <1>6, <3>1 DEF QueueInv, QueueClears
  <2>2. ASSUME NEW c, c = queues_doing'[t].handler
        PROVE  c \in QueueManager!Held(HandlerHome[c])' =>
                   HandlerHome[c] \in QueueManager!ToSet(queues_doing'[t].queues)
    <3>1. c = h /\ queues_doing'[t].queues = Tail(l)
      BY <1>4, <1>8, <2>2
    <3> DEFINE o == HandlerHome[c]
    <3>2. o \in QueueThread /\ o = HandlerHome[h]
      BY <1>6, <3>1, QueueFacts
    <3>3. ASSUME c \in QueueManager!Held(o)'
          PROVE  o \in QueueManager!ToSet(Tail(l))
      <4>1. o \in QueueThread \ {q}
        BY <1>7, <3>1, <3>2, <3>3
      <4>2. c \in QueueManager!Held(o)
        BY <1>7, <3>3, <4>1
      <4>3. o \in QueueManager!ToSet(l)
        BY <1>6, <3>1, <3>2, <4>2
      <4> QED
        BY <1>3, <4>1, <4>3
    <3> QED
      BY <3>1, <3>3
  <2>3. ASSUME NEW u \in QueueThread
        PROVE  /\ queues_doing'[u].handler # "nobody" <=> queues_at[u] = "clear"
               /\ queues_at[u] = "clear" => u = t
    <3>1. CASE u = t
      BY <1>1, <1>4, <1>6, <1>8, <3>1
    <3>2. CASE u # t
      BY <1>8, <2>1, <3>2
    <3> QED
      BY <3>1, <3>2
  <2>4. queues_doing'[t].handler = h /\ queues_doing'[t].back \in {"loop", "handler"}
    BY <1>4, <1>6, <1>8
  <2> QED
    BY <1>1, <1>6, <2>2, <2>3, <2>4 DEF QueueClears
<1> QED
  BY <1>7, <1>9, <1>10, <1>12, <1>13, <1>14, <1>15 DEF QueueInv

\* When every queue has been cleared, none holds anything for the handler.
LEMMA ClearEndsKeeps ==
    ASSUME QueueInv, NEW t \in QueueThread, QueueManager!ClearEnds(t)
    PROVE  QueueInv'
<1> DEFINE h == queues_doing[t].handler
           p == queues_doing[t].back
           d == [queues_doing[t] EXCEPT !.handler = "nobody"]
<1>1. /\ queues_at[t] = "clear" /\ queues_doing[t].queues = <<>>
      /\ queues_manager' = 0 /\ queues_handlers' = queues_handlers \ {h}
      /\ queues_at' = [queues_at EXCEPT ![t] = p]
      /\ UNCHANGED QueueManager!queue_vars
      /\ UNCHANGED <<queues_fStop, queues_started, queues_exists, queues_active,
                     queues_message_queues, queues_crit, queues_data, queues_stale>>
  BY DEF QueueManager!ClearEnds, QueueManager!thread_vars
<1>2. queues_doing[t] \in QueueDoing
  BY DEF QueueInv, QueueTypes
<1>3. d \in QueueDoing /\ d.handler = "nobody"
  BY <1>2 DEF QueueDoing
<1>4. queues_doing' = [queues_doing EXCEPT ![t] = d]
  BY DEF QueueManager!ClearEnds, QueueInv, QueueTypes
<1>5. /\ h \in queues_handlers /\ h \in QueueHandler /\ queues_manager = t
      /\ \/ HandlerHome[h] = t
         \/ t = 1 /\ HandlerHome[h] \notin queues_started
      /\ p \in {"loop", "handler"}
      /\ h \notin QueueManager!Held(HandlerHome[h])
  BY <1>1, NoneListed DEF QueueInv, QueueClears, QueueTypes
<1> HIDE DEF d, h, p
<1>6. /\ queues_at'[t] = p /\ queues_doing'[t] = d
      /\ \A u \in QueueThread \ {t} : queues_at'[u] = queues_at[u]
                                      /\ queues_doing'[u] = queues_doing[u]
  BY <1>1, <1>4 DEF QueueInv, QueueTypes
<1>7. QueueLists' /\ QueueAddressed' /\ \A q : QueueManager!Held(q)' = QueueManager!Held(q)
  BY <1>1, QueuesKept DEF QueueInv, QueueLists
<1>8. QueueTypes'
  BY <1>1, <1>3, <1>4, <1>5 DEF QueueInv, QueueTypes, QueuePlace
<1>9. QueueStarted'
  BY <1>1, <1>5, <1>6 DEF QueueInv, QueueStarted
<1>10. QueueLocked'
  <2>1. ASSUME NEW q \in QueueThread, queues_crit[q] # 0
        PROVE  /\ queues_at'[queues_crit[q]] = "add" /\ queues_doing'[queues_crit[q]].queues = <<q>>
               /\ q \notin queues_active /\ q \in queues_exists
    <3>1. /\ queues_at[queues_crit[q]] = "add" /\ queues_doing[queues_crit[q]].queues = <<q>>
          /\ q \notin queues_active /\ q \in queues_exists /\ queues_crit[q] \in QueueThread
      BY <2>1 DEF QueueInv, QueueLocked, QueueTypes
    <3>2. queues_crit[q] # t
      BY <1>1, <3>1
    <3> QED
      BY <1>6, <3>1, <3>2
  <2>2. \A u \in QueueThread : queues_at'[u] = "add" =>
            \E q \in QueueThread : queues_doing'[u].queues = <<q>> /\ queues_crit[q] = u
    <3>1. \A u \in QueueThread : queues_at'[u] = "add" =>
              u # t /\ queues_at[u] = "add" /\ queues_doing'[u] = queues_doing[u]
      BY <1>5, <1>6
    <3> QED
      BY <3>1 DEF QueueInv, QueueLocked
  <2> QED
    BY <1>1, <2>1, <2>2 DEF QueueLocked
<1>11. QueueHeld'
  <2>1. ASSUME NEW u \in QueueThread, queues_at'[u] = "took"
        PROVE  /\ queues_doing'[u].message.handler \in queues_handlers'
               /\ HandlerHome[queues_doing'[u].message.handler] = u
    <3> DEFINE c == queues_doing[u].message.handler
    <3>1. u # t /\ queues_at[u] = "took" /\ queues_doing'[u] = queues_doing[u]
      BY <1>5, <1>6, <2>1
    <3>2. c \in queues_handlers /\ HandlerHome[c] = u /\ u \in queues_started
      BY <3>1 DEF QueueInv, QueueHeld, QueueStarted
    <3>3. c # h
      BY <1>5, <3>1, <3>2
    <3> QED
      BY <1>1, <3>1, <3>2, <3>3
  <2>2. ASSUME NEW q \in QueueThread, NEW c \in QueueManager!Held(q)'
        PROVE  c \in queues_handlers' /\ HandlerHome[c] = q
    <3>1. c \in QueueManager!Held(q)
      BY <1>7
    <3>2. c \in queues_handlers /\ HandlerHome[c] = q
      BY <3>1 DEF QueueInv, QueueHeld
    <3>3. c # h
      BY <1>5, <3>1, <3>2
    <3> QED
      BY <1>1, <3>2, <3>3
  <2> QED
    BY <1>1, <2>1, <2>2 DEF QueueInv, QueueHeld
<1>12. QueueKnown'
  BY <1>1, <1>7 DEF QueueInv, QueueKnown
<1>13. QueueClears'
  <2>1. \A u \in QueueThread \ {t} : queues_at[u] # "clear" /\ queues_doing[u].handler = "nobody"
    BY <1>5 DEF QueueInv, QueueClears
  <2>2. \A u \in QueueThread : queues_at'[u] # "clear" /\ queues_doing'[u].handler = "nobody"
    BY <1>3, <1>5, <1>6, <2>1
  <2> QED
    BY <2>2 DEF QueueClears
<1> QED
  BY <1>7, <1>8, <1>9, <1>10, <1>11, <1>12, <1>13 DEF QueueInv

\* Starting, stopping, joining and deleting, by the main thread.
LEMMA StartKeeps ==
    ASSUME QueueInv, NEW t \in QueueThread, QueueManager!Start(t)
    PROVE  QueueInv'
<1>1. /\ queues_at[1] \in {"loop", "handler"} /\ t \in queues_exists /\ t \notin queues_started
      /\ queues_started' = queues_started \cup {t} /\ queues_fStop' = queues_fStop \ {t}
      /\ queues_at' = [queues_at EXCEPT ![t] = "loop"]
      /\ UNCHANGED QueueManager!queue_vars
      /\ UNCHANGED <<queues_exists, queues_active, queues_message_queues, queues_manager,
                     queues_crit, queues_handlers, queues_doing, queues_data, queues_stale>>
  BY DEF QueueManager!Start, QueueManager!Calls, QueueManager!lock_vars
<1>2. queues_at[t] \in {"none", "ended"} /\ 1 \in QueueThread /\ t # 1
  BY <1>1, QueueFacts DEF QueueInv, QueueStarted
<1>3. /\ queues_at'[t] = "loop"
      /\ \A u \in QueueThread \ {t} : queues_at'[u] = queues_at[u]
  BY <1>1 DEF QueueInv, QueueTypes
<1>4. QueueLists' /\ QueueAddressed' /\ \A q : QueueManager!Held(q)' = QueueManager!Held(q)
  BY <1>1, QueuesKept DEF QueueInv, QueueLists
<1>5. QueueTypes'
  BY <1>1 DEF QueueInv, QueueTypes, QueuePlace
<1>6. QueueStarted'
  BY <1>1, <1>2, <1>3 DEF QueueInv, QueueStarted
<1>7. \A u \in QueueThread : /\ queues_at'[u] = "add" <=> queues_at[u] = "add"
                             /\ queues_at'[u] = "took" <=> queues_at[u] = "took"
                             /\ queues_at'[u] = "clear" <=> queues_at[u] = "clear"
  BY <1>2, <1>3
<1>8. QueueLocked'
  <2>1. \A q \in QueueThread : queues_crit[q] # 0 => queues_crit[q] \in QueueThread
    BY DEF QueueInv, QueueTypes
  <2> QED
    BY <1>1, <1>7, <2>1 DEF QueueInv, QueueLocked
<1>9. QueueHeld' /\ QueueKnown'
  <2>1. QueueHeld'
    BY <1>1, <1>4, <1>7 DEF QueueInv, QueueHeld
  <2>2. QueueKnown'
    BY <1>1, <1>4 DEF QueueInv, QueueKnown
  <2> QED
    BY <2>1, <2>2
<1>10. QueueClears'
  <2>1. queues_at[1] # "clear"
    BY <1>1
  <2> QED
    BY <1>1, <1>4, <1>7, <2>1 DEF QueueInv, QueueClears
<1> QED
  BY <1>4, <1>5, <1>6, <1>8, <1>9, <1>10 DEF QueueInv

LEMMA QuitKeeps ==
    ASSUME QueueInv, NEW t \in QueueThread, QueueManager!Quit(t)
    PROVE  QueueInv'
<1>1. /\ t # 1 /\ queues_fStop' = queues_fStop \cup {t}
      /\ UNCHANGED QueueManager!queue_vars
      /\ UNCHANGED <<queues_started, queues_exists, queues_active, queues_message_queues,
                     queues_manager, queues_crit, queues_handlers, queues_at, queues_doing,
                     queues_data, queues_stale>>
  BY DEF QueueManager!Quit, QueueManager!lock_vars
<1>2. QueueLists' /\ QueueAddressed' /\ \A q : QueueManager!Held(q)' = QueueManager!Held(q)
  BY <1>1, QueuesKept DEF QueueInv, QueueLists
<1>3. QueueTypes' /\ QueueStarted' /\ QueueLocked'
  BY <1>1 DEF QueueInv, QueueTypes, QueueStarted, QueueLocked
<1>4. QueueHeld'
  BY <1>1, <1>2 DEF QueueInv, QueueHeld
<1>5. QueueKnown'
  BY <1>1, <1>2 DEF QueueInv, QueueKnown
<1>6. QueueClears'
  BY <1>1, <1>2 DEF QueueInv, QueueClears
<1> QED
  BY <1>2, <1>3, <1>4, <1>5, <1>6 DEF QueueInv

LEMMA JoinKeeps ==
    ASSUME QueueInv, NEW t \in QueueThread, QueueManager!Join(t)
    PROVE  QueueInv'
<1>1. /\ t \in queues_fStop /\ queues_at[t] = "ended"
      /\ queues_started' = queues_started \ {t}
      /\ UNCHANGED QueueManager!queue_vars
      /\ UNCHANGED <<queues_fStop, queues_exists, queues_active, queues_message_queues,
                     queues_manager, queues_crit, queues_handlers, queues_at, queues_doing,
                     queues_data, queues_stale>>
  BY DEF QueueManager!Join, QueueManager!lock_vars
<1>2. QueueLists' /\ QueueAddressed' /\ \A q : QueueManager!Held(q)' = QueueManager!Held(q)
  BY <1>1, QueuesKept DEF QueueInv, QueueLists
<1>3. QueueTypes' /\ QueueStarted' /\ QueueLocked'
  <2>1. QueueTypes' /\ QueueLocked'
    BY <1>1 DEF QueueInv, QueueTypes, QueueLocked
  <2>2. QueueStarted'
    BY <1>1 DEF QueueInv, QueueStarted
  <2> QED
    BY <2>1, <2>2
<1>4. QueueHeld'
  BY <1>1, <1>2 DEF QueueInv, QueueHeld
<1>5. QueueKnown'
  BY <1>1, <1>2 DEF QueueInv, QueueKnown
<1>6. QueueClears'
  BY <1>1, <1>2 DEF QueueInv, QueueClears
<1> QED
  BY <1>2, <1>3, <1>4, <1>5, <1>6 DEF QueueInv

\* The queue that goes is taken out of the manager's list.
LEMMA QueueRemoved ==
    ASSUME QueueInv, NEW t \in QueueThread, t \in queues_exists, QueueManager!RemoveQueue(t)
    PROVE  /\ queues_message_queues' \in Seq(QueueThread)
           /\ QueueManager!ToSet(queues_message_queues)' = queues_active \cap (queues_exists \ {t})
           /\ \A j, k \in 1 .. Len(queues_message_queues') :
                  queues_message_queues'[j] = queues_message_queues'[k] => j = k
<1> DEFINE s == queues_message_queues
           e == SocketServer!Erase(s, t)
<1>1. /\ s \in Seq(QueueThread) /\ s \in Seq(Nat)
      /\ QueueManager!ToSet(s) = queues_active \cap queues_exists
      /\ \A j, k \in 1 .. Len(s) : s[j] = s[k] => j = k
  <2>1. s \in Seq(QueueThread)
    BY DEF QueueInv, QueueTypes
  <2>2. s \in Seq(Nat)
    <3> HIDE DEF s
    <3>1. Len(s) \in Nat /\ DOMAIN s = 1 .. Len(s) /\ \A k \in 1 .. Len(s) : s[k] \in QueueThread
      BY <2>1
    <3>2. Len(s) \in Nat /\ DOMAIN s = 1 .. Len(s) /\ \A k \in 1 .. Len(s) : s[k] \in Nat
      BY <3>1, QueueFacts
    <3>3. s = [k \in 1 .. Len(s) |-> s[k]]
      BY <2>1
    <3> QED
      BY <3>2, <3>3
  <2> QED
    BY <2>1, <2>2 DEF QueueInv, QueueKnown
<1>2. CASE t \notin queues_active
  BY <1>1, <1>2 DEF QueueManager!RemoveQueue, QueueManager!ToSet
<1>3. CASE t \in queues_active
  <2>1. queues_message_queues' = e
    BY <1>3 DEF QueueManager!RemoveQueue, QueueManager!RemoveAt, SocketServer!Erase,
                SocketServer!RemoveAt
  <2>2. DOMAIN s = 1 .. Len(s) /\ \A x : x \in QueueManager!ToSet(s) <=> \E k \in 1 .. Len(s) : s[k] = x
    <3>1. DOMAIN s = 1 .. Len(s)
      BY <1>1
    <3> QED
      BY <3>1 DEF QueueManager!ToSet
  <2>3. \E k \in 1 .. Len(s) : s[k] = t
    BY <1>1, <1>3, <2>2
  <2> HIDE DEF s
  <2>4. /\ e \in Seq(Nat)
        /\ \A j, k \in 1 .. Len(e) : e[j] = e[k] => j = k
        /\ \A k \in 1 .. Len(e) : \E j \in 1 .. Len(s) : e[k] = s[j] /\ e[k] # t
        /\ \A j \in 1 .. Len(s) : s[j] # t => \E k \in 1 .. Len(e) : e[k] = s[j]
    BY <1>1, <2>3, Erased
  <2> HIDE DEF e
  <2>5. DOMAIN e = 1 .. Len(e) /\ Len(e) \in Nat
    BY <2>4
  <2>6. \A x : x \in QueueManager!ToSet(e) <=> x \in QueueManager!ToSet(s) /\ x # t
    <3>1. \A x : x \in QueueManager!ToSet(e) <=> \E k \in 1 .. Len(e) : e[k] = x
      BY <2>5 DEF QueueManager!ToSet
    <3> QED
      BY <2>2, <2>4, <3>1
  <2>7. e \in Seq(QueueThread)
    <3>1. \A k \in 1 .. Len(e) : e[k] \in QueueThread
      <4>1. \A j \in 1 .. Len(s) : s[j] \in QueueThread
        BY <1>1
      <4> QED
        BY <2>4, <4>1
    <3> QED
      BY <2>4, <2>5, <3>1
  <2>8. QueueManager!ToSet(e) = queues_active \cap (queues_exists \ {t})
    BY <1>1, <2>6
  <2> QED
    BY <2>1, <2>4, <2>7, <2>8
<1> QED
  BY <1>2, <1>3

LEMMA DeleteKeeps ==
    ASSUME QueueInv, NEW t \in QueueThread, QueueManager!Delete(t)
    PROVE  QueueInv'
<1>1. /\ t \in queues_exists /\ t \notin queues_started /\ queues_manager = 0
      /\ queues_crit[t] = 0 /\ queues_exists' = queues_exists \ {t}
      /\ QueueManager!RemoveQueue(t)
      /\ IF t \in queues_active THEN QueueManager!Clear(t, "nobody")
         ELSE UNCHANGED <<QueueManager!queue_vars, queues_data>>
      /\ UNCHANGED <<queues_fStop, queues_started, queues_active, queues_manager, queues_crit,
                     queues_handlers, queues_at, queues_doing, queues_stale>>
  BY DEF QueueManager!Delete, QueueManager!Free
<1>2. /\ queues_message_queues' \in Seq(QueueThread)
      /\ QueueManager!ToSet(queues_message_queues)' = (queues_active \cap queues_exists)'
      /\ \A j, k \in 1 .. Len(queues_message_queues') :
             queues_message_queues'[j] = queues_message_queues'[k] => j = k
  BY <1>1, QueueRemoved
<1>3. /\ QueueLists' /\ QueueAddressed'
      /\ \A o \in QueueThread \ {t} : QueueManager!Held(o)' = QueueManager!Held(o)
      /\ QueueManager!Held(t)' = {}
  <2>1. CASE t \in queues_active
    BY <1>1, <2>1, ClearRemoves
  <2>2. CASE t \notin queues_active
    <3>1. UNCHANGED QueueManager!queue_vars /\ queues_data' \in Seq(QueueFate)
      BY <1>1, <2>2 DEF QueueInv, QueueLists
    <3>2. QueueLists' /\ QueueAddressed' /\ \A o : QueueManager!Held(o)' = QueueManager!Held(o)
      BY <3>1, QueuesKept
    <3>3. QueueManager!Held(t) = {}
      BY <1>1, <2>2 DEF QueueInv, QueueKnown
    <3> QED
      BY <3>2, <3>3
  <2> QED
    BY <2>1, <2>2
<1>4. QueueTypes'
  BY <1>1, <1>2 DEF QueueInv, QueueTypes
<1>5. QueueStarted'
  BY <1>1 DEF QueueInv, QueueStarted
<1>6. QueueLocked'
  BY <1>1 DEF QueueInv, QueueLocked
<1>7. QueueHeld'
  <2>1. \A o \in QueueThread : \A c \in QueueManager!Held(o)' :
            c \in queues_handlers /\ HandlerHome[c] = o
    BY <1>3 DEF QueueInv, QueueHeld
  <2> QED
    BY <1>1, <2>1 DEF QueueInv, QueueHeld
<1>8. QueueKnown'
  <2>1. \A o \in queues_exists' :
            QueueManager!Held(o)' # {} /\ queues_crit[o] = 0 => o \in queues_active
    <3>1. \A o \in queues_exists' : o \in QueueThread \ {t} /\ o \in queues_exists
      BY <1>1 DEF QueueInv, QueueTypes
    <3> QED
      BY <1>3, <3>1 DEF QueueInv, QueueKnown
  <2>2. \A o \in QueueThread \ queues_exists' : QueueManager!Held(o)' = {}
    BY <1>1, <1>3 DEF QueueInv, QueueKnown
  <2> QED
    BY <1>1, <1>2, <2>1, <2>2 DEF QueueKnown
<1>9. QueueClears'
  <2>1. \A u \in QueueThread : queues_at[u] # "clear"
    BY <1>1, NobodyClears
  <2> QED
    BY <1>1, <2>1, ClearsNothing
<1> QED
  BY <1>2, <1>3, <1>4, <1>5, <1>6, <1>7, <1>8, <1>9 DEF QueueInv

LEMMA QueueStepKeeps == QueueInv /\ QueueManager!Next => QueueInv'
<1> SUFFICES ASSUME QueueInv, QueueManager!Next
             PROVE  QueueInv'
  OBVIOUS
<1>1. ASSUME NEW t \in QueueThread, QueueManager!ThreadStep(t)
      PROVE  QueueInv'
  BY <1>1, AddKeeps, QueueReceiveKeeps, TriggerKeeps, GetKeeps, DispatchKeeps, ReturnKeeps,
     ClearNextKeeps, ClearEndsKeeps, LoopEndsKeeps DEF QueueManager!ThreadStep
<1>2. ASSUME NEW t \in QueueThread,
             \/ QueueManager!Start(t) \/ QueueManager!Quit(t) \/ QueueManager!Join(t)
             \/ QueueManager!Delete(t)
      PROVE  QueueInv'
  BY <1>2, StartKeeps, QuitKeeps, JoinKeeps, DeleteKeeps
<1>3. ASSUME NEW t \in QueueThread, NEW h \in QueueHandler,
             QueueManager!DestroyHandler(t, h) \/ QueueManager!Send(t, h)
      PROVE  QueueInv'
  BY <1>3, DestroyKeeps, QueueSendKeeps
<1>4. ASSUME NEW t \in QueueThread, NEW q \in QueueThread,
             NEW h \in QueueHandler \cup {"nobody"}, NEW delayed \in BOOLEAN,
             QueueManager!Post(t, q, h, delayed)
      PROVE  QueueInv'
  BY <1>4, PostKeeps
<1> QED
  BY <1>1, <1>2, <1>3, <1>4, SentKeeps, PeekKeeps DEF QueueManager!Next

LEMMA QueueSuffices ==
    QueueInv => /\ QueueManager!TypeOK /\ QueueManager!HandlersOutliveMessages
                /\ QueueManager!ManagerKnowsQueues
<1> SUFFICES ASSUME QueueInv
             PROVE  /\ QueueManager!TypeOK /\ QueueManager!HandlersOutliveMessages
                    /\ QueueManager!ManagerKnowsQueues
  OBVIOUS
<1>1. QueueManager!TypeOK
  BY DEF QueueInv, QueueTypes, QueuePlace, QueueManager!TypeOK
<1>2. QueueManager!HandlersOutliveMessages
  BY DEF QueueInv, QueueHeld, QueueManager!HandlersOutliveMessages
<1>3. QueueManager!ManagerKnowsQueues
  <2>1. DOMAIN queues_message_queues = 1 .. Len(queues_message_queues)
    BY DEF QueueInv, QueueTypes
  <2>2. QueueManager!IsInjective(queues_message_queues)
    BY <2>1 DEF QueueInv, QueueKnown, QueueManager!IsInjective
  <2>3. queues_exists \subseteq QueueThread
    BY DEF QueueInv, QueueTypes
  <2> QED
    BY <2>2, <2>3 DEF QueueInv, QueueKnown, QueueManager!ManagerKnowsQueues, QueueManager!Free
<1> QED
  BY <1>1, <1>2, <1>3

\* A step of another part.
LEMMA QueueStutters == QueueInv /\ UNCHANGED QueueManager!vars => QueueInv'
<1> SUFFICES ASSUME QueueInv, UNCHANGED QueueManager!vars
             PROVE  QueueInv'
  OBVIOUS
<1>1. /\ UNCHANGED QueueManager!queue_vars
      /\ UNCHANGED <<queues_fStop, queues_started, queues_exists, queues_active,
                     queues_message_queues, queues_manager, queues_crit, queues_handlers,
                     queues_at, queues_doing, queues_data, queues_stale>>
  BY DEF QueueManager!vars, QueueManager!thread_vars, QueueManager!lock_vars
<1>2. QueueLists' /\ QueueAddressed' /\ \A q : QueueManager!Held(q)' = QueueManager!Held(q)
  BY <1>1, QueuesKept DEF QueueInv, QueueLists
<1>3. QueueTypes' /\ QueueStarted' /\ QueueLocked'
  BY <1>1 DEF QueueInv, QueueTypes, QueueStarted, QueueLocked
<1>4. QueueHeld' /\ QueueKnown' /\ QueueClears'
  BY <1>1, <1>2 DEF QueueInv, QueueHeld, QueueKnown, QueueClears
<1> QED
  BY <1>2, <1>3, <1>4 DEF QueueInv

-----------------------------------------------------------------------------
(***************************************************************************)
(* Delayed messages, for any word of the time stamps and any delays that   *)
(* TimeAfter allows.                                                       *)
(***************************************************************************)
DelayMessage == [trigger : Nat, num : Nat, due : Nat]

DelayTypes ==
    /\ delayed_clock \in Nat /\ delayed_clock >= ClockStart
    /\ delayed_dmsgq_ \subseteq DelayMessage /\ delayed_dmsgq_next_num_ \in Nat
    /\ delayed_delivered \in Seq(DelayMessage)
    /\ delayed_at \in {"scan", "wait"} /\ delayed_msCurrent \in 0 .. StampWord - 1
    /\ delayed_wakeAt \in {-1} \cup Nat

\* The trigger is the stamp of a time that is less than half a word away.
DelayStamped ==
    \A m \in delayed_dmsgq_ :
        /\ m.trigger = m.due % StampWord
        /\ m.due + PassTime < delayed_clock + StampWord \div 2

DelayNumbered ==
    /\ \A m \in delayed_dmsgq_ : m.num < delayed_dmsgq_next_num_
    /\ \A m, n \in delayed_dmsgq_ : m.num = n.num => m = n
    /\ \A k \in 1 .. Len(delayed_delivered) :
           /\ delayed_delivered[k].num < delayed_dmsgq_next_num_
           /\ delayed_delivered[k].due <= delayed_clock

\* When the clock was read, a pass ago at most; what waits was not due long before.
DelayReadAt(c) ==
    /\ delayed_msCurrent = c % StampWord
    /\ c <= delayed_clock /\ delayed_clock <= c + PassTime
    /\ DelayQueue!OneSide => \A m \in delayed_dmsgq_ : c <= m.due + 2 * PassTime
DelayScans == delayed_at = "scan" => \E c \in Nat : DelayReadAt(c)

DelayWaits ==
    delayed_at = "wait" =>
        /\ delayed_wakeAt # -1 => delayed_clock <= delayed_wakeAt + PassTime
        /\ DelayQueue!OneSide => \A m \in delayed_dmsgq_ :
               delayed_wakeAt # -1 /\ delayed_wakeAt <= m.due + PassTime

DelayBefore(m, n) == m.due < n.due \/ (m.due = n.due /\ m.num < n.num)
DelayInOrder ==
    /\ delayed_overslept = FALSE
    /\ \A j, k \in 1 .. Len(delayed_delivered) :
           j < k => DelayBefore(delayed_delivered[j], delayed_delivered[k])
    /\ \A k \in 1 .. Len(delayed_delivered) : \A m \in delayed_dmsgq_ :
           DelayBefore(delayed_delivered[k], m)

\* What waits is due on one side of a wrap, unless it was not at some time.
DelaySided ==
    DelayQueue!OneSide =>
        \A m, n \in delayed_dmsgq_ : m.due \div StampWord = n.due \div StampWord

DelayInv ==
    /\ DelayTypes /\ DelayStamped /\ DelayNumbered /\ DelayScans /\ DelayWaits
    /\ DelaySided
    /\ delayed_early = FALSE
    /\ DelayQueue!OneSide => DelayInOrder

\* Stamps.
LEMMA WordFacts ==
    /\ StampWord \in Nat \ {0} /\ StampWord \div 2 \in Nat
    /\ StampWord = 2 * (StampWord \div 2)
    /\ ClockStart \in Nat /\ PassTime \in Nat /\ PostDelay \subseteq Nat
    /\ \A delay \in PostDelay : delay + PassTime < StampWord \div 2
    /\ 2 * PassTime < StampWord \div 2
<1>1. /\ StampWord \in Nat /\ StampWord = 2 * (StampWord \div 2)
      /\ ClockStart \in Nat /\ PassTime \in Nat /\ PostDelay \subseteq Nat
      /\ \A delay \in PostDelay : delay + PassTime < StampWord \div 2
      /\ 2 * PassTime < StampWord \div 2
  BY DelayAssumption DEF DelayAssumption
<1>2. StampWord \div 2 \in Nat /\ StampWord # 0
  BY <1>1
<1> QED
  BY <1>1, <1>2

LEMMA WordDivides ==
    ASSUME NEW W \in Nat \ {0}, NEW n \in Int
    PROVE  /\ n % W \in 0 .. W - 1 /\ n \div W \in Int
           /\ n = W * (n \div W) + (n % W)
OBVIOUS

LEMMA WordOnce ==
    ASSUME NEW W \in Nat \ {0}, NEW k \in Int, -2 * W < W * k, W * k < 2 * W
    PROVE  k \in {-1, 0, 1}
OBVIOUS

LEMMA WordsMore ==
    ASSUME NEW W \in Nat \ {0}, NEW l \in Int, NEW y \in Int
    PROVE  (W * l + y) % W = y % W
<1> DEFINE z == W * l + y
           qy == y \div W
           qz == z \div W
           ry == y % W
           rz == z % W
           k == (qz - qy) - l
<1>1. z \in Int /\ z = W * l + y
  OBVIOUS
<1> HIDE DEF z
<1>2. /\ ry \in 0 .. W - 1 /\ qy \in Int /\ y = W * qy + ry
      /\ rz \in 0 .. W - 1 /\ qz \in Int /\ z = W * qz + rz
  BY <1>1, WordDivides
<1> HIDE DEF qy, qz, ry, rz
<1>3. k \in Int /\ W * k = (W * qz - W * qy) - W * l
  BY <1>2
<1> HIDE DEF k
<1>4. W * k = ry - rz
  BY <1>1, <1>2, <1>3
<1>5. k \in {-1, 0, 1}
  <2>1. -2 * W < W * k /\ W * k < 2 * W
    BY <1>2, <1>4
  <2> QED
    BY <1>3, <2>1, WordOnce
<1>6. ry = rz
  BY <1>2, <1>4, <1>5
<1> QED
  BY <1>6 DEF ry, rz, z

\* Times that are less than half a word apart have stamps whose difference, as a
\* signed number, is theirs.
LEMMA SignedIsExact ==
    ASSUME NEW a \in Nat, NEW b \in Nat,
           a - b < StampWord \div 2, b - a <= StampWord \div 2
    PROVE  DelayQueue!Signed((a % StampWord) - (b % StampWord)) = a - b
<1> DEFINE W == StampWord
           H == StampWord \div 2
           qa == a \div W
           qb == b \div W
           sa == a % W
           sb == b % W
           x == sa - sb
           k == qa - qb
<1>1. W \in Nat \ {0} /\ H \in Nat /\ W = 2 * H
  BY WordFacts
<1>2. a - b < H /\ b - a <= H
  OBVIOUS
<1>3. /\ sa \in 0 .. W - 1 /\ qa \in Int /\ a = W * qa + sa
      /\ sb \in 0 .. W - 1 /\ qb \in Int /\ b = W * qb + sb
  <2> HIDE DEF W
  <2>1. a \in Int /\ b \in Int
    OBVIOUS
  <2>2. a % W \in 0 .. W - 1 /\ a \div W \in Int /\ a = W * (a \div W) + (a % W)
    BY <1>1, <2>1, WordDivides
  <2>3. b % W \in 0 .. W - 1 /\ b \div W \in Int /\ b = W * (b \div W) + (b % W)
    BY <1>1, <2>1, WordDivides
  <2> QED
    BY <2>2, <2>3
<1>4. DelayQueue!Signed(sa - sb) = IF x % W < H THEN x % W ELSE (x % W) - W
  BY DEF DelayQueue!Signed, DelayQueue!Stamp, DelayQueue!Half
<1> HIDE DEF W, H, sa, sb, qa, qb
<1>5. k \in Int /\ W * k = W * qa - W * qb
  BY <1>1, <1>3
<1>6. W * k = (a - b) - x
  BY <1>1, <1>3, <1>5
<1>7. x \in Int /\ -W < x /\ x < W
  BY <1>1, <1>3
<1> HIDE DEF k, x
<1>8. k \in {-1, 0, 1}
  <2>1. -2 * W < W * k /\ W * k < 2 * W
    BY <1>1, <1>2, <1>5, <1>6, <1>7
  <2> QED
    BY <1>1, <1>5, <2>1, WordOnce
<1>9. a - b = x \/ a - b = x + W \/ a - b = x - W
  BY <1>1, <1>6, <1>7, <1>8
<1>10. x % W = IF x >= 0 THEN x ELSE x + W
  BY <1>1, <1>7
<1>11. DelayQueue!Signed(sa - sb) = a - b
  BY <1>1, <1>2, <1>4, <1>7, <1>9, <1>10
<1> QED
  BY <1>11 DEF sa, sb, W

\* Within a word, stamps are in the order of their times.
LEMMA StampsInOrder ==
    ASSUME NEW a \in Nat, NEW b \in Nat, a \div StampWord = b \div StampWord
    PROVE  (a % StampWord) - (b % StampWord) = a - b
<1> DEFINE W == StampWord
<1>1. W \in Nat \ {0}
  BY WordFacts
<1> HIDE DEF W
<1>2. /\ a % W \in 0 .. W - 1 /\ a \div W \in Int /\ a = W * (a \div W) + (a % W)
      /\ b % W \in 0 .. W - 1 /\ b \div W \in Int /\ b = W * (b \div W) + (b % W)
  BY <1>1, WordDivides
<1>3. a \div W = b \div W
  BY DEF W
<1>4. (a % W) - (b % W) = a - b
  <2> DEFINE q == W * (a \div W)
  <2>1. q \in Int /\ a = q + (a % W) /\ b = q + (b % W)
    BY <1>1, <1>2, <1>3
  <2> HIDE DEF q
  <2> QED
    BY <1>2, <2>1
<1> QED
  BY <1>4 DEF W

\* The top is the first by trigger and number.
LEMMA TopIsFirst ==
    ASSUME DelayInv, delayed_dmsgq_ # {}
    PROVE  /\ DelayQueue!Top \in delayed_dmsgq_
           /\ \A m \in delayed_dmsgq_ \ {DelayQueue!Top} : DelayQueue!SoonerThan(DelayQueue!Top, m)
<1> DEFINE D == delayed_dmsgq_
           T == {m.trigger : m \in D}
<1>1. D \subseteq DelayMessage /\ \A m, n \in D : m.num = n.num => m = n
  BY DEF DelayInv, DelayTypes, DelayNumbered
<1>2. \A m \in D : m.trigger \in Nat /\ m.num \in Nat
  BY <1>1 DEF DelayMessage
<1>3. T \in SUBSET Nat /\ T # {}
  BY <1>2
<1>4. PICK x \in T : \A y \in T : x <= y
  BY <1>3, LeastNumber
<1> DEFINE N == {m.num : m \in {n \in D : n.trigger = x}}
<1>5. N \in SUBSET Nat /\ N # {}
  BY <1>2, <1>4
<1>6. PICK z \in N : \A y \in N : z <= y
  <2> HIDE DEF N
  <2> QED
    BY <1>5, LeastNumber
<1>7. PICK t \in D : t.trigger = x /\ t.num = z
  BY <1>6
<1>8. \A m \in D : x <= m.trigger /\ (m.trigger = x => z <= m.num)
  BY <1>4, <1>6
<1>9. \A m \in D \ {t} : DelayQueue!SoonerThan(t, m)
  <2> TAKE m \in D \ {t}
  <2>1. m.num # z
    BY <1>1, <1>7
  <2>2. m.trigger \in Nat /\ m.num \in Nat /\ x \in Nat /\ z \in Nat
    BY <1>2, <1>7
  <2> QED
    BY <1>7, <1>8, <2>1, <2>2 DEF DelayQueue!SoonerThan
<1>10. \E u \in D : \A m \in D \ {u} : DelayQueue!SoonerThan(u, m)
  BY <1>7, <1>9
<1> QED
  BY <1>10 DEF DelayQueue!Top

\* On one side of a wrap the top is due first.
LEMMA TopIsDueFirst ==
    ASSUME DelayInv, DelayQueue!OneSide, delayed_dmsgq_ # {}
    PROVE  \A m \in delayed_dmsgq_ \ {DelayQueue!Top} : DelayBefore(DelayQueue!Top, m)
<1> DEFINE t == DelayQueue!Top
<1>1. t \in delayed_dmsgq_ /\ \A m \in delayed_dmsgq_ \ {t} : DelayQueue!SoonerThan(t, m)
  BY TopIsFirst
<1> HIDE DEF t
<1>2. \A m \in delayed_dmsgq_ : /\ m.due \in Nat /\ m.num \in Nat
                                /\ m.trigger = m.due % StampWord
                                /\ m.due \div StampWord = t.due \div StampWord
  <2>1. \A m \in delayed_dmsgq_ : m.due \in Nat /\ m.num \in Nat
    BY DEF DelayInv, DelayTypes, DelayMessage
  <2>2. \A m \in delayed_dmsgq_ : m.trigger = m.due % StampWord
    BY DEF DelayInv, DelayStamped
  <2>3. \A m \in delayed_dmsgq_ : m.due \div StampWord = t.due \div StampWord
    BY <1>1 DEF DelayInv, DelaySided
  <2> QED
    BY <2>1, <2>2, <2>3
<1>3. ASSUME NEW m \in delayed_dmsgq_ \ {t}
      PROVE  DelayBefore(t, m)
  <2>1. t.trigger - m.trigger = t.due - m.due
    <3>1. t.due \in Nat /\ m.due \in Nat /\ t.due \div StampWord = m.due \div StampWord
      BY <1>1, <1>2
    <3> QED
      BY <1>1, <1>2, <3>1, StampsInOrder
  <2>2. t.trigger \in Nat /\ m.trigger \in Nat /\ t.due \in Nat /\ m.due \in Nat
    BY <1>1 DEF DelayInv, DelayTypes, DelayMessage
  <2>3. t.trigger < m.trigger \/ (t.trigger = m.trigger /\ t.num < m.num)
    BY <1>1 DEF DelayQueue!SoonerThan
  <2> QED
    BY <2>1, <2>2, <2>3 DEF DelayBefore
<1> QED
  BY <1>3 DEF t

LEMMA DelayStart == DelayQueue!Init => DelayInv
<1> SUFFICES ASSUME DelayQueue!Init
             PROVE  DelayInv
  OBVIOUS
<1>1. /\ delayed_clock = ClockStart /\ delayed_dmsgq_ = {} /\ delayed_dmsgq_next_num_ = 0
      /\ delayed_delivered = <<>> /\ delayed_at = "scan"
      /\ delayed_msCurrent = delayed_clock % StampWord /\ delayed_wakeAt = -1
      /\ delayed_early = FALSE /\ delayed_overslept = FALSE /\ delayed_straddled = FALSE
  BY DEF DelayQueue!Init, DelayQueue!Time, DelayQueue!kForever
<1>2. <<>> \in Seq(DelayMessage) /\ Len(<<>>) = 0
  OBVIOUS
<1>3. ClockStart \in Nat /\ PassTime \in Nat /\ ClockStart % StampWord \in 0 .. StampWord - 1
  BY WordFacts, WordDivides
<1>4. DelayTypes
  BY <1>1, <1>2, <1>3 DEF DelayTypes
<1>5. DelayScans
  <2>1. DelayReadAt(ClockStart)
    BY <1>1, <1>3 DEF DelayReadAt
  <2> QED
    BY <1>3, <2>1 DEF DelayScans
<1>6. DelayStamped /\ DelayWaits /\ DelaySided
  BY <1>1 DEF DelayStamped, DelayWaits, DelaySided
<1>7. \A k \in 1 .. Len(delayed_delivered) : FALSE
  BY <1>1, <1>2
<1>8. DelayNumbered
  BY <1>1, <1>7 DEF DelayNumbered
<1>9. DelayInOrder
  BY <1>1, <1>7 DEF DelayInOrder
<1> QED
  BY <1>1, <1>4, <1>5, <1>6, <1>8, <1>9 DEF DelayInv

\* A message is seen to be due when it is.
LEMMA DueIsSeen ==
    ASSUME DelayInv, NEW c \in Nat, delayed_at = "scan", DelayReadAt(c),
           NEW m \in delayed_dmsgq_
    PROVE  /\ m.due > c => /\ DelayQueue!TimeIsLater(delayed_msCurrent, m.trigger)
                           /\ DelayQueue!TimeDiff(m.trigger, delayed_msCurrent) = m.due - c
           /\ DelayQueue!OneSide => DelayQueue!TimeDiff(m.trigger, delayed_msCurrent) = m.due - c
<1>1. /\ m.due \in Nat /\ m.trigger = m.due % StampWord
      /\ m.due + PassTime < delayed_clock + StampWord \div 2
      /\ delayed_clock \in Nat
  BY DEF DelayInv, DelayTypes, DelayStamped, DelayMessage
<1>2. /\ delayed_msCurrent = c % StampWord
      /\ c <= delayed_clock /\ delayed_clock <= c + PassTime
      /\ DelayQueue!OneSide => c <= m.due + 2 * PassTime
  BY DEF DelayReadAt
<1>3. PassTime \in Nat /\ StampWord \div 2 \in Nat /\ 2 * PassTime < StampWord \div 2
  BY WordFacts
<1> DEFINE H == StampWord \div 2
<1>4. H \in Nat /\ 2 * PassTime < H /\ m.due + PassTime < delayed_clock + H
  BY <1>1, <1>3
<1>5. m.due - c < H
  <2> HIDE DEF H
  <2> QED
    BY <1>1, <1>2, <1>3, <1>4
<1>6. m.due > c \/ DelayQueue!OneSide => c - m.due <= H
  <2> HIDE DEF H
  <2> QED
    BY <1>1, <1>2, <1>3, <1>4
<1>7. m.due > c \/ DelayQueue!OneSide =>
          DelayQueue!Signed(m.trigger - delayed_msCurrent) = m.due - c
  BY <1>1, <1>2, <1>5, <1>6, SignedIsExact
<1> QED
  BY <1>1, <1>7 DEF DelayQueue!TimeIsLater, DelayQueue!TimeDiff

\* How long ago the clock was read.
LEMMA ReadIsSeen ==
    ASSUME DelayInv, NEW c \in Nat, DelayReadAt(c)
    PROVE  DelayQueue!TimeDiff(DelayQueue!Time, delayed_msCurrent) = delayed_clock - c
<1>1. delayed_clock \in Nat /\ PassTime \in Nat /\ StampWord \div 2 \in Nat
      /\ 2 * PassTime < StampWord \div 2
  BY WordFacts DEF DelayInv, DelayTypes
<1>2. /\ delayed_msCurrent = c % StampWord
      /\ c <= delayed_clock /\ delayed_clock <= c + PassTime
  BY DEF DelayReadAt
<1>3. delayed_clock - c < StampWord \div 2 /\ c - delayed_clock <= StampWord \div 2
  BY <1>1, <1>2
<1> QED
  BY <1>1, <1>2, <1>3, SignedIsExact DEF DelayQueue!TimeDiff, DelayQueue!Time

LEMMA DeliveredAre ==
    ASSUME DelayInv
    PROVE  \A k \in 1 .. Len(delayed_delivered) :
               /\ delayed_delivered[k] \in DelayMessage
               /\ delayed_delivered[k].num \in Nat /\ delayed_delivered[k].due \in Nat
               /\ delayed_delivered[k].num < delayed_dmsgq_next_num_
               /\ delayed_delivered[k].due <= delayed_clock
<1>1. delayed_delivered \in Seq(DelayMessage)
  BY DEF DelayInv, DelayTypes
<1>2. \A k \in 1 .. Len(delayed_delivered) : delayed_delivered[k] \in DelayMessage
  BY <1>1
<1>3. \A m \in DelayMessage : m.num \in Nat /\ m.due \in Nat
  BY DEF DelayMessage
<1> QED
  BY <1>2, <1>3 DEF DelayInv, DelayNumbered

LEMMA TickKeeps ==
    ASSUME DelayInv, DelayQueue!Tick
    PROVE  DelayInv'
<1>1. /\ delayed_clock' = delayed_clock + 1
      /\ UNCHANGED <<delayed_dmsgq_, delayed_dmsgq_next_num_, delayed_delivered, delayed_at,
                     delayed_msCurrent, delayed_wakeAt, delayed_early, delayed_overslept,
                     delayed_straddled>>
      /\ delayed_at = "scan" =>
             DelayQueue!TimeDiff(DelayQueue!Time, delayed_msCurrent) < PassTime
      /\ delayed_at = "wait" /\ delayed_wakeAt # -1 => delayed_clock < delayed_wakeAt + PassTime
  BY DEF DelayQueue!Tick, DelayQueue!kForever
<1>2. DelayQueue!OneSide' => DelayQueue!OneSide
  BY <1>1 DEF DelayQueue!OneSide
<1>3. DelayTypes'
  BY <1>1, WordFacts DEF DelayInv, DelayTypes
<1>4. DelayStamped'
  <2>1. ASSUME NEW m \in delayed_dmsgq_
        PROVE  m.due + PassTime < delayed_clock' + StampWord \div 2
    <3>1. /\ m.due \in Nat /\ PassTime \in Nat /\ StampWord \div 2 \in Nat
          /\ delayed_clock \in Nat /\ m.due + PassTime < delayed_clock + StampWord \div 2
      BY WordFacts DEF DelayInv, DelayTypes, DelayStamped, DelayMessage
    <3> QED
      BY <1>1, <3>1
  <2> QED
    BY <1>1, <2>1 DEF DelayInv, DelayStamped
<1>5. DelayNumbered'
  <2>1. \A k \in 1 .. Len(delayed_delivered) : delayed_delivered[k].due \in Nat
    BY DeliveredAre
  <2> QED
    BY <1>1, <2>1 DEF DelayInv, DelayNumbered, DelayTypes
<1>6. DelayScans'
  <2>1. ASSUME delayed_at = "scan"
        PROVE  \E c \in Nat : DelayReadAt(c)'
    <3>1. PICK c \in Nat : DelayReadAt(c)
      BY <2>1 DEF DelayInv, DelayScans
    <3>2. delayed_clock - c < PassTime
      BY <1>1, <2>1, <3>1, ReadIsSeen
    <3>3. c <= delayed_clock' /\ delayed_clock' <= c + PassTime
      BY <1>1, <3>1, <3>2, WordFacts DEF DelayReadAt, DelayInv, DelayTypes
    <3>4. DelayReadAt(c)'
      BY <1>1, <1>2, <3>1, <3>3 DEF DelayReadAt
    <3> QED
      BY <3>4
  <2> QED
    BY <1>1, <2>1 DEF DelayScans
<1>7. DelayWaits'
  <2>1. delayed_at = "wait" /\ delayed_wakeAt # -1 => delayed_clock + 1 <= delayed_wakeAt + PassTime
    BY <1>1, WordFacts DEF DelayInv, DelayTypes
  <2> QED
    BY <1>1, <1>2, <2>1 DEF DelayInv, DelayWaits
<1>8. DelayQueue!OneSide' => DelayInOrder'
  BY <1>1, <1>2 DEF DelayInv, DelayInOrder
<1>9. DelaySided'
  BY <1>1, <1>2 DEF DelayInv, DelaySided
<1> QED
  BY <1>1, <1>3, <1>4, <1>5, <1>6, <1>7, <1>8, <1>9 DEF DelayInv

LEMMA DelayPostKeeps ==
    ASSUME DelayInv, NEW delay \in PostDelay, DelayQueue!Post(delay)
    PROVE  DelayInv'
<1> DEFINE num == delayed_dmsgq_next_num_
           due == delayed_clock + delay
           new == [trigger |-> due % StampWord, num |-> num, due |-> due]
<1>1. /\ delayed_dmsgq_next_num_' = num + 1
      /\ delayed_wakeAt' = IF delayed_at = "wait"
                              /\ (delayed_wakeAt = -1 \/ delayed_clock < delayed_wakeAt)
                           THEN delayed_clock ELSE delayed_wakeAt
      /\ delayed_straddled' = (delayed_straddled \/ \E m \in delayed_dmsgq_ :
                                   m.due \div StampWord # due \div StampWord)
      /\ UNCHANGED <<delayed_clock, delayed_delivered, delayed_at, delayed_msCurrent,
                     delayed_early, delayed_overslept>>
  BY DEF DelayQueue!Post, DelayQueue!kForever
<1>2. /\ delayed_clock \in Nat /\ delay \in Nat /\ num \in Nat /\ due \in Nat
      /\ PassTime \in Nat /\ delay + PassTime < StampWord \div 2
      /\ StampWord \in Nat \ {0} /\ StampWord \div 2 \in Nat
  BY WordFacts DEF DelayInv, DelayTypes
<1>3. DelayQueue!TimeAfter(delay) = due % StampWord
  <2> DEFINE W == StampWord
             n == delayed_clock
             k == n % W
             l == n \div W
  <2>1. W \in Nat \ {0} /\ n \in Nat /\ delay \in Nat
    BY <1>2
  <2>2. DelayQueue!TimeAfter(delay) = (k + delay) % W
    BY DEF DelayQueue!TimeAfter, DelayQueue!Stamp, DelayQueue!Time
  <2>3. k \in 0 .. W - 1 /\ l \in Int /\ n = W * l + k
    <3> HIDE DEF W, n
    <3> QED
      BY <2>1, WordDivides
  <2> HIDE DEF k, l, W, n
  <2>4. n + delay = W * l + (k + delay)
    BY <2>1, <2>3
  <2>5. (W * l + (k + delay)) % W = (k + delay) % W
    <3> DEFINE y == k + delay
    <3>1. y \in Int
      BY <2>1, <2>3
    <3> HIDE DEF y
    <3>2. (W * l + y) % W = y % W
      BY <2>1, <2>3, <3>1, WordsMore
    <3> QED
      BY <3>2 DEF y
  <2> QED
    BY <2>2, <2>4, <2>5 DEF W, n
<1>4. delayed_dmsgq_' = delayed_dmsgq_ \cup {new}
  BY <1>3 DEF DelayQueue!Post
<1>5. /\ new \in DelayMessage /\ new.num = num /\ new.due = due
      /\ new.trigger = due % StampWord
  BY <1>2, WordDivides DEF DelayMessage
<1>6. delayed_clock <= due /\ due + PassTime < delayed_clock + StampWord \div 2
  <2> DEFINE H == StampWord \div 2
  <2>1. H \in Nat /\ delay + PassTime < H
    BY <1>2
  <2> HIDE DEF H
  <2>2. delayed_clock <= due /\ due + PassTime < delayed_clock + H
    BY <1>2, <2>1
  <2> QED
    BY <2>2 DEF H
<1> HIDE DEF new
<1>7. DelayQueue!OneSide' => DelayQueue!OneSide
  BY <1>1 DEF DelayQueue!OneSide
<1>8. DelayTypes'
  BY <1>1, <1>2, <1>4, <1>5 DEF DelayInv, DelayTypes
<1>9. DelayStamped'
  BY <1>1, <1>4, <1>5, <1>6 DEF DelayInv, DelayStamped
<1>10. DelayNumbered'
  <2>1. \A m \in delayed_dmsgq_ : m.num \in Nat /\ m.num < num
    BY DEF DelayInv, DelayTypes, DelayNumbered, DelayMessage
  <2>2. \A k \in 1 .. Len(delayed_delivered) :
            delayed_delivered[k].num \in Nat /\ delayed_delivered[k].num < num
    BY DeliveredAre
  <2>3. \A m \in delayed_dmsgq_' : m.num < num + 1
    BY <1>2, <1>4, <1>5, <2>1
  <2>4. \A m, n \in delayed_dmsgq_' : m.num = n.num => m = n
    <3>1. \A m \in delayed_dmsgq_ : m.num # new.num
      BY <1>2, <1>5, <2>1
    <3>2. \A m, n \in delayed_dmsgq_ : m.num = n.num => m = n
      BY DEF DelayInv, DelayNumbered
    <3> QED
      BY <1>4, <3>1, <3>2
  <2>5. \A k \in 1 .. Len(delayed_delivered) :
            delayed_delivered[k].num < num + 1 /\ delayed_delivered[k].due <= delayed_clock
    BY <1>2, <2>2 DEF DelayInv, DelayNumbered
  <2> QED
    BY <1>1, <2>3, <2>4, <2>5 DEF DelayNumbered
<1>11. DelayScans'
  <2>1. ASSUME delayed_at = "scan"
        PROVE  \E c \in Nat : DelayReadAt(c)'
    <3>1. PICK c \in Nat : DelayReadAt(c)
      BY <2>1 DEF DelayInv, DelayScans
    <3>2. c <= due + 2 * PassTime
      BY <1>2, <1>6, <3>1 DEF DelayReadAt
    <3>3. DelayReadAt(c)'
      BY <1>1, <1>4, <1>5, <1>7, <3>1, <3>2 DEF DelayReadAt
    <3> QED
      BY <3>3
  <2> QED
    BY <1>1, <2>1 DEF DelayScans
<1>12. DelayWaits'
  <2> SUFFICES ASSUME delayed_at = "wait"
               PROVE  /\ delayed_wakeAt' # -1 => delayed_clock <= delayed_wakeAt' + PassTime
                      /\ DelayQueue!OneSide' => \A m \in delayed_dmsgq_' :
                             delayed_wakeAt' # -1 /\ delayed_wakeAt' <= m.due + PassTime
    BY <1>1 DEF DelayWaits
  <2>1. delayed_wakeAt \in {-1} \cup Nat
    BY DEF DelayInv, DelayTypes
  <2>2. /\ delayed_wakeAt' \in Nat /\ delayed_wakeAt' <= delayed_clock
        /\ delayed_wakeAt # -1 => delayed_wakeAt' <= delayed_wakeAt
    BY <1>1, <1>2, <2>1
  <2>3. delayed_clock <= delayed_wakeAt' + PassTime
    BY <1>1, <1>2, <2>1 DEF DelayInv, DelayWaits
  <2>4. ASSUME DelayQueue!OneSide', NEW m \in delayed_dmsgq_'
        PROVE  delayed_wakeAt' # -1 /\ delayed_wakeAt' <= m.due + PassTime
    <3>1. CASE m = new
      BY <1>2, <1>5, <1>6, <2>2, <3>1
    <3>2. CASE m \in delayed_dmsgq_
      <4>1. delayed_wakeAt # -1 /\ delayed_wakeAt <= m.due + PassTime
        BY <1>7, <2>4, <3>2 DEF DelayInv, DelayWaits
      <4>2. m.due \in Nat
        BY <3>2 DEF DelayInv, DelayTypes, DelayMessage
      <4> QED
        BY <1>2, <2>1, <2>2, <4>1, <4>2
    <3> QED
      BY <1>4, <2>4, <3>1, <3>2
  <2> QED
    BY <2>3, <2>4
<1>13. DelayQueue!OneSide' => DelayInOrder'
  <2> SUFFICES ASSUME DelayQueue!OneSide'
               PROVE  DelayInOrder'
    OBVIOUS
  <2>1. ASSUME NEW k \in 1 .. Len(delayed_delivered)
        PROVE  DelayBefore(delayed_delivered[k], new)
    <3>1. /\ delayed_delivered[k].num \in Nat /\ delayed_delivered[k].num < num
          /\ delayed_delivered[k].due \in Nat /\ delayed_delivered[k].due <= delayed_clock
      BY DeliveredAre
    <3>2. delayed_clock \in Nat /\ delayed_clock <= due /\ due \in Nat /\ new.due = due /\ new.num = num
      BY <1>2, <1>5, <1>6
    <3> HIDE DEF due, num
    <3> QED
      BY <3>1, <3>2 DEF DelayBefore
  <2> QED
    BY <1>1, <1>4, <1>7, <2>1 DEF DelayInv, DelayInOrder
<1>14. DelaySided'
  <2> SUFFICES ASSUME DelayQueue!OneSide'
               PROVE  \A m, n \in delayed_dmsgq_' :
                          m.due \div StampWord = n.due \div StampWord
    BY DEF DelaySided
  <2>1. \A m \in delayed_dmsgq_ : m.due \div StampWord = due \div StampWord
    BY <1>1 DEF DelayQueue!OneSide
  <2> QED
    BY <1>4, <1>5, <2>1
<1> QED
  BY <1>1, <1>8, <1>9, <1>10, <1>11, <1>12, <1>13, <1>14 DEF DelayInv

LEMMA DelayTriggerKeeps ==
    ASSUME DelayInv, DelayQueue!Trigger
    PROVE  DelayInv'
<1> DEFINE s == delayed_delivered
           n == Len(s)
<1> PICK t : t = DelayQueue!Top
  OBVIOUS
<1>1. /\ delayed_at = "scan" /\ delayed_dmsgq_ # {}
      /\ ~DelayQueue!TimeIsLater(delayed_msCurrent, t.trigger)
      /\ delayed_delivered' = Append(s, t)
      /\ delayed_early' = (delayed_early \/ delayed_clock < t.due)
      /\ delayed_dmsgq_' = delayed_dmsgq_ \ {t}
      /\ UNCHANGED <<delayed_clock, delayed_dmsgq_next_num_, delayed_at, delayed_msCurrent,
                     delayed_wakeAt, delayed_overslept, delayed_straddled>>
  BY DEF DelayQueue!Trigger
<1>2. t \in delayed_dmsgq_
  BY <1>1, TopIsFirst
<1>3. /\ t \in DelayMessage /\ t.due \in Nat /\ t.num \in Nat /\ t.num < delayed_dmsgq_next_num_
      /\ s \in Seq(DelayMessage) /\ delayed_clock \in Nat
  BY <1>2 DEF DelayInv, DelayTypes, DelayNumbered, DelayMessage
<1>4. PICK c \in Nat : DelayReadAt(c)
  BY <1>1 DEF DelayInv, DelayScans
<1>5. t.due <= c /\ c <= delayed_clock
  <2>1. ~ (t.due > c)
    BY <1>1, <1>2, <1>4, DueIsSeen
  <2> QED
    BY <1>3, <1>4, <2>1 DEF DelayReadAt
<1>6. delayed_early' = FALSE
  <2>1. ~ (delayed_clock < t.due)
    BY <1>3, <1>4, <1>5
  <2>2. delayed_early = FALSE
    BY DEF DelayInv
  <2> QED
    BY <1>1, <2>1, <2>2
<1>7. /\ delayed_delivered' \in Seq(DelayMessage)
      /\ n \in Nat /\ Len(delayed_delivered') = n + 1
      /\ delayed_delivered'[n + 1] = t
      /\ \A k \in 1 .. n : delayed_delivered'[k] = s[k]
      /\ DOMAIN s = 1 .. n /\ DOMAIN delayed_delivered' = 1 .. n + 1
  BY <1>1, <1>3
<1> HIDE DEF n
<1>9. DelayQueue!OneSide' => DelayQueue!OneSide
  BY <1>1 DEF DelayQueue!OneSide
<1>10. \A k \in 1 .. n : /\ s[k].num \in Nat /\ s[k].num < delayed_dmsgq_next_num_
                         /\ s[k].due \in Nat /\ s[k].due <= delayed_clock
  BY DeliveredAre DEF n
<1>11. \A k \in 1 .. n + 1 : k \in 1 .. n \/ k = n + 1
  BY <1>7
<1> HIDE DEF s
<1>12. DelayTypes'
  BY <1>1, <1>7 DEF DelayInv, DelayTypes
<1>13. DelayStamped'
  BY <1>1 DEF DelayInv, DelayStamped
<1>14. DelayNumbered'
  <2>1. \A k \in 1 .. n + 1 : /\ delayed_delivered'[k].num < delayed_dmsgq_next_num_
                              /\ delayed_delivered'[k].due <= delayed_clock
    BY <1>3, <1>4, <1>5, <1>7, <1>10, <1>11
  <2> QED
    BY <1>1, <1>7, <2>1 DEF DelayInv, DelayNumbered
<1>15. DelayScans'
  <2>1. DelayReadAt(c)'
    BY <1>1, <1>4, <1>9 DEF DelayReadAt
  <2> QED
    BY <2>1 DEF DelayScans
<1>16. DelayWaits'
  BY <1>1 DEF DelayWaits
<1>17. DelayQueue!OneSide' => DelayInOrder'
  <2> SUFFICES ASSUME DelayQueue!OneSide'
               PROVE  DelayInOrder'
    OBVIOUS
  <2>1. DelayQueue!OneSide /\ DelayInOrder
    BY <1>9 DEF DelayInv
  <2>2. \A m \in delayed_dmsgq_' : DelayBefore(t, m)
    BY <1>1, <2>1, TopIsDueFirst
  <2>3. \A k \in 1 .. n : DelayBefore(s[k], t) /\ \A m \in delayed_dmsgq_' : DelayBefore(s[k], m)
    BY <1>1, <1>2, <2>1 DEF DelayInOrder, s, n
  <2>4. \A j, k \in 1 .. n : j < k => DelayBefore(s[j], s[k])
    BY <2>1 DEF DelayInOrder, s, n
  <2>5. ASSUME NEW j \in 1 .. n + 1, NEW k \in 1 .. n + 1, j < k
        PROVE  DelayBefore(delayed_delivered'[j], delayed_delivered'[k])
    <3>1. j \in 1 .. n
      BY <1>7, <2>5
    <3>2. CASE k \in 1 .. n
      BY <1>7, <2>4, <2>5, <3>1, <3>2
    <3>3. CASE k = n + 1
      BY <1>7, <2>3, <3>1, <3>3
    <3> QED
      BY <1>11, <3>2, <3>3
  <2>6. ASSUME NEW k \in 1 .. n + 1, NEW m \in delayed_dmsgq_'
        PROVE  DelayBefore(delayed_delivered'[k], m)
    BY <1>7, <1>11, <2>2, <2>3
  <2> QED
    BY <1>1, <1>7, <2>1, <2>5, <2>6 DEF DelayInOrder
<1>18. DelaySided'
  BY <1>1, <1>9 DEF DelayInv, DelaySided
<1> QED
  BY <1>6, <1>12, <1>13, <1>14, <1>15, <1>16, <1>17, <1>18 DEF DelayInv

\* The wait that begins ends when the next message is due, or before.
LEMMA BeginWaitKeeps ==
    ASSUME DelayInv, DelayQueue!BeginWait
    PROVE  DelayInv'
<1> PICK t : t = DelayQueue!Top
  OBVIOUS
<1> DEFINE D == delayed_dmsgq_
           next == IF D = {} THEN -1
                   ELSE DelayQueue!TimeDiff(t.trigger, delayed_msCurrent)
<1>1. /\ delayed_at = "scan" /\ delayed_at' = "wait"
      /\ D # {} => DelayQueue!TimeIsLater(delayed_msCurrent, t.trigger)
      /\ delayed_wakeAt' = IF next = -1 THEN -1 ELSE delayed_clock + next
      /\ delayed_overslept' = \E m \in D : delayed_wakeAt' = -1 \/ delayed_wakeAt' >
             m.due + DelayQueue!TimeDiff(DelayQueue!Time, delayed_msCurrent)
      /\ UNCHANGED <<delayed_clock, delayed_dmsgq_, delayed_dmsgq_next_num_,
                     delayed_delivered, delayed_msCurrent, delayed_early,
                     delayed_straddled>>
  BY DEF DelayQueue!BeginWait, DelayQueue!DelayNext, DelayQueue!kForever
<1>2. PICK c \in Nat : DelayReadAt(c)
  BY <1>1 DEF DelayInv, DelayScans
<1>3. /\ delayed_clock \in Nat /\ PassTime \in Nat
      /\ c <= delayed_clock /\ delayed_clock <= c + PassTime
  BY <1>2, WordFacts DEF DelayInv, DelayTypes, DelayReadAt
<1>4. DelayQueue!TimeDiff(DelayQueue!Time, delayed_msCurrent) = delayed_clock - c
  BY <1>2, ReadIsSeen
<1>5. ASSUME D # {}
      PROVE  next \in Nat /\ next > 0
  <2>1. next > 0
    BY <1>1, <1>5 DEF DelayQueue!TimeIsLater, DelayQueue!TimeDiff
  <2>2. t \in D /\ t.trigger \in Nat /\ delayed_msCurrent \in Nat
    <3>1. t \in D
      BY <1>5, TopIsFirst
    <3>2. t.trigger \in Nat
      BY <3>1 DEF DelayInv, DelayTypes, DelayMessage
    <3>3. delayed_msCurrent \in 0 .. StampWord - 1
      BY DEF DelayInv, DelayTypes
    <3>4. StampWord \in Nat
      BY WordFacts
    <3> QED
      BY <3>1, <3>2, <3>3, <3>4
  <2>3. next \in Int
    <3> DEFINE x == t.trigger - delayed_msCurrent
    <3>1. x \in Int
      BY <2>2
    <3>2. x % StampWord \in Int /\ StampWord \in Int
      <4> HIDE DEF x
      <4>1. StampWord \in Nat \ {0}
        BY WordFacts
      <4>2. x % StampWord \in 0 .. StampWord - 1
        BY <3>1, <4>1, WordDivides
      <4> QED
        BY <4>1, <4>2
    <3>3. DelayQueue!Signed(x) \in Int
      BY <3>2 DEF DelayQueue!Signed, DelayQueue!Stamp
    <3> QED
      BY <1>5, <3>3 DEF DelayQueue!TimeDiff
  <2> HIDE DEF next
  <2> QED
    BY <2>1, <2>3
<1>6. DelayQueue!OneSide' => DelayQueue!OneSide
  BY <1>1 DEF DelayQueue!OneSide
<1>7. ASSUME DelayQueue!OneSide, NEW m \in D
      PROVE  /\ delayed_wakeAt' # -1 /\ delayed_wakeAt' <= m.due + (delayed_clock - c)
             /\ m.due \in Nat
  <2>1. t \in D /\ D # {}
    BY TopIsFirst
  <2>2. next = t.due - c
    BY <1>1, <1>2, <1>7, <2>1, DueIsSeen
  <2>3. t.due \in Nat /\ m.due \in Nat
    BY <2>1 DEF DelayInv, DelayTypes, DelayMessage
  <2>4. t.due <= m.due
    <3>1. t = m \/ DelayBefore(t, m)
      BY <1>7, <2>1, TopIsDueFirst
    <3> QED
      BY <2>3, <3>1 DEF DelayBefore
  <2>5. next \in Nat /\ next > 0
    BY <1>5, <2>1
  <2> HIDE DEF next
  <2> QED
    BY <1>1, <1>3, <2>2, <2>3, <2>4, <2>5
<1>8. delayed_wakeAt' = -1 \/ (delayed_wakeAt' \in Nat /\ delayed_clock <= delayed_wakeAt')
  <2>1. CASE D = {}
    BY <1>1, <2>1
  <2>2. CASE D # {}
    <3>1. next \in Nat /\ next > 0
      BY <1>5, <2>2
    <3> HIDE DEF next
    <3> QED
      BY <1>1, <1>3, <3>1
  <2> QED
    BY <2>1, <2>2
<1> HIDE DEF next
<1>9. DelayTypes' /\ DelayStamped' /\ DelayNumbered'
  <2>1. DelayTypes'
    BY <1>1, <1>8 DEF DelayInv, DelayTypes
  <2>2. DelayStamped'
    BY <1>1 DEF DelayInv, DelayStamped
  <2>3. DelayNumbered'
    BY <1>1 DEF DelayInv, DelayNumbered
  <2> QED
    BY <2>1, <2>2, <2>3
<1>10. DelayScans'
  BY <1>1 DEF DelayScans
<1>11. DelayWaits'
  <2>1. delayed_wakeAt' # -1 => delayed_clock <= delayed_wakeAt' + PassTime
    BY <1>3, <1>8
  <2>2. ASSUME DelayQueue!OneSide', NEW m \in D
        PROVE  delayed_wakeAt' # -1 /\ delayed_wakeAt' <= m.due + PassTime
    <3>1. /\ delayed_wakeAt' # -1 /\ delayed_wakeAt' <= m.due + (delayed_clock - c)
          /\ m.due \in Nat
      BY <1>6, <1>7, <2>2
    <3> QED
      BY <1>3, <1>8, <3>1
  <2> QED
    BY <1>1, <2>1, <2>2 DEF DelayWaits
<1>12. DelayQueue!OneSide' => DelayInOrder'
  <2> SUFFICES ASSUME DelayQueue!OneSide'
               PROVE  DelayInOrder'
    OBVIOUS
  <2>1. ASSUME NEW m \in D
        PROVE  ~ (delayed_wakeAt' = -1 \/ delayed_wakeAt' > m.due + (delayed_clock - c))
    <3>1. /\ delayed_wakeAt' # -1 /\ delayed_wakeAt' <= m.due + (delayed_clock - c)
          /\ m.due \in Nat
      BY <1>6, <1>7
    <3> QED
      BY <1>3, <1>8, <3>1
  <2>2. delayed_overslept' = FALSE
    BY <1>1, <1>4, <2>1
  <2> QED
    BY <1>1, <1>6, <2>2 DEF DelayInv, DelayInOrder
<1>13. DelaySided'
  BY <1>1, <1>6 DEF DelayInv, DelaySided
<1> QED
  BY <1>1, <1>9, <1>10, <1>11, <1>12, <1>13 DEF DelayInv

LEMMA EndWaitKeeps ==
    ASSUME DelayInv, DelayQueue!EndWait
    PROVE  DelayInv'
<1>1. /\ delayed_at = "wait" /\ delayed_wakeAt # -1 /\ delayed_clock >= delayed_wakeAt
      /\ delayed_at' = "scan" /\ delayed_msCurrent' = delayed_clock % StampWord
      /\ UNCHANGED <<delayed_clock, delayed_dmsgq_, delayed_dmsgq_next_num_,
                     delayed_delivered, delayed_wakeAt, delayed_early, delayed_overslept,
                     delayed_straddled>>
  BY DEF DelayQueue!EndWait, DelayQueue!kForever, DelayQueue!Time
<1>2. /\ delayed_clock \in Nat /\ delayed_wakeAt \in Nat /\ PassTime \in Nat
      /\ delayed_clock % StampWord \in 0 .. StampWord - 1
  BY <1>1, WordFacts, WordDivides DEF DelayInv, DelayTypes
<1>3. DelayQueue!OneSide' => DelayQueue!OneSide
  BY <1>1 DEF DelayQueue!OneSide
<1>4. DelayTypes'
  BY <1>1, <1>2 DEF DelayInv, DelayTypes
<1>5. DelayStamped' /\ DelayNumbered'
  BY <1>1 DEF DelayInv, DelayStamped, DelayNumbered
<1>6. DelayScans'
  <2>1. ASSUME DelayQueue!OneSide', NEW m \in delayed_dmsgq_
        PROVE  delayed_clock <= m.due + 2 * PassTime
    <3>1. delayed_clock <= delayed_wakeAt + PassTime /\ delayed_wakeAt <= m.due + PassTime
      BY <1>1, <1>3, <2>1 DEF DelayInv, DelayWaits
    <3>2. m.due \in Nat
      BY DEF DelayInv, DelayTypes, DelayMessage
    <3> QED
      BY <1>2, <3>1, <3>2
  <2>2. \E c \in Nat : DelayReadAt(c)'
    <3>1. PICK c \in Nat : c = delayed_clock
      BY <1>2
    <3>2. DelayReadAt(c)'
      BY <1>1, <1>2, <2>1, <3>1 DEF DelayReadAt
    <3> QED
      BY <3>2
  <2> QED
    BY <2>2 DEF DelayScans
<1>7. DelayWaits'
  BY <1>1 DEF DelayWaits
<1>8. DelayQueue!OneSide' => DelayInOrder'
  BY <1>1, <1>3 DEF DelayInv, DelayInOrder
<1>9. DelaySided'
  BY <1>1, <1>3 DEF DelayInv, DelaySided
<1> QED
  BY <1>1, <1>4, <1>5, <1>6, <1>7, <1>8, <1>9 DEF DelayInv

LEMMA DelayStepKeeps == DelayInv /\ DelayQueue!Next => DelayInv'
BY TickKeeps, DelayPostKeeps, DelayTriggerKeeps, BeginWaitKeeps, EndWaitKeeps
   DEF DelayQueue!Next

LEMMA DelaySuffices == DelayInv => DelayQueue!TypeOK /\ DelayQueue!DeliveredInTime
<1> SUFFICES ASSUME DelayInv
             PROVE  DelayQueue!TypeOK /\ DelayQueue!DeliveredInTime
  OBVIOUS
<1>1. DelayQueue!TypeOK
  <2>1. ASSUME delayed_at = "scan"
        PROVE  DelayQueue!TimeDiff(DelayQueue!Time, delayed_msCurrent) \in 0 .. PassTime
    <3>1. PICK c \in Nat : DelayReadAt(c)
      BY <2>1 DEF DelayInv, DelayScans
    <3>2. c <= delayed_clock /\ delayed_clock <= c + PassTime /\ delayed_clock \in Nat
          /\ PassTime \in Nat
      BY <3>1, WordFacts DEF DelayReadAt, DelayInv, DelayTypes
    <3>3. DelayQueue!TimeDiff(DelayQueue!Time, delayed_msCurrent) = delayed_clock - c
      BY <3>1, ReadIsSeen
    <3>4. delayed_clock - c \in 0 .. PassTime
      BY <3>2
    <3> QED
      BY <3>3, <3>4
  <2> QED
    BY <2>1 DEF DelayInv, DelayTypes, DelayStamped, DelayQueue!TypeOK, DelayQueue!kForever,
                DelayQueue!Stamp
<1>2. DelayQueue!DeliveredInTime
  <2>1. delayed_delivered \in Seq(DelayMessage)
    BY DEF DelayInv, DelayTypes
  <2>2. DOMAIN delayed_delivered = 1 .. Len(delayed_delivered)
    BY <2>1
  <2> QED
    BY <2>2 DEF DelayInv, DelayInOrder, DelayBefore, DelayQueue!DeliveredInTime
<1> QED
  BY <1>1, <1>2

\* A step of another part.
LEMMA DelayStutters == DelayInv /\ UNCHANGED DelayQueue!vars => DelayInv'
<1> SUFFICES ASSUME DelayInv, UNCHANGED DelayQueue!vars
             PROVE  DelayInv'
  OBVIOUS
<1> USE DEF DelayQueue!vars
<1>1. DelayTypes' /\ DelayStamped' /\ DelayNumbered' /\ delayed_early' = FALSE
  BY DEF DelayInv, DelayTypes, DelayStamped, DelayNumbered
<1>2. DelayQueue!OneSide' <=> DelayQueue!OneSide
  BY DEF DelayQueue!OneSide
<1>3. \A c : DelayReadAt(c)' <=> DelayReadAt(c)
  BY <1>2 DEF DelayReadAt
<1>4. DelayScans' /\ DelayWaits' /\ DelaySided' /\ (DelayQueue!OneSide' => DelayInOrder')
  BY <1>2, <1>3 DEF DelayInv, DelayScans, DelayWaits, DelaySided, DelayInOrder
<1> QED
  BY <1>1, <1>4 DEF DelayInv

-----------------------------------------------------------------------------
(* The parts together.                                                     *)

LEMMA EachBegins ==
    AllInit => /\ Init /\ AsyncWrite!Init /\ PosixSignals!Init
               /\ SocketServer!Init /\ SignalThread!Init
               /\ QueueManager!Init /\ DelayQueue!Init
BY DEF AllInit

\* A step of one part is none of the others.
LEMMA EachMoves ==
    ASSUME [AllNext]_all_vars
    PROVE  /\ [Next]_vars
           /\ [AsyncWrite!Next]_(AsyncWrite!vars)
           /\ [PosixSignals!Next]_(PosixSignals!vars)
           /\ [SocketServer!Next]_(SocketServer!vars)
           /\ [SignalThread!Next]_(SignalThread!vars)
           /\ [QueueManager!Next]_(QueueManager!vars)
           /\ [DelayQueue!Next]_(DelayQueue!vars)
<1> USE DEF AllNext, all_vars, IqRequestsStep, AsyncWriteStep, PosixSignalsStep,
            SocketServerStep, SignalThreadStep, QueueManagerStep, DelayQueueStep
<1>1. [Next]_vars
  OBVIOUS
<1>2. [AsyncWrite!Next]_(AsyncWrite!vars)
  BY DEF async_vars, AsyncWrite!vars, AsyncWrite!caller_vars, AsyncWrite!stream_vars
<1>3. [PosixSignals!Next]_(PosixSignals!vars)
  BY DEF posix_vars, PosixSignals!vars
<1>4. [SocketServer!Next]_(SocketServer!vars)
  BY DEF server_vars, SocketServer!vars, SocketServer!wait_vars, SocketServer!set_vars
<1>5. [SignalThread!Next]_(SignalThread!vars)
  BY DEF signal_vars, SignalThread!vars, SignalThread!worker_vars
<1>6. [QueueManager!Next]_(QueueManager!vars)
  BY DEF queues_vars, QueueManager!vars, QueueManager!queue_vars, QueueManager!thread_vars,
         QueueManager!lock_vars
<1>7. [DelayQueue!Next]_(DelayQueue!vars)
  BY DEF delayed_vars, DelayQueue!vars
<1> QED
  BY <1>1, <1>2, <1>3, <1>4, <1>5, <1>6, <1>7

\* Requests also while the others move (IqTask::ProcessResponse, OnTimeout).
THEOREM CallersStayTold == AllSpec => []RequestsTellOnce
<1>1. AllInit => Init
  BY EachBegins
<1>2. [AllNext]_all_vars => [Next]_vars
  BY EachMoves
<1>3. IInv => RequestsTellOnce
  BY DEF IInv, RequestsTellOnce
<1> QED
  BY <1>1, <1>2, <1>3, IqInit, IqNext, PTL DEF AllSpec

\* However the callers and the write thread take turns, and whenever the stream
\* is closed: each chunk is written once and in its turn, or dropped
\* (AsyncWriteStream::Write, Flush, ClearBufferAndWrite).
THEOREM ChunksAreWrittenOnce == AllSpec => [](AsyncWrite!TypeOK /\ AsyncWrite!EachChunkOnce)
<1>1. AllInit => AsyncInv
  BY EachBegins, AsyncInit
<1>2. AsyncInv /\ [AllNext]_all_vars => AsyncInv'
  BY EachMoves, AsyncNext
<1> QED
  BY <1>1, <1>2, AsyncSuffices, PTL DEF AllSpec

\* Of any signals, one whose flag is set is seen by the loop, or its byte is in
\* the pipe or still to be written (PosixSignalHandler::OnPosixSignalReceived,
\* PosixSignalDispatcher::OnEvent).
THEOREM SignalsAreOwed ==
    AllSpec => [](PosixSignals!TypeOK /\ PosixSignals!NeverBlocksOwing)
<1>1. AllInit => PosixInv
  BY EachBegins, PosixInit
<1>2. PosixInv /\ [AllNext]_all_vars => PosixInv'
  BY EachMoves, PosixNext
<1> QED
  BY <1>1, <1>2, PosixSuffices, PTL DEF AllSpec

\* With any number of sockets, and whatever handlers do with them: as long as
\* none is closed in a Wait, select waits for what the dispatchers ask for, now,
\* on descriptors that are open (PhysicalSocketServer::Wait).
THEOREM SelectIsAsked ==
    AllSpec => [](SocketServer!TypeOK /\ SocketServer!SelectsWhatIsAsked)
<1>1. AllInit => ServerInv
  BY EachBegins, ServerInit
<1>2. ServerInv /\ [AllNext]_all_vars => ServerInv'
  BY EachMoves, ServerNext
<1> QED
  BY <1>1, <1>2, ServerSuffices, PTL DEF AllSpec

\* However often it is started, and whoever lets go first, a SignalThread is
\* deleted last of all, and tells the end of its work once (SignalThread::Start,
\* Destroy, OnMessage, Run).
THEOREM ThreadIsDeletedLast ==
    AllSpec => [](/\ SignalThread!TypeOK /\ SignalThread!DeletedLast
                  /\ SignalThread!SignalledOnce)
<1>1. AllInit => SignalInv
  BY EachBegins, SignalInit
<1>2. SignalInv /\ [AllNext]_all_vars => SignalInv'
  BY EachMoves, SignalNext
<1> QED
  BY <1>1, <1>2, SignalSuffices, PTL DEF AllSpec

\* What several threads share keeps its order (AsyncWriteStream,
\* PosixSignalHandler, PhysicalSocketServer::Wait, SignalThread).
THEOREM ThreadsStayInOrder == AllSpec => []ThreadsKeepOrder
BY ChunksAreWrittenOnce, SignalsAreOwed, SelectIsAsked, ThreadIsDeletedLast, PTL
   DEF ThreadsKeepOrder

\* Whatever threads, handlers and messages there are, and whichever of them go:
\* no message reaches a handler that is destroyed or a queue that is gone, and
\* the manager knows the queues in use (MessageQueueManager::ClearInternal,
\* MessageQueue::Clear, Post, Get); no delayed message is delivered before it is
\* due, and they are delivered in order and in time for as long as those that
\* wait at one time are due on one side of a wrap (PostDelayed, Get).
THEOREM MessagesStayInTime == AllSpec => []MessagesInTime
<1>1. AllInit => QueueInv /\ DelayInv
  BY EachBegins, QueueInit, DelayStart
<1>2. QueueInv /\ [AllNext]_all_vars => QueueInv'
  BY EachMoves, QueueStepKeeps, QueueStutters
<1>3. DelayInv /\ [AllNext]_all_vars => DelayInv'
  BY EachMoves, DelayStepKeeps, DelayStutters
<1>4. QueueInv /\ DelayInv => MessagesInTime
  BY QueueSuffices, DelaySuffices DEF MessagesInTime
<1> QED
  BY <1>1, <1>2, <1>3, <1>4, PTL DEF AllSpec
=============================================================================
