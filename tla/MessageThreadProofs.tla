------------------------- MODULE MessageThreadProofs -------------------------
(***************************************************************************)
(* Proofs about MessageThread, for any number of threads and any bounds:   *)
(* the types, that the flag a reader tests without the lock is set while a *)
(* Send is listed, and that a thread which waits in Get is woken; then     *)
(* what a message handler may count on: a delayed message is not handled   *)
(* before its time, and those of one time keep their order; while the      *)
(* handler of a Send runs, its sender waits for it, and it is woken when   *)
(* the handler returns.                                                    *)
(***************************************************************************)
EXTENDS MessageThread, SequenceTheorems, TLAPS

USE DEF queue_vars, bound_vars

-----------------------------------------------------------------------------
(* The invariant.                                                          *)

\* Which frame may be entered from which: Get serves Sends before it polls, a
\* Send serves Sends before it waits, and all else is called by a handler.
Nested(f, g) ==
    \/ f.kind = "get" /\ f.at = "poll" /\ g.kind = "receive"
    \/ f.kind = "send" /\ f.at = "wait" /\ g.kind = "receive"
    \/ f.kind = "receive" /\ g.kind = "handle"
    \/ f.kind = "handle" /\ g.kind \in {"handle", "post", "send", "quit"}

Shaped(s) == \A i \in 1 .. Len(s) - 1 : Nested(s[i], s[i + 1])
Shape     == \A t \in Thread : Shaped(stack[t])
Stacks    == stack \in [Thread -> Seq(Frame)] /\ Shape

\* Thread t is in Get itself, at one of the places of `places'.
InGet(t, places) ==
    Depth(t) > 0 /\ Top(t).kind = "get" /\ Top(t).at \in places

\* From where Get has looked for something on, its arrival wakes the reader.
Woken(t) == t \in signaled \/ Waking(t)
WokenInGet(t) ==
    /\ InGet(t, {"poll", "stop", "wait"}) /\ sendlist[t] # <<>> => Woken(t)
    /\ InGet(t, {"stop", "wait"}) /\ msgq[t] # <<>> => Woken(t)
    /\ InGet(t, {"wait"}) /\ t \in fStop => Woken(t)

IInv ==
    /\ TypeOK /\ Shape
    /\ SendsAreFlagged
    /\ \A t \in Thread : WokenInGet(t)

-----------------------------------------------------------------------------
(* Stacks.                                                                 *)

\* The frames below the innermost one.
LEMMA Cut ==
    ASSUME NEW s \in Seq(Frame), Len(s) > 0, Shaped(s)
    PROVE  LET u == SubSeq(s, 1, Len(s) - 1)
           IN  /\ u \in Seq(Frame) /\ Len(u) = Len(s) - 1
               /\ \A i \in 1 .. Len(s) - 1 : u[i] = s[i]
               /\ Shaped(u)
<1> DEFINE n == Len(s) - 1
           u == SubSeq(s, 1, n)
<1>0. n \in Nat /\ \A i \in 1 .. n : s[i] \in Frame
  OBVIOUS
<1> HIDE DEF n
<1>5. u \in Seq(Frame) /\ Len(u) = n /\ \A i \in 1 .. n : u[i] = s[i]
  BY <1>0, SubSeqProperties
<1>1. /\ u \in Seq(Frame) /\ Len(u) = Len(s) - 1
      /\ \A i \in 1 .. Len(s) - 1 : u[i] = s[i]
  BY <1>5 DEF n
<1> HIDE DEF u
<1>2. Shaped(u)
  BY <1>0, <1>1 DEF Shaped, n
<1> QED
  BY <1>1, <1>2 DEF u, n

\* One frame more.
LEMMA Grow ==
    ASSUME NEW s \in Seq(Frame), Shaped(s), NEW f \in Frame,
           Len(s) > 0 => Nested(s[Len(s)], f)
    PROVE  /\ Append(s, f) \in Seq(Frame)
           /\ Len(Append(s, f)) = Len(s) + 1
           /\ Append(s, f)[Len(s) + 1] = f
           /\ \A i \in 1 .. Len(s) : Append(s, f)[i] = s[i]
           /\ Shaped(Append(s, f))
<1> DEFINE u == Append(s, f)
<1>1. /\ u \in Seq(Frame) /\ Len(u) = Len(s) + 1
      /\ u[Len(s) + 1] = f
      /\ \A i \in 1 .. Len(s) : u[i] = s[i]
  OBVIOUS
<1> HIDE DEF u
<1>2. Shaped(u)
  <2> SUFFICES ASSUME NEW i \in 1 .. Len(u) - 1 PROVE Nested(u[i], u[i + 1])
    BY DEF Shaped
  <2>1. CASE i = Len(s)
    BY <1>1, <2>1
  <2>2. CASE i # Len(s)
    <3>1. i \in 1 .. Len(s) - 1 /\ i \in 1 .. Len(s) /\ i + 1 \in 1 .. Len(s)
      BY <1>1, <2>2
    <3> QED
      BY <1>1, <3>1 DEF Shaped
  <2> QED
    BY <2>1, <2>2
<1> QED
  BY <1>1, <1>2 DEF u

\* The innermost frame is a frame, entered from the one below it.
LEMMA Innermost ==
    ASSUME Stacks, NEW t \in Thread, Depth(t) > 0
    PROVE  /\ Top(t) \in Frame /\ Under(t) \in Seq(Frame)
           /\ Shaped(Under(t))
           /\ Len(Under(t)) = Depth(t) - 1
           /\ Len(Under(t)) > 0 => Nested(Under(t)[Len(Under(t))], Top(t))
<1>1. stack[t] \in Seq(Frame) /\ Shaped(stack[t])
  BY DEF Stacks, Shape
<1>2. Len(stack[t]) \in Nat /\ Len(stack[t]) > 0
  BY <1>1 DEF Depth
<1>3. Top(t) \in Frame
  BY <1>1, <1>2 DEF Top, Depth
<1>4. /\ Under(t) \in Seq(Frame) /\ Len(Under(t)) = Len(stack[t]) - 1
      /\ \A i \in 1 .. Len(stack[t]) - 1 : Under(t)[i] = stack[t][i]
      /\ Shaped(Under(t))
  BY <1>1, <1>2, Cut DEF Under, Depth
<1>5. ASSUME Len(Under(t)) > 0
      PROVE  Nested(Under(t)[Len(Under(t))], Top(t))
  <2> DEFINE i == Len(stack[t]) - 1
  <2>1. i \in 1 .. Len(stack[t]) - 1 /\ i + 1 = Len(stack[t])
    BY <1>2, <1>4, <1>5
  <2>2. Nested(stack[t][i], stack[t][i + 1])
    BY <1>1, <2>1 DEF Shaped
  <2> QED
    BY <1>4, <2>1, <2>2 DEF Top, Depth
<1> QED
  BY <1>3, <1>4, <1>5 DEF Depth

\* Only the stack of t moves.
Moves(t) == Stacks' /\ \A u \in Thread \ {t} : stack'[u] = stack[u]

LEMMA Moved ==
    ASSUME Stacks, NEW t \in Thread, NEW s \in Seq(Frame), Shaped(s),
           stack' = [stack EXCEPT ![t] = s]
    PROVE  Moves(t) /\ stack'[t] = s
<1>1. /\ stack' \in [Thread -> Seq(Frame)] /\ stack'[t] = s
      /\ \A u \in Thread \ {t} : stack'[u] = stack[u]
  BY DEF Stacks
<1>2. Shape'
  BY <1>1 DEF Stacks, Shape, Shaped
<1> QED
  BY <1>1, <1>2 DEF Moves, Stacks

LEMMA PopStep ==
    ASSUME Stacks, NEW t \in Thread, Depth(t) > 0, Pop(t)
    PROVE  /\ Moves(t)
           /\ Depth(t)' > 0 => Nested(Top(t)', Top(t)) /\ Depth(t) > 1
<1>1. Moves(t) /\ stack'[t] = Under(t)
  BY Innermost, Moved DEF Pop
<1> QED
  BY <1>1, Innermost DEF Depth, Top

LEMMA BecomeStep ==
    ASSUME Stacks, NEW t \in Thread, Depth(t) > 0, NEW f \in Frame,
           f.kind = Top(t).kind, Become(t, f)
    PROVE  Moves(t) /\ Depth(t)' > 0 /\ Top(t)' = f
<1>1. Len(Under(t)) > 0 => Nested(Under(t)[Len(Under(t))], f)
  BY Innermost DEF Nested
<1>2. /\ Append(Under(t), f) \in Seq(Frame) /\ Shaped(Append(Under(t), f))
      /\ Len(Append(Under(t), f)) = Len(Under(t)) + 1
      /\ Append(Under(t), f)[Len(Under(t)) + 1] = f
  BY <1>1, Innermost, Grow
<1>3. Moves(t) /\ stack'[t] = Append(Under(t), f)
  BY <1>2, Moved DEF Become
<1> QED
  BY <1>2, <1>3, Innermost DEF Depth, Top

\* The loop and the handlers it calls are the outermost frame.
LEMMA AloneStep ==
    ASSUME Stacks, NEW t \in Thread, Depth(t) = 1, NEW f \in Frame, Become(t, f)
    PROVE  Moves(t) /\ stack'[t] = <<f>> /\ Depth(t)' = 1 /\ Top(t)' = f
<1>1. Under(t) = <<>>
  <2>1. Under(t) \in Seq(Frame) /\ Len(Under(t)) = 0
    BY Innermost
  <2> QED
    BY <2>1, EmptySeq
<1>2. Append(Under(t), f) = <<f>>
  BY <1>1
<1>3. <<f>> \in Seq(Frame) /\ Len(<<f>>) = 1 /\ <<f>>[1] = f
  OBVIOUS
<1>4. Shaped(<<f>>)
  BY <1>3 DEF Shaped
<1>5. Moves(t) /\ stack'[t] = <<f>>
  BY <1>2, <1>3, <1>4, Moved DEF Become
<1> QED
  BY <1>3, <1>5 DEF Depth, Top

LEMMA LoopAlone ==
    ASSUME Stacks, NEW t \in Thread, Depth(t) > 0, Top(t).kind = "get"
    PROVE  Depth(t) = 1
<1>1. Depth(t) \in Nat
  BY DEF Stacks, Depth
<1>2. ASSUME Depth(t) > 1 PROVE FALSE
  <2>1. stack[t] \in Seq(Frame) /\ Shaped(stack[t])
    BY DEF Stacks, Shape
  <2>2. Depth(t) - 1 \in 1 .. Len(stack[t]) - 1
    BY <1>1, <1>2 DEF Depth
  <2>3. Nested(stack[t][Depth(t) - 1], Top(t))
    BY <1>1, <2>1, <2>2 DEF Shaped, Top
  <2> QED
    BY <2>3 DEF Nested
<1> QED
  BY <1>1, <1>2

LEMMA PushStep ==
    ASSUME Stacks, NEW t \in Thread, Depth(t) > 0, NEW f \in Frame,
           Nested(Top(t), f),
           stack' = [stack EXCEPT ![t] = Append(@, f)]
    PROVE  Moves(t) /\ Depth(t)' > 0 /\ Top(t)' = f
<1>1. stack[t] \in Seq(Frame) /\ Shaped(stack[t])
  BY DEF Stacks, Shape
<1>2. /\ Append(stack[t], f) \in Seq(Frame) /\ Shaped(Append(stack[t], f))
      /\ Len(Append(stack[t], f)) = Len(stack[t]) + 1
      /\ Append(stack[t], f)[Len(stack[t]) + 1] = f
  BY <1>1, Grow DEF Top, Depth
<1>3. stack' = [stack EXCEPT ![t] = Append(stack[t], f)]
  BY DEF Stacks
<1>4. Moves(t) /\ stack'[t] = Append(stack[t], f)
  BY <1>2, <1>3, Moved
<1> QED
  BY <1>1, <1>2, <1>4 DEF Depth, Top

LEMMA EnterStep ==
    ASSUME Stacks, NEW t \in Thread, Depth(t) > 0, NEW f \in Frame,
           NEW g \in Frame, f.kind = Top(t).kind, Nested(f, g), Enter(t, f, g)
    PROVE  Moves(t) /\ Depth(t)' > 0 /\ Top(t)' = g
<1> DEFINE s == Append(Under(t), f)
<1>1. Len(Under(t)) > 0 => Nested(Under(t)[Len(Under(t))], f)
  BY Innermost DEF Nested
<1>2. /\ s \in Seq(Frame) /\ Shaped(s) /\ Len(s) = Len(Under(t)) + 1
      /\ s[Len(Under(t)) + 1] = f
  BY <1>1, Innermost, Grow
<1>3. stack' = [stack EXCEPT ![t] = Append(s, g)]
  BY DEF Enter
<1> HIDE DEF s
<1>4. /\ Append(s, g) \in Seq(Frame) /\ Shaped(Append(s, g))
      /\ Len(Append(s, g)) = Len(s) + 1
      /\ Append(s, g)[Len(s) + 1] = g
  BY <1>2, Grow
<1>5. Moves(t) /\ stack'[t] = Append(s, g)
  BY <1>3, <1>4, Moved
<1> QED
  BY <1>2, <1>4, <1>5 DEF Depth, Top

\* ReceiveSends is entered when its flag is set, and passed otherwise.
LEMMA ReceiveStep ==
    ASSUME Stacks, NEW t \in Thread, Depth(t) > 0, NEW g \in Frame,
           g.kind = Top(t).kind,
           \/ g.kind = "get" /\ g.at = "poll"
           \/ g.kind = "send" /\ g.at = "wait",
           ReceiveSends(t, g)
    PROVE  /\ Moves(t) /\ Depth(t)' > 0
           /\ Top(t)'.kind = "receive" \/ (t \notin has_sends /\ Top(t)' = g)
<1>1. CASE t \in has_sends
  <2>1. ReceiveFrame(t) \in Frame /\ ReceiveFrame(t).kind = "receive"
    BY DEF ReceiveFrame, NewFrame, Frame
  <2>2. Nested(g, ReceiveFrame(t))
    BY <2>1 DEF Nested
  <2>3. Enter(t, g, ReceiveFrame(t))
    BY <1>1 DEF ReceiveSends
  <2> QED
    BY <2>1, <2>2, <2>3, EnterStep
<1>2. CASE t \notin has_sends
  BY <1>2, BecomeStep DEF ReceiveSends
<1> QED
  BY <1>1, <1>2

-----------------------------------------------------------------------------
(* Wake-ups.                                                               *)

\* Thread u is about to wake t.
IsWaking(u, t) ==
    Depth(u) > 0 /\ Top(u).kind \in {"send", "quit"} /\ Top(u).at = "wake"
    /\ Top(u).peer = t

\* What every step of a thread t does for the others: it takes no wake-up but
\* its own, a wake-up it was to give is given, and whatever arrives for another
\* thread brings one along.
LEMMA OthersWoken ==
    ASSUME IInv, NEW t \in Thread, Moves(t),
           \A u \in Thread \ {t} : u \in signaled => u \in signaled',
           \A u \in Thread : IsWaking(t, u) => u \in signaled',
           \A u \in Thread \ {t} :
               /\ sendlist'[u] # <<>> =>
                      sendlist[u] # <<>> \/ u \in signaled' \/ IsWaking(t, u)'
               /\ msgq'[u] # <<>> => msgq[u] # <<>> \/ u \in signaled'
               /\ u \in fStop' => u \in fStop \/ IsWaking(t, u)',
           WokenInGet(t)'
    PROVE  \A u \in Thread : WokenInGet(u)'
<1> SUFFICES ASSUME NEW u \in Thread \ {t} PROVE WokenInGet(u)'
  OBVIOUS
<1>1. stack'[u] = stack[u] /\ WokenInGet(u)
  BY DEF IInv, Moves
<1>2. \A p : InGet(u, p)' <=> InGet(u, p)
  BY <1>1 DEF InGet, Depth, Top
<1>3. IsWaking(t, u)' => Woken(u)'
  BY DEF IsWaking, Woken, Waking, In
<1>4. Woken(u) => Woken(u)'
  <2>1. CASE u \in signaled
    BY <2>1 DEF Woken
  <2>2. CASE Waking(u)
    <3>1. PICK v \in Thread : IsWaking(v, u)
      BY <2>2 DEF Waking, In, IsWaking
    <3>2. CASE v = t
      BY <3>1, <3>2 DEF Woken
    <3>3. CASE v # t
      <4>1. stack'[v] = stack[v]
        BY <3>3 DEF Moves
      <4>2. IsWaking(v, u)'
        BY <3>1, <4>1 DEF IsWaking, Depth, Top
      <4> QED
        BY <4>2 DEF IsWaking, Woken, Waking, In
    <3> QED
      BY <3>2, <3>3
  <2> QED
    BY <2>1, <2>2 DEF Woken
<1>5. sendlist'[u] # <<>> => sendlist[u] # <<>> \/ Woken(u)'
  BY <1>3 DEF Woken
<1>6. msgq'[u] # <<>> => msgq[u] # <<>> \/ Woken(u)'
  BY DEF Woken
<1>7. u \in fStop' => u \in fStop \/ Woken(u)'
  BY <1>3
<1> QED
  BY <1>1, <1>2, <1>4, <1>5, <1>6, <1>7 DEF WokenInGet

\* A step that leaves Get alone, or is back at its start, needs no wake-up.
LEMMA NotInGet ==
    ASSUME NEW t \in Thread,
           Depth(t)' > 0 => Top(t)'.kind # "get" \/ Top(t)'.at = "sends"
    PROVE  WokenInGet(t)'
    BY DEF WokenInGet, InGet

LEMMA GetSendsKeeps ==
    ASSUME IInv, NEW t \in Thread, GetSends(t)
    PROVE  IInv'
<1>a. Stacks /\ TypeOK /\ SendsAreFlagged /\ WokenInGet(t)
  BY DEF IInv, TypeOK, Stacks
<1>b. Depth(t) > 0 /\ Top(t).kind = "get" /\ Top(t).at = "sends"
      /\ Top(t) \in Frame
  BY <1>a, Innermost DEF GetSends, In
<1> DEFINE g == [Top(t) EXCEPT !.at = "poll"]
<1>0. g \in Frame /\ g.kind = "get" /\ g.at = "poll" /\ ReceiveSends(t, g)
  BY <1>b DEF GetSends, Frame
<1> HIDE DEF g
<1>1. /\ Moves(t) /\ Depth(t)' > 0
      /\ Top(t)'.kind = "receive" \/ (t \notin has_sends /\ Top(t)' = g)
  BY <1>a, <1>b, <1>0, ReceiveStep
<1>2. TypeOK'
  BY <1>a, <1>b, <1>1 DEF GetSends, TypeOK, Moves, Stacks
<1>3. SendsAreFlagged'
  BY <1>a DEF GetSends, SendsAreFlagged, TypeOK
<1>4. \A v \in Thread : WokenInGet(v)'
  <2>1. WokenInGet(t)'
    <3>1. CASE Top(t)'.kind = "receive"
      BY <3>1, NotInGet
    <3>2. CASE t \notin has_sends /\ Top(t)' = g
      <4>1. sendlist'[t] = <<>>
        BY <1>a, <3>2 DEF GetSends, SendsAreFlagged
      <4> QED
        BY <1>0, <3>2, <4>1 DEF WokenInGet, InGet
    <3> QED
      BY <1>1, <3>1, <3>2
  <2> QED
    BY <1>a, <1>b, <1>1, <2>1, OthersWoken DEF GetSends, IsWaking, TypeOK
<1> QED
  BY <1>a, <1>1, <1>2, <1>3, <1>4 DEF IInv, Moves, Stacks

LEMMA GetPollKeeps ==
    ASSUME IInv, NEW t \in Thread, GetPoll(t)
    PROVE  IInv'
<1>a. Stacks /\ TypeOK /\ SendsAreFlagged /\ WokenInGet(t)
  BY DEF IInv, TypeOK, Stacks
<1>b. Depth(t) > 0 /\ Top(t).kind = "get" /\ Top(t).at = "poll"
      /\ Top(t) \in Frame
  BY <1>a, Innermost DEF GetPoll, In
<1>c. PICK n \in 0 .. Len(dmsgq[t]) :
        /\ IsTriggered(t, n)
        /\ LET q    == msgq[t] \o SubSeq(dmsgq[t], 1, n)
               rest == SubSeq(dmsgq[t], n + 1, Len(dmsgq[t]))
           IN  /\ dmsgq' = [dmsgq EXCEPT ![t] = rest]
               /\ IF q = <<>>
                  THEN /\ Become(t, [Top(t) EXCEPT !.at = "stop",
                                       !.time = IF rest = <<>> THEN 0
                                                ELSE Until(t, rest[1].trigger)])
                       /\ UNCHANGED msgq
                  ELSE /\ msgq' = [msgq EXCEPT ![t] = Tail(q)]
                       /\ Become(t, NewFrame("handle", "", t, Head(q).id,
                                             Head(q).trigger))
  BY DEF GetPoll
<1> DEFINE ready_now == SubSeq(dmsgq[t], 1, n)
           q         == msgq[t] \o ready_now
           rest      == SubSeq(dmsgq[t], n + 1, Len(dmsgq[t]))
<1>d. msgq[t] \in Seq(Message) /\ dmsgq[t] \in Seq(Message)
  BY <1>a DEF TypeOK
<1>e. ready_now \in Seq(Message) /\ rest \in Seq(Message)
  BY <1>d
<1>f. q \in Seq(Message)
  <2> HIDE DEF ready_now
  <2> QED
    BY <1>d, <1>e
<1>g. q = <<>> => msgq[t] = <<>>
  <2> HIDE DEF ready_now
  <2> QED
    BY <1>d, <1>e
<1>h. /\ dmsgq' = [dmsgq EXCEPT ![t] = rest]
      /\ IF q = <<>>
         THEN /\ Become(t, [Top(t) EXCEPT !.at = "stop",
                              !.time = IF rest = <<>> THEN 0
                                       ELSE Until(t, rest[1].trigger)])
              /\ UNCHANGED msgq
         ELSE /\ msgq' = [msgq EXCEPT ![t] = Tail(q)]
              /\ Become(t, NewFrame("handle", "", t, Head(q).id,
                                    Head(q).trigger))
  BY <1>c
<1>i. rest # <<>> => Until(t, rest[1].trigger) \in Nat
  <2>1. ASSUME rest # <<>>
        PROVE  rest[1] = dmsgq[t][n + 1] /\ n < Len(dmsgq[t])
    BY <1>d, <2>1
  <2>2. ASSUME rest # <<>>
        PROVE  rest[1].trigger \in Nat /\ ~Triggered(rest[1].trigger, Top(t).time)
    <3>1. rest[1] \in Message
      BY <1>e, <2>2
    <3> QED
      BY <1>c, <2>1, <2>2, <3>1 DEF IsTriggered, Message
  <2>3. Top(t).time \in Nat
    BY <1>b DEF Frame
  <2> HIDE DEF rest
  <2> QED
    BY <2>2, <2>3 DEF Until, Triggered
<1> HIDE DEF q, rest, ready_now
<1>1. /\ Moves(t) /\ Depth(t)' > 0
      /\ \/ Top(t)'.kind = "handle"
         \/ Top(t)'.kind = "get" /\ Top(t)'.at = "stop" /\ msgq'[t] = <<>>
      /\ msgq' \in [Thread -> Seq(Message)]
      /\ \A u \in Thread \ {t} : msgq'[u] = msgq[u]
  <2>1. CASE q = <<>>
    <3> DEFINE f == [Top(t) EXCEPT !.at = "stop",
                       !.time = IF rest = <<>> THEN 0
                                ELSE Until(t, rest[1].trigger)]
    <3>1. f \in Frame /\ f.kind = "get" /\ f.at = "stop" /\ Become(t, f)
      BY <1>b, <1>h, <1>i, <2>1 DEF Frame
    <3> HIDE DEF f
    <3>2. Moves(t) /\ Depth(t)' > 0 /\ Top(t)' = f
      BY <1>a, <1>b, <3>1, BecomeStep
    <3> QED
      BY <1>a, <1>g, <1>h, <2>1, <3>1, <3>2 DEF TypeOK
  <2>2. CASE q # <<>>
    <3> DEFINE g == NewFrame("handle", "", t, Head(q).id, Head(q).trigger)
    <3>1. Head(q) \in Message /\ Tail(q) \in Seq(Message)
      BY <1>f, <2>2
    <3>2. Head(q).id \in Nat /\ Head(q).trigger \in Nat
      BY <3>1 DEF Message
    <3>3. g \in Frame /\ g.kind = "handle"
      BY <3>2 DEF NewFrame, Frame
    <3>4. Become(t, g)
      BY <1>h, <2>2
    <3> HIDE DEF g
    <3>5. Moves(t) /\ Depth(t)' > 0 /\ Top(t)' = g
      BY <1>a, <1>b, <3>3, <3>4, LoopAlone, AloneStep
    <3> QED
      BY <1>a, <1>h, <2>2, <3>1, <3>3, <3>5 DEF TypeOK
  <2> QED
    BY <2>1, <2>2
<1>2. TypeOK'
  BY <1>a, <1>e, <1>h, <1>1 DEF GetPoll, TypeOK, Moves, Stacks
<1>3. SendsAreFlagged'
  BY <1>a DEF GetPoll, SendsAreFlagged, TypeOK
<1>4. \A v \in Thread : WokenInGet(v)'
  <2>1. WokenInGet(t)'
    <3>1. CASE Top(t)'.kind = "handle"
      BY <3>1, NotInGet
    <3>2. CASE Top(t)'.kind = "get" /\ Top(t)'.at = "stop" /\ msgq'[t] = <<>>
      <4>1. sendlist[t] # <<>> => Woken(t)
        BY <1>a, <1>b DEF WokenInGet, InGet
      <4>2. Woken(t) => Woken(t)'
        BY <1>b, <1>1 DEF Woken, Waking, In, Moves, Depth, Top, GetPoll
      <4> QED
        BY <3>2, <4>1, <4>2 DEF WokenInGet, InGet, GetPoll
    <3> QED
      BY <1>1, <3>1, <3>2
  <2> QED
    BY <1>a, <1>b, <1>1, <2>1, OthersWoken DEF GetPoll, IsWaking, TypeOK
<1> QED
  BY <1>a, <1>1, <1>2, <1>3, <1>4 DEF IInv, Moves, Stacks

LEMMA NextGetKeeps ==
    ASSUME IInv, NEW t \in Thread, NextGet(t)
    PROVE  IInv'
<1>a. Stacks /\ TypeOK /\ SendsAreFlagged /\ WokenInGet(t)
  BY DEF IInv, TypeOK, Stacks
<1>b. Depth(t) > 0 /\ Top(t).kind = "handle" /\ Top(t).at = ""
      /\ Top(t) \in Frame /\ Depth(t) = 1
  BY <1>a, Innermost DEF NextGet, In
<1> DEFINE f == NewFrame("get", "sends", t, 0, now)
<1>0. f \in Frame /\ f.kind = "get" /\ f.at = "sends" /\ Become(t, f)
  BY <1>a DEF NextGet, TypeOK, NewFrame, Frame
<1> HIDE DEF f
<1>1. Moves(t) /\ Depth(t)' > 0 /\ Top(t)' = f
  BY <1>a, <1>b, <1>0, AloneStep
<1>2. TypeOK'
  BY <1>a, <1>1 DEF NextGet, TypeOK, Moves, Stacks
<1>3. SendsAreFlagged'
  BY <1>a DEF NextGet, SendsAreFlagged, TypeOK
<1>4. \A v \in Thread : WokenInGet(v)'
  <2>1. WokenInGet(t)'
    BY <1>0, <1>1, NotInGet
  <2> QED
    BY <1>a, <1>b, <1>1, <2>1, OthersWoken DEF NextGet, IsWaking, TypeOK
<1> QED
  BY <1>a, <1>1, <1>2, <1>3, <1>4 DEF IInv, Moves, Stacks

LEMMA GetStopKeeps ==
    ASSUME IInv, NEW t \in Thread, GetStop(t)
    PROVE  IInv'
<1>a. Stacks /\ TypeOK /\ SendsAreFlagged /\ WokenInGet(t)
  BY DEF IInv, TypeOK, Stacks
<1>b. Depth(t) > 0 /\ Top(t).kind = "get" /\ Top(t).at = "stop"
      /\ Top(t) \in Frame
  BY <1>a, Innermost DEF GetStop, In
<1>1. /\ Moves(t)
      /\ \/ Depth(t)' = 0
         \/ Top(t)'.kind = "get" /\ Top(t)'.at = "wait" /\ t \notin fStop
  <2>1. CASE t \in fStop
    <3>1. Moves(t) /\ (Depth(t)' > 0 => Nested(Top(t)', Top(t)))
      BY <1>a, <1>b, <2>1, PopStep DEF GetStop
    <3>2. Depth(t)' \in Nat
      BY <3>1 DEF Moves, Stacks, Depth
    <3> QED
      BY <1>b, <3>1, <3>2 DEF Nested
  <2>2. CASE t \notin fStop
    <3> DEFINE w == IF Top(t).time = 0 THEN 0 ELSE now + Top(t).time
               f == [Top(t) EXCEPT !.at = "wait", !.time = w]
    <3>0. now \in Nat /\ Top(t).time \in Nat
      BY <1>a, <1>b DEF TypeOK, Frame
    <3>1. w \in Nat
      BY <3>0
    <3>2. Become(t, f)
      BY <1>b, <2>2 DEF GetStop, Frame
    <3> HIDE DEF w
    <3>3. f \in Frame /\ f.kind = "get" /\ f.at = "wait"
      BY <1>b, <3>1 DEF Frame
    <3> HIDE DEF f
    <3> QED
      BY <1>a, <1>b, <2>2, <3>2, <3>3, BecomeStep
  <2> QED
    BY <2>1, <2>2
<1>2. TypeOK'
  BY <1>a, <1>b, <1>1 DEF GetStop, TypeOK, Moves, Stacks
<1>3. SendsAreFlagged'
  BY <1>a DEF GetStop, SendsAreFlagged, TypeOK
<1>4. \A v \in Thread : WokenInGet(v)'
  <2>1. WokenInGet(t)'
    <3>1. CASE Depth(t)' = 0
      BY <3>1, NotInGet
    <3>2. CASE Top(t)'.kind = "get" /\ Top(t)'.at = "wait" /\ t \notin fStop
      <4>1. sendlist[t] # <<>> \/ msgq[t] # <<>> => Woken(t)
        BY <1>a, <1>b DEF WokenInGet, InGet
      <4>2. Woken(t) => Woken(t)'
        BY <1>b, <1>1 DEF Woken, Waking, In, Moves, Depth, Top, GetStop
      <4> QED
        BY <3>2, <4>1, <4>2 DEF WokenInGet, InGet, GetStop
    <3> QED
      BY <1>1, <3>1, <3>2
  <2> QED
    BY <1>a, <1>b, <1>1, <2>1, OthersWoken DEF GetStop, IsWaking, TypeOK
<1> QED
  BY <1>a, <1>1, <1>2, <1>3, <1>4 DEF IInv, Moves, Stacks

LEMMA GetWaitKeeps ==
    ASSUME IInv, NEW t \in Thread, GetWait(t)
    PROVE  IInv'
<1>a. Stacks /\ TypeOK /\ SendsAreFlagged /\ WokenInGet(t)
  BY DEF IInv, TypeOK, Stacks
<1>b. Depth(t) > 0 /\ Top(t).kind = "get" /\ Top(t).at = "wait"
      /\ Top(t) \in Frame
  BY <1>a, Innermost DEF GetWait, In
<1> DEFINE f == NewFrame("get", "sends", t, 0, now)
<1>0. f \in Frame /\ f.kind = "get" /\ f.at = "sends" /\ Become(t, f)
  BY <1>a DEF GetWait, TypeOK, NewFrame, Frame
<1> HIDE DEF f
<1>1. Moves(t) /\ Depth(t)' > 0 /\ Top(t)'.at = "sends"
  BY <1>a, <1>b, <1>0, BecomeStep
<1>2. TypeOK'
  BY <1>a, <1>b, <1>1 DEF GetWait, TypeOK, Moves, Stacks
<1>3. SendsAreFlagged'
  BY <1>a DEF GetWait, SendsAreFlagged, TypeOK
<1>4. \A v \in Thread : WokenInGet(v)'
  <2>1. WokenInGet(t)'
    BY <1>1, NotInGet
  <2> QED
    BY <1>a, <1>b, <1>1, <2>1, OthersWoken DEF GetWait, IsWaking, TypeOK
<1> QED
  BY <1>a, <1>1, <1>2, <1>3, <1>4 DEF IInv, Moves, Stacks

LEMMA ReceiveOneKeeps ==
    ASSUME IInv, NEW t \in Thread, ReceiveOne(t)
    PROVE  IInv'
<1>a. Stacks /\ TypeOK /\ SendsAreFlagged /\ WokenInGet(t)
  BY DEF IInv, TypeOK, Stacks
<1>b. Depth(t) > 0 /\ Top(t).kind = "receive" /\ Top(t).at = ""
      /\ Top(t) \in Frame
  BY <1>a, Innermost DEF ReceiveOne, In
<1>0. /\ Head(sendlist[t]) \in SendMessage
      /\ Tail(sendlist[t]) \in Seq(SendMessage)
  <2>1. sendlist[t] \in Seq(SendMessage) /\ sendlist[t] # <<>>
    BY <1>a DEF ReceiveOne, TypeOK
  <2> QED
    BY <2>1, HeadTailProperties
<1> DEFINE s == Head(sendlist[t])
           f == NewFrame("handle", "", s.from, s.id, 0)
<1>c. f \in Frame /\ f.kind = "handle"
  <2>1. s.from \in Thread /\ s.id \in Nat
    BY <1>0 DEF SendMessage
  <2> QED
    BY <2>1 DEF NewFrame, Frame
<1>d. stack' = [stack EXCEPT ![t] = Append(@, f)]
  BY DEF ReceiveOne
<1> HIDE DEF f
<1>1. Moves(t) /\ Depth(t)' > 0 /\ Top(t)'.kind = "handle"
  BY <1>a, <1>b, <1>c, <1>d, PushStep DEF Nested
<1>2. TypeOK'
  BY <1>a, <1>0, <1>1 DEF ReceiveOne, TypeOK, Moves, Stacks
<1>3. SendsAreFlagged'
  BY <1>a DEF ReceiveOne, SendsAreFlagged, TypeOK
<1>4. \A v \in Thread : WokenInGet(v)'
  <2>1. WokenInGet(t)'
    BY <1>1, NotInGet
  <2> QED
    BY <1>a, <1>b, <1>1, <2>1, OthersWoken DEF ReceiveOne, IsWaking, TypeOK
<1> QED
  BY <1>a, <1>1, <1>2, <1>3, <1>4 DEF IInv, Moves, Stacks

LEMMA ReceiveEndKeeps ==
    ASSUME IInv, NEW t \in Thread, ReceiveEnd(t)
    PROVE  IInv'
<1>a. Stacks /\ TypeOK /\ SendsAreFlagged /\ WokenInGet(t)
  BY DEF IInv, TypeOK, Stacks
<1>b. Depth(t) > 0 /\ Top(t).kind = "receive" /\ Top(t).at = ""
      /\ Top(t) \in Frame
  BY <1>a, Innermost DEF ReceiveEnd, In
<1>1. Moves(t) /\ (Depth(t)' > 0 => Nested(Top(t)', Top(t)))
  BY <1>a, <1>b, PopStep DEF ReceiveEnd
<1>2. TypeOK'
  BY <1>a, <1>b, <1>1 DEF ReceiveEnd, TypeOK, Moves, Stacks
<1>3. SendsAreFlagged'
  BY <1>a DEF ReceiveEnd, SendsAreFlagged, TypeOK
<1>4. \A v \in Thread : WokenInGet(v)'
  <2>1. WokenInGet(t)'
    BY <1>b, <1>1 DEF ReceiveEnd, Nested, WokenInGet, InGet
  <2> QED
    BY <1>a, <1>b, <1>1, <2>1, OthersWoken DEF ReceiveEnd, IsWaking, TypeOK
<1> QED
  BY <1>a, <1>1, <1>2, <1>3, <1>4 DEF IInv, Moves, Stacks

LEMMA HandlerReturnsKeeps ==
    ASSUME IInv, NEW t \in Thread, HandlerReturns(t)
    PROVE  IInv'
<1>a. Stacks /\ TypeOK /\ SendsAreFlagged /\ WokenInGet(t)
  BY DEF IInv, TypeOK, Stacks
<1>b. Depth(t) > 0 /\ Top(t).kind = "handle" /\ Top(t).at = ""
      /\ Top(t) \in Frame
  BY <1>a, Innermost DEF HandlerReturns, In
<1>1. /\ Moves(t)
      /\ Depth(t)' > 0 => Top(t)'.kind # "get" \/ Top(t)'.at = "sends"
  BY <1>a, <1>b, PopStep DEF HandlerReturns, Nested
<1>2. TypeOK'
  <2>1. ready' \subseteq Nat /\ signaled' \subseteq Thread
    BY <1>a, <1>b DEF HandlerReturns, Answer, TypeOK, Frame
  <2> QED
    BY <1>a, <1>1, <2>1 DEF HandlerReturns, TypeOK, Moves, Stacks
<1>3. SendsAreFlagged'
  BY <1>a DEF HandlerReturns, SendsAreFlagged, TypeOK
<1>4. \A v \in Thread : WokenInGet(v)'
  <2>1. WokenInGet(t)'
    BY <1>1, NotInGet
  <2> QED
    BY <1>a, <1>b, <1>1, <2>1, OthersWoken DEF HandlerReturns, IsWaking, TypeOK, Answer
<1> QED
  BY <1>a, <1>1, <1>2, <1>3, <1>4 DEF IInv, Moves, Stacks

LEMMA PostKeeps ==
    ASSUME IInv, NEW t \in Thread, NEW u \in Thread,
           NEW delay \in Delays \union {0}, Post(t, u, delay)
    PROVE  IInv'
<1>a. Stacks /\ TypeOK /\ SendsAreFlagged /\ WokenInGet(t)
  BY DEF IInv, TypeOK, Stacks
<1>b. Depth(t) > 0 /\ Top(t).kind = "handle" /\ Top(t).at = ""
      /\ Top(t) \in Frame
  BY <1>a, Innermost DEF Post, In
<1> DEFINE f == NewFrame("post", "", u, 0, IF delay = 0 THEN 0 ELSE now + delay)
<1>0. f \in Frame /\ f.kind = "post" /\ f.at = "" /\ f.peer = u
  <2>1. now \in Nat /\ next \in Nat
    BY <1>a DEF TypeOK
  <2> QED
    BY <2>1, DelayAssumption DEF NewFrame, Frame
<1>c. stack' = [stack EXCEPT ![t] = Append(@, f)]
  BY DEF Post
<1> HIDE DEF f
<1>1. Moves(t) /\ Depth(t)' > 0 /\ Top(t)' = f
  BY <1>a, <1>b, <1>0, <1>c, PushStep DEF Nested
<1>2. TypeOK'
  <2>1. posts' \in 0 .. MaxPosts /\ sends' \in 0 .. MaxSends
        /\ quits' \in 0 .. MaxQuits
    <3>1. /\ posts' = posts \/ (posts' = posts - 1 /\ posts > 0)
          /\ sends' = sends \/ (sends' = sends - 1 /\ sends > 0)
          /\ quits' = quits \/ (quits' = quits - 1 /\ quits > 0)
      BY DEF Post
    <3>2. posts \in 0 .. MaxPosts /\ sends \in 0 .. MaxSends
          /\ quits \in 0 .. MaxQuits
      BY <1>a DEF TypeOK
    <3> QED
      BY <3>1, <3>2, BoundsAssumption
  <2>2. next' \in Nat /\ fStop' \subseteq Thread
    <3>1. next' = next \/ next' = next + 1
      BY DEF Post
    <3>2. next \in Nat /\ fStop \subseteq Thread
      BY <1>a DEF TypeOK
    <3>3. next' \in Nat
      BY <3>1, <3>2
    <3> QED
      BY <3>2, <3>3 DEF Post
  <2> QED
    BY <1>a, <1>1, <2>1, <2>2 DEF Post, TypeOK, Moves, Stacks
<1>3. SendsAreFlagged'
  BY <1>a DEF Post, SendsAreFlagged, TypeOK
<1>4. \A v \in Thread : WokenInGet(v)'
  <2>1. WokenInGet(t)'
    BY <1>0, <1>1, NotInGet
  <2> QED
    BY <1>a, <1>b, <1>0, <1>1, <2>1, OthersWoken DEF Post, IsWaking, TypeOK
<1> QED
  BY <1>a, <1>1, <1>2, <1>3, <1>4 DEF IInv, Moves, Stacks

LEMMA SendKeeps ==
    ASSUME IInv, NEW t \in Thread, NEW u \in Thread, Send(t, u)
    PROVE  IInv'
<1>a. Stacks /\ TypeOK /\ SendsAreFlagged /\ WokenInGet(t)
  BY DEF IInv, TypeOK, Stacks
<1>b. Depth(t) > 0 /\ Top(t).kind = "handle" /\ Top(t).at = ""
      /\ Top(t) \in Frame
  BY <1>a, Innermost DEF Send, In
<1> DEFINE f == NewFrame("send", "queue", u, next, 0)
<1>0. f \in Frame /\ f.kind = "send" /\ f.at = "queue" /\ f.peer = u
  <2>1. now \in Nat /\ next \in Nat
    BY <1>a DEF TypeOK
  <2> QED
    BY <2>1, DelayAssumption DEF NewFrame, Frame
<1>c. stack' = [stack EXCEPT ![t] = Append(@, f)]
  BY DEF Send
<1> HIDE DEF f
<1>1. Moves(t) /\ Depth(t)' > 0 /\ Top(t)' = f
  BY <1>a, <1>b, <1>0, <1>c, PushStep DEF Nested
<1>2. TypeOK'
  <2>1. posts' \in 0 .. MaxPosts /\ sends' \in 0 .. MaxSends
        /\ quits' \in 0 .. MaxQuits
    <3>1. /\ posts' = posts \/ (posts' = posts - 1 /\ posts > 0)
          /\ sends' = sends \/ (sends' = sends - 1 /\ sends > 0)
          /\ quits' = quits \/ (quits' = quits - 1 /\ quits > 0)
      BY DEF Send
    <3>2. posts \in 0 .. MaxPosts /\ sends \in 0 .. MaxSends
          /\ quits \in 0 .. MaxQuits
      BY <1>a DEF TypeOK
    <3> QED
      BY <3>1, <3>2, BoundsAssumption
  <2>2. next' \in Nat /\ fStop' \subseteq Thread
    <3>1. next' = next \/ next' = next + 1
      BY DEF Send
    <3>2. next \in Nat /\ fStop \subseteq Thread
      BY <1>a DEF TypeOK
    <3>3. next' \in Nat
      BY <3>1, <3>2
    <3> QED
      BY <3>2, <3>3 DEF Send
  <2> QED
    BY <1>a, <1>1, <2>1, <2>2 DEF Send, TypeOK, Moves, Stacks
<1>3. SendsAreFlagged'
  BY <1>a DEF Send, SendsAreFlagged, TypeOK
<1>4. \A v \in Thread : WokenInGet(v)'
  <2>1. WokenInGet(t)'
    BY <1>0, <1>1, NotInGet
  <2> QED
    BY <1>a, <1>b, <1>0, <1>1, <2>1, OthersWoken DEF Send, IsWaking, TypeOK
<1> QED
  BY <1>a, <1>1, <1>2, <1>3, <1>4 DEF IInv, Moves, Stacks

LEMMA SendSelfKeeps ==
    ASSUME IInv, NEW t \in Thread, SendSelf(t)
    PROVE  IInv'
<1>a. Stacks /\ TypeOK /\ SendsAreFlagged /\ WokenInGet(t)
  BY DEF IInv, TypeOK, Stacks
<1>b. Depth(t) > 0 /\ Top(t).kind = "handle" /\ Top(t).at = ""
      /\ Top(t) \in Frame
  BY <1>a, Innermost DEF SendSelf, In
<1> DEFINE f == NewFrame("handle", "", t, next, 0)
<1>0. f \in Frame /\ f.kind = "handle" /\ f.at = "" /\ f.peer = t
  <2>1. now \in Nat /\ next \in Nat
    BY <1>a DEF TypeOK
  <2> QED
    BY <2>1, DelayAssumption DEF NewFrame, Frame
<1>c. stack' = [stack EXCEPT ![t] = Append(@, f)]
  BY DEF SendSelf
<1> HIDE DEF f
<1>1. Moves(t) /\ Depth(t)' > 0 /\ Top(t)' = f
  BY <1>a, <1>b, <1>0, <1>c, PushStep DEF Nested
<1>2. TypeOK'
  <2>1. posts' \in 0 .. MaxPosts /\ sends' \in 0 .. MaxSends
        /\ quits' \in 0 .. MaxQuits
    <3>1. /\ posts' = posts \/ (posts' = posts - 1 /\ posts > 0)
          /\ sends' = sends \/ (sends' = sends - 1 /\ sends > 0)
          /\ quits' = quits \/ (quits' = quits - 1 /\ quits > 0)
      BY DEF SendSelf
    <3>2. posts \in 0 .. MaxPosts /\ sends \in 0 .. MaxSends
          /\ quits \in 0 .. MaxQuits
      BY <1>a DEF TypeOK
    <3> QED
      BY <3>1, <3>2, BoundsAssumption
  <2>2. next' \in Nat /\ fStop' \subseteq Thread
    <3>1. next' = next \/ next' = next + 1
      BY DEF SendSelf
    <3>2. next \in Nat /\ fStop \subseteq Thread
      BY <1>a DEF TypeOK
    <3>3. next' \in Nat
      BY <3>1, <3>2
    <3> QED
      BY <3>2, <3>3 DEF SendSelf
  <2> QED
    BY <1>a, <1>1, <2>1, <2>2 DEF SendSelf, TypeOK, Moves, Stacks
<1>3. SendsAreFlagged'
  BY <1>a DEF SendSelf, SendsAreFlagged, TypeOK
<1>4. \A v \in Thread : WokenInGet(v)'
  <2>1. WokenInGet(t)'
    BY <1>0, <1>1, NotInGet
  <2> QED
    BY <1>a, <1>b, <1>0, <1>1, <2>1, OthersWoken DEF SendSelf, IsWaking, TypeOK
<1> QED
  BY <1>a, <1>1, <1>2, <1>3, <1>4 DEF IInv, Moves, Stacks

LEMMA QuitKeeps ==
    ASSUME IInv, NEW t \in Thread, NEW u \in Thread, Quit(t, u)
    PROVE  IInv'
<1>a. Stacks /\ TypeOK /\ SendsAreFlagged /\ WokenInGet(t)
  BY DEF IInv, TypeOK, Stacks
<1>b. Depth(t) > 0 /\ Top(t).kind = "handle" /\ Top(t).at = ""
      /\ Top(t) \in Frame
  BY <1>a, Innermost DEF Quit, In
<1> DEFINE f == NewFrame("quit", "wake", u, 0, 0)
<1>0. f \in Frame /\ f.kind = "quit" /\ f.at = "wake" /\ f.peer = u
  <2>1. now \in Nat /\ next \in Nat
    BY <1>a DEF TypeOK
  <2> QED
    BY <2>1, DelayAssumption DEF NewFrame, Frame
<1>c. stack' = [stack EXCEPT ![t] = Append(@, f)]
  BY DEF Quit
<1> HIDE DEF f
<1>1. Moves(t) /\ Depth(t)' > 0 /\ Top(t)' = f
  BY <1>a, <1>b, <1>0, <1>c, PushStep DEF Nested
<1>2. TypeOK'
  <2>1. posts' \in 0 .. MaxPosts /\ sends' \in 0 .. MaxSends
        /\ quits' \in 0 .. MaxQuits
    <3>1. /\ posts' = posts \/ (posts' = posts - 1 /\ posts > 0)
          /\ sends' = sends \/ (sends' = sends - 1 /\ sends > 0)
          /\ quits' = quits \/ (quits' = quits - 1 /\ quits > 0)
      BY DEF Quit
    <3>2. posts \in 0 .. MaxPosts /\ sends \in 0 .. MaxSends
          /\ quits \in 0 .. MaxQuits
      BY <1>a DEF TypeOK
    <3> QED
      BY <3>1, <3>2, BoundsAssumption
  <2>2. next' \in Nat /\ fStop' \subseteq Thread
    <3>1. next' = next \/ next' = next + 1
      BY DEF Quit
    <3>2. next \in Nat /\ fStop \subseteq Thread
      BY <1>a DEF TypeOK
    <3>3. next' \in Nat
      BY <3>1, <3>2
    <3> QED
      BY <3>2, <3>3 DEF Quit
  <2> QED
    BY <1>a, <1>1, <2>1, <2>2 DEF Quit, TypeOK, Moves, Stacks
<1>3. SendsAreFlagged'
  BY <1>a DEF Quit, SendsAreFlagged, TypeOK
<1>4. \A v \in Thread : WokenInGet(v)'
  <2>1. WokenInGet(t)'
    BY <1>0, <1>1, NotInGet
  <2> QED
    BY <1>a, <1>b, <1>0, <1>1, <2>1, OthersWoken DEF Quit, IsWaking, TypeOK
<1> QED
  BY <1>a, <1>1, <1>2, <1>3, <1>4 DEF IInv, Moves, Stacks

LEMMA PostQueueKeeps ==
    ASSUME IInv, NEW t \in Thread, PostQueue(t)
    PROVE  IInv'
<1>a. Stacks /\ TypeOK /\ SendsAreFlagged /\ WokenInGet(t)
  BY DEF IInv, TypeOK, Stacks
<1>b. Depth(t) > 0 /\ Top(t).kind = "post" /\ Top(t).at = ""
      /\ Top(t) \in Frame
  BY <1>a, Innermost DEF PostQueue, In
<1> DEFINE u == Top(t).peer
           m == [id |-> next, trigger |-> Top(t).time, late |-> u \in fStop]
<1>0. u \in Thread /\ m \in Message
  <2> DEFINE l == u \in fStop
  <2>0. l \in BOOLEAN
    OBVIOUS
  <2>1. u \in Thread /\ next \in Nat /\ Top(t).time \in Nat
    BY <1>a, <1>b DEF Frame, TypeOK
  <2> HIDE DEF l
  <2>2. [id |-> next, trigger |-> Top(t).time, late |-> l] \in Message
    BY <2>0, <2>1 DEF Message
  <2> QED
    BY <2>1, <2>2 DEF l
<1>c. /\ IF m.trigger = 0
         THEN msgq' = [msgq EXCEPT ![u] = Append(@, m)] /\ UNCHANGED dmsgq
         ELSE /\ \E i \in 1 .. Len(dmsgq[u]) + 1 :
                   dmsgq' = [dmsgq EXCEPT ![u] =
                                SubSeq(@, 1, i - 1) \o <<m>>
                                \o SubSeq(@, i, Len(@))]
              /\ UNCHANGED msgq
      /\ signaled' = signaled \union {u}
  BY DEF PostQueue, WakeReader
<1> HIDE DEF u, m
<1>d. /\ msgq' \in [Thread -> Seq(Message)]
      /\ \A v \in Thread \ {u} : msgq'[v] = msgq[v]
      /\ dmsgq' \in [Thread -> Seq(Message)]
  <2>0. msgq \in [Thread -> Seq(Message)] /\ dmsgq \in [Thread -> Seq(Message)]
    BY <1>a DEF TypeOK
  <2>1. CASE m.trigger = 0
    <3>1. Append(msgq[u], m) \in Seq(Message)
      BY <1>0, <2>0
    <3> QED
      BY <1>0, <1>c, <2>0, <2>1, <3>1
  <2>2. CASE m.trigger # 0
    <3>1. PICK i \in 1 .. Len(dmsgq[u]) + 1 :
               dmsgq' = [dmsgq EXCEPT ![u] =
                            SubSeq(@, 1, i - 1) \o <<m>> \o SubSeq(@, i, Len(@))]
      BY <1>c, <2>2
    <3> DEFINE a == SubSeq(dmsgq[u], 1, i - 1)
               b == SubSeq(dmsgq[u], i, Len(dmsgq[u]))
    <3>2. a \in Seq(Message) /\ b \in Seq(Message) /\ <<m>> \in Seq(Message)
      BY <1>0, <2>0
    <3>3. dmsgq' = [dmsgq EXCEPT ![u] = a \o <<m>> \o b]
      BY <3>1
    <3> HIDE DEF a, b
    <3>4. a \o <<m>> \in Seq(Message)
      BY <3>2
    <3>5. a \o <<m>> \o b \in Seq(Message)
      BY <3>2, <3>4
    <3> QED
      BY <1>0, <1>c, <2>0, <2>2, <3>3, <3>5
  <2> QED
    BY <2>1, <2>2
<1>1. /\ Moves(t)
      /\ Depth(t)' > 0 => Top(t)'.kind # "get"
  BY <1>a, <1>b, PopStep DEF PostQueue, Nested
<1>2. TypeOK'
  <2>1. next' \in Nat /\ signaled' \subseteq Thread
    <3>1. next \in Nat /\ signaled \subseteq Thread /\ next' = next + 1
      BY <1>a DEF PostQueue, TypeOK
    <3> QED
      BY <1>0, <1>c, <3>1
  <2> QED
    BY <1>a, <1>d, <1>1, <2>1 DEF PostQueue, TypeOK, Moves, Stacks
<1>3. SendsAreFlagged'
  BY <1>a DEF PostQueue, SendsAreFlagged, TypeOK
<1>4. \A v \in Thread : WokenInGet(v)'
  <2>1. WokenInGet(t)'
    BY <1>1, NotInGet
  <2> QED
    BY <1>a, <1>b, <1>c, <1>d, <1>1, <2>1, OthersWoken DEF PostQueue, IsWaking, TypeOK
<1> QED
  BY <1>a, <1>1, <1>2, <1>3, <1>4 DEF IInv, Moves, Stacks

LEMMA QuitWakeKeeps ==
    ASSUME IInv, NEW t \in Thread, QuitWake(t)
    PROVE  IInv'
<1>a. Stacks /\ TypeOK /\ SendsAreFlagged /\ WokenInGet(t)
  BY DEF IInv, TypeOK, Stacks
<1>b. Depth(t) > 0 /\ Top(t).kind = "quit" /\ Top(t).at = "wake"
      /\ Top(t) \in Frame
  BY <1>a, Innermost DEF QuitWake, In
<1>1. /\ Moves(t)
      /\ Depth(t)' > 0 => Top(t)'.kind # "get"
  BY <1>a, <1>b, PopStep DEF QuitWake, Nested
<1>2. TypeOK'
  BY <1>a, <1>b, <1>1 DEF QuitWake, TypeOK, Moves, Stacks, Frame
<1>3. SendsAreFlagged'
  BY <1>a DEF QuitWake, SendsAreFlagged, TypeOK
<1>4. \A v \in Thread : WokenInGet(v)'
  <2>1. WokenInGet(t)'
    BY <1>1, NotInGet
  <2> QED
    BY <1>a, <1>b, <1>1, <2>1, OthersWoken DEF QuitWake, IsWaking, TypeOK
<1> QED
  BY <1>a, <1>1, <1>2, <1>3, <1>4 DEF IInv, Moves, Stacks

LEMMA SendQueueKeeps ==
    ASSUME IInv, NEW t \in Thread, SendQueue(t)
    PROVE  IInv'
<1>a. Stacks /\ TypeOK /\ SendsAreFlagged /\ WokenInGet(t)
  BY DEF IInv, TypeOK, Stacks
<1>b. Depth(t) > 0 /\ Top(t).kind = "send" /\ Top(t).at = "queue"
      /\ Top(t) \in Frame
  BY <1>a, Innermost DEF SendQueue, In
<1> DEFINE f == [Top(t) EXCEPT !.at = "wake"]
<1>0. f \in Frame /\ f.kind = "send" /\ f.at = "wake" /\ f.peer = Top(t).peer
      /\ Become(t, f)
  BY <1>b DEF SendQueue, Frame
<1> HIDE DEF f
<1>1. Moves(t) /\ Depth(t)' > 0 /\ Top(t)' = f
  BY <1>a, <1>b, <1>0, BecomeStep
<1>2. TypeOK'
  <2> DEFINE u == Top(t).peer
             s == [id |-> Top(t).id, from |-> t, late |-> u \in fStop]
  <2>1. u \in Thread /\ s \in SendMessage
    <3> DEFINE l == u \in fStop
    <3>0. l \in BOOLEAN
      OBVIOUS
    <3>1. u \in Thread /\ Top(t).id \in Nat
      BY <1>b DEF Frame
    <3> HIDE DEF l
    <3>2. [id |-> Top(t).id, from |-> t, late |-> l] \in SendMessage
      BY <3>0, <3>1 DEF SendMessage
    <3> QED
      BY <3>1, <3>2 DEF l
  <2>2. /\ sendlist' = [sendlist EXCEPT ![u] = Append(@, s)]
        /\ has_sends' = has_sends \union {u}
    BY DEF SendQueue, RaiseFlag
  <2> HIDE DEF u, s
  <2>3. sendlist' \in [Thread -> Seq(SendMessage)] /\ has_sends' \subseteq Thread
    BY <1>a, <2>1, <2>2 DEF TypeOK
  <2> QED
    BY <1>a, <1>1, <2>3 DEF SendQueue, TypeOK, Moves, Stacks
<1>3. SendsAreFlagged'
  BY <1>a DEF SendQueue, SendsAreFlagged, TypeOK, RaiseFlag
<1>4. \A v \in Thread : WokenInGet(v)'
  <2>1. WokenInGet(t)'
    BY <1>0, <1>1, NotInGet
  <2> QED
    BY <1>a, <1>b, <1>0, <1>1, <2>1, OthersWoken DEF SendQueue, IsWaking, TypeOK, RaiseFlag
<1> QED
  BY <1>a, <1>1, <1>2, <1>3, <1>4 DEF IInv, Moves, Stacks

LEMMA SendWakeKeeps ==
    ASSUME IInv, NEW t \in Thread, SendWake(t)
    PROVE  IInv'
<1>a. Stacks /\ TypeOK /\ SendsAreFlagged /\ WokenInGet(t)
  BY DEF IInv, TypeOK, Stacks
<1>b. Depth(t) > 0 /\ Top(t).kind = "send" /\ Top(t).at = "wake"
      /\ Top(t) \in Frame
  BY <1>a, Innermost DEF SendWake, In
<1> DEFINE f == [Top(t) EXCEPT !.at = "check"]
<1>0. f \in Frame /\ f.kind = "send" /\ f.at = "check" /\ f.peer = Top(t).peer
      /\ Become(t, f)
  BY <1>b DEF SendWake, Frame
<1> HIDE DEF f
<1>1. Moves(t) /\ Depth(t)' > 0 /\ Top(t)' = f
  BY <1>a, <1>b, <1>0, BecomeStep
<1>2. TypeOK'
  BY <1>a, <1>b, <1>1 DEF SendWake, TypeOK, Moves, Stacks, Frame
<1>3. SendsAreFlagged'
  BY <1>a DEF SendWake, SendsAreFlagged, TypeOK
<1>4. \A v \in Thread : WokenInGet(v)'
  <2>1. WokenInGet(t)'
    BY <1>0, <1>1, NotInGet
  <2> QED
    BY <1>a, <1>b, <1>0, <1>1, <2>1, OthersWoken DEF SendWake, IsWaking, TypeOK
<1> QED
  BY <1>a, <1>1, <1>2, <1>3, <1>4 DEF IInv, Moves, Stacks

LEMMA SendCheckKeeps ==
    ASSUME IInv, NEW t \in Thread, SendCheck(t)
    PROVE  IInv'
<1>a. Stacks /\ TypeOK /\ SendsAreFlagged /\ WokenInGet(t)
  BY DEF IInv, TypeOK, Stacks
<1>b. Depth(t) > 0 /\ Top(t).kind = "send" /\ Top(t).at = "check"
      /\ Top(t) \in Frame
  BY <1>a, Innermost DEF SendCheck, In
<1> DEFINE g == [Top(t) EXCEPT !.at = "wait"]
<1>0. g \in Frame /\ g.kind = "send" /\ g.at = "wait" /\ ReceiveSends(t, g)
  BY <1>b DEF SendCheck, Frame
<1> HIDE DEF g
<1>1. Moves(t) /\ Depth(t)' > 0 /\ Top(t)'.kind # "get"
  BY <1>a, <1>b, <1>0, ReceiveStep
<1>2. TypeOK'
  BY <1>a, <1>b, <1>1 DEF SendCheck, TypeOK, Moves, Stacks
<1>3. SendsAreFlagged'
  BY <1>a DEF SendCheck, SendsAreFlagged, TypeOK
<1>4. \A v \in Thread : WokenInGet(v)'
  <2>1. WokenInGet(t)'
    BY <1>1, NotInGet
  <2> QED
    BY <1>a, <1>b, <1>1, <2>1, OthersWoken DEF SendCheck, IsWaking, TypeOK
<1> QED
  BY <1>a, <1>1, <1>2, <1>3, <1>4 DEF IInv, Moves, Stacks

LEMMA SendWaitKeeps ==
    ASSUME IInv, NEW t \in Thread, SendWait(t)
    PROVE  IInv'
<1>a. Stacks /\ TypeOK /\ SendsAreFlagged /\ WokenInGet(t)
  BY DEF IInv, TypeOK, Stacks
<1>b. Depth(t) > 0 /\ Top(t).kind = "send" /\ Top(t).at = "wait"
      /\ Top(t) \in Frame
  BY <1>a, Innermost DEF SendWait, In
<1> DEFINE f == [Top(t) EXCEPT !.at = "check", !.waited = TRUE]
<1>0. f \in Frame /\ f.kind = "send" /\ f.at = "check" /\ f.peer = Top(t).peer
      /\ Become(t, f)
  BY <1>b DEF SendWait, Frame
<1> HIDE DEF f
<1>1. Moves(t) /\ Depth(t)' > 0 /\ Top(t)' = f
  BY <1>a, <1>b, <1>0, BecomeStep
<1>2. TypeOK'
  BY <1>a, <1>b, <1>1 DEF SendWait, TypeOK, Moves, Stacks, Frame
<1>3. SendsAreFlagged'
  BY <1>a DEF SendWait, SendsAreFlagged, TypeOK
<1>4. \A v \in Thread : WokenInGet(v)'
  <2>1. WokenInGet(t)'
    BY <1>0, <1>1, NotInGet
  <2> QED
    BY <1>a, <1>b, <1>0, <1>1, <2>1, OthersWoken DEF SendWait, IsWaking, TypeOK
<1> QED
  BY <1>a, <1>1, <1>2, <1>3, <1>4 DEF IInv, Moves, Stacks

LEMMA SendReturnsKeeps ==
    ASSUME IInv, NEW t \in Thread, SendReturns(t)
    PROVE  IInv'
<1>a. Stacks /\ TypeOK /\ SendsAreFlagged /\ WokenInGet(t)
  BY DEF IInv, TypeOK, Stacks
<1>b. Depth(t) > 0 /\ Top(t).kind = "send" /\ Top(t).at = "check"
      /\ Top(t) \in Frame
  BY <1>a, Innermost DEF SendReturns, In
<1>1. /\ Moves(t)
      /\ Depth(t)' > 0 => Top(t)'.kind # "get"
  BY <1>a, <1>b, PopStep DEF SendReturns, Nested
<1>2. TypeOK'
  BY <1>a, <1>b, <1>1 DEF SendReturns, TypeOK, Moves, Stacks, RestoreWakeUp
<1>3. SendsAreFlagged'
  BY <1>a DEF SendReturns, SendsAreFlagged, TypeOK
<1>4. \A v \in Thread : WokenInGet(v)'
  <2>1. WokenInGet(t)'
    BY <1>1, NotInGet
  <2> QED
    BY <1>a, <1>b, <1>1, <2>1, OthersWoken DEF SendReturns, IsWaking, TypeOK, RestoreWakeUp
<1> QED
  BY <1>a, <1>1, <1>2, <1>3, <1>4 DEF IInv, Moves, Stacks

LEMMA DestroyKeeps ==
    ASSUME IInv, NEW t \in Thread, NEW u \in Thread, Destroy(t, u)
    PROVE  IInv'
<1>a. Stacks /\ TypeOK /\ SendsAreFlagged /\ WokenInGet(t)
  BY DEF IInv, TypeOK, Stacks
<1>b. Depth(t) > 0 /\ Top(t).kind = "handle" /\ Top(t).at = ""
      /\ Top(t) \in Frame
  BY <1>a, Innermost DEF Destroy, In
<1>1. Moves(t) /\ Top(t)' = Top(t)
  BY <1>a DEF Destroy, Moves, Stacks, Shape, Top, Depth
<1>0. /\ \A v \in Thread : sendlist'[v] # <<>> => sendlist[v] # <<>>
      /\ \A v \in Thread : msgq'[v] # <<>> => msgq[v] # <<>>
      /\ signaled \subseteq signaled' /\ UNCHANGED <<fStop, has_sends>>
  BY <1>a DEF Destroy, TypeOK
<1>2. TypeOK'
  <2>1. \A i \in 1 .. Len(sendlist[u]) : sendlist[u][i] \in SendMessage
    BY <1>a DEF TypeOK
  <2>2. ready' \subseteq Nat /\ signaled' \subseteq Thread
    <3>1. \A i \in 1 .. Len(sendlist[u]) :
              sendlist[u][i].id \in Nat /\ sendlist[u][i].from \in Thread
      BY <2>1 DEF SendMessage
    <3>2. /\ ready' = ready \union {sendlist[u][i].id : i \in 1 .. Len(sendlist[u])}
          /\ signaled' = signaled \union
                            {sendlist[u][i].from : i \in 1 .. Len(sendlist[u])}
      BY <1>a DEF Destroy
    <3>3. ready \subseteq Nat /\ signaled \subseteq Thread
      BY <1>a DEF TypeOK
    <3> QED
      BY <3>1, <3>2, <3>3
  <2>3. /\ msgq' \in [Thread -> Seq(Message)]
        /\ dmsgq' \in [Thread -> Seq(Message)]
        /\ sendlist' \in [Thread -> Seq(SendMessage)]
    <3>1. /\ <<>> \in Seq(Message) /\ <<>> \in Seq(SendMessage)
      OBVIOUS
    <3> QED
      BY <1>a, <3>1 DEF Destroy, TypeOK
  <2> QED
    BY <1>a, <2>2, <2>3 DEF Destroy, TypeOK
<1>3. SendsAreFlagged'
  BY <1>a, <1>0 DEF SendsAreFlagged
<1>4. \A v \in Thread : WokenInGet(v)'
  <2>1. WokenInGet(t)'
    BY <1>b, <1>1, NotInGet
  <2> QED
    BY <1>b, <1>0, <1>1, <2>1, OthersWoken DEF IsWaking
<1> QED
  BY <1>a, <1>1, <1>2, <1>3, <1>4 DEF IInv, Moves, Stacks

\* The clock, and steps that change nothing, leave the queues alone.
LEMMA RestKeeps ==
    ASSUME IInv, Tick \/ UNCHANGED vars
    PROVE  IInv'
<1>1. UNCHANGED <<stack, queue_vars, fStop, signaled, ready, next, bound_vars>>
      /\ now' \in Nat
  BY DEF Tick, vars, IInv, TypeOK
<1>2. TypeOK'
  BY <1>1 DEF IInv, TypeOK
<1>3. Shape' /\ SendsAreFlagged'
  BY <1>1 DEF IInv, Shape, SendsAreFlagged
<1>4. \A t \in Thread : WokenInGet(t)'
  BY <1>1 DEF IInv, WokenInGet, InGet, Woken, Waking, In, Top, Depth
<1> QED
  BY <1>2, <1>3, <1>4 DEF IInv

LEMMA InitKeeps ==
    ASSUME Init
    PROVE  IInv
<1> DEFINE first(t) == IF t \in Outside THEN NewFrame("handle", "", t, 0, 0)
                       ELSE NewFrame("get", "sends", t, 0, 1)
<1>1. \A t \in Thread :
          /\ first(t) \in Frame
          /\ first(t).kind = "handle" \/ first(t).at = "sends"
  BY DEF NewFrame, Frame
<1>2. stack = [t \in Thread |-> <<first(t)>>]
  BY DEF Init
<1> HIDE DEF first
<1>3. Stacks /\ \A t \in Thread : Depth(t) = 1 /\ Top(t) = first(t)
  BY <1>1, <1>2 DEF Stacks, Shape, Shaped, Depth, Top
<1>4. TypeOK
  <2>1. /\ posts \in 0 .. MaxPosts /\ sends \in 0 .. MaxSends
        /\ quits \in 0 .. MaxQuits
    <3>1. posts = MaxPosts /\ sends = MaxSends /\ quits = MaxQuits
      BY DEF Init
    <3> QED
      BY <3>1, BoundsAssumption
  <2>2. /\ msgq \in [Thread -> Seq(Message)] /\ dmsgq \in [Thread -> Seq(Message)]
        /\ sendlist \in [Thread -> Seq(SendMessage)]
    <3>1. <<>> \in Seq(Message) /\ <<>> \in Seq(SendMessage)
      OBVIOUS
    <3> QED
      BY <3>1 DEF Init
  <2>3. /\ has_sends \subseteq Thread /\ fStop \subseteq Thread
        /\ signaled \subseteq Thread /\ ready \subseteq Nat
        /\ next \in Nat /\ now \in Nat
    BY DEF Init
  <2> QED
    BY <1>3, <2>1, <2>2, <2>3 DEF TypeOK, Stacks
<1>5. SendsAreFlagged
  BY DEF Init, SendsAreFlagged
<1>6. \A t \in Thread : WokenInGet(t)
  BY <1>1, <1>3 DEF WokenInGet, InGet
<1> QED
  BY <1>3, <1>4, <1>5, <1>6 DEF IInv, Stacks

LEMMA StepKeeps ==
    ASSUME IInv, [Next]_vars
    PROVE  IInv'
<1>1. ASSUME NEW t \in Thread, Step(t) PROVE IInv'
  BY <1>1, GetSendsKeeps, GetPollKeeps, GetStopKeeps, GetWaitKeeps,
     NextGetKeeps, ReceiveOneKeeps, ReceiveEndKeeps, HandlerReturnsKeeps,
     PostQueueKeeps,
     QuitWakeKeeps, SendQueueKeeps, SendWakeKeeps, SendCheckKeeps,
     SendWaitKeeps, SendReturnsKeeps DEF Step
<1>2. ASSUME NEW t \in Thread, Call(t) PROVE IInv'
  BY <1>2, PostKeeps, SendKeeps, SendSelfKeeps, QuitKeeps, DestroyKeeps
     DEF Call
<1>3. CASE Tick \/ UNCHANGED vars
  BY <1>3, RestKeeps
<1> QED
  BY <1>1, <1>2, <1>3 DEF Next

LEMMA Inductive == Spec => []IInv
<1>1. Init => IInv
  BY InitKeeps
<1>2. IInv /\ [Next]_vars => IInv'
  BY StepKeeps
<1> QED
  BY <1>1, <1>2, PTL DEF Spec

-----------------------------------------------------------------------------
\* Every variable of the threads and their queues has its type.
THEOREM TypeCorrect == Spec => []TypeOK
<1>1. IInv => TypeOK
  BY DEF IInv
<1> QED
  BY <1>1, Inductive, PTL

\* has_sends_, which ReceiveSends and Get test without the lock, is set whenever
\* a Send is listed: ReceiveSends clears it only when the list is empty.
THEOREM SendsFlagged == Spec => []SendsAreFlagged
<1>1. IInv => SendsAreFlagged
  BY DEF IInv
<1> QED
  BY <1>1, Inductive, PTL

\* No wake-up of a reader is lost: whatever is posted, sent or quit after Get has
\* looked, and however many Sends the thread served meanwhile, a thread waiting
\* in Get with something to do has a WakeUp pending or about to be given.
THEOREM LoopWoken == Spec => []LoopIsWoken
<1>1. IInv => LoopIsWoken
  BY DEF IInv, LoopIsWoken, WokenInGet, InGet, Woken, In
<1> QED
  BY <1>1, Inductive, PTL

-----------------------------------------------------------------------------
(***************************************************************************)
(* What a message handler may count on.                                    *)
(***************************************************************************)

-----------------------------------------------------------------------------
(* What a step does to the frames of its thread.                           *)

Kept(t, n) == \A i \in 1 .. n : stack'[t][i] = stack[t][i]

Popped(t) ==
    Moves(t) /\ Depth(t)' = Depth(t) - 1 /\ Kept(t, Depth(t) - 1)
Changed(t, f) ==
    /\ Moves(t) /\ Depth(t)' = Depth(t) /\ Kept(t, Depth(t) - 1)
    /\ stack'[t][Depth(t)] = f
Pushed(t, f) ==
    /\ Moves(t) /\ Depth(t)' = Depth(t) + 1 /\ Kept(t, Depth(t))
    /\ stack'[t][Depth(t) + 1] = f
Entered(t, f, g) ==
    /\ Moves(t) /\ Depth(t)' = Depth(t) + 1 /\ Kept(t, Depth(t) - 1)
    /\ stack'[t][Depth(t)] = f /\ stack'[t][Depth(t) + 1] = g

LEMMA Below ==
    ASSUME Stacks, NEW t \in Thread, Depth(t) > 0
    PROVE  /\ Depth(t) \in Nat /\ Under(t) \in Seq(Frame)
           /\ Len(Under(t)) = Depth(t) - 1
           /\ \A i \in 1 .. Depth(t) - 1 : Under(t)[i] = stack[t][i]
<1>1. stack[t] \in Seq(Frame) /\ Shaped(stack[t])
  BY DEF Stacks, Shape
<1> QED
  BY <1>1, Cut DEF Under, Depth

LEMMA PopFrames ==
    ASSUME Stacks, NEW t \in Thread, Depth(t) > 0, Pop(t)
    PROVE  Popped(t)
<1>1. Moves(t) /\ stack'[t] = Under(t)
  BY Innermost, Moved DEF Pop
<1> QED
  BY <1>1, Below DEF Popped, Kept, Depth

LEMMA ChangeFrames ==
    ASSUME Stacks, NEW t \in Thread, Depth(t) > 0, NEW f \in Frame,
           f.kind = Top(t).kind, Become(t, f)
    PROVE  Changed(t, f)
<1>1. Moves(t)
  BY BecomeStep
<1>2. stack'[t] = Append(Under(t), f)
  BY DEF Become, Stacks
<1>3. /\ Len(Append(Under(t), f)) = Depth(t)
      /\ Append(Under(t), f)[Depth(t)] = f
      /\ \A i \in 1 .. Depth(t) - 1 : Append(Under(t), f)[i] = stack[t][i]
  <2> DEFINE u == Under(t)
  <2>1. u \in Seq(Frame) /\ Len(u) = Depth(t) - 1 /\ Depth(t) \in Nat
        /\ \A i \in 1 .. Depth(t) - 1 : u[i] = stack[t][i]
    BY Below
  <2> HIDE DEF u
  <2>2. /\ Len(Append(u, f)) = Depth(t) /\ Append(u, f)[Depth(t)] = f
        /\ \A i \in 1 .. Depth(t) - 1 : Append(u, f)[i] = u[i]
    BY <2>1
  <2> QED
    BY <2>1, <2>2 DEF u
<1> QED
  BY <1>1, <1>2, <1>3 DEF Changed, Kept, Depth

LEMMA AloneFrames ==
    ASSUME Stacks, NEW t \in Thread, Depth(t) = 1, NEW f \in Frame, Become(t, f)
    PROVE  Changed(t, f)
<1>1. Moves(t) /\ stack'[t] = <<f>> /\ Depth(t)' = 1
  BY AloneStep
<1> QED
  BY <1>1 DEF Changed, Kept

LEMMA PushFrames ==
    ASSUME Stacks, NEW t \in Thread, Depth(t) > 0, NEW f \in Frame,
           Nested(Top(t), f),
           stack' = [stack EXCEPT ![t] = Append(@, f)]
    PROVE  Pushed(t, f)
<1>1. Moves(t)
  BY PushStep
<1>2. stack'[t] = Append(stack[t], f) /\ stack[t] \in Seq(Frame)
  BY DEF Stacks
<1> QED
  BY <1>1, <1>2 DEF Pushed, Kept, Depth

LEMMA EnterFrames ==
    ASSUME Stacks, NEW t \in Thread, Depth(t) > 0, NEW f \in Frame,
           NEW g \in Frame, f.kind = Top(t).kind, Nested(f, g), Enter(t, f, g)
    PROVE  Entered(t, f, g)
<1>1. Moves(t)
  BY EnterStep
<1>2. stack'[t] = Append(Append(Under(t), f), g)
  BY DEF Enter, Stacks
<1> DEFINE u == Under(t)
           s == Append(u, f)
<1>3. u \in Seq(Frame) /\ Len(u) = Depth(t) - 1 /\ Depth(t) \in Nat
      /\ \A i \in 1 .. Depth(t) - 1 : u[i] = stack[t][i]
  BY Below
<1> HIDE DEF u
<1>4. /\ s \in Seq(Frame) /\ Len(s) = Depth(t) /\ s[Depth(t)] = f
      /\ \A i \in 1 .. Depth(t) - 1 : s[i] = stack[t][i]
  BY <1>3
<1> HIDE DEF s
<1>5. /\ Len(Append(s, g)) = Depth(t) + 1
      /\ Append(s, g)[Depth(t) + 1] = g
      /\ \A i \in 1 .. Depth(t) : Append(s, g)[i] = s[i]
  BY <1>3, <1>4
<1>6. stack'[t] = Append(s, g)
  BY <1>2 DEF s, u
<1> QED
  BY <1>1, <1>3, <1>4, <1>5, <1>6 DEF Entered, Kept, Depth

\* ReceiveSends, called in frame f.
LEMMA ReceiveFrames ==
    ASSUME Stacks, NEW t \in Thread, Depth(t) > 0, NEW f \in Frame,
           f.kind = Top(t).kind,
           \/ f.kind = "get" /\ f.at = "poll"
           \/ f.kind = "send" /\ f.at = "wait",
           ReceiveSends(t, f)
    PROVE  \/ Entered(t, f, ReceiveFrame(t))
           \/ t \notin has_sends /\ Changed(t, f)
<1>1. CASE t \in has_sends
  <2>1. ReceiveFrame(t) \in Frame /\ ReceiveFrame(t).kind = "receive"
    BY DEF ReceiveFrame, NewFrame, Frame
  <2>2. Nested(f, ReceiveFrame(t))
    BY <2>1 DEF Nested
  <2>3. Enter(t, f, ReceiveFrame(t))
    BY <1>1 DEF ReceiveSends
  <2> QED
    BY <2>1, <2>2, <2>3, EnterFrames
<1>2. CASE t \notin has_sends
  BY <1>2, ChangeFrames DEF ReceiveSends
<1> QED
  BY <1>1, <1>2

-----------------------------------------------------------------------------
(* The invariants: times, Sends, and wake-ups of senders.                  *)

\* The frames of Get and of handlers that hold a time of the past.
Early(f) ==
    /\ f.kind = "handle" => f.time <= now
    /\ f.kind = "get" /\ f.at \in {"sends", "poll"} => f.time <= now
InTime(t) == \A i \in 1 .. Depth(t) : Early(stack[t][i])

Sorted(q)  == \A i, j \in 1 .. Len(q) : i < j => q[i].trigger <= q[j].trigger
Ordered(q) == \A i, j \in 1 .. Len(q) :
                  i < j /\ q[i].trigger = q[j].trigger => q[i].id < q[j].id

\* The delayed messages are sorted, and the ready ones have triggered.
Queued(t) ==
    /\ \A i \in 1 .. Len(msgq[t]) :
           msgq[t][i].trigger <= now /\ msgq[t][i].id < next
    /\ \A i \in 1 .. Len(dmsgq[t]) :
           dmsgq[t][i].trigger # 0 /\ dmsgq[t][i].id < next
    /\ Sorted(dmsgq[t])
    /\ Ordered(msgq[t] \o dmsgq[t])

TimeInv == \A t \in Thread : InTime(t) /\ Queued(t)

\* Thread t is in Send number n; it has not queued it yet; it waits for it.
SendsAt(t, i, n) == stack[t][i].kind = "send" /\ stack[t][i].id = n
Sends(t, n)      == \E i \in 1 .. Depth(t) : SendsAt(t, i, n)
Queueing(t, n)   == In(t, "send", "queue") /\ Top(t).id = n
Waits(t, n)      == Sends(t, n) /\ ~Queueing(t, n) /\ n \notin ready

\* The i-th frame of thread t is the handler of a Send made to it.
Serves(t, i) ==
    /\ i \in 2 .. Depth(t)
    /\ stack[t][i].kind = "handle" /\ stack[t][i - 1].kind = "receive"

\* Every Send has a number of its own.
Fresh ==
    /\ \A n \in ready : n < next
    /\ \A t \in Thread : \A n \in Nat : Sends(t, n) => n < next
Own == \A t, u \in Thread : \A n \in Nat : Sends(t, n) /\ Sends(u, n) => t = u
NotYet == \A t \in Thread : \A n \in ready : ~Queueing(t, n)

\* Who sent what is listed or served waits for it.
ListedWait ==
    \A t \in Thread : \A i \in 1 .. Len(sendlist[t]) :
        Waits(sendlist[t][i].from, sendlist[t][i].id)
ServedWait ==
    \A t \in Thread : \A i \in 1 .. Depth(t) :
        Serves(t, i) => Waits(stack[t][i].peer, stack[t][i].id)

\* No Send is listed or served twice.
ListedOnce ==
    \A t, u \in Thread :
        \A i \in 1 .. Len(sendlist[t]), j \in 1 .. Len(sendlist[u]) :
            sendlist[t][i].id = sendlist[u][j].id => t = u /\ i = j
ServedOnce ==
    \A t, u \in Thread : \A i \in 1 .. Depth(t), j \in 1 .. Depth(u) :
        Serves(t, i) /\ Serves(u, j) /\ stack[t][i].id = stack[u][j].id
            => t = u /\ i = j
ServedOrListed ==
    \A t, u \in Thread :
        \A i \in 1 .. Depth(t), j \in 1 .. Len(sendlist[u]) :
            Serves(t, i) => stack[t][i].id # sendlist[u][j].id

SendInv ==
    /\ Fresh /\ Own /\ NotYet
    /\ ListedWait /\ ServedWait
    /\ ListedOnce /\ ServedOnce /\ ServedOrListed

\* A Send that waits although it is answered is woken, or a Send nested in it
\* has consumed its WakeUp and will give one back.
Waiting(f)    == f.kind = "send" /\ f.at = "wait"
HasWaited(f)  == f.kind = "send" /\ f.waited = TRUE
WakeKept(t) ==
    \A i \in 1 .. Depth(t) :
        Waiting(stack[t][i]) /\ stack[t][i].id \in ready =>
            \/ t \in signaled
            \/ \E j \in i + 1 .. Depth(t) : HasWaited(stack[t][j])
\* A Send made to a thread that waits in Send wakes it.
WakeSent(t) == In(t, "send", "wait") /\ sendlist[t] # <<>> => Woken(t)

WakeInv == \A t \in Thread : WakeKept(t) /\ WakeSent(t)

HInv == IInv /\ TimeInv /\ SendInv /\ WakeInv

-----------------------------------------------------------------------------
(* Times.                                                                  *)

LEMMA EarlyPopped ==
    ASSUME NEW t \in Thread, Depth(t) \in Nat, InTime(t), Popped(t), now' = now
    PROVE  InTime(t)'
    BY DEF InTime, Early, Popped, Kept

LEMMA EarlyChanged ==
    ASSUME NEW t \in Thread, Depth(t) \in Nat, InTime(t), now' = now,
           NEW f, Changed(t, f), Early(f)
    PROVE  InTime(t)'
    BY DEF InTime, Early, Changed, Kept

LEMMA EarlyPushed ==
    ASSUME NEW t \in Thread, Depth(t) \in Nat, InTime(t), now' = now,
           NEW f, Pushed(t, f), Early(f)
    PROVE  InTime(t)'
    BY DEF InTime, Early, Pushed, Kept

LEMMA EarlyEntered ==
    ASSUME NEW t \in Thread, Depth(t) \in Nat, InTime(t), now' = now,
           NEW f, NEW g, Entered(t, f, g), Early(f), Early(g)
    PROVE  InTime(t)'
    BY DEF InTime, Early, Entered, Kept

\* A step that leaves the message queues alone.
LEMMA TimeStays ==
    ASSUME TypeOK, TimeInv, NEW t \in Thread, Moves(t), InTime(t)',
           UNCHANGED <<msgq, dmsgq, now>>, next' = next \/ next' = next + 1
    PROVE  TimeInv'
<1>1. \A u \in Thread : InTime(u)'
  BY DEF TimeInv, InTime, Early, Moves, Depth
<1>2. ASSUME NEW u \in Thread PROVE Queued(u)'
  <2>1. Queued(u) /\ msgq'[u] = msgq[u] /\ dmsgq'[u] = dmsgq[u]
    BY DEF TimeInv
  <2>2. /\ \A i \in 1 .. Len(msgq[u]) : msgq[u][i].id \in Nat
        /\ \A i \in 1 .. Len(dmsgq[u]) : dmsgq[u][i].id \in Nat
        /\ next \in Nat
    <3>1. msgq[u] \in Seq(Message) /\ dmsgq[u] \in Seq(Message) /\ next \in Nat
      BY DEF TypeOK
    <3>2. \A m \in Message : m.id \in Nat
      BY DEF Message
    <3> QED
      BY <3>1, <3>2
  <2>3. \A n \in Nat : n < next => n < next'
    BY <2>2
  <2>4. /\ \A i \in 1 .. Len(msgq[u]) :
               msgq[u][i].trigger <= now /\ msgq[u][i].id < next'
        /\ \A i \in 1 .. Len(dmsgq[u]) :
               dmsgq[u][i].trigger # 0 /\ dmsgq[u][i].id < next'
    BY <2>1, <2>2, <2>3 DEF Queued
  <2>5. Sorted(dmsgq[u]) /\ Ordered(msgq[u] \o dmsgq[u])
    BY <2>1 DEF Queued
  <2>6. Sorted(dmsgq[u])'
    BY <2>1, <2>5 DEF Sorted
  <2>7. Ordered(msgq[u] \o dmsgq[u])'
    BY <2>1, <2>5, Zenon
  <2> QED
    BY <2>1, <2>4, <2>6, <2>7 DEF Queued
<1> QED
  BY <1>1, <1>2 DEF TimeInv

-----------------------------------------------------------------------------
(* Sends.                                                                  *)

\* Thread t is in the same Sends, and serves the same, as before.
SameSends(t) == \A n \in Nat : Sends(t, n)' <=> Sends(t, n)
SameServed(t) ==
    \A i \in Nat :
        /\ Serves(t, i)' <=> Serves(t, i)
        /\ Serves(t, i) => /\ stack'[t][i].peer = stack[t][i].peer
                           /\ stack'[t][i].id = stack[t][i].id
NotQueueing(t) == \A n \in Nat : ~Queueing(t, n)'
CalmStack(t) == SameSends(t) /\ SameServed(t) /\ NotQueueing(t)

LEMMA TopNested ==
    ASSUME Stacks, NEW t \in Thread, Depth(t) > 1
    PROVE  Nested(stack[t][Depth(t) - 1], Top(t))
<1>1. stack[t] \in Seq(Frame) /\ Shaped(stack[t])
  BY DEF Stacks, Shape
<1>2. Depth(t) - 1 \in 1 .. Len(stack[t]) - 1 /\ Depth(t) - 1 + 1 = Depth(t)
  BY <1>1 DEF Depth
<1>3. \A i \in 1 .. Len(stack[t]) - 1 : Nested(stack[t][i], stack[t][i + 1])
  BY <1>1 DEF Shaped
<1> QED
  BY <1>2, <1>3 DEF Top

LEMMA SendsPopped ==
    ASSUME Stacks, NEW t \in Thread, Depth(t) > 0, Popped(t)
    PROVE  /\ Top(t).kind # "send" => SameSends(t)
           /\ NotQueueing(t)
<1>0. Depth(t) \in Nat
  BY Below
<1>1. Top(t).kind # "send" => SameSends(t)
  BY <1>0 DEF SameSends, Sends, SendsAt, Popped, Kept, Top
<1>2. NotQueueing(t)
  BY <1>0, TopNested DEF NotQueueing, Queueing, In, Popped, Kept, Top, Nested
<1> QED
  BY <1>1, <1>2

LEMMA CalmPopped ==
    ASSUME Stacks, NEW t \in Thread, Depth(t) > 0, Popped(t),
           Top(t).kind # "send", ~Serves(t, Depth(t))
    PROVE  CalmStack(t)
<1>0. Depth(t) \in Nat
  BY Below
<1>1. SameSends(t)
  BY SendsPopped
<1>2. SameServed(t)
  BY <1>0 DEF SameServed, Serves, Popped, Kept, Top
<1>3. NotQueueing(t)
  BY SendsPopped
<1> QED
  BY <1>1, <1>2, <1>3 DEF CalmStack

LEMMA CalmChanged ==
    ASSUME Stacks, NEW t \in Thread, Depth(t) > 0, NEW f, Changed(t, f),
           f.kind = Top(t).kind, f.kind # "handle",
           f.kind = "send" => f.id = Top(t).id /\ f.at # "queue"
    PROVE  CalmStack(t)
<1>0. Depth(t) \in Nat
  BY Below
<1>1. SameSends(t)
  BY <1>0 DEF SameSends, Sends, SendsAt, Changed, Kept, Top
<1>2. SameServed(t)
  BY <1>0 DEF SameServed, Serves, Changed, Kept, Top
<1>3. NotQueueing(t)
  BY <1>0 DEF NotQueueing, Queueing, In, Changed, Top
<1> QED
  BY <1>1, <1>2, <1>3 DEF CalmStack

LEMMA CalmAlone ==
    ASSUME NEW t \in Thread, Depth(t) = 1, NEW f, Changed(t, f),
           f.kind # "send", Top(t).kind # "send"
    PROVE  CalmStack(t)
<1>1. SameSends(t)
  BY DEF SameSends, Sends, SendsAt, Changed, Top
<1>2. SameServed(t)
  BY DEF SameServed, Serves, Changed
<1>3. NotQueueing(t)
  BY DEF NotQueueing, Queueing, In, Changed, Top
<1> QED
  BY <1>1, <1>2, <1>3 DEF CalmStack

LEMMA SendsPushed ==
    ASSUME Stacks, NEW t \in Thread, Depth(t) > 0, NEW f, Pushed(t, f),
           f.kind # "send"
    PROVE  SameSends(t)
<1>0. Depth(t) \in Nat
  BY Below
<1> QED
  BY <1>0 DEF SameSends, Sends, SendsAt, Pushed, Kept, Top

LEMMA CalmPushed ==
    ASSUME Stacks, NEW t \in Thread, Depth(t) > 0, NEW f, Pushed(t, f),
           f.kind # "send", Top(t).kind = "handle"
    PROVE  CalmStack(t)
<1>0. Depth(t) \in Nat
  BY Below
<1>1. SameSends(t)
  BY SendsPushed
<1>2. SameServed(t)
  BY <1>0 DEF SameServed, Serves, Pushed, Kept, Top
<1>3. NotQueueing(t)
  BY <1>0 DEF NotQueueing, Queueing, In, Pushed, Top
<1> QED
  BY <1>1, <1>2, <1>3 DEF CalmStack

LEMMA CalmEntered ==
    ASSUME Stacks, NEW t \in Thread, Depth(t) > 0, NEW f, NEW g,
           Entered(t, f, g),
           f.kind = Top(t).kind, f.kind \notin {"handle", "receive"},
           f.kind = "send" => f.id = Top(t).id,
           g.kind # "send"
    PROVE  CalmStack(t)
<1>0. Depth(t) \in Nat
  BY Below
<1>1. SameSends(t)
  BY <1>0 DEF SameSends, Sends, SendsAt, Entered, Kept, Top
<1>2. SameServed(t)
  BY <1>0 DEF SameServed, Serves, Entered, Kept, Top
<1>3. NotQueueing(t)
  BY <1>0 DEF NotQueueing, Queueing, In, Entered, Top
<1> QED
  BY <1>1, <1>2, <1>3 DEF CalmStack

\* The stacks of the other threads.
LEMMA OthersSame ==
    ASSUME NEW t \in Thread, Moves(t), NEW u \in Thread \ {t}
    PROVE  /\ Depth(u)' = Depth(u) /\ stack'[u] = stack[u]
           /\ \A n : /\ Sends(u, n)' <=> Sends(u, n)
                     /\ Queueing(u, n)' <=> Queueing(u, n)
           /\ \A i : Serves(u, i)' <=> Serves(u, i)
    BY DEF Moves, Depth, Sends, SendsAt, Queueing, In, Top, Serves

LEMMA Typed ==
    ASSUME TypeOK
    PROVE  /\ \A t \in Thread : Depth(t) \in Nat
           /\ \A t \in Thread : \A i \in 1 .. Depth(t) :
                  stack[t][i].id \in Nat /\ stack[t][i].peer \in Thread
           /\ \A t \in Thread : Len(sendlist[t]) \in Nat
           /\ \A t \in Thread : \A i \in 1 .. Len(sendlist[t]) :
                  /\ sendlist[t][i].id \in Nat
                  /\ sendlist[t][i].from \in Thread
           /\ next \in Nat /\ ready \subseteq Nat
<1>1. ASSUME NEW t \in Thread
      PROVE  stack[t] \in Seq(Frame) /\ sendlist[t] \in Seq(SendMessage)
  BY DEF TypeOK
<1>2. \A f \in Frame : f.id \in Nat /\ f.peer \in Thread
  BY DEF Frame
<1>3. \A s \in SendMessage : s.id \in Nat /\ s.from \in Thread
  BY DEF SendMessage
<1> QED
  BY <1>1, <1>2, <1>3 DEF Depth, TypeOK

\* Who waits for what is served goes on waiting when nobody stops waiting and
\* the same is served.
LEMMA ServedWaitStays ==
    ASSUME TypeOK, ServedWait,
           \A v \in Thread : \A i \in Nat :
               /\ Serves(v, i)' <=> Serves(v, i)
               /\ Serves(v, i) => /\ stack'[v][i].peer = stack[v][i].peer
                                  /\ stack'[v][i].id = stack[v][i].id,
           \A v \in Thread : \A n \in Nat : Waits(v, n) => Waits(v, n)'
    PROVE  ServedWait'
<1> SUFFICES ASSUME NEW v \in Thread, NEW i \in 1 .. Depth(v)', Serves(v, i)'
             PROVE  Waits(stack[v][i].peer, stack[v][i].id)'
  BY DEF ServedWait
<1>1. i \in Nat
  OBVIOUS
<1>2. Serves(v, i) /\ i \in 1 .. Depth(v)
  BY <1>1, Typed DEF Serves
<1>3. Waits(stack[v][i].peer, stack[v][i].id)
  BY <1>2 DEF ServedWait
<1>4. stack[v][i].peer \in Thread /\ stack[v][i].id \in Nat
  BY <1>2, Typed
<1>5. stack'[v][i].peer = stack[v][i].peer /\ stack'[v][i].id = stack[v][i].id
  BY <1>1, <1>2
<1> QED
  BY <1>3, <1>4, <1>5


\* A step that neither makes, lists, serves nor answers a Send.
LEMMA CalmKeeps ==
    ASSUME TypeOK, SendInv, NEW t \in Thread, Moves(t), CalmStack(t),
           UNCHANGED <<sendlist, ready>>, next' = next \/ next' = next + 1
    PROVE  SendInv'
<1>1. /\ \A u \in Thread : \A n \in Nat :
             /\ Sends(u, n)' <=> Sends(u, n)
             /\ Queueing(u, n)' => Queueing(u, n)
      /\ \A u \in Thread : \A i \in Nat :
             /\ Serves(u, i)' <=> Serves(u, i)
             /\ Serves(u, i) => /\ stack'[u][i].peer = stack[u][i].peer
                                /\ stack'[u][i].id = stack[u][i].id
  BY OthersSame DEF CalmStack, SameSends, SameServed, NotQueueing
<1>2. \A u \in Thread : \A n \in Nat : Waits(u, n) => Waits(u, n)'
  BY <1>1 DEF Waits
<1>3. \A u \in Thread : \A i : Serves(u, i) => i \in 1 .. Depth(u) /\ i \in Nat
  BY Typed DEF Serves
<1>4. Fresh' /\ Own' /\ NotYet'
  BY <1>1, Typed DEF SendInv, Fresh, Own, NotYet
<1>5. ListedWait'
  BY <1>2, Typed DEF SendInv, ListedWait
<1>6. ServedWait'
  BY <1>1, <1>2, <1>3, Typed DEF SendInv, ServedWait
<1>7. ListedOnce'
  BY DEF SendInv, ListedOnce
<1>8. ServedOnce'
  BY <1>1, <1>3 DEF SendInv, ServedOnce
<1>9. ServedOrListed'
  BY <1>1, <1>3 DEF SendInv, ServedOrListed
<1> QED
  BY <1>4, <1>5, <1>6, <1>7, <1>8, <1>9 DEF SendInv

-----------------------------------------------------------------------------
(* Wake-ups of senders.                                                    *)

\* No frame of thread t starts to wait although it is answered, and none that
\* has waited is left without giving a WakeUp.
Steady(t) ==
    /\ \A i \in 1 .. Depth(t)' :
           Waiting(stack'[t][i]) =>
               \/ stack'[t][i].id \notin ready'
               \/ /\ i \in 1 .. Depth(t) /\ Waiting(stack[t][i])
                  /\ stack[t][i].id = stack'[t][i].id
    /\ \A i \in 1 .. Depth(t) :
           HasWaited(stack[t][i]) =>
               \/ t \in signaled'
               \/ i \in 1 .. Depth(t)' /\ HasWaited(stack'[t][i])

LEMMA SteadyPopped ==
    ASSUME Stacks, NEW t \in Thread, Depth(t) > 0, Popped(t),
           Top(t).kind # "send"
    PROVE  Steady(t)
    BY Below DEF Steady, Popped, Kept, Waiting, HasWaited, Top

LEMMA SteadyChanged ==
    ASSUME Stacks, NEW t \in Thread, Depth(t) > 0, NEW f, Changed(t, f),
           Waiting(f) => f.id \notin ready',
           HasWaited(Top(t)) => HasWaited(f)
    PROVE  Steady(t)
<1>1. /\ Depth(t) \in Nat /\ Depth(t)' = Depth(t) /\ stack'[t][Depth(t)] = f
      /\ \A i \in 1 .. Depth(t) : i # Depth(t) => stack'[t][i] = stack[t][i]
  <2>1. Depth(t) \in Nat
    BY Below
  <2>2. \A i \in 1 .. Depth(t) - 1 : stack'[t][i] = stack[t][i]
    BY DEF Changed, Kept
  <2>3. Depth(t)' = Depth(t) /\ stack'[t][Depth(t)] = f
    BY DEF Changed
  <2>4. \A i \in 1 .. Depth(t) : i # Depth(t) => i \in 1 .. Depth(t) - 1
    BY <2>1
  <2> QED
    BY <2>1, <2>2, <2>3, <2>4
<1>2. \A i \in 1 .. Depth(t)' :
          Waiting(stack'[t][i]) =>
              \/ stack'[t][i].id \notin ready'
              \/ /\ i \in 1 .. Depth(t) /\ Waiting(stack[t][i])
                 /\ stack[t][i].id = stack'[t][i].id
  BY <1>1
<1>3. \A i \in 1 .. Depth(t) :
          HasWaited(stack[t][i]) =>
              i \in 1 .. Depth(t)' /\ HasWaited(stack'[t][i])
  BY <1>1 DEF Top
<1> QED
  BY <1>2, <1>3 DEF Steady

LEMMA SteadyPushed ==
    ASSUME Stacks, NEW t \in Thread, Depth(t) > 0, NEW f, Pushed(t, f),
           ~Waiting(f)
    PROVE  Steady(t)
    BY Below DEF Steady, Pushed, Kept, Waiting, HasWaited, Top

LEMMA SteadyEntered ==
    ASSUME Stacks, NEW t \in Thread, Depth(t) > 0, NEW f, NEW g,
           Entered(t, f, g), f.kind = Top(t).kind,
           Waiting(f) => f.id \notin ready',
           HasWaited(Top(t)) => HasWaited(f), ~Waiting(g)
    PROVE  Steady(t)
<1>1. Depth(t) \in Nat
  BY Below
<1>2. \A i \in 1 .. Depth(t)' :
          Waiting(stack'[t][i]) =>
              \/ stack'[t][i].id \notin ready'
              \/ /\ i \in 1 .. Depth(t) /\ Waiting(stack[t][i])
                 /\ stack[t][i].id = stack'[t][i].id
  BY <1>1 DEF Entered, Kept
<1>3. \A i \in 1 .. Depth(t) :
          HasWaited(stack[t][i]) =>
              i \in 1 .. Depth(t)' /\ HasWaited(stack'[t][i])
  BY <1>1 DEF Entered, Kept, Top
<1> QED
  BY <1>2, <1>3 DEF Steady

\* A wake-up pending or on its way stays so, unless it is taken.
LEMMA StillWoken ==
    ASSUME NEW t \in Thread, Moves(t), NEW u \in Thread,
           u \in signaled => u \in signaled',
           IsWaking(t, u) => u \in signaled',
           Woken(u)
    PROVE  Woken(u)'
<1>1. CASE u \in signaled
  BY <1>1 DEF Woken
<1>2. CASE Waking(u)
  <2>1. PICK v \in Thread : IsWaking(v, u)
    BY <1>2 DEF Waking, In, IsWaking
  <2>2. CASE v = t
    BY <2>1, <2>2 DEF Woken
  <2>3. CASE v # t
    <3>1. IsWaking(v, u)'
      BY <2>1, <2>3, OthersSame DEF IsWaking, Top
    <3> QED
      BY <3>1 DEF IsWaking, Woken, Waking, In
  <2> QED
    BY <2>2, <2>3
<1> QED
  BY <1>1, <1>2 DEF Woken

\* What a step of thread t does for the senders.
LEMMA WakeStays ==
    ASSUME TypeOK, WakeInv, NEW t \in Thread, Moves(t),
           \A u \in Thread : u \in signaled => u \in signaled' \/ u = t,
           \A u \in Thread : IsWaking(t, u) => u \in signaled',
           \A u \in Thread : \A n \in Nat :
               Sends(u, n) /\ n \in ready' => n \in ready \/ u \in signaled',
           \A u \in Thread \ {t} :
               sendlist'[u] # <<>> =>
                   sendlist[u] # <<>> \/ u \in signaled' \/ IsWaking(t, u)',
           WakeKept(t)', WakeSent(t)'
    PROVE  WakeInv'
<1> SUFFICES ASSUME NEW u \in Thread \ {t} PROVE WakeKept(u)' /\ WakeSent(u)'
  BY DEF WakeInv
<1>1. /\ Depth(u)' = Depth(u) /\ stack'[u] = stack[u]
      /\ u \in signaled => u \in signaled'
  BY OthersSame
<1>2. WakeKept(u)'
  <2> SUFFICES ASSUME NEW i \in 1 .. Depth(u), Waiting(stack[u][i]),
                      stack[u][i].id \in ready', u \notin signaled'
               PROVE  \E j \in i + 1 .. Depth(u) : HasWaited(stack[u][j])
    BY <1>1 DEF WakeKept, Waiting, HasWaited
  <2>1. stack[u][i].id \in Nat /\ Sends(u, stack[u][i].id)
    BY Typed DEF Sends, SendsAt, Waiting
  <2>2. stack[u][i].id \in ready /\ u \notin signaled
    BY <1>1, <2>1
  <2> QED
    BY <2>2 DEF WakeInv, WakeKept
<1>3. WakeSent(u)'
  <2>1. In(u, "send", "wait")' <=> In(u, "send", "wait")
    BY <1>1 DEF In, Top
  <2>2. IsWaking(t, u)' => Woken(u)'
    BY DEF IsWaking, Woken, Waking, In
  <2>3. Woken(u) => Woken(u)'
    BY <1>1, StillWoken
  <2> QED
    BY <2>1, <2>2, <2>3 DEF WakeInv, WakeSent, Woken
<1> QED
  BY <1>2, <1>3

LEMMA SteadyKeeps ==
    ASSUME TypeOK, WakeInv, NEW t \in Thread, Steady(t),
           t \in signaled => t \in signaled',
           \A n \in Nat :
               Sends(t, n) /\ n \in ready' => n \in ready \/ t \in signaled'
    PROVE  WakeKept(t)'
<1> SUFFICES ASSUME NEW i \in 1 .. Depth(t)', Waiting(stack'[t][i]),
                    stack'[t][i].id \in ready', t \notin signaled'
             PROVE  \E j \in i + 1 .. Depth(t)' : HasWaited(stack'[t][j])
  BY DEF WakeKept, Waiting, HasWaited
<1>1. /\ i \in 1 .. Depth(t) /\ Waiting(stack[t][i])
      /\ stack[t][i].id = stack'[t][i].id
  BY DEF Steady
<1>2. stack[t][i].id \in Nat /\ Sends(t, stack[t][i].id)
  BY <1>1, Typed DEF Sends, SendsAt, Waiting
<1>3. stack[t][i].id \in ready /\ t \notin signaled
  BY <1>1, <1>2
<1>4. PICK j \in i + 1 .. Depth(t) : HasWaited(stack[t][j])
  BY <1>1, <1>3 DEF WakeInv, WakeKept
<1>5. j \in 1 .. Depth(t)
  BY <1>1, Typed
<1>6. j \in 1 .. Depth(t)' /\ HasWaited(stack'[t][j])
  BY <1>4, <1>5 DEF Steady
<1>7. j \in i + 1 .. Depth(t)'
  BY <1>4, <1>6
<1> QED
  BY <1>6, <1>7

-----------------------------------------------------------------------------
(* Every action keeps the invariants.                                      *)

LEMMA Start ==
    ASSUME HInv, NEW t \in Thread, Depth(t) > 0
    PROVE  /\ Stacks /\ TypeOK /\ SendsAreFlagged
           /\ TimeInv /\ SendInv /\ WakeInv
           /\ InTime(t) /\ Depth(t) \in Nat /\ now \in Nat /\ next \in Nat
           /\ Top(t) \in Frame /\ Early(Top(t))
<1>1. /\ Stacks /\ TypeOK /\ SendsAreFlagged
      /\ TimeInv /\ SendInv /\ WakeInv
  BY DEF HInv, IInv, TypeOK, Stacks
<1>2. Depth(t) \in Nat /\ InTime(t) /\ now \in Nat /\ next \in Nat
  BY <1>1, Below DEF TimeInv, TypeOK
<1>3. Top(t) \in Frame /\ Early(Top(t))
  BY <1>1, <1>2, Innermost DEF InTime, Top
<1> QED
  BY <1>1, <1>2, <1>3

\* A frame that is left, other than that of ReceiveSends, was not entered from
\* a wait in Send.
LEMMA NotSentPopped ==
    ASSUME Stacks, NEW t \in Thread, Depth(t) > 0, Popped(t),
           Top(t).kind # "receive"
    PROVE  WakeSent(t)'
    BY Below, TopNested DEF WakeSent, In, Popped, Kept, Top, Nested

LEMMA ReceiveEndHolds ==
    ASSUME HInv, NEW t \in Thread, ReceiveEnd(t)
    PROVE  TimeInv' /\ SendInv' /\ WakeInv'
<1>b. Depth(t) > 0 /\ Top(t).kind = "receive" /\ Top(t).at = ""
  BY DEF ReceiveEnd, In
<1>a. /\ Stacks /\ TypeOK /\ SendsAreFlagged
      /\ TimeInv /\ SendInv /\ WakeInv
      /\ InTime(t) /\ Depth(t) \in Nat /\ now \in Nat /\ next \in Nat
      /\ Top(t) \in Frame /\ Early(Top(t))
  BY <1>b, Start
<1>1. Popped(t) /\ Moves(t)
  BY <1>a, <1>b, PopFrames DEF ReceiveEnd, Popped
<1>2. TimeInv'
  <2>1. InTime(t)'
    BY <1>a, <1>1, EarlyPopped DEF ReceiveEnd
  <2> QED
    BY <1>a, <1>1, <2>1, TimeStays DEF ReceiveEnd
<1>3. SendInv'
  <2>1. CalmStack(t)
    BY <1>a, <1>b, <1>1, CalmPopped DEF Serves, Top
  <2> QED
    BY <1>a, <1>1, <2>1, CalmKeeps DEF ReceiveEnd
<1>4. WakeInv'
  <2>1. WakeKept(t)'
    <3>1. Steady(t)
      BY <1>a, <1>b, <1>1, SteadyPopped
    <3> QED
      BY <1>a, <3>1, SteadyKeeps DEF ReceiveEnd
  <2>2. WakeSent(t)'
    BY DEF WakeSent, ReceiveEnd
  <2> QED
    BY <1>a, <1>b, <1>1, <2>1, <2>2, WakeStays DEF ReceiveEnd, IsWaking
<1> QED
  BY <1>2, <1>3, <1>4

LEMMA QuitWakeHolds ==
    ASSUME HInv, NEW t \in Thread, QuitWake(t)
    PROVE  TimeInv' /\ SendInv' /\ WakeInv'
<1>b. Depth(t) > 0 /\ Top(t).kind = "quit" /\ Top(t).at = "wake"
  BY DEF QuitWake, In
<1>a. /\ Stacks /\ TypeOK /\ SendsAreFlagged
      /\ TimeInv /\ SendInv /\ WakeInv
      /\ InTime(t) /\ Depth(t) \in Nat /\ now \in Nat /\ next \in Nat
      /\ Top(t) \in Frame /\ Early(Top(t))
  BY <1>b, Start
<1>1. Popped(t) /\ Moves(t)
  BY <1>a, <1>b, PopFrames DEF QuitWake, Popped
<1>2. TimeInv'
  <2>1. InTime(t)'
    BY <1>a, <1>1, EarlyPopped DEF QuitWake
  <2> QED
    BY <1>a, <1>1, <2>1, TimeStays DEF QuitWake
<1>3. SendInv'
  <2>1. CalmStack(t)
    BY <1>a, <1>b, <1>1, CalmPopped DEF Serves, Top
  <2> QED
    BY <1>a, <1>1, <2>1, CalmKeeps DEF QuitWake
<1>4. WakeInv'
  <2>1. WakeKept(t)'
    <3>1. Steady(t)
      BY <1>a, <1>b, <1>1, SteadyPopped
    <3> QED
      BY <1>a, <3>1, SteadyKeeps DEF QuitWake
  <2>2. WakeSent(t)'
    BY <1>a, <1>b, <1>1, NotSentPopped
  <2> QED
    BY <1>a, <1>b, <1>1, <2>1, <2>2, WakeStays DEF QuitWake, IsWaking
<1> QED
  BY <1>2, <1>3, <1>4

LEMMA GetSendsHolds ==
    ASSUME HInv, NEW t \in Thread, GetSends(t)
    PROVE  TimeInv' /\ SendInv' /\ WakeInv'
<1>b. Depth(t) > 0 /\ Top(t).kind = "get" /\ Top(t).at = "sends"
  BY DEF GetSends, In
<1>a. /\ Stacks /\ TypeOK /\ SendsAreFlagged
      /\ TimeInv /\ SendInv /\ WakeInv
      /\ InTime(t) /\ Depth(t) \in Nat /\ now \in Nat /\ next \in Nat
      /\ Top(t) \in Frame /\ Early(Top(t))
  BY <1>b, Start
<1> DEFINE f == [Top(t) EXCEPT !.at = "poll"]
<1>0. /\ f \in Frame /\ f.kind = "get" /\ f.at = "poll"
      /\ f.time = Top(t).time /\ f.id = Top(t).id /\ f.waited = Top(t).waited
      /\ ReceiveSends(t, f)
  BY <1>a, <1>b DEF GetSends, Frame
<1> HIDE DEF f
<1> DEFINE g == ReceiveFrame(t)
<1>g. g.kind = "receive"
  BY DEF ReceiveFrame, NewFrame
<1>c. Entered(t, f, g) \/ (t \notin has_sends /\ Changed(t, f))
  BY <1>a, <1>b, <1>0, ReceiveFrames
<1> HIDE DEF g
<1>1. Moves(t)
  BY <1>c DEF Entered, Changed
<1>2. TimeInv'
  <2>1. Early(f) /\ Early(g)
    BY <1>a, <1>b, <1>0, <1>g DEF Early
  <2>2. InTime(t)'
    BY <1>a, <1>c, <2>1, EarlyEntered, EarlyChanged DEF GetSends
  <2> QED
    BY <1>a, <1>1, <2>2, TimeStays DEF GetSends
<1>3. SendInv'
  <2>1. CalmStack(t)
    BY <1>a, <1>b, <1>0, <1>g, <1>c, CalmEntered, CalmChanged
  <2> QED
    BY <1>a, <1>1, <2>1, CalmKeeps DEF GetSends
<1>4. WakeInv'
  <2>1. WakeKept(t)'
    <3>0. ~Waiting(f)
      BY <1>0 DEF Waiting
    <3>1. HasWaited(Top(t)) => HasWaited(f)
      BY <1>b, <1>0 DEF HasWaited
    <3>2. ~Waiting(g)
      BY <1>g DEF Waiting
    <3>3. Steady(t)
      BY <1>a, <1>b, <1>0, <1>c, <3>0, <3>1, <3>2, SteadyEntered, SteadyChanged
    <3> QED
      BY <1>a, <3>3, SteadyKeeps DEF GetSends
  <2>2. WakeSent(t)'
    BY <1>a, <1>0, <1>g, <1>c DEF WakeSent, In, Entered, Changed, Top
  <2> QED
    BY <1>a, <1>b, <1>1, <2>1, <2>2, WakeStays DEF GetSends, IsWaking
<1> QED
  BY <1>2, <1>3, <1>4

LEMMA SendCheckHolds ==
    ASSUME HInv, NEW t \in Thread, SendCheck(t)
    PROVE  TimeInv' /\ SendInv' /\ WakeInv'
<1>b. Depth(t) > 0 /\ Top(t).kind = "send" /\ Top(t).at = "check"
  BY DEF SendCheck, In
<1>a. /\ Stacks /\ TypeOK /\ SendsAreFlagged
      /\ TimeInv /\ SendInv /\ WakeInv
      /\ InTime(t) /\ Depth(t) \in Nat /\ now \in Nat /\ next \in Nat
      /\ Top(t) \in Frame /\ Early(Top(t))
  BY <1>b, Start
<1> DEFINE f == [Top(t) EXCEPT !.at = "wait"]
<1>0. /\ f \in Frame /\ f.kind = "send" /\ f.at = "wait"
      /\ f.time = Top(t).time /\ f.id = Top(t).id /\ f.waited = Top(t).waited
      /\ ReceiveSends(t, f)
  BY <1>a, <1>b DEF SendCheck, Frame
<1> HIDE DEF f
<1> DEFINE g == ReceiveFrame(t)
<1>g. g.kind = "receive"
  BY DEF ReceiveFrame, NewFrame
<1>c. Entered(t, f, g) \/ (t \notin has_sends /\ Changed(t, f))
  BY <1>a, <1>b, <1>0, ReceiveFrames
<1> HIDE DEF g
<1>1. Moves(t)
  BY <1>c DEF Entered, Changed
<1>2. TimeInv'
  <2>1. Early(f) /\ Early(g)
    BY <1>a, <1>b, <1>0, <1>g DEF Early
  <2>2. InTime(t)'
    BY <1>a, <1>c, <2>1, EarlyEntered, EarlyChanged DEF SendCheck
  <2> QED
    BY <1>a, <1>1, <2>2, TimeStays DEF SendCheck
<1>3. SendInv'
  <2>1. CalmStack(t)
    BY <1>a, <1>b, <1>0, <1>g, <1>c, CalmEntered, CalmChanged
  <2> QED
    BY <1>a, <1>1, <2>1, CalmKeeps DEF SendCheck
<1>4. WakeInv'
  <2>1. WakeKept(t)'
    <3>0. Waiting(f) => f.id \notin ready'
      BY <1>0 DEF SendCheck, Answered, Waiting
    <3>1. HasWaited(Top(t)) => HasWaited(f)
      BY <1>b, <1>0 DEF HasWaited
    <3>2. ~Waiting(g)
      BY <1>g DEF Waiting
    <3>3. Steady(t)
      BY <1>a, <1>b, <1>0, <1>c, <3>0, <3>1, <3>2, SteadyEntered, SteadyChanged
    <3> QED
      BY <1>a, <3>3, SteadyKeeps DEF SendCheck
  <2>2. WakeSent(t)'
    <3>1. CASE Entered(t, f, g)
      BY <1>a, <1>g, <3>1 DEF WakeSent, In, Entered, Top
    <3>2. CASE t \notin has_sends
      BY <1>a, <3>2 DEF WakeSent, SendsAreFlagged, SendCheck
    <3> QED
      BY <1>c, <3>1, <3>2
  <2> QED
    BY <1>a, <1>b, <1>1, <2>1, <2>2, WakeStays DEF SendCheck, IsWaking
<1> QED
  BY <1>2, <1>3, <1>4

LEMMA PostHolds ==
    ASSUME HInv, NEW t \in Thread, NEW u \in Thread,
           NEW delay \in Delays \union {0}, Post(t, u, delay)
    PROVE  TimeInv' /\ SendInv' /\ WakeInv'
<1>b. Depth(t) > 0 /\ Top(t).kind = "handle" /\ Top(t).at = ""
  BY DEF Post, In
<1>a. /\ Stacks /\ TypeOK /\ SendsAreFlagged
      /\ TimeInv /\ SendInv /\ WakeInv
      /\ InTime(t) /\ Depth(t) \in Nat /\ now \in Nat /\ next \in Nat
      /\ Top(t) \in Frame /\ Early(Top(t))
  BY <1>b, Start
<1> DEFINE f == NewFrame("post", "", u, 0, IF delay = 0 THEN 0 ELSE now + delay)
<1>0. /\ f \in Frame /\ f.kind = "post" /\ f.at = ""
      /\ f.kind = "handle" => f.time = 0
      /\ stack' = [stack EXCEPT ![t] = Append(@, f)]
  <2>1. (IF delay = 0 THEN 0 ELSE now + delay) \in Nat
    BY <1>a, DelayAssumption
  <2> QED
    BY <2>1 DEF Post, NewFrame, Frame
<1> HIDE DEF f
<1>1. Pushed(t, f) /\ Moves(t)
  <2>1. Nested(Top(t), f)
    BY <1>b, <1>0 DEF Nested
  <2> QED
    BY <1>a, <1>b, <1>0, <2>1, PushFrames DEF Pushed
<1>2. TimeInv'
  <2>0. f.kind = "handle" => f.time <= now
    <3>1. 0 <= now
      BY <1>a
    <3>2. f.kind = "handle" => f.time = 0
      BY <1>0
    <3> QED
      BY <3>1, <3>2
  <2>1. Early(f)
    BY <1>0, <2>0 DEF Early
  <2>2. InTime(t)'
    BY <1>a, <1>1, <2>1, EarlyPushed DEF Post
  <2> QED
    BY <1>a, <1>1, <2>2, TimeStays DEF Post
<1>3. SendInv'
  <2>1. CalmStack(t)
    BY <1>a, <1>b, <1>0, <1>1, CalmPushed
  <2> QED
    BY <1>a, <1>1, <2>1, CalmKeeps DEF Post
<1>4. WakeInv'
  <2>1. WakeKept(t)'
    <3>1. ~Waiting(f)
      BY <1>0 DEF Waiting
    <3>2. Steady(t)
      BY <1>a, <1>b, <1>1, <3>1, SteadyPushed
    <3> QED
      BY <1>a, <3>2, SteadyKeeps DEF Post
  <2>2. WakeSent(t)'
    BY <1>a, <1>0, <1>1 DEF WakeSent, In, Pushed, Top
  <2> QED
    BY <1>a, <1>b, <1>1, <2>1, <2>2, WakeStays DEF Post, IsWaking
<1> QED
  BY <1>2, <1>3, <1>4

LEMMA SendSelfHolds ==
    ASSUME HInv, NEW t \in Thread, SendSelf(t)
    PROVE  TimeInv' /\ SendInv' /\ WakeInv'
<1>b. Depth(t) > 0 /\ Top(t).kind = "handle" /\ Top(t).at = ""
  BY DEF SendSelf, In
<1>a. /\ Stacks /\ TypeOK /\ SendsAreFlagged
      /\ TimeInv /\ SendInv /\ WakeInv
      /\ InTime(t) /\ Depth(t) \in Nat /\ now \in Nat /\ next \in Nat
      /\ Top(t) \in Frame /\ Early(Top(t))
  BY <1>b, Start
<1> DEFINE f == NewFrame("handle", "", t, next, 0)
<1>0. /\ f \in Frame /\ f.kind = "handle" /\ f.at = ""
      /\ f.kind = "handle" => f.time = 0
      /\ stack' = [stack EXCEPT ![t] = Append(@, f)]
  BY <1>a DEF SendSelf, NewFrame, Frame
<1> HIDE DEF f
<1>1. Pushed(t, f) /\ Moves(t)
  <2>1. Nested(Top(t), f)
    BY <1>b, <1>0 DEF Nested
  <2> QED
    BY <1>a, <1>b, <1>0, <2>1, PushFrames DEF Pushed
<1>2. TimeInv'
  <2>0. f.kind = "handle" => f.time <= now
    <3>1. 0 <= now
      BY <1>a
    <3>2. f.kind = "handle" => f.time = 0
      BY <1>0
    <3> QED
      BY <3>1, <3>2
  <2>1. Early(f)
    BY <1>0, <2>0 DEF Early
  <2>2. InTime(t)'
    BY <1>a, <1>1, <2>1, EarlyPushed DEF SendSelf
  <2> QED
    BY <1>a, <1>1, <2>2, TimeStays DEF SendSelf
<1>3. SendInv'
  <2>1. CalmStack(t)
    BY <1>a, <1>b, <1>0, <1>1, CalmPushed
  <2> QED
    BY <1>a, <1>1, <2>1, CalmKeeps DEF SendSelf
<1>4. WakeInv'
  <2>1. WakeKept(t)'
    <3>1. ~Waiting(f)
      BY <1>0 DEF Waiting
    <3>2. Steady(t)
      BY <1>a, <1>b, <1>1, <3>1, SteadyPushed
    <3> QED
      BY <1>a, <3>2, SteadyKeeps DEF SendSelf
  <2>2. WakeSent(t)'
    BY <1>a, <1>0, <1>1 DEF WakeSent, In, Pushed, Top
  <2> QED
    BY <1>a, <1>b, <1>1, <2>1, <2>2, WakeStays DEF SendSelf, IsWaking
<1> QED
  BY <1>2, <1>3, <1>4

LEMMA QuitHolds ==
    ASSUME HInv, NEW t \in Thread, NEW u \in Thread, Quit(t, u)
    PROVE  TimeInv' /\ SendInv' /\ WakeInv'
<1>b. Depth(t) > 0 /\ Top(t).kind = "handle" /\ Top(t).at = ""
  BY DEF Quit, In
<1>a. /\ Stacks /\ TypeOK /\ SendsAreFlagged
      /\ TimeInv /\ SendInv /\ WakeInv
      /\ InTime(t) /\ Depth(t) \in Nat /\ now \in Nat /\ next \in Nat
      /\ Top(t) \in Frame /\ Early(Top(t))
  BY <1>b, Start
<1> DEFINE f == NewFrame("quit", "wake", u, 0, 0)
<1>0. /\ f \in Frame /\ f.kind = "quit" /\ f.at = "wake"
      /\ f.kind = "handle" => f.time = 0
      /\ stack' = [stack EXCEPT ![t] = Append(@, f)]
  BY DEF Quit, NewFrame, Frame
<1> HIDE DEF f
<1>1. Pushed(t, f) /\ Moves(t)
  <2>1. Nested(Top(t), f)
    BY <1>b, <1>0 DEF Nested
  <2> QED
    BY <1>a, <1>b, <1>0, <2>1, PushFrames DEF Pushed
<1>2. TimeInv'
  <2>0. f.kind = "handle" => f.time <= now
    <3>1. 0 <= now
      BY <1>a
    <3>2. f.kind = "handle" => f.time = 0
      BY <1>0
    <3> QED
      BY <3>1, <3>2
  <2>1. Early(f)
    BY <1>0, <2>0 DEF Early
  <2>2. InTime(t)'
    BY <1>a, <1>1, <2>1, EarlyPushed DEF Quit
  <2> QED
    BY <1>a, <1>1, <2>2, TimeStays DEF Quit
<1>3. SendInv'
  <2>1. CalmStack(t)
    BY <1>a, <1>b, <1>0, <1>1, CalmPushed
  <2> QED
    BY <1>a, <1>1, <2>1, CalmKeeps DEF Quit
<1>4. WakeInv'
  <2>1. WakeKept(t)'
    <3>1. ~Waiting(f)
      BY <1>0 DEF Waiting
    <3>2. Steady(t)
      BY <1>a, <1>b, <1>1, <3>1, SteadyPushed
    <3> QED
      BY <1>a, <3>2, SteadyKeeps DEF Quit
  <2>2. WakeSent(t)'
    BY <1>a, <1>0, <1>1 DEF WakeSent, In, Pushed, Top
  <2> QED
    BY <1>a, <1>b, <1>1, <2>1, <2>2, WakeStays DEF Quit, IsWaking
<1> QED
  BY <1>2, <1>3, <1>4

LEMMA SendWakeHolds ==
    ASSUME HInv, NEW t \in Thread, SendWake(t)
    PROVE  TimeInv' /\ SendInv' /\ WakeInv'
<1>b. Depth(t) > 0 /\ Top(t).kind = "send" /\ Top(t).at = "wake"
  BY DEF SendWake, In
<1>a. /\ Stacks /\ TypeOK /\ SendsAreFlagged
      /\ TimeInv /\ SendInv /\ WakeInv
      /\ InTime(t) /\ Depth(t) \in Nat /\ now \in Nat /\ next \in Nat
      /\ Top(t) \in Frame /\ Early(Top(t))
  BY <1>b, Start
<1> DEFINE f == [Top(t) EXCEPT !.at = "check"]
<1>0. /\ f \in Frame /\ f.kind = "send" /\ f.at = "check"
      /\ f.id = Top(t).id /\ f.waited = Top(t).waited /\ Become(t, f)
  BY <1>a, <1>b DEF SendWake, Frame
<1> HIDE DEF f
<1>1. Changed(t, f) /\ Moves(t)
  BY <1>a, <1>b, <1>0, ChangeFrames DEF Changed
<1>2. TimeInv'
  <2>1. InTime(t)'
    BY <1>a, <1>0, <1>1, EarlyChanged DEF SendWake, Early
  <2> QED
    BY <1>a, <1>1, <2>1, TimeStays DEF SendWake
<1>3. SendInv'
  <2>1. CalmStack(t)
    BY <1>a, <1>b, <1>0, <1>1, CalmChanged
  <2> QED
    BY <1>a, <1>1, <2>1, CalmKeeps DEF SendWake
<1>4. WakeInv'
  <2>1. WakeKept(t)'
    <3>1. ~Waiting(f) /\ (HasWaited(Top(t)) => HasWaited(f))
      BY <1>0 DEF Waiting, HasWaited
    <3>2. Steady(t)
      BY <1>a, <1>b, <1>0, <1>1, <3>1, SteadyChanged
    <3> QED
      BY <1>a, <3>2, SteadyKeeps DEF SendWake
  <2>2. WakeSent(t)'
    BY <1>a, <1>0, <1>1 DEF WakeSent, In, Changed, Top
  <2> QED
    BY <1>a, <1>b, <1>1, <2>1, <2>2, WakeStays DEF SendWake, IsWaking
<1> QED
  BY <1>2, <1>3, <1>4

LEMMA SendWaitHolds ==
    ASSUME HInv, NEW t \in Thread, SendWait(t)
    PROVE  TimeInv' /\ SendInv' /\ WakeInv'
<1>b. Depth(t) > 0 /\ Top(t).kind = "send" /\ Top(t).at = "wait"
  BY DEF SendWait, In
<1>a. /\ Stacks /\ TypeOK /\ SendsAreFlagged
      /\ TimeInv /\ SendInv /\ WakeInv
      /\ InTime(t) /\ Depth(t) \in Nat /\ now \in Nat /\ next \in Nat
      /\ Top(t) \in Frame /\ Early(Top(t))
  BY <1>b, Start
<1> DEFINE f == [Top(t) EXCEPT !.at = "check", !.waited = TRUE]
<1>0. /\ f \in Frame /\ f.kind = "send" /\ f.at = "check"
      /\ f.id = Top(t).id /\ HasWaited(f) /\ Become(t, f)
  BY <1>a, <1>b DEF SendWait, Frame, HasWaited
<1> HIDE DEF f
<1>1. Changed(t, f) /\ Moves(t)
  BY <1>a, <1>b, <1>0, ChangeFrames DEF Changed
<1>2. TimeInv'
  <2>1. InTime(t)'
    BY <1>a, <1>0, <1>1, EarlyChanged DEF SendWait, Early
  <2> QED
    BY <1>a, <1>1, <2>1, TimeStays DEF SendWait
<1>3. SendInv'
  <2>1. CalmStack(t)
    BY <1>a, <1>b, <1>0, <1>1, CalmChanged
  <2> QED
    BY <1>a, <1>1, <2>1, CalmKeeps DEF SendWait
<1>4. WakeInv'
  <2>1. WakeKept(t)'
    <3> SUFFICES ASSUME NEW i \in 1 .. Depth(t)', Waiting(stack'[t][i])
                 PROVE  \E j \in i + 1 .. Depth(t)' : HasWaited(stack'[t][j])
      BY DEF WakeKept, Waiting, HasWaited
    <3>1. Depth(t)' = Depth(t) /\ stack'[t][Depth(t)] = f
      BY <1>1 DEF Changed
    <3>2. i # Depth(t)
      BY <1>0, <3>1 DEF Waiting
    <3>3. Depth(t) \in i + 1 .. Depth(t)'
      BY <1>a, <3>1, <3>2
    <3> QED
      BY <1>0, <3>1, <3>3
  <2>2. WakeSent(t)'
    BY <1>a, <1>0, <1>1 DEF WakeSent, In, Changed, Top
  <2> QED
    BY <1>a, <1>b, <1>1, <2>1, <2>2, WakeStays DEF SendWait, IsWaking
<1> QED
  BY <1>2, <1>3, <1>4

LEMMA NextGetHolds ==
    ASSUME HInv, NEW t \in Thread, NextGet(t)
    PROVE  TimeInv' /\ SendInv' /\ WakeInv'
<1>b. Depth(t) = 1 /\ Depth(t) > 0 /\ Top(t).kind = "handle"
  BY DEF NextGet, In
<1>a. /\ Stacks /\ TypeOK /\ SendsAreFlagged
      /\ TimeInv /\ SendInv /\ WakeInv
      /\ InTime(t) /\ Depth(t) \in Nat /\ now \in Nat /\ next \in Nat
      /\ Top(t) \in Frame /\ Early(Top(t))
  BY <1>b, Start
<1> DEFINE f == NewFrame("get", "sends", t, 0, now)
<1>0. /\ f \in Frame /\ f.kind = "get" /\ f.at = "sends" /\ f.time = now
      /\ Become(t, f)
  BY <1>a DEF NextGet, NewFrame, Frame
<1> HIDE DEF f
<1>c. UNCHANGED <<msgq, dmsgq, sendlist, signaled, ready, next, now>>
  BY DEF NextGet, queue_vars
<1>1. Changed(t, f) /\ Moves(t)
  BY <1>a, <1>b, <1>0, AloneFrames DEF Changed
<1>2. TimeInv'
  <2>1. InTime(t)'
    BY <1>a, <1>c, <1>0, <1>1, EarlyChanged DEF Early
  <2> QED
    BY <1>a, <1>1, <2>1, TimeStays DEF NextGet
<1>3. SendInv'
  <2>1. CalmStack(t)
    BY <1>b, <1>0, <1>1, CalmAlone
  <2> QED
    BY <1>a, <1>1, <2>1, CalmKeeps DEF NextGet
<1>4. WakeInv'
  <2>1. WakeKept(t)'
    <3>1. ~Waiting(f)
      BY <1>0 DEF Waiting
    <3>2. Depth(t)' = 1 /\ stack'[t][1] = f
      BY <1>b, <1>1 DEF Changed
    <3> QED
      BY <3>1, <3>2 DEF WakeKept, Waiting
  <2>2. WakeSent(t)'
    BY <1>a, <1>0, <1>1 DEF WakeSent, In, Changed, Top
  <2> QED
    BY <1>a, <1>b, <1>1, <2>1, <2>2, WakeStays DEF NextGet, IsWaking
<1> QED
  BY <1>2, <1>3, <1>4

LEMMA GetWaitHolds ==
    ASSUME HInv, NEW t \in Thread, GetWait(t)
    PROVE  TimeInv' /\ SendInv' /\ WakeInv'
<1>b. Depth(t) > 0 /\ Top(t).kind = "get" /\ Top(t).at = "wait"
  BY DEF GetWait, In
<1>a. /\ Stacks /\ TypeOK /\ SendsAreFlagged
      /\ TimeInv /\ SendInv /\ WakeInv
      /\ InTime(t) /\ Depth(t) \in Nat /\ now \in Nat /\ next \in Nat
      /\ Top(t) \in Frame /\ Early(Top(t))
  BY <1>b, Start
<1> DEFINE f == NewFrame("get", "sends", t, 0, now)
<1>0. /\ f \in Frame /\ f.kind = "get" /\ f.at = "sends" /\ f.time = now
      /\ Become(t, f)
  BY <1>a DEF GetWait, NewFrame, Frame
<1> HIDE DEF f
<1>1. Changed(t, f) /\ Moves(t)
  BY <1>a, <1>b, <1>0, ChangeFrames DEF Changed
<1>2. TimeInv'
  <2>1. InTime(t)'
    BY <1>a, <1>0, <1>1, EarlyChanged DEF GetWait, Early
  <2> QED
    BY <1>a, <1>1, <2>1, TimeStays DEF GetWait
<1>3. SendInv'
  <2>1. CalmStack(t)
    BY <1>a, <1>b, <1>0, <1>1, CalmChanged
  <2> QED
    BY <1>a, <1>1, <2>1, CalmKeeps DEF GetWait
<1>4. WakeInv'
  <2>1. WakeKept(t)'
    <3>1. Depth(t) = 1
      BY <1>a, <1>b, TopNested DEF Nested
    <3>2. ~Waiting(f)
      BY <1>0 DEF Waiting
    <3>3. Depth(t)' = 1 /\ stack'[t][1] = f
      BY <1>1, <3>1 DEF Changed
    <3> QED
      BY <3>2, <3>3 DEF WakeKept, Waiting
  <2>2. WakeSent(t)'
    BY <1>a, <1>0, <1>1 DEF WakeSent, In, Changed, Top
  <2> QED
    BY <1>a, <1>b, <1>1, <2>1, <2>2, WakeStays DEF GetWait, IsWaking
<1> QED
  BY <1>2, <1>3, <1>4

LEMMA GetStopHolds ==
    ASSUME HInv, NEW t \in Thread, GetStop(t)
    PROVE  TimeInv' /\ SendInv' /\ WakeInv'
<1>b. Depth(t) > 0 /\ Top(t).kind = "get" /\ Top(t).at = "stop"
  BY DEF GetStop, In
<1>a. /\ Stacks /\ TypeOK /\ SendsAreFlagged
      /\ TimeInv /\ SendInv /\ WakeInv
      /\ InTime(t) /\ Depth(t) \in Nat /\ now \in Nat /\ next \in Nat
      /\ Top(t) \in Frame /\ Early(Top(t))
  BY <1>b, Start
<1> DEFINE f == [Top(t) EXCEPT !.at = "wait",
                          !.time = IF @ = 0 THEN 0 ELSE now + @]
<1>0. /\ f \in Frame /\ f.kind = "get" /\ f.at = "wait"
      /\ Pop(t) \/ Become(t, f)
  <2>1. Top(t).time \in Nat /\ Top(t).waited \in BOOLEAN
    BY <1>a DEF Frame
  <2>2. (IF Top(t).time = 0 THEN 0 ELSE now + Top(t).time) \in Nat
    BY <1>a, <2>1
  <2>3. f \in Frame /\ f.kind = "get" /\ f.at = "wait"
    BY <1>a, <1>b, <2>2 DEF Frame
  <2> QED
    BY <2>3 DEF GetStop
<1> HIDE DEF f
<1>c. Popped(t) \/ Changed(t, f)
  BY <1>a, <1>b, <1>0, PopFrames, ChangeFrames
<1>1. Moves(t)
  BY <1>c DEF Popped, Changed
<1>2. TimeInv'
  <2>1. InTime(t)'
    BY <1>a, <1>0, <1>c, EarlyPopped, EarlyChanged DEF GetStop, Early
  <2> QED
    BY <1>a, <1>1, <2>1, TimeStays DEF GetStop
<1>3. SendInv'
  <2>1. CalmStack(t)
    <3>1. ~Serves(t, Depth(t))
      BY <1>b DEF Serves, Top
    <3> QED
      BY <1>a, <1>b, <1>0, <1>c, <3>1, CalmPopped, CalmChanged
  <2> QED
    BY <1>a, <1>1, <2>1, CalmKeeps DEF GetStop
<1>4. WakeInv'
  <2>1. WakeKept(t)'
    <3>1. ~Waiting(f) /\ ~HasWaited(Top(t))
      BY <1>b, <1>0 DEF Waiting, HasWaited
    <3>2. Steady(t)
      BY <1>a, <1>b, <1>0, <1>c, <3>1, SteadyPopped, SteadyChanged
    <3> QED
      BY <1>a, <3>2, SteadyKeeps DEF GetStop
  <2>2. WakeSent(t)'
    <3>1. CASE Popped(t)
      BY <1>a, <1>b, <3>1, NotSentPopped
    <3>2. CASE Changed(t, f)
      BY <1>a, <1>0, <3>2 DEF WakeSent, In, Changed, Top
    <3> QED
      BY <1>c, <3>1, <3>2
  <2> QED
    BY <1>a, <1>b, <1>1, <2>1, <2>2, WakeStays DEF GetStop, IsWaking
<1> QED
  BY <1>2, <1>3, <1>4
-----------------------------------------------------------------------------
(* Actions that make, list, serve or answer a Send.                        *)

LEMMA SendHolds ==
    ASSUME HInv, NEW t \in Thread, NEW u \in Thread, Send(t, u)
    PROVE  TimeInv' /\ SendInv' /\ WakeInv'
<1>b. Depth(t) > 0 /\ Top(t).kind = "handle" /\ Top(t).at = ""
  BY DEF Send, In
<1>a. /\ Stacks /\ TypeOK /\ SendsAreFlagged
      /\ TimeInv /\ SendInv /\ WakeInv
      /\ InTime(t) /\ Depth(t) \in Nat /\ now \in Nat /\ next \in Nat
      /\ Top(t) \in Frame /\ Early(Top(t))
  BY <1>b, Start
<1> DEFINE f == NewFrame("send", "queue", u, next, 0)
<1>0. /\ f \in Frame /\ f.kind = "send" /\ f.at = "queue" /\ f.id = next
      /\ stack' = [stack EXCEPT ![t] = Append(@, f)]
  BY <1>a DEF Send, NewFrame, Frame
<1> HIDE DEF f
<1>1. Pushed(t, f) /\ Moves(t)
  <2>1. Nested(Top(t), f)
    BY <1>b, <1>0 DEF Nested
  <2> QED
    BY <1>a, <1>b, <1>0, <2>1, PushFrames DEF Pushed
<1>2. TimeInv'
  <2>1. InTime(t)'
    BY <1>a, <1>0, <1>1, EarlyPushed DEF Send, Early
  <2> QED
    BY <1>a, <1>1, <2>1, TimeStays DEF Send
<1>3. SendInv'
  <2>1. \A n \in Nat : Sends(t, n)' <=> Sends(t, n) \/ n = next
    <3>1. /\ \A i \in 1 .. Depth(t) : stack'[t][i] = stack[t][i]
          /\ Depth(t)' = Depth(t) + 1 /\ stack'[t][Depth(t) + 1] = f
      BY <1>1 DEF Pushed, Kept
    <3>2. ASSUME NEW n \in Nat, Sends(t, n)' PROVE Sends(t, n) \/ n = next
      <4>1. PICK i \in 1 .. Depth(t)' : SendsAt(t, i, n)'
        BY <3>2 DEF Sends
      <4>2. CASE i = Depth(t) + 1
        BY <1>0, <3>1, <4>1, <4>2 DEF SendsAt
      <4>3. CASE i # Depth(t) + 1
        <5>1. i \in 1 .. Depth(t)
          BY <1>a, <3>1, <4>3
        <5> QED
          BY <3>1, <4>1, <5>1 DEF Sends, SendsAt
      <4> QED
        BY <4>2, <4>3
    <3>3. ASSUME NEW n \in Nat, Sends(t, n) PROVE Sends(t, n)'
      <4>1. PICK i \in 1 .. Depth(t) : SendsAt(t, i, n)
        BY <3>3 DEF Sends
      <4>2. i \in 1 .. Depth(t)' /\ SendsAt(t, i, n)'
        BY <1>a, <3>1, <4>1 DEF SendsAt
      <4> QED
        BY <4>2 DEF Sends
    <3>4. ASSUME NEW n \in Nat, n = next PROVE Sends(t, n)'
      <4>1. Depth(t) + 1 \in 1 .. Depth(t)'
        BY <1>a, <3>1
      <4> QED
        BY <1>0, <3>1, <3>4, <4>1 DEF Sends, SendsAt
    <3> QED
      BY <3>2, <3>3, <3>4
  <2>2. \A n \in Nat : Queueing(t, n)' => n = next
    BY <1>a, <1>0, <1>1 DEF Queueing, In, Pushed, Top
  <2>3. SameServed(t)
    <3>1. /\ \A i \in 1 .. Depth(t) : stack'[t][i] = stack[t][i]
          /\ Depth(t)' = Depth(t) + 1 /\ stack'[t][Depth(t) + 1] = f
      BY <1>1 DEF Pushed, Kept
    <3> SUFFICES ASSUME NEW i \in Nat
                 PROVE  /\ Serves(t, i)' <=> Serves(t, i)
                        /\ Serves(t, i) =>
                               /\ stack'[t][i].peer = stack[t][i].peer
                               /\ stack'[t][i].id = stack[t][i].id
      BY DEF SameServed
    <3>2. CASE i \in 2 .. Depth(t)
      <4>1. i \in 1 .. Depth(t) /\ i - 1 \in 1 .. Depth(t)
            /\ i \in 2 .. Depth(t)'
        BY <1>a, <3>1, <3>2
      <4> QED
        BY <3>1, <3>2, <4>1 DEF Serves
    <3>3. CASE i \notin 2 .. Depth(t)
      <4>1. i \in 2 .. Depth(t)' => i = Depth(t) + 1
        BY <1>a, <3>1, <3>3
      <4> QED
        BY <1>0, <3>1, <3>3, <4>1 DEF Serves
    <3> QED
      BY <3>2, <3>3
  <2>4. /\ \A v \in Thread : \A n \in Nat :
               /\ Sends(v, n)' <=> Sends(v, n) \/ (v = t /\ n = next)
               /\ Queueing(v, n)' => Queueing(v, n) \/ n = next
        /\ \A v \in Thread : \A i \in Nat :
               /\ Serves(v, i)' <=> Serves(v, i)
               /\ Serves(v, i) => /\ stack'[v][i].peer = stack[v][i].peer
                                  /\ stack'[v][i].id = stack[v][i].id
    BY <1>1, <2>1, <2>2, <2>3, OthersSame DEF SameServed
  <2>5. UNCHANGED <<sendlist, ready>> /\ next' = next + 1
    BY DEF Send
  <2>6. \A v \in Thread : \A n \in Nat : Sends(v, n) => n < next
    BY <1>a DEF SendInv, Fresh
  <2>7. \A v \in Thread : \A n \in Nat : Waits(v, n) => Waits(v, n)'
    BY <1>a, <2>4, <2>5, <2>6 DEF Waits
  <2>8. \A v \in Thread : \A i : Serves(v, i) => i \in 1 .. Depth(v) /\ i \in Nat
    BY <1>a, Typed DEF Serves
  <2>9. Fresh'
    BY <1>a, <2>4, <2>5, <2>6, Typed DEF SendInv, Fresh
  <2>10. Own'
    BY <1>a, <2>4, <2>6 DEF SendInv, Own
  <2>11. NotYet'
    BY <1>a, <2>4, <2>5, Typed DEF SendInv, NotYet, Fresh
  <2>12. ListedWait'
    BY <1>a, <2>5, <2>7, Typed DEF SendInv, ListedWait
  <2>13. ServedWait'
    <3>1. ServedWait
      BY <1>a DEF SendInv
    <3> QED
      BY <1>a, <2>4, <2>7, <3>1, ServedWaitStays
  <2>14. ListedOnce'
    BY <1>a, <2>5 DEF SendInv, ListedOnce
  <2>15. ServedOnce'
    BY <1>a, <2>4, <2>8 DEF SendInv, ServedOnce
  <2>16. ServedOrListed'
    BY <1>a, <2>4, <2>5, <2>8 DEF SendInv, ServedOrListed
  <2> QED
    BY <2>9, <2>10, <2>11, <2>12, <2>13, <2>14, <2>15, <2>16 DEF SendInv
<1>4. WakeInv'
  <2>1. WakeKept(t)'
    <3>1. Steady(t)
      BY <1>a, <1>b, <1>0, <1>1, SteadyPushed DEF Waiting
    <3> QED
      BY <1>a, <3>1, SteadyKeeps DEF Send
  <2>2. WakeSent(t)'
    BY <1>a, <1>0, <1>1 DEF WakeSent, In, Pushed, Top
  <2> QED
    BY <1>a, <1>b, <1>1, <2>1, <2>2, WakeStays DEF Send, IsWaking
<1> QED
  BY <1>2, <1>3, <1>4

LEMMA SendQueueHolds ==
    ASSUME HInv, NEW t \in Thread, SendQueue(t)
    PROVE  TimeInv' /\ SendInv' /\ WakeInv'
<1>b. Depth(t) > 0 /\ Top(t).kind = "send" /\ Top(t).at = "queue"
  BY DEF SendQueue, In
<1>a. /\ Stacks /\ TypeOK /\ SendsAreFlagged
      /\ TimeInv /\ SendInv /\ WakeInv
      /\ InTime(t) /\ Depth(t) \in Nat /\ now \in Nat /\ next \in Nat
      /\ Top(t) \in Frame /\ Early(Top(t))
  BY <1>b, Start
<1> DEFINE f == [Top(t) EXCEPT !.at = "wake"]
<1>0. /\ f \in Frame /\ f.kind = "send" /\ f.at = "wake"
      /\ f.peer = Top(t).peer
      /\ f.id = Top(t).id /\ f.waited = Top(t).waited /\ Become(t, f)
  BY <1>a, <1>b DEF SendQueue, Frame
<1>c. PICK u \in Thread, s \in SendMessage, k \in Nat :
        /\ u = Top(t).peer /\ k = Top(t).id
        /\ s.id = k /\ s.from = t
        /\ sendlist' = [sendlist EXCEPT ![u] = Append(@, s)]
        /\ UNCHANGED <<msgq, dmsgq, fStop, signaled, ready, next, now>>
  <2> DEFINE l == Top(t).peer \in fStop
  <2>0. l \in BOOLEAN
    OBVIOUS
  <2>1. Top(t).peer \in Thread /\ Top(t).id \in Nat
    BY <1>a DEF Frame
  <2>2. sendlist' = [sendlist EXCEPT ![Top(t).peer] =
                        Append(@, [id |-> Top(t).id, from |-> t, late |-> l])]
    BY DEF SendQueue
  <2> HIDE DEF l
  <2>3. [id |-> Top(t).id, from |-> t, late |-> l] \in SendMessage
    BY <2>0, <2>1 DEF SendMessage
  <2> QED
    BY <2>1, <2>2, <2>3 DEF SendQueue
<1> HIDE DEF f
<1>1. Changed(t, f) /\ Moves(t)
  BY <1>a, <1>b, <1>0, ChangeFrames DEF Changed
<1>2. TimeInv'
  <2>1. InTime(t)'
    BY <1>a, <1>0, <1>1, <1>c, EarlyChanged DEF Early
  <2> QED
    BY <1>a, <1>1, <1>c, <2>1, TimeStays
<1>3. SendInv'
  <2>0. CalmStack(t)
    BY <1>a, <1>b, <1>0, <1>1, CalmChanged
  <2>1. /\ \A v \in Thread : \A n \in Nat :
               /\ Sends(v, n)' <=> Sends(v, n)
               /\ Queueing(v, n)' => v # t /\ Queueing(v, n)
        /\ \A v \in Thread : \A i \in Nat :
               /\ Serves(v, i)' <=> Serves(v, i)
               /\ Serves(v, i) => /\ stack'[v][i].peer = stack[v][i].peer
                                  /\ stack'[v][i].id = stack[v][i].id
    BY <1>1, <2>0, OthersSame DEF CalmStack, SameSends, SameServed, NotQueueing
  <2>2. \A v \in Thread : \A n \in Nat : Waits(v, n) => Waits(v, n)'
    BY <1>c, <2>1 DEF Waits
  <2>3. \A v \in Thread : \A i : Serves(v, i) => i \in 1 .. Depth(v) /\ i \in Nat
    BY <1>a, Typed DEF Serves
  \* No thread waited for this Send so far.
  <2>4. Queueing(t, k) /\ Sends(t, k) /\ k \notin ready
    <3>1. Queueing(t, k)
      BY <1>b, <1>c DEF Queueing, In
    <3>2. Depth(t) \in 1 .. Depth(t)
      BY <1>a, <1>b
    <3> QED
      BY <1>a, <1>b, <1>c, <3>1, <3>2 DEF Sends, SendsAt, Top, SendInv, NotYet
  <2>5. \A v \in Thread : ~Waits(v, k)
    BY <1>a, <1>c, <2>4 DEF Waits, SendInv, Own
  <2>6. Waits(t, k)'
    BY <1>c, <2>1, <2>4 DEF Waits
  <2>7. /\ sendlist'[u] = Append(sendlist[u], s)
        /\ \A v \in Thread \ {u} : sendlist'[v] = sendlist[v]
        /\ sendlist[u] \in Seq(SendMessage)
    BY <1>a, <1>c DEF TypeOK
  <2>8. /\ Len(sendlist'[u]) = Len(sendlist[u]) + 1
        /\ sendlist'[u][Len(sendlist[u]) + 1] = s
        /\ \A i \in 1 .. Len(sendlist[u]) : sendlist'[u][i] = sendlist[u][i]
    BY <2>7
  \* Each place of a list is an old one or the new one.
  <2>9. \A v \in Thread : \A i \in 1 .. Len(sendlist'[v]) :
            \/ i \in 1 .. Len(sendlist[v]) /\ sendlist'[v][i] = sendlist[v][i]
            \/ v = u /\ i = Len(sendlist[u]) + 1 /\ sendlist'[v][i] = s
    <3> SUFFICES ASSUME NEW v \in Thread, NEW i \in 1 .. Len(sendlist'[v])
                 PROVE  \/ /\ i \in 1 .. Len(sendlist[v])
                           /\ sendlist'[v][i] = sendlist[v][i]
                        \/ /\ v = u /\ i = Len(sendlist[u]) + 1
                           /\ sendlist'[v][i] = s
      OBVIOUS
    <3>1. CASE v = u
      <4>1. Len(sendlist[u]) \in Nat
        BY <2>7
      <4> QED
        BY <2>8, <3>1, <4>1
    <3>2. CASE v # u
      BY <2>7, <3>2
    <3> QED
      BY <3>1, <3>2
  <2>10. \A v \in Thread : \A i \in 1 .. Len(sendlist[v]) :
            /\ sendlist[v][i].id \in Nat /\ sendlist[v][i].from \in Thread
            /\ sendlist[v][i].id # k
    BY <1>a, <2>5, Typed DEF SendInv, ListedWait
  <2>11. \A v \in Thread : \A i \in 1 .. Depth(v) :
            Serves(v, i) => stack[v][i].id # k
    BY <1>a, <2>5, Typed DEF SendInv, ServedWait
  <2>12. Fresh' /\ Own' /\ NotYet'
    BY <1>a, <1>c, <2>1, Typed DEF SendInv, Fresh, Own, NotYet
  <2>13. ListedWait'
    <3> SUFFICES ASSUME NEW v \in Thread, NEW i \in 1 .. Len(sendlist'[v])
                 PROVE  Waits(sendlist[v][i].from, sendlist[v][i].id)'
      BY DEF ListedWait
    <3> QED
      BY <1>a, <1>c, <2>2, <2>6, <2>9, <2>10 DEF SendInv, ListedWait
  <2>14. ServedWait'
    <3>1. ServedWait
      BY <1>a DEF SendInv
    <3> QED
      BY <1>a, <2>1, <2>2, <3>1, ServedWaitStays
  <2>15. ListedOnce'
    <3> SUFFICES ASSUME NEW v \in Thread, NEW w \in Thread,
                        NEW i \in 1 .. Len(sendlist'[v]),
                        NEW j \in 1 .. Len(sendlist'[w]),
                        sendlist'[v][i].id = sendlist'[w][j].id
                 PROVE  v = w /\ i = j
      BY DEF ListedOnce
    <3>1. \A x, y \in Thread :
              \A a \in 1 .. Len(sendlist[x]), b \in 1 .. Len(sendlist[y]) :
                  sendlist[x][a].id = sendlist[y][b].id => x = y /\ a = b
      BY <1>a DEF SendInv, ListedOnce
    <3>2. CASE i \in 1 .. Len(sendlist[v])
               /\ sendlist'[v][i] = sendlist[v][i]
      <4>1. sendlist'[w][j].id # k
        BY <2>10, <3>2
      <4>2. /\ j \in 1 .. Len(sendlist[w])
            /\ sendlist'[w][j] = sendlist[w][j]
        BY <1>c, <2>9, <4>1
      <4> QED
        BY <3>1, <3>2, <4>2
    <3>3. CASE v = u /\ i = Len(sendlist[u]) + 1 /\ sendlist'[v][i] = s
      <4>1. sendlist'[w][j].id = k
        BY <1>c, <3>3
      <4> QED
        BY <2>9, <2>10, <3>3, <4>1
    <3> QED
      BY <2>9, <3>2, <3>3
  <2>16. ServedOnce'
    BY <1>a, <2>1, <2>3 DEF SendInv, ServedOnce
  <2>17. ServedOrListed'
    <3> SUFFICES ASSUME NEW v \in Thread, NEW w \in Thread,
                        NEW i \in 1 .. Depth(v)', Serves(v, i)',
                        NEW j \in 1 .. Len(sendlist[w])'
                 PROVE  stack'[v][i].id # sendlist'[w][j].id
      BY DEF ServedOrListed
    <3>1. i \in Nat /\ Serves(v, i)
      BY <2>1
    <3>2. i \in 1 .. Depth(v) /\ stack'[v][i].id = stack[v][i].id
      BY <2>1, <2>3, <3>1
    <3>3. stack[v][i].id # k
      BY <2>11, <3>1, <3>2
    <3>4. \A a \in 1 .. Len(sendlist[w]) : stack[v][i].id # sendlist[w][a].id
      BY <1>a, <3>1, <3>2 DEF SendInv, ServedOrListed
    <3> QED
      BY <1>c, <2>9, <3>2, <3>3, <3>4
  <2> QED
    BY <2>12, <2>13, <2>14, <2>15, <2>16, <2>17 DEF SendInv
<1>4. WakeInv'
  <2>1. WakeKept(t)'
    <3>1. ~Waiting(f) /\ (HasWaited(Top(t)) => HasWaited(f))
      BY <1>0 DEF Waiting, HasWaited
    <3>2. Steady(t)
      BY <1>a, <1>b, <1>0, <1>1, <3>1, SteadyChanged
    <3> QED
      BY <1>a, <1>c, <3>2, SteadyKeeps
  <2>2. WakeSent(t)'
    BY <1>a, <1>0, <1>1 DEF WakeSent, In, Changed, Top
  <2>3. IsWaking(t, u)'
    BY <1>a, <1>b, <1>0, <1>1, <1>c DEF IsWaking, Changed, Top
  <2>4. \A v \in Thread \ {u} : sendlist'[v] = sendlist[v]
    BY <1>a, <1>c DEF TypeOK
  <2> QED
    BY <1>a, <1>b, <1>c, <1>1, <2>1, <2>2, <2>3, <2>4, WakeStays DEF IsWaking
<1> QED
  BY <1>2, <1>3, <1>4

LEMMA ReceiveOneHolds ==
    ASSUME HInv, NEW t \in Thread, ReceiveOne(t)
    PROVE  TimeInv' /\ SendInv' /\ WakeInv'
<1>b. Depth(t) > 0 /\ Top(t).kind = "receive" /\ Top(t).at = ""
  BY DEF ReceiveOne, In
<1>a. /\ Stacks /\ TypeOK /\ SendsAreFlagged
      /\ TimeInv /\ SendInv /\ WakeInv
      /\ InTime(t) /\ Depth(t) \in Nat /\ now \in Nat /\ next \in Nat
      /\ Top(t) \in Frame /\ Early(Top(t))
  BY <1>b, Start
<1>s. /\ sendlist[t] \in Seq(SendMessage) /\ sendlist[t] # <<>>
      /\ Len(sendlist[t]) \in Nat /\ Len(sendlist[t]) > 0
  <2>1. sendlist[t] \in Seq(SendMessage) /\ sendlist[t] # <<>>
    BY <1>a DEF ReceiveOne, TypeOK
  <2> QED
    BY <2>1
<1>c. PICK p \in Thread, k \in Nat :
        /\ p = sendlist[t][1].from /\ k = sendlist[t][1].id
        /\ stack' = [stack EXCEPT ![t] =
                        Append(@, NewFrame("handle", "", p, k, 0))]
  <2>1. Head(sendlist[t]) = sendlist[t][1] /\ sendlist[t][1] \in SendMessage
    BY <1>s
  <2> QED
    BY <2>1 DEF ReceiveOne, SendMessage
<1> DEFINE f == NewFrame("handle", "", p, k, 0)
<1>0. /\ f \in Frame /\ f.kind = "handle" /\ f.at = "" /\ f.time = 0
      /\ f.peer = p /\ f.id = k
      /\ stack' = [stack EXCEPT ![t] = Append(@, f)]
  BY <1>c DEF NewFrame, Frame
<1> HIDE DEF f
<1>1. Pushed(t, f) /\ Moves(t)
  <2>1. Nested(Top(t), f)
    BY <1>b, <1>0 DEF Nested
  <2> QED
    BY <1>a, <1>b, <1>0, <2>1, PushFrames DEF Pushed
<1>d. /\ Depth(t)' = Depth(t) + 1 /\ stack'[t][Depth(t) + 1] = f
      /\ \A i \in 1 .. Depth(t) : stack'[t][i] = stack[t][i]
  BY <1>1 DEF Pushed, Kept
<1>2. TimeInv'
  <2>0. 0 <= now
    BY <1>a
  <2>1. Early(f)
    BY <1>0, <2>0 DEF Early
  <2>2. InTime(t)'
    BY <1>a, <1>1, <2>1, EarlyPushed DEF ReceiveOne
  <2> QED
    BY <1>a, <1>1, <2>2, TimeStays DEF ReceiveOne
<1>3. SendInv'
  <2>0. UNCHANGED <<ready, next>> /\ sendlist' = [sendlist EXCEPT ![t] = Tail(@)]
    BY DEF ReceiveOne
  <2>1. SameSends(t)
    BY <1>a, <1>b, <1>0, <1>1, SendsPushed
  <2>2. NotQueueing(t)
    BY <1>a, <1>0, <1>d DEF NotQueueing, Queueing, In, Top
  <2>3. \A i \in Nat :
            /\ Serves(t, i)' <=> Serves(t, i) \/ i = Depth(t) + 1
            /\ Serves(t, i) => stack'[t][i] = stack[t][i]
    <3> SUFFICES ASSUME NEW i \in Nat
                 PROVE  /\ Serves(t, i)' <=> Serves(t, i) \/ i = Depth(t) + 1
                        /\ Serves(t, i) => stack'[t][i] = stack[t][i]
      OBVIOUS
    <3>1. CASE i \in 2 .. Depth(t)
      <4>1. i \in 1 .. Depth(t) /\ i - 1 \in 1 .. Depth(t)
            /\ i \in 2 .. Depth(t)' /\ i # Depth(t) + 1
        BY <1>a, <1>d, <3>1
      <4> QED
        BY <1>d, <3>1, <4>1 DEF Serves
    <3>2. CASE i = Depth(t) + 1
      <4>1. i \in 2 .. Depth(t)' /\ i - 1 = Depth(t) /\ i \notin 2 .. Depth(t)
            /\ Depth(t) \in 1 .. Depth(t)
        <5>1. Depth(t) \in Nat /\ Depth(t) > 0
          BY <1>a, <1>b
        <5> QED
          BY <5>1, <1>d, <3>2
      <4> QED
        BY <1>b, <1>0, <1>d, <3>2, <4>1 DEF Serves, Top
    <3>3. CASE i \notin 2 .. Depth(t) /\ i # Depth(t) + 1
      <4>1. i \notin 2 .. Depth(t)'
        BY <1>a, <1>d, <3>3
      <4> QED
        BY <3>3, <4>1 DEF Serves
    <3> QED
      BY <3>1, <3>2, <3>3
  \* What is served is what was, or the Send that was the first listed.
  <2>4. \A v \in Thread : \A i \in 1 .. Depth(v)' :
            Serves(v, i)' =>
                \/ /\ i \in 1 .. Depth(v) /\ Serves(v, i)
                   /\ stack'[v][i].peer = stack[v][i].peer
                   /\ stack'[v][i].id = stack[v][i].id
                \/ v = t /\ i = Depth(t) + 1 /\ stack'[v][i] = f
    <3> SUFFICES ASSUME NEW v \in Thread, NEW i \in 1 .. Depth(v)', Serves(v, i)'
                 PROVE  \/ /\ i \in 1 .. Depth(v) /\ Serves(v, i)
                           /\ stack'[v][i].peer = stack[v][i].peer
                           /\ stack'[v][i].id = stack[v][i].id
                        \/ v = t /\ i = Depth(t) + 1 /\ stack'[v][i] = f
      OBVIOUS
    <3>1. CASE v = t
      BY <1>a, <1>d, <2>3, <3>1
    <3>2. CASE v # t
      BY <1>1, <3>2, OthersSame
    <3> QED
      BY <3>1, <3>2
  <2>5. \A v \in Thread : \A n \in Nat :
            /\ Sends(v, n)' <=> Sends(v, n)
            /\ Queueing(v, n)' => Queueing(v, n)
            /\ Waits(v, n) => Waits(v, n)'
    BY <1>1, <2>0, <2>1, <2>2, OthersSame DEF SameSends, NotQueueing, Waits
  \* What is listed was, behind the first.
  <2>6. \A v \in Thread : \A i \in 1 .. Len(sendlist'[v]) :
            LET j == IF v = t THEN i + 1 ELSE i
            IN  /\ j \in 1 .. Len(sendlist[v])
                /\ sendlist'[v][i] = sendlist[v][j]
    <3>1. /\ sendlist'[t] = Tail(sendlist[t])
          /\ \A v \in Thread \ {t} : sendlist'[v] = sendlist[v]
      BY <1>a, <2>0 DEF TypeOK
    <3>2. \A i \in 1 .. Len(Tail(sendlist[t])) :
              i + 1 \in 1 .. Len(sendlist[t])
              /\ Tail(sendlist[t])[i] = sendlist[t][i + 1]
      BY <1>s
    <3> QED
      BY <3>1, <3>2
  <2>7. 1 \in 1 .. Len(sendlist[t]) /\ Waits(p, k)
    <3>1. 1 \in 1 .. Len(sendlist[t])
      BY <1>s
    <3> QED
      BY <1>a, <1>c, <3>1 DEF SendInv, ListedWait
  <2>8. /\ \A v \in Thread : \A i \in 1 .. Depth(v) :
               Serves(v, i) => stack[v][i].id # k
        /\ \A v \in Thread : \A i \in 1 .. Len(sendlist[v]) :
               sendlist[v][i].id = k => v = t /\ i = 1
    <3>1. /\ \A v \in Thread : \A i \in 1 .. Depth(v) :
                 Serves(v, i) => stack[v][i].id # sendlist[t][1].id
      BY <1>a, <2>7 DEF SendInv, ServedOrListed
    <3>2. \A v \in Thread : \A i \in 1 .. Len(sendlist[v]) :
                 sendlist[v][i].id = sendlist[t][1].id => v = t /\ i = 1
      BY <1>a, <2>7 DEF SendInv, ListedOnce
    <3> QED
      BY <1>c, <3>1, <3>2
  <2>9. Fresh' /\ Own' /\ NotYet'
    BY <1>a, <2>0, <2>5, Typed DEF SendInv, Fresh, Own, NotYet
  <2>10. ListedWait'
    <3> SUFFICES ASSUME NEW v \in Thread, NEW i \in 1 .. Len(sendlist[v])'
                 PROVE  Waits(sendlist[v][i].from, sendlist[v][i].id)'
      BY DEF ListedWait
    <3>1. PICK j \in 1 .. Len(sendlist[v]) : sendlist'[v][i] = sendlist[v][j]
      BY <2>6
    <3> QED
      BY <1>a, <2>5, <3>1, Typed DEF SendInv, ListedWait
  <2>11. ServedWait'
    <3> SUFFICES ASSUME NEW v \in Thread, NEW i \in 1 .. Depth(v)', Serves(v, i)'
                 PROVE  Waits(stack[v][i].peer, stack[v][i].id)'
      BY DEF ServedWait
    <3>1. CASE v = t /\ i = Depth(t) + 1 /\ stack'[v][i] = f
      BY <1>0, <2>5, <2>7, <3>1
    <3>2. CASE /\ i \in 1 .. Depth(v) /\ Serves(v, i)
               /\ stack'[v][i].peer = stack[v][i].peer
               /\ stack'[v][i].id = stack[v][i].id
      BY <1>a, <2>5, <3>2, Typed DEF SendInv, ServedWait
    <3> QED
      BY <2>4, <3>1, <3>2
  <2>12. ListedOnce'
    <3> SUFFICES ASSUME NEW v \in Thread, NEW w \in Thread,
                        NEW i \in 1 .. Len(sendlist[v])',
                        NEW j \in 1 .. Len(sendlist[w])',
                        sendlist'[v][i].id = sendlist'[w][j].id
                 PROVE  v = w /\ i = j
      BY DEF ListedOnce
    <3> DEFINE a == IF v = t THEN i + 1 ELSE i
               b == IF w = t THEN j + 1 ELSE j
    <3>1. /\ a \in 1 .. Len(sendlist[v]) /\ sendlist'[v][i] = sendlist[v][a]
          /\ b \in 1 .. Len(sendlist[w]) /\ sendlist'[w][j] = sendlist[w][b]
      BY <2>6
    <3>2. v = w /\ a = b
      BY <1>a, <3>1 DEF SendInv, ListedOnce
    <3> QED
      BY <1>a, <3>2, Typed
  <2>13. ServedOnce'
    <3> SUFFICES ASSUME NEW v \in Thread, NEW w \in Thread,
                        NEW i \in 1 .. Depth(v)', NEW j \in 1 .. Depth(w)',
                        Serves(v, i)', Serves(w, j)',
                        stack'[v][i].id = stack'[w][j].id
                 PROVE  v = w /\ i = j
      BY DEF ServedOnce
    <3>1. \/ /\ i \in 1 .. Depth(v) /\ Serves(v, i)
             /\ stack'[v][i].id = stack[v][i].id /\ stack[v][i].id # k
          \/ v = t /\ i = Depth(t) + 1 /\ stack'[v][i].id = k
      BY <1>0, <2>4, <2>8
    <3>2. \/ /\ j \in 1 .. Depth(w) /\ Serves(w, j)
             /\ stack'[w][j].id = stack[w][j].id /\ stack[w][j].id # k
          \/ w = t /\ j = Depth(t) + 1 /\ stack'[w][j].id = k
      BY <1>0, <2>4, <2>8
    <3> QED
      BY <1>a, <3>1, <3>2 DEF SendInv, ServedOnce
  <2>14. ServedOrListed'
    <3> SUFFICES ASSUME NEW v \in Thread, NEW w \in Thread,
                        NEW i \in 1 .. Depth(v)', Serves(v, i)',
                        NEW j \in 1 .. Len(sendlist[w])'
                 PROVE  stack'[v][i].id # sendlist'[w][j].id
      BY DEF ServedOrListed
    <3> DEFINE b == IF w = t THEN j + 1 ELSE j
    <3>1. b \in 1 .. Len(sendlist[w]) /\ sendlist'[w][j] = sendlist[w][b]
      BY <2>6
    <3>2. sendlist[w][b].id # k
      <4>1. ~(w = t /\ b = 1)
        BY <1>a, Typed
      <4> QED
        BY <2>8, <3>1, <4>1
    <3>3. CASE v = t /\ i = Depth(t) + 1 /\ stack'[v][i] = f
      BY <1>0, <3>1, <3>2, <3>3
    <3>4. CASE /\ i \in 1 .. Depth(v) /\ Serves(v, i)
               /\ stack'[v][i].id = stack[v][i].id
      BY <1>a, <3>1, <3>4 DEF SendInv, ServedOrListed
    <3> QED
      BY <2>4, <3>3, <3>4
  <2> QED
    BY <2>9, <2>10, <2>11, <2>12, <2>13, <2>14 DEF SendInv
<1>4. WakeInv'
  <2>1. WakeKept(t)'
    <3>1. ~Waiting(f)
      BY <1>0 DEF Waiting
    <3>2. Steady(t)
      BY <1>a, <1>b, <1>1, <3>1, SteadyPushed
    <3> QED
      BY <1>a, <3>2, SteadyKeeps DEF ReceiveOne
  <2>2. WakeSent(t)'
    BY <1>a, <1>0, <1>d DEF WakeSent, In, Top
  <2>3. \A v \in Thread \ {t} : sendlist'[v] = sendlist[v]
    BY <1>a DEF ReceiveOne, TypeOK
  <2> QED
    BY <1>a, <1>b, <1>1, <2>1, <2>2, <2>3, WakeStays DEF ReceiveOne, IsWaking
<1> QED
  BY <1>2, <1>3, <1>4

LEMMA HandlerReturnsHolds ==
    ASSUME HInv, NEW t \in Thread, HandlerReturns(t)
    PROVE  TimeInv' /\ SendInv' /\ WakeInv'
<1>b. Depth(t) > 1 /\ Depth(t) > 0 /\ Top(t).kind = "handle" /\ Top(t).at = ""
  BY DEF HandlerReturns, In
<1>a. /\ Stacks /\ TypeOK /\ SendsAreFlagged
      /\ TimeInv /\ SendInv /\ WakeInv
      /\ InTime(t) /\ Depth(t) \in Nat /\ now \in Nat /\ next \in Nat
      /\ Top(t) \in Frame /\ Early(Top(t))
  BY <1>b, Start
<1>1. Popped(t) /\ Moves(t)
  BY <1>a, <1>b, PopFrames DEF HandlerReturns, Popped
<1>0. UNCHANGED <<msgq, dmsgq, sendlist, next, now>>
  BY DEF HandlerReturns
<1>2. TimeInv'
  <2>1. InTime(t)'
    BY <1>a, <1>0, <1>1, EarlyPopped
  <2> QED
    BY <1>a, <1>0, <1>1, <2>1, TimeStays
<1>c. PICK p \in Thread, k \in Nat : p = Top(t).peer /\ k = Top(t).id
  BY <1>a DEF Frame
<1>d. Depth(t)' = Depth(t) - 1
      /\ \A i \in 1 .. Depth(t) - 1 : stack'[t][i] = stack[t][i]
  BY <1>1 DEF Popped, Kept
<1>e. Steady(t)
  BY <1>a, <1>b, <1>1, SteadyPopped
<1>f. WakeSent(t)'
  BY <1>a, <1>b, <1>1, NotSentPopped
<1>3. CASE stack[t][Depth(t) - 1].kind # "receive"
  <2>0. UNCHANGED <<ready, signaled>>
    BY <1>3 DEF HandlerReturns
  <2>1. ~Serves(t, Depth(t))
    BY <1>3 DEF Serves
  <2>2. CalmStack(t)
    BY <1>a, <1>b, <1>1, <2>1, CalmPopped
  <2>3. SendInv'
    BY <1>a, <1>0, <1>1, <2>0, <2>2, CalmKeeps
  <2>4. WakeInv'
    <3>1. WakeKept(t)'
      BY <1>a, <1>e, <2>0, SteadyKeeps
    <3> QED
      BY <1>a, <1>b, <1>0, <1>1, <1>f, <2>0, <3>1, WakeStays DEF IsWaking
  <2> QED
    BY <1>2, <2>3, <2>4
<1>4. CASE stack[t][Depth(t) - 1].kind = "receive"
  <2>0. ready' = ready \union {k} /\ signaled' = signaled \union {p}
    BY <1>4, <1>c DEF HandlerReturns, Answer
  <2>1. Serves(t, Depth(t)) /\ Depth(t) \in 1 .. Depth(t)
    <3>1. Depth(t) \in 2 .. Depth(t) /\ Depth(t) \in 1 .. Depth(t)
      <4>1. Depth(t) \in Nat /\ Depth(t) > 1
        BY <1>a, <1>b
      <4> QED
        BY <4>1
    <3> QED
      BY <1>b, <1>4, <3>1 DEF Serves, Top
  \* The sender waits, and no other does for the same Send.
  <2>2. Waits(p, k)
    BY <1>a, <1>c, <2>1 DEF SendInv, ServedWait, Top
  <2>3. /\ \A v \in Thread : Sends(v, k) => v = p
        /\ \A v \in Thread : ~Queueing(v, k)
        /\ k < next
    <3>1. \A v \in Thread : Sends(v, k) => v = p
      BY <1>a, <2>2 DEF SendInv, Own, Waits
    <3>2. \A v \in Thread : Queueing(v, k) => Sends(v, k)
      <4> SUFFICES ASSUME NEW v \in Thread, Queueing(v, k)
                   PROVE  Sends(v, k)
        OBVIOUS
      <4>1. Depth(v) \in 1 .. Depth(v)
        BY <1>a, Typed DEF Queueing, In
      <4> QED
        BY <4>1 DEF Queueing, In, Sends, SendsAt, Top
    <3>3. k < next
      BY <1>a, <2>2 DEF SendInv, Fresh, Waits
    <3> QED
      BY <2>2, <3>1, <3>2, <3>3 DEF Waits
  <2>4. /\ \A v \in Thread : \A i \in 1 .. Depth(v) :
               Serves(v, i) /\ stack[v][i].id = k => v = t /\ i = Depth(t)
        /\ \A v \in Thread : \A i \in 1 .. Len(sendlist[v]) :
               sendlist[v][i].id # k
    <3>1. stack[t][Depth(t)].id = k
      BY <1>c DEF Top
    <3>2. \A v \in Thread : \A i \in 1 .. Depth(v) :
               Serves(v, i) /\ stack[v][i].id = k => v = t /\ i = Depth(t)
      BY <1>a, <2>1, <3>1 DEF SendInv, ServedOnce
    <3>3. \A v \in Thread : \A i \in 1 .. Len(sendlist[v]) :
               sendlist[v][i].id # k
      BY <1>a, <2>1, <3>1 DEF SendInv, ServedOrListed
    <3> QED
      BY <3>2, <3>3
  <2>5. SameSends(t)
    BY <1>a, <1>b, <1>1, SendsPopped
  <2>6. NotQueueing(t)
    BY <1>a, <1>b, <1>1, SendsPopped
  <2>7. \A v \in Thread : \A i \in 1 .. Depth(v)' :
            Serves(v, i)' =>
                /\ i \in 1 .. Depth(v) /\ Serves(v, i)
                /\ stack'[v][i] = stack[v][i]
                /\ v = t => i # Depth(t)
    <3> SUFFICES ASSUME NEW v \in Thread, NEW i \in 1 .. Depth(v)', Serves(v, i)'
                 PROVE  /\ i \in 1 .. Depth(v) /\ Serves(v, i)
                        /\ stack'[v][i] = stack[v][i]
                        /\ v = t => i # Depth(t)
      OBVIOUS
    <3>1. CASE v = t
      <4>1. i \in 1 .. Depth(t) - 1 /\ i - 1 \in 1 .. Depth(t) - 1
            /\ i \in 2 .. Depth(t) /\ i \in 1 .. Depth(t) /\ i # Depth(t)
        BY <1>a, <1>d, <3>1 DEF Serves
      <4> QED
        BY <1>d, <3>1, <4>1 DEF Serves
    <3>2. CASE v # t
      BY <1>1, <3>2, OthersSame
    <3> QED
      BY <3>1, <3>2
  <2>8. \A v \in Thread : \A n \in Nat :
            /\ Sends(v, n)' <=> Sends(v, n)
            /\ Queueing(v, n)' => Queueing(v, n)
            /\ Waits(v, n) /\ n # k => Waits(v, n)'
    BY <1>1, <2>0, <2>5, <2>6, OthersSame DEF SameSends, NotQueueing, Waits
  <2>9. SendInv'
    <3>1. Fresh' /\ Own' /\ NotYet'
      <4>1. Fresh'
        BY <1>a, <1>0, <2>0, <2>3, <2>8, Typed DEF SendInv, Fresh
      <4>2. Own'
        BY <1>a, <2>8 DEF SendInv, Own
      <4>3. NotYet'
        BY <1>a, <2>0, <2>3, <2>8, Typed DEF SendInv, NotYet
      <4> QED
        BY <4>1, <4>2, <4>3
    <3>2. ListedWait'
      BY <1>a, <1>0, <2>4, <2>8, Typed DEF SendInv, ListedWait
    <3>3. ServedWait'
      <4> SUFFICES ASSUME NEW v \in Thread, NEW i \in 1 .. Depth(v)',
                          Serves(v, i)'
                   PROVE  Waits(stack[v][i].peer, stack[v][i].id)'
        BY DEF ServedWait
      <4>1. /\ i \in 1 .. Depth(v) /\ Serves(v, i)
            /\ stack'[v][i] = stack[v][i] /\ stack[v][i].id # k
        BY <2>4, <2>7
      <4> QED
        BY <1>a, <2>8, <4>1, Typed DEF SendInv, ServedWait
    <3>4. ListedOnce'
      BY <1>a, <1>0 DEF SendInv, ListedOnce
    <3>5. ServedOnce'
      BY <1>a, <2>7 DEF SendInv, ServedOnce
    <3>6. ServedOrListed'
      BY <1>a, <1>0, <2>7 DEF SendInv, ServedOrListed
    <3> QED
      BY <3>1, <3>2, <3>3, <3>4, <3>5, <3>6 DEF SendInv
  <2>10. WakeInv'
    <3>1. \A v \in Thread : \A n \in Nat :
              Sends(v, n) /\ n \in ready' => n \in ready \/ v \in signaled'
      BY <2>0, <2>3
    <3>2. WakeKept(t)'
      BY <1>a, <1>e, <2>0, <3>1, SteadyKeeps
    <3> QED
      BY <1>a, <1>b, <1>0, <1>1, <1>f, <2>0, <3>1, <3>2, WakeStays DEF IsWaking
  <2> QED
    BY <1>2, <2>9, <2>10
<1> QED
  BY <1>3, <1>4

LEMMA SendReturnsHolds ==
    ASSUME HInv, NEW t \in Thread, SendReturns(t)
    PROVE  TimeInv' /\ SendInv' /\ WakeInv'
<1>b. Depth(t) > 0 /\ Top(t).kind = "send" /\ Top(t).at = "check"
  BY DEF SendReturns, In
<1>a. /\ Stacks /\ TypeOK /\ SendsAreFlagged
      /\ TimeInv /\ SendInv /\ WakeInv
      /\ InTime(t) /\ Depth(t) \in Nat /\ now \in Nat /\ next \in Nat
      /\ Top(t) \in Frame /\ Early(Top(t))
  BY <1>b, Start
<1>1. Popped(t) /\ Moves(t)
  BY <1>a, <1>b, PopFrames DEF SendReturns, Popped
<1>0. UNCHANGED <<msgq, dmsgq, sendlist, ready, next, now>>
  BY DEF SendReturns
<1>d. Depth(t)' = Depth(t) - 1
      /\ \A i \in 1 .. Depth(t) - 1 : stack'[t][i] = stack[t][i]
  BY <1>1 DEF Popped, Kept
<1>2. TimeInv'
  <2>1. InTime(t)'
    BY <1>a, <1>0, <1>1, EarlyPopped
  <2> QED
    BY <1>a, <1>0, <1>1, <2>1, TimeStays
<1>3. SendInv'
  <2>1. \A n \in Nat : Sends(t, n)' => Sends(t, n)
    <3> SUFFICES ASSUME NEW n \in Nat, Sends(t, n)' PROVE Sends(t, n)
      OBVIOUS
    <3>1. PICK i \in 1 .. Depth(t)' : SendsAt(t, i, n)'
      BY DEF Sends
    <3>2. i \in 1 .. Depth(t) - 1 /\ i \in 1 .. Depth(t)
      BY <1>a, <1>d
    <3> QED
      BY <1>d, <3>1, <3>2 DEF Sends, SendsAt
  \* Only the Send that is answered ends.
  <2>2. \A n \in Nat : Sends(t, n) /\ n \notin ready => Sends(t, n)'
    <3> SUFFICES ASSUME NEW n \in Nat, Sends(t, n), n \notin ready
                 PROVE  Sends(t, n)'
      OBVIOUS
    <3>1. PICK i \in 1 .. Depth(t) : SendsAt(t, i, n)
      BY DEF Sends
    <3>2. i # Depth(t)
      BY <3>1 DEF SendsAt, SendReturns, Answered, Top
    <3>3. i \in 1 .. Depth(t) - 1 /\ i \in 1 .. Depth(t)'
      BY <1>a, <1>d, <3>2
    <3> QED
      BY <1>d, <3>1, <3>3 DEF Sends, SendsAt
  <2>3. NotQueueing(t)
    BY <1>a, <1>b, <1>1, SendsPopped
  <2>4. SameServed(t)
    BY <1>a, <1>b, <1>1 DEF SameServed, Serves, Popped, Kept, Top
  <2>5. /\ \A v \in Thread : \A n \in Nat :
               /\ Sends(v, n)' => Sends(v, n)
               /\ Queueing(v, n)' => Queueing(v, n)
               /\ Waits(v, n) => Waits(v, n)'
        /\ \A v \in Thread : \A i \in Nat :
               /\ Serves(v, i)' <=> Serves(v, i)
               /\ Serves(v, i) => /\ stack'[v][i].peer = stack[v][i].peer
                                  /\ stack'[v][i].id = stack[v][i].id
    BY <1>0, <1>1, <2>1, <2>2, <2>3, <2>4, OthersSame
       DEF NotQueueing, SameServed, Waits
  <2>6. \A v \in Thread : \A i : Serves(v, i) => i \in 1 .. Depth(v) /\ i \in Nat
    BY <1>a, Typed DEF Serves
  <2>7. Fresh' /\ Own' /\ NotYet'
    BY <1>a, <1>0, <2>5, Typed DEF SendInv, Fresh, Own, NotYet
  <2>8. ListedWait'
    BY <1>a, <1>0, <2>5, Typed DEF SendInv, ListedWait
  <2>9. ServedWait'
    BY <1>a, <2>5, <2>6, Typed DEF SendInv, ServedWait
  <2>10. ListedOnce'
    BY <1>a, <1>0 DEF SendInv, ListedOnce
  <2>11. ServedOnce'
    BY <1>a, <2>5, <2>6 DEF SendInv, ServedOnce
  <2>12. ServedOrListed'
    BY <1>a, <1>0, <2>5, <2>6 DEF SendInv, ServedOrListed
  <2> QED
    BY <2>7, <2>8, <2>9, <2>10, <2>11, <2>12 DEF SendInv
<1>4. WakeInv'
  <2>1. signaled \subseteq signaled'
        /\ (HasWaited(Top(t)) => t \in signaled')
    BY DEF SendReturns, RestoreWakeUp, HasWaited
  <2>2. Steady(t)
    <3>1. \A i \in 1 .. Depth(t)' :
              /\ i \in 1 .. Depth(t) /\ stack'[t][i] = stack[t][i]
      BY <1>a, <1>d
    <3>2. \A i \in 1 .. Depth(t) :
              i # Depth(t) => i \in 1 .. Depth(t)' /\ stack'[t][i] = stack[t][i]
      BY <1>a, <1>d
    <3>3. \A i \in 1 .. Depth(t)' :
              Waiting(stack'[t][i]) =>
                  /\ i \in 1 .. Depth(t) /\ Waiting(stack[t][i])
                  /\ stack[t][i].id = stack'[t][i].id
      BY <3>1
    <3>4. \A i \in 1 .. Depth(t) :
              HasWaited(stack[t][i]) =>
                  \/ t \in signaled'
                  \/ i \in 1 .. Depth(t)' /\ HasWaited(stack'[t][i])
      BY <2>1, <3>2 DEF Top
    <3> QED
      BY <3>3, <3>4 DEF Steady
  <2>3. WakeKept(t)'
    BY <1>a, <1>0, <2>1, <2>2, SteadyKeeps
  <2>4. WakeSent(t)'
    BY <1>a, <1>b, <1>1, NotSentPopped
  <2> QED
    BY <1>a, <1>b, <1>0, <1>1, <2>1, <2>3, <2>4, WakeStays DEF IsWaking
<1> QED
  BY <1>2, <1>3, <1>4

LEMMA DestroyHolds ==
    ASSUME HInv, NEW t \in Thread, NEW u \in Thread, Destroy(t, u)
    PROVE  TimeInv' /\ SendInv' /\ WakeInv'
<1>b. Depth(t) > 0 /\ Top(t).kind = "handle" /\ Top(t).at = ""
  BY DEF Destroy, In
<1>a. /\ Stacks /\ TypeOK /\ SendsAreFlagged
      /\ TimeInv /\ SendInv /\ WakeInv
      /\ InTime(t) /\ Depth(t) \in Nat /\ now \in Nat /\ next \in Nat
      /\ Top(t) \in Frame /\ Early(Top(t))
  BY <1>b, Start
<1>0. UNCHANGED <<stack, next, now>>
  BY DEF Destroy
<1>1. Moves(t)
  BY <1>a, <1>0 DEF Moves, Stacks, Shape
\* The Sends that are answered, and who made them.
<1> DEFINE L == 1 .. Len(sendlist[u])
<1>c. /\ \A n : n \in ready' <=> n \in ready \/ \E i \in L : n = sendlist[u][i].id
      /\ \A v : v \in signaled' <=>
                    v \in signaled \/ \E i \in L : v = sendlist[u][i].from
  BY DEF Destroy
<1>d. /\ sendlist'[u] = <<>> /\ msgq'[u] = <<>> /\ dmsgq'[u] = <<>>
      /\ \A v \in Thread \ {u} :
             /\ sendlist'[v] = sendlist[v]
             /\ msgq'[v] = msgq[v] /\ dmsgq'[v] = dmsgq[v]
  BY <1>a DEF Destroy, TypeOK
<1>e. /\ \A v \in Thread : Depth(v)' = Depth(v) /\ stack'[v] = stack[v]
      /\ \A v \in Thread : \A n : /\ Sends(v, n)' <=> Sends(v, n)
                                  /\ Queueing(v, n)' <=> Queueing(v, n)
      /\ \A v \in Thread : \A i : Serves(v, i)' <=> Serves(v, i)
  BY <1>0 DEF Depth, Sends, SendsAt, Queueing, In, Top, Serves
<1>f. \A i \in L : /\ Waits(sendlist[u][i].from, sendlist[u][i].id)
                   /\ sendlist[u][i].id \in Nat
                   /\ sendlist[u][i].from \in Thread
  BY <1>a, Typed DEF SendInv, ListedWait
<1> HIDE DEF L
<1>2. TimeInv'
  <2>1. \A v \in Thread : InTime(v)'
    BY <1>a, <1>0 DEF TimeInv, InTime, Early, Depth
  <2>2. ASSUME NEW v \in Thread \ {u} PROVE Queued(v)'
    <3>1. Queued(v) /\ msgq'[v] = msgq[v] /\ dmsgq'[v] = dmsgq[v]
          /\ now' = now /\ next' = next
      BY <1>a, <1>0, <1>d DEF TimeInv
    <3>2. Sorted(dmsgq[v])' /\ Ordered(msgq[v] \o dmsgq[v])'
      BY <3>1 DEF Queued, Sorted, Ordered
    <3> QED
      BY <3>1, <3>2 DEF Queued
  <2>3. Queued(u)'
    BY <1>d DEF Queued, Sorted, Ordered
  <2> QED
    BY <2>1, <2>2, <2>3 DEF TimeInv
<1>3. SendInv'
  <2>1. \A v \in Thread : \A n \in Nat :
            (\A i \in L : n # sendlist[u][i].id) /\ Waits(v, n) => Waits(v, n)'
    BY <1>c, <1>e DEF Waits
  <2>2. \A i \in L : \A v \in Thread : ~Queueing(v, sendlist[u][i].id)
    <3> SUFFICES ASSUME NEW i \in L, NEW v \in Thread,
                        Queueing(v, sendlist[u][i].id)
                 PROVE  FALSE
      OBVIOUS
    <3>1. Depth(v) \in 1 .. Depth(v)
      BY <1>a, Typed DEF Queueing, In
    <3>2. Sends(v, sendlist[u][i].id)
      BY <3>1 DEF Queueing, In, Sends, SendsAt, Top
    <3>3. v = sendlist[u][i].from
      BY <1>a, <1>f, <3>2 DEF SendInv, Own, Waits
    <3> QED
      BY <1>f, <3>3 DEF Waits
  <2>3. \A i \in L : sendlist[u][i].id < next
    BY <1>a, <1>f DEF SendInv, Fresh, Waits
  <2>4. Fresh'
    BY <1>a, <1>0, <1>c, <1>e, <2>3 DEF SendInv, Fresh
  <2>5. Own'
    BY <1>a, <1>e DEF SendInv, Own
  <2>6. NotYet'
    BY <1>a, <1>c, <1>e, <2>2 DEF SendInv, NotYet
  <2>7. ListedWait'
    <3> SUFFICES ASSUME NEW v \in Thread, NEW i \in 1 .. Len(sendlist[v])'
                 PROVE  Waits(sendlist[v][i].from, sendlist[v][i].id)'
      BY DEF ListedWait
    <3>1. v # u
      BY <1>d
    <3>2. sendlist'[v] = sendlist[v] /\ i \in 1 .. Len(sendlist[v])
      BY <1>d, <3>1
    <3>3. \A j \in L : sendlist[v][i].id # sendlist[u][j].id
      BY <1>a, <3>1, <3>2 DEF SendInv, ListedOnce, L
    <3>4. Waits(sendlist[v][i].from, sendlist[v][i].id)
      BY <1>a, <3>2 DEF SendInv, ListedWait
    <3> QED
      BY <1>a, <2>1, <3>2, <3>3, <3>4, Typed
  <2>8. ServedWait'
    <3> SUFFICES ASSUME NEW v \in Thread, NEW i \in 1 .. Depth(v)', Serves(v, i)'
                 PROVE  Waits(stack[v][i].peer, stack[v][i].id)'
      BY DEF ServedWait
    <3>1. i \in 1 .. Depth(v) /\ Serves(v, i) /\ stack'[v][i] = stack[v][i]
      BY <1>e
    <3>2. \A j \in L : stack[v][i].id # sendlist[u][j].id
      BY <1>a, <3>1 DEF SendInv, ServedOrListed, L
    <3>3. Waits(stack[v][i].peer, stack[v][i].id)
      BY <1>a, <3>1 DEF SendInv, ServedWait
    <3> QED
      BY <1>a, <2>1, <3>1, <3>2, <3>3, Typed
  <2>9. ListedOnce'
    <3> SUFFICES ASSUME NEW v \in Thread, NEW w \in Thread,
                        NEW i \in 1 .. Len(sendlist[v])',
                        NEW j \in 1 .. Len(sendlist[w])',
                        sendlist'[v][i].id = sendlist'[w][j].id
                 PROVE  v = w /\ i = j
      BY DEF ListedOnce
    <3>1. v # u /\ w # u
      BY <1>d
    <3>2. ListedOnce
      BY <1>a DEF SendInv
    <3>3. sendlist'[v] = sendlist[v] /\ sendlist'[w] = sendlist[w]
      BY <1>d, <3>1
    <3> QED
      BY <3>2, <3>3 DEF ListedOnce
  <2>10. ServedOnce'
    BY <1>a, <1>e DEF SendInv, ServedOnce
  <2>11. ServedOrListed'
    <3> SUFFICES ASSUME NEW v \in Thread, NEW w \in Thread,
                        NEW i \in 1 .. Depth(v)', Serves(v, i)',
                        NEW j \in 1 .. Len(sendlist[w])'
                 PROVE  stack'[v][i].id # sendlist'[w][j].id
      BY DEF ServedOrListed
    <3>1. w # u
      BY <1>d
    <3>2. j \in 1 .. Len(sendlist[w]) /\ sendlist'[w][j] = sendlist[w][j]
      BY <1>d, <3>1
    <3>3. i \in 1 .. Depth(v) /\ Serves(v, i) /\ stack'[v][i] = stack[v][i]
      BY <1>e
    <3>4. stack[v][i].id # sendlist[w][j].id
      BY <1>a, <3>2, <3>3 DEF SendInv, ServedOrListed
    <3> QED
      BY <3>2, <3>3, <3>4
  <2> QED
    BY <2>4, <2>5, <2>6, <2>7, <2>8, <2>9, <2>10, <2>11 DEF SendInv
<1>4. WakeInv'
  <2>1. \A v \in Thread : \A n \in Nat :
            Sends(v, n) /\ n \in ready' => n \in ready \/ v \in signaled'
    <3> SUFFICES ASSUME NEW v \in Thread, NEW n \in Nat, Sends(v, n),
                        n \in ready', n \notin ready
                 PROVE  v \in signaled'
      OBVIOUS
    <3>1. PICK i \in L : n = sendlist[u][i].id
      BY <1>c
    <3>2. v = sendlist[u][i].from
      BY <1>a, <1>f, <3>1 DEF SendInv, Own, Waits
    <3> QED
      BY <1>c, <3>1, <3>2
  <2>2. Steady(t)
    BY <1>a, <1>0 DEF Steady, Waiting, HasWaited, Depth
  <2>3. WakeKept(t)'
    BY <1>a, <1>c, <2>1, <2>2, SteadyKeeps
  <2>4. WakeSent(t)'
    BY <1>b, <1>0 DEF WakeSent, In, Depth, Top
  <2>5. \A v \in Thread : sendlist'[v] # <<>> => sendlist[v] # <<>>
    BY <1>d
  <2> QED
    BY <1>a, <1>b, <1>c, <1>1, <2>1, <2>3, <2>4, <2>5, WakeStays DEF IsWaking
<1> QED
  BY <1>2, <1>3, <1>4

-----------------------------------------------------------------------------
(* The message queues.                                                     *)

LEMMA MessagesAssociate ==
    ASSUME NEW a \in Seq(Message), NEW b \in Seq(Message),
           NEW c \in Seq(Message)
    PROVE  (a \o b) \o c = a \o (b \o c)
    BY ConcatAssociative

\* A message put between a and b, after those of a with the same time and
\* before none of b.
LEMMA OrderedInsert ==
    ASSUME NEW a \in Seq(Message), NEW b \in Seq(Message), NEW m \in Message,
           Ordered(a \o b),
           \A i \in 1 .. Len(a) : a[i].id < m.id,
           \A i \in 1 .. Len(b) : b[i].trigger # m.trigger
    PROVE  Ordered(Append(a, m) \o b)
<1> DEFINE q == a \o b
           p == Append(a, m)
           r == p \o b
           n == Len(a)
<1>1. /\ n \in Nat /\ Len(b) \in Nat
      /\ p \in Seq(Message) /\ Len(p) = n + 1 /\ p[n + 1] = m
      /\ \A i \in 1 .. n : p[i] = a[i]
  OBVIOUS
<1>2. /\ Len(q) = n + Len(b)
      /\ \A i \in 1 .. n : q[i] = a[i]
      /\ \A i \in 1 .. Len(b) : q[n + i] = b[i]
  BY <1>1
<1> HIDE DEF p
<1>c. /\ r \in Seq(Message) /\ Len(r) = Len(p) + Len(b)
      /\ \A i \in 1 .. Len(p) + Len(b) :
             r[i] = IF i <= Len(p) THEN p[i] ELSE b[i - Len(p)]
  BY <1>1, ConcatProperties
<1> HIDE DEF r
<1>3. /\ Len(r) = n + 1 + Len(b)
      /\ \A i \in 1 .. n + 1 : r[i] = p[i]
      /\ \A i \in 1 .. Len(b) : r[n + 1 + i] = b[i]
  <2> HIDE DEF n
  <2>1. \A i \in 1 .. n + 1 : i \in 1 .. Len(p) + Len(b) /\ i <= Len(p)
    BY <1>1
  <2>2. \A i \in 1 .. Len(b) : /\ n + 1 + i \in 1 .. Len(p) + Len(b)
                               /\ ~(n + 1 + i <= Len(p))
                               /\ n + 1 + i - Len(p) = i
    BY <1>1
  <2> QED
    BY <1>1, <1>c, <2>1, <2>2
<1> HIDE DEF q, r, n
<1>4. \A i \in 1 .. n : r[i] = a[i] /\ r[i] = q[i]
  BY <1>1, <1>2, <1>3
<1>5. r[n + 1] = m
  BY <1>1, <1>3
<1>6. ASSUME NEW i \in 1 .. Len(r), i > n + 1
      PROVE  /\ i - 1 \in 1 .. Len(q) /\ r[i] = q[i - 1]
             /\ i - 1 - n \in 1 .. Len(b) /\ r[i] = b[i - 1 - n]
  <2>1. i - 1 - n \in 1 .. Len(b) /\ n + 1 + (i - 1 - n) = i
        /\ n + (i - 1 - n) = i - 1 /\ i - 1 \in 1 .. Len(q)
    <3>1. /\ n \in Nat /\ Len(b) \in Nat /\ Len(r) = n + 1 + Len(b)
          /\ Len(q) = n + Len(b) /\ i \in 1 .. Len(r) /\ i > n + 1
      BY <1>1, <1>2, <1>3, <1>6
    <3> QED
      BY <3>1
  <2> QED
    BY <1>2, <1>3, <2>1
<1> SUFFICES ASSUME NEW i \in 1 .. Len(r), NEW j \in 1 .. Len(r), i < j,
                    r[i].trigger = r[j].trigger
             PROVE  r[i].id < r[j].id
  BY DEF Ordered, r, p
<1>7. Ordered(q)
  BY DEF q
<1>8. CASE j <= n
  <2>1. i \in 1 .. n /\ j \in 1 .. n /\ i \in 1 .. Len(q) /\ j \in 1 .. Len(q)
    BY <1>1, <1>2, <1>8
  <2> QED
    BY <1>4, <1>7, <2>1 DEF Ordered
<1>9. CASE j = n + 1
  <2>1. i \in 1 .. n
    BY <1>1, <1>9
  <2> QED
    BY <1>4, <1>5, <1>9, <2>1 DEF n
<1>10. CASE j > n + 1
  <2>1. CASE i <= n
    <3>1. i \in 1 .. n /\ i \in 1 .. Len(q) /\ j - 1 \in 1 .. Len(q) /\ i < j - 1
          /\ r[i] = q[i] /\ r[j] = q[j - 1]
      BY <1>1, <1>2, <1>4, <1>6, <1>10, <2>1
    <3> QED
      BY <1>7, <3>1 DEF Ordered
  <2>2. CASE i = n + 1
    BY <1>5, <1>6, <1>10, <2>2
  <2>3. CASE i > n + 1
    <3>1. i - 1 \in 1 .. Len(q) /\ j - 1 \in 1 .. Len(q) /\ i - 1 < j - 1
          /\ r[i] = q[i - 1] /\ r[j] = q[j - 1]
      BY <1>1, <1>6, <1>10, <2>3
    <3> QED
      BY <1>7, <3>1 DEF Ordered
  <2> QED
    BY <1>1, <2>1, <2>2, <2>3
<1> QED
  BY <1>1, <1>8, <1>9, <1>10

LEMMA OrderedTail ==
    ASSUME NEW q \in Seq(Message), q # <<>>, Ordered(q)
    PROVE  Ordered(Tail(q))
<1>1. /\ Len(q) \in Nat /\ Len(Tail(q)) = Len(q) - 1
      /\ \A i \in 1 .. Len(q) - 1 : Tail(q)[i] = q[i + 1]
  OBVIOUS
<1>2. \A i \in 1 .. Len(q) - 1 : i + 1 \in 1 .. Len(q)
  BY <1>1
<1> QED
  BY <1>1, <1>2 DEF Ordered

\* A sequence cut in two.
LEMMA CutInTwo ==
    ASSUME NEW q \in Seq(Message), NEW n \in 0 .. Len(q)
    PROVE  LET a == SubSeq(q, 1, n)
               b == SubSeq(q, n + 1, Len(q))
           IN  /\ a \in Seq(Message) /\ b \in Seq(Message)
               /\ Len(a) = n /\ Len(b) = Len(q) - n
               /\ \A i \in 1 .. n : a[i] = q[i]
               /\ \A i \in 1 .. Len(q) - n : b[i] = q[n + i]
               /\ a \o b = q
<1> DEFINE a == SubSeq(q, 1, n)
           b == SubSeq(q, n + 1, Len(q))
<1>1. /\ a \in Seq(Message) /\ b \in Seq(Message)
      /\ Len(a) = n /\ Len(b) = Len(q) - n
      /\ \A i \in 1 .. n : a[i] = q[i]
      /\ \A i \in 1 .. Len(q) - n : b[i] = q[n + i]
  OBVIOUS
<1>2. n \in Nat /\ Len(q) \in Nat /\ n <= Len(q)
  OBVIOUS
<1> HIDE DEF a, b
<1>3. a \o b \in Seq(Message) /\ Len(a \o b) = Len(q)
  BY <1>1, <1>2
<1>4. \A i \in 1 .. Len(q) : (a \o b)[i] = q[i]
  <2> SUFFICES ASSUME NEW i \in 1 .. Len(q) PROVE (a \o b)[i] = q[i]
    OBVIOUS
  <2>1. CASE i <= n
    BY <1>1, <1>2, <2>1
  <2>2. CASE i > n
    <3>1. i - n \in 1 .. Len(q) - n /\ n + (i - n) = i
      BY <1>2, <2>2
    <3>2. (a \o b)[i] = b[i - n]
      <4>1. (a \o b)[i] = IF i <= Len(a) THEN a[i] ELSE b[i - Len(a)]
        <5>1. i \in 1 .. Len(a) + Len(b)
          BY <1>1, <1>2
        <5> QED
          BY <1>1, <5>1, ConcatProperties
      <4>2. ~(i <= Len(a)) /\ Len(a) = n
        <5>1. Len(a) = n /\ n \in Nat /\ i \in Nat /\ i > n
          BY <1>1, <1>2, <2>2
        <5> QED
          BY <5>1
      <4> QED
        BY <4>1, <4>2
    <3> QED
      BY <1>1, <3>1, <3>2
  <2>3. i <= n \/ i > n
    BY <1>2
  <2> QED
    BY <2>1, <2>2, <2>3
<1>5. a \o b = q
  BY <1>3, <1>4, SeqEqual
<1> QED
  BY <1>1, <1>5 DEF a, b

\* A message put into a sorted queue behind those of its time.
LEMMA SortedInsert ==
    ASSUME NEW a \in Seq(Message), NEW b \in Seq(Message), NEW m \in Message,
           Sorted(a \o b),
           \A i \in 1 .. Len(a) : a[i].trigger <= m.trigger,
           \A i \in 1 .. Len(b) : b[i].trigger > m.trigger
    PROVE  LET r == Append(a, m) \o b
           IN  /\ r \in Seq(Message) /\ Sorted(r)
               /\ \A i \in 1 .. Len(r) :
                      \/ r[i] = m
                      \/ \E j \in 1 .. Len(a) : r[i] = a[j]
                      \/ \E j \in 1 .. Len(b) : r[i] = b[j]
<1> DEFINE q == a \o b
           p == Append(a, m)
           r == p \o b
           n == Len(a)
<1>1. /\ n \in Nat /\ Len(b) \in Nat
      /\ p \in Seq(Message) /\ Len(p) = n + 1 /\ p[n + 1] = m
      /\ \A i \in 1 .. n : p[i] = a[i]
  OBVIOUS
<1>2. /\ Len(q) = n + Len(b)
      /\ \A i \in 1 .. n : q[i] = a[i]
      /\ \A i \in 1 .. Len(b) : q[n + i] = b[i]
  BY <1>1
<1> HIDE DEF p
<1>c. /\ r \in Seq(Message) /\ Len(r) = Len(p) + Len(b)
      /\ \A i \in 1 .. Len(p) + Len(b) :
             r[i] = IF i <= Len(p) THEN p[i] ELSE b[i - Len(p)]
  BY <1>1, ConcatProperties
<1> HIDE DEF r
<1>3. /\ Len(r) = n + 1 + Len(b) /\ r \in Seq(Message)
      /\ \A i \in 1 .. n + 1 : r[i] = p[i]
      /\ \A i \in 1 .. Len(b) : r[n + 1 + i] = b[i]
  <2> HIDE DEF n
  <2>1. \A i \in 1 .. n + 1 : i \in 1 .. Len(p) + Len(b) /\ i <= Len(p)
    BY <1>1
  <2>2. \A i \in 1 .. Len(b) : /\ n + 1 + i \in 1 .. Len(p) + Len(b)
                               /\ ~(n + 1 + i <= Len(p))
                               /\ n + 1 + i - Len(p) = i
    BY <1>1
  <2> QED
    BY <1>1, <1>c, <2>1, <2>2
<1>t. /\ m.trigger \in Nat
      /\ \A i \in 1 .. n : a[i].trigger \in Nat
      /\ \A i \in 1 .. Len(b) : b[i].trigger \in Nat
  <2>1. \A x \in Message : x.trigger \in Nat
    BY DEF Message
  <2> QED
    BY <2>1
<1> HIDE DEF q, r
<1>4. \A i \in 1 .. Len(r) :
          \/ i \in 1 .. n /\ r[i] = a[i]
          \/ i = n + 1 /\ r[i] = m
          \/ i - 1 - n \in 1 .. Len(b) /\ r[i] = b[i - 1 - n]
  <2> SUFFICES ASSUME NEW i \in 1 .. Len(r)
               PROVE  \/ i \in 1 .. n /\ r[i] = a[i]
                      \/ i = n + 1 /\ r[i] = m
                      \/ i - 1 - n \in 1 .. Len(b) /\ r[i] = b[i - 1 - n]
    OBVIOUS
  <2> HIDE DEF n
  <2>1. CASE i <= n
    BY <1>1, <1>3, <2>1
  <2>2. CASE i = n + 1
    BY <1>1, <1>3, <2>2
  <2>3. CASE i > n + 1
    <3>1. i - 1 - n \in 1 .. Len(b) /\ n + 1 + (i - 1 - n) = i
      BY <1>1, <1>3, <2>3
    <3> QED
      BY <1>3, <3>1
  <2> QED
    BY <1>1, <2>1, <2>2, <2>3
<1>5. Sorted(r)
  <2> SUFFICES ASSUME NEW i \in 1 .. Len(r), NEW j \in 1 .. Len(r), i < j
               PROVE  r[i].trigger <= r[j].trigger
    BY DEF Sorted
  <2>s. Sorted(q)
    BY DEF q
  <2> HIDE DEF n
  <2>1. CASE i \in 1 .. n /\ r[i] = a[i]
    <3>1. CASE j \in 1 .. n /\ r[j] = a[j]
      <4>1. i \in 1 .. Len(q) /\ j \in 1 .. Len(q)
        BY <1>1, <1>2, <2>1, <3>1
      <4> QED
        BY <1>2, <2>s, <2>1, <3>1, <4>1 DEF Sorted
    <3>2. CASE j = n + 1 /\ r[j] = m
      BY <2>1, <3>2 DEF n
    <3>3. CASE j - 1 - n \in 1 .. Len(b) /\ r[j] = b[j - 1 - n]
      <4>1. a[i].trigger <= m.trigger /\ b[j - 1 - n].trigger > m.trigger
        BY <2>1, <3>3 DEF n
      <4>2. a[i].trigger \in Nat
        BY <1>t, <2>1
      <4>3. b[j - 1 - n].trigger \in Nat
        <5>1. \A l \in 1 .. Len(b) : b[l].trigger \in Nat
          BY <1>t
        <5> QED
          BY <3>3, <5>1
      <4>4. m.trigger \in Nat
        BY <1>t
      <4>5. r[j].trigger > m.trigger /\ r[j].trigger \in Nat
        BY <3>3, <4>1, <4>3
      <4>6. r[i].trigger <= m.trigger /\ r[i].trigger \in Nat
        BY <2>1, <4>1, <4>2
      <4> QED
        BY <4>4, <4>5, <4>6
    <3> QED
      BY <1>4, <3>1, <3>2, <3>3
  <2>2. CASE i = n + 1 /\ r[i] = m
    <3>1. j - 1 - n \in 1 .. Len(b) /\ r[j] = b[j - 1 - n]
      BY <1>1, <1>4, <2>2
    <3>2. b[j - 1 - n].trigger > m.trigger /\ b[j - 1 - n].trigger \in Nat
      <4> DEFINE k == j - 1 - n
      <4>1. k \in 1 .. Len(b)
        BY <3>1
      <4> HIDE DEF k
      <4>2. b[k].trigger > m.trigger /\ b[k].trigger \in Nat
        <5>1. b[k].trigger > m.trigger
          BY <4>1
        <5>2. b[k].trigger \in Nat
          <6>1. \A l \in 1 .. Len(b) : b[l].trigger \in Nat
            BY <1>t
          <6> QED
            BY <4>1, <6>1
        <5> QED
          BY <5>1, <5>2
      <4> QED
        BY <4>2 DEF k
    <3> QED
      BY <1>t, <2>2, <3>1, <3>2
  <2>3. CASE i - 1 - n \in 1 .. Len(b) /\ r[i] = b[i - 1 - n]
    <3>1. j - 1 - n \in 1 .. Len(b) /\ r[j] = b[j - 1 - n]
      <4>1. n \in Nat /\ i \in Nat /\ j \in Nat /\ i - 1 - n >= 1 /\ i < j
        BY <1>1, <1>3, <2>3 DEF n
      <4>2. ~(j \in 1 .. n) /\ j # n + 1
        BY <4>1
      <4> QED
        BY <1>4, <4>2
    <3>2. /\ n + (i - 1 - n) \in 1 .. Len(q) /\ n + (j - 1 - n) \in 1 .. Len(q)
          /\ n + (i - 1 - n) < n + (j - 1 - n)
      BY <1>1, <1>2, <2>3, <3>1
    <3>3. q[n + (i - 1 - n)] = b[i - 1 - n] /\ q[n + (j - 1 - n)] = b[j - 1 - n]
      BY <1>2, <2>3, <3>1
    <3> QED
      BY <2>s, <2>3, <3>1, <3>2, <3>3 DEF Sorted
  <2> QED
    BY <1>4, <2>1, <2>2, <2>3
<1>6. \A i \in 1 .. Len(r) :
          \/ r[i] = m
          \/ \E j \in 1 .. Len(a) : r[i] = a[j]
          \/ \E j \in 1 .. Len(b) : r[i] = b[j]
  BY <1>4
<1> QED
  BY <1>3, <1>5, <1>6 DEF r, p

LEMMA PostQueueHolds ==
    ASSUME HInv, NEW t \in Thread, PostQueue(t)
    PROVE  TimeInv' /\ SendInv' /\ WakeInv'
<1>b. Depth(t) > 0 /\ Top(t).kind = "post" /\ Top(t).at = ""
  BY DEF PostQueue, In
<1>a. /\ Stacks /\ TypeOK /\ SendsAreFlagged
      /\ TimeInv /\ SendInv /\ WakeInv
      /\ InTime(t) /\ Depth(t) \in Nat /\ now \in Nat /\ next \in Nat
      /\ Top(t) \in Frame /\ Early(Top(t))
  BY <1>b, Start
<1>1. Popped(t) /\ Moves(t)
  BY <1>a, <1>b, PopFrames DEF PostQueue, Popped
<1>c. PICK u \in Thread, m \in Message :
        /\ m.id = next
        /\ IF m.trigger = 0
           THEN msgq' = [msgq EXCEPT ![u] = Append(@, m)] /\ UNCHANGED dmsgq
           ELSE /\ \E i \in 1 .. Len(dmsgq[u]) + 1 :
                     /\ InsertAfter(dmsgq[u], i, m)
                     /\ dmsgq' = [dmsgq EXCEPT ![u] =
                                     SubSeq(@, 1, i - 1) \o <<m>>
                                     \o SubSeq(@, i, Len(@))]
                /\ UNCHANGED msgq
        /\ signaled' = signaled \union {u}
  <2> DEFINE l == Top(t).peer \in fStop
             m == [id |-> next, trigger |-> Top(t).time, late |-> l]
             u == Top(t).peer
  <2>0. l \in BOOLEAN
    OBVIOUS
  <2>1. u \in Thread /\ Top(t).time \in Nat
    BY <1>a DEF Frame
  <2>2. /\ IF m.trigger = 0
           THEN msgq' = [msgq EXCEPT ![u] = Append(@, m)] /\ UNCHANGED dmsgq
           ELSE /\ \E i \in 1 .. Len(dmsgq[u]) + 1 :
                     /\ InsertAfter(dmsgq[u], i, m)
                     /\ dmsgq' = [dmsgq EXCEPT ![u] =
                                     SubSeq(@, 1, i - 1) \o <<m>>
                                     \o SubSeq(@, i, Len(@))]
                /\ UNCHANGED msgq
        /\ signaled' = signaled \union {u}
    BY DEF PostQueue, WakeReader
  <2> HIDE DEF l
  <2>3. m \in Message /\ m.id = next
    BY <1>a, <2>0, <2>1 DEF Message
  <2> HIDE DEF m, u
  <2> QED
    BY <2>1, <2>2, <2>3
<1>0. next' = next + 1 /\ UNCHANGED <<sendlist, ready, now>>
  BY DEF PostQueue
<1>q. msgq[u] \in Seq(Message) /\ dmsgq[u] \in Seq(Message)
      /\ \A x \in Message : x.trigger \in Nat /\ x.id \in Nat
  BY <1>a DEF TypeOK, Message
<1>d. \A v \in Thread \ {u} : msgq'[v] = msgq[v] /\ dmsgq'[v] = dmsgq[v]
  BY <1>a, <1>c DEF TypeOK
<1>2. TimeInv'
  <2>1. \A v \in Thread : InTime(v)'
    <3>1. InTime(t)'
      BY <1>a, <1>0, <1>1, EarlyPopped
    <3> QED
      BY <1>a, <1>0, <1>1, <3>1 DEF TimeInv, InTime, Early, Moves, Depth
  <2>2. ASSUME NEW v \in Thread \ {u} PROVE Queued(v)'
    <3>1. Queued(v) /\ msgq'[v] = msgq[v] /\ dmsgq'[v] = dmsgq[v]
          /\ now' = now /\ next' = next + 1
      BY <1>a, <1>0, <1>d DEF TimeInv
    <3>2. Sorted(dmsgq[v])' /\ Ordered(msgq[v] \o dmsgq[v])'
      BY <3>1 DEF Queued, Sorted, Ordered
    <3>3. msgq[v] \in Seq(Message) /\ dmsgq[v] \in Seq(Message)
      BY <1>a DEF TypeOK
    <3>4. /\ \A i \in 1 .. Len(msgq[v]) : msgq[v][i].id \in Nat
          /\ \A i \in 1 .. Len(dmsgq[v]) : dmsgq[v][i].id \in Nat
      BY <1>q, <3>3
    <3>5. \A n \in Nat : n < next => n < next'
      BY <1>a, <3>1
    <3>6. /\ \A i \in 1 .. Len(msgq[v]) :
                 msgq[v][i].trigger <= now /\ msgq[v][i].id < next'
          /\ \A i \in 1 .. Len(dmsgq[v]) :
                 dmsgq[v][i].trigger # 0 /\ dmsgq[v][i].id < next'
      BY <3>1, <3>4, <3>5 DEF Queued
    <3> QED
      BY <3>1, <3>2, <3>6 DEF Queued
  \* The queue of u holds what it held, and m.
  <2>n. /\ \A i \in 1 .. Len(msgq[u]) :
               msgq[u][i] \in Message /\ msgq[u][i].trigger <= now
               /\ msgq[u][i].id < next /\ msgq[u][i].id < next'
        /\ \A i \in 1 .. Len(dmsgq[u]) :
               dmsgq[u][i] \in Message /\ dmsgq[u][i].trigger # 0
               /\ dmsgq[u][i].id < next /\ dmsgq[u][i].id < next'
        /\ m.id < next'
    <3>1. Queued(u)
      BY <1>a DEF TimeInv
    <3>2. \A n \in Nat : n < next => n < next'
      BY <1>a, <1>0
    <3>3. m.id < next'
      BY <1>a, <1>0, <1>c
    <3>4. /\ \A i \in 1 .. Len(msgq[u]) : msgq[u][i] \in Message
          /\ \A i \in 1 .. Len(dmsgq[u]) : dmsgq[u][i] \in Message
      BY <1>q
    <3> QED
      BY <1>q, <3>1, <3>2, <3>3, <3>4 DEF Queued
  <2>o. Sorted(dmsgq[u]) /\ Ordered(msgq[u] \o dmsgq[u])
    BY <1>a DEF TimeInv, Queued
  <2>3. CASE m.trigger = 0
    <3>1. msgq'[u] = Append(msgq[u], m) /\ dmsgq'[u] = dmsgq[u]
      BY <1>a, <1>c, <2>3 DEF TypeOK
    <3>2. Ordered(Append(msgq[u], m) \o dmsgq[u])
      BY <1>c, <1>q, <2>3, <2>n, <2>o, OrderedInsert
    <3>3. \A i \in 1 .. Len(msgq'[u]) :
              msgq'[u][i] = m \/ \E j \in 1 .. Len(msgq[u]) :
                                     msgq'[u][i] = msgq[u][j]
      BY <1>q, <3>1
    <3>4. \A i \in 1 .. Len(msgq'[u]) :
              msgq'[u][i].trigger <= now /\ msgq'[u][i].id < next'
      <4>1. 0 <= now
        BY <1>a
      <4> QED
        BY <2>3, <2>n, <3>3, <4>1
    <3>5. Ordered(msgq[u] \o dmsgq[u])' /\ Sorted(dmsgq[u])'
      BY <2>o, <3>1, <3>2 DEF Ordered, Sorted
    <3>6. Queued(u)'
      BY <1>0, <2>n, <3>1, <3>4, <3>5 DEF Queued
    <3> QED
      BY <2>1, <2>2, <3>6 DEF TimeInv
  <2>4. CASE m.trigger # 0
    <3>1. PICK i \in 1 .. Len(dmsgq[u]) + 1 :
             /\ InsertAfter(dmsgq[u], i, m)
             /\ dmsgq' = [dmsgq EXCEPT ![u] = SubSeq(@, 1, i - 1) \o <<m>>
                                              \o SubSeq(@, i, Len(@))]
      BY <1>c, <2>4
    <3> DEFINE q == dmsgq[u]
               n == i - 1
               a == SubSeq(q, 1, n)
               b == SubSeq(q, n + 1, Len(q))
               r == Append(a, m) \o b
    <3>2. n \in 0 .. Len(q) /\ n + 1 = i /\ q \in Seq(Message)
      BY <1>q
    <3>3. /\ a \in Seq(Message) /\ b \in Seq(Message)
          /\ Len(a) = n /\ Len(b) = Len(q) - n
          /\ \A j \in 1 .. n : a[j] = q[j]
          /\ \A j \in 1 .. Len(q) - n : b[j] = q[n + j]
          /\ a \o b = q
      <4> HIDE DEF q, n
      <4> QED
        BY <3>2, CutInTwo
    <3>4. dmsgq'[u] = r /\ msgq'[u] = msgq[u]
      <4>1. dmsgq'[u] = a \o <<m>> \o b
        BY <1>a, <3>1, <3>2 DEF TypeOK
      <4>2. msgq' = msgq
        BY <1>c, <2>4
      <4> HIDE DEF a, b
      <4>3. Append(a, m) = a \o <<m>>
        BY <3>3, AppendIsConcat
      <4> QED
        BY <4>1, <4>2, <4>3
    <3>5. /\ \A j \in 1 .. Len(a) : a[j].trigger <= m.trigger
          /\ \A j \in 1 .. Len(b) : b[j].trigger > m.trigger
      <4>0. /\ \A j \in 1 .. n : q[j].trigger <= m.trigger
            /\ n + 1 <= Len(q) => q[n + 1].trigger > m.trigger
        BY <3>1, <3>2 DEF InsertAfter
      <4>s. Sorted(q)
        BY <2>o
      <4>t. \A j \in 1 .. Len(q) : q[j].trigger \in Nat
        BY <1>q, <3>2
      <4> HIDE DEF q, n, a, b
      <4>1. \A j \in 1 .. Len(a) : a[j].trigger <= m.trigger
        BY <3>3, <4>0
      <4>2. ASSUME NEW j \in 1 .. Len(b) PROVE b[j].trigger > m.trigger
        <5>1. /\ n + 1 <= Len(q) /\ n + 1 \in 1 .. Len(q)
              /\ n + j \in 1 .. Len(q) /\ b[j] = q[n + j]
              /\ n + 1 < n + j \/ n + 1 = n + j
          BY <3>2, <3>3
        <5>2. q[n + 1].trigger <= q[n + j].trigger
          BY <4>s, <4>t, <5>1 DEF Sorted
        <5>3. /\ q[n + 1].trigger \in Nat /\ q[n + j].trigger \in Nat
              /\ m.trigger \in Nat
          BY <1>q, <4>t, <5>1
        <5>4. q[n + 1].trigger > m.trigger
          BY <4>0, <5>1
        <5> QED
          BY <5>1, <5>2, <5>3, <5>4
      <4> QED
        BY <4>1, <4>2
    <3>6. /\ r \in Seq(Message) /\ Sorted(r)
          /\ \A j \in 1 .. Len(r) :
                 \/ r[j] = m
                 \/ \E k \in 1 .. Len(a) : r[j] = a[k]
                 \/ \E k \in 1 .. Len(b) : r[j] = b[k]
      <4>1. Sorted(a \o b)
        BY <2>o, <3>3
      <4> HIDE DEF a, b, r
      <4> QED
        BY <3>3, <3>5, <4>1, SortedInsert DEF r
    <3>7. /\ \A j \in 1 .. Len(a) : \E k \in 1 .. Len(q) : a[j] = q[k]
          /\ \A j \in 1 .. Len(b) : \E k \in 1 .. Len(q) : b[j] = q[k]
      <4> HIDE DEF a, b, q, n
      <4>1. /\ \A j \in 1 .. n : j \in 1 .. Len(q)
            /\ \A j \in 1 .. Len(q) - n : n + j \in 1 .. Len(q)
        BY <3>2
      <4> QED
        BY <3>3, <4>1
    <3>8. \A j \in 1 .. Len(r) : r[j].trigger # 0 /\ r[j].id < next'
      <4>1. \A j \in 1 .. Len(q) : q[j].trigger # 0 /\ q[j].id < next'
        BY <2>n
      <4> HIDE DEF a, b, r, q
      <4>2. \A j \in 1 .. Len(r) : r[j] = m \/ \E k \in 1 .. Len(q) : r[j] = q[k]
        BY <3>6, <3>7
      <4> QED
        BY <2>4, <2>n, <4>1, <4>2
    <3>9. Ordered(msgq[u] \o r)
      <4> DEFINE c == msgq[u] \o a
      <4>1. /\ c \in Seq(Message) /\ c \o b = msgq[u] \o q
            /\ Append(c, m) \o b = msgq[u] \o r
        <5>0. msgq[u] \in Seq(Message) /\ <<m>> \in Seq(Message)
          BY <1>q
        <5> HIDE DEF a, b
        <5>a. a \in Seq(Message) /\ b \in Seq(Message) /\ a \o b = q
          BY <3>3
        <5>1. c \in Seq(Message) /\ c \o b = msgq[u] \o (a \o b)
          <6> DEFINE g == msgq[u]
          <6>0. g \in Seq(Message)
            BY <5>0
          <6> HIDE DEF q, g
          <6>1. c \in Seq(Message)
            BY <5>a, <6>0, ConcatProperties DEF g
          <6>2. (g \o a) \o b = g \o (a \o b)
            BY <5>a, <6>0, MessagesAssociate
          <6> QED
            BY <6>1, <6>2 DEF g
        <5>2. Append(c, m) = c \o <<m>> /\ Append(a, m) = a \o <<m>>
          BY <3>3, <5>1, AppendIsConcat
        <5>3. Append(c, m) = msgq[u] \o Append(a, m)
          <6> DEFINE g == msgq[u]
                     d == <<m>>
          <6>0. g \in Seq(Message) /\ d \in Seq(Message)
            BY <5>0
          <6> HIDE DEF g, d
          <6>1. (g \o a) \o d = g \o (a \o d)
            BY <5>a, <6>0, MessagesAssociate
          <6> QED
            BY <5>2, <6>1 DEF g, d
        <5>4. Append(a, m) \in Seq(Message)
          BY <3>3
        <5>5. Append(c, m) \o b = msgq[u] \o (Append(a, m) \o b)
          <6> DEFINE g == msgq[u]
                     d == Append(a, m)
          <6>1. g \in Seq(Message) /\ d \in Seq(Message)
            BY <5>0, <5>4
          <6> HIDE DEF g, d
          <6>2. (g \o d) \o b = g \o (d \o b)
            BY <5>a, <6>1, MessagesAssociate
          <6> QED
            BY <5>3, <6>2 DEF g, d
        <5> QED
          BY <5>a, <5>1, <5>5
      <4>2. \A j \in 1 .. Len(c) : c[j].id < m.id
        <5>0. msgq[u] \in Seq(Message)
          BY <1>q
        <5>1. /\ \A j \in 1 .. Len(msgq[u]) : msgq[u][j].id < m.id
              /\ \A j \in 1 .. Len(a) : a[j].id < m.id
          BY <1>c, <2>n, <3>7
        <5> HIDE DEF a
        <5>2. \A j \in 1 .. Len(msgq[u]) + Len(a) :
                  c[j] = IF j <= Len(msgq[u]) THEN msgq[u][j]
                         ELSE a[j - Len(msgq[u])]
          BY <3>3, <5>0, ConcatProperties
        <5>3. Len(c) = Len(msgq[u]) + Len(a) /\ Len(msgq[u]) \in Nat /\ Len(a) \in Nat
          <6>1. a \in Seq(Message)
            BY <3>3
          <6>2. Len(c) = Len(msgq[u]) + Len(a)
            BY <5>0, <6>1, ConcatProperties
          <6> QED
            BY <5>0, <6>1, <6>2
        <5> HIDE DEF c
        <5> SUFFICES ASSUME NEW j \in 1 .. Len(c) PROVE c[j].id < m.id
          OBVIOUS
        <5>4. CASE j <= Len(msgq[u])
          <6>1. j \in 1 .. Len(msgq[u]) /\ c[j] = msgq[u][j]
            BY <5>2, <5>3, <5>4
          <6> QED
            BY <5>1, <6>1
        <5>5. CASE j > Len(msgq[u])
          <6>1. j - Len(msgq[u]) \in 1 .. Len(a) /\ c[j] = a[j - Len(msgq[u])]
            BY <5>2, <5>3, <5>5
          <6> QED
            BY <5>1, <6>1
        <5> QED
          BY <5>3, <5>4, <5>5
      <4>3. \A j \in 1 .. Len(b) : b[j].trigger # m.trigger
        <5>1. \A j \in 1 .. Len(b) : b[j].trigger \in Nat /\ m.trigger \in Nat
          <6> HIDE DEF b
          <6> QED
            BY <1>q, <3>3
        <5> QED
          BY <3>5, <5>1
      <4>4. Ordered(c \o b)
        BY <2>o, <4>1
      <4> HIDE DEF c, b, r
      <4> QED
        BY <3>3, <4>1, <4>2, <4>3, <4>4, OrderedInsert
    <3> HIDE DEF q, n, a, b, r
    <3>10. Ordered(msgq[u] \o dmsgq[u])' /\ Sorted(dmsgq[u])'
      BY <3>4, <3>6, <3>9 DEF Ordered, Sorted
    <3>11. Queued(u)'
      BY <1>0, <2>n, <3>4, <3>8, <3>10 DEF Queued
    <3> QED
      BY <2>1, <2>2, <3>11 DEF TimeInv
  <2> QED
    BY <2>3, <2>4
<1>3. SendInv'
  <2>1. ~Serves(t, Depth(t))
    BY <1>b DEF Serves, Top
  <2>2. CalmStack(t)
    BY <1>a, <1>b, <1>1, <2>1, CalmPopped
  <2> QED
    BY <1>a, <1>0, <1>1, <2>2, CalmKeeps
<1>4. WakeInv'
  <2>1. WakeKept(t)'
    <3>1. Steady(t)
      BY <1>a, <1>b, <1>1, SteadyPopped
    <3> QED
      BY <1>a, <1>0, <1>c, <3>1, SteadyKeeps
  <2>2. WakeSent(t)'
    BY <1>a, <1>b, <1>1, NotSentPopped
  <2> QED
    BY <1>a, <1>b, <1>0, <1>c, <1>1, <2>1, <2>2, WakeStays DEF IsWaking
<1> QED
  BY <1>2, <1>3, <1>4

LEMMA MessagesConcat ==
    ASSUME NEW a \in Seq(Message), NEW b \in Seq(Message)
    PROVE  /\ a \o b \in Seq(Message) /\ Len(a \o b) = Len(a) + Len(b)
           /\ Len(a) \in Nat /\ Len(b) \in Nat
           /\ \A i \in 1 .. Len(a) + Len(b) :
                  (a \o b)[i] = IF i <= Len(a) THEN a[i] ELSE b[i - Len(a)]
  BY ConcatProperties

LEMMA TailConcat ==
    ASSUME NEW a \in Seq(Message), NEW b \in Seq(Message), a # <<>>
    PROVE  Tail(a) \o b = Tail(a \o b)
<1>1. /\ Len(a) \in Nat /\ Len(a) > 0 /\ Len(b) \in Nat
      /\ Tail(a) \in Seq(Message) /\ Len(Tail(a)) = Len(a) - 1
      /\ \A i \in 1 .. Len(a) - 1 : Tail(a)[i] = a[i + 1]
  OBVIOUS
<1> DEFINE c == a \o b
<1>2. /\ c \in Seq(Message) /\ Len(c) = Len(a) + Len(b)
      /\ \A i \in 1 .. Len(a) + Len(b) :
             c[i] = IF i <= Len(a) THEN a[i] ELSE b[i - Len(a)]
  BY ConcatProperties
<1> HIDE DEF c
<1>3. /\ Tail(c) \in Seq(Message) /\ Len(Tail(c)) = Len(a) + Len(b) - 1
      /\ \A i \in 1 .. Len(a) + Len(b) - 1 : Tail(c)[i] = c[i + 1]
  <2>1. c # <<>>
    BY <1>1, <1>2
  <2> QED
    BY <1>1, <1>2, <2>1
<1> DEFINE s == Tail(a)
           r == s \o b
<1> HIDE DEF s
<1>4. /\ r \in Seq(Message) /\ Len(r) = Len(a) - 1 + Len(b)
      /\ \A i \in 1 .. Len(a) - 1 + Len(b) :
             r[i] = IF i <= Len(a) - 1 THEN s[i] ELSE b[i - (Len(a) - 1)]
  BY <1>1, ConcatProperties DEF s
<1> HIDE DEF r
<1>5. ASSUME NEW i \in 1 .. Len(r) PROVE r[i] = Tail(c)[i]
  <2>1. /\ i \in 1 .. Len(a) - 1 + Len(b) /\ i \in 1 .. Len(a) + Len(b) - 1
        /\ i + 1 \in 1 .. Len(a) + Len(b)
    BY <1>1, <1>4
  <2>2. CASE i <= Len(a) - 1
    <3>1. i \in 1 .. Len(a) - 1 /\ i + 1 <= Len(a)
      BY <1>1, <2>1, <2>2
    <3>2. r[i] = a[i + 1]
      BY <1>1, <1>4, <2>1, <2>2, <3>1 DEF s
    <3> QED
      BY <1>2, <1>3, <2>1, <3>1, <3>2
  <2>3. CASE ~(i <= Len(a) - 1)
    <3>1. ~(i + 1 <= Len(a)) /\ i + 1 - Len(a) = i - (Len(a) - 1)
      BY <1>1, <2>1, <2>3
    <3>2. r[i] = b[i - (Len(a) - 1)]
      BY <1>4, <2>1, <2>3
    <3>3. Tail(c)[i] = b[i + 1 - Len(a)]
      BY <1>2, <1>3, <2>1, <3>1
    <3> QED
      BY <3>1, <3>2, <3>3
  <2> QED
    BY <2>2, <2>3
<1>6. Len(r) = Len(Tail(c))
  BY <1>1, <1>3, <1>4
<1> QED
  BY <1>3, <1>4, <1>5, <1>6, SeqEqual DEF r, s, c

LEMMA GetPollHolds ==
    ASSUME HInv, NEW t \in Thread, GetPoll(t)
    PROVE  TimeInv' /\ SendInv' /\ WakeInv'
<1>b. Depth(t) > 0 /\ Top(t).kind = "get" /\ Top(t).at = "poll"
  BY DEF GetPoll, In
<1>a. /\ Stacks /\ TypeOK /\ SendsAreFlagged
      /\ TimeInv /\ SendInv /\ WakeInv
      /\ InTime(t) /\ Depth(t) \in Nat /\ now \in Nat /\ next \in Nat
      /\ Top(t) \in Frame /\ Early(Top(t))
  BY <1>b, Start
<1>0. UNCHANGED <<sendlist, signaled, ready, next, now>>
  BY DEF GetPoll
<1>q. /\ msgq[t] \in Seq(Message) /\ dmsgq[t] \in Seq(Message)
      /\ \A x \in Message : x.trigger \in Nat /\ x.id \in Nat
  BY <1>a DEF TypeOK, Message
<1>c. PICK n \in 0 .. Len(dmsgq[t]) :
        /\ IsTriggered(t, n)
        /\ LET q    == msgq[t] \o SubSeq(dmsgq[t], 1, n)
               rest == SubSeq(dmsgq[t], n + 1, Len(dmsgq[t]))
           IN  /\ dmsgq' = [dmsgq EXCEPT ![t] = rest]
               /\ IF q = <<>>
                  THEN /\ Become(t, [Top(t) EXCEPT !.at = "stop",
                                       !.time = IF rest = <<>> THEN 0
                                                ELSE Until(t, rest[1].trigger)])
                       /\ UNCHANGED msgq
                  ELSE /\ msgq' = [msgq EXCEPT ![t] = Tail(q)]
                       /\ Become(t, NewFrame("handle", "", t, Head(q).id,
                                             Head(q).trigger))
  BY DEF GetPoll
<1> DEFINE d == dmsgq[t]
           a == SubSeq(d, 1, n)
           b == SubSeq(d, n + 1, Len(d))
           q == msgq[t] \o a
<1>d. /\ a \in Seq(Message) /\ b \in Seq(Message)
      /\ Len(a) = n /\ Len(b) = Len(d) - n
      /\ \A j \in 1 .. n : a[j] = d[j]
      /\ \A j \in 1 .. Len(d) - n : b[j] = d[n + j]
      /\ a \o b = d
      /\ d \in Seq(Message) /\ n \in 0 .. Len(d)
  <2>1. d \in Seq(Message) /\ n \in 0 .. Len(d)
    BY <1>q
  <2> HIDE DEF d
  <2> QED
    BY <2>1, CutInTwo
<1>e. /\ dmsgq' = [dmsgq EXCEPT ![t] = b]
      /\ IF q = <<>>
         THEN /\ Become(t, [Top(t) EXCEPT !.at = "stop",
                              !.time = IF b = <<>> THEN 0
                                       ELSE Until(t, b[1].trigger)])
              /\ UNCHANGED msgq
         ELSE /\ msgq' = [msgq EXCEPT ![t] = Tail(q)]
              /\ Become(t, NewFrame("handle", "", t, Head(q).id,
                                    Head(q).trigger))
  BY <1>c
<1>f. /\ \A j \in 1 .. n : d[j].trigger <= Top(t).time
      /\ n < Len(d) => d[n + 1].trigger > Top(t).time
      /\ Top(t).time \in Nat /\ Top(t).time <= now
  <2>1. /\ \A j \in 1 .. n : d[j].trigger <= Top(t).time
        /\ n < Len(d) => ~(d[n + 1].trigger <= Top(t).time)
    BY <1>c DEF IsTriggered, Triggered
  <2>2. Top(t).time \in Nat /\ Top(t).time <= now
    BY <1>a, <1>b DEF Frame, Early
  <2>3. n < Len(d) => d[n + 1] \in Message
    BY <1>d
  <2> HIDE DEF d
  <2> QED
    BY <1>q, <2>1, <2>2, <2>3
<1>g. /\ Sorted(d) /\ Ordered(msgq[t] \o d)
      /\ \A j \in 1 .. Len(msgq[t]) :
             /\ msgq[t][j].trigger <= now /\ msgq[t][j].id < next
      /\ \A j \in 1 .. Len(d) : d[j].trigger # 0 /\ d[j].id < next
  BY <1>a DEF TimeInv, Queued
<1>h. /\ q \in Seq(Message) /\ q \o b = msgq[t] \o d
      /\ q = <<>> => msgq[t] = <<>>
  <2> DEFINE g == msgq[t]
  <2>1. g \in Seq(Message)
    BY <1>q
  <2> HIDE DEF a, b, d, g
  <2>2. g \o a \in Seq(Message) /\ (g \o a = <<>> => g = <<>>)
    BY <1>d, <2>1, ConcatProperties, ConcatEqualIffEmpty
  <2>3. (g \o a) \o b = g \o (a \o b)
    BY <1>d, <2>1, MessagesAssociate
  <2> QED
    BY <1>d, <2>2, <2>3 DEF g
<1>i. \A j \in 1 .. Len(q) :
          /\ q[j] \in Message /\ q[j].trigger <= now /\ q[j].id < next
  <2> DEFINE g == msgq[t]
  <2>1. g \in Seq(Message) /\ Len(g) \in Nat
    BY <1>q
  <2>2. \A j \in 1 .. Len(g) : g[j].trigger <= now /\ g[j].id < next
    BY <1>g
  <2>3. \A j \in 1 .. Len(a) : a[j].trigger <= now /\ a[j].id < next
    <3> SUFFICES ASSUME NEW j \in 1 .. n
                 PROVE  d[j].trigger <= now /\ d[j].id < next
      BY <1>d
    <3>1. j \in 1 .. Len(d) /\ d[j].trigger \in Nat
      BY <1>d, <1>q
    <3> HIDE DEF d
    <3> QED
      BY <1>a, <1>f, <1>g, <3>1
  <2>4. \A j \in 1 .. Len(q) : q[j] \in Message
    <3> HIDE DEF q
    <3> QED
      BY <1>h
  <2> HIDE DEF a, d, g
  <2>5. /\ Len(g \o a) = Len(g) + Len(a) /\ Len(a) \in Nat
        /\ \A j \in 1 .. Len(g) + Len(a) :
               (g \o a)[j] = IF j <= Len(g) THEN g[j] ELSE a[j - Len(g)]
    <3>1. a \in Seq(Message)
      BY <1>d
    <3> QED
      BY <2>1, <3>1, MessagesConcat
  <2>6. ASSUME NEW j \in 1 .. Len(g) + Len(a)
        PROVE  (g \o a)[j].trigger <= now /\ (g \o a)[j].id < next
    <3>1. CASE j <= Len(g)
      <4>1. j \in 1 .. Len(g)
        BY <2>1, <2>5, <3>1
      <4> QED
        BY <2>2, <2>5, <3>1, <4>1
    <3>2. CASE ~(j <= Len(g))
      <4>1. j - Len(g) \in 1 .. Len(a)
        BY <2>1, <2>5, <3>2
      <4> QED
        BY <2>3, <2>5, <3>2, <4>1
    <3> QED
      BY <3>1, <3>2
  <2> QED
    BY <2>4, <2>5, <2>6 DEF g
<1>j. /\ Sorted(b)
      /\ \A j \in 1 .. Len(b) : b[j].trigger # 0 /\ b[j].id < next
  <2> HIDE DEF a, b, d
  <2>1. \A j \in 1 .. Len(b) : n + j \in 1 .. Len(d) /\ b[j] = d[n + j]
    BY <1>d
  <2>2. Len(d) \in Nat /\ n \in Nat
    BY <1>d
  <2>3. Sorted(b)
    <3> SUFFICES ASSUME NEW i \in 1 .. Len(b), NEW j \in 1 .. Len(b), i < j
                 PROVE  b[i].trigger <= b[j].trigger
      BY DEF Sorted
    <3>1. n + i < n + j
      BY <2>2
    <3> QED
      BY <1>g, <2>1, <3>1 DEF Sorted
  <2> QED
    BY <1>g, <2>1, <2>3
<1>k. /\ dmsgq'[t] = b
      /\ \A v \in Thread \ {t} : msgq'[v] = msgq[v] /\ dmsgq'[v] = dmsgq[v]
  BY <1>a, <1>e DEF TypeOK
<1> HIDE DEF a, b, d
<1>l. ASSUME NEW v \in Thread \ {t} PROVE Queued(v)'
  <2>1. Queued(v) /\ msgq'[v] = msgq[v] /\ dmsgq'[v] = dmsgq[v]
        /\ now' = now /\ next' = next
    BY <1>a, <1>0, <1>k DEF TimeInv
  <2>2. Sorted(dmsgq[v])' /\ Ordered(msgq[v] \o dmsgq[v])'
    BY <2>1 DEF Queued, Sorted, Ordered
  <2> QED
    BY <2>1, <2>2 DEF Queued
<1>1. CASE q = <<>>
  <2> DEFINE f == [Top(t) EXCEPT !.at = "stop",
                     !.time = IF b = <<>> THEN 0 ELSE Until(t, b[1].trigger)]
  <2>1. (IF b = <<>> THEN 0 ELSE Until(t, b[1].trigger)) \in Nat
    <3> SUFFICES ASSUME b # <<>> PROVE Until(t, b[1].trigger) \in Nat
      OBVIOUS
    <3>1. 1 \in 1 .. Len(d) - n /\ n < Len(d)
      BY <1>d
    <3>2. b[1] = d[n + 1] /\ b[1] \in Message
      BY <1>d, <3>1
    <3>3. b[1].trigger > Top(t).time /\ b[1].trigger \in Nat
      BY <1>f, <1>q, <3>1, <3>2
    <3> QED
      BY <1>f, <3>3 DEF Until
  <2>2. f \in Frame /\ f.kind = "get" /\ f.at = "stop" /\ Become(t, f)
    BY <1>a, <1>b, <1>e, <1>1, <2>1 DEF Frame
  <2> HIDE DEF f, q
  <2>3. Changed(t, f) /\ Moves(t)
    BY <1>a, <1>b, <2>2, ChangeFrames DEF Changed
  <2>4. TimeInv'
    <3>1. \A v \in Thread : InTime(v)'
      <4>1. InTime(t)'
        BY <1>a, <1>0, <2>2, <2>3, EarlyChanged DEF Early
      <4> QED
        BY <1>a, <1>0, <2>3, <4>1 DEF TimeInv, InTime, Early, Moves, Depth
    <3>2. msgq'[t] = msgq[t] /\ msgq[t] = q
      BY <1>e, <1>h, <1>1 DEF q
    <3>3. Ordered(q \o b)
      BY <1>g, <1>h
    <3>4. Ordered(msgq[t] \o dmsgq[t])' /\ Sorted(dmsgq[t])'
      BY <1>j, <1>k, <3>2, <3>3 DEF Ordered, Sorted
    <3>5. Queued(t)'
      BY <1>0, <1>g, <1>j, <1>k, <3>2, <3>4 DEF Queued
    <3> QED
      BY <1>l, <3>1, <3>5 DEF TimeInv
  <2>5. SendInv'
    <3>1. CalmStack(t)
      BY <1>a, <1>b, <2>2, <2>3, CalmChanged
    <3> QED
      BY <1>a, <1>0, <2>3, <3>1, CalmKeeps
  <2>6. WakeInv'
    <3>1. ~Waiting(f) /\ ~HasWaited(Top(t))
      BY <1>b, <2>2 DEF Waiting, HasWaited
    <3>2. Steady(t)
      BY <1>a, <1>b, <2>2, <2>3, <3>1, SteadyChanged
    <3>3. WakeKept(t)'
      BY <1>a, <1>0, <3>2, SteadyKeeps
    <3>4. WakeSent(t)'
      BY <1>a, <2>2, <2>3 DEF WakeSent, In, Changed, Top
    <3> QED
      BY <1>a, <1>b, <1>0, <2>3, <3>3, <3>4, WakeStays DEF IsWaking
  <2> QED
    BY <2>4, <2>5, <2>6
<1>2. CASE q # <<>>
  <2> DEFINE g == NewFrame("handle", "", t, Head(q).id, Head(q).trigger)
  <2>1. /\ Head(q) \in Message /\ Tail(q) \in Seq(Message) /\ Head(q) = q[1]
        /\ 1 \in 1 .. Len(q)
    <3> HIDE DEF q
    <3> QED
      BY <1>h, <1>2
  <2>2. g \in Frame /\ g.kind = "handle" /\ g.time = Head(q).trigger
    <3> HIDE DEF q
    <3> QED
      BY <1>a, <1>q, <2>1 DEF NewFrame, Frame
  <2>3. Become(t, g) /\ msgq'[t] = Tail(q)
    BY <1>a, <1>e, <1>2 DEF TypeOK
  <2>t. g.time <= now
    <3> HIDE DEF g, q
    <3> QED
      BY <1>i, <2>1, <2>2
  <2> HIDE DEF g, q
  <2>4. Depth(t) = 1
    BY <1>a, <1>b, LoopAlone
  <2>5. Changed(t, g) /\ Moves(t)
    BY <1>a, <2>2, <2>3, <2>4, AloneFrames DEF Changed
  <2>6. TimeInv'
    <3>0. Early(g)
      BY <1>a, <2>2, <2>t DEF Early
    <3>1. \A v \in Thread : InTime(v)'
      <4>1. InTime(t)'
        BY <1>a, <1>0, <2>5, <3>0, EarlyChanged
      <4> QED
        BY <1>a, <1>0, <2>5, <4>1 DEF TimeInv, InTime, Early, Moves, Depth
    <3>2. Tail(q) \o b = Tail(q \o b)
      BY <1>d, <1>h, <1>2, TailConcat
    <3>3. Ordered(q \o b) /\ q \o b \in Seq(Message) /\ q \o b # <<>>
      BY <1>d, <1>g, <1>h, <1>2, ConcatProperties, ConcatEqualIffEmpty
    <3>4. Ordered(Tail(q) \o b)
      BY <3>2, <3>3, OrderedTail
    <3>5. \A j \in 1 .. Len(Tail(q)) :
              /\ j + 1 \in 1 .. Len(q) /\ Tail(q)[j] = q[j + 1]
      BY <1>h, <1>2
    <3>6. Ordered(msgq[t] \o dmsgq[t])' /\ Sorted(dmsgq[t])'
      BY <1>j, <1>k, <2>3, <3>4 DEF Ordered, Sorted
    <3>7. \A j \in 1 .. Len(Tail(q)) :
              Tail(q)[j].trigger <= now /\ Tail(q)[j].id < next
      BY <1>i, <3>5
    <3>8. Queued(t)'
      BY <1>0, <1>j, <1>k, <2>3, <3>6, <3>7 DEF Queued
    <3> QED
      BY <1>l, <3>1, <3>8 DEF TimeInv
  <2>7. SendInv'
    <3>1. CalmStack(t)
      BY <1>b, <2>2, <2>4, <2>5, CalmAlone
    <3> QED
      BY <1>a, <1>0, <2>5, <3>1, CalmKeeps
  <2>8. WakeInv'
    <3>1. ~Waiting(g) /\ ~HasWaited(Top(t))
      BY <1>b, <2>2 DEF Waiting, HasWaited
    <3>2. Steady(t)
      BY <1>a, <1>b, <2>2, <2>5, <3>1, SteadyChanged
    <3>3. WakeKept(t)'
      BY <1>a, <1>0, <3>2, SteadyKeeps
    <3>4. WakeSent(t)'
      BY <1>a, <2>2, <2>5 DEF WakeSent, In, Changed, Top
    <3> QED
      BY <1>a, <1>b, <1>0, <2>5, <3>3, <3>4, WakeStays DEF IsWaking
  <2> QED
    BY <2>6, <2>7, <2>8
<1> QED
  BY <1>1, <1>2

-----------------------------------------------------------------------------
(* The theorem.                                                            *)

\* The clock, and steps that change nothing.
LEMMA RestHolds ==
    ASSUME HInv, Tick \/ UNCHANGED vars
    PROVE  TimeInv' /\ SendInv' /\ WakeInv'
<1>1. /\ UNCHANGED <<stack, msgq, dmsgq, sendlist, signaled, ready, next>>
      /\ now' = now \/ now' = now + 1
      /\ TypeOK /\ TimeInv /\ SendInv /\ WakeInv
  BY DEF Tick, vars, HInv, IInv
<1>2. \A n \in Nat : n <= now => n <= now'
  BY <1>1 DEF TypeOK
<1>3. TimeInv'
  <2>1. ASSUME NEW t \in Thread PROVE InTime(t)'
    <3>1. \A i \in 1 .. Depth(t) : stack[t][i].time \in Nat /\ Early(stack[t][i])
      <4>1. stack[t] \in Seq(Frame)
        BY <1>1 DEF TypeOK
      <4>2. \A f \in Frame : f.time \in Nat
        BY DEF Frame
      <4> QED
        BY <1>1, <4>1, <4>2 DEF TimeInv, InTime, Depth
    <3> QED
      BY <1>1, <1>2, <3>1 DEF InTime, Early, Depth
  <2>2. ASSUME NEW t \in Thread PROVE Queued(t)'
    <3>1. \A i \in 1 .. Len(msgq[t]) : msgq[t][i].trigger \in Nat
      <4>1. msgq[t] \in Seq(Message)
        BY <1>1 DEF TypeOK
      <4>2. \A m \in Message : m.trigger \in Nat
        BY DEF Message
      <4> QED
        BY <4>1, <4>2
    <3>2. Queued(t)
      BY <1>1 DEF TimeInv
    <3>3. \A i \in 1 .. Len(msgq[t]) : msgq[t][i].trigger <= now'
      BY <1>2, <3>1, <3>2 DEF Queued
    <3>4. Sorted(dmsgq[t]) /\ Ordered(msgq[t] \o dmsgq[t])
      BY <3>2 DEF Queued
    <3>5. Sorted(dmsgq[t])'
      BY <1>1, <3>4 DEF Sorted
    <3>6. Ordered(msgq[t] \o dmsgq[t])'
      BY <1>1, <3>4, Zenon
    <3> QED
      BY <1>1, <3>2, <3>3, <3>5, <3>6 DEF Queued
  <2> QED
    BY <2>1, <2>2 DEF TimeInv
<1>4. SendInv'
  <2>4. Fresh' /\ Own' /\ NotYet'
    <3>1. Fresh /\ Own /\ NotYet
      BY <1>1 DEF SendInv
    <3> QED
      BY <1>1, <3>1 DEF Fresh, Own, NotYet, Queueing, Sends, SendsAt, In, Top, Depth
  <2>1. \A v, n : Waits(v, n)' <=> Waits(v, n)
    BY <1>1 DEF Waits, Sends, SendsAt, Queueing, In, Top, Depth
  <2>2. \A v, i : Serves(v, i)' <=> Serves(v, i)
    BY <1>1 DEF Serves, Depth
  <2>3. \A v : Depth(v)' = Depth(v)
    BY <1>1 DEF Depth
  <2>5. ListedWait' /\ ServedWait'
    <3>1. ListedWait /\ ServedWait
      BY <1>1 DEF SendInv
    <3>2. ListedWait'
      BY <1>1, <2>1, <3>1 DEF ListedWait
    <3>3. ServedWait'
      BY <1>1, <2>1, <2>2, <2>3, <3>1 DEF ServedWait
    <3> QED
      BY <3>2, <3>3
  <2>6. ListedOnce'
    <3>1. ListedOnce
      BY <1>1 DEF SendInv
    <3> QED
      BY <1>1, <3>1 DEF ListedOnce
  <2>7. ServedOnce' /\ ServedOrListed'
    <3>1. ServedOnce /\ ServedOrListed
      BY <1>1 DEF SendInv
    <3>2. ServedOnce'
      BY <1>1, <2>2, <2>3, <3>1 DEF ServedOnce
    <3>3. ServedOrListed'
      BY <1>1, <2>2, <2>3, <3>1 DEF ServedOrListed
    <3> QED
      BY <3>2, <3>3
  <2> QED
    BY <2>4, <2>5, <2>6, <2>7 DEF SendInv
<1>5. WakeInv'
  BY <1>1 DEF WakeInv, WakeKept, WakeSent, Waiting, HasWaited, Woken, Waking,
     In, Top, Depth
<1> QED
  BY <1>3, <1>4, <1>5

LEMMA InitHolds ==
    ASSUME Init
    PROVE  HInv
<1> DEFINE first(t) == IF t \in Outside THEN NewFrame("handle", "", t, 0, 0)
                       ELSE NewFrame("get", "sends", t, 0, 1)
<1>0. \A t \in Thread : first(t).kind \in {"handle", "get"} /\ first(t).time \in {0, 1}
  BY DEF NewFrame
<1>s. stack = [t \in Thread |-> <<first(t)>>]
  BY DEF Init
<1> HIDE DEF first
<1>1. \A t \in Thread :
          /\ first(t).kind # "send" /\ first(t).time <= 1
          /\ stack[t] = <<first(t)>>
  <2> SUFFICES ASSUME NEW t \in Thread
               PROVE  /\ first(t).kind # "send" /\ first(t).time <= 1
                      /\ stack[t] = <<first(t)>>
    OBVIOUS
  <2>1. first(t).kind \in {"handle", "get"} /\ first(t).time \in {0, 1}
    BY <1>0
  <2>2. stack[t] = <<first(t)>>
    BY <1>s
  <2> QED
    BY <2>1, <2>2
<1>2. \A t \in Thread : Depth(t) = 1 /\ stack[t][1] = first(t)
  BY <1>1 DEF Depth
<1>3. /\ now = 1 /\ next = 1 /\ ready = {}
      /\ \A t \in Thread : msgq[t] = <<>> /\ dmsgq[t] = <<>> /\ sendlist[t] = <<>>
  BY DEF Init
<1>4. TimeInv
  <2>1. \A t \in Thread : InTime(t)
    BY <1>1, <1>2, <1>3 DEF InTime, Early
  <2>2. \A t \in Thread : Queued(t)
    <3>1. <<>> \in Seq(Message) /\ Len(<<>>) = 0
      OBVIOUS
    <3>2. Len(<<>> \o <<>>) = 0
      BY <3>1, MessagesConcat
    <3>3. Ordered(<<>> \o <<>>)
      BY <3>2 DEF Ordered
    <3>4. Sorted(<<>>)
      BY <3>1 DEF Sorted
    <3>5. ASSUME NEW t \in Thread PROVE Queued(t)
      <4>1. msgq[t] = <<>> /\ dmsgq[t] = <<>>
        BY <1>3
      <4>2. Ordered(msgq[t] \o dmsgq[t]) /\ Sorted(dmsgq[t])
        BY <3>3, <3>4, <4>1
      <4>3. Len(msgq[t]) = 0 /\ Len(dmsgq[t]) = 0
        BY <3>1, <4>1
      <4> QED
        BY <4>2, <4>3 DEF Queued
    <3> QED
      BY <3>5
  <2> QED
    BY <2>1, <2>2 DEF TimeInv
<1>5. /\ \A t \in Thread : \A n \in Nat : ~Sends(t, n) /\ ~Queueing(t, n)
      /\ \A t \in Thread : \A i : ~Serves(t, i)
  BY <1>1, <1>2 DEF Sends, SendsAt, Queueing, In, Top, Serves
<1>6. SendInv
  BY <1>3, <1>5 DEF SendInv, Fresh, Own, NotYet, ListedWait, ServedWait,
     ListedOnce, ServedOnce, ServedOrListed
<1>7. WakeInv
  BY <1>1, <1>2, <1>3 DEF WakeInv, WakeKept, WakeSent, Waiting, In, Top
<1> QED
  BY <1>4, <1>6, <1>7, InitKeeps DEF HInv

LEMMA StepHolds ==
    ASSUME HInv, [Next]_vars
    PROVE  HInv'
<1>1. IInv'
  BY StepKeeps DEF HInv
<1>2. TimeInv' /\ SendInv' /\ WakeInv'
  <2>1. ASSUME NEW t \in Thread, Step(t) PROVE TimeInv' /\ SendInv' /\ WakeInv'
    BY <2>1, GetSendsHolds, GetPollHolds, GetStopHolds, GetWaitHolds,
       NextGetHolds, ReceiveOneHolds, ReceiveEndHolds, HandlerReturnsHolds,
       PostQueueHolds,
       QuitWakeHolds, SendQueueHolds, SendWakeHolds, SendCheckHolds,
       SendWaitHolds, SendReturnsHolds DEF Step
  <2>2. ASSUME NEW t \in Thread, Call(t) PROVE TimeInv' /\ SendInv' /\ WakeInv'
    BY <2>2, PostHolds, SendHolds, SendSelfHolds, QuitHolds, DestroyHolds
       DEF Call
  <2>3. CASE Tick \/ UNCHANGED vars
    BY <2>3, RestHolds
  <2> QED
    BY <2>1, <2>2, <2>3 DEF Next
<1> QED
  BY <1>1, <1>2 DEF HInv

\* The invariant of the handlers, which the theorems below are read off.
THEOREM HandlersHold == Spec => []HInv
<1>1. Init => HInv
  BY InitHolds
<1>2. HInv /\ [Next]_vars => HInv'
  BY StepHolds
<1> QED
  BY <1>1, <1>2, PTL DEF Spec

\* A delayed message is not dispatched before its time, and messages of one time
\* are queued in the order they were posted (DoDelayPost, Get).
THEOREM DelaysAreKept == Spec => []DelayKept
<1>1. HInv => DelayKept
  BY DEF HInv, TimeInv, InTime, Early, Queued, Ordered, DelayKept
<1> QED
  BY <1>1, HandlersHold, PTL

\* A Send lasts as long as its handler runs: whoever sent what a handler of
\* ReceiveSends works on is in that Send, unanswered; and a thread that waits in
\* Send for an answer that is there, or while another sends to it, is woken,
\* however its own Sends and those made to it are nested (Thread::Send,
\* ReceiveSends).
THEOREM SendsAreWaitedFor == Spec => []SendsWait
<1>1. ASSUME HInv PROVE SenderIsWoken
  <2> SUFFICES ASSUME NEW t \in Thread, In(t, "send", "wait"),
                      Top(t).id \in ready \/ sendlist[t] # <<>>
               PROVE  t \in signaled \/ Waking(t)
    BY DEF SenderIsWoken
  <2>1. WakeKept(t) /\ WakeSent(t) /\ Depth(t) \in Nat /\ Depth(t) > 0
    BY <1>1, Start DEF WakeInv, In
  <2>2. CASE sendlist[t] # <<>>
    BY <2>1, <2>2 DEF WakeSent, Woken
  <2>3. CASE Top(t).id \in ready
    <3>1. Depth(t) \in 1 .. Depth(t) /\ Depth(t) + 1 .. Depth(t) = {}
      BY <2>1
    <3> QED
      BY <2>1, <2>3, <3>1 DEF WakeKept, Waiting, In, Top
  <2> QED
    BY <2>2, <2>3
<1>2. ASSUME HInv PROVE SenderWaits
  <2> SUFFICES ASSUME NEW t \in Thread, NEW i \in 2 .. Depth(t),
                      stack[t][i].kind = "handle",
                      stack[t][i - 1].kind = "receive"
               PROVE  LET f == stack[t][i]
                      IN  \E j \in 1 .. Depth(f.peer) :
                              /\ stack[f.peer][j].kind = "send"
                              /\ stack[f.peer][j].id = f.id
                              /\ f.id \notin ready
    BY DEF SenderWaits
  <2>1. i \in 1 .. Depth(t) /\ Serves(t, i) /\ ServedWait
    BY <1>2 DEF Serves, HInv, SendInv
  <2>2. Waits(stack[t][i].peer, stack[t][i].id)
    BY <2>1 DEF ServedWait
  <2> QED
    BY <2>2 DEF Waits, Sends, SendsAt
<1>3. HInv => SendsWait
  BY <1>1, <1>2 DEF SendsWait
<1> QED
  BY <1>3, HandlersHold, PTL

=============================================================================
