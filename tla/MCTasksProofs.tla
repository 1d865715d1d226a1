---------------------------- MODULE MCTasksProofs ----------------------------
(***************************************************************************)
(* Theorems about XmppSocket, XmppPump, Chat, Presence, PubsubTask and     *)
(* EchoThread, each for every value of its constants, and at the end what  *)
(* they make of the invariants of MCTasks, in which each moves by itself.  *)
(***************************************************************************)
EXTENDS MCTasks, SequenceTheorems, FiniteSetTheorems, TLAPS

-----------------------------------------------------------------------------
(***************************************************************************)
(* The socket: for any number of bytes, Writes of any length and a kernel  *)
(* that takes any part of them, they come out in order and once, and what  *)
(* waits on a good connection has asked for its turn.                      *)
(*                                                                         *)
(* What a call does is a function of the record of the variables, so each  *)
(* is looked at by itself first.  ev stands for the events that have yet   *)
(* to be delivered.                                                        *)
(***************************************************************************)
Sizes == MaxBytes \in Nat /\ MaxWrite \in Nat /\ Room \in Nat

\* Bytes are the numbers of their order.
Byte == Nat

SockType == [open : BOOLEAN, state : {"CS_CLOSED", "CS_CONNECTING", "CS_CONNECTED"},
             enabled : SUBSET {"CONNECT", "READ", "WRITE"}]
Record ==
    [state : {"CLOSED", "OPEN"}, buffer : Seq(Byte), sock : SockType, net : Net,
     queued : 0 .. Room, data : BOOLEAN, resolver : {"none", "busy", "done"},
     wire : Seq(Byte), written : 0 .. MaxBytes,
     told : SUBSET {"Connected", "Closed", "CloseEvent"}]

\* The first m bytes, and the n behind them.
First(m) == [k \in 1 .. m |-> k]
After(m, n) == [k \in 1 .. n |-> m + k]

InOrder(r) == r.wire \o r.buffer = First(r.written)

\* What waits has asked for its turn, also on a connection that is on its way.
Live(r) == r.sock.open /\ r.sock.state # "CS_CLOSED" /\ r.net \in {"pending", "up", "eof"}
TurnAsked(r, ev) == r.buffer # <<>> /\ Live(r) => "WRITE" \in r.sock.enabled \cup ev

\* A socket that is found closed is not connecting once it has been told.
ClosedIsTold(r, ev) ==
    /\ "CONNECT" \in r.sock.enabled => r.sock.state # "CS_CLOSED" \/ "CLOSE" \in ev
    /\ "CLOSE" \in ev => r.sock.state = "CS_CLOSED"

Ordered(r, ev) == r \in Record /\ InOrder(r) /\ ClosedIsTold(r, ev)
Sound(r, ev) == Ordered(r, ev) /\ TurnAsked(r, ev)

\* Before Connect nothing is written, asked for or told.
NotYet == ~asked => buffer = <<>> /\ events = {} /\ sock.enabled = {} /\ resolver = "none"

IInv ==
    /\ Sound(Now, events) /\ NotYet
    /\ events \subseteq {"CONNECT", "READ", "WRITE", "CLOSE"}

-----------------------------------------------------------------------------
(* The calls.                                                              *)

LEMMA MinOfTwo ==
    ASSUME NEW a \in Int, NEW b \in Int
    PROVE  Min({a, b}) = IF a <= b THEN a ELSE b
    BY DEF Min

\* Bytes after bytes after bytes.
LEMMA Associates ==
    ASSUME NEW a \in Seq(Byte), NEW b \in Seq(Byte), NEW c \in Seq(Byte)
    PROVE  (a \o b) \o c = a \o (b \o c)
    BY ConcatAssociative

\* Cutting a sequence and putting it together again.
LEMMA Cut ==
    ASSUME NEW w \in Seq(Byte), NEW b \in Seq(Byte), NEW n \in 0 .. Len(b)
    PROVE  /\ SubSeq(b, 1, n) \in Seq(Byte) /\ SubSeq(b, n + 1, Len(b)) \in Seq(Byte)
           /\ w \o SubSeq(b, 1, n) \in Seq(Byte)
           /\ (w \o SubSeq(b, 1, n)) \o SubSeq(b, n + 1, Len(b)) = w \o b
<1> DEFINE x == SubSeq(b, 1, n)
           y == SubSeq(b, n + 1, Len(b))
<1>0. Len(b) \in Nat /\ \A i \in 1 .. Len(b) : b[i] \in Byte
  BY LenProperties, ElementOfSeq
<1>1. x \in Seq(Byte) /\ Len(x) = n /\ \A i \in 1 .. n : x[i] = b[i]
  <2>1. \A i \in 1 .. n : b[i] \in Byte
    BY <1>0
  <2> QED
    BY <1>0, <2>1, SubSeqProperties
<1>2. y \in Seq(Byte) /\ Len(y) = Len(b) - n /\ \A i \in 1 .. Len(b) - n : y[i] = b[n + i]
  <2>1. \A i \in n + 1 .. Len(b) : b[i] \in Byte
    BY <1>0
  <2> QED
    BY <1>0, <2>1
<1> HIDE DEF x, y
<1>3. /\ x \o y \in Seq(Byte) /\ Len(x \o y) = Len(b)
      /\ \A i \in 1 .. Len(b) : (x \o y)[i] = IF i <= n THEN x[i] ELSE y[i - n]
  BY <1>0, <1>1, <1>2, ConcatProperties
<1>4. ASSUME NEW i \in 1 .. Len(b)
      PROVE  (x \o y)[i] = b[i]
  <2>1. CASE i <= n
    <3>1. i \in 1 .. n
      BY <2>1
    <3> QED
      BY <1>1, <1>3, <2>1, <3>1
  <2>2. CASE ~(i <= n)
    <3>1. i - n \in 1 .. Len(b) - n /\ n + (i - n) = i
      BY <1>0, <2>2
    <3>2. y[i - n] = b[n + (i - n)]
      BY <1>2, <3>1
    <3> QED
      BY <1>3, <2>2, <3>1, <3>2
  <2> QED
    BY <2>1, <2>2
<1>5. x \o y = b
  BY <1>3, <1>4, SeqEqual
<1>6. w \o x \in Seq(Byte) /\ (w \o x) \o y = w \o b
  <2>1. w \o x \in Seq(Byte)
    BY <1>1, ConcatProperties
  <2>2. (w \o x) \o y = w \o (x \o y)
    <3>1. w \in Seq(Byte) /\ x \in Seq(Byte) /\ y \in Seq(Byte)
      BY <1>1, <1>2
    <3> QED
      BY <3>1, Associates, Zenon
  <2> QED
    BY <1>5, <2>1, <2>2
<1> QED
  BY <1>1, <1>2, <1>6 DEF x, y

\* One more Write: the numbers go on.
LEMMA NumbersGoOn ==
    ASSUME NEW w \in Seq(Byte), NEW b \in Seq(Byte), NEW m \in Nat, NEW n \in Nat,
           w \o b = First(m)
    PROVE  /\ b \o After(m, n) \in Seq(Byte)
           /\ w \o (b \o After(m, n)) = First(m + n)
<1> DEFINE s == After(m, n)
           z == First(m + n)
           x == w \o b
<1>1. s \in Seq(Byte) /\ Len(s) = n /\ \A i \in 1 .. n : s[i] = m + i
  <2>1. s \in [1 .. n -> Byte]
    BY DEF Byte, First, After
  <2> QED
    BY <2>1, IsASeq DEF First, After
<1>2. z \in Seq(Byte) /\ Len(z) = m + n /\ \A i \in 1 .. m + n : z[i] = i
  <2>1. z \in [1 .. m + n -> Byte] /\ m + n \in Nat
    BY DEF Byte, First, After
  <2> QED
    BY <2>1, IsASeq DEF First, After
<1>3. x \in Seq(Byte) /\ Len(x) = m /\ \A i \in 1 .. m : x[i] = i
  <2>1. x \in [1 .. m -> Byte]
    BY DEF Byte, First, After
  <2> QED
    BY <2>1, IsASeq DEF First, After
<1> HIDE DEF s, z
<1>4. w \o (b \o s) = x \o s /\ b \o s \in Seq(Byte)
  <2>1. b \o s \in Seq(Byte)
    BY <1>1, ConcatProperties
  <2>2. (w \o b) \o s = w \o (b \o s)
    <3>1. w \in Seq(Byte) /\ b \in Seq(Byte) /\ s \in Seq(Byte)
      BY <1>1
    <3> QED
      BY <3>1, Associates, Zenon
  <2> QED
    BY <2>1, <2>2
<1> HIDE DEF x
<1>5. /\ x \o s \in Seq(Byte) /\ Len(x \o s) = m + n
      /\ \A i \in 1 .. m + n : (x \o s)[i] = IF i <= m THEN x[i] ELSE s[i - m]
  <2>1. /\ x \o s \in Seq(Byte) /\ Len(x \o s) = Len(x) + Len(s)
        /\ \A i \in 1 .. Len(x) + Len(s) :
               (x \o s)[i] = IF i <= Len(x) THEN x[i] ELSE s[i - Len(x)]
    BY ONLY <1>1, <1>3, ConcatProperties
  <2> QED
    BY <1>1, <1>3, <2>1
<1>6. ASSUME NEW i \in 1 .. m + n
      PROVE  (x \o s)[i] = z[i]
  <2>1. CASE i <= m
    <3>1. i \in 1 .. m
      BY <2>1
    <3> QED
      BY <1>2, <1>3, <1>5, <2>1, <3>1
  <2>2. CASE ~(i <= m)
    <3>1. i - m \in 1 .. n /\ m + (i - m) = i
      BY <2>2
    <3>2. s[i - m] = m + (i - m)
      BY <1>1, <3>1
    <3> QED
      BY <1>2, <1>5, <2>2, <3>1, <3>2
  <2> QED
    BY <2>1, <2>2
<1>7. x \o s = z
  BY <1>2, <1>5, <1>6, SeqEqual
<1> QED
  BY <1>4, <1>7 DEF s, z

-----------------------------------------------------------------------------
(* The calls, one lemma each.                                              *)

LEMMA Typed ==
    ASSUME NEW r \in Record
    PROVE  /\ r.state \in {"CLOSED", "OPEN"} /\ r.buffer \in Seq(Byte) /\ r.sock \in SockType
           /\ r.net \in Net /\ r.queued \in 0 .. Room /\ r.data \in BOOLEAN
           /\ r.resolver \in {"none", "busy", "done"} /\ r.wire \in Seq(Byte)
           /\ r.written \in 0 .. MaxBytes
           /\ r.told \in SUBSET {"Connected", "Closed", "CloseEvent"}
BY DEF Record

\* What is asked for is added to.
LEMMA Asks ==
    ASSUME NEW r \in Record, NEW e \in SUBSET {"CONNECT", "READ", "WRITE"}
    PROVE  LET q == [r EXCEPT !.sock.enabled = e] IN
           /\ q \in Record /\ q.sock.enabled = e
           /\ q.sock.open = r.sock.open /\ q.sock.state = r.sock.state
           /\ q.net = r.net /\ q.buffer = r.buffer /\ q.wire = r.wire /\ q.written = r.written
           /\ q.state = r.state /\ q.resolver = r.resolver
<1>1. [r EXCEPT !.sock.enabled = e] = [r EXCEPT !.sock = [r.sock EXCEPT !.enabled = e]]
  BY DEF Record, SockType
<1>2. [r.sock EXCEPT !.enabled = e] \in SockType
  BY DEF Record, SockType
<1> QED
  BY <1>1, <1>2 DEF Record, SockType

LEMMA BlockAsks ==
    ASSUME NEW r, NEW ev, Ordered(r, ev)
    PROVE  /\ Sound(Block(r), ev) /\ Block(r).sock.open = r.sock.open
           /\ Block(r).resolver = r.resolver
<1>1. r \in Record /\ r.sock.enabled \cup {"WRITE"} \in SUBSET {"CONNECT", "READ", "WRITE"}
  BY DEF Ordered, Record, SockType
<1> DEFINE e == r.sock.enabled \cup {"WRITE"}
<1>2. Block(r) = [r EXCEPT !.sock.enabled = e] /\ e \in SUBSET {"CONNECT", "READ", "WRITE"}
  BY <1>1 DEF Block
<1> HIDE DEF e
<1> QED
  <2>1. /\ Block(r) \in Record /\ Block(r).sock.enabled = e
        /\ Block(r).sock.open = r.sock.open /\ Block(r).sock.state = r.sock.state
        /\ Block(r).buffer = r.buffer /\ Block(r).wire = r.wire
        /\ Block(r).written = r.written /\ Block(r).resolver = r.resolver
    BY <1>1, <1>2, Asks
  <2>2. "WRITE" \in Block(r).sock.enabled
    BY <2>1 DEF e
  <2>3. "CONNECT" \in Block(r).sock.enabled <=> "CONNECT" \in r.sock.enabled
    BY <2>1 DEF e
  <2> QED
    BY <2>1, <2>2, <2>3 DEF Sound, Ordered, InOrder, ClosedIsTold, TurnAsked

LEMMA ReapedSound ==
    ASSUME NEW r, NEW ev, Ordered(r, ev)
    PROVE  /\ Ordered(Reaped(r), ev) /\ (TurnAsked(r, ev) => TurnAsked(Reaped(r), ev))
           /\ Reaped(r).buffer = r.buffer /\ Reaped(r).sock = r.sock
           /\ (r.net \notin {"pending", "up", "eof"} => TurnAsked(Reaped(r), ev))
           /\ Reaped(r).resolver = r.resolver
<1>1. r \in Record /\ r.net \in Net
  BY DEF Ordered, Record
<1>2. Reaped(r) = [r EXCEPT !.net = IF r.net \in {"refused", "reset"} THEN "broken" ELSE r.net]
  BY DEF Reaped
<1>3. /\ Reaped(r) \in Record /\ Reaped(r).sock = r.sock /\ Reaped(r).buffer = r.buffer
      /\ Reaped(r).wire = r.wire /\ Reaped(r).written = r.written
      /\ Reaped(r).resolver = r.resolver
      /\ Reaped(r).net = IF r.net \in {"refused", "reset"} THEN "broken" ELSE r.net
  BY <1>1, <1>2 DEF Record, Net
<1> QED
  BY <1>3 DEF Ordered, InOrder, ClosedIsTold, TurnAsked, Live

\* XmppSocket::OnWriteEvent, whatever the kernel takes.
LEMMA OnWriteEventSound ==
    ASSUME Sizes, NEW r, NEW ev, Ordered(r, ev)
    PROVE  Sound(OnWriteEvent(r), ev) /\ OnWriteEvent(r).resolver = r.resolver
                                      /\ OnWriteEvent(r).sock.open = r.sock.open
<1> DEFINE n == Min({Len(r.buffer), Room - r.queued})
           sent == [r EXCEPT !.buffer = Consume(r, n), !.wire = r.wire \o Taken(r, n),
                             !.queued = r.queued + n]
<1>1. /\ r \in Record /\ r.buffer \in Seq(Byte) /\ r.wire \in Seq(Byte) /\ r.queued \in 0 .. Room
      /\ r.net \in Net /\ InOrder(r) /\ ClosedIsTold(r, ev)
  BY Typed DEF Ordered
<1>2. Len(r.buffer) \in Nat /\ Room \in Nat
  BY <1>1, LenProperties DEF Sizes
<1>3. n \in 0 .. Len(r.buffer) /\ r.queued + n \in 0 .. Room
  <2>1. n = IF Len(r.buffer) <= Room - r.queued THEN Len(r.buffer) ELSE Room - r.queued
    <3>1. Room - r.queued \in Int
      BY <1>1, <1>2
    <3> QED
      BY <1>2, <3>1, MinOfTwo
  <2> QED
    BY <1>1, <1>2, <2>1
<1> HIDE DEF n
<1>4. Ordered(sent, ev) /\ sent.sock = r.sock /\ sent.net = r.net /\ sent.resolver = r.resolver
  <2>1. /\ Taken(r, n) \in Seq(Byte) /\ Consume(r, n) \in Seq(Byte)
        /\ r.wire \o Taken(r, n) \in Seq(Byte)
        /\ (r.wire \o Taken(r, n)) \o Consume(r, n) = r.wire \o r.buffer
    BY <1>1, <1>3, Cut DEF Taken, Consume
  <2>2. /\ sent \in Record /\ sent.sock = r.sock /\ sent.net = r.net
        /\ sent.resolver = r.resolver /\ sent.written = r.written
        /\ sent.buffer = Consume(r, n) /\ sent.wire = r.wire \o Taken(r, n)
    BY <1>1, <1>3, <2>1 DEF Record
  <2> HIDE DEF sent
  <2>3. InOrder(sent)
    BY <1>1, <2>1, <2>2 DEF InOrder
  <2> QED
    BY <1>1, <2>2, <2>3 DEF Ordered, ClosedIsTold
<1>5. OnWriteEvent(r) =
        IF r.buffer = <<>> \/ ~r.sock.open THEN r
        ELSE IF r.net = "pending" THEN Block(r)
        ELSE IF r.net \notin {"up", "eof"} THEN Reaped(r)
        ELSE IF sent.buffer = <<>> THEN sent
        ELSE Block(sent)
  BY DEF OnWriteEvent, n
<1> HIDE DEF sent
<1>6. CASE r.buffer = <<>> \/ ~r.sock.open
  BY <1>5, <1>6 DEF Sound, TurnAsked, Live
<1>7. CASE r.buffer # <<>> /\ r.sock.open /\ r.net = "pending"
  BY <1>5, <1>7, BlockAsks
<1>8. CASE r.buffer # <<>> /\ r.sock.open /\ r.net \notin {"pending", "up", "eof"}
  BY <1>5, <1>8, ReapedSound DEF Sound
<1>9. CASE r.buffer # <<>> /\ r.sock.open /\ r.net \in {"up", "eof"}
  <2>1. CASE sent.buffer = <<>>
    BY <1>4, <1>5, <1>9, <2>1 DEF Sound, TurnAsked
  <2>2. CASE sent.buffer # <<>>
    BY <1>4, <1>5, <1>9, <2>2, BlockAsks
  <2> QED
    BY <2>1, <2>2
<1> QED
  BY <1>6, <1>7, <1>8, <1>9

\* XmppSocket::Write: behind what waits.
LEMMA WriteSound ==
    ASSUME Sizes, NEW r, NEW ev, Ordered(r, ev), NEW n \in Nat, r.written + n <= MaxBytes
    PROVE  Sound(Write(r, n), ev) /\ Write(r, n).resolver = r.resolver
                                  /\ Write(r, n).sock.open = r.sock.open
<1> DEFINE s == After(r.written, n)
           q == [r EXCEPT !.buffer = r.buffer \o s, !.written = r.written + n]
<1>1. /\ r \in Record /\ r.buffer \in Seq(Byte) /\ r.wire \in Seq(Byte) /\ r.written \in 0 .. MaxBytes
      /\ r.written \in Nat /\ r.wire \o r.buffer = First(r.written)
      /\ ClosedIsTold(r, ev)
  BY Typed DEF Ordered, InOrder
<1>2. /\ r.buffer \o s \in Seq(Byte)
      /\ r.wire \o (r.buffer \o s) = First(r.written + n)
  BY <1>1, NumbersGoOn
<1> HIDE DEF s
<1>3. r.written + n \in 0 .. MaxBytes
  BY <1>1 DEF Sizes
<1>4. /\ q \in Record /\ q.sock = r.sock /\ q.resolver = r.resolver /\ q.wire = r.wire
      /\ q.buffer = r.buffer \o s /\ q.written = r.written + n
  BY <1>1, <1>2, <1>3 DEF Record
<1>5. Write(r, n) = OnWriteEvent(q)
  BY DEF Write, s, After
<1> HIDE DEF q
<1>6. Ordered(q, ev)
  BY <1>1, <1>2, <1>4 DEF Ordered, InOrder, ClosedIsTold
<1> QED
  BY <1>4, <1>5, <1>6, OnWriteEventSound

LEMMA TellSound ==
    ASSUME NEW r, NEW ev, NEW e \in {"Connected", "Closed", "CloseEvent"}, Ordered(r, ev)
    PROVE  /\ Ordered(Tell(r, e), ev) /\ (TurnAsked(r, ev) => TurnAsked(Tell(r, e), ev))
           /\ Tell(r, e).sock = r.sock /\ Tell(r, e).resolver = r.resolver
           /\ Tell(r, e).state = r.state
<1>1. r \in Record /\ r.told \cup {e} \in SUBSET {"Connected", "Closed", "CloseEvent"}
  BY DEF Ordered, Record
<1>2. Tell(r, e) = [r EXCEPT !.told = r.told \cup {e}]
  BY DEF Tell
<1>3. /\ Tell(r, e) \in Record /\ Tell(r, e).sock = r.sock /\ Tell(r, e).resolver = r.resolver
      /\ Tell(r, e).state = r.state /\ Tell(r, e).wire = r.wire /\ Tell(r, e).net = r.net
      /\ Tell(r, e).buffer = r.buffer /\ Tell(r, e).written = r.written
  BY <1>1, <1>2 DEF Record
<1> QED
  BY <1>3 DEF Ordered, InOrder, ClosedIsTold, TurnAsked, Live

\* SocketDispatcher::Close.
LEMMA CloseSocketSound ==
    ASSUME NEW r, NEW ev, Ordered(r, ev)
    PROVE  Sound(CloseSocket(r), ev) /\ CloseSocket(r).resolver \in {"none", r.resolver}
<1>1. CASE ~r.sock.open
  BY <1>1 DEF CloseSocket, Sound, TurnAsked, Live
<1>2. CASE r.sock.open
  <2> DEFINE closed == [open |-> FALSE, state |-> "CS_CLOSED", enabled |-> {}]
  <2>1. closed \in SockType
    BY DEF SockType
  <2>2. CloseSocket(r) = [r EXCEPT !.sock = closed, !.resolver = "none"]
    BY <1>2 DEF CloseSocket
  <2>3. closed.open = FALSE /\ closed.state = "CS_CLOSED" /\ closed.enabled = {}
    OBVIOUS
  <2> HIDE DEF closed
  <2>4. /\ CloseSocket(r) \in Record /\ CloseSocket(r).sock = closed
        /\ CloseSocket(r).resolver = "none" /\ CloseSocket(r).wire = r.wire
        /\ CloseSocket(r).buffer = r.buffer /\ CloseSocket(r).written = r.written
    BY <2>1, <2>2 DEF Ordered, Record
  <2> QED
    BY <2>3, <2>4 DEF Sound, Ordered, InOrder, ClosedIsTold, TurnAsked, Live
<1> QED
  BY <1>1, <1>2

LEMMA StateSet ==
    ASSUME NEW r, NEW ev, NEW s \in {"CLOSED", "OPEN"}, Ordered(r, ev)
    PROVE  LET q == [r EXCEPT !.state = s] IN
           /\ Ordered(q, ev) /\ (TurnAsked(r, ev) => TurnAsked(q, ev))
           /\ q.resolver = r.resolver
<1> DEFINE q == [r EXCEPT !.state = s]
<1>1. /\ q \in Record /\ q.sock = r.sock /\ q.resolver = r.resolver /\ q.wire = r.wire
      /\ q.buffer = r.buffer /\ q.written = r.written /\ q.net = r.net
  BY DEF Ordered, Record
<1> HIDE DEF q
<1>2. Ordered(q, ev) /\ (TurnAsked(r, ev) => TurnAsked(q, ev)) /\ q.resolver = r.resolver
  BY <1>1 DEF Ordered, InOrder, ClosedIsTold, TurnAsked, Live
<1> QED
  BY <1>2 DEF q

LEMMA CloseSound ==
    ASSUME NEW r, NEW ev, Ordered(r, ev)
    PROVE  /\ Ordered(Close(r), ev) /\ (TurnAsked(r, ev) => TurnAsked(Close(r), ev))
           /\ Close(r).resolver \in {"none", r.resolver}
<1>1. CASE r.state # "OPEN"
  BY <1>1 DEF Close
<1>2. CASE r.state = "OPEN"
  <2> DEFINE c == CloseSocket(r)
             q == [c EXCEPT !.state = "CLOSED"]
  <2>1. Ordered(c, ev) /\ TurnAsked(c, ev) /\ c.resolver \in {"none", r.resolver}
    BY CloseSocketSound DEF Sound
  <2> HIDE DEF c
  <2>2. Ordered(q, ev) /\ TurnAsked(q, ev) /\ q.resolver = c.resolver
    BY <2>1, StateSet
  <2> HIDE DEF q
  <2>3. /\ Ordered(Tell(q, "Closed"), ev) /\ TurnAsked(Tell(q, "Closed"), ev)
        /\ Tell(q, "Closed").resolver = q.resolver
    BY <2>2, TellSound
  <2>4. Close(r) = Tell(q, "Closed")
    BY <1>2 DEF Close, q, c
  <2> QED
    BY <2>1, <2>2, <2>3, <2>4
<1> QED
  BY <1>1, <1>2

LEMMA UseSound ==
    ASSUME Sizes, NEW r, NEW ev, Sound(r, ev), NEW op \in Op, NEW n \in 1 .. MaxWrite
    PROVE  Sound(Use(r, op, n), ev) /\ Use(r, op, n).resolver \in {"none", r.resolver}
<1>1. CASE op = "nothing"
  BY <1>1 DEF Use
<1>2. CASE op = "write"
  <2>1. CASE r.written + n > MaxBytes
    BY <1>2, <2>1 DEF Use
  <2>2. CASE ~(r.written + n > MaxBytes)
    <3>1. r.written \in Nat /\ n \in Nat /\ r.written + n <= MaxBytes /\ Ordered(r, ev)
      BY <2>2, Typed DEF Sizes, Sound, Ordered
    <3>2. Use(r, op, n) = Write(r, n)
      BY <1>2, <2>2 DEF Use
    <3> QED
      BY <3>1, <3>2, WriteSound
  <2> QED
    BY <2>1, <2>2
<1>3. CASE op = "close"
  <2>1. Use(r, op, n) = Close(r)
    BY <1>3 DEF Use
  <2> QED
    BY <2>1, CloseSound DEF Sound
<1> QED
  BY <1>1, <1>2, <1>3 DEF Op

\* PhysicalSocket::Recv.
LEMMA ReadSound ==
    ASSUME NEW r, NEW ev, Sound(r, ev)
    PROVE  Sound(Read(r), ev) /\ Read(r).resolver = r.resolver
<1>1. CASE ~r.sock.open
  BY <1>1 DEF Read
<1>2. CASE r.sock.open
  <2> DEFINE e == IF r.data \/ r.net \in {"up", "eof", "broken"} THEN r.sock.enabled \cup {"READ"}
                  ELSE r.sock.enabled
             d == [r EXCEPT !.data = FALSE]
             q == [d EXCEPT !.sock.enabled = e]
  <2>1. Read(r) = Reaped(q)
    BY <1>2 DEF Read
  <2>2. r \in Record /\ Ordered(r, ev) /\ TurnAsked(r, ev) /\ InOrder(r) /\ ClosedIsTold(r, ev)
    BY DEF Sound, Ordered
  <2>3. /\ e \in SUBSET {"CONNECT", "READ", "WRITE"}
        /\ "CONNECT" \in e <=> "CONNECT" \in r.sock.enabled
        /\ "WRITE" \in e <=> "WRITE" \in r.sock.enabled
    BY <2>2 DEF Record, SockType
  <2> HIDE DEF e
  <2>4. /\ d \in Record /\ d.sock = r.sock /\ d.net = r.net /\ d.buffer = r.buffer
        /\ d.wire = r.wire /\ d.written = r.written /\ d.resolver = r.resolver
    BY <2>2 DEF Record
  <2> HIDE DEF d
  <2>5. /\ q \in Record /\ q.sock.enabled = e
        /\ q.sock.open = r.sock.open /\ q.sock.state = r.sock.state
        /\ q.net = r.net /\ q.buffer = r.buffer /\ q.wire = r.wire /\ q.written = r.written
        /\ q.resolver = r.resolver
    BY <2>3, <2>4, Asks
  <2> HIDE DEF q
  <2>6. Ordered(q, ev) /\ TurnAsked(q, ev)
    BY <2>2, <2>3, <2>5 DEF Ordered, InOrder, ClosedIsTold, TurnAsked, Live
  <2> QED
    BY <2>1, <2>5, <2>6, ReapedSound DEF Sound
<1> QED
  BY <1>1, <1>2

\* PhysicalSocket::DoConnect, when nothing has yet to be delivered.
LEMMA DoConnectSound ==
    ASSUME NEW r, Sound(r, {}), NEW outcome \in Outcome
    PROVE  Sound(DoConnect(r, outcome), {}) /\ DoConnect(r, outcome).resolver = r.resolver
<1>1. CASE outcome = "failed"
  BY <1>1 DEF DoConnect
<1>2. ASSUME NEW net1 \in {"up", "pending"}, NEW st \in {"CS_CONNECTED", "CS_CONNECTING"},
             NEW more \in {{"READ", "WRITE"}, {"CONNECT", "READ", "WRITE"}}
      PROVE  LET q == [r EXCEPT !.net = net1, !.sock.state = st,
                                !.sock.enabled = r.sock.enabled \cup more]
             IN  Sound(q, {}) /\ q.resolver = r.resolver
  <2> DEFINE e == r.sock.enabled \cup more
             s1 == [r.sock EXCEPT !.state = st]
             sk == [s1 EXCEPT !.enabled = e]
             q == [r EXCEPT !.net = net1, !.sock.state = st, !.sock.enabled = e]
  <2>1. r \in Record /\ InOrder(r)
    BY DEF Sound, Ordered
  <2>2. e \in SUBSET {"CONNECT", "READ", "WRITE"} /\ "WRITE" \in e
    BY <2>1 DEF Record, SockType
  <2> HIDE DEF e
  <2>7. s1 \in SockType /\ s1.state = st
    BY <2>1 DEF Record, SockType
  <2>3. q = [r EXCEPT !.net = net1, !.sock = sk]
    <3> DEFINE r1 == [r EXCEPT !.net = net1]
               r2 == [r1 EXCEPT !.sock = s1]
    <3>1. r1 \in Record /\ r1.sock = r.sock
      BY <2>1 DEF Record, Net
    <3>2. q = [[r1 EXCEPT !.sock.state = st] EXCEPT !.sock.enabled = e]
      OBVIOUS
    <3> HIDE DEF r1
    <3>3. [r1 EXCEPT !.sock.state = st] = r2
      BY <3>1 DEF Record, SockType
    <3>4. r2 \in Record /\ r2.sock = s1
      BY <2>7, <3>1 DEF Record
    <3>5. r2 = [r EXCEPT !.net = net1, !.sock = s1]
      BY DEF r1
    <3> HIDE DEF r2
    <3>6. [r2 EXCEPT !.sock.enabled = e] = [r2 EXCEPT !.sock = sk]
      BY <3>4 DEF Record, SockType
    <3> HIDE DEF s1, sk
    <3>7. [r2 EXCEPT !.sock = sk] = [r EXCEPT !.net = net1, !.sock = sk]
      BY <2>1, <3>5 DEF Record
    <3> QED
      BY <3>2, <3>3, <3>6, <3>7
  <2>4. sk \in SockType /\ sk.state = st /\ sk.enabled = e
    BY <2>7, <2>2 DEF SockType
  <2> HIDE DEF sk, q, s1
  <2>5. /\ q \in Record /\ q.sock = sk /\ q.buffer = r.buffer /\ q.wire = r.wire
        /\ q.written = r.written /\ q.resolver = r.resolver
    BY <2>1, <2>3, <2>4 DEF Record, Net
  <2>6. Sound(q, {}) /\ q.resolver = r.resolver
    BY <2>1, <2>2, <2>4, <2>5 DEF Sound, Ordered, InOrder, ClosedIsTold, TurnAsked
  <2> QED
    BY <2>6 DEF q, e
<1>3. CASE outcome = "up"
  BY <1>2, <1>3 DEF DoConnect
<1>4. CASE outcome = "pending"
  BY <1>2, <1>4 DEF DoConnect
<1> QED
  BY <1>1, <1>3, <1>4 DEF Outcome

\* The handler of an event that was just turned off.
LEMMA HandleSound ==
    ASSUME Sizes, NEW r, NEW ev, NEW e \in {"CONNECT", "READ", "WRITE", "CLOSE"},
           Ordered(r, ev), e # "WRITE" => TurnAsked(r, ev), NEW op \in Op, NEW n \in 1 .. MaxWrite
    PROVE  Sound(Handle(r, e, op, n), ev)
<1>1. CASE e = "CONNECT"
  <2> DEFINE t == Tell(r, "Connected")
             q == [t EXCEPT !.state = "OPEN"]
  <2>1. Ordered(t, ev) /\ TurnAsked(t, ev)
    BY <1>1, TellSound
  <2> HIDE DEF t
  <2>2. Sound(q, ev)
    BY <2>1, StateSet DEF Sound
  <2>3. Handle(r, e, op, n) = Use(q, op, n)
    BY <1>1 DEF Handle, t
  <2> HIDE DEF q
  <2> QED
    BY <2>2, <2>3, UseSound
<1>2. CASE e = "READ"
  <2>1. Sound(Read(r), ev)
    BY <1>2, ReadSound DEF Sound
  <2>2. Handle(r, e, op, n) = Use(Read(r), op, n)
    BY <1>2 DEF Handle
  <2> QED
    BY <2>1, <2>2, UseSound
<1>3. CASE e = "WRITE"
  BY <1>3, OnWriteEventSound DEF Handle
<1>4. CASE e = "CLOSE"
  <2>1. Sound(Tell(r, "CloseEvent"), ev)
    BY <1>4, TellSound DEF Sound
  <2>2. Handle(r, e, op, n) = Use(Tell(r, "CloseEvent"), op, n)
    BY <1>4 DEF Handle
  <2> QED
    BY <2>1, <2>2, UseSound
<1> QED
  BY <1>1, <1>2, <1>3, <1>4

-----------------------------------------------------------------------------
(* The steps.                                                              *)

LEMMA Fields ==
    /\ Now.state = state /\ Now.buffer = buffer /\ Now.sock = sock /\ Now.net = net
    /\ Now.queued = queued /\ Now.data = data /\ Now.resolver = resolver
    /\ Now.wire = wire /\ Now.written = written /\ Now.told = told
BY DEF Now

\* The variables become what the call makes of them.
LEMMA Became ==
    ASSUME NEW r \in Record, Become(r)
    PROVE  Now' = r
<1>1. r = [state |-> r.state, buffer |-> r.buffer, sock |-> r.sock, net |-> r.net,
           queued |-> r.queued, data |-> r.data, resolver |-> r.resolver,
           wire |-> r.wire, written |-> r.written, told |-> r.told]
  BY DEF Record
<1>2. /\ state' = r.state /\ buffer' = r.buffer /\ sock' = r.sock /\ net' = r.net
      /\ queued' = r.queued /\ data' = r.data /\ resolver' = r.resolver
      /\ wire' = r.wire /\ written' = r.written /\ told' = r.told
  BY DEF Become
<1> HIDE DEF Record
<1> QED
  BY <1>1, <1>2 DEF Now

LEMMA Steps ==
    ASSUME NEW r, Become(r), Sound(r, events'), asked',
           events' \subseteq {"CONNECT", "READ", "WRITE", "CLOSE"}
    PROVE  IInv'
<1>1. Now' = r
  BY Became DEF Sound, Ordered
<1> QED
  BY <1>1 DEF IInv, NotYet

LEMMA CallKeeps ==
    ASSUME Sizes, IInv, Call
    PROVE  IInv'
<1>1. PICK op \in Op, n \in 1 .. MaxWrite : Become(Use(Now, op, n))
  BY DEF Call
<1>2. events' = events /\ asked'
  BY DEF Call
<1>3. Sound(Use(Now, op, n), events)
  BY UseSound DEF IInv
<1> QED
  BY <1>1, <1>2, <1>3, Steps DEF IInv

LEMMA DestroyKeeps ==
    ASSUME IInv, Destroy
    PROVE  IInv'
<1>1. Become(CloseSocket(Close(Now))) /\ events' = events /\ asked'
  BY DEF Destroy
<1>2. Ordered(Close(Now), events)
  BY CloseSound DEF IInv, Sound
<1>3. Sound(CloseSocket(Close(Now)), events)
  BY <1>2, CloseSocketSound
<1> QED
  BY <1>1, <1>3, Steps DEF IInv

\* A new socket below.
LEMMA CreatedSound ==
    ASSUME IInv, ~asked
    PROVE  /\ Sound(Created, {}) /\ Created.buffer = <<>> /\ Created.sock.enabled = {}
           /\ Created.resolver = "none" /\ events = {}
<1>1. /\ Now \in Record /\ InOrder(Now) /\ Now.buffer = <<>> /\ Now.sock.enabled = {}
      /\ Now.resolver = "none" /\ events = {}
  BY Fields DEF IInv, NotYet, Sound, Ordered
<1> DEFINE sk == [Now.sock EXCEPT !.open = TRUE]
<1>2. /\ sk \in SockType /\ sk.enabled = {} /\ Created = [Now EXCEPT !.sock = sk]
  BY <1>1 DEF Created, Record, SockType
<1> HIDE DEF sk
<1>3. /\ Created \in Record /\ Created.sock = sk /\ Created.buffer = Now.buffer
      /\ Created.wire = Now.wire /\ Created.written = Now.written
      /\ Created.resolver = Now.resolver
  BY <1>1, <1>2 DEF Record
<1> QED
  BY <1>1, <1>2, <1>3 DEF Sound, Ordered, InOrder, ClosedIsTold, TurnAsked

LEMMA ConnectAddressKeeps ==
    ASSUME IInv, ConnectAddress
    PROVE  IInv'
<1>1. PICK outcome \in Outcome :
          Become(DoConnect(Created, outcome)) /\ asked' = (outcome # "failed")
  BY DEF ConnectAddress
<1>2. ~asked /\ events' = events
  BY DEF ConnectAddress
<1>3. /\ Sound(Created, {}) /\ Created.buffer = <<>> /\ Created.sock.enabled = {}
      /\ Created.resolver = "none" /\ events = {}
  BY <1>2, CreatedSound
<1>4. Sound(DoConnect(Created, outcome), {})
  BY <1>3, DoConnectSound
<1>5. CASE outcome = "failed"
  <2>1. DoConnect(Created, outcome) = Created
    BY <1>5 DEF DoConnect
  <2>2. Now' = Created
    BY <1>1, <1>3, <2>1, Became DEF Sound, Ordered
  <2>3. buffer' = <<>> /\ sock'.enabled = {} /\ resolver' = "none"
    BY <1>1, <1>3, <2>1 DEF Become
  <2> QED
    BY <1>2, <1>3, <2>2, <2>3 DEF IInv, NotYet
<1>6. CASE outcome # "failed"
  BY <1>1, <1>2, <1>3, <1>4, <1>6, Steps
<1> QED
  BY <1>5, <1>6

LEMMA ConnectNameKeeps ==
    ASSUME IInv, ConnectName
    PROVE  IInv'
<1>1. /\ Become([Created EXCEPT !.sock.state = "CS_CONNECTING", !.resolver = "busy"])
      /\ ~asked /\ asked' /\ events' = events
  BY DEF ConnectName
<1>2. /\ Sound(Created, {}) /\ Created.buffer = <<>> /\ Created.sock.enabled = {}
      /\ events = {}
  BY <1>1, CreatedSound
<1> DEFINE sk == [Created.sock EXCEPT !.state = "CS_CONNECTING"]
           q == [Created EXCEPT !.sock = sk, !.resolver = "busy"]
<1>3. sk \in SockType /\ sk.enabled = {} /\ sk.state = "CS_CONNECTING"
  BY <1>2 DEF Sound, Ordered, Record, SockType
<1>4. q = [Created EXCEPT !.sock.state = "CS_CONNECTING", !.resolver = "busy"]
  BY <1>2 DEF Sound, Ordered, Record, SockType
<1> HIDE DEF sk
<1>5. /\ q \in Record /\ q.sock = sk /\ q.buffer = <<>> /\ q.wire = Created.wire
      /\ q.written = Created.written
  BY <1>2, <1>3 DEF Sound, Ordered, Record
<1> HIDE DEF q
<1>6. Sound(q, {})
  BY <1>2, <1>3, <1>5 DEF Sound, Ordered, InOrder, ClosedIsTold, TurnAsked
<1> QED
  BY <1>1, <1>2, <1>4, <1>6, Steps

LEMMA OnResolveResultKeeps ==
    ASSUME IInv, OnResolveResult
    PROVE  IInv'
<1> DEFINE r == [Now EXCEPT !.resolver = "done"]
<1>1. /\ events = {} /\ events' = {} /\ asked' = asked /\ resolver = "busy"
      /\ \/ Become(Tell(CloseSocket(r), "CloseEvent"))
         \/ \E outcome \in Outcome :
                Become(IF outcome = "failed" THEN Tell(r, "CloseEvent")
                       ELSE DoConnect(r, outcome))
  BY DEF OnResolveResult
<1>2. asked' /\ Now \in Record /\ Sound(Now, {})
  BY <1>1 DEF IInv, NotYet, Sound, Ordered
<1>3. Sound(r, {})
  <2>1. /\ r \in Record /\ r.sock = Now.sock /\ r.wire = Now.wire /\ r.net = Now.net
        /\ r.buffer = Now.buffer /\ r.written = Now.written
    BY <1>2 DEF Record
  <2> HIDE DEF r
  <2> QED
    BY <1>2, <2>1 DEF Sound, Ordered, InOrder, ClosedIsTold, TurnAsked, Live
<1> HIDE DEF r
<1>4. CASE Become(Tell(CloseSocket(r), "CloseEvent"))
  <2>1. Sound(CloseSocket(r), {})
    BY <1>3, CloseSocketSound DEF Sound
  <2>2. Sound(Tell(CloseSocket(r), "CloseEvent"), {})
    BY <2>1, TellSound DEF Sound
  <2> QED
    BY <1>1, <1>2, <1>4, <2>2, Steps
<1>5. ASSUME NEW outcome \in Outcome,
             Become(IF outcome = "failed" THEN Tell(r, "CloseEvent") ELSE DoConnect(r, outcome))
      PROVE  IInv'
  <2>1. Sound(Tell(r, "CloseEvent"), {})
    BY <1>3, TellSound DEF Sound
  <2>2. Sound(DoConnect(r, outcome), {})
    BY <1>3, DoConnectSound
  <2>3. CASE outcome = "failed"
    BY <1>1, <1>2, <1>5, <2>1, <2>3, Steps
  <2>4. CASE outcome # "failed"
    BY <1>1, <1>2, <1>5, <2>2, <2>4, Steps
  <2> QED
    BY <2>3, <2>4
<1> QED
  BY <1>1, <1>4, <1>5

\* A close is told with the state it leaves; a connect that is told was not closed.
LEMMA OnPreEventKeeps ==
    ASSUME IInv, OnPreEvent
    PROVE  IInv'
<1> DEFINE close == "CLOSE" \in Events
           connect == "CONNECT" \in Events
           st == IF close THEN "CS_CLOSED" ELSE IF connect THEN "CS_CONNECTED" ELSE sock.state
           sk == [sock EXCEPT !.state = st]
<1>1. /\ events = {} /\ Events # {} /\ events' = Events /\ sock' = sk
      /\ net' = Reaped(Now).net /\ asked' = asked
      /\ state' = state /\ buffer' = buffer /\ resolver' = resolver /\ queued' = queued
      /\ data' = data /\ wire' = wire /\ written' = written /\ told' = told
  BY DEF OnPreEvent
<1>2. /\ Now \in Record /\ InOrder(Now) /\ ClosedIsTold(Now, {}) /\ TurnAsked(Now, {})
      /\ sock \in SockType /\ net \in Net
  BY <1>1, Fields, Typed DEF IInv, Sound, Ordered
<1>3. /\ Events \subseteq {"CONNECT", "READ", "WRITE", "CLOSE"}
      /\ connect => "CONNECT" \in sock.enabled
      /\ sock.enabled # {}
  BY <1>1 DEF Events, Asked, Connecting
<1> HIDE DEF close, connect
<1>4. st \in {"CS_CLOSED", "CS_CONNECTING", "CS_CONNECTED"}
  BY <1>2 DEF SockType
<1>5. sk \in SockType /\ sk.state = st /\ sk.enabled = sock.enabled /\ sk.open = sock.open
  BY <1>2, <1>4 DEF SockType
<1>6. net' = (IF net \in {"refused", "reset"} THEN "broken" ELSE net) /\ net' \in Net
  BY <1>1, <1>2, Fields DEF Reaped, Record, Net
<1>7. "CONNECT" \in sock.enabled => sock.state # "CS_CLOSED"
  BY <1>2, Fields DEF ClosedIsTold
<1> HIDE DEF st, sk
<1>8. Now' \in Record /\ InOrder(Now')
  BY <1>1, <1>2, <1>5, <1>6 DEF Now, Record, InOrder
<1>9. ClosedIsTold(Now', events')
  <2>1. "CONNECT" \in sock.enabled /\ ~close => st # "CS_CLOSED"
    BY <1>7 DEF st
  <2>2. close => st = "CS_CLOSED"
    BY DEF st
  <2>3. Now'.sock = sk /\ (close <=> "CLOSE" \in events')
    BY <1>1 DEF Now, close
  <2> QED
    BY <1>5, <2>1, <2>2, <2>3 DEF ClosedIsTold
<1>10. TurnAsked(Now', events')
  <2>1. SUFFICES ASSUME buffer # <<>>, sk.open, st # "CS_CLOSED", net' \in {"pending", "up", "eof"}
                 PROVE  "WRITE" \in sk.enabled
    BY <1>1, <1>5 DEF Now, TurnAsked, Live
  <2>2. sock.state # "CS_CLOSED"
    BY <1>3, <1>7, <2>1 DEF st
  <2>3. net \in {"pending", "up", "eof"} /\ sock.open
    BY <1>5, <1>6, <2>1
  <2> QED
    BY <1>2, <1>5, <2>1, <2>2, <2>3, Fields DEF TurnAsked, Live
<1>11. asked'
  BY <1>1, <1>3 DEF IInv, NotYet
<1> QED
  BY <1>1, <1>3, <1>8, <1>9, <1>10, <1>11 DEF IInv, Sound, Ordered, NotYet

\* The first of the events in the order of their delivery is one of them.
LEMMA FirstEvent ==
    ASSUME NEW ev, ev \subseteq {"CONNECT", "READ", "WRITE", "CLOSE"}, ev # {}
    PROVE  Order[Min({k \in DOMAIN Order : Order[k] \in ev})] \in ev
<1> DEFINE K == {k \in DOMAIN Order : Order[k] \in ev}
<1>1. DOMAIN Order = 1 .. 4
  BY DEF Order
<1>2. /\ Order[1] = "CONNECT" /\ Order[2] = "READ" /\ Order[3] = "WRITE" /\ Order[4] = "CLOSE"
  BY DEF Order
<1>3. K \subseteq {1, 2, 3, 4} /\ K # {}
  <2>1. DOMAIN Order = {1, 2, 3, 4}
    BY <1>1
  <2>2. PICK x \in ev : TRUE
    OBVIOUS
  <2>3. x \in {"CONNECT", "READ", "WRITE", "CLOSE"}
    OBVIOUS
  <2>4. \E k \in {1, 2, 3, 4} : Order[k] = x
    BY <1>2, <2>3
  <2> QED
    BY <2>1, <2>4
<1> HIDE DEF K
<1>4. \E x \in K : \A y \in K : x <= y
  <2>1. CASE 1 \in K
    BY <1>3, <2>1
  <2>2. CASE 1 \notin K /\ 2 \in K
    BY <1>3, <2>2
  <2>3. CASE 1 \notin K /\ 2 \notin K /\ 3 \in K
    BY <1>3, <2>3
  <2>4. CASE 1 \notin K /\ 2 \notin K /\ 3 \notin K
    <3>1. K = {4}
      BY <1>3, <2>4
    <3> QED
      BY <3>1
  <2> QED
    BY <2>1, <2>2, <2>3, <2>4
<1>5. Min(K) \in K
  BY <1>4 DEF Min
<1> QED
  BY <1>5 DEF K

LEMMA OnEventKeeps ==
    ASSUME Sizes, IInv, OnEvent
    PROVE  IInv'
<1> DEFINE e == Order[Min({k \in DOMAIN Order : Order[k] \in events})]
           ev == events \ {e}
           on == IF e = "CLOSE" THEN {} ELSE Now.sock.enabled \ {e}
           q == [Now EXCEPT !.sock.enabled = on]
<1>1. PICK op \in Op, n \in 1 .. MaxWrite :
          Become(Handle([Now EXCEPT !.sock.enabled = IF e = "CLOSE" THEN {} ELSE @ \ {e}],
                        e, op, n))
  BY DEF OnEvent
<1>2. /\ e \in events /\ events' = ev /\ asked' = asked
      /\ events \subseteq {"CONNECT", "READ", "WRITE", "CLOSE"}
  BY FirstEvent DEF OnEvent, IInv
<1>3. Become(Handle(q, e, op, n))
  BY <1>1
<1> HIDE DEF e
<1>4. asked'
  BY <1>2 DEF IInv, NotYet
<1>5. Now \in Record /\ InOrder(Now) /\ ClosedIsTold(Now, events) /\ TurnAsked(Now, events)
  BY DEF IInv, Sound, Ordered
<1>6. on \in SUBSET {"CONNECT", "READ", "WRITE"} /\ on \subseteq Now.sock.enabled
  BY <1>5 DEF Record, SockType
<1>7. "CONNECT" \in on => e # "CLOSE" /\ "CONNECT" \in Now.sock.enabled
  BY <1>6
<1>8. e \notin {"WRITE", "CLOSE"} /\ "WRITE" \in Now.sock.enabled => "WRITE" \in on
  OBVIOUS
<1> HIDE DEF on
<1>9. /\ q \in Record /\ q.sock.enabled = on
      /\ q.sock.open = Now.sock.open /\ q.sock.state = Now.sock.state
      /\ q.net = Now.net /\ q.buffer = Now.buffer /\ q.wire = Now.wire
      /\ q.written = Now.written
  BY <1>5, <1>6, Asks
<1> HIDE DEF q
<1>10. Ordered(q, ev)
  <2>1. ClosedIsTold(q, ev)
    BY <1>2, <1>5, <1>7, <1>9 DEF ClosedIsTold
  <2> QED
    BY <1>5, <1>9, <2>1 DEF Ordered, InOrder
<1>11. e # "WRITE" => TurnAsked(q, ev)
  <2>1. SUFFICES ASSUME e # "WRITE", q.buffer # <<>>, Live(q)
                 PROVE  "WRITE" \in q.sock.enabled \cup ev
    BY DEF TurnAsked
  <2>2. Live(Now) /\ Now.buffer # <<>>
    BY <1>9, <2>1 DEF Live
  <2>3. e # "CLOSE"
    BY <1>2, <1>5, <2>2 DEF ClosedIsTold, Live
  <2>4. "WRITE" \in Now.sock.enabled \cup events
    BY <1>5, <2>2 DEF TurnAsked
  <2> QED
    BY <1>8, <1>9, <2>1, <2>3, <2>4
<1>12. e \in {"CONNECT", "READ", "WRITE", "CLOSE"} /\ ev \subseteq {"CONNECT", "READ", "WRITE", "CLOSE"}
  BY <1>2
<1> HIDE DEF ev
<1>13. Sound(Handle(q, e, op, n), ev)
  BY <1>10, <1>11, <1>12, HandleSound
<1> QED
  BY <1>2, <1>3, <1>4, <1>12, <1>13, Steps

\* What the network does, and a step of nobody.
LEMMA OutsideKeeps ==
    ASSUME Sizes, IInv,
           /\ state' = state /\ buffer' = buffer /\ sock' = sock /\ resolver' = resolver
           /\ wire' = wire /\ written' = written /\ events' = events /\ asked' = asked
           /\ told' = told,
           net' \in Net, queued' \in 0 .. Room, data' \in BOOLEAN,
           net' \in {"pending", "up", "eof"} => net \in {"pending", "up", "eof"}
    PROVE  IInv'
<1>1. Now \in Record /\ InOrder(Now) /\ ClosedIsTold(Now, events) /\ TurnAsked(Now, events)
  BY DEF IInv, Sound, Ordered
<1>2. /\ Now'.sock = Now.sock /\ Now'.buffer = Now.buffer /\ Now'.wire = Now.wire
      /\ Now'.written = Now.written
      /\ Now'.net \in {"pending", "up", "eof"} => Now.net \in {"pending", "up", "eof"}
  BY DEF Now
<1>3. Now' \in Record
  BY <1>1 DEF Now, Record
<1> QED
  BY <1>1, <1>2, <1>3 DEF IInv, NotYet, Sound, Ordered, InOrder, ClosedIsTold, TurnAsked, Live

LEMMA NetworkKeeps ==
    ASSUME Sizes, IInv, Network
    PROVE  IInv'
<1>1. net \in Net /\ queued \in 0 .. Room /\ data \in BOOLEAN
  BY Fields, Typed DEF IInv, Sound, Ordered
<1>2. net' \in Net /\ queued' \in 0 .. Room /\ data' \in BOOLEAN
  BY <1>1 DEF Network, Net
<1>3. net' \in {"pending", "up", "eof"} => net \in {"pending", "up", "eof"}
  BY DEF Network
<1> QED
  BY <1>2, <1>3, OutsideKeeps DEF Network

LEMMA DrainKeeps ==
    ASSUME Sizes, IInv, Drain
    PROVE  IInv'
<1>1. net \in Net /\ queued \in 0 .. Room /\ data \in BOOLEAN
  BY Fields, Typed DEF IInv, Sound, Ordered
<1>2. net' \in Net /\ queued' \in 0 .. Room /\ data' \in BOOLEAN
  BY <1>1 DEF Drain, Sizes
<1> QED
  BY <1>2, OutsideKeeps DEF Drain

LEMMA StutterKeeps ==
    ASSUME Sizes, IInv, UNCHANGED vars
    PROVE  IInv'
<1>1. net \in Net /\ queued \in 0 .. Room /\ data \in BOOLEAN
  BY Fields, Typed DEF IInv, Sound, Ordered
<1> QED
  BY <1>1, OutsideKeeps DEF vars

-----------------------------------------------------------------------------

LEMMA InitHolds ==
    ASSUME Sizes, Init
    PROVE  IInv
<1>1. Now \in Record
  <2>1. <<>> \in Seq(Byte) /\ 0 \in 0 .. Room /\ 0 \in 0 .. MaxBytes
    BY EmptySeq DEF Sizes
  <2>2. sock \in SockType
    BY DEF Init, SockType
  <2>3. /\ state = "CLOSED" /\ buffer = <<>> /\ resolver = "none" /\ net = "none"
        /\ queued = 0 /\ data = FALSE /\ wire = <<>> /\ written = 0 /\ told = {}
    BY DEF Init
  <2> QED
    BY <2>1, <2>2, <2>3 DEF Now, Record, Net
<1>2. InOrder(Now)
  <2>1. First(0) = <<>>
    <3>1. First(0) \in [1 .. 0 -> Byte]
      BY DEF First, Byte
    <3>2. First(0) \in Seq(Byte) /\ Len(First(0)) = 0
      BY <3>1, IsASeq
    <3> QED
      BY <3>2, EmptySeq
  <2>2. Now.wire = <<>> /\ Now.buffer = <<>> /\ Now.written = 0
    BY DEF Init, Now
  <2>3. <<>> \o <<>> = <<>>
    BY EmptySeq, ConcatEmptySeq
  <2> QED
    BY <2>1, <2>2, <2>3 DEF InOrder
<1>3. ClosedIsTold(Now, events) /\ TurnAsked(Now, events) /\ NotYet
  BY DEF Init, Now, ClosedIsTold, TurnAsked, NotYet
<1> QED
  BY <1>1, <1>2, <1>3 DEF Init, IInv, Sound, Ordered

LEMMA SocketNext ==
    ASSUME Sizes
    PROVE  IInv /\ [Next]_vars => IInv'
<1> SUFFICES ASSUME IInv, [Next]_vars
             PROVE  IInv'
  OBVIOUS
<1>1. CASE Call
  BY <1>1, CallKeeps
<1>2. CASE Destroy
  BY <1>2, DestroyKeeps
<1>3. CASE ConnectAddress
  BY <1>3, ConnectAddressKeeps
<1>4. CASE ConnectName
  BY <1>4, ConnectNameKeeps
<1>5. CASE OnResolveResult
  BY <1>5, OnResolveResultKeeps
<1>6. CASE OnPreEvent
  BY <1>6, OnPreEventKeeps
<1>7. CASE OnEvent
  BY <1>7, OnEventKeeps
<1>8. CASE Network
  BY <1>8, NetworkKeeps
<1>9. CASE Drain
  BY <1>9, DrainKeeps
<1>10. CASE UNCHANGED vars
  BY <1>10, StutterKeeps
<1> QED
  BY <1>1, <1>2, <1>3, <1>4, <1>5, <1>6, <1>7, <1>8, <1>9, <1>10 DEF Next

\* The inductive invariant of the socket: what waits on a connection that is made
\* or on its way has asked for WRITE, and a socket that was found closed waits for
\* no connect (SocketDispatcher::OnPreEvent, PhysicalSocket::DoConnect and Send).
THEOREM BytesHold ==
    ASSUME Sizes
    PROVE  Spec => []IInv
<1>1. Init => IInv
  BY InitHolds
<1>2. IInv /\ [Next]_vars => IInv'
  BY SocketNext
<1> QED
  BY <1>1, <1>2, PTL DEF Spec

LEMMA InvSuffices ==
    ASSUME Sizes, IInv
    PROVE  BytesSentInOrder
<1>1. Now \in Record /\ InOrder(Now) /\ TurnAsked(Now, events)
  BY DEF IInv, Sound, Ordered
<1>2. TypeOK
  BY <1>1, Fields, Typed DEF IInv, TypeOK, SockType
<1>3. wire \o buffer = [k \in 1 .. written |-> k]
  BY <1>1, Fields DEF InOrder, First
<1>4. buffer # <<>> /\ sock.open /\ sock.state # "CS_CLOSED" /\ net \in {"up", "eof"} =>
          "WRITE" \in sock.enabled \cup events
  BY <1>1, Fields DEF TurnAsked, Live
<1> QED
  BY <1>2, <1>3, <1>4 DEF BytesSentInOrder, BytesInOrder

\* Whatever a send takes and whichever handler writes or closes, the kernel gets
\* the bytes in the order of the Writes and each once, and what waits on a good
\* connection has asked for its turn (XmppSocket::Write and OnWriteEvent).
THEOREM BytesStayInOrder ==
    ASSUME Sizes
    PROVE  Spec => []BytesSentInOrder
<1>1. IInv => BytesSentInOrder
  BY InvSuffices
<1> QED
  BY <1>1, BytesHold, PTL

-----------------------------------------------------------------------------
(***************************************************************************)
(* The pump.  Its client has a socket from the first login until it is     *)
(* disconnected, is deleted from the list of the runner, and what it left  *)
(* behind tells what its engine was.                                       *)
(***************************************************************************)
Message == {"LOGIN", "DISCONNECT", "WAKE"}
WakeUpWaits == \E k \in 1 .. Len(pump_queue) : pump_queue[k] = "WAKE"

PumpTypes ==
    /\ pump_queue \in Seq(Message)
    /\ pump_pump_state \in XmppPump!EngineState /\ pump_told = pump_pump_state
    /\ pump_socket \in BOOLEAN /\ pump_blocked \in BOOLEAN
    /\ pump_task \in {"INIT", "RESPONSE", "ENDED", "DELETED"}
    /\ pump_engine \in XmppPump!EngineState
    /\ pump_entries \in Nat /\ pump_deletions \in Nat
    /\ pump_early \in BOOLEAN

\* What the client is tells what its engine is.
PumpClient ==
    /\ ~pump_socket => /\ pump_engine \in {"NONE", "CLOSED"} /\ pump_task # "RESPONSE"
                       /\ pump_entries = 0 \/ pump_task = "ENDED"
    /\ pump_socket => pump_engine # "NONE"
    /\ pump_task = "INIT" => pump_engine \in {"NONE", "START"}
    /\ pump_task = "ENDED" => pump_engine = "CLOSED"
    /\ pump_task = "DELETED" => pump_engine \in {"START", "CLOSED"}

PumpOnce ==
    /\ pump_touched = FALSE
    /\ pump_task # "DELETED" => pump_deletions = 0
    /\ pump_early \/ pump_deletions + pump_entries <= 1

PumpTold ==
    /\ pump_told = "OPEN" => pump_engine = "OPEN"
    /\ pump_told = "CLOSED" => \/ pump_engine \in {"NONE", "CLOSED"}
                               \/ pump_engine = "START" /\ pump_task = "DELETED"

PumpWoken == pump_entries > 0 /\ (pump_task = "ENDED" \/ ~pump_blocked) => WakeUpWaits

PumpInv == PumpTypes /\ PumpClient /\ PumpOnce /\ PumpTold /\ PumpWoken

\* A message more leaves a wake-up where it was; one taken that is none, too.
LEMMA WakeUpStays ==
    ASSUME NEW q \in Seq(Message), NEW m \in Message
    PROVE  /\ Append(q, m) \in Seq(Message)
           /\ (\E k \in 1 .. Len(q) : q[k] = "WAKE") =>
                  \E k \in 1 .. Len(Append(q, m)) : Append(q, m)[k] = "WAKE"
           /\ m = "WAKE" => \E k \in 1 .. Len(Append(q, m)) : Append(q, m)[k] = "WAKE"
<1>1. /\ Append(q, m) \in Seq(Message) /\ Len(Append(q, m)) = Len(q) + 1 /\ Len(q) \in Nat
      /\ \A k \in 1 .. Len(q) : Append(q, m)[k] = q[k]
      /\ Append(q, m)[Len(q) + 1] = m
  OBVIOUS
<1> QED
  BY <1>1

LEMMA WakeUpStaysBehind ==
    ASSUME NEW q \in Seq(Message), q # <<>>
    PROVE  /\ Tail(q) \in Seq(Message)
           /\ Head(q) # "WAKE" /\ (\E k \in 1 .. Len(q) : q[k] = "WAKE") =>
                  \E k \in 1 .. Len(Tail(q)) : Tail(q)[k] = "WAKE"
<1>1. /\ Tail(q) \in Seq(Message) /\ Len(Tail(q)) = Len(q) - 1 /\ Head(q) = q[1]
      /\ \A k \in 1 .. Len(q) - 1 : Tail(q)[k] = q[k + 1]
  OBVIOUS
<1>2. ASSUME Head(q) # "WAKE", NEW k \in 1 .. Len(q), q[k] = "WAKE"
      PROVE  k - 1 \in 1 .. Len(Tail(q)) /\ Tail(q)[k - 1] = "WAKE"
  BY <1>1, <1>2
<1> QED
  BY <1>1, <1>2

LEMMA DoLoginKeeps ==
    ASSUME PumpInv, XmppPump!DoLogin
    PROVE  PumpInv'
<1>1. pump_queue \in Seq(Message) /\ pump_queue # <<>> /\ Head(pump_queue) = "LOGIN"
  BY DEF PumpInv, PumpTypes, XmppPump!DoLogin
<1>2. Tail(pump_queue) \in Seq(Message) /\ Append(Tail(pump_queue), "WAKE") \in Seq(Message)
  BY <1>1, WakeUpStaysBehind, WakeUpStays DEF Message
<1>3. CASE pump_task = "INIT"
  <2>1. /\ pump_queue' = Append(Tail(pump_queue), "WAKE") /\ pump_entries' = pump_entries + 1
        /\ pump_early' = (pump_early \/ pump_entries > 0)
        /\ pump_engine' = IF pump_socket THEN pump_engine ELSE "START"
        /\ pump_socket' = TRUE /\ pump_touched' = FALSE
        /\ pump_pump_state' = "START" /\ pump_told' = "START"
        /\ UNCHANGED <<pump_task, pump_blocked, pump_deletions>>
    BY <1>3 DEF XmppPump!DoLogin, XmppPump!MayCall, XmppPump!AllChildrenDone,
                XmppPump!OnStateChange, PumpInv, PumpTypes, PumpOnce
  <2>2. WakeUpWaits' /\ pump_queue' \in Seq(Message)
    BY <1>2, <2>1, WakeUpStays DEF WakeUpWaits, Message
  <2> QED
    BY <1>3, <2>1, <2>2 DEF PumpInv, PumpTypes, PumpClient, PumpOnce, PumpTold, PumpWoken,
                            XmppPump!EngineState
<1>4. CASE pump_task # "INIT"
  <2>1. /\ pump_queue' = Tail(pump_queue) /\ pump_entries' = pump_entries
        /\ pump_pump_state' = "START" /\ pump_told' = "START"
        /\ UNCHANGED <<pump_task, pump_blocked, pump_deletions>>
        /\ pump_early' = pump_early /\ pump_touched' = FALSE
        /\ \/ /\ pump_task = "RESPONSE" /\ pump_socket' = TRUE
              /\ pump_engine' = IF pump_socket THEN pump_engine ELSE "START"
           \/ UNCHANGED <<pump_engine, pump_socket>>
    BY <1>4 DEF XmppPump!DoLogin, XmppPump!MayCall, XmppPump!AllChildrenDone,
                XmppPump!OnStateChange, PumpInv, PumpTypes, PumpOnce
  <2>2. WakeUpWaits => WakeUpWaits'
    BY <1>1, <2>1, WakeUpStaysBehind DEF WakeUpWaits
  <2> QED
    BY <1>2, <1>4, <2>1, <2>2 DEF PumpInv, PumpTypes, PumpClient, PumpOnce, PumpTold,
                                  PumpWoken, XmppPump!EngineState
<1> QED
  BY <1>3, <1>4

LEMMA DoDisconnectKeeps ==
    ASSUME PumpInv, XmppPump!DoDisconnect
    PROVE  PumpInv'
<1>1. pump_queue \in Seq(Message) /\ pump_queue # <<>> /\ Head(pump_queue) = "DISCONNECT"
  BY DEF PumpInv, PumpTypes, XmppPump!DoDisconnect
<1>2. Tail(pump_queue) \in Seq(Message) /\ Append(Tail(pump_queue), "WAKE") \in Seq(Message)
  BY <1>1, WakeUpStaysBehind, WakeUpStays DEF Message
<1>3. CASE XmppPump!MayCall /\ pump_socket
  <2>1. /\ pump_queue' = Append(Tail(pump_queue), "WAKE")
        /\ pump_task \notin {"ENDED", "DELETED"} /\ pump_task' = "ENDED" /\ pump_blocked' = TRUE
        /\ pump_engine' = "CLOSED" /\ pump_socket' = FALSE /\ pump_touched' = FALSE
        /\ pump_pump_state' = "CLOSED" /\ pump_told' = "CLOSED"
        /\ UNCHANGED <<pump_entries, pump_deletions, pump_early>>
    BY <1>3 DEF XmppPump!DoDisconnect, XmppPump!MayCall, XmppPump!AllChildrenDone,
                XmppPump!OnStateChange, PumpInv, PumpTypes, PumpOnce
  <2>2. WakeUpWaits' /\ pump_queue' \in Seq(Message)
    BY <1>2, <2>1, WakeUpStays DEF WakeUpWaits, Message
  <2> QED
    BY <2>1, <2>2 DEF PumpInv, PumpTypes, PumpClient, PumpOnce, PumpTold, PumpWoken,
                      XmppPump!EngineState
<1>4. CASE ~(XmppPump!MayCall /\ pump_socket)
  <2>1. /\ pump_queue' = Tail(pump_queue)
        /\ pump_task \in {"ENDED", "DELETED"} \/ ~pump_socket
        /\ pump_pump_state' = "CLOSED" /\ pump_told' = "CLOSED"
        /\ UNCHANGED <<pump_task, pump_blocked, pump_engine, pump_socket, pump_touched,
                       pump_entries, pump_deletions, pump_early>>
    BY <1>4 DEF XmppPump!DoDisconnect, XmppPump!MayCall, XmppPump!AllChildrenDone,
                XmppPump!OnStateChange, PumpInv, PumpTypes
  <2>2. WakeUpWaits => WakeUpWaits'
    BY <1>1, <2>1, WakeUpStaysBehind DEF WakeUpWaits
  <2> QED
    BY <1>2, <2>1, <2>2 DEF PumpInv, PumpTypes, PumpClient, PumpOnce, PumpTold,
                            PumpWoken, XmppPump!EngineState
<1> QED
  BY <1>3, <1>4

LEMMA PumpRunsTasks ==
    ASSUME PumpInv, XmppPump!OnMessage
    PROVE  PumpInv'
<1>1. /\ pump_queue' \in Seq(Message)
      /\ UNCHANGED <<pump_socket, pump_engine, pump_early, pump_touched>>
  BY WakeUpStaysBehind DEF XmppPump!OnMessage, PumpInv, PumpTypes
<1>2. CASE pump_entries = 0
  BY <1>1, <1>2 DEF XmppPump!OnMessage, PumpInv, PumpTypes, PumpClient, PumpOnce, PumpTold,
                    PumpWoken
<1>3. CASE pump_entries # 0
  <2>1. CASE pump_task = "INIT" /\ pump_task' = "RESPONSE" /\ pump_blocked' = TRUE
             /\ UNCHANGED <<pump_pump_state, pump_told, pump_entries, pump_deletions>>
    BY <1>1, <1>3, <2>1 DEF PumpInv, PumpTypes, PumpClient, PumpOnce, PumpTold, PumpWoken
  <2>2. CASE pump_task = "INIT" /\ XmppPump!OnStateChange("CLOSED") /\ XmppPump!Deleted
             /\ pump_blocked' = TRUE
    BY <1>1, <1>3, <2>2 DEF PumpInv, PumpTypes, PumpClient, PumpOnce, PumpTold, PumpWoken,
                            XmppPump!OnStateChange, XmppPump!Deleted, XmppPump!EngineState
  <2>3. CASE pump_task = "RESPONSE" /\ pump_engine # "CLOSED" /\ pump_blocked' = TRUE
             /\ UNCHANGED <<pump_pump_state, pump_told, pump_task, pump_entries,
                            pump_deletions>>
    BY <1>1, <1>3, <2>3 DEF PumpInv, PumpTypes, PumpClient, PumpOnce, PumpTold, PumpWoken
  <2>4. CASE /\ pump_task = "ENDED" \/ (pump_task = "RESPONSE" /\ pump_engine = "CLOSED")
             /\ XmppPump!Deleted /\ pump_blocked' = TRUE
             /\ UNCHANGED <<pump_pump_state, pump_told>>
    BY <1>1, <1>3, <2>4 DEF PumpInv, PumpTypes, PumpClient, PumpOnce, PumpTold, PumpWoken,
                            XmppPump!Deleted
  <2> QED
    BY <1>3, <2>1, <2>2, <2>3, <2>4 DEF XmppPump!OnMessage
<1> QED
  BY <1>2, <1>3 DEF PumpInv, PumpTypes

LEMMA PumpIsTold ==
    ASSUME PumpInv, NEW s \in {"OPENING", "OPEN", "CLOSED"}, XmppPump!EngineSays(s)
    PROVE  PumpInv'
<1>1. /\ pump_task = "RESPONSE" /\ pump_engine' = s /\ pump_pump_state' = s /\ pump_told' = s
      /\ pump_blocked' = FALSE
      /\ pump_queue' = IF pump_blocked THEN Append(pump_queue, "WAKE") ELSE pump_queue
      /\ UNCHANGED <<pump_socket, pump_task, pump_entries, pump_deletions, pump_early,
                     pump_touched>>
  BY DEF XmppPump!EngineSays, XmppPump!Wake, XmppPump!OnStateChange, PumpInv, PumpTypes
<1>2. pump_queue' \in Seq(Message) /\ PumpWoken'
  BY <1>1, WakeUpStays DEF PumpInv, PumpTypes, PumpWoken, WakeUpWaits, Message
<1> QED
  BY <1>1, <1>2 DEF PumpInv, PumpTypes, PumpClient, PumpOnce, PumpTold, XmppPump!EngineState

LEMMA PumpNext ==
    ASSUME PumpInv, [XmppPump!Next]_XmppPump!vars
    PROVE  PumpInv'
<1>1. ASSUME NEW m \in Message, pump_queue' = Append(pump_queue, m),
             UNCHANGED <<pump_pump_state, pump_told, XmppPump!client_vars, pump_early,
                         pump_touched>>
      PROVE  PumpInv'
  <2>1. pump_queue' \in Seq(Message) /\ (WakeUpWaits => WakeUpWaits')
    BY <1>1, WakeUpStays DEF PumpInv, PumpTypes, WakeUpWaits
  <2> QED
    BY <1>1, <2>1 DEF XmppPump!client_vars, PumpInv, PumpTypes, PumpClient, PumpOnce, PumpTold,
                      PumpWoken
<1>2. CASE XmppPump!Login \/ XmppPump!Disconnect
  BY <1>1, <1>2 DEF XmppPump!Login, XmppPump!Disconnect, Message
<1>3. CASE XmppPump!SendStanza
  BY <1>3 DEF XmppPump!SendStanza, XmppPump!MayCall, XmppPump!AllChildrenDone,
              XmppPump!client_vars, PumpInv, PumpTypes, PumpClient, PumpOnce, PumpTold,
              PumpWoken, WakeUpWaits
<1>4. CASE XmppPump!EngineProceeds \/ XmppPump!EngineCloses
  BY <1>4, PumpIsTold DEF XmppPump!EngineProceeds, XmppPump!EngineCloses
<1>5. CASE UNCHANGED XmppPump!vars
  BY <1>5 DEF XmppPump!vars, XmppPump!client_vars, PumpInv, PumpTypes, PumpClient, PumpOnce,
              PumpTold, PumpWoken, WakeUpWaits
<1> QED
  BY <1>2, <1>3, <1>4, <1>5, DoLoginKeeps, DoDisconnectKeeps, PumpRunsTasks DEF XmppPump!Next

LEMMA PumpInit == XmppPump!Init => PumpInv
<1> SUFFICES ASSUME XmppPump!Init
             PROVE  PumpInv
  OBVIOUS
<1>1. PumpTypes
  <2>1. pump_queue \in Seq(Message)
    BY EmptySeq DEF XmppPump!Init
  <2> QED
    BY <2>1 DEF XmppPump!Init, PumpTypes, XmppPump!EngineState
<1>2. PumpClient /\ PumpOnce /\ PumpTold
  BY DEF XmppPump!Init, PumpClient, PumpOnce, PumpTold
<1>3. PumpWoken
  BY DEF XmppPump!Init, PumpWoken
<1> QED
  BY <1>1, <1>2, <1>3 DEF PumpInv

LEMMA PumpSuffices == PumpInv => XmppPump!TypeOK /\ XmppPump!ClientUsedWell
<1> SUFFICES ASSUME PumpInv
             PROVE  XmppPump!TypeOK /\ XmppPump!ClientUsedWell
  OBVIOUS
<1>1. DOMAIN pump_queue = 1 .. Len(pump_queue) /\ \A k \in 1 .. Len(pump_queue) : pump_queue[k] \in Message
  BY DEF PumpInv, PumpTypes
<1>2. XmppPump!TypeOK
  BY <1>1 DEF PumpInv, PumpTypes, XmppPump!TypeOK, Message, XmppPump!EngineState
<1>3. XmppPump!ClientUsedWell
  BY <1>1 DEF PumpInv, PumpTypes, PumpOnce, PumpTold, PumpWoken, WakeUpWaits, XmppPump!ClientUsedWell
<1> QED
  BY <1>2, <1>3

LEMMA PumpHolds == XmppPump!Spec => [](XmppPump!TypeOK /\ XmppPump!ClientUsedWell)
  BY PumpInit, PumpNext, PumpSuffices, PTL DEF XmppPump!Spec

-----------------------------------------------------------------------------
(***************************************************************************)
(* The chat program.  The lines that wait lead, one after the other, from  *)
(* what the menu is to what the user takes it for.                         *)
(***************************************************************************)

Items(s) == {s[k] : k \in 1 .. Len(s)}
Kept(s) == s \in Seq(Items(s))

ChatMenu == [ui |-> chat_ui, dest |-> chat_dest]
Leads(e) == Chat!OnConsoleMessage(e.meant, e.line, e.list)

ChatTypes == Chat!TypeOK /\ Kept(chat_inbox) /\ Kept(chat_sent)

\* The tasks go when the server has closed the session, and the program leaves
\* the session and the console before it is deleted.
ChatTasks ==
    /\ chat_session = "OPEN" => chat_tasks = "live" /\ chat_main \in {"runs", "quits"}
    /\ chat_session = "LEFT" => chat_main \in {"left", "done"}
    /\ chat_main # "done" /\ chat_tasks = "deleted" => chat_session = "CLOSED"
    /\ chat_main \in {"left", "done"} => chat_inbox = <<>>
    /\ chat_main = "done" => ~chat_reading
    /\ chat_lost => chat_session \in {"START", "CLOSED"}

ChatLeads ==
    /\ chat_inbox = <<>> => chat_intent = ChatMenu
    /\ chat_inbox # <<>> => /\ chat_inbox[1].meant = ChatMenu
                            /\ chat_intent = Leads(chat_inbox[Len(chat_inbox)])
    /\ \A k \in 1 .. Len(chat_inbox) - 1 : chat_inbox[k + 1].meant = Leads(chat_inbox[k])

ChatSent == \A k \in 1 .. Len(chat_sent) : chat_sent[k].to = chat_sent[k].meant

ChatInv == ChatTypes /\ ChatTasks /\ (chat_misled \/ (ChatLeads /\ ChatSent))

LEMMA SeqIsKept ==
    ASSUME NEW T, NEW s \in Seq(T)
    PROVE  Kept(s)
<1>1. /\ Len(s) \in Nat /\ s = [k \in 1 .. Len(s) |-> s[k]]
      /\ \A k \in 1 .. Len(s) : s[k] \in Items(s)
  BY DEF Items
<1> QED
  BY <1>1 DEF Kept

LEMMA KeptByAppend ==
    ASSUME NEW s, Kept(s), NEW e
    PROVE  /\ Kept(Append(s, e)) /\ Len(Append(s, e)) = Len(s) + 1 /\ Len(s) \in Nat
           /\ \A k \in 1 .. Len(s) : Append(s, e)[k] = s[k]
           /\ Append(s, e)[Len(s) + 1] = e
           /\ s = <<>> <=> Len(s) = 0
<1> DEFINE T == Items(s) \cup {e}
<1>1. s \in Seq(T) /\ e \in T
  BY DEF Kept
<1> HIDE DEF T
<1>2. /\ Append(s, e) \in Seq(T) /\ Len(Append(s, e)) = Len(s) + 1 /\ Len(s) \in Nat
      /\ \A k \in 1 .. Len(s) : Append(s, e)[k] = s[k]
      /\ Append(s, e)[Len(s) + 1] = e
      /\ s = <<>> <=> Len(s) = 0
  BY <1>1
<1>3. Kept(Append(s, e))
  BY <1>2, SeqIsKept
<1> QED
  BY <1>2, <1>3

LEMMA KeptByTail ==
    ASSUME NEW s, Kept(s), s # <<>>
    PROVE  /\ Kept(Tail(s)) /\ Len(Tail(s)) = Len(s) - 1 /\ Len(s) \in Nat \ {0}
           /\ \A k \in 1 .. Len(s) - 1 : Tail(s)[k] = s[k + 1]
           /\ Head(s) = s[1]
           /\ Tail(s) = <<>> <=> Len(s) = 1
<1> DEFINE T == Items(s)
<1>1. s \in Seq(T)
  BY DEF Kept
<1> HIDE DEF T
<1>2. /\ Tail(s) \in Seq(T) /\ Len(Tail(s)) = Len(s) - 1 /\ Len(s) \in Nat \ {0}
      /\ \A k \in 1 .. Len(s) - 1 : Tail(s)[k] = s[k + 1]
      /\ Head(s) = s[1]
      /\ Tail(s) = <<>> <=> Len(s) = 1
  <2>1. /\ Tail(s) \in Seq(T) /\ Len(Tail(s)) = Len(s) - 1 /\ Len(s) \in Nat
        /\ \A k \in 1 .. Len(s) - 1 : Tail(s)[k] = s[k + 1]
        /\ Head(s) = s[1]
    BY <1>1
  <2>2. Len(s) # 0
    BY <1>1
  <2>3. Tail(s) = <<>> <=> Len(Tail(s)) = 0
    BY <2>1
  <2> QED
    BY <2>1, <2>2, <2>3
<1>3. Kept(Tail(s))
  BY <1>2, SeqIsKept
<1> QED
  BY <1>2, <1>3

\* What a line leads to is a menu, and the same from two lists that offer the
\* same choice.
LEMMA MenuIsMenu ==
    ASSUME NEW u, NEW d, NEW l, NEW list
    PROVE  LET m == Chat!OnConsoleMessage([ui |-> u, dest |-> d], l, list)
           IN  m = [ui |-> m.ui, dest |-> m.dest]
  BY DEF Chat!OnConsoleMessage, Chat!HandleBaseInput, Chat!HandleJidInput, Chat!HandleChatInput

LEMMA SameChoice ==
    ASSUME NEW u, NEW d, NEW l, NEW list, NEW other,
           u = "PROMPTJID" /\ l \in DOMAIN Chat!Digit =>
               Chat!GetRosterItem(Chat!Digit[l], list) = Chat!GetRosterItem(Chat!Digit[l], other)
    PROVE  Chat!OnConsoleMessage([ui |-> u, dest |-> d], l, list)
             = Chat!OnConsoleMessage([ui |-> u, dest |-> d], l, other)
  BY DEF Chat!OnConsoleMessage, Chat!HandleJidInput

LEMMA MenuTyped ==
    ASSUME NEW u \in {"BASE", "PROMPTJID", "CHATTING"}, NEW d, NEW l, NEW list
    PROVE  Chat!OnConsoleMessage([ui |-> u, dest |-> d], l, list).ui
             \in {"BASE", "PROMPTJID", "CHATTING"}
  BY DEF Chat!OnConsoleMessage, Chat!HandleBaseInput, Chat!HandleJidInput, Chat!HandleChatInput

LEMMA RunConsoleKeeps ==
    ASSUME ChatInv, NEW l \in Chat!Line, Chat!RunConsole(l)
    PROVE  ChatInv'
<1>1. /\ chat_reading
      /\ UNCHANGED <<chat_reading, chat_main, chat_session, chat_tasks, chat_ui, chat_dest,
                     chat_lost, chat_misled, chat_sent>>
  BY DEF Chat!RunConsole
<1>2. CASE chat_main = "runs"
  <2> DEFINE e == [line |-> l, meant |-> chat_intent, list |-> chat_shown]
  <2>1. chat_inbox' = Append(chat_inbox, e) /\ chat_intent' = Leads(e)
    BY <1>2 DEF Chat!RunConsole, Leads
  <2>2. e.line \in Chat!Line /\ e.meant = chat_intent
    OBVIOUS
  <2> HIDE DEF e
  <2>3. /\ Kept(chat_inbox') /\ Len(chat_inbox') = Len(chat_inbox) + 1 /\ Len(chat_inbox) \in Nat
        /\ \A k \in 1 .. Len(chat_inbox) : chat_inbox'[k] = chat_inbox[k]
        /\ chat_inbox'[Len(chat_inbox) + 1] = e
        /\ chat_inbox = <<>> <=> Len(chat_inbox) = 0
        /\ chat_inbox' # <<>>
    <3>1. Kept(chat_inbox')
      BY <2>1, KeptByAppend DEF ChatInv, ChatTypes
    <3>2. chat_inbox' = <<>> <=> Len(chat_inbox') = 0
      BY <3>1, KeptByAppend
    <3> QED
      BY <2>1, <3>2, KeptByAppend DEF ChatInv, ChatTypes
  <2>4. ChatTypes'
    <3>1. \A k \in DOMAIN chat_inbox' : chat_inbox'[k].line \in Chat!Line
      <4>1. DOMAIN chat_inbox' = 1 .. Len(chat_inbox) + 1 /\ DOMAIN chat_inbox = 1 .. Len(chat_inbox)
        BY <2>3 DEF Kept, ChatInv, ChatTypes
      <4> QED
        BY <2>2, <2>3, <4>1 DEF ChatInv, ChatTypes, Chat!TypeOK
    <3> QED
      BY <1>1, <2>3, <3>1 DEF ChatInv, ChatTypes, Chat!TypeOK
  <2>5. ChatTasks'
    BY <1>1, <1>2 DEF ChatInv, ChatTasks
  <2>6. ASSUME ChatLeads
        PROVE  ChatLeads'
    <3>1. chat_inbox'[1].meant = ChatMenu'
      BY <1>1, <2>2, <2>3, <2>6 DEF ChatLeads, ChatMenu
    <3>2. chat_intent' = Leads(chat_inbox'[Len(chat_inbox')])
      BY <2>1, <2>3
    <3>3. ASSUME NEW k \in 1 .. Len(chat_inbox') - 1
          PROVE  chat_inbox'[k + 1].meant = Leads(chat_inbox'[k])
      <4>1. CASE k = Len(chat_inbox)
        <5>1. chat_inbox # <<>> /\ chat_inbox'[k + 1] = e /\ chat_inbox'[k] = chat_inbox[Len(chat_inbox)]
          BY <2>3, <3>3, <4>1
        <5> QED
          BY <2>2, <2>6, <5>1 DEF ChatLeads
      <4>2. CASE k # Len(chat_inbox)
        <5>1. k \in 1 .. Len(chat_inbox) - 1 /\ chat_inbox'[k + 1] = chat_inbox[k + 1] /\ chat_inbox'[k] = chat_inbox[k]
          BY <2>3, <3>3, <4>2
        <5> QED
          BY <2>6, <5>1 DEF ChatLeads
      <4> QED
        BY <4>1, <4>2
    <3> QED
      BY <2>3, <3>1, <3>2, <3>3 DEF ChatLeads, Leads
  <2> QED
    BY <1>1, <2>4, <2>5, <2>6 DEF ChatInv, ChatSent
<1>3. CASE chat_main # "runs"
  <2>1. UNCHANGED <<chat_inbox, chat_intent>>
    BY <1>3 DEF Chat!RunConsole
  <2> QED
    BY <1>1, <2>1 DEF ChatInv, ChatTypes, ChatTasks, ChatLeads, ChatSent, ChatMenu, Leads,
                      Kept, Items, Chat!TypeOK
<1> QED
  BY <1>2, <1>3

LEMMA OnConsoleKeeps ==
    ASSUME ChatInv, Chat!OnMessage
    PROVE  ChatInv'
<1> DEFINE in == chat_inbox[1]
           l == in.line
           now == Chat!OnConsoleMessage(ChatMenu, l, Chat!List)
<1>1. /\ Kept(chat_inbox) /\ chat_inbox # <<>> /\ Len(chat_inbox) \in Nat \ {0}
      /\ chat_inbox' = Tail(chat_inbox) /\ Head(chat_inbox) = chat_inbox[1]
  BY KeptByTail DEF ChatInv, ChatTypes, Chat!OnMessage
<1>2. /\ Kept(chat_inbox') /\ Len(chat_inbox') = Len(chat_inbox) - 1
      /\ \A k \in 1 .. Len(chat_inbox) - 1 : chat_inbox'[k] = chat_inbox[k + 1]
      /\ chat_inbox' = <<>> <=> Len(chat_inbox) = 1
  BY <1>1, KeptByTail
<1>3. /\ chat_main \in {"runs", "quits"} /\ chat_main' \in {"runs", "quits"} /\ ~chat_lost
      /\ chat_ui' = now.ui /\ chat_dest' = now.dest
      /\ chat_misled' = (chat_misled \/ (chat_ui = "PROMPTJID" /\ l \in DOMAIN Chat!Digit
                                       /\ Chat!GetRosterItem(Chat!Digit[l], Chat!List)
                                            # Chat!GetRosterItem(Chat!Digit[l], in.list)))
      /\ \/ Chat!Send(in.meant.dest)
         \/ UNCHANGED <<chat_sent, chat_lost>>
      /\ UNCHANGED <<chat_reading, chat_session, chat_tasks, chat_intent>>
  BY <1>1 DEF Chat!OnMessage, ChatMenu
<1>4. ChatTypes'
  <2>1. now.ui \in {"BASE", "PROMPTJID", "CHATTING"}
    BY MenuTyped DEF ChatInv, ChatTypes, Chat!TypeOK, ChatMenu
  <2>2. Kept(chat_sent')
    <3>1. Kept(chat_sent)
      BY DEF ChatInv, ChatTypes
    <3>2. CASE Chat!Send(in.meant.dest)
      BY <3>1, <3>2, KeptByAppend DEF Chat!Send
    <3>3. CASE UNCHANGED chat_sent
      BY <3>1, <3>3
    <3> QED
      BY <1>3, <3>2, <3>3
  <2>3. \A k \in DOMAIN chat_inbox' : chat_inbox'[k].line \in Chat!Line
    <3>1. DOMAIN chat_inbox' = 1 .. Len(chat_inbox) - 1 /\ DOMAIN chat_inbox = 1 .. Len(chat_inbox)
      BY <1>1, <1>2 DEF Kept
    <3> QED
      BY <1>1, <1>2, <3>1 DEF ChatInv, ChatTypes, Chat!TypeOK
  <2> QED
    BY <1>2, <1>3, <2>1, <2>2, <2>3 DEF ChatInv, ChatTypes, Chat!TypeOK
<1>5. ChatTasks'
  <2>1. chat_lost' => chat_session \in {"START", "CLOSED"}
    <3>1. chat_lost' => chat_tasks # "live"
      BY <1>3 DEF Chat!Send
    <3> QED
      BY <1>3, <3>1 DEF ChatInv, ChatTypes, ChatTasks, Chat!TypeOK
  <2> HIDE DEF now, l, in
  <2> QED
    BY <1>3, <2>1 DEF ChatInv, ChatTasks
<1>6. ASSUME ~chat_misled'
      PROVE  ChatLeads' /\ ChatSent'
  <2>1. ChatLeads /\ ChatSent /\ in.meant = ChatMenu
    BY <1>1, <1>3, <1>6 DEF ChatInv, ChatLeads
  <2>2. now = Leads(in)
    <3>1. chat_ui = "PROMPTJID" /\ l \in DOMAIN Chat!Digit =>
              Chat!GetRosterItem(Chat!Digit[l], Chat!List)
                = Chat!GetRosterItem(Chat!Digit[l], in.list)
      BY <1>3, <1>6
    <3>2. now = Chat!OnConsoleMessage(ChatMenu, l, in.list)
      <4> HIDE DEF l, in
      <4> QED
        BY <3>1, SameChoice DEF ChatMenu
    <3> QED
      BY <2>1, <3>2 DEF Leads
  <2>3. ChatMenu' = Leads(in)
    BY <1>3, <2>2, MenuIsMenu DEF ChatMenu
  <2>4. ChatSent'
    <3>1. CASE Chat!Send(in.meant.dest)
      <4>1. chat_sent' = Append(chat_sent, [meant |-> chat_dest, to |-> chat_dest])
        BY <2>1, <3>1 DEF Chat!Send, ChatMenu
      <4> QED
        BY <2>1, <4>1, KeptByAppend DEF ChatInv, ChatTypes, ChatSent
    <3>2. CASE UNCHANGED chat_sent
      BY <2>1, <3>2 DEF ChatSent
    <3> QED
      BY <1>3, <3>1, <3>2
  <2> HIDE DEF in, l, now
  <2>5. chat_inbox' = <<>> => chat_intent' = ChatMenu'
    BY <1>1, <1>2, <1>3, <2>1, <2>3 DEF ChatLeads, in
  <2>6. ASSUME chat_inbox' # <<>>
        PROVE  chat_inbox'[1].meant = ChatMenu' /\ chat_intent' = Leads(chat_inbox'[Len(chat_inbox')])
    <3>1. Len(chat_inbox) > 1 /\ chat_inbox'[1] = chat_inbox[1 + 1] /\ 1 \in 1 .. Len(chat_inbox) - 1
          /\ chat_inbox'[Len(chat_inbox')] = chat_inbox[Len(chat_inbox)]
      BY <1>1, <1>2, <2>6
    <3>2. chat_inbox[1 + 1].meant = Leads(in)
      BY <2>1, <3>1 DEF ChatLeads, in
    <3> QED
      BY <1>1, <1>3, <2>1, <2>3, <3>1, <3>2 DEF ChatLeads
  <2>7. ASSUME NEW k \in 1 .. Len(chat_inbox') - 1
        PROVE  chat_inbox'[k + 1].meant = Leads(chat_inbox'[k])
    <3>1. /\ k + 1 \in 1 .. Len(chat_inbox) - 1 /\ k \in 1 .. Len(chat_inbox) - 1
          /\ chat_inbox'[k + 1] = chat_inbox[(k + 1) + 1] /\ chat_inbox'[k] = chat_inbox[k + 1]
      BY <1>1, <1>2, <2>7
    <3> QED
      BY <2>1, <3>1 DEF ChatLeads
  <2> QED
    BY <2>4, <2>5, <2>6, <2>7 DEF ChatLeads, Leads
<1> QED
  BY <1>4, <1>5, <1>6 DEF ChatInv

\* The session, the pump and the end of the program.
LEMMA SessionKeeps ==
    ASSUME ChatInv,
           \/ Chat!OnXmppOpen \/ Chat!EngineCloses \/ Chat!RunTasks
           \/ \E i \in DOMAIN Contacts, available \in BOOLEAN :
                  Chat!OnPresenceUpdate(Contacts[i], available)
           \/ Chat!Leave \/ UNCHANGED Chat!vars
    PROVE  ChatInv'
<1>1. UNCHANGED <<chat_inbox, chat_reading, chat_ui, chat_dest, chat_lost, chat_intent,
                  chat_misled, chat_sent>>
  BY DEF Chat!OnXmppOpen, Chat!EngineCloses, Chat!RunTasks, Chat!OnPresenceUpdate, Chat!Leave,
         Chat!vars
<1>2. ChatTypes' /\ (ChatLeads => ChatLeads') /\ (ChatSent => ChatSent')
  <2>1. (ChatLeads => ChatLeads') /\ (ChatSent => ChatSent')
    BY <1>1 DEF ChatLeads, ChatSent, ChatMenu, Leads
  <2>2. ChatTypes'
    BY <1>1 DEF ChatInv, ChatTypes, Kept, Items, Chat!TypeOK, Chat!OnXmppOpen, Chat!EngineCloses,
                Chat!RunTasks, Chat!OnPresenceUpdate, Chat!Leave, Chat!vars
  <2> QED
    BY <2>1, <2>2
<1>3. ChatTasks'
  BY <1>1 DEF ChatInv, ChatTypes, ChatTasks, Chat!TypeOK, Chat!OnXmppOpen, Chat!EngineCloses,
              Chat!RunTasks, Chat!OnPresenceUpdate, Chat!Leave, Chat!vars
<1> QED
  BY <1>1, <1>2, <1>3 DEF ChatInv

LEMMA DeleteKeeps ==
    ASSUME ChatInv, Chat!Delete
    PROVE  ChatInv'
<1>1. /\ chat_main = "left" /\ chat_main' = "done" /\ chat_inbox = <<>> /\ chat_inbox' = chat_inbox
      /\ UNCHANGED <<chat_session, chat_ui, chat_dest, chat_intent, chat_misled, chat_sent>>
      /\ chat_tasks' = "deleted" /\ chat_reading' = FALSE /\ chat_lost' = (chat_tasks = "deleted")
  BY DEF ChatInv, ChatTasks, Chat!Delete, Chat!StopConsole
<1>2. ChatTypes'
  BY <1>1 DEF ChatInv, ChatTypes, Kept, Items, Chat!TypeOK
<1>3. ChatTasks'
  BY <1>1 DEF ChatInv, ChatTasks
<1>4. (ChatLeads => ChatLeads') /\ (ChatSent => ChatSent')
  BY <1>1 DEF ChatLeads, ChatSent, ChatMenu, Leads
<1> QED
  BY <1>1, <1>2, <1>3, <1>4 DEF ChatInv

LEMMA ChatInit == Chat!Init => ChatInv
<1> SUFFICES ASSUME Chat!Init
             PROVE  ChatInv
  OBVIOUS
<1>1. Kept(<<>>) /\ Len(<<>>) = 0
  BY SeqIsKept, EmptySeq
<1>2. ChatTypes
  <2>1. chat_inbox = <<>> /\ chat_sent = <<>>
    BY DEF Chat!Init
  <2>2. DOMAIN chat_inbox = {}
    BY <2>1
  <2> QED
    BY <1>1, <2>1, <2>2 DEF Chat!Init, ChatTypes, Chat!TypeOK
<1>3. ChatTasks
  BY DEF Chat!Init, ChatTasks
<1>4. ChatLeads /\ ChatSent
  <2>1. 1 .. 0 = {} /\ 1 .. 0 - 1 = {}
    OBVIOUS
  <2> QED
    BY <1>1, <2>1 DEF Chat!Init, ChatLeads, ChatSent, ChatMenu
<1> QED
  BY <1>2, <1>3, <1>4 DEF ChatInv

LEMMA ChatSuffices == ChatInv => Chat!TypeOK /\ Chat!TasksThere /\ Chat!SentAsMeant
<1> SUFFICES ASSUME ChatInv
             PROVE  Chat!TypeOK /\ Chat!TasksThere /\ Chat!SentAsMeant
  OBVIOUS
<1>1. Chat!TypeOK /\ Chat!TasksThere
  BY DEF ChatInv, ChatTypes, ChatTasks, Chat!TasksThere
<1>2. Chat!SentAsMeant
  <2>1. DOMAIN chat_sent = 1 .. Len(chat_sent)
    BY DEF ChatInv, ChatTypes, Kept
  <2>2. chat_inbox # <<>> => Head(chat_inbox) = chat_inbox[1]
    BY KeptByTail DEF ChatInv, ChatTypes
  <2> QED
    BY <2>1, <2>2 DEF ChatInv, ChatLeads, ChatSent, ChatMenu, Chat!SentAsMeant
<1> QED
  BY <1>1, <1>2

LEMMA ChatNext ==
    ASSUME ChatInv, [Chat!Next]_Chat!vars
    PROVE  ChatInv'
  BY RunConsoleKeeps, OnConsoleKeeps, SessionKeeps, DeleteKeeps DEF Chat!Next

LEMMA ChatHolds == Chat!Spec => [](Chat!TypeOK /\ Chat!TasksThere /\ Chat!SentAsMeant)
  BY ChatInit, ChatNext, ChatSuffices, PTL DEF Chat!Spec

-----------------------------------------------------------------------------
(***************************************************************************)
(* The presence tasks.  The statuses sent are those learned, those that    *)
(* wait at the receiver, those on their way and those that wait at the     *)
(* sender, in this order; a sender that has failed sends nothing more.     *)
(***************************************************************************)
Presences == {Presence!TranslateStatus(s) : s \in Statuses}
Meanings == {Presence!Meant(s) : s \in Statuses}

\* How many of the statuses sent are before those that wait at the receiver, on
\* their way, and at the sender.
AtReceiver == Len(presence_learned)
OnTheirWay == Len(presence_learned) + Len(presence_in_queue)
AtSender   == OnTheirWay + Len(presence_to_receiver)

\* A queue holds the presences for the statuses sent behind the first n.
Holds(q, n) ==
    \A k \in 1 .. Len(q) : q[k] = Presence!TranslateStatus(presence_sent[n + k])

StatusTypes ==
    /\ presence_sent \in Seq(Statuses) /\ presence_learned \in Seq(Meanings)
    /\ presence_in_queue \in Seq(Presences) /\ presence_to_receiver \in Seq(Presences)
    /\ presence_out_queue \in Seq(Presences)
    /\ presence_out_state \in {"INIT", "START", "ERROR"} /\ presence_out_blocked \in BOOLEAN
    /\ presence_in_blocked \in BOOLEAN

InLine ==
    /\ Holds(presence_in_queue, AtReceiver) /\ Holds(presence_to_receiver, OnTheirWay)
    /\ AtSender <= Len(presence_sent)
    /\ presence_out_state # "ERROR" =>
           /\ Holds(presence_out_queue, AtSender)
           /\ AtSender + Len(presence_out_queue) = Len(presence_sent)

CapsKept ==
    presence_known.caps = "" <=>
        \A i \in 1 .. Len(presence_learned) : presence_learned[i].caps = ""

StatusInv ==
    /\ StatusTypes /\ InLine /\ CapsKept
    /\ \A i \in 1 .. Len(presence_learned) : presence_learned[i] = Presence!Meant(presence_sent[i])

\* What is read from a presence is what was meant.
LEMMA DecodedAsMeant ==
    ASSUME NEW s \in Statuses
    PROVE  Presence!DecodeStatus(Presence!TranslateStatus(s)) = Presence!Meant(s)
<1> s \in Presence!Status
  BY StatusAssumption
<1>1. CASE ~s.available
  BY <1>1 DEF Presence!DecodeStatus, Presence!TranslateStatus, Presence!Meant
<1>2. CASE s.available
  <2> DEFINE p == Presence!TranslateStatus(s)
  <2>1. p = [type |-> "", show |-> Presence!ShowElement(s.show), status |-> s.status, caps |-> s.caps]
    BY <1>2 DEF Presence!TranslateStatus
  <2> HIDE DEF p
  <2>2. Presence!DecodeStatus(p) =
          [available |-> TRUE,
           show |-> IF Presence!ShowElement(s.show) = "none" THEN "ONLINE" ELSE Presence!ShowElement(s.show),
           status |-> IF s.status = "long" THEN "cut" ELSE s.status, caps |-> s.caps]
    <3>1. /\ p.type # "unavailable" /\ p.show = Presence!ShowElement(s.show)
          /\ p.status = s.status /\ p.caps = s.caps
      BY <2>1
    <3> QED
      BY <3>1 DEF Presence!DecodeStatus
  <2>3. (IF Presence!ShowElement(s.show) = "none" THEN "ONLINE" ELSE Presence!ShowElement(s.show))
           = CASE s.show = "NONE" -> "AWAY" [] s.show = "OFFLINE" -> "ONLINE" [] OTHER -> s.show
    BY DEF Presence!ShowElement, Presence!Status, Presence!Show
  <2>4. s = [available |-> TRUE, show |-> s.show, status |-> s.status, caps |-> s.caps]
    BY <1>2 DEF Presence!Status
  <2>5. Presence!Meant(s) =
          [available |-> TRUE,
           show |-> CASE s.show = "NONE" -> "AWAY" [] s.show = "OFFLINE" -> "ONLINE" [] OTHER -> s.show,
           status |-> IF s.status = "long" THEN "cut" ELSE s.status, caps |-> s.caps]
    BY <1>2, <2>4 DEF Presence!Meant
  <2> QED
    BY <2>2, <2>3, <2>5 DEF p
<1> QED
  BY <1>1, <1>2

LEMMA SendKeeps ==
    ASSUME StatusInv, Presence!Send
    PROVE  StatusInv'
<1>1. PICK s \in Statuses :
         /\ presence_out_queue' = Append(presence_out_queue, Presence!TranslateStatus(s))
         /\ presence_sent' = Append(presence_sent, s)
  BY DEF Presence!Send
<1>2. /\ presence_out_state \in {"INIT", "START"} /\ presence_out_blocked' = FALSE
      /\ UNCHANGED <<presence_out_state, presence_to_receiver, presence_in_queue,
                     presence_in_blocked, presence_learned, presence_known>>
  BY DEF Presence!Send, Presence!in_vars
<1>3. Presence!TranslateStatus(s) \in Presences
  BY DEF Presences
<1>4. StatusTypes'
  <2>1. presence_sent' \in Seq(Statuses) /\ presence_out_queue' \in Seq(Presences)
    BY <1>1, <1>3 DEF StatusInv, StatusTypes
  <2> QED
    BY <1>2, <2>1 DEF StatusInv, StatusTypes
<1>5. /\ Len(presence_sent') = Len(presence_sent) + 1 /\ presence_sent'[Len(presence_sent) + 1] = s
      /\ \A k \in 1 .. Len(presence_sent) : presence_sent'[k] = presence_sent[k]
      /\ Len(presence_sent) \in Nat
  BY <1>1 DEF StatusInv, StatusTypes
<1>6. /\ Len(presence_out_queue') = Len(presence_out_queue) + 1
      /\ presence_out_queue'[Len(presence_out_queue) + 1] = Presence!TranslateStatus(s)
      /\ \A k \in 1 .. Len(presence_out_queue) : presence_out_queue'[k] = presence_out_queue[k]
      /\ Len(presence_out_queue) \in Nat
  BY <1>1, <1>3 DEF StatusInv, StatusTypes
<1>7. AtReceiver \in Nat /\ OnTheirWay \in Nat /\ AtSender \in Nat /\ Len(presence_in_queue) \in Nat
      /\ Len(presence_to_receiver) \in Nat /\ AtReceiver + Len(presence_in_queue) = OnTheirWay
      /\ OnTheirWay + Len(presence_to_receiver) = AtSender
      /\ AtSender + Len(presence_out_queue) = Len(presence_sent)
      /\ AtReceiver' = AtReceiver /\ OnTheirWay' = OnTheirWay /\ AtSender' = AtSender
  BY <1>2 DEF StatusInv, StatusTypes, InLine, AtReceiver, OnTheirWay, AtSender
<1>7a. /\ \A k \in 1 .. Len(presence_in_queue) : AtReceiver + k \in 1 .. Len(presence_sent)
       /\ \A k \in 1 .. Len(presence_to_receiver) : OnTheirWay + k \in 1 .. Len(presence_sent)
  <2> DEFINE a == AtReceiver
             i == Len(presence_in_queue)
             t == OnTheirWay
             r == Len(presence_to_receiver)
             d == AtSender
             o == Len(presence_out_queue)
             n == Len(presence_sent)
  <2>1. a \in Nat /\ t \in Nat /\ d \in Nat /\ i \in Nat /\ r \in Nat
    BY <1>7
  <2>2. a + i = t /\ t + r = d /\ d + o = n
    BY <1>7
  <2>3. o \in Nat
    BY <1>6
  <2> HIDE DEF a, i, t, r, d, o, n
  <2>4. /\ \A k \in 1 .. i : a + k \in 1 .. n
        /\ \A k \in 1 .. r : t + k \in 1 .. n
    BY <2>1, <2>2, <2>3
  <2> QED
    BY <2>4 DEF a, i, t, r, n
<1>8. Holds(presence_in_queue, AtReceiver)' /\ Holds(presence_to_receiver, OnTheirWay)'
  <2>1. ASSUME NEW k \in 1 .. Len(presence_in_queue)
        PROVE  presence_sent'[AtReceiver + k] = presence_sent[AtReceiver + k]
    <3>1. AtReceiver + k \in 1 .. Len(presence_sent)
      BY <1>7a, <2>1
    <3> QED
      BY <1>5, <3>1
  <2>2. ASSUME NEW k \in 1 .. Len(presence_to_receiver)
        PROVE  presence_sent'[OnTheirWay + k] = presence_sent[OnTheirWay + k]
    <3>1. OnTheirWay + k \in 1 .. Len(presence_sent)
      BY <1>7a, <2>2
    <3> QED
      BY <1>5, <3>1
  <2> QED
    BY <1>2, <1>7, <2>1, <2>2 DEF StatusInv, InLine, Holds
<1>9. Holds(presence_out_queue, AtSender)'
  <2>1. ASSUME NEW k \in 1 .. Len(presence_out_queue')
        PROVE  presence_out_queue'[k] = Presence!TranslateStatus(presence_sent'[AtSender + k])
    <3>1. CASE k = Len(presence_out_queue) + 1
      <4>1. AtSender + k = Len(presence_sent) + 1
        <5> AtSender \in Nat /\ Len(presence_out_queue) \in Nat
          BY <1>6, <1>7
        <5> AtSender + Len(presence_out_queue) = Len(presence_sent)
          BY <1>7
        <5> QED
          BY <3>1
      <4> QED
        BY <1>5, <1>6, <3>1, <4>1
    <3>2. CASE k # Len(presence_out_queue) + 1
      <4>1. k \in 1 .. Len(presence_out_queue) /\ AtSender + k \in 1 .. Len(presence_sent)
        <5> AtSender \in Nat /\ Len(presence_out_queue) \in Nat
          BY <1>6, <1>7
        <5> AtSender + Len(presence_out_queue) = Len(presence_sent)
          BY <1>7
        <5>1. k \in 1 .. Len(presence_out_queue)
          BY <1>6, <2>1, <3>2
        <5> QED
          BY <5>1
      <4> QED
        BY <1>2, <1>5, <1>6, <4>1 DEF StatusInv, InLine, Holds
    <3> QED
      BY <3>1, <3>2
  <2> QED
    BY <1>7, <2>1 DEF Holds
<1>10. InLine'
  <2>1. AtSender' + Len(presence_out_queue') = Len(presence_sent') /\ AtSender' <= Len(presence_sent')
    BY <1>5, <1>6, <1>7
  <2> QED
    BY <1>8, <1>9, <2>1 DEF InLine
<1>11. \A i \in 1 .. Len(presence_learned') : presence_learned'[i] = Presence!Meant(presence_sent'[i])
  BY <1>2, <1>5, <1>7 DEF StatusInv, AtReceiver
<1>12. CapsKept'
  BY <1>2 DEF StatusInv, CapsKept
<1> QED
  BY <1>4, <1>10, <1>11, <1>12 DEF StatusInv

\* The first of a queue goes to the end of another one.
LEMMA MovesOn ==
    ASSUME NEW S, NEW p \in Seq(S), p # <<>>, NEW q \in Seq(S)
    PROVE  /\ Tail(p) \in Seq(S) /\ Append(q, Head(p)) \in Seq(S) /\ Head(p) = p[1] /\ Head(p) \in S
           /\ Len(Tail(p)) + 1 = Len(p) /\ Len(Append(q, Head(p))) = Len(q) + 1
           /\ Len(Tail(p)) \in Nat /\ Len(q) \in Nat
           /\ \A k \in 1 .. Len(Tail(p)) : Tail(p)[k] = p[k + 1]
           /\ \A k \in 1 .. Len(q) : Append(q, Head(p))[k] = q[k]
           /\ Append(q, Head(p))[Len(q) + 1] = p[1]
<1>1. /\ Tail(p) \in Seq(S) /\ Len(Tail(p)) = Len(p) - 1 /\ Len(p) \in Nat /\ Head(p) = p[1]
      /\ Head(p) \in S
      /\ \A k \in 1 .. Len(Tail(p)) : Tail(p)[k] = p[k + 1]
  OBVIOUS
<1>2. /\ Append(q, Head(p)) \in Seq(S) /\ Len(Append(q, Head(p))) = Len(q) + 1 /\ Len(q) \in Nat
      /\ \A k \in 1 .. Len(q) : Append(q, Head(p))[k] = q[k]
      /\ Append(q, Head(p))[Len(q) + 1] = Head(p)
  BY <1>1
<1>3. Len(Tail(p)) \in Nat /\ Len(Tail(p)) + 1 = Len(p)
  BY <1>1
<1> QED
  BY <1>1, <1>2, <1>3

LEMMA HoldsMoved ==
    ASSUME NEW p \in Seq(Presences), p # <<>>, NEW q \in Seq(Presences), NEW n \in Nat,
           Holds(q, n), Holds(p, n + Len(q))
    PROVE  /\ Holds(Append(q, Head(p)), n) /\ Holds(Tail(p), n + Len(Append(q, Head(p))))
           /\ Len(Append(q, Head(p))) + Len(Tail(p)) = Len(q) + Len(p)
           /\ Len(Append(q, Head(p))) = Len(q) + 1
<1>1. p[1] = Presence!TranslateStatus(presence_sent[n + Len(q) + 1])
  BY MovesOn DEF Holds
<1>2. ASSUME NEW k \in 1 .. Len(Append(q, Head(p)))
      PROVE  Append(q, Head(p))[k] = Presence!TranslateStatus(presence_sent[n + k])
  <2>1. CASE k = Len(q) + 1
    <3>1. n + k = n + Len(q) + 1
      BY <2>1, MovesOn
    <3> QED
      BY <1>1, <2>1, <3>1, MovesOn
  <2>2. CASE k # Len(q) + 1
    <3>1. k \in 1 .. Len(q)
      BY <1>2, <2>2, MovesOn
    <3> QED
      BY <3>1, MovesOn DEF Holds
  <2> QED
    BY <2>1, <2>2
<1>3. ASSUME NEW k \in 1 .. Len(Tail(p))
      PROVE  Tail(p)[k] = Presence!TranslateStatus(presence_sent[(n + Len(Append(q, Head(p)))) + k])
  <2>1. k + 1 \in 1 .. Len(p) /\ (n + Len(q)) + (k + 1) = (n + Len(Append(q, Head(p)))) + k
    BY <1>3, MovesOn
  <2> QED
    BY <1>3, <2>1, MovesOn DEF Holds
<1>4. Len(Append(q, Head(p))) + Len(Tail(p)) = Len(q) + Len(p)
  BY MovesOn
<1> QED
  BY <1>2, <1>3, <1>4, MovesOn DEF Holds

LEMMA OutStepKeeps ==
    ASSUME StatusInv, Presence!OutStep
    PROVE  StatusInv'
<1>1. UNCHANGED <<presence_sent, presence_in_queue, presence_in_blocked, presence_learned,
                  presence_known>>
  BY DEF Presence!OutStep, Presence!in_vars
<1>2. CASE /\ presence_out_queue' = presence_out_queue /\ presence_to_receiver' = presence_to_receiver
           /\ presence_out_state # "ERROR" /\ presence_out_state' \in {"INIT", "START"}
           /\ presence_out_blocked' \in BOOLEAN
  BY <1>1, <1>2 DEF StatusInv, StatusTypes, InLine, Holds, AtReceiver, OnTheirWay, AtSender, CapsKept
<1>3. CASE presence_out_queue # <<>> /\ presence_out_state = "START"
  <2>1. /\ presence_out_queue' = Tail(presence_out_queue)
        /\ UNCHANGED presence_out_blocked
    BY <1>3 DEF Presence!OutStep
  <2>2. CASE presence_to_receiver' = presence_to_receiver /\ presence_out_state' = "ERROR"
    <3>1. presence_out_queue' \in Seq(Presences)
      BY <1>3, <2>1, MovesOn DEF StatusInv, StatusTypes
    <3> QED
      BY <1>1, <2>1, <2>2, <3>1 DEF StatusInv, StatusTypes, InLine, Holds, AtReceiver, OnTheirWay, AtSender, CapsKept
  <2>3. CASE /\ presence_to_receiver' = Append(presence_to_receiver, Head(presence_out_queue))
             /\ presence_out_state' = presence_out_state
    <3>1. presence_out_queue' \in Seq(Presences) /\ presence_to_receiver' \in Seq(Presences)
      BY <1>3, <2>1, <2>3, MovesOn DEF StatusInv, StatusTypes
    <3>2. OnTheirWay \in Nat /\ Holds(presence_to_receiver, OnTheirWay)
          /\ Holds(presence_out_queue, OnTheirWay + Len(presence_to_receiver))
      BY <1>3 DEF StatusInv, StatusTypes, InLine, OnTheirWay, AtSender
    <3>3. /\ Holds(presence_to_receiver', OnTheirWay)
          /\ Holds(presence_out_queue', OnTheirWay + Len(presence_to_receiver'))
          /\ Len(presence_to_receiver') + Len(presence_out_queue')
               = Len(presence_to_receiver) + Len(presence_out_queue)
          /\ Len(presence_to_receiver') = Len(presence_to_receiver) + 1
      BY <1>3, <2>1, <2>3, <3>2, HoldsMoved DEF StatusInv, StatusTypes
    <3>4. OnTheirWay' = OnTheirWay /\ AtReceiver' = AtReceiver
          /\ AtSender' = OnTheirWay + Len(presence_to_receiver')
      BY <1>1 DEF OnTheirWay, AtReceiver, AtSender
    <3>5. Holds(presence_to_receiver, OnTheirWay)' /\ Holds(presence_out_queue, AtSender)'
          /\ Holds(presence_in_queue, AtReceiver)'
      BY <1>1, <3>3, <3>4 DEF Holds, StatusInv, InLine
    <3>6. AtSender' + Len(presence_out_queue') = Len(presence_sent') /\ AtSender' <= Len(presence_sent')
      <4>1. /\ OnTheirWay \in Nat /\ Len(presence_to_receiver) \in Nat /\ Len(presence_out_queue) \in Nat
            /\ Len(presence_to_receiver') \in Nat /\ Len(presence_out_queue') \in Nat
        BY <3>1, <3>2 DEF StatusInv, StatusTypes
      <4>2. OnTheirWay + Len(presence_to_receiver) + Len(presence_out_queue) = Len(presence_sent)
        BY <1>3 DEF StatusInv, InLine, AtSender
      <4>3. Len(presence_sent') = Len(presence_sent)
        BY <1>1
      <4> QED
        BY <3>3, <3>4, <4>1, <4>2, <4>3
    <3>7. StatusTypes'
      BY <1>1, <2>1, <2>3, <3>1 DEF StatusInv, StatusTypes
    <3> QED
      BY <1>1, <3>5, <3>6, <3>7 DEF StatusInv, InLine, CapsKept
  <2> QED
    BY <1>3, <2>2, <2>3 DEF Presence!OutStep
<1> QED
  BY <1>2, <1>3 DEF Presence!OutStep, StatusInv, StatusTypes

LEMMA HandlePresenceKeeps ==
    ASSUME StatusInv, Presence!HandleStanza
    PROVE  StatusInv'
<1>1. /\ presence_to_receiver # <<>> /\ presence_to_receiver' = Tail(presence_to_receiver)
      /\ presence_in_queue' = Append(presence_in_queue, Head(presence_to_receiver))
      /\ presence_in_blocked' = FALSE
      /\ UNCHANGED <<presence_out_state, presence_out_blocked, presence_out_queue, presence_sent,
                     presence_learned, presence_known>>
  BY DEF Presence!HandleStanza, Presence!out_vars
<1>2. presence_in_queue' \in Seq(Presences) /\ presence_to_receiver' \in Seq(Presences)
  BY <1>1, MovesOn DEF StatusInv, StatusTypes
<1>3. AtReceiver \in Nat /\ Holds(presence_in_queue, AtReceiver)
      /\ Holds(presence_to_receiver, AtReceiver + Len(presence_in_queue))
  BY DEF StatusInv, StatusTypes, InLine, OnTheirWay, AtReceiver
<1>4. /\ Holds(presence_in_queue', AtReceiver)
      /\ Holds(presence_to_receiver', AtReceiver + Len(presence_in_queue'))
      /\ Len(presence_in_queue') + Len(presence_to_receiver')
           = Len(presence_in_queue) + Len(presence_to_receiver)
  BY <1>1, <1>3, HoldsMoved DEF StatusInv, StatusTypes
<1>5. AtReceiver' = AtReceiver /\ OnTheirWay' = AtReceiver + Len(presence_in_queue') /\ AtSender' = AtSender
  <2>1. AtReceiver' = AtReceiver /\ OnTheirWay' = AtReceiver + Len(presence_in_queue')
        /\ AtSender' = (AtReceiver + Len(presence_in_queue')) + Len(presence_to_receiver')
        /\ AtSender = (AtReceiver + Len(presence_in_queue)) + Len(presence_to_receiver)
    BY <1>1 DEF AtReceiver, OnTheirWay, AtSender
  <2>2. /\ Len(presence_in_queue) \in Nat /\ Len(presence_to_receiver) \in Nat
        /\ Len(presence_in_queue') \in Nat /\ Len(presence_to_receiver') \in Nat
    BY <1>2 DEF StatusInv, StatusTypes
  <2> QED
    BY <1>3, <1>4, <2>1, <2>2
<1>6. InLine'
  BY <1>1, <1>4, <1>5 DEF Holds, StatusInv, InLine
<1>7. StatusTypes'
  BY <1>1, <1>2 DEF StatusInv, StatusTypes
<1> QED
  BY <1>1, <1>6, <1>7 DEF StatusInv, CapsKept

LEMMA InStepKeeps ==
    ASSUME StatusInv, Presence!InStep
    PROVE  StatusInv'
<1>1. UNCHANGED <<presence_out_state, presence_out_blocked, presence_out_queue, presence_sent,
                  presence_to_receiver>>
  BY DEF Presence!InStep, Presence!out_vars
<1>2. CASE presence_in_queue = <<>>
  BY <1>1, <1>2 DEF Presence!InStep, StatusInv, StatusTypes, InLine, Holds, AtReceiver, OnTheirWay,
                    AtSender, CapsKept
<1>3. CASE presence_in_queue # <<>>
  <2> DEFINE n == Len(presence_learned) + 1
             s == presence_sent[n]
  <2>1. /\ Len(presence_in_queue) \in Nat \ {0} /\ Len(presence_learned) \in Nat
        /\ Len(presence_to_receiver) \in Nat /\ n \in 1 .. Len(presence_sent) /\ s \in Statuses
    <3>1. /\ Len(presence_in_queue) \in Nat /\ Len(presence_in_queue) # 0 /\ Len(presence_learned) \in Nat
          /\ Len(presence_to_receiver) \in Nat /\ Len(presence_sent) \in Nat
      BY <1>3 DEF StatusInv, StatusTypes
    <3>2. n \in 1 .. Len(presence_sent)
      BY <3>1 DEF StatusInv, InLine, AtSender, OnTheirWay
    <3> QED
      BY <3>1, <3>2 DEF StatusInv, StatusTypes
  <2>2. Head(presence_in_queue) = Presence!TranslateStatus(s)
    <3>1. 1 \in 1 .. Len(presence_in_queue) /\ Head(presence_in_queue) = presence_in_queue[1]
      BY <1>3, <2>1
    <3> QED
      BY <3>1 DEF StatusInv, InLine, Holds, AtReceiver
  <2> HIDE DEF s
  <2>3. /\ presence_in_queue' = Tail(presence_in_queue)
        /\ presence_learned' = Append(presence_learned, Presence!Meant(s))
        /\ presence_known' = Presence!UpdateWith(presence_known, Presence!Meant(s))
        /\ UNCHANGED presence_in_blocked
    BY <1>3, <2>1, <2>2, DecodedAsMeant DEF Presence!InStep
  <2>4. /\ presence_in_queue' \in Seq(Presences)
        /\ presence_learned' \in Seq(Meanings)
        /\ Len(presence_learned') = n /\ presence_learned'[n] = Presence!Meant(s)
        /\ \A i \in 1 .. Len(presence_learned) : presence_learned'[i] = presence_learned[i]
        /\ Len(presence_in_queue') = Len(presence_in_queue) - 1
        /\ \A k \in 1 .. Len(presence_in_queue') : presence_in_queue'[k] = presence_in_queue[k + 1]
    <3>1. presence_learned \in Seq(Meanings) /\ Presence!Meant(s) \in Meanings /\ presence_in_queue \in Seq(Presences)
      BY <2>1 DEF StatusInv, StatusTypes, Meanings
    <3>2. /\ presence_learned' \in Seq(Meanings) /\ Len(presence_learned') = n
          /\ presence_learned'[n] = Presence!Meant(s)
          /\ \A i \in 1 .. Len(presence_learned) : presence_learned'[i] = presence_learned[i]
      BY <2>3, <3>1
    <3>3. /\ presence_in_queue' \in Seq(Presences)
          /\ Len(presence_in_queue') = Len(presence_in_queue) - 1
          /\ \A k \in 1 .. Len(presence_in_queue') : presence_in_queue'[k] = presence_in_queue[k + 1]
      BY <1>3, <2>3, <3>1
    <3> QED
      BY <3>2, <3>3
  <2>5. AtReceiver' = n /\ OnTheirWay' = OnTheirWay /\ AtSender' = AtSender
    BY <1>1, <2>1, <2>4 DEF AtReceiver, OnTheirWay, AtSender
  <2>6. Holds(presence_in_queue, AtReceiver)'
    <3>1. ASSUME NEW k \in 1 .. Len(presence_in_queue')
          PROVE  presence_in_queue'[k] = Presence!TranslateStatus(presence_sent[n + k])
      <4>1. k + 1 \in 1 .. Len(presence_in_queue) /\ Len(presence_learned) + (k + 1) = n + k
        BY <2>1, <2>4
      <4> QED
        BY <2>4, <4>1 DEF StatusInv, InLine, Holds, AtReceiver
    <3> QED
      BY <1>1, <2>5, <3>1 DEF Holds
  <2>7. InLine'
    BY <1>1, <2>5, <2>6 DEF StatusInv, InLine, Holds
  <2>8. StatusTypes'
    BY <1>1, <2>3, <2>4 DEF StatusInv, StatusTypes
  <2>9. \A i \in 1 .. Len(presence_learned') : presence_learned'[i] = Presence!Meant(presence_sent'[i])
    <3>1. /\ presence_sent' = presence_sent
          /\ \A i \in 1 .. Len(presence_learned) :
                 presence_learned[i] = Presence!Meant(presence_sent[i])
      BY <1>1 DEF StatusInv
    <3>2. /\ Len(presence_learned') = n /\ n = Len(presence_learned) + 1
          /\ Len(presence_learned) \in Nat
      BY <2>1, <2>4
    <3> TAKE i \in 1 .. Len(presence_learned')
    <3>3. CASE i = n
      BY <2>4, <3>1, <3>3 DEF s
    <3>4. CASE i \in 1 .. Len(presence_learned)
      BY <2>4, <3>1, <3>4
    <3>5. i = n \/ i \in 1 .. Len(presence_learned)
      BY <3>2
    <3> QED
      BY <3>3, <3>4, <3>5
  <2>10. CapsKept'
    <3> DEFINE m == Presence!Meant(s)
    <3>1. m \in [available : BOOLEAN, show : Presence!Show, status : {"", "short", "cut"}, caps : {"", "node"}]
      <4>1. s \in Presence!Status
        BY <2>1, StatusAssumption
      <4> QED
        BY <4>1 DEF Presence!Meant, Presence!NoStatus, Presence!Status, Presence!Show
    <3> HIDE DEF m
    <3>2. presence_known'.caps = IF m.caps = "" THEN presence_known.caps ELSE m.caps
      BY <2>3, <3>1 DEF Presence!UpdateWith, m
    <3>3. (\A i \in 1 .. Len(presence_learned') : presence_learned'[i].caps = "")
            <=> m.caps = "" /\ \A i \in 1 .. Len(presence_learned) : presence_learned[i].caps = ""
      <4>1. /\ presence_learned'[n].caps = m.caps /\ n \in 1 .. Len(presence_learned')
            /\ 1 .. Len(presence_learned') = (1 .. Len(presence_learned)) \cup {n}
        BY <2>1, <2>4 DEF m
      <4> QED
        BY <2>4, <4>1
    <3> QED
      BY <3>2, <3>3 DEF StatusInv, CapsKept
  <2> QED
    BY <2>7, <2>8, <2>9, <2>10 DEF StatusInv
<1> QED
  BY <1>2, <1>3

LEMMA PresenceNext ==
    ASSUME StatusInv, [Presence!Next]_Presence!vars
    PROVE  StatusInv'
<1>1. CASE Presence!CloseConnection \/ UNCHANGED Presence!vars
  BY <1>1 DEF Presence!CloseConnection, Presence!vars, Presence!in_vars, Presence!out_vars, StatusInv,
              StatusTypes, InLine, Holds, AtReceiver, OnTheirWay, AtSender, CapsKept
<1> QED
  BY <1>1, SendKeeps, OutStepKeeps, HandlePresenceKeeps, InStepKeeps DEF Presence!Next

LEMMA PresenceInit == Presence!Init => StatusInv
<1> SUFFICES ASSUME Presence!Init
             PROVE  StatusInv
  OBVIOUS
<1>1. /\ presence_sent = <<>> /\ presence_learned = <<>> /\ presence_in_queue = <<>>
      /\ presence_to_receiver = <<>> /\ presence_out_queue = <<>>
      /\ presence_out_state = "INIT" /\ presence_out_blocked = FALSE /\ presence_in_blocked = FALSE
      /\ presence_known.caps = ""
  BY DEF Presence!Init, Presence!NoStatus
<1>2. StatusTypes
  BY <1>1, EmptySeq DEF StatusTypes
<1>3. Len(<<>>) = 0 /\ 1 .. 0 = {} /\ 0 + 0 = 0
  BY EmptySeq
<1>4. InLine /\ CapsKept /\ \A i \in 1 .. Len(presence_learned) : presence_learned[i] = Presence!Meant(presence_sent[i])
  <2>1. AtReceiver = 0 /\ OnTheirWay = 0 /\ AtSender = 0
    BY <1>1, <1>3 DEF AtReceiver, OnTheirWay, AtSender
  <2>2. Len(presence_learned) = 0 /\ Len(presence_sent) = 0 /\ Len(presence_out_queue) = 0
        /\ Len(presence_in_queue) = 0 /\ Len(presence_to_receiver) = 0
    BY <1>1, <1>3
  <2>3. InLine
    BY <1>3, <2>1, <2>2 DEF InLine, Holds
  <2> QED
    BY <1>1, <1>3, <2>2, <2>3 DEF CapsKept
<1> QED
  BY <1>2, <1>4 DEF StatusInv

LEMMA PresenceSuffices == StatusInv => Presence!TypeOK /\ Presence!LearnedInOrder
<1> SUFFICES ASSUME StatusInv
             PROVE  Presence!TypeOK /\ Presence!LearnedInOrder
  OBVIOUS
<1>1. /\ DOMAIN presence_sent = 1 .. Len(presence_sent) /\ DOMAIN presence_learned = 1 .. Len(presence_learned)
      /\ \A i \in 1 .. Len(presence_sent) : presence_sent[i] \in Statuses
  BY DEF StatusInv, StatusTypes
<1>2. Len(presence_learned) <= Len(presence_sent)
  BY DEF StatusInv, StatusTypes, InLine, AtSender, OnTheirWay
<1> QED
  BY <1>1, <1>2 DEF StatusInv, StatusTypes, CapsKept, Presence!TypeOK, Presence!LearnedInOrder

-----------------------------------------------------------------------------
(***************************************************************************)
(* The task that follows nodes.  Of the stanzas with an item of a node     *)
(* that are on their way or wait, the last one has the server's; when      *)
(* there is none, the handler was told it or the answer is to come.        *)
(***************************************************************************)
Children == [kind : {"item", "retract"}, v : 0 .. PubsubTask!Unheard]
OneChild == {<<c>> : c \in Children}
Stanzas(names) == [name : names, node : Nodes, items : OneChild \cup {<<>>}]

Carries(s, n) == s.node = n /\ s.items # <<>>
Silent(q, n) == \A k \in 1 .. Len(q) : ~Carries(q[k], n)
\* The last that is said of a node.
LastSays(q, n, v) ==
    \A k \in 1 .. Len(q) :
        Carries(q[k], n) /\ (\A j \in k + 1 .. Len(q) : ~Carries(q[j], n)) => q[k].items[1].v = v

NodeTypes ==
    /\ pubsub_subscribed_nodes \subseteq Nodes /\ pubsub_answered \subseteq Nodes
    /\ pubsub_value \in [Nodes -> 0 .. PubsubTask!Unheard]
    /\ pubsub_learned \in [Nodes -> 0 .. PubsubTask!Unheard]
    /\ pubsub_version \in 0 .. NodeChanges /\ pubsub_calls \in 0 .. NodeCalls
    /\ pubsub_gets \in Seq(Nodes)
    /\ pubsub_wire \in Seq(Stanzas({"event", "pubsub", "error"}))
    /\ pubsub_queue \in Seq(Stanzas({"event", "pubsub"}))
    /\ PubsubTask!Idle \/ pubsub_items \in [node : Nodes, left : OneChild]

\* A request for the items of a node is on its way.
AskedFor(n) == \E k \in 1 .. Len(pubsub_gets) : pubsub_gets[k] = n

NothingSaid(n) ==
    Silent(pubsub_wire, n) /\ Silent(pubsub_queue, n) /\ pubsub_items.node # n

NodeFollowed(n) ==
    /\ LastSays(pubsub_wire, n, pubsub_value[n])
    /\ Silent(pubsub_wire, n) => LastSays(pubsub_queue, n, pubsub_value[n])
    /\ Silent(pubsub_wire, n) /\ Silent(pubsub_queue, n) /\ pubsub_items.node = n =>
           pubsub_items.left[1].v = pubsub_value[n]
    /\ NothingSaid(n) /\ n \in pubsub_subscribed_nodes =>
           \/ pubsub_learned[n] = pubsub_value[n]
           \/ /\ pubsub_learned[n] = PubsubTask!Unheard
              /\ \/ pubsub_value[n] = PubsubTask!Retracted
                 \/ AskedFor(n)
    /\ pubsub_value[n] = PubsubTask!Unheard =>
           NothingSaid(n) /\ pubsub_learned[n] = PubsubTask!Unheard

NodesFollowed == \A n \in Nodes : NodeFollowed(n)

NodeInv == NodeTypes /\ NodesFollowed

LEMMA SaidByAppend ==
    ASSUME NEW S, NEW q \in Seq(S), NEW s \in S, NEW n, NEW v
    PROVE  /\ Silent(Append(q, s), n) <=> Silent(q, n) /\ ~Carries(s, n)
           /\ Carries(s, n) /\ s.items[1].v = v => LastSays(Append(q, s), n, v)
           /\ ~Carries(s, n) /\ LastSays(q, n, v) => LastSays(Append(q, s), n, v)
<1> DEFINE r == Append(q, s)
<1>1. /\ Len(r) = Len(q) + 1 /\ Len(q) \in Nat /\ r[Len(q) + 1] = s
      /\ \A k \in 1 .. Len(q) : r[k] = q[k]
  OBVIOUS
<1> HIDE DEF r
<1>2. Silent(r, n) <=> Silent(q, n) /\ ~Carries(s, n)
  <2>1. 1 .. Len(r) = (1 .. Len(q)) \cup {Len(q) + 1}
    BY <1>1
  <2> QED
    BY <1>1, <2>1 DEF Silent
<1>3. ASSUME Carries(s, n), s.items[1].v = v
      PROVE  LastSays(r, n, v)
  <2> SUFFICES ASSUME NEW k \in 1 .. Len(r), Carries(r[k], n),
                      \A j \in k + 1 .. Len(r) : ~Carries(r[j], n)
               PROVE  r[k].items[1].v = v
    BY DEF LastSays
  <2>1. k = Len(q) + 1
    BY <1>1, <1>3
  <2> QED
    BY <1>1, <1>3, <2>1
<1>4. ASSUME ~Carries(s, n), LastSays(q, n, v)
      PROVE  LastSays(r, n, v)
  <2> SUFFICES ASSUME NEW k \in 1 .. Len(r), Carries(r[k], n),
                      \A j \in k + 1 .. Len(r) : ~Carries(r[j], n)
               PROVE  r[k].items[1].v = v
    BY DEF LastSays
  <2>1. k \in 1 .. Len(q) /\ r[k] = q[k]
    BY <1>1, <1>4
  <2>2. ASSUME NEW j \in k + 1 .. Len(q)
        PROVE  ~Carries(q[j], n)
    <3>1. j \in k + 1 .. Len(r) /\ j \in 1 .. Len(q)
      BY <1>1, <2>1, <2>2
    <3> QED
      BY <1>1, <3>1
  <2> QED
    BY <1>4, <2>1, <2>2 DEF LastSays
<1> QED
  BY <1>2, <1>3, <1>4 DEF r

LEMMA SaidByTail ==
    ASSUME NEW S, NEW q \in Seq(S), q # <<>>, NEW n, NEW v
    PROVE  /\ Silent(q, n) <=> ~Carries(Head(q), n) /\ Silent(Tail(q), n)
           /\ LastSays(q, n, v) => LastSays(Tail(q), n, v)
           /\ LastSays(q, n, v) /\ Silent(Tail(q), n) /\ Carries(Head(q), n) =>
                  Head(q).items[1].v = v
<1> DEFINE r == Tail(q)
<1>1. /\ Len(q) = Len(r) + 1 /\ Len(r) \in Nat /\ Head(q) = q[1]
      /\ \A k \in 1 .. Len(r) : r[k] = q[k + 1]
  <2>1. /\ Len(r) = Len(q) - 1 /\ Len(q) \in Nat /\ Head(q) = q[1] /\ Len(r) \in Nat
        /\ \A k \in 1 .. Len(r) : r[k] = q[k + 1]
    OBVIOUS
  <2> QED
    BY <2>1
<1> HIDE DEF r
<1>2. Silent(q, n) <=> ~Carries(Head(q), n) /\ Silent(r, n)
  <2>1. ASSUME Silent(q, n)
        PROVE  ~Carries(Head(q), n) /\ Silent(r, n)
    <3>1. 1 \in 1 .. Len(q) /\ \A k \in 1 .. Len(r) : k + 1 \in 1 .. Len(q)
      BY <1>1
    <3> QED
      BY <1>1, <2>1, <3>1 DEF Silent
  <2>2. ASSUME ~Carries(Head(q), n), Silent(r, n), NEW k \in 1 .. Len(q)
        PROVE  ~Carries(q[k], n)
    <3>1. CASE k = 1
      BY <1>1, <2>2, <3>1
    <3>2. CASE k # 1
      <4>1. k - 1 \in 1 .. Len(r) /\ (k - 1) + 1 = k
        BY <1>1, <3>2
      <4> QED
        BY <1>1, <2>2, <4>1 DEF Silent
    <3> QED
      BY <3>1, <3>2
  <2> QED
    BY <2>1, <2>2 DEF Silent
<1>3. ASSUME LastSays(q, n, v)
      PROVE  LastSays(r, n, v)
  <2> SUFFICES ASSUME NEW k \in 1 .. Len(r), Carries(r[k], n),
                      \A j \in k + 1 .. Len(r) : ~Carries(r[j], n)
               PROVE  r[k].items[1].v = v
    BY DEF LastSays
  <2>1. k + 1 \in 1 .. Len(q) /\ r[k] = q[k + 1]
    BY <1>1
  <2>2. ASSUME NEW j \in (k + 1) + 1 .. Len(q)
        PROVE  ~Carries(q[j], n)
    <3>1. j - 1 \in k + 1 .. Len(r) /\ j - 1 \in 1 .. Len(r) /\ (j - 1) + 1 = j
      BY <1>1, <2>2
    <3> QED
      BY <1>1, <3>1
  <2> QED
    BY <1>3, <2>1, <2>2 DEF LastSays
<1>4. ASSUME LastSays(q, n, v), Silent(r, n), Carries(Head(q), n)
      PROVE  Head(q).items[1].v = v
  <2>1. ASSUME NEW j \in 1 + 1 .. Len(q)
        PROVE  ~Carries(q[j], n)
    <3>1. j - 1 \in 1 .. Len(r) /\ (j - 1) + 1 = j
      BY <1>1, <2>1
    <3> QED
      BY <1>1, <1>4, <3>1 DEF Silent
  <2>2. 1 \in 1 .. Len(q) /\ Carries(q[1], n)
    BY <1>1, <1>4
  <2> QED
    BY <1>1, <1>4, <2>1, <2>2 DEF LastSays
<1> QED
  BY <1>2, <1>3, <1>4 DEF r

LEMMA SubscribeKeeps ==
    ASSUME NodeInv, NEW n \in Nodes, PubsubTask!Subscribe(n)
    PROVE  NodeInv'
<1>1. /\ PubsubTask!Idle /\ pubsub_calls' \in 0 .. NodeCalls
      /\ pubsub_subscribed_nodes' = pubsub_subscribed_nodes \cup {n}
      /\ pubsub_gets' = Append(pubsub_gets, n) /\ pubsub_answered' = pubsub_answered \ {n}
      /\ pubsub_learned' = [pubsub_learned EXCEPT ![n] = PubsubTask!Unheard]
      /\ UNCHANGED <<pubsub_value, pubsub_version, pubsub_wire, pubsub_queue, pubsub_items>>
  BY BoundAssumption DEF PubsubTask!Subscribe, PubsubTask!Called, NodeInv, NodeTypes
<1>2. NodeTypes'
  <2>1. PubsubTask!Unheard \in 0 .. PubsubTask!Unheard
    BY BoundAssumption DEF PubsubTask!Unheard
  <2>2. pubsub_learned' \in [Nodes -> 0 .. PubsubTask!Unheard] /\ pubsub_gets' \in Seq(Nodes)
    BY <1>1, <2>1 DEF NodeInv, NodeTypes
  <2> QED
    BY <1>1, <2>2 DEF NodeInv, NodeTypes, PubsubTask!Idle
<1>3. ASSUME NEW m \in Nodes
      PROVE  NodeFollowed(m)'
  <2>1. \A k \in 1 .. Len(pubsub_gets) : k \in 1 .. Len(pubsub_gets') /\ pubsub_gets'[k] = pubsub_gets[k]
    BY <1>1 DEF NodeInv, NodeTypes
  <2>2. AskedFor(n)'
    <3>1. Len(pubsub_gets) + 1 \in 1 .. Len(pubsub_gets') /\ pubsub_gets'[Len(pubsub_gets) + 1] = n
      BY <1>1 DEF NodeInv, NodeTypes
    <3> QED
      BY <3>1 DEF AskedFor
  <2>3. pubsub_learned'[n] = PubsubTask!Unheard /\ (m # n => pubsub_learned'[m] = pubsub_learned[m])
    BY <1>1 DEF NodeInv, NodeTypes
  <2>4. NodeFollowed(m)
    BY DEF NodeInv, NodesFollowed
  <2>5. UNCHANGED NothingSaid(m)
    BY <1>1 DEF NothingSaid, Silent
  <2> QED
    BY <1>1, <2>1, <2>2, <2>3, <2>4, <2>5 DEF AskedFor, NodeFollowed, LastSays, Silent
<1> QED
  BY <1>2, <1>3 DEF NodeInv, NodesFollowed

LEMMA UnsubscribeKeeps ==
    ASSUME NodeInv, NEW n \in Nodes, PubsubTask!Unsubscribe(n)
    PROVE  NodeInv'
<1>1. /\ pubsub_calls' \in 0 .. NodeCalls /\ pubsub_subscribed_nodes' = pubsub_subscribed_nodes \ {n}
      /\ UNCHANGED <<pubsub_value, pubsub_version, pubsub_wire, pubsub_queue, pubsub_items,
                     pubsub_gets, pubsub_learned, pubsub_answered>>
  BY BoundAssumption DEF PubsubTask!Unsubscribe, PubsubTask!Called, NodeInv, NodeTypes
<1>2. NodeTypes'
  BY <1>1 DEF NodeInv, NodeTypes, PubsubTask!Idle
<1>3. NodesFollowed'
  BY <1>1 DEF AskedFor, NodeInv, NodesFollowed, NodeFollowed, NothingSaid, LastSays, Silent
<1> QED
  BY <1>2, <1>3 DEF NodeInv

\* What the server sends of a node says what it has of it, at that time.
LEMMA ServerSays ==
    ASSUME NodeInv, NEW n \in Nodes, NEW s \in Stanzas({"event", "pubsub", "error"}),
           s.node = n, pubsub_wire' = Append(pubsub_wire, s),
           pubsub_value' \in [Nodes -> 0 .. PubsubTask!Unheard],
           \A m \in Nodes \ {n} : pubsub_value'[m] = pubsub_value[m],
           \/ Carries(s, n) /\ s.items[1].v = pubsub_value'[n]
           \/ ~Carries(s, n) /\ pubsub_value'[n] = pubsub_value[n],
           pubsub_value'[n] = PubsubTask!Unheard =>
               pubsub_value[n] = PubsubTask!Unheard /\ ~Carries(s, n),
           \A m \in Nodes :
               \/ AskedFor(m) => AskedFor(m)'
               \/ m = n /\ (~Carries(s, n) => pubsub_value[n] \in {PubsubTask!Unheard, PubsubTask!Retracted}),
           UNCHANGED <<pubsub_subscribed_nodes, pubsub_queue, pubsub_items, pubsub_learned>>
    PROVE  NodesFollowed'
<1>1. pubsub_wire \in Seq(Stanzas({"event", "pubsub", "error"}))
  BY DEF NodeInv, NodeTypes
<1> SUFFICES ASSUME NEW m \in Nodes
             PROVE  NodeFollowed(m)'
  BY DEF NodesFollowed
<1>2. NodeFollowed(m)
  BY DEF NodeInv, NodesFollowed
<1>3. /\ Silent(pubsub_wire', m) <=> Silent(pubsub_wire, m) /\ ~Carries(s, m)
      /\ Carries(s, m) => m = n
  BY <1>1, SaidByAppend DEF Carries
<1>4. LastSays(pubsub_wire', m, pubsub_value'[m])
  BY <1>1, <1>2, <1>3, SaidByAppend DEF NodeFollowed
<1>5. ~Carries(s, m) => pubsub_value'[m] = pubsub_value[m]
  OBVIOUS
<1>6. UNCHANGED Silent(pubsub_queue, m)
  BY DEF Silent
<1>7. NothingSaid(m)' <=> NothingSaid(m) /\ ~Carries(s, m)
  BY <1>3, <1>6 DEF NothingSaid
<1>8. Silent(pubsub_wire', m) => LastSays(pubsub_queue', m, pubsub_value'[m])
  BY <1>2, <1>3, <1>5 DEF NodeFollowed
<1>9. Silent(pubsub_wire', m) /\ Silent(pubsub_queue', m) /\ pubsub_items'.node = m =>
          pubsub_items'.left[1].v = pubsub_value'[m]
  BY <1>2, <1>3, <1>5 DEF NodeFollowed
<1>10. ASSUME NothingSaid(m)', m \in pubsub_subscribed_nodes'
       PROVE  \/ pubsub_learned'[m] = pubsub_value'[m]
              \/ /\ pubsub_learned'[m] = PubsubTask!Unheard
                 /\ \/ pubsub_value'[m] = PubsubTask!Retracted
                    \/ AskedFor(m)'
  BY <1>2, <1>5, <1>7, <1>10 DEF NodeFollowed
<1>11. pubsub_value'[m] = PubsubTask!Unheard =>
           NothingSaid(m)' /\ pubsub_learned'[m] = PubsubTask!Unheard
  <2>1. pubsub_value'[m] = PubsubTask!Unheard => pubsub_value[m] = PubsubTask!Unheard /\ ~Carries(s, m)
    BY <1>3
  <2> QED
    BY <1>2, <1>7, <2>1 DEF NodeFollowed
<1> QED
  BY <1>4, <1>8, <1>9, <1>10, <1>11 DEF NodeFollowed

LEMMA ChangeKeeps ==
    ASSUME NodeInv, NEW n \in Nodes, NEW retract \in BOOLEAN,
           NEW padding \in PubsubTask!Padding, PubsubTask!Change(n, retract, padding)
    PROVE  NodeInv'
<1> DEFINE c == PubsubTask!Child(IF retract THEN "retract" ELSE "item", pubsub_value'[n])
           s == PubsubTask!Stanza("event", n, <<c>>)
<1>1. /\ pubsub_version \in 0 .. NodeChanges - 1 /\ pubsub_version' = pubsub_version + 1
      /\ pubsub_value' = [pubsub_value EXCEPT ![n] = IF retract THEN PubsubTask!Retracted ELSE pubsub_version']
      /\ UNCHANGED <<pubsub_subscribed_nodes, pubsub_gets, pubsub_queue, pubsub_items, pubsub_learned,
                     pubsub_answered, pubsub_calls>>
  BY BoundAssumption DEF PubsubTask!Change, NodeInv, NodeTypes
<1>2. pubsub_wire' = Append(pubsub_wire, s)
  <2>1. padding = <<>>
    BY DEF PubsubTask!Padding
  <2>2. <<>> \o <<c>> = <<c>>
    OBVIOUS
  <2> QED
    BY <2>1, <2>2 DEF PubsubTask!Change
<1>3. /\ pubsub_value' \in [Nodes -> 0 .. PubsubTask!Unheard]
      /\ pubsub_value'[n] # PubsubTask!Unheard /\ pubsub_value'[n] \in 0 .. PubsubTask!Unheard
      /\ \A m \in Nodes \ {n} : pubsub_value'[m] = pubsub_value[m]
  BY <1>1, BoundAssumption DEF NodeInv, NodeTypes, PubsubTask!Unheard, PubsubTask!Retracted
<1>4. c \in Children /\ c.v = pubsub_value'[n]
  BY <1>3 DEF Children, PubsubTask!Child
<1> HIDE DEF c
<1>5. /\ s \in Stanzas({"event", "pubsub", "error"}) /\ s.node = n /\ Carries(s, n)
      /\ s.items[1].v = pubsub_value'[n]
  BY <1>4 DEF Stanzas, OneChild, PubsubTask!Stanza, Carries
<1> HIDE DEF s
<1>6. NodesFollowed'
  BY <1>1, <1>2, <1>3, <1>5, ServerSays DEF AskedFor
<1>7. NodeTypes'
  <2>1. pubsub_wire' \in Seq(Stanzas({"event", "pubsub", "error"}))
    BY <1>1, <1>2, <1>5 DEF NodeInv, NodeTypes
  <2>2. pubsub_version' \in 0 .. NodeChanges
    BY <1>1, BoundAssumption
  <2> QED
    BY <1>1, <1>3, <2>1, <2>2 DEF NodeInv, NodeTypes, PubsubTask!Idle
<1> QED
  BY <1>6, <1>7 DEF NodeInv

LEMMA AnswerKeeps ==
    ASSUME NodeInv, PubsubTask!Answer
    PROVE  NodeInv'
<1> DEFINE n == pubsub_gets[1]
           c == PubsubTask!Child("item", pubsub_value[n])
           s == IF pubsub_value[n] = PubsubTask!Unheard THEN PubsubTask!Stanza("error", n, <<>>)
                ELSE PubsubTask!Stanza("pubsub", n,
                         IF pubsub_value[n] = PubsubTask!Retracted THEN <<>> ELSE <<c>>)
<1>1. /\ pubsub_gets # <<>> /\ pubsub_gets \in Seq(Nodes) /\ Head(pubsub_gets) = n
      /\ n \in Nodes /\ pubsub_gets' = Tail(pubsub_gets) /\ pubsub_gets' \in Seq(Nodes)
      /\ Len(pubsub_gets) \in Nat /\ Len(pubsub_gets') = Len(pubsub_gets) - 1
      /\ \A k \in 1 .. Len(pubsub_gets') : pubsub_gets'[k] = pubsub_gets[k + 1]
  BY DEF PubsubTask!Answer, NodeInv, NodeTypes
<1>2. /\ UNCHANGED <<pubsub_subscribed_nodes, pubsub_value, pubsub_version, pubsub_queue, pubsub_items,
                     pubsub_learned, pubsub_answered, pubsub_calls>>
      /\ pubsub_wire' = Append(pubsub_wire, s)
  BY <1>1 DEF PubsubTask!Answer
<1>3. pubsub_value[n] \in 0 .. PubsubTask!Unheard /\ pubsub_value \in [Nodes -> 0 .. PubsubTask!Unheard]
  BY <1>1 DEF NodeInv, NodeTypes
<1>4. c \in Children /\ c.v = pubsub_value[n]
  BY <1>3 DEF Children, PubsubTask!Child
<1> HIDE DEF c
<1>5. /\ s \in Stanzas({"event", "pubsub", "error"}) /\ s.node = n
      /\ pubsub_value[n] \in {PubsubTask!Unheard, PubsubTask!Retracted} => ~Carries(s, n)
      /\ pubsub_value[n] \notin {PubsubTask!Unheard, PubsubTask!Retracted} =>
             Carries(s, n) /\ s.items[1].v = pubsub_value[n]
  <2>1. CASE pubsub_value[n] \in {PubsubTask!Unheard, PubsubTask!Retracted}
    BY <1>1, <2>1 DEF Stanzas, PubsubTask!Stanza, Carries
  <2>2. CASE pubsub_value[n] \notin {PubsubTask!Unheard, PubsubTask!Retracted}
    BY <1>1, <1>4, <2>2 DEF Stanzas, OneChild, PubsubTask!Stanza, Carries
  <2> QED
    BY <2>1, <2>2
<1> HIDE DEF s
<1>6. ASSUME NEW m \in Nodes, m # n, AskedFor(m)
      PROVE  AskedFor(m)'
  <2>1. PICK k \in 1 .. Len(pubsub_gets) : pubsub_gets[k] = m
    BY <1>6 DEF AskedFor
  <2>2. k - 1 \in 1 .. Len(pubsub_gets') /\ (k - 1) + 1 = k
    BY <1>1, <1>6, <2>1
  <2>3. pubsub_gets'[k - 1] = m
    BY <1>1, <2>1, <2>2
  <2> QED
    BY <2>2, <2>3 DEF AskedFor
<1> HIDE DEF n
<1>7. NodesFollowed'
  BY <1>1, <1>2, <1>3, <1>5, <1>6, ServerSays
<1>8. NodeTypes'
  <2>1. pubsub_wire' \in Seq(Stanzas({"event", "pubsub", "error"}))
    BY <1>2, <1>5 DEF NodeInv, NodeTypes
  <2> QED
    BY <1>1, <1>2, <2>1 DEF NodeInv, NodeTypes, PubsubTask!Idle
<1> QED
  BY <1>7, <1>8 DEF NodeInv

LEMMA HandleNodeKeeps ==
    ASSUME NodeInv, PubsubTask!HandleStanza
    PROVE  NodeInv'
<1> DEFINE h == Head(pubsub_wire)
           s == PubsubTask!QueuedChild(h)
<1>1. /\ pubsub_wire # <<>> /\ pubsub_wire \in Seq(Stanzas({"event", "pubsub", "error"}))
      /\ pubsub_wire' = Tail(pubsub_wire) /\ pubsub_queue' = Append(pubsub_queue, s)
      /\ pubsub_queue \in Seq(Stanzas({"event", "pubsub"}))
      /\ UNCHANGED <<pubsub_subscribed_nodes, pubsub_value, pubsub_version, pubsub_gets, pubsub_items,
                     pubsub_learned, pubsub_answered, pubsub_calls>>
  BY DEF PubsubTask!HandleStanza, NodeInv, NodeTypes
<1>2. h \in Stanzas({"event", "pubsub", "error"}) /\ pubsub_wire' \in Seq(Stanzas({"event", "pubsub", "error"}))
  BY <1>1
<1> HIDE DEF h
<1>3. s \in Stanzas({"event", "pubsub"}) /\ s.node = h.node /\ s.items = h.items
  BY <1>2 DEF PubsubTask!QueuedChild, Stanzas
<1> HIDE DEF s
<1>4. NodeTypes'
  <2>1. pubsub_queue' \in Seq(Stanzas({"event", "pubsub"}))
    BY <1>1, <1>3
  <2> QED
    BY <1>1, <1>2, <2>1 DEF NodeInv, NodeTypes, PubsubTask!Idle
<1>5. ASSUME NEW m \in Nodes
      PROVE  NodeFollowed(m)'
  <2>1. NodeFollowed(m)
    BY DEF NodeInv, NodesFollowed
  <2>2. Carries(s, m) <=> Carries(h, m)
    BY <1>3 DEF Carries
  <2>3. /\ Silent(pubsub_wire, m) <=> ~Carries(h, m) /\ Silent(pubsub_wire', m)
        /\ LastSays(pubsub_wire', m, pubsub_value[m])
        /\ Silent(pubsub_wire', m) /\ Carries(h, m) => h.items[1].v = pubsub_value[m]
    BY <1>1, <2>1, SaidByTail DEF h, NodeFollowed
  <2>4. /\ Silent(pubsub_queue', m) <=> Silent(pubsub_queue, m) /\ ~Carries(h, m)
        /\ Carries(s, m) /\ s.items[1].v = pubsub_value[m] => LastSays(pubsub_queue', m, pubsub_value[m])
        /\ ~Carries(s, m) /\ LastSays(pubsub_queue, m, pubsub_value[m]) => LastSays(pubsub_queue', m, pubsub_value[m])
    BY <1>1, <1>3, <2>2, SaidByAppend
  <2>5. Silent(pubsub_wire', m) => LastSays(pubsub_queue', m, pubsub_value[m])
    BY <1>3, <2>1, <2>2, <2>3, <2>4 DEF NodeFollowed
  <2>6. Silent(pubsub_wire', m) /\ Silent(pubsub_queue', m) <=> Silent(pubsub_wire, m) /\ Silent(pubsub_queue, m)
    BY <2>3, <2>4
  <2>7. NothingSaid(m)' <=> NothingSaid(m)
    BY <1>1, <2>6 DEF NothingSaid
  <2> QED
    BY <1>1, <2>1, <2>3, <2>5, <2>6, <2>7 DEF AskedFor, NodeFollowed
<1> QED
  BY <1>4, <1>5 DEF NodeInv, NodesFollowed

LEMMA ProcessResponseKeeps ==
    ASSUME NodeInv, PubsubTask!ProcessResponse
    PROVE  NodeInv'
<1> DEFINE s == Head(pubsub_queue)
<1>1. /\ pubsub_queue # <<>> /\ pubsub_queue \in Seq(Stanzas({"event", "pubsub"}))
      /\ pubsub_queue' = Tail(pubsub_queue) /\ PubsubTask!Idle
      /\ UNCHANGED <<pubsub_subscribed_nodes, pubsub_value, pubsub_version, pubsub_gets, pubsub_wire,
                     pubsub_learned, pubsub_calls>>
  BY DEF PubsubTask!ProcessResponse, NodeInv, NodeTypes
<1>2. s \in Stanzas({"event", "pubsub"}) /\ pubsub_queue' \in Seq(Stanzas({"event", "pubsub"}))
  BY <1>1
<1>3. /\ pubsub_items' = IF PubsubTask!HasHandler(s) /\ s.items # <<>>
                         THEN [node |-> s.node, left |-> s.items] ELSE pubsub_items
      /\ pubsub_answered' = IF s.name = "pubsub" THEN pubsub_answered \cup {s.node} ELSE pubsub_answered
  <2>1. s.name # "error"
    BY <1>2 DEF Stanzas
  <2> QED
    BY <2>1 DEF PubsubTask!ProcessResponse, PubsubTask!NextStanza
<1> HIDE DEF s
<1>4. /\ s.node \in Nodes /\ s.items \in OneChild \cup {<<>>}
      /\ pubsub_items.node \notin Nodes
  BY <1>1, <1>2, NodeAssumption DEF Stanzas, PubsubTask!Idle, PubsubTask!NoItems
<1>5. NodeTypes'
  <2>1. pubsub_answered' \subseteq Nodes
    BY <1>3, <1>4 DEF NodeInv, NodeTypes
  <2>2. PubsubTask!Idle' \/ pubsub_items' \in [node : Nodes, left : OneChild]
    BY <1>1, <1>3, <1>4 DEF PubsubTask!Idle
  <2> QED
    BY <1>1, <1>2, <2>1, <2>2 DEF NodeInv, NodeTypes
<1>6. ASSUME NEW m \in Nodes
      PROVE  NodeFollowed(m)'
  <2>1. NodeFollowed(m)
    BY DEF NodeInv, NodesFollowed
  <2>2. /\ Silent(pubsub_queue, m) <=> ~Carries(s, m) /\ Silent(pubsub_queue', m)
        /\ LastSays(pubsub_queue, m, pubsub_value[m]) => LastSays(pubsub_queue', m, pubsub_value[m])
        /\ LastSays(pubsub_queue, m, pubsub_value[m]) /\ Silent(pubsub_queue', m) /\ Carries(s, m) =>
               s.items[1].v = pubsub_value[m]
    BY <1>1, SaidByTail DEF s
  <2>3. UNCHANGED Silent(pubsub_wire, m)
    BY <1>1 DEF Silent
  <2>4. m \in pubsub_subscribed_nodes /\ Carries(s, m) => pubsub_items'.node = m
    BY <1>3 DEF Carries, PubsubTask!HasHandler
  <2>5. pubsub_items'.node = m => Carries(s, m) /\ pubsub_items'.left = s.items
    BY <1>3, <1>4 DEF Carries
  <2>6. NothingSaid(m)' /\ m \in pubsub_subscribed_nodes => NothingSaid(m)
    BY <1>4, <2>2, <2>3, <2>4 DEF NothingSaid
  <2>7. NothingSaid(m) => NothingSaid(m)'
    BY <2>2, <2>3, <2>5 DEF NothingSaid
  <2>8. LastSays(pubsub_wire', m, pubsub_value'[m])
        /\ (Silent(pubsub_wire', m) => LastSays(pubsub_queue', m, pubsub_value'[m]))
    BY <1>1, <2>1, <2>2, <2>3 DEF NodeFollowed
  <2>9. Silent(pubsub_wire', m) /\ Silent(pubsub_queue', m) /\ pubsub_items'.node = m =>
            pubsub_items'.left[1].v = pubsub_value'[m]
    BY <1>1, <2>1, <2>2, <2>3, <2>5 DEF NodeFollowed
  <2>10. NothingSaid(m)' /\ m \in pubsub_subscribed_nodes' =>
             \/ pubsub_learned'[m] = pubsub_value'[m]
             \/ /\ pubsub_learned'[m] = PubsubTask!Unheard
                /\ \/ pubsub_value'[m] = PubsubTask!Retracted
                   \/ AskedFor(m)'
    BY <1>1, <2>1, <2>6 DEF AskedFor, NodeFollowed
  <2>11. pubsub_value'[m] = PubsubTask!Unheard =>
             NothingSaid(m)' /\ pubsub_learned'[m] = PubsubTask!Unheard
    BY <1>1, <2>1, <2>7 DEF NodeFollowed
  <2> QED
    BY <2>8, <2>9, <2>10, <2>11 DEF NodeFollowed
<1> QED
  BY <1>5, <1>6 DEF NodeInv, NodesFollowed

\* Between items none is left, and their node has no name.
LEMMA NoItemsAre == PubsubTask!NoItems.node = "" /\ PubsubTask!NoItems.left = <<>>
BY DEF PubsubTask!NoItems

LEMMA HandleItemKeeps ==
    ASSUME NodeInv, PubsubTask!HandleItem
    PROVE  NodeInv'
<1>1. /\ pubsub_items \in [node : Nodes, left : OneChild]
      /\ UNCHANGED <<pubsub_subscribed_nodes, pubsub_value, pubsub_version, pubsub_gets, pubsub_wire,
                     pubsub_queue, pubsub_answered, pubsub_calls>>
  <2>1. PubsubTask!Idle => pubsub_items.left = <<>>
    BY NoItemsAre DEF PubsubTask!Idle
  <2> QED
    BY <2>1 DEF PubsubTask!HandleItem, NodeInv, NodeTypes
<1>2. PICK c \in Children : pubsub_items.left = <<c>>
  BY <1>1 DEF OneChild
<1>3. Head(<<c>>) = c /\ Len(<<c>>) = 1 /\ <<c>>[1] = c /\ c.v \in 0 .. PubsubTask!Unheard
  BY DEF Children
<1>4. /\ pubsub_learned' = [pubsub_learned EXCEPT ![pubsub_items.node] = c.v]
      /\ pubsub_items' = PubsubTask!NoItems
  BY <1>2, <1>3 DEF PubsubTask!HandleItem
<1>5. pubsub_items'.node \notin Nodes /\ pubsub_items.node \in Nodes
  BY <1>1, <1>4, NodeAssumption DEF PubsubTask!NoItems
<1>6. NodeTypes'
  <2>1. pubsub_learned' \in [Nodes -> 0 .. PubsubTask!Unheard]
    BY <1>3, <1>4, <1>5 DEF NodeInv, NodeTypes
  <2> QED
    BY <1>1, <1>4, <2>1 DEF NodeInv, NodeTypes, PubsubTask!Idle
<1>7. ASSUME NEW m \in Nodes
      PROVE  NodeFollowed(m)'
  <2>1. NodeFollowed(m)
    BY DEF NodeInv, NodesFollowed
  <2>2. pubsub_learned'[m] = IF m = pubsub_items.node THEN c.v ELSE pubsub_learned[m]
    BY <1>4, <1>5 DEF NodeInv, NodeTypes
  <2>3. UNCHANGED <<Silent(pubsub_wire, m), Silent(pubsub_queue, m)>>
    BY <1>1 DEF Silent
  <2>4. CASE m = pubsub_items.node
    BY <1>1, <1>2, <1>3, <1>5, <2>1, <2>2, <2>3, <2>4 DEF NodeFollowed, NothingSaid
  <2>5. CASE m # pubsub_items.node
    <3>1. NothingSaid(m)' <=> NothingSaid(m)
      BY <1>5, <2>3, <2>5 DEF NothingSaid
    <3> QED
      BY <1>1, <1>5, <2>1, <2>2, <2>3, <2>5, <3>1 DEF AskedFor, NodeFollowed
  <2> QED
    BY <2>4, <2>5
<1> QED
  BY <1>6, <1>7 DEF NodeInv, NodesFollowed

LEMMA PubsubNext ==
    ASSUME NodeInv, [PubsubTask!Next]_PubsubTask!vars
    PROVE  NodeInv'
<1>1. CASE UNCHANGED PubsubTask!vars
  BY <1>1 DEF AskedFor, PubsubTask!vars, NodeInv, NodeTypes, NodesFollowed, NodeFollowed, NothingSaid, Silent,
              LastSays, PubsubTask!Idle
<1> QED
  BY <1>1, SubscribeKeeps, UnsubscribeKeeps, ChangeKeeps, AnswerKeeps, HandleNodeKeeps,
     ProcessResponseKeeps, HandleItemKeeps DEF PubsubTask!Next

LEMMA PubsubInit == PubsubTask!Init => NodeInv
<1> SUFFICES ASSUME PubsubTask!Init
             PROVE  NodeInv
  OBVIOUS
<1>1. NodeTypes
  BY EmptySeq, BoundAssumption DEF PubsubTask!Init, NodeTypes, PubsubTask!Idle, PubsubTask!Unheard
<1>2. Len(<<>>) = 0 /\ 1 .. 0 = {}
  BY EmptySeq
<1>3. NodesFollowed
  BY <1>2, NodeAssumption DEF PubsubTask!Init, NodesFollowed, NodeFollowed, NothingSaid, Silent, LastSays,
              PubsubTask!NoItems
<1> QED
  BY <1>1, <1>3 DEF NodeInv

LEMMA PubsubSuffices == NodeInv => PubsubTask!TypeOK /\ PubsubTask!LearnsTheLast
<1> SUFFICES ASSUME NodeInv
             PROVE  PubsubTask!TypeOK /\ PubsubTask!LearnsTheLast
  OBVIOUS
<1>1. PubsubTask!TypeOK
  <2>1. pubsub_items.node \in Nodes \cup {""}
    BY NoItemsAre DEF NodeInv, NodeTypes, PubsubTask!Idle
  <2> QED
    BY <2>1 DEF NodeInv, NodeTypes, PubsubTask!TypeOK
<1>2. ASSUME PubsubTask!Quiet, NEW n \in pubsub_subscribed_nodes
      PROVE  \/ pubsub_learned[n] = pubsub_value[n]
             \/ pubsub_value[n] = PubsubTask!Retracted /\ pubsub_learned[n] = PubsubTask!Unheard
  <2>1. n \in Nodes /\ NodeFollowed(n)
    BY DEF NodeInv, NodeTypes, NodesFollowed
  <2>2. Len(<<>>) = 0 /\ 1 .. 0 = {}
    BY EmptySeq
  <2>3. NothingSaid(n) /\ ~AskedFor(n)
    BY <1>2, <2>1, <2>2, NodeAssumption DEF AskedFor, PubsubTask!Quiet, PubsubTask!Idle, PubsubTask!NoItems, NothingSaid, Silent
  <2> QED
    BY <2>1, <2>3 DEF NodeFollowed
<1> QED
  BY <1>1, <1>2 DEF PubsubTask!LearnsTheLast

-----------------------------------------------------------------------------
(***************************************************************************)
(* What is left of a sequence is in the order it was.                      *)
(***************************************************************************)
\* The instance has its own name for the size of a set.
LEMMA SameSize == \A T : EchoThread!Cardinality(T) = Cardinality(T)
BY DEF EchoThread!Cardinality, Cardinality

UpTo(T, i) == {j \in T : j <= i}
Rank(T, i) == Cardinality(UpTo(T, i))
Nth(T, k) == CHOOSE i \in T : Rank(T, i) = k

\* The elements of a finite set of numbers have the ranks up to its size.
LEMMA RanksGrow ==
    ASSUME NEW T \in SUBSET Nat, IsFiniteSet(T)
    PROVE  /\ \A i \in T : Rank(T, i) \in 1 .. Cardinality(T)
           /\ \A i, j \in T : i < j => Rank(T, i) < Rank(T, j)
<1>1. \A i \in T : IsFiniteSet(UpTo(T, i)) /\ Rank(T, i) \in 1 .. Cardinality(T)
  <2> SUFFICES ASSUME NEW i \in T
               PROVE  IsFiniteSet(UpTo(T, i)) /\ Rank(T, i) \in 1 .. Cardinality(T)
    OBVIOUS
  <2>1. UpTo(T, i) \in SUBSET T /\ i \in UpTo(T, i)
    BY DEF UpTo
  <2>2. IsFiniteSet(UpTo(T, i)) /\ Rank(T, i) <= Cardinality(T)
    BY <2>1, FS_Subset DEF Rank
  <2>3. Rank(T, i) \in Nat /\ Rank(T, i) # 0 /\ Cardinality(T) \in Nat
    BY <2>1, <2>2, FS_CardinalityType, FS_EmptySet DEF Rank
  <2> QED
    BY <2>2, <2>3
<1>2. ASSUME NEW i \in T, NEW j \in T, i < j
      PROVE  Rank(T, i) < Rank(T, j)
  <2>1. UpTo(T, i) \cup {j} \in SUBSET UpTo(T, j) /\ j \notin UpTo(T, i)
    <3>1. i \in Nat /\ j \in Nat /\ i < j
      BY <1>2
    <3>2. ASSUME NEW x \in T, x <= i
          PROVE  x <= j /\ x # j
      BY <3>1, <3>2
    <3>3. j \notin UpTo(T, i)
      BY <3>2 DEF UpTo
    <3>4. ASSUME NEW x \in UpTo(T, i) \cup {j}
          PROVE  x \in UpTo(T, j)
      <4>1. CASE x = j
        BY <3>1, <4>1 DEF UpTo
      <4>2. CASE x \in UpTo(T, i)
        BY <3>2, <4>2 DEF UpTo
      <4> QED
        BY <3>4, <4>1, <4>2
    <3> QED
      BY <3>3, <3>4
  <2>2. Cardinality(UpTo(T, i) \cup {j}) = Rank(T, i) + 1
    BY <1>1, <2>1, FS_AddElement DEF Rank
  <2>3. Cardinality(UpTo(T, i) \cup {j}) <= Rank(T, j)
    BY <1>1, <2>1, FS_Subset DEF Rank
  <2>4. Rank(T, i) \in Nat /\ Rank(T, j) \in Nat
    BY <1>1
  <2> QED
    BY <2>2, <2>3, <2>4
<1> QED
  BY <1>1, <1>2

LEMMA EachRankIsTaken ==
    ASSUME NEW T \in SUBSET Nat, IsFiniteSet(T), NEW k \in 1 .. Cardinality(T)
    PROVE  \E i \in T : Rank(T, i) = k
<1> SUFFICES ASSUME \A i \in T : Rank(T, i) # k
             PROVE  FALSE
  OBVIOUS
<1> DEFINE n == Cardinality(T)
           R == (1 .. n) \ {k}
           f == [i \in T |-> Rank(T, i)]
<1>1. n \in Nat
  BY FS_CardinalityType
<1>2. IsFiniteSet(1 .. n) /\ Cardinality(1 .. n) = n
  BY <1>1, FS_Interval
<1>3. IsFiniteSet(R) /\ Cardinality(R) = n - 1
  <2> DEFINE S == 1 .. n
  <2>1. IsFiniteSet(S) /\ Cardinality(S) = n /\ k \in S
    BY <1>2
  <2> HIDE DEF S, n
  <2>2. IsFiniteSet(S \ {k}) /\ Cardinality(S \ {k}) = Cardinality(S) - 1
    BY <2>1, FS_RemoveElement
  <2> QED
    BY <2>1, <2>2 DEF S
<1>4. f \in [T -> R]
  BY RanksGrow
<1>5. \A i, j \in T : f[i] = f[j] => i = j
  <2>1. \A i, j \in T : i < j \/ j < i \/ i = j
    OBVIOUS
  <2>2. \A i \in T : Rank(T, i) \in Int /\ f[i] = Rank(T, i)
    BY <1>1, RanksGrow
  <2> QED
    BY <2>1, <2>2, RanksGrow
<1>6. Cardinality(R) < Cardinality(T)
  BY <1>1, <1>3
<1>7. IsFiniteSet(R)
  BY <1>3
<1> HIDE DEF R, f
<1>8. \E i, j \in T : i # j /\ f[i] = f[j]
  BY <1>4, <1>6, <1>7, FS_PigeonHole
<1> QED
  BY <1>5, <1>8

LEMMA NthInOrder ==
    ASSUME NEW T \in SUBSET Nat, IsFiniteSet(T)
    PROVE  /\ \A k \in 1 .. Cardinality(T) : Nth(T, k) \in T
           /\ \A j, k \in 1 .. Cardinality(T) : j < k => Nth(T, j) < Nth(T, k)
           /\ \A i \in T : \E k \in 1 .. Cardinality(T) : Nth(T, k) = i
<1>1. \A k \in 1 .. Cardinality(T) : Nth(T, k) \in T /\ Rank(T, Nth(T, k)) = k
  BY EachRankIsTaken DEF Nth
<1>2. \A i, j \in T : i < j \/ j < i \/ i = j
  OBVIOUS
<1>3. ASSUME NEW j \in 1 .. Cardinality(T), NEW k \in 1 .. Cardinality(T), j < k
      PROVE  Nth(T, j) < Nth(T, k)
  <2>1. j \in Nat /\ k \in Nat
    BY FS_CardinalityType
  <2>2. Nth(T, j) \in T /\ Nth(T, k) \in T
    BY <1>1
  <2>3. Rank(T, Nth(T, j)) < Rank(T, Nth(T, k)) /\ ~(Rank(T, Nth(T, k)) < Rank(T, Nth(T, j)))
    BY <1>1, <1>3, <2>1
  <2>4. Nth(T, j) # Nth(T, k)
    BY <1>1, <1>3, <2>1
  <2>5. ~(Nth(T, k) < Nth(T, j))
    BY <2>2, <2>3, RanksGrow
  <2> QED
    BY <1>2, <2>2, <2>4, <2>5
<1>4. ASSUME NEW i \in T
      PROVE  Rank(T, i) \in 1 .. Cardinality(T) /\ Nth(T, Rank(T, i)) = i
  <2>1. Rank(T, i) \in 1 .. Cardinality(T)
    BY RanksGrow
  <2>2. ~(i < Nth(T, Rank(T, i))) /\ ~(Nth(T, Rank(T, i)) < i)
    <3>1. Nth(T, Rank(T, i)) \in T /\ Rank(T, Nth(T, Rank(T, i))) = Rank(T, i)
      BY <1>1, <2>1
    <3>2. ~(Rank(T, i) < Rank(T, i))
      BY <2>1, FS_CardinalityType
    <3> QED
      BY <3>1, <3>2, RanksGrow
  <2> QED
    BY <1>1, <1>2, <2>1, <2>2
<1> QED
  BY <1>1, <1>3, <1>4

\* g leads from the places of r to those of s that are not in ms.
Embeds(g, r, s, ms) ==
    /\ g \in [1 .. Len(r) -> 1 .. Len(s)]
    /\ \A k \in 1 .. Len(r) : r[k] = s[g[k]] /\ r[k] \notin ms
    /\ \A j, k \in 1 .. Len(r) : j < k => g[j] < g[k]
    /\ \A i \in 1 .. Len(s) : s[i] \notin ms => \E k \in 1 .. Len(r) : g[k] = i

LEMMA LeftEmbeds ==
    ASSUME NEW S, NEW s \in Seq(S), NEW ms
    PROVE  /\ EchoThread!Left(s, ms) \in Seq(S)
           /\ \E g : Embeds(g, EchoThread!Left(s, ms), s, ms)
<1> DEFINE T == {i \in DOMAIN s : s[i] \notin ms}
           n == Cardinality(T)
           g == [k \in 1 .. n |-> Nth(T, k)]
           r == EchoThread!Left(s, ms)
<1>1. r = [k \in 1 .. n |-> s[Nth(T, k)]]
  BY DEF EchoThread!Left, EchoThread!Cardinality, Cardinality, Nth, Rank, UpTo
<1>2. DOMAIN s = 1 .. Len(s) /\ Len(s) \in Nat /\ \A i \in 1 .. Len(s) : s[i] \in S
  OBVIOUS
<1>3. /\ \A i \in T : i \in 1 .. Len(s) /\ s[i] \in S /\ s[i] \notin ms
      /\ \A i \in 1 .. Len(s) : s[i] \notin ms => i \in T
  BY <1>2
<1>4. T \in SUBSET Nat /\ IsFiniteSet(T) /\ n \in Nat
  <2>1. IsFiniteSet(1 .. Len(s)) /\ T \in SUBSET (1 .. Len(s))
    BY <1>2, FS_Interval
  <2>2. IsFiniteSet(T)
    BY <2>1, FS_Subset
  <2> QED
    BY <1>2, <2>1, <2>2, FS_CardinalityType
<1> HIDE DEF T, r
<1>5. /\ \A k \in 1 .. n : Nth(T, k) \in T
      /\ \A j, k \in 1 .. n : j < k => Nth(T, j) < Nth(T, k)
      /\ \A i \in T : \E k \in 1 .. n : Nth(T, k) = i
  BY <1>4, NthInOrder
<1> HIDE DEF n
<1>6. r \in Seq(S) /\ Len(r) = n /\ \A k \in 1 .. n : r[k] = s[Nth(T, k)]
  <2>1. \A k \in 1 .. n : s[Nth(T, k)] \in S
    BY <1>3, <1>5
  <2> QED
    BY <1>1, <1>4, <2>1
<1>7. Embeds(g, r, s, ms)
  <2>1. g \in [1 .. n -> 1 .. Len(s)] /\ \A k \in 1 .. n : g[k] = Nth(T, k)
    BY <1>3, <1>5
  <2> HIDE DEF g
  <2> QED
    BY <1>3, <1>5, <1>6, <2>1 DEF Embeds
<1> QED
  BY <1>6, <1>7 DEF r

(***************************************************************************)
(* The queue of the echo thread, as the messages that are in it, those that*)
(* are in it once, and those that others are not ahead of.                 *)
(***************************************************************************)
EchoMessage == {"LOGIN", "DISCONNECT", "OPEN", "MESSAGE", "CLOSED", "WAKE", "PING"}
\* Messages that change which session there is.
Turn == {"LOGIN", "DISCONNECT", "CLOSED"}

Within(q, m) == \E k \in 1 .. Len(q) : q[k] = m
Single(q, m) == \A j, k \in 1 .. Len(q) : q[j] = m /\ q[k] = m => j = k
Leading(q, m) == \A k \in 1 .. Len(q) : q[k] = m => \A j \in 1 .. k - 1 : q[j] \notin Turn
Places(q, m) == {k \in 1 .. Len(q) : q[k] = m}
Count(q, m) == Cardinality(Places(q, m))

EchoLine(q) ==
    /\ Single(q, "OPEN") /\ Single(q, "CLOSED") /\ Single(q, "LOGIN")
    /\ Leading(q, "OPEN") /\ Leading(q, "MESSAGE")

LEMMA CountIsNat ==
    ASSUME NEW q \in Seq(EchoMessage), NEW m
    PROVE  IsFiniteSet(Places(q, m)) /\ Count(q, m) \in Nat
<1>1. IsFiniteSet(1 .. Len(q)) /\ Places(q, m) \in SUBSET (1 .. Len(q))
  BY FS_Interval DEF Places
<1>2. IsFiniteSet(Places(q, m))
  BY <1>1, FS_Subset
<1> QED
  BY <1>2, FS_CardinalityType DEF Count

LEMMA OneMore ==
    ASSUME NEW q \in Seq(EchoMessage), NEW x \in EchoMessage
    PROVE  /\ Append(q, x) \in Seq(EchoMessage)
           /\ \A m : Within(Append(q, x), m) <=> Within(q, m) \/ m = x
           /\ \A m : Single(q, m) /\ (m # x \/ ~Within(q, m)) => Single(Append(q, x), m)
           /\ \A m : Leading(q, m) /\ (m # x \/ \A t \in Turn : ~Within(q, t)) =>
                         Leading(Append(q, x), m)
           /\ Count(Append(q, x), "MESSAGE") = Count(q, "MESSAGE") + IF x = "MESSAGE" THEN 1 ELSE 0
<1> DEFINE r == Append(q, x)
           n == Len(q)
<1>1. /\ r \in Seq(EchoMessage) /\ Len(r) = n + 1 /\ n \in Nat /\ r[n + 1] = x
      /\ \A k \in 1 .. n : r[k] = q[k]
  OBVIOUS
<1> HIDE DEF r
<1>2. \A m : Within(r, m) <=> Within(q, m) \/ m = x
  <2>1. \A k \in 1 .. n + 1 : k \in 1 .. n \/ k = n + 1
    BY <1>1
  <2>2. \A k \in 1 .. n : k \in 1 .. n + 1
    BY <1>1
  <2>3. n + 1 \in 1 .. n + 1
    BY <1>1
  <2> QED
    BY <1>1, <2>1, <2>2, <2>3 DEF Within
<1>3. ASSUME NEW m, Single(q, m), m # x \/ ~Within(q, m)
      PROVE  Single(r, m)
  BY <1>1, <1>3 DEF Single, Within
<1>4. ASSUME NEW m, Leading(q, m), m # x \/ \A t \in Turn : ~Within(q, t)
      PROVE  Leading(r, m)
  BY <1>1, <1>4 DEF Leading, Within
<1>5. Count(r, "MESSAGE") = Count(q, "MESSAGE") + IF x = "MESSAGE" THEN 1 ELSE 0
  <2>1. IsFiniteSet(Places(q, "MESSAGE")) /\ n + 1 \notin Places(q, "MESSAGE")
    <3>1. IsFiniteSet(Places(q, "MESSAGE"))
      BY CountIsNat
    <3>2. n + 1 \notin Places(q, "MESSAGE")
      BY <1>1 DEF Places
    <3> QED
      BY <3>1, <3>2
  <2>2. CASE x = "MESSAGE"
    <3>1. Places(r, "MESSAGE") = Places(q, "MESSAGE") \cup {n + 1}
      BY <1>1, <2>2 DEF Places
    <3> QED
      BY <2>1, <2>2, <3>1, FS_AddElement DEF Count
  <2>3. CASE x # "MESSAGE"
    <3>1. Places(r, "MESSAGE") = Places(q, "MESSAGE")
      BY <1>1, <2>3 DEF Places
    <3>2. Count(q, "MESSAGE") \in Nat
      BY CountIsNat
    <3> QED
      BY <2>3, <3>1, <3>2 DEF Count
  <2> QED
    BY <2>2, <2>3
<1> QED
  BY <1>1, <1>2, <1>3, <1>4, <1>5 DEF r

\* What is left of a line is a line.
LEMMA LeftInLine ==
    ASSUME NEW s \in Seq(EchoMessage), NEW r \in Seq(EchoMessage), NEW ms, NEW g,
           Embeds(g, r, s, ms)
    PROVE  /\ \A m : Within(r, m) <=> Within(s, m) /\ m \notin ms
           /\ EchoLine(s) => EchoLine(r)
           /\ "MESSAGE" \notin ms => Count(r, "MESSAGE") = Count(s, "MESSAGE")
<1>1. Len(r) \in Nat /\ Len(s) \in Nat
  OBVIOUS
<1>2. \A k \in 1 .. Len(r) : g[k] \in 1 .. Len(s) /\ r[k] = s[g[k]] /\ r[k] \notin ms
  BY DEF Embeds
<1>3. \A j, k \in 1 .. Len(r) : j < k => g[j] < g[k]
  BY DEF Embeds
<1>4. \A i \in 1 .. Len(s) : s[i] \notin ms => \E k \in 1 .. Len(r) : g[k] = i
  BY DEF Embeds
<1>5. \A m : Within(r, m) <=> Within(s, m) /\ m \notin ms
  <2> TAKE m
  <2>1. ASSUME NEW k \in 1 .. Len(r), r[k] = m
        PROVE  Within(s, m) /\ m \notin ms
    BY <1>2, <2>1 DEF Within
  <2>2. ASSUME NEW i \in 1 .. Len(s), s[i] = m, m \notin ms
        PROVE  Within(r, m)
    <3>1. PICK k \in 1 .. Len(r) : g[k] = i
      BY <1>4, <2>2
    <3>2. r[k] = m
      BY <1>2, <2>2, <3>1
    <3> QED
      BY <3>2 DEF Within
  <2> QED
    BY <2>1, <2>2 DEF Within
<1>6. ASSUME NEW m, Single(s, m)
      PROVE  Single(r, m)
  <2> SUFFICES ASSUME NEW j \in 1 .. Len(r), NEW k \in 1 .. Len(r), r[j] = m, r[k] = m, j < k
               PROVE  FALSE
    BY <1>1 DEF Single
  <2>1. g[j] < g[k] /\ g[j] = g[k] /\ g[j] \in Int
    BY <1>1, <1>2, <1>3, <1>6 DEF Single
  <2> QED
    BY <2>1
<1>7. ASSUME NEW m, Leading(s, m)
      PROVE  Leading(r, m)
  <2> SUFFICES ASSUME NEW k \in 1 .. Len(r), r[k] = m, NEW j \in 1 .. k - 1
               PROVE  r[j] \notin Turn
    BY DEF Leading
  <2>1. j \in 1 .. Len(r) /\ j < k
    BY <1>1
  <2>2. g[j] \in 1 .. g[k] - 1
    BY <1>1, <1>2, <1>3, <2>1
  <2> QED
    BY <1>2, <1>7, <2>1, <2>2 DEF Leading
<1>8. ASSUME "MESSAGE" \notin ms
      PROVE  Count(r, "MESSAGE") = Count(s, "MESSAGE")
  <2> DEFINE A == Places(r, "MESSAGE")
             B == Places(s, "MESSAGE")
             f == [k \in A |-> g[k]]
  <2>1. f \in [A -> B]
    BY <1>2 DEF Places
  <2>2. \A j, k \in A : f[j] = f[k] => j = k
    <3> SUFFICES ASSUME NEW j \in A, NEW k \in A, j # k, f[j] = f[k]
                 PROVE  FALSE
      OBVIOUS
    <3>1. j \in 1 .. Len(r) /\ k \in 1 .. Len(r) /\ f[j] = g[j] /\ f[k] = g[k]
      BY DEF Places
    <3>2. j < k \/ k < j
      BY <1>1, <3>1
    <3>3. g[j] \in Int /\ g[k] \in Int /\ g[j] = g[k]
      BY <1>1, <1>2, <3>1
    <3> QED
      BY <1>3, <3>1, <3>2, <3>3
  <2>3. \A i \in B : \E k \in A : f[k] = i
    BY <1>2, <1>4, <1>8 DEF Places
  <2>4. IsFiniteSet(A) /\ IsFiniteSet(B)
    BY CountIsNat
  <2> HIDE DEF A, B, f
  <2>5. f \in Bijection(A, B)
    <3>1. f \in Injection(A, B)
      BY <2>1, <2>2 DEF Injection, IsInjective
    <3>2. f \in Surjection(A, B)
      BY <2>1, <2>3 DEF Surjection
    <3> QED
      BY <3>1, <3>2 DEF Bijection
  <2>6. Cardinality(B) = Cardinality(A)
    BY <2>4, <2>5, FS_Bijection DEF ExistsBijection
  <2> QED
    BY <2>6 DEF Count, A, B
<1> QED
  BY <1>5, <1>6, <1>7, <1>8 DEF EchoLine

\* So is what is left without its head, and of that only messages other than
\* the head that came before every turn are gone.
LEMMA TailInLine ==
    ASSUME NEW q \in Seq(EchoMessage), q # <<>>
    PROVE  /\ Tail(q) \in Seq(EchoMessage) /\ Head(q) \in EchoMessage
           /\ \A m : Within(q, m) <=> m = Head(q) \/ Within(Tail(q), m)
           /\ EchoLine(q) => EchoLine(Tail(q))
           /\ EchoLine(q) /\ Head(q) \in {"OPEN", "CLOSED", "LOGIN"} => ~Within(Tail(q), Head(q))
           /\ EchoLine(q) /\ Head(q) \in Turn =>
                  ~Within(Tail(q), "OPEN") /\ ~Within(Tail(q), "MESSAGE")
           /\ Count(q, "MESSAGE") = Count(Tail(q), "MESSAGE") + IF Head(q) = "MESSAGE" THEN 1 ELSE 0
<1> DEFINE r == Tail(q)
           n == Len(r)
<1>1. /\ r \in Seq(EchoMessage) /\ n \in Nat /\ Len(q) = n + 1 /\ Head(q) = q[1]
      /\ \A k \in 1 .. n : r[k] = q[k + 1]
      /\ q[1] \in EchoMessage
  OBVIOUS
<1> HIDE DEF r
<1>2. \A k \in 1 .. n + 1 : k = 1 \/ (k - 1 \in 1 .. n /\ r[k - 1] = q[k])
  BY <1>1
<1>3. \A k \in 1 .. n : k + 1 \in 1 .. n + 1
  BY <1>1
<1>4. \A m : Within(q, m) <=> m = Head(q) \/ Within(r, m)
  <2> TAKE m
  <2>1. 1 \in 1 .. n + 1
    BY <1>1
  <2>2. ASSUME NEW k \in 1 .. n + 1, q[k] = m
        PROVE  m = Head(q) \/ Within(r, m)
    <3>1. CASE k = 1
      BY <1>1, <2>2, <3>1
    <3>2. CASE k - 1 \in 1 .. n /\ r[k - 1] = q[k]
      BY <2>2, <3>2 DEF Within
    <3> QED
      BY <1>2, <3>1, <3>2
  <2>3. ASSUME NEW k \in 1 .. n, r[k] = m
        PROVE  Within(q, m)
    <3>1. k + 1 \in 1 .. Len(q) /\ q[k + 1] = m
      BY <1>1, <1>3, <2>3
    <3> QED
      BY <3>1 DEF Within
  <2>4. m = Head(q) => Within(q, m)
    BY <1>1, <2>1 DEF Within
  <2> QED
    BY <1>1, <2>2, <2>3, <2>4 DEF Within
<1>5. ASSUME NEW m, Single(q, m)
      PROVE  Single(r, m) /\ (Head(q) = m => ~Within(r, m))
  <2>1. \A k \in 1 .. n : k + 1 \in 1 .. Len(q) /\ q[k + 1] = r[k] /\ k + 1 # 1
    BY <1>1
  <2>2. ASSUME NEW j \in 1 .. n, NEW k \in 1 .. n, r[j] = m, r[k] = m
        PROVE  j = k
    <3>1. j + 1 = k + 1
      BY <1>5, <2>1, <2>2 DEF Single
    <3> QED
      BY <3>1
  <2>3. ASSUME NEW k \in 1 .. n, r[k] = m, Head(q) = m
        PROVE  FALSE
    <3>1. 1 \in 1 .. Len(q) /\ q[1] = m
      BY <1>1, <2>3
    <3> QED
      BY <1>5, <2>1, <2>3, <3>1 DEF Single
  <2> QED
    BY <2>2, <2>3 DEF Single, Within
<1>6. ASSUME NEW m, Leading(q, m)
      PROVE  Leading(r, m) /\ (Head(q) \in Turn => ~Within(r, m))
  <2>1. Leading(r, m)
    <3> SUFFICES ASSUME NEW k \in 1 .. n, r[k] = m, NEW j \in 1 .. k - 1
                 PROVE  r[j] \notin Turn
      BY DEF Leading
    <3>1. j \in 1 .. n /\ j + 1 \in 1 .. (k + 1) - 1 /\ k + 1 \in 1 .. Len(q)
      BY <1>1
    <3> QED
      BY <1>1, <1>6, <3>1 DEF Leading
  <2>2. ASSUME Head(q) \in Turn, NEW k \in 1 .. n, r[k] = m
        PROVE  FALSE
    <3>1. k + 1 \in 1 .. Len(q) /\ 1 \in 1 .. (k + 1) - 1
      BY <1>1
    <3> QED
      BY <1>1, <1>6, <2>2, <3>1 DEF Leading
  <2> QED
    BY <2>1, <2>2 DEF Within
<1>7. Count(q, "MESSAGE") = Count(r, "MESSAGE") + IF Head(q) = "MESSAGE" THEN 1 ELSE 0
  <2> DEFINE A == Places(r, "MESSAGE")
             B == Places(q, "MESSAGE") \ {1}
             f == [k \in A |-> k + 1]
  <2>1. f \in [A -> B]
    BY <1>1, <1>3 DEF Places
  <2>2. \A j, k \in A : f[j] = f[k] => j = k
    BY <1>1 DEF Places
  <2>3. \A i \in B : \E k \in A : f[k] = i
    <3> SUFFICES ASSUME NEW i \in B
                 PROVE  i - 1 \in A /\ f[i - 1] = i
      OBVIOUS
    <3>1. i \in 1 .. n + 1 /\ i # 1 /\ q[i] = "MESSAGE"
      BY <1>1 DEF Places
    <3> QED
      BY <1>1, <1>2, <3>1 DEF Places
  <2>4. IsFiniteSet(A) /\ IsFiniteSet(Places(q, "MESSAGE")) /\ Count(q, "MESSAGE") \in Nat
    BY <1>1, CountIsNat
  <2>5. IsFiniteSet(B) /\ Cardinality(B) = IF 1 \in Places(q, "MESSAGE") THEN Count(q, "MESSAGE") - 1
                                           ELSE Count(q, "MESSAGE")
    BY <2>4, FS_RemoveElement DEF Count
  <2>6. 1 \in Places(q, "MESSAGE") <=> Head(q) = "MESSAGE"
    BY <1>1 DEF Places
  <2> HIDE DEF A, B, f
  <2>7. f \in Bijection(A, B)
    <3>1. f \in Injection(A, B)
      BY <2>1, <2>2 DEF Injection, IsInjective
    <3>2. f \in Surjection(A, B)
      BY <2>1, <2>3 DEF Surjection
    <3> QED
      BY <3>1, <3>2 DEF Bijection
  <2>8. Cardinality(B) = Cardinality(A)
    BY <2>4, <2>7, FS_Bijection DEF ExistsBijection
  <2>9. Count(r, "MESSAGE") = Cardinality(A)
    BY DEF A, Count
  <2> QED
    BY <2>4, <2>5, <2>6, <2>8, <2>9
<1> QED
  BY <1>1, <1>4, <1>5, <1>6, <1>7 DEF EchoLine, r

LEMMA SeveralMore ==
    ASSUME NEW q \in Seq(EchoMessage), NEW n \in Nat
    PROVE  LET r == q \o EchoThread!Times("MESSAGE", n)
           IN  /\ r \in Seq(EchoMessage)
               /\ \A m : Within(r, m) <=> Within(q, m) \/ (m = "MESSAGE" /\ n > 0)
               /\ EchoLine(q) /\ (n = 0 \/ \A t \in Turn : ~Within(q, t)) => EchoLine(r)
               /\ Count(r, "MESSAGE") = Count(q, "MESSAGE") + n
<1> DEFINE w == EchoThread!Times("MESSAGE", n)
           r == q \o w
           l == Len(q)
<1>1. w \in Seq(EchoMessage) /\ Len(w) = n /\ \A k \in 1 .. n : w[k] = "MESSAGE"
  BY DEF EchoThread!Times, EchoMessage
<1> HIDE DEF w
<1>2. /\ r \in Seq(EchoMessage) /\ Len(r) = l + n /\ l \in Nat
      /\ \A k \in 1 .. l : r[k] = q[k]
      /\ \A k \in l + 1 .. l + n : r[k] = "MESSAGE"
  BY <1>1
<1> HIDE DEF r
<1>3. \A k \in 1 .. l + n : k \in 1 .. l \/ k \in l + 1 .. l + n
  BY <1>2
<1>4. \A m : Within(r, m) <=> Within(q, m) \/ (m = "MESSAGE" /\ n > 0)
  <2>1. \A k \in 1 .. l : k \in 1 .. l + n
    BY <1>2
  <2>2. n > 0 => l + 1 \in l + 1 .. l + n /\ l + 1 \in 1 .. l + n
    BY <1>2
  <2>3. n = 0 => l + 1 .. l + n = {}
    BY <1>2
  <2> QED
    BY <1>2, <1>3, <2>1, <2>2, <2>3 DEF Within
<1>5. ASSUME NEW m, m # "MESSAGE", Single(q, m)
      PROVE  Single(r, m)
  BY <1>2, <1>3, <1>5 DEF Single
<1>6. ASSUME NEW m, Leading(q, m), m # "MESSAGE" \/ n = 0 \/ \A t \in Turn : ~Within(q, t)
      PROVE  Leading(r, m)
  <2> SUFFICES ASSUME NEW k \in 1 .. l + n, r[k] = m, NEW j \in 1 .. k - 1
               PROVE  r[j] \notin Turn
    BY <1>2 DEF Leading
  <2>1. CASE k \in 1 .. l
    <3>1. j \in 1 .. l
      BY <1>2, <2>1
    <3> QED
      BY <1>2, <1>6, <2>1, <3>1 DEF Leading
  <2>2. CASE k \in l + 1 .. l + n
    <3>1. m = "MESSAGE" /\ n # 0
      BY <1>2, <2>2
    <3>2. j \in 1 .. l + n
      BY <1>2
    <3>3. "MESSAGE" \notin Turn
      BY DEF Turn
    <3> QED
      BY <1>2, <1>3, <1>6, <3>1, <3>2, <3>3 DEF Within
  <2> QED
    BY <1>3, <2>1, <2>2
<1>7. Count(r, "MESSAGE") = Count(q, "MESSAGE") + n
  <2> DEFINE A == Places(q, "MESSAGE")
             B == l + 1 .. l + n
  <2>1. IsFiniteSet(B) /\ Cardinality(B) = n
    BY <1>2, FS_Interval
  <2>2. IsFiniteSet(A) /\ Cardinality(A) \in Nat
    BY CountIsNat DEF Count
  <2>3. A \cap B = {}
    BY <1>2 DEF Places
  <2>4. Places(r, "MESSAGE") = A \cup B
    <3>1. ASSUME NEW k \in Places(r, "MESSAGE")
          PROVE  k \in A \cup B
      BY <1>2, <1>3 DEF Places
    <3>2. ASSUME NEW k \in A
          PROVE  k \in Places(r, "MESSAGE")
      BY <1>2 DEF Places
    <3>3. ASSUME NEW k \in B
          PROVE  k \in Places(r, "MESSAGE")
      BY <1>2 DEF Places
    <3> QED
      BY <3>1, <3>2, <3>3
  <2> HIDE DEF A, B
  <2>5. Cardinality(A \cup B) = Cardinality(A) + Cardinality(B) - Cardinality(A \cap B)
    BY <2>1, <2>2, FS_Union
  <2>6. Cardinality(A \cap B) = 0
    BY <2>3, FS_EmptySet
  <2>7. Count(r, "MESSAGE") = Cardinality(A \cup B) /\ Count(q, "MESSAGE") = Cardinality(A)
    BY <2>4 DEF Count, A
  <2> QED
    BY <2>1, <2>2, <2>5, <2>6, <2>7
<1> QED
  BY <1>2, <1>4, <1>5, <1>6, <1>7 DEF EchoLine, r, w

\* A message that is added keeps the line when it is the only one of its kind,
\* and one of a session when no turn waits.
LEMMA Added ==
    ASSUME NEW q \in Seq(EchoMessage), NEW x \in EchoMessage
    PROVE  /\ Append(q, x) \in Seq(EchoMessage)
           /\ \A m : Within(Append(q, x), m) <=> Within(q, m) \/ m = x
           /\ Count(Append(q, x), "MESSAGE") = Count(q, "MESSAGE") + IF x = "MESSAGE" THEN 1 ELSE 0
           /\ (/\ EchoLine(q)
               /\ x \in {"OPEN", "CLOSED", "LOGIN"} => ~Within(q, x)
               /\ x \in {"OPEN", "MESSAGE"} =>
                      ~Within(q, "LOGIN") /\ ~Within(q, "DISCONNECT") /\ ~Within(q, "CLOSED"))
              => EchoLine(Append(q, x))
<1>1. (\A t \in Turn : ~Within(q, t)) <=>
          ~Within(q, "LOGIN") /\ ~Within(q, "DISCONNECT") /\ ~Within(q, "CLOSED")
  BY DEF Turn
<1> QED
  BY <1>1, OneMore DEF EchoLine

LEMMA Joined ==
    ASSUME NEW q \in Seq(EchoMessage)
    PROVE  /\ q \o <<>> = q
           /\ \A x \in EchoMessage : q \o <<x>> = Append(q, x)
           /\ q \o <<"WAKE", "CLOSED">> = Append(Append(q, "WAKE"), "CLOSED")
           /\ \A t : q \o EchoThread!WakeUp(t) \in {q, Append(q, "WAKE")}
           /\ \A silent : q \o EchoThread!PingTimeout(silent) \in {q, Append(q, "DISCONNECT")}
<1>1. q \o <<>> = q
  BY ConcatEmptySeq
<1>2. \A x \in EchoMessage : q \o <<x>> = Append(q, x)
  OBVIOUS
<1>3. q \o <<"WAKE", "CLOSED">> = Append(Append(q, "WAKE"), "CLOSED")
  <2> DEFINE r == Append(Append(q, "WAKE"), "CLOSED")
             w == <<"WAKE", "CLOSED">>
  <2>1. w \in Seq(EchoMessage) /\ Len(w) = 2 /\ w[1] = "WAKE" /\ w[2] = "CLOSED"
    BY DEF EchoMessage
  <2>2. "WAKE" \in EchoMessage /\ "CLOSED" \in EchoMessage
    BY DEF EchoMessage
  <2>3. r \in Seq(EchoMessage) /\ Len(r) = Len(q) + 2 /\ r[Len(q) + 1] = "WAKE" /\ r[Len(q) + 2] = "CLOSED"
        /\ \A k \in 1 .. Len(q) : r[k] = q[k]
    BY <2>2
  <2>4. q \o w \in Seq(EchoMessage) /\ Len(q \o w) = Len(q) + 2
        /\ \A k \in 1 .. Len(q) + 2 : (q \o w)[k] = IF k <= Len(q) THEN q[k] ELSE w[k - Len(q)]
    BY <2>1
  <2> HIDE DEF r, w
  <2>5. \A k \in 1 .. Len(q) + 2 : (q \o w)[k] = r[k]
    <3> SUFFICES ASSUME NEW k \in 1 .. Len(q) + 2
                 PROVE  (q \o w)[k] = r[k]
      OBVIOUS
    <3>1. Len(q) \in Nat
      OBVIOUS
    <3>2. k \in 1 .. Len(q) \/ k = Len(q) + 1 \/ k = Len(q) + 2
      BY <3>1
    <3> QED
      BY <2>1, <2>3, <2>4, <3>1, <3>2
  <2>6. q \o w = r
    BY <2>3, <2>4, <2>5
  <2> QED
    BY <2>6 DEF r, w
<1>4. "WAKE" \in EchoMessage /\ "DISCONNECT" \in EchoMessage
  BY DEF EchoMessage
<1>5. \A t : q \o EchoThread!WakeUp(t) \in {q, Append(q, "WAKE")}
  BY <1>1, <1>2, <1>4 DEF EchoThread!WakeUp
<1>6. \A silent : q \o EchoThread!PingTimeout(silent) \in {q, Append(q, "DISCONNECT")}
  BY <1>1, <1>2, <1>4 DEF EchoThread!PingTimeout
<1> QED
  BY <1>1, <1>2, <1>3, <1>5, <1>6

(***************************************************************************)
(* The echo program.  While the console lets it be and no session ends     *)
(* before its beginning was handled, what waits in the queue belongs to    *)
(* the session there is.                                                   *)
(***************************************************************************)
EchoTypes ==
    /\ echo_queue \in Seq(EchoMessage)
    /\ echo_handler \in {"none", "live", "deleted"}
    /\ echo_state \in {"NONE", "START", "OPENING", "OPEN", "CLOSED"}
    /\ echo_client \in {"none", "INIT", "RESPONSE", "ENDED", "DELETED"}
    /\ echo_tasks \in {"none", "live", "ENDED", "orphan", "DELETED"}
    /\ echo_awake \subseteq {"client", "send", "receive", "ping"}
    /\ echo_lost \in {"none", "module", "client", "task"}
    /\ echo_polling \in BOOLEAN /\ echo_module \in BOOLEAN
    /\ echo_meddled \in BOOLEAN /\ echo_overtaken \in BOOLEAN
    /\ echo_unread \in Nat /\ echo_passed \in Nat /\ echo_message \in Nat
    /\ echo_logins \in Nat /\ echo_calls \in 0 .. EchoCalls
    /\ echo_heard \in Seq(Nat) /\ echo_told \in [open : Nat, closed : Nat]

\* What the client is tells what its engine is, which tells each end once.
EchoLife ==
    /\ echo_state = "NONE" <=> echo_client = "none"
    /\ echo_client = "INIT" => echo_state = "START"
    /\ echo_client \in {"ENDED", "DELETED"} => echo_state = "CLOSED"
    /\ echo_told.open <= echo_logins /\ echo_told.closed <= echo_logins
    /\ echo_state \in {"START", "OPENING"} => echo_told.open < echo_logins
    /\ echo_state \in {"START", "OPENING", "OPEN"} => echo_told.closed < echo_logins

EchoHeard ==
    /\ \A i \in 1 .. Len(echo_heard) : echo_heard[i] \in i .. echo_passed
    /\ \A i \in 1 .. Len(echo_heard) - 1 : echo_heard[i] <= echo_heard[i + 1]
    /\ Len(echo_heard) + Count(echo_queue, "MESSAGE") = echo_passed
    /\ echo_passed > 0 => echo_message = echo_passed

EchoPeople ==
    /\ echo_tasks # "orphan" /\ (echo_tasks = "live" => echo_client = "RESPONSE")
    /\ echo_state \in {"NONE", "START", "OPENING"} => echo_tasks \in {"none", "DELETED"}
    /\ echo_state \in {"START", "OPENING"} => echo_module = TRUE /\ echo_handler # "deleted"
    /\ echo_handler = "deleted" /\ echo_state = "OPEN" => Within(echo_queue, "DISCONNECT")
    /\ echo_unread > 0 =>
           \/ echo_state = "CLOSED"
           \/ echo_state = "OPEN" /\ ~Within(echo_queue, "DISCONNECT") /\ echo_tasks = "live"

EchoWaits ==
    /\ Within(echo_queue, "OPEN") =>
           /\ echo_state = "OPEN" /\ echo_client = "RESPONSE" /\ echo_module = TRUE
           /\ echo_tasks \in {"none", "DELETED"} /\ echo_handler # "deleted"
    /\ Within(echo_queue, "MESSAGE") =>
           echo_state = "OPEN" /\ echo_tasks = "live" /\ echo_polling = FALSE
    /\ Within(echo_queue, "CLOSED") => echo_state = "CLOSED"
    /\ Within(echo_queue, "LOGIN") =>
           /\ echo_module = TRUE /\ echo_state \in {"NONE", "CLOSED"}
           /\ ~Within(echo_queue, "CLOSED")
    /\ echo_polling = TRUE /\ echo_state # "NONE" =>
           ~Within(echo_queue, "LOGIN") /\ ~Within(echo_queue, "DISCONNECT")

EchoBegun ==
    \/ echo_calls < EchoCalls
    \/ /\ echo_queue = <<>> /\ echo_state = "NONE" /\ echo_module = FALSE
       /\ echo_tasks = "none" /\ echo_handler = "none"

EchoClean ==
    /\ echo_lost = "none" /\ EchoLine(echo_queue) /\ EchoBegun
    /\ EchoPeople /\ EchoWaits

EchoInv ==
    /\ EchoTypes /\ EchoLife /\ EchoHeard
    /\ echo_meddled = FALSE /\ echo_overtaken = FALSE => EchoClean

LEMMA FromQueue ==
    ASSUME EchoTypes, NEW h \in EchoMessage, EchoThread!Received(h), NEW r,
           r \in {Tail(echo_queue), EchoThread!Without({"WAKE", "PING"}), EchoThread!Without({"PING"})}
    PROVE  /\ echo_polling = FALSE /\ echo_lost = "none"
           /\ r \in Seq(EchoMessage)
           /\ Within(echo_queue, h)
           /\ \A m : Within(r, m) => Within(echo_queue, m)
           /\ \A m \in EchoMessage \ {"WAKE", "PING", h} : Within(echo_queue, m) => Within(r, m)
           /\ EchoLine(echo_queue) => EchoLine(r)
           /\ EchoLine(echo_queue) /\ h \in {"OPEN", "CLOSED", "LOGIN"} => ~Within(r, h)
           /\ EchoLine(echo_queue) /\ h \in {"LOGIN", "DISCONNECT", "CLOSED"} =>
                  ~Within(r, "OPEN") /\ ~Within(r, "MESSAGE")
           /\ Count(echo_queue, "MESSAGE") = Count(r, "MESSAGE") + (IF h = "MESSAGE" THEN 1 ELSE 0)
<1> DEFINE t == Tail(echo_queue)
<1>1. /\ echo_polling = FALSE /\ echo_lost = "none" /\ echo_queue # <<>> /\ Head(echo_queue) = h
      /\ echo_queue \in Seq(EchoMessage)
  <2>1. ~echo_polling /\ echo_polling \in BOOLEAN
    BY DEF EchoThread!Received, EchoTypes
  <2>2. echo_polling = FALSE
    BY <2>1, Zenon
  <2> QED
    BY <2>2 DEF EchoThread!Received, EchoThread!Going, EchoTypes
<1>2. /\ t \in Seq(EchoMessage)
      /\ \A m : Within(echo_queue, m) <=> m = h \/ Within(t, m)
      /\ EchoLine(echo_queue) => EchoLine(t)
      /\ EchoLine(echo_queue) /\ h \in {"OPEN", "CLOSED", "LOGIN"} => ~Within(t, h)
      /\ EchoLine(echo_queue) /\ h \in Turn => ~Within(t, "OPEN") /\ ~Within(t, "MESSAGE")
      /\ Count(echo_queue, "MESSAGE") = Count(t, "MESSAGE") + IF h = "MESSAGE" THEN 1 ELSE 0
  BY <1>1, TailInLine
<1> HIDE DEF t
<1>3. ASSUME NEW ms \in SUBSET {"WAKE", "PING"}, r = EchoThread!Left(t, ms)
      PROVE  /\ r \in Seq(EchoMessage)
             /\ \A m : Within(r, m) <=> Within(t, m) /\ m \notin ms
             /\ EchoLine(t) => EchoLine(r)
             /\ Count(r, "MESSAGE") = Count(t, "MESSAGE")
  <2>1. PICK g : r \in Seq(EchoMessage) /\ Embeds(g, r, t, ms)
    BY <1>2, <1>3, LeftEmbeds
  <2>2. "MESSAGE" \notin ms
    OBVIOUS
  <2> QED
    BY <1>2, <2>1, <2>2, LeftInLine
<1>4. /\ r \in Seq(EchoMessage)
      /\ \A m : Within(r, m) => Within(t, m)
      /\ \A m : m \notin {"WAKE", "PING"} /\ Within(t, m) => Within(r, m)
      /\ EchoLine(t) => EchoLine(r)
      /\ Count(r, "MESSAGE") = Count(t, "MESSAGE")
  <2>1. CASE r = t
    BY <1>2, <2>1
  <2>2. CASE r = EchoThread!Left(t, {"WAKE", "PING"})
    BY <1>3, <2>2
  <2>3. CASE r = EchoThread!Left(t, {"PING"})
    BY <1>3, <2>3
  <2> QED
    BY <2>1, <2>2, <2>3 DEF EchoThread!Without, t
<1>5. h \in Turn <=> h \in {"LOGIN", "DISCONNECT", "CLOSED"}
  BY DEF Turn
<1>6. Within(echo_queue, h) /\ \A m : Within(r, m) => Within(echo_queue, m)
  BY <1>2, <1>4
<1>7. \A m \in EchoMessage \ {"WAKE", "PING", h} : Within(echo_queue, m) => Within(r, m)
  BY <1>2, <1>4
<1>8. EchoLine(echo_queue) => EchoLine(r)
  BY <1>2, <1>4
<1>9. EchoLine(echo_queue) /\ h \in {"OPEN", "CLOSED", "LOGIN"} => ~Within(r, h)
  BY <1>2, <1>4
<1>10. EchoLine(echo_queue) /\ h \in {"LOGIN", "DISCONNECT", "CLOSED"} =>
           ~Within(r, "OPEN") /\ ~Within(r, "MESSAGE")
  BY <1>2, <1>4, <1>5
<1>11. Count(echo_queue, "MESSAGE") = Count(r, "MESSAGE") + IF h = "MESSAGE" THEN 1 ELSE 0
  BY <1>2, <1>4
<1> QED
  BY <1>1, <1>4, <1>6, <1>7, <1>8, <1>9, <1>10, <1>11

LEMMA ConsoleLoginKeeps ==
    ASSUME EchoInv, EchoThread!ConsoleLogin
    PROVE  EchoInv'
<1> DEFINE r == Append(echo_queue, "LOGIN")
<1>1. /\ echo_queue' = r /\ echo_module' = TRUE /\ echo_calls > 0 /\ echo_calls' = echo_calls - 1
      /\ echo_meddled' = (echo_meddled \/ echo_calls < EchoCalls)
      /\ echo_handler' = IF echo_handler = "live" THEN "deleted" ELSE echo_handler
      /\ UNCHANGED <<echo_polling, echo_state, echo_client, echo_tasks, echo_awake, echo_unread,
                     echo_message, echo_try, echo_lost, echo_passed, echo_heard, echo_told,
                     echo_logins, echo_overtaken, echo_stanzas>>
  BY DEF EchoThread!ConsoleLogin, EchoThread!Login, EchoThread!Reset, EchoThread!pump_vars
<1>2. echo_queue \in Seq(EchoMessage) /\ "LOGIN" \in EchoMessage
  BY DEF EchoInv, EchoTypes, EchoMessage
<1>3. /\ r \in Seq(EchoMessage) /\ \A m : Within(r, m) <=> Within(echo_queue, m) \/ m = "LOGIN"
      /\ Count(r, "MESSAGE") = Count(echo_queue, "MESSAGE") + 0
      /\ EchoLine(echo_queue) /\ ~Within(echo_queue, "LOGIN") => EchoLine(r)
  BY <1>2, Added
<1>4. Count(echo_queue, "MESSAGE") \in Nat
  BY <1>2, CountIsNat
<1> HIDE DEF r
<1>5. EchoTypes'
  <2>1. echo_meddled' \in BOOLEAN /\ echo_calls' \in 0 .. EchoCalls
    BY <1>1, BoundAssumption DEF EchoInv, EchoTypes
  <2> QED
    BY <1>1, <1>3, <2>1 DEF EchoInv, EchoTypes
<1>6. EchoLife' /\ EchoHeard'
  BY <1>1, <1>3, <1>4 DEF EchoInv, EchoLife, EchoHeard
<1>7. ASSUME echo_meddled' = FALSE, echo_overtaken' = FALSE
      PROVE  EchoClean'
  <2>1. echo_meddled = FALSE /\ echo_overtaken = FALSE /\ ~(echo_calls < EchoCalls)
    BY <1>1, <1>7 DEF EchoInv, EchoTypes
  <2>2. EchoClean
    BY <2>1 DEF EchoInv
  <2>3. /\ echo_queue = <<>> /\ echo_state = "NONE" /\ echo_module = FALSE
        /\ echo_tasks = "none" /\ echo_handler = "none"
    BY <2>1, <2>2 DEF EchoClean, EchoBegun
  <2>4. \A m : ~Within(echo_queue, m)
    BY <2>3 DEF Within
  <2>5. EchoLine(r)
    BY <1>3, <2>2, <2>4 DEF EchoClean
  <2>6. echo_calls' < EchoCalls
    BY <1>1, BoundAssumption DEF EchoInv, EchoTypes
  <2> QED
    BY <1>1, <1>3, <2>2, <2>3, <2>4, <2>5, <2>6 DEF EchoClean, EchoBegun, EchoPeople, EchoWaits
<1> QED
  BY <1>5, <1>6, <1>7 DEF EchoInv

LEMMA ConsoleDisconnectKeeps ==
    ASSUME EchoInv, EchoThread!ConsoleDisconnect
    PROVE  EchoInv'
<1> DEFINE r == Append(echo_queue, "DISCONNECT")
<1>1. /\ echo_queue' = r /\ echo_module' = FALSE /\ echo_calls > 0 /\ echo_calls' = echo_calls - 1
      /\ echo_meddled' = TRUE
      /\ echo_handler' = IF echo_handler = "live" THEN "deleted" ELSE echo_handler
      /\ UNCHANGED <<echo_polling, echo_state, echo_client, echo_tasks, echo_awake, echo_unread,
                     echo_message, echo_try, echo_lost, echo_passed, echo_heard, echo_told,
                     echo_logins, echo_overtaken, echo_stanzas>>
  BY DEF EchoThread!ConsoleDisconnect, EchoThread!Disconnect, EchoThread!Reset, EchoThread!pump_vars
<1>2. echo_queue \in Seq(EchoMessage) /\ "DISCONNECT" \in EchoMessage
  BY DEF EchoInv, EchoTypes, EchoMessage
<1>3. r \in Seq(EchoMessage) /\ Count(r, "MESSAGE") = Count(echo_queue, "MESSAGE") + 0
  BY <1>2, Added
<1>4. Count(echo_queue, "MESSAGE") \in Nat
  BY <1>2, CountIsNat
<1> HIDE DEF r
<1>5. EchoTypes'
  <2>1. echo_calls' \in 0 .. EchoCalls
    BY <1>1, BoundAssumption DEF EchoInv, EchoTypes
  <2>2. echo_module' \in BOOLEAN /\ echo_meddled' \in BOOLEAN
    BY <1>1
  <2> QED
    BY <1>1, <1>3, <2>1, <2>2 DEF EchoInv, EchoTypes
<1>6. EchoLife' /\ EchoHeard'
  BY <1>1, <1>3, <1>4 DEF EchoInv, EchoLife, EchoHeard
<1> QED
  BY <1>1, <1>5, <1>6 DEF EchoInv

LEMMA OnXmppClosedKeeps ==
    ASSUME EchoInv, EchoThread!OnXmppClosed
    PROVE  EchoInv'
<1> DEFINE r == Tail(echo_queue)
           l == Append(r, "LOGIN")
<1>1. /\ EchoThread!Received("CLOSED")
      /\ \/ /\ echo_module' = TRUE /\ echo_queue' = l
            /\ echo_handler' = IF echo_handler = "live" THEN "deleted" ELSE echo_handler
         \/ echo_module' = echo_module /\ echo_queue' = r /\ echo_handler' = echo_handler
      /\ UNCHANGED <<echo_polling, echo_state, echo_client, echo_tasks, echo_awake,
                     echo_unread, echo_message, echo_lost, echo_passed, echo_heard,
                     echo_told, echo_logins, echo_meddled, echo_overtaken, echo_calls,
                     echo_stanzas>>
  BY DEF EchoThread!OnXmppClosed, EchoThread!DoOnXmppClosed, EchoThread!Login, EchoThread!Reset,
         EchoThread!pump_vars, EchoThread!history
<1>2. EchoTypes /\ "CLOSED" \in EchoMessage /\ "LOGIN" \in EchoMessage /\ "DISCONNECT" \in EchoMessage
  BY DEF EchoInv, EchoMessage
<1>3. /\ echo_polling = FALSE /\ echo_lost = "none" /\ r \in Seq(EchoMessage)
      /\ Within(echo_queue, "CLOSED") /\ \A m : Within(r, m) => Within(echo_queue, m)
      /\ Count(echo_queue, "MESSAGE") = Count(r, "MESSAGE") + 0
      /\ EchoLine(echo_queue) => /\ EchoLine(r)
                                /\ \A m \in {"OPEN", "MESSAGE", "CLOSED"} : ~Within(r, m)
  BY <1>1, <1>2, FromQueue
<1>4. Count(r, "MESSAGE") \in Nat
  BY <1>3, CountIsNat
<1> HIDE DEF r
<1>5. /\ l \in Seq(EchoMessage) /\ \A m : Within(l, m) <=> Within(r, m) \/ m = "LOGIN"
      /\ Count(l, "MESSAGE") = Count(r, "MESSAGE") + 0
      /\ EchoLine(r) /\ ~Within(r, "LOGIN") => EchoLine(l)
  BY <1>2, <1>3, Added
<1> HIDE DEF l
<1>6. EchoTypes'
  <2>1. echo_module' \in BOOLEAN
    BY <1>1, <1>2 DEF EchoTypes
  <2> QED
    BY <1>1, <1>2, <1>3, <1>5, <2>1 DEF EchoTypes
<1>7. EchoLife' /\ EchoHeard'
  BY <1>1, <1>3, <1>4, <1>5 DEF EchoInv, EchoLife, EchoHeard
<1>8. ASSUME echo_meddled' = FALSE, echo_overtaken' = FALSE
      PROVE  EchoClean'
  <2>1. EchoClean
    BY <1>1, <1>8 DEF EchoInv
  <2>2. echo_state = "CLOSED" /\ ~Within(echo_queue, "LOGIN")
    BY <1>3, <2>1 DEF EchoClean, EchoWaits
  <2>3. EchoLine(echo_queue')
    BY <1>1, <1>3, <1>5, <2>1, <2>2 DEF EchoClean
  <2>4. echo_calls < EchoCalls
    BY <1>1, <2>1 DEF EchoClean, EchoBegun, EchoThread!Received
  <2> QED
    BY <1>1, <1>3, <1>5, <2>1, <2>2, <2>3, <2>4 DEF EchoClean, EchoBegun, EchoPeople, EchoWaits
<1> QED
  BY <1>6, <1>7, <1>8 DEF EchoInv

LEMMA OnLoginKeeps ==
    ASSUME EchoInv, EchoThread!OnLogin
    PROVE  EchoInv'
<1> DEFINE r == EchoThread!Without({"WAKE", "PING"})
           l == Append(r, "WAKE")
<1>1. /\ EchoThread!Received("LOGIN") /\ echo_queue' = l
      /\ echo_state' = "START" /\ echo_client' = "INIT" /\ echo_awake' = {"client"} /\ echo_unread' = 0
      /\ echo_tasks' = IF echo_tasks = "none" THEN "none" ELSE "DELETED"
      /\ echo_handler' = "none" /\ echo_logins' = echo_logins + 1
      /\ UNCHANGED <<echo_polling, echo_module, echo_message, echo_try, echo_lost,
                     echo_passed, echo_heard, echo_told, echo_meddled, echo_overtaken,
                     echo_calls, echo_stanzas>>
  BY DEF EchoThread!OnLogin
<1>2. EchoTypes /\ "LOGIN" \in EchoMessage /\ "WAKE" \in EchoMessage /\ "DISCONNECT" \in EchoMessage
  BY DEF EchoInv, EchoMessage
<1>3. /\ echo_polling = FALSE /\ echo_lost = "none" /\ r \in Seq(EchoMessage)
      /\ Within(echo_queue, "LOGIN") /\ \A m : Within(r, m) => Within(echo_queue, m)
      /\ Count(echo_queue, "MESSAGE") = Count(r, "MESSAGE") + 0
      /\ EchoLine(echo_queue) => /\ EchoLine(r)
                                /\ \A m \in {"OPEN", "MESSAGE", "LOGIN"} : ~Within(r, m)
  BY <1>1, <1>2, FromQueue
<1>4. Count(r, "MESSAGE") \in Nat
  BY <1>3, CountIsNat
<1> HIDE DEF r
<1>5. /\ l \in Seq(EchoMessage) /\ \A m : Within(l, m) <=> Within(r, m) \/ m = "WAKE"
      /\ Count(l, "MESSAGE") = Count(r, "MESSAGE") + 0
      /\ EchoLine(r) => EchoLine(l)
  BY <1>2, <1>3, Added
<1> HIDE DEF l
<1>6. EchoTypes'
  BY <1>1, <1>2, <1>3, <1>5 DEF EchoTypes
<1>7. EchoLife' /\ EchoHeard'
  BY <1>1, <1>2, <1>3, <1>4, <1>5 DEF EchoInv, EchoLife, EchoHeard, EchoTypes
<1>8. ASSUME echo_meddled' = FALSE, echo_overtaken' = FALSE
      PROVE  EchoClean'
  <2>1. EchoClean
    BY <1>1, <1>8 DEF EchoInv
  <2>2. echo_module = TRUE /\ ~Within(echo_queue, "CLOSED")
    BY <1>3, <2>1 DEF EchoClean, EchoWaits
  <2>3. EchoLine(echo_queue')
    BY <1>1, <1>3, <1>5, <2>1 DEF EchoClean
  <2>4. echo_calls < EchoCalls
    BY <1>1, <2>1 DEF EchoClean, EchoBegun, EchoThread!Received
  <2> QED
    BY <1>1, <1>3, <1>5, <2>1, <2>2, <2>3, <2>4 DEF EchoClean, EchoBegun, EchoPeople, EchoWaits
<1> QED
  BY <1>6, <1>7, <1>8 DEF EchoInv

LEMMA OnDisconnectKeeps ==
    ASSUME EchoInv, EchoThread!OnDisconnect
    PROVE  EchoInv'
<1> DEFINE r == Tail(echo_queue)
           a == Append(r, "WAKE")
           b == Append(a, "CLOSED")
<1>0. EchoTypes /\ "LOGIN" \in EchoMessage /\ "WAKE" \in EchoMessage /\ "DISCONNECT" \in EchoMessage
      /\ "CLOSED" \in EchoMessage
  BY DEF EchoInv, EchoMessage
<1>1. EchoThread!Received("DISCONNECT")
  BY DEF EchoThread!OnDisconnect
<1>2. /\ echo_polling = FALSE /\ echo_lost = "none" /\ r \in Seq(EchoMessage)
      /\ Within(echo_queue, "DISCONNECT") /\ \A m : Within(r, m) => Within(echo_queue, m)
      /\ Count(echo_queue, "MESSAGE") = Count(r, "MESSAGE") + 0
      /\ EchoLine(echo_queue) => /\ EchoLine(r)
                                /\ \A m \in {"OPEN", "MESSAGE"} : ~Within(r, m)
  BY <1>0, <1>1, FromQueue
<1>3. Count(r, "MESSAGE") \in Nat /\ r \o <<"WAKE", "CLOSED">> = b
  BY <1>2, CountIsNat, Joined
<1>4. /\ \/ /\ echo_client \in {"INIT", "RESPONSE"}
            /\ echo_client' = "ENDED" /\ echo_unread' = 0 /\ echo_awake' = {}
            /\ echo_tasks' = IF echo_tasks = "live" THEN "ENDED" ELSE echo_tasks
            /\ echo_state' = "CLOSED"
            /\ \/ echo_state = "CLOSED" /\ echo_told' = echo_told /\ echo_queue' = a
               \/ /\ echo_state # "CLOSED" /\ echo_queue' = b
                  /\ echo_told' = [echo_told EXCEPT !.closed = @ + 1]
         \/ /\ echo_client \notin {"INIT", "RESPONSE"} /\ echo_queue' = r
            /\ UNCHANGED <<echo_state, echo_client, echo_tasks, echo_awake, echo_unread, echo_told>>
      /\ UNCHANGED <<echo_polling, echo_module, echo_handler, echo_message, echo_try,
                     echo_lost, echo_passed, echo_heard, echo_logins, echo_meddled,
                     echo_overtaken, echo_calls, echo_stanzas>>
  BY <1>3 DEF EchoThread!OnDisconnect, EchoThread!pump_vars
<1> HIDE DEF r
<1>5. /\ a \in Seq(EchoMessage) /\ \A m : Within(a, m) <=> Within(r, m) \/ m = "WAKE"
      /\ Count(a, "MESSAGE") = Count(r, "MESSAGE") + 0
      /\ EchoLine(r) => EchoLine(a)
  BY <1>0, <1>2, Added
<1> HIDE DEF a
<1>6. /\ b \in Seq(EchoMessage) /\ \A m : Within(b, m) <=> Within(a, m) \/ m = "CLOSED"
      /\ Count(b, "MESSAGE") = Count(a, "MESSAGE") + 0
      /\ EchoLine(a) /\ ~Within(a, "CLOSED") => EchoLine(b)
  BY <1>0, <1>5, Added
<1> HIDE DEF b
<1>7. EchoTypes'
  BY <1>0, <1>2, <1>4, <1>5, <1>6 DEF EchoTypes
<1>8. EchoLife'
  BY <1>0, <1>4 DEF EchoInv, EchoLife, EchoTypes
<1>9. EchoHeard'
  BY <1>2, <1>3, <1>4, <1>5, <1>6 DEF EchoInv, EchoHeard
<1>10. ASSUME echo_meddled' = FALSE, echo_overtaken' = FALSE
       PROVE  EchoClean'
  <2>1. EchoClean /\ EchoLife
    BY <1>4, <1>10 DEF EchoInv
  <2>2. echo_calls < EchoCalls
    BY <1>1, <2>1 DEF EchoClean, EchoBegun, EchoThread!Received
  <2>3. CASE /\ echo_client \notin {"INIT", "RESPONSE"} /\ echo_queue' = r
              /\ UNCHANGED <<echo_state, echo_client, echo_tasks, echo_awake, echo_unread>>
    BY <1>0, <1>2, <1>4, <2>1, <2>2, <2>3
       DEF EchoClean, EchoBegun, EchoPeople, EchoWaits, EchoLife, EchoTypes
  <2>4. CASE echo_queue' = a /\ echo_state = "CLOSED" /\ echo_client' = "ENDED"
    BY <1>0, <1>2, <1>4, <1>5, <2>1, <2>2, <2>4
       DEF EchoClean, EchoBegun, EchoPeople, EchoWaits, EchoLife, EchoTypes
  <2>5. CASE echo_queue' = b /\ echo_state # "CLOSED" /\ echo_client \in {"INIT", "RESPONSE"}
    <3>1. /\ ~Within(echo_queue, "CLOSED") /\ ~Within(echo_queue, "LOGIN")
          /\ echo_state' = "CLOSED" /\ echo_client' = "ENDED" /\ echo_unread' = 0
      BY <1>4, <2>1, <2>5 DEF EchoClean, EchoWaits, EchoLife
    <3>2. EchoLine(b) /\ \A m \in {"OPEN", "MESSAGE", "LOGIN"} : ~Within(b, m)
      BY <1>2, <1>5, <1>6, <2>1, <3>1 DEF EchoClean
    <3> QED
      BY <1>0, <1>2, <1>4, <2>1, <2>2, <2>5, <3>1, <3>2
         DEF EchoClean, EchoBegun, EchoPeople, EchoWaits
  <2> QED
    BY <1>4, <2>3, <2>4, <2>5
<1> QED
  BY <1>7, <1>8, <1>9, <1>10 DEF EchoInv

LEMMA OnXmppOpenKeeps ==
    ASSUME EchoInv, EchoThread!OnXmppOpen
    PROVE  EchoInv'
<1> DEFINE r == Tail(echo_queue)
           a == Append(r, "WAKE")
           d == Append(a, "DISCONNECT")
<1>1. /\ EchoThread!Received("OPEN")
      /\ echo_lost' = IF ~echo_module THEN "module"
                      ELSE IF echo_client = "DELETED" THEN "client" ELSE "none"
      /\ echo_tasks' = IF echo_client = "ENDED" THEN "orphan" ELSE "live"
      /\ echo_awake' = echo_awake \union {"send", "receive", "ping"}
      /\ \/ echo_module' = FALSE /\ echo_handler' = "deleted" /\ echo_queue' = d
         \/ echo_module' = echo_module /\ echo_handler' = "live" /\ echo_queue' = a
      /\ UNCHANGED <<echo_polling, echo_state, echo_client, echo_unread, echo_message,
                     echo_passed, echo_heard, echo_told, echo_logins, echo_meddled,
                     echo_overtaken, echo_calls, echo_stanzas>>
  BY DEF EchoThread!OnXmppOpen, EchoThread!DoOnXmppOpen, EchoThread!history
<1>2. EchoTypes /\ "OPEN" \in EchoMessage /\ "WAKE" \in EchoMessage /\ "DISCONNECT" \in EchoMessage
  BY DEF EchoInv, EchoMessage
<1>3. /\ echo_polling = FALSE /\ echo_lost = "none" /\ r \in Seq(EchoMessage)
      /\ Within(echo_queue, "OPEN") /\ \A m : Within(r, m) => Within(echo_queue, m)
      /\ Count(echo_queue, "MESSAGE") = Count(r, "MESSAGE") + 0
      /\ EchoLine(echo_queue) => EchoLine(r) /\ ~Within(r, "OPEN")
  BY <1>1, <1>2, FromQueue
<1>4. Count(r, "MESSAGE") \in Nat
  BY <1>3, CountIsNat
<1> HIDE DEF r
<1>5. /\ a \in Seq(EchoMessage) /\ \A m : Within(a, m) <=> Within(r, m) \/ m = "WAKE"
      /\ Count(a, "MESSAGE") = Count(r, "MESSAGE") + 0
      /\ EchoLine(r) => EchoLine(a)
  BY <1>2, <1>3, Added
<1> HIDE DEF a
<1>6. /\ d \in Seq(EchoMessage) /\ \A m : Within(d, m) <=> Within(a, m) \/ m = "DISCONNECT"
      /\ Count(d, "MESSAGE") = Count(a, "MESSAGE") + 0
      /\ EchoLine(a) => EchoLine(d)
  BY <1>2, <1>5, Added
<1> HIDE DEF d
<1>7. EchoTypes'
  <2>1. echo_module' \in BOOLEAN
    BY <1>1, <1>2 DEF EchoTypes
  <2> QED
    BY <1>1, <1>2, <1>5, <1>6, <2>1 DEF EchoTypes
<1>8. EchoLife' /\ EchoHeard'
  <2>1. EchoLife'
    BY <1>1, <1>3 DEF EchoInv, EchoLife
  <2> QED
    BY <1>1, <1>3, <1>4, <1>5, <1>6, <2>1 DEF EchoInv, EchoHeard
<1>9. ASSUME echo_meddled' = FALSE, echo_overtaken' = FALSE
      PROVE  EchoClean'
  <2>1. EchoClean
    BY <1>1, <1>9 DEF EchoInv
  <2>2. /\ echo_state = "OPEN" /\ echo_client = "RESPONSE" /\ echo_module = TRUE
        /\ echo_tasks \in {"none", "DELETED"}
        /\ ~Within(echo_queue, "LOGIN") /\ ~Within(echo_queue, "CLOSED")
        /\ ~Within(echo_queue, "MESSAGE")
    BY <1>3, <2>1 DEF EchoClean, EchoWaits
  <2>3. EchoLine(echo_queue') /\ echo_lost' = "none" /\ echo_tasks' = "live"
    BY <1>1, <1>3, <1>5, <1>6, <2>1, <2>2 DEF EchoClean
  <2>4. echo_calls < EchoCalls
    BY <1>1, <2>1 DEF EchoClean, EchoBegun, EchoThread!Received
  <2>5. ~(echo_unread > 0)
    BY <2>1, <2>2 DEF EchoClean, EchoPeople
  <2>6. /\ \A m \in {"OPEN", "MESSAGE", "CLOSED", "LOGIN"} : ~Within(echo_queue', m)
        /\ echo_handler' = "deleted" => Within(echo_queue', "DISCONNECT")
    BY <1>1, <1>3, <1>5, <1>6, <2>1, <2>2 DEF EchoClean
  <2>7. /\ echo_state' = "OPEN" /\ echo_client' = "RESPONSE" /\ echo_polling' = FALSE
        /\ echo_calls' = echo_calls /\ ~(echo_unread' > 0)
    BY <1>1, <1>3, <2>2, <2>5
  <2> QED
    BY <2>3, <2>4, <2>6, <2>7 DEF EchoClean, EchoBegun, EchoPeople, EchoWaits
<1> QED
  BY <1>7, <1>8, <1>9 DEF EchoInv

LEMMA OnXmppMessageKeeps ==
    ASSUME EchoInv, EchoThread!OnXmppMessage
    PROVE  EchoInv'
<1> DEFINE r == Tail(echo_queue)
           a == Append(r, "WAKE")
<1>0. EchoTypes /\ "MESSAGE" \in EchoMessage /\ "WAKE" \in EchoMessage /\ "DISCONNECT" \in EchoMessage
  BY DEF EchoInv, EchoMessage
<1>1. EchoThread!Received("MESSAGE")
  BY DEF EchoThread!OnXmppMessage
<1>2. /\ echo_polling = FALSE /\ echo_lost = "none" /\ r \in Seq(EchoMessage)
      /\ Within(echo_queue, "MESSAGE") /\ \A m : Within(r, m) => Within(echo_queue, m)
      /\ Within(echo_queue, "DISCONNECT") => Within(r, "DISCONNECT")
      /\ Count(echo_queue, "MESSAGE") = Count(r, "MESSAGE") + 1
      /\ EchoLine(echo_queue) => EchoLine(r)
  BY <1>0, <1>1, FromQueue
<1>3. Count(r, "MESSAGE") \in Nat /\ r \o EchoThread!WakeUp("send") \in {r, a}
  BY <1>2, CountIsNat, Joined
<1>4. /\ echo_heard' = Append(echo_heard, echo_message) /\ echo_queue' \in {r, a}
      /\ echo_awake' \in {echo_awake, echo_awake \union {"send"}}
      /\ \/ echo_lost' = "none"
         \/ echo_client = "DELETED" /\ echo_lost' = "client"
         \/ echo_tasks = "DELETED" /\ echo_lost' = "task"
      /\ UNCHANGED <<echo_polling, echo_module, echo_handler, echo_state, echo_client,
                     echo_tasks, echo_unread, echo_message, echo_try, echo_passed,
                     echo_told, echo_logins, echo_meddled, echo_overtaken, echo_calls,
                     echo_stanzas>>
  BY <1>3 DEF EchoThread!OnXmppMessage, EchoThread!Send, EchoThread!Wake
<1> HIDE DEF r
<1>5. /\ a \in Seq(EchoMessage) /\ \A m : Within(a, m) <=> Within(r, m) \/ m = "WAKE"
      /\ Count(a, "MESSAGE") = Count(r, "MESSAGE") + 0
      /\ EchoLine(r) => EchoLine(a)
  BY <1>0, <1>2, Added
<1> HIDE DEF a
<1>7. EchoTypes'
  <2>1. echo_heard' \in Seq(Nat)
    BY <1>0, <1>4 DEF EchoTypes
  <2> QED
    BY <1>0, <1>2, <1>4, <1>5, <2>1 DEF EchoTypes
<1>8. EchoLife'
  BY <1>0, <1>4 DEF EchoInv, EchoLife, EchoTypes
<1>9. EchoHeard'
  <2> DEFINE n == Len(echo_heard)
             c == Count(r, "MESSAGE")
  <2>1. /\ n \in Nat /\ echo_passed \in Nat /\ echo_passed = n + c + 1 /\ echo_message = echo_passed
    BY <1>0, <1>2, <1>3 DEF EchoInv, EchoHeard, EchoTypes
  <2>2. /\ Len(echo_heard') = n + 1 /\ echo_heard'[n + 1] = echo_passed
        /\ \A i \in 1 .. n : echo_heard'[i] = echo_heard[i]
    BY <1>0, <1>4, <2>1 DEF EchoTypes
  <2>3. Count(echo_queue', "MESSAGE") = c
    BY <1>4, <1>5, <1>3
  <2>4. /\ \A i \in 1 .. n : echo_heard[i] \in i .. echo_passed
        /\ \A i \in 1 .. n - 1 : echo_heard[i] <= echo_heard[i + 1]
    BY DEF EchoInv, EchoHeard
  <2> HIDE DEF n, c
  <2>5. \A i \in 1 .. n + 1 : echo_heard'[i] \in i .. echo_passed
    <3> TAKE i \in 1 .. n + 1
    <3>1. CASE i = n + 1
      <4>1. c \in Nat
        BY <1>3 DEF c
      <4> QED
        BY <2>1, <2>2, <3>1, <4>1
    <3>2. CASE i \in 1 .. n
      BY <2>2, <2>4, <3>2
    <3> QED
      BY <2>1, <3>1, <3>2
  <2>6. \A i \in 1 .. n : echo_heard'[i] <= echo_heard'[i + 1]
    <3> TAKE i \in 1 .. n
    <3>1. CASE i = n
      BY <2>1, <2>2, <2>4, <3>1
    <3>2. CASE i # n
      <4>1. i \in 1 .. n - 1 /\ i + 1 \in 1 .. n
        BY <2>1, <3>2
      <4> QED
        BY <2>2, <2>4, <4>1
    <3> QED
      BY <3>1, <3>2
  <2>7. echo_passed' = echo_passed /\ echo_message' = echo_message
    BY <1>4
  <2>8. Len(echo_heard') + Count(echo_queue', "MESSAGE") = echo_passed' /\ Len(echo_heard') - 1 = n
    BY <1>3, <2>1, <2>2, <2>3, <2>7 DEF c
  <2> QED
    BY <2>1, <2>2, <2>5, <2>6, <2>7, <2>8 DEF EchoHeard
<1>10. ASSUME echo_meddled' = FALSE, echo_overtaken' = FALSE
       PROVE  EchoClean'
  <2>1. EchoClean
    BY <1>4, <1>10 DEF EchoInv
  <2>2. echo_state = "OPEN" /\ echo_tasks = "live" /\ echo_client = "RESPONSE"
    BY <1>2, <2>1 DEF EchoClean, EchoWaits, EchoPeople
  <2>3. /\ EchoLine(echo_queue') /\ echo_lost' = "none"
        /\ \A m : Within(echo_queue', m) => Within(echo_queue, m) \/ m = "WAKE"
        /\ Within(echo_queue, "DISCONNECT") => Within(echo_queue', "DISCONNECT")
    BY <1>2, <1>4, <1>5, <2>1, <2>2 DEF EchoClean
  <2>4. echo_calls < EchoCalls
    BY <1>1, <2>1 DEF EchoClean, EchoBegun, EchoThread!Received
  <2> QED
    BY <1>2, <1>4, <2>1, <2>2, <2>3, <2>4 DEF EchoClean, EchoBegun, EchoPeople, EchoWaits
<1> QED
  BY <1>7, <1>8, <1>9, <1>10 DEF EchoInv

LEMMA OnPingKeeps ==
    ASSUME EchoInv, EchoThread!OnPing
    PROVE  EchoInv'
<1> DEFINE r == Tail(echo_queue)
           a == Append(r, "WAKE")
<1>0. EchoTypes /\ "PING" \in EchoMessage /\ "WAKE" \in EchoMessage /\ "DISCONNECT" \in EchoMessage
  BY DEF EchoInv, EchoMessage
<1>1. EchoThread!Received("PING")
  BY DEF EchoThread!OnPing
<1>2. /\ echo_polling = FALSE /\ echo_lost = "none" /\ r \in Seq(EchoMessage)
      /\ \A m : Within(r, m) => Within(echo_queue, m)
      /\ Within(echo_queue, "DISCONNECT") => Within(r, "DISCONNECT")
      /\ Count(echo_queue, "MESSAGE") = Count(r, "MESSAGE") + 0
      /\ EchoLine(echo_queue) => EchoLine(r)
  BY <1>0, <1>1, FromQueue
<1>3. Count(r, "MESSAGE") \in Nat /\ r \o EchoThread!WakeUp("ping") \in {r, a}
  BY <1>2, CountIsNat, Joined
<1>4. /\ echo_queue' \in {r, a} /\ echo_awake' \in {echo_awake, echo_awake \union {"ping"}}
      /\ UNCHANGED <<echo_polling, echo_module, echo_handler, echo_state, echo_client,
                     echo_tasks, echo_unread, echo_message, echo_try, echo_lost,
                     echo_passed, echo_heard, echo_told, echo_logins, echo_meddled,
                     echo_overtaken, echo_calls, echo_stanzas>>
  BY <1>3 DEF EchoThread!OnPing, EchoThread!Wake, EchoThread!history
<1> HIDE DEF r
<1>5. /\ a \in Seq(EchoMessage) /\ \A m : Within(a, m) <=> Within(r, m) \/ m = "WAKE"
      /\ Count(a, "MESSAGE") = Count(r, "MESSAGE") + 0
      /\ EchoLine(r) => EchoLine(a)
  BY <1>0, <1>2, Added
<1> HIDE DEF a
<1>7. EchoTypes'
  BY <1>0, <1>2, <1>4, <1>5 DEF EchoTypes
<1>8. EchoLife' /\ EchoHeard'
  <2>1. EchoLife'
    BY <1>4 DEF EchoInv, EchoLife
  <2> QED
    BY <1>2, <1>3, <1>4, <1>5, <2>1 DEF EchoInv, EchoHeard
<1>9. ASSUME echo_meddled' = FALSE, echo_overtaken' = FALSE
      PROVE  EchoClean'
  <2>1. EchoClean
    BY <1>4, <1>9 DEF EchoInv
  <2>2. /\ EchoLine(echo_queue')
        /\ \A m : Within(echo_queue', m) => Within(echo_queue, m) \/ m = "WAKE"
        /\ Within(echo_queue, "DISCONNECT") => Within(echo_queue', "DISCONNECT")
    BY <1>2, <1>4, <1>5, <2>1 DEF EchoClean
  <2>3. echo_calls < EchoCalls
    BY <1>1, <2>1 DEF EchoClean, EchoBegun, EchoThread!Received
  <2> QED
    BY <1>2, <1>4, <2>1, <2>2, <2>3 DEF EchoClean, EchoBegun, EchoPeople, EchoWaits
<1> QED
  BY <1>7, <1>8, <1>9 DEF EchoInv

LEMMA RunTasksKeeps ==
    ASSUME EchoInv, EchoThread!RunTasks
    PROVE  EchoInv'
<1> DEFINE r == Tail(echo_queue)
           s == EchoThread!Without({"PING"})
           c == Append(s, "CLOSED")
           n == r \o EchoThread!Times("MESSAGE", echo_unread)
           d == Append(n, "DISCONNECT")
<1>0. /\ EchoTypes /\ "WAKE" \in EchoMessage /\ "DISCONNECT" \in EchoMessage
      /\ "CLOSED" \in EchoMessage /\ echo_unread \in Nat
  BY DEF EchoInv, EchoMessage, EchoTypes
<1>1. EchoThread!Received("WAKE")
  BY DEF EchoThread!RunTasks
<1>2. /\ echo_polling = FALSE /\ echo_lost = "none" /\ r \in Seq(EchoMessage)
      /\ \A m : Within(r, m) => Within(echo_queue, m)
      /\ Within(echo_queue, "DISCONNECT") => Within(r, "DISCONNECT")
      /\ Count(echo_queue, "MESSAGE") = Count(r, "MESSAGE") + 0
      /\ EchoLine(echo_queue) => EchoLine(r)
  BY <1>0, <1>1, FromQueue
<1>3. /\ s \in Seq(EchoMessage)
      /\ \A m : Within(s, m) => Within(echo_queue, m)
      /\ Within(echo_queue, "DISCONNECT") => Within(s, "DISCONNECT")
      /\ Count(echo_queue, "MESSAGE") = Count(s, "MESSAGE") + 0
      /\ EchoLine(echo_queue) => EchoLine(s)
  BY <1>0, <1>1, FromQueue
<1>4. /\ n \in Seq(EchoMessage)
      /\ \A m : Within(n, m) <=> Within(r, m) \/ (m = "MESSAGE" /\ echo_unread > 0)
      /\ EchoLine(r) /\ (echo_unread = 0 \/ \A t \in Turn : ~Within(r, t)) => EchoLine(n)
      /\ Count(n, "MESSAGE") = Count(r, "MESSAGE") + echo_unread
  BY <1>0, <1>2, SeveralMore
<1>5. /\ c \in Seq(EchoMessage) /\ \A m : Within(c, m) <=> Within(s, m) \/ m = "CLOSED"
      /\ Count(c, "MESSAGE") = Count(s, "MESSAGE") + 0
      /\ EchoLine(s) /\ ~Within(s, "CLOSED") => EchoLine(c)
  BY <1>0, <1>3, Added
<1>6. /\ d \in Seq(EchoMessage) /\ \A m : Within(d, m) <=> Within(n, m) \/ m = "DISCONNECT"
      /\ Count(d, "MESSAGE") = Count(n, "MESSAGE") + 0
      /\ EchoLine(n) => EchoLine(d)
  BY <1>0, <1>4, Added
<1>7. /\ Count(r, "MESSAGE") \in Nat /\ Count(s, "MESSAGE") \in Nat
      /\ \A silent : n \o EchoThread!PingTimeout(silent) \in {n, d}
  BY <1>2, <1>3, <1>4, CountIsNat, Joined
<1>8. UNCHANGED <<echo_polling, echo_module, echo_handler, echo_try, echo_heard,
                     echo_logins, echo_meddled, echo_overtaken, echo_calls, echo_stanzas>>
  BY DEF EchoThread!RunTasks
<1>9. EchoClean => echo_calls < EchoCalls
  BY <1>1 DEF EchoClean, EchoBegun, EchoThread!Received
<1>10. CASE /\ echo_client = "INIT" /\ echo_client' = "RESPONSE" /\ echo_awake' = {}
            /\ echo_queue' = r
            /\ UNCHANGED <<echo_state, echo_tasks, echo_unread, echo_lost, echo_told,
                           echo_message, echo_passed>>
  <2> HIDE DEF r, s, c, n, d
  <2>1. EchoTypes'
    BY <1>0, <1>2, <1>8, <1>10 DEF EchoTypes
  <2>2. EchoLife'
    BY <1>8, <1>10 DEF EchoInv, EchoLife
  <2>3. EchoHeard'
    BY <1>2, <1>7, <1>8, <1>10 DEF EchoInv, EchoHeard
  <2>4. ASSUME echo_meddled' = FALSE, echo_overtaken' = FALSE
        PROVE  EchoClean'
    <3>1. EchoClean /\ echo_state = "START"
      BY <1>8, <1>10, <2>4 DEF EchoInv, EchoLife
    <3>2. EchoLine(echo_queue')
      BY <1>2, <1>10, <3>1 DEF EchoClean
    <3> QED
      BY <1>2, <1>8, <1>9, <1>10, <3>1, <3>2 DEF EchoClean, EchoBegun, EchoPeople, EchoWaits
  <2> QED
    BY <2>1, <2>2, <2>3, <2>4 DEF EchoInv
<1>11. CASE /\ echo_client = "INIT" /\ EchoThread!Deleted /\ echo_state' = "CLOSED"
            /\ echo_told' = [echo_told EXCEPT !.closed = @ + 1] /\ echo_queue' = c
            /\ UNCHANGED <<echo_message, echo_passed>>
  <2> HIDE DEF r, s, c, n, d
  <2>0. /\ echo_client' = "DELETED" /\ echo_unread' = 0 /\ echo_awake' = {}
        /\ echo_tasks' = IF echo_tasks \in {"live", "ENDED"} THEN "DELETED" ELSE echo_tasks
        /\ echo_lost' = IF echo_tasks = "orphan" THEN "client" ELSE "none"
    BY <1>11 DEF EchoThread!Deleted
  <2>1. EchoTypes'
    <3>1. /\ echo_tasks' \in {"none", "live", "ENDED", "orphan", "DELETED"}
          /\ echo_lost' \in {"none", "module", "client", "task"}
      BY <1>0, <2>0 DEF EchoTypes
    <3>2. echo_told' \in [open : Nat, closed : Nat]
      BY <1>0, <1>11 DEF EchoTypes
    <3>3. echo_queue' \in Seq(EchoMessage)
      BY <1>5, <1>11
    <3> QED
      BY <1>0, <1>8, <1>11, <2>0, <3>1, <3>2, <3>3 DEF EchoTypes
  <2>2. EchoLife'
    BY <1>0, <1>8, <1>11, <2>0 DEF EchoInv, EchoLife, EchoTypes
  <2>3. EchoHeard'
    BY <1>3, <1>5, <1>7, <1>8, <1>11 DEF EchoInv, EchoHeard
  <2>4. ASSUME echo_meddled' = FALSE, echo_overtaken' = FALSE
        PROVE  EchoClean'
    <3>1. EchoClean /\ echo_state = "START"
      BY <1>8, <1>11, <2>4 DEF EchoInv, EchoLife
    <3>2. \A m \in {"OPEN", "MESSAGE", "CLOSED", "LOGIN"} : ~Within(s, m)
      BY <1>3, <3>1 DEF EchoClean, EchoWaits
    <3>3. EchoLine(echo_queue')
      BY <1>3, <1>5, <1>11, <3>1, <3>2 DEF EchoClean
    <3> QED
      BY <1>2, <1>5, <1>8, <1>9, <1>11, <2>0, <3>1, <3>2, <3>3
         DEF EchoClean, EchoBegun, EchoPeople, EchoWaits
  <2> QED
    BY <2>1, <2>2, <2>3, <2>4 DEF EchoInv
<1>12. CASE /\ echo_client = "ENDED" \/ (echo_client = "RESPONSE" /\ echo_state = "CLOSED")
            /\ EchoThread!Deleted /\ echo_queue' = s
            /\ UNCHANGED <<echo_state, echo_message, echo_passed, echo_told>>
  <2> HIDE DEF r, s, c, n, d
  <2>0. /\ echo_client' = "DELETED" /\ echo_unread' = 0 /\ echo_awake' = {}
        /\ echo_tasks' = IF echo_tasks \in {"live", "ENDED"} THEN "DELETED" ELSE echo_tasks
        /\ echo_lost' = IF echo_tasks = "orphan" THEN "client" ELSE "none"
    BY <1>12 DEF EchoThread!Deleted
  <2>1. EchoTypes'
    BY <1>0, <1>3, <1>8, <1>12, <2>0 DEF EchoTypes
  <2>2. EchoLife' /\ echo_state = "CLOSED"
    BY <1>0, <1>8, <1>12, <2>0 DEF EchoInv, EchoLife
  <2>3. EchoHeard'
    BY <1>3, <1>7, <1>8, <1>12 DEF EchoInv, EchoHeard
  <2>4. ASSUME echo_meddled' = FALSE, echo_overtaken' = FALSE
        PROVE  EchoClean'
    <3>1. EchoClean
      BY <1>8, <1>12, <2>4 DEF EchoInv
    <3>2. EchoLine(echo_queue')
      BY <1>3, <1>12, <3>1 DEF EchoClean
    <3> QED
      BY <1>2, <1>3, <1>8, <1>9, <1>12, <2>0, <2>2, <3>1, <3>2
         DEF EchoClean, EchoBegun, EchoPeople, EchoWaits
  <2> QED
    BY <2>1, <2>2, <2>3, <2>4 DEF EchoInv
<1>13. CASE /\ echo_client = "RESPONSE" /\ echo_state # "CLOSED"
            /\ echo_awake' = {} /\ EchoThread!PassOn
            /\ echo_queue' \in {n, d}
            /\ UNCHANGED <<echo_state, echo_client, echo_tasks, echo_lost, echo_told>>
  <2> HIDE DEF r, s, c, n, d
  <2>0. /\ echo_passed' = echo_passed + echo_unread /\ echo_unread' = 0
        /\ echo_message' = IF echo_unread = 0 THEN echo_message ELSE echo_passed + echo_unread
    BY <1>13 DEF EchoThread!PassOn
  <2>1. EchoTypes'
    <3>1. echo_passed' \in Nat /\ echo_message' \in Nat /\ echo_unread' \in Nat
      BY <1>0, <2>0 DEF EchoTypes
    <3>2. echo_queue' \in Seq(EchoMessage)
      BY <1>4, <1>6, <1>13
    <3> QED
      BY <1>0, <1>8, <1>13, <3>1, <3>2 DEF EchoTypes
  <2>2. EchoLife'
    BY <1>8, <1>13 DEF EchoInv, EchoLife
  <2>3. EchoHeard'
    <3>1. /\ Count(echo_queue', "MESSAGE") = Count(echo_queue, "MESSAGE") + echo_unread
          /\ Count(echo_queue, "MESSAGE") \in Nat
      BY <1>0, <1>2, <1>4, <1>6, <1>7, <1>13
    <3>2. echo_passed \in Nat /\ echo_heard \in Seq(Nat) /\ echo_unread \in Nat /\ echo_heard' = echo_heard
      BY <1>0, <1>8 DEF EchoTypes
    <3>3. EchoHeard
      BY DEF EchoInv
    <3>4. \A i \in 1 .. Len(echo_heard) : echo_heard[i] \in i .. echo_passed'
      BY <2>0, <3>2, <3>3 DEF EchoHeard
    <3>5. Len(echo_heard) \in Nat /\ Len(echo_heard) + Count(echo_queue', "MESSAGE") = echo_passed'
      <4>1. Len(echo_heard) \in Nat
        BY <3>2
      <4>2. Len(echo_heard) + Count(echo_queue, "MESSAGE") = echo_passed
        BY <3>3 DEF EchoHeard
      <4> DEFINE l == Len(echo_heard)
                 a == Count(echo_queue, "MESSAGE")
                 b == Count(echo_queue', "MESSAGE")
      <4>3. l \in Nat /\ a \in Nat /\ l + a = echo_passed /\ b = a + echo_unread
        BY <3>1, <4>1, <4>2
      <4> HIDE DEF l, a, b
      <4>4. l + b = echo_passed + echo_unread
        BY <3>2, <4>3
      <4> QED
        BY <2>0, <4>1, <4>4 DEF l, b
    <3>6. echo_passed' > 0 => echo_message' = echo_passed'
      BY <2>0, <3>2, <3>3 DEF EchoHeard
    <3>7. \A i \in 1 .. Len(echo_heard) - 1 : echo_heard[i] <= echo_heard[i + 1]
      BY <3>3 DEF EchoHeard
    <3> QED
      BY <3>2, <3>4, <3>5, <3>6, <3>7 DEF EchoHeard
  <2>4. ASSUME echo_meddled' = FALSE, echo_overtaken' = FALSE
        PROVE  EchoClean'
    <3>1. EchoClean
      BY <1>8, <1>13, <2>4 DEF EchoInv
    <3>2. ~Within(echo_queue, "CLOSED") /\ ~Within(echo_queue, "LOGIN")
      BY <1>13, <3>1 DEF EchoClean, EchoWaits, EchoInv, EchoLife
    <3>3. /\ echo_unread > 0 => /\ echo_state = "OPEN" /\ echo_tasks = "live"
                                /\ ~Within(echo_queue, "DISCONNECT")
          /\ echo_unread = 0 \/ echo_unread > 0
      BY <1>0, <1>13, <3>1 DEF EchoClean, EchoPeople
    <3>4. EchoLine(n)
      BY <1>2, <1>4, <3>1, <3>2, <3>3 DEF EchoClean, Turn
    <3>5. /\ EchoLine(echo_queue')
          /\ \A m \in {"OPEN", "CLOSED", "LOGIN"} : Within(echo_queue', m) => Within(echo_queue, m)
          /\ Within(echo_queue', "MESSAGE") => Within(echo_queue, "MESSAGE") \/ echo_unread > 0
          /\ Within(echo_queue, "DISCONNECT") => Within(echo_queue', "DISCONNECT")
      BY <1>2, <1>4, <1>6, <1>13, <3>4
    <3>6. ~(echo_unread' > 0)
      BY <2>0
    <3> QED
      BY <1>2, <1>8, <1>9, <1>13, <3>1, <3>2, <3>3, <3>5, <3>6
         DEF EchoClean, EchoBegun, EchoPeople, EchoWaits
  <2> QED
    BY <2>1, <2>2, <2>3, <2>4 DEF EchoInv
<1>14. CASE /\ echo_client \in {"none", "DELETED"} /\ echo_queue' = r
            /\ UNCHANGED <<echo_state, echo_client, echo_tasks, echo_awake, echo_unread,
                           echo_message, echo_lost, echo_passed, echo_told>>
  <2> HIDE DEF r, s, c, n, d
  <2>1. EchoTypes'
    BY <1>0, <1>2, <1>8, <1>14 DEF EchoTypes
  <2>2. EchoLife'
    BY <1>8, <1>14 DEF EchoInv, EchoLife
  <2>3. EchoHeard'
    BY <1>2, <1>7, <1>8, <1>14 DEF EchoInv, EchoHeard
  <2>4. ASSUME echo_meddled' = FALSE, echo_overtaken' = FALSE
        PROVE  EchoClean'
    <3>1. EchoClean
      BY <1>8, <1>14, <2>4 DEF EchoInv
    <3>2. EchoLine(echo_queue')
      BY <1>2, <1>14, <3>1 DEF EchoClean
    <3> QED
      BY <1>2, <1>8, <1>9, <1>14, <3>1, <3>2 DEF EchoClean, EchoBegun, EchoPeople, EchoWaits
  <2> QED
    BY <2>1, <2>2, <2>3, <2>4 DEF EchoInv
<1> QED
  BY <1>7, <1>10, <1>11, <1>12, <1>13, <1>14 DEF EchoThread!RunTasks, EchoThread!pump_vars

LEMMA PollKeeps ==
    ASSUME EchoInv, EchoThread!Poll
    PROVE  EchoInv'
<1>1. /\ echo_polling = (echo_queue # <<>>) /\ echo_polling' = ~echo_polling
      /\ UNCHANGED <<echo_queue, echo_module, echo_handler, echo_state, echo_client,
                     echo_tasks, echo_awake, echo_unread, echo_message, echo_try, echo_lost,
                     echo_passed, echo_heard, echo_told, echo_logins, echo_meddled,
                     echo_overtaken, echo_calls, echo_stanzas>>
  BY DEF EchoThread!Poll, EchoThread!pump_vars, EchoThread!history
<1>2. echo_polling' \in BOOLEAN
  BY <1>1
<1>3. EchoTypes' /\ EchoLife' /\ EchoHeard'
  BY <1>1, <1>2 DEF EchoInv, EchoTypes, EchoLife, EchoHeard
<1>4. /\ echo_polling' = TRUE => \A m : ~Within(echo_queue, m)
      /\ Within(echo_queue, "MESSAGE") => echo_polling' = FALSE
  <2>1. \A m : Within(echo_queue, m) => echo_queue # <<>>
    BY DEF Within
  <2>2. echo_polling' = TRUE => ~(echo_queue # <<>>)
    BY <1>1, Zenon
  <2>3. echo_queue # <<>> => echo_polling' = FALSE
    BY <1>1, <1>2, Zenon
  <2> QED
    BY <2>1, <2>2, <2>3
<1>5. ASSUME echo_meddled' = FALSE, echo_overtaken' = FALSE
      PROVE  EchoClean'
  <2>1. EchoClean
    BY <1>1, <1>5 DEF EchoInv
  <2> QED
    BY <1>1, <1>4, <2>1 DEF EchoClean, EchoBegun, EchoPeople, EchoWaits
<1> QED
  BY <1>3, <1>5 DEF EchoInv

LEMMA PingDueKeeps ==
    ASSUME EchoInv, EchoThread!PingDue
    PROVE  EchoInv'
<1> DEFINE a == Append(echo_queue, "PING")
<1>1. /\ echo_tasks = "live" /\ echo_queue' = a
      /\ UNCHANGED <<echo_polling, echo_module, echo_handler, echo_state, echo_client,
                     echo_tasks, echo_awake, echo_unread, echo_message, echo_try, echo_lost,
                     echo_passed, echo_heard, echo_told, echo_logins, echo_meddled,
                     echo_overtaken, echo_calls, echo_stanzas>>
  BY DEF EchoThread!PingDue, EchoThread!pump_vars, EchoThread!history
<1>2. echo_queue \in Seq(EchoMessage) /\ "PING" \in EchoMessage
  BY DEF EchoInv, EchoTypes, EchoMessage
<1>3. /\ a \in Seq(EchoMessage) /\ \A m : Within(a, m) <=> Within(echo_queue, m) \/ m = "PING"
      /\ Count(a, "MESSAGE") = Count(echo_queue, "MESSAGE") + 0
      /\ EchoLine(echo_queue) => EchoLine(a)
  BY <1>2, Added
<1>4. Count(echo_queue, "MESSAGE") \in Nat
  BY <1>2, CountIsNat
<1> HIDE DEF a
<1>5. EchoTypes'
  BY <1>1, <1>3 DEF EchoInv, EchoTypes
<1>6. EchoLife' /\ EchoHeard'
  BY <1>1, <1>3, <1>4 DEF EchoInv, EchoLife, EchoHeard
<1>7. ASSUME echo_meddled' = FALSE, echo_overtaken' = FALSE
      PROVE  EchoClean'
  <2>1. EchoClean
    BY <1>1, <1>7 DEF EchoInv
  <2>2. echo_calls < EchoCalls
    BY <1>1, <2>1 DEF EchoClean, EchoBegun
  <2> QED
    BY <1>1, <1>3, <2>1, <2>2 DEF EchoClean, EchoBegun, EchoPeople, EchoWaits
<1> QED
  BY <1>5, <1>6, <1>7 DEF EchoInv

LEMMA StanzaArrivesKeeps ==
    ASSUME EchoInv, EchoThread!StanzaArrives
    PROVE  EchoInv'
<1> DEFINE a == Append(echo_queue, "WAKE")
<1>1. echo_queue \in Seq(EchoMessage) /\ "WAKE" \in EchoMessage /\ echo_unread \in Nat
  BY DEF EchoInv, EchoTypes, EchoMessage
<1>2. echo_queue \o EchoThread!WakeUp("receive") \in {echo_queue, a}
  BY <1>1, Joined
<1>3. /\ echo_client = "RESPONSE" /\ echo_state = "OPEN" /\ echo_queue' \in {echo_queue, a}
      /\ echo_lost' = IF echo_handler = "deleted" THEN "module" ELSE "none"
      /\ \/ echo_tasks = "live" /\ echo_unread' = echo_unread + 1 /\ echo_awake' = echo_awake \union {"receive"}
         \/ echo_unread' = echo_unread /\ echo_awake' = echo_awake
      /\ UNCHANGED <<echo_polling, echo_module, echo_handler, echo_state, echo_client,
                     echo_tasks, echo_message, echo_try, echo_passed, echo_heard, echo_told,
                     echo_logins, echo_meddled, echo_overtaken, echo_calls>>
  BY <1>2 DEF EchoThread!StanzaArrives, EchoThread!Wake
<1>4. echo_polling = TRUE
  <2>1. echo_polling /\ echo_polling \in BOOLEAN
    BY DEF EchoThread!StanzaArrives, EchoInv, EchoTypes
  <2> QED
    BY <2>1, Zenon
<1>5. /\ a \in Seq(EchoMessage) /\ \A m : Within(a, m) <=> Within(echo_queue, m) \/ m = "WAKE"
      /\ Count(a, "MESSAGE") = Count(echo_queue, "MESSAGE") + 0
      /\ EchoLine(echo_queue) => EchoLine(a)
  BY <1>1, Added
<1>6. Count(echo_queue, "MESSAGE") \in Nat
  BY <1>1, CountIsNat
<1> HIDE DEF a
<1>7. EchoTypes'
  <2>1. echo_unread' \in Nat /\ echo_queue' \in Seq(EchoMessage)
    BY <1>1, <1>3, <1>5
  <2> QED
    BY <1>3, <2>1 DEF EchoInv, EchoTypes
<1>8. EchoLife'
  BY <1>3 DEF EchoInv, EchoLife
<1>9. EchoHeard'
  BY <1>3, <1>5, <1>6 DEF EchoInv, EchoHeard
<1>10. ASSUME echo_meddled' = FALSE, echo_overtaken' = FALSE
       PROVE  EchoClean'
  <2>1. EchoClean
    BY <1>3, <1>10 DEF EchoInv
  <2>2. ~Within(echo_queue, "DISCONNECT") /\ ~Within(echo_queue, "LOGIN")
    BY <1>3, <1>4, <2>1 DEF EchoClean, EchoWaits
  <2>3. echo_lost' = "none" /\ echo_handler # "deleted"
    BY <1>3, <2>1, <2>2 DEF EchoClean, EchoPeople
  <2>4. /\ EchoLine(echo_queue')
        /\ \A m : Within(echo_queue', m) => Within(echo_queue, m) \/ m = "WAKE"
    BY <1>3, <1>5, <2>1 DEF EchoClean
  <2>5. echo_calls < EchoCalls
    BY <1>3, <2>1 DEF EchoClean, EchoBegun
  <2>6. echo_unread' > 0 => echo_tasks = "live"
    BY <1>3, <2>1 DEF EchoClean, EchoPeople
  <2> QED
    BY <1>3, <1>4, <2>1, <2>2, <2>3, <2>4, <2>5, <2>6 DEF EchoClean, EchoBegun, EchoPeople, EchoWaits
<1> QED
  BY <1>7, <1>8, <1>9, <1>10 DEF EchoInv

LEMMA EngineSaysKeeps ==
    ASSUME EchoInv, NEW s \in {"OPENING", "OPEN", "CLOSED"}, EchoThread!EngineSays(s),
           s = "OPENING" => echo_state = "START",
           s = "OPEN" => echo_state = "OPENING",
           s = "CLOSED" => echo_state # "CLOSED"
    PROVE  EchoInv'
<1> DEFINE q == echo_queue
           n == q \o (IF s = "OPENING" THEN <<>> ELSE <<s>>)
           a == Append(n, "WAKE")
<1>1. /\ EchoTypes /\ q \in Seq(EchoMessage) /\ "WAKE" \in EchoMessage /\ "OPEN" \in EchoMessage
      /\ "CLOSED" \in EchoMessage
  BY DEF EchoInv, EchoTypes, EchoMessage
<1>2. n = IF s = "OPENING" THEN q ELSE Append(q, s)
  <2>1. q \o <<>> = q /\ \A x \in EchoMessage : q \o <<x>> = Append(q, x)
    BY <1>1, Joined
  <2>2. CASE s = "OPENING"
    BY <2>1, <2>2
  <2>3. CASE s \in {"OPEN", "CLOSED"}
    <3>1. s \in EchoMessage /\ s # "OPENING"
      BY <1>1, <2>3
    <3> QED
      BY <2>1, <3>1
  <2> QED
    BY <2>2, <2>3
<1>3. /\ n \in Seq(EchoMessage)
      /\ \A m : Within(n, m) <=> Within(q, m) \/ (m = s /\ s # "OPENING")
      /\ Count(n, "MESSAGE") = Count(q, "MESSAGE") + 0
      /\ EchoLine(q) /\ ~Within(q, s)
         /\ (s = "OPEN" => ~Within(q, "LOGIN") /\ ~Within(q, "DISCONNECT") /\ ~Within(q, "CLOSED"))
         => EchoLine(n)
  <2> HIDE DEF n
  <2>1. Count(q, "MESSAGE") \in Nat
    BY <1>1, CountIsNat
  <2>2. CASE s = "OPENING"
    BY <1>1, <1>2, <2>1, <2>2
  <2>3. CASE s \in {"OPEN", "CLOSED"}
    <3>1. s \in EchoMessage /\ s # "OPENING" /\ s # "MESSAGE" /\ n = Append(q, s)
      BY <1>1, <1>2, <2>3
    <3>2. /\ Append(q, s) \in Seq(EchoMessage)
          /\ \A m : Within(Append(q, s), m) <=> Within(q, m) \/ m = s
          /\ Count(Append(q, s), "MESSAGE") = Count(q, "MESSAGE") + 0
          /\ (/\ EchoLine(q)
              /\ s \in {"OPEN", "CLOSED", "LOGIN"} => ~Within(q, s)
              /\ s \in {"OPEN", "MESSAGE"} =>
                      ~Within(q, "LOGIN") /\ ~Within(q, "DISCONNECT") /\ ~Within(q, "CLOSED"))
             => EchoLine(Append(q, s))
      BY <1>1, <3>1, Added
    <3> QED
      BY <2>3, <3>1, <3>2
  <2> QED
    BY <2>2, <2>3
<1>4. /\ a \in Seq(EchoMessage) /\ \A m : Within(a, m) <=> Within(n, m) \/ m = "WAKE"
      /\ Count(a, "MESSAGE") = Count(n, "MESSAGE") + 0
      /\ EchoLine(n) => EchoLine(a)
  BY <1>1, <1>3, Added
<1>5. n \o EchoThread!WakeUp("client") \in {n, a} /\ Count(q, "MESSAGE") \in Nat
  BY <1>1, <1>3, CountIsNat, Joined
<1>6. q \o (IF s = "OPENING" THEN <<>> ELSE <<s>>) \o EchoThread!WakeUp("client") \in {n, a}
  BY <1>5
<1>7. /\ echo_client = "RESPONSE" /\ echo_state' = s /\ echo_queue' \in {n, a}
      /\ echo_awake' = echo_awake \union {"client"}
      /\ echo_told' = [echo_told EXCEPT !.open = IF s = "OPEN" THEN @ + 1 ELSE @,
                                       !.closed = IF s = "CLOSED" THEN @ + 1 ELSE @]
      /\ echo_overtaken' = (echo_overtaken \/ (s = "CLOSED" /\ EchoThread!InQueue("OPEN")))
      /\ echo_lost = "none"
      /\ UNCHANGED <<echo_polling, echo_module, echo_handler, echo_client, echo_tasks,
                     echo_unread, echo_message, echo_try, echo_lost, echo_passed,
                     echo_heard, echo_logins, echo_meddled, echo_calls, echo_stanzas>>
  BY <1>6 DEF EchoThread!EngineSays, EchoThread!Wake, EchoThread!Going
<1>8. echo_polling = TRUE
  <2>1. echo_polling /\ echo_polling \in BOOLEAN
    BY DEF EchoThread!EngineSays, EchoInv, EchoTypes
  <2> QED
    BY <2>1, Zenon
<1> HIDE DEF n, a
<1>9. EchoTypes'
  <2>1. echo_queue' \in Seq(EchoMessage)
    BY <1>3, <1>4, <1>7
  <2>2. echo_told' \in [open : Nat, closed : Nat]
    <3> DEFINE o == IF s = "OPEN" THEN echo_told.open + 1 ELSE echo_told.open
               l == IF s = "CLOSED" THEN echo_told.closed + 1 ELSE echo_told.closed
    <3>1. echo_told \in [open : Nat, closed : Nat]
      BY <1>1 DEF EchoTypes
    <3>2. o \in Nat /\ l \in Nat
      BY <3>1
    <3>3. echo_told' = [echo_told EXCEPT !.open = o, !.closed = l]
      BY <1>7
    <3> HIDE DEF o, l
    <3> QED
      BY <3>1, <3>2, <3>3
  <2>3. echo_overtaken' \in BOOLEAN
    <3>1. echo_overtaken \in BOOLEAN
      BY <1>1 DEF EchoTypes
    <3> QED
      BY <1>7, <3>1, Zenon
  <2> QED
    BY <1>1, <1>7, <2>1, <2>2, <2>3 DEF EchoTypes
<1>10. EchoLife'
  <2>1. EchoLife /\ echo_told \in [open : Nat, closed : Nat] /\ echo_logins \in Nat
    BY DEF EchoInv, EchoTypes
  <2>2. CASE s = "OPENING"
    BY <1>7, <2>1, <2>2 DEF EchoLife
  <2>3. CASE s = "OPEN"
    BY <1>7, <2>1, <2>3 DEF EchoLife
  <2>4. CASE s = "CLOSED"
    <3>1. echo_state \in {"START", "OPENING", "OPEN"}
      BY <1>1, <1>7, <2>1, <2>4 DEF EchoLife, EchoTypes
    <3> QED
      BY <1>7, <2>1, <2>4, <3>1 DEF EchoLife
  <2> QED
    BY <2>2, <2>3, <2>4
<1>11. EchoHeard'
  BY <1>3, <1>4, <1>5, <1>7 DEF EchoInv, EchoHeard
<1>12. ASSUME echo_meddled' = FALSE, echo_overtaken' = FALSE
       PROVE  EchoClean'
  <2>1. echo_overtaken = FALSE /\ ~(s = "CLOSED" /\ EchoThread!InQueue("OPEN"))
    <3>1. ~(echo_overtaken \/ (s = "CLOSED" /\ EchoThread!InQueue("OPEN"))) /\ echo_overtaken \in BOOLEAN
      BY <1>1, <1>7, <1>12 DEF EchoTypes
    <3> QED
      BY <3>1, Zenon
  <2>2. EchoClean /\ EchoLife
    BY <1>7, <1>12, <2>1 DEF EchoInv
  <2>3. s = "CLOSED" => ~Within(q, "OPEN")
    BY <1>1, <2>1 DEF EchoThread!InQueue, Within
  <2>4. /\ echo_state # "NONE"
        /\ ~Within(q, "LOGIN") /\ ~Within(q, "DISCONNECT") /\ ~Within(q, "MESSAGE")
    BY <1>7, <1>8, <2>2 DEF EchoClean, EchoWaits, EchoLife
  <2>5. ~Within(q, "CLOSED")
    <3>1. echo_state # "CLOSED"
      BY <1>7
    <3> QED
      BY <2>2, <3>1 DEF EchoClean, EchoWaits
  <2>6. s # "CLOSED" => ~Within(q, "OPEN")
    BY <2>2 DEF EchoClean, EchoWaits
  <2>7. EchoLine(q) /\ ~Within(q, s)
    <3>1. s = "OPENING" => ~Within(q, s)
      BY <1>1 DEF Within, EchoMessage
    <3> QED
      BY <2>2, <2>3, <2>5, <2>6, <3>1 DEF EchoClean
  <2>8. /\ EchoLine(echo_queue')
        /\ \A m : Within(echo_queue', m) => Within(q, m) \/ m = s \/ m = "WAKE"
    BY <1>3, <1>4, <1>7, <2>4, <2>5, <2>7
  <2>9. echo_calls < EchoCalls
    BY <2>2, <2>4 DEF EchoClean, EchoBegun
  <2>10. \A m \in {"LOGIN", "DISCONNECT", "MESSAGE"} : ~Within(echo_queue', m)
    BY <2>4, <2>8
  <2>11. /\ Within(echo_queue', "OPEN") => s = "OPEN"
         /\ Within(echo_queue', "CLOSED") => s = "CLOSED"
    BY <2>3, <2>5, <2>6, <2>8
  <2>12. CASE s = "OPENING"
    BY <1>7, <1>8, <2>2, <2>8, <2>9, <2>10, <2>11, <2>12 DEF EchoClean, EchoBegun, EchoPeople, EchoWaits
  <2>13. CASE s = "OPEN"
    BY <1>7, <1>8, <2>2, <2>8, <2>9, <2>10, <2>11, <2>13 DEF EchoClean, EchoBegun, EchoPeople, EchoWaits
  <2>14. CASE s = "CLOSED"
    BY <1>7, <1>8, <2>2, <2>8, <2>9, <2>10, <2>11, <2>14 DEF EchoClean, EchoBegun, EchoPeople, EchoWaits
  <2> QED
    BY <2>12, <2>13, <2>14
<1> QED
  BY <1>9, <1>10, <1>11, <1>12 DEF EchoInv

LEMMA EchoInit == EchoThread!Init => EchoInv
<1> SUFFICES ASSUME EchoThread!Init PROVE EchoInv
  OBVIOUS
<1>1. /\ echo_queue = <<>> /\ echo_polling = FALSE /\ echo_module = FALSE /\ echo_handler = "none"
      /\ echo_state = "NONE" /\ echo_client = "none" /\ echo_tasks = "none" /\ echo_awake = {}
      /\ echo_unread = 0 /\ echo_message = 0 /\ echo_lost = "none" /\ echo_passed = 0
      /\ echo_heard = <<>> /\ echo_told = [open |-> 0, closed |-> 0] /\ echo_logins = 0
      /\ echo_meddled = FALSE /\ echo_overtaken = FALSE /\ echo_calls = EchoCalls
  BY DEF EchoThread!Init
<1>2. EchoTypes
  <2>1. echo_queue \in Seq(EchoMessage) /\ echo_heard \in Seq(Nat)
    BY <1>1
  <2>2. echo_calls \in 0 .. EchoCalls
    BY <1>1, BoundAssumption
  <2> QED
    BY <1>1, <2>1, <2>2 DEF EchoTypes
<1>3. Len(echo_queue) = 0 /\ 1 .. 0 = {} /\ Len(echo_heard) = 0
  BY <1>1
<1>4. \A m : ~Within(echo_queue, m) /\ Count(echo_queue, m) = 0
  <2>1. \A m : Places(echo_queue, m) = {} /\ ~Within(echo_queue, m)
    BY <1>3 DEF Places, Within
  <2> QED
    BY <2>1, FS_EmptySet DEF Count
<1>5. EchoHeard
  BY <1>1, <1>3, <1>4 DEF EchoHeard
<1>6. EchoLife
  BY <1>1 DEF EchoLife
<1>7. EchoLine(echo_queue)
  BY <1>3 DEF EchoLine, Single, Leading
<1>8. EchoClean
  BY <1>1, <1>4, <1>7 DEF EchoClean, EchoBegun, EchoPeople, EchoWaits
<1> QED
  BY <1>2, <1>5, <1>6, <1>8 DEF EchoInv

LEMMA EchoNext == EchoInv /\ [EchoThread!Next]_(EchoThread!vars) => EchoInv'
<1> SUFFICES ASSUME EchoInv, [EchoThread!Next]_(EchoThread!vars) PROVE EchoInv'
  OBVIOUS
<1>1. CASE EchoThread!ConsoleLogin
  BY <1>1, ConsoleLoginKeeps
<1>2. CASE EchoThread!ConsoleDisconnect
  BY <1>2, ConsoleDisconnectKeeps
<1>3. CASE EchoThread!OnLogin
  BY <1>3, OnLoginKeeps
<1>4. CASE EchoThread!OnDisconnect
  BY <1>4, OnDisconnectKeeps
<1>5. CASE EchoThread!OnXmppOpen
  BY <1>5, OnXmppOpenKeeps
<1>6. CASE EchoThread!OnXmppMessage
  BY <1>6, OnXmppMessageKeeps
<1>7. CASE EchoThread!OnXmppClosed
  BY <1>7, OnXmppClosedKeeps
<1>8. CASE EchoThread!OnPing
  BY <1>8, OnPingKeeps
<1>9. CASE EchoThread!RunTasks
  BY <1>9, RunTasksKeeps
<1>10. CASE EchoThread!Poll
  BY <1>10, PollKeeps
<1>11. CASE EchoThread!EngineProceeds
  <2>1. CASE echo_state = "START" /\ EchoThread!EngineSays("OPENING")
    BY <2>1, EngineSaysKeeps
  <2>2. CASE echo_state = "OPENING" /\ EchoThread!EngineSays("OPEN")
    BY <2>2, EngineSaysKeeps
  <2> QED
    BY <1>11, <2>1, <2>2 DEF EchoThread!EngineProceeds
<1>12. CASE EchoThread!EngineCloses
  <2>1. echo_state # "CLOSED" /\ EchoThread!EngineSays("CLOSED")
    BY <1>12 DEF EchoThread!EngineCloses
  <2> QED
    BY <2>1, EngineSaysKeeps
<1>13. CASE EchoThread!StanzaArrives
  BY <1>13, StanzaArrivesKeeps
<1>14. CASE EchoThread!PingDue
  BY <1>14, PingDueKeeps
<1>15. CASE UNCHANGED EchoThread!vars
  <2>1. UNCHANGED <<echo_queue, echo_polling, echo_module, echo_handler, echo_state,
                     echo_client, echo_tasks, echo_awake, echo_unread, echo_message,
                     echo_try, echo_lost, echo_passed, echo_heard, echo_told, echo_logins,
                     echo_meddled, echo_overtaken, echo_calls, echo_stanzas>>
    BY <1>15 DEF EchoThread!vars, EchoThread!pump_vars, EchoThread!history
  <2> QED
    BY <2>1 DEF EchoInv, EchoTypes, EchoLife, EchoHeard, EchoClean, EchoBegun, EchoPeople, EchoWaits
<1> QED
  BY <1>1, <1>2, <1>3, <1>4, <1>5, <1>6, <1>7, <1>8, <1>9, <1>10, <1>11, <1>12, <1>13, <1>14, <1>15
     DEF EchoThread!Next, EchoThread!OnMessage

LEMMA EchoSuffices ==
    EchoInv => /\ EchoThread!TypeOK /\ EchoThread!HeardInPlace
               /\ EchoThread!NothingLost /\ EchoThread!ToldOnce
<1> SUFFICES ASSUME EchoInv
             PROVE  /\ EchoThread!TypeOK /\ EchoThread!HeardInPlace
                    /\ EchoThread!NothingLost /\ EchoThread!ToldOnce
  OBVIOUS
<1>1. EchoTypes /\ EchoLife /\ EchoHeard
  BY DEF EchoInv
<1>2. echo_queue \in Seq(EchoMessage) /\ DOMAIN echo_queue = 1 .. Len(echo_queue)
  BY <1>1 DEF EchoTypes
<1>3. EchoThread!TypeOK
  <2>1. \A k \in DOMAIN echo_queue : echo_queue[k] \in EchoMessage
    BY <1>2
  <2> QED
    BY <1>1, <2>1 DEF EchoThread!TypeOK, EchoTypes, EchoMessage
<1>4. EchoThread!HeardInPlace
  <2>1. DOMAIN echo_heard = 1 .. Len(echo_heard)
    BY <1>1 DEF EchoTypes
  <2>2. {k \in DOMAIN echo_queue : echo_queue[k] = "MESSAGE"} = Places(echo_queue, "MESSAGE")
    BY <1>2 DEF Places
  <2>3. EchoThread!Cardinality({k \in DOMAIN echo_queue : echo_queue[k] = "MESSAGE"})
            = Count(echo_queue, "MESSAGE")
    BY <2>2, SameSize DEF Count
  <2> QED
    BY <1>1, <2>1, <2>3 DEF EchoThread!HeardInPlace, EchoHeard
<1>5. EchoThread!NothingLost
  <2>1. echo_meddled \in BOOLEAN /\ echo_overtaken \in BOOLEAN
    BY <1>1 DEF EchoTypes
  <2>2. CASE echo_meddled = FALSE /\ echo_overtaken = FALSE
    BY <2>2 DEF EchoInv, EchoClean, EchoThread!NothingLost, EchoThread!Going
  <2>3. CASE echo_meddled = TRUE \/ echo_overtaken = TRUE
    BY <2>3 DEF EchoThread!NothingLost
  <2> QED
    BY <2>1, <2>2, <2>3
<1>6. EchoThread!ToldOnce
  BY <1>1 DEF EchoLife, EchoThread!ToldOnce
<1> QED
  BY <1>3, <1>4, <1>5, <1>6

-----------------------------------------------------------------------------
(***************************************************************************)
(* All of them, of which each moves while the others stay.                 *)
(***************************************************************************)
LEMMA EachBegins ==
    AllInit => /\ Init /\ PingTask!Init /\ Presence!Init /\ XmppPump!Init
               /\ EchoThread!Init /\ Chat!Init /\ PubsubTask!Init
BY DEF AllInit

LEMMA EachMoves ==
    [AllNext]_all_vars =>
        /\ [Next]_vars
        /\ [PingTask!Next]_(PingTask!vars)
        /\ [Presence!Next]_(Presence!vars)
        /\ [XmppPump!Next]_(XmppPump!vars)
        /\ [EchoThread!Next]_(EchoThread!vars)
        /\ [Chat!Next]_(Chat!vars)
        /\ [PubsubTask!Next]_(PubsubTask!vars)
<1> SUFFICES ASSUME [AllNext]_all_vars
             PROVE  /\ [Next]_vars
                    /\ [PingTask!Next]_(PingTask!vars)
                    /\ [Presence!Next]_(Presence!vars)
                    /\ [XmppPump!Next]_(XmppPump!vars)
                    /\ [EchoThread!Next]_(EchoThread!vars)
                    /\ [Chat!Next]_(Chat!vars)
                    /\ [PubsubTask!Next]_(PubsubTask!vars)
  OBVIOUS
<1>1. [Next]_vars
  BY DEF AllNext, all_vars, XmppSocketStep, PingTaskStep, PresenceStep, XmppPumpStep,
         EchoThreadStep, ChatStep, PubsubTaskStep
<1>2. [PingTask!Next]_(PingTask!vars)
  BY DEF AllNext, all_vars, XmppSocketStep, PingTaskStep, PresenceStep, XmppPumpStep,
         EchoThreadStep, ChatStep, PubsubTaskStep, ping_vars, PingTask!vars
<1>3. [Presence!Next]_(Presence!vars)
  BY DEF AllNext, all_vars, XmppSocketStep, PingTaskStep, PresenceStep, XmppPumpStep,
         EchoThreadStep, ChatStep, PubsubTaskStep, presence_vars, Presence!vars,
         Presence!out_vars, Presence!in_vars
<1>4. [XmppPump!Next]_(XmppPump!vars)
  BY DEF AllNext, all_vars, XmppSocketStep, PingTaskStep, PresenceStep, XmppPumpStep,
         EchoThreadStep, ChatStep, PubsubTaskStep, pump_vars, XmppPump!vars,
         XmppPump!client_vars
<1>5. [EchoThread!Next]_(EchoThread!vars)
  BY DEF AllNext, all_vars, XmppSocketStep, PingTaskStep, PresenceStep, XmppPumpStep,
         EchoThreadStep, ChatStep, PubsubTaskStep, echo_vars, EchoThread!vars,
         EchoThread!pump_vars, EchoThread!history
<1>6. [Chat!Next]_(Chat!vars)
  BY DEF AllNext, all_vars, XmppSocketStep, PingTaskStep, PresenceStep, XmppPumpStep,
         EchoThreadStep, ChatStep, PubsubTaskStep, chat_vars, Chat!vars
<1>7. [PubsubTask!Next]_(PubsubTask!vars)
  BY DEF AllNext, all_vars, XmppSocketStep, PingTaskStep, PresenceStep, XmppPumpStep,
         EchoThreadStep, ChatStep, PubsubTaskStep, pubsub_vars, PubsubTask!vars
<1> QED
  BY <1>1, <1>2, <1>3, <1>4, <1>5, <1>6, <1>7

\* The bytes of the socket also while the others move (XmppSocket::Write and
\* OnWriteEvent).
THEOREM BytesAreInOrder == AllSpec => []BytesSentInOrder
<1>1. Sizes
  BY BoundAssumption DEF Sizes
<1>2. AllInit => IInv
  BY <1>1, EachBegins, InitHolds
<1>3. IInv /\ [AllNext]_all_vars => IInv'
  BY <1>1, EachMoves, SocketNext
<1>4. IInv => BytesSentInOrder
  BY <1>1, InvSuffices
<1> QED
  BY <1>2, <1>3, <1>4, PTL DEF AllSpec

\* With any period, timeout and clock, a ping task that sleeps is woken in time,
\* sends its ping when the one before was answered, and finds its time over only
\* when the server was silent, until the clock wraps (PingTask::ProcessStart).
THEOREM PingsAreInTime == AllSpec => []PingsInTime
<1>1. PingTask!Periods
  BY PingAssumption DEF PingTask!Periods
<1>2. PingTask!Spec => []PingTask!PingsInTime
  BY <1>1, PingTask!PingsStayInTime
<1>3. AllInit => PingTask!Init
  BY EachBegins
<1>4. [AllNext]_all_vars => [PingTask!Next]_(PingTask!vars)
  BY EachMoves
<1>5. AllSpec => PingTask!Spec
  BY <1>3, <1>4, PTL DEF AllSpec, PingTask!Spec
<1> QED
  BY <1>2, <1>5, PTL DEF PingsInTime

\* Whatever a program sends and when, a status is learned as it was meant and in
\* its turn (PresenceOutTask::TranslateStatus, PresenceReceiveTask::DecodeStatus).
THEOREM StatusesAreLearned == AllSpec => [](Presence!TypeOK /\ Presence!LearnedInOrder)
<1>1. AllInit => StatusInv
  BY EachBegins, PresenceInit
<1>2. StatusInv /\ [AllNext]_all_vars => StatusInv'
  BY EachMoves, PresenceNext
<1> QED
  BY <1>1, <1>2, PresenceSuffices, PTL DEF AllSpec

\* Of any nodes, those that are followed are known as the server last said, as
\* soon as nothing waits (PubsubTask::HandlePubsubEventMessage).
THEOREM NodesAreFollowed == AllSpec => [](PubsubTask!TypeOK /\ PubsubTask!LearnsTheLast)
<1>1. AllInit => NodeInv
  BY EachBegins, PubsubInit
<1>2. NodeInv /\ [AllNext]_all_vars => NodeInv'
  BY EachMoves, PubsubNext
<1> QED
  BY <1>1, <1>2, PubsubSuffices, PTL DEF AllSpec

\* However often the console calls and however the engine, the server and the
\* clock come in between, the messages of the echo program are heard in their
\* place, each session is told its beginning and end once, and nothing is used
\* that is gone while the console lets a session be and it does not end before
\* its beginning was handled (EchoThread::OnMessage, OnXmppMessage).
THEOREM EchoHolds ==
    AllSpec => [](/\ EchoThread!TypeOK /\ EchoThread!HeardInPlace
                  /\ EchoThread!NothingLost /\ EchoThread!ToldOnce)
<1>1. AllInit => EchoInv
  BY EachBegins, EchoInit
<1>2. EchoInv /\ [AllNext]_all_vars => EchoInv'
  BY EachMoves, EchoNext
<1> QED
  BY <1>1, <1>2, EchoSuffices, PTL DEF AllSpec

\* Statuses, items, echoed messages and typed lines each get where they were
\* meant to, in their order (PresenceReceiveTask::DecodeStatus,
\* PubsubTask::HandlePubsubEventMessage, EchoThread::OnXmppMessage,
\* ChatApp::HandleChatInput).
THEOREM UpdatesStayInOrder == AllSpec => []UpdatesInOrder
<1>1. Chat!Spec => [](Chat!TypeOK /\ Chat!TasksThere /\ Chat!SentAsMeant)
  BY ChatHolds
<1>2. AllInit => Chat!Init
  BY EachBegins
<1>3. [AllNext]_all_vars => [Chat!Next]_(Chat!vars)
  BY EachMoves
<1>4. AllSpec => Chat!Spec
  BY <1>2, <1>3, PTL DEF AllSpec, Chat!Spec
<1> QED
  BY <1>1, <1>4, StatusesAreLearned, NodesAreFollowed, EchoHolds, PTL DEF UpdatesInOrder

\* However often a pump is told to log in and out and whenever its engine tells
\* of the connection, its client is used only while there is one; the programs on
\* top of it use what is there (XmppPump::DoLogin, OnStateChange;
\* EchoThread::OnMessage; ChatApp::HandleChatInput).
THEOREM ClientsAreUsedWell == AllSpec => []PumpUsesClient
<1>1. XmppPump!Spec => [](XmppPump!TypeOK /\ XmppPump!ClientUsedWell)
  BY PumpHolds
<1>2. Chat!Spec => [](Chat!TypeOK /\ Chat!TasksThere /\ Chat!SentAsMeant)
  BY ChatHolds
<1>3. AllInit => XmppPump!Init /\ Chat!Init
  BY EachBegins
<1>4. [AllNext]_all_vars => [XmppPump!Next]_(XmppPump!vars)
  BY EachMoves
<1>5. [AllNext]_all_vars => [Chat!Next]_(Chat!vars)
  BY EachMoves
<1>6. AllSpec => XmppPump!Spec /\ Chat!Spec
  BY <1>3, <1>4, <1>5, PTL DEF AllSpec, XmppPump!Spec, Chat!Spec
<1> QED
  BY <1>1, <1>2, <1>6, EchoHolds, PTL DEF PumpUsesClient
=============================================================================
