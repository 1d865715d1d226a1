--------------------------- MODULE FifoBufferProofs ---------------------------
(***************************************************************************)
(* Theorems about FifoBuffer: for every capacity it implements ByteQueue,  *)
(* and whoever met SR_BLOCK and could go on now has an event on its way.   *)
(***************************************************************************)
EXTENDS FifoBuffer, FiniteSetTheorems, SequenceTheorems, TLAPS

\* What the code takes for granted: there are bytes, and room for one.
Sizes == MaxCapacity \in Nat \ {0} /\ Byte # {}

\* The writer's loan starts where the contents end, and ends before the reader:
\* reading meanwhile moves neither.  A closed buffer has lent nothing.
Loan ==
    /\ lent_in \in [at : Nat, size : Nat, used : Nat]
    /\ lent_in.size > 0 =>
          /\ lent_in.at = (read_position + data_length) % buffer_length
          /\ lent_in.at + lent_in.size <= buffer_length
          /\ lent_in.size + data_length <= buffer_length
          /\ lent_in.used <= lent_in.size
    /\ lent_in # NoLoan => state = "OPEN"

IInv == TypeOK /\ Loan

-----------------------------------------------------------------------------
(* The ring.                                                               *)

\* The buffers of n bytes, and the places in one.
Buffers(n) == [0 .. n - 1 -> Byte]
Places(n) == 0 .. n - 1

\* The i-th place of a ring of n, counted from p on.
Place(n, p, i) == (p + (i - 1)) % n

LEMMA PlaceIn ==
    ASSUME NEW n \in Nat \ {0}, NEW p \in Places(n), NEW i \in Nat \ {0}
    PROVE  Place(n, p, i) \in Places(n)
    BY DEF Place, Places

\* Two places of the ring are two positions, counted from any place.
LEMMA Apart ==
    ASSUME NEW n \in Nat \ {0}, NEW p \in Places(n),
           NEW i \in 1 .. n, NEW j \in 1 .. n, i # j
    PROVE  Place(n, p, i) # Place(n, p, j)
<1> USE DEF Places
<1>1. /\ Place(n, p, i) = IF p + (i - 1) < n THEN p + (i - 1) ELSE p + (i - 1) - n
      /\ Place(n, p, j) = IF p + (j - 1) < n THEN p + (j - 1) ELSE p + (j - 1) - n
  BY DEF Place
<1> QED
  BY <1>1

\* It is the same to go on from a place that has been wrapped.
LEMMA GoOn ==
    ASSUME NEW n \in Nat \ {0}, NEW p \in Places(n),
           NEW d \in 0 .. n, NEW j \in Nat \ {0}, d + (j - 1) <= n
    PROVE  Place(n, Place(n, p, d + 1), j) = Place(n, p, d + j)
<1> USE DEF Places
<1>0. Place(n, p, d + 1) = (p + d) % n /\ Place(n, p, d + j) = (p + d + (j - 1)) % n
  BY DEF Place
<1>1. CASE p + d < n
  <2>1. (p + d) % n = p + d
    BY <1>1
  <2> QED
    BY <1>0, <2>1 DEF Place
<1>2. CASE p + d >= n
  <2>1. (p + d) % n = p + d - n
    BY <1>2
  <2>2. (p + d - n) + (j - 1) <= n /\ (p + d - n) + (j - 1) >= 0
    BY <1>2
  <2>4. (p + d + (j - 1)) % n = ((p + d - n) + (j - 1)) % n
    BY <1>2
  <2> QED
    BY <1>0, <2>1, <2>4 DEF Place
<1> QED
  BY <1>1, <1>2

LEMMA WrapOnce ==
    ASSUME NEW n \in Nat \ {0}, NEW p \in Places(n), NEW d \in 0 .. n
    PROVE  (p + d) % n = IF p + d < n THEN p + d ELSE p + d - n
    BY DEF Places

\* The length of a buffer.
LEMMA Length ==
    ASSUME NEW n \in Nat \ {0}, NEW b \in Buffers(n)
    PROVE  Cardinality(DOMAIN b) = n
    BY FS_Interval DEF Buffers

LEMMA MinOfTwo ==
    ASSUME NEW a \in Int, NEW b \in Int
    PROVE  Min({a, b}) = IF a <= b THEN a ELSE b
    BY DEF Min

\* What CopyIn writes and what it leaves alone.
LEMMA CopiedIn ==
    ASSUME NEW n \in Nat \ {0}, NEW b \in Buffers(n),
           NEW at \in Places(n), NEW s \in Seq(Byte), Len(s) <= n
    PROVE  /\ CopyIn(b, at, s) \in Buffers(n)
           /\ \A k \in 1 .. Len(s) : CopyIn(b, at, s)[Place(n, at, k)] = s[k]
           /\ \A i \in Places(n) :
                  (\A k \in 1 .. Len(s) : i # Place(n, at, k)) => CopyIn(b, at, s)[i] = b[i]
<1> USE DEF Buffers, Places
<1> DEFINE t == IF Len(s) <= n - at THEN Len(s) ELSE n - at
           c == CopyIn(b, at, s)
<1>1. /\ Len(s) \in Nat /\ \A k \in 1 .. Len(s) : s[k] \in Byte
      /\ Cardinality(DOMAIN b) = n /\ DOMAIN b = 0 .. n - 1
  BY Length, LenProperties, ElementOfSeq
<1>2. Min({Len(s), n - at}) = t
  BY <1>1, MinOfTwo
<1>3. c = [i \in 0 .. n - 1 |->
             IF i >= at /\ i < at + t THEN s[i - at + 1]
             ELSE IF i < Len(s) - t THEN s[t + i + 1]
             ELSE b[i]]
  BY <1>1, <1>2 DEF CopyIn
<1>4. t \in 0 .. Len(s) /\ t <= n - at /\ (t < Len(s) => t = n - at)
  BY <1>1
<1> HIDE DEF t, c
<1>5. c \in Buffers(n)
  <2>1. \A i \in Places(n) : i >= at /\ i < at + t => i - at + 1 \in 1 .. Len(s)
    BY <1>1, <1>4
  <2>2. \A i \in Places(n) : i < Len(s) - t => t + i + 1 \in 1 .. Len(s)
    BY <1>1, <1>4
  <2> QED
    BY <1>1, <1>3, <2>1, <2>2
<1>6. ASSUME NEW k \in 1 .. Len(s)
      PROVE  c[Place(n, at, k)] = s[k]
  <2>3. Place(n, at, k) = (at + (k - 1)) % n
    BY DEF Place
  <2>1. CASE k <= t
    <3>1. at + (k - 1) \in 0 .. n - 1
      BY <1>1, <1>4, <2>1
    <3>3. (at + (k - 1)) % n = at + (k - 1)
      BY <3>1
    <3>2. (at + (k - 1)) - at + 1 = k /\ at + (k - 1) >= at /\ at + (k - 1) < at + t
      BY <1>1, <1>4, <2>1
    <3> QED
      BY <1>3, <2>3, <3>1, <3>2, <3>3
  <2>2. CASE k > t
    <3>1. t = n - at
      BY <1>1, <1>4, <2>2
    <3>2. at + (k - 1) \in n .. 2 * n - 1
      BY <1>1, <2>2, <3>1
    <3>3. (at + (k - 1)) % n = k - 1 - t
      BY <3>1, <3>2
    <3>4. /\ k - 1 - t \in 0 .. n - 1 /\ ~(k - 1 - t >= at) /\ k - 1 - t < Len(s) - t
          /\ t + (k - 1 - t) + 1 = k
      BY <1>1, <1>4, <2>2, <3>1
    <3> QED
      BY <1>3, <2>3, <3>3, <3>4
  <2> QED
    BY <1>1, <1>4, <2>1, <2>2
<1>7. ASSUME NEW i \in Places(n), \A k \in 1 .. Len(s) : i # Place(n, at, k)
      PROVE  c[i] = b[i]
  <2>1. ~(i >= at /\ i < at + t)
    <3> SUFFICES ASSUME i >= at, i < at + t PROVE FALSE
      OBVIOUS
    <3>1. i - at + 1 \in 1 .. Len(s) /\ at + ((i - at + 1) - 1) = i
      BY <1>1, <1>4
    <3>2. Place(n, at, i - at + 1) = i
      BY <3>1 DEF Place
    <3> QED
      BY <1>7, <3>1, <3>2
  <2>2. ~(i < Len(s) - t)
    <3> SUFFICES ASSUME i < Len(s) - t PROVE FALSE
      OBVIOUS
    <3>1. t = n - at /\ t + i + 1 \in 1 .. Len(s) /\ at + ((t + i + 1) - 1) = n + i
      BY <1>1, <1>4
    <3>2. Place(n, at, t + i + 1) = i
      BY <3>1 DEF Place
    <3> QED
      BY <1>7, <3>1, <3>2
  <2> QED
    BY <1>3, <2>1, <2>2
<1> QED
  BY <1>5, <1>6, <1>7 DEF c

-----------------------------------------------------------------------------
(* What is buffered.                                                       *)

LEMMA Held ==
    ASSUME NEW n \in Nat \ {0}, NEW b \in Buffers(n),
           NEW p \in Places(n), NEW d \in 0 .. n
    PROVE  /\ Contents(b, p, d) = [i \in 1 .. d |-> b[Place(n, p, i)]]
           /\ Contents(b, p, d) \in Seq(Byte) /\ Contents(b, p, d) \in [1 .. d -> Byte]
           /\ Len(Contents(b, p, d)) = d
           /\ \A i \in 1 .. d : Contents(b, p, d)[i] = b[Place(n, p, i)]
<1>1. Contents(b, p, d) = [i \in 1 .. d |-> b[(p + i - 1) % n]]
  BY Length DEF Contents
<1>2. \A i \in 1 .. d : Place(n, p, i) = (p + i - 1) % n
  BY DEF Place
<1>3. \A i \in 1 .. d : Place(n, p, i) \in Places(n)
  BY PlaceIn
<1>4. Contents(b, p, d) = [i \in 1 .. d |-> b[Place(n, p, i)]]
  BY <1>1, <1>2
<1>5. Contents(b, p, d) \in [1 .. d -> Byte]
  BY <1>3, <1>4 DEF Buffers, Places
<1>6. Contents(b, p, d) \in Seq(Byte) /\ Len(Contents(b, p, d)) = d
  BY <1>5, IsASeq
<1> QED
  BY <1>4, <1>5, <1>6

\* What is written elsewhere is not seen.
LEMMA Unseen ==
    ASSUME NEW n \in Nat \ {0}, NEW b \in Buffers(n), NEW c \in Buffers(n),
           NEW p \in Places(n), NEW d \in 0 .. n,
           \A i \in 1 .. d : c[Place(n, p, i)] = b[Place(n, p, i)]
    PROVE  Contents(c, p, d) = Contents(b, p, d)
<1>1. /\ Contents(b, p, d) = [i \in 1 .. d |-> b[Place(n, p, i)]]
      /\ Contents(c, p, d) = [i \in 1 .. d |-> c[Place(n, p, i)]]
  BY Held
<1> QED
  BY <1>1

\* More is held than before: what was, and what lies behind it.
LEMMA HeldOn ==
    ASSUME NEW n \in Nat \ {0}, NEW b \in Buffers(n),
           NEW p \in Places(n), NEW d \in 0 .. n, NEW u \in 0 .. n, d + u <= n
    PROVE  Contents(b, p, d + u) = Contents(b, p, d) \o Contents(b, Place(n, p, d + 1), u)
<1> DEFINE q == Place(n, p, d + 1)
           x == Contents(b, p, d)
           y == Contents(b, q, u)
           z == Contents(b, p, d + u)
<1>1. q \in Places(n) /\ d + u \in 0 .. n
  BY PlaceIn
<1>2. x \in Seq(Byte) /\ Len(x) = d /\ \A i \in 1 .. d : x[i] = b[Place(n, p, i)]
  BY Held
<1>3. y \in Seq(Byte) /\ Len(y) = u /\ \A i \in 1 .. u : y[i] = b[Place(n, q, i)]
  BY <1>1, Held
<1>4. z \in Seq(Byte) /\ Len(z) = d + u /\ \A i \in 1 .. d + u : z[i] = b[Place(n, p, i)]
  BY <1>1, Held
<1>5. \A j \in 1 .. u : Place(n, q, j) = Place(n, p, d + j)
  BY GoOn
<1> HIDE DEF q, x, y, z
<1>6. /\ x \o y \in Seq(Byte) /\ Len(x \o y) = d + u
      /\ \A i \in 1 .. d + u : (x \o y)[i] = IF i <= d THEN x[i] ELSE y[i - d]
  <2>1. x \in Seq(Byte) /\ y \in Seq(Byte) /\ Len(x) = d /\ Len(y) = u
    BY <1>2, <1>3
  <2>2. /\ x \o y \in Seq(Byte) /\ Len(x \o y) = Len(x) + Len(y)
        /\ \A i \in 1 .. Len(x) + Len(y) :
               (x \o y)[i] = IF i <= Len(x) THEN x[i] ELSE y[i - Len(x)]
    BY <2>1, ConcatProperties, Zenon
  <2> QED
    BY <2>1, <2>2
<1>7. ASSUME NEW i \in 1 .. d + u
      PROVE  z[i] = (x \o y)[i]
  <2>1. CASE i <= d
    <3>1. i \in 1 .. d
      BY <2>1
    <3> QED
      BY <1>2, <1>4, <1>6, <2>1, <3>1
  <2>2. CASE i > d
    <3>1. i - d \in 1 .. u /\ ~(i <= d) /\ d + (i - d) = i
      BY <2>2
    <3>2. y[i - d] = b[Place(n, q, i - d)] /\ Place(n, q, i - d) = Place(n, p, d + (i - d))
      BY <1>3, <1>5, <3>1
    <3>3. z[i] = b[Place(n, p, i)] /\ (x \o y)[i] = y[i - d]
      BY <1>4, <1>6, <3>1
    <3> QED
      BY <3>1, <3>2, <3>3
  <2>3. i <= d \/ i > d
    OBVIOUS
  <2> QED
    BY <2>1, <2>2, <2>3
<1>8. z = x \o y
  BY <1>4, <1>6, <1>7, SeqEqual
<1> QED
  BY <1>8 DEF q, x, y, z

\* What is copied in behind the contents follows them.
LEMMA Appended ==
    ASSUME NEW n \in Nat \ {0}, NEW b \in Buffers(n),
           NEW p \in Places(n), NEW d \in 0 .. n,
           NEW s \in Seq(Byte), d + Len(s) <= n
    PROVE  Contents(CopyIn(b, Place(n, p, d + 1), s), p, d + Len(s)) = Contents(b, p, d) \o s
<1> DEFINE q == Place(n, p, d + 1)
           c == CopyIn(b, q, s)
<1>1. Len(s) \in 0 .. n /\ q \in Places(n)
  BY LenProperties, PlaceIn
<1>2. \A k \in 1 .. Len(s) : Place(n, q, k) = Place(n, p, d + k)
  BY <1>1, GoOn
<1> HIDE DEF q
<1>3. /\ c \in Buffers(n)
      /\ \A k \in 1 .. Len(s) : c[Place(n, q, k)] = s[k]
      /\ \A i \in Places(n) :
             (\A k \in 1 .. Len(s) : i # Place(n, q, k)) => c[i] = b[i]
  BY <1>1, CopiedIn
<1> HIDE DEF c
<1>4. Contents(c, p, d) = Contents(b, p, d)
  <2>1. ASSUME NEW i \in 1 .. d
        PROVE  c[Place(n, p, i)] = b[Place(n, p, i)]
    <3>1. \A k \in 1 .. Len(s) : Place(n, p, i) # Place(n, p, d + k)
      BY <1>1, Apart
    <3>2. Place(n, p, i) \in Places(n)
      BY PlaceIn
    <3> QED
      BY <1>2, <1>3, <3>1, <3>2
  <2> QED
    BY <1>3, <2>1, Unseen
<1>5. Contents(c, q, Len(s)) = s
  <2>1. /\ Contents(c, q, Len(s)) \in Seq(Byte) /\ Len(Contents(c, q, Len(s))) = Len(s)
        /\ \A i \in 1 .. Len(s) : Contents(c, q, Len(s))[i] = c[Place(n, q, i)]
    BY <1>1, <1>3, Held
  <2> QED
    BY <1>3, <2>1, SeqEqual
<1>6. Contents(c, p, d + Len(s)) = Contents(c, p, d) \o Contents(c, q, Len(s))
  BY <1>1, <1>3, HeldOn DEF q
<1> QED
  BY <1>4, <1>5, <1>6 DEF c, q

\* What is read is gone, and nothing else.
LEMMA Dropped ==
    ASSUME NEW n \in Nat \ {0}, NEW b \in Buffers(n),
           NEW p \in Places(n), NEW d \in 0 .. n, NEW k \in 0 .. d
    PROVE  Contents(b, Place(n, p, k + 1), d - k) = SubSeq(Contents(b, p, d), k + 1, d)
<1> DEFINE q == Place(n, p, k + 1)
           x == Contents(b, p, d)
           y == Contents(b, q, d - k)
<1>0. q \in Places(n) /\ k \in 0 .. n
  BY PlaceIn
<1>1. d - k \in 0 .. n
  OBVIOUS
<1>2. x \in Seq(Byte) /\ Len(x) = d /\ \A i \in 1 .. d : x[i] = b[Place(n, p, i)]
  BY Held
<1>3. y \in Seq(Byte) /\ Len(y) = d - k /\ \A i \in 1 .. d - k : y[i] = b[Place(n, q, i)]
  <2>1. \A m \in 0 .. n :
            /\ Contents(b, q, m) \in Seq(Byte) /\ Len(Contents(b, q, m)) = m
            /\ \A i \in 1 .. m : Contents(b, q, m)[i] = b[Place(n, q, i)]
    BY <1>0, Held
  <2> QED
    BY <1>1, <2>1
<1>4. \A j \in 1 .. d - k : Place(n, q, j) = Place(n, p, k + j)
  BY <1>0, <1>1, GoOn
<1> HIDE DEF q, x, y
<1>5. /\ SubSeq(x, k + 1, d) \in Seq(Byte) /\ Len(SubSeq(x, k + 1, d)) = d - k
      /\ \A i \in 1 .. d - k : SubSeq(x, k + 1, d)[i] = x[k + i]
  <2>1. k + 1 \in 1 .. Len(x) + 1 /\ d \in k .. Len(x)
    BY <1>2
  <2>2. \A i \in k + 1 .. d : x[i] \in Byte
    BY <1>2, ElementOfSeq
  <2> QED
    BY <1>2, <2>1, <2>2
<1>6. \A i \in 1 .. d - k : y[i] = SubSeq(x, k + 1, d)[i]
  BY <1>2, <1>3, <1>4, <1>5
<1>7. y = SubSeq(x, k + 1, d)
  BY <1>3, <1>5, <1>6, SeqEqual
<1> QED
  BY <1>7 DEF q, x, y

-----------------------------------------------------------------------------
(* The types, and what is known of the loans, are kept.                    *)

qvars == <<contents, buffer_length, state = "CLOSED">>

LEMMA Ranges ==
    ASSUME IInv
    PROVE  /\ buffer_length \in Nat \ {0} /\ buffer_length \in 1 .. MaxCapacity
           /\ buffer \in Buffers(buffer_length)
           /\ read_position \in Places(buffer_length)
           /\ data_length \in 0 .. buffer_length
           /\ lent_out \in 0 .. data_length
           /\ lent_in \in [at : Nat, size : Nat, used : Nat]
           /\ data_length + lent_in.used <= buffer_length
           /\ state \in {"OPEN", "CLOSED"}
<1>1. PICK n \in 1 .. MaxCapacity : buffer \in [0 .. n - 1 -> Byte]
  BY DEF IInv, TypeOK
<1>2. n \in Nat \ {0} /\ buffer \in Buffers(n)
  BY <1>1 DEF Buffers
<1>3. buffer_length = n
  BY <1>2, Length DEF buffer_length
<1> QED
  BY <1>2, <1>3 DEF IInv, TypeOK, Loan, Places

\* The other way round: what has to be shown of a step.
LEMMA Typed ==
    ASSUME NEW n \in 1 .. MaxCapacity, buffer' \in Buffers(n),
           read_position' \in Places(n), data_length' \in 0 .. n,
           lent_out' \in 0 .. data_length',
           lent_in' \in [at : Nat, size : Nat, used : Nat],
           data_length' + lent_in'.used <= n,
           state' \in {"OPEN", "CLOSED"},
           posted' \cup waits' \subseteq {"SE_READ", "SE_WRITE"}
    PROVE  TypeOK' /\ buffer_length' = n
<1>1. buffer_length' = n
  BY Length DEF buffer_length
<1> QED
  BY <1>1 DEF TypeOK, Buffers, Places

LEMMA Told ==
    ASSUME IInv
    PROVE  posted \cup waits \subseteq {"SE_READ", "SE_WRITE"}
    BY DEF IInv, TypeOK

\* Nothing of the buffer moved: the queue stutters.
LEMMA Stutters ==
    ASSUME UNCHANGED buffer_vars
    PROVE  UNCHANGED qvars /\ UNCHANGED buffer_length
<1>1. buffer' = buffer /\ data_length' = data_length /\ read_position' = read_position
      /\ state' = state
  BY DEF buffer_vars
<1>2. contents' = contents
  BY <1>1 DEF contents
<1>3. buffer_length' = buffer_length
  BY <1>1 DEF buffer_length
<1> QED
  BY <1>1, <1>2, <1>3 DEF qvars

-----------------------------------------------------------------------------
(* One lemma per operation.                                                *)

\* Putting bytes behind the contents, wherever that is.
LEMMA Puts ==
    ASSUME IInv, NEW s \in Seq(Byte), Len(s) > 0, state = "OPEN",
           contents' = contents \o s, buffer_length' = buffer_length,
           data_length + Len(s) <= buffer_length, state' = state
    PROVE  Queue!Put
<1>1. Len(contents) = data_length
  BY Ranges, Held DEF contents
<1>2. Len(s) \in 1 .. buffer_length - Len(contents)
  BY <1>1, Ranges, LenProperties
<1>3. s \in [1 .. Len(s) -> Byte]
  BY LenProperties
<1> QED
  BY <1>2, <1>3 DEF Queue!Put

\* Taking bytes from the front.
LEMMA Takes ==
    ASSUME IInv, NEW k \in 1 .. data_length, read_position' = NextRead(k),
           data_length' = data_length - k, UNCHANGED <<buffer, state>>
    PROVE  Queue!Take
<1>1. NextRead(k) = Place(buffer_length, read_position, k + 1)
  BY Ranges DEF NextRead, Place
<1>0. /\ buffer_length \in Nat \ {0} /\ buffer \in Buffers(buffer_length)
      /\ read_position \in Places(buffer_length) /\ data_length \in 0 .. buffer_length
      /\ k \in 0 .. data_length
  BY Ranges
<1>2. Contents(buffer, Place(buffer_length, read_position, k + 1), data_length - k)
           = SubSeq(Contents(buffer, read_position, data_length), k + 1, data_length)
  BY ONLY <1>0, Dropped
<1>5. Len(Contents(buffer, read_position, data_length)) = data_length
  BY <1>0, Held
<1>3. Len(contents) = data_length /\ contents' = SubSeq(contents, k + 1, data_length)
  BY <1>1, <1>2, <1>5 DEF contents
<1>4. buffer_length' = buffer_length
  BY DEF buffer_length
<1> QED
  BY <1>3, <1>4 DEF Queue!Take

\* The end of the contents stays where it is.
LEMMA EndStays ==
    ASSUME IInv, NEW k \in 0 .. data_length
    PROVE  /\ NextRead(k) \in Places(buffer_length)
           /\ (NextRead(k) + (data_length - k)) % buffer_length
                = (read_position + data_length) % buffer_length
           /\ NextRead(0) = read_position
<1> DEFINE n == buffer_length
           p == read_position
           d == data_length
<1>1. n \in Nat \ {0} /\ p \in 0 .. n - 1 /\ d \in 0 .. n
  BY Ranges DEF Places
<1> HIDE DEF n, p, d
<1>2. k \in 0 .. d
  BY DEF d
<1>3. (p + k) % n = IF p + k < n THEN p + k ELSE p + k - n
  BY <1>1, <1>2
<1>4. (p + k) % n \in 0 .. n - 1
  BY <1>1, <1>2, <1>3
<1>5. (((p + k) % n) + (d - k)) % n = (p + d) % n
  <2>1. CASE p + k < n
    BY <1>1, <1>2, <1>3, <2>1
  <2>2. CASE ~(p + k < n)
    <3>1. ((p + k) % n) + (d - k) = p + d - n
      BY <1>1, <1>2, <1>3, <2>2
    <3>2. (p + d - n) % n = (p + d) % n
      BY <1>1, <1>2, <2>2
    <3> QED
      BY <3>1, <3>2
  <2> QED
    BY <2>1, <2>2
<1>6. (p + 0) % n = p
  BY <1>1
<1> QED
  BY <1>4, <1>5, <1>6 DEF n, p, d, NextRead, Places

LEMMA WriteKeeps ==
    ASSUME IInv, Write
    PROVE  IInv' /\ [Queue!Next]_qvars
<1> USE Ranges, Told
<1>0. PICK m \in 1 .. MaxCapacity : \E bytes \in [1 .. m -> Byte] :
          IF WriteBlocks(0)
          THEN /\ waits' = waits \cup {"SE_WRITE"}
               /\ UNCHANGED <<buffer_vars, posted>>
          ELSE LET copy == WriteCopy(m, 0)
               IN  /\ buffer' = CopyIn(buffer, WriteAt(0), SubSeq(bytes, 1, copy))
                   /\ data_length' = data_length + copy
                   /\ PostOnWrite(copy)
                   /\ UNCHANGED <<read_position, state, waits>>
  BY DEF Write
<1>1. PICK bytes \in [1 .. m -> Byte] :
          IF WriteBlocks(0)
          THEN /\ waits' = waits \cup {"SE_WRITE"}
               /\ UNCHANGED <<buffer_vars, posted>>
          ELSE LET copy == WriteCopy(m, 0)
               IN  /\ buffer' = CopyIn(buffer, WriteAt(0), SubSeq(bytes, 1, copy))
                   /\ data_length' = data_length + copy
                   /\ PostOnWrite(copy)
                   /\ UNCHANGED <<read_position, state, waits>>
  BY <1>0
<1>2. lent_in = NoLoan /\ state = "OPEN" /\ UNCHANGED <<lent_in, lent_out, grown>>
  BY DEF Write, loan_vars
<1>3. CASE WriteBlocks(0)
  <2>1. waits' = waits \cup {"SE_WRITE"} /\ UNCHANGED <<buffer, data_length, read_position, state, posted>>
    BY <1>1, <1>3 DEF buffer_vars
  <2>2. UNCHANGED qvars /\ UNCHANGED buffer_length
    BY <2>1, Stutters DEF buffer_vars
  <2>3. TypeOK'
    BY <1>2, <2>1, Typed
  <2>4. Loan'
    BY <1>2, <2>1, <2>2 DEF IInv, Loan, NoLoan
  <2> QED
    BY <2>2, <2>3, <2>4 DEF IInv
<1>4. CASE ~WriteBlocks(0)
  <2> DEFINE copy == WriteCopy(m, 0)
             s == SubSeq(bytes, 1, copy)
  <2>1. /\ buffer' = CopyIn(buffer, WriteAt(0), s)
        /\ data_length' = data_length + copy
        /\ PostOnWrite(copy)
        /\ UNCHANGED <<read_position, state, waits>>
    BY <1>1, <1>4
  <2>2. copy \in 1 .. m /\ data_length + copy <= buffer_length
    <3>1. data_length < buffer_length
      BY <1>4 DEF WriteBlocks
    <3>2. copy = IF m <= buffer_length - data_length - 0 THEN m ELSE buffer_length - data_length - 0
      BY MinOfTwo DEF WriteCopy
    <3> QED
      BY <3>1, <3>2
  <2> HIDE DEF copy
  <2>3. s \in Seq(Byte) /\ Len(s) = copy
    <3>1. bytes \in Seq(Byte) /\ Len(bytes) = m
      BY IsASeq
    <3> QED
      BY <2>2, <3>1, SubSeqProperties
  <2> HIDE DEF s
  <2>4. WriteAt(0) = Place(buffer_length, read_position, data_length + 1)
    BY DEF WriteAt, Place, Places
  <2>5. /\ CopyIn(buffer, Place(buffer_length, read_position, data_length + 1), s) \in Buffers(buffer_length)
        /\ Contents(CopyIn(buffer, Place(buffer_length, read_position, data_length + 1), s),
                    read_position, data_length + Len(s))
             = Contents(buffer, read_position, data_length) \o s
    <3>1. Place(buffer_length, read_position, data_length + 1) \in Places(buffer_length)
      BY PlaceIn
    <3>2. Len(s) <= buffer_length /\ data_length + Len(s) <= buffer_length
      BY <2>2, <2>3
    <3>3. CopyIn(buffer, Place(buffer_length, read_position, data_length + 1), s) \in Buffers(buffer_length)
      BY <2>3, <3>1, <3>2, CopiedIn
    <3>4. /\ buffer_length \in Nat \ {0} /\ buffer \in Buffers(buffer_length)
          /\ read_position \in Places(buffer_length) /\ data_length \in 0 .. buffer_length
      OBVIOUS
    <3>5. Contents(CopyIn(buffer, Place(buffer_length, read_position, data_length + 1), s),
                   read_position, data_length + Len(s))
             = Contents(buffer, read_position, data_length) \o s
      BY ONLY <2>3, <3>2, <3>4, Appended
    <3> QED
      BY <3>3, <3>5
  <2>6. buffer' \in Buffers(buffer_length) /\ contents' = contents \o s
    BY <2>1, <2>3, <2>4, <2>5 DEF contents
  <2>7. TypeOK' /\ buffer_length' = buffer_length
    <3>1. posted' \subseteq {"SE_READ", "SE_WRITE"}
      BY <2>1 DEF PostOnWrite
    <3>2. data_length' + lent_in'.used <= buffer_length /\ data_length' \in 0 .. buffer_length
          /\ lent_out' \in 0 .. data_length'
      BY <1>2, <2>1, <2>2 DEF NoLoan
    <3> QED
      BY <1>2, <2>1, <2>6, <3>1, <3>2, Typed
  <2>8. Loan'
    BY <1>2, <2>1 DEF IInv, Loan, NoLoan
  <2>9. Queue!Put
    <3>1. Len(s) > 0 /\ data_length + Len(s) <= buffer_length /\ state' = state /\ state = "OPEN"
      BY <1>2, <2>1, <2>2, <2>3
    <3> QED
      BY ONLY IInv, <2>3, <2>6, <2>7, <3>1, Puts
  <2> QED
    BY <2>7, <2>8, <2>9 DEF IInv, Queue!Next
<1> QED
  BY <1>3, <1>4

LEMMA ReadKeeps ==
    ASSUME IInv, Read
    PROVE  IInv' /\ [Queue!Next]_qvars
<1> USE Ranges, Told
<1>1. PICK m \in 1 .. MaxCapacity :
          IF data_length = 0
          THEN /\ waits' = IF state = "CLOSED" THEN waits ELSE waits \cup {"SE_READ"}
               /\ UNCHANGED <<buffer_vars, posted>>
          ELSE LET copy == Min({m, data_length})
               IN  /\ read_position' = NextRead(copy)
                   /\ data_length' = data_length - copy
                   /\ PostOnRead(copy)
                   /\ UNCHANGED <<buffer, state, waits>>
  BY DEF Read
<1>2. lent_out = 0 /\ UNCHANGED <<lent_in, lent_out, grown>>
  BY DEF Read, loan_vars
<1>3. CASE data_length = 0
  <2>1. waits' \subseteq waits \cup {"SE_READ"} /\ UNCHANGED <<buffer, data_length, read_position, state, posted>>
    BY <1>1, <1>3 DEF buffer_vars
  <2>2. UNCHANGED qvars /\ UNCHANGED buffer_length
    BY <2>1, Stutters DEF buffer_vars
  <2>3. TypeOK'
    BY <1>2, <2>1, Typed
  <2>4. Loan'
    BY <1>2, <2>1, <2>2 DEF IInv, Loan
  <2> QED
    BY <2>2, <2>3, <2>4 DEF IInv
<1>4. CASE data_length # 0
  <2> DEFINE copy == Min({m, data_length})
  <2>1. /\ read_position' = NextRead(copy)
        /\ data_length' = data_length - copy
        /\ PostOnRead(copy)
        /\ UNCHANGED <<buffer, state, waits>>
    BY <1>1, <1>4
  <2>2. copy \in 1 .. data_length
    BY <1>4, MinOfTwo
  <2> HIDE DEF copy
  <2>3. /\ NextRead(copy) \in Places(buffer_length)
        /\ (NextRead(copy) + (data_length - copy)) % buffer_length
             = (read_position + data_length) % buffer_length
    BY <2>2, EndStays
  <2>4. TypeOK' /\ buffer_length' = buffer_length
    <3>1. posted' \subseteq {"SE_READ", "SE_WRITE"}
      BY <2>1 DEF PostOnRead
    <3>2. data_length' + lent_in'.used <= buffer_length /\ data_length' \in 0 .. buffer_length
          /\ lent_out' \in 0 .. data_length'
      BY <1>2, <2>1, <2>2
    <3> QED
      BY <1>2, <2>1, <2>3, <3>1, <3>2, Typed
  <2>5. Loan'
    <3>1. (read_position' + data_length') % buffer_length' = (read_position + data_length) % buffer_length
      BY <2>1, <2>3, <2>4
    <3>2. data_length' <= data_length
      BY <2>1, <2>2
    <3> QED
      BY <1>2, <2>1, <2>2, <2>4, <3>1, <3>2 DEF IInv, Loan
  <2>6. Queue!Take
    BY <2>1, <2>2, Takes
  <2> QED
    BY <2>4, <2>5, <2>6 DEF IInv, Queue!Next
<1> QED
  BY <1>3, <1>4

\* A byte behind the contents is not part of them.
LEMMA Behind ==
    ASSUME IInv, NEW u \in Nat, data_length + u < buffer_length,
           buffer' \in Buffers(buffer_length),
           \A i \in Places(buffer_length) :
               i # Place(buffer_length, read_position, data_length + u + 1) => buffer'[i] = buffer[i],
           UNCHANGED <<read_position, data_length, state>>
    PROVE  UNCHANGED qvars /\ UNCHANGED buffer_length
<1>1. /\ buffer_length \in Nat \ {0} /\ buffer \in Buffers(buffer_length)
      /\ read_position \in Places(buffer_length) /\ data_length \in 0 .. buffer_length
  BY Ranges
<1>2. data_length + u + 1 \in 1 .. buffer_length
  BY <1>1
<1>3. ASSUME NEW i \in 1 .. data_length
      PROVE  buffer'[Place(buffer_length, read_position, i)]
               = buffer[Place(buffer_length, read_position, i)]
  <2>1. i \in 1 .. buffer_length /\ i # data_length + u + 1 /\ i \in Nat \ {0}
    BY <1>1
  <2>2. Place(buffer_length, read_position, i)
          # Place(buffer_length, read_position, data_length + u + 1)
    BY <1>1, <1>2, <2>1, Apart
  <2>3. Place(buffer_length, read_position, i) \in Places(buffer_length)
    BY <1>1, <2>1, PlaceIn
  <2> QED
    BY <2>2, <2>3
<1>4. Contents(buffer', read_position, data_length) = Contents(buffer, read_position, data_length)
  BY <1>1, <1>3, Unseen
<1>5. contents' = contents
  BY <1>4 DEF contents
<1>6. buffer_length' = buffer_length
  BY <1>1, Length DEF buffer_length
<1> QED
  BY <1>5, <1>6 DEF qvars

LEMMA WriteOffsetKeeps ==
    ASSUME IInv, WriteOffset
    PROVE  IInv' /\ [Queue!Next]_qvars
<1> USE Ranges, Told
<1> DEFINE at == WriteAt(lent_in.used)
<1>1. /\ state = "OPEN" /\ lent_in.size = 0 /\ ~WriteBlocks(lent_in.used)
      /\ lent_in' = [lent_in EXCEPT !.used = lent_in.used + 1]
      /\ UNCHANGED <<data_length, read_position, state, lent_out, posted, waits>>
  BY DEF WriteOffset, event_vars
<1>2. PICK b \in Byte : buffer' = CopyIn(buffer, at, SubSeq(<<b>>, 1, WriteCopy(1, lent_in.used)))
  BY DEF WriteOffset
<1>3. data_length + lent_in.used < buffer_length /\ lent_in.used \in Nat
  BY <1>1 DEF WriteBlocks
<1>4. WriteCopy(1, lent_in.used) = 1
  <2>1. WriteCopy(1, lent_in.used)
          = IF 1 <= buffer_length - data_length - lent_in.used THEN 1
            ELSE buffer_length - data_length - lent_in.used
    BY MinOfTwo DEF WriteCopy
  <2> QED
    BY <1>3, <2>1
<1>5. at = Place(buffer_length, read_position, data_length + lent_in.used + 1)
  BY <1>3 DEF WriteAt, Place, Places
<1> HIDE DEF at
<1>6. at \in Places(buffer_length)
  BY <1>3, <1>5, PlaceIn
<1>7. SubSeq(<<b>>, 1, 1) = <<b>> /\ <<b>> \in Seq(Byte) /\ Len(<<b>>) = 1
  <2>1. <<b>> \in Seq(Byte) /\ Len(<<b>>) = 1
    OBVIOUS
  <2> QED
    BY <2>1, SubSeqFull
<1>8. /\ CopyIn(buffer, at, <<b>>) \in Buffers(buffer_length)
      /\ \A i \in Places(buffer_length) :
             (\A k \in 1 .. Len(<<b>>) : i # Place(buffer_length, at, k))
                 => CopyIn(buffer, at, <<b>>)[i] = buffer[i]
  <2>1. /\ buffer_length \in Nat \ {0} /\ buffer \in Buffers(buffer_length)
        /\ Len(<<b>>) <= buffer_length
    BY <1>7
  <2> QED
    BY ONLY <1>6, <1>7, <2>1, CopiedIn
<1>9. Place(buffer_length, at, 1) = at
  BY <1>6 DEF Place, Places
<1>10. buffer' \in Buffers(buffer_length)
       /\ \A i \in Places(buffer_length) : i # at => buffer'[i] = buffer[i]
  <2>1. \A k \in 1 .. Len(<<b>>) : k = 1
    BY <1>7
  <2> QED
    BY <1>2, <1>4, <1>7, <1>8, <1>9, <2>1
<1>11. UNCHANGED qvars /\ UNCHANGED buffer_length
  BY <1>1, <1>3, <1>5, <1>10, Behind
<1>12. /\ lent_in' \in [at : Nat, size : Nat, used : Nat]
       /\ lent_in'.size = 0 /\ lent_in'.used = lent_in.used + 1
  BY <1>1
<1>13. TypeOK'
  BY <1>1, <1>3, <1>10, <1>12, Typed
<1>14. Loan'
  BY <1>1, <1>12 DEF Loan
<1> QED
  BY <1>11, <1>13, <1>14 DEF IInv

LEMMA GetWriteBufferKeeps ==
    ASSUME IInv, GetWriteBuffer
    PROVE  IInv' /\ [Queue!Next]_qvars
<1> USE Ranges, Told
<1> DEFINE at == (read_position' + data_length) % buffer_length
           size == IF at > read_position' \/ data_length = 0
                   THEN buffer_length - at ELSE read_position' - at
<1>1. /\ state = "OPEN" /\ lent_in = NoLoan
      /\ read_position' = IF data_length = 0 THEN 0 ELSE read_position
      /\ lent_in' = [at |-> at, size |-> size, used |-> 0]
      /\ UNCHANGED <<buffer, data_length, state, lent_out, posted, waits>>
  BY DEF GetWriteBuffer, event_vars
<1>2. read_position' \in 0 .. buffer_length - 1
  BY <1>1 DEF Places
<1>3. at = IF read_position' + data_length < buffer_length THEN read_position' + data_length
           ELSE read_position' + data_length - buffer_length
  BY <1>2, WrapOnce DEF Places
<1> HIDE DEF at
<1>4. /\ at \in Nat /\ size \in Nat /\ at + size <= buffer_length
      /\ size + data_length <= buffer_length
  BY <1>1, <1>2, <1>3
<1> HIDE DEF size
<1>5. contents' = contents /\ buffer_length' = buffer_length
  <2>1. CASE data_length = 0
    <3>1. Contents(buffer, 0, 0) = << >> /\ Contents(buffer, read_position, 0) = << >>
      BY DEF Contents
    <3> QED
      BY <1>1, <2>1, <3>1 DEF contents, buffer_length
  <2>2. CASE data_length # 0
    BY <1>1, <2>2 DEF contents, buffer_length
  <2> QED
    BY <2>1, <2>2
<1>6. TypeOK'
  <2>1. data_length' + lent_in'.used <= buffer_length
        /\ lent_in' \in [at : Nat, size : Nat, used : Nat]
    BY <1>1, <1>4
  <2>2. read_position' \in Places(buffer_length)
    BY <1>2 DEF Places
  <2> QED
    BY <1>1, <2>1, <2>2, Typed
<1>7. Loan'
  <2>1. at = (read_position' + data_length) % buffer_length
    BY DEF at
  <2>2. lent_in'.at = at /\ lent_in'.size = size /\ lent_in'.used = 0
    BY <1>1
  <2> QED
    BY <1>1, <1>4, <1>5, <2>1, <2>2 DEF Loan
<1> QED
  BY <1>1, <1>5, <1>6, <1>7 DEF IInv, qvars

LEMMA FillKeeps ==
    ASSUME IInv, Fill
    PROVE  IInv' /\ [Queue!Next]_qvars
<1> USE Ranges, Told
<1>1. /\ lent_in.used < lent_in.size
      /\ lent_in' = [lent_in EXCEPT !.used = lent_in.used + 1]
      /\ UNCHANGED <<data_length, read_position, state, lent_out, posted, waits>>
  BY DEF Fill, event_vars
<1>2. PICK b \in Byte : buffer' = [buffer EXCEPT ![lent_in.at + lent_in.used] = b]
  BY DEF Fill
<1>3. /\ lent_in.size > 0 /\ lent_in.at \in Nat /\ lent_in.used \in Nat /\ lent_in.size \in Nat
      /\ lent_in.at = (read_position + data_length) % buffer_length
      /\ lent_in.at + lent_in.size <= buffer_length
      /\ lent_in.size + data_length <= buffer_length
  BY <1>1 DEF IInv, Loan
<1>4. /\ data_length + lent_in.used < buffer_length
      /\ lent_in.at + lent_in.used \in Places(buffer_length)
  BY <1>1, <1>3 DEF Places
<1>5. lent_in.at + lent_in.used = Place(buffer_length, read_position, data_length + lent_in.used + 1)
  <2>1. lent_in.at = Place(buffer_length, read_position, data_length + 1)
    BY <1>3 DEF Place, Places
  <2>2. Place(buffer_length, lent_in.at, lent_in.used + 1) = lent_in.at + lent_in.used
    <3>1. \A x, y \in Nat : x + y < buffer_length => (x + ((y + 1) - 1)) % buffer_length = x + y
      OBVIOUS
    <3>2. lent_in.at + lent_in.used < buffer_length
      BY <1>4 DEF Places
    <3> QED
      BY <1>3, <3>1, <3>2 DEF Place
  <2>3. lent_in.used + 1 \in Nat \ {0} /\ data_length + ((lent_in.used + 1) - 1) <= buffer_length
    BY <1>3, <1>4
  <2>4. Place(buffer_length, Place(buffer_length, read_position, data_length + 1), lent_in.used + 1)
          = Place(buffer_length, read_position, data_length + (lent_in.used + 1))
    BY <2>3, GoOn
  <2> QED
    BY <1>3, <2>1, <2>2, <2>4
<1>6. buffer' \in Buffers(buffer_length)
      /\ \A i \in Places(buffer_length) :
             i # lent_in.at + lent_in.used => buffer'[i] = buffer[i]
  BY <1>2, <1>4 DEF Buffers, Places
<1>7. UNCHANGED qvars /\ UNCHANGED buffer_length
  BY <1>1, <1>3, <1>4, <1>5, <1>6, Behind
<1>8. /\ lent_in' \in [at : Nat, size : Nat, used : Nat]
      /\ lent_in'.at = lent_in.at /\ lent_in'.size = lent_in.size
      /\ lent_in'.used = lent_in.used + 1
  BY <1>1
<1>9. TypeOK'
  BY <1>1, <1>3, <1>4, <1>6, <1>8, Typed
<1>10. Loan'
  <2>1. lent_in # NoLoan
    BY <1>3 DEF NoLoan
  <2> QED
    BY <1>1, <1>3, <1>7, <1>8, <2>1 DEF IInv, Loan
<1> QED
  BY <1>7, <1>9, <1>10 DEF IInv

LEMMA ConsumeWriteBufferKeeps ==
    ASSUME IInv, ConsumeWriteBuffer
    PROVE  IInv' /\ [Queue!Next]_qvars
<1> USE Ranges, Told
<1> DEFINE u == lent_in.used
           s == Contents(buffer, Place(buffer_length, read_position, data_length + 1), u)
<1>1. /\ lent_in # NoLoan /\ data_length' = data_length + u /\ PostOnWrite(u)
      /\ lent_in' = NoLoan
      /\ UNCHANGED <<buffer, read_position, state, lent_out, waits>>
  BY DEF ConsumeWriteBuffer
<1>2. u \in 0 .. buffer_length /\ data_length + u <= buffer_length /\ state = "OPEN"
  BY <1>1 DEF IInv, Loan
<1> HIDE DEF u
<1>3. posted' \subseteq {"SE_READ", "SE_WRITE"}
  BY <1>1 DEF PostOnWrite
<1>4. lent_in' \in [at : Nat, size : Nat, used : Nat] /\ lent_in'.used = 0 /\ lent_in'.size = 0
  BY <1>1 DEF NoLoan
<1>5. TypeOK' /\ buffer_length' = buffer_length
  <2>1. /\ data_length' \in 0 .. buffer_length /\ data_length' + lent_in'.used <= buffer_length
        /\ lent_out' \in 0 .. data_length'
    BY <1>1, <1>2, <1>4
  <2> QED
    BY <1>1, <1>3, <1>4, <2>1, Typed
<1>6. Loan'
  BY <1>1, <1>4 DEF Loan
<1>7. CASE u = 0
  <2>1. contents' = contents
    BY <1>1, <1>7 DEF contents
  <2> QED
    BY <1>1, <1>5, <1>6, <2>1 DEF IInv, qvars
<1>8. CASE u # 0
  <2>1. /\ buffer_length \in Nat \ {0} /\ buffer \in Buffers(buffer_length)
        /\ read_position \in Places(buffer_length) /\ data_length \in 0 .. buffer_length
    OBVIOUS
  <2>2. Contents(buffer, read_position, data_length + u) = Contents(buffer, read_position, data_length) \o s
    BY ONLY <1>2, <2>1, HeldOn
  <2>3. Place(buffer_length, read_position, data_length + 1) \in Places(buffer_length)
    BY <2>1, PlaceIn
  <2>4. s \in Seq(Byte) /\ Len(s) = u
    BY ONLY <1>2, <2>1, <2>3, Held
  <2>5. contents' = contents \o s
    BY <1>1, <2>2 DEF contents
  <2> HIDE DEF s
  <2>6. Len(s) > 0 /\ data_length + Len(s) <= buffer_length /\ state' = state /\ state = "OPEN"
    BY <1>1, <1>2, <1>8, <2>4
  <2>7. Queue!Put
    BY ONLY IInv, <1>5, <2>4, <2>5, <2>6, Puts
  <2> QED
    BY <1>5, <1>6, <2>7 DEF IInv, Queue!Next
<1> QED
  BY <1>7, <1>8

LEMMA GetReadDataKeeps ==
    ASSUME IInv, GetReadData
    PROVE  IInv' /\ [Queue!Next]_qvars
<1> USE Ranges, Told
<1>1. /\ data_length > 0
      /\ lent_out' = IF read_position + data_length <= buffer_length
                     THEN data_length ELSE buffer_length - read_position
      /\ UNCHANGED <<buffer, data_length, read_position, state, lent_in, posted, waits>>
  BY DEF GetReadData, buffer_vars, event_vars
<1>2. UNCHANGED qvars /\ UNCHANGED buffer_length
  BY <1>1, Stutters DEF buffer_vars
<1>3. lent_out' \in 0 .. data_length
  BY <1>1 DEF Places
<1>4. TypeOK'
  BY <1>1, <1>3, Typed
<1>5. Loan'
  BY <1>1, <1>2 DEF IInv, Loan
<1> QED
  BY <1>2, <1>4, <1>5 DEF IInv

LEMMA ConsumeReadDataKeeps ==
    ASSUME IInv, ConsumeReadData
    PROVE  IInv' /\ [Queue!Next]_qvars
<1> USE Ranges, Told
<1>1. PICK k \in 0 .. lent_out :
          /\ read_position' = NextRead(k)
          /\ data_length' = data_length - k
          /\ PostOnRead(k)
  BY DEF ConsumeReadData
<1>2. lent_out' = 0 /\ UNCHANGED <<buffer, state, lent_in, waits>>
  BY DEF ConsumeReadData
<1>3. k \in 0 .. data_length
  OBVIOUS
<1>4. /\ NextRead(k) \in Places(buffer_length)
      /\ (NextRead(k) + (data_length - k)) % buffer_length
           = (read_position + data_length) % buffer_length
      /\ NextRead(0) = read_position
  BY <1>3, EndStays
<1>5. TypeOK' /\ buffer_length' = buffer_length
  <2>1. posted' \subseteq {"SE_READ", "SE_WRITE"}
    BY <1>1 DEF PostOnRead
  <2>2. data_length' + lent_in'.used <= buffer_length /\ data_length' \in 0 .. buffer_length
        /\ lent_out' \in 0 .. data_length'
    BY <1>1, <1>2, <1>3
  <2> QED
    BY <1>1, <1>2, <1>4, <2>1, <2>2, Typed
<1>6. Loan'
  <2>1. (read_position' + data_length') % buffer_length' = (read_position + data_length) % buffer_length
    BY <1>1, <1>4, <1>5
  <2>2. data_length' \in Int /\ data_length' <= data_length
    BY <1>1, <1>3
  <2> QED
    BY <1>2, <1>5, <2>1, <2>2 DEF IInv, Loan
<1>7. CASE k = 0
  <2>1. UNCHANGED buffer_vars
    BY <1>1, <1>2, <1>4, <1>7 DEF buffer_vars
  <2> QED
    BY <1>5, <1>6, <2>1, Stutters DEF IInv
<1>8. CASE k # 0
  <2>1. k \in 1 .. data_length
    BY <1>3, <1>8
  <2>2. Queue!Take
    BY <1>1, <1>2, <2>1, Takes
  <2> QED
    BY <1>5, <1>6, <2>2 DEF IInv, Queue!Next
<1> QED
  BY <1>7, <1>8

LEMMA SetCapacityKeeps ==
    ASSUME Sizes, IInv, SetCapacity
    PROVE  IInv' /\ [Queue!Next]_qvars
<1> USE Ranges, Told
<1>1. PICK size \in 1 .. MaxCapacity : size >= data_length /\ buffer' = Copied(size)
  BY DEF SetCapacity
<1>2. /\ lent_in = NoLoan /\ lent_out = 0 /\ read_position' = 0
      /\ UNCHANGED <<data_length, state, lent_in, lent_out, posted, waits>>
  BY DEF SetCapacity, loan_vars
<1>3. Len(contents) = data_length /\ \A i \in 1 .. data_length : contents[i] \in Byte
  <2>1. contents \in [1 .. data_length -> Byte] /\ Len(contents) = data_length
    BY Held DEF contents
  <2> QED
    BY <2>1
<1>4. buffer' \in Buffers(size)
      /\ \A i \in 0 .. size - 1 : i < data_length => buffer'[i] = contents[i + 1]
  <2>1. (CHOOSE b \in Byte : TRUE) \in Byte
    BY DEF Sizes
  <2>2. \A i \in 0 .. size - 1 : i < data_length => contents[i + 1] \in Byte
    BY <1>3
  <2> QED
    BY <1>1, <2>1, <2>2 DEF Copied, Buffers
<1>5. /\ size \in Nat \ {0} /\ data_length \in 0 .. size /\ 0 \in Places(size)
  BY <1>1 DEF Places
<1>6. TypeOK' /\ buffer_length' = size
  <2>1. data_length' + lent_in'.used <= size
    BY <1>2, <1>5 DEF NoLoan
  <2> QED
    BY <1>2, <1>4, <1>5, <2>1, Typed
<1>7. Loan'
  BY <1>2 DEF IInv, Loan, NoLoan
<1>8. contents' = contents
  <2>1. Contents(buffer', 0, data_length) = [i \in 1 .. data_length |-> buffer'[Place(size, 0, i)]]
    BY ONLY <1>4, <1>5, Held
  <2>2. contents = [i \in 1 .. data_length |-> contents[i]]
    <3>1. contents \in [1 .. data_length -> Byte]
      BY Held DEF contents
    <3> QED
      BY <3>1
  <2>3. ASSUME NEW i \in 1 .. data_length
        PROVE  buffer'[Place(size, 0, i)] = contents[i]
    <3>1. Place(size, 0, i) = i - 1
      BY <1>5 DEF Place
    <3>2. i - 1 \in 0 .. size - 1 /\ i - 1 < data_length /\ (i - 1) + 1 = i
      BY <1>5
    <3> QED
      BY <1>4, <3>1, <3>2
  <2>4. contents' = Contents(buffer', 0, data_length)
    BY <1>2 DEF contents
  <2> HIDE DEF Contents
  <2> QED
    BY <2>1, <2>2, <2>3, <2>4
<1>9. Queue!Resize
  <2>1. buffer_length' \in Len(contents) .. MaxCapacity
    BY <1>1, <1>3, <1>6 DEF Sizes
  <2> QED
    BY <1>2, <1>8, <2>1 DEF Queue!Resize
<1> QED
  BY <1>6, <1>7, <1>9 DEF IInv, Queue!Next

LEMMA CloseKeeps ==
    ASSUME IInv, Close
    PROVE  IInv' /\ [Queue!Next]_qvars
<1> USE Ranges, Told
<1>1. /\ lent_in = NoLoan /\ state' = "CLOSED"
      /\ UNCHANGED <<buffer, data_length, read_position, lent_in, lent_out, posted, waits>>
  BY DEF Close, loan_vars, event_vars
<1>2. contents' = contents /\ buffer_length' = buffer_length
  BY <1>1 DEF contents, buffer_length
<1>3. TypeOK'
  BY <1>1, Typed
<1>4. Loan'
  BY <1>1 DEF IInv, Loan, NoLoan
<1>5. Queue!Close
  BY <1>1, <1>2 DEF Queue!Close
<1> QED
  BY <1>3, <1>4, <1>5 DEF IInv, Queue!Next

LEMMA OthersKeep ==
    ASSUME IInv, OnMessage \/ UNCHANGED vars
    PROVE  IInv' /\ [Queue!Next]_qvars
<1> USE Ranges, Told
<1>1. /\ posted' \subseteq posted /\ waits' \subseteq waits
      /\ UNCHANGED <<buffer, data_length, read_position, state, lent_in, lent_out>>
  BY DEF OnMessage, vars, buffer_vars, loan_vars, event_vars
<1>2. UNCHANGED qvars /\ UNCHANGED buffer_length
  BY <1>1, Stutters DEF buffer_vars
<1>3. TypeOK'
  BY <1>1, Typed
<1>4. Loan'
  BY <1>1, <1>2 DEF IInv, Loan
<1> QED
  BY <1>2, <1>3, <1>4 DEF IInv

-----------------------------------------------------------------------------
(* The theorems.                                                           *)

LEMMA Starts ==
    ASSUME Sizes, Init
    PROVE  IInv /\ Queue!Init /\ BlockedIsTold
<1>1. /\ buffer = [i \in 0 .. MaxCapacity - 1 |-> CHOOSE b \in Byte : TRUE]
      /\ data_length = 0 /\ read_position = 0 /\ state = "OPEN"
      /\ lent_out = 0 /\ lent_in = NoLoan
      /\ posted = {} /\ waits = {}
  BY DEF Init
<1>2. (CHOOSE b \in Byte : TRUE) \in Byte
  BY DEF Sizes
<1>3. buffer \in Buffers(MaxCapacity)
  BY <1>1, <1>2 DEF Buffers
<1>4. buffer_length = MaxCapacity
  BY <1>3, Length DEF buffer_length, Sizes
<1>5. TypeOK
  BY <1>1, <1>3, <1>4 DEF TypeOK, Buffers, NoLoan, Sizes
<1>6. Loan
  BY <1>1 DEF Loan, NoLoan
<1>7. contents = << >>
  BY <1>1 DEF contents, Contents
<1>8. Queue!Init
  BY <1>1, <1>4, <1>7 DEF Queue!Init, Sizes
<1> QED
  BY <1>1, <1>5, <1>6, <1>8 DEF IInv, BlockedIsTold

LEMMA Keeps ==
    ASSUME Sizes, IInv, [Next]_vars
    PROVE  IInv' /\ [Queue!Next]_qvars
BY WriteKeeps, ReadKeeps, WriteOffsetKeeps, GetWriteBufferKeeps, FillKeeps,
   ConsumeWriteBufferKeeps, GetReadDataKeeps, ConsumeReadDataKeeps,
   SetCapacityKeeps, CloseKeeps, OthersKeep DEF Next

\* The positions stay in the ring, and what is lent out of it stays valid
\* while the other side reads or writes (FifoBuffer::GetReadData,
\* GetWriteBuffer and the calls in between).
THEOREM LoansHold == ASSUME Sizes PROVE Spec => []IInv
<1>1. Init => IInv
  BY Starts
<1>2. IInv /\ [Next]_vars => IInv'
  BY Keeps
<1> QED
  BY <1>1, <1>2, PTL DEF Spec

\* For every capacity, what is read is what was written, in order and once,
\* whatever wraps, is lent out, or is resized (stream.cc, FifoBuffer).
THEOREM FifoIsQueue == ASSUME Sizes PROVE Spec => IsQueue
<1>1. Init => Queue!Init
  BY Starts
<1>2. IInv /\ [Next]_vars => [Queue!Next]_qvars
  BY Keeps
<1>3. [Queue!Next]_qvars => [Queue!Next]_(Queue!vars)
  BY DEF qvars, Queue!vars
<1>4. Spec => []IInv
  BY LoansHold
<1> QED
  BY <1>1, <1>2, <1>3, <1>4, PTL DEF Spec, IsQueue, Queue!Spec

-----------------------------------------------------------------------------
(* What a step does to the length of the buffer: only SetCapacity changes  *)
(* it.                                                                     *)

LEMMA WriteLength ==
    ASSUME IInv, Write, ~WriteBlocks(0)
    PROVE  buffer_length' = buffer_length
<1>1. PICK m \in 1 .. MaxCapacity : \E bytes \in [1 .. m -> Byte] :
          buffer' = CopyIn(buffer, WriteAt(0), SubSeq(bytes, 1, WriteCopy(m, 0)))
  BY DEF Write
<1>2. DOMAIN buffer' = DOMAIN buffer
  BY <1>1 DEF CopyIn
<1> QED
  BY <1>2 DEF buffer_length

LEMMA LoanLength ==
    ASSUME WriteOffset \/ Fill
    PROVE  buffer_length' = buffer_length
<1>1. CASE WriteOffset
  <2>1. PICK b \in Byte : buffer' = CopyIn(buffer, WriteAt(lent_in.used),
                                          SubSeq(<<b>>, 1, WriteCopy(1, lent_in.used)))
    BY <1>1 DEF WriteOffset
  <2>2. DOMAIN buffer' = DOMAIN buffer
    BY <2>1 DEF CopyIn
  <2> QED
    BY <2>2 DEF buffer_length
<1>2. CASE Fill
  <2>1. DOMAIN buffer' = DOMAIN buffer
    BY <1>2 DEF Fill
  <2> QED
    BY <2>1 DEF buffer_length
<1> QED
  BY <1>1, <1>2

LEMMA CopiedLength ==
    ASSUME NEW size \in 1 .. MaxCapacity, buffer' = Copied(size)
    PROVE  buffer_length' = size
<1>1. DOMAIN buffer' = 0 .. size - 1
  BY DEF Copied
<1>2. Cardinality(0 .. size - 1) = size
  BY FS_Interval
<1> QED
  BY <1>1, <1>2 DEF buffer_length

-----------------------------------------------------------------------------
(* Who waits is told.                                                      *)

\* Less is held than there is room for after a read, which told a writer.
LEMMA ReaderTells ==
    ASSUME IInv, BlockedIsTold, NEW k \in 0 .. data_length, data_length' = data_length - k,
           buffer_length' = buffer_length, PostOnRead(k), waits' = waits, grown' = grown
    PROVE  BlockedIsTold'
<1>1. buffer_length \in Nat /\ data_length \in 0 .. buffer_length
  BY Ranges
<1>2. /\ posted' = IF data_length = buffer_length /\ k > 0
                   THEN posted \cup {"SE_WRITE"} ELSE posted
      /\ posted \subseteq posted'
  BY DEF PostOnRead
<1>3. "SE_READ" \in waits' /\ data_length' > 0 => "SE_READ" \in posted'
  BY <1>1, <1>2 DEF BlockedIsTold
<1>4. "SE_WRITE" \in waits' /\ data_length' < buffer_length' /\ ~grown' => "SE_WRITE" \in posted'
  <2>1. CASE data_length = buffer_length /\ k > 0
    BY <1>2, <2>1
  <2>2. CASE data_length # buffer_length \/ k = 0
    BY <1>1, <1>2, <2>2 DEF BlockedIsTold
  <2>3. k > 0 \/ k = 0
    OBVIOUS
  <2> QED
    BY <2>1, <2>2, <2>3
<1> QED
  BY <1>3, <1>4 DEF BlockedIsTold

\* And the other way round.
LEMMA WriterTells ==
    ASSUME IInv, BlockedIsTold, NEW k \in Nat, data_length' = data_length + k,
           buffer_length' = buffer_length, PostOnWrite(k), waits' = waits, grown' = grown
    PROVE  BlockedIsTold'
<1>1. buffer_length \in Nat /\ data_length \in 0 .. buffer_length
  BY Ranges
<1>2. /\ posted' = IF data_length = 0 /\ k > 0 THEN posted \cup {"SE_READ"} ELSE posted
      /\ posted \subseteq posted'
  BY DEF PostOnWrite
<1>3. "SE_READ" \in waits' /\ data_length' > 0 => "SE_READ" \in posted'
  <2>1. CASE data_length = 0 /\ k > 0
    BY <1>2, <2>1
  <2>2. CASE data_length # 0 \/ k = 0
    BY <1>1, <1>2, <2>2 DEF BlockedIsTold
  <2>3. k > 0 \/ k = 0
    OBVIOUS
  <2> QED
    BY <2>1, <2>2, <2>3
<1>4. "SE_WRITE" \in waits' /\ data_length' < buffer_length' /\ ~grown' => "SE_WRITE" \in posted'
  BY <1>1, <1>2 DEF BlockedIsTold
<1> QED
  BY <1>3, <1>4 DEF BlockedIsTold

LEMMA Tells ==
    ASSUME Sizes, IInv, BlockedIsTold, [Next]_vars
    PROVE  BlockedIsTold'
<1>0. /\ buffer_length \in Nat \ {0} /\ data_length \in 0 .. buffer_length
      /\ lent_out \in 0 .. data_length /\ lent_in.used \in Nat
  BY Ranges
<1>1. CASE Write
  <2>1. PICK m \in 1 .. MaxCapacity : \E bytes \in [1 .. m -> Byte] :
            IF WriteBlocks(0)
            THEN /\ waits' = waits \cup {"SE_WRITE"}
                 /\ UNCHANGED <<buffer_vars, posted>>
            ELSE LET copy == WriteCopy(m, 0)
                 IN  /\ data_length' = data_length + copy
                     /\ PostOnWrite(copy)
                     /\ UNCHANGED <<read_position, state, waits>>
    BY <1>1 DEF Write
  <2>2. grown' = grown
    BY <1>1 DEF Write
  <2>3. CASE WriteBlocks(0)
    <3>1. /\ waits' = waits \cup {"SE_WRITE"} /\ data_length' = data_length
          /\ buffer_length' = buffer_length /\ posted' = posted
      BY <2>1, <2>3 DEF buffer_vars, buffer_length
    <3>2. data_length >= buffer_length
      BY <1>0, <2>3 DEF WriteBlocks
    <3>3. "SE_READ" \in waits' => "SE_READ" \in waits
      BY <3>1
    <3> QED
      BY <1>0, <3>1, <3>2, <3>3 DEF BlockedIsTold
  <2>4. CASE ~WriteBlocks(0)
    <3> DEFINE k == WriteCopy(m, 0)
    <3>1. k \in Nat
      <4>1. k = IF m <= buffer_length - data_length - 0 THEN m ELSE buffer_length - data_length - 0
        BY <1>0, MinOfTwo DEF WriteCopy
      <4> QED
        BY <1>0, <4>1
    <3>2. data_length' = data_length + k /\ PostOnWrite(k) /\ waits' = waits
      BY <2>1, <2>4
    <3>3. buffer_length' = buffer_length
      BY <1>1, <2>4, WriteLength
    <3> HIDE DEF k
    <3> QED
      BY <2>2, <3>1, <3>2, <3>3, WriterTells
  <2> QED
    BY <2>3, <2>4
<1>2. CASE Read
  <2>1. PICK m \in 1 .. MaxCapacity :
            IF data_length = 0
            THEN /\ waits' = IF state = "CLOSED" THEN waits ELSE waits \cup {"SE_READ"}
                 /\ UNCHANGED <<buffer_vars, posted>>
            ELSE LET copy == Min({m, data_length})
                 IN  /\ data_length' = data_length - copy
                     /\ PostOnRead(copy)
                     /\ UNCHANGED <<buffer, state, waits>>
    BY <1>2 DEF Read
  <2>2. grown' = grown
    BY <1>2 DEF Read
  <2>3. CASE data_length = 0
    <3>1. /\ waits' \subseteq waits \cup {"SE_READ"} /\ data_length' = data_length
          /\ buffer_length' = buffer_length /\ posted' = posted
      BY <2>1, <2>3 DEF buffer_vars, buffer_length
    <3>2. "SE_WRITE" \in waits' => "SE_WRITE" \in waits
      BY <3>1
    <3> QED
      BY <2>2, <2>3, <3>1, <3>2 DEF BlockedIsTold
  <2>4. CASE data_length # 0
    <3> DEFINE k == Min({m, data_length})
    <3>1. k \in 0 .. data_length
      BY <1>0, <2>4, MinOfTwo
    <3>2. data_length' = data_length - k /\ PostOnRead(k) /\ waits' = waits /\ buffer' = buffer
      BY <2>1, <2>4
    <3>3. buffer_length' = buffer_length
      BY <3>2 DEF buffer_length
    <3> HIDE DEF k
    <3> QED
      BY <2>2, <3>1, <3>2, <3>3, ReaderTells
  <2> QED
    BY <2>3, <2>4
<1>3. CASE ConsumeWriteBuffer
  <2>1. /\ data_length' = data_length + lent_in.used /\ PostOnWrite(lent_in.used)
        /\ waits' = waits /\ grown' = grown /\ buffer' = buffer
    BY <1>3 DEF ConsumeWriteBuffer
  <2>2. buffer_length' = buffer_length
    BY <2>1 DEF buffer_length
  <2> QED
    BY <1>0, <2>1, <2>2, WriterTells
<1>4. CASE ConsumeReadData
  <2>1. PICK k \in 0 .. lent_out : data_length' = data_length - k /\ PostOnRead(k)
    BY <1>4 DEF ConsumeReadData
  <2>2. waits' = waits /\ grown' = grown /\ buffer' = buffer
    BY <1>4 DEF ConsumeReadData
  <2>3. k \in 0 .. data_length /\ buffer_length' = buffer_length
    BY <1>0, <2>2 DEF buffer_length
  <2> QED
    BY <2>1, <2>2, <2>3, ReaderTells
<1>5. CASE SetCapacity
  <2>1. PICK size \in 1 .. MaxCapacity :
            /\ size >= data_length /\ buffer' = Copied(size)
            /\ grown' = (grown \/ ("SE_WRITE" \in waits /\ size > buffer_length))
            /\ size # buffer_length
    BY <1>5 DEF SetCapacity
  <2>2. data_length' = data_length /\ waits' = waits /\ posted' = posted
    BY <1>5 DEF SetCapacity
  <2>3. buffer_length' = size
    BY <2>1, CopiedLength
  <2>4. "SE_READ" \in waits' /\ data_length' > 0 => "SE_READ" \in posted'
    BY <2>2 DEF BlockedIsTold
  <2>5. ASSUME "SE_WRITE" \in waits, data_length < size, ~grown'
        PROVE  "SE_WRITE" \in posted
    <3>1. ~grown /\ ~(size > buffer_length)
      BY <2>1, <2>5
    <3>2. data_length < buffer_length
      BY <1>0, <2>5, <3>1
    <3> QED
      BY <2>5, <3>1, <3>2 DEF BlockedIsTold
  <2> QED
    BY <2>2, <2>3, <2>4, <2>5 DEF BlockedIsTold
<1>6. CASE OnMessage
  <2>1. PICK e \in posted : posted' = posted \ {e} /\ waits' = waits \ {e}
    BY <1>6 DEF OnMessage
  <2>2. data_length' = data_length /\ buffer_length' = buffer_length /\ grown' = grown
    BY <1>6 DEF OnMessage, buffer_vars, buffer_length
  <2> QED
    BY <2>1, <2>2 DEF BlockedIsTold
<1>7. CASE WriteOffset \/ Fill
  <2>1. data_length' = data_length /\ posted' = posted /\ waits' = waits /\ grown' = grown
    BY <1>7 DEF WriteOffset, Fill, event_vars
  <2>2. buffer_length' = buffer_length
    BY <1>7, LoanLength
  <2> QED
    BY <2>1, <2>2 DEF BlockedIsTold
<1>8. CASE GetWriteBuffer \/ GetReadData \/ Close \/ UNCHANGED vars
  <2>1. data_length' = data_length /\ buffer' = buffer /\ posted' = posted /\ waits' = waits
        /\ grown' = grown
    BY <1>8 DEF GetWriteBuffer, GetReadData, Close, vars, buffer_vars, event_vars
  <2>2. buffer_length' = buffer_length
    BY <2>1 DEF buffer_length
  <2> QED
    BY <2>1, <2>2 DEF BlockedIsTold
<1> QED
  BY <1>1, <1>2, <1>3, <1>4, <1>5, <1>6, <1>7, <1>8 DEF Next

\* A reader or a writer that met SR_BLOCK and could go on has an event on its
\* way, but for the writer SetCapacity made room for (stream.h, SR_BLOCK).
THEOREM BlockedTold == ASSUME Sizes PROVE Spec => []BlockedIsTold
<1>1. Init => BlockedIsTold
  BY Starts
<1>2. IInv /\ BlockedIsTold /\ [Next]_vars => BlockedIsTold'
  BY Tells
<1>3. Spec => []IInv
  BY LoansHold
<1> QED
  BY <1>1, <1>2, <1>3, PTL DEF Spec
=============================================================================
