----------------------------- MODULE Ownership -----------------------------
(***************************************************************************)
(* The smart pointers of talk/base: linked_ptr, whose owners are a ring,   *)
(* scoped_refptr, whose object counts them, and scoped_ptr, which is alone *)
(* (linked_ptr.h, scoped_ref_ptr.h, scoped_ptr.h).  One of the three is    *)
(* specified at a time.                                                    *)
(*                                                                         *)
(* Objects hold pointers themselves, so deleting an object destroys the    *)
(* pointers inside of it, which may delete more, in the middle of an       *)
(* assignment.  A step is one access of the code, and todo what the calls  *)
(* under way have left to do.                                              *)
(***************************************************************************)
EXTENDS Integers, Sequences, FiniteSets

CONSTANTS
    Object,     \* what is pointed to
    Pointer,    \* the pointers
    Home        \* [Pointer -> the object it is inside of, or "nothing"]

VARIABLES
    kind,       \* linked_ptr, scoped_refptr or scoped_ptr
    ptr,        \* itsPtr, ptr_, ptr
    prev, next, \* itsPrev and itsNext, "nothing" once taken out of a ring
    count,      \* references the object has counted
    object,     \* unborn, live, dying or dead
    gone,       \* pointers that were destroyed
    todo,       \* what is left of the calls under way
    fault       \* what is gone was used

vars == <<kind, ptr, prev, next, count, object, gone, todo, fault>>

Nothing == "nothing"
Kind    == {"linked_ptr", "scoped_refptr", "scoped_ptr"}

Init ==
    /\ kind \in Kind
    /\ ptr = [p \in Pointer |-> Nothing]
    /\ prev = [p \in Pointer |-> p] /\ next = [p \in Pointer |-> p]
    /\ count = [o \in Object |-> 0] /\ object = [o \in Object |-> "unborn"]
    /\ gone = {} /\ todo = <<>> /\ fault = FALSE

-----------------------------------------------------------------------------
\* A pointer is there while the object is that it is inside of.
There(p) == p \notin gone /\ (Home[p] # Nothing => object[Home[p]] \in {"live", "dying"})
Idle     == todo = <<>> /\ ~fault
Usable   == {p \in Pointer : There(p)}
Members(o) == {p \in Pointer : Home[p] = o}

\* What the calls do, a step each.
Do(op, p, x) == [op |-> op, p |-> p, x |-> x]
Delete(o)    == IF o = Nothing THEN <<>> ELSE <<Do("delete", Nothing, o)>>
InOrder(s)   == CHOOSE f \in [1 .. Cardinality(s) -> s] : \A x \in s : \E i \in DOMAIN f : f[i] = x

Unique(p) == prev[p] \in {p, Nothing}

\* linked_ptr::release, in two steps when it deletes: itsPtr is cleared last.
Release(p) == <<Do("release", p, Nothing)>>
\* scoped_refptr::operator=: AddRef is done, the old reference is given up, and
\* only then the pointer is set.
Replace(p, o) == (IF ptr[p] = Nothing THEN <<>> ELSE <<Do("unref", p, ptr[p])>>)
                     \o <<Do("set", p, o)>>
AddRef(o) == IF o = Nothing THEN count ELSE [count EXCEPT ![o] = @ + 1]

\* scoped_ptr::reset: the pointer is set first.
Reset(p, o) ==
    IF ptr[p] = o THEN UNCHANGED <<ptr, todo>>
    ELSE ptr' = [ptr EXCEPT ![p] = o] /\ todo' = Delete(ptr[p])

\* p takes an object, from a plain pointer that is used for this once.
Take(p, o) ==
    CASE kind = "linked_ptr" ->
            todo' = Release(p) \o <<Do("alone", p, o)>> /\ UNCHANGED <<ptr, count>>
      [] kind = "scoped_refptr" ->
            count' = AddRef(o) /\ todo' = Replace(p, o) /\ UNCHANGED ptr
      [] OTHER -> Reset(p, o) /\ UNCHANGED count

New(p, o) ==
    /\ Idle /\ p \in Usable /\ object[o] = "unborn"
    /\ object' = [object EXCEPT ![o] = "live"]
    /\ IF kind = "scoped_refptr"
       THEN count' = [count EXCEPT ![o] = 1] /\ todo' = Replace(p, o) /\ UNCHANGED ptr
       ELSE Take(p, o)
    /\ UNCHANGED <<kind, prev, next, gone, fault>>

Drop(p) ==
    /\ Idle /\ p \in Usable
    /\ Take(p, Nothing)
    /\ UNCHANGED <<kind, prev, next, object, gone, fault>>

\* p = q, and p.reset(q.release()) where a pointer cannot be copied.
Assign(p, q) ==
    /\ Idle /\ {p, q} \subseteq Usable /\ p # q
    /\ CASE kind = "linked_ptr" ->
               todo' = Release(p) \o <<Do("acquire", p, q)>> /\ UNCHANGED <<ptr, count>>
         [] kind = "scoped_refptr" ->
               count' = AddRef(ptr[q]) /\ todo' = Replace(p, ptr[q]) /\ UNCHANGED ptr
         [] OTHER ->
               /\ ptr' = [ptr EXCEPT ![q] = Nothing, ![p] = ptr[q]]
               /\ todo' = Delete(ptr[p]) /\ UNCHANGED count
    /\ UNCHANGED <<kind, prev, next, object, gone, fault>>

Swap(p, q) ==
    /\ Idle /\ {p, q} \subseteq Usable /\ kind # "linked_ptr"
    /\ ptr' = [ptr EXCEPT ![p] = ptr[q], ![q] = ptr[p]]
    /\ UNCHANGED <<kind, prev, next, count, object, gone, todo, fault>>

-----------------------------------------------------------------------------
\* The steps of the calls.  t is the next of them, rest what follows.
DeleteStep(t, rest) ==
    IF object[t.x] # "live" THEN fault' = TRUE /\ UNCHANGED <<object, todo>>
    ELSE /\ object' = [object EXCEPT ![t.x] = "dying"]
         /\ todo' = [i \in 1 .. Cardinality(Members(t.x)) |->
                        Do("destroy", InOrder(Members(t.x))[i], Nothing)]
                      \o <<Do("free", Nothing, t.x)>> \o rest
         /\ UNCHANGED fault

\* The destructors of the pointers.
DestroyStep(t, rest) ==
    /\ gone' = gone \union {t.p}
    /\ todo' = (CASE kind = "linked_ptr" -> Release(t.p)
                  [] kind = "scoped_refptr" ->
                        IF ptr[t.p] = Nothing THEN <<>> ELSE <<Do("unref", t.p, ptr[t.p])>>
                  [] OTHER -> Delete(ptr[t.p])) \o rest

ReleaseStep(t, rest) ==
    IF Unique(t.p)
    THEN /\ todo' = Delete(ptr[t.p]) \o <<Do("clear", t.p, Nothing)>> \o rest
         /\ UNCHANGED <<ptr, prev, next>>
    ELSE /\ LET n == next[t.p]  b == prev[t.p] IN
            /\ next' = [next EXCEPT ![b] = n, ![t.p] = Nothing]
            /\ prev' = [prev EXCEPT ![n] = b, ![t.p] = Nothing]
         /\ ptr' = [ptr EXCEPT ![t.p] = Nothing] /\ todo' = rest

\* acquire: into the ring behind q.
AcquireStep(t, rest) ==
    IF ~There(t.x) \/ ~There(t.p) THEN fault' = TRUE /\ UNCHANGED <<ptr, prev, next, todo>>
    ELSE /\ next' = [next EXCEPT ![t.p] = next[t.x], ![t.x] = t.p]
         /\ prev' = [[prev EXCEPT ![t.p] = t.x] EXCEPT ![next[t.x]] = t.p]
         /\ ptr' = [ptr EXCEPT ![t.p] = ptr[t.x]]
         /\ todo' = rest /\ UNCHANGED fault

\* The object that is given up counts itself, and deletes itself.
UnrefStep(t, rest) ==
    IF object[t.x] # "live" THEN fault' = TRUE /\ UNCHANGED <<count, todo>>
    ELSE /\ count' = [count EXCEPT ![t.x] = @ - 1]
         /\ todo' = (IF count[t.x] = 1 THEN Delete(t.x) ELSE <<>>) \o rest
         /\ UNCHANGED fault

\* itsPtr and ptr_ are written last.
SetStep(t, rest) ==
    IF t.op # "clear" /\ ~There(t.p) THEN fault' = TRUE /\ UNCHANGED <<ptr, prev, next, todo>>
    ELSE /\ ptr' = [ptr EXCEPT ![t.p] = t.x]
         /\ IF t.op = "alone"
            THEN prev' = [prev EXCEPT ![t.p] = t.p] /\ next' = [next EXCEPT ![t.p] = t.p]
            ELSE UNCHANGED <<prev, next>>
         /\ todo' = rest /\ UNCHANGED fault

Step ==
    /\ todo # <<>> /\ ~fault
    /\ LET t == Head(todo)  rest == Tail(todo) IN
       \/ t.op = "delete" /\ DeleteStep(t, rest) /\ UNCHANGED <<ptr, prev, next, count, gone>>
       \/ t.op = "destroy" /\ DestroyStep(t, rest)
              /\ UNCHANGED <<ptr, prev, next, count, object, fault>>
       \/ t.op = "free" /\ object' = [object EXCEPT ![t.x] = "dead"] /\ todo' = rest
              /\ UNCHANGED <<ptr, prev, next, count, gone, fault>>
       \/ t.op = "release" /\ ReleaseStep(t, rest)
              /\ UNCHANGED <<count, object, gone, fault>>
       \/ t.op = "acquire" /\ AcquireStep(t, rest) /\ UNCHANGED <<count, object, gone>>
       \/ t.op = "unref" /\ UnrefStep(t, rest) /\ UNCHANGED <<ptr, prev, next, object, gone>>
       \/ t.op \in {"clear", "alone", "set"} /\ SetStep(t, rest)
              /\ UNCHANGED <<count, object, gone>>
    /\ UNCHANGED kind

Next ==
    \/ \E p \in Pointer : Drop(p) \/ \E o \in Object : New(p, o)
    \/ \E p, q \in Pointer : Assign(p, q) \/ Swap(p, q)
    \/ Step

Spec == Init /\ [][Next]_vars

-----------------------------------------------------------------------------

TypeOK ==
    /\ kind \in Kind /\ ptr \in [Pointer -> Object \union {Nothing}]
    /\ prev \in [Pointer -> Pointer \union {Nothing}]
    /\ next \in [Pointer -> Pointer \union {Nothing}]
    /\ count \in [Object -> Int]
    /\ object \in [Object -> {"unborn", "live", "dying", "dead"}]
    /\ gone \subseteq Pointer /\ fault \in BOOLEAN

Owners(o) == {p \in Usable : ptr[p] = o}

\* Between calls an object is there exactly while a pointer has it, an object
\* that counts has counted its owners, and the ring of an owner is the owners.
Owned ==
    Idle => \A o \in Object :
        /\ object[o] = "live" <=> Owners(o) # {}
        /\ kind = "scoped_refptr" /\ object[o] = "live" => count[o] = Cardinality(Owners(o))
        /\ kind = "scoped_ptr" => Cardinality(Owners(o)) <= 1
        /\ kind = "linked_ptr" => \A p \in Owners(o) :
               /\ next[p] \in Owners(o) /\ prev[next[p]] = p
               /\ \A s \in SUBSET Owners(o) :
                      p \in s /\ (\A x \in s : next[x] \in s) => s = Owners(o)

\* An object that is inside of itself, by way of others.
Held(o) == {ptr[p] : p \in Members(o)} \ {Nothing}
Cyclic  == \E s \in SUBSET Object : s # {} /\ \A o \in s : \E x \in s : o \in Held(x)

\* A scoped_ptr is safe whatever its object does when it is deleted: it lets go
\* of it first.  The others let go last: a scoped_refptr uses what is gone only
\* when objects own each other in a circle, and a linked_ptr also when what is
\* assigned is inside of the object that is released by this.
NothingGoneUsed ==
    fault => \/ kind = "scoped_refptr" /\ Cyclic
             \/ kind = "linked_ptr"
                  /\ (Cyclic \/ (Head(todo).op = "acquire" /\ Head(todo).x \in gone))
=============================================================================
