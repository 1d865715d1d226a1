------------------------------ MODULE ByteQueue ------------------------------
(***************************************************************************)
(* What a FifoBuffer promises (talk/base/stream.h): a queue of bytes with  *)
(* a capacity, which a writer appends to and a reader takes from, until it *)
(* is closed; what it holds then can still be read.                        *)
(***************************************************************************)
EXTENDS Naturals, Sequences

CONSTANTS
    Byte,
    MaxCapacity     \* bound: how far it can be resized

VARIABLES
    bytes,          \* what is buffered
    capacity,
    closed

vars == <<bytes, capacity, closed>>

Init == bytes = <<>> /\ capacity \in 1 .. MaxCapacity /\ closed = FALSE

Put ==
    /\ ~closed
    /\ \E n \in 1 .. capacity - Len(bytes) : \E s \in [1 .. n -> Byte] :
           bytes' = bytes \o s
    /\ UNCHANGED <<capacity, closed>>

Take ==
    /\ \E n \in 1 .. Len(bytes) : bytes' = SubSeq(bytes, n + 1, Len(bytes))
    /\ UNCHANGED <<capacity, closed>>

Resize ==
    /\ capacity' \in Len(bytes) .. MaxCapacity
    /\ UNCHANGED <<bytes, closed>>

Close == closed' = TRUE /\ UNCHANGED <<bytes, capacity>>

Next == Put \/ Take \/ Resize \/ Close

Spec == Init /\ [][Next]_vars
=============================================================================
