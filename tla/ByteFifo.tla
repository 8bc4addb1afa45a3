------------------------------ MODULE ByteFifo ------------------------------
(***************************************************************************)
(* What a receive buffer promises its two users, the network thread that   *)
(* writes and the application that reads: a first-in first-out queue of at *)
(* most Capacity bytes.  A read takes the oldest bytes, a write appends.   *)
(* RingBuffer implements this specification.                               *)
(***************************************************************************)
EXTENDS Integers, Sequences

CONSTANTS Byte,       \* the values a byte of the stream may have
          Capacity,   \* the most bytes the queue holds
          MaxChunk    \* the longest transfer a caller asks for

VARIABLES queue,      \* the bytes written and not yet read, oldest first
          out         \* the bytes the last read delivered

vars == <<queue, out>>

Smaller(a, b) == IF a < b THEN a ELSE b

Init == /\ queue = << >>
        /\ out = << >>

Put(d) == /\ Len(queue) + Len(d) <= Capacity
          /\ queue' = queue \o d
          /\ UNCHANGED out

Get(n) == LET len == Smaller(n, Len(queue))
          IN /\ queue' = SubSeq(queue, len + 1, Len(queue))
             /\ out' = SubSeq(queue, 1, len)

Next == \/ \E k \in 1..MaxChunk : \E d \in [1..k -> Byte] : Put(d)
        \/ \E n \in 0..MaxChunk : Get(n)

Spec == Init /\ [][Next]_vars
=============================================================================
