----------------------------- MODULE RingBuffer -----------------------------
(***************************************************************************)
(* The byte ring every TCP sock receives into (include/ring_buffer.h).     *)
(* head and tail are array indices; one slot of the array is never used,   *)
(* so that head = tail means empty and never full.  Both operations run    *)
(* under wait_recv->lock (handle_recv_data and tcp_sock_read), so each is  *)
(* one step.  A transfer that passes the end of the array is made of two   *)
(* memcpy calls, here the two branches of CopiedOut and CopiedIn.          *)
(***************************************************************************)
EXTENDS Integers, Sequences

CONSTANTS Byte,       \* the values a byte of the stream may have
          Capacity,   \* the argument of alloc_ring_buffer
          MaxChunk    \* the longest transfer a caller asks for

ASSUME CapacityAssumption == Capacity \in Nat
ASSUME MaxChunkAssumption == MaxChunk \in Nat

VARIABLES head,       \* the next byte is read from here
          tail,       \* the next byte is written here
          buf,        \* the array
          out         \* the bytes the last read copied to its caller

vars == <<head, tail, buf, out>>

size == Capacity + 1

Used == (tail - head + size) % size
Free == size - Used - 1

Smaller(a, b) == IF a < b THEN a ELSE b

(***************************************************************************)
(* alloc_ring_buffer: calloc'ed memory, here any one byte value everywhere *)
(***************************************************************************)
Init == /\ head = 0
        /\ tail = 0
        /\ \E z \in Byte : buf = [p \in 0..(size - 1) |-> z]
        /\ out = << >>

(***************************************************************************)
(* The len bytes from head, the right part up to the end of the array and  *)
(* the left part from its start.                                           *)
(***************************************************************************)
\* Mutated CopiedOut: bytes past the end of the array all come from slot 0.
ReadWithoutWrap(len) == [i \in 1..len |-> IF head + i - 1 < size THEN buf[head + i - 1] ELSE buf[0]]

CopiedOut(len) ==
  LET right == size - head
  IN [i \in 1..len |-> IF i <= right THEN buf[head + i - 1]
                                     ELSE buf[i - right - 1]]

read_ring_buffer(n) ==
  LET len == Smaller(Used, n)
  IN /\ out' = CopiedOut(len)
     /\ head' = (head + len) % size
     /\ UNCHANGED <<tail, buf>>

(***************************************************************************)
(* The array after the bytes of d are stored from tail on, wrapping once.  *)
(***************************************************************************)
CopiedIn(d) ==
  LET right == size - tail
  IN [p \in 0..(size - 1) |->
        IF p >= tail /\ p - tail < Len(d) THEN d[p - tail + 1]
        ELSE IF p < Len(d) - right THEN d[right + p + 1]
        ELSE buf[p]]

\* Mutated write_ring_buffer: the tail runs past the end of the array.
WriteNoWrap(d) ==
  /\ Len(d) > 0 /\ Free >= Len(d)
  /\ buf' = CopiedIn(d)
  /\ tail' = IF tail + Len(d) > size THEN tail + Len(d) - size ELSE tail + Len(d)
  /\ UNCHANGED <<head, out>>

write_ring_buffer(d) ==
  /\ Len(d) > 0 /\ Free >= Len(d)            \* the assert on entry
  /\ buf' = CopiedIn(d)
  /\ tail' = (tail + Len(d)) % size
  /\ UNCHANGED <<head, out>>

Next == \/ \E k \in 1..MaxChunk : \E d \in [1..k -> Byte] : write_ring_buffer(d)
        \/ \E n \in 0..MaxChunk : read_ring_buffer(n)

Spec == Init /\ [][Next]_vars

-----------------------------------------------------------------------------
TypeOK == /\ head \in 0..(size - 1)
          /\ tail \in 0..(size - 1)
          /\ buf \in [0..(size - 1) -> Byte]
          /\ out \in Seq(Byte)

(***************************************************************************)
(* The bytes between head and tail, in the order they were written: what   *)
(* the ring means to its users, and the refinement mapping to ByteFifo.    *)
(***************************************************************************)
Queue == [i \in 1..Used |-> buf[(head + i - 1) % size]]

Fifo == INSTANCE ByteFifo WITH queue <- Queue

(***************************************************************************)
(* The ring is a bounded queue: whatever the two indices are and wherever  *)
(* a transfer wraps, reads return exactly the bytes written, in order,     *)
(* none twice and none lost (read_ring_buffer and write_ring_buffer).      *)
(***************************************************************************)
ImplementsFifo == Fifo!Spec
=============================================================================
