-------------------------- MODULE RingBufferProofs --------------------------
(***************************************************************************)
(* Proofs about RingBuffer, for every capacity, every set of byte values   *)
(* and every chunk size.                                                   *)
(***************************************************************************)
EXTENDS RingBuffer, SequenceTheorems, TLAPS

(***************************************************************************)
(* The array of a ring has one slot more than its capacity.                *)
(***************************************************************************)
LEMMA SizeType == size \in Nat /\ size > 0 /\ size = Capacity + 1 /\ Capacity \in Nat
  BY CapacityAssumption DEF size

(***************************************************************************)
(* The remainder of a number below two array lengths is at most one        *)
(* subtraction; every index the ring computes is such a number.            *)
(***************************************************************************)
LEMMA WrapOnce ==
  ASSUME NEW x \in 0..(2 * size - 1)
  PROVE  x % size = IF x < size THEN x ELSE x - size
  BY SizeType

(***************************************************************************)
(* The number of bytes, and the bytes, of a ring with head h, tail t and   *)
(* array b.                                                                *)
(***************************************************************************)
Distance(h, t) == (t - h + size) % size

Content(h, t, b) == [i \in 1..Distance(h, t) |-> b[(h + i - 1) % size]]

(***************************************************************************)
(* The value of ring_buffer_used without its remainder, and where the      *)
(* bytes of a ring lie in its array.                                       *)
(***************************************************************************)
LEMMA RingContent ==
  ASSUME NEW h \in 0..(size - 1), NEW t \in 0..(size - 1),
         NEW b \in [0..(size - 1) -> Byte]
  PROVE  /\ Distance(h, t) = IF t >= h THEN t - h ELSE t - h + size
         /\ Distance(h, t) \in 0..Capacity
         /\ Content(h, t, b) \in Seq(Byte)
         /\ Len(Content(h, t, b)) = Distance(h, t)
         /\ \A i \in 1..Distance(h, t) :
              Content(h, t, b)[i] = b[IF h + i - 1 < size THEN h + i - 1
                                                          ELSE h + i - 1 - size]
<1> DEFINE u == Distance(h, t)
           q == Content(h, t, b)
<1>0. /\ u = (t - h + size) % size
      /\ q = [i \in 1..u |-> b[(h + i - 1) % size]]
  BY DEF Distance, Content
<1> HIDE DEF u, q
<1>1. u = IF t >= h THEN t - h ELSE t - h + size
  <2> DEFINE x == t - h + size
  <2>1. x = t - h + size /\ x \in 0..(2 * size - 1)
    BY SizeType
  <2>2. u = x % size
    BY <1>0
  <2> HIDE DEF x
  <2>3. u = IF x < size THEN x ELSE x - size
    BY <2>1, <2>2, WrapOnce
  <2> QED
    BY <2>1, <2>3, SizeType
<1>2. u \in 0..Capacity
  BY <1>1, SizeType
<1>3. \A i \in 1..u :
         (h + i - 1) % size = IF h + i - 1 < size THEN h + i - 1
                                                  ELSE h + i - 1 - size
  <2>1. TAKE i \in 1..u
  <2> DEFINE x == h + i - 1
  <2>2. i \in Int /\ x = h + i - 1 /\ x \in 0..(2 * size - 1)
    BY <1>2, SizeType
  <2> HIDE DEF x
  <2>3. x % size = IF x < size THEN x ELSE x - size
    BY <2>2, WrapOnce
  <2> QED
    BY <2>2, <2>3, SizeType
<1>4. \A i \in 1..u : (h + i - 1) % size \in 0..(size - 1)
  BY <1>2, <1>3, SizeType
<1>5. u \in Nat /\ q \in [1..u -> Byte]
  BY <1>0, <1>2, <1>4, SizeType
<1>6. q \in Seq(Byte)
  BY <1>5, SeqDef
<1>7. Len(q) = u
  BY <1>5, <1>6, LenProperties
<1>8. \A i \in 1..u : q[i] = b[IF h + i - 1 < size THEN h + i - 1
                                                    ELSE h + i - 1 - size]
  BY <1>0, <1>3
<1> QED
  BY <1>1, <1>2, <1>6, <1>7, <1>8 DEF u, q

(***************************************************************************)
(* The queue of the ring is its content.                                   *)
(***************************************************************************)
LEMMA QueueContent == Used = Distance(head, tail) /\ Queue = Content(head, tail, buf)
  BY DEF Used, Queue, Distance, Content

(***************************************************************************)
(* A chunk of bytes is a sequence of bytes.                                *)
(***************************************************************************)
LEMMA ChunkType ==
  ASSUME NEW k \in Nat, NEW d \in [1..k -> Byte]
  PROVE  d \in Seq(Byte) /\ Len(d) = k
<1>1. d \in Seq(Byte)
  BY SeqDef
<1> QED
  BY <1>1, LenProperties

(***************************************************************************)
(* A read takes the first bytes of the queue and keeps the others          *)
(* (read_ring_buffer).                                                     *)
(***************************************************************************)
LEMMA ReadStep ==
  ASSUME TypeOK, NEW n \in 0..MaxChunk, read_ring_buffer(n)
  PROVE  TypeOK' /\ Fifo!Get(n)
<1> DEFINE len == Smaller(Used, n)
<1>1. /\ head \in 0..(size - 1) /\ tail \in 0..(size - 1)
      /\ buf \in [0..(size - 1) -> Byte]
      /\ n \in Nat
  BY MaxChunkAssumption DEF TypeOK
<1>2. /\ Used = IF tail >= head THEN tail - head ELSE tail - head + size
      /\ Used \in 0..Capacity
      /\ Queue \in Seq(Byte)
      /\ Len(Queue) = Used
      /\ \A i \in 1..Used :
           Queue[i] = buf[IF head + i - 1 < size THEN head + i - 1
                                                 ELSE head + i - 1 - size]
  <2>1. Used = Distance(head, tail) /\ Queue = Content(head, tail, buf)
    BY QueueContent
  <2> QED
    BY ONLY <2>1, <1>1, RingContent
<1>3. len \in 0..Used
  BY <1>1, <1>2, SizeType DEF Smaller
<1> HIDE DEF len
<1>4. head' = IF head + len < size THEN head + len ELSE head + len - size
  <2> DEFINE x == head + len
  <2>1. x = head + len /\ x \in 0..(2 * size - 1)
    BY <1>1, <1>2, <1>3, SizeType
  <2>2. head' = x % size
    BY DEF read_ring_buffer, len
  <2> HIDE DEF x
  <2>3. head' = IF x < size THEN x ELSE x - size
    BY <2>1, <2>2, WrapOnce
  <2> QED
    BY <2>1, <2>3, <1>1, <1>2, <1>3, SizeType
<1>5. tail' = tail /\ buf' = buf /\ head' \in 0..(size - 1)
  <2>1. tail' = tail /\ buf' = buf
    BY DEF read_ring_buffer
  <2> QED
    BY <2>1, <1>1, <1>2, <1>3, <1>4, SizeType
<1>6. out' = CopiedOut(len)
  BY DEF read_ring_buffer, len
<1>7. \A i \in 1..len : CopiedOut(len)[i] = Queue[i]
  <2>1. TAKE i \in 1..len
  <2>2. i \in 1..Used /\ i \in Int
    BY <1>2, <1>3, SizeType
  <2>3. Queue[i] = buf[IF head + i - 1 < size THEN head + i - 1
                                              ELSE head + i - 1 - size]
    BY <2>2, <1>2
  <2>4. CopiedOut(len)[i] = IF i <= size - head THEN buf[head + i - 1]
                                                ELSE buf[i - (size - head) - 1]
    BY <2>1 DEF CopiedOut
  <2>5. (i <= size - head) <=> (head + i - 1 < size)
    BY <2>2, <1>1, SizeType
  <2>6. i - (size - head) - 1 = head + i - 1 - size
    BY <2>2, <1>1, SizeType
  <2> QED
    BY <2>3, <2>4, <2>5, <2>6
<1>8. CopiedOut(len) \in Seq(Byte) /\ Len(CopiedOut(len)) = len
  <2>1. len \in Nat /\ \A i \in 1..len : Queue[i] \in Byte
    BY <1>2, <1>3, SizeType, LenProperties
  <2>2. CopiedOut(len) \in [1..len -> Byte]
    BY <1>7, <2>1 DEF CopiedOut
  <2> QED
    BY <2>1, <2>2, ChunkType
<1>9. TypeOK'
  BY <1>1, <1>5, <1>6, <1>8 DEF TypeOK
<1>10. /\ Used' = IF tail' >= head' THEN tail' - head' ELSE tail' - head' + size
       /\ Queue' \in Seq(Byte)
       /\ Len(Queue') = Used'
       /\ \A i \in 1..Used' :
            Queue'[i] = buf'[IF head' + i - 1 < size THEN head' + i - 1
                                                     ELSE head' + i - 1 - size]
  <2>1. Used' = Distance(head', tail') /\ Queue' = Content(head', tail', buf')
    BY QueueContent DEF Used, Queue, Distance, Content, size
  <2> QED
    BY ONLY <2>1, <1>1, <1>5, RingContent
<1>11. Used' = Used - len
  BY <1>10, <1>1, <1>2, <1>3, <1>4, <1>5, SizeType
<1>12. Queue' = SubSeq(Queue, len + 1, Len(Queue))
  <2> DEFINE rest == SubSeq(Queue, len + 1, Len(Queue))
  <2>1. len + 1 \in 1..(Len(Queue) + 1) /\ Len(Queue) \in len..Len(Queue) /\ Used \in Int /\ len \in Int
    BY <1>2, <1>3, SizeType
  <2>2. /\ rest \in Seq(Byte)
        /\ Len(rest) = Used - len
        /\ \A i \in 1..(Used - len) : rest[i] = Queue[len + i]
    BY <2>1, <1>2, SubSeqProperties
  <2> HIDE DEF rest
  <2>3. \A i \in 1..(Used - len) : Queue'[i] = rest[i]
    <3>1. TAKE i \in 1..(Used - len)
    <3>2. i \in 1..Used' /\ len + i \in 1..Used /\ i \in Int
      BY <3>1, <2>1, <1>3, <1>11
    <3>3. Queue'[i] = buf[IF head' + i - 1 < size THEN head' + i - 1
                                                  ELSE head' + i - 1 - size]
      BY <3>2, <1>10, <1>5
    <3>4. Queue[len + i] = buf[IF head + (len + i) - 1 < size THEN head + (len + i) - 1
                                                 ELSE head + (len + i) - 1 - size]
      BY <3>2, <1>2
    <3>5. (IF head' + i - 1 < size THEN head' + i - 1 ELSE head' + i - 1 - size)
          = (IF head + (len + i) - 1 < size THEN head + (len + i) - 1
                                            ELSE head + (len + i) - 1 - size)
      BY <3>2, <2>1, <1>1, <1>2, <1>3, <1>4, SizeType
    <3> QED
      BY <3>1, <3>3, <3>4, <3>5, <2>2
  <2>4. Len(Queue') = Len(rest) /\ \A i \in 1..Len(Queue') : Queue'[i] = rest[i]
    BY <2>2, <2>3, <1>10, <1>11
  <2>5. Queue' = rest
    BY <2>2, <2>4, <1>10, SeqEqual
  <2> QED
    BY <2>5 DEF rest
<1>13. out' = SubSeq(Queue, 1, len)
  <2> DEFINE first == SubSeq(Queue, 1, len)
  <2>1. /\ first \in Seq(Byte)
        /\ Len(first) = len
        /\ \A i \in 1..len : first[i] = Queue[i]
    BY <1>2, <1>3, SizeType, SubSeqProperties
  <2> HIDE DEF first
  <2>2. Len(out') = Len(first) /\ \A i \in 1..Len(out') : out'[i] = first[i]
    BY <2>1, <1>6, <1>7, <1>8
  <2>3. out' = first
    BY <2>1, <2>2, <1>6, <1>8, SeqEqual
  <2> QED
    BY <2>3 DEF first
<1>14. Fifo!Get(n)
  BY <1>2, <1>12, <1>13 DEF Fifo!Get, len, Smaller, Fifo!Smaller
<1> QED
  BY <1>9, <1>14

(***************************************************************************)
(* Moving the tail on by k, with room for k, makes the distance to it from *)
(* the head grow by k, whether the tail passes the end of the array or not.*)
(***************************************************************************)
LEMMA DistanceGrows ==
  ASSUME NEW N \in Nat, NEW h \in 0..(N - 1), NEW t \in 0..(N - 1), NEW k \in Nat,
         NEW u, u = IF t >= h THEN t - h ELSE t - h + N, u + k < N,
         NEW v, v = IF t + k < N THEN t + k ELSE t + k - N
  PROVE  (IF v >= h THEN v - h ELSE v - h + N) = u + k
<1>1. CASE t + k < N
  BY <1>1
<1>2. CASE ~(t + k < N)
  <2>1. t >= h => u = t - h /\ v = t + k - N /\ v < h
    BY <1>2
  <2>2. t < h => FALSE
    BY <1>2
  <2> QED
    BY <2>1, <2>2
<1> QED
  BY <1>1, <1>2

(***************************************************************************)
(* A write appends its bytes to the queue and leaves every byte already    *)
(* there in place, when the caller has made room (write_ring_buffer).      *)
(***************************************************************************)
LEMMA WriteStep ==
  ASSUME TypeOK, NEW k \in 1..MaxChunk, NEW d \in [1..k -> Byte],
         write_ring_buffer(d)
  PROVE  TypeOK' /\ Fifo!Put(d)
<1>1. /\ head \in 0..(size - 1) /\ tail \in 0..(size - 1)
      /\ buf \in [0..(size - 1) -> Byte]
      /\ k \in Nat /\ k > 0
      /\ d \in Seq(Byte) /\ Len(d) = k
  BY MaxChunkAssumption, ChunkType DEF TypeOK
<1>2. /\ Used = IF tail >= head THEN tail - head ELSE tail - head + size
      /\ Used \in 0..Capacity
      /\ Queue \in Seq(Byte)
      /\ Len(Queue) = Used
      /\ \A i \in 1..Used :
           Queue[i] = buf[IF head + i - 1 < size THEN head + i - 1
                                                 ELSE head + i - 1 - size]
  <2>1. Used = Distance(head, tail) /\ Queue = Content(head, tail, buf)
    BY QueueContent
  <2> QED
    BY ONLY <2>1, <1>1, RingContent
<1>3. Used + k <= Capacity
  BY <1>1, <1>2, SizeType DEF write_ring_buffer, Free
<1>4. tail' = IF tail + k < size THEN tail + k ELSE tail + k - size
  <2> DEFINE x == tail + k
  <2>1. x = tail + k /\ x \in 0..(2 * size - 1)
    BY <1>1, <1>2, <1>3, SizeType
  <2>2. tail' = x % size
    BY <1>1 DEF write_ring_buffer
  <2> HIDE DEF x
  <2>3. tail' = IF x < size THEN x ELSE x - size
    BY <2>1, <2>2, WrapOnce
  <2> QED
    BY <2>1, <2>3, <1>1, SizeType
<1>5. head' = head /\ out' = out /\ buf' = CopiedIn(d) /\ tail' \in 0..(size - 1)
  <2>1. head' = head /\ out' = out /\ buf' = CopiedIn(d)
    BY DEF write_ring_buffer
  <2> QED
    BY <2>1, <1>1, <1>2, <1>3, <1>4, SizeType
<1>6. \A p \in 0..(size - 1) :
         buf'[p] = IF p >= tail /\ p - tail < k THEN d[p - tail + 1]
                   ELSE IF p < k - (size - tail) THEN d[(size - tail) + p + 1]
                   ELSE buf[p]
  BY <1>1, <1>5 DEF CopiedIn
<1>7. buf' \in [0..(size - 1) -> Byte]
  <2>1. \A p \in 0..(size - 1) : buf'[p] \in Byte
    <3>1. TAKE p \in 0..(size - 1)
    <3>2. p \in Int /\ tail \in Int /\ size \in Int /\ k \in Int
      BY <1>1, SizeType
    <3>3. \A i \in 1..k : d[i] \in Byte
      OBVIOUS
    <3>4. CASE p >= tail /\ p - tail < k
      <4>1. p - tail + 1 \in 1..k
        BY <3>2, <3>4
      <4> QED
        BY <3>1, <3>3, <3>4, <4>1, <1>6
    <3>5. CASE ~(p >= tail /\ p - tail < k) /\ p < k - (size - tail)
      <4>1. (size - tail) + p + 1 \in 1..k
        BY <3>1, <3>2, <3>5, <1>1
      <4> QED
        BY <3>1, <3>3, <3>5, <4>1, <1>6
    <3>6. CASE ~(p >= tail /\ p - tail < k) /\ ~(p < k - (size - tail))
      BY <3>1, <3>6, <1>1, <1>6
    <3> QED
      BY <3>4, <3>5, <3>6
  <2>2. DOMAIN buf' = 0..(size - 1)
    BY <1>5 DEF CopiedIn
  <2>3. buf' = [p \in 0..(size - 1) |-> buf'[p]]
    BY <1>5, <2>2 DEF CopiedIn
  <2> QED
    BY <2>1, <2>3
<1>8. TypeOK'
  BY <1>1, <1>5, <1>7 DEF TypeOK, size
<1>9. /\ Used' = IF tail' >= head' THEN tail' - head' ELSE tail' - head' + size
      /\ Queue' \in Seq(Byte)
      /\ Len(Queue') = Used'
      /\ \A i \in 1..Used' :
           Queue'[i] = buf'[IF head' + i - 1 < size THEN head' + i - 1
                                                    ELSE head' + i - 1 - size]
  <2>1. Used' = Distance(head', tail') /\ Queue' = Content(head', tail', buf')
    BY QueueContent DEF Used, Queue, Distance, Content, size
  <2>2. head' \in 0..(size - 1)
    BY <1>1, <1>5
  <2> QED
    BY ONLY <2>1, <2>2, <1>5, <1>7, RingContent
<1>10. Used' = Used + k
  <2>1. Used + k < size
    BY <1>1, <1>2, <1>3, SizeType
  <2>2. (IF tail' >= head THEN tail' - head ELSE tail' - head + size) = Used + k
    BY ONLY <1>1, <1>2, <1>4, <2>1, SizeType, DistanceGrows
  <2> QED
    BY ONLY <1>5, <1>9, <2>2
<1>11. Queue' = Queue \o d
  <2>1. /\ Queue \o d \in Seq(Byte)
        /\ Len(Queue \o d) = Used + k
        /\ \A i \in 1..(Used + k) :
             (Queue \o d)[i] = IF i <= Used THEN Queue[i] ELSE d[i - Used]
    <3> DEFINE q == Queue
    <3>1. q \in Seq(Byte) /\ Len(q) = Used
      BY <1>2
    <3> HIDE DEF q
    <3>2. /\ q \o d \in Seq(Byte)
          /\ Len(q \o d) = Used + k
          /\ \A i \in 1..(Used + k) :
               (q \o d)[i] = IF i <= Used THEN q[i] ELSE d[i - Used]
      BY <3>1, <1>1, ConcatProperties
    <3> QED
      BY <3>2 DEF q
  <2>2. \A i \in 1..(Used + k) : Queue'[i] = (Queue \o d)[i]
    <3>1. TAKE i \in 1..(Used + k)
    <3> DEFINE p == IF head + i - 1 < size THEN head + i - 1 ELSE head + i - 1 - size
    <3>2. i \in 1..Used' /\ i \in Int /\ Used \in Int /\ size \in Int
      BY <3>1, <1>1, <1>2, <1>10, SizeType
    <3>3. p \in 0..(size - 1)
      BY <3>1, <3>2, <1>1, <1>2, <1>3, SizeType
    <3>4. Queue'[i] = buf'[p]
      BY <3>2, <1>5, <1>9
    <3>5. CASE i <= Used
      <4>1. ~(p >= tail /\ p - tail < k) /\ ~(p < k - (size - tail))
        BY <3>1, <3>2, <3>5, <1>1, <1>2, <1>3, SizeType
      <4>2. buf'[p] = buf[p]
        BY <4>1, <3>3, <1>6
      <4>3. Queue[i] = buf[p]
        BY <3>1, <3>2, <3>5, <1>2
      <4> QED
        BY <4>2, <4>3, <3>1, <3>4, <3>5, <2>1
    <3>6. CASE ~(i <= Used)
      <4>1. buf'[p] = d[i - Used]
        <5>1. CASE p >= tail /\ p - tail < k
          <6>1. p - tail + 1 = i - Used
            BY <3>1, <3>2, <3>6, <5>1, <1>1, <1>2, <1>3, SizeType
          <6> QED
            BY <5>1, <6>1, <3>3, <1>6
        <5>2. CASE ~(p >= tail /\ p - tail < k)
          <6>1. p < k - (size - tail) /\ (size - tail) + p + 1 = i - Used
            BY <3>1, <3>2, <3>6, <5>2, <1>1, <1>2, <1>3, SizeType
          <6> QED
            BY <5>2, <6>1, <3>3, <1>6
        <5> QED
          BY <5>1, <5>2
      <4> QED
        BY <4>1, <3>1, <3>2, <3>4, <3>6, <2>1
    <3> QED
      BY <3>5, <3>6
  <2>3. Len(Queue') = Len(Queue \o d) /\ \A i \in 1..Len(Queue') : Queue'[i] = (Queue \o d)[i]
    BY <2>1, <2>2, <1>9, <1>10
  <2> QED
    BY <2>1, <2>3, <1>9, SeqEqual
<1>12. Fifo!Put(d)
  BY <1>1, <1>2, <1>3, <1>5, <1>11 DEF Fifo!Put
<1> QED
  BY <1>8, <1>12

(***************************************************************************)
(* A fresh ring is well typed and stands for the empty queue.              *)
(***************************************************************************)
LEMMA InitStep ==
  ASSUME Init
  PROVE  TypeOK /\ Fifo!Init
<1>1. /\ head = 0 /\ tail = 0 /\ out = << >>
      /\ buf \in [0..(size - 1) -> Byte]
  BY DEF Init
<1>2. head \in 0..(size - 1) /\ tail \in 0..(size - 1)
  BY <1>1, SizeType
<1>3. TypeOK
  BY <1>1, <1>2, EmptySeq DEF TypeOK
<1>4. Used = Distance(head, tail) /\ Queue = Content(head, tail, buf)
  BY QueueContent
<1>5. Queue \in Seq(Byte) /\ Len(Queue) = 0
  BY <1>1, <1>2, <1>4, RingContent, SizeType
<1>6. Queue = << >>
  BY <1>5, EmptySeq
<1> QED
  BY <1>1, <1>3, <1>6 DEF Fifo!Init

(***************************************************************************)
(* Every step of the ring keeps the indices inside the array and is a step *)
(* of the bounded queue, or changes nothing the queue shows.               *)
(***************************************************************************)
LEMMA RingStep ==
  ASSUME TypeOK, [Next]_vars
  PROVE  TypeOK' /\ [Fifo!Next]_(Fifo!vars)
<1>1. CASE \E k \in 1..MaxChunk : \E d \in [1..k -> Byte] : write_ring_buffer(d)
  <2>1. PICK k \in 1..MaxChunk : \E d \in [1..k -> Byte] : write_ring_buffer(d)
    BY <1>1
  <2>2. PICK d \in [1..k -> Byte] : write_ring_buffer(d)
    BY <2>1
  <2>3. TypeOK' /\ Fifo!Put(d)
    BY <2>2, WriteStep
  <2> QED
    BY <2>3 DEF Fifo!Next
<1>2. CASE \E n \in 0..MaxChunk : read_ring_buffer(n)
  <2>1. PICK n \in 0..MaxChunk : read_ring_buffer(n)
    BY <1>2
  <2>2. TypeOK' /\ Fifo!Get(n)
    BY <2>1, ReadStep
  <2> QED
    BY <2>2 DEF Fifo!Next
<1>3. CASE UNCHANGED vars
  <2>1. Queue' = Queue /\ out' = out
    BY <1>3 DEF vars, Queue, Used, size
  <2>2. TypeOK'
    BY <1>3 DEF vars, TypeOK, size
  <2> QED
    BY <2>1, <2>2 DEF Fifo!vars
<1> QED
  BY <1>1, <1>2, <1>3 DEF Next

(***************************************************************************)
(* The indices of the ring stay inside its array, whatever is read and     *)
(* written (ring_buffer.h: head and tail are taken modulo size).           *)
(***************************************************************************)
THEOREM RingTypeCorrect == Spec => []TypeOK
<1>1. Init => TypeOK
  BY InitStep
<1>2. TypeOK /\ [Next]_vars => TypeOK'
  BY RingStep
<1> QED
  BY <1>1, <1>2, PTL DEF Spec

(***************************************************************************)
(* The ring implements a first-in first-out queue of Capacity bytes, for   *)
(* every capacity: no byte is lost, repeated or overwritten before it is   *)
(* read, at whatever offset the two memcpy calls split a transfer.         *)
(***************************************************************************)
THEOREM RingImplementsFifo == Spec => ImplementsFifo
<1>1. Init => Fifo!Init
  BY InitStep
<1>2. TypeOK /\ [Next]_vars => [Fifo!Next]_(Fifo!vars)
  BY RingStep
<1>3. Spec => []TypeOK
  BY RingTypeCorrect
<1> QED
  BY <1>1, <1>2, <1>3, PTL DEF Spec, ImplementsFifo, Fifo!Spec
=============================================================================
