-------------------------- MODULE TcpStreamProofs --------------------------
(***************************************************************************)
(* Proofs about TcpStream, for all initial numbers, capacities, payload    *)
(* and read sizes, limits and links, ordered or not.  A connection is to   *)
(* carry less than half the sequence space in each direction (2^31 bytes): *)
(* the code keeps no timestamps, so a segment delayed by half the space    *)
(* would be taken for a new one.  The last part is about the window and    *)
(* the room in the ring, over ordered links when one end writes nothing.   *)
(***************************************************************************)
EXTENDS TcpStream, SequenceTheorems, NaturalsInduction, WellFoundedInduction, TLAPS

ShortStreams == \A e \in Endpoint : ToSend[e] + Capacity < SeqSpace \div 2

(***************************************************************************)
(* The number of byte k + 1 of e's stream, if it is short.                 *)
(***************************************************************************)
Num(e, k) == Plus(ISS[e], 1 + k)

Half == SeqSpace \div 2

-----------------------------------------------------------------------------
(***************************************************************************)
(* Arithmetic modulo the sequence space, by cases on the one wrap.         *)
(***************************************************************************)
LEMMA SpaceIsTwoHalves == Half \in Nat \ {0} /\ SeqSpace = 2 * Half /\ SeqSpace \in Nat \ {0}
  BY SeqSpaceAssumption DEF Half

LEMMA Wrapped ==
  ASSUME NEW x \in 0..(2 * SeqSpace - 1)
  PROVE  x % SeqSpace = IF x < SeqSpace THEN x ELSE x - SeqSpace
  BY SpaceIsTwoHalves

LEMMA WrappedBelow ==
  ASSUME NEW x \in -(SeqSpace - 1)..(SeqSpace - 1)
  PROVE  x % SeqSpace = IF x >= 0 THEN x ELSE x + SeqSpace
  BY SpaceIsTwoHalves

(***************************************************************************)
(* Numbers of short streams are added and compared like the offsets.       *)
(***************************************************************************)
LEMMA NumType ==
  ASSUME NEW e \in Endpoint, NEW a \in 0..(Half - 1)
  PROVE  /\ Num(e, a) \in SeqNum
         /\ ISS[e] \in SeqNum
         /\ Num(e, a) = IF ISS[e] + 1 + a < SeqSpace THEN ISS[e] + 1 + a
                                                     ELSE ISS[e] + 1 + a - SeqSpace
<1>1. ISS[e] \in 0..(SeqSpace - 1)
  BY StreamAssumption DEF SeqNum
<1>2. PICK x : x = ISS[e] + (1 + a)
  OBVIOUS
<1>3. x \in 0..(2 * SeqSpace - 1)
  BY <1>1, <1>2, SpaceIsTwoHalves
<1>4. Num(e, a) = x % SeqSpace
  BY <1>2 DEF Num, Plus
<1>5. Num(e, a) = IF x < SeqSpace THEN x ELSE x - SeqSpace
  BY <1>3, <1>4, Wrapped
<1> QED
  BY <1>1, <1>2, <1>3, <1>5, SpaceIsTwoHalves DEF SeqNum

LEMMA NumPlus ==
  ASSUME NEW e \in Endpoint, NEW a \in Nat, NEW n \in Nat, a + n < Half
  PROVE  Plus(Num(e, a), n) = Num(e, a + n)
<1>1. a \in 0..(Half - 1) /\ a + n \in 0..(Half - 1)
  BY SpaceIsTwoHalves
<1>2. PICK i, x, y : i = ISS[e] /\ x = Num(e, a) /\ y = Num(e, a + n)
  OBVIOUS
<1>3. /\ i \in 0..(SeqSpace - 1)
      /\ x \in 0..(SeqSpace - 1)
      /\ x = IF i + 1 + a < SeqSpace THEN i + 1 + a ELSE i + 1 + a - SeqSpace
  BY <1>1, <1>2, NumType DEF SeqNum
<1>4. y = IF i + 1 + (a + n) < SeqSpace THEN i + 1 + (a + n)
                                        ELSE i + 1 + (a + n) - SeqSpace
  BY <1>1, <1>2, NumType
<1>5. PICK z : z = x + n
  OBVIOUS
<1>6. z \in 0..(2 * SeqSpace - 1)
  BY <1>3, <1>5, SpaceIsTwoHalves
<1>7. z % SeqSpace = IF z < SeqSpace THEN z ELSE z - SeqSpace
  BY <1>6, Wrapped
<1>8. z % SeqSpace = y
  BY <1>1, <1>3, <1>4, <1>5, <1>7, SpaceIsTwoHalves
<1> QED
  BY <1>2, <1>5, <1>8 DEF Plus

LEMMA NumDiff ==
  ASSUME NEW e \in Endpoint, NEW a \in Nat, NEW b \in Nat, a < Half, b < Half
  PROVE  Diff(Num(e, a), Num(e, b)) = a - b
<1>1. a \in 0..(Half - 1) /\ b \in 0..(Half - 1)
  BY SpaceIsTwoHalves
<1>2. PICK i, x, y : i = ISS[e] /\ x = Num(e, a) /\ y = Num(e, b)
  OBVIOUS
<1>3. /\ i \in 0..(SeqSpace - 1)
      /\ x \in 0..(SeqSpace - 1)
      /\ x = IF i + 1 + a < SeqSpace THEN i + 1 + a ELSE i + 1 + a - SeqSpace
  BY <1>1, <1>2, NumType DEF SeqNum
<1>4. /\ y \in 0..(SeqSpace - 1)
      /\ y = IF i + 1 + b < SeqSpace THEN i + 1 + b ELSE i + 1 + b - SeqSpace
  BY <1>1, <1>2, NumType DEF SeqNum
<1>5. PICK d : d = (x - y) % SeqSpace
  OBVIOUS
<1>6. x - y \in -(SeqSpace - 1)..(SeqSpace - 1)
  BY <1>3, <1>4, SpaceIsTwoHalves
<1>7. d = IF x - y >= 0 THEN x - y ELSE x - y + SeqSpace
  BY <1>5, <1>6, WrappedBelow
<1>8. a - b = IF d < Half THEN d ELSE d - SeqSpace
  BY <1>1, <1>3, <1>4, <1>7, SpaceIsTwoHalves
<1>9. Diff(x, y) = IF d < Half THEN d ELSE d - SeqSpace
  BY <1>5 DEF Diff, Half
<1> QED
  BY <1>2, <1>8, <1>9

LEMMA NumCompare ==
  ASSUME NEW e \in Endpoint, NEW a \in Nat, NEW b \in Nat, a < Half, b < Half
  PROVE  /\ less_than_32b(Num(e, a), Num(e, b)) <=> a < b
         /\ less_or_equal_32b(Num(e, a), Num(e, b)) <=> a <= b
         /\ greater_than_32b(Num(e, a), Num(e, b)) <=> a > b
         /\ greater_or_equal_32b(Num(e, a), Num(e, b)) <=> a >= b
         /\ Num(e, a) = Num(e, b) => a = b
<1>1. Diff(Num(e, a), Num(e, b)) = a - b /\ Diff(Num(e, b), Num(e, b)) = b - b
  BY NumDiff
<1> QED
  BY <1>1 DEF less_than_32b, less_or_equal_32b, greater_than_32b, greater_or_equal_32b

LEMMA Peers ==
  ASSUME NEW e \in Endpoint
  PROVE  /\ Peer(e) \in Endpoint /\ Peer(e) # e /\ Peer(Peer(e)) = e
         /\ \A x \in Endpoint : x = e \/ x = Peer(e)
<1>1. PICK c, s \in Endpoint : c # s /\ Endpoint = {c, s}
  BY StreamAssumption
<1>2. \E p \in Endpoint : p # e
  BY <1>1
<1>3. Peer(e) \in Endpoint /\ Peer(e) # e
  BY <1>2 DEF Peer
<1>4. \E p \in Endpoint : p # Peer(e)
  BY <1>1
<1>5. Peer(Peer(e)) \in Endpoint /\ Peer(Peer(e)) # Peer(e)
  BY <1>4 DEF Peer
<1> QED
  BY <1>1, <1>3, <1>5

-----------------------------------------------------------------------------
(***************************************************************************)
(* The type of a sock.                                                     *)
(***************************************************************************)
Buffered == [seg : Segments, times : Nat]

Early == [seq : SeqNum, data : Seq(Nat)]

Sock == [state : {"ESTABLISHED", "CLOSED", "ABORTED"},
         snd_una : SeqNum, snd_nxt : SeqNum, snd_wnd : 1..Capacity,
         send_buf : Seq(Buffered), timer : BOOLEAN,
         rcv_nxt : SeqNum, rcv_wnd : 1..Capacity,
         rcv_buf : Seq(Nat), ofo : Seq(Early), chunk : Nat]

(***************************************************************************)
(* The bytes of a stream after the first a ones.                           *)
(***************************************************************************)
Runs(data, a) == \A i \in 1..Len(data) : data[i] = a + i

(***************************************************************************)
(* The numbers and bytes of a stretch of e's stream, of which n bytes are  *)
(* written; and a segment of e, when e has received r bytes of its peer.   *)
(***************************************************************************)
Stretch(e, seq, data, n) ==
  \E a \in 0..n : /\ seq = Num(e, a)
                  /\ a + Len(data) <= n
                  /\ Runs(data, a)

Acks(e, ack, r) == \E k \in 0..r : ack = Num(e, k)

SegmentOf(e, seg, n, r) ==
  Stretch(e, seg.seq, seg.data, n) /\ Acks(Peer(e), seg.ack, r)

(***************************************************************************)
(* The receiving half of e's sock s, when e's application has read g bytes *)
(* and its peer has sent n.  The ring holds the bytes after the ones read, *)
(* rcv_nxt counts both, and early segments are stretches of the stream.    *)
(***************************************************************************)
ReceiverOK(e, s, g, n) ==
  /\ Len(s.rcv_buf) <= Capacity
  /\ g + Len(s.rcv_buf) <= n
  /\ Runs(s.rcv_buf, g)
  /\ s.state # "ABORTED" => s.rcv_nxt = Num(Peer(e), g + Len(s.rcv_buf))
  /\ \A i \in 1..Len(s.ofo) : Stretch(Peer(e), s.ofo[i].seq, s.ofo[i].data, n)

(***************************************************************************)
(* The sending half, when e has sent n bytes and its peer received r.      *)
(***************************************************************************)
Covers(s) ==
  LET b == s.send_buf
      n == Len(b)
  IN /\ n = 0 => s.snd_una = s.snd_nxt
     /\ n > 0 => /\ less_or_equal_32b(b[1].seg.seq, s.snd_una)
                 /\ less_than_32b(s.snd_una, SeqEnd(b[1].seg))
                 /\ SeqEnd(b[n].seg) = s.snd_nxt
     /\ \A i \in 1..(n - 1) : SeqEnd(b[i].seg) = b[i + 1].seg.seq

SenderOK(e, s, n, r) ==
  /\ s.snd_nxt = Num(e, n) /\ n + s.chunk <= ToSend[e]
  /\ Acks(e, s.snd_una, r)
  /\ \A i \in 1..Len(s.send_buf) :
       Stretch(e, s.send_buf[i].seg.seq, s.send_buf[i].seg.data, n)
  /\ s.state = "ESTABLISHED" => Covers(s)

Received(e) == Len(got[e]) + Len(sk[e].rcv_buf)

Typing == /\ sk \in [Endpoint -> Sock]
          /\ net \in [Endpoint -> Seq(Segments)]
          /\ wrote \in [Endpoint -> Nat]
          /\ got \in [Endpoint -> Seq(Nat)]

IInv == /\ ShortStreams
        /\ Typing
        /\ \A e \in Endpoint : Len(net[e]) <= MaxNet
        /\ \A e \in Endpoint : ReceiverOK(e, sk[e], Len(got[e]), wrote[Peer(e)])
        /\ \A e \in Endpoint : SenderOK(e, sk[e], wrote[e], Received(Peer(e)))
        /\ \A e \in Endpoint : \A i \in 1..Len(net[e]) :
             SegmentOf(Peer(e), net[e][i], wrote[Peer(e)], Received(Peer(e)))

-----------------------------------------------------------------------------
(***************************************************************************)
(* Sequences.                                                              *)
(***************************************************************************)
LEMMA LeastNatural ==
  ASSUME NEW T, T \subseteq Nat, T # {}
  PROVE  \E m \in T : \A n \in T : m <= n
<1>1. PICK m \in T : \A n \in T : ~(<<n, m>> \in OpToRel(<, Nat))
  BY NatLessThanWellFounded, WFMin
<1>2. \A n \in T : ~(n < m)
  BY <1>1 DEF OpToRel
<1> QED
  BY <1>2

(***************************************************************************)
(* The index SelectInSeq finds, 0 if there is none.                        *)
(***************************************************************************)
LEMMA FirstFacts ==
  ASSUME NEW J, J \subseteq Nat \ {0}, NEW m, m = IF J # {} THEN Min(J) ELSE 0
  PROVE  /\ m = 0 => J = {}
         /\ m # 0 => m \in J /\ \A i \in J : m <= i
<1>1. CASE J # {}
  <2>1. PICK l \in J : \A i \in J : l <= i
    BY <1>1, LeastNatural
  <2>2. m = CHOOSE x \in J : \A y \in J : x <= y
    BY <1>1 DEF Min
  <2>3. m \in J /\ \A i \in J : m <= i
    BY <2>1, <2>2
  <2> QED
    BY <2>3
<1> QED
  BY <1>1

(***************************************************************************)
(* Two sequences, one after the other.                                     *)
(***************************************************************************)
LEMMA Joined ==
  ASSUME NEW S, NEW a \in Seq(S), NEW b \in Seq(S), NEW c, c = a \o b,
         NEW m, m = Len(a), NEW n, n = Len(b)
  PROVE  /\ c \in Seq(S) /\ Len(c) = m + n /\ m \in Nat /\ n \in Nat
         /\ \A k \in 1..m : c[k] = a[k]
         /\ \A k \in 1..n : c[m + k] = b[k]
         /\ \A k \in 1..(m + n) : c[k] = IF k <= m THEN a[k] ELSE b[k - m]
<1>1. /\ a \o b \in Seq(S) /\ Len(a \o b) = Len(a) + Len(b)
      /\ \A k \in 1..(Len(a) + Len(b)) :
           (a \o b)[k] = IF k <= Len(a) THEN a[k] ELSE b[k - Len(a)]
  BY ONLY ConcatProperties, a \in Seq(S), b \in Seq(S), Zenon
<1>2. m \in Nat /\ n \in Nat
  OBVIOUS
<1>3. /\ c \in Seq(S) /\ Len(c) = m + n
      /\ \A k \in 1..(m + n) : c[k] = IF k <= m THEN a[k] ELSE b[k - m]
  BY ONLY <1>1, c = a \o b, m = Len(a), n = Len(b), Zenon
<1> QED
  BY ONLY <1>2, <1>3

LEMMA RemoveAtFacts ==
  ASSUME NEW S, NEW s \in Seq(S), NEW i \in 1..Len(s)
  PROVE  /\ RemoveAt(s, i) \in Seq(S)
         /\ Len(RemoveAt(s, i)) = Len(s) - 1
         /\ \A k \in 1..(Len(s) - 1) : RemoveAt(s, i)[k] = s[IF k < i THEN k ELSE k + 1]
<1> DEFINE p == SubSeq(s, 1, i - 1)
           q == SubSeq(s, i + 1, Len(s))
<1>1. /\ p \in Seq(S) /\ Len(p) = i - 1
      /\ \A k \in 1..(i - 1) : p[k] = s[k]
  OBVIOUS
<1>2. /\ q \in Seq(S) /\ Len(q) = Len(s) - i
      /\ \A k \in 1..(Len(s) - i) : q[k] = s[i + k]
  OBVIOUS
<1> HIDE DEF p, q
<1>3. PICK t, m, n : t = p \o q /\ m = Len(p) /\ n = Len(q)
  OBVIOUS
<1>4. /\ t \in Seq(S) /\ Len(t) = m + n
      /\ \A k \in 1..(m + n) : t[k] = IF k <= m THEN p[k] ELSE q[k - m]
  <2>1. /\ p \o q \in Seq(S) /\ Len(p \o q) = Len(p) + Len(q)
        /\ \A k \in 1..(Len(p) + Len(q)) :
             (p \o q)[k] = IF k <= Len(p) THEN p[k] ELSE q[k - Len(p)]
    BY ONLY ConcatProperties, <1>1, <1>2, Zenon
  <2> QED
    BY ONLY <2>1, <1>3, Zenon
<1>5. ASSUME NEW k \in 1..(Len(s) - 1)
      PROVE  t[k] = s[IF k < i THEN k ELSE k + 1]
  <2>1. CASE k < i
    BY <1>1, <1>2, <1>3, <1>4, <2>1
  <2>2. CASE k >= i
    <3>1. PICK j : j = k - m
      OBVIOUS
    <3>2. j \in 1..(Len(s) - i) /\ i + j = k + 1
      <4>1. PICK l : l = Len(s)
        OBVIOUS
      <4>2. l \in Nat
        BY ONLY s \in Seq(S), <4>1
      <4>3. m = i - 1
        BY ONLY <1>1, <1>3
      <4>4. l \in Nat /\ i \in 1..l /\ k \in 1..(l - 1) /\ m = i - 1 /\ j = k - m /\ k >= i
        BY ONLY <2>2, <3>1, <4>2, <4>1, <4>3, i \in 1..Len(s), k \in 1..(Len(s) - 1)
      <4>5. j \in 1..(l - i) /\ i + j = k + 1
        BY ONLY <4>4
      <4> QED
        BY <4>1, <4>5
    <3>3. t[k] = q[j] /\ q[j] = s[i + j]
      <4>1. PICK l : l = Len(s)
        OBVIOUS
      <4>2. l \in Nat
        BY ONLY s \in Seq(S), <4>1
      <4>3. m = i - 1 /\ n = l - i
        BY ONLY <1>1, <1>2, <1>3, <4>1
      <4>4. k \in 1..(m + n) /\ ~(k <= m) /\ i \in 1..l /\ k \in 1..(l - 1)
        BY ONLY <2>2, <4>1, <4>2, <4>3, i \in 1..Len(s), k \in 1..(Len(s) - 1)
      <4>5. t[k] = q[j]
        BY ONLY <1>4, <3>1, <4>4
      <4>6. q[j] = s[i + j]
        BY ONLY <1>2, <3>2
      <4> QED
        BY <4>5, <4>6
    <3> QED
      BY <2>2, <3>2, <3>3
  <2> QED
    BY <2>1, <2>2
<1>6. RemoveAt(s, i) = t
  BY <1>3 DEF p, q, RemoveAt
<1>7. m + n = Len(s) - 1
  BY <1>1, <1>2, <1>3
<1> QED
  BY ONLY <1>4, <1>5, <1>6, <1>7

(***************************************************************************)
(* What is in a sequence into which an element has been inserted.          *)
(***************************************************************************)
LEMMA InsertAtFacts ==
  ASSUME NEW S, NEW s \in Seq(S), NEW x \in S, NEW i \in 1..Len(s)
  PROVE  /\ InsertAt(s, i, x) \in Seq(S)
         /\ \A k \in 1..Len(InsertAt(s, i, x)) :
              \/ InsertAt(s, i, x)[k] = x
              \/ \E j \in 1..Len(s) : InsertAt(s, i, x)[k] = s[j]
<1> DEFINE p == SubSeq(s, 1, i - 1)
           q == SubSeq(s, i, Len(s))
           o == <<x>>
<1>1. /\ p \in Seq(S) /\ Len(p) = i - 1
      /\ \A k \in 1..(i - 1) : p[k] = s[k]
  OBVIOUS
<1>2. /\ q \in Seq(S) /\ Len(q) = Len(s) - i + 1
      /\ \A k \in 1..(Len(s) - i + 1) : q[k] = s[i + k - 1]
  OBVIOUS
<1>3. o \in Seq(S) /\ Len(o) = 1 /\ o[1] = x
  OBVIOUS
<1> HIDE DEF p, q, o
<1>5. PICK r, t, l, m, n : /\ r = p \o o /\ t = r \o q
                           /\ l = Len(p) /\ m = Len(r) /\ n = Len(q)
  OBVIOUS
<1>4. /\ r \in Seq(S) /\ Len(r) = l + Len(o)
      /\ \A k \in 1..(l + Len(o)) : r[k] = IF k <= l THEN p[k] ELSE o[k - l]
  <2>1. /\ p \o o \in Seq(S) /\ Len(p \o o) = Len(p) + Len(o)
        /\ \A k \in 1..(Len(p) + Len(o)) :
             (p \o o)[k] = IF k <= Len(p) THEN p[k] ELSE o[k - Len(p)]
    BY ONLY ConcatProperties, <1>1, <1>3, Zenon
  <2> QED
    BY ONLY <2>1, <1>5, Zenon
<1>6. r \in Seq(S) /\ Len(r) = i /\ \A k \in 1..i : r[k] = IF k <= i - 1 THEN s[k] ELSE x
  BY <1>1, <1>3, <1>4, <1>5
<1>7. /\ t \in Seq(S) /\ Len(t) = m + n
      /\ \A k \in 1..(m + n) : t[k] = IF k <= m THEN r[k] ELSE q[k - m]
  <2>1. /\ r \o q \in Seq(S) /\ Len(r \o q) = Len(r) + Len(q)
        /\ \A k \in 1..(Len(r) + Len(q)) :
             (r \o q)[k] = IF k <= Len(r) THEN r[k] ELSE q[k - Len(r)]
    BY ONLY ConcatProperties, <1>2, <1>6, Zenon
  <2> QED
    BY ONLY <2>1, <1>5, Zenon
<1>8. /\ t \in Seq(S) /\ Len(t) = Len(s) + 1
      /\ \A k \in 1..(Len(s) + 1) : t[k] = IF k <= i THEN r[k] ELSE q[k - i]
  <2>1. m = i /\ m + n = Len(s) + 1
    BY <1>2, <1>5, <1>6
  <2> QED
    BY ONLY <1>7, <2>1
<1>9. ASSUME NEW k \in 1..(Len(s) + 1)
      PROVE  t[k] = x \/ \E j \in 1..Len(s) : t[k] = s[j]
  <2>1. CASE k < i
    BY <1>6, <1>8, <2>1
  <2>2. CASE k = i
    BY <1>6, <1>8, <2>2
  <2>3. CASE k > i
    <3>1. PICK j : j = k - 1
      OBVIOUS
    <3>2. j \in 1..Len(s) /\ k - i \in 1..(Len(s) - i + 1) /\ i + (k - i) - 1 = j
      BY <2>3, <3>1
    <3>3. t[k] = q[k - i] /\ q[k - i] = s[i + (k - i) - 1]
      BY <1>2, <1>8, <2>3, <3>2
    <3> QED
      BY <3>2, <3>3
  <2> QED
    BY <2>1, <2>2, <2>3
<1> QED
  BY <1>5, <1>8, <1>9 DEF p, q, o, InsertAt

(***************************************************************************)
(* The link after segs are sent into it.                                   *)
(***************************************************************************)
LEMMA SentFacts ==
  ASSUME NEW S, NEW link \in Seq(S), NEW segs \in Seq(S)
  PROVE  /\ Sent(link, segs) \in Seq(S)
         /\ Len(Sent(link, segs)) <= MaxNet
         /\ \A k \in 1..Len(Sent(link, segs)) :
              \/ \E i \in 1..Len(link) : Sent(link, segs)[k] = link[i]
              \/ \E i \in 1..Len(segs) : Sent(link, segs)[k] = segs[i]
<1>1. MaxNet \in Nat
  BY StreamAssumption
<1>2. PICK t : t = link \o segs
  OBVIOUS
<1>3. /\ t \in Seq(S) /\ Len(t) = Len(link) + Len(segs)
      /\ \A k \in 1..Len(t) : t[k] = IF k <= Len(link) THEN link[k] ELSE segs[k - Len(link)]
  BY <1>2, Joined
<1>4. PICK n : n = Smaller(MaxNet, Len(link) + Len(segs))
  OBVIOUS
<1>5. n \in 0..Len(t) /\ n <= MaxNet
  BY <1>1, <1>3, <1>4 DEF Smaller
<1>6. PICK r : r = SubSeq(t, 1, n)
  OBVIOUS
<1>7. r \in Seq(S) /\ Len(r) = n /\ \A k \in 1..n : r[k] = t[k]
  BY <1>3, <1>5, <1>6
<1>8. ASSUME NEW k \in 1..Len(r)
      PROVE  \/ \E i \in 1..Len(link) : r[k] = link[i]
             \/ \E i \in 1..Len(segs) : r[k] = segs[i]
  <2>1. CASE k <= Len(link)
    BY <1>3, <1>5, <1>7, <2>1
  <2>2. CASE k > Len(link)
    <3>1. k - Len(link) \in 1..Len(segs)
      BY <1>3, <1>5, <1>7, <2>2
    <3> QED
      BY <1>3, <1>5, <1>7, <2>2, <3>1
  <2> QED
    BY <2>1, <2>2
<1> QED
  BY <1>2, <1>4, <1>5, <1>6, <1>7, <1>8 DEF Sent

-----------------------------------------------------------------------------
(***************************************************************************)
(* The receiving half of the handlers.                                     *)
(***************************************************************************)
LEMMA LastBytesFacts ==
  ASSUME NEW data \in Seq(Nat), NEW len \in 1..Len(data)
  PROVE  /\ LastBytes(data, len) \in Seq(Nat)
         /\ Len(LastBytes(data, len)) = len
         /\ \A i \in 1..len : LastBytes(data, len)[i] = data[Len(data) - len + i]
<1>1. PICK l, m : l = Len(data) /\ m = l - len + 1
  OBVIOUS
<1>2. l \in Nat /\ m \in 1..l /\ l - m + 1 = len
  BY <1>1
<1>3. LastBytes(data, len) = SubSeq(data, m, l)
  BY <1>1 DEF LastBytes
<1>4. /\ SubSeq(data, m, l) \in Seq(Nat) /\ Len(SubSeq(data, m, l)) = l - m + 1
      /\ \A i \in 1..(l - m + 1) : SubSeq(data, m, l)[i] = data[m + i - 1]
  BY <1>1, <1>2
<1>5. \A i \in 1..len : m + i - 1 = l - len + i
  BY <1>1, <1>2
<1> QED
  BY <1>1, <1>2, <1>3, <1>4, <1>5

(***************************************************************************)
(* What a handler of data leaves as it was, and what it may only increase. *)
(***************************************************************************)
SameSender(t, s) ==
  /\ t.snd_una = s.snd_una /\ t.snd_nxt = s.snd_nxt /\ t.snd_wnd = s.snd_wnd
  /\ t.send_buf = s.send_buf /\ t.timer = s.timer /\ t.chunk = s.chunk
  /\ t.rcv_wnd = s.rcv_wnd

Advances(e, s, t, g, n) ==
  /\ t \in Sock /\ t.state \in {"ESTABLISHED", "ABORTED"}
  /\ SameSender(t, s) /\ Len(s.rcv_buf) <= Len(t.rcv_buf)
  /\ ReceiverOK(e, t, g, n)

(***************************************************************************)
(* A stretch of the peer's stream that starts no later than rcv_nxt and    *)
(* ends after it: its last bytes are the next ones.                        *)
(***************************************************************************)
LEMMA NextBytes ==
  ASSUME NEW e \in Endpoint, NEW n \in 0..(Half - 1), NEW r \in 0..n,
         NEW seq, NEW data \in Seq(Nat), Stretch(e, seq, data, n),
         NEW end, end = Plus(seq, Len(data)),
         NEW len, len = Diff(end, Num(e, r))
  PROVE  /\ end \in SeqNum /\ len \in Int /\ r + len <= n
         /\ end = Num(e, r + len)
         /\ less_or_equal_32b(seq, Num(e, r)) /\ len > 0 =>
              /\ len \in 1..Len(data)
              /\ Runs(LastBytes(data, len), r)
         /\ greater_than_32b(end, Num(e, r)) <=> len > 0
<1>1. PICK a \in 0..n : /\ seq = Num(e, a) /\ a + Len(data) <= n
                        /\ \A i \in 1..Len(data) : data[i] = a + i
  BY DEF Stretch, Runs
<1>2. PICK l : l = Len(data)
  OBVIOUS
<1>3. l \in Nat /\ Half \in Nat
  BY <1>2, SpaceIsTwoHalves
<1>4. end = Num(e, a + l)
  <2>1. a \in Nat /\ a + l < Half
    BY <1>1, <1>2, <1>3
  <2>2. Plus(Num(e, a), l) = Num(e, a + l)
    BY <1>3, <2>1, NumPlus
  <2> QED
    BY <1>1, <1>2, <2>2
<1>5. PICK b : b = a + l
  OBVIOUS
<1>6. b \in 0..(Half - 1) /\ b <= n
  BY <1>1, <1>2, <1>3, <1>5
<1>7. len = b - r /\ r + len = b
  BY <1>3, <1>4, <1>5, <1>6, NumDiff
<1>8. end \in SeqNum
  BY <1>4, <1>5, <1>6, NumType
<1>9. less_or_equal_32b(seq, Num(e, r)) <=> a <= r
  BY <1>1, <1>3, NumCompare
<1>10. greater_than_32b(end, Num(e, r)) <=> b > r
  BY <1>3, <1>4, <1>5, <1>6, NumCompare
<1>11. ASSUME a <= r, len > 0
       PROVE  len \in 1..l /\ Runs(LastBytes(data, len), r)
  <2>1. len \in 1..l
    BY <1>3, <1>5, <1>6, <1>7, <1>11
  <2>2. /\ Len(LastBytes(data, len)) = len
        /\ \A i \in 1..len : LastBytes(data, len)[i] = data[l - len + i]
    BY <1>2, <2>1, LastBytesFacts
  <2>3. ASSUME NEW i \in 1..len
        PROVE  LastBytes(data, len)[i] = r + i
    <3>1. PICK j : j = l - len + i
      OBVIOUS
    <3>2. j \in 1..l /\ a + j = r + i
      BY <1>3, <1>5, <1>6, <1>7, <2>1, <3>1
    <3> QED
      BY <1>1, <1>2, <2>2, <3>1, <3>2
  <2> QED
    BY <2>1, <2>2, <2>3 DEF Runs
<1> QED
  BY <1>2, <1>3, <1>4, <1>5, <1>6, <1>7, <1>8, <1>9, <1>10, <1>11

(***************************************************************************)
(* The ring after the next len bytes are written into it.                  *)
(***************************************************************************)
LEMMA RunsOn ==
  ASSUME NEW b \in Seq(Nat), NEW d \in Seq(Nat), NEW g \in Nat, NEW m, m = Len(b),
         Runs(b, g), NEW r, r = g + m, Runs(d, r)
  PROVE  b \o d \in Seq(Nat) /\ Len(b \o d) = m + Len(d) /\ Runs(b \o d, g)
<1>1. PICK buf, n : buf = b \o d /\ n = Len(d)
  OBVIOUS
<1>2. /\ buf \in Seq(Nat) /\ Len(buf) = m + n /\ m \in Nat /\ n \in Nat
      /\ \A i \in 1..m : buf[i] = b[i]
      /\ \A i \in 1..n : buf[m + i] = d[i]
  BY <1>1, Joined
<1>3. ASSUME NEW i \in 1..(m + n)
      PROVE  buf[i] = g + i
  <2>0. i \in Nat /\ m \in Nat
    BY <1>2
  <2>1. CASE i <= m
    BY <1>2, <2>1 DEF Runs
  <2>2. CASE i > m
    <3>1. PICK j : j = i - m
      OBVIOUS
    <3>2. j \in 1..n /\ m + j = i
      BY <1>2, <2>2, <3>1
    <3>3. buf[i] = d[j] /\ d[j] = r + j
      BY <1>1, <1>2, <3>2 DEF Runs
    <3>4. r + j = g + i
      BY ONLY <2>0, <3>1, <3>2, r = g + m, g \in Nat
    <3> QED
      BY <3>3, <3>4
  <2> QED
    BY ONLY <2>0, <2>1, <2>2
<1> QED
  BY <1>1, <1>2, <1>3 DEF Runs

(***************************************************************************)
(* A write into the ring, with rcv_nxt moved on by as much: it fits, or    *)
(* the assert fails.                                                       *)
(***************************************************************************)
IsNext(e, s, seq, data, end, len, n) ==
  /\ Stretch(Peer(e), seq, data, n)
  /\ end = Plus(seq, Len(data)) /\ len = Diff(end, s.rcv_nxt)
  /\ len > 0 /\ less_or_equal_32b(seq, s.rcv_nxt)

LEMMA WriteAdvances ==
  ASSUME NEW e \in Endpoint, NEW s \in Sock, s.state = "ESTABLISHED",
         NEW g \in Nat, NEW n \in 0..(Half - 1), ReceiverOK(e, s, g, n),
         NEW seq, NEW data \in Seq(Nat), NEW end, NEW len,
         IsNext(e, s, seq, data, end, len, n),
         NEW t, t = [write_ring_buffer(s, LastBytes(data, len)) EXCEPT !.rcv_nxt = end]
  PROVE  Advances(e, s, t, g, n) /\ Plus(s.rcv_nxt, len) = end
<1>1. PICK b, m : b = s.rcv_buf /\ m = Len(b)
  OBVIOUS
<1>2. b \in Seq(Nat) /\ m \in Nat /\ Capacity \in Nat /\ Peer(e) \in Endpoint
  BY <1>1, StreamAssumption, Peers DEF Sock
<1>3. PICK r : r = g + m
  OBVIOUS
<1>4. /\ m <= Capacity /\ r \in 0..n /\ s.rcv_nxt = Num(Peer(e), r)
      /\ Runs(b, g)
  BY <1>1, <1>2, <1>3 DEF ReceiverOK
<1>5. /\ end \in SeqNum /\ r + len <= n /\ end = Num(Peer(e), r + len)
      /\ len \in 1..Len(data)
      /\ Runs(LastBytes(data, len), r)
  BY <1>2, <1>4, NextBytes DEF IsNext
<1>6. PICK d : d = LastBytes(data, len)
  OBVIOUS
<1>7. d \in Seq(Nat) /\ Len(d) = len /\ Runs(d, r)
  BY <1>5, <1>6, LastBytesFacts
<1>8. PICK buf : buf = b \o d
  OBVIOUS
<1>9. /\ buf \in Seq(Nat) /\ Len(buf) = m + len
      /\ Runs(buf, g)
  <2>1. g \in Nat /\ m = Len(b) /\ r = g + m
    BY <1>1, <1>3
  <2>2. b \o d \in Seq(Nat) /\ Len(b \o d) = m + Len(d) /\ Runs(b \o d, g)
    BY ONLY <1>2, <1>4, <1>7, <2>1, RunsOn, Zenon
  <2> QED
    BY <1>7, <1>8, <2>2
<1>10. Plus(s.rcv_nxt, len) = end
  <2>1. r \in Nat /\ len \in Nat /\ r + len < Half
    BY <1>4, <1>5, SpaceIsTwoHalves
  <2> QED
    BY <1>2, <1>4, <1>5, <2>1, NumPlus
<1>11. FreeSpace(s) = Capacity - m
  BY <1>1 DEF FreeSpace
<1>12. CASE len <= Capacity - m
  <2>1. t = [[s EXCEPT !.rcv_buf = buf] EXCEPT !.rcv_nxt = end]
    BY <1>1, <1>6, <1>7, <1>8, <1>11, <1>12 DEF write_ring_buffer
  <2>2. /\ t \in Sock /\ t.state = "ESTABLISHED" /\ SameSender(t, s)
        /\ t.rcv_buf = buf /\ t.rcv_nxt = end /\ t.ofo = s.ofo
    BY <1>5, <1>9, <2>1 DEF Sock, SameSender
  <2>3. /\ Len(buf) <= Capacity /\ g + Len(buf) <= n /\ g + Len(buf) = r + len
        /\ m <= Len(buf)
    <3>1. PICK k, l : k = Len(buf) /\ l = Len(data)
      OBVIOUS
    <3>2. k = m + len /\ l \in Nat /\ len \in 1..l
      BY <1>5, <1>9, <3>1, LenProperties
    <3>3. n \in Nat
      BY SpaceIsTwoHalves
    <3>4. k <= Capacity /\ g + k <= n /\ g + k = r + len /\ m <= k
      BY ONLY <1>2, <1>3, <1>4, <1>5, <1>12, <3>2, <3>3, g \in Nat
    <3> QED
      BY <3>1, <3>4
  <2>4. ReceiverOK(e, t, g, n)
    BY <1>5, <1>9, <2>2, <2>3 DEF ReceiverOK
  <2>5. Len(s.rcv_buf) <= Len(buf)
    BY <1>1, <2>3
  <2> QED
    BY <1>10, <2>2, <2>4, <2>5 DEF Advances
<1>13. CASE ~(len <= Capacity - m)
  <2>1. t = [[s EXCEPT !.state = "ABORTED"] EXCEPT !.rcv_nxt = end]
    BY <1>6, <1>7, <1>11, <1>13 DEF write_ring_buffer
  <2>2. /\ t \in Sock /\ t.state = "ABORTED" /\ SameSender(t, s)
        /\ t.rcv_buf = s.rcv_buf /\ t.ofo = s.ofo
    BY <1>5, <2>1 DEF Sock, SameSender
  <2>3. ReceiverOK(e, t, g, n)
    BY <2>2 DEF ReceiverOK
  <2>4. Len(s.rcv_buf) <= Len(s.rcv_buf)
    BY <1>1, <1>2
  <2> QED
    BY <1>10, <2>2, <2>3, <2>4 DEF Advances
<1> QED
  BY <1>12, <1>13

(***************************************************************************)
(* A sock that is given another early segment.                             *)
(***************************************************************************)
LEMMA EarlyAppended ==
  ASSUME NEW e \in Endpoint, NEW s \in Sock, NEW g \in Nat, NEW n \in Nat,
         ReceiverOK(e, s, g, n), s.state \in {"ESTABLISHED", "ABORTED"},
         NEW list \in Seq(Early),
         \A i \in 1..Len(list) : Stretch(Peer(e), list[i].seq, list[i].data, n),
         NEW t, t = [s EXCEPT !.ofo = list]
  PROVE  Advances(e, s, t, g, n)
<1>1. /\ t \in Sock /\ t.state = s.state /\ SameSender(t, s) /\ t.rcv_nxt = s.rcv_nxt
      /\ t.rcv_buf = s.rcv_buf /\ t.ofo = list
  BY DEF Sock, SameSender
<1>2. ReceiverOK(e, t, g, n)
  BY <1>1 DEF ReceiverOK
<1>3. Len(s.rcv_buf) <= Len(s.rcv_buf)
  BY DEF Sock
<1> QED
  BY <1>1, <1>2, <1>3 DEF Advances

LEMMA AppendedEarly ==
  ASSUME NEW e, NEW n, NEW list \in Seq(Early), NEW x \in Early,
         \A i \in 1..Len(list) : Stretch(e, list[i].seq, list[i].data, n),
         Stretch(e, x.seq, x.data, n)
  PROVE  /\ Append(list, x) \in Seq(Early)
         /\ \A i \in 1..Len(Append(list, x)) :
              Stretch(e, Append(list, x)[i].seq, Append(list, x)[i].data, n)
<1>1. PICK l : l = Append(list, x)
  OBVIOUS
<1>2. /\ l \in Seq(Early) /\ Len(l) = Len(list) + 1
      /\ \A i \in 1..(Len(list) + 1) : l[i] = list[i] \/ l[i] = x
      /\ \A i \in 1..Len(list) : l[i] = list[i]
      /\ l[Len(list) + 1] = x
  BY <1>1
<1>3. ASSUME NEW i \in 1..Len(l)
      PROVE  Stretch(e, l[i].seq, l[i].data, n)
  <2>1. CASE i <= Len(list)
    BY <1>2, <2>1
  <2>2. CASE i = Len(list) + 1
    BY <1>2, <2>2
  <2> QED
    BY <1>2, <2>1, <2>2
<1> QED
  BY <1>1, <1>2, <1>3

(***************************************************************************)
(* One entry of the walk of tcp_check_ofo_buf.                             *)
(***************************************************************************)
WalkOK(e, w, s, g, n) ==
  /\ w \in [sock : Sock, stopped : BOOLEAN]
  /\ Advances(e, s, w.sock, g, n)

LEMMA StepKeepsWalk ==
  ASSUME NEW e \in Endpoint, NEW g \in Nat, NEW n \in 0..(Half - 1),
         NEW s, NEW w, WalkOK(e, w, s, g, n),
         NEW x \in Early, Stretch(Peer(e), x.seq, x.data, n)
  PROVE  WalkOK(e, OfoStep(w, x), s, g, n)
<1>1. PICK q, b : q = w.sock /\ b = w.stopped
  OBVIOUS
<1>2. /\ w = [sock |-> q, stopped |-> b] /\ q \in Sock /\ b \in BOOLEAN
      /\ Advances(e, s, q, g, n)
  BY <1>1 DEF WalkOK
<1>3. PICK end, len : end = SeqEnd(x) /\ len = Diff(end, q.rcv_nxt)
  OBVIOUS
<1>4. n \in Nat
  BY SpaceIsTwoHalves
<1>5. ASSUME NEW t, Advances(e, q, t, g, n), NEW c \in BOOLEAN
      PROVE  WalkOK(e, [sock |-> t, stopped |-> c], s, g, n)
  <2>1. t \in Sock /\ SameSender(t, s) /\ Len(s.rcv_buf) <= Len(t.rcv_buf)
    <3>1. SameSender(t, s)
      BY <1>2, <1>5 DEF Advances, SameSender
    <3>2. Len(s.rcv_buf) \in Int /\ Len(q.rcv_buf) \in Int /\ Len(t.rcv_buf) \in Int
      BY <1>2, <1>5 DEF Advances, Sock
    <3> QED
      BY <1>2, <1>5, <3>1, <3>2 DEF Advances
  <2> QED
    BY <1>2, <1>5, <2>1 DEF WalkOK, Advances
<1>6. PICK l : l = Append(q.ofo, x)
  OBVIOUS
<1>7. PICK t : t = [q EXCEPT !.ofo = l]
  OBVIOUS
<1>8. Advances(e, q, t, g, n)
  <2>1. q.ofo \in Seq(Early) /\ ReceiverOK(e, q, g, n) /\ q.state \in {"ESTABLISHED", "ABORTED"}
    BY <1>2 DEF Sock, Advances
  <2>2. \A i \in 1..Len(q.ofo) : Stretch(Peer(e), q.ofo[i].seq, q.ofo[i].data, n)
    BY <2>1 DEF ReceiverOK
  <2>3. /\ l \in Seq(Early)
        /\ \A i \in 1..Len(l) : Stretch(Peer(e), l[i].seq, l[i].data, n)
    BY <1>6, <2>1, <2>2, AppendedEarly
  <2> QED
    BY <1>2, <1>4, <1>7, <2>1, <2>3, EarlyAppended
<1>9. CASE b \/ q.state = "ABORTED"
  <2>1. OfoStep(w, x) = [sock |-> t, stopped |-> b]
    BY <1>1, <1>2, <1>6, <1>7, <1>9 DEF OfoStep
  <2> QED
    BY <1>2, <1>5, <1>8, <2>1
<1>10. CASE ~(b \/ q.state = "ABORTED") /\ len <= 0
  <2>1. OfoStep(w, x) = w
    BY <1>1, <1>2, <1>3, <1>10 DEF OfoStep
  <2> QED
    BY <2>1
<1>11. CASE ~(b \/ q.state = "ABORTED") /\ ~(len <= 0) /\ greater_or_equal_32b(q.rcv_nxt, x.seq)
  <2>1. PICK u : u = [write_ring_buffer(q, LastBytes(x.data, len)) EXCEPT !.rcv_nxt = end]
    OBVIOUS
  <2>2. q.state = "ESTABLISHED" /\ ReceiverOK(e, q, g, n) /\ x.data \in Seq(Nat)
    BY <1>2, <1>11 DEF Advances, Early
  <2>3. len > 0 /\ less_or_equal_32b(x.seq, q.rcv_nxt)
    <3>1. PICK r : r = g + Len(q.rcv_buf)
      OBVIOUS
    <3>2. r \in 0..n /\ q.rcv_nxt = Num(Peer(e), r) /\ Peer(e) \in Endpoint
      BY <1>2, <1>4, <2>2, <3>1, Peers DEF ReceiverOK, Sock
    <3>3. PICK a \in 0..n : x.seq = Num(Peer(e), a)
      BY DEF Stretch
    <3>4. end = Plus(x.seq, Len(x.data))
      BY <1>3 DEF SeqEnd
    <3>5. len \in Int
      BY <1>3, <2>2, <3>2, <3>4, NextBytes
    <3>6. less_or_equal_32b(x.seq, q.rcv_nxt)
      BY <1>4, <1>11, <3>2, <3>3, NumCompare, SpaceIsTwoHalves
    <3> QED
      BY <1>11, <3>5, <3>6
  <2>4. Advances(e, q, u, g, n) /\ Plus(q.rcv_nxt, len) = end
    <3>1. end = Plus(x.seq, Len(x.data)) /\ len = Diff(end, q.rcv_nxt)
      BY <1>3 DEF SeqEnd
    <3>2. PICK d, sq : d = x.data /\ sq = x.seq
      OBVIOUS
    <3>3. /\ q \in Sock /\ q.state = "ESTABLISHED" /\ ReceiverOK(e, q, g, n)
          /\ d \in Seq(Nat) /\ IsNext(e, q, sq, d, end, len, n)
          /\ u = [write_ring_buffer(q, LastBytes(d, len)) EXCEPT !.rcv_nxt = end]
      BY <1>2, <2>1, <2>2, <2>3, <3>1, <3>2 DEF IsNext
    <3> QED
      BY ONLY <3>3, e \in Endpoint, g \in Nat, n \in 0..(Half - 1), WriteAdvances
  <2>5. write_ring_buffer(q, LastBytes(x.data, len)).rcv_nxt = q.rcv_nxt
    BY <1>2 DEF write_ring_buffer, Sock
  <2>6. OfoStep(w, x) =
          [w EXCEPT !.sock = [write_ring_buffer(q, LastBytes(x.data, len))
                                EXCEPT !.rcv_nxt = Plus(@, len)]]
    BY <1>1, <1>3, <1>11 DEF OfoStep
  <2>7. OfoStep(w, x) = [sock |-> u, stopped |-> b]
    BY <1>2, <2>1, <2>4, <2>5, <2>6
  <2> QED
    BY <1>2, <1>5, <2>4, <2>7
<1>12. CASE ~(b \/ q.state = "ABORTED") /\ ~(len <= 0) /\ ~greater_or_equal_32b(q.rcv_nxt, x.seq)
  <2>1. OfoStep(w, x) = [sock |-> t, stopped |-> TRUE]
    BY <1>1, <1>2, <1>3, <1>6, <1>7, <1>12 DEF OfoStep
  <2> QED
    BY <1>5, <1>8, <2>1
<1> QED
  BY <1>9, <1>10, <1>11, <1>12

(***************************************************************************)
(* The walk exists: it is made entry by entry.                             *)
(***************************************************************************)
Walked(f, s, n) ==
  f = [i \in 0..n |-> IF i = 0 THEN [sock |-> [s EXCEPT !.ofo = << >>], stopped |-> FALSE]
                               ELSE OfoStep(f[i - 1], s.ofo[i])]

LEMMA WalkExists ==
  ASSUME NEW s, NEW n \in Nat
  PROVE  \E f : Walked(f, s, n)
<1> DEFINE T == {m \in Nat : ~\E f : Walked(f, s, m)}
<1>1. SUFFICES ASSUME n \in T
               PROVE  FALSE
  OBVIOUS
<1>2. PICK m \in T : \A k \in T : m <= k
  <2>1. T \subseteq Nat /\ T # {}
    BY <1>1
  <2> HIDE DEF T
  <2> QED
    BY <2>1, LeastNatural
<1>3. CASE m = 0
  <2> DEFINE f == [i \in 0..0 |-> [sock |-> [s EXCEPT !.ofo = << >>], stopped |-> FALSE]]
  <2>1. Walked(f, s, 0)
    BY DEF Walked
  <2> QED
    BY <1>2, <1>3, <2>1
<1>4. CASE m # 0
  <2>1. m - 1 \in Nat /\ m - 1 \notin T
    BY <1>2, <1>4
  <2>2. PICK f : Walked(f, s, m - 1)
    BY <2>1
  <2> DEFINE g == [i \in 0..m |-> IF i = m THEN OfoStep(f[m - 1], s.ofo[m]) ELSE f[i]]
             h == [i \in 0..m |-> IF i = 0
                                  THEN [sock |-> [s EXCEPT !.ofo = << >>], stopped |-> FALSE]
                                  ELSE OfoStep(g[i - 1], s.ofo[i])]
  <2>3. ASSUME NEW i \in 0..m
        PROVE  g[i] = h[i]
    <3>1. CASE i = 0
      BY <1>4, <2>1, <2>2, <3>1 DEF Walked
    <3>2. CASE i # 0 /\ i = m
      <4>1. m - 1 \in 0..m /\ m - 1 # m
        BY <2>1
      <4> QED
        BY <3>2, <4>1
    <3>3. CASE i # 0 /\ i # m
      <4>1. i \in 0..(m - 1) /\ i - 1 \in 0..m /\ i - 1 # m
        BY <2>1, <3>3
      <4>2. f[i] = OfoStep(f[i - 1], s.ofo[i])
        BY <2>2, <3>3, <4>1 DEF Walked
      <4> QED
        BY <3>3, <4>1, <4>2
    <3> QED
      BY <3>1, <3>2, <3>3
  <2>4. Walked(g, s, m)
    <3>1. g = h
      BY <2>3
    <3> QED
      BY <3>1 DEF Walked
  <2> QED
    BY <1>2, <2>4
<1> QED
  BY <1>3, <1>4

LEMMA WalkKeeps ==
  ASSUME NEW e \in Endpoint, NEW g \in Nat, NEW n \in 0..(Half - 1),
         NEW s \in Sock, s.state \in {"ESTABLISHED", "ABORTED"}, ReceiverOK(e, s, g, n),
         NEW m \in Nat, m <= Len(s.ofo), NEW f, Walked(f, s, m)
  PROVE  \A i \in 0..m : WalkOK(e, f[i], s, g, n)
<1> DEFINE T == {i \in 0..m : ~WalkOK(e, f[i], s, g, n)}
<1>1. SUFFICES ASSUME T # {}
               PROVE  FALSE
  OBVIOUS
<1>2. PICK i \in T : \A k \in T : i <= k
  <2>1. T \subseteq Nat /\ T # {}
    BY <1>1
  <2> HIDE DEF T
  <2> QED
    BY <2>1, LeastNatural
<1>3. n \in Nat /\ s.ofo \in Seq(Early)
  BY SpaceIsTwoHalves DEF Sock
<1>4. \A k \in 1..Len(s.ofo) : Stretch(Peer(e), s.ofo[k].seq, s.ofo[k].data, n)
  BY DEF ReceiverOK
<1>5. CASE i = 0
  <2>1. PICK t : t = [s EXCEPT !.ofo = << >>]
    OBVIOUS
  <2>2. f[0] = [sock |-> t, stopped |-> FALSE]
    BY <1>2, <2>1 DEF Walked
  <2>3. << >> \in Seq(Early) /\ \A k \in 1..Len(<< >>) : FALSE
    OBVIOUS
  <2>4. PICK l : l = << >>
    OBVIOUS
  <2>5. l \in Seq(Early) /\ \A k \in 1..Len(l) : Stretch(Peer(e), l[k].seq, l[k].data, n)
    BY <2>3, <2>4
  <2>6. Advances(e, s, t, g, n)
    BY <1>3, <2>1, <2>4, <2>5, EarlyAppended
  <2>7. WalkOK(e, f[0], s, g, n)
    BY <2>2, <2>6 DEF WalkOK, Advances
  <2> QED
    BY <1>2, <1>5, <2>7
<1>6. CASE i # 0
  <2>1. i \in 1..m /\ i - 1 \in 0..m /\ i - 1 \notin T
    BY <1>2, <1>6
  <2>2. PICK w, x : w = f[i - 1] /\ x = s.ofo[i]
    OBVIOUS
  <2>3. WalkOK(e, w, s, g, n)
    BY <2>1, <2>2
  <2>4. x \in Early /\ Stretch(Peer(e), x.seq, x.data, n)
    BY <1>3, <1>4, <2>1, <2>2
  <2>5. f[i] = OfoStep(w, x)
    <3>1. i \in 0..m /\ i # 0
      BY <2>1
    <3>2. f[i] = OfoStep(f[i - 1], s.ofo[i])
      BY ONLY <3>1, Walked(f, s, m) DEF Walked
    <3> QED
      BY <2>2, <3>2
  <2>6. WalkOK(e, OfoStep(w, x), s, g, n)
    BY <2>3, <2>4, StepKeepsWalk
  <2> QED
    BY <1>2, <2>5, <2>6
<1> QED
  BY <1>5, <1>6

LEMMA CheckAdvances ==
  ASSUME NEW e \in Endpoint, NEW g \in Nat, NEW n \in 0..(Half - 1),
         NEW s \in Sock, s.state \in {"ESTABLISHED", "ABORTED"}, ReceiverOK(e, s, g, n)
  PROVE  Advances(e, s, tcp_check_ofo_buf(s), g, n)
<1>1. PICK m : m = Len(s.ofo)
  OBVIOUS
<1>2. m \in Nat /\ m <= Len(s.ofo)
  BY <1>1 DEF Sock
<1>3. PICK h : Walked(h, s, m)
  BY <1>2, WalkExists
<1>4. PICK f : f = CHOOSE x : Walked(x, s, m)
  OBVIOUS
<1>5. Walked(f, s, m)
  BY <1>3, <1>4
<1>6. tcp_check_ofo_buf(s) = f[m].sock
  BY <1>1, <1>4 DEF tcp_check_ofo_buf, Walked
<1>7. WalkOK(e, f[m], s, g, n)
  <2>1. \A i \in 0..m : WalkOK(e, f[i], s, g, n)
    BY <1>2, <1>5, WalkKeeps
  <2>2. m \in 0..m
    BY <1>2
  <2> QED
    BY <2>1, <2>2
<1> QED
  BY <1>6, <1>7 DEF WalkOK

(***************************************************************************)
(* An early segment is put into the list, or one that contains it is       *)
(* there.                                                                  *)
(***************************************************************************)
LEMMA AppendAdvances ==
  ASSUME NEW e \in Endpoint, NEW g \in Nat, NEW n \in Nat,
         NEW s \in Sock, s.state \in {"ESTABLISHED", "ABORTED"}, ReceiverOK(e, s, g, n),
         NEW cb \in Segments, Stretch(Peer(e), cb.seq, cb.data, n)
  PROVE  Advances(e, s, tcp_ofo_buf_append(s, cb), g, n)
<1>1. PICK x : x = [seq |-> cb.seq, data |-> cb.data]
  OBVIOUS
<1>2. x \in Early /\ Stretch(Peer(e), x.seq, x.data, n)
  BY <1>1 DEF Early, Segments
<1> DEFINE J == {i \in 1..Len(s.ofo) : less_or_equal_32b(SeqEnd(cb), SeqEnd(s.ofo[i]))}
<1>3. PICK found : found = IF J # {} THEN Min(J) ELSE 0
  OBVIOUS
<1>4. PICK l : l = s.ofo
  OBVIOUS
<1>5. /\ l \in Seq(Early) /\ Len(l) \in Nat
      /\ \A i \in 1..Len(l) : Stretch(Peer(e), l[i].seq, l[i].data, n)
  BY <1>4 DEF Sock, ReceiverOK
<1>6. found \in 0..Len(l)
  <2>1. J \subseteq Nat \ {0} /\ J \subseteq 1..Len(l)
    BY <1>4, <1>5
  <2> HIDE DEF J
  <2>2. found # 0 => found \in J
    BY <1>3, <2>1, FirstFacts
  <2>3. found = 0 \/ found \in 1..Len(l)
    BY ONLY <2>1, <2>2
  <2> QED
    BY ONLY <1>5, <2>3
<1>7. PICK stop : stop = IF found = 0 THEN Len(l) + 1 ELSE found
  OBVIOUS
<1>8. stop \in 1..(Len(l) + 1)
  BY <1>5, <1>6, <1>7
<1>9. tcp_ofo_buf_append(s, cb) =
        IF found # 0 /\ greater_or_equal_32b(cb.seq, l[found].seq) THEN s
        ELSE IF stop = 1 THEN [s EXCEPT !.ofo = Append(@, x)]
        ELSE [s EXCEPT !.ofo = InsertAt(@, stop - 1, x)]
  BY <1>1, <1>3, <1>4, <1>7 DEF tcp_ofo_buf_append, SelectInSeq
<1>10. PICK t : t = tcp_ofo_buf_append(s, cb)
  OBVIOUS
<1>11. CASE t = s
  <2>1. Len(s.rcv_buf) <= Len(s.rcv_buf)
    BY DEF Sock
  <2> QED
    BY <1>10, <1>11, <2>1 DEF Advances, SameSender
<1>12. CASE stop = 1 /\ t # s
  <2>1. PICK m : m = Append(l, x)
    OBVIOUS
  <2>2. t = [s EXCEPT !.ofo = m]
    BY <1>4, <1>9, <1>10, <1>12, <2>1
  <2>3. /\ m \in Seq(Early)
        /\ \A i \in 1..Len(m) : Stretch(Peer(e), m[i].seq, m[i].data, n)
    BY <1>2, <1>5, <2>1, AppendedEarly
  <2> QED
    BY <1>10, <2>2, <2>3, EarlyAppended
<1>13. CASE stop # 1 /\ t # s
  <2>1. PICK i : i = stop - 1
    OBVIOUS
  <2>2. i \in 1..Len(l)
    BY <1>5, <1>8, <1>13, <2>1
  <2>3. PICK m : m = InsertAt(l, i, x)
    OBVIOUS
  <2>4. t = [s EXCEPT !.ofo = m]
    BY <1>4, <1>9, <1>10, <1>13, <2>1, <2>3
  <2>5. /\ m \in Seq(Early)
        /\ \A k \in 1..Len(m) : m[k] = x \/ \E j \in 1..Len(l) : m[k] = l[j]
    BY <1>2, <1>5, <2>2, <2>3, InsertAtFacts
  <2>6. \A k \in 1..Len(m) : Stretch(Peer(e), m[k].seq, m[k].data, n)
    BY <1>2, <1>5, <2>5
  <2> QED
    BY <1>10, <2>4, <2>5, <2>6, EarlyAppended
<1> QED
  BY <1>11, <1>12, <1>13

(***************************************************************************)
(* handle_recv_data as a whole.                                            *)
(***************************************************************************)
Handled(e, s, t, g, n) ==
  /\ t \in Sock /\ t.state \in {"ESTABLISHED", "ABORTED"}
  /\ t.snd_una = s.snd_una /\ t.snd_nxt = s.snd_nxt /\ t.snd_wnd = s.snd_wnd
  /\ t.send_buf = s.send_buf /\ t.timer = s.timer /\ t.chunk = s.chunk
  /\ Len(s.rcv_buf) <= Len(t.rcv_buf)
  /\ ReceiverOK(e, t, g, n)

LEMMA AdvancesIsHandled ==
  ASSUME NEW e, NEW g, NEW n, NEW s, NEW t, Advances(e, s, t, g, n)
  PROVE  Handled(e, s, t, g, n)
  BY DEF Advances, Handled, SameSender

LEMMA DataIsHandled ==
  ASSUME NEW e \in Endpoint, NEW g \in Nat, NEW n \in 0..(Half - 1),
         NEW s \in Sock, s.state = "ESTABLISHED", ReceiverOK(e, s, g, n),
         NEW cb \in Segments, Stretch(Peer(e), cb.seq, cb.data, n)
  PROVE  Handled(e, s, handle_recv_data(s, cb), g, n)
<1>1. PICK seq, data, end, len, r : /\ seq = cb.seq /\ data = cb.data
                                    /\ end = Plus(seq, Len(data))
                                    /\ len = Diff(end, s.rcv_nxt) /\ r = g + Len(s.rcv_buf)
  OBVIOUS
<1>2. SeqEnd(cb) = end /\ data \in Seq(Nat) /\ Stretch(Peer(e), seq, data, n)
  BY <1>1 DEF SeqEnd, Segments
<1>3. Capacity \in Nat \ {0} /\ n \in Nat /\ Peer(e) \in Endpoint
  BY StreamAssumption, SpaceIsTwoHalves, Peers
<1>4. r \in 0..n /\ s.rcv_nxt = Num(Peer(e), r) /\ Len(s.rcv_buf) \in Nat
  BY <1>1, <1>3 DEF ReceiverOK, Sock
<1>5. /\ len \in Int
      /\ less_or_equal_32b(seq, s.rcv_nxt) /\ len > 0 => len \in 1..Len(data)
      /\ greater_than_32b(end, s.rcv_nxt) <=> len > 0
  <2>1. len = Diff(end, Num(Peer(e), r))
    BY <1>1, <1>4
  <2> QED
    BY <1>1, <1>2, <1>3, <1>4, <2>1, NextBytes
<1>6. Handled(e, s, s, g, n)
  BY <1>4 DEF Handled
<1>7. CASE data = << >> \/ len <= 0
  <2>1. ~(less_or_equal_32b(seq, s.rcv_nxt) /\ greater_than_32b(end, s.rcv_nxt))
    BY <1>5, <1>7
  <2>2. handle_recv_data(s, cb) = s
    BY <1>1, <1>2, <1>7, <2>1 DEF handle_recv_data, update_tsk
  <2> QED
    BY <1>6, <2>2
<1>8. CASE ~(data = << >> \/ len <= 0) /\ FreeSpace(s) < Len(data)
  <2>1. handle_recv_data(s, cb) = s
    BY <1>1, <1>2, <1>8 DEF handle_recv_data
  <2> QED
    BY <1>6, <2>1
<1>9. CASE /\ ~(data = << >> \/ len <= 0) /\ ~(FreeSpace(s) < Len(data))
           /\ less_or_equal_32b(seq, s.rcv_nxt)
  <2>1. PICK w, u, t, v : /\ w = write_ring_buffer(s, LastBytes(data, len))
                          /\ u = [w EXCEPT !.rcv_nxt = end]
                          /\ t = tcp_check_ofo_buf(u)
                          /\ v = AtLeastOne(FreeSpace(t))
    OBVIOUS
  <2>2. len > 0
    BY <1>5, <1>9
  <2>3. Advances(e, s, u, g, n)
    <3>1. IsNext(e, s, seq, data, end, len, n)
      BY <1>1, <1>2, <1>9, <2>2 DEF IsNext
    <3>2. u = [write_ring_buffer(s, LastBytes(data, len)) EXCEPT !.rcv_nxt = end]
      BY <2>1
    <3> QED
      BY ONLY <1>2, <3>1, <3>2, e \in Endpoint, g \in Nat, n \in 0..(Half - 1), s \in Sock,
              s.state = "ESTABLISHED", ReceiverOK(e, s, g, n), WriteAdvances
  <2>4. Advances(e, u, t, g, n)
    BY <2>1, <2>3, CheckAdvances DEF Advances
  <2>5. w.rcv_nxt = s.rcv_nxt
    BY <2>1 DEF write_ring_buffer, Sock
  <2>6. update_tsk(w, cb) = u
    BY <1>1, <1>2, <1>5, <1>9, <2>1, <2>2, <2>5 DEF update_tsk
  <2>7. handle_recv_data(s, cb) = [t EXCEPT !.rcv_wnd = v]
    BY <1>1, <1>2, <1>9, <2>1, <2>6 DEF handle_recv_data
  <2>8. v \in 1..Capacity
    <3>1. Len(t.rcv_buf) \in 0..Capacity
      BY <1>3, <2>4 DEF Advances, ReceiverOK, Sock
    <3> QED
      BY <1>3, <2>1, <3>1 DEF AtLeastOne, FreeSpace
  <2>9. PICK z : z = [t EXCEPT !.rcv_wnd = v]
    OBVIOUS
  <2>10. /\ z \in Sock /\ z.state = t.state /\ z.snd_una = t.snd_una /\ z.snd_nxt = t.snd_nxt
         /\ z.snd_wnd = t.snd_wnd /\ z.send_buf = t.send_buf /\ z.timer = t.timer
         /\ z.chunk = t.chunk /\ z.rcv_buf = t.rcv_buf /\ z.rcv_nxt = t.rcv_nxt
         /\ z.ofo = t.ofo /\ t \in Sock /\ u \in Sock
    BY <2>3, <2>4, <2>8, <2>9 DEF Advances, Sock
  <2>11. Len(s.rcv_buf) <= Len(t.rcv_buf)
    <3>1. Len(s.rcv_buf) \in Int /\ Len(u.rcv_buf) \in Int /\ Len(t.rcv_buf) \in Int
      BY <2>10 DEF Sock
    <3> QED
      BY <2>3, <2>4, <3>1 DEF Advances
  <2>12. ReceiverOK(e, z, g, n)
    BY <2>4, <2>10 DEF Advances, ReceiverOK
  <2>13. Handled(e, s, z, g, n)
    BY <2>3, <2>4, <2>10, <2>11, <2>12 DEF Advances, SameSender, Handled
  <2> QED
    BY <2>7, <2>9, <2>13
<1>10. CASE /\ ~(data = << >> \/ len <= 0) /\ ~(FreeSpace(s) < Len(data))
            /\ ~less_or_equal_32b(seq, s.rcv_nxt)
  <2>1. handle_recv_data(s, cb) = tcp_ofo_buf_append(s, cb)
    BY <1>1, <1>2, <1>10 DEF handle_recv_data
  <2>2. Advances(e, s, tcp_ofo_buf_append(s, cb), g, n)
    BY <1>3, AppendAdvances
  <2> QED
    BY <2>1, <2>2, AdvancesIsHandled
<1> QED
  BY <1>7, <1>8, <1>9, <1>10

-----------------------------------------------------------------------------
(***************************************************************************)
(* The sending half of the handlers.                                       *)
(***************************************************************************)
LEMMA EndOfStretch ==
  ASSUME NEW e \in Endpoint, NEW n \in 0..(Half - 1), NEW seg \in Segments,
         Stretch(e, seg.seq, seg.data, n)
  PROVE  \E b \in 0..n : SeqEnd(seg) = Num(e, b)
<1>1. PICK a \in 0..n : seg.seq = Num(e, a) /\ a + Len(seg.data) <= n
  BY DEF Stretch
<1>2. PICK l : l = Len(seg.data)
  OBVIOUS
<1>3. l \in Nat /\ Half \in Nat
  BY <1>2, SpaceIsTwoHalves DEF Segments
<1>4. PICK b : b = a + l
  OBVIOUS
<1>5. b \in 0..n /\ a \in Nat /\ a + l < Half
  BY <1>1, <1>2, <1>3, <1>4
<1>6. Plus(Num(e, a), l) = Num(e, a + l)
  BY <1>3, <1>5, NumPlus
<1> QED
  BY <1>1, <1>2, <1>4, <1>5, <1>6 DEF SeqEnd

(***************************************************************************)
(* Freeing what ack covers leaves the rest of the buffer.                  *)
(***************************************************************************)
Cleared(b, ack, left) ==
  \/ left = << >> /\ \A i \in 1..Len(b) : less_or_equal_32b(SeqEnd(b[i].seg), ack)
  \/ \E j \in 1..Len(b) :
       /\ ~less_or_equal_32b(SeqEnd(b[j].seg), ack)
       /\ \A i \in 1..(j - 1) : less_or_equal_32b(SeqEnd(b[i].seg), ack)
       /\ Len(left) = Len(b) - j + 1
       /\ \A i \in 1..Len(left) : left[i] = b[j + i - 1]

LEMMA ClearFacts ==
  ASSUME NEW b \in Seq(Buffered), NEW ack, NEW left, left = tcp_send_buf_clear(b, ack)
  PROVE  left \in Seq(Buffered) /\ Cleared(b, ack, left)
<1> DEFINE J == {i \in 1..Len(b) : ~less_or_equal_32b(SeqEnd(b[i].seg), ack)}
<1>1. PICK kept : kept = IF J # {} THEN Min(J) ELSE 0
  OBVIOUS
<1>2. left = IF kept = 0 THEN << >> ELSE SubSeq(b, kept, Len(b))
  BY <1>1 DEF tcp_send_buf_clear, SelectInSeq
<1>3. J \subseteq Nat \ {0}
  OBVIOUS
<1>4. /\ kept = 0 => J = {}
      /\ kept # 0 => kept \in J /\ \A i \in J : kept <= i
  <2> HIDE DEF J
  <2> QED
    BY <1>1, <1>3, FirstFacts
<1>5. CASE kept = 0
  BY <1>2, <1>4, <1>5 DEF Cleared
<1>6. CASE kept # 0
  <2>1. kept \in 1..Len(b) /\ ~less_or_equal_32b(SeqEnd(b[kept].seg), ack)
    BY <1>4, <1>6
  <2>2. \A i \in 1..(kept - 1) : less_or_equal_32b(SeqEnd(b[i].seg), ack)
    <3>1. ASSUME NEW i \in 1..(kept - 1)
          PROVE  less_or_equal_32b(SeqEnd(b[i].seg), ack)
      <4>1. i \in 1..Len(b) /\ ~(kept <= i)
        BY <2>1
      <4>2. i \notin J
        BY <1>4, <1>6, <4>1
      <4> QED
        BY <4>1, <4>2
    <3> QED
      BY <3>1
  <2>3. /\ left \in Seq(Buffered) /\ Len(left) = Len(b) - kept + 1
        /\ \A i \in 1..Len(left) : left[i] = b[kept + i - 1]
    BY <1>2, <1>6, <2>1
  <2> QED
    BY <2>1, <2>2, <2>3 DEF Cleared
<1> QED
  BY <1>5, <1>6

(***************************************************************************)
(* A new ack moves snd_una on, and the rest of the buffer starts with the  *)
(* segment that covers it.                                                 *)
(***************************************************************************)
LEMMA AckKeeps ==
  ASSUME NEW e \in Endpoint, NEW m \in 0..(Half - 1), NEW r \in 0..m,
         NEW s \in Sock, s.state = "ESTABLISHED", SenderOK(e, s, m, r),
         NEW cb \in Segments, Acks(e, cb.ack, r),
         NEW t, t = handle_ack(s, cb)
  PROVE  /\ t \in Sock /\ SenderOK(e, t, m, r)
         /\ t.state = s.state /\ t.rcv_nxt = s.rcv_nxt /\ t.rcv_buf = s.rcv_buf
         /\ t.ofo = s.ofo /\ t.rcv_wnd = s.rcv_wnd
<1>1. m \in Nat /\ r \in Nat /\ m < Half /\ r <= m /\ Half \in Nat
  BY SpaceIsTwoHalves
<1>2. PICK k \in 0..r : cb.ack = Num(e, k)
  BY DEF Acks
<1>3. PICK o \in 0..r : s.snd_una = Num(e, o)
  BY DEF SenderOK, Acks
<1>0. k \in Nat /\ k < Half /\ k <= m /\ o \in Nat /\ o < Half /\ o <= m
  BY <1>1
<1>4. less_than_32b(s.snd_una, cb.ack) <=> o < k
  BY <1>0, <1>2, <1>3, NumCompare
<1>5. PICK b, left : b = s.send_buf /\ left = tcp_send_buf_clear(b, cb.ack)
  OBVIOUS
<1>6. b \in Seq(Buffered) /\ s.snd_nxt = Num(e, m) /\ m + s.chunk <= ToSend[e]
  BY <1>5 DEF Sock, SenderOK
<1>7. \A i \in 1..Len(b) : Stretch(e, b[i].seg.seq, b[i].seg.data, m)
  BY <1>5 DEF SenderOK
<1>8. left \in Seq(Buffered) /\ Cleared(b, cb.ack, left)
  BY ONLY <1>5, <1>6, ClearFacts
<1>9. Covers(s)
  BY DEF SenderOK
<1>10. CASE ~("ACK" \in cb.flags /\ less_than_32b(s.snd_una, cb.ack))
  <2>1. t = [s EXCEPT !.snd_wnd = cb.rwnd]
    BY <1>10 DEF handle_ack
  <2>2. /\ t \in Sock /\ t.state = s.state /\ t.rcv_nxt = s.rcv_nxt /\ t.rcv_buf = s.rcv_buf
        /\ t.ofo = s.ofo /\ t.rcv_wnd = s.rcv_wnd /\ t.snd_nxt = s.snd_nxt
        /\ t.chunk = s.chunk /\ t.snd_una = s.snd_una /\ t.send_buf = s.send_buf
    BY <2>1 DEF Sock, Segments
  <2> QED
    BY <2>2 DEF SenderOK, Covers
<1>11. CASE "ACK" \in cb.flags /\ less_than_32b(s.snd_una, cb.ack)
  <2>1. o < k
    BY <1>4, <1>11
  <2>2. PICK timer : timer = (s.timer /\ left # << >>)
    OBVIOUS
  <2>3. t = [[s EXCEPT !.snd_una = cb.ack, !.send_buf = left, !.timer = timer]
               EXCEPT !.snd_wnd = cb.rwnd]
    BY <1>5, <1>11, <2>2 DEF handle_ack
  <2>4. /\ t \in Sock /\ t.state = s.state /\ t.rcv_nxt = s.rcv_nxt /\ t.rcv_buf = s.rcv_buf
        /\ t.ofo = s.ofo /\ t.rcv_wnd = s.rcv_wnd /\ t.snd_nxt = s.snd_nxt
        /\ t.chunk = s.chunk /\ t.snd_una = cb.ack /\ t.send_buf = left
    <3>1. left \in Seq(Buffered) /\ timer \in BOOLEAN
      BY <1>8, <2>2 DEF Sock
    <3>2. PICK ack, rwnd : ack = cb.ack /\ rwnd = cb.rwnd
      OBVIOUS
    <3>3. ack \in SeqNum /\ rwnd \in 1..Capacity
      BY <3>2 DEF Segments
    <3>4. t = [[s EXCEPT !.snd_una = ack, !.send_buf = left, !.timer = timer]
                 EXCEPT !.snd_wnd = rwnd]
      BY <2>3, <3>2
    <3> QED
      BY <3>1, <3>2, <3>3, <3>4 DEF Sock
  <2>5. CASE left = << >> /\ \A i \in 1..Len(b) : less_or_equal_32b(SeqEnd(b[i].seg), cb.ack)
    <3>1. k = m
      <4>1. CASE Len(b) = 0
        <5>1. Num(e, o) = Num(e, m)
          BY <1>3, <1>5, <1>6, <1>9, <4>1 DEF Covers
        <5>2. o = m
          BY <1>0, <1>1, <5>1, NumCompare
        <5> QED
          BY <1>1, <2>1, <5>2
      <4>2. CASE Len(b) # 0
        <5>1. Len(b) \in 1..Len(b) /\ SeqEnd(b[Len(b)].seg) = Num(e, m)
          BY <1>5, <1>6, <1>9, <4>2 DEF Covers
        <5>2. less_or_equal_32b(Num(e, m), Num(e, k))
          BY <1>2, <2>5, <5>1
        <5>3. m <= k
          BY <1>0, <1>1, <5>2, <5>1, NumCompare
        <5> QED
          BY <1>1, <5>3
      <4> QED
        BY <4>1, <4>2
    <3>2. cb.ack = s.snd_nxt /\ Len(left) = 0
      BY <1>2, <1>6, <2>5, <3>1
    <3>3. Covers(t)
      BY <2>4, <3>2 DEF Covers
    <3>4. \A i \in 1..Len(left) : FALSE
      BY <3>2
    <3>5. Acks(e, t.snd_una, r) /\ t.snd_nxt = Num(e, m) /\ m + t.chunk <= ToSend[e]
      BY <1>2, <1>6, <2>4 DEF Acks
    <3> QED
      BY <2>4, <3>3, <3>4, <3>5 DEF SenderOK
  <2>6. ASSUME NEW j \in 1..Len(b),
               ~less_or_equal_32b(SeqEnd(b[j].seg), cb.ack),
               \A i \in 1..(j - 1) : less_or_equal_32b(SeqEnd(b[i].seg), cb.ack),
               Len(left) = Len(b) - j + 1,
               \A i \in 1..Len(left) : left[i] = b[j + i - 1]
        PROVE  SenderOK(e, t, m, r)
    <3>1. PICK n, l : n = Len(b) /\ l = Len(left)
      OBVIOUS
    <3>2. n \in Nat /\ j \in 1..n /\ l = n - j + 1 /\ l \in 1..n
      BY <1>6, <2>6, <3>1
    <3>3. b[j].seg \in Segments /\ Stretch(e, b[j].seg.seq, b[j].seg.data, m)
      <4>1. b[j] \in Buffered
        BY <1>6
      <4> QED
        BY <1>7, <4>1 DEF Buffered
    <3>4. less_than_32b(cb.ack, SeqEnd(b[j].seg))
      <4>1. PICK z \in 0..m : SeqEnd(b[j].seg) = Num(e, z)
        BY <3>3, EndOfStretch
      <4>2. z \in Nat /\ z < Half
        BY <1>1
      <4>3. ~(z <= k)
        BY <1>0, <1>2, <2>6, <4>1, <4>2, NumCompare
      <4>4. k < z
        BY <1>0, <4>2, <4>3
      <4> QED
        BY <1>0, <1>2, <4>1, <4>2, <4>4, NumCompare
    <3>5. less_or_equal_32b(b[j].seg.seq, cb.ack)
      <4>1. CASE j = 1
        <5>1. PICK a \in 0..m : b[j].seg.seq = Num(e, a)
          BY <3>3 DEF Stretch
        <5>0. a \in Nat /\ a < Half
          BY <1>1
        <5>2. less_or_equal_32b(Num(e, a), Num(e, o))
          BY <1>3, <1>5, <1>9, <3>1, <3>2, <4>1, <5>1 DEF Covers
        <5>3. a <= o
          BY <1>0, <5>0, <5>2, NumCompare
        <5>4. a <= k
          BY <1>0, <2>1, <5>0, <5>3
        <5> QED
          BY <1>0, <1>2, <5>0, <5>1, <5>4, NumCompare
      <4>2. CASE j # 1
        <5>1. PICK i : i = j - 1
          OBVIOUS
        <5>2. i \in 1..(n - 1) /\ i \in 1..(j - 1) /\ i + 1 = j
          BY <3>2, <4>2, <5>1
        <5>3. SeqEnd(b[i].seg) = b[i + 1].seg.seq
          BY <1>5, <1>9, <3>1, <5>2 DEF Covers
        <5> QED
          BY <2>6, <5>2, <5>3
      <4> QED
        BY <4>1, <4>2
    <3>6. left[1] = b[j] /\ left[l] = b[n]
      <4>1. 1 \in 1..l /\ l \in 1..l /\ j + 1 - 1 = j /\ j + l - 1 = n
        BY <3>2
      <4>2. left[1] = b[j + 1 - 1] /\ left[l] = b[j + l - 1]
        BY <2>6, <3>1, <4>1
      <4> QED
        BY <4>1, <4>2
    <3>7. SeqEnd(b[n].seg) = s.snd_nxt
      BY <1>5, <1>9, <3>1, <3>2 DEF Covers
    <3>8. ASSUME NEW i \in 1..(l - 1)
          PROVE  SeqEnd(left[i].seg) = left[i + 1].seg.seq
      <4>1. PICK h : h = j + i - 1
        OBVIOUS
      <4>2. h \in 1..(n - 1) /\ i \in 1..l /\ i + 1 \in 1..l /\ j + (i + 1) - 1 = h + 1
        BY <3>2, <4>1
      <4>3. SeqEnd(b[h].seg) = b[h + 1].seg.seq
        BY <1>5, <1>9, <3>1, <4>2 DEF Covers
      <4>4. left[i] = b[h] /\ left[i + 1] = b[h + 1]
        BY <2>6, <3>1, <4>1, <4>2
      <4> QED
        BY <4>3, <4>4
    <3>9. Covers(t)
      <4>1. /\ l # 0
            /\ less_or_equal_32b(left[1].seg.seq, t.snd_una)
            /\ less_than_32b(t.snd_una, SeqEnd(left[1].seg))
            /\ SeqEnd(left[l].seg) = t.snd_nxt
        BY <2>4, <3>2, <3>4, <3>5, <3>6, <3>7
      <4> QED
        BY <2>4, <3>1, <3>8, <4>1 DEF Covers
    <3>10. ASSUME NEW i \in 1..l
           PROVE  Stretch(e, left[i].seg.seq, left[i].seg.data, m)
      <4>1. PICK h : h = j + i - 1
        OBVIOUS
      <4>2. h \in 1..n /\ left[i] = b[h]
        BY <2>6, <3>1, <3>2, <4>1
      <4> QED
        BY <1>7, <3>1, <4>2
    <3> QED
      BY <1>2, <1>6, <2>4, <3>1, <3>9, <3>10 DEF SenderOK, Acks
  <2> QED
    BY <1>8, <2>4, <2>5, <2>6 DEF Cleared
<1> QED
  BY <1>10, <1>11

-----------------------------------------------------------------------------
(***************************************************************************)
(* tcp_process as a whole.                                                 *)
(***************************************************************************)
LEMMA ControlFacts ==
  ASSUME NEW e \in Endpoint, NEW s \in Sock, s.state # "ABORTED",
         NEW g \in Nat, NEW n \in Nat, ReceiverOK(e, s, g, n),
         NEW m \in Nat, s.snd_nxt = Num(e, m),
         NEW flags \in {{"ACK"}, {"RST"}}, NEW seg, seg = ControlPacket(s, flags)
  PROVE  seg \in Segments /\ SegmentOf(e, seg, m, g + Len(s.rcv_buf))
<1>1. seg = [flags |-> flags, seq |-> s.snd_nxt, data |-> << >>,
             ack |-> s.rcv_nxt, rwnd |-> s.rcv_wnd]
  BY DEF ControlPacket
<1>2. << >> \in Seq(Nat) /\ Len(<< >>) = 0
  OBVIOUS
<1>3. seg \in Segments
  BY <1>1, <1>2 DEF Segments, Sock
<1>4. seg.seq = Num(e, m) /\ Len(seg.data) = 0 /\ seg.ack = s.rcv_nxt
  BY <1>1, <1>2
<1>5. Stretch(e, seg.seq, seg.data, m)
  BY <1>4 DEF Stretch, Runs
<1>6. g + Len(s.rcv_buf) \in Nat
  BY DEF Sock
<1>7. Acks(Peer(e), seg.ack, g + Len(s.rcv_buf))
  BY <1>4, <1>6 DEF ReceiverOK, Acks
<1> QED
  BY <1>3, <1>5, <1>7 DEF SegmentOf

(***************************************************************************)
(* What a segment does to a sock and its answer.                           *)
(***************************************************************************)
Processed(e, s, p, g, n, m, r) ==
  /\ p.sock \in Sock /\ Len(s.rcv_buf) <= Len(p.sock.rcv_buf)
  /\ ReceiverOK(e, p.sock, g, n) /\ SenderOK(e, p.sock, m, r)
  /\ p.out \in Seq(Segments)
  /\ \A i \in 1..Len(p.out) : SegmentOf(e, p.out[i], m, g + Len(p.sock.rcv_buf))

LEMMA Answered ==
  ASSUME NEW e, NEW s, NEW g, NEW n, NEW m, NEW r, NEW t \in Sock,
         Len(s.rcv_buf) <= Len(t.rcv_buf), ReceiverOK(e, t, g, n), SenderOK(e, t, m, r),
         NEW seg \in Segments, SegmentOf(e, seg, m, g + Len(t.rcv_buf)),
         NEW p, p = [sock |-> t, out |-> <<seg>>] \/ p = [sock |-> t, out |-> << >>]
  PROVE  Processed(e, s, p, g, n, m, r)
<1>1. p.sock = t
  OBVIOUS
<1>2. PICK o : o = p.out
  OBVIOUS
<1>3. o \in Seq(Segments) /\ \A i \in 1..Len(o) : o[i] = seg
  <2>1. o = <<seg>> \/ o = << >>
    BY <1>2
  <2>2. CASE o = <<seg>>
    BY ONLY <2>2, seg \in Segments
  <2>3. CASE o = << >>
    BY ONLY <2>3
  <2> QED
    BY <2>1, <2>2, <2>3
<1> QED
  BY <1>1, <1>2, <1>3 DEF Processed

LEMMA ProcessKeeps ==
  ASSUME NEW e \in Endpoint, NEW s \in Sock, NEW g \in Nat,
         NEW n \in 0..(Half - 1), NEW m \in 0..(Half - 1), NEW r \in 0..m,
         ReceiverOK(e, s, g, n), SenderOK(e, s, m, r),
         NEW cb \in Segments, Stretch(Peer(e), cb.seq, cb.data, n), Acks(e, cb.ack, r),
         NEW p, p = tcp_process(s, cb)
  PROVE  Processed(e, s, p, g, n, m, r)
<1>1. n \in Nat /\ m \in Nat /\ r \in Nat
  BY SpaceIsTwoHalves
<1>2. Len(s.rcv_buf) \in Nat
  BY DEF Sock
<1>3. s.snd_nxt = Num(e, m)
  BY DEF SenderOK
<1>4. PICK acks : acks = {"ACK"}
  OBVIOUS
<1>5. ASSUME p = [sock |-> s, out |-> << >>]
      PROVE  Processed(e, s, p, g, n, m, r)
  BY <1>2, <1>5 DEF Processed
<1>6. CASE s.state # "ESTABLISHED" \/ OutOfWindow(s, cb)
  BY <1>5, <1>6 DEF tcp_process
<1>7. CASE ~(s.state # "ESTABLISHED" \/ OutOfWindow(s, cb)) /\ Old(s, cb)
  <2>1. PICK seg : seg = ControlPacket(s, acks)
    OBVIOUS
  <2>2. seg \in Segments /\ SegmentOf(e, seg, m, g + Len(s.rcv_buf))
    BY <1>1, <1>3, <1>4, <1>7, <2>1, ControlFacts
  <2>3. p = [sock |-> s, out |-> <<seg>>]
    BY <1>4, <1>7, <2>1 DEF tcp_process
  <2>4. Len(s.rcv_buf) <= Len(s.rcv_buf)
    BY <1>2
  <2> QED
    BY <2>2, <2>3, <2>4, Answered
<1>8. CASE /\ ~(s.state # "ESTABLISHED" \/ OutOfWindow(s, cb)) /\ ~Old(s, cb)
           /\ "RST" \in cb.flags
  <2>1. PICK t : t = [s EXCEPT !.state = "CLOSED"]
    OBVIOUS
  <2>2. /\ t \in Sock /\ t.state = "CLOSED" /\ t.rcv_buf = s.rcv_buf /\ t.rcv_nxt = s.rcv_nxt
        /\ t.ofo = s.ofo /\ t.snd_una = s.snd_una /\ t.snd_nxt = s.snd_nxt
        /\ t.send_buf = s.send_buf /\ t.chunk = s.chunk
    BY <2>1 DEF Sock
  <2>3. ReceiverOK(e, t, g, n) /\ SenderOK(e, t, m, r)
    <3>1. s.state # "ABORTED"
      BY <1>8
    <3>2. ReceiverOK(e, t, g, n)
      BY <2>2, <3>1 DEF ReceiverOK
    <3>3. SenderOK(e, t, m, r)
      BY <2>2 DEF SenderOK
    <3> QED
      BY <3>2, <3>3
  <2>4. p = [sock |-> t, out |-> << >>]
    BY <1>8, <2>1 DEF tcp_process
  <2>5. p.sock = t /\ p.out = << >>
    BY <2>4
  <2> QED
    BY <1>2, <2>2, <2>3, <2>5 DEF Processed
<1>9. CASE /\ ~(s.state # "ESTABLISHED" \/ OutOfWindow(s, cb)) /\ ~Old(s, cb)
           /\ ~("RST" \in cb.flags)
  <2>1. PICK t, u : t = handle_recv_data(s, cb) /\ u = handle_ack(t, cb)
    OBVIOUS
  <2>2. Handled(e, s, t, g, n)
    BY <1>9, <2>1, DataIsHandled
  <2>3. SenderOK(e, t, m, r)
    BY <1>9, <2>2 DEF Handled, SenderOK, Covers
  <2>4. CASE t.state = "ABORTED"
    <3>1. p = [sock |-> t, out |-> << >>]
      BY <1>9, <2>1, <2>4 DEF tcp_process
    <3>2. p.sock = t /\ p.out = << >>
      BY <3>1
    <3> QED
      BY <2>2, <2>3, <3>2 DEF Handled, Processed
  <2>5. CASE t.state # "ABORTED"
    <3>1. t \in Sock /\ t.state = "ESTABLISHED" /\ ReceiverOK(e, t, g, n)
          /\ Len(s.rcv_buf) <= Len(t.rcv_buf)
      BY <2>2, <2>5 DEF Handled
    <3>2. /\ u \in Sock /\ SenderOK(e, u, m, r)
          /\ u.state = t.state /\ u.rcv_nxt = t.rcv_nxt /\ u.rcv_buf = t.rcv_buf
          /\ u.ofo = t.ofo /\ u.rcv_wnd = t.rcv_wnd
      BY <2>1, <2>3, <3>1, AckKeeps
    <3>3. ReceiverOK(e, u, g, n)
      BY <3>1, <3>2 DEF ReceiverOK
    <3>4. PICK seg : seg = ControlPacket(u, acks)
      OBVIOUS
    <3>5. seg \in Segments /\ SegmentOf(e, seg, m, g + Len(u.rcv_buf))
      <4>1. u.snd_nxt = Num(e, m) /\ u.state # "ABORTED"
        BY <3>1, <3>2 DEF SenderOK
      <4> QED
        BY <1>1, <1>4, <3>2, <3>3, <3>4, <4>1, ControlFacts
    <3>6. p = [sock |-> u, out |-> <<seg>>] \/ p = [sock |-> u, out |-> << >>]
      BY <1>4, <1>9, <2>1, <2>5, <3>4 DEF tcp_process
    <3>7. Len(s.rcv_buf) <= Len(u.rcv_buf)
      BY <3>1, <3>2
    <3> QED
      BY <3>2, <3>3, <3>5, <3>6, <3>7, Answered
  <2> QED
    BY <2>4, <2>5
<1> QED
  BY <1>6, <1>7, <1>8, <1>9

-----------------------------------------------------------------------------
(***************************************************************************)
(* What holds of a stream still holds when more of it is written and read. *)
(***************************************************************************)
LEMMA MoreWritten ==
  ASSUME NEW e, NEW seq, NEW data, NEW n \in Nat, NEW k \in Nat, n <= k,
         Stretch(e, seq, data, n), Len(data) \in Nat
  PROVE  Stretch(e, seq, data, k)
<1>1. PICK a \in 0..n : /\ seq = Num(e, a) /\ a + Len(data) <= n /\ Runs(data, a)
  BY DEF Stretch
<1>2. PICK l : l = Len(data)
  OBVIOUS
<1>3. a \in 0..k /\ a + l <= k
  BY <1>1, <1>2
<1> QED
  BY <1>1, <1>2, <1>3 DEF Stretch

LEMMA MoreReceived ==
  ASSUME NEW e, NEW ack, NEW r \in Nat, NEW k \in Nat, r <= k, Acks(e, ack, r)
  PROVE  Acks(e, ack, k)
  BY DEF Acks

LEMMA ReceiverKept ==
  ASSUME NEW e, NEW s \in Sock, NEW g \in Nat, NEW n \in Nat, NEW k \in Nat, n <= k,
         ReceiverOK(e, s, g, n)
  PROVE  ReceiverOK(e, s, g, k)
<1>1. g + Len(s.rcv_buf) <= k
  <2>1. Len(s.rcv_buf) \in Nat
    BY DEF Sock
  <2> QED
    BY <2>1 DEF ReceiverOK
<1>2. ASSUME NEW i \in 1..Len(s.ofo)
      PROVE  Stretch(Peer(e), s.ofo[i].seq, s.ofo[i].data, k)
  <2>1. s.ofo[i] \in Early
    BY DEF Sock
  <2>2. Len(s.ofo[i].data) \in Nat
    BY <2>1 DEF Early
  <2> QED
    BY <2>2, MoreWritten DEF ReceiverOK
<1> QED
  BY <1>1, <1>2 DEF ReceiverOK

LEMMA SenderKept ==
  ASSUME NEW e, NEW s, NEW m, NEW r \in Nat, NEW k \in Nat, r <= k, SenderOK(e, s, m, r)
  PROVE  SenderOK(e, s, m, k)
  BY MoreReceived DEF SenderOK

LEMMA SegmentKept ==
  ASSUME NEW e, NEW seg \in Segments, NEW n \in Nat, NEW k \in Nat, n <= k,
         NEW r \in Nat, NEW q \in Nat, r <= q, SegmentOf(e, seg, n, r)
  PROVE  SegmentOf(e, seg, k, q)
<1>1. Len(seg.data) \in Nat
  BY DEF Segments
<1> QED
  BY <1>1, MoreWritten, MoreReceived DEF SegmentOf

(***************************************************************************)
(* The facts IInv gives about one endpoint.                                *)
(***************************************************************************)
LEMMA Bounds ==
  ASSUME IInv, NEW e \in Endpoint
  PROVE  /\ Peer(e) \in Endpoint /\ Peer(e) # e /\ Peer(Peer(e)) = e
         /\ sk[e] \in Sock /\ net[e] \in Seq(Segments) /\ got[e] \in Seq(Nat)
         /\ Len(got[e]) \in Nat /\ Len(sk[e].rcv_buf) \in Nat
         /\ Received(e) \in 0..wrote[Peer(e)]
         /\ Received(e) = Len(got[e]) + Len(sk[e].rcv_buf)
         /\ wrote[e] \in 0..(Half - 1) /\ wrote[e] + Capacity < Half
         /\ wrote[e] + sk[e].chunk <= ToSend[e]
         /\ Half \in Nat /\ Capacity \in Nat \ {0} /\ ToSend[e] + Capacity < Half
         /\ ToSend[e] \in Nat
         /\ ReceiverOK(e, sk[e], Len(got[e]), wrote[Peer(e)])
         /\ SenderOK(e, sk[e], wrote[e], Received(Peer(e)))
<1>1. Peer(e) \in Endpoint /\ Peer(e) # e /\ Peer(Peer(e)) = e
  BY Peers
<1>2. sk[e] \in Sock /\ net[e] \in Seq(Segments) /\ got[e] \in Seq(Nat)
  BY DEF IInv, Typing
<1>3. Len(got[e]) \in Nat /\ Len(sk[e].rcv_buf) \in Nat
  BY <1>2 DEF Sock
<1>4. /\ ReceiverOK(e, sk[e], Len(got[e]), wrote[Peer(e)])
      /\ SenderOK(e, sk[e], wrote[e], Received(Peer(e)))
  BY DEF IInv
<1>5. Half \in Nat /\ Capacity \in Nat \ {0} /\ ToSend[e] \in Nat /\ ToSend[e] + Capacity < Half
  BY SpaceIsTwoHalves, StreamAssumption DEF IInv, ShortStreams, Half
<1>6. wrote[e] \in Nat /\ wrote[Peer(e)] \in Nat /\ sk[e].chunk \in Nat
  BY <1>1, <1>2 DEF IInv, Typing, Sock
<1>7. wrote[e] + sk[e].chunk <= ToSend[e]
  BY <1>4 DEF SenderOK
<1>8. wrote[e] \in 0..(Half - 1) /\ wrote[e] + Capacity < Half
  BY ONLY <1>5, <1>6, <1>7
<1>9. Received(e) = Len(got[e]) + Len(sk[e].rcv_buf)
  BY DEF Received
<1>10. Received(e) \in 0..wrote[Peer(e)]
  <2>1. Len(got[e]) + Len(sk[e].rcv_buf) <= wrote[Peer(e)]
    BY <1>4 DEF ReceiverOK
  <2>2. PICK x, y, z : x = Len(got[e]) /\ y = Len(sk[e].rcv_buf) /\ z = wrote[Peer(e)]
    OBVIOUS
  <2>3. x \in Nat /\ y \in Nat /\ z \in Nat /\ x + y <= z
    BY <1>3, <1>6, <2>1, <2>2
  <2>4. x + y \in 0..z
    BY ONLY <2>3
  <2> QED
    BY ONLY <1>9, <2>2, <2>4
<1> QED
  BY <1>1, <1>2, <1>3, <1>4, <1>5, <1>6, <1>7, <1>8, <1>9, <1>10

(***************************************************************************)
(* A step of e: its new sock s, the number w of bytes it has written and   *)
(* the bytes a it has read are well formed, and what is new on the links   *)
(* is a segment of e.                                                      *)
(***************************************************************************)
StepOf(e, s, w, a) ==
  /\ sk' = [sk EXCEPT ![e] = s] /\ wrote' = [wrote EXCEPT ![e] = w]
  /\ got' = [got EXCEPT ![e] = a]
  /\ s \in Sock /\ w \in Nat /\ wrote[e] <= w /\ a \in Seq(Nat)
  /\ Received(e) <= Len(a) + Len(s.rcv_buf)
  /\ ReceiverOK(e, s, Len(a), wrote[Peer(e)])
  /\ SenderOK(e, s, w, Received(Peer(e)))

LinksOf(e, r, w) ==
  /\ net' \in [Endpoint -> Seq(Segments)]
  /\ \A x \in Endpoint : Len(net'[x]) <= MaxNet
  /\ \A i \in 1..Len(net'[e]) : \E j \in 1..Len(net[e]) : net'[e][i] = net[e][j]
  /\ \A i \in 1..Len(net'[Peer(e)]) :
       \/ \E j \in 1..Len(net[Peer(e)]) : net'[Peer(e)][i] = net[Peer(e)][j]
       \/ SegmentOf(e, net'[Peer(e)][i], w, r)

LEMMA StepKeepsInv ==
  ASSUME IInv, NEW e \in Endpoint, NEW s, NEW w, NEW a, StepOf(e, s, w, a),
         NEW r, r = Len(a) + Len(s.rcv_buf), LinksOf(e, r, w)
  PROVE  IInv'
<1>1. PICK p : p = Peer(e)
  OBVIOUS
<1>2. p \in Endpoint /\ p # e /\ Peer(p) = e /\ \A x \in Endpoint : x = e \/ x = p
  BY <1>1, Peers
<1>3. Typing /\ ShortStreams
  BY DEF IInv
<1>4. /\ sk' \in [Endpoint -> Sock] /\ wrote' \in [Endpoint -> Nat]
      /\ got' \in [Endpoint -> Seq(Nat)] /\ net' \in [Endpoint -> Seq(Segments)]
  BY <1>3 DEF Typing, StepOf, LinksOf
<1>5. /\ sk'[e] = s /\ wrote'[e] = w /\ got'[e] = a
      /\ sk'[p] = sk[p] /\ wrote'[p] = wrote[p] /\ got'[p] = got[p]
  BY <1>2, <1>3 DEF Typing, StepOf
<1>6. Received(e)' = r /\ Received(p)' = Received(p)
  BY <1>5 DEF Received
<1>7. /\ Received(e) \in Nat /\ Received(p) \in Nat /\ wrote[e] \in Nat /\ wrote[p] \in Nat
      /\ w \in Nat /\ r \in Nat /\ Received(e) <= r /\ wrote[e] <= w
  <2>1. Received(e) \in Nat /\ Received(p) \in Nat /\ wrote[e] \in Nat /\ wrote[p] \in Nat
    <3>1. Received(e) \in 0..wrote[Peer(e)] /\ wrote[e] \in Nat
      BY <1>3, Bounds DEF Typing
    <3>2. Received(p) \in 0..wrote[Peer(p)] /\ wrote[p] \in Nat
      BY <1>2, <1>3, Bounds DEF Typing
    <3> QED
      BY <1>1, <1>2, <3>1, <3>2
  <2>2. r \in Nat
    BY DEF StepOf, Sock
  <2> QED
    BY <2>1, <2>2 DEF StepOf
<1>8. ReceiverOK(e, s, Len(a), wrote[p]) /\ SenderOK(e, s, w, Received(p))
  BY <1>1 DEF StepOf
<1>9. ReceiverOK(p, sk[p], Len(got[p]), w)
  <2>1. ReceiverOK(p, sk[p], Len(got[p]), wrote[e])
    BY <1>2 DEF IInv
  <2>2. sk[p] \in Sock /\ Len(got[p]) \in Nat
    BY <1>2, <1>3 DEF Typing
  <2> QED
    BY <1>7, <2>1, <2>2, ReceiverKept
<1>10. SenderOK(p, sk[p], wrote[p], r)
  <2>1. SenderOK(p, sk[p], wrote[p], Received(e))
    BY <1>2 DEF IInv
  <2> QED
    BY <1>7, <2>1, SenderKept
<1>11. ASSUME NEW i \in 1..Len(net'[e])
       PROVE  SegmentOf(p, net'[e][i], wrote[p], Received(p))
  <2>1. PICK j \in 1..Len(net[e]) : net'[e][i] = net[e][j]
    BY DEF LinksOf
  <2>2. SegmentOf(p, net[e][j], wrote[p], Received(p))
    BY <1>1 DEF IInv
  <2> QED
    BY <2>1, <2>2
<1>12. ASSUME NEW i \in 1..Len(net'[p])
       PROVE  SegmentOf(e, net'[p][i], w, r)
  <2>1. CASE SegmentOf(e, net'[p][i], w, r)
    BY <2>1
  <2>2. CASE \E j \in 1..Len(net[p]) : net'[p][i] = net[p][j]
    <3>1. PICK j \in 1..Len(net[p]) : net'[p][i] = net[p][j]
      BY <2>2
    <3>2. SegmentOf(e, net[p][j], wrote[e], Received(e))
      BY <1>2 DEF IInv
    <3>3. net[p][j] \in Segments
      BY <1>2, <1>3 DEF Typing
    <3> QED
      BY <1>7, <3>1, <3>2, <3>3, SegmentKept
  <2> QED
    BY <1>1, <2>1, <2>2 DEF LinksOf
<1>13. ASSUME NEW x \in Endpoint
       PROVE  /\ Len(net'[x]) <= MaxNet
              /\ ReceiverOK(x, sk'[x], Len(got'[x]), wrote'[Peer(x)])
              /\ SenderOK(x, sk'[x], wrote'[x], Received(Peer(x))')
              /\ \A i \in 1..Len(net'[x]) :
                   SegmentOf(Peer(x), net'[x][i], wrote'[Peer(x)], Received(Peer(x))')
  <2>1. Len(net'[x]) <= MaxNet
    BY DEF LinksOf
  <2>2. CASE x = e
    BY <1>1, <1>5, <1>6, <1>8, <1>11, <2>1, <2>2
  <2>3. CASE x = p
    BY <1>2, <1>5, <1>6, <1>9, <1>10, <1>12, <2>1, <2>3
  <2> QED
    BY <1>2, <2>2, <2>3
<1>14. Typing'
  BY <1>4 DEF Typing
<1>15. ShortStreams'
  BY <1>3 DEF ShortStreams
<1> QED
  BY <1>13, <1>14, <1>15 DEF IInv
-----------------------------------------------------------------------------
(***************************************************************************)
(* The links after a step of e.                                            *)
(***************************************************************************)
LEMMA LinksSame ==
  ASSUME IInv, NEW e \in Endpoint, NEW r, NEW w, UNCHANGED net
  PROVE  LinksOf(e, r, w)
<1>1. net \in [Endpoint -> Seq(Segments)] /\ \A x \in Endpoint : Len(net[x]) <= MaxNet
  BY DEF IInv, Typing
<1> QED
  BY <1>1 DEF LinksOf

LEMMA LinksReceived ==
  ASSUME IInv, NEW e \in Endpoint, NEW r, NEW w, NEW i \in 1..Len(net[e]),
         NEW segs \in Seq(Segments), \A k \in 1..Len(segs) : SegmentOf(e, segs[k], w, r),
         net' = [net EXCEPT ![e] = RemoveAt(@, i), ![Peer(e)] = Sent(@, segs)]
  PROVE  LinksOf(e, r, w)
<1>1. PICK p : p = Peer(e)
  OBVIOUS
<1>2. p \in Endpoint /\ p # e /\ \A x \in Endpoint : x = e \/ x = p
  BY <1>1, Peers
<1>3. net \in [Endpoint -> Seq(Segments)] /\ \A x \in Endpoint : Len(net[x]) <= MaxNet
  BY DEF IInv, Typing
<1>4. PICK a, b : a = RemoveAt(net[e], i) /\ b = Sent(net[p], segs)
  OBVIOUS
<1>5. a \in Seq(Segments) /\ Len(a) = Len(net[e]) - 1
      /\ \A k \in 1..(Len(net[e]) - 1) : a[k] = net[e][IF k < i THEN k ELSE k + 1]
  <2>1. net[e] \in Seq(Segments)
    BY <1>3
  <2> QED
    BY <1>4, <2>1, RemoveAtFacts
<1>6. /\ b \in Seq(Segments) /\ Len(b) <= MaxNet
      /\ \A k \in 1..Len(b) : \/ \E j \in 1..Len(net[p]) : b[k] = net[p][j]
                              \/ \E j \in 1..Len(segs) : b[k] = segs[j]
  <2>1. net[p] \in Seq(Segments)
    BY <1>2, <1>3
  <2> QED
    BY <1>4, <2>1, SentFacts
<1>7. net' = [net EXCEPT ![e] = a, ![p] = b]
  BY <1>1, <1>2, <1>3, <1>4
<1>8. net' \in [Endpoint -> Seq(Segments)] /\ net'[e] = a /\ net'[p] = b
  BY <1>2, <1>3, <1>5, <1>6, <1>7
<1>9. Len(a) <= MaxNet
  <2>1. PICK l : l = Len(net[e])
    OBVIOUS
  <2>2. l \in Nat /\ l <= MaxNet /\ Len(a) = l - 1 /\ MaxNet \in Nat
    BY <1>3, <1>5, <2>1, StreamAssumption
  <2> QED
    BY ONLY <2>2
<1>10. ASSUME NEW k \in 1..Len(a)
       PROVE  \E j \in 1..Len(net[e]) : a[k] = net[e][j]
  <2>1. PICK j : j = IF k < i THEN k ELSE k + 1
    OBVIOUS
  <2>2. PICK l : l = Len(net[e])
    OBVIOUS
  <2>3. l \in Nat /\ k \in 1..(l - 1)
    BY <1>3, <1>5, <2>2
  <2>4. j \in 1..l
    BY <2>1, <2>3
  <2>5. a[k] = net[e][j]
    BY <1>5, <2>1, <2>2, <2>3
  <2> QED
    BY <2>2, <2>4, <2>5
<1>11. ASSUME NEW k \in 1..Len(b)
       PROVE  \/ \E j \in 1..Len(net[p]) : b[k] = net[p][j]
              \/ SegmentOf(e, b[k], w, r)
  BY <1>6
<1>12. \A x \in Endpoint : Len(net'[x]) <= MaxNet
  BY <1>2, <1>6, <1>8, <1>9
<1>13. \A k \in 1..Len(net'[e]) : \E j \in 1..Len(net[e]) : net'[e][k] = net[e][j]
  BY <1>8, <1>10
<1>14. \A k \in 1..Len(net'[p]) : \/ \E j \in 1..Len(net[p]) : net'[p][k] = net[p][j]
                                \/ SegmentOf(e, net'[p][k], w, r)
  BY <1>8, <1>11
<1> QED
  BY <1>1, <1>8, <1>12, <1>13, <1>14 DEF LinksOf

LEMMA LinksSent ==
  ASSUME IInv, NEW e \in Endpoint, NEW r, NEW w,
         NEW segs \in Seq(Segments), \A k \in 1..Len(segs) : SegmentOf(e, segs[k], w, r),
         net' = [net EXCEPT ![Peer(e)] = Sent(@, segs)]
  PROVE  LinksOf(e, r, w)
<1>1. PICK p : p = Peer(e)
  OBVIOUS
<1>2. p \in Endpoint /\ p # e /\ \A x \in Endpoint : x = e \/ x = p
  BY <1>1, Peers
<1>3. net \in [Endpoint -> Seq(Segments)] /\ \A x \in Endpoint : Len(net[x]) <= MaxNet
  BY DEF IInv, Typing
<1>4. PICK b : b = Sent(net[p], segs)
  OBVIOUS
<1>5. /\ b \in Seq(Segments) /\ Len(b) <= MaxNet
      /\ \A k \in 1..Len(b) : \/ \E j \in 1..Len(net[p]) : b[k] = net[p][j]
                              \/ \E j \in 1..Len(segs) : b[k] = segs[j]
  <2>1. net[p] \in Seq(Segments)
    BY <1>2, <1>3
  <2> QED
    BY <1>4, <2>1, SentFacts
<1>6. net' = [net EXCEPT ![p] = b]
  BY <1>1, <1>2, <1>3, <1>4
<1>7. net' \in [Endpoint -> Seq(Segments)] /\ net'[e] = net[e] /\ net'[p] = b
  BY <1>2, <1>3, <1>5, <1>6
<1>8. \A x \in Endpoint : Len(net'[x]) <= MaxNet
  BY <1>2, <1>3, <1>5, <1>7
<1> QED
  BY <1>1, <1>5, <1>7, <1>8 DEF LinksOf

LEMMA LinksLose ==
  ASSUME IInv, NEW e \in Endpoint, NEW r, NEW w, NEW i \in 1..Len(net[e]),
         net' = [net EXCEPT ![e] = RemoveAt(@, i)]
  PROVE  LinksOf(e, r, w)
<1>1. PICK p : p = Peer(e)
  OBVIOUS
<1>2. p \in Endpoint /\ p # e /\ \A x \in Endpoint : x = e \/ x = p
  BY <1>1, Peers
<1>3. net \in [Endpoint -> Seq(Segments)] /\ \A x \in Endpoint : Len(net[x]) <= MaxNet
  BY DEF IInv, Typing
<1>4. PICK a, l : a = RemoveAt(net[e], i) /\ l = Len(net[e])
  OBVIOUS
<1>5. /\ a \in Seq(Segments) /\ Len(a) = l - 1 /\ l \in Nat /\ l <= MaxNet
      /\ \A k \in 1..(l - 1) : a[k] = net[e][IF k < i THEN k ELSE k + 1]
  <2>1. net[e] \in Seq(Segments)
    BY <1>3
  <2> QED
    BY <1>3, <1>4, <2>1, RemoveAtFacts
<1>6. net' \in [Endpoint -> Seq(Segments)] /\ net'[e] = a /\ net'[p] = net[p]
  BY <1>2, <1>3, <1>4, <1>5
<1>7. \A x \in Endpoint : Len(net'[x]) <= MaxNet
  <2>1. MaxNet \in Nat
    BY StreamAssumption
  <2>2. l - 1 <= MaxNet
    BY ONLY <1>5, <2>1
  <2> QED
    BY <1>2, <1>3, <1>5, <1>6, <2>2
<1>8. ASSUME NEW k \in 1..Len(a)
      PROVE  \E j \in 1..Len(net[e]) : a[k] = net[e][j]
  <2>1. PICK j : j = IF k < i THEN k ELSE k + 1
    OBVIOUS
  <2>2. k \in 1..(l - 1)
    BY <1>5
  <2>3. j \in 1..l
    BY <1>5, <2>1, <2>2
  <2>4. a[k] = net[e][j]
    BY <1>5, <2>1, <2>2
  <2> QED
    BY <1>4, <2>3, <2>4
<1> QED
  BY <1>1, <1>6, <1>7, <1>8 DEF LinksOf
-----------------------------------------------------------------------------
(***************************************************************************)
(* The invariant holds at the start, and every step keeps it.              *)
(***************************************************************************)
LEMMA InitGivesInv == Init /\ ShortStreams => IInv
<1> SUFFICES ASSUME Init, ShortStreams PROVE IInv
  OBVIOUS
<1>1. << >> \in Seq(Nat) /\ << >> \in Seq(Early) /\ << >> \in Seq(Buffered)
      /\ << >> \in Seq(Segments) /\ Len(<< >>) = 0
  OBVIOUS
<1>2. Capacity \in 1..Capacity /\ Capacity \in Nat /\ MaxNet \in Nat
  BY StreamAssumption
<1>3. 0 \in 0..(Half - 1) /\ 0 \in 0..0
  BY SpaceIsTwoHalves
<1>4. ASSUME NEW e \in Endpoint
      PROVE  /\ Peer(e) \in Endpoint
             /\ sk[e] = Established(e) /\ wrote[e] = 0 /\ got[e] = << >> /\ net[e] = << >>
             /\ Num(e, 0) \in SeqNum /\ Num(e, 0) = Plus(ISS[e], 1)
             /\ ToSend[e] \in Nat
  <2>1. 1 + 0 = 1
    OBVIOUS
  <2>2. Num(e, 0) \in SeqNum
    BY <1>3, NumType
  <2> QED
    BY <2>1, <2>2, Peers, StreamAssumption DEF Init, Num
<1>5. ASSUME NEW e \in Endpoint
      PROVE  /\ sk[e] \in Sock
             /\ sk[e].snd_una = Num(e, 0) /\ sk[e].snd_nxt = Num(e, 0)
             /\ sk[e].rcv_nxt = Num(Peer(e), 0) /\ sk[e].chunk = 0
             /\ sk[e].rcv_buf = << >> /\ sk[e].ofo = << >> /\ sk[e].send_buf = << >>
  <2>1. PICK x, y : x = Plus(ISS[e], 1) /\ y = Plus(ISS[Peer(e)], 1)
    OBVIOUS
  <2>2. x = Num(e, 0) /\ y = Num(Peer(e), 0) /\ x \in SeqNum /\ y \in SeqNum
    BY <1>4, <2>1
  <2>3. sk[e] = [state |-> "ESTABLISHED", snd_una |-> x, snd_nxt |-> x,
                 snd_wnd |-> Capacity, send_buf |-> << >>, timer |-> FALSE,
                 rcv_nxt |-> y, rcv_wnd |-> Capacity,
                 rcv_buf |-> << >>, ofo |-> << >>, chunk |-> 0]
    BY <1>4, <2>1 DEF Established
  <2> QED
    BY <1>1, <1>2, <2>2, <2>3 DEF Sock
<1>6. Typing
  <2>1. sk \in [Endpoint -> Sock]
    BY <1>5 DEF Init
  <2> QED
    BY <1>1, <2>1 DEF Init, Typing
<1>7. ASSUME NEW e \in Endpoint
      PROVE  ReceiverOK(e, sk[e], Len(got[e]), wrote[Peer(e)])
  <2>1. Len(got[e]) = 0 /\ wrote[Peer(e)] = 0
    BY <1>1, <1>4
  <2>2. PICK s : s = sk[e]
    OBVIOUS
  <2>3. s.rcv_buf = << >> /\ s.ofo = << >> /\ s.rcv_nxt = Num(Peer(e), 0)
    BY <1>5, <2>2
  <2>4. ReceiverOK(e, s, 0, 0)
    BY <1>1, <1>2, <2>3 DEF ReceiverOK, Runs
  <2> QED
    BY <2>1, <2>2, <2>4
<1>8. ASSUME NEW e \in Endpoint
      PROVE  SenderOK(e, sk[e], wrote[e], Received(Peer(e)))
  <2>1. wrote[e] = 0 /\ Received(Peer(e)) = 0
    <3>1. PICK p : p = Peer(e)
      OBVIOUS
    <3>2. got[p] = << >> /\ sk[p].rcv_buf = << >> /\ wrote[e] = 0
      BY <1>4, <1>5, <3>1
    <3>3. Len(got[p]) + Len(sk[p].rcv_buf) = 0
      BY <3>2
    <3> QED
      BY <3>1, <3>2, <3>3 DEF Received
  <2>2. PICK s : s = sk[e]
    OBVIOUS
  <2>3. s.send_buf = << >> /\ s.snd_una = Num(e, 0) /\ s.snd_nxt = Num(e, 0) /\ s.chunk = 0
    BY <1>5, <2>2
  <2>4. SenderOK(e, s, 0, 0)
    <3>1. Covers(s)
      BY <1>1, <2>3 DEF Covers
    <3>2. Acks(e, s.snd_una, 0)
      BY <1>3, <2>3 DEF Acks
    <3> QED
      BY <1>1, <1>4, <2>3, <3>1, <3>2 DEF SenderOK
  <2> QED
    BY <2>1, <2>2, <2>4
<1>9. ASSUME NEW e \in Endpoint
      PROVE  Len(net[e]) = 0
  BY <1>1, <1>4
<1> QED
  BY <1>2, <1>6, <1>7, <1>8, <1>9 DEF IInv

(***************************************************************************)
(* A chunk that fits the window leaves the sender within its stream.       *)
(***************************************************************************)
LEMMA ChunkFacts ==
  ASSUME NEW e \in Endpoint, NEW s \in Sock, NEW m \in Nat, NEW r \in 0..m,
         m + Capacity < Half, s.snd_nxt = Num(e, m), Acks(e, s.snd_una, r),
         ~WindowFull(s), NEW len \in Nat \ {0}
  PROVE  SendLen(s, len) \in 1..len
<1>1. PICK u \in 0..r : s.snd_una = Num(e, u)
  BY DEF Acks
<1>2. PICK w : w = s.snd_wnd
  OBVIOUS
<1>3. w \in 1..Capacity /\ Capacity \in Nat /\ Half \in Nat /\ MSS \in Nat \ {0}
  BY <1>2, SpaceIsTwoHalves, StreamAssumption DEF Sock
<1>4. u \in Nat /\ w \in Nat /\ u + w < Half /\ m < Half /\ u + w \in Nat
  BY <1>1, <1>3
<1>5. Plus(s.snd_una, w) = Num(e, u + w)
  BY <1>1, <1>4, NumPlus
<1>6. PICK z : z = u + w
  OBVIOUS
<1>7. ~greater_or_equal_32b(Num(e, m), Num(e, z))
  BY <1>2, <1>5, <1>6 DEF WindowFull
<1>8. z \in Nat /\ z < Half
  BY <1>4, <1>6
<1>9. m < z
  BY <1>4, <1>7, <1>8, NumCompare
<1>10. Diff(Num(e, z), Num(e, m)) = z - m
  BY <1>4, <1>8, NumDiff
<1>11. SendLen(s, len) = Smaller(Smaller(len, MSS), z - m)
  BY <1>2, <1>5, <1>6, <1>10 DEF SendLen
<1> QED
  BY <1>3, <1>8, <1>9, <1>11 DEF Smaller

LEMMA CutChunkKeepsInv ==
  ASSUME IInv, NEW e \in Endpoint, CutChunk(e)
  PROVE  IInv'
<1>1. PICK s, w, a : s = sk[e] /\ w = wrote[e] /\ a = got[e]
  OBVIOUS
<1>2. PICK len \in 1..(ToSend[e] - w) : sk' = [sk EXCEPT ![e].chunk = SendLen(s, len)]
  BY <1>1 DEF CutChunk
<1>3. /\ s \in Sock /\ a \in Seq(Nat) /\ w \in 0..(Half - 1) /\ w + Capacity < Half
      /\ ToSend[e] \in Nat /\ Half \in Nat
      /\ ReceiverOK(e, s, Len(a), wrote[Peer(e)]) /\ SenderOK(e, s, w, Received(Peer(e)))
      /\ Received(e) = Len(a) + Len(s.rcv_buf)
      /\ Received(e) \in Nat /\ Received(Peer(e)) \in 0..w
  <2>1. Received(Peer(e)) \in 0..wrote[e]
    BY Bounds, Peers
  <2>2. Received(e) \in Nat
    <3>1. Received(e) \in 0..wrote[Peer(e)] /\ wrote[Peer(e)] \in Nat
      BY Bounds, Peers DEF IInv, Typing
    <3> QED
      BY <3>1
  <2> QED
    BY <1>1, <2>1, <2>2, Bounds
<1>4. SendLen(s, len) \in 1..len
  <2>1. s.snd_nxt = Num(e, w) /\ Acks(e, s.snd_una, Received(Peer(e)))
    BY <1>3 DEF SenderOK
  <2>2. ~WindowFull(s) /\ len \in Nat \ {0} /\ w \in Nat
    BY <1>1, <1>2, <1>3 DEF CutChunk
  <2> QED
    BY <1>3, <2>1, <2>2, ChunkFacts
<1>5. PICK c, t : c = SendLen(s, len) /\ t = [s EXCEPT !.chunk = c]
  OBVIOUS
<1>6. c \in Nat /\ w + c <= ToSend[e]
  BY <1>2, <1>3, <1>4, <1>5
<1>7. /\ t \in Sock /\ t.chunk = c /\ t.state = s.state /\ t.rcv_buf = s.rcv_buf
      /\ t.rcv_nxt = s.rcv_nxt /\ t.ofo = s.ofo /\ t.snd_una = s.snd_una
      /\ t.snd_nxt = s.snd_nxt /\ t.send_buf = s.send_buf
  BY <1>3, <1>5, <1>6 DEF Sock
<1>8. ReceiverOK(e, t, Len(a), wrote[Peer(e)])
  BY <1>3, <1>7 DEF ReceiverOK
<1>9. SenderOK(e, t, w, Received(Peer(e)))
  BY <1>3, <1>6, <1>7 DEF SenderOK, Covers
<1>10. StepOf(e, t, w, a)
  <2>1. sk' = [sk EXCEPT ![e] = t]
    BY <1>1, <1>2, <1>5
  <2>2. wrote' = [wrote EXCEPT ![e] = w] /\ got' = [got EXCEPT ![e] = a]
    BY <1>1 DEF CutChunk, IInv, Typing
  <2>3. w \in Nat /\ wrote[e] <= w /\ Received(e) <= Len(a) + Len(t.rcv_buf)
    BY <1>1, <1>3, <1>7
  <2> QED
    BY <1>3, <1>7, <1>8, <1>9, <2>1, <2>2, <2>3 DEF StepOf
<1>11. PICK r : r = Len(a) + Len(t.rcv_buf)
  OBVIOUS
<1>12. LinksOf(e, r, w)
  BY LinksSame DEF CutChunk
<1> QED
  BY <1>10, <1>11, <1>12, StepKeepsInv

LEMMA LoseKeepsInv ==
  ASSUME IInv, NEW e \in Endpoint, Lose(e)
  PROVE  IInv'
<1>1. PICK s, w, a : s = sk[e] /\ w = wrote[e] /\ a = got[e]
  OBVIOUS
<1>2. PICK i \in 1..Len(net[e]) : net' = [net EXCEPT ![e] = RemoveAt(@, i)]
  <2>1. net[e] \in Seq(Segments)
    BY DEF IInv, Typing
  <2>2. Arrived(e) \subseteq 1..Len(net[e])
    BY <2>1 DEF Arrived
  <2> QED
    BY <2>2 DEF Lose
<1>3. StepOf(e, s, w, a)
  <2>1. sk' = [sk EXCEPT ![e] = s] /\ wrote' = [wrote EXCEPT ![e] = w]
        /\ got' = [got EXCEPT ![e] = a]
    BY <1>1 DEF Lose, IInv, Typing
  <2>2. s \in Sock /\ w \in Nat /\ a \in Seq(Nat) /\ wrote[e] <= w
    BY <1>1 DEF IInv, Typing
  <2>3. Received(e) \in Nat /\ Received(e) = Len(a) + Len(s.rcv_buf)
    <3>1. Received(e) \in 0..wrote[Peer(e)] /\ wrote[Peer(e)] \in Nat
      BY Bounds, Peers DEF IInv, Typing
    <3>2. Received(e) = Len(got[e]) + Len(sk[e].rcv_buf)
      BY Bounds
    <3>3. Received(e) \in Nat
      BY <3>1
    <3> QED
      BY <1>1, <3>2, <3>3
  <2>4. ReceiverOK(e, s, Len(a), wrote[Peer(e)]) /\ SenderOK(e, s, w, Received(Peer(e)))
    BY <1>1, Bounds
  <2>5. Received(e) <= Len(a) + Len(s.rcv_buf)
    BY <2>3
  <2> QED
    BY <2>1, <2>2, <2>4, <2>5 DEF StepOf
<1>4. PICK r : r = Len(a) + Len(s.rcv_buf)
  OBVIOUS
<1>5. LinksOf(e, r, w)
  BY <1>2, LinksLose
<1> QED
  BY <1>3, <1>4, <1>5, StepKeepsInv

LEMMA GiveUpKeepsInv ==
  ASSUME IInv, NEW e \in Endpoint, GiveUp(e)
  PROVE  IInv'
<1>1. PICK s, w, a : s = sk[e] /\ w = wrote[e] /\ a = got[e]
  OBVIOUS
<1>2. PICK t : t = [s EXCEPT !.state = "CLOSED", !.timer = FALSE]
  OBVIOUS
<1>3. /\ s \in Sock /\ a \in Seq(Nat) /\ w \in Nat /\ s.state = "ESTABLISHED"
      /\ ReceiverOK(e, s, Len(a), wrote[Peer(e)]) /\ SenderOK(e, s, w, Received(Peer(e)))
      /\ wrote[Peer(e)] \in Nat
      /\ Received(e) = Len(a) + Len(s.rcv_buf) /\ Received(e) \in Nat
  <2>1. Received(e) \in 0..wrote[Peer(e)] /\ wrote[Peer(e)] \in Nat /\ wrote[e] \in Nat
    BY Bounds, Peers DEF IInv, Typing
  <2>2. Received(e) \in Nat
    BY <2>1
  <2> QED
    BY <1>1, <2>1, <2>2, Bounds DEF GiveUp, TimerExpired
<1>4. /\ t \in Sock /\ t.chunk = s.chunk /\ t.state = "CLOSED" /\ t.rcv_buf = s.rcv_buf
      /\ t.rcv_nxt = s.rcv_nxt /\ t.ofo = s.ofo /\ t.snd_una = s.snd_una
      /\ t.snd_nxt = s.snd_nxt /\ t.send_buf = s.send_buf
  BY <1>2, <1>3 DEF Sock
<1>5. ReceiverOK(e, t, Len(a), wrote[Peer(e)])
  BY <1>3, <1>4 DEF ReceiverOK
<1>6. SenderOK(e, t, w, Received(Peer(e)))
  BY <1>3, <1>4 DEF SenderOK
<1>7. StepOf(e, t, w, a)
  <2>1. sk' = [sk EXCEPT ![e] = t]
    BY <1>1, <1>2 DEF GiveUp
  <2>2. wrote' = [wrote EXCEPT ![e] = w] /\ got' = [got EXCEPT ![e] = a]
    BY <1>1 DEF GiveUp, IInv, Typing
  <2>3. wrote[e] <= w /\ Received(e) <= Len(a) + Len(t.rcv_buf)
    BY <1>1, <1>3, <1>4
  <2> QED
    BY <1>3, <1>4, <1>5, <1>6, <2>1, <2>2, <2>3 DEF StepOf
<1>8. PICK r, rst, seg, segs : /\ r = Len(a) + Len(t.rcv_buf) /\ rst = {"RST"}
                               /\ seg = ControlPacket(s, rst) /\ segs = <<seg>>
  OBVIOUS
<1>9. seg \in Segments /\ SegmentOf(e, seg, w, r)
  <2>1. s.state # "ABORTED" /\ s.snd_nxt = Num(e, w)
    BY <1>3 DEF SenderOK
  <2>2. rst \in {{"ACK"}, {"RST"}} /\ Len(a) \in Nat
    BY <1>3, <1>8
  <2>3. SegmentOf(e, seg, w, Len(a) + Len(s.rcv_buf)) /\ seg \in Segments
    BY <1>3, <1>8, <2>1, <2>2, ControlFacts
  <2> QED
    BY <1>4, <1>8, <2>3
<1>10. segs \in Seq(Segments) /\ \A k \in 1..Len(segs) : SegmentOf(e, segs[k], w, r)
  <2>1. segs \in Seq(Segments) /\ \A k \in 1..Len(segs) : segs[k] = seg
    BY ONLY <1>8, <1>9
  <2> QED
    BY <1>9, <2>1
<1>11. net' = [net EXCEPT ![Peer(e)] = Sent(@, segs)]
  BY <1>1, <1>8 DEF GiveUp
<1>12. LinksOf(e, r, w)
  BY <1>10, <1>11, LinksSent
<1> QED
  BY <1>7, <1>8, <1>12, StepKeepsInv
LEMMA ReceiveKeepsInv ==
  ASSUME IInv, NEW e \in Endpoint, Receive(e)
  PROVE  IInv'
<1>1. PICK s, w, a, n, m : /\ s = sk[e] /\ w = wrote[e] /\ a = got[e]
                           /\ n = wrote[Peer(e)] /\ m = Received(Peer(e))
  OBVIOUS
<1>2. PICK i \in 1..Len(net[e]) :
        /\ sk' = [sk EXCEPT ![e] = tcp_process(s, net[e][i]).sock]
        /\ net' = [net EXCEPT ![e] = RemoveAt(@, i),
                              ![Peer(e)] = Sent(@, tcp_process(s, net[e][i]).out)]
        /\ UNCHANGED <<wrote, got>>
  <2>1. net[e] \in Seq(Segments)
    BY DEF IInv, Typing
  <2>2. Arrived(e) \subseteq 1..Len(net[e])
    BY <2>1 DEF Arrived
  <2> QED
    BY <1>1, <2>2 DEF Receive
<1>3. PICK cb, p, t, segs : /\ cb = net[e][i] /\ p = tcp_process(s, cb)
                            /\ t = p.sock /\ segs = p.out
  OBVIOUS
<1>4. /\ s \in Sock /\ a \in Seq(Nat) /\ w \in 0..(Half - 1) /\ w \in Nat
      /\ Len(a) \in Nat /\ n \in 0..(Half - 1) /\ m \in 0..w
      /\ ReceiverOK(e, s, Len(a), n) /\ SenderOK(e, s, w, m)
      /\ Received(e) = Len(a) + Len(s.rcv_buf)
  <2>1. wrote[Peer(e)] \in 0..(Half - 1) /\ Received(Peer(e)) \in 0..wrote[e]
    BY Bounds, Peers
  <2>2. w \in Nat
    BY <1>1 DEF IInv, Typing
  <2> QED
    BY <1>1, <2>1, <2>2, Bounds
<1>5. cb \in Segments /\ Stretch(Peer(e), cb.seq, cb.data, n) /\ Acks(e, cb.ack, m)
  <2>1. SegmentOf(Peer(e), cb, n, m)
    BY <1>1, <1>3 DEF IInv
  <2>2. cb \in Segments
    <3>1. net[e] \in Seq(Segments)
      BY DEF IInv, Typing
    <3> QED
      BY <1>3, <3>1
  <2> QED
    BY <2>1, <2>2, Peers DEF SegmentOf
<1>6. Processed(e, s, p, Len(a), n, w, m)
  <2>1. PICK g : g = Len(a)
    OBVIOUS
  <2>2. Processed(e, s, p, g, n, w, m)
    BY <1>3, <1>4, <1>5, <2>1, ProcessKeeps
  <2> QED
    BY <2>1, <2>2
<1>7. /\ t \in Sock /\ Len(s.rcv_buf) <= Len(t.rcv_buf)
      /\ ReceiverOK(e, t, Len(a), n) /\ SenderOK(e, t, w, m)
      /\ segs \in Seq(Segments)
      /\ \A k \in 1..Len(segs) : SegmentOf(e, segs[k], w, Len(a) + Len(t.rcv_buf))
  BY <1>3, <1>6 DEF Processed
<1>8. StepOf(e, t, w, a)
  <2>1. sk' = [sk EXCEPT ![e] = t]
    BY <1>2, <1>3
  <2>2. wrote' = [wrote EXCEPT ![e] = w] /\ got' = [got EXCEPT ![e] = a]
    BY <1>1, <1>2 DEF IInv, Typing
  <2>3. Received(e) <= Len(a) + Len(t.rcv_buf) /\ wrote[e] <= w
    <3>1. PICK x, y, z : x = Len(a) /\ y = Len(s.rcv_buf) /\ z = Len(t.rcv_buf)
      OBVIOUS
    <3>2. x \in Nat /\ y \in Nat /\ z \in Nat /\ y <= z
      <4>1. s.rcv_buf \in Seq(Nat) /\ t.rcv_buf \in Seq(Nat)
        BY <1>4, <1>7 DEF Sock
      <4> QED
        BY <1>4, <1>7, <3>1, <4>1
    <3>3. x + y <= x + z
      BY ONLY <3>2
    <3>4. wrote[e] <= w
      BY <1>1, <1>4
    <3> QED
      BY <1>4, <3>1, <3>3, <3>4
  <2> QED
    BY <1>1, <1>4, <1>7, <2>1, <2>2, <2>3 DEF StepOf
<1>9. PICK r : r = Len(a) + Len(t.rcv_buf)
  OBVIOUS
<1>10. net' = [net EXCEPT ![e] = RemoveAt(@, i), ![Peer(e)] = Sent(@, segs)]
  BY <1>2, <1>3
<1>11. LinksOf(e, r, w)
  BY <1>7, <1>9, <1>10, LinksReceived
<1> QED
  BY <1>8, <1>9, <1>11, StepKeepsInv

LEMMA ReadKeepsInv ==
  ASSUME IInv, NEW e \in Endpoint, Read(e)
  PROVE  IInv'
<1>1. PICK s, w, a, n, m, b, g, l :
        /\ s = sk[e] /\ w = wrote[e] /\ a = got[e] /\ n = wrote[Peer(e)]
        /\ m = Received(Peer(e)) /\ b = s.rcv_buf /\ g = Len(a) /\ l = Len(b)
  OBVIOUS
<1>2. /\ s \in Sock /\ a \in Seq(Nat) /\ w \in Nat /\ n \in Nat /\ g \in Nat
      /\ b \in Seq(Nat) /\ l \in Nat /\ s.state = "ESTABLISHED" /\ b # << >>
      /\ ReceiverOK(e, s, g, n) /\ SenderOK(e, s, w, m)
      /\ Received(e) = g + l
  <2>1. wrote[Peer(e)] \in Nat /\ wrote[e] \in Nat
    BY Peers DEF IInv, Typing
  <2>2. sk[e] \in Sock /\ got[e] \in Seq(Nat) /\ Len(got[e]) \in Nat
        /\ ReceiverOK(e, sk[e], Len(got[e]), wrote[Peer(e)])
        /\ SenderOK(e, sk[e], wrote[e], Received(Peer(e)))
        /\ Received(e) = Len(got[e]) + Len(sk[e].rcv_buf)
    BY Bounds
  <2>3. b \in Seq(Nat)
    BY <1>1, <2>2 DEF Sock
  <2> QED
    BY <1>1, <2>1, <2>2, <2>3 DEF Read
<1>3. PICK len \in 1..l :
        /\ got' = [got EXCEPT ![e] = a \o SubSeq(b, 1, len)]
        /\ sk' = [sk EXCEPT ![e].rcv_buf = SubSeq(b, len + 1, l)]
  <2>1. PICK k \in 1..ReadSize :
          /\ got' = [got EXCEPT ![e] = @ \o SubSeq(b, 1, Smaller(k, l))]
          /\ sk' = [sk EXCEPT ![e].rcv_buf = SubSeq(@, Smaller(k, l) + 1, Len(@))]
    BY <1>1 DEF Read
  <2>2. l \in Nat \ {0}
    BY <1>1, <1>2
  <2>3. Smaller(k, l) \in 1..l
    BY <2>2, StreamAssumption DEF Smaller
  <2> QED
    BY <1>1, <2>1, <2>3
<1>4. PICK x, y, c, t : /\ x = SubSeq(b, 1, len) /\ y = SubSeq(b, len + 1, l)
                        /\ c = a \o x /\ t = [s EXCEPT !.rcv_buf = y]
  OBVIOUS
<1>5. /\ x \in Seq(Nat) /\ Len(x) = len /\ \A k \in 1..len : x[k] = b[k]
      /\ y \in Seq(Nat) /\ Len(y) = l - len /\ \A k \in 1..(l - len) : y[k] = b[len + k]
  <2>0. /\ b \in Seq(Nat) /\ l = Len(b) /\ l \in Nat /\ len \in 1..l
        /\ x = SubSeq(b, 1, len) /\ y = SubSeq(b, len + 1, l)
    BY <1>1, <1>2, <1>3, <1>4
  <2>1. x \in Seq(Nat) /\ Len(x) = len /\ \A k \in 1..len : x[k] = b[k]
    BY ONLY <2>0
  <2>2. PICK j : j = len + 1
    OBVIOUS
  <2>3. j \in 1..(l + 1) /\ l - j + 1 = l - len /\ \A k \in 1..(l - len) : j + k - 1 = len + k
    BY ONLY <2>0, <2>2
  <2>4. /\ y \in Seq(Nat) /\ Len(y) = l - j + 1
        /\ \A k \in 1..(l - j + 1) : y[k] = b[j + k - 1]
    BY ONLY <2>0, <2>2, <2>3
  <2> QED
    BY <2>1, <2>3, <2>4
<1>6. c \in Seq(Nat) /\ Len(c) = g + len
  BY <1>1, <1>2, <1>4, <1>5, Joined
<1>7. /\ t \in Sock /\ t.rcv_buf = y /\ t.state = s.state /\ t.chunk = s.chunk
      /\ t.rcv_nxt = s.rcv_nxt /\ t.ofo = s.ofo /\ t.snd_una = s.snd_una
      /\ t.snd_nxt = s.snd_nxt /\ t.send_buf = s.send_buf
  BY <1>2, <1>4, <1>5 DEF Sock
<1>8. /\ l <= Capacity /\ g + l <= n /\ Runs(b, g)
      /\ s.rcv_nxt = Num(Peer(e), g + l)
      /\ \A i \in 1..Len(s.ofo) : Stretch(Peer(e), s.ofo[i].seq, s.ofo[i].data, n)
  BY <1>1, <1>2 DEF ReceiverOK
<1>9. /\ l - len \in Nat /\ l - len <= Capacity /\ g + len \in Nat
      /\ (g + len) + (l - len) = g + l
  <2>1. Capacity \in Nat
    BY StreamAssumption
  <2> QED
    BY <1>2, <1>8, <2>1
<1>10. Runs(y, g + len)
  <2> SUFFICES ASSUME NEW k \in 1..(l - len) PROVE y[k] = (g + len) + k
    BY <1>5 DEF Runs
  <2>1. PICK j : j = len + k
    OBVIOUS
  <2>2. j \in 1..l /\ g + j = (g + len) + k
    BY <1>2, <2>1
  <2>3. b[j] = g + j
    BY <1>1, <1>8, <2>2 DEF Runs
  <2> QED
    BY <1>5, <2>1, <2>2, <2>3
<1>11. ReceiverOK(e, t, g + len, n)
  BY <1>5, <1>7, <1>8, <1>9, <1>10 DEF ReceiverOK
<1>12. SenderOK(e, t, w, m)
  BY <1>2, <1>7 DEF SenderOK, Covers
<1>13. StepOf(e, t, w, c)
  <2>1. sk' = [sk EXCEPT ![e] = t] /\ got' = [got EXCEPT ![e] = c]
    BY <1>1, <1>3, <1>4
  <2>2. wrote' = [wrote EXCEPT ![e] = w] /\ wrote[e] <= w
    BY <1>1, <1>2 DEF Read, IInv, Typing
  <2>3. Received(e) <= Len(c) + Len(t.rcv_buf)
    BY <1>2, <1>5, <1>6, <1>7, <1>9
  <2> QED
    BY <1>1, <1>2, <1>6, <1>7, <1>11, <1>12, <2>1, <2>2, <2>3 DEF StepOf
<1>14. PICK r : r = Len(c) + Len(t.rcv_buf)
  OBVIOUS
<1>15. LinksOf(e, r, w)
  BY LinksSame DEF Read
<1> QED
  BY <1>13, <1>14, <1>15, StepKeepsInv

LEMMA RetransmitKeepsInv ==
  ASSUME IInv, NEW e \in Endpoint, Retransmit(e)
  PROVE  IInv'
<1>1. PICK s, w, a, n, m, b, h :
        /\ s = sk[e] /\ w = wrote[e] /\ a = got[e] /\ n = wrote[Peer(e)]
        /\ m = Received(Peer(e)) /\ b = s.send_buf /\ h = b[1]
  OBVIOUS
<1>2. /\ s \in Sock /\ a \in Seq(Nat) /\ w \in Nat /\ n \in Nat /\ Len(a) \in Nat
      /\ s.state = "ESTABLISHED" /\ b \in Seq(Buffered) /\ b # << >> /\ Len(b) \in Nat \ {0}
      /\ Len(s.rcv_buf) \in Nat
      /\ ReceiverOK(e, s, Len(a), n) /\ SenderOK(e, s, w, m)
      /\ Received(e) = Len(a) + Len(s.rcv_buf) /\ Received(e) \in Nat
  <2>1. wrote[Peer(e)] \in Nat /\ wrote[e] \in Nat
    BY Peers DEF IInv, Typing
  <2>2. sk[e] \in Sock /\ got[e] \in Seq(Nat) /\ Len(got[e]) \in Nat
        /\ ReceiverOK(e, sk[e], Len(got[e]), wrote[Peer(e)])
        /\ SenderOK(e, sk[e], wrote[e], Received(Peer(e)))
        /\ Received(e) = Len(got[e]) + Len(sk[e].rcv_buf)
        /\ Len(sk[e].rcv_buf) \in Nat
    BY Bounds
  <2>3. b \in Seq(Buffered) /\ b # << >> /\ s.state = "ESTABLISHED"
    BY <1>1, <2>2 DEF Sock, Retransmit, TimerExpired
  <2>4. Len(b) \in Nat \ {0}
    BY <2>3
  <2>5. Received(e) \in Nat
    <3>1. Received(e) \in 0..wrote[Peer(e)]
      BY Bounds
    <3> QED
      BY <2>1, <3>1
  <2> QED
    BY <1>1, <2>1, <2>2, <2>3, <2>4, <2>5
<1>3. h \in Buffered /\ Head(b) = h
  BY <1>1, <1>2
<1>4. PICK k, f, d, t :
        /\ k = h.times + 1 /\ f = [h EXCEPT !.times = k]
        /\ d = [b EXCEPT ![1] = f] /\ t = [s EXCEPT !.send_buf = d]
  OBVIOUS
<1>5. f \in Buffered /\ f.seg = h.seg
  <2>1. k \in Nat
    BY <1>3, <1>4 DEF Buffered
  <2> QED
    BY <1>3, <1>4, <2>1 DEF Buffered
<1>6. /\ d \in Seq(Buffered) /\ Len(d) = Len(b)
      /\ \A i \in 1..Len(b) : d[i] = IF i = 1 THEN f ELSE b[i]
  BY <1>2, <1>4, <1>5
<1>7. \A i \in 1..Len(b) : d[i].seg = b[i].seg
  BY <1>1, <1>5, <1>6
<1>8. /\ t \in Sock /\ t.send_buf = d /\ t.state = s.state /\ t.rcv_buf = s.rcv_buf
      /\ t.rcv_nxt = s.rcv_nxt /\ t.ofo = s.ofo /\ t.snd_una = s.snd_una
      /\ t.snd_nxt = s.snd_nxt /\ t.chunk = s.chunk
  BY <1>2, <1>4, <1>6 DEF Sock
<1>9. ReceiverOK(e, t, Len(a), n)
  BY <1>2, <1>8 DEF ReceiverOK
<1>10. SenderOK(e, t, w, m)
  <2>1. PICK l : l = Len(b)
    OBVIOUS
  <2>2. /\ l \in Nat \ {0} /\ Len(d) = l /\ 1 \in 1..l /\ l \in 1..l
        /\ \A i \in 1..(l - 1) : i \in 1..l /\ i + 1 \in 1..l
    BY <1>2, <1>6, <2>1
  <2>3. Covers(t)
    <3>1. Covers(s)
      BY <1>2 DEF SenderOK
    <3>2. /\ less_or_equal_32b(b[1].seg.seq, s.snd_una)
          /\ less_than_32b(s.snd_una, SeqEnd(b[1].seg))
          /\ SeqEnd(b[l].seg) = s.snd_nxt
          /\ \A i \in 1..(l - 1) : SeqEnd(b[i].seg) = b[i + 1].seg.seq
      BY <1>1, <2>1, <2>2, <3>1 DEF Covers
    <3>3. /\ less_or_equal_32b(d[1].seg.seq, t.snd_una)
          /\ less_than_32b(t.snd_una, SeqEnd(d[1].seg))
          /\ SeqEnd(d[l].seg) = t.snd_nxt
          /\ \A i \in 1..(l - 1) : SeqEnd(d[i].seg) = d[i + 1].seg.seq
      BY <1>7, <1>8, <2>1, <2>2, <3>2
    <3> QED
      BY <1>8, <2>2, <3>3 DEF Covers
  <2>4. \A i \in 1..l : Stretch(e, d[i].seg.seq, d[i].seg.data, w)
    BY <1>1, <1>2, <1>7, <2>1 DEF SenderOK
  <2> QED
    BY <1>2, <1>8, <2>2, <2>3, <2>4 DEF SenderOK
<1>11. StepOf(e, t, w, a)
  <2>1. sk' = [sk EXCEPT ![e] = t]
    BY <1>1, <1>4 DEF Retransmit
  <2>2. wrote' = [wrote EXCEPT ![e] = w] /\ got' = [got EXCEPT ![e] = a]
    BY <1>1 DEF Retransmit, IInv, Typing
  <2>3. wrote[e] <= w /\ Received(e) <= Len(a) + Len(t.rcv_buf)
    BY <1>1, <1>2, <1>8
  <2> QED
    BY <1>1, <1>2, <1>8, <1>9, <1>10, <2>1, <2>2, <2>3 DEF StepOf
<1>12. PICK r, seg, segs : /\ r = Len(a) + Len(t.rcv_buf)
                           /\ seg = [h.seg EXCEPT !.ack = s.rcv_nxt] /\ segs = <<seg>>
  OBVIOUS
<1>13. seg \in Segments /\ SegmentOf(e, seg, w, r)
  <2>1. h.seg \in Segments
    BY <1>3 DEF Buffered
  <2>2. s.rcv_nxt \in SeqNum
    BY <1>2 DEF Sock
  <2>3. /\ seg \in Segments /\ seg.seq = h.seg.seq /\ seg.data = h.seg.data
        /\ seg.ack = s.rcv_nxt
    BY <1>12, <2>1, <2>2 DEF Segments
  <2>4. Stretch(e, h.seg.seq, h.seg.data, w)
    <3>1. 1 \in 1..Len(b)
      BY <1>2
    <3> QED
      BY <1>1, <1>2, <3>1 DEF SenderOK
  <2>5. Acks(Peer(e), s.rcv_nxt, r)
    <3>1. r \in Nat /\ s.rcv_nxt = Num(Peer(e), r)
      BY <1>2, <1>8, <1>12 DEF ReceiverOK
    <3> QED
      BY <3>1 DEF Acks
  <2> QED
    BY <2>3, <2>4, <2>5 DEF SegmentOf
<1>14. segs \in Seq(Segments) /\ \A i \in 1..Len(segs) : SegmentOf(e, segs[i], w, r)
  <2>1. segs \in Seq(Segments) /\ \A i \in 1..Len(segs) : segs[i] = seg
    BY ONLY <1>12, <1>13
  <2> QED
    BY <1>13, <2>1
<1>15. net' = [net EXCEPT ![Peer(e)] = Sent(@, segs)]
  BY <1>1, <1>3, <1>12 DEF Retransmit
<1>16. LinksOf(e, r, w)
  BY <1>14, <1>15, LinksSent
<1> QED
  BY <1>11, <1>12, <1>16, StepKeepsInv
LEMMA SendChunkKeepsInv ==
  ASSUME IInv, NEW e \in Endpoint, SendChunk(e)
  PROVE  IInv'
<1>1. PICK s, w, a, n, m, b, c :
        /\ s = sk[e] /\ w = wrote[e] /\ a = got[e] /\ n = wrote[Peer(e)]
        /\ m = Received(Peer(e)) /\ b = s.send_buf /\ c = s.chunk
  OBVIOUS
<1>2. /\ s \in Sock /\ a \in Seq(Nat) /\ w \in Nat /\ n \in Nat /\ Len(a) \in Nat
      /\ s.state = "ESTABLISHED" /\ b \in Seq(Buffered) /\ Len(b) \in Nat
      /\ c \in Nat /\ c > 0 /\ Len(s.rcv_buf) \in Nat
      /\ ReceiverOK(e, s, Len(a), n) /\ SenderOK(e, s, w, m)
      /\ Received(e) = Len(a) + Len(s.rcv_buf) /\ Received(e) \in Nat
  <2>1. wrote[Peer(e)] \in Nat /\ wrote[e] \in Nat
    BY Peers DEF IInv, Typing
  <2>2. sk[e] \in Sock /\ got[e] \in Seq(Nat) /\ Len(got[e]) \in Nat
        /\ ReceiverOK(e, sk[e], Len(got[e]), wrote[Peer(e)])
        /\ SenderOK(e, sk[e], wrote[e], Received(Peer(e)))
        /\ Received(e) = Len(got[e]) + Len(sk[e].rcv_buf)
        /\ Len(sk[e].rcv_buf) \in Nat
    BY Bounds
  <2>3. b \in Seq(Buffered) /\ c \in Nat /\ c > 0 /\ s.state = "ESTABLISHED"
    BY <1>1, <2>2 DEF Sock, SendChunk
  <2>4. Len(b) \in Nat
    BY <2>3
  <2>5. Received(e) \in Nat
    <3>1. Received(e) \in 0..wrote[Peer(e)]
      BY Bounds
    <3> QED
      BY <2>1, <3>1
  <2> QED
    BY <1>1, <2>1, <2>2, <2>3, <2>4, <2>5
<1>3. PICK v : v = w + c
  OBVIOUS
<1>4. /\ v \in Nat /\ w <= v /\ w < v /\ w < Half /\ v < Half /\ v + 0 <= ToSend[e]
      /\ Half \in Nat
  <2>1. w + c <= ToSend[e] /\ ToSend[e] \in Nat /\ ToSend[e] + Capacity < Half
        /\ Half \in Nat /\ Capacity \in Nat \ {0}
    BY <1>1, Bounds
  <2> QED
    BY <1>2, <1>3, <2>1
<1>5. PICK data : data = [i \in 1..c |-> w + i]
  OBVIOUS
<1>6. data \in Seq(Nat) /\ Len(data) = c /\ Runs(data, w)
  <2>1. data \in [1..c -> Nat] /\ c \in Nat
    BY <1>2, <1>5
  <2>2. data \in Seq(Nat) /\ Len(data) = c
    BY <2>1
  <2> QED
    BY <1>5, <2>2 DEF Runs
<1>7. PICK seg, x, item, d, t, ack :
        /\ ack = {"ACK"}
        /\ seg = [flags |-> ack, seq |-> s.snd_nxt, data |-> data,
                  ack |-> s.rcv_nxt, rwnd |-> s.rcv_wnd]
        /\ x = Plus(s.snd_nxt, Len(data))
        /\ item = [seg |-> seg, times |-> 0]
        /\ d = Append(b, item)
        /\ t = [s EXCEPT !.snd_nxt = x, !.send_buf = d, !.timer = TRUE, !.chunk = 0]
  OBVIOUS
<1>8. s.snd_nxt = Num(e, w)
  BY <1>2 DEF SenderOK
<1>9. x = Num(e, v) /\ x \in SeqNum
  <2>1. Plus(Num(e, w), c) = Num(e, w + c)
    BY <1>2, <1>3, <1>4, NumPlus
  <2>2. v \in 0..(Half - 1)
    BY <1>4
  <2> QED
    BY <1>3, <1>6, <1>7, <1>8, <2>1, <2>2, NumType
<1>10. /\ seg \in Segments /\ seg.seq = Num(e, w) /\ seg.data = data /\ seg.ack = s.rcv_nxt
       /\ SeqEnd(seg) = Num(e, v)
  <2>1. seg \in Segments
    BY <1>2, <1>6, <1>7 DEF Segments, Sock
  <2>2. seg.seq = s.snd_nxt /\ seg.data = data /\ seg.ack = s.rcv_nxt
    BY <1>7
  <2>3. SeqEnd(seg) = x
    BY <1>7, <2>2 DEF SeqEnd
  <2> QED
    BY <1>8, <1>9, <2>1, <2>2, <2>3
<1>11. item \in Buffered /\ item.seg = seg
  BY <1>7, <1>10 DEF Buffered
<1>12. PICK l : l = Len(b)
  OBVIOUS
<1>13. /\ l \in Nat /\ d \in Seq(Buffered) /\ Len(d) = l + 1
       /\ d[l + 1] = item /\ \A i \in 1..l : d[i] = b[i]
  BY <1>2, <1>7, <1>11, <1>12
<1>14. /\ t \in Sock /\ t.send_buf = d /\ t.state = "ESTABLISHED" /\ t.rcv_buf = s.rcv_buf
       /\ t.rcv_nxt = s.rcv_nxt /\ t.ofo = s.ofo /\ t.snd_una = s.snd_una
       /\ t.snd_nxt = x /\ t.chunk = 0
  BY <1>2, <1>7, <1>9, <1>13 DEF Sock
<1>15. ReceiverOK(e, t, Len(a), n)
  BY <1>2, <1>14 DEF ReceiverOK
<1>16. Stretch(e, seg.seq, seg.data, v)
  <2>1. w \in 0..v /\ w + Len(data) <= v
    BY <1>2, <1>3, <1>4, <1>6
  <2> QED
    BY <1>6, <1>10, <2>1 DEF Stretch
<1>17. ASSUME NEW i \in 1..(l + 1)
       PROVE  Stretch(e, d[i].seg.seq, d[i].seg.data, v)
  <2>1. CASE i = l + 1
    BY <1>11, <1>13, <1>16, <2>1
  <2>2. CASE i # l + 1
    <3>1. i \in 1..l
      BY <1>13, <2>2
    <3>2. PICK q : q = b[i].seg
      OBVIOUS
    <3>3. Stretch(e, q.seq, q.data, w)
      BY <1>1, <1>2, <1>12, <3>1, <3>2 DEF SenderOK
    <3>4. b[i] \in Buffered
      BY <1>2, <1>12, <3>1
    <3>5. q.data \in Seq(Nat)
      BY <3>2, <3>4 DEF Buffered, Segments
    <3>6. Len(q.data) \in Nat
      BY <3>5
    <3>7. Stretch(e, q.seq, q.data, v)
      BY <1>2, <1>4, <3>3, <3>6, MoreWritten
    <3> QED
      BY <1>13, <3>1, <3>2, <3>7
  <2> QED
    BY <2>1, <2>2
<1>18. Covers(t)
  <2>1. Covers(s)
    BY <1>2 DEF SenderOK
  <2>2. SeqEnd(d[l + 1].seg) = t.snd_nxt
    BY <1>9, <1>10, <1>11, <1>13, <1>14
  <2>3. less_than_32b(Num(e, w), Num(e, v)) /\ less_or_equal_32b(Num(e, w), Num(e, w))
    <3>1. w <= w
      BY <1>2
    <3> QED
      BY <1>2, <1>4, <3>1, NumCompare
  <2>4. CASE l = 0
    <3>1. s.snd_una = Num(e, w)
      BY <1>1, <1>8, <1>12, <2>1, <2>4 DEF Covers
    <3>2. d[1] = item
      BY <1>13, <2>4
    <3>3. /\ less_or_equal_32b(d[1].seg.seq, t.snd_una)
          /\ less_than_32b(t.snd_una, SeqEnd(d[1].seg))
      BY <1>10, <1>11, <1>14, <2>3, <3>1, <3>2
    <3>4. \A i \in 1..((l + 1) - 1) : SeqEnd(d[i].seg) = d[i + 1].seg.seq
      BY <2>4
    <3>5. Len(t.send_buf) = l + 1 /\ l + 1 # 0 /\ t.send_buf = d
      BY <1>13, <1>14, <2>4
    <3> QED
      BY <2>2, <3>3, <3>4, <3>5 DEF Covers
  <2>5. CASE l # 0
    <3>1. /\ less_or_equal_32b(b[1].seg.seq, s.snd_una)
          /\ less_than_32b(s.snd_una, SeqEnd(b[1].seg))
          /\ SeqEnd(b[l].seg) = s.snd_nxt
          /\ \A i \in 1..(l - 1) : SeqEnd(b[i].seg) = b[i + 1].seg.seq
      BY <1>1, <1>12, <1>13, <2>1, <2>5 DEF Covers
    <3>2. 1 \in 1..l /\ l \in 1..l /\ l + 1 > 0 /\ l + 1 # 0
      BY <1>13, <2>5
    <3>3. /\ less_or_equal_32b(d[1].seg.seq, t.snd_una)
          /\ less_than_32b(t.snd_una, SeqEnd(d[1].seg))
      BY <1>13, <1>14, <3>1, <3>2
    <3>4. ASSUME NEW i \in 1..((l + 1) - 1)
          PROVE  SeqEnd(d[i].seg) = d[i + 1].seg.seq
      <4>1. CASE i = l
        BY <1>8, <1>10, <1>11, <1>13, <3>1, <3>2, <4>1
      <4>2. CASE i # l
        <5>1. i \in 1..(l - 1) /\ i \in 1..l /\ i + 1 \in 1..l
          BY <1>13, <4>2
        <5> QED
          BY <1>13, <3>1, <5>1
      <4> QED
        BY <4>1, <4>2
    <3> QED
      BY <1>13, <1>14, <2>2, <3>2, <3>3, <3>4 DEF Covers
  <2> QED
    BY <2>4, <2>5
<1>19. SenderOK(e, t, v, m)
  <2>1. Acks(e, s.snd_una, m)
    BY <1>2 DEF SenderOK
  <2> QED
    BY <1>4, <1>9, <1>13, <1>14, <1>17, <1>18, <2>1 DEF SenderOK
<1>20. StepOf(e, t, v, a)
  <2>1. sk' = [sk EXCEPT ![e] = t]
    <3>1. sk' = [sk EXCEPT ![e] =
                   [[s EXCEPT !.snd_nxt = Plus(@, Len(data)), !.send_buf = Append(@, item),
                              !.timer = TRUE] EXCEPT !.chunk = 0]]
      BY <1>1, <1>5, <1>7 DEF SendChunk, tcp_send_packet
    <3>2. t = [[s EXCEPT !.snd_nxt = Plus(@, Len(data)), !.send_buf = Append(@, item),
                         !.timer = TRUE] EXCEPT !.chunk = 0]
      BY <1>1, <1>2, <1>7 DEF Sock
    <3> QED
      BY <3>1, <3>2
  <2>2. wrote' = [wrote EXCEPT ![e] = v] /\ got' = [got EXCEPT ![e] = a]
    BY <1>1, <1>3 DEF SendChunk, IInv, Typing
  <2>3. wrote[e] <= v /\ Received(e) <= Len(a) + Len(t.rcv_buf)
    BY <1>1, <1>2, <1>4, <1>14
  <2> QED
    BY <1>1, <1>2, <1>4, <1>14, <1>15, <1>19, <2>1, <2>2, <2>3 DEF StepOf
<1>21. PICK r, segs : r = Len(a) + Len(t.rcv_buf) /\ segs = <<seg>>
  OBVIOUS
<1>22. SegmentOf(e, seg, v, r)
  <2>1. r \in Nat /\ s.rcv_nxt = Num(Peer(e), r)
    BY <1>2, <1>14, <1>21 DEF ReceiverOK
  <2>2. Acks(Peer(e), seg.ack, r)
    BY <1>10, <2>1 DEF Acks
  <2> QED
    BY <1>16, <2>2 DEF SegmentOf
<1>23. segs \in Seq(Segments) /\ \A i \in 1..Len(segs) : SegmentOf(e, segs[i], v, r)
  <2>1. segs \in Seq(Segments) /\ \A i \in 1..Len(segs) : segs[i] = seg
    BY ONLY <1>10, <1>21
  <2> QED
    BY <1>22, <2>1
<1>24. net' = [net EXCEPT ![Peer(e)] = Sent(@, segs)]
  BY <1>1, <1>5, <1>7, <1>21 DEF SendChunk, tcp_send_packet
<1>25. LinksOf(e, r, v)
  BY <1>23, <1>24, LinksSent
<1> QED
  BY <1>20, <1>21, <1>25, StepKeepsInv

LEMMA NextKeepsInv ==
  ASSUME IInv, [Next]_vars
  PROVE  IInv'
<1>1. CASE UNCHANGED vars
  BY <1>1 DEF vars, IInv, ShortStreams, Typing, Received
<1>2. CASE Next
  <2>1. PICK e \in Endpoint : \/ CutChunk(e) \/ SendChunk(e) \/ Retransmit(e) \/ GiveUp(e)
                              \/ Receive(e) \/ Lose(e) \/ Read(e)
    BY <1>2 DEF Next
  <2> QED
    BY <2>1, CutChunkKeepsInv, SendChunkKeepsInv, RetransmitKeepsInv, GiveUpKeepsInv,
       ReceiveKeepsInv, LoseKeepsInv, ReadKeepsInv
<1> QED
  BY <1>1, <1>2

(***************************************************************************)
(* What is buffered and on its way is a stretch of the stream it belongs   *)
(* to, and no ack is ahead of what its sender received (tcp_in.c,          *)
(* tcp_out.c): the inductive invariant.                                    *)
(***************************************************************************)
THEOREM IInvAlways == Spec /\ ShortStreams => []IInv
<1>1. IInv /\ [Next]_vars => IInv'
  BY NextKeepsInv
<1> QED
  BY <1>1, InitGivesInv, PTL DEF Spec
-----------------------------------------------------------------------------
(***************************************************************************)
(* The properties.  A field of a sock has its type whatever arrives.       *)
(***************************************************************************)
THEOREM TypeCorrect == Spec /\ ShortStreams => []TypeOK
<1>1. ASSUME IInv PROVE TypeOK
  <2>1. ASSUME NEW e \in Endpoint
        PROVE  /\ sk[e].state \in {"ESTABLISHED", "CLOSED", "ABORTED"}
               /\ {sk[e].snd_una, sk[e].snd_nxt, sk[e].rcv_nxt} \subseteq SeqNum
               /\ sk[e].rcv_wnd \in 1..Capacity /\ sk[e].snd_wnd \in 1..Capacity
               /\ Len(sk[e].rcv_buf) <= Capacity
               /\ Len(net[e]) <= MaxNet
               /\ \A i \in DOMAIN net[e] : net[e][i] \in Segments
    <3>1. sk[e] \in Sock /\ net[e] \in Seq(Segments)
      BY <1>1, Bounds
    <3>2. Len(sk[e].rcv_buf) <= Capacity /\ Len(net[e]) <= MaxNet
      BY <1>1 DEF IInv, ReceiverOK
    <3>3. \A i \in DOMAIN net[e] : net[e][i] \in Segments
      BY <3>1
    <3> QED
      BY <3>1, <3>2, <3>3 DEF Sock
  <2>2. wrote \in [Endpoint -> Nat]
    BY <1>1 DEF IInv, Typing
  <2> QED
    BY <2>1, <2>2 DEF TypeOK
<1>2. IInv => TypeOK
  BY <1>1
<1> QED
  BY <1>2, IInvAlways, PTL

(***************************************************************************)
(* The segments kept for retransmission are adjacent and cover everything  *)
(* from the oldest byte not acked up to snd_nxt (tcp_send_buf_append,      *)
(* tcp_send_buf_clear).                                                    *)
(***************************************************************************)
THEOREM UnackedIsKeptAlways == Spec /\ ShortStreams => []UnackedIsKept
<1>1. ASSUME IInv PROVE UnackedIsKept
  <2>1. ASSUME NEW e \in Endpoint, sk[e].state = "ESTABLISHED" PROVE Covers(sk[e])
    BY <1>1, <2>1 DEF IInv, SenderOK
  <2> QED
    BY <2>1 DEF Covers, UnackedIsKept
<1>2. IInv => UnackedIsKept
  BY <1>1
<1> QED
  BY <1>2, IInvAlways, PTL

(***************************************************************************)
(* rcv_nxt counts exactly the bytes put into the ring, and lies between    *)
(* what the peer counts as acked and what it sent (handle_recv_data,       *)
(* tcp_check_ofo_buf, handle_ack).                                         *)
(***************************************************************************)
THEOREM AckedIsDeliveredAlways == Spec /\ ShortStreams => []AckedIsDelivered
<1>1. ASSUME IInv PROVE AckedIsDelivered
  <2> SUFFICES ASSUME NEW e \in Endpoint, sk[Peer(e)].state # "ABORTED"
               PROVE  LET p == Peer(e)
                      IN /\ sk[p].rcv_nxt = Plus(ISS[e], 1 + Len(got[p]) + Len(sk[p].rcv_buf))
                         /\ less_or_equal_32b(sk[e].snd_una, sk[p].rcv_nxt)
                         /\ less_or_equal_32b(sk[p].rcv_nxt, sk[e].snd_nxt)
    BY DEF AckedIsDelivered
  <2>1. PICK p, g, l, r, w : /\ p = Peer(e) /\ g = Len(got[p]) /\ l = Len(sk[p].rcv_buf)
                             /\ r = Received(p) /\ w = wrote[e]
    OBVIOUS
  <2>2. p \in Endpoint /\ Peer(p) = e
    BY <2>1, Peers
  <2>3. /\ g \in Nat /\ l \in Nat /\ r = g + l /\ r \in 0..w /\ w \in 0..(Half - 1)
        /\ Half \in Nat
        /\ ReceiverOK(p, sk[p], g, w) /\ SenderOK(e, sk[e], w, r)
    <3>1. /\ Len(got[p]) \in Nat /\ Len(sk[p].rcv_buf) \in Nat
          /\ Received(p) \in 0..wrote[Peer(p)]
          /\ Received(p) = Len(got[p]) + Len(sk[p].rcv_buf)
          /\ ReceiverOK(p, sk[p], Len(got[p]), wrote[Peer(p)])
      BY <1>1, <2>2, Bounds
    <3>2. /\ wrote[e] \in 0..(Half - 1) /\ Half \in Nat
          /\ SenderOK(e, sk[e], wrote[e], Received(Peer(e)))
      BY <1>1, Bounds
    <3> QED
      BY <2>1, <2>2, <3>1, <3>2
  <2>4. r \in Nat /\ w \in Nat /\ r < Half /\ w < Half /\ r <= w /\ 1 + g + l = 1 + (g + l)
    BY ONLY <2>3
  <2>5. sk[p].rcv_nxt = Num(e, r) /\ sk[e].snd_nxt = Num(e, w)
    BY <2>1, <2>2, <2>3 DEF ReceiverOK, SenderOK
  <2>6. PICK k \in 0..r : sk[e].snd_una = Num(e, k)
    BY <2>3 DEF SenderOK, Acks
  <2>7. k \in Nat /\ k < Half /\ k <= r
    BY ONLY <2>3, <2>4, k \in 0..r
  <2>8. less_or_equal_32b(Num(e, k), Num(e, r)) /\ less_or_equal_32b(Num(e, r), Num(e, w))
    BY <2>4, <2>7, NumCompare
  <2>9. Num(e, r) = Plus(ISS[e], 1 + g + l)
    BY <2>3, <2>4 DEF Num
  <2> QED
    BY <2>1, <2>5, <2>6, <2>8, <2>9
<1>2. IInv => AckedIsDelivered
  BY <1>1
<1> QED
  BY <1>2, IInvAlways, PTL

(***************************************************************************)
(* Each application reads a prefix of what the other one wrote: every step *)
(* is one of ReliableStream or leaves its variables alone.                 *)
(***************************************************************************)
LEMMA StreamStep ==
  ASSUME IInv, NEW e \in Endpoint,
         \/ CutChunk(e) \/ SendChunk(e) \/ Retransmit(e) \/ GiveUp(e)
         \/ Receive(e) \/ Lose(e) \/ Read(e)
  PROVE  \/ \E n \in 1..ToSend[e] : Stream!Accept(e, n)
         \/ \E n \in 1..ToSend[Stream!Peer(e)] : Stream!Deliver(e, n)
         \/ UNCHANGED <<wrote, got>>
<1>1. CASE CutChunk(e) \/ Retransmit(e) \/ GiveUp(e) \/ Lose(e)
  BY <1>1 DEF CutChunk, Retransmit, GiveUp, Lose
<1>2. CASE Receive(e)
  BY <1>2 DEF Receive
<1>3. CASE SendChunk(e)
  <2>1. PICK w, c : w = wrote[e] /\ c = sk[e].chunk
    OBVIOUS
  <2>2. /\ c \in Nat /\ c > 0 /\ w \in Nat /\ w + c <= ToSend[e] /\ ToSend[e] \in Nat
        /\ wrote' = [wrote EXCEPT ![e] = w + c] /\ UNCHANGED got
    <3>1. sk[e] \in Sock /\ wrote[e] \in Nat
      BY DEF IInv, Typing
    <3> QED
      BY <1>3, <2>1, <3>1, Bounds DEF SendChunk, Sock
  <2>3. c \in 1..ToSend[e]
    BY ONLY <2>2
  <2>4. Stream!Accept(e, c)
    BY <2>1, <2>2 DEF Stream!Accept
  <2> QED
    BY <2>3, <2>4
<1>4. CASE Read(e)
  <2>1. PICK p, a, b, g, l, n : /\ p = Peer(e) /\ a = got[e] /\ b = sk[e].rcv_buf
                                /\ g = Len(a) /\ l = Len(b) /\ n = wrote[p]
    OBVIOUS
  <2>2. /\ p \in Endpoint /\ p = Stream!Peer(e)
        /\ a \in Seq(Nat) /\ b \in Seq(Nat) /\ b # << >> /\ g \in Nat /\ l \in Nat \ {0}
        /\ n \in Nat /\ n <= ToSend[p] /\ ToSend[p] \in Nat
        /\ g + l <= n /\ Runs(b, g)
    <3>1. p \in Endpoint /\ p = Stream!Peer(e)
      BY <2>1, Peers DEF Peer, Stream!Peer, Endpoint, Stream!Endpoint
    <3>2. a \in Seq(Nat) /\ b \in Seq(Nat) /\ ReceiverOK(e, sk[e], g, n)
      BY <2>1, Bounds DEF Sock
    <3>3. b # << >>
      BY <1>4, <2>1 DEF Read
    <3>4. g \in Nat /\ l \in Nat \ {0}
      BY <2>1, <3>2, <3>3
    <3>5. n \in Nat /\ n <= ToSend[p] /\ ToSend[p] \in Nat
      <4>1. PICK c : c = sk[p].chunk
        OBVIOUS
      <4>2. n \in Nat /\ c \in Nat /\ n + c <= ToSend[p] /\ ToSend[p] \in Nat
        BY <2>1, <3>1, <4>1, Bounds DEF IInv, Typing, Sock
      <4> QED
        BY ONLY <4>2
    <3>6. g + l <= n /\ Runs(b, g)
      BY <2>1, <3>2 DEF ReceiverOK
    <3> QED
      BY <3>1, <3>2, <3>3, <3>4, <3>5, <3>6
  <2>3. PICK len \in 1..l : got' = [got EXCEPT ![e] = @ \o SubSeq(b, 1, len)]
    <3>1. PICK k \in 1..ReadSize :
            got' = [got EXCEPT ![e] = @ \o SubSeq(b, 1, Smaller(k, l))]
      BY <1>4, <2>1 DEF Read
    <3>2. Smaller(k, l) \in 1..l
      BY <2>2, StreamAssumption DEF Smaller
    <3> QED
      BY <3>1, <3>2
  <2>4. SubSeq(b, 1, len) = [i \in 1..len |-> g + i]
    <3>1. PICK x : x = SubSeq(b, 1, len)
      OBVIOUS
    <3>2. x \in Seq(Nat) /\ Len(x) = len /\ \A i \in 1..len : x[i] = b[i]
      <4>1. b \in Seq(Nat) /\ l = Len(b) /\ l \in Nat /\ len \in 1..l
        BY <2>1, <2>2
      <4> QED
        BY ONLY <3>1, <4>1
    <3>3. \A i \in 1..len : x[i] = g + i
      <4>1. \A i \in 1..len : i \in 1..l
        BY <2>2
      <4> QED
        BY <2>1, <2>2, <3>2, <4>1 DEF Runs
    <3>4. x \in [1..len -> Nat]
      BY ONLY <3>2, LenProperties
    <3>5. x = [i \in 1..len |-> g + i]
      BY ONLY <3>3, <3>4
    <3> QED
      BY <3>1, <3>5
  <2>5. len \in 1..ToSend[p] /\ g + len <= n
    BY ONLY <2>2, len \in 1..l
  <2>6. Stream!Deliver(e, len)
    <3>1. UNCHANGED wrote
      BY <1>4 DEF Read
    <3>2. got' = [got EXCEPT ![e] = @ \o [i \in 1..len |-> Len(got[e]) + i]]
      BY <2>1, <2>3, <2>4
    <3>3. Len(got[e]) + len <= wrote[Stream!Peer(e)]
      BY <2>1, <2>2, <2>5
    <3> QED
      BY <3>1, <3>2, <3>3 DEF Stream!Deliver
  <2> QED
    BY <2>2, <2>5, <2>6
<1> QED
  BY <1>1, <1>2, <1>3, <1>4

THEOREM DeliversPrefixAlways == Spec /\ ShortStreams => DeliversPrefix
<1>1. Init => Stream!Init
  BY DEF Init, Stream!Init, Endpoint, Stream!Endpoint
<1>2. IInv /\ [Next]_vars => [Stream!Next]_(Stream!vars)
  <2> SUFFICES ASSUME IInv, [Next]_vars PROVE [Stream!Next]_(Stream!vars)
    OBVIOUS
  <2>1. CASE UNCHANGED vars
    BY <2>1 DEF vars, Stream!vars
  <2>2. CASE Next
    <3>1. PICK e \in Endpoint : \/ CutChunk(e) \/ SendChunk(e) \/ Retransmit(e) \/ GiveUp(e)
                                \/ Receive(e) \/ Lose(e) \/ Read(e)
      BY <2>2 DEF Next
    <3>2. e \in Stream!Endpoint
      BY DEF Endpoint, Stream!Endpoint
    <3>3. \/ \E n \in 1..ToSend[e] : Stream!Accept(e, n)
          \/ \E n \in 1..ToSend[Stream!Peer(e)] : Stream!Deliver(e, n)
          \/ UNCHANGED <<wrote, got>>
      BY <3>1, StreamStep
    <3> QED
      BY <3>2, <3>3 DEF Stream!Next, Stream!vars
  <2> QED
    BY <2>1, <2>2
<1> QED
  BY <1>1, <1>2, IInvAlways, PTL DEF Spec, DeliversPrefix, Stream!Spec
-----------------------------------------------------------------------------
(***************************************************************************)
(* Room in the ring, for a stream in one direction over links that keep    *)
(* their order.  The limit of r's windows is the end of the free space of  *)
(* its ring, or one byte beyond rcv_nxt if there is none; it never moves   *)
(* back.  Every window that was ever told ends below it, and the acks on   *)
(* their way come in the order of their numbers.                           *)
(***************************************************************************)
Off(e, x) == Diff(x, Num(e, 0))

Limit(received, g) == IF received + 1 > g + Capacity THEN received + 1 ELSE g + Capacity

Windows(e, una, wnd, link, limit) ==
  /\ Off(e, una) + wnd <= limit
  /\ \A i \in 1..Len(link) : /\ Off(e, una) <= Off(e, link[i].ack)
                             /\ Off(e, link[i].ack) + link[i].rwnd <= limit
  /\ \A i \in 1..Len(link) : \A j \in 1..i : Off(e, link[j].ack) <= Off(e, link[i].ack)

(***************************************************************************)
(* The sender e with sock s has written n bytes, its peer has sock t, has  *)
(* read g bytes and writes nothing; link is the one towards e.             *)
(***************************************************************************)
Told(t, g) == g + Len(t.rcv_buf) + t.rcv_wnd <= Limit(g + Len(t.rcv_buf), g)

Roomy(e, s, t, link, n, g) ==
  LET limit == Limit(g + Len(t.rcv_buf), g)
  IN /\ s.state # "ABORTED" /\ t.state # "ABORTED" /\ t.send_buf = << >>
     /\ Told(t, g)
     /\ n + s.chunk <= limit
     /\ Windows(e, s.snd_una, s.snd_wnd, link, limit)

Room == \A e \in Endpoint : ToSend[Peer(e)] = 0 =>
          Roomy(e, sk[e], sk[Peer(e)], net[e], wrote[e], Len(got[Peer(e)]))

LEMMA OffNum ==
  ASSUME NEW e \in Endpoint, NEW a \in Nat, a < Half
  PROVE  Off(e, Num(e, a)) = a
<1>1. Half \in Nat \ {0} /\ 0 \in Nat /\ 0 < Half
  BY SpaceIsTwoHalves
<1>2. Diff(Num(e, a), Num(e, 0)) = a - 0
  BY <1>1, NumDiff
<1> QED
  BY <1>2 DEF Off

LEMMA OffAcks ==
  ASSUME NEW e \in Endpoint, NEW r \in 0..(Half - 1), NEW ack, Acks(e, ack, r)
  PROVE  Off(e, ack) \in 0..r /\ ack = Num(e, Off(e, ack))
<1>1. PICK k \in 0..r : ack = Num(e, k)
  BY DEF Acks
<1>2. k \in Nat /\ k < Half
  BY SpaceIsTwoHalves
<1> QED
  BY <1>1, <1>2, OffNum

LEMMA LimitGrows ==
  ASSUME NEW r \in Nat, NEW q \in Nat, r <= q, NEW g \in Nat, NEW h \in Nat, g <= h
  PROVE  /\ Limit(r, g) \in Nat /\ Limit(r, g) <= Limit(q, h)
         /\ r + 1 <= Limit(r, g) /\ g + Capacity <= Limit(r, g)
         /\ Limit(r, g) \in {r + 1, g + Capacity}
<1>1. Capacity \in Nat
  BY StreamAssumption
<1> QED
  BY <1>1 DEF Limit

LEMMA WindowsKept ==
  ASSUME NEW e, NEW una, NEW wnd \in Nat, NEW link \in Seq(Segments),
         NEW limit \in Nat, NEW more \in Nat, limit <= more,
         Off(e, una) \in Int, \A i \in 1..Len(link) : Off(e, link[i].ack) \in Int,
         Windows(e, una, wnd, link, limit)
  PROVE  Windows(e, una, wnd, link, more)
<1>1. ASSUME NEW i \in 1..Len(link)
      PROVE  Off(e, link[i].ack) + link[i].rwnd <= more
  <2>1. link[i].rwnd \in Nat
    <3>1. Capacity \in Nat /\ link[i] \in Segments
      BY StreamAssumption
    <3> QED
      BY <3>1 DEF Segments
  <2>2. Off(e, link[i].ack) + link[i].rwnd <= limit
    BY DEF Windows
  <2> QED
    BY <2>1, <2>2
<1>2. Off(e, una) + wnd <= more
  BY DEF Windows
<1> QED
  BY <1>1, <1>2 DEF Windows

(***************************************************************************)
(* The first ack is taken or lost.                                         *)
(***************************************************************************)
LEMMA WindowsTaken ==
  ASSUME NEW e, NEW una, NEW wnd \in Nat, NEW link \in Seq(Segments), link # << >>,
         NEW limit \in Nat,
         Off(e, una) \in Int, \A i \in 1..Len(link) : Off(e, link[i].ack) \in Int,
         Windows(e, una, wnd, link, limit),
         NEW una2 \in {una, link[1].ack}, NEW wnd2,
         (una2 = una /\ wnd2 = wnd) \/ wnd2 = link[1].rwnd
  PROVE  Windows(e, una2, wnd2, RemoveAt(link, 1), limit)
<1>1. PICK rest, l : rest = RemoveAt(link, 1) /\ l = Len(link)
  OBVIOUS
<1>2. l \in Nat \ {0}
  BY <1>1
<1>3. Len(rest) = l - 1 /\ \A k \in 1..(l - 1) : rest[k] = link[k + 1]
  <2>1. 1 \in 1..Len(link)
    BY <1>1, <1>2
  <2>2. Len(rest) = l - 1 /\ \A k \in 1..(l - 1) : rest[k] = link[IF k < 1 THEN k ELSE k + 1]
    BY <1>1, <2>1, RemoveAtFacts
  <2> QED
    BY <1>2, <2>2
<1>4. \A i \in 1..l : link[i].rwnd \in Nat
  <2>1. ASSUME NEW i \in 1..l PROVE link[i].rwnd \in Nat
    <3>1. Capacity \in Nat /\ link[i] \in Segments
      BY <1>1, StreamAssumption
    <3> QED
      BY <3>1 DEF Segments
  <2> QED
    BY <2>1
<1>5. /\ Off(e, una2) \in Int /\ Off(e, una2) + wnd2 <= limit
      /\ Off(e, una2) <= Off(e, link[1].ack)
  <2>1. 1 \in 1..l /\ Off(e, link[1].ack) \in Int /\ link[1].rwnd \in Nat
    BY <1>1, <1>2, <1>4
  <2>2. /\ Off(e, una) <= Off(e, link[1].ack) /\ Off(e, link[1].ack) + link[1].rwnd <= limit
        /\ Off(e, una) + wnd <= limit
    BY <1>1, <2>1 DEF Windows
  <2>3. PICK x, y, z : x = Off(e, una) /\ y = Off(e, link[1].ack) /\ z = link[1].rwnd
    OBVIOUS
  <2>4. Off(e, una2) = x \/ Off(e, una2) = y
    BY <2>3
  <2> QED
    BY <2>1, <2>2, <2>3, <2>4
<1>6. ASSUME NEW k \in 1..(l - 1)
      PROVE  /\ Off(e, una2) <= Off(e, rest[k].ack)
             /\ Off(e, rest[k].ack) + rest[k].rwnd <= limit
             /\ \A j \in 1..k : Off(e, rest[j].ack) <= Off(e, rest[k].ack)
  <2>1. /\ k + 1 \in 1..l /\ 1 \in 1..(k + 1) /\ 1 \in 1..l /\ rest[k] = link[k + 1]
        /\ Off(e, link[k + 1].ack) \in Int /\ Off(e, link[1].ack) \in Int
    BY <1>1, <1>2, <1>3
  <2>2. /\ Off(e, link[k + 1].ack) + link[k + 1].rwnd <= limit
        /\ Off(e, link[1].ack) <= Off(e, link[k + 1].ack)
    BY <1>1, <2>1 DEF Windows
  <2>3. ASSUME NEW j \in 1..k
        PROVE  Off(e, rest[j].ack) <= Off(e, rest[k].ack)
    <3>1. j \in 1..(l - 1) /\ j + 1 \in 1..(k + 1)
      BY <1>2
    <3>2. rest[j] = link[j + 1]
      BY <1>3, <3>1
    <3>3. Off(e, link[j + 1].ack) <= Off(e, link[k + 1].ack)
      BY <1>1, <2>1, <3>1 DEF Windows
    <3> QED
      BY <2>1, <3>2, <3>3
  <2>4. PICK x, y, z : x = Off(e, una2) /\ y = Off(e, link[1].ack) /\ z = Off(e, link[k + 1].ack)
    OBVIOUS
  <2>5. x \in Int /\ y \in Int /\ z \in Int /\ x <= y /\ y <= z
    BY <1>5, <2>1, <2>2, <2>4
  <2>6. x <= z
    BY ONLY <2>5
  <2> QED
    BY <2>1, <2>2, <2>3, <2>4, <2>6
<1>7. Windows(e, una2, wnd2, rest, limit)
  BY <1>3, <1>5, <1>6 DEF Windows
<1> QED
  BY <1>1, <1>7

(***************************************************************************)
(* What a link holds after more was sent into it.                          *)
(***************************************************************************)
LEMMA SentInOrder ==
  ASSUME NEW S, NEW link \in Seq(S), NEW segs \in Seq(S), NEW m, m = Len(link)
  PROVE  \A k \in 1..Len(Sent(link, segs)) :
           /\ k \in 1..(m + Len(segs))
           /\ Sent(link, segs)[k] = IF k <= m THEN link[k] ELSE segs[k - m]
<1>1. MaxNet \in Nat
  BY StreamAssumption
<1>2. PICK t, q : t = link \o segs /\ q = Len(segs)
  OBVIOUS
<1>3. /\ t \in Seq(S) /\ Len(t) = m + q /\ m \in Nat /\ q \in Nat
      /\ \A k \in 1..(m + q) : t[k] = IF k <= m THEN link[k] ELSE segs[k - m]
  BY <1>2, Joined
<1>4. PICK n : n = Smaller(MaxNet, m + q)
  OBVIOUS
<1>5. n \in 0..(m + q)
  BY <1>1, <1>3, <1>4 DEF Smaller
<1>6. PICK r : r = SubSeq(t, 1, n)
  OBVIOUS
<1>7. Len(r) = n /\ \A k \in 1..n : r[k] = t[k]
  BY <1>3, <1>5, <1>6
<1>8. \A k \in 1..n : k \in 1..(m + q)
  BY <1>3, <1>5
<1>9. Sent(link, segs) = r
  BY <1>2, <1>4, <1>6 DEF Sent
<1> QED
  BY <1>2, <1>3, <1>7, <1>8, <1>9

LEMMA WindowsSent ==
  ASSUME NEW e, NEW una, NEW wnd \in Nat, NEW link \in Seq(Segments),
         NEW segs \in Seq(Segments), Len(segs) <= 1, NEW limit \in Nat, NEW r \in Int,
         Off(e, una) <= r, \A i \in 1..Len(link) : Off(e, link[i].ack) <= r,
         \A i \in 1..Len(segs) : Off(e, segs[i].ack) = r /\ r + segs[i].rwnd <= limit,
         Windows(e, una, wnd, link, limit)
  PROVE  Windows(e, una, wnd, Sent(link, segs), limit)
<1>1. PICK sent, l, q, m : /\ sent = Sent(link, segs) /\ l = Len(link)
                           /\ q = Len(segs) /\ m = Len(sent)
  OBVIOUS
<1>2. /\ l \in Nat /\ q \in {0, 1} /\ m \in Nat
      /\ \A k \in 1..m : /\ k \in 1..(l + q)
                         /\ sent[k] = IF k <= l THEN link[k] ELSE segs[k - l]
  <2>1. sent \in Seq(Segments)
    BY <1>1, SentFacts
  <2>2. l \in Nat /\ q \in Nat /\ q <= 1 /\ m \in Nat
    BY <1>1, <2>1
  <2>3. \A k \in 1..Len(Sent(link, segs)) :
          /\ k \in 1..(l + Len(segs))
          /\ Sent(link, segs)[k] = IF k <= l THEN link[k] ELSE segs[k - l]
    BY <1>1, SentInOrder
  <2> QED
    BY ONLY <1>1, <2>2, <2>3
<1>3. ASSUME NEW k \in 1..m
      PROVE  \/ k \in 1..l /\ sent[k] = link[k]
             \/ k = l + 1 /\ 1 \in 1..q /\ sent[k] = segs[1]
  <2>1. CASE k <= l
    BY <1>2, <2>1
  <2>2. CASE k > l
    <3>1. k \in 1..(l + q) /\ k \in Nat
      BY <1>2
    <3>2. k = l + 1 /\ q = 1 /\ k - l = 1
      BY ONLY <1>2, <2>2, <3>1
    <3> QED
      BY <1>2, <2>2, <3>2
  <2> QED
    BY <1>2, <2>1, <2>2
<1>4. ASSUME NEW k \in 1..m
      PROVE  /\ Off(e, una) <= Off(e, sent[k].ack)
             /\ Off(e, sent[k].ack) + sent[k].rwnd <= limit
  <2>1. CASE k \in 1..l /\ sent[k] = link[k]
    BY <1>1, <2>1 DEF Windows
  <2>2. CASE 1 \in 1..q /\ sent[k] = segs[1]
    BY <1>1, <2>2
  <2> QED
    BY <1>3, <2>1, <2>2
<1>5. ASSUME NEW k \in 1..m, NEW j \in 1..k
      PROVE  Off(e, sent[j].ack) <= Off(e, sent[k].ack)
  <2>1. j \in 1..m /\ j <= k
    BY <1>2
  <2>2. CASE k \in 1..l /\ sent[k] = link[k]
    <3>1. j \in 1..l /\ j # l + 1
      BY <1>2, <2>1, <2>2
    <3>2. sent[j] = link[j]
      BY <1>3, <2>1, <3>1
    <3> QED
      BY <1>1, <2>2, <3>2 DEF Windows
  <2>3. CASE k = l + 1 /\ 1 \in 1..q /\ sent[k] = segs[1]
    <3>1. Off(e, sent[k].ack) = r
      BY <1>1, <2>3
    <3>2. CASE sent[j] = segs[1]
      BY <2>3, <3>1, <3>2
    <3>3. CASE j \in 1..l /\ sent[j] = link[j]
      BY <1>1, <3>1, <3>3
    <3> QED
      BY <1>3, <2>1, <3>2, <3>3
  <2> QED
    BY <1>3, <2>2, <2>3
<1>6. Windows(e, una, wnd, sent, limit)
  BY <1>1, <1>4, <1>5 DEF Windows
<1> QED
  BY <1>1, <1>6

(***************************************************************************)
(* When all that is written fits into the ring, the walk of the early      *)
(* segments never fails the assert.                                        *)
(***************************************************************************)
LEMMA WriteFits ==
  ASSUME NEW e \in Endpoint, NEW g \in Nat, NEW n \in 0..(Half - 1), n <= g + Capacity,
         NEW s \in Sock, s.state = "ESTABLISHED", ReceiverOK(e, s, g, n),
         NEW seq, NEW data \in Seq(Nat), NEW end, NEW len,
         IsNext(e, s, seq, data, end, len, n)
  PROVE  write_ring_buffer(s, LastBytes(data, len)).state = "ESTABLISHED"
<1>1. PICK r, m : r = g + m /\ m = Len(s.rcv_buf)
  OBVIOUS
<1>2. m \in Nat /\ n \in Nat /\ Capacity \in Nat /\ Peer(e) \in Endpoint
  BY <1>1, SpaceIsTwoHalves, StreamAssumption, Peers DEF Sock
<1>3. r \in 0..n /\ s.rcv_nxt = Num(Peer(e), r)
  BY <1>1, <1>2 DEF ReceiverOK
<1>4. r + len <= n /\ len \in 1..Len(data)
  BY <1>2, <1>3, NextBytes DEF IsNext
<1>5. Len(LastBytes(data, len)) = len
  BY <1>4, LastBytesFacts
<1>6. len <= Capacity - m
  <2>1. len \in Int
    BY <1>4
  <2> QED
    BY ONLY <1>1, <1>2, <1>4, <2>1, g \in Nat, n <= g + Capacity
<1> QED
  BY <1>1, <1>5, <1>6 DEF write_ring_buffer, FreeSpace, Sock

LEMMA StepFits ==
  ASSUME NEW e \in Endpoint, NEW g \in Nat, NEW n \in 0..(Half - 1), n <= g + Capacity,
         NEW s, NEW w, WalkOK(e, w, s, g, n), w.sock.state = "ESTABLISHED",
         NEW x \in Early, Stretch(Peer(e), x.seq, x.data, n)
  PROVE  OfoStep(w, x).sock.state = "ESTABLISHED"
<1>1. PICK q, b : q = w.sock /\ b = w.stopped
  OBVIOUS
<1>2. /\ w = [sock |-> q, stopped |-> b] /\ q \in Sock /\ q.state = "ESTABLISHED"
      /\ ReceiverOK(e, q, g, n)
  BY <1>1 DEF WalkOK, Advances
<1>3. PICK end, len : end = SeqEnd(x) /\ len = Diff(end, q.rcv_nxt)
  OBVIOUS
<1>4. CASE b
  BY <1>1, <1>2, <1>4 DEF OfoStep, Sock
<1>5. CASE ~b /\ len <= 0
  BY <1>1, <1>2, <1>3, <1>5 DEF OfoStep
<1>6. CASE ~b /\ ~(len <= 0) /\ ~greater_or_equal_32b(q.rcv_nxt, x.seq)
  BY <1>1, <1>2, <1>3, <1>6 DEF OfoStep, Sock
<1>7. CASE ~b /\ ~(len <= 0) /\ greater_or_equal_32b(q.rcv_nxt, x.seq)
  <2>1. PICK z : z = write_ring_buffer(q, LastBytes(x.data, len))
    OBVIOUS
  <2>2. x.data \in Seq(Nat) /\ n \in Nat
    BY SpaceIsTwoHalves DEF Early
  <2>3. PICK r : r = g + Len(q.rcv_buf)
    OBVIOUS
  <2>4. r \in 0..n /\ q.rcv_nxt = Num(Peer(e), r) /\ Peer(e) \in Endpoint
    BY <1>2, <2>2, <2>3, Peers DEF ReceiverOK, Sock
  <2>5. PICK a \in 0..n : x.seq = Num(Peer(e), a)
    BY DEF Stretch
  <2>6. end = Plus(x.seq, Len(x.data))
    BY <1>3 DEF SeqEnd
  <2>7. len \in Int
    BY <1>3, <2>2, <2>4, <2>6, NextBytes
  <2>8. less_or_equal_32b(x.seq, q.rcv_nxt)
    BY <1>7, <2>2, <2>4, <2>5, NumCompare, SpaceIsTwoHalves
  <2>9. PICK d, sq : d = x.data /\ sq = x.seq
    OBVIOUS
  <2>10. IsNext(e, q, sq, d, end, len, n) /\ d \in Seq(Nat)
    BY <1>3, <1>7, <2>2, <2>6, <2>7, <2>8, <2>9 DEF IsNext
  <2>11. write_ring_buffer(q, LastBytes(d, len)).state = "ESTABLISHED"
    BY ONLY <1>2, <2>10, e \in Endpoint, g \in Nat, n \in 0..(Half - 1), n <= g + Capacity,
            WriteFits
  <2>12. OfoStep(w, x).sock = [z EXCEPT !.rcv_nxt = Plus(@, len)]
    BY <1>1, <1>2, <1>3, <1>7, <2>1 DEF OfoStep
  <2>13. z.state = "ESTABLISHED"
    BY <2>1, <2>9, <2>11 DEF write_ring_buffer, Sock
  <2>14. [z EXCEPT !.rcv_nxt = Plus(@, len)].state = z.state
    BY <1>2, <2>1 DEF write_ring_buffer, Sock
  <2> QED
    BY <2>12, <2>13, <2>14
<1> QED
  BY <1>4, <1>5, <1>6, <1>7

LEMMA WalkFits ==
  ASSUME NEW e \in Endpoint, NEW g \in Nat, NEW n \in 0..(Half - 1), n <= g + Capacity,
         NEW s \in Sock, s.state = "ESTABLISHED", ReceiverOK(e, s, g, n),
         NEW m \in Nat, m <= Len(s.ofo), NEW f, Walked(f, s, m)
  PROVE  f[m].sock.state = "ESTABLISHED"
<1> DEFINE T == {i \in 0..m : f[i].sock.state # "ESTABLISHED"}
<1>1. SUFFICES ASSUME T # {}
               PROVE  FALSE
  OBVIOUS
<1>2. PICK i \in T : \A k \in T : i <= k
  <2>1. T \subseteq Nat /\ T # {}
    BY <1>1
  <2> HIDE DEF T
  <2> QED
    BY <2>1, LeastNatural
<1>3. s.ofo \in Seq(Early)
  BY DEF Sock
<1>4. \A k \in 1..Len(s.ofo) : Stretch(Peer(e), s.ofo[k].seq, s.ofo[k].data, n)
  BY DEF ReceiverOK
<1>5. CASE i = 0
  <2>1. PICK t : t = [s EXCEPT !.ofo = << >>]
    OBVIOUS
  <2>2. t.state = "ESTABLISHED"
    BY <2>1 DEF Sock
  <2>3. f[0] = [sock |-> t, stopped |-> FALSE]
    BY <2>1 DEF Walked
  <2>4. f[0].sock = t
    BY ONLY <2>3
  <2> QED
    BY <1>2, <1>5, <2>2, <2>4
<1>6. CASE i # 0
  <2>1. i \in 1..m /\ i - 1 \in 0..m /\ i - 1 \notin T
    BY <1>2, <1>6
  <2>2. PICK w, x : w = f[i - 1] /\ x = s.ofo[i]
    OBVIOUS
  <2>3. WalkOK(e, w, s, g, n) /\ w.sock.state = "ESTABLISHED"
    <3>1. \A k \in 0..m : WalkOK(e, f[k], s, g, n)
      BY WalkKeeps
    <3> QED
      BY <2>1, <2>2, <3>1
  <2>4. x \in Early /\ Stretch(Peer(e), x.seq, x.data, n)
    BY <1>3, <1>4, <2>1, <2>2
  <2>5. f[i] = OfoStep(w, x)
    <3>1. i \in 0..m /\ i # 0
      BY <2>1
    <3>2. f[i] = OfoStep(f[i - 1], s.ofo[i])
      BY ONLY <3>1, Walked(f, s, m) DEF Walked
    <3> QED
      BY <2>2, <3>2
  <2>6. OfoStep(w, x).sock.state = "ESTABLISHED"
    BY <2>3, <2>4, StepFits
  <2> QED
    BY <1>2, <2>5, <2>6
<1> QED
  BY <1>5, <1>6

LEMMA CheckFits ==
  ASSUME NEW e \in Endpoint, NEW g \in Nat, NEW n \in 0..(Half - 1), n <= g + Capacity,
         NEW s \in Sock, s.state = "ESTABLISHED", ReceiverOK(e, s, g, n)
  PROVE  tcp_check_ofo_buf(s).state = "ESTABLISHED"
<1>1. PICK m : m = Len(s.ofo)
  OBVIOUS
<1>2. m \in Nat /\ m <= Len(s.ofo)
  BY <1>1 DEF Sock
<1>3. PICK h : Walked(h, s, m)
  BY <1>2, WalkExists
<1>4. PICK f : f = CHOOSE x : Walked(x, s, m)
  OBVIOUS
<1>5. Walked(f, s, m)
  BY <1>3, <1>4
<1>6. tcp_check_ofo_buf(s) = f[m].sock
  BY <1>1, <1>4 DEF tcp_check_ofo_buf, Walked
<1>7. f[m].sock.state = "ESTABLISHED"
  BY <1>2, <1>5, WalkFits
<1> QED
  BY <1>6, <1>7

(***************************************************************************)
(* handle_recv_data keeps the windows true when the peer stayed within     *)
(* them, and never fails the assert.                                       *)
(***************************************************************************)
LEMMA DataMakesRoom ==
  ASSUME NEW e \in Endpoint, NEW g \in Nat, NEW n \in 0..(Half - 1),
         NEW s \in Sock, s.state = "ESTABLISHED", ReceiverOK(e, s, g, n), Told(s, g),
         n <= Limit(g + Len(s.rcv_buf), g),
         NEW cb \in Segments, Stretch(Peer(e), cb.seq, cb.data, n),
         NEW t, t = handle_recv_data(s, cb)
  PROVE  t.state = "ESTABLISHED" /\ Told(t, g)
<1>1. PICK seq, data, end, len, r : /\ seq = cb.seq /\ data = cb.data
                                    /\ end = Plus(seq, Len(data))
                                    /\ len = Diff(end, s.rcv_nxt) /\ r = g + Len(s.rcv_buf)
  OBVIOUS
<1>2. SeqEnd(cb) = end /\ data \in Seq(Nat) /\ Stretch(Peer(e), seq, data, n)
  BY <1>1 DEF SeqEnd, Segments
<1>3. Capacity \in Nat \ {0} /\ n \in Nat /\ Peer(e) \in Endpoint
  BY StreamAssumption, SpaceIsTwoHalves, Peers
<1>4. r \in 0..n /\ s.rcv_nxt = Num(Peer(e), r) /\ Len(s.rcv_buf) \in Nat
  BY <1>1, <1>3 DEF ReceiverOK, Sock
<1>5. /\ len \in Int
      /\ less_or_equal_32b(seq, s.rcv_nxt) /\ len > 0 => len \in 1..Len(data) /\ r + len <= n
      /\ greater_than_32b(end, s.rcv_nxt) <=> len > 0
  <2>1. len = Diff(end, Num(Peer(e), r))
    BY <1>1, <1>4
  <2> QED
    BY <1>1, <1>2, <1>3, <1>4, <2>1, NextBytes
<1>6. CASE data = << >> \/ len <= 0
  <2>1. ~(less_or_equal_32b(seq, s.rcv_nxt) /\ greater_than_32b(end, s.rcv_nxt))
    BY <1>5, <1>6
  <2>2. t = s
    BY <1>1, <1>2, <1>6, <2>1 DEF handle_recv_data, update_tsk
  <2> QED
    BY <2>2
<1>7. CASE ~(data = << >> \/ len <= 0) /\ FreeSpace(s) < Len(data)
  <2>1. t = s
    BY <1>1, <1>2, <1>7 DEF handle_recv_data
  <2> QED
    BY <2>1
<1>8. CASE /\ ~(data = << >> \/ len <= 0) /\ ~(FreeSpace(s) < Len(data))
           /\ less_or_equal_32b(seq, s.rcv_nxt)
  <2>1. PICK w, u, c, v : /\ w = write_ring_buffer(s, LastBytes(data, len))
                          /\ u = [w EXCEPT !.rcv_nxt = end]
                          /\ c = tcp_check_ofo_buf(u)
                          /\ v = AtLeastOne(FreeSpace(c))
    OBVIOUS
  <2>2. len > 0 /\ len \in 1..Len(data)
    BY <1>5, <1>8
  <2>3. IsNext(e, s, seq, data, end, len, n)
    BY <1>1, <1>2, <1>8, <2>2 DEF IsNext
  <2>4. n <= g + Capacity
    <3>1. PICK l, b : l = Len(data) /\ b = Len(s.rcv_buf)
      OBVIOUS
    <3>2. l \in Nat \ {0} /\ b \in Nat /\ l <= Capacity - b /\ r = g + b
      <4>1. l \in Nat
        BY <1>2, <3>1
      <4>2. b \in Nat /\ r = g + b /\ FreeSpace(s) = Capacity - b
        BY <1>1, <1>4, <3>1 DEF FreeSpace
      <4>3. len \in 1..l /\ ~(Capacity - b < l)
        BY <1>8, <2>2, <3>1, <4>2
      <4> QED
        BY ONLY <1>3, <4>1, <4>2, <4>3
    <3>3. n <= Limit(r, g)
      BY <1>1
    <3>4. Limit(r, g) = IF r + 1 > g + Capacity THEN r + 1 ELSE g + Capacity
      BY DEF Limit
    <3> QED
      BY ONLY <1>3, <3>2, <3>3, <3>4, g \in Nat
  <2>5. u = [write_ring_buffer(s, LastBytes(data, len)) EXCEPT !.rcv_nxt = end]
    BY <2>1
  <2>6. Advances(e, s, u, g, n) /\ w.state = "ESTABLISHED"
    BY ONLY <1>2, <2>1, <2>3, <2>4, <2>5, e \in Endpoint, g \in Nat, n \in 0..(Half - 1),
            s \in Sock, s.state = "ESTABLISHED", ReceiverOK(e, s, g, n), WriteAdvances, WriteFits
  <2>7. u \in Sock /\ u.state = "ESTABLISHED" /\ ReceiverOK(e, u, g, n)
    <3>1. u.state = w.state
      BY <2>1 DEF write_ring_buffer, Sock
    <3> QED
      BY <2>6, <3>1 DEF Advances
  <2>8. c.state = "ESTABLISHED" /\ c \in Sock
    BY <2>1, <2>4, <2>7, CheckFits, CheckAdvances DEF Advances
  <2>9. w.rcv_nxt = s.rcv_nxt
    BY <2>1 DEF write_ring_buffer, Sock
  <2>10. update_tsk(w, cb) = u
    BY <1>1, <1>2, <1>5, <1>8, <2>1, <2>2, <2>9 DEF update_tsk
  <2>11. t = [c EXCEPT !.rcv_wnd = v]
    BY <1>1, <1>2, <1>8, <2>1, <2>10 DEF handle_recv_data
  <2>12. t.state = "ESTABLISHED" /\ t.rcv_buf = c.rcv_buf /\ t.rcv_wnd = v
    BY <2>8, <2>11 DEF Sock
  <2>13. PICK b : b = Len(c.rcv_buf)
    OBVIOUS
  <2>14. b \in Nat /\ v = IF Capacity - b > 1 THEN Capacity - b ELSE 1
    <3>1. b \in Nat
      BY <2>8, <2>13 DEF Sock
    <3> QED
      BY <2>1, <2>13, <3>1 DEF AtLeastOne, FreeSpace
  <2>15. Limit(g + b, g) = IF g + b + 1 > g + Capacity THEN g + b + 1 ELSE g + Capacity
    BY DEF Limit
  <2>16. g + b + v <= Limit(g + b, g)
    BY ONLY <1>3, <2>14, <2>15, g \in Nat
  <2> QED
    BY <2>12, <2>13, <2>16 DEF Told
<1>9. CASE /\ ~(data = << >> \/ len <= 0) /\ ~(FreeSpace(s) < Len(data))
           /\ ~less_or_equal_32b(seq, s.rcv_nxt)
  <2>1. t = tcp_ofo_buf_append(s, cb)
    BY <1>1, <1>2, <1>9 DEF handle_recv_data
  <2>2. t = s \/ \E list : t = [s EXCEPT !.ofo = list]
    BY <2>1 DEF tcp_ofo_buf_append
  <2>3. t.state = s.state /\ t.rcv_buf = s.rcv_buf /\ t.rcv_wnd = s.rcv_wnd
    BY <2>2 DEF Sock
  <2> QED
    BY <2>3 DEF Told
<1> QED
  BY <1>6, <1>7, <1>8, <1>9

(***************************************************************************)
(* tcp_process at the end that writes nothing: every answer tells the      *)
(* window of the sock as it is then.                                       *)
(***************************************************************************)
LEMMA ReceiverTells ==
  ASSUME NEW e \in Endpoint, NEW g \in Nat, NEW n \in 0..(Half - 1),
         NEW s \in Sock, s.state # "ABORTED", ReceiverOK(e, s, g, n), Told(s, g),
         s.send_buf = << >>, n <= Limit(g + Len(s.rcv_buf), g),
         NEW cb \in Segments, Stretch(Peer(e), cb.seq, cb.data, n),
         NEW p, p = tcp_process(s, cb)
  PROVE  /\ p.sock.state # "ABORTED" /\ p.sock.send_buf = << >> /\ Told(p.sock, g)
         /\ Len(p.out) <= 1
         /\ \A i \in 1..Len(p.out) : /\ p.out[i].ack = p.sock.rcv_nxt
                                     /\ p.out[i].rwnd = p.sock.rcv_wnd
<1>1. ASSUME NEW t, t.state # "ABORTED", t.send_buf = << >>, Told(t, g),
             p = [sock |-> t, out |-> << >>] \/ p = [sock |-> t, out |-> <<ControlPacket(t, {"ACK"})>>]
      PROVE  /\ p.sock.state # "ABORTED" /\ p.sock.send_buf = << >> /\ Told(p.sock, g)
             /\ Len(p.out) <= 1
             /\ \A i \in 1..Len(p.out) : /\ p.out[i].ack = p.sock.rcv_nxt
                                         /\ p.out[i].rwnd = p.sock.rcv_wnd
  <2>1. PICK seg : seg = ControlPacket(t, {"ACK"})
    OBVIOUS
  <2>2. p.sock = t /\ (p.out = << >> \/ p.out = <<seg>>)
    BY <1>1, <2>1
  <2>3. Len(p.out) <= 1 /\ \A i \in 1..Len(p.out) : p.out[i] = seg
    <3>1. PICK o : o = p.out
      OBVIOUS
    <3>2. o = << >> \/ o = <<seg>>
      BY <2>2, <3>1
    <3>3. Len(o) <= 1 /\ \A i \in 1..Len(o) : o[i] = seg
      <4>1. CASE o = << >>
        BY ONLY <4>1
      <4>2. CASE o = <<seg>>
        <5>1. Len(o) = 1 /\ o[1] = seg
          BY ONLY <4>2
        <5> QED
          BY ONLY <5>1
      <4> QED
        BY ONLY <3>2, <4>1, <4>2
    <3> QED
      BY <3>1, <3>3
  <2>4. seg.ack = t.rcv_nxt /\ seg.rwnd = t.rcv_wnd
    BY <2>1 DEF ControlPacket
  <2> QED
    BY <1>1, <2>2, <2>3, <2>4
<1>2. CASE s.state # "ESTABLISHED" \/ OutOfWindow(s, cb)
  BY <1>1, <1>2 DEF tcp_process
<1>3. CASE ~(s.state # "ESTABLISHED" \/ OutOfWindow(s, cb)) /\ Old(s, cb)
  BY <1>1, <1>3 DEF tcp_process
<1>4. CASE /\ ~(s.state # "ESTABLISHED" \/ OutOfWindow(s, cb)) /\ ~Old(s, cb)
           /\ "RST" \in cb.flags
  <2>1. PICK t : t = [s EXCEPT !.state = "CLOSED"]
    OBVIOUS
  <2>2. /\ t.state = "CLOSED" /\ t.send_buf = s.send_buf /\ t.rcv_buf = s.rcv_buf
        /\ t.rcv_wnd = s.rcv_wnd
    BY <2>1 DEF Sock
  <2>3. p = [sock |-> t, out |-> << >>]
    BY <1>4, <2>1 DEF tcp_process
  <2>4. Told(t, g)
    BY <2>2 DEF Told
  <2> QED
    BY <1>1, <2>2, <2>3, <2>4
<1>5. CASE /\ ~(s.state # "ESTABLISHED" \/ OutOfWindow(s, cb)) /\ ~Old(s, cb)
           /\ ~("RST" \in cb.flags)
  <2>1. PICK t, u, left : /\ t = handle_recv_data(s, cb) /\ u = handle_ack(t, cb)
                          /\ left = tcp_send_buf_clear(t.send_buf, cb.ack)
    OBVIOUS
  <2>2. t.state = "ESTABLISHED" /\ Told(t, g)
    BY <1>5, <2>1, DataMakesRoom
  <2>3. t \in Sock /\ t.send_buf = << >>
    BY <1>5, <2>1, DataIsHandled DEF Handled
  <2>4. left = << >>
    <3>1. PICK b : b = t.send_buf
      OBVIOUS
    <3>2. b \in Seq(Buffered) /\ b = << >>
      BY <2>3, <3>1 DEF Sock
    <3>3. Cleared(b, cb.ack, left)
      BY <2>1, <3>1, <3>2, ClearFacts
    <3> QED
      BY <3>2, <3>3 DEF Cleared
  <2>5. /\ u.state = t.state /\ u.send_buf = << >> /\ u.rcv_buf = t.rcv_buf
        /\ u.rcv_wnd = t.rcv_wnd
    BY <2>1, <2>3, <2>4 DEF handle_ack, Sock
  <2>6. p = [sock |-> u, out |-> << >>] \/ p = [sock |-> u, out |-> <<ControlPacket(u, {"ACK"})>>]
    BY <1>5, <2>1, <2>2 DEF tcp_process
  <2>7. Told(u, g)
    BY <2>2, <2>5 DEF Told
  <2> QED
    BY <1>1, <2>2, <2>5, <2>6, <2>7
<1> QED
  BY <1>2, <1>3, <1>4, <1>5

(***************************************************************************)
(* tcp_process at the end that writes, of a segment without data: the ack  *)
(* and the window are the old or the new ones, never the new ack with the  *)
(* old window.                                                             *)
(***************************************************************************)
LEMMA SenderIsTold ==
  ASSUME NEW s \in Sock, s.state # "ABORTED", NEW cb \in Segments, cb.data = << >>,
         NEW p, p = tcp_process(s, cb)
  PROVE  /\ p.sock.state # "ABORTED" /\ p.sock.chunk = s.chunk
         /\ p.sock.snd_una \in {s.snd_una, cb.ack}
         /\ \/ p.sock.snd_una = s.snd_una /\ p.sock.snd_wnd = s.snd_wnd
            \/ p.sock.snd_wnd = cb.rwnd
<1>1. CASE s.state # "ESTABLISHED" \/ OutOfWindow(s, cb)
  BY <1>1 DEF tcp_process
<1>2. CASE ~(s.state # "ESTABLISHED" \/ OutOfWindow(s, cb)) /\ Old(s, cb)
  BY <1>2 DEF tcp_process
<1>3. CASE /\ ~(s.state # "ESTABLISHED" \/ OutOfWindow(s, cb)) /\ ~Old(s, cb)
           /\ "RST" \in cb.flags
  <2>1. p.sock = [s EXCEPT !.state = "CLOSED"]
    BY <1>3 DEF tcp_process
  <2> QED
    BY <2>1 DEF Sock
<1>4. CASE /\ ~(s.state # "ESTABLISHED" \/ OutOfWindow(s, cb)) /\ ~Old(s, cb)
           /\ ~("RST" \in cb.flags)
  <2>1. PICK t, u : t = handle_recv_data(s, cb) /\ u = handle_ack(t, cb)
    OBVIOUS
  <2>2. t = s \/ t = [s EXCEPT !.rcv_nxt = SeqEnd(cb)]
    BY <2>1 DEF handle_recv_data, update_tsk
  <2>3. /\ t.state = s.state /\ t.chunk = s.chunk /\ t.snd_una = s.snd_una
        /\ t.snd_wnd = s.snd_wnd
    BY <2>2 DEF Sock
  <2>4. p.sock = u
    BY <1>4, <2>1, <2>3 DEF tcp_process
  <2>5. /\ u.state = t.state /\ u.chunk = t.chunk /\ u.snd_wnd = cb.rwnd
        /\ u.snd_una \in {t.snd_una, cb.ack}
    BY <2>1, <2>2 DEF handle_ack, Sock
  <2> QED
    BY <2>3, <2>4, <2>5
<1> QED
  BY <1>1, <1>2, <1>3, <1>4

-----------------------------------------------------------------------------
(***************************************************************************)
(* Room in every state.  What IInv says of a stream in one direction.      *)
(***************************************************************************)
OneWay(c, r, g, q) ==
  /\ r \in Endpoint /\ r # c /\ Peer(r) = c
  /\ sk[c] \in Sock /\ sk[r] \in Sock /\ net[c] \in Seq(Segments)
  /\ wrote[c] \in 0..(Half - 1) /\ wrote[c] \in Nat /\ wrote[r] = 0 /\ sk[r].chunk = 0
  /\ wrote[c] + sk[c].chunk <= ToSend[c] /\ ToSend[c] \in Nat
  /\ ToSend[c] + Capacity < Half
  /\ g \in Nat /\ q \in Nat /\ q \in 0..wrote[c] /\ q \in 0..(Half - 1)
  /\ Len(sk[r].rcv_buf) \in Nat /\ q = g + Len(sk[r].rcv_buf)
  /\ Limit(q, g) \in Nat
  /\ ReceiverOK(r, sk[r], g, wrote[c]) /\ SenderOK(r, sk[r], 0, Received(c))
  /\ SenderOK(c, sk[c], wrote[c], q)
  /\ Off(c, sk[c].snd_una) \in 0..q
  /\ \A i \in 1..Len(net[c]) : Off(c, net[c][i].ack) \in 0..q /\ net[c][i].data = << >>

LEMMA OneWayFacts ==
  ASSUME IInv, NEW c \in Endpoint, ToSend[Peer(c)] = 0
  PROVE  OneWay(c, Peer(c), Len(got[Peer(c)]), Received(Peer(c)))
<1> DEFINE r == Peer(c)
           g == Len(got[r])
           q == Received(r)
<1>1. r \in Endpoint /\ r # c /\ Peer(r) = c
  BY Peers
<1>2. /\ sk[c] \in Sock /\ net[c] \in Seq(Segments)
      /\ wrote[c] \in 0..(Half - 1) /\ wrote[c] + sk[c].chunk <= ToSend[c]
      /\ Half \in Nat /\ ToSend[c] \in Nat /\ ToSend[c] + Capacity < Half
      /\ SenderOK(c, sk[c], wrote[c], Received(Peer(c)))
  BY Bounds
<1>3. /\ sk[r] \in Sock /\ Len(got[r]) \in Nat /\ Len(sk[r].rcv_buf) \in Nat
      /\ Received(r) \in 0..wrote[Peer(r)]
      /\ Received(r) = Len(got[r]) + Len(sk[r].rcv_buf)
      /\ wrote[r] \in 0..(Half - 1) /\ wrote[r] + sk[r].chunk <= ToSend[r]
      /\ ReceiverOK(r, sk[r], Len(got[r]), wrote[Peer(r)])
      /\ SenderOK(r, sk[r], wrote[r], Received(Peer(r)))
  BY <1>1, Bounds
<1>4. wrote[c] \in Nat /\ q \in 0..wrote[c] /\ q \in Nat /\ q \in 0..(Half - 1)
  <2>1. PICK x, h, z : x = wrote[c] /\ h = Half /\ z = q
    OBVIOUS
  <2>2. h \in Nat /\ x \in 0..(h - 1) /\ z \in 0..x
    BY <1>1, <1>2, <1>3, <2>1
  <2>3. x \in Nat /\ z \in Nat /\ z \in 0..(h - 1)
    BY ONLY <2>2
  <2> QED
    BY <2>1, <2>2, <2>3
<1>5. wrote[r] = 0 /\ sk[r].chunk = 0
  <2>1. sk[r].chunk \in Nat /\ wrote[r] \in Nat
    BY <1>2, <1>3 DEF Sock
  <2> QED
    BY <1>3, <2>1
<1>6. Off(c, sk[c].snd_una) \in 0..q
  BY <1>2, <1>4, OffAcks DEF SenderOK
<1>7. ASSUME NEW i \in 1..Len(net[c])
      PROVE  Off(c, net[c][i].ack) \in 0..q /\ net[c][i].data = << >>
  <2>1. SegmentOf(r, net[c][i], 0, q)
    BY <1>5 DEF IInv
  <2>2. Off(c, net[c][i].ack) \in 0..q
    BY <1>1, <1>4, <2>1, OffAcks DEF SegmentOf
  <2>3. PICK a \in 0..0 : a + Len(net[c][i].data) <= 0
    BY <2>1 DEF SegmentOf, Stretch
  <2>4. net[c][i].data \in Seq(Nat)
    <3>1. net[c][i] \in Segments
      BY <1>2
    <3> QED
      BY <3>1 DEF Segments
  <2>5. Len(net[c][i].data) = 0
    BY <2>3, <2>4
  <2> QED
    BY <2>2, <2>4, <2>5
<1>8. Limit(q, g) \in Nat
  <2>1. PICK x, y : x = q /\ y = g
    OBVIOUS
  <2>2. x \in Nat /\ y \in Nat
    BY <1>3, <1>4, <2>1
  <2>3. x <= x /\ y <= y
    BY ONLY <2>2
  <2>4. Limit(x, y) \in Nat
    BY ONLY <2>2, <2>3, LimitGrows
  <2> QED
    BY <2>1, <2>4
<1> QED
  BY <1>1, <1>2, <1>3, <1>4, <1>5, <1>6, <1>7, <1>8 DEF OneWay

LEMMA InitHasRoom == Init /\ ShortStreams => Room
<1> SUFFICES ASSUME Init, ShortStreams, NEW c \in Endpoint, ToSend[Peer(c)] = 0
             PROVE  Roomy(c, sk[c], sk[Peer(c)], net[c], wrote[c], Len(got[Peer(c)]))
  BY DEF Room
<1>1. PICK r : r = Peer(c)
  OBVIOUS
<1>2. r \in Endpoint /\ Capacity \in Nat
  BY <1>1, Peers, StreamAssumption
<1>3. /\ sk[c] = Established(c) /\ sk[r] = Established(r) /\ net[c] = << >>
      /\ wrote[c] = 0 /\ got[r] = << >>
  BY <1>2 DEF Init
<1>4. /\ sk[c].state = "ESTABLISHED" /\ sk[r].state = "ESTABLISHED"
      /\ sk[r].send_buf = << >> /\ sk[r].rcv_buf = << >> /\ sk[r].rcv_wnd = Capacity
      /\ sk[c].chunk = 0 /\ sk[c].snd_una = Plus(ISS[c], 1) /\ sk[c].snd_wnd = Capacity
  BY <1>3 DEF Established
<1>5. Len(sk[r].rcv_buf) = 0 /\ Len(got[r]) = 0 /\ Len(net[c]) = 0
  BY <1>3, <1>4
<1>6. Limit(0, 0) \in Nat /\ Capacity <= Limit(0, 0)
  BY <1>2, LimitGrows
<1>7. Off(c, sk[c].snd_una) = 0
  <2>1. 0 \in Nat /\ 0 < Half /\ ISS[c] \in Int
    BY SpaceIsTwoHalves, StreamAssumption DEF SeqNum
  <2>2. Num(c, 0) = sk[c].snd_una
    BY <1>4 DEF Num
  <2> QED
    BY <2>1, <2>2, OffNum
<1>8. Told(sk[r], 0)
  BY <1>2, <1>4, <1>5, <1>6 DEF Told
<1>9. Windows(c, sk[c].snd_una, sk[c].snd_wnd, net[c], Limit(0, 0))
  BY <1>2, <1>4, <1>5, <1>6, <1>7 DEF Windows
<1> QED
  BY <1>1, <1>3, <1>4, <1>5, <1>6, <1>8, <1>9 DEF Roomy

(***************************************************************************)
(* A chunk is cut to the window.                                           *)
(***************************************************************************)
LEMMA CutChunkKeepsRoom ==
  ASSUME IInv, Room, NEW c \in Endpoint, ToSend[Peer(c)] = 0, NEW e \in Endpoint, CutChunk(e)
  PROVE  Roomy(c, sk'[c], sk'[Peer(c)], net'[c], wrote'[c], Len(got'[Peer(c)]))
<1>1. PICK r, g, q : r = Peer(c) /\ g = Len(got[r]) /\ q = Received(r)
  OBVIOUS
<1>2. Roomy(c, sk[c], sk[r], net[c], wrote[c], g)
  BY <1>1 DEF Room
<1>3. /\ r \in Endpoint /\ r # c /\ sk[c] \in Sock /\ wrote[r] = 0
      /\ wrote[c] \in Nat /\ q \in 0..wrote[c] /\ wrote[c] + sk[c].chunk <= ToSend[c]
      /\ q \in 0..(Half - 1) /\ ToSend[c] \in Nat /\ ToSend[c] + Capacity < Half
      /\ SenderOK(c, sk[c], wrote[c], q)
      /\ g \in Nat /\ q \in Nat /\ q = g + Len(sk[r].rcv_buf)
      /\ Limit(q, g) \in Nat
      /\ Off(c, sk[c].snd_una) \in 0..q
  <2>1. OneWay(c, r, g, q)
    BY <1>1, OneWayFacts
  <2> QED
    BY <1>1, <2>1 DEF OneWay
<1>4. e = c
  <2>1. e = r => \E len \in 1..(0 - 0) : TRUE
    BY <1>1, <1>3 DEF CutChunk
  <2> QED
    BY <1>1, <2>1, Peers
<1>5. PICK len \in 1..(ToSend[c] - wrote[c]) :
        sk' = [sk EXCEPT ![c].chunk = SendLen(sk[c], len)]
  BY <1>4 DEF CutChunk
<1>10. PICK k : k = SendLen(sk[c], len) /\ sk' = [sk EXCEPT ![c].chunk = k]
  BY <1>5
<1>6. /\ sk'[c] = [sk[c] EXCEPT !.chunk = k] /\ sk'[r] = sk[r] /\ net' = net
      /\ wrote' = wrote /\ got' = got
  BY <1>3, <1>4, <1>10 DEF CutChunk, IInv, Typing
<1>7. k \in Int /\ wrote[c] + k <= Off(c, sk[c].snd_una) + sk[c].snd_wnd
  <2>1. PICK u, w, n : u = Off(c, sk[c].snd_una) /\ w = sk[c].snd_wnd /\ n = wrote[c]
    OBVIOUS
  <2>2. w \in 1..Capacity /\ Capacity \in Nat /\ Half \in Nat /\ MSS \in Nat \ {0}
    BY <1>3, <2>1, SpaceIsTwoHalves, StreamAssumption DEF Sock
  <2>3. n \in Nat /\ n <= ToSend[c] /\ u \in 0..q /\ q \in 0..n
    <3>1. PICK x : x = sk[c].chunk
      OBVIOUS
    <3>2. x \in Nat /\ n + x <= ToSend[c] /\ n \in Nat
      BY <1>3, <2>1, <3>1 DEF Sock
    <3>3. n <= ToSend[c]
      BY ONLY <1>3, <3>2
    <3> QED
      BY <1>3, <2>1, <3>2, <3>3
  <2>4. u \in Nat /\ w \in Nat /\ n < Half /\ u + w < Half /\ u + w \in Nat
    <3>1. PICK m : m = ToSend[c]
      OBVIOUS
    <3>2. m \in Nat /\ n <= m /\ m + Capacity < Half
      BY <1>3, <2>3, <3>1
    <3> QED
      BY ONLY <2>2, <2>3, <3>2
  <2>5. sk[c].snd_una = Num(c, u) /\ sk[c].snd_nxt = Num(c, n)
    BY <1>3, <2>1, OffAcks DEF SenderOK
  <2>6. PICK z : z = u + w
    OBVIOUS
  <2>7. Plus(sk[c].snd_una, w) = Num(c, z)
    BY <2>4, <2>5, <2>6, NumPlus
  <2>8. Diff(Num(c, z), Num(c, n)) = z - n
    BY <2>3, <2>4, <2>6, NumDiff
  <2>9. k = Smaller(Smaller(len, MSS), z - n)
    BY <1>10, <2>1, <2>5, <2>7, <2>8 DEF SendLen
  <2>10. k <= z - n /\ k \in Int
    <3>1. len \in Int
      OBVIOUS
    <3> QED
      BY <2>2, <2>3, <2>4, <2>6, <2>9, <3>1 DEF Smaller
  <2>11. n + k <= z
    BY ONLY <2>3, <2>4, <2>6, <2>10
  <2> QED
    BY <2>1, <2>6, <2>10, <2>11
<1>8. /\ sk'[c].state = sk[c].state /\ sk'[c].snd_una = sk[c].snd_una
      /\ sk'[c].snd_wnd = sk[c].snd_wnd /\ sk'[c].chunk = k
  BY <1>3, <1>6 DEF Sock
<1>9. wrote[c] + k <= Limit(q, g)
  <2>1. Off(c, sk[c].snd_una) + sk[c].snd_wnd <= Limit(q, g)
    BY <1>2, <1>3 DEF Roomy, Windows
  <2>2. sk[c].snd_wnd \in Int /\ Off(c, sk[c].snd_una) \in Int
    BY <1>3 DEF Sock
  <2> QED
    BY ONLY <1>3, <1>7, <2>1, <2>2
<1> QED
  BY <1>1, <1>2, <1>3, <1>6, <1>8, <1>9 DEF Roomy

LEMMA SendChunkKeepsRoom ==
  ASSUME IInv, Room, NEW c \in Endpoint, ToSend[Peer(c)] = 0, NEW e \in Endpoint, SendChunk(e)
  PROVE  Roomy(c, sk'[c], sk'[Peer(c)], net'[c], wrote'[c], Len(got'[Peer(c)]))
<1>1. PICK r, g, q : r = Peer(c) /\ g = Len(got[r]) /\ q = Received(r)
  OBVIOUS
<1>2. Roomy(c, sk[c], sk[r], net[c], wrote[c], g)
  BY <1>1 DEF Room
<1>3. /\ r \in Endpoint /\ r # c /\ sk[c] \in Sock /\ sk[r].chunk = 0 /\ wrote[c] \in Nat
  <2>1. OneWay(c, r, g, q)
    BY <1>1, OneWayFacts
  <2> QED
    BY <1>1, <2>1 DEF OneWay
<1>4. e = c
  <2>1. e # r
    BY <1>3 DEF SendChunk
  <2> QED
    BY <1>1, <2>1, Peers
<1>5. PICK data, p : /\ data = [i \in 1..sk[c].chunk |-> wrote[c] + i]
                     /\ p = tcp_send_packet(sk[c], data)
  OBVIOUS
<1>6. /\ sk'[c] = [p.sock EXCEPT !.chunk = 0] /\ sk'[r] = sk[r] /\ net'[c] = net[c]
      /\ wrote'[c] = wrote[c] + sk[c].chunk /\ got' = got
  BY <1>1, <1>3, <1>4, <1>5 DEF SendChunk, IInv, Typing
<1>7. PICK nxt, buf : p.sock = [sk[c] EXCEPT !.snd_nxt = nxt, !.send_buf = buf, !.timer = TRUE]
  BY <1>5 DEF tcp_send_packet
<1>8. /\ sk'[c].state = sk[c].state /\ sk'[c].snd_una = sk[c].snd_una
      /\ sk'[c].snd_wnd = sk[c].snd_wnd /\ sk'[c].chunk = 0
  BY <1>3, <1>6, <1>7 DEF Sock
<1>9. wrote'[c] + sk'[c].chunk = wrote[c] + sk[c].chunk
  <2>1. sk[c].chunk \in Nat
    BY <1>3 DEF Sock
  <2> QED
    BY <1>3, <1>6, <1>8, <2>1
<1> QED
  BY <1>1, <1>2, <1>6, <1>8, <1>9 DEF Roomy

LEMMA TimerKeepsRoom ==
  ASSUME IInv, Room, NEW c \in Endpoint, ToSend[Peer(c)] = 0, NEW e \in Endpoint,
         Retransmit(e) \/ GiveUp(e)
  PROVE  Roomy(c, sk'[c], sk'[Peer(c)], net'[c], wrote'[c], Len(got'[Peer(c)]))
<1>1. PICK r, g, q : r = Peer(c) /\ g = Len(got[r]) /\ q = Received(r)
  OBVIOUS
<1>2. Roomy(c, sk[c], sk[r], net[c], wrote[c], g)
  BY <1>1 DEF Room
<1>3. r \in Endpoint /\ r # c /\ sk[c] \in Sock
  <2>1. OneWay(c, r, g, q)
    BY <1>1, OneWayFacts
  <2> QED
    BY <1>1, <2>1 DEF OneWay
<1>4. e = c
  <2>1. e # r
    BY <1>2 DEF Roomy, Retransmit, GiveUp, TimerExpired
  <2> QED
    BY <1>1, <2>1, Peers
<1>5. /\ sk'[r] = sk[r] /\ net'[c] = net[c] /\ wrote' = wrote /\ got' = got
  BY <1>1, <1>3, <1>4 DEF Retransmit, GiveUp, IInv, Typing
<1>6. \/ \E buf : sk'[c] = [sk[c] EXCEPT !.send_buf = buf]
      \/ sk'[c] = [sk[c] EXCEPT !.state = "CLOSED", !.timer = FALSE]
  <2>1. CASE Retransmit(e)
    BY <1>3, <1>4, <2>1 DEF Retransmit, IInv, Typing
  <2>2. CASE GiveUp(e)
    BY <1>3, <1>4, <2>2 DEF GiveUp, IInv, Typing
  <2> QED
    BY <2>1, <2>2
<1>7. /\ sk'[c].state \in {sk[c].state, "CLOSED"} /\ sk'[c].snd_una = sk[c].snd_una
      /\ sk'[c].snd_wnd = sk[c].snd_wnd /\ sk'[c].chunk = sk[c].chunk
  BY <1>3, <1>6 DEF Sock
<1> QED
  BY <1>1, <1>2, <1>5, <1>7 DEF Roomy

(***************************************************************************)
(* A lost ack is like one that is not taken.                               *)
(***************************************************************************)
LEMMA LoseKeepsRoom ==
  ASSUME IInv, Room, ~Reordering, NEW c \in Endpoint, ToSend[Peer(c)] = 0,
         NEW e \in Endpoint, Lose(e)
  PROVE  Roomy(c, sk'[c], sk'[Peer(c)], net'[c], wrote'[c], Len(got'[Peer(c)]))
<1>1. PICK r, g, q : r = Peer(c) /\ g = Len(got[r]) /\ q = Received(r)
  OBVIOUS
<1>2. Roomy(c, sk[c], sk[r], net[c], wrote[c], g)
  BY <1>1 DEF Room
<1>3. /\ r \in Endpoint /\ r # c /\ sk[c] \in Sock /\ net[c] \in Seq(Segments)
      /\ g \in Nat /\ q \in Nat /\ q = g + Len(sk[r].rcv_buf) /\ Limit(q, g) \in Nat
      /\ Off(c, sk[c].snd_una) \in 0..q
      /\ \A i \in 1..Len(net[c]) : Off(c, net[c][i].ack) \in 0..q
  <2>1. OneWay(c, r, g, q)
    BY <1>1, OneWayFacts
  <2> QED
    BY <1>1, <2>1 DEF OneWay
<1>4. sk' = sk /\ wrote' = wrote /\ got' = got
  BY DEF Lose
<1>5. CASE e = r
  <2>1. net'[c] = net[c]
    BY <1>3, <1>5 DEF Lose, IInv, Typing
  <2> QED
    BY <1>1, <1>2, <1>4, <2>1
<1>6. CASE e = c
  <2>1. net[c] # << >> /\ net'[c] = RemoveAt(net[c], 1)
    BY <1>3, <1>6 DEF Lose, Arrived, IInv, Typing
  <2>2. Windows(c, sk[c].snd_una, sk[c].snd_wnd, net[c], Limit(q, g))
    BY <1>2, <1>3 DEF Roomy
  <2>3. PICK u, w : u = sk[c].snd_una /\ w = sk[c].snd_wnd
    OBVIOUS
  <2>4. w \in Nat /\ Off(c, u) \in Int /\ \A i \in 1..Len(net[c]) : Off(c, net[c][i].ack) \in Int
    <3>1. w \in 1..Capacity /\ Capacity \in Nat
      BY <1>3, <2>3, StreamAssumption DEF Sock
    <3> QED
      BY <1>3, <2>3, <3>1
  <2>5. Windows(c, u, w, RemoveAt(net[c], 1), Limit(q, g))
    BY <1>3, <2>1, <2>2, <2>3, <2>4, WindowsTaken
  <2> QED
    BY <1>1, <1>2, <1>3, <1>4, <2>1, <2>3, <2>5 DEF Roomy
<1> QED
  BY <1>1, <1>5, <1>6, Peers

LEMMA ReadKeepsRoom ==
  ASSUME IInv, Room, NEW c \in Endpoint, ToSend[Peer(c)] = 0, NEW e \in Endpoint, Read(e)
  PROVE  Roomy(c, sk'[c], sk'[Peer(c)], net'[c], wrote'[c], Len(got'[Peer(c)]))
<1>1. PICK r, g, q : r = Peer(c) /\ g = Len(got[r]) /\ q = Received(r)
  OBVIOUS
<1>2. Roomy(c, sk[c], sk[r], net[c], wrote[c], g)
  BY <1>1 DEF Room
<1>3. /\ r \in Endpoint /\ r # c /\ sk[c] \in Sock /\ sk[r] \in Sock
      /\ net[c] \in Seq(Segments) /\ wrote[c] \in Nat
      /\ g \in Nat /\ q \in Nat /\ q = g + Len(sk[r].rcv_buf) /\ Limit(q, g) \in Nat
      /\ Off(c, sk[c].snd_una) \in 0..q
      /\ \A i \in 1..Len(net[c]) : Off(c, net[c][i].ack) \in 0..q
  <2>1. OneWay(c, r, g, q)
    BY <1>1, OneWayFacts
  <2> QED
    BY <1>1, <2>1 DEF OneWay
<1>4. net' = net /\ wrote' = wrote
  BY DEF Read
<1>5. PICK len, buf : /\ len = Len(sk[e].rcv_buf)
                      /\ \E n \in 1..ReadSize : buf = SubSeq(sk[e].rcv_buf, 1, Smaller(n, len))
                      /\ got'[e] = got[e] \o buf
                      /\ sk' = [sk EXCEPT ![e].rcv_buf = SubSeq(@, Len(buf) + 1, len)]
                      /\ got' = [got EXCEPT ![e] = got[e] \o buf]
                      /\ buf \in Seq(Nat) /\ Len(buf) <= len
  <2>1. sk[e].rcv_buf \in Seq(Nat) /\ got \in [Endpoint -> Seq(Nat)] /\ ReadSize \in Nat \ {0}
    BY StreamAssumption DEF IInv, Typing, Sock
  <2>2. PICK n, k :
          /\ n \in 1..ReadSize /\ k = Smaller(n, Len(sk[e].rcv_buf))
          /\ got' = [got EXCEPT ![e] = @ \o SubSeq(sk[e].rcv_buf, 1, k)]
          /\ sk' = [sk EXCEPT ![e].rcv_buf = SubSeq(@, k + 1, Len(@))]
    BY DEF Read
  <2>3. k \in 0..Len(sk[e].rcv_buf)
    BY <2>1, <2>2 DEF Smaller
  <2>4. SubSeq(sk[e].rcv_buf, 1, k) \in Seq(Nat) /\ Len(SubSeq(sk[e].rcv_buf, 1, k)) = k
    BY <2>1, <2>3
  <2>5. sk' = [sk EXCEPT ![e].rcv_buf = SubSeq(sk[e].rcv_buf, k + 1, Len(sk[e].rcv_buf))]
    BY <2>2 DEF IInv, Typing
  <2>6. k <= Len(sk[e].rcv_buf)
    BY <2>1, <2>3
  <2> QED
    BY <2>1, <2>2, <2>4, <2>6
<1>6. sk[e].rcv_buf \in Seq(Nat) /\ len \in Nat /\ Len(buf) \in Nat
  <2>1. sk[e].rcv_buf \in Seq(Nat)
    BY DEF IInv, Typing, Sock
  <2>2. len \in Nat
    BY <1>5, <2>1
  <2>3. Len(buf) \in Nat
    BY <1>5
  <2> QED
    BY <2>1, <2>2, <2>3
<1>7. PICK rest : rest = SubSeq(sk[e].rcv_buf, Len(buf) + 1, len)
  OBVIOUS
<1>8. Len(rest) = len - Len(buf)
  <2>1. PICK b, m : b = sk[e].rcv_buf /\ m = Len(buf)
    OBVIOUS
  <2>2. b \in Seq(Nat) /\ m \in Nat /\ m <= Len(b) /\ rest = SubSeq(b, m + 1, Len(b))
    BY <1>5, <1>6, <1>7, <2>1
  <2>3. Len(rest) = Len(b) - m
    BY ONLY <2>2
  <2> QED
    BY <1>5, <2>1, <2>3
<1>9. sk'[e] = [sk[e] EXCEPT !.rcv_buf = rest]
  BY <1>5, <1>7 DEF IInv, Typing
<1>10. CASE e = c
  <2>1. sk'[r] = sk[r] /\ got'[r] = got[r]
    BY <1>3, <1>5, <1>10 DEF IInv, Typing
  <2>2. /\ sk'[c].state = sk[c].state /\ sk'[c].snd_una = sk[c].snd_una
        /\ sk'[c].snd_wnd = sk[c].snd_wnd /\ sk'[c].chunk = sk[c].chunk
    BY <1>3, <1>9, <1>10 DEF Sock
  <2> QED
    BY <1>1, <1>2, <1>4, <2>1, <2>2 DEF Roomy
<1>11. CASE e = r
  <2>1. sk'[c] = sk[c]
    BY <1>3, <1>5, <1>11 DEF IInv, Typing
  <2>2. /\ sk'[r].state = sk[r].state /\ sk'[r].send_buf = sk[r].send_buf
        /\ sk'[r].rcv_wnd = sk[r].rcv_wnd /\ sk'[r].rcv_buf = rest
    BY <1>3, <1>9, <1>11 DEF Sock
  <2>3. PICK h : h = Len(got'[r])
    OBVIOUS
  <2>4. h = g + Len(buf)
    <3>1. got[r] \in Seq(Nat)
      BY <1>3 DEF IInv, Typing
    <3> QED
      BY <1>1, <1>5, <1>11, <2>3, <3>1
  <2>5. h \in Nat /\ g <= h /\ h + Len(rest) = q
    <3>1. PICK m, x : m = Len(buf) /\ x = Len(sk[r].rcv_buf)
      OBVIOUS
    <3>2. /\ m \in Nat /\ x \in Nat /\ Len(rest) = x - m /\ h = g + m /\ q = g + x
          /\ g \in Nat
      BY <1>3, <1>5, <1>6, <1>8, <1>11, <2>4, <3>1
    <3> QED
      BY ONLY <3>2
  <2>6. Limit(q, h) \in Nat /\ Limit(q, g) <= Limit(q, h)
    BY <1>3, <2>5, LimitGrows
  <2>7. Told(sk'[r], h)
    <3>1. sk[r].rcv_wnd \in Int
      BY <1>3 DEF Sock
    <3>2. q + sk[r].rcv_wnd <= Limit(q, g)
      BY <1>2, <1>3 DEF Roomy, Told
    <3>3. q + sk[r].rcv_wnd <= Limit(q, h)
      BY ONLY <1>3, <2>6, <3>1, <3>2
    <3> QED
      BY <2>2, <2>5, <3>3 DEF Told
  <2>8. wrote[c] + sk[c].chunk <= Limit(q, h)
    <3>1. sk[c].chunk \in Nat
      BY <1>3 DEF Sock
    <3>2. wrote[c] + sk[c].chunk <= Limit(q, g)
      BY <1>2, <1>3 DEF Roomy
    <3> QED
      BY ONLY <1>3, <2>6, <3>1, <3>2
  <2>9. Windows(c, sk[c].snd_una, sk[c].snd_wnd, net[c], Limit(q, h))
    <3>1. Windows(c, sk[c].snd_una, sk[c].snd_wnd, net[c], Limit(q, g))
      BY <1>2, <1>3 DEF Roomy
    <3>2. PICK u, w : u = sk[c].snd_una /\ w = sk[c].snd_wnd
      OBVIOUS
    <3>3. w \in Nat /\ Off(c, u) \in Int
          /\ \A i \in 1..Len(net[c]) : Off(c, net[c][i].ack) \in Int
      <4>1. w \in 1..Capacity /\ Capacity \in Nat
        BY <1>3, <3>2, StreamAssumption DEF Sock
      <4> QED
        BY <1>3, <3>2, <4>1
    <3>4. Windows(c, u, w, net[c], Limit(q, h))
      BY <1>3, <2>6, <3>1, <3>2, <3>3, WindowsKept
    <3> QED
      BY <3>2, <3>4
  <2> QED
    BY <1>1, <1>2, <1>4, <2>1, <2>2, <2>3, <2>5, <2>7, <2>8, <2>9 DEF Roomy
<1> QED
  BY <1>1, <1>10, <1>11, Peers

LEMMA ReceiveKeepsRoom ==
  ASSUME IInv, Room, ~Reordering, NEW c \in Endpoint, ToSend[Peer(c)] = 0,
         NEW e \in Endpoint, Receive(e)
  PROVE  Roomy(c, sk'[c], sk'[Peer(c)], net'[c], wrote'[c], Len(got'[Peer(c)]))
<1>1. PICK r, g, q, n : r = Peer(c) /\ g = Len(got[r]) /\ q = Received(r) /\ n = wrote[c]
  OBVIOUS
<1>2. Roomy(c, sk[c], sk[r], net[c], n, g)
  BY <1>1 DEF Room
<1>3. /\ r \in Endpoint /\ r # c /\ Peer(r) = c /\ sk[c] \in Sock /\ sk[r] \in Sock /\ wrote[r] = 0
      /\ net[c] \in Seq(Segments) /\ n \in Nat /\ n \in 0..(Half - 1)
      /\ g \in Nat /\ q \in Nat /\ q = g + Len(sk[r].rcv_buf) /\ Limit(q, g) \in Nat
      /\ ReceiverOK(r, sk[r], g, n) /\ SenderOK(r, sk[r], 0, Received(c))
      /\ Off(c, sk[c].snd_una) \in 0..q
      /\ \A i \in 1..Len(net[c]) : /\ Off(c, net[c][i].ack) \in 0..q
                                   /\ net[c][i].data = << >>
  <2>1. OneWay(c, r, g, q)
    BY <1>1, OneWayFacts
  <2> QED
    BY <1>1, <2>1 DEF OneWay
<1>4. PICK cb, p : /\ net[e] # << >> /\ cb = net[e][1] /\ p = tcp_process(sk[e], cb)
                   /\ sk' = [sk EXCEPT ![e] = p.sock]
                   /\ net' = [net EXCEPT ![e] = RemoveAt(@, 1), ![Peer(e)] = Sent(@, p.out)]
                   /\ wrote' = wrote /\ got' = got
  <2>1. net[e] \in Seq(Segments)
    BY DEF IInv, Typing
  <2>2. \A i \in Arrived(e) : i = 1 /\ net[e] # << >>
    BY <2>1 DEF Arrived
  <2> QED
    BY <2>2 DEF Receive
<1>5. net[e] \in Seq(Segments) /\ cb \in Segments
  <2>1. net[e] \in Seq(Segments)
    BY DEF IInv, Typing
  <2> QED
    BY <1>4, <2>1
<1>6. PICK u, w : u = sk[c].snd_una /\ w = sk[c].snd_wnd
  OBVIOUS
<1>7. /\ w \in Nat /\ Off(c, u) \in Int
      /\ \A i \in 1..Len(net[c]) : Off(c, net[c][i].ack) \in Int
      /\ Windows(c, u, w, net[c], Limit(q, g))
  <2>1. w \in 1..Capacity /\ Capacity \in Nat
    BY <1>3, <1>6, StreamAssumption DEF Sock
  <2>2. Windows(c, u, w, net[c], Limit(q, g))
    BY <1>2, <1>3, <1>6 DEF Roomy
  <2> QED
    BY <1>3, <1>6, <2>1, <2>2
<1>8. CASE e = c
  <2>1. /\ sk'[c] = p.sock /\ sk'[r] = sk[r] /\ net'[c] = RemoveAt(net[c], 1)
    BY <1>1, <1>3, <1>4, <1>8 DEF IInv, Typing
  <2>2. cb.data = << >>
    BY <1>3, <1>4, <1>5, <1>8
  <2>3. sk[c].state # "ABORTED"
    BY <1>2 DEF Roomy
  <2>4. /\ p.sock.state # "ABORTED" /\ p.sock.chunk = sk[c].chunk
        /\ p.sock.snd_una \in {u, cb.ack}
        /\ \/ p.sock.snd_una = u /\ p.sock.snd_wnd = w
           \/ p.sock.snd_wnd = cb.rwnd
    BY <1>3, <1>4, <1>5, <1>6, <1>8, <2>2, <2>3, SenderIsTold
  <2>5. PICK u2, w2, lim : u2 = p.sock.snd_una /\ w2 = p.sock.snd_wnd /\ lim = Limit(q, g)
    OBVIOUS
  <2>6. Windows(c, u2, w2, RemoveAt(net[c], 1), lim)
    <3>1. net[c] # << >> /\ cb = net[c][1]
      BY <1>4, <1>8
    <3>2. u2 \in {u, net[c][1].ack} /\ ((u2 = u /\ w2 = w) \/ w2 = net[c][1].rwnd)
      BY <2>4, <2>5, <3>1
    <3>3. lim \in Nat /\ Windows(c, u, w, net[c], lim)
      BY <1>3, <1>7, <2>5
    <3>4. PICK link : link = net[c]
      OBVIOUS
    <3>5. /\ w \in Nat /\ link \in Seq(Segments) /\ link # << >> /\ lim \in Nat
          /\ Off(c, u) \in Int /\ \A i \in 1..Len(link) : Off(c, link[i].ack) \in Int
          /\ Windows(c, u, w, link, lim)
          /\ u2 \in {u, link[1].ack} /\ ((u2 = u /\ w2 = w) \/ w2 = link[1].rwnd)
      BY <1>3, <1>7, <3>1, <3>2, <3>3, <3>4
    <3>6. Windows(c, u2, w2, RemoveAt(link, 1), lim)
      BY ONLY <3>5, WindowsTaken
    <3> QED
      BY <3>4, <3>6
  <2> QED
    BY <1>1, <1>2, <1>3, <1>4, <2>1, <2>4, <2>5, <2>6 DEF Roomy
<1>9. CASE e = r
  <2>1. /\ sk'[r] = p.sock /\ sk'[c] = sk[c] /\ net'[c] = Sent(net[c], p.out)
    BY <1>1, <1>3, <1>4, <1>9 DEF IInv, Typing
  <2>2. Stretch(c, cb.seq, cb.data, n) /\ Acks(r, cb.ack, Received(c))
    <3>1. SegmentOf(Peer(e), cb, wrote[Peer(e)], Received(Peer(e)))
      BY <1>4, <1>5 DEF IInv
    <3> QED
      BY <1>1, <1>3, <1>9, <3>1 DEF SegmentOf
  <2>3. PICK t : t = sk[r]
    OBVIOUS
  <2>4. /\ t \in Sock /\ t.state # "ABORTED" /\ t.send_buf = << >> /\ Told(t, g)
        /\ n + sk[c].chunk <= Limit(q, g) /\ n <= Limit(g + Len(t.rcv_buf), g)
    <3>1. n + sk[c].chunk <= Limit(q, g)
      BY <1>2, <1>3 DEF Roomy
    <3>2. sk[c].chunk \in Nat
      BY <1>3 DEF Sock
    <3>3. n <= Limit(q, g)
      BY ONLY <1>3, <3>1, <3>2
    <3> QED
      BY <1>2, <1>3, <2>3, <3>1, <3>3 DEF Roomy
  <2>5. /\ p.sock.state # "ABORTED" /\ p.sock.send_buf = << >> /\ Told(p.sock, g)
        /\ Len(p.out) <= 1
        /\ \A i \in 1..Len(p.out) : /\ p.out[i].ack = p.sock.rcv_nxt
                                    /\ p.out[i].rwnd = p.sock.rcv_wnd
    <3>1. /\ r \in Endpoint /\ g \in Nat /\ n \in 0..(Half - 1) /\ cb \in Segments
          /\ ReceiverOK(r, t, g, n) /\ Stretch(Peer(r), cb.seq, cb.data, n)
          /\ p = tcp_process(t, cb)
      BY <1>3, <1>4, <1>5, <1>9, <2>2, <2>3
    <3> QED
      BY ONLY <2>4, <3>1, ReceiverTells
  <2>6. /\ p.sock \in Sock /\ Len(t.rcv_buf) <= Len(p.sock.rcv_buf)
        /\ ReceiverOK(r, p.sock, g, n) /\ p.out \in Seq(Segments)
    <3>1. PICK m, z : m = Received(c) /\ z = 0
      OBVIOUS
    <3>2. Half \in Nat \ {0} /\ m \in 0..z /\ z \in 0..(Half - 1)
      <4>1. Received(c) \in 0..wrote[r] /\ wrote[r] = 0 /\ Half \in Nat \ {0}
        BY <1>1, <1>3, Bounds, SpaceIsTwoHalves
      <4> QED
        BY <3>1, <4>1
    <3>3. SenderOK(r, t, z, m) /\ ReceiverOK(r, t, g, n) /\ p = tcp_process(t, cb)
      BY <1>3, <1>4, <1>9, <2>3, <3>1
    <3>4. Stretch(Peer(r), cb.seq, cb.data, n) /\ Acks(r, cb.ack, m)
      BY <1>3, <2>2, <3>1
    <3>5. Processed(r, t, p, g, n, z, m)
      BY ONLY <1>3, <1>5, <2>4, <3>2, <3>3, <3>4, ProcessKeeps
    <3> QED
      BY <3>5 DEF Processed
  <2>7. PICK b, lim : b = g + Len(p.sock.rcv_buf) /\ lim = Limit(b, g)
    OBVIOUS
  <2>8. b \in Nat /\ q <= b /\ b <= n
    <3>1. PICK x, y : x = Len(t.rcv_buf) /\ y = Len(p.sock.rcv_buf)
      OBVIOUS
    <3>2. x \in Nat /\ y \in Nat /\ x <= y
      BY <2>4, <2>6, <3>1 DEF Sock
    <3>3. g + y <= n /\ q = g + x /\ b = g + y
      BY <1>3, <2>3, <2>6, <2>7, <3>1 DEF ReceiverOK
    <3> QED
      BY ONLY <1>3, <3>2, <3>3
  <2>9. lim \in Nat /\ Limit(q, g) <= lim
    <3>1. g <= g
      BY <1>3
    <3> QED
      BY ONLY <1>3, <2>7, <2>8, <3>1, LimitGrows
  <2>10. Windows(c, u, w, net[c], lim)
    BY <1>3, <1>7, <2>9, WindowsKept
  <2>11. Off(c, p.sock.rcv_nxt) = b
    <3>1. p.sock.rcv_nxt = Num(c, b)
      BY <1>3, <2>5, <2>6, <2>7 DEF ReceiverOK
    <3>2. b \in Nat /\ b < Half
      BY <1>3, <2>8, SpaceIsTwoHalves
    <3> QED
      BY <3>1, <3>2, OffNum
  <2>12. \A i \in 1..Len(p.out) : /\ Off(c, p.out[i].ack) = b
                                  /\ b + p.out[i].rwnd <= lim
    BY <2>5, <2>7, <2>11 DEF Told
  <2>13. Off(c, u) <= b /\ \A i \in 1..Len(net[c]) : Off(c, net[c][i].ack) <= b
    <3>1. \A x \in 0..q : x <= b
      BY <1>3, <2>8
    <3> QED
      BY <1>3, <1>6, <3>1
  <2>14. Windows(c, u, w, Sent(net[c], p.out), lim)
    <3>1. PICK out : out = p.out
      OBVIOUS
    <3>2. /\ out \in Seq(Segments) /\ Len(out) <= 1 /\ b \in Int
          /\ \A i \in 1..Len(out) : Off(c, out[i].ack) = b /\ b + out[i].rwnd <= lim
      BY <2>5, <2>6, <2>8, <2>12, <3>1
    <3>3. Windows(c, u, w, Sent(net[c], out), lim)
      BY ONLY <1>3, <1>7, <2>9, <2>10, <2>13, <3>2, WindowsSent
    <3> QED
      BY <3>1, <3>3
  <2>15. n + sk[c].chunk <= lim
    <3>1. sk[c].chunk \in Nat
      BY <1>3 DEF Sock
    <3> QED
      BY ONLY <1>3, <2>4, <2>9, <3>1
  <2> QED
    BY <1>1, <1>2, <1>4, <1>6, <2>1, <2>5, <2>7, <2>14, <2>15 DEF Roomy
<1> QED
  BY <1>1, <1>8, <1>9, Peers

LEMMA NextKeepsRoom ==
  ASSUME IInv, Room, ~Reordering, [Next]_vars
  PROVE  Room'
<1> SUFFICES ASSUME NEW c \in Endpoint, ToSend[Peer(c)] = 0
             PROVE  Roomy(c, sk'[c], sk'[Peer(c)], net'[c], wrote'[c], Len(got'[Peer(c)]))
  BY DEF Room
<1>1. CASE UNCHANGED vars
  BY <1>1 DEF vars, Room
<1>2. CASE Next
  <2>1. PICK e \in Endpoint : \/ CutChunk(e) \/ SendChunk(e) \/ Retransmit(e) \/ GiveUp(e)
                              \/ Receive(e) \/ Lose(e) \/ Read(e)
    BY <1>2 DEF Next
  <2> QED
    BY <2>1, CutChunkKeepsRoom, SendChunkKeepsRoom, TimerKeepsRoom, ReceiveKeepsRoom,
       LoseKeepsRoom, ReadKeepsRoom
<1> QED
  BY <1>1, <1>2

(***************************************************************************)
(* A stream in one direction over links that keep their order.             *)
(***************************************************************************)
OneWayInOrder == ~Reordering /\ \E e \in Endpoint : ToSend[Peer(e)] = 0

LEMMA RoomAlways == Spec /\ ShortStreams /\ OneWayInOrder => [](IInv /\ Room)
<1>1. OneWayInOrder /\ IInv /\ Room /\ [Next]_vars => (IInv /\ Room)'
  BY NextKeepsInv, NextKeepsRoom DEF OneWayInOrder
<1>2. OneWayInOrder /\ [Next]_vars => OneWayInOrder'
  BY DEF OneWayInOrder
<1> QED
  BY <1>1, <1>2, InitGivesInv, InitHasRoom, PTL DEF Spec

(***************************************************************************)
(* The assert of write_ring_buffer never fails: also what waits in the     *)
(* out-of-order list has room in the ring when the gap before it closes    *)
(* (tcp_check_ofo_buf, ring_buffer.h).                                     *)
(***************************************************************************)
THEOREM RingHasRoomAlways == Spec /\ ShortStreams /\ OneWayInOrder => []RingHasRoom
<1>1. ASSUME OneWayInOrder, Room PROVE RingHasRoom
  <2>1. PICK c \in Endpoint : ToSend[Peer(c)] = 0
    BY <1>1 DEF OneWayInOrder
  <2>2. sk[c].state # "ABORTED" /\ sk[Peer(c)].state # "ABORTED"
    BY <1>1, <2>1 DEF Room, Roomy
  <2> QED
    BY <2>2, Peers DEF RingHasRoom
<1>2. OneWayInOrder => []OneWayInOrder
  <2>1. OneWayInOrder => OneWayInOrder'
    BY DEF OneWayInOrder
  <2> QED
    BY <2>1, PTL
<1> QED
  BY <1>1, <1>2, RoomAlways, PTL

(***************************************************************************)
(* What is kept for retransmission ends within the free space of the       *)
(* peer's ring, or is the one byte a full ring invites (handle_ack,        *)
(* tcp_sock_write, handle_recv_data).                                      *)
(***************************************************************************)
THEOREM SendsIntoFreeSpaceAlways ==
  Spec /\ ShortStreams /\ OneWayInOrder => []SendsIntoFreeSpace
<1>1. ASSUME OneWayInOrder, IInv, Room PROVE SendsIntoFreeSpace
  <2>1. PICK c \in Endpoint : ToSend[Peer(c)] = 0
    BY <1>1 DEF OneWayInOrder
  <2>2. PICK r, g, q, n, t : /\ r = Peer(c) /\ g = Len(got[r]) /\ q = Received(r)
                             /\ n = wrote[c] /\ t = sk[r]
    OBVIOUS
  <2>3. Roomy(c, sk[c], t, net[c], n, g)
    BY <1>1, <2>1, <2>2 DEF Room
  <2>4. /\ r \in Endpoint /\ r # c /\ Peer(r) = c /\ sk[c] \in Sock /\ t \in Sock
        /\ n \in Nat /\ n \in 0..(Half - 1) /\ g \in Nat /\ q \in Nat
        /\ q = g + Len(t.rcv_buf) /\ Len(t.rcv_buf) \in Nat
        /\ n + sk[c].chunk <= ToSend[c] /\ ToSend[c] \in Nat
        /\ ToSend[c] + Capacity < Half
        /\ q \in 0..n
        /\ ReceiverOK(r, t, g, n) /\ SenderOK(c, sk[c], n, q)
    <3>1. OneWay(c, r, g, q)
      BY <1>1, <2>1, <2>2, OneWayFacts
    <3> QED
      BY <2>2, <3>1 DEF OneWay
  <2>5. PICK b, f : b = Len(t.rcv_buf) /\ f = AtLeastOne(FreeSpace(t))
    OBVIOUS
  <2>6. Capacity \in Nat \ {0} /\ Half \in Nat /\ b <= Capacity
    BY <2>4, <2>5, StreamAssumption, SpaceIsTwoHalves DEF ReceiverOK
  <2>7. f = IF Capacity - b > 1 THEN Capacity - b ELSE 1
    BY <2>5 DEF AtLeastOne, FreeSpace
  <2>8. Limit(q, g) = q + f /\ f \in Nat /\ f <= Capacity
    <3>1. Limit(q, g) = IF q + 1 > g + Capacity THEN q + 1 ELSE g + Capacity
      BY DEF Limit
    <3>2. q = g + b /\ b \in Nat /\ g \in Nat
      BY <2>4, <2>5
    <3> QED
      BY ONLY <2>6, <2>7, <3>1, <3>2
  <2>9. sk[c].chunk \in Nat
    BY <2>4 DEF Sock
  <2>10. n <= q + f
    <3>1. n + sk[c].chunk <= Limit(q, g)
      BY <2>3, <2>4 DEF Roomy
    <3> QED
      BY ONLY <2>4, <2>8, <2>9, <3>1
  <2>11. q + f \in Nat /\ q + f < Half
    <3>1. PICK k : k = sk[c].chunk
      OBVIOUS
    <3>2. PICK m : m = ToSend[c]
      OBVIOUS
    <3>3. /\ k \in Nat /\ m \in Nat /\ n + k <= m /\ m + Capacity < Half /\ q \in 0..n
          /\ n \in Nat /\ q \in Nat
      BY <2>4, <2>9, <3>1, <3>2
    <3> QED
      BY ONLY <2>6, <2>8, <3>3
  <2>12. Plus(t.rcv_nxt, f) = Num(c, q + f)
    <3>1. t.rcv_nxt = Num(c, q)
      BY <2>3, <2>4 DEF ReceiverOK, Roomy
    <3> QED
      BY <2>4, <2>8, <2>11, <3>1, NumPlus
  <2>13. ASSUME NEW i \in DOMAIN sk[c].send_buf
         PROVE  less_or_equal_32b(SeqEnd(sk[c].send_buf[i].seg), Plus(t.rcv_nxt, f))
    <3>1. sk[c].send_buf \in Seq(Buffered)
      BY <2>4 DEF Sock
    <3>2. PICK seg : seg = sk[c].send_buf[i].seg
      OBVIOUS
    <3>3. i \in 1..Len(sk[c].send_buf) /\ seg \in Segments
      <4>1. i \in 1..Len(sk[c].send_buf) /\ sk[c].send_buf[i] \in Buffered
        BY <3>1
      <4> QED
        BY <3>2, <4>1 DEF Buffered
    <3>4. Stretch(c, seg.seq, seg.data, n)
      BY <2>4, <3>2, <3>3 DEF SenderOK
    <3>5. PICK z \in 0..n : SeqEnd(seg) = Num(c, z)
      BY <2>4, <3>3, <3>4, EndOfStretch
    <3>6. z \in Nat /\ z < Half /\ z <= q + f
      <4>1. n \in Nat /\ z \in 0..n /\ Half \in Nat
        BY <2>4, <2>6
      <4> QED
        BY ONLY <2>10, <2>11, <4>1
    <3> QED
      BY <2>11, <2>12, <3>2, <3>5, <3>6, NumCompare
  <2>14. DOMAIN t.send_buf = {}
    BY <2>3 DEF Roomy
  <2>15. ASSUME NEW e \in Endpoint, NEW i \in DOMAIN sk[e].send_buf
         PROVE  less_or_equal_32b(SeqEnd(sk[e].send_buf[i].seg),
                  Plus(sk[Peer(e)].rcv_nxt, AtLeastOne(FreeSpace(sk[Peer(e)]))))
    <3>1. e = c
      BY <2>2, <2>14, Peers
    <3> QED
      BY <2>2, <2>5, <2>13, <3>1
  <2> QED
    BY <2>15 DEF SendsIntoFreeSpace
<1>2. OneWayInOrder => []OneWayInOrder
  <2>1. OneWayInOrder => OneWayInOrder'
    BY DEF OneWayInOrder
  <2> QED
    BY <2>1, PTL
<1> QED
  BY <1>1, <1>2, RoomAlways, PTL
=============================================================================
